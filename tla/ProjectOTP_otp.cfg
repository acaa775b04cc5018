SPECIFICATION Spec
CONSTANTS
  r1 = r1
  r2 = r2
  r3 = r3
  s1 = s1
  s2 = s2
  s3 = s3
  NoSecret = NoSecret
  Requests <- MCRequests
  Secrets <- MCSecrets
SYMMETRY Symmetric
INVARIANTS
  GrantsFollowPolicy
  EnabledIsUsable
PROPERTIES
  OffOnlyWithCode
  ImplementsEnrolment
