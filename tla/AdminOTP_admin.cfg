SPECIFICATION Spec
CONSTANTS
  t1 = t1
  t2 = t2
  r1 = r1
  r2 = r2
  r3 = r3
  s1 = s1
  s2 = s2
  s3 = s3
  NoSecret = NoSecret
  NoTab = NoTab
  Tabs <- MCTabs
  Requests <- MCRequests
  Secrets <- MCSecrets
SYMMETRY Symmetric
INVARIANTS
  CanLogIn
  SetupOfferedWhenOff
PROPERTIES
  ImplementsEnrolment
