SPECIFICATION Spec
CONSTANTS
  t1 = t1
  t2 = t2
  t3 = t3
  r1 = r1
  r2 = r2
  viewer = viewer
  editor = editor
  NotMember = NotMember
  NoToken = NoToken
  Tokens <- MCTokens
  Requests <- MCRequests
  RoleSets <- MCRoleSets
  Careful <- MCCareful
  Stuck <- MCStuck
SYMMETRY RequestsAndRoles
INVARIANTS
  UnusedTokensLive
  ServedRolesWereHeld
  ExchangedIsDead
  OneHeir
PROPERTIES
  ImplementsSingleUse
  SessionsConserved
