SPECIFICATION AccessSpec
CONSTANTS
  p1 = p1
  p2 = p2
  root = root
  ann = ann
  r1 = r1
  on = on
  NotMember = NotMember
  Unused = Unused
  Gone = Gone
  Nobody = Nobody
  Projects <- MCProjects
  Users <- MCUsers
  GlobalAdmins <- MCGlobalAdmins
  Requests <- MCRequests
  RoleSets <- MCRoleSets
  ProjectRouteIds = {}
  Rules = {}
  Settings <- MCSettings
  Member = ann
  Lives <- MCLives
  Leeway = 1
  Longest = 1
  Horizon = 4
PROPERTY
  RolesStayInProject
