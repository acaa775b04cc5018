SPECIFICATION ProjectSpec
CONSTANTS
  p1 = p1
  p2 = p2
  root = root
  ann = ann
  r1 = r1
  r2 = r2
  i1 = i1
  on = on
  off = off
  NotMember = NotMember
  Unused = Unused
  Gone = Gone
  Nobody = Nobody
  Projects <- MCProjects
  Users <- MCUsers
  GlobalAdmins <- MCGlobalAdmins
  Requests <- MCOneRequest
  RoleSets <- MCRoleSets
  ProjectRouteIds <- MCRouteIds
  Rules <- MCRules
  Settings <- MCSettings
PROPERTIES
  RoutesWithinProjects
