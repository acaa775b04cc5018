SPECIFICATION GatewaySpec
CONSTANTS
  p1 = p1
  p2 = p2
  root = root
  ann = ann
  r1 = r1
  on = on
  NotMember = NotMember
  Unused = Unused
  Gone = Gone
  Nobody = Nobody
  Projects <- MCProjects
  Users <- MCUsers
  GlobalAdmins <- MCGlobalAdmins
  Requests <- MCRequests
  RoleSets <- MCRoleSets
  ProjectRouteIds = {}
  Rules = {}
  Settings <- MCSettings
  Member = ann
  Lives = {1}
  Leeway = 1
  Longest = 1
  Horizon = 3
  RouteIds = {1, 2}
  RouteConfigs <- MCAllConfigs
  NoRoute = NoRoute
  HostMaps = {"plain", "renamed"}
  Unroutable <- MCUnroutable
  Clashes <- MCClashes
  StaticPaths <- MCStatic
  NoBreaker = NoBreaker
  MaxEdits = 2
INVARIANTS
  MapNotOlder
  BreakersWereConfigured
  AdmittedHeldRecently
PROPERTIES
  ImplementsReplica
  OutageHarmless
  Converges
  LostRoleLosesAccess
