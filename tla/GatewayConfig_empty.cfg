SPECIFICATION Spec
CONSTANTS
  RouteIds = {1, 2}
  RouteConfigs <- MCDistinctPaths
  NoRoute = NoRoute
  HostMaps = {"plain", "renamed"}
  Unroutable <- MCUnroutable
  Clashes <- MCClashes
  StaticPaths <- MCStatic
  NoBreaker = NoBreaker
  MaxEdits = 2
PROPERTIES
  EmptyMeansOff
