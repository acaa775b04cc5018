SPECIFICATION RouteSpec
CONSTANTS
  r1 = r1
  r2 = r2
  r3 = r3
  Requests <- MCRequests
  FailureThreshold = 3
  Timeout = 2
  Gets = {1, 2}
  Places <- MCPlaces
  Keys = {"items"}
  KeyOf <- MCKeyOf
  TTL <- MCTTL
  Versions = {v1, v2}
  Refused = Refused
  Conns <- MCConns
  Routes = {"shop", "blog"}
  RouteOf <- MCRouteOf
  Counters = {"k1", "k2"}
  CounterOf <- MCCounterOf
  Limit <- MCLimit
  Window <- MCWindow
  MaxLimit = 2
  LongestWindow = 2
INVARIANTS
  CountAgreesWithState
  LimitPerKey
PROPERTIES
  OpenProtectsBackend
  ImplementsAutomaton
  OpenExpires
  HealsAfterRecovery
  HitsAreRecent
  NoNewOutdated
  CatchesUp
  DeniedWhenExhausted
  WindowRunsOut
  Unblocks
