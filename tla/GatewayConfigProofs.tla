------------------------ MODULE GatewayConfigProofs ------------------------
(***************************************************************************)
(* Theorems about the configuration of the gateway, for any routes, hosts, *)
(* bounds and any number of polls, edits, outages and restarts.            *)
(***************************************************************************)
EXTENDS GatewayConfig, TLAPS

-----------------------------------------------------------------------------
\* Facts about the operators of the model.

\* Registered only produces well-typed registries ...
LEMMA RegisteredType ==
  ASSUME NEW table, NEW old, NEW b \in Registered(table, old)
  PROVE  b \in [Targets -> {Params(c) : c \in RouteConfigs} \cup {NoBreaker}]
BY DEF Registered

\* ... in which an entry is either the old one or one the table asks for.
LEMMA RegisteredEntry ==
  ASSUME NEW table, NEW old, NEW b \in Registered(table, old), NEW t \in Targets
  PROVE  b[t] = old[t] \/ b[t] \in Wanted(table, t)
BY DEF Registered

\* An edit adds one version and leaves the older ones alone.
LEMMA EditShape ==
  ASSUME NEW x, TypeOK, Edit(x)
  PROVE  /\ Len(log') = Len(log) + 1
         /\ \A v \in 1 .. Len(log) : log'[v] = log[v]
         /\ UNCHANGED <<athena, gateway, load, router, breakers, newest, offered, settled>>
BY DEF TypeOK, Edit

\* Every change an administrator can make is an edit of a well-typed snapshot.
LEMMA EditTyped ==
  ASSUME TypeOK,
         \/ \E i \in RouteIds, c \in RouteConfigs : CreateRoute(i, c) \/ UpdateRoute(i, c)
         \/ \E i \in RouteIds : DeleteRoute(i)
         \/ \E h \in HostMaps : SetHosts(h)
  PROVE  \E x \in Snapshots : Edit(x)
<1>1. Current \in Snapshots
  BY DEF TypeOK, Current
<1>2. ASSUME NEW i \in RouteIds, NEW c \in RouteConfigs \cup {NoRoute}
      PROVE  [Current EXCEPT !.routes[i] = c] \in Snapshots
  BY <1>1 DEF Snapshots, Tables
<1>3. ASSUME NEW h \in HostMaps
      PROVE  [Current EXCEPT !.hosts = h] \in Snapshots
  BY <1>1 DEF Snapshots
<1>4. CASE \E i \in RouteIds, c \in RouteConfigs : CreateRoute(i, c) \/ UpdateRoute(i, c)
  BY <1>2, <1>4 DEF CreateRoute, UpdateRoute
<1>5. CASE \E i \in RouteIds : DeleteRoute(i)
  BY <1>2, <1>5 DEF DeleteRoute
<1>6. CASE \E h \in HostMaps : SetHosts(h)
  BY <1>3, <1>6 DEF SetHosts
<1>7. QED BY <1>4, <1>5, <1>6

\* The next-state relation by what it does to the configuration.
LEMMA Steps ==
  ASSUME TypeOK, Next
  PROVE  \/ Launch \/ Kill
         \/ FetchRoutes \/ RoutesUnavailable \/ FetchMap \/ Reload \/ ReloadFatal
         \/ \E x \in Snapshots : Edit(x)
         \/ Outage \/ Return \/ Settle
BY EditTyped DEF Next, Poll

-----------------------------------------------------------------------------
\* Types.

LEMMA TypeInit == Init => TypeOK
<1>1. SUFFICES ASSUME Init PROVE TypeOK
  OBVIOUS
<1>2. PICK h \in HostMaps : log = <<[routes |-> [i \in RouteIds |-> NoRoute], hosts |-> h]>>
  BY <1>1 DEF Init
<1>3. log \in Seq(Snapshots) /\ Len(log) = 1
  BY <1>2 DEF Snapshots, Tables
<1>4. /\ athena = "up" /\ gateway = "off" /\ newest = 0 /\ offered = {} /\ settled \in BOOLEAN
      /\ load = [pc |-> "idle", routes |-> 0, map |-> 0]
      /\ router = [routes |-> 0, map |-> 0]
  BY <1>1 DEF Init, NoLoad, NoRouter
<1>5. breakers \in [Targets -> {Params(c) : c \in RouteConfigs} \cup {NoBreaker}]
  BY <1>1 DEF Init
<1>6. log \in Seq(Snapshots) /\ Len(log) > 0 /\ newest \in 0 .. Len(log)
  BY <1>3, <1>4
<1>7. /\ load \in Loads /\ load.routes <= Len(log) /\ load.map <= Len(log)
      /\ router \in Routers /\ router.routes <= Len(log) /\ router.map <= Len(log)
      /\ load.pc = "idle" /\ ~(router.routes > 0)
  BY <1>3, <1>4 DEF Loads, Routers
<1>8. QED
  BY <1>4, <1>5, <1>6, <1>7 DEF TypeOK

LEMMA TypeStep == TypeOK /\ [Next]_vars => TypeOK'
<1> SUFFICES ASSUME TypeOK, [Next]_vars PROVE TypeOK'
  OBVIOUS
<1> USE DEF TypeOK, Loads, Routers, NoLoad, NoRouter
<1>0. Len(log) \in Nat
  OBVIOUS
<1>1. CASE Launch
  BY <1>1 DEF Launch
<1>2. CASE Kill
  BY <1>2, <1>0 DEF Kill, Exit
<1>3. CASE FetchRoutes
  BY <1>3, <1>0 DEF FetchRoutes
<1>4. CASE RoutesUnavailable
  <2>1. CASE gateway = "starting"
    BY <1>4, <1>0, <2>1 DEF RoutesUnavailable, Exit
  <2>2. CASE gateway # "starting"
    BY <1>4, <2>2 DEF RoutesUnavailable
  <2>3. QED BY <2>1, <2>2
<1>5. CASE FetchMap
  <2>1. PICK m \in 0 .. Len(log) : load' = [load EXCEPT !.pc = "ready", !.map = m]
    <3>1. 0 \in 0 .. Len(log) /\ Len(log) \in 0 .. Len(log)
      BY <1>0
    <3>2. QED BY <1>5, <3>1 DEF FetchMap
  <2>2. load' \in Loads /\ load'.routes = load.routes /\ load'.map = m /\ load'.pc = "ready"
    <3> HIDE DEF TypeOK, Loads
    <3>1. load \in Loads /\ m \in Nat
      BY <1>0 DEF TypeOK
    <3>2. QED BY <2>1, <3>1 DEF Loads
  <2>3. QED BY <1>5, <1>0, <2>2 DEF FetchMap
<1>6. CASE Reload
  <2>1. breakers' \in [Targets -> {Params(c) : c \in RouteConfigs} \cup {NoBreaker}]
    BY <1>6, RegisteredType DEF Reload
  <2>2. /\ load.routes \in 1 .. Len(log) /\ load.map \in 0 .. Len(log)
        /\ load \in Loads
    BY <1>6, <1>0 DEF Reload
  <2>3. /\ router' \in Routers /\ router'.routes = load.routes /\ router'.map = load.map
        /\ offered' \subseteq 1 .. Len(log) /\ newest' \in 0 .. Len(log)
    <3>1. load.routes \in Nat /\ load.map \in Nat
      BY <1>0, <2>2
    <3>2. router' = [routes |-> load.routes, map |-> load.map]
      BY <1>6 DEF Reload
    <3>3. offered \subseteq 1 .. Len(log) /\ offered' = offered \cup {load.routes}
      BY <1>6 DEF Reload
    <3>4. newest' = load.routes /\ load.routes \in 0 .. Len(log)
      BY <1>6, <1>0, <2>2 DEF Reload
    <3> HIDE DEF TypeOK, Loads
    <3>5. QED BY <2>2, <3>1, <3>2, <3>3, <3>4
  <2>4. load' = NoLoad /\ gateway' = "up" /\ UNCHANGED <<log, athena, settled>>
    BY <1>6 DEF Reload
  <2>5. QED BY <1>0, <2>1, <2>2, <2>3, <2>4
<1>7. CASE ReloadFatal
  BY <1>7, <1>0 DEF ReloadFatal, Exit
<1>8. CASE \E x \in Snapshots : Edit(x)
  <2>1. PICK x \in Snapshots : Edit(x)
    BY <1>8
  <2>2. log' \in Seq(Snapshots) /\ Len(log') = Len(log) + 1
    BY <2>1 DEF Edit
  <2>3. QED BY <1>0, <2>1, <2>2 DEF Edit
<1>9. CASE Outage \/ Return \/ Settle
  BY <1>9 DEF Outage, Return, Settle
<1>10. CASE UNCHANGED vars
  BY <1>10 DEF vars
<1>11. QED
  BY <1>1, <1>2, <1>3, <1>4, <1>5, <1>6, <1>7, <1>8, <1>9, <1>10, Steps

\* The type invariant of the gateway, with what it says of the versions: none
\* is newer than the log, and a router is served exactly while the gateway is up.
THEOREM TypeCorrect == Spec => []TypeOK
<1>1. QED BY TypeInit, TypeStep, PTL DEF Spec

-----------------------------------------------------------------------------
\* The order of versions.

\* What makes it inductive that versions only move forward: a load in progress
\* read the routes after the served ones were read, and the map after the
\* routes; nothing newer than `newest' is being served.
Order ==
  /\ load.pc # "idle" => newest <= load.routes
  /\ load.pc = "ready" /\ load.map # 0 => load.map >= load.routes
  /\ router.routes <= newest
  /\ \A v \in offered : v <= newest
  /\ MapNotOlder

LEMMA OrderInit == Init => Order
BY DEF Init, Order, MapNotOlder, NoLoad, NoRouter

LEMMA OrderStep == TypeOK /\ Order /\ [Next]_vars => Order'
<1> SUFFICES ASSUME TypeOK, Order, [Next]_vars PROVE Order'
  OBVIOUS
<1> USE DEF TypeOK, Order, MapNotOlder, Loads, Routers, NoLoad, NoRouter
<1>0. Len(log) \in Nat
  OBVIOUS
<1>1. CASE Launch
  BY <1>1 DEF Launch
<1>2. CASE Kill
  BY <1>2, <1>0 DEF Kill, Exit
<1>3. CASE FetchRoutes
  BY <1>3, <1>0 DEF FetchRoutes
<1>4. CASE RoutesUnavailable
  <2>1. CASE gateway = "starting"
    BY <1>4, <1>0, <2>1 DEF RoutesUnavailable, Exit
  <2>2. CASE gateway # "starting"
    BY <1>4, <2>2 DEF RoutesUnavailable
  <2>3. QED BY <2>1, <2>2
<1>5. CASE FetchMap
  BY <1>5, <1>0 DEF FetchMap
<1>6. CASE Reload
  BY <1>6, <1>0 DEF Reload
<1>7. CASE ReloadFatal
  BY <1>7, <1>0 DEF ReloadFatal, Exit
<1>8. CASE \E x \in Snapshots : Edit(x)
  BY <1>8, EditShape
<1>9. CASE Outage \/ Return \/ Settle
  BY <1>9 DEF Outage, Return, Settle
<1>10. CASE UNCHANGED vars
  BY <1>10 DEF vars
<1>11. QED
  BY <1>1, <1>2, <1>3, <1>4, <1>5, <1>6, <1>7, <1>8, <1>9, <1>10, Steps

\* A served context map is at least as new as the routes served with it.
THEOREM MapFollowsRoutes == Spec => []MapNotOlder
<1>1. Order => MapNotOlder
  BY DEF Order
<1>2. QED BY <1>1, TypeInit, TypeStep, OrderInit, OrderStep, PTL DEF Spec

\* Hot reload implements a replica that serves one published version and only
\* moves forward, through every poll, outage, crash and restart.
THEOREM RefinesReplica == Spec => ImplementsReplica
<1>1. Init => Replica!RInit
  BY DEF Init, Replica!RInit, NoRouter
<1>2. TypeOK /\ Order /\ [Next]_vars => [Replica!RNext]_(Replica!rvars)
  <2> SUFFICES ASSUME TypeOK, Order, [Next]_vars
               PROVE  [Replica!RNext]_(Replica!rvars)
    OBVIOUS
  <2> USE DEF Replica!rvars, Replica!RNext
  <2>0. Len(log) \in Nat
    BY DEF TypeOK
  <2>1. CASE Launch \/ FetchRoutes \/ FetchMap \/ Outage \/ Return \/ Settle \/ UNCHANGED vars
    BY <2>1 DEF Launch, FetchRoutes, FetchMap, Outage, Return, Settle, vars
  <2>2. CASE Kill \/ ReloadFatal
    <3>1. Replica!Stop
      BY <2>2 DEF Kill, ReloadFatal, Exit, NoRouter, Replica!Stop
    <3>2. QED BY <3>1
  <2>3. CASE RoutesUnavailable
    <3>1. CASE gateway = "starting"
      <4>1. Replica!Stop
        BY <2>3, <3>1 DEF RoutesUnavailable, Exit, NoRouter, Replica!Stop
      <4>2. QED BY <4>1
    <3>2. CASE gateway # "starting"
      BY <2>3, <3>2 DEF RoutesUnavailable
    <3>3. QED BY <3>1, <3>2
  <2>4. CASE Reload
    <3>1. load.routes \in newest .. Len(log) /\ load.routes > 0
      BY <2>4, <2>0 DEF Reload, TypeOK, Order, Loads
    <3>2. Replica!Serve
      BY <2>4, <3>1 DEF Reload, Replica!Serve
    <3>3. QED BY <3>2
  <2>5. CASE \E x \in Snapshots : Edit(x)
    <3>1. Replica!Publish
      BY <2>5, EditShape DEF Replica!Publish
    <3>2. QED BY <3>1
  <2>6. QED
    BY <2>1, <2>2, <2>3, <2>4, <2>5, Steps
<1>3. QED
  BY <1>1, <1>2, TypeInit, TypeStep, OrderInit, OrderStep, PTL
  DEF Spec, ImplementsReplica, Replica!RSpec

\* A version once served is never followed by an older one, not even when the
\* gateway that served it has been killed and another one started since.
THEOREM NeverServesOlder ==
  ASSUME NEW v \in Nat
  PROVE  Spec => [](router.routes = v => [](router.routes # 0 => router.routes >= v))
<1> DEFINE
  Known == newest \in Nat /\ router.routes \in {0, newest}
  Reached == newest >= v
<1>1. Replica!RInit => Known
  BY DEF Replica!RInit
<1>2. Known /\ [Replica!RNext]_(Replica!rvars)
        => Known' /\ (Reached => Reached')
  <2> SUFFICES ASSUME Known, [Replica!RNext]_(Replica!rvars)
               PROVE  Known' /\ (Reached => Reached')
    OBVIOUS
  <2>1. CASE Replica!Publish \/ UNCHANGED Replica!rvars
    BY <2>1 DEF Replica!Publish, Replica!rvars
  <2>2. CASE Replica!Serve
    <3>1. newest' \in newest .. Len(log) /\ router'.routes = newest'
      BY <2>2 DEF Replica!Serve
    <3>2. newest' \in Nat /\ newest' >= newest
      BY <3>1
    <3>3. QED BY <3>1, <3>2
  <2>3. CASE Replica!Stop
    BY <2>3 DEF Replica!Stop
  <2>4. QED BY <2>1, <2>2, <2>3 DEF Replica!RNext
<1>3. Known => /\ router.routes = v => Reached
               /\ Reached => (router.routes # 0 => router.routes >= v)
  OBVIOUS
<1> HIDE DEF Known, Reached
<1>4. QED
  BY <1>1, <1>2, <1>3, RefinesReplica, PTL DEF ImplementsReplica, Replica!RSpec

\* The routes being served could be built, in some order of the rows.
ServedBuilt == router.routes > 0 => Loadable(log[router.routes].routes)

LEMMA ServedBuiltInvariant == Spec => []ServedBuilt
<1>1. Init => ServedBuilt
  BY DEF Init, ServedBuilt, NoRouter
<1>2. TypeOK /\ ServedBuilt /\ [Next]_vars => ServedBuilt'
  <2> SUFFICES ASSUME TypeOK, ServedBuilt, [Next]_vars PROVE ServedBuilt'
    OBVIOUS
  <2>1. CASE Kill \/ ReloadFatal
    BY <2>1 DEF Kill, ReloadFatal, Exit, NoRouter, ServedBuilt
  <2>2. CASE RoutesUnavailable
    BY <2>2 DEF RoutesUnavailable, Exit, NoRouter, ServedBuilt
  <2>3. CASE Reload
    <3>1. log' = log /\ router'.routes = load.routes /\ Loadable(log[load.routes].routes)
      BY <2>3 DEF Reload
    <3>2. QED BY <3>1 DEF ServedBuilt
  <2>4. CASE \E x \in Snapshots : Edit(x)
    <3>1. router' = router /\ \A v \in 1 .. Len(log) : log'[v] = log[v]
      BY <2>4, EditShape
    <3>2. router.routes > 0 => router.routes \in 1 .. Len(log)
      BY DEF TypeOK, Routers
    <3>3. QED BY <3>1, <3>2 DEF ServedBuilt
  <2>5. CASE Launch \/ FetchRoutes \/ FetchMap \/ Outage \/ Return \/ Settle \/ UNCHANGED vars
    BY <2>5 DEF Launch, FetchRoutes, FetchMap, Outage, Return, Settle, vars, ServedBuilt
  <2>6. QED BY <2>1, <2>2, <2>3, <2>4, <2>5, Steps
<1>3. QED BY <1>1, <1>2, TypeCorrect, PTL DEF Spec

\* What the step that ends a serving gateway starts from.
Fatal == load.pc = "ready" /\ ~Safe(log[load.routes].routes)

LEMMA OnlyFatal ==
  ASSUME TypeOK, [Next]_vars, gateway = "up", gateway' = "failed"
  PROVE  Fatal
<1>1. CASE ReloadFatal
  BY <1>1 DEF ReloadFatal, Fatal
<1>2. CASE \E x \in Snapshots : Edit(x)
  BY <1>2, EditShape
<1>3. QED
  BY <1>1, <1>2, Steps
  DEF Launch, Kill, FetchRoutes, RoutesUnavailable, FetchMap, Reload, Exit,
      Outage, Return, Settle, vars

\* No outage, and no missing context map, ends a serving gateway: only routes
\* edited since those it serves, or those themselves, once built and not to be
\* built again because the rows came in another order.
THEOREM SurvivesOutages == Spec => OutageHarmless
<1>1. TypeOK /\ ServedBuilt /\ [Next]_vars =>
        [gateway = "up" /\ gateway' = "failed" =>
           LET serving == log[router.routes].routes
               loading == log[load.routes].routes
           IN  /\ load.pc = "ready"
               /\ loading # serving \/ (Loadable(serving) /\ ~Safe(serving))]_vars
  <2> SUFFICES ASSUME TypeOK, ServedBuilt, [Next]_vars, gateway = "up", gateway' = "failed"
               PROVE  /\ load.pc = "ready"
                      /\ \/ log[load.routes].routes # log[router.routes].routes
                         \/ /\ Loadable(log[router.routes].routes)
                            /\ ~Safe(log[router.routes].routes)
    OBVIOUS
  <2>1. load.pc = "ready" /\ ~Safe(log[load.routes].routes)
    BY OnlyFatal DEF Fatal
  <2>2. Loadable(log[router.routes].routes)
    BY DEF ServedBuilt, TypeOK
  <2>3. QED BY <2>1, <2>2
<1>2. QED BY <1>1, TypeInit, TypeStep, ServedBuiltInvariant, PTL DEF Spec, OutageHarmless

\* What Aegis asks of a table and Athena does not check: the durations of every
\* breaker and limit are there, chi takes every path, and no two rows clash.
DurationsGiven ==
  \A v \in 1 .. Len(log) : \A i \in Dynamic(log[v].routes) :
    LET c == log[v].routes[i] IN
      /\ HasBreaker(c) => Parses(c.timeout)
      /\ c.limit # 0 => Parses(c.window)

PathsTaken ==
  \A v \in 1 .. Len(log) : \A i \in Dynamic(log[v].routes) :
    log[v].routes[i].path \notin Unroutable

NoClash ==
  \A v \in 1 .. Len(log) : \A i, j \in Dynamic(log[v].routes) :
    i # j => <<log[v].routes[i].path, log[v].routes[j].path>> \notin Clashes

\* As long as every table stored gives its durations and has only paths that chi
\* takes, by themselves and beside each other, no serving gateway ends by itself.
THEOREM CompleteTablesKeepRunning ==
  Spec /\ [](DurationsGiven /\ PathsTaken /\ NoClash) => EmptyMeansOff
<1>1. TypeOK /\ DurationsGiven /\ PathsTaken /\ NoClash => ~Fatal
  <2> SUFFICES ASSUME TypeOK, DurationsGiven, PathsTaken, NoClash, load.pc = "ready",
                      NEW order \in Orders
               PROVE  BuiltIn(log[load.routes].routes, order)
    BY DEF Fatal, Safe
  <2>1. load.routes \in 1 .. Len(log)
    BY DEF TypeOK, Loads
  <2>2. \A i \in Dynamic(log[load.routes].routes) : Complete(log[load.routes].routes[i])
    BY <2>1 DEF DurationsGiven, PathsTaken, Complete
  <2>3. \A i, j \in Dynamic(log[load.routes].routes) : order[i] < order[j] => i # j
    <3>1. \A i \in RouteIds : order[i] \in Nat
      BY DEF Orders
    <3>2. \A i \in RouteIds : ~(order[i] < order[i])
      BY <3>1
    <3>3. QED BY <3>2 DEF Dynamic
  <2>4. QED BY <2>1, <2>2, <2>3 DEF NoClash, BuiltIn
<1>2. TypeOK /\ DurationsGiven /\ PathsTaken /\ NoClash /\ [Next]_vars
        => [gateway = "up" => gateway' # "failed"]_vars
  BY <1>1, OnlyFatal
<1>3. QED
  BY <1>2, TypeCorrect, PTL DEF Spec, EmptyMeansOff

-----------------------------------------------------------------------------
\* The registry of breakers.

LEMMA ConfiguredInit == Init => BreakersWereConfigured
BY DEF Init, BreakersWereConfigured

\* The versions served by this process whose routes asked for a breaker at t.
Asking(t) == {v \in offered : Wanted(log[v].routes, t) # {}}

\* What is wanted are parameters, so never NoBreaker.
LEMMA WantedReal == ASSUME TypeOK, NEW v \in 1 .. Len(log), NEW t \in Targets
                    PROVE  NoBreaker \notin Wanted(log[v].routes, t)
<1>1. log[v].routes \in Tables
  <2>1. log \in Seq(Snapshots) /\ v \in 1 .. Len(log)
    BY DEF TypeOK
  <2>2. log[v] \in Snapshots
    BY <2>1
  <2>3. QED BY <2>2 DEF Snapshots
<1>2. \A i \in Dynamic(log[v].routes) : log[v].routes[i] \in RouteConfigs
  BY <1>1 DEF Dynamic, Tables
<1>3. QED BY <1>2, ConfigAssumption DEF Wanted, Params

LEMMA ConfiguredStep ==
  TypeOK /\ Order /\ BreakersWereConfigured /\ [Next]_vars => BreakersWereConfigured'
<1> SUFFICES ASSUME TypeOK, Order, BreakersWereConfigured, [Next]_vars, NEW t \in Targets
             PROVE  /\ Asking(t)' = {} => breakers'[t] = NoBreaker
                    /\ Asking(t)' # {} =>
                         \E v \in Asking(t)' : /\ \A u \in Asking(t)' : v <= u
                                               /\ breakers'[t] \in Wanted(log'[v].routes, t)
  BY DEF BreakersWereConfigured, Asking
<1>0. /\ Len(log) \in Nat
      /\ offered \subseteq 1 .. Len(log)
      /\ load.routes \in 0 .. Len(log)
  BY DEF TypeOK, Routers, Loads
<1>a. /\ Asking(t) = {} => breakers[t] = NoBreaker
      /\ Asking(t) # {} =>
           \E v \in Asking(t) : /\ \A u \in Asking(t) : v <= u
                                /\ breakers[t] \in Wanted(log[v].routes, t)
  BY DEF BreakersWereConfigured, Asking
<1>1. CASE Exit("off") \/ Exit("failed")
  BY <1>1 DEF Exit, Asking
<1>2. CASE UNCHANGED <<log, breakers, offered>>
  BY <1>2, <1>a DEF Asking
<1>3. CASE Reload
  <2> DEFINE new == load.routes
  <2>1. /\ log' = log /\ offered' = offered \cup {new}
        /\ breakers' \in Registered(log[new].routes, breakers)
    BY <1>3 DEF Reload
  <2>2. new \in 1 .. Len(log) /\ \A v \in offered : v <= new
    BY <1>3, <1>0 DEF Reload, Order, TypeOK, Loads
  <2>3. Asking(t)' = IF Wanted(log[new].routes, t) = {} THEN Asking(t) ELSE Asking(t) \cup {new}
    BY <2>1 DEF Asking
  <2>4. IF breakers[t] # NoBreaker \/ Wanted(log[new].routes, t) = {}
        THEN breakers'[t] = breakers[t]
        ELSE breakers'[t] \in Wanted(log[new].routes, t)
    BY <2>1 DEF Registered
  <2>5. CASE Asking(t) = {}
    BY <2>1, <2>2, <2>3, <2>4, <2>5, <1>a
  <2>6. CASE Asking(t) # {}
    <3>1. PICK v \in Asking(t) : /\ \A u \in Asking(t) : v <= u
                                 /\ breakers[t] \in Wanted(log[v].routes, t)
      BY <2>6, <1>a
    <3>2. v \in offered /\ v <= new /\ v \in 1 .. Len(log)
      BY <3>1, <2>2, <1>0 DEF Asking
    <3>3. breakers'[t] = breakers[t]
      BY <2>4, <3>1, <3>2, WantedReal
    <3>4. v \in Asking(t)' /\ \A u \in Asking(t)' : v <= u
      BY <2>3, <3>1, <3>2
    <3>5. QED BY <2>1, <3>1, <3>3, <3>4
  <2>7. QED BY <2>5, <2>6
<1>4. CASE \E x \in Snapshots : Edit(x)
  <2>1. /\ offered' = offered /\ breakers' = breakers
        /\ \A v \in 1 .. Len(log) : log'[v] = log[v]
    BY <1>4, EditShape
  <2>2. Asking(t)' = Asking(t) /\ \A v \in offered : log'[v] = log[v]
    BY <2>1, <1>0 DEF Asking
  <2>3. Asking(t) \subseteq offered
    BY DEF Asking
  <2>4. QED BY <2>1, <2>2, <2>3, <1>a
<1>5. CASE Launch \/ FetchRoutes \/ FetchMap \/ Outage \/ Return \/ Settle \/ UNCHANGED vars
  BY <1>2, <1>5 DEF Launch, FetchRoutes, FetchMap, Outage, Return, Settle, vars
<1>6. CASE Kill \/ ReloadFatal \/ RoutesUnavailable
  BY <1>1, <1>2, <1>6 DEF Kill, ReloadFatal, RoutesUnavailable
<1>7. QED
  BY <1>3, <1>4, <1>5, <1>6, Steps

\* Every breaker has the parameters that the first table served by this process
\* and asking for one at its target had there.
THEOREM BreakersConfigured == Spec => []BreakersWereConfigured
BY TypeInit, TypeStep, OrderInit, OrderStep, ConfiguredInit, ConfiguredStep, PTL DEF Spec

\* A serving gateway never changes or drops a breaker it has: threshold and
\* timeout, once taken from some row, are constants for as long as the process
\* lives, as CircuitBreaker supposes, whatever reloads bring.
THEOREM BreakersKept ==
  Spec => [][gateway = "up" /\ gateway' = "up" =>
               \A t \in Targets : breakers[t] # NoBreaker => breakers'[t] = breakers[t]]_vars
<1>1. TypeOK /\ [Next]_vars =>
        [gateway = "up" /\ gateway' = "up" =>
           \A t \in Targets : breakers[t] # NoBreaker => breakers'[t] = breakers[t]]_vars
  <2> SUFFICES ASSUME TypeOK, [Next]_vars, gateway = "up", gateway' = "up",
                      NEW t \in Targets, breakers[t] # NoBreaker
               PROVE  breakers'[t] = breakers[t]
    OBVIOUS
  <2>1. CASE Reload
    BY <2>1 DEF Reload, Registered
  <2>2. CASE \E x \in Snapshots : Edit(x)
    BY <2>2, EditShape
  <2>3. QED
    BY <2>1, <2>2, Steps
    DEF Launch, Kill, FetchRoutes, RoutesUnavailable, FetchMap, ReloadFatal, Exit,
        Outage, Return, Settle, vars
<1>2. QED BY <1>1, TypeCorrect, PTL DEF Spec

-----------------------------------------------------------------------------
\* Convergence.

\* What FairSpec says of the poll, WF_vars(Poll), with the enabling condition
\* written out: a running gateway has a step of its poll to take, whatever Athena
\* does, except that a serving one with no poll begun waits for Athena.
PollPossible ==
  /\ gateway \in {"starting", "up"}
  /\ athena = "up" \/ load.pc # "idle" \/ gateway = "starting"
PollFairness == []<><<Poll>>_vars \/ []<>~PollPossible

\* After Settle nobody edits and Athena stays up.
SettledInv == TypeOK /\ (settled => athena = "up")

LEMMA SettledInvariant == Spec => []SettledInv
<1>1. Init => SettledInv
  BY TypeInit DEF Init, SettledInv
<1>2. SettledInv /\ [Next]_vars => SettledInv'
  <2> SUFFICES ASSUME SettledInv, [Next]_vars PROVE SettledInv'
    OBVIOUS
  <2>1. TypeOK /\ TypeOK'
    BY TypeStep DEF SettledInv
  <2>2. CASE \E x \in Snapshots : Edit(x)
    BY <2>1, <2>2, EditShape DEF SettledInv
  <2>3. CASE Launch \/ Kill \/ FetchRoutes \/ FetchMap \/ Reload \/ ReloadFatal
    BY <2>1, <2>3
    DEF SettledInv, Launch, Kill, FetchRoutes, FetchMap, Reload, ReloadFatal
  <2>4. CASE RoutesUnavailable
    BY <2>1, <2>4 DEF SettledInv, RoutesUnavailable
  <2>5. CASE Outage \/ Return \/ Settle
    BY <2>1, <2>5 DEF SettledInv, Outage, Return, Settle
  <2>6. CASE UNCHANGED vars
    BY <2>1, <2>6 DEF SettledInv, vars
  <2>7. QED BY <2>2, <2>3, <2>4, <2>5, <2>6, Steps DEF SettledInv
<1>3. QED BY <1>1, <1>2, PTL DEF Spec

\* Where a poll may be when the edits stop, and how it goes on: the load in
\* progress is finished, a next one begins, and that one is current.
OldRoutes == settled /\ load.pc = "routesRead"
OldLoad == settled /\ load.pc = "ready"
Waiting == settled /\ load.pc = "idle" /\ gateway = "up"
NewRoutes == settled /\ load.pc = "routesRead" /\ load.routes = Len(log)
NewLoad ==
  settled /\ load.pc = "ready" /\ load.routes = Len(log) /\ load.map = Len(log)

\* What is served is current, and so is what is being loaded.
UpToDate ==
  /\ settled
  /\ load.pc # "idle" => load.routes = Len(log)
  /\ load.pc = "ready" => load.map = Len(log)
  /\ gateway = "up" => router.routes = Len(log) /\ router.map = Len(log)

\* The steps of a settled system, with what they do to poll and router.
LEMMA SettledSteps ==
  ASSUME SettledInv, settled, [Next]_vars
  PROVE  /\ settled' /\ log' = log /\ athena = "up"
         /\ \/ /\ load' = load /\ router' = router
               /\ gateway' = gateway \/ (gateway' = "starting" /\ load.pc = "idle")
            \/ /\ load' = NoLoad /\ gateway' \in {"off", "failed"}
            \/ /\ FetchRoutes
               /\ load.pc = "idle" /\ gateway' = gateway /\ router' = router
               /\ load' = [pc |-> "routesRead", routes |-> Len(log), map |-> 0]
            \/ /\ FetchMap
               /\ load.pc = "routesRead" /\ gateway' = gateway /\ router' = router
               /\ load' = [pc |-> "ready", routes |-> load.routes, map |-> Len(log)]
            \/ /\ Reload
               /\ load.pc = "ready" /\ gateway' = "up" /\ load' = NoLoad
               /\ router' = [routes |-> load.routes, map |-> load.map]
<1>1. /\ athena = "up" /\ TypeOK
  BY DEF SettledInv
<1>2. load \in Loads /\ (load.pc # "idle" => gateway \in {"starting", "up"})
  BY <1>1 DEF TypeOK
<1>3. CASE \E x \in Snapshots : Edit(x)
  BY <1>3 DEF Edit
<1>4. CASE Outage \/ Return \/ Settle \/ RoutesUnavailable
  BY <1>1, <1>4 DEF Outage, Return, Settle, RoutesUnavailable
<1>5. CASE Launch
  BY <1>1, <1>2, <1>5 DEF Launch
<1>6. CASE Kill \/ ReloadFatal
  BY <1>1, <1>6 DEF Kill, ReloadFatal, Exit
<1>7. CASE FetchRoutes
  BY <1>1, <1>7 DEF FetchRoutes
<1>8. CASE FetchMap
  <2>1. load' = [load EXCEPT !.pc = "ready", !.map = Len(log)]
    BY <1>1, <1>8 DEF FetchMap
  <2>2. load' = [pc |-> "ready", routes |-> load.routes, map |-> Len(log)]
    BY <1>2, <2>1 DEF Loads
  <2>3. QED BY <1>1, <1>8, <2>2 DEF FetchMap
<1>9. CASE Reload
  BY <1>1, <1>9 DEF Reload
<1>10. CASE UNCHANGED vars
  <2>1. settled' /\ log' = log /\ load' = load /\ router' = router /\ gateway' = gateway
    BY <1>10 DEF vars
  <2>2. QED BY <1>1, <2>1
<1>11. QED
  BY <1>1, <1>3, <1>4, <1>5, <1>6, <1>7, <1>8, <1>9, <1>10, Steps

\* A system that is up to date stays so, through restarts too.
LEMMA UpToDateStays == SettledInv /\ UpToDate /\ [Next]_vars => UpToDate'
BY SettledSteps DEF UpToDate, NoLoad

\* Every stage is left for the next one, or for the goal, by a step of the poll
\* and by no other.
LEMMA Stages ==
  ASSUME SettledInv, [Next]_vars
  PROVE  /\ OldRoutes => OldRoutes' \/ OldLoad' \/ UpToDate'
         /\ OldLoad => OldLoad' \/ Waiting' \/ UpToDate'
         /\ Waiting => Waiting' \/ NewRoutes' \/ UpToDate'
         /\ NewRoutes => NewRoutes' \/ NewLoad' \/ UpToDate'
         /\ NewLoad => NewLoad' \/ UpToDate'
BY SettledSteps DEF OldRoutes, OldLoad, Waiting, NewRoutes, NewLoad, UpToDate, NoLoad

LEMMA Progress ==
  ASSUME SettledInv, <<Next /\ Poll>>_vars
  PROVE  /\ OldRoutes => OldLoad' \/ UpToDate'
         /\ OldLoad => Waiting' \/ UpToDate'
         /\ Waiting => NewRoutes' \/ UpToDate'
         /\ NewRoutes => NewLoad' \/ UpToDate'
         /\ NewLoad => UpToDate'
<1> SUFFICES ASSUME settled
             PROVE  /\ OldRoutes => OldLoad' \/ UpToDate'
                    /\ OldLoad => Waiting' \/ UpToDate'
                    /\ Waiting => NewRoutes' \/ UpToDate'
                    /\ NewRoutes => NewLoad' \/ UpToDate'
                    /\ NewLoad => UpToDate'
  BY DEF OldRoutes, OldLoad, Waiting, NewRoutes, NewLoad
<1>1. /\ settled' /\ log' = log /\ athena = "up"
      /\ UpToDate => UpToDate'
  BY SettledSteps, UpToDateStays
<1>2. CASE FetchRoutes
  BY <1>1, <1>2 DEF FetchRoutes, OldRoutes, OldLoad, Waiting, NewRoutes, NewLoad
<1>3. CASE RoutesUnavailable
  BY <1>1, <1>3 DEF RoutesUnavailable
<1>4. CASE FetchMap
  <2>1. load' = [pc |-> "ready", routes |-> load.routes, map |-> Len(log)]
    <3>1. load \in Loads
      BY DEF SettledInv, TypeOK
    <3>2. load' = [load EXCEPT !.pc = "ready", !.map = Len(log)]
      BY <1>1, <1>4 DEF FetchMap
    <3>3. QED BY <3>1, <3>2 DEF Loads
  <2>2. load.pc = "routesRead"
    BY <1>4 DEF FetchMap
  <2>3. QED BY <1>1, <2>1, <2>2 DEF OldRoutes, OldLoad, Waiting, NewRoutes, NewLoad
<1>5. CASE Reload
  BY <1>1, <1>5 DEF Reload, OldRoutes, OldLoad, Waiting, NewRoutes, NewLoad, UpToDate, NoLoad
<1>6. CASE ReloadFatal
  BY <1>1, <1>6 DEF ReloadFatal, Exit, UpToDate, NoLoad
<1>7. QED BY <1>2, <1>3, <1>4, <1>5, <1>6 DEF Poll

\* Wherever the poll is, it can go on.
LEMMA StagesCanGoOn ==
  SettledInv /\ (OldRoutes \/ OldLoad \/ Waiting \/ NewRoutes \/ NewLoad) => PollPossible
BY DEF SettledInv, TypeOK, Loads, OldRoutes, OldLoad, Waiting, NewRoutes, NewLoad, PollPossible

Served ==
  gateway = "up" =>
    /\ router.map # 0
    /\ log[router.routes].routes = Current.routes
    /\ log[router.map].hosts = Current.hosts

LEMMA UpToDateServes == SettledInv /\ UpToDate => Served
BY DEF SettledInv, TypeOK, UpToDate, Served, Current

\* Once edits and outages stop, the polls bring the gateway to the current
\* configuration and nothing takes it away, wherever the poll was then, for
\* every table, every number of edits and every kill and restart.
THEOREM GatewayConverges == Spec /\ PollFairness => Converges
<1>1. SettledInv /\ settled => OldRoutes \/ OldLoad \/ Waiting \/ UpToDate
  BY DEF SettledInv, TypeOK, Loads, OldRoutes, OldLoad, Waiting, UpToDate
<1>2. Spec /\ PollFairness => (settled ~> UpToDate)
  <2>1. SettledInv /\ [Next]_vars =>
          /\ OldRoutes => OldRoutes' \/ OldLoad' \/ UpToDate'
          /\ OldLoad => OldLoad' \/ Waiting' \/ UpToDate'
          /\ Waiting => Waiting' \/ NewRoutes' \/ UpToDate'
          /\ NewRoutes => NewRoutes' \/ NewLoad' \/ UpToDate'
          /\ NewLoad => NewLoad' \/ UpToDate'
    BY Stages
  <2>2. SettledInv /\ [Next]_vars /\ <<Poll>>_vars =>
          /\ OldRoutes => OldLoad' \/ UpToDate'
          /\ OldLoad => Waiting' \/ UpToDate'
          /\ Waiting => NewRoutes' \/ UpToDate'
          /\ NewRoutes => NewLoad' \/ UpToDate'
          /\ NewLoad => UpToDate'
    BY Progress
  <2>3. QED
    BY <1>1, <2>1, <2>2, StagesCanGoOn, SettledInvariant, PTL DEF Spec, PollFairness
<1>3. Spec => [](UpToDate => []Served)
  BY UpToDateStays, UpToDateServes, SettledInvariant, PTL DEF Spec
<1>4. QED BY <1>2, <1>3, PTL DEF Converges, Served
=============================================================================
