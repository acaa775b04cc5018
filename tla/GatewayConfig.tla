---------------------------- MODULE GatewayConfig ----------------------------
(***************************************************************************)
(* How the configuration kept by Athena (tables project_routes, projects)  *)
(* reaches a running Aegis gateway: the initial load, the poller that      *)
(* fetches routes and context map by two requests every 30 seconds and     *)
(* builds a new router, and the registry of circuit breakers that outlives *)
(* the routers (Aegis/internal/config/api_loader.go, server/server.go,     *)
(* router, circuit/breaker.go).  Redis address and key path come from the  *)
(* environment, so a reload never changes them.                            *)
(***************************************************************************)
EXTENDS Naturals, Sequences, FiniteSets

CONSTANTS
  RouteIds,      \* bound: rows project_routes may hold
  RouteConfigs,  \* records [path, target, threshold, timeout, limit, window]
  NoRoute,       \* no row with this id
  HostMaps,      \* values of the host -> project map of the table projects
  Unroutable,    \* paths that start with "/" and make chi panic by themselves:
                 \* "/*" (a mount of ""), "/a/*/b", an unclosed "{", ...
  Clashes,       \* pairs <<p, q>> of paths such that chi panics when q is
                 \* registered after p: a mount given twice, or "/a/*" after "/a*"
  StaticPaths,   \* paths below /api/auth, /api/projects, /api/users, /api/admin
  NoBreaker,
  MaxEdits       \* bound: edits of the configuration in a behaviour

ASSUME ConfigAssumption ==
  /\ NoRoute \notin RouteConfigs
  /\ \A c \in RouteConfigs :
       NoBreaker # [threshold |-> c.threshold, timeout |-> c.timeout]
  /\ HostMaps # {}
  /\ MaxEdits \in Nat

VARIABLES
  log,        \* history: every state the configuration has had, the last is current
  athena,     \* "up" or "down", as seen from the gateway
  gateway,    \* off, starting, up, failed (exited through a fatal error)
  load,       \* LoadConfigFromAPI: pc, version of the routes, of the context map
  router,     \* the versions the served router was built from
  breakers,   \* BreakerRegistry, by target
  newest,     \* history: the newest version of the routes ever served
  offered,    \* history: the versions this process has served
  settled     \* from now on nobody edits and Athena stays up

vars == <<log, athena, gateway, load, router, breakers, newest, offered, settled>>

Tables == [RouteIds -> RouteConfigs \cup {NoRoute}]
Snapshots == [routes : Tables, hosts : HostMaps]
Targets == {c.target : c \in RouteConfigs}
Params(c) == [threshold |-> c.threshold, timeout |-> c.timeout]

\* A version of 0 is "none": a context map that could not be fetched is nil.
Loads == [pc : {"idle", "routesRead", "ready"}, routes : Nat, map : Nat]
NoLoad == [pc |-> "idle", routes |-> 0, map |-> 0]
Routers == [routes : Nat, map : Nat]
NoRouter == [routes |-> 0, map |-> 0]

TypeOK ==
  /\ log \in Seq(Snapshots) /\ Len(log) > 0
  /\ athena \in {"up", "down"}
  /\ gateway \in {"off", "starting", "up", "failed"}
  /\ load \in Loads /\ load.routes <= Len(log) /\ load.map <= Len(log)
  /\ load.pc # "idle" => load.routes > 0 /\ gateway \in {"starting", "up"}
  /\ router \in Routers /\ router.routes <= Len(log) /\ router.map <= Len(log)
  /\ gateway = "up" <=> router.routes > 0
  /\ breakers \in [Targets -> {Params(c) : c \in RouteConfigs} \cup {NoBreaker}]
  /\ newest \in 0 .. Len(log)
  /\ offered \subseteq 1 .. Len(log)
  /\ settled \in BOOLEAN

Current == log[Len(log)]

Init ==
  /\ \E h \in HostMaps : log = <<[routes |-> [i \in RouteIds |-> NoRoute], hosts |-> h]>>
  /\ athena = "up" /\ gateway = "off"
  /\ load = NoLoad /\ router = NoRouter
  /\ breakers = [t \in Targets |-> NoBreaker]
  /\ newest = 0 /\ offered = {} /\ settled = FALSE

-----------------------------------------------------------------------------
\* SetupRouter.

\* The rows of a table that become handlers.
Dynamic(table) == {i \in RouteIds : table[i] # NoRoute /\ table[i].path \notin StaticPaths}

\* time.ParseDuration: Athena stores durations that parse, and empty strings.
Parses(d) == d # ""

HasBreaker(c) == c.threshold > 0

\* A row whose handler can be built and whose path chi takes.  limit is
\* converted to uint32 before it is compared with 0, so a negative one counts as
\* a limit too.
Complete(c) ==
  /\ HasBreaker(c) => Parses(c.timeout)
  /\ c.limit # 0 => Parses(c.window)
  /\ c.path \notin Unroutable

\* GetAllRoutes has no ORDER BY: the rows are registered in any order.
Orders ==
  {o \in [RouteIds -> 1 .. Cardinality(RouteIds)] : \A i, j \in RouteIds : o[i] = o[j] => i = j}

BuiltIn(table, order) ==
  /\ \A i \in Dynamic(table) : Complete(table[i])
  /\ \A i, j \in Dynamic(table) :
       order[i] < order[j] => <<table[i].path, table[j].path>> \notin Clashes

\* A table that some order of its rows makes a router of, and one that every
\* order does.
Loadable(table) == \E order \in Orders : BuiltIn(table, order)
Safe(table) == \A order \in Orders : BuiltIn(table, order)

\* What the routes of a table ask of the breaker in front of t.
Wanted(table, t) ==
  {Params(table[i]) : i \in {j \in Dynamic(table) : table[j].target = t /\ HasBreaker(table[j])}}

\* A process that ends takes its router and its registry with it.
Exit(how) ==
  /\ gateway' = how
  /\ load' = NoLoad /\ router' = NoRouter
  /\ breakers' = [t \in Targets |-> NoBreaker]
  /\ offered' = {}

-----------------------------------------------------------------------------
\* Bugs this code could have had; each must break a property below.

\* The registry does not tell targets apart.
BugOneForAll(table, old) ==
  {b \in [Targets -> {Params(c) : c \in RouteConfigs} \cup {NoBreaker}] :
     \A t \in Targets :
       IF old[t] # NoBreaker \/ Wanted(table, t) = {}
       THEN b[t] = old[t]
       ELSE b[t] \in UNION {Wanted(table, u) : u \in Targets}}

\* The answer comes from a cache.
BugCachedAnswer ==
  /\ gateway \in {"starting", "up"} /\ load.pc = "idle" /\ athena = "up"
  /\ \E v \in DOMAIN log : load' = [pc |-> "routesRead", routes |-> v, map |-> 0]
  /\ UNCHANGED <<log, athena, gateway, router, breakers, newest, offered, settled>>

\* A configuration without a context map is refused.
BugNilMapFatal ==
  /\ load.pc = "ready" /\ (~Safe(log[load.routes].routes) \/ load.map = 0)
  /\ Exit("failed")
  /\ UNCHANGED <<log, athena, newest, settled>>

\* A context map is fetched once and then kept.
BugMapOnce ==
  /\ load.pc = "routesRead"
  /\ load' = [load EXCEPT !.pc = "ready",
                          !.map = IF router.map # 0 THEN router.map
                                  ELSE IF athena = "up" THEN Len(log) ELSE 0]
  /\ UNCHANGED <<log, athena, gateway, router, breakers, newest, offered, settled>>

-----------------------------------------------------------------------------
\* GetBreaker: an existing breaker is returned as it is; a new one takes the
\* parameters of whichever route asks first (rows come in no fixed order).
Registered(table, old) ==
  {b \in [Targets -> {Params(c) : c \in RouteConfigs} \cup {NoBreaker}] :
     \A t \in Targets :
       IF old[t] # NoBreaker \/ Wanted(table, t) = {}
       THEN b[t] = old[t]
       ELSE b[t] \in Wanted(table, t)}

-----------------------------------------------------------------------------
\* The gateway process.

\* main starts with LoadConfigFromAPI.
Launch ==
  /\ gateway \in {"off", "failed"}
  /\ gateway' = "starting"
  /\ UNCHANGED <<log, athena, load, router, breakers, newest, offered, settled>>

Kill ==
  /\ gateway \in {"starting", "up"}
  /\ Exit("off")
  /\ UNCHANGED <<log, athena, newest, settled>>

\* GET /internal/v1/routes/config, at start or when the ticker fires.
FetchRoutes ==
  /\ gateway \in {"starting", "up"} /\ load.pc = "idle" /\ athena = "up"
  /\ load' = [pc |-> "routesRead", routes |-> Len(log), map |-> 0]
  /\ UNCHANGED <<log, athena, gateway, router, breakers, newest, offered, settled>>

\* No answer: fatal at start, "continue" in the poller.
RoutesUnavailable ==
  /\ gateway \in {"starting", "up"} /\ load.pc = "idle" /\ athena = "down"
  /\ IF gateway = "starting"
     THEN Exit("failed")
     ELSE UNCHANGED <<gateway, load, router, breakers, offered>>
  /\ UNCHANGED <<log, athena, newest, settled>>

\* GET /internal/v1/context-map.  An error is logged and the new
\* configuration goes on with a nil map.
FetchMap ==
  /\ load.pc = "routesRead"
  /\ load' = [load EXCEPT !.pc = "ready", !.map = IF athena = "up" THEN Len(log) ELSE 0]
  /\ UNCHANGED <<log, athena, gateway, router, breakers, newest, offered, settled>>

\* SetupRouter, in an order of the rows that works, and the exchange of the
\* router under routerMutex.
Reload ==
  /\ load.pc = "ready" /\ Loadable(log[load.routes].routes)
  /\ gateway' = "up"
  /\ router' = [routes |-> load.routes, map |-> load.map]
  /\ breakers' \in Registered(log[load.routes].routes, breakers)
  /\ newest' = load.routes
  /\ offered' = offered \cup {load.routes}
  /\ load' = NoLoad
  /\ UNCHANGED <<log, athena, settled>>

\* log.Fatalf on a duration, or a panic of chi on a path, in an order of the rows
\* that does not work: the process is gone, whether it was starting or serving.
ReloadFatal ==
  /\ load.pc = "ready" /\ ~Safe(log[load.routes].routes)
  /\ Exit("failed")
  /\ UNCHANGED <<log, athena, newest, settled>>

-----------------------------------------------------------------------------
\* Athena.

Edit(snapshot) ==
  /\ ~settled /\ Len(log) <= MaxEdits
  /\ log' = Append(log, snapshot)
  /\ UNCHANGED <<athena, gateway, load, router, breakers, newest, offered, settled>>

\* INSERT of a new row; nothing keeps two rows from having the same path.
CreateRoute(i, c) ==
  /\ Current.routes[i] = NoRoute
  /\ Edit([Current EXCEPT !.routes[i] = c])

\* UPDATE of an existing row (of one deleted since it was read: no effect).
UpdateRoute(i, c) ==
  /\ Current.routes[i] \notin {NoRoute, c}
  /\ Edit([Current EXCEPT !.routes[i] = c])

DeleteRoute(i) ==
  /\ Current.routes[i] # NoRoute
  /\ Edit([Current EXCEPT !.routes[i] = NoRoute])

\* CreateProject or UpdateProjectSettings, as far as they concern the host.
SetHosts(h) ==
  /\ h # Current.hosts
  /\ Edit([Current EXCEPT !.hosts = h])

Outage ==
  /\ ~settled /\ athena = "up"
  /\ athena' = "down"
  /\ UNCHANGED <<log, gateway, load, router, breakers, newest, offered, settled>>

Return ==
  /\ athena = "down"
  /\ athena' = "up"
  /\ UNCHANGED <<log, gateway, load, router, breakers, newest, offered, settled>>

Settle ==
  /\ ~settled /\ athena = "up"
  /\ settled' = TRUE
  /\ UNCHANGED <<log, athena, gateway, load, router, breakers, newest, offered>>

Poll == FetchRoutes \/ RoutesUnavailable \/ FetchMap \/ Reload \/ ReloadFatal

Next ==
  \/ Launch \/ Kill \/ Poll
  \/ \E i \in RouteIds, c \in RouteConfigs : CreateRoute(i, c) \/ UpdateRoute(i, c)
  \/ \E i \in RouteIds : DeleteRoute(i)
  \/ \E h \in HostMaps : SetHosts(h)
  \/ Outage \/ Return \/ Settle

Spec == Init /\ [][Next]_vars

\* The ticker of the poller never stops, and an HTTP call to Athena ends (the
\* client has a timeout of ten seconds).
FairSpec == Spec /\ WF_vars(Poll)

-----------------------------------------------------------------------------
\* Properties.

\* The served routes are one complete version of Athena's table, and versions
\* only move forward, across polls, outages and restarts of the gateway.
\* LoadConfigFromAPI, startConfigPoller (one load at a time), ReloadConfig.
Replica == INSTANCE VersionedReplica
             WITH published <- Len(log), served <- router.routes, newest <- newest

ImplementsReplica == Replica!RSpec

\* A gateway never combines routes with a context map older than them: a
\* project that had its host before it got its routes can be reached under
\* that host as soon as its routes are served, unless the fetch of the map
\* failed.  LoadConfigFromAPI, order of the two requests.
MapNotOlder == router.map # 0 => router.map >= router.routes

\* A serving gateway survives any outage of Athena, at whichever of the two
\* requests it strikes, and a nil context map: what ends it, short of a kill, are
\* routes that were edited since it built the ones it serves, or routes it could
\* build once and that another order of the rows does not let it build again.
\* startConfigPoller (continue), LoadConfigFromAPI, SetupRouter.
OutageHarmless ==
  [][gateway = "up" /\ gateway' = "failed" =>
       LET serving == log[router.routes].routes
           loading == log[load.routes].routes
       IN  /\ load.pc = "ready"
           /\ loading # serving \/ (Loadable(serving) /\ ~Safe(serving))]_vars

\* A breaker has the parameters of a route to its own target, in the first table
\* served by this process that asked for a breaker there, and there is none as
\* long as no table did: never the parameters of another target, of a later table
\* or of one that was not served.  GetBreaker keyed by TargetURL.
BreakersWereConfigured ==
  \A t \in Targets :
    LET asking == {v \in offered : Wanted(log[v].routes, t) # {}}
    IN  IF asking = {}
        THEN breakers[t] = NoBreaker
        ELSE \E v \in asking :
               /\ \A u \in asking : v <= u
               /\ breakers[t] \in Wanted(log[v].routes, t)

\* Once the edits stop and Athena stays reachable, a gateway that serves ends
\* up with the current routes and the current context map, whatever failed
\* before.  startConfigPoller.
Converges ==
  settled ~> [](gateway = "up" =>
                  /\ router.map # 0
                  /\ log[router.routes].routes = Current.routes
                  /\ log[router.map].hosts = Current.hosts)

\* handler_helpers.go:26 accepts an empty duration as "off": a route stored
\* with one must not end a gateway that is serving.
EmptyMeansOff == [][gateway = "up" => gateway' # "failed"]_vars
=============================================================================
