------------------------------ MODULE MC_Route ------------------------------
(***************************************************************************)
(* A small instance for TLC of the three middlewares in front of a         *)
(* backend that keep a state: circuit breaker, response cache and rate     *)
(* limiter.  They share no state, so one run takes them one at a time: the *)
(* initial state chooses which one works, and the others rest.             *)
(***************************************************************************)
EXTENDS CircuitBreaker, ResponseCache, RateLimiter

CONSTANTS r1, r2, r3

MCRequests == {r1, r2, r3}

\* Two routes that are equal once their prefixes are stripped.
MCPlaces == {"shop", "blog"}
MCKeyOf == [p \in MCPlaces |-> "items"]
MCTTL == [shop |-> 2, blog |-> 1]

\* Two connections behind one address, one for each route; another address.
MCConns == 1 .. 3
MCRouteOf == <<"shop", "blog", "shop">>
MCCounterOf == <<"k1", "k1", "k2">>
MCLimit == [shop |-> 2, blog |-> 1]
MCWindow == [shop |-> 2, blog |-> 1]

VARIABLE part

routeVars == <<part, vars, cacheVars, limiterVars>>

RouteInit ==
  /\ part \in {"breaker", "cache", "limiter"}
  /\ Init /\ CacheInit /\ LimiterInit
  /\ part = "cache" \/ content = [p \in Places |-> CHOOSE v \in Versions : TRUE]

RouteNext ==
  /\ \/ part = "breaker" /\ Next /\ UNCHANGED <<cacheVars, limiterVars>>
     \/ part = "cache" /\ CacheNext /\ UNCHANGED <<vars, limiterVars>>
     \/ part = "limiter" /\ LimiterNext /\ UNCHANGED <<vars, cacheVars>>
  /\ UNCHANGED part

\* FairSpec, FairCacheSpec and FairLimiterSpec: each part is fair while it works.
RouteSpec ==
  /\ RouteInit /\ [][RouteNext]_routeVars
  /\ WF_vars(part = "breaker" /\ Tick)
  /\ \A r \in Requests : WF_vars(part = "breaker" /\ Finish(r))
  /\ WF_cacheVars(part = "cache" /\ CacheTick)
  /\ \A r \in Gets : WF_cacheVars(part = "cache" /\ GoOn(r))
  /\ WF_limiterVars(part = "limiter" /\ TimePasses)
  /\ \A c \in Conns : WF_limiterVars(part = "limiter" /\ Expire(c))
=============================================================================
