----------------------------- MODULE RateLimiter -----------------------------
(***************************************************************************)
(* The fixed-window rate limiter of Aegis                                  *)
(* (Aegis/internal/ratelimit/limiter.go): counters in Redis that all       *)
(* goroutines of the gateway share.  A request increments the counter of   *)
(* its key, gives it an expiry if it was the first, and is then admitted   *)
(* or denied by the number it got.  Each Redis command is a step; between  *)
(* two of them the gateway may die.  A request whose INCR fails is let     *)
(* through; when Redis did not execute it, that changes nothing here.      *)
(*                                                                         *)
(* The limiter runs before the token is read (router/handlers.go:126-136), *)
(* so a key is an address: the first of X-Forwarded-For, which clients may *)
(* share, or else the remote address with its port, which differs from one *)
(* connection of a client to the next.  It names no route: routes with     *)
(* limits of their own count on the same counter.  So nothing is assumed   *)
(* of how requests and keys go together.                                   *)
(***************************************************************************)
EXTENDS Naturals, FiniteSets

CONSTANTS
  Conns,      \* connections that call one route, one request at a time each
  Routes,     \* routes with a rate limit
  RouteOf,    \* the route a connection calls
  Counters,   \* names of counters
  CounterOf,  \* the counter of a connection, named by getRateLimitKey
  Limit,      \* RateLimit.Limit of a route
  Window,     \* RateLimit.Window of a route, in ticks
  MaxLimit,       \* bound: no limit is greater ...
  LongestWindow   \* ... and no window longer

ASSUME LimiterAssumption ==
  /\ RouteOf \in [Conns -> Routes]
  /\ CounterOf \in [Conns -> Counters]
  /\ MaxLimit \in Nat /\ Limit \in [Routes -> 1 .. MaxLimit]
  /\ LongestWindow \in Nat /\ Window \in [Routes -> 1 .. LongestWindow]

VARIABLES
  count,    \* the counter under a key, 0 when there is no such key
  ttl,      \* what is left of its life, Forever while it has no expiry
  phase,    \* idle, first (EXPIRE is next), forwarded, denied
  through,  \* history: requests admitted since the counter was created, by
            \* counter and route
  spent,    \* history: the same by counter, with the INCRs left unanswered
  lost      \* history: counters whose EXPIRE failed or was never sent

limiterVars == <<count, ttl, phase, through, spent, lost>>

Forever == LongestWindow + 1

\* Bound: what is counted is not told apart beyond one more than any limit.
Up(n) == IF n > MaxLimit THEN n ELSE n + 1

LimiterTypeOK ==
  /\ count \in [Counters -> 0 .. MaxLimit + 1]
  /\ ttl \in [Counters -> 0 .. Forever]
  /\ phase \in [Conns -> {"idle", "first", "forwarded", "denied"}]
  /\ through \in [Counters -> [Routes -> 0 .. MaxLimit + 1]]
  /\ spent \in [Counters -> 0 .. MaxLimit + 1]
  /\ lost \subseteq Counters
  /\ \A k \in Counters : count[k] = 0 <=> ttl[k] = 0

LimiterInit ==
  /\ count = [k \in Counters |-> 0] /\ ttl = [k \in Counters |-> 0]
  /\ phase = [c \in Conns |-> "idle"]
  /\ through = [k \in Counters |-> [r \in Routes |-> 0]]
  /\ spent = [k \in Counters |-> 0]
  /\ lost = {}

-----------------------------------------------------------------------------
\* Bugs this code could have had; each must break a property below.

\* Off by one, either way.
BugGenerous(n, r) == n <= Limit[r] + 1
BugStingy(n, r) == n < Limit[r]

\* The expiry is renewed by every request.
BugSlidingWindow(n, r) == "first"

\* The expiry is set by the last request that the limit admits.
BugExpiresLate(n, r) ==
  IF n = Limit[r] THEN "first" ELSE IF n <= Limit[r] THEN "forwarded" ELSE "denied"

-----------------------------------------------------------------------------
Admitted(n, r) == n <= Limit[r]

\* What follows the INCR that answered n.
AfterIncr(n, r) ==
  IF n = 1 THEN "first" ELSE IF Admitted(n, r) THEN "forwarded" ELSE "denied"

\* INCR creates a missing key without an expiry.
Incr(c) ==
  LET k == CounterOf[c]
      r == RouteOf[c]
      n == Up(count[k])
  IN  /\ phase[c] = "idle"
      /\ count' = [count EXCEPT ![k] = n]
      /\ ttl' = [ttl EXCEPT ![k] = IF count[k] = 0 THEN Forever ELSE @]
      /\ phase' = [phase EXCEPT ![c] = AfterIncr(n, r)]
      /\ IF Admitted(n, r)
         THEN /\ through' = [through EXCEPT ![k][r] = Up(@)]
              /\ spent' = [spent EXCEPT ![k] = Up(@)]
         ELSE UNCHANGED <<through, spent>>
      /\ UNCHANGED lost

\* INCR is executed but its answer does not arrive: the Redis client sends it
\* again, which is the next Incr of this request, or the request is let through.
IncrUnanswered(c) ==
  LET k == CounterOf[c]
  IN  /\ phase[c] = "idle"
      /\ count' = [count EXCEPT ![k] = Up(@)]
      /\ ttl' = [ttl EXCEPT ![k] = IF count[k] = 0 THEN Forever ELSE @]
      /\ spent' = [spent EXCEPT ![k] = Up(@)]
      /\ lost' = IF count[k] = 0 THEN lost \cup {k} ELSE lost
      /\ phase' \in {phase, [phase EXCEPT ![c] = "forwarded"]}
      /\ UNCHANGED through

\* EXPIRE, which may fail unnoticed, and the comparison of 1 with the limit.
Expire(c) ==
  LET k == CounterOf[c]
      r == RouteOf[c]
  IN  /\ phase[c] = "first"
      /\ \/ ttl' = [ttl EXCEPT ![k] = Window[r]] /\ lost' = lost
         \/ ttl' = ttl /\ lost' = lost \cup {k}
      /\ phase' = [phase EXCEPT ![c] = IF Admitted(1, r) THEN "forwarded" ELSE "denied"]
      /\ UNCHANGED <<count, through, spent>>

\* The request has been served, or answered 429.
Finished(c) ==
  /\ phase[c] \in {"forwarded", "denied"}
  /\ phase' = [phase EXCEPT ![c] = "idle"]
  /\ UNCHANGED <<count, ttl, through, spent, lost>>

\* The gateway dies and is started again; Redis keeps its keys.
GatewayDies ==
  /\ phase' = [c \in Conns |-> "idle"]
  /\ lost' = lost \cup {CounterOf[c] : c \in {d \in Conns : phase[d] = "first"}}
  /\ UNCHANGED <<count, ttl, through, spent>>

\* Redis removes a key whose time is up.
TimePasses ==
  /\ \E k \in Counters : ttl[k] \in 1 .. LongestWindow
  /\ ttl' = [k \in Counters |-> IF ttl[k] \in 1 .. LongestWindow THEN ttl[k] - 1 ELSE ttl[k]]
  /\ count' = [k \in Counters |-> IF ttl'[k] = 0 THEN 0 ELSE count[k]]
  /\ through' = [k \in Counters |-> IF ttl'[k] = 0 THEN [r \in Routes |-> 0] ELSE through[k]]
  /\ spent' = [k \in Counters |-> IF ttl'[k] = 0 THEN 0 ELSE spent[k]]
  /\ UNCHANGED <<phase, lost>>

LimiterNext ==
  \/ \E c \in Conns : Incr(c) \/ IncrUnanswered(c) \/ Expire(c) \/ Finished(c)
  \/ GatewayDies \/ TimePasses

LimiterSpec == LimiterInit /\ [][LimiterNext]_limiterVars

\* Time passes: Redis expires keys whatever the gateway does.  A goroutine whose
\* INCR was answered goes on to EXPIRE, unless the gateway dies.
LimiterFairness ==
  WF_limiterVars(TimePasses) /\ \A c \in Conns : WF_limiterVars(Expire(c))

FairLimiterSpec == LimiterSpec /\ LimiterFairness

-----------------------------------------------------------------------------
\* Properties.

\* limiter.go:33-54: however the requests that share a counter race, and whatever
\* other routes count on it, no route admits more than its limit of them in the
\* life of the counter (besides those let through because Redis did not answer).
LimitPerKey == \A k \in Counters, r \in Routes : through[k][r] <= Limit[r]

\* limiter.go:47: nobody is turned away before as many requests as some route
\* allows have gone through on his counter or had an INCR left unanswered, though
\* they need not be his own nor for the same route.
DeniedWhenExhausted ==
  [][\A c \in Conns :
       phase[c] # "denied" /\ phase'[c] = "denied" =>
         \E r \in Routes : Limit[r] <= spent'[CounterOf[c]]]_limiterVars

\* limiter.go:42-48: once a counter has its expiry, nothing prolongs its life,
\* every tick shortens it, and until it is over the counter does not go down,
\* although the request that set the expiry may be long behind or dead.
WindowRunsOut ==
  [][\A k \in Counters :
       ttl[k] \in 1 .. LongestWindow =>
         /\ ttl'[k] = IF TimePasses THEN ttl[k] - 1 ELSE ttl[k]
         /\ IF ttl'[k] = 0 THEN count'[k] = 0 ELSE count'[k] >= count[k]]_limiterVars

\* limiter.go:42-48: a denied client is told to come back after the window.  An
\* exhausted counter goes away, whatever traffic continues, unless its EXPIRE
\* failed or was not sent, because the gateway died or the answer to the INCR that
\* created it was lost, which nothing makes up for.
Unblocks ==
  \A k \in Counters :
    (\E r \in Routes : count[k] > Limit[r]) ~> (count[k] = 0 \/ k \in lost)
=============================================================================
