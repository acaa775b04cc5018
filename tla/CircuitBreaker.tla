--------------------------- MODULE CircuitBreaker ---------------------------
(***************************************************************************)
(* One circuit breaker of the Aegis gateway and the concurrent requests    *)
(* that pass through it (Aegis/internal/circuit, Aegis/internal/router/    *)
(* proxy.go).  A step is one critical section of Breaker.mu.  The backend  *)
(* is outside src/: an admitted request ends in any of the ways the proxy  *)
(* distinguishes.  Gauges and log lines are left out.                      *)
(***************************************************************************)
EXTENDS Naturals, FiniteSets

CONSTANTS
  Requests,          \* request slots: goroutines that may be in flight at once
  FailureThreshold,  \* Breaker.FailureThreshold
  Timeout            \* Breaker.Timeout, in clock ticks

\* A breaker is only built when the route's threshold is positive
\* (router/handlers.go, FailureThreshold > 0).
ASSUME BreakerAssumption == FailureThreshold \in Nat \ {0} /\ Timeout \in Nat

VARIABLES
  state,         \* Breaker.State
  failureCount,  \* Breaker.FailureCount
  sinceFailure,  \* time since Breaker.LastFailureTime, saturated past Timeout
  pc             \* where each request is

vars == <<state, failureCount, sinceFailure, pc>>

States == {"Closed", "Open", "HalfOpen"}

\* idle       no request in the slot
\* rejected   answered 503 without reaching the backend
\* forwarded  admitted while Closed, inside next.ServeHTTP
\* probing    admitted while HalfOpen, inside next.ServeHTTP
\* erred      the proxy's ErrorHandler has run, the middleware has not resumed
Locations == {"idle", "rejected", "forwarded", "probing", "erred"}

TypeOK ==
  /\ state \in States
  /\ failureCount \in Nat
  /\ sinceFailure \in 0 .. Timeout + 1
  /\ pc \in [Requests -> Locations]

Init ==
  /\ state = "Closed"
  /\ failureCount = 0
  /\ sinceFailure = 0
  /\ pc = [r \in Requests |-> "idle"]

InService(r) == pc[r] \in {"forwarded", "probing"}

\* time.Since(b.LastFailureTime) > b.Timeout
Expired == sinceFailure > Timeout

-----------------------------------------------------------------------------
\* Bugs this code could have had; each must break a property below.

\* checkState forgets the timeout.
BugImpatient == state = "Open"

\* Fail opens the breaker without clearing the count.
BugKeepCount ==
  IF state = "Open"
  THEN UNCHANGED <<state, failureCount, sinceFailure>>
  ELSE LET opens == failureCount + 1 >= FailureThreshold \/ state = "HalfOpen"
       IN  /\ state' = IF opens THEN "Open" ELSE state
           /\ failureCount' = failureCount + 1
           /\ sinceFailure' = 0

\* Fail stamps LastFailureTime in every state.
BugStampWhenOpen ==
  LET opens == failureCount + 1 >= FailureThreshold \/ state # "Closed"
  IN  /\ state' = IF opens THEN "Open" ELSE state
      /\ failureCount' = IF opens THEN 0 ELSE failureCount + 1
      /\ sinceFailure' = 0

\* A rejected request counts as a failure.
BugRejectRestartsTimeout(r) ==
  /\ pc[r] \in {"idle", "rejected"}
  /\ state = "Open" /\ ~Expired
  /\ pc' = [pc EXCEPT ![r] = "rejected"]
  /\ sinceFailure' = 0
  /\ UNCHANGED <<state, failureCount>>

-----------------------------------------------------------------------------
\* The critical sections of the breaker.

\* checkState for the request r: an expired Open breaker becomes HalfOpen.
TurnsHalfOpen == state = "Open" /\ Expired

Admit(r) ==
  /\ pc[r] \in {"idle", "rejected"}
  /\ state # "Open" \/ TurnsHalfOpen
  /\ state' = IF TurnsHalfOpen THEN "HalfOpen" ELSE state
  /\ failureCount' = IF TurnsHalfOpen THEN 0 ELSE failureCount
  /\ pc' = [pc EXCEPT ![r] = IF state' = "HalfOpen" THEN "probing" ELSE "forwarded"]
  /\ UNCHANGED sinceFailure

Reject(r) ==
  /\ pc[r] \in {"idle", "rejected"}
  /\ state = "Open" /\ ~TurnsHalfOpen
  /\ pc' = [pc EXCEPT ![r] = "rejected"]
  /\ UNCHANGED <<state, failureCount, sinceFailure>>

\* Breaker.Success: whatever was not Closed closes; in Closed nothing changes,
\* the failures counted so far included.
Success ==
  /\ state' = "Closed"
  /\ failureCount' = IF state # "Closed" THEN 0 ELSE failureCount
  /\ UNCHANGED sinceFailure

\* Breaker.Fail: ignored while Open.
Fail ==
  IF state = "Open"
  THEN UNCHANGED <<state, failureCount, sinceFailure>>
  ELSE LET opens == failureCount + 1 >= FailureThreshold \/ state = "HalfOpen"
       IN  /\ state' = IF opens THEN "Open" ELSE state
           /\ failureCount' = IF opens THEN 0 ELSE failureCount + 1
           /\ sinceFailure' = 0

-----------------------------------------------------------------------------
\* How an admitted request ends.

\* A status below 500 reaches the middleware.
ReportSuccess(r) ==
  /\ InService(r)
  /\ Success
  /\ pc' = [pc EXCEPT ![r] = "idle"]

\* The backend answered with a status of 500 or more.
ReportFailure(r) ==
  /\ InService(r)
  /\ Fail
  /\ pc' = [pc EXCEPT ![r] = "idle"]

\* The round trip failed, be it that the backend is down or slow or that the
\* client has gone and its context is cancelled: ErrorHandler calls Fail and
\* writes 503 or 504 ...
ErrorHandler(r) ==
  /\ InService(r)
  /\ Fail
  /\ pc' = [pc EXCEPT ![r] = "erred"]

\* ... and the middleware, resumed, sees that status and calls Fail again.
ReportErred(r) ==
  /\ pc[r] = "erred"
  /\ Fail
  /\ pc' = [pc EXCEPT ![r] = "idle"]

\* Copying the body fails, on the side of the backend or of the client:
\* httputil.ReverseProxy panics with ErrAbortHandler, the middleware is unwound
\* and reports nothing.
Abort(r) ==
  /\ InService(r)
  /\ pc' = [pc EXCEPT ![r] = "idle"]
  /\ UNCHANGED <<state, failureCount, sinceFailure>>

-----------------------------------------------------------------------------
\* The environment.

Tick ==
  /\ ~Expired
  /\ sinceFailure' = sinceFailure + 1
  /\ UNCHANGED <<state, failureCount, pc>>

\* Bug: HalfOpen lets through only the request that found the timeout expired,
\* and nobody takes its place when that one ends without a report.
BugSingleProbe(r) ==
  \/ Admit(r) /\ state # "HalfOpen"
  \/ Reject(r)
  \/ /\ pc[r] \in {"idle", "rejected"} /\ state = "HalfOpen"
     /\ pc' = [pc EXCEPT ![r] = "rejected"]
     /\ UNCHANGED <<state, failureCount, sinceFailure>>

CheckState(r) == Admit(r) \/ Reject(r)

Finish(r) ==
  ReportSuccess(r) \/ ReportFailure(r) \/ ErrorHandler(r) \/ ReportErred(r) \/ Abort(r)

Next ==
  \/ \E r \in Requests : CheckState(r) \/ Finish(r)
  \/ Tick

Spec == Init /\ [][Next]_vars

\* Time passes, and every admitted request ends (answer, transport error or
\* client gone).
ServiceFairness == WF_vars(Tick) /\ \A r \in Requests : WF_vars(Finish(r))

FairSpec == Spec /\ ServiceFairness

\* Clients keep sending requests ...
Traffic == WF_vars(\E r \in Requests : CheckState(r))

\* ... and of the requests that reach the backend, again and again, some are
\* answered below 500: not all of them fail or are given up by their clients.
SomeAnswered == SF_vars(\E r \in Requests : ReportSuccess(r))

\* A request fails anew; ReportErred only reports an old failure again.
NewFailure == \E r \in Requests : ReportFailure(r) \/ ErrorHandler(r)

-----------------------------------------------------------------------------
\* Properties.

\* The counter and the state agree whatever the interleaving of reports: a
\* closed breaker is always below its threshold (so no failure is "owed"), and
\* the counter is zero outside Closed, so that a closed period always starts
\* with the full allowance.  Breaker.Fail, Breaker.Success, checkState.
CountAgreesWithState ==
  /\ state = "Closed" => failureCount < FailureThreshold
  /\ state # "Closed" => failureCount = 0

\* From the moment the breaker opens until its whole timeout has passed, or a
\* request admitted earlier reports a success, no request reaches the backend,
\* and whatever late failures arrive do not move the end of the timeout.
\* Breaker.checkState, Breaker.Fail (State != Open), CircuitBreakerMiddleware.
OpenProtectsBackend ==
  [][(state = "Open" /\ ~Expired) =>
       /\ \A r \in Requests : InService(r)' => InService(r)
       /\ sinceFailure' >= sinceFailure
       /\ state' # "Open" => state' = "Closed" /\ \E r \in Requests : InService(r) /\ ~InService(r)']_vars

\* The breaker implements the automaton its state names announce.
Automaton == INSTANCE BreakerAutomaton
               WITH mode <- state, cooled <- (state = "Open" /\ sinceFailure > Timeout)

ImplementsAutomaton == Automaton!ASpec

\* An open breaker does not stay shut for ever: rejected requests and late
\* failures cannot keep pushing its timeout away.  Breaker.Fail,
\* Breaker.checkState.
OpenExpires == (state = "Open") ~> (state # "Open" \/ Expired)

\* While clients keep calling and some of their requests are answered, the
\* breaker closes again and again, whatever else fails, is cancelled or is lost:
\* no aborted probe leaves it half open.  And once no request fails any more it
\* closes for good: no failure report left over from before reopens it for ever.
\* CircuitBreakerMiddleware, Breaker.checkState, Breaker.Success.
HealsAfterRecovery ==
  Traffic /\ SomeAnswered =>
    /\ []<>(state = "Closed")
    /\ <>[][~NewFailure]_vars => <>[](state = "Closed")
=============================================================================
