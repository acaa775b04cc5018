------------------------ MODULE CircuitBreakerProofs ------------------------
(***************************************************************************)
(* Theorems about CircuitBreaker, for any number of requests, any positive *)
(* threshold and any timeout.                                              *)
(***************************************************************************)
EXTENDS CircuitBreaker, TLAPS

(***************************************************************************)
(* What one critical section does to the breaker, whoever calls it.        *)
(***************************************************************************)

\* Success and Fail keep the types of the breaker's fields.
LEMMA SectionTypes ==
  ASSUME TypeOK, Success \/ Fail
  PROVE  /\ state' \in States
         /\ failureCount' \in Nat
         /\ sinceFailure' \in 0 .. Timeout + 1
  BY BreakerAssumption DEF TypeOK, Success, Fail, States

\* Success and Fail keep the counter below the threshold and at zero outside
\* Closed.
LEMMA SectionCount ==
  ASSUME TypeOK, CountAgreesWithState, Success \/ Fail
  PROVE  CountAgreesWithState'
  <1>1. CASE Success
    BY <1>1, BreakerAssumption DEF TypeOK, CountAgreesWithState, Success
  <1>2. CASE Fail
    BY <1>2, BreakerAssumption DEF TypeOK, CountAgreesWithState, Fail, States
  <1>3. QED BY <1>1, <1>2

\* A request that ends runs at most one critical section per step.
LEMMA FinishSection ==
  ASSUME NEW r \in Requests, Finish(r)
  PROVE  /\ Success \/ Fail \/ UNCHANGED <<state, failureCount, sinceFailure>>
         /\ \E l \in {"idle", "erred"} : pc' = [pc EXCEPT ![r] = l]
         /\ InService(r) \/ (pc[r] = "erred" /\ Fail)
  BY DEF Finish, ReportSuccess, ReportFailure, ErrorHandler, ReportErred, Abort

-----------------------------------------------------------------------------
(* Type correctness. *)

\* Every variable keeps its type: the saturated clock in particular never
\* leaves 0 .. Timeout + 1 (time.Since in Breaker.checkState).
THEOREM TypeCorrect == Spec => []TypeOK
  <1>1. Init => TypeOK
    BY BreakerAssumption DEF Init, TypeOK, States, Locations
  <1>2. TypeOK /\ [Next]_vars => TypeOK'
    <2> SUFFICES ASSUME TypeOK, [Next]_vars PROVE TypeOK'
      OBVIOUS
    <2>1. ASSUME NEW r \in Requests, Admit(r) PROVE TypeOK'
      BY <2>1, BreakerAssumption DEF Admit, TypeOK, TurnsHalfOpen, States, Locations
    <2>2. ASSUME NEW r \in Requests, Reject(r) PROVE TypeOK'
      BY <2>2 DEF Reject, TypeOK, Locations
    <2>3. ASSUME NEW r \in Requests, Finish(r) PROVE TypeOK'
      <3>1. /\ state' \in States
            /\ failureCount' \in Nat
            /\ sinceFailure' \in 0 .. Timeout + 1
        BY <2>3, FinishSection, SectionTypes DEF TypeOK
      <3>2. pc' \in [Requests -> Locations]
        BY <2>3, FinishSection DEF TypeOK, Locations
      <3>3. QED BY <3>1, <3>2 DEF TypeOK
    <2>4. CASE Tick
      BY <2>4, BreakerAssumption DEF Tick, TypeOK, Expired
    <2>5. CASE UNCHANGED vars
      BY <2>5 DEF vars, TypeOK
    <2>6. QED BY <2>1, <2>2, <2>3, <2>4, <2>5 DEF Next, CheckState
  <1>3. QED BY <1>1, <1>2, PTL DEF Spec

-----------------------------------------------------------------------------
(* The counter. *)

\* A closed breaker is below its threshold and the counter is zero outside
\* Closed, whatever the order in which concurrent requests report.
THEOREM CountCorrect == Spec => []CountAgreesWithState
  <1>1. Init => CountAgreesWithState
    BY BreakerAssumption DEF Init, CountAgreesWithState
  <1>2. TypeOK /\ CountAgreesWithState /\ [Next]_vars => CountAgreesWithState'
    <2> SUFFICES ASSUME TypeOK, CountAgreesWithState, [Next]_vars
                 PROVE  CountAgreesWithState'
      OBVIOUS
    <2>1. ASSUME NEW r \in Requests, Admit(r) PROVE CountAgreesWithState'
      BY <2>1, BreakerAssumption DEF Admit, CountAgreesWithState, TurnsHalfOpen, TypeOK, States
    <2>2. ASSUME NEW r \in Requests, Reject(r) PROVE CountAgreesWithState'
      BY <2>2 DEF Reject, CountAgreesWithState
    <2>3. ASSUME NEW r \in Requests, Finish(r) PROVE CountAgreesWithState'
      <3>1. CASE Success \/ Fail
        BY <3>1, SectionCount
      <3>2. CASE UNCHANGED <<state, failureCount, sinceFailure>>
        BY <3>2 DEF CountAgreesWithState
      <3>3. QED BY <2>3, <3>1, <3>2, FinishSection
    <2>4. CASE Tick
      BY <2>4 DEF Tick, CountAgreesWithState
    <2>5. CASE UNCHANGED vars
      BY <2>5 DEF vars, CountAgreesWithState
    <2>6. QED BY <2>1, <2>2, <2>3, <2>4, <2>5 DEF Next, CheckState
  <1>3. QED BY <1>1, <1>2, TypeCorrect, PTL DEF Spec

-----------------------------------------------------------------------------
(* The open breaker. *)

\* What a step from an open, unexpired breaker may do.
ProtectedStep ==
  (state = "Open" /\ ~Expired) =>
    /\ \A r \in Requests : InService(r)' => InService(r)
    /\ sinceFailure' >= sinceFailure
    /\ state' # "Open" => state' = "Closed" /\ \E r \in Requests : InService(r) /\ ~InService(r)'

\* Nothing reaches the backend of an open breaker before its timeout, and no
\* late report but a success ends or moves the timeout.
THEOREM OpenProtects == Spec => OpenProtectsBackend
  <1>1. TypeOK /\ [Next]_vars => [ProtectedStep]_vars
    <2> SUFFICES ASSUME TypeOK, Next, state = "Open", ~Expired
                 PROVE  /\ \A r \in Requests : InService(r)' => InService(r)
                        /\ sinceFailure' >= sinceFailure
                        /\ state' # "Open" =>
                             state' = "Closed" /\ \E r \in Requests : InService(r) /\ ~InService(r)'
      BY DEF ProtectedStep
    <2>1. ASSUME NEW q \in Requests, CheckState(q)
          PROVE  /\ \A r \in Requests : InService(r)' => InService(r)
                 /\ sinceFailure' = sinceFailure /\ state' = "Open"
      BY <2>1 DEF CheckState, Admit, Reject, TurnsHalfOpen, InService, TypeOK
    <2>2. ASSUME NEW q \in Requests, Finish(q)
          PROVE  /\ \A r \in Requests : InService(r)' => InService(r)
                 /\ sinceFailure' = sinceFailure
                 /\ state' # "Open" => state' = "Closed" /\ InService(q) /\ ~InService(q)'
      <3>1. \A r \in Requests : InService(r)' => InService(r) /\ r # q
        BY <2>2, FinishSection DEF InService, TypeOK
      <3>2. sinceFailure' = sinceFailure /\ state' \in {"Open", "Closed"}
        BY <2>2, FinishSection DEF Success, Fail
      <3>3. state' # "Open" => InService(q)
        BY <2>2, FinishSection DEF Fail
      <3>4. QED BY <3>1, <3>2, <3>3
    <2>3. CASE Tick
      BY <2>3 DEF Tick, InService, TypeOK
    <2>4. sinceFailure \in Nat
      BY BreakerAssumption DEF TypeOK
    <2>5. QED BY <2>1, <2>2, <2>3, <2>4 DEF Next
  <1>2. QED BY <1>1, TypeCorrect, PTL DEF Spec, OpenProtectsBackend, ProtectedStep

-----------------------------------------------------------------------------
(* Refinement. *)

\* The breaker with its counter, clock and concurrent requests implements the
\* automaton Closed / Open / HalfOpen: every step is a move of the automaton or
\* leaves it alone.
THEOREM RefinesAutomaton == Spec => ImplementsAutomaton
  <1> DEFINE cooled == state = "Open" /\ sinceFailure > Timeout
  <1>1. Init => Automaton!AInit
    BY DEF Init, Automaton!AInit
  <1>2. TypeOK /\ [Next]_vars => [Automaton!ANext]_<<state, cooled>>
    <2> SUFFICES ASSUME TypeOK, Next
                 PROVE  Automaton!ANext \/ UNCHANGED <<state, cooled>>
      BY DEF vars
    <2> USE DEF Automaton!ANext, Automaton!Trip, Automaton!Cool, Automaton!Probe, Automaton!Reset
    <2>1. ASSUME NEW r \in Requests, CheckState(r)
          PROVE  Automaton!ANext \/ UNCHANGED <<state, cooled>>
      BY <2>1 DEF CheckState, Admit, Reject, TurnsHalfOpen, Expired
    <2>2. CASE Success
      BY <2>2 DEF Success
    <2>3. CASE Fail
      BY <2>3, BreakerAssumption DEF Fail
    <2>4. CASE UNCHANGED <<state, failureCount, sinceFailure>>
      BY <2>4
    <2>5. CASE Tick
      BY <2>5, BreakerAssumption DEF Tick, Expired, TypeOK
    <2>6. QED BY <2>1, <2>2, <2>3, <2>4, <2>5, FinishSection DEF Next
  <1>3. QED
    BY <1>1, <1>2, TypeCorrect, PTL
    DEF Spec, ImplementsAutomaton, Automaton!ASpec, Automaton!avars

-----------------------------------------------------------------------------
(* Healing. *)

\* Fairness with the enabling conditions written out, and no stronger than
\* ServiceFairness, Traffic and SomeAnswered.  Time passes while the breaker is
\* open and not expired; a request in flight comes to its end; clients keep
\* calling where a call can change anything; and if requests are in service
\* again and again, again and again some of them are answered below 500.
TimeFairness == []<><<Tick>>_vars \/ []<>Expired
InFlight(r) == InService(r) \/ pc[r] = "erred"
ReportFairness(r) == []<><<Finish(r)>>_vars \/ []<>~InFlight(r)
CallPossible ==
  /\ state # "Open" \/ Expired
  /\ \E r \in Requests : pc[r] \in {"idle", "rejected"}
AnyCall == \E r \in Requests : CheckState(r)
CallFairness == []<><<AnyCall>>_vars \/ []<>~CallPossible
Busy == \E r \in Requests : InService(r)
AnyAnswer == \E r \in Requests : ReportSuccess(r)
AnswerFairness == []<><<AnyAnswer>>_vars \/ <>[]~Busy

\* The steps of the breaker, by who takes them.
LEMMA Steps ==
  ASSUME [Next]_vars
  PROVE  \/ \E r \in Requests : Admit(r)
         \/ \E r \in Requests : Reject(r)
         \/ \E r \in Requests : Finish(r)
         \/ Tick
         \/ UNCHANGED vars
  BY DEF Next, CheckState

\* Each tick brings an open breaker nearer to the end of its timeout, and
\* neither rejected requests nor late failures push that end away: each of the
\* steps by which OpenExpires is reached.
THEOREM OpenAges ==
  ASSUME NEW n \in 0 .. Timeout
  PROVE  Spec /\ TimeFairness =>
           ((state = "Open" /\ sinceFailure = n) ~> (state # "Open" \/ sinceFailure = n + 1))
  <1> DEFINE At == state = "Open" /\ sinceFailure = n
             Later == state # "Open" \/ sinceFailure = n + 1
  <1>1. TypeOK /\ [Next]_vars /\ At => At' \/ Later'
    <2> SUFFICES ASSUME TypeOK, [Next]_vars, At PROVE At' \/ Later'
      OBVIOUS
    <2>1. CASE \E r \in Requests : Admit(r) \/ Reject(r)
      BY <2>1 DEF Admit, Reject
    <2>2. CASE \E r \in Requests : Finish(r)
      BY <2>2, FinishSection DEF Success, Fail
    <2>3. CASE Tick \/ UNCHANGED vars
      BY <2>3 DEF Tick, vars
    <2>4. QED BY <2>1, <2>2, <2>3, Steps
  <1>2. At /\ <<Tick>>_vars => Later'
    BY DEF Tick
  <1>3. At => ~Expired
    BY BreakerAssumption DEF Expired
  <1> HIDE DEF At, Later
  <1>4. Spec /\ TimeFairness => (At ~> Later)
    BY <1>1, <1>2, <1>3, TypeCorrect, PTL DEF Spec, TimeFairness
  <1>5. QED BY <1>4 DEF At, Later

\* A breaker outside Closed has seen a request.
SomebodyCalls == state # "Closed" => Requests # {}

LEMMA Called == Spec => []SomebodyCalls
  <1>1. Init => SomebodyCalls
    BY DEF Init, SomebodyCalls
  <1>2. SomebodyCalls /\ [Next]_vars => SomebodyCalls'
    BY Steps DEF SomebodyCalls, Tick, vars
  <1>3. QED BY <1>1, <1>2, PTL DEF Spec

\* What a step does while no request is in service and the breaker is not
\* closed: an expired breaker stays so until somebody is admitted, and only a
\* second report of an old failure can take HalfOpen back to Open.
Overdue == state = "Open" /\ Expired
Waiting(r) == pc[r] \in {"idle", "rejected"}

LEMMA QuietSteps ==
  ASSUME TypeOK, [Next]_vars, state # "Closed", ~Busy, ~Busy', state' # "Closed",
         NEW r \in Requests
  PROVE  /\ state = "Open" => state' = "Open"
         /\ Overdue => Overdue'
         /\ Waiting(r) => Waiting(r)'
         /\ Finish(r) => Waiting(r)'
         /\ (\E q \in Requests : CheckState(q)) => state = "Open" /\ ~Expired
  <1>1. ASSUME NEW q \in Requests, Admit(q)
        PROVE  FALSE
    <2>1. pc'[q] \in {"probing", "forwarded"}
      BY <1>1 DEF Admit, TypeOK
    <2>2. QED BY <2>1 DEF Busy, InService
  <1>2. ASSUME NEW q \in Requests, Reject(q)
        PROVE  /\ state = "Open" /\ ~Expired /\ state' = "Open"
               /\ pc' = [pc EXCEPT ![q] = "rejected"]
    BY <1>2 DEF Reject, TurnsHalfOpen
  <1>3. ASSUME NEW q \in Requests, Finish(q)
        PROVE  /\ state = "Open" => UNCHANGED <<state, sinceFailure>>
               /\ pc' = [pc EXCEPT ![q] = "idle"]
    <2>1. ReportErred(q)
      BY <1>3 DEF Finish, ReportSuccess, ReportFailure, ErrorHandler, Abort, Busy
    <2>2. QED BY <2>1 DEF ReportErred, Fail
  <1>4. CASE \E q \in Requests : Finish(q)
    BY <1>1, <1>2, <1>3, <1>4 DEF Overdue, Waiting, TypeOK, Expired, CheckState
  <1>5. CASE \E q \in Requests : Reject(q)
    <2>1. state = "Open" /\ ~Expired /\ state' = "Open"
      BY <1>2, <1>5
    <2>2. Waiting(r) => Waiting(r)'
      BY <1>2, <1>5 DEF Waiting, TypeOK
    <2>3. Finish(r) => Waiting(r)'
      BY <1>3 DEF Waiting, TypeOK
    <2>4. QED BY <2>1, <2>2, <2>3 DEF Overdue
  <1>6. CASE Tick \/ UNCHANGED vars
    <2>1. state' = state /\ pc' = pc /\ (Expired => Expired')
      BY <1>6 DEF Tick, vars, Expired
    <2>2. QED BY <1>1, <1>2, <1>3, <2>1 DEF Overdue, Waiting, CheckState, TypeOK
  <1>7. QED BY <1>1, <1>4, <1>5, <1>6, Steps

\* Whatever fails, is cancelled by its client or is lost in the middle of its
\* body, the breaker closes again and again, if its timeouts run out (OpenAges),
\* requests keep coming and end, and some of them are answered.
THEOREM ClosesAgain ==
  Spec /\ AnswerFairness /\ CallFairness
    /\ (\A r \in Requests : ReportFairness(r)) /\ []<>(state = "Open" => Expired) =>
      []<>(state = "Closed")
  <1>1. SUFFICES ASSUME NEW r \in Requests
                 PROVE  Spec /\ AnswerFairness /\ CallFairness
                          /\ ReportFairness(r) /\ []<>(state = "Open" => Expired) =>
                            []<>(state = "Closed")
    <2>1. CASE Requests = {}
      <3>1. SomebodyCalls => state = "Closed"
        BY <2>1 DEF SomebodyCalls
      <3>2. QED BY <3>1, Called, PTL
    <2>2. CASE Requests # {}
      BY <1>1, <2>2
    <2>3. QED BY <2>1, <2>2
  <1> DEFINE Shut == state # "Closed"
             Open == state = "Open"
             Free == Waiting(r)
             Flying == InFlight(r)
  <1>2. <<AnyAnswer>>_vars => ~Shut'
    BY DEF AnyAnswer, ReportSuccess, Success
  <1>3. TypeOK /\ [Next]_vars /\ Shut /\ ~Busy /\ ~Busy' /\ Shut' =>
          /\ Open => Open'
          /\ Overdue => Overdue'
          /\ Free => Free'
          /\ <<Finish(r)>>_vars => Free'
          /\ <<AnyCall>>_vars => Open /\ ~Overdue
    BY QuietSteps DEF Overdue, AnyCall
  <1>4. TypeOK => (Flying \/ Free)
    BY DEF TypeOK, Locations, InFlight, InService, Waiting
  <1>5. Free /\ (Overdue \/ (Shut /\ ~Open)) => CallPossible
    BY DEF Waiting, Overdue, CallPossible
  <1>6. (state = "Open" => Expired) => (Open => Overdue)
    BY DEF Overdue
  <1>7. ~Shut <=> state = "Closed"
    OBVIOUS
  <1> HIDE DEF Shut, Open, Free, Flying
  <1>8. Spec /\ ReportFairness(r) => []<><<Finish(r)>>_vars \/ []<>~Flying
    BY DEF ReportFairness, Flying
  <1>9. Spec /\ AnswerFairness /\ CallFairness /\ ReportFairness(r)
           /\ []<>(state = "Open" => Expired) => []<>~Shut
    BY <1>2, <1>3, <1>4, <1>5, <1>6, <1>8, TypeCorrect, PTL
    DEF Spec, AnswerFairness, CallFairness
  <1>10. QED BY <1>7, <1>9, PTL

-----------------------------------------------------------------------------
(* Staying closed. *)

NobodyErred == \A r \in Requests : pc[r] # "erred"

\* What a step does when no request fails anew: transport errors to be reported
\* only get fewer, and without any a closed breaker stays closed.
LEMMA CalmSteps ==
  ASSUME TypeOK, [Next]_vars, ~NewFailure, NEW r \in Requests
  PROVE  /\ pc[r] # "erred" => pc'[r] # "erred"
         /\ Finish(r) => pc'[r] # "erred"
         /\ NobodyErred => NobodyErred'
         /\ NobodyErred /\ state = "Closed" => state' = "Closed"
  <1>1. ASSUME NEW q \in Requests, Finish(q)
        PROVE  /\ pc' = [pc EXCEPT ![q] = "idle"]
               /\ NobodyErred /\ state = "Closed" => state' = "Closed"
    BY <1>1 DEF Finish, ReportSuccess, ReportErred, Abort, NewFailure, NobodyErred, Success
  <1>2. CASE \E q \in Requests : Finish(q)
    BY <1>1, <1>2 DEF NobodyErred, TypeOK
  <1>3. CASE \E q \in Requests : Admit(q) \/ Reject(q)
    <2>1. Finish(r) => pc'[r] # "erred"
      BY <1>1 DEF TypeOK
    <2>2. \A q \in Requests : pc[q] # "erred" => pc'[q] # "erred"
      BY <1>3 DEF Admit, Reject, TypeOK
    <2>3. state = "Closed" => state' = "Closed"
      BY <1>3 DEF Admit, Reject, TurnsHalfOpen
    <2>4. QED BY <2>1, <2>2, <2>3 DEF NobodyErred
  <1>4. CASE Tick \/ UNCHANGED vars
    BY <1>1, <1>4 DEF Tick, vars, NobodyErred, TypeOK
  <1>5. QED BY <1>2, <1>3, <1>4, Steps

\* Every failure that is still to be reported a second time is reported, and
\* for good, once no request fails anew.
THEOREM ErredEnds ==
  ASSUME NEW r \in Requests
  PROVE  Spec /\ ReportFairness(r) /\ <>[][~NewFailure]_vars => <>[](pc[r] # "erred")
  <1> DEFINE Rid == pc[r] # "erred"
             Flying == InFlight(r)
  <1>1. TypeOK /\ [Next]_vars /\ [~NewFailure]_vars => (Rid => Rid')
    <2>1. CASE UNCHANGED vars
      BY <2>1 DEF vars
    <2>2. QED BY <2>1, CalmSteps
  <1>2. TypeOK /\ [Next]_vars /\ [~NewFailure]_vars /\ <<Finish(r)>>_vars => Rid'
    BY CalmSteps
  <1>3. ~Rid => Flying
    BY DEF InFlight
  <1>4. ReportFairness(r) => []<><<Finish(r)>>_vars \/ []<>~Flying
    BY DEF ReportFairness
  <1> HIDE DEF Rid, Flying
  <1>5. Spec /\ ReportFairness(r) /\ <>[][~NewFailure]_vars => <>[]Rid
    BY <1>1, <1>2, <1>3, <1>4, TypeCorrect, PTL DEF Spec
  <1>6. QED BY <1>5 DEF Rid

\* Under the same fairness, once no failure is left to be reported and no
\* request fails anew, the breaker closes for good, although requests may still
\* be cancelled in the middle of their bodies.
THEOREM HealsWhenCalm ==
  Spec /\ AnswerFairness /\ CallFairness
    /\ (\A r \in Requests : ReportFairness(r)) /\ []<>(state = "Open" => Expired)
    /\ <>(NobodyErred /\ [][~NewFailure]_vars) =>
      <>[](state = "Closed")
  <1> DEFINE Shut == state = "Closed"
  <1>1. TypeOK /\ [Next]_vars /\ [~NewFailure]_vars /\ NobodyErred =>
          NobodyErred' /\ (Shut => Shut')
    <2>1. CASE UNCHANGED vars
      BY <2>1 DEF vars, NobodyErred
    <2>2. CASE Requests = {}
      BY <2>2, Steps DEF NobodyErred, Tick, vars
    <2>3. CASE Requests # {} /\ ~NewFailure
      BY <2>3, CalmSteps
    <2>4. QED BY <2>1, <2>2, <2>3
  <1>2. Spec /\ AnswerFairness /\ CallFairness
          /\ (\A r \in Requests : ReportFairness(r)) /\ []<>(state = "Open" => Expired) =>
            []<>Shut
    BY ClosesAgain
  <1> HIDE DEF Shut
  <1>3. Spec /\ []<>Shut /\ <>(NobodyErred /\ [][~NewFailure]_vars) => <>[]Shut
    BY <1>1, TypeCorrect, PTL DEF Spec
  <1>4. QED BY <1>2, <1>3 DEF Shut
=============================================================================
