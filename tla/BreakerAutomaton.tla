-------------------------- MODULE BreakerAutomaton --------------------------
(***************************************************************************)
(* What the circuit breaker of Aegis promises to the backend behind it,    *)
(* without counters, requests or clocks: the three published states        *)
(* (Aegis/internal/circuit/breaker.go, constants Closed, Open, HalfOpen)   *)
(* and the moves between them.  `cooled' tells whether the whole open      *)
(* timeout has passed since the breaker last opened.                       *)
(***************************************************************************)
EXTENDS Naturals

VARIABLES
  mode,     \* the state that the gauge publishes
  cooled    \* the open timeout has run out

avars == <<mode, cooled>>

Modes == {"Closed", "Open", "HalfOpen"}

AInit == mode = "Closed" /\ cooled = FALSE

\* Enough failures, or one failed probe: open, and start a full timeout.
Trip  == mode # "Open" /\ mode' = "Open" /\ cooled' = FALSE

\* The timeout of an open breaker runs out.
Cool  == mode = "Open" /\ ~cooled /\ mode' = mode /\ cooled' = TRUE

\* Only a breaker that has cooled down starts probing.
Probe == mode = "Open" /\ cooled /\ mode' = "HalfOpen" /\ cooled' = FALSE

\* A reported success closes the breaker from wherever it is.
Reset == mode # "Closed" /\ mode' = "Closed" /\ cooled' = FALSE

ANext == Trip \/ Cool \/ Probe \/ Reset

ASpec == AInit /\ [][ANext]_avars
=============================================================================
