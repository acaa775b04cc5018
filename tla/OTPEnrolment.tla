---------------------------- MODULE OTPEnrolment ----------------------------
(***************************************************************************)
(* What second-factor enrolment promises the holder of one account: a key  *)
(* is offered while the factor is off, becomes active only after the       *)
(* holder has shown that his device knows it, and stays the active key     *)
(* until the factor is switched off.  The promise is void once the holder  *)
(* manages his factor from two places at once.                             *)
(***************************************************************************)
CONSTANTS Keys, NoKey

VARIABLES
  stage,  \* "off", "pending", "on" or "void"
  key,    \* the key offered or active
  known   \* the keys the holder's device knows

avars == <<stage, key, known>>

AInit == stage = "off" /\ key = NoKey /\ known = {}

Offer(k) ==
  /\ stage \in {"off", "pending"} /\ k \notin known
  /\ stage' = "pending" /\ key' = k
  /\ UNCHANGED known

Learn ==
  /\ stage = "pending"
  /\ known' = known \cup {key}
  /\ UNCHANGED <<stage, key>>

Confirm ==
  /\ stage = "pending" /\ key \in known
  /\ stage' = "on"
  /\ UNCHANGED <<key, known>>

\* The holder switches the factor off, or leaves.
Clear ==
  /\ stage # "void"
  /\ stage' = "off" /\ key' = NoKey
  /\ UNCHANGED known

\* The end of the promise.
Void == stage' = "void" /\ key' = NoKey /\ known' = {}

ANext == (\E k \in Keys : Offer(k)) \/ Learn \/ Confirm \/ Clear \/ Void

ASpec == AInit /\ [][ANext]_avars
=============================================================================
