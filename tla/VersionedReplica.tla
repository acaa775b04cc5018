-------------------------- MODULE VersionedReplica --------------------------
(***************************************************************************)
(* What the hot reload of Aegis promises, without polls, hosts or failures *)
(* of the network: the gateway serves one complete version of the route    *)
(* table that Athena has published, and goes forward through the versions, *)
(* never back, not even when it is restarted.                              *)
(***************************************************************************)
EXTENDS Naturals

VARIABLES
  published,  \* number of versions published so far
  served,     \* the version being served, 0 when the gateway serves nothing
  newest      \* the newest version ever served

rvars == <<published, served, newest>>

RInit == published = 1 /\ served = 0 /\ newest = 0

Publish == published' = published + 1 /\ UNCHANGED <<served, newest>>

\* Versions may be skipped: only the last one at the time of a poll is seen.
Serve ==
  /\ newest' \in newest .. published /\ newest' > 0
  /\ served' = newest'
  /\ UNCHANGED published

Stop == served' = 0 /\ UNCHANGED <<published, newest>>

RNext == Publish \/ Serve \/ Stop

RSpec == RInit /\ [][RNext]_rvars
=============================================================================
