-------------------------- MODULE MC_Registration --------------------------
(* Small instances of the accounts for TLC. *)
EXTENDS Registration, TLC

CONSTANTS i1, i2, e1, e2, r1, r2, r3

MCIds == {i1, i2}
MCEmails == {e1, e2}
MCRequests == {r1, r2, r3}

\* Sound for invariants: accounts, emails and requests are interchangeable.
Symmetric ==
  Permutations(MCIds) \cup Permutations(MCEmails) \cup Permutations(MCRequests)
=============================================================================
