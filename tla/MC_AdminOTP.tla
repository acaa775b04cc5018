---------------------------- MODULE MC_AdminOTP ----------------------------
(* Small instances of the global second factor of an administrator for TLC. *)
EXTENDS AdminOTP, TLC

CONSTANTS t1, t2, r1, r2, r3, s1, s2, s3

MCTabs == {t1, t2}
MCRequests == {r1, r2, r3}
MCSecrets == {s1, s2, s3}

\* Sound for invariants, action properties and step refinement: tabs, requests
\* and secrets are interchangeable.
Symmetric == Permutations(MCTabs) \cup Permutations(MCRequests) \cup Permutations(MCSecrets)
=============================================================================
