--------------------------- MODULE MC_ProjectOTP ---------------------------
(* Small instances of the second factor of one project member for TLC. *)
EXTENDS ProjectOTP, TLC

CONSTANTS r1, r2, r3, s1, s2, s3

MCRequests == {r1, r2, r3}
MCSecrets == {s1, s2, s3}

\* Sound for invariants, action properties and step refinement: requests and
\* secrets are interchangeable.
Symmetric == Permutations(MCRequests) \cup Permutations(MCSecrets)
=============================================================================
