-------------------------- MODULE MC_TokenRotation --------------------------
(* Small instances of the token table and its handlers for TLC. *)
EXTENDS TokenRotation, TLC

CONSTANTS t1, t2, t3, r1, r2, viewer, editor

MCTokens == {t1, t2, t3}
MCRequests == {r1, r2}
MCRoleSets == {viewer, editor}

\* One token of each kind: t1 is sound, the DELETE of t2 may fail, t3 may be
\* presented by both requests at once.
MCCareful == {t1, t2}
MCStuck == {t2}

\* Requests are interchangeable and so are role sets, in the model and in every
\* property of the run (all of them are safety properties); tokens are not.
RequestsAndRoles == Permutations(MCRequests) \cup Permutations(MCRoleSets)
=============================================================================
