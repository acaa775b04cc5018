------------------------ MODULE MC_ProjectMembership ------------------------
(* Two projects for TLC: with overlapping requests, and with one at a time. *)
EXTENDS ProjectMembership, TLC

CONSTANTS p1, p2, root, ann, r1, r2, i1, on, off

MCProjects == {p1, p2}
MCUsers == {root, ann}
MCGlobalAdmins == {root}
MCRequests == {r1, r2}
MCOneRequest == {r1}
MCRoleSets == {{"admin", "owner"}, {"admin"}}
MCRouteIds == {i1}
MCRules == {{}, {"admin"}}
MCSettings == {on, off}

\* Sound for action properties and invariants: projects, requests and values of
\* the settings are interchangeable.
Symmetric ==
  Permutations(MCProjects) \cup Permutations(MCRequests) \cup Permutations(MCSettings)
=============================================================================
