-------------------------- MODULE MC_ProjectAccess --------------------------
(* Two projects and the tokens of one user. *)
EXTENDS ProjectAccess

CONSTANTS p1, p2, root, ann, r1, on

MCProjects == {p1, p2}
MCUsers == {root, ann}
MCGlobalAdmins == {root}
MCRequests == {r1}
MCRoleSets == {{"admin", "owner"}, {"admin"}}
MCSettings == {on}
MCLives == {1, 2}
=============================================================================
