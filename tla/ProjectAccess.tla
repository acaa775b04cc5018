---------------------------- MODULE ProjectAccess ----------------------------
(***************************************************************************)
(* What membership in a project is worth at the gateway.  Athena copies    *)
(* the roles that a member has in a project into every access token it     *)
(* issues for that project (auth_handlers.go, otp_handlers.go,             *)
(* token_handler.go); the token does not say which project it was (jwt.go).*)
(* Aegis never asks Athena again and admits whoever presents a token that  *)
(* has not expired and names a required role (Aegis/internal/auth/auth.go).*)
(* The model composes ProjectMembership with the tokens of one user and a  *)
(* clock: owners change or remove him between the statements of a login    *)
(* and while his tokens live.  It ends at ACLMiddleware: the answers that a *)
(* cache in front of it gives are in ResponseCache.                        *)
(***************************************************************************)
EXTENDS ProjectMembership

CONSTANTS
  Member,   \* the user whose tokens are followed
  Lives,    \* JWTAccessTokenTTL and JWTGraceTokenTTL, in ticks
  Leeway,   \* jwt.WithLeeway of the gateway, in ticks
  Longest,  \* bound: ticks that a request of Athena may take
  Horizon   \* bound: `away` and the ages of tokens saturate here

ASSUME AccessAssumption ==
  /\ Member \in Users
  /\ Lives \subseteq Nat \ {0}
  /\ Leeway \in Nat /\ Longest \in Nat /\ Horizon \in Nat
  /\ \A l \in Lives : l + Leeway + Longest <= Horizon

VARIABLES
  login,   \* the request of the member that is to end in a token
  tokens,  \* his access tokens that the gateway still accepts
  away     \* history: how long ago he last held a role of this name in some
           \* project, by name

accessVars == <<projectVars, login, tokens, away>>

Roles == UNION RoleSets

\* With the roles rs, the member has a role of the name q in some project.
Holds(rs, q) == \E p \in Projects : rs[p][Member] # NotMember /\ q \in rs[p][Member]

\* roles  claims.Roles, names without a project
\* life   the TTL the token was issued with
\* age    since GenerateToken
AccessTokens == [roles : SUBSET Roles, life : Lives, age : 0..Horizon]

\* took   since the roles were read
LoginStates == [pc : {"idle", "read"}, roles : SUBSET Roles, took : 0..Longest]

NoLogin == [pc |-> "idle", roles |-> {}, took |-> 0]

AccessTypeOK ==
  /\ ProjectTypeOK
  /\ login \in LoginStates
  /\ tokens \subseteq AccessTokens
  /\ away \in [Roles -> 0..Horizon]
  /\ \A q \in Roles : Holds(roles, q) => away[q] = 0

AccessInit ==
  /\ ProjectInit
  /\ login = NoLogin
  /\ tokens = {}
  /\ away = [q \in Roles |-> Horizon]

-----------------------------------------------------------------------------
\* Bugs this code could have had; each must break a property below.

\* A refresh copies the roles of the old access token.
BugCopyClaims ==
  /\ login.pc = "idle"
  /\ \/ \E t \in tokens : login' = [NoLogin EXCEPT !.pc = "read", !.roles = t.roles]
     \/ \E p \in Projects :
          /\ roles[p][Member] # NotMember
          /\ login' = [NoLogin EXCEPT !.pc = "read", !.roles = roles[p][Member]]
  /\ UNCHANGED <<projectVars, tokens, away>>

\* The gateway checks the signature only.
BugNoExpiry(t) == t.life > 0

-----------------------------------------------------------------------------
\* ValidateToken of the gateway: signature, and exp with a leeway.
Accepts(t) == t.age < t.life + Leeway

\* ACLMiddleware of a route that requires q, of whatever project, behind
\* AuthMiddleware.
Admits(q) == \E t \in tokens : Accepts(t) /\ q \in t.roles

\* A step of the handlers that manage the projects.
Manage ==
  /\ ProjectNext
  /\ away' = [q \in Roles |-> IF Holds(roles', q) THEN 0 ELSE away[q]]
  /\ UNCHANGED <<login, tokens>>

\* GetUserProjectData in a login, a verification of a code or a refresh for some
\* project; who is not a member of it gets no token.
ReadRoles ==
  /\ login.pc = "idle"
  /\ \E p \in Projects :
       /\ roles[p][Member] # NotMember
       /\ login' = [NoLogin EXCEPT !.pc = "read", !.roles = roles[p][Member]]
  /\ UNCHANGED <<projectVars, tokens, away>>

\* GenerateToken, for the usual life or for that of a grace token.
Issue ==
  /\ login.pc = "read"
  /\ \E l \in Lives : tokens' = tokens \cup {[roles |-> login.roles, life |-> l, age |-> 0]}
  /\ login' = NoLogin
  /\ UNCHANGED <<projectVars, away>>

\* The login is refused, fails or is abandoned.
NoToken ==
  /\ login.pc = "read"
  /\ login' = NoLogin
  /\ UNCHANGED <<projectVars, tokens, away>>

Older(n) == IF n < Horizon THEN n + 1 ELSE n

\* A tick passes; what the gateway does not accept any more is forgotten.
Tick ==
  /\ login.took < Longest \/ login.pc = "idle"
  /\ login' = IF login.pc = "idle" THEN login ELSE [login EXCEPT !.took = @ + 1]
  /\ tokens' = {t \in {[u EXCEPT !.age = Older(@)] : u \in tokens} : Accepts(t)}
  /\ away' = [q \in Roles |-> IF Holds(roles, q) THEN away[q] ELSE Older(away[q])]
  /\ UNCHANGED projectVars

AccessNext == Manage \/ ReadRoles \/ Issue \/ NoToken \/ Tick

\* Time passes, and a request of Athena ends.
AccessSpec ==
  /\ AccessInit /\ [][AccessNext]_accessVars
  /\ WF_accessVars(Tick) /\ WF_accessVars(Issue \/ NoToken)

-----------------------------------------------------------------------------
\* Properties.

\* Whom ACLMiddleware admits for a role has held a role of that name, in whichever
\* project, no longer ago than the life of an access token, the leeway of the
\* gateway and the longest request of Athena together, however role changes and
\* removals fall between the statements of his logins.  RefreshHandler,
\* ValidateToken, ACLMiddleware.
AdmittedHeldRecently ==
  \A t \in tokens : \A q \in t.roles :
    Accepts(t) => away[q] < t.life + Leeway + Longest

\* Who has lost the roles of a name in all projects for good is in the end no longer
\* admitted by ACLMiddleware for it, however often he logs in or refreshes where he
\* is still a member.
LostRoleLosesAccess ==
  \A q \in Roles : <>[](~Holds(roles, q)) => <>[](~Admits(q))

\* Athena/README.md:81: "JWT contains scoped roles (e.g., `role: \"admin\"`) valid only
\* for that project."  Who never becomes a member of a project is never admitted to a
\* route of that project, whatever role the route requires.  The code does otherwise:
\* the claims name no project, and ACLMiddleware compares names.
RolesStayInProject ==
  \A p \in Projects :
    [](roles[p][Member] = NotMember) => [](p \in exists => \A q \in Roles : ~Admits(q))
=============================================================================
