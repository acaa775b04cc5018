--------------------------- MODULE TokenRotation ---------------------------
(***************************************************************************)
(* The refresh tokens of one Athena user in one project: concurrent logins *)
(* and refreshes against the table refresh_tokens, while an owner changes  *)
(* the user's roles in user_projects.  Athena opens no transaction, so a   *)
(* step is one SQL statement with the code that follows it up to the next  *)
(* statement (Athena/internal/handlers/token_handler.go, auth_handlers.go, *)
(* internal/database/token_repository.go).                                 *)
(***************************************************************************)
EXTENDS Naturals, FiniteSets

CONSTANTS
  Tokens,         \* bound: the refresh tokens that may be issued in a behaviour
  Requests,       \* HTTP requests that may be in flight at once
  RoleSets,       \* values of user_projects.roles
  NotMember,      \* no row in user_projects
  NoToken,
  Careful,        \* tokens that their holder never presents twice at once
  Stuck           \* tokens whose DELETE may fail

ASSUME RotationAssumption ==
  /\ NotMember \notin RoleSets
  /\ NoToken \notin Tokens
  /\ Careful \subseteq Tokens
  /\ Stuck \subseteq Tokens

VARIABLES
  rows,       \* refresh_tokens, by token
  expired,    \* tokens whose expires_at has passed
  issued,     \* tokens that were ever inserted
  parent,     \* the token each token was exchanged for, NoToken after a login
  roles,      \* the user's row in user_projects
  req,        \* the state of each request
  delivered,  \* tokens some client has received
  accepted,   \* history: tokens that passed the check of a refresh
  replayed    \* history: logins of whose family an exchanged token came again

vars == <<rows, expired, issued, parent, roles, req, delivered, accepted, replayed>>

\* pc     idle, tokenRead, admitted, minting, saved
\* tok    the presented token (NoToken for a login)
\* roles  projectData.Roles, read before the tokens are made
\* held   history: the roles the user has had since the request began
\* fresh  the token made for the response
RequestStates ==
  [pc : {"idle", "tokenRead", "admitted", "minting", "saved"},
   tok : Tokens \cup {NoToken},
   roles : RoleSets \cup {NotMember},
   held : SUBSET (RoleSets \cup {NotMember}),
   fresh : Tokens \cup {NoToken}]

Idle == [pc |-> "idle", tok |-> NoToken, roles |-> NotMember, held |-> {}, fresh |-> NoToken]

TypeOK ==
  /\ rows \subseteq issued
  /\ expired \subseteq issued
  /\ issued \subseteq Tokens
  /\ parent \in [Tokens -> Tokens \cup {NoToken}]
  /\ roles \in RoleSets \cup {NotMember}
  /\ req \in [Requests -> RequestStates]
  /\ delivered \subseteq issued
  /\ accepted \subseteq delivered
  /\ replayed \subseteq issued

Init ==
  /\ rows = {} /\ expired = {} /\ issued = {}
  /\ parent = [t \in Tokens |-> NoToken]
  /\ roles \in RoleSets
  /\ req = [r \in Requests |-> Idle]
  /\ delivered = {} /\ accepted = {} /\ replayed = {}

At(r, l) == req[r].pc = l

\* The login a token goes back to, over the refreshes in between.
Family[t \in Tokens] == IF parent[t] = NoToken THEN t ELSE Family[parent[t]]

-----------------------------------------------------------------------------
\* Bugs this code could have had; each must break a property below.

\* The row is looked up in a cache that does not see deletions.
BugStaleLookup(r, t) ==
  /\ At(r, "idle") /\ t \in delivered
  /\ t \in Careful => \A q \in Requests : req[q].tok # t
  /\ t \in issued \ expired
  /\ req' = [req EXCEPT ![r] = [Idle EXCEPT !.pc = "tokenRead", !.tok = t, !.held = {roles}]]
  /\ accepted' = accepted \cup {t}
  /\ UNCHANGED <<rows, expired, issued, parent, roles, delivered, replayed>>

\* sql.ErrNoRows of GetUserProjectData is not an error.
BugNoMembershipCheck(r) ==
  /\ At(r, "tokenRead")
  /\ req' = [req EXCEPT ![r] = [@ EXCEPT !.pc = "admitted", !.roles = roles]]
  /\ UNCHANGED <<rows, expired, issued, parent, roles, delivered, accepted, replayed>>

\* A refresh deletes every session of the user.
BugDeleteAll(r) ==
  /\ At(r, "admitted")
  /\ rows' = {}
  /\ req' = [req EXCEPT ![r].pc = "minting"]
  /\ UNCHANGED <<expired, issued, parent, roles, delivered, accepted, replayed>>

\* The DELETE looks for the plain token instead of its hash.
BugDeleteMisses(r) ==
  /\ At(r, "admitted")
  /\ rows' = rows
  /\ req' = [req EXCEPT ![r].pc = "minting"]
  /\ UNCHANGED <<expired, issued, parent, roles, delivered, accepted, replayed>>

-----------------------------------------------------------------------------
\* Login.

\* handleProjectLogin up to issueTokensAndRespond: one query reads the user and
\* his roles; the access token is signed from them (auth_handlers.go:257-344).
Login(r) ==
  /\ At(r, "idle") /\ roles # NotMember
  /\ req' = [req EXCEPT ![r] = [Idle EXCEPT !.pc = "minting", !.roles = roles, !.held = {roles}]]
  /\ UNCHANGED <<rows, expired, issued, parent, roles, delivered, accepted, replayed>>

-----------------------------------------------------------------------------
\* RefreshHandler.

\* GetRefreshTokenByHash finds a row that is neither expired nor revoked (no
\* statement of the code ever sets revoked).
ReadToken(r, t) ==
  /\ At(r, "idle") /\ t \in delivered
  /\ t \in Careful => \A q \in Requests : req[q].tok # t
  /\ t \in rows \ expired
  /\ req' = [req EXCEPT ![r] = [Idle EXCEPT !.pc = "tokenRead", !.tok = t, !.held = {roles}]]
  /\ accepted' = accepted \cup {t}
  /\ UNCHANGED <<rows, expired, issued, parent, roles, delivered, replayed>>

\* No such row: 401, and nothing is written, although the token was exchanged
\* before; the model notes that.  (Nor is anything when the row has expired.)
RefuseReplay(t) ==
  /\ t \in accepted \ rows
  /\ replayed' = replayed \cup {s \in issued : s = Family[t]}
  /\ UNCHANGED <<rows, expired, issued, parent, roles, req, delivered, accepted>>

\* GetUserByID (nothing it reads ever changes the outcome) and
\* GetUserProjectData: the roles for the new access token.
ReadRoles(r) ==
  /\ At(r, "tokenRead") /\ roles # NotMember
  /\ req' = [req EXCEPT ![r] = [@ EXCEPT !.pc = "admitted", !.roles = roles]]
  /\ UNCHANGED <<rows, expired, issued, parent, roles, delivered, accepted, replayed>>

\* ErrUserNotInProject: 403, the token stays.
Forbid(r) ==
  /\ At(r, "tokenRead") /\ roles = NotMember
  /\ req' = [req EXCEPT ![r] = Idle]
  /\ UNCHANGED <<rows, expired, issued, parent, roles, delivered, accepted, replayed>>

\* DeleteRefreshToken.  An error, "no such row" included, is logged and the
\* handler goes on.
DeleteOld(r) ==
  /\ At(r, "admitted")
  /\ \/ rows' = rows \ {req[r].tok}
     \/ req[r].tok \in Stuck /\ rows' = rows
  /\ req' = [req EXCEPT ![r].pc = "minting"]
  /\ UNCHANGED <<expired, issued, parent, roles, delivered, accepted, replayed>>

-----------------------------------------------------------------------------
\* Shared by all handlers that issue tokens.

\* SaveRefreshToken of a fresh random token.
SaveNew(r) ==
  /\ At(r, "minting")
  /\ \E n \in Tokens \ issued :
       /\ rows' = rows \cup {n}
       /\ issued' = issued \cup {n}
       /\ parent' = [parent EXCEPT ![n] = req[r].tok]
       /\ req' = [req EXCEPT ![r] = [@ EXCEPT !.pc = "saved", !.fresh = n]]
  /\ UNCHANGED <<expired, roles, delivered, accepted, replayed>>

\* The response with the new pair reaches the client.
Respond(r) ==
  /\ At(r, "saved")
  /\ delivered' = delivered \cup {req[r].fresh}
  /\ req' = [req EXCEPT ![r] = Idle]
  /\ UNCHANGED <<rows, expired, issued, parent, roles, accepted, replayed>>

\* The request ends early: a statement or the signing fails (500), the client
\* is gone, the process dies.  What was written stays written.
Abandon(r) ==
  /\ ~At(r, "idle")
  /\ req' = [req EXCEPT ![r] = Idle]
  /\ UNCHANGED <<rows, expired, issued, parent, roles, delivered, accepted, replayed>>

-----------------------------------------------------------------------------
\* Around the handlers.

\* UpdateUserRoles, RemoveUserFromProject or AddUserToProject for this user.
ChangeRoles(x) ==
  /\ x # roles
  /\ roles' = x
  /\ req' = [r \in Requests |->
               IF At(r, "idle") THEN req[r] ELSE [req[r] EXCEPT !.held = @ \cup {x}]]
  /\ UNCHANGED <<rows, expired, issued, parent, delivered, accepted, replayed>>

Expire(t) ==
  /\ t \in rows \ expired
  /\ expired' = expired \cup {t}
  /\ UNCHANGED <<rows, issued, parent, roles, req, delivered, accepted, replayed>>

Refresh(r) ==
  \/ \E t \in Tokens : ReadToken(r, t)
  \/ ReadRoles(r) \/ Forbid(r) \/ DeleteOld(r)

Next ==
  \/ \E r \in Requests : Login(r) \/ Refresh(r) \/ SaveNew(r) \/ Respond(r) \/ Abandon(r)
  \/ \E x \in RoleSets \cup {NotMember} : ChangeRoles(x)
  \/ \E t \in Tokens : RefuseReplay(t) \/ Expire(t)

Spec == Init /\ [][Next]_vars

-----------------------------------------------------------------------------
\* Properties.

\* A client that holds a refresh token it has never used can use it: whatever
\* other sessions, failures and crashes do, a delivered token that no refresh
\* has accepted is still in the table, unless a token of its own family was
\* presented again.  SaveRefreshToken before the response, DeleteRefreshToken
\* by hash.
UnusedTokensLive ==
  \A t \in delivered \ accepted : t \in rows \/ Family[t] \in replayed

\* Athena/README.md:29: "automatic reuse detection (token family invalidation)".
\* Once a token that was exchanged has been presented again, no token of its
\* family is accepted any more.  RefreshHandler.
ReplayEndsFamily ==
  [][\A t \in Tokens : t \in accepted' \ accepted => Family[t] \notin replayed]_vars

\* The roles in an access token are roles the user had at some moment between
\* the start of the request and its answer; in particular a user removed from
\* the project before his request began gets nothing, however the removal
\* interleaves with the handler.  GetUserProjectData in RefreshHandler.
ServedRolesWereHeld ==
  \A r \in Requests :
    req[r].pc \in {"admitted", "minting", "saved"} =>
      req[r].roles \in req[r].held \ {NotMember}

\* A token that was exchanged is dead, even when several handlers exchanged it
\* at once or died on the way, unless its own DELETE may fail.
\* DeleteRefreshToken before SaveRefreshToken.
ExchangedIsDead == \A n \in issued : parent[n] \notin rows \ Stuck

\* The tokens of which the code can promise a single use.
Sound == Careful \ Stuck

\* Such a token is exchanged at most once, however careless other clients are
\* and whatever becomes of other tokens.
OneHeir ==
  \A m, n \in issued : parent[m] = parent[n] /\ parent[m] \in Sound => m = n

\* The requests that have given up such a token and not yet stored its successor.
Exchanging == {r \in Requests : At(r, "minting") /\ req[r].tok \in Sound}

\* For these tokens the handlers implement single use: what a refresh creates
\* is paid for by exactly one token that is gone.  What is obtained for another
\* token is, like a login, not paid for.
SingleUse == INSTANCE SingleUseTokens
               WITH Claims <- Requests, minted <- issued, usable <- rows,
                    claims <- Exchanging

ImplementsSingleUse == SingleUse!ASpec

\* The sessions of the user, stored or in the middle of a refresh.
Worth == Cardinality(rows) + Cardinality(Exchanging)

\* Sessions do not multiply: their number grows only by an INSERT, of a login
\* or of a refresh with a token the code can promise nothing about; a refresh
\* with a sound token, whatever interrupts it, makes one of one.
\* RefreshHandler and SaveRefreshToken.
SessionsConserved ==
  [][Worth' > Worth =>
       \E r \in Requests :
         At(r, "minting") /\ At(r, "saved")' /\ req[r].tok \notin Sound]_vars
=============================================================================
