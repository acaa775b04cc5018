---------------------------- MODULE Registration ----------------------------
(***************************************************************************)
(* The accounts of Athena: concurrent registrations, for a project (host   *)
(* of a shop, or a project header) and global ones, which decide who       *)
(* becomes a global administrator; changes of the email by the holder of   *)
(* an account; additions of an existing account to the project by an owner.*)
(* A step is one SQL statement of a handler with the code up to the next   *)
(* one; there is no transaction (Athena/internal/handlers/                 *)
(* auth_handlers.go, user_handler.go, project_handlers.go, internal/       *)
(* database/user_repository.go).  Requests that are refused at their first *)
(* statement change nothing and are left out, and nothing is deleted.      *)
(***************************************************************************)
EXTENDS Naturals, FiniteSets

CONSTANTS
  Ids,       \* bound: the accounts that may be created
  Emails,
  Requests,  \* requests that may be in flight at once
  NoId, NoEmail

ASSUME RegistrationAssumption == NoEmail \notin Emails /\ NoId \notin Ids

VARIABLES
  kind,        \* users.is_admin: "customer" or "admin", "none" before the INSERT
  email,       \* users.email, which has a unique key
  members,     \* accounts with a row in user_projects of the project
  bySecret,    \* history: accounts created with the registration secret
  forProject,  \* history: accounts created by a registration for the project
  doubleCount, \* history: a count fell between the count and INSERT of a first user
  knows,       \* history: the emails the holder of an account has to reckon with
  overlapped,  \* history: accounts whose holder changed the email twice at once
  req          \* the state of each request

vars == <<kind, email, members, bySecret, forProject, doubleCount, knows, overlapped, req>>

\* pc       idle; free, counted, created (registration: email not found, users
\*          counted, account of a customer stored); found (addition: email
\*          found); allowed, changed (profile: member found, email stored)
\* id       the account created, found or changed
\* email    the one in the body of the request
\* secret   the request carries the registration secret
\* admin    newUser.IsAdmin
RequestStates ==
  [pc : {"idle", "free", "counted", "created", "found", "allowed", "changed"},
   id : Ids \cup {NoId}, email : Emails \cup {NoEmail},
   project : BOOLEAN, secret : BOOLEAN, admin : BOOLEAN]

Begun(l, i, e, p, s) ==
  [pc |-> l, id |-> i, email |-> e, project |-> p, secret |-> s, admin |-> FALSE]

Idle == Begun("idle", NoId, NoEmail, FALSE, FALSE)

Exists(i) == kind[i] # "none"

TypeOK ==
  /\ kind \in [Ids -> {"none", "customer", "admin"}]
  /\ email \in [Ids -> Emails \cup {NoEmail}]
  /\ \A i \in Ids : Exists(i) <=> email[i] # NoEmail
  /\ \A i, j \in Ids : email[i] = email[j] => i = j \/ ~Exists(i)
  /\ members \cup bySecret \cup forProject \cup overlapped \subseteq {i \in Ids : Exists(i)}
  /\ doubleCount \in BOOLEAN
  /\ knows \in [Ids -> SUBSET Emails]
  /\ req \in [Requests -> RequestStates]

Init ==
  /\ kind = [i \in Ids |-> "none"] /\ email = [i \in Ids |-> NoEmail]
  /\ members = {} /\ bySecret = {} /\ forProject = {}
  /\ doubleCount = FALSE
  /\ knows = [i \in Ids |-> {}] /\ overlapped = {}
  /\ req = [r \in Requests |-> Idle]

At(r, l) == req[r].pc = l

\* The accounts that GetUserByEmail finds: one at most.
Holders(e) == {i \in Ids : email[i] = e}

Nobody == \A i \in Ids : ~Exists(i)

\* INSERT INTO users.
Insert(i, e, k) ==
  /\ kind' = [kind EXCEPT ![i] = k]
  /\ email' = [email EXCEPT ![i] = e]
  /\ knows' = [knows EXCEPT ![i] = {e}]

accounts == <<kind, email, knows>>

-----------------------------------------------------------------------------
\* Bugs this code could have had; each must break a property below.

\* Any account counts as the first one until there are two.
BugSecondToo(r) == (\A i, j \in Ids : Exists(i) /\ Exists(j) => i = j) \/ req[r].secret

\* An account for the email is updated instead of refused.
BugOverwrite(r) ==
  LET e == req[r].email
      k == IF req[r].admin THEN "admin" ELSE "customer"
  IN  /\ At(r, "counted")
      /\ \/ /\ Holders(e) = {}
            /\ \E i \in Ids : ~Exists(i) /\ Insert(i, e, k) /\ bySecret' = bySecret \cup {i}
         \/ \E i \in Holders(e) : kind' = [kind EXCEPT ![i] = k] /\ UNCHANGED <<email, knows, bySecret>>
      /\ req' = [req EXCEPT ![r] = Idle]
      /\ UNCHANGED <<members, forProject, doubleCount, overlapped>>

\* An owner may add an account nobody has registered.
BugMemberFirst(r, e) ==
  /\ At(r, "idle")
  /\ \E i \in Ids : req' = [req EXCEPT ![r] = Begun("found", i, e, FALSE, FALSE)]
  /\ UNCHANGED <<accounts, members, bySecret, forProject, doubleCount, overlapped>>

\* A failed UPDATE is only logged and answered 200.
BugIgnoreConflict(r) ==
  LET i == req[r].id
      e == req[r].email
  IN  /\ At(r, "allowed")
      /\ email' = IF Holders(e) \subseteq {i} THEN [email EXCEPT ![i] = e] ELSE email
      /\ req' = [req EXCEPT ![r] = [@ EXCEPT !.pc = "changed"]]
      /\ UNCHANGED <<kind, knows, members, bySecret, forProject, doubleCount, overlapped>>

-----------------------------------------------------------------------------
\* Registration.

\* The email is free (otherwise the answer is 409 and nothing changes).
CheckEmail(r, e, p, s) ==
  /\ At(r, "idle") /\ Holders(e) = {}
  /\ req' = [req EXCEPT ![r] = Begun("free", NoId, e, p, s)]
  /\ UNCHANGED <<accounts, members, bySecret, forProject, doubleCount, overlapped>>

\* CreateUser for a project; an email taken meanwhile violates the unique key (500).
CreateCustomer(r) ==
  /\ At(r, "free") /\ req[r].project
  /\ \/ /\ Holders(req[r].email) = {}
        /\ \E i \in Ids :
             /\ ~Exists(i)
             /\ Insert(i, req[r].email, "customer")
             /\ forProject' = forProject \cup {i}
             /\ req' = [req EXCEPT ![r] = [@ EXCEPT !.pc = "created", !.id = i]]
     \/ /\ Holders(req[r].email) # {}
        /\ req' = [req EXCEPT ![r] = Idle]
        /\ UNCHANGED <<accounts, forProject>>
  /\ UNCHANGED <<members, bySecret, doubleCount, overlapped>>

\* AddUserToProject.  It fails when an owner was faster, when the project does
\* not exist, or when the database does; the account stays.
AssignProject(r) ==
  /\ At(r, "created")
  /\ \/ /\ req[r].id \notin members
        /\ members' = members \cup {req[r].id}
     \/ UNCHANGED members
  /\ req' = [req EXCEPT ![r] = Idle]
  /\ UNCHANGED <<accounts, bySecret, forProject, doubleCount, overlapped>>

\* q has counted no user and is about to insert its administrator.
BecomingFirst(q) == At(q, "counted") /\ req[q].admin /\ ~req[q].secret

BecomesAdmin(r) == Nobody \/ req[r].secret

\* GetUserCount, in a global registration.
CountUsers(r) ==
  /\ At(r, "free") /\ ~req[r].project
  /\ req' = [req EXCEPT ![r] = [@ EXCEPT !.pc = "counted", !.admin = BecomesAdmin(r)]]
  /\ doubleCount' = (doubleCount \/ \E q \in Requests : BecomingFirst(q))
  /\ UNCHANGED <<accounts, members, bySecret, forProject, overlapped>>

\* CreateUser.
CreateUser(r) ==
  /\ At(r, "counted")
  /\ \/ /\ Holders(req[r].email) = {}
        /\ \E i \in Ids :
             /\ ~Exists(i)
             /\ Insert(i, req[r].email, IF req[r].admin THEN "admin" ELSE "customer")
             /\ bySecret' = IF req[r].secret THEN bySecret \cup {i} ELSE bySecret
     \/ /\ Holders(req[r].email) # {}
        /\ UNCHANGED <<accounts, bySecret>>
  /\ req' = [req EXCEPT ![r] = Idle]
  /\ UNCHANGED <<members, forProject, doubleCount, overlapped>>

-----------------------------------------------------------------------------
\* AddUserToProjectHandler, for an owner; his right is the matter of ProjectMembership.

\* GetUserByEmail.
FindUser(r, e) ==
  /\ At(r, "idle")
  /\ \E i \in Holders(e) :
       req' = [req EXCEPT ![r] = Begun("found", i, e, FALSE, FALSE)]
  /\ UNCHANGED <<accounts, members, bySecret, forProject, doubleCount, overlapped>>

\* AddUserToProject by id; who is a member already violates the primary key (409).
AddFound(r) ==
  /\ At(r, "found")
  /\ members' = members \cup {req[r].id}
  /\ req' = [req EXCEPT ![r] = Idle]
  /\ UNCHANGED <<accounts, bySecret, forProject, doubleCount, overlapped>>

-----------------------------------------------------------------------------
\* UpdateCurrentUserHandler.

Changing(q, i) == req[q].pc \in {"allowed", "changed"} /\ req[q].id = i

\* GetUserByID and GetUserProjectData: a member asks for the email e.
AllowChange(r, i, e) ==
  /\ At(r, "idle") /\ i \in members
  /\ req' = [req EXCEPT ![r] = Begun("allowed", i, e, FALSE, FALSE)]
  /\ knows' = [knows EXCEPT ![i] = @ \cup {e}]
  /\ overlapped' = IF \E q \in Requests : Changing(q, i) THEN overlapped \cup {i} ELSE overlapped
  /\ UNCHANGED <<kind, email, members, bySecret, forProject, doubleCount>>

\* UpdateUser by id; the email of another account violates the unique key (500).
UpdateUser(r) ==
  LET i == req[r].id
      e == req[r].email
  IN  /\ At(r, "allowed")
      /\ \/ /\ Holders(e) \subseteq {i}
            /\ email' = [email EXCEPT ![i] = e]
            /\ req' = [req EXCEPT ![r] = [@ EXCEPT !.pc = "changed"]]
         \/ /\ ~(Holders(e) \subseteq {i})
            /\ req' = [req EXCEPT ![r] = Idle]
            /\ UNCHANGED email
      /\ UNCHANGED <<kind, knows, members, bySecret, forProject, doubleCount, overlapped>>

\* The answer with the new email reaches the holder.
ConfirmChange(r) ==
  /\ At(r, "changed")
  /\ knows' = [knows EXCEPT ![req[r].id] = {req[r].email}]
  /\ req' = [req EXCEPT ![r] = Idle]
  /\ UNCHANGED <<kind, email, members, bySecret, forProject, doubleCount, overlapped>>

-----------------------------------------------------------------------------
\* A statement fails, the client goes away or the process dies.
Abandon(r) ==
  /\ ~At(r, "idle")
  /\ req' = [req EXCEPT ![r] = Idle]
  /\ UNCHANGED <<accounts, members, bySecret, forProject, doubleCount, overlapped>>

Register(r) ==
  \/ \E e \in Emails, p, s \in BOOLEAN : CheckEmail(r, e, p, s)
  \/ CreateCustomer(r) \/ AssignProject(r)
  \/ CountUsers(r) \/ CreateUser(r)

Manage(r) ==
  \/ \E e \in Emails : FindUser(r, e) \/ \E i \in Ids : AllowChange(r, i, e)
  \/ AddFound(r) \/ UpdateUser(r) \/ ConfirmChange(r)

Next == \E r \in Requests : Register(r) \/ Manage(r) \/ Abandon(r)

Spec == Init /\ [][Next]_vars

-----------------------------------------------------------------------------
\* Properties.

Bootstrapped == {i \in Ids : kind[i] = "admin"} \ bySecret

\* auth_handlers.go:127: only "the very first user" is an administrator
\* without the registration secret.
OnlyFirstIsAdmin == \A i, j \in Bootstrapped : i = j

\* That holds unless the window between GetUserCount and CreateUser of one
\* first registration contains the count of another: registrations for the
\* project, registrations with the secret, changed emails, lost answers and
\* owners can fall into it as they like.
OneBootstrapAdmin == ~doubleCount => OnlyFirstIsAdmin

\* Whoever registers for a project is never an administrator, with whatever
\* secret, however his registration races a global one for the same email, and
\* whoever takes over an email he has given up
\* (auth_handlers.go:94 "Das Admin-Secret wird ignoriert").
CustomersStayCustomers == \A i \in forProject : kind[i] = "customer"

\* The holder of an account knows the email he has to log in with: it is the
\* one last confirmed to him, or one he has asked for since.  Others may
\* register, take or give up the same emails, and answers may be lost; only
\* two changes of his own that overlap may be confirmed in the wrong order.
\* UpdateCurrentUserHandler.
HolderKnowsEmail ==
  \A i \in Ids : Exists(i) /\ i \notin overlapped => email[i] \in knows[i]
=============================================================================
