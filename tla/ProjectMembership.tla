-------------------------- MODULE ProjectMembership --------------------------
(***************************************************************************)
(* The projects of Athena: who belongs to each and with which roles, which *)
(* roles its routes require, and its settings.  Memberships are changed by *)
(* owners and global administrators, routes and settings by administrators *)
(* and owners of the project.  Every handler first reads the rights of the *)
(* caller in the project that the URL names and then writes by another     *)
(* statement, without a transaction; a route is found and deleted by its   *)
(* id alone, whichever project it belongs to (Athena/internal/handlers/    *)
(* project_handlers.go, internal/database/project_repository.go,           *)
(* route_repository.go).  Requests that are refused change nothing and are *)
(* left out.                                                               *)
(***************************************************************************)
EXTENDS Naturals, FiniteSets

CONSTANTS
  Projects,      \* bound: the projects that may be created
  Users,
  GlobalAdmins,  \* users.is_admin, which no statement ever changes
  Requests,      \* requests that may be in flight at once
  RoleSets,      \* sets of roles, the values of user_projects.roles
  NotMember,     \* no row in user_projects
  ProjectRouteIds,      \* bound: the routes that may be created
  Rules,         \* sets of roles, the values of project_routes.required_roles
  Unused, Gone,  \* no row in project_routes, before the INSERT and after the DELETE
  Settings,      \* the values of the columns an administrator may set
  Nobody

RouteRows == [project : Projects, rule : Rules]

ASSUME MembershipAssumption ==
  /\ GlobalAdmins \subseteq Users
  /\ {"admin", "owner"} \in RoleSets
  /\ NotMember \notin RoleSets
  /\ Unused \notin RouteRows /\ Gone \notin RouteRows /\ Unused # Gone
  /\ Nobody \notin Users \cup ProjectRouteIds \cup Projects

VARIABLES
  exists,    \* the projects that have a row
  roles,     \* user_projects.roles, by project and user
  routes,    \* project_id and required_roles of project_routes, by id
  settings,  \* force_2fa, host and name of the rows of the projects
  req        \* the state of each request

projectVars == <<exists, roles, routes, settings, req>>

\* pc       idle, enrolling (project created, owner not yet), authorised,
\*          loaded (the row to be edited has been found)
\* project  the project of the URL
\* target   the user or the route of the URL
\* lapsed   history: the right to do this was taken from the actor after his
\*          request began
RequestStates ==
  [pc : {"idle", "enrolling", "authorised", "loaded"},
   op : {"none", "add", "update", "remove", "create", "edit", "delete", "set"},
   actor : Users \cup {Nobody}, project : Projects \cup {Nobody},
   target : Users \cup ProjectRouteIds \cup {Nobody},
   wanted : RoleSets \cup Rules \cup Settings \cup {NotMember},
   lapsed : BOOLEAN]

Idle ==
  [pc |-> "idle", op |-> "none", actor |-> Nobody, project |-> Nobody,
   target |-> Nobody, wanted |-> NotMember, lapsed |-> FALSE]

IsRow(i) == routes[i] \in RouteRows

ProjectTypeOK ==
  /\ exists \subseteq Projects
  /\ roles \in [Projects -> [Users -> RoleSets \cup {NotMember}]]
  /\ routes \in [ProjectRouteIds -> RouteRows \cup {Unused, Gone}]
  /\ settings \in [Projects -> Settings]
  /\ req \in [Requests -> RequestStates]
  /\ \A p \in Projects \ exists : \A u \in Users : roles[p][u] = NotMember
  /\ \A i \in ProjectRouteIds : IsRow(i) => routes[i].project \in exists

ProjectInit ==
  /\ exists = {}
  /\ roles = [p \in Projects |-> [u \in Users |-> NotMember]]
  /\ routes = [i \in ProjectRouteIds |-> Unused]
  /\ settings \in [Projects -> Settings]
  /\ req = [r \in Requests |-> Idle]

At(r, l) == req[r].pc = l

InFlight(x) == x.pc \in {"authorised", "loaded"}

\* In what follows rs are the roles in one project, by user.
Owns(rs, u) == rs[u] # NotMember /\ "owner" \in rs[u]
Owners(rs) == {u \in Users : Owns(rs, u)}
Administers(rs, u) == rs[u] # NotMember /\ rs[u] \cap {"admin", "owner"} # {}

MemberOps == {"add", "update", "remove"}

\* The right that an operation asks for.
Right(rs, u, op) ==
  IF op \in MemberOps THEN u \in GlobalAdmins \/ Owns(rs, u) ELSE Administers(rs, u)

\* Whether the right that request x was granted ends when the roles in project p
\* become rs.
Ends(x, p, rs) ==
  /\ InFlight(x) /\ x.project = p
  /\ Right(roles[p], x.actor, x.op) /\ ~Right(rs, x.actor, x.op)

\* The last statement of request r leaves the roles rs in the project of its URL.
Writes(r, rs) ==
  LET p == req[r].project IN
  /\ roles' = [roles EXCEPT ![p] = rs]
  /\ req' = [s \in Requests |->
               IF s = r THEN Idle
               ELSE [req[s] EXCEPT !.lapsed = @ \/ Ends(req[s], p, rs)]]
  /\ UNCHANGED <<exists, routes, settings>>

\* The roles in the project of the URL of request r.
Members(r) == roles[req[r].project]

\* The last statement of request r leaves the routes rt.
WritesRoutes(r, rt) ==
  /\ routes' = rt
  /\ req' = [req EXCEPT ![r] = Idle]
  /\ UNCHANGED <<exists, roles, settings>>

-----------------------------------------------------------------------------
\* Bugs this code could have had; each must break a property below.

\* The check is the one for administrators of the project.
BugAdminSuffices(u, p) == u \in GlobalAdmins \/ Administers(roles[p], u)

\* An owner may remove himself.
BugRemoveSelf(a, t) == TRUE

\* The route is saved by an INSERT that replaces an existing row.
BugUpsert(r) ==
  /\ At(r, "loaded") /\ req[r].op = "edit"
  /\ WritesRoutes(r, [routes EXCEPT ![req[r].target] =
                        [project |-> req[r].project, rule |-> req[r].wanted]])

-----------------------------------------------------------------------------
\* CreateProjectHandler.

CreateProject(r, a, p) ==
  /\ p \notin exists /\ a \in GlobalAdmins
  /\ exists' = exists \cup {p}
  /\ req' = [req EXCEPT ![r] = [Idle EXCEPT !.pc = "enrolling", !.actor = a, !.project = p]]
  /\ UNCHANGED <<roles, routes, settings>>

\* AddUserToProject for the creator.  An error is logged and the answer is 201
\* all the same.
EnrolOwner(r) ==
  /\ At(r, "enrolling")
  /\ \/ /\ Members(r)[req[r].actor] = NotMember
        /\ Writes(r, [Members(r) EXCEPT ![req[r].actor] = {"admin", "owner"}])
     \/ Writes(r, Members(r))

-----------------------------------------------------------------------------
\* Changes by owners.

\* checkProjectOwner: GetUserByID, GetUserProjectData.
IsOwner(u, p) == u \in GlobalAdmins \/ Owns(roles[p], u)

\* checkProjectAdmin: GetUserProjectData; here a global administrator is not
\* more than others.
IsProjectAdmin(u, p) == Administers(roles[p], u)

\* RemoveUserFromProjectHandler refuses to remove the caller.
MayRemove(a, t) == a # t

\* The right has been read, the body is in order.
Begin(r, a, p, op, t, x) ==
  /\ p \in exists
  /\ req' = [req EXCEPT ![r] =
               [pc |-> "authorised", op |-> op, actor |-> a, project |-> p,
                target |-> t, wanted |-> x, lapsed |-> FALSE]]
  /\ UNCHANGED <<exists, roles, routes, settings>>

Authorise(r, a, p, op, t, x) ==
  /\ IsOwner(a, p)
  /\ op = "remove" => MayRemove(a, t)
  /\ Begin(r, a, p, op, t, x)

\* INSERT; a second row violates the primary key (409).
AddUser(r) ==
  /\ At(r, "authorised") /\ req[r].op = "add"
  /\ Writes(r, IF Members(r)[req[r].target] = NotMember
               THEN [Members(r) EXCEPT ![req[r].target] = req[r].wanted]
               ELSE Members(r))

\* UPDATE; no row, or none that changes, is answered 404.
UpdateRoles(r) ==
  /\ At(r, "authorised") /\ req[r].op = "update"
  /\ Writes(r, IF Members(r)[req[r].target] # NotMember
               THEN [Members(r) EXCEPT ![req[r].target] = req[r].wanted]
               ELSE Members(r))

\* DELETE; no row is answered 404.
RemoveUser(r) ==
  /\ At(r, "authorised") /\ req[r].op = "remove"
  /\ Writes(r, [Members(r) EXCEPT ![req[r].target] = NotMember])

-----------------------------------------------------------------------------
\* Changes by administrators of the project.  No handler compares the project of
\* the route with that of the URL.

AuthoriseRoute(r, a, p, op, i, x) == IsProjectAdmin(a, p) /\ Begin(r, a, p, op, i, x)

AuthoriseSettings(r, a, p, x) == IsProjectAdmin(a, p) /\ Begin(r, a, p, "set", Nobody, x)

\* INSERT under a new id.
CreateProjectRoute(r) ==
  /\ At(r, "authorised") /\ req[r].op = "create"
  /\ \E i \in ProjectRouteIds :
       /\ routes[i] = Unused
       /\ WritesRoutes(r, [routes EXCEPT ![i] =
                             [project |-> req[r].project, rule |-> req[r].wanted]])

\* DELETE by id, of whatever project; whether there was a row is not looked at.
DeleteProjectRoute(r) ==
  /\ At(r, "authorised") /\ req[r].op = "delete"
  /\ WritesRoutes(r, [routes EXCEPT ![req[r].target] = IF @ = Unused THEN @ ELSE Gone])

\* GetProjectRouteByID, which finds the routes of every project, and
\* GetProjectByID: who finds no row answers 404.
LoadRow(r) ==
  /\ At(r, "authorised")
  /\ \/ req[r].op = "edit" /\ IsRow(req[r].target)
     \/ req[r].op = "set"
  /\ req' = [req EXCEPT ![r] = [@ EXCEPT !.pc = "loaded"]]
  /\ UNCHANGED <<exists, roles, routes, settings>>

\* UPDATE by the id and the project of the row that was loaded, of every column
\* but these and created_at; 200 even when the row is gone.
UpdateProjectRoute(r) ==
  /\ At(r, "loaded") /\ req[r].op = "edit"
  /\ WritesRoutes(r, IF IsRow(req[r].target)
                     THEN [routes EXCEPT ![req[r].target].rule = req[r].wanted]
                     ELSE routes)

\* UPDATE of the row of the project.
UpdateSettings(r) ==
  /\ At(r, "loaded") /\ req[r].op = "set"
  /\ settings' = [settings EXCEPT ![req[r].project] = req[r].wanted]
  /\ req' = [req EXCEPT ![r] = Idle]
  /\ UNCHANGED <<exists, roles, routes>>

-----------------------------------------------------------------------------
\* A statement fails, a row is not found, the client is gone or the process dies.
Abandon(r) ==
  /\ ~At(r, "idle")
  /\ req' = [req EXCEPT ![r] = Idle]
  /\ UNCHANGED <<exists, roles, routes, settings>>

\* A request arrives and is granted.
Arrives(r) ==
  /\ At(r, "idle")
  /\ \E a \in Users, p \in Projects :
       \/ CreateProject(r, a, p)
       \/ \E t \in Users :
            \/ Authorise(r, a, p, "remove", t, NotMember)
            \/ \E x \in RoleSets :
                 Authorise(r, a, p, "add", t, x) \/ Authorise(r, a, p, "update", t, x)
       \/ \E x \in Rules : AuthoriseRoute(r, a, p, "create", Nobody, x)
       \/ \E i \in ProjectRouteIds :
            \/ AuthoriseRoute(r, a, p, "delete", i, NotMember)
            \/ \E x \in Rules : AuthoriseRoute(r, a, p, "edit", i, x)
       \/ \E x \in Settings : AuthoriseSettings(r, a, p, x)

\* Its other statements.
ManageMembers(r) == EnrolOwner(r) \/ AddUser(r) \/ UpdateRoles(r) \/ RemoveUser(r)

ManageProject(r) ==
  \/ CreateProjectRoute(r) \/ DeleteProjectRoute(r) \/ LoadRow(r)
  \/ UpdateProjectRoute(r) \/ UpdateSettings(r)

ProjectNext ==
  \E r \in Requests :
    Arrives(r) \/ ManageMembers(r) \/ ManageProject(r) \/ Abandon(r)

ProjectSpec == ProjectInit /\ [][ProjectNext]_projectVars

-----------------------------------------------------------------------------
\* Properties.

\* Request r ends with this step, and its actor has the right to it in the project
\* of its URL, unless it was taken from him after the request began.
EndsRightly(r) ==
  /\ InFlight(req[r]) /\ At(r, "idle")'
  /\ Right(Members(r), req[r].actor, req[r].op) \/ req[r].lapsed

\* Every change is made by a request whose actor has the right to it at that moment,
\* unless a change of his roles has overtaken him since he was checked: to be an
\* owner of the project or a global administrator for its memberships, an
\* administrator or owner of it for its settings, and of the project named in the
\* URL for a route.  Only the creator of a project enters it otherwise.
\* checkProjectOwner, checkProjectAdmin and the handlers that call them.
ChangesWereAuthorised ==
  [][/\ \A p \in Projects :
          /\ roles'[p] # roles[p] =>
               \E r \in Requests :
                 /\ req[r].project = p
                 /\ \/ EndsRightly(r) /\ req[r].op \in MemberOps
                    \/ At(r, "enrolling") /\ req[r].actor \in GlobalAdmins
          /\ settings'[p] # settings[p] =>
               \E r \in Requests : req[r].project = p /\ req[r].op = "set" /\ EndsRightly(r)
     /\ routes' # routes =>
          \E r \in Requests : req[r].op \in {"create", "edit", "delete"} /\ EndsRightly(r)]_projectVars

\* Who is an owner when his removal request is carried out leaves the project
\* with an owner.  The last owner disappears through a role change, through a
\* global administrator, or when the actor lost his own ownership between his
\* check and his DELETE (two owners who remove each other).
\* RemoveUserFromProjectHandler.
RemovalsKeepAnOwner ==
  [][\A p \in Projects :
       Owners(roles[p]) # {} /\ Owners(roles'[p]) = {} =>
         \E r \in Requests :
           /\ At(r, "authorised") /\ ~At(r, "authorised")' /\ req[r].project = p
           /\ \/ req[r].op = "update"
              \/ req[r].actor \in GlobalAdmins
              \/ ~Owns(roles[p], req[r].actor)]_projectVars

\* A deleted route does not come back: an edit that had found it before the
\* DELETE changes nothing any more, although it is answered 200.
\* UpdateProjectRouteHandler, UpdateProjectRoute.
DeletedStaysDeleted ==
  [][\A i \in ProjectRouteIds : routes[i] = Gone => routes'[i] = Gone]_projectVars

\* Athena/README.md:33: "Encapsulates users, roles, and routes within logical
\* 'Projects'."  As long as no two requests overlap, the route of a project is
\* changed or deleted only for an administrator or owner of that project.  The
\* code does otherwise: GetProjectRouteByID and DeleteProjectRoute ask for the id
\* alone, the right was checked in the project of the URL.
RoutesWithinProjects ==
  [][\A i \in ProjectRouteIds, r \in Requests :
       /\ IsRow(i) /\ routes'[i] # routes[i] /\ ~At(r, "idle") /\ At(r, "idle")'
       /\ \A s \in Requests \ {r} : At(s, "idle")
       => Administers(roles[routes[i].project], req[r].actor)]_projectVars
=============================================================================
