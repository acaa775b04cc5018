------------------------- MODULE ProjectAccessProofs -------------------------
(***************************************************************************)
(* Proofs about projects and the access they give, for any number of       *)
(* projects, users, routes and concurrent requests, and any lives of       *)
(* tokens.  The first part is about ProjectMembership alone; the second    *)
(* carries it over to the composition.                                     *)
(***************************************************************************)
EXTENDS ProjectAccess, TLAPS

-----------------------------------------------------------------------------
(* Types of the projects, and the rights of the requests in flight. *)

\* A request of user a for project p begins with a right that has been checked, and
\* the target and the value its operation needs.
Granted(a, p, op, t, x) ==
  /\ Right(roles[p], a, op)
  /\ \/ op \in {"add", "update"} /\ t \in Users /\ x \in RoleSets
     \/ op = "remove" /\ t \in Users /\ t # a /\ x = NotMember
     \/ op = "create" /\ t = Nobody /\ x \in Rules
     \/ op = "edit" /\ t \in ProjectRouteIds /\ x \in Rules
     \/ op = "delete" /\ t \in ProjectRouteIds /\ x = NotMember
     \/ op = "set" /\ t = Nobody /\ x \in Settings

\* Every step of the projects is one of these.
LEMMA NextCases ==
  ASSUME [ProjectNext]_projectVars
  PROVE  \/ \E r \in Requests, a \in Users, p \in Projects : CreateProject(r, a, p)
         \/ \E r \in Requests, a \in Users, p \in Projects :
              \E op, t, x : Begin(r, a, p, op, t, x) /\ Granted(a, p, op, t, x)
         \/ \E r \in Requests : EnrolOwner(r)
         \/ \E r \in Requests : AddUser(r) \/ UpdateRoles(r) \/ RemoveUser(r)
         \/ \E r \in Requests : CreateProjectRoute(r) \/ DeleteProjectRoute(r) \/ UpdateProjectRoute(r)
         \/ \E r \in Requests : LoadRow(r)
         \/ \E r \in Requests : UpdateSettings(r)
         \/ \E r \in Requests : Abandon(r)
         \/ UNCHANGED projectVars
  <1>1. ASSUME NEW r \in Requests, NEW a \in Users, NEW p \in Projects, NEW t \in Users,
               Authorise(r, a, p, "remove", t, NotMember)
        PROVE  Begin(r, a, p, "remove", t, NotMember) /\ Granted(a, p, "remove", t, NotMember)
    BY <1>1 DEF Authorise, IsOwner, MayRemove, Right, MemberOps, Granted
  <1>2. ASSUME NEW r \in Requests, NEW a \in Users, NEW p \in Projects, NEW t \in Users,
               NEW x \in RoleSets, NEW op \in {"add", "update"}, Authorise(r, a, p, op, t, x)
        PROVE  Begin(r, a, p, op, t, x) /\ Granted(a, p, op, t, x)
    BY <1>2 DEF Authorise, IsOwner, Right, MemberOps, Granted
  <1>3. ASSUME NEW r \in Requests, NEW a \in Users, NEW p \in Projects, NEW x \in Rules,
               AuthoriseRoute(r, a, p, "create", Nobody, x)
        PROVE  Begin(r, a, p, "create", Nobody, x) /\ Granted(a, p, "create", Nobody, x)
    BY <1>3 DEF AuthoriseRoute, IsProjectAdmin, Right, MemberOps, Granted
  <1>4. ASSUME NEW r \in Requests, NEW a \in Users, NEW p \in Projects, NEW i \in ProjectRouteIds,
               AuthoriseRoute(r, a, p, "delete", i, NotMember)
        PROVE  Begin(r, a, p, "delete", i, NotMember) /\ Granted(a, p, "delete", i, NotMember)
    BY <1>4 DEF AuthoriseRoute, IsProjectAdmin, Right, MemberOps, Granted
  <1>5. ASSUME NEW r \in Requests, NEW a \in Users, NEW p \in Projects, NEW i \in ProjectRouteIds,
               NEW x \in Rules, AuthoriseRoute(r, a, p, "edit", i, x)
        PROVE  Begin(r, a, p, "edit", i, x) /\ Granted(a, p, "edit", i, x)
    BY <1>5 DEF AuthoriseRoute, IsProjectAdmin, Right, MemberOps, Granted
  <1>6. ASSUME NEW r \in Requests, NEW a \in Users, NEW p \in Projects, NEW x \in Settings,
               AuthoriseSettings(r, a, p, x)
        PROVE  Begin(r, a, p, "set", Nobody, x) /\ Granted(a, p, "set", Nobody, x)
    BY <1>6 DEF AuthoriseSettings, IsProjectAdmin, Right, MemberOps, Granted
  <1>7. ASSUME NEW r \in Requests, Arrives(r)
        PROVE  \E a \in Users, p \in Projects :
                 \/ CreateProject(r, a, p)
                 \/ \E op, t, x : Begin(r, a, p, op, t, x) /\ Granted(a, p, op, t, x)
    <2>1. PICK a \in Users, p \in Projects :
            \/ CreateProject(r, a, p)
            \/ \E t \in Users :
                 \/ Authorise(r, a, p, "remove", t, NotMember)
                 \/ \E x \in RoleSets :
                      Authorise(r, a, p, "add", t, x) \/ Authorise(r, a, p, "update", t, x)
            \/ \E x \in Rules : AuthoriseRoute(r, a, p, "create", Nobody, x)
            \/ \E i \in ProjectRouteIds :
                 \/ AuthoriseRoute(r, a, p, "delete", i, NotMember)
                 \/ \E x \in Rules : AuthoriseRoute(r, a, p, "edit", i, x)
            \/ \E x \in Settings : AuthoriseSettings(r, a, p, x)
      BY <1>7 DEF Arrives
    <2>2. \/ CreateProject(r, a, p)
          \/ \E op, t, x : Begin(r, a, p, op, t, x) /\ Granted(a, p, op, t, x)
      BY <1>1, <1>2, <1>3, <1>4, <1>5, <1>6, <2>1
    <2>3. QED BY <2>2
  <1>8. QED BY <1>7 DEF ProjectNext, ManageMembers, ManageProject

\* What a request carries.
Sane(x) ==
  /\ x.pc = "enrolling" => x.actor \in GlobalAdmins
  /\ x.pc # "idle" => x.project \in Projects
  /\ InFlight(x) =>
       /\ x.actor \in Users
       /\ x.op \in {"add", "update"} => x.target \in Users /\ x.wanted \in RoleSets
       /\ x.op = "remove" => x.target \in Users /\ x.target # x.actor
       /\ x.op = "create" => x.wanted \in Rules
       /\ x.op = "edit" => x.target \in ProjectRouteIds /\ x.wanted \in Rules
       /\ x.op = "delete" => x.target \in ProjectRouteIds
       /\ x.op = "set" => x.wanted \in Settings

Carried == \A r \in Requests : Sane(req[r]) /\ (req[r].pc # "idle" => req[r].project \in exists)

\* Who is at work has the right to it, unless it was taken from him since.
HasRight(x, rl) == InFlight(x) => Right(rl[x.project], x.actor, x.op) \/ x.lapsed

Entitled == \A r \in Requests : HasRight(req[r], roles)

Inv == ProjectTypeOK /\ Carried /\ Entitled

LEMMA IdleSane ==
  Idle \in RequestStates /\ Sane(Idle) /\ Idle.pc = "idle" /\ ~InFlight(Idle) /\ ~Idle.lapsed
  BY DEF Idle, RequestStates, Sane, InFlight

\* One request takes a step that leaves it sane and entitled; the roles stay, and
\* projects may come to exist.
LEMMA RequestStep ==
  ASSUME Inv, NEW r \in Requests, NEW x \in RequestStates, Sane(x), HasRight(x, roles),
         req' = [req EXCEPT ![r] = x], roles' = roles, exists \subseteq exists',
         x.pc # "idle" => x.project \in exists'
  PROVE  req' \in [Requests -> RequestStates] /\ Carried' /\ Entitled' /\ req'[r] = x
  <1>1. req' \in [Requests -> RequestStates] /\ req'[r] = x
        /\ \A q \in Requests \ {r} : req'[q] = req[q]
    BY DEF Inv, ProjectTypeOK
  <1>2. Carried'
    BY <1>1 DEF Inv, Carried
  <1>3. Entitled'
    <2>1. ASSUME NEW q \in Requests PROVE HasRight(req'[q], roles)
      BY <1>1 DEF Inv, Entitled
    <2>2. QED BY <2>1 DEF Entitled
  <1>4. QED BY <1>1, <1>2, <1>3

\* The last statement of a request leaves the roles rs in its project: the other
\* requests keep what they carry, and those that lose their right have lapsed.
LEMMA WritesStep ==
  ASSUME Inv, NEW r \in Requests, req[r].pc # "idle",
         NEW rs \in [Users -> RoleSets \cup {NotMember}], Writes(r, rs)
  PROVE  Inv' /\ At(r, "idle")' /\ req'[r] = Idle
  <1> DEFINE p == req[r].project
  <1>1. p \in exists /\ p \in Projects
    BY DEF Inv, ProjectTypeOK, Carried, Sane
  <1>2. /\ roles' = [roles EXCEPT ![p] = rs]
        /\ req' = [s \in Requests |->
                     IF s = r THEN Idle
                     ELSE [req[s] EXCEPT !.lapsed = @ \/ Ends(req[s], p, rs)]]
        /\ UNCHANGED <<exists, routes, settings>>
    BY DEF Writes
  <1>3. req'[r] = Idle
    BY <1>2
  <1>4. ASSUME NEW s \in Requests \ {r}
        PROVE  /\ req'[s] \in RequestStates
               /\ \A l \in {"pc", "op", "actor", "project", "target", "wanted"} :
                    req'[s][l] = req[s][l]
               /\ req'[s].lapsed = (req[s].lapsed \/ Ends(req[s], p, rs))
    <2>1. req[s] \in RequestStates /\ Ends(req[s], p, rs) \in BOOLEAN
      BY DEF Inv, ProjectTypeOK, Ends
    <2>2. req'[s] = [req[s] EXCEPT !.lapsed = @ \/ Ends(req[s], p, rs)]
      BY <1>2
    <2>3. QED BY <2>1, <2>2 DEF RequestStates
  <1>5. roles' \in [Projects -> [Users -> RoleSets \cup {NotMember}]] /\ roles'[p] = rs
        /\ \A q \in Projects \ {p} : roles'[q] = roles[q]
    BY <1>1, <1>2 DEF Inv, ProjectTypeOK
  <1>6. ProjectTypeOK'
    <2>1. req' \in [Requests -> RequestStates]
      BY <1>2, <1>3, <1>4, IdleSane
    <2>2. \A q \in Projects \ exists : \A u \in Users : roles'[q][u] = NotMember
      BY <1>1, <1>5 DEF Inv, ProjectTypeOK
    <2>3. QED BY <1>2, <1>5, <2>1, <2>2 DEF Inv, ProjectTypeOK, IsRow
  <1>7. Carried'
    <2>1. ASSUME NEW s \in Requests \ {r}
          PROVE  Sane(req'[s]) /\ (req'[s].pc # "idle" => req'[s].project \in exists)
      <3>1. Sane(req[s]) /\ (req[s].pc # "idle" => req[s].project \in exists)
        BY DEF Inv, Carried
      <3>2. /\ req'[s].pc = req[s].pc /\ req'[s].op = req[s].op
            /\ req'[s].actor = req[s].actor /\ req'[s].project = req[s].project
            /\ req'[s].target = req[s].target /\ req'[s].wanted = req[s].wanted
        BY <1>4
      <3>3. QED BY <3>1, <3>2 DEF Sane, InFlight
    <2>2. Sane(req'[r]) /\ req'[r].pc = "idle" /\ exists' = exists
      BY <1>2, <1>3, IdleSane
    <2>3. QED BY <2>1, <2>2 DEF Carried
  <1>8. Entitled'
    <2>1. ASSUME NEW s \in Requests \ {r}, InFlight(req'[s])
          PROVE  Right(roles'[req'[s].project], req'[s].actor, req'[s].op) \/ req'[s].lapsed
      <3>1. /\ req'[s].pc = req[s].pc /\ req'[s].op = req[s].op
            /\ req'[s].actor = req[s].actor /\ req'[s].project = req[s].project
            /\ req'[s].lapsed = (req[s].lapsed \/ Ends(req[s], p, rs))
        BY <1>4
      <3>2. InFlight(req[s])
        BY <2>1, <3>1 DEF InFlight
      <3>3. Right(roles[req[s].project], req[s].actor, req[s].op) \/ req[s].lapsed
        BY <3>2 DEF Inv, Entitled, HasRight
      <3>4. req[s].project \in Projects
        BY <3>2 DEF Inv, Carried, Sane, InFlight
      <3>5. CASE req[s].project = p
        BY <1>5, <3>1, <3>2, <3>3, <3>5 DEF Ends
      <3>6. CASE req[s].project # p
        <4>1. roles'[req[s].project] = roles[req[s].project]
          BY <1>5, <3>4, <3>6
        <4>2. QED BY <3>1, <3>3, <4>1
      <3>7. QED BY <3>5, <3>6
    <2>2. QED BY <1>3, <2>1, IdleSane DEF Entitled, HasRight
  <1>9. QED BY <1>3, <1>6, <1>7, <1>8, IdleSane DEF Inv, At

LEMMA WritesRoutesStep ==
  ASSUME Inv, NEW r \in Requests, NEW rt, WritesRoutes(r, rt),
         rt \in [ProjectRouteIds -> RouteRows \cup {Unused, Gone}],
         \A i \in ProjectRouteIds : rt[i] \in RouteRows => rt[i].project \in exists
  PROVE  Inv' /\ At(r, "idle")' /\ req'[r] = Idle
  <1>1. /\ req' = [req EXCEPT ![r] = Idle] /\ routes' = rt
        /\ UNCHANGED <<exists, roles, settings>>
    BY DEF WritesRoutes
  <1>2. req' \in [Requests -> RequestStates] /\ Carried' /\ Entitled' /\ req'[r] = Idle
    BY <1>1, IdleSane, RequestStep DEF HasRight
  <1>3. ProjectTypeOK'
    BY <1>1, <1>2 DEF Inv, ProjectTypeOK, IsRow
  <1>4. QED BY <1>2, <1>3, IdleSane DEF Inv, At

\* The routes that a request leaves.
LEMMA RoutesWritten ==
  ASSUME Inv, NEW r \in Requests, CreateProjectRoute(r) \/ DeleteProjectRoute(r) \/ UpdateProjectRoute(r)
  PROVE  \E rt : /\ WritesRoutes(r, rt)
                 /\ rt \in [ProjectRouteIds -> RouteRows \cup {Unused, Gone}]
                 /\ \A i \in ProjectRouteIds : rt[i] \in RouteRows => rt[i].project \in exists
  <1>1. /\ InFlight(req[r]) /\ Sane(req[r])
        /\ req[r].project \in exists /\ req[r].project \in Projects
    BY DEF CreateProjectRoute, DeleteProjectRoute, UpdateProjectRoute, At, InFlight, Inv, Carried, Sane
  <1>2. /\ routes \in [ProjectRouteIds -> RouteRows \cup {Unused, Gone}]
        /\ \A i \in ProjectRouteIds : routes[i] \in RouteRows => routes[i].project \in exists
    BY DEF Inv, ProjectTypeOK, IsRow
  <1>3. ASSUME NEW i \in ProjectRouteIds, NEW v \in RouteRows \cup {Unused, Gone},
               v \in RouteRows => v.project \in exists
        PROVE  /\ [routes EXCEPT ![i] = v] \in [ProjectRouteIds -> RouteRows \cup {Unused, Gone}]
               /\ \A j \in ProjectRouteIds : [routes EXCEPT ![i] = v][j] \in RouteRows =>
                                        [routes EXCEPT ![i] = v][j].project \in exists
    BY <1>2, <1>3
  <1>4. CASE CreateProjectRoute(r)
    <2>1. PICK i \in ProjectRouteIds :
            WritesRoutes(r, [routes EXCEPT ![i] =
                              [project |-> req[r].project, rule |-> req[r].wanted]])
      BY <1>4 DEF CreateProjectRoute
    <2>2. [project |-> req[r].project, rule |-> req[r].wanted] \in RouteRows
      BY <1>1, <1>4 DEF CreateProjectRoute, Sane, RouteRows
    <2>3. QED BY <1>1, <1>3, <2>1, <2>2
  <1>5. CASE DeleteProjectRoute(r)
    <2>1. req[r].target \in ProjectRouteIds
      BY <1>1, <1>5 DEF DeleteProjectRoute, Sane
    <2>2. PICK v \in {Unused, Gone} \cup RouteRows :
            /\ WritesRoutes(r, [routes EXCEPT ![req[r].target] = v])
            /\ v \in RouteRows => v.project \in exists
      <3>1. WritesRoutes(r, [routes EXCEPT ![req[r].target] = IF @ = Unused THEN @ ELSE Gone])
        BY <1>5 DEF DeleteProjectRoute
      <3>2. CASE routes[req[r].target] = Unused
        <4>1. [routes EXCEPT ![req[r].target] = IF @ = Unused THEN @ ELSE Gone]
              = [routes EXCEPT ![req[r].target] = routes[req[r].target]]
          BY <3>2
        <4>2. QED BY <1>2, <2>1, <3>1, <3>2, <4>1
      <3>3. CASE routes[req[r].target] # Unused
        <4>1. [routes EXCEPT ![req[r].target] = IF @ = Unused THEN @ ELSE Gone]
              = [routes EXCEPT ![req[r].target] = Gone]
          BY <3>3
        <4>2. WritesRoutes(r, [routes EXCEPT ![req[r].target] = Gone])
          BY <3>1, <4>1
        <4>3. Gone \notin RouteRows \/ Gone \in RouteRows
          OBVIOUS
        <4>4. QED BY <4>2, MembershipAssumption
      <3>4. QED BY <3>2, <3>3
    <2>3. QED BY <1>3, <2>1, <2>2
  <1>6. CASE UpdateProjectRoute(r)
    <2>1. req[r].target \in ProjectRouteIds /\ req[r].wanted \in Rules
      BY <1>1, <1>6 DEF UpdateProjectRoute, Sane
    <2>2. CASE routes[req[r].target] \in RouteRows
      <3>1. WritesRoutes(r, [routes EXCEPT ![req[r].target].rule = req[r].wanted])
        BY <1>6, <2>2 DEF UpdateProjectRoute, IsRow
      <3>2. [routes[req[r].target] EXCEPT !.rule = req[r].wanted] \in RouteRows
            /\ [routes[req[r].target] EXCEPT !.rule = req[r].wanted].project
               = routes[req[r].target].project
        BY <2>1, <2>2 DEF RouteRows
      <3>3. [routes EXCEPT ![req[r].target].rule = req[r].wanted]
            = [routes EXCEPT ![req[r].target] =
                 [routes[req[r].target] EXCEPT !.rule = req[r].wanted]]
        OBVIOUS
      <3>4. QED BY <1>2, <1>3, <2>1, <2>2, <3>1, <3>2, <3>3
    <2>3. CASE routes[req[r].target] \notin RouteRows
      BY <1>2, <1>6, <2>3 DEF UpdateProjectRoute, IsRow
    <2>4. QED BY <2>2, <2>3
  <1>7. QED BY <1>4, <1>5, <1>6

\* The roles that a request leaves in its project.
LEMMA RolesWritten ==
  ASSUME Inv, NEW r \in Requests,
         EnrolOwner(r) \/ AddUser(r) \/ UpdateRoles(r) \/ RemoveUser(r)
  PROVE  /\ req[r].pc # "idle"
         /\ \E rs \in [Users -> RoleSets \cup {NotMember}] : Writes(r, rs)
  <1>1. /\ Sane(req[r]) /\ req[r].pc # "idle"
        /\ req[r].project \in exists /\ req[r].project \in Projects
    BY DEF EnrolOwner, AddUser, UpdateRoles, RemoveUser, At, Inv, Carried, Sane
  <1>2. Members(r) \in [Users -> RoleSets \cup {NotMember}]
    BY <1>1 DEF Inv, ProjectTypeOK, Members
  <1>3. CASE EnrolOwner(r)
    <2>1. req[r].actor \in Users
      BY <1>1, <1>3, MembershipAssumption DEF EnrolOwner, At, Sane
    <2>2. QED BY <1>1, <1>2, <1>3, <2>1, MembershipAssumption DEF EnrolOwner
  <1>4. CASE AddUser(r)
    <2>1. req[r].target \in Users /\ req[r].wanted \in RoleSets
      BY <1>1, <1>4 DEF AddUser, At, Sane, InFlight
    <2>2. QED BY <1>1, <1>2, <1>4, <2>1 DEF AddUser
  <1>5. CASE UpdateRoles(r)
    <2>1. req[r].target \in Users /\ req[r].wanted \in RoleSets
      BY <1>1, <1>5 DEF UpdateRoles, At, Sane, InFlight
    <2>2. QED BY <1>1, <1>2, <1>5, <2>1 DEF UpdateRoles
  <1>6. CASE RemoveUser(r)
    BY <1>1, <1>2, <1>6 DEF RemoveUser
  <1>7. QED BY <1>3, <1>4, <1>5, <1>6

\* Types, what requests carry and their rights are preserved.
LEMMA InvStep ==
  ASSUME Inv, [ProjectNext]_projectVars
  PROVE  Inv'
  <1>1. ASSUME NEW r \in Requests, NEW a \in Users, NEW p \in Projects, CreateProject(r, a, p)
        PROVE  Inv'
    <2> DEFINE x == [Idle EXCEPT !.pc = "enrolling", !.actor = a, !.project = p]
    <2>1. a \in GlobalAdmins
      BY <1>1 DEF CreateProject
    <2>2. x \in RequestStates /\ Sane(x) /\ HasRight(x, roles) /\ x.project = p
      BY <2>1 DEF Idle, RequestStates, Sane, InFlight, HasRight
    <2>3. /\ req' = [req EXCEPT ![r] = x] /\ exists' = exists \cup {p}
          /\ UNCHANGED <<roles, routes, settings>>
      BY <1>1 DEF CreateProject
    <2> HIDE DEF x
    <2>4. req' \in [Requests -> RequestStates] /\ Carried' /\ Entitled'
      BY <2>2, <2>3, RequestStep
    <2>5. QED BY <2>3, <2>4 DEF Inv, ProjectTypeOK, IsRow
  <1>2. ASSUME NEW r \in Requests, NEW a \in Users, NEW p \in Projects, NEW op, NEW t, NEW x,
               Begin(r, a, p, op, t, x), Granted(a, p, op, t, x)
        PROVE  Inv'
    <2> DEFINE y == [pc |-> "authorised", op |-> op, actor |-> a, project |-> p,
                     target |-> t, wanted |-> x, lapsed |-> FALSE]
    <2>1. y \in RequestStates /\ Sane(y)
      BY <1>2 DEF Granted, RequestStates, Sane, InFlight
    <2>2. HasRight(y, roles) /\ y.project = p
      BY <1>2 DEF Granted, HasRight
    <2>3. p \in exists /\ req' = [req EXCEPT ![r] = y] /\ UNCHANGED <<exists, roles, routes, settings>>
      BY <1>2 DEF Begin
    <2> HIDE DEF y
    <2>4. req' \in [Requests -> RequestStates] /\ Carried' /\ Entitled'
      BY <2>1, <2>2, <2>3, RequestStep
    <2>5. QED BY <2>3, <2>4 DEF Inv, ProjectTypeOK, IsRow
  <1>3. ASSUME NEW r \in Requests,
               EnrolOwner(r) \/ AddUser(r) \/ UpdateRoles(r) \/ RemoveUser(r)
        PROVE  Inv'
    BY <1>3, RolesWritten, WritesStep
  <1>4. ASSUME NEW r \in Requests, CreateProjectRoute(r) \/ DeleteProjectRoute(r) \/ UpdateProjectRoute(r)
        PROVE  Inv'
    BY <1>4, RoutesWritten, WritesRoutesStep
  <1>5. ASSUME NEW r \in Requests, LoadRow(r) PROVE Inv'
    <2> DEFINE x == [req[r] EXCEPT !.pc = "loaded"]
    <2>1. /\ Sane(req[r]) /\ HasRight(req[r], roles) /\ req[r].pc = "authorised"
          /\ req[r] \in RequestStates /\ req[r].project \in exists
      BY <1>5 DEF LoadRow, At, Inv, Carried, Entitled, ProjectTypeOK
    <2>2. x \in RequestStates /\ x.pc = "loaded" /\ x.op = req[r].op /\ x.target = req[r].target
          /\ x.wanted = req[r].wanted /\ x.actor = req[r].actor /\ x.project = req[r].project
          /\ x.lapsed = req[r].lapsed
      BY <2>1 DEF RequestStates
    <2>3. req' = [req EXCEPT ![r] = x] /\ UNCHANGED <<exists, roles, routes, settings>>
      BY <1>5 DEF LoadRow
    <2> HIDE DEF x
    <2>4. Sane(x) /\ HasRight(x, roles)
      BY <2>1, <2>2 DEF Sane, HasRight, InFlight
    <2>5. req' \in [Requests -> RequestStates] /\ Carried' /\ Entitled'
      BY <2>1, <2>2, <2>3, <2>4, RequestStep
    <2>6. QED BY <2>3, <2>5 DEF Inv, ProjectTypeOK, IsRow
  <1>6. ASSUME NEW r \in Requests, UpdateSettings(r) PROVE Inv'
    <2>1. req[r].wanted \in Settings
      BY <1>6 DEF UpdateSettings, At, InFlight, Inv, Carried, Sane
    <2>2. /\ req' = [req EXCEPT ![r] = Idle]
          /\ settings' = [settings EXCEPT ![req[r].project] = req[r].wanted]
          /\ UNCHANGED <<exists, roles, routes>>
      BY <1>6 DEF UpdateSettings
    <2>3. req' \in [Requests -> RequestStates] /\ Carried' /\ Entitled'
      BY <2>2, IdleSane, RequestStep DEF HasRight
    <2>4. settings' \in [Projects -> Settings]
      BY <2>1, <2>2 DEF Inv, ProjectTypeOK
    <2>5. QED BY <2>2, <2>3, <2>4 DEF Inv, ProjectTypeOK, IsRow
  <1>7. ASSUME NEW r \in Requests, Abandon(r) PROVE Inv'
    <2>1. req' = [req EXCEPT ![r] = Idle] /\ UNCHANGED <<exists, roles, routes, settings>>
      BY <1>7 DEF Abandon
    <2>2. req' \in [Requests -> RequestStates] /\ Carried' /\ Entitled'
      BY <2>1, IdleSane, RequestStep DEF HasRight
    <2>3. QED BY <2>1, <2>2 DEF Inv, ProjectTypeOK, IsRow
  <1>8. CASE UNCHANGED projectVars
    BY <1>8 DEF projectVars, Inv, ProjectTypeOK, Carried, Entitled, IsRow
  <1>9. QED
    BY <1>1, <1>2, <1>3, <1>4, <1>5, <1>6, <1>7, <1>8, NextCases

LEMMA BaseInvariant == ProjectSpec => []Inv
  <1>1. ProjectInit => Inv
    <2> SUFFICES ASSUME ProjectInit PROVE Inv
      OBVIOUS
    <2>1. \A r \in Requests : req[r] = Idle
      BY DEF ProjectInit
    <2>2. Carried /\ Entitled
      BY <2>1, IdleSane DEF Carried, Entitled, HasRight
    <2>3. \A i \in ProjectRouteIds : ~IsRow(i)
      <3>1. \A i \in ProjectRouteIds : routes[i] = Unused
        BY DEF ProjectInit
      <3>2. Unused \notin RouteRows
        BY MembershipAssumption
      <3>3. QED BY <3>1, <3>2 DEF IsRow
    <2>4. QED BY <2>1, <2>2, <2>3, IdleSane DEF ProjectInit, Inv, ProjectTypeOK
  <1>2. Inv /\ [ProjectNext]_projectVars => Inv'
    BY InvStep
  <1>3. QED BY <1>1, <1>2, PTL DEF ProjectSpec

\* Every reachable state of the projects is well formed, a request in flight has the
\* target and the value its operation needs, and its actor has the right to it, or had
\* it since the request began and lost it.
THEOREM TypeCorrect == ProjectSpec => []Inv
  BY BaseInvariant

-----------------------------------------------------------------------------
(* Rights and what becomes of owners and routes. *)

\* The steps that can change a membership, a route or the settings.
LEMMA WriteCases ==
  ASSUME [ProjectNext]_projectVars
  PROVE  \/ \E r \in Requests : EnrolOwner(r) \/ AddUser(r) \/ UpdateRoles(r) \/ RemoveUser(r)
         \/ \E r \in Requests : CreateProjectRoute(r) \/ DeleteProjectRoute(r) \/ UpdateProjectRoute(r)
         \/ \E r \in Requests : UpdateSettings(r)
         \/ UNCHANGED <<roles, routes, settings>>
  BY NextCases DEF CreateProject, Begin, LoadRow, Abandon, projectVars

\* A request that writes leaves the other projects, and the other tables, alone.
LEMMA WritesOne ==
  ASSUME Inv, NEW r \in Requests,
         EnrolOwner(r) \/ AddUser(r) \/ UpdateRoles(r) \/ RemoveUser(r)
  PROVE  /\ routes' = routes /\ settings' = settings /\ At(r, "idle")'
         /\ \A p \in Projects : roles'[p] # roles[p] => req[r].project = p
  BY RolesWritten, WritesStep DEF Writes, Inv, ProjectTypeOK

\* A request in flight has the right, or it has lapsed.
LEMMA RightNow ==
  ASSUME Inv, NEW r \in Requests, InFlight(req[r])
  PROVE  Right(Members(r), req[r].actor, req[r].op) \/ req[r].lapsed
  BY DEF Inv, Entitled, HasRight, Members

\* Changes of the projects are made with the right to them.
THEOREM Authorised == ProjectSpec => ChangesWereAuthorised
  <1> DEFINE A == /\ \A p \in Projects :
                       /\ roles'[p] # roles[p] =>
                            \E r \in Requests :
                              /\ req[r].project = p
                              /\ \/ EndsRightly(r) /\ req[r].op \in MemberOps
                                 \/ At(r, "enrolling") /\ req[r].actor \in GlobalAdmins
                       /\ settings'[p] # settings[p] =>
                            \E r \in Requests :
                              req[r].project = p /\ req[r].op = "set" /\ EndsRightly(r)
                  /\ routes' # routes =>
                       \E r \in Requests :
                         req[r].op \in {"create", "edit", "delete"} /\ EndsRightly(r)
  <1>1. Inv /\ [ProjectNext]_projectVars => A
    <2> SUFFICES ASSUME Inv, [ProjectNext]_projectVars PROVE A
      OBVIOUS
    <2>1. ASSUME NEW r \in Requests,
                 EnrolOwner(r) \/ AddUser(r) \/ UpdateRoles(r) \/ RemoveUser(r)
          PROVE  A
      <3>1. /\ routes' = routes /\ settings' = settings /\ At(r, "idle")'
            /\ \A p \in Projects : roles'[p] # roles[p] => req[r].project = p
        BY <2>1, WritesOne
      <3>2. \/ EndsRightly(r) /\ req[r].op \in MemberOps
            \/ At(r, "enrolling") /\ req[r].actor \in GlobalAdmins
        <4>1. CASE EnrolOwner(r)
          BY <4>1 DEF EnrolOwner, At, Inv, Carried, Sane
        <4>2. CASE AddUser(r) \/ UpdateRoles(r) \/ RemoveUser(r)
          <5>1. InFlight(req[r]) /\ req[r].op \in MemberOps
            BY <4>2 DEF AddUser, UpdateRoles, RemoveUser, At, InFlight, MemberOps
          <5>2. QED BY <3>1, <5>1, RightNow DEF EndsRightly
        <4>3. QED BY <2>1, <4>1, <4>2
      <3>3. QED BY <3>1, <3>2
    <2>2. ASSUME NEW r \in Requests, CreateProjectRoute(r) \/ DeleteProjectRoute(r) \/ UpdateProjectRoute(r)
          PROVE  A
      <3>1. InFlight(req[r]) /\ req[r].op \in {"create", "edit", "delete"}
        BY <2>2 DEF CreateProjectRoute, DeleteProjectRoute, UpdateProjectRoute, At, InFlight
      <3>2. At(r, "idle")' /\ roles' = roles /\ settings' = settings
        BY <2>2, RoutesWritten, WritesRoutesStep DEF WritesRoutes
      <3>3. EndsRightly(r)
        BY <3>1, <3>2, RightNow DEF EndsRightly
      <3>4. QED BY <3>1, <3>2, <3>3
    <2>3. ASSUME NEW r \in Requests, UpdateSettings(r)
          PROVE  A
      <3>1. /\ InFlight(req[r]) /\ req[r].op = "set"
            /\ settings' = [settings EXCEPT ![req[r].project] = req[r].wanted]
            /\ roles' = roles /\ routes' = routes /\ req' = [req EXCEPT ![r] = Idle]
        BY <2>3 DEF UpdateSettings, At, InFlight
      <3>2. At(r, "idle")'
        BY <3>1, IdleSane DEF At, Inv, ProjectTypeOK
      <3>3. EndsRightly(r)
        BY <3>1, <3>2, RightNow DEF EndsRightly
      <3>4. \A p \in Projects : settings'[p] # settings[p] => req[r].project = p
        BY <3>1 DEF Inv, ProjectTypeOK
      <3>5. QED BY <3>1, <3>3, <3>4
    <2>4. CASE UNCHANGED <<roles, routes, settings>>
      BY <2>4
    <2>5. QED BY <2>1, <2>2, <2>3, <2>4, WriteCases
  <1>2. QED BY <1>1, BaseInvariant, PTL DEF ProjectSpec, ChangesWereAuthorised

\* The removal of a user leaves the roles of everybody else.
LEMMA OthersStay ==
  ASSUME Inv, NEW r \in Requests, RemoveUser(r), NEW p \in Projects
  PROVE  \A u \in Users : u # req[r].target => roles'[p][u] = roles[p][u]
  <1>1. req[r].project \in Projects
    BY DEF RemoveUser, At, Inv, Carried, Sane
  <1>2. roles' = [roles EXCEPT ![req[r].project] =
                    [Members(r) EXCEPT ![req[r].target] = NotMember]]
    BY DEF RemoveUser, Writes
  <1>3. QED BY <1>1, <1>2 DEF Members, Inv, ProjectTypeOK

\* Who joins a project disturbs nobody.
LEMMA MembersStay ==
  ASSUME Inv, NEW r \in Requests, EnrolOwner(r) \/ AddUser(r), NEW p \in Projects,
         NEW u \in Users, roles[p][u] # NotMember
  PROVE  roles'[p][u] = roles[p][u]
  <1>1. req[r].project \in Projects
    BY DEF EnrolOwner, AddUser, At, Inv, Carried, Sane
  <1>2. PICK rs : /\ roles' = [roles EXCEPT ![req[r].project] = rs]
                  /\ \A w \in Users : Members(r)[w] # NotMember => rs[w] = Members(r)[w]
    <2>1. Members(r) \in [Users -> RoleSets \cup {NotMember}]
      BY <1>1 DEF Members, Inv, ProjectTypeOK
    <2>2. CASE EnrolOwner(r)
      <3>1. CASE Writes(r, Members(r))
        BY <3>1 DEF Writes
      <3>2. CASE /\ Members(r)[req[r].actor] = NotMember
                 /\ Writes(r, [Members(r) EXCEPT ![req[r].actor] = {"admin", "owner"}])
        <4> DEFINE rs == [Members(r) EXCEPT ![req[r].actor] = {"admin", "owner"}]
        <4>1. \A w \in Users : Members(r)[w] # NotMember => rs[w] = Members(r)[w]
          BY <2>1, <3>2
        <4>2. QED BY <3>2, <4>1 DEF Writes
      <3>3. QED BY <2>2, <3>1, <3>2 DEF EnrolOwner
    <2>3. CASE AddUser(r)
      <3>1. CASE Members(r)[req[r].target] = NotMember
        <4> DEFINE rs == [Members(r) EXCEPT ![req[r].target] = req[r].wanted]
        <4>1. \A w \in Users : Members(r)[w] # NotMember => rs[w] = Members(r)[w]
          BY <2>1, <3>1
        <4>2. Writes(r, rs)
          BY <2>3, <3>1 DEF AddUser
        <4>3. QED BY <4>1, <4>2 DEF Writes
      <3>2. CASE Members(r)[req[r].target] # NotMember
        <4>1. Writes(r, Members(r))
          BY <2>3, <3>2 DEF AddUser
        <4>2. QED BY <4>1 DEF Writes
      <3>3. QED BY <3>1, <3>2
    <2>4. QED BY <2>2, <2>3
  <1>3. QED BY <1>1, <1>2 DEF Members, Inv, ProjectTypeOK

\* Removals by owners leave an owner.
THEOREM OwnerRemains == ProjectSpec => RemovalsKeepAnOwner
  <1> DEFINE P(p) == Owners(roles[p]) # {} /\ Owners(roles'[p]) = {} =>
                       \E r \in Requests :
                         /\ At(r, "authorised") /\ ~At(r, "authorised")' /\ req[r].project = p
                         /\ \/ req[r].op = "update"
                            \/ req[r].actor \in GlobalAdmins
                            \/ ~Owns(roles[p], req[r].actor)
  <1>1. Inv /\ [ProjectNext]_projectVars => \A p \in Projects : P(p)
    <2> SUFFICES ASSUME Inv, [ProjectNext]_projectVars, NEW p \in Projects,
                        Owners(roles[p]) # {}, Owners(roles'[p]) = {}
                 PROVE  P(p)
      OBVIOUS
    <2>1. \A u \in Users : ~Owns(roles'[p], u)
      BY DEF Owners
    <2>2. PICK o \in Users : Owns(roles[p], o)
      BY DEF Owners
    <2>3. ASSUME NEW r \in Requests, EnrolOwner(r) \/ AddUser(r) PROVE FALSE
      <3>1. roles'[p][o] = roles[p][o]
        BY <2>2, <2>3, MembersStay DEF Owns
      <3>2. QED BY <2>1, <2>2, <3>1 DEF Owns
    <2>4. ASSUME NEW r \in Requests, UpdateRoles(r) \/ RemoveUser(r)
          PROVE  /\ At(r, "authorised") /\ ~At(r, "authorised")' /\ req[r].project = p
      <3>1. At(r, "authorised")
        BY <2>4 DEF UpdateRoles, RemoveUser
      <3>2. At(r, "idle")' /\ (roles'[p] # roles[p] => req[r].project = p)
        BY <2>4, WritesOne
      <3>3. roles'[p] # roles[p]
        BY <2>1, <2>2
      <3>4. QED BY <3>1, <3>2, <3>3 DEF At
    <2>5. ASSUME NEW r \in Requests, UpdateRoles(r) PROVE P(p)
      BY <2>4, <2>5 DEF UpdateRoles
    <2>6. ASSUME NEW r \in Requests, RemoveUser(r) PROVE P(p)
      <3>1. req[r].target # req[r].actor /\ req[r].actor \in Users
        BY <2>6 DEF RemoveUser, Inv, Carried, Sane, At, InFlight
      <3>2. roles'[p][req[r].actor] = roles[p][req[r].actor]
        BY <2>6, <3>1, OthersStay
      <3>3. ~Owns(roles[p], req[r].actor)
        BY <2>1, <3>1, <3>2 DEF Owns
      <3>4. QED BY <2>4, <2>6, <3>3
    <2>7. CASE roles' = roles
      BY <2>1, <2>2, <2>7
    <2>8. QED BY <2>3, <2>5, <2>6, <2>7, WriteCases DEF CreateProjectRoute, DeleteProjectRoute, UpdateProjectRoute,
          WritesRoutes, UpdateSettings
  <1>2. QED BY <1>1, BaseInvariant, PTL DEF ProjectSpec, RemovalsKeepAnOwner

\* Deleted routes do not come back.
THEOREM DeletedForGood == ProjectSpec => DeletedStaysDeleted
  <1>1. Inv /\ [ProjectNext]_projectVars => \A i \in ProjectRouteIds : routes[i] = Gone => routes'[i] = Gone
    <2> SUFFICES ASSUME Inv, [ProjectNext]_projectVars, NEW i \in ProjectRouteIds, routes[i] = Gone
                 PROVE  routes'[i] = Gone
      OBVIOUS
    <2>1. ASSUME NEW r \in Requests, CreateProjectRoute(r) PROVE routes'[i] = Gone
      BY <2>1, MembershipAssumption DEF CreateProjectRoute, WritesRoutes, Inv, ProjectTypeOK
    <2>2. ASSUME NEW r \in Requests, DeleteProjectRoute(r) PROVE routes'[i] = Gone
      BY <2>2, MembershipAssumption DEF DeleteProjectRoute, WritesRoutes, Inv, ProjectTypeOK
    <2>3. ASSUME NEW r \in Requests, UpdateProjectRoute(r) PROVE routes'[i] = Gone
      BY <2>3, MembershipAssumption DEF UpdateProjectRoute, WritesRoutes, IsRow, Inv, ProjectTypeOK
    <2>4. CASE routes' = routes
      BY <2>4
    <2>5. QED BY <2>1, <2>2, <2>3, <2>4, WriteCases, WritesOne DEF UpdateSettings
  <1>2. QED BY <1>1, BaseInvariant, PTL DEF ProjectSpec, DeletedStaysDeleted

-----------------------------------------------------------------------------
(* One request at a time: what the overlap of requests alone is to blame for. *)

NoneLapsed == \A r \in Requests : ~req[r].lapsed

LEMMA NoneLapsedStep ==
  ASSUME \A q, r \in Requests : q = r, Inv, NoneLapsed, [ProjectNext]_projectVars
  PROVE  NoneLapsed'
  <1>1. ASSUME NEW r \in Requests, req'[r] = Idle PROVE NoneLapsed'
    BY <1>1, IdleSane DEF NoneLapsed
  <1>2. ASSUME NEW r \in Requests, NEW a \in Users, NEW p \in Projects, CreateProject(r, a, p)
        PROVE  NoneLapsed'
    <2>1. req'[r] = [Idle EXCEPT !.pc = "enrolling", !.actor = a, !.project = p]
      BY <1>2 DEF CreateProject, Inv, ProjectTypeOK
    <2>2. ~req'[r].lapsed
      BY <2>1 DEF Idle
    <2>3. QED BY <2>2 DEF NoneLapsed
  <1>3. ASSUME NEW r \in Requests, NEW a, NEW p, NEW op, NEW t, NEW x, Begin(r, a, p, op, t, x)
        PROVE  NoneLapsed'
    <2>1. ~req'[r].lapsed
      BY <1>3 DEF Begin, Inv, ProjectTypeOK
    <2>2. QED BY <2>1 DEF NoneLapsed
  <1>4. ASSUME NEW r \in Requests,
               EnrolOwner(r) \/ AddUser(r) \/ UpdateRoles(r) \/ RemoveUser(r)
        PROVE  NoneLapsed'
    BY <1>1, <1>4, RolesWritten, WritesStep
  <1>5. ASSUME NEW r \in Requests, CreateProjectRoute(r) \/ DeleteProjectRoute(r) \/ UpdateProjectRoute(r)
        PROVE  NoneLapsed'
    BY <1>1, <1>5, RoutesWritten, WritesRoutesStep
  <1>6. ASSUME NEW r \in Requests, UpdateSettings(r) \/ Abandon(r) PROVE NoneLapsed'
    BY <1>1, <1>6 DEF UpdateSettings, Abandon, Inv, ProjectTypeOK
  <1>7. ASSUME NEW r \in Requests, LoadRow(r) PROVE NoneLapsed'
    <2>1. req[r] \in RequestStates /\ req'[r] = [req[r] EXCEPT !.pc = "loaded"]
      BY <1>7 DEF LoadRow, Inv, ProjectTypeOK
    <2>2. req'[r].lapsed = req[r].lapsed
      BY <2>1 DEF RequestStates
    <2>3. QED BY <2>2 DEF NoneLapsed
  <1>8. CASE UNCHANGED projectVars
    BY <1>8 DEF projectVars, NoneLapsed
  <1>9. QED BY <1>2, <1>3, <1>4, <1>5, <1>6, <1>7, <1>8, NextCases

LEMMA NoneLapsedInvariant ==
  ASSUME \A q, r \in Requests : q = r
  PROVE  ProjectSpec => []NoneLapsed
  <1>1. ProjectInit => NoneLapsed
    BY IdleSane DEF ProjectInit, NoneLapsed
  <1>2. Inv /\ NoneLapsed /\ [ProjectNext]_projectVars => NoneLapsed'
    BY NoneLapsedStep
  <1>3. QED BY <1>1, <1>2, BaseInvariant, PTL DEF ProjectSpec

\* Request r has the right to what it does, in the project of its URL, now.
EntitledNow(r) == InFlight(req[r]) /\ Right(Members(r), req[r].actor, req[r].op)

\* If requests did not overlap, every change would be made for somebody who has
\* at that very moment the right to it in the project that his URL names; a
\* membership or the settings are always those of that project ...
THEOREM AuthorisedNow ==
  ASSUME \A q, r \in Requests : q = r
  PROVE  ProjectSpec =>
           [][/\ \A p \in Projects :
                   <<roles'[p], settings'[p]>> # <<roles[p], settings[p]>> =>
                     \E r \in Requests :
                       /\ req[r].project = p
                       /\ EntitledNow(r) \/ (At(r, "enrolling") /\ req[r].actor \in GlobalAdmins)
              /\ routes' # routes => \E r \in Requests : EntitledNow(r)]_projectVars
  <1> DEFINE A == /\ \A p \in Projects :
                       /\ roles'[p] # roles[p] =>
                            \E r \in Requests :
                              /\ req[r].project = p
                              /\ \/ EndsRightly(r) /\ req[r].op \in MemberOps
                                 \/ At(r, "enrolling") /\ req[r].actor \in GlobalAdmins
                       /\ settings'[p] # settings[p] =>
                            \E r \in Requests :
                              req[r].project = p /\ req[r].op = "set" /\ EndsRightly(r)
                  /\ routes' # routes =>
                       \E r \in Requests :
                         req[r].op \in {"create", "edit", "delete"} /\ EndsRightly(r)
             B == /\ \A p \in Projects :
                       <<roles'[p], settings'[p]>> # <<roles[p], settings[p]>> =>
                         \E r \in Requests :
                           /\ req[r].project = p
                           /\ EntitledNow(r) \/ (At(r, "enrolling") /\ req[r].actor \in GlobalAdmins)
                  /\ routes' # routes => \E r \in Requests : EntitledNow(r)
  <1>1. NoneLapsed /\ [A]_projectVars => [B]_projectVars
    <2>1. ASSUME NoneLapsed, NEW r \in Requests, EndsRightly(r) PROVE EntitledNow(r)
      BY <2>1 DEF NoneLapsed, EndsRightly, EntitledNow
    <2>2. QED BY <2>1
  <1>2. QED BY <1>1, NoneLapsedInvariant, Authorised, PTL DEF ChangesWereAuthorised

\* ... and no removal by an owner could take the last owner away: of the three
\* ways of RemovalsKeepAnOwner the last one would be closed.
THEOREM LastOwnerStays ==
  ASSUME \A q, r \in Requests : q = r
  PROVE  ProjectSpec => [][\A p \in Projects :
                      Owners(roles[p]) # {} /\ Owners(roles'[p]) = {} =>
                        \E r \in Requests :
                          /\ At(r, "authorised") /\ req[r].project = p
                          /\ req[r].op = "update" \/ req[r].actor \in GlobalAdmins]_projectVars
  <1> DEFINE A == \A p \in Projects :
                    Owners(roles[p]) # {} /\ Owners(roles'[p]) = {} =>
                      \E r \in Requests :
                        /\ At(r, "authorised") /\ ~At(r, "authorised")' /\ req[r].project = p
                        /\ \/ req[r].op = "update"
                           \/ req[r].actor \in GlobalAdmins
                           \/ ~Owns(roles[p], req[r].actor)
             B == \A p \in Projects :
                    Owners(roles[p]) # {} /\ Owners(roles'[p]) = {} =>
                      \E r \in Requests :
                        /\ At(r, "authorised") /\ req[r].project = p
                        /\ req[r].op = "update" \/ req[r].actor \in GlobalAdmins
  <1>1. (\A q, r \in Requests : q = r) /\ Inv /\ NoneLapsed /\ [ProjectNext]_projectVars /\ [A]_projectVars => [B]_projectVars
    <2> SUFFICES ASSUME Inv, NoneLapsed, [ProjectNext]_projectVars, A, \A q, r \in Requests : q = r,
                        NEW p \in Projects, Owners(roles[p]) # {}, Owners(roles'[p]) = {}
                 PROVE  \E r \in Requests :
                          /\ At(r, "authorised") /\ req[r].project = p
                          /\ req[r].op = "update" \/ req[r].actor \in GlobalAdmins
      OBVIOUS
    <2>1. PICK r \in Requests :
            /\ At(r, "authorised") /\ ~At(r, "authorised")' /\ req[r].project = p
            /\ \/ req[r].op = "update"
               \/ req[r].actor \in GlobalAdmins
               \/ ~Owns(roles[p], req[r].actor)
      OBVIOUS
    <2>2. req[r].op \in MemberOps
      <3>1. roles' # roles
        OBVIOUS
      <3>2. ASSUME NEW q \in Requests, AddUser(q) \/ UpdateRoles(q) \/ RemoveUser(q)
            PROVE  req[r].op \in MemberOps
        <4>1. q = r
          OBVIOUS
        <4>2. QED BY <3>2, <4>1 DEF AddUser, UpdateRoles, RemoveUser, MemberOps
      <3>3. ASSUME NEW q \in Requests, EnrolOwner(q) PROVE FALSE
        <4>1. q = r
          OBVIOUS
        <4>2. QED BY <2>1, <3>3, <4>1 DEF EnrolOwner, At
      <3>4. QED BY <3>1, <3>2, <3>3, WriteCases DEF CreateProjectRoute, DeleteProjectRoute, UpdateProjectRoute,
            WritesRoutes, UpdateSettings
    <2>3. Right(Members(r), req[r].actor, req[r].op)
      BY <2>1, RightNow DEF NoneLapsed, InFlight, At
    <2>4. req[r].actor \in GlobalAdmins \/ Owns(roles[p], req[r].actor)
      BY <2>1, <2>2, <2>3 DEF Right, Members
    <2>5. QED BY <2>1, <2>4
  <1>2. QED BY <1>1, NoneLapsedInvariant, BaseInvariant, OwnerRemains, PTL
        DEF RemovalsKeepAnOwner, ProjectSpec

-----------------------------------------------------------------------------
(* The composition. *)

\* Every step of the composition is one of the project, or none there.
THEOREM AccessIsMembership == AccessSpec => ProjectSpec
  <1>1. AccessInit => ProjectInit
    BY DEF AccessInit
  <1>2. [AccessNext]_accessVars => [ProjectNext]_projectVars
    BY DEF AccessNext, Manage, ReadRoles, Issue, NoToken, Tick, accessVars
  <1>3. QED BY <1>1, <1>2, PTL DEF AccessSpec, ProjectSpec

\* What is on its way to the gateway, or accepted there, has been held recently.
HeldRecently ==
  /\ \A t \in tokens : \A q \in t.roles : away[q] <= t.age + Longest
  /\ \A q \in login.roles : login.pc = "read" /\ away[q] <= login.took

LEMMA AccessTypeStep ==
  ASSUME AccessTypeOK, ProjectTypeOK', [AccessNext]_accessVars
  PROVE  AccessTypeOK'
  <1> USE AccessAssumption
  <1>1. \A rs, q : Holds(rs, q) \in BOOLEAN
    BY DEF Holds
  <1>2. CASE Manage
    <2>1. login' = login /\ tokens' = tokens
      BY <1>2 DEF Manage
    <2>2. away' \in [Roles -> 0..Horizon]
      BY <1>2 DEF Manage, AccessTypeOK
    <2>3. \A q \in Roles : Holds(roles', q) => away'[q] = 0
      BY <1>2 DEF Manage
    <2>4. QED BY <2>1, <2>2, <2>3 DEF AccessTypeOK, Holds
  <1>3. CASE ReadRoles
    <2>0. PICK p \in Projects :
            roles[p][Member] # NotMember
            /\ login' = [NoLogin EXCEPT !.pc = "read", !.roles = roles[p][Member]]
      BY <1>3 DEF ReadRoles
    <2>1. UNCHANGED <<roles, tokens, away>> /\ roles[p][Member] \in RoleSets
      BY <1>3, <2>0 DEF ReadRoles, projectVars, AccessTypeOK, ProjectTypeOK
    <2>2. roles[p][Member] \subseteq Roles
      BY <2>1 DEF Roles
    <2>3. login' = [pc |-> "read", roles |-> roles[p][Member], took |-> 0]
      BY <2>0 DEF NoLogin
    <2>4. login' \in LoginStates
      BY <2>2, <2>3 DEF LoginStates
    <2>5. QED BY <2>1, <2>4 DEF AccessTypeOK, Holds
  <1>4. CASE Issue
    <2>1. UNCHANGED <<roles, away>> /\ login' = NoLogin
      BY <1>4 DEF Issue, projectVars
    <2>2. PICK l \in Lives : tokens' = tokens \cup {[roles |-> login.roles, life |-> l, age |-> 0]}
      BY <1>4 DEF Issue
    <2>3. [roles |-> login.roles, life |-> l, age |-> 0] \in AccessTokens
      BY DEF AccessTypeOK, AccessTokens, LoginStates
    <2>4. NoLogin \in LoginStates
      BY DEF NoLogin, LoginStates
    <2>5. QED BY <2>1, <2>2, <2>3, <2>4 DEF AccessTypeOK, Holds
  <1>5. CASE NoToken
    <2>1. NoLogin \in LoginStates
      BY DEF NoLogin, LoginStates
    <2>2. QED BY <1>5, <2>1 DEF NoToken, projectVars, AccessTypeOK, Holds
  <1>6. CASE Tick
    <2>1. \A n \in 0..Horizon : Older(n) \in 0..Horizon
      BY DEF Older
    <2>2. login' \in LoginStates
      BY <1>6 DEF Tick, AccessTypeOK, LoginStates
    <2>3. tokens' \subseteq AccessTokens
      <3>1. ASSUME NEW u \in tokens PROVE [u EXCEPT !.age = Older(@)] \in AccessTokens
        BY <2>1 DEF AccessTypeOK, AccessTokens
      <3>2. QED BY <1>6, <3>1 DEF Tick
    <2>4. away' \in [Roles -> 0..Horizon]
      BY <1>6, <2>1 DEF Tick, AccessTypeOK
    <2>5. roles' = roles /\ \A q \in Roles : Holds(roles, q) => away'[q] = 0
      BY <1>6 DEF Tick, projectVars, AccessTypeOK
    <2>6. QED BY <2>2, <2>3, <2>4, <2>5 DEF AccessTypeOK, Holds
  <1>7. CASE UNCHANGED accessVars
    BY <1>7 DEF accessVars, projectVars, AccessTypeOK, Holds
  <1>8. QED BY <1>2, <1>3, <1>4, <1>5, <1>6, <1>7 DEF AccessNext

\* Tokens and the clock keep their types.
THEOREM AccessTypeCorrect == AccessSpec => []AccessTypeOK
  <1>1. AccessInit /\ ProjectTypeOK => AccessTypeOK
    <2> SUFFICES ASSUME AccessInit, ProjectTypeOK PROVE AccessTypeOK
      OBVIOUS
    <2>1. \A q \in Roles : ~Holds(roles, q)
      BY AccessAssumption DEF AccessInit, ProjectInit, Holds
    <2>2. QED BY <2>1, AccessAssumption DEF AccessInit, AccessTypeOK, NoLogin, LoginStates
  <1>2. AccessTypeOK /\ ProjectTypeOK' /\ [AccessNext]_accessVars => AccessTypeOK'
    BY AccessTypeStep
  <1>3. AccessSpec => []ProjectTypeOK
    BY AccessIsMembership, TypeCorrect, PTL DEF Inv
  <1>4. QED BY <1>1, <1>2, <1>3, PTL DEF AccessSpec

LEMMA HeldStep ==
  ASSUME AccessTypeOK, HeldRecently, [AccessNext]_accessVars
  PROVE  HeldRecently'
  <1> USE AccessAssumption
  <1>1. /\ \A t \in tokens : t.roles \subseteq Roles /\ t.age \in 0..Horizon /\ t.life \in Lives
        /\ login.roles \subseteq Roles /\ login.took \in 0..Longest
        /\ \A q \in Roles : away[q] \in 0..Horizon
    BY DEF AccessTypeOK, AccessTokens, LoginStates
  <1>2. CASE Manage
    <2>1. \A q \in Roles : away'[q] <= away[q] /\ away'[q] \in Nat
      BY <1>1, <1>2 DEF Manage
    <2>2. login' = login /\ tokens' = tokens
      BY <1>2 DEF Manage
    <2>3. ASSUME NEW t \in tokens, NEW q \in t.roles PROVE away'[q] <= t.age + Longest
      <3>1. q \in Roles /\ away[q] <= t.age + Longest /\ t.age \in Nat /\ away[q] \in Nat
        BY <1>1 DEF HeldRecently
      <3>2. QED BY <2>1, <3>1
    <2>4. ASSUME NEW q \in login.roles PROVE away'[q] <= login.took
      <3>1. q \in Roles /\ away[q] <= login.took /\ login.took \in Nat /\ away[q] \in Nat
        BY <1>1 DEF HeldRecently
      <3>2. QED BY <2>1, <3>1
    <2>5. QED BY <2>2, <2>3, <2>4 DEF HeldRecently
  <1>3. CASE ReadRoles
    <2>0. PICK p \in Projects :
            roles[p][Member] # NotMember
            /\ login' = [NoLogin EXCEPT !.pc = "read", !.roles = roles[p][Member]]
      BY <1>3 DEF ReadRoles
    <2>1. /\ UNCHANGED <<tokens, away>>
          /\ login' = [pc |-> "read", roles |-> roles[p][Member], took |-> 0]
          /\ roles[p][Member] # NotMember
      BY <1>3, <2>0 DEF ReadRoles, NoLogin
    <2>2. roles[p][Member] \in RoleSets
      BY <2>1 DEF AccessTypeOK, ProjectTypeOK
    <2>3. ASSUME NEW q \in login'.roles PROVE login'.pc = "read" /\ away'[q] <= login'.took
      <3>1. q \in Roles /\ Holds(roles, q)
        BY <2>1, <2>2, <2>3 DEF Roles, Holds
      <3>2. QED BY <2>1, <3>1 DEF AccessTypeOK
    <2>4. QED BY <2>1, <2>3 DEF HeldRecently
  <1>4. CASE Issue
    <2>1. away' = away /\ login'.roles = {}
      BY <1>4 DEF Issue, NoLogin
    <2>2. PICK l \in Lives : tokens' = tokens \cup {[roles |-> login.roles, life |-> l, age |-> 0]}
      BY <1>4 DEF Issue
    <2>3. ASSUME NEW t \in tokens', NEW q \in t.roles PROVE away[q] <= t.age + Longest
      <3>1. CASE t \in tokens
        BY <3>1 DEF HeldRecently
      <3>2. CASE t = [roles |-> login.roles, life |-> l, age |-> 0]
        <4>1. away[q] <= login.took /\ q \in Roles /\ t.age = 0
          BY <1>1, <2>3, <3>2 DEF HeldRecently
        <4>2. QED BY <1>1, <4>1
      <3>3. QED BY <2>2, <3>1, <3>2
    <2>4. QED BY <2>1, <2>3 DEF HeldRecently
  <1>5. CASE NoToken
    BY <1>5 DEF NoToken, NoLogin, HeldRecently
  <1>6. CASE Tick
    <2>1. \A q \in Roles : away'[q] \in 0..Horizon /\ away'[q] <= away[q] + 1
      BY <1>1, <1>6 DEF Tick, Older
    <2>2. ASSUME NEW t \in tokens', NEW q \in t.roles PROVE away'[q] <= t.age + Longest
      <3>1. PICK u \in tokens : t = [u EXCEPT !.age = Older(@)]
        BY <1>6, <2>2 DEF Tick
      <3>2. u \in AccessTokens
        BY DEF AccessTypeOK
      <3>3. t.roles = u.roles /\ t.age = Older(u.age)
        BY <3>1, <3>2 DEF AccessTokens
      <3>4. q \in Roles /\ away[q] <= u.age + Longest /\ u.age \in 0..Horizon
        BY <1>1, <2>2, <3>3 DEF HeldRecently
      <3>5. CASE u.age < Horizon
        BY <1>1, <2>1, <3>3, <3>4, <3>5 DEF Older
      <3>6. CASE ~(u.age < Horizon)
        BY <1>1, <2>1, <3>3, <3>4, <3>6 DEF Older
      <3>7. QED BY <3>5, <3>6
    <2>3. ASSUME NEW q \in login'.roles PROVE login'.pc = "read" /\ away'[q] <= login'.took
      <3>1. login \in LoginStates
        BY DEF AccessTypeOK
      <3>2. CASE login.pc = "idle"
        BY <1>6, <2>3, <3>2 DEF Tick, HeldRecently
      <3>3. CASE login.pc # "idle"
        <4>1. login' = [login EXCEPT !.took = @ + 1]
          BY <1>6, <3>3 DEF Tick
        <4>2. login'.roles = login.roles /\ login'.took = login.took + 1 /\ login'.pc = login.pc
          BY <3>1, <4>1 DEF LoginStates
        <4>3. q \in Roles /\ login.pc = "read" /\ away[q] <= login.took
          BY <1>1, <2>3, <4>2 DEF HeldRecently
        <4>4. QED BY <1>1, <2>1, <4>2, <4>3
      <3>4. QED BY <3>2, <3>3
    <2>4. QED BY <2>2, <2>3 DEF HeldRecently
  <1>7. CASE UNCHANGED accessVars
    BY <1>7 DEF accessVars, HeldRecently
  <1>8. QED BY <1>2, <1>3, <1>4, <1>5, <1>6, <1>7 DEF AccessNext

\* Whom ACLMiddleware admits for a role has recently held one of that name, in some
\* project.
THEOREM AdmittedRecently == AccessSpec => []AdmittedHeldRecently
  <1>1. AccessInit => HeldRecently
    BY DEF AccessInit, NoLogin, HeldRecently
  <1>2. AccessTypeOK /\ HeldRecently /\ [AccessNext]_accessVars => HeldRecently'
    BY HeldStep
  <1>3. AccessTypeOK /\ HeldRecently => AdmittedHeldRecently
    <2> SUFFICES ASSUME AccessTypeOK, HeldRecently, NEW t \in tokens, NEW q \in t.roles, Accepts(t)
                 PROVE  away[q] < t.life + Leeway + Longest
      BY DEF AdmittedHeldRecently
    <2>1. t \in AccessTokens /\ q \in Roles
      BY DEF AccessTypeOK, AccessTokens
    <2>2. away[q] \in 0..Horizon /\ t.age \in 0..Horizon /\ t.life \in Nat
      BY <2>1, AccessAssumption DEF AccessTypeOK, AccessTokens
    <2>3. away[q] <= t.age + Longest /\ t.age < t.life + Leeway
      BY DEF HeldRecently, Accepts
    <2>4. QED BY <2>2, <2>3, AccessAssumption
  <1>4. QED BY <1>1, <1>2, <1>3, AccessTypeCorrect, PTL DEF AccessSpec

-----------------------------------------------------------------------------
(* A role that is lost. *)

\* A role of a name not held in any project since the horizon opens nothing.
GoneAtHorizon == \A q \in Roles : away[q] = Horizon => ~Admits(q)

\* Whatever tokens of the member are still about: once he has held no role of a name in
\* any project for the life of a token, the leeway and the longest request,
\* ACLMiddleware does not admit him for it.
THEOREM NoAccessAtHorizon == AccessSpec => []GoneAtHorizon
  <1>1. AccessTypeOK /\ AdmittedHeldRecently => GoneAtHorizon
    <2> SUFFICES ASSUME AccessTypeOK, AdmittedHeldRecently,
                        NEW q \in Roles, away[q] = Horizon, Admits(q)
                 PROVE  FALSE
      BY DEF GoneAtHorizon
    <2>1. PICK t \in tokens : Accepts(t) /\ q \in t.roles
      BY DEF Admits
    <2>2. Horizon < t.life + Leeway + Longest
      BY <2>1 DEF AdmittedHeldRecently
    <2>3. t.life \in Lives
      BY DEF AccessTypeOK, AccessTokens
    <2>4. t.life \in Nat /\ t.life + Leeway + Longest <= Horizon
      BY <2>3, AccessAssumption
    <2>5. QED BY <2>2, <2>4, AccessAssumption
  <1>2. QED BY <1>1, AccessTypeCorrect, AdmittedRecently, PTL

\* The fairness of AccessSpec, with enabling conditions written out: time
\* passes where it can and makes a difference, and a login that has read roles
\* comes to its end.
TimeMayPass == login.took < Longest \/ login.pc = "idle"
TickMatters == TimeMayPass /\ \E q \in Roles : ~Holds(roles, q) /\ away[q] < Horizon
TimeFairness == []<><<Tick>>_accessVars \/ []<>~TickMatters
LoginFairness == []<><<Issue \/ NoToken>>_accessVars \/ []<>~(login.pc = "read")

\* No step but a return of the role and a tick changes how long it has been away.
LEMMA AwayStep ==
  ASSUME AccessTypeOK, [AccessNext]_accessVars, NEW q \in Roles, ~Holds(roles, q)
  PROVE  /\ Holds(roles', q) \/ away'[q] \in {away[q], Older(away[q])}
         /\ Tick => away'[q] = Older(away[q])
         /\ ~Tick => Holds(roles', q) \/ away'[q] = away[q]
  <1>1. Tick => away'[q] = Older(away[q])
    BY DEF Tick
  <1>2. CASE Manage
    BY <1>1, <1>2 DEF Manage
  <1>3. CASE ReadRoles \/ Issue \/ NoToken \/ UNCHANGED accessVars
    BY <1>1, <1>3 DEF ReadRoles, Issue, NoToken, accessVars
  <1>4. QED BY <1>1, <1>2, <1>3 DEF AccessNext

\* Requests of the member stop the clock at most until the next one of them
\* ends: when there is time for any request at all, a login begun anew leaves
\* room for a tick.
LEMMA TimeStep ==
  ASSUME AccessTypeOK, Longest > 0, [AccessNext]_accessVars
  PROVE  /\ TimeMayPass => TimeMayPass' \/ Tick
         /\ Issue \/ NoToken => TimeMayPass'
  <1> USE AccessAssumption
  <1>1. CASE Manage \/ UNCHANGED accessVars
    BY <1>1 DEF Manage, accessVars, TimeMayPass, Issue, NoToken, NoLogin
  <1>2. CASE ReadRoles
    BY <1>2 DEF ReadRoles, TimeMayPass, NoLogin, Issue, NoToken
  <1>3. CASE Issue \/ NoToken \/ Tick
    BY <1>3 DEF Issue, NoToken, NoLogin, TimeMayPass
  <1>4. QED BY <1>1, <1>2, <1>3 DEF AccessNext

\* A role that is not held comes nearer to the horizon, whatever the member and
\* the owners do meanwhile: each of the steps by which LostRoleLosesAccess is
\* reached.
THEOREM LostRoleAges ==
  ASSUME NEW q \in Roles, NEW n \in 0 .. Horizon, n < Horizon, Longest > 0
  PROVE  AccessSpec /\ TimeFairness /\ LoginFairness =>
           ((~Holds(roles, q) /\ away[q] = n) ~> (Holds(roles, q) \/ away[q] = n + 1))
  <1> DEFINE Lost == ~Holds(roles, q) /\ away[q] = n
             Goal == Holds(roles, q) \/ away[q] = n + 1
  <1>1. AccessTypeOK /\ [AccessNext]_accessVars /\ Lost => Lost' \/ Goal'
    BY AwayStep, AccessAssumption DEF Older
  <1>2. AccessTypeOK /\ [AccessNext]_accessVars /\ Lost /\ <<Tick>>_accessVars => Goal'
    BY AwayStep, AccessAssumption DEF Older
  <1>3. AccessTypeOK /\ [AccessNext]_accessVars /\ Lost /\ TimeMayPass =>
          TimeMayPass' \/ Goal'
    BY AwayStep, TimeStep, AccessAssumption DEF Older
  <1>4. AccessTypeOK /\ [AccessNext]_accessVars /\ <<Issue \/ NoToken>>_accessVars =>
          TimeMayPass'
    BY TimeStep
  <1>5. Lost /\ TimeMayPass => TickMatters
    BY DEF TickMatters
  <1>6. AccessTypeOK /\ ~TimeMayPass => login.pc = "read"
    BY DEF AccessTypeOK, LoginStates, TimeMayPass
  <1> HIDE DEF Lost, Goal
  <1>7. AccessSpec /\ TimeFairness /\ LoginFairness => (Lost ~> Goal)
    BY <1>1, <1>2, <1>3, <1>4, <1>5, <1>6, AccessTypeCorrect, PTL
    DEF AccessSpec, TimeFairness, LoginFairness
  <1>8. QED BY <1>7 DEF Lost, Goal
=============================================================================
