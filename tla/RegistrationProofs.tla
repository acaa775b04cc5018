------------------------- MODULE RegistrationProofs -------------------------
(***************************************************************************)
(* Proofs about the accounts, for any number of accounts, emails and       *)
(* concurrent requests.                                                    *)
(***************************************************************************)
EXTENDS Registration, TLAPS

-----------------------------------------------------------------------------
(* Types. *)

\* Every step of the system is one of these.
LEMMA NextCases ==
  ASSUME [Next]_vars
  PROVE  \/ \E r \in Requests, e \in Emails, p, s \in BOOLEAN : CheckEmail(r, e, p, s)
         \/ \E r \in Requests : CreateCustomer(r)
         \/ \E r \in Requests : AssignProject(r)
         \/ \E r \in Requests : CountUsers(r)
         \/ \E r \in Requests : CreateUser(r)
         \/ \E r \in Requests, e \in Emails : FindUser(r, e)
         \/ \E r \in Requests : AddFound(r)
         \/ \E r \in Requests, i \in Ids, e \in Emails : AllowChange(r, i, e)
         \/ \E r \in Requests : UpdateUser(r)
         \/ \E r \in Requests : ConfirmChange(r)
         \/ \E r \in Requests : Abandon(r)
         \/ UNCHANGED vars
  BY DEF Next, Register, Manage

\* What a request carries: an email once it has been read, and the account it
\* has created, found or been allowed to change.
Sane(x, k) ==
  /\ x.pc # "idle" => x.email \in Emails
  /\ x.pc \in {"created", "found", "allowed", "changed"} => x.id \in Ids /\ k[x.id] # "none"

Carried == \A r \in Requests : Sane(req[r], kind)

\* Which accounts exist: they only become more.
Growing == \A i \in Ids : Exists(i) => Exists(i)'

LEMMA IdleTypes == Idle \in RequestStates /\ Idle.pc = "idle"
  BY DEF Idle, Begun, RequestStates

LEMMA BegunTypes ==
  ASSUME NEW l \in {"free", "found", "allowed"}, NEW i \in Ids \cup {NoId}, NEW e \in Emails,
         NEW p \in BOOLEAN, NEW s \in BOOLEAN
  PROVE  /\ Begun(l, i, e, p, s) \in RequestStates
         /\ Begun(l, i, e, p, s).pc = l
         /\ Begun(l, i, e, p, s).id = i
         /\ Begun(l, i, e, p, s).email = e
  BY DEF Begun, RequestStates

\* The INSERT of a new account keeps the table well formed.
LEMMA InsertTypes ==
  ASSUME TypeOK, NEW i \in Ids, ~Exists(i), NEW e \in Emails, Holders(e) = {},
         NEW k \in {"customer", "admin"}, Insert(i, e, k)
  PROVE  /\ kind' \in [Ids -> {"none", "customer", "admin"}]
         /\ email' \in [Ids -> Emails \cup {NoEmail}]
         /\ knows' \in [Ids -> SUBSET Emails]
         /\ \A j \in Ids : Exists(j)' <=> email'[j] # NoEmail
         /\ \A j, m \in Ids : email'[j] = email'[m] => j = m \/ ~Exists(j)'
         /\ Growing /\ Exists(i)' /\ kind'[i] = k /\ email'[i] = e /\ knows'[i] = {e}
         /\ \A j \in Ids \ {i} : kind'[j] = kind[j] /\ email'[j] = email[j] /\ knows'[j] = knows[j]
  BY RegistrationAssumption DEF TypeOK, Insert, Exists, Holders, Growing

\* A change of one request keeps the requests well formed.
LEMMA RequestTypes ==
  ASSUME TypeOK, Carried, Growing, NEW r \in Requests,
         NEW x, x \in RequestStates, Sane(x, kind'), req' = [req EXCEPT ![r] = x]
  PROVE  req' \in [Requests -> RequestStates] /\ Carried'
  BY DEF TypeOK, Carried, Sane, Growing, Exists

LEMMA SaneIdle == \A k : Sane(Idle, k)
  BY DEF Sane, Idle, Begun

\* Types, and what requests carry, are preserved.
LEMMA TypeStep ==
  ASSUME TypeOK, Carried, [Next]_vars
  PROVE  TypeOK' /\ Carried'
  <1>1. ASSUME UNCHANGED kind PROVE Growing
    BY <1>1 DEF Growing, Exists
  <1>2. ASSUME NEW r \in Requests, NEW e \in Emails, NEW p \in BOOLEAN, NEW s \in BOOLEAN,
               CheckEmail(r, e, p, s)
        PROVE  TypeOK' /\ Carried'
    <2> DEFINE x == Begun("free", NoId, e, p, s)
    <2>2. x \in RequestStates /\ Sane(x, kind')
      BY BegunTypes DEF Sane
    <2>3. req' = [req EXCEPT ![r] = x] /\ UNCHANGED <<accounts, members, bySecret, forProject, doubleCount, overlapped>>
      BY <1>2 DEF CheckEmail
    <2> HIDE DEF x
    <2>4. Growing
      BY <1>1, <2>3 DEF accounts
    <2>5. req' \in [Requests -> RequestStates] /\ Carried'
      BY <2>2, <2>3, <2>4, RequestTypes
    <2>6. QED BY <2>3, <2>5 DEF TypeOK, accounts, Exists
  <1>3. ASSUME NEW r \in Requests, UNCHANGED <<accounts, bySecret, forProject, doubleCount, overlapped>>,
               req' = [req EXCEPT ![r] = Idle],
               members' \subseteq {i \in Ids : Exists(i)}
        PROVE  TypeOK' /\ Carried'
    <2>1. Growing
      BY <1>1, <1>3 DEF accounts
    <2>2. req' \in [Requests -> RequestStates] /\ Carried'
      BY <1>3, <2>1, RequestTypes, IdleTypes, SaneIdle
    <2>3. QED BY <1>3, <2>2 DEF TypeOK, accounts, Exists
  <1>4. ASSUME NEW r \in Requests, CreateCustomer(r) PROVE TypeOK' /\ Carried'
    <2>1. CASE Holders(req[r].email) = {}
      <3> DEFINE e == req[r].email
      <3>1. PICK i \in Ids : /\ ~Exists(i) /\ Insert(i, e, "customer") /\ forProject' = forProject \cup {i}
                             /\ req' = [req EXCEPT ![r] = [@ EXCEPT !.pc = "created", !.id = i]]
        BY <1>4, <2>1 DEF CreateCustomer
      <3>2. e \in Emails
        BY <1>4 DEF CreateCustomer, At, Carried, Sane, Exists
      <3> DEFINE x == [req[r] EXCEPT !.pc = "created", !.id = i]
      <3>3. x \in RequestStates /\ x.email = e /\ x.id = i /\ x.pc = "created"
        <4>1. req[r] \in RequestStates
          BY DEF TypeOK
        <4>2. QED BY <4>1 DEF RequestStates
      <3>4. req' = [req EXCEPT ![r] = x]
        BY <3>1
      <3> HIDE DEF e, x
      <3>5. Growing /\ Exists(i)'
        BY <2>1, <3>1, <3>2, InsertTypes DEF e
      <3>6. req' \in [Requests -> RequestStates] /\ Carried'
        BY <3>2, <3>3, <3>4, <3>5, RequestTypes DEF Sane, Exists
      <3>7. UNCHANGED <<members, bySecret, doubleCount, overlapped>>
        BY <1>4 DEF CreateCustomer
      <3>8. QED
        <4>1. /\ kind' \in [Ids -> {"none", "customer", "admin"}]
              /\ email' \in [Ids -> Emails \cup {NoEmail}]
              /\ knows' \in [Ids -> SUBSET Emails]
              /\ \A j \in Ids : Exists(j)' <=> email'[j] # NoEmail
              /\ \A j, m \in Ids : email'[j] = email'[m] => j = m \/ ~Exists(j)'
          BY <2>1, <3>1, <3>2, InsertTypes DEF e
        <4>2. (members \cup bySecret \cup forProject \cup overlapped)'
                \subseteq {j \in Ids : Exists(j)'}
          BY <3>1, <3>5, <3>7 DEF TypeOK, Growing
        <4>3. doubleCount' \in BOOLEAN
          BY <3>7 DEF TypeOK
        <4>4. QED BY <3>6, <4>1, <4>2, <4>3 DEF TypeOK
    <2>2. CASE Holders(req[r].email) # {}
      BY <1>3, <1>4, <2>2 DEF CreateCustomer, TypeOK
    <2>3. QED BY <2>1, <2>2
  <1>5. ASSUME NEW r \in Requests, AssignProject(r) \/ AddFound(r) PROVE TypeOK' /\ Carried'
    <2>1. req[r].id \in {i \in Ids : Exists(i)}
      BY <1>5 DEF AssignProject, AddFound, At, Carried, Sane, Exists
    <2>2. members \subseteq {i \in Ids : Exists(i)}
      BY DEF TypeOK
    <2>3. QED BY <1>3, <1>5, <2>1, <2>2 DEF AssignProject, AddFound
  <1>6. ASSUME NEW r \in Requests, CountUsers(r) PROVE TypeOK' /\ Carried'
    <2> DEFINE x == [req[r] EXCEPT !.pc = "counted", !.admin = BecomesAdmin(r)]
    <2>1. BecomesAdmin(r) \in BOOLEAN
      BY DEF BecomesAdmin, Nobody, TypeOK, RequestStates
    <2>2. x \in RequestStates /\ x.email = req[r].email /\ x.pc = "counted"
      <3>1. req[r] \in RequestStates
        BY DEF TypeOK
      <3>2. QED BY <2>1, <3>1 DEF RequestStates
    <2>3. req' = [req EXCEPT ![r] = x]
          /\ UNCHANGED <<accounts, members, bySecret, forProject, overlapped>>
      BY <1>6 DEF CountUsers
    <2>4. Sane(x, kind')
      BY <1>6, <2>2 DEF CountUsers, At, Carried, Sane, Exists
    <2>5. doubleCount' \in BOOLEAN
      BY <1>6 DEF CountUsers, TypeOK
    <2> HIDE DEF x
    <2>6. Growing
      BY <1>1, <2>3 DEF accounts
    <2>7. req' \in [Requests -> RequestStates] /\ Carried'
      BY <2>2, <2>3, <2>4, <2>6, RequestTypes
    <2>8. QED BY <2>3, <2>5, <2>7 DEF TypeOK, accounts, Exists
  <1>7. ASSUME NEW r \in Requests, CreateUser(r) PROVE TypeOK' /\ Carried'
    <2>1. CASE Holders(req[r].email) = {}
      <3> DEFINE e == req[r].email
                 k == IF req[r].admin THEN "admin" ELSE "customer"
      <3>1. PICK i \in Ids : /\ ~Exists(i) /\ Insert(i, e, k)
                             /\ bySecret' \subseteq bySecret \cup {i}
        BY <1>7, <2>1 DEF CreateUser
      <3>2. e \in Emails
        BY <1>7 DEF CreateUser, At, Carried, Sane, Exists
      <3>3. k \in {"customer", "admin"}
        OBVIOUS
      <3>4. /\ kind' \in [Ids -> {"none", "customer", "admin"}]
            /\ email' \in [Ids -> Emails \cup {NoEmail}]
            /\ knows' \in [Ids -> SUBSET Emails]
            /\ \A j \in Ids : Exists(j)' <=> email'[j] # NoEmail
            /\ \A j, m \in Ids : email'[j] = email'[m] => j = m \/ ~Exists(j)'
            /\ Growing /\ Exists(i)'
        <4> HIDE DEF e, k
        <4>1. QED BY <2>1, <3>1, <3>2, <3>3, InsertTypes DEF e
      <3>5. /\ req' = [req EXCEPT ![r] = Idle]
            /\ UNCHANGED <<members, forProject, doubleCount, overlapped>>
        BY <1>7 DEF CreateUser
      <3>6. req' \in [Requests -> RequestStates] /\ Carried'
        BY <3>4, <3>5, RequestTypes, IdleTypes, SaneIdle
      <3>7. (members \cup bySecret \cup forProject \cup overlapped)'
              \subseteq {j \in Ids : Exists(j)'}
        BY <3>1, <3>4, <3>5 DEF TypeOK, Growing
      <3>8. doubleCount' \in BOOLEAN
        BY <3>5 DEF TypeOK
      <3>9. QED BY <3>4, <3>6, <3>7, <3>8 DEF TypeOK
    <2>2. CASE Holders(req[r].email) # {}
      BY <1>3, <1>7, <2>2 DEF CreateUser, TypeOK
    <2>3. QED BY <2>1, <2>2
  <1>8. ASSUME NEW r \in Requests, NEW e \in Emails, FindUser(r, e) PROVE TypeOK' /\ Carried'
    <2>1. PICK i \in Holders(e) :
            req' = [req EXCEPT ![r] = Begun("found", i, e, FALSE, FALSE)]
      BY <1>8 DEF FindUser
    <2> DEFINE x == Begun("found", i, e, FALSE, FALSE)
    <2>3. i \in Ids /\ Exists(i)
      BY RegistrationAssumption DEF Holders, TypeOK
    <2>4. UNCHANGED <<accounts, members, bySecret, forProject, doubleCount, overlapped>>
      BY <1>8 DEF FindUser
    <2>5. x \in RequestStates /\ Sane(x, kind')
      <3>1. x \in RequestStates /\ x.id = i /\ x.email = e
        BY <2>3 DEF Begun, RequestStates
      <3>2. QED BY <2>3, <2>4, <3>1 DEF Sane, accounts, Exists
    <2>6. req' = [req EXCEPT ![r] = x]
      BY <2>1
    <2> HIDE DEF x
    <2>7. Growing
      BY <1>1, <2>4 DEF accounts
    <2>8. req' \in [Requests -> RequestStates] /\ Carried'
      BY <2>5, <2>6, <2>7, RequestTypes
    <2>9. QED BY <2>4, <2>8 DEF TypeOK, accounts, Exists
  <1>9. ASSUME NEW r \in Requests, NEW i \in Ids, NEW e \in Emails, AllowChange(r, i, e)
        PROVE  TypeOK' /\ Carried'
    <2> DEFINE x == Begun("allowed", i, e, FALSE, FALSE)
    <2>2. /\ Exists(i) /\ UNCHANGED <<kind, email, members, bySecret, forProject, doubleCount>>
          /\ overlapped' \subseteq overlapped \cup {i}
      BY <1>9 DEF AllowChange, TypeOK
    <2>3. x \in RequestStates /\ Sane(x, kind')
      <3>1. x \in RequestStates /\ x.id = i /\ x.email = e
        BY DEF Begun, RequestStates
      <3>2. QED BY <2>2, <3>1 DEF Sane, Exists
    <2>4. req' = [req EXCEPT ![r] = x]
      BY <1>9 DEF AllowChange
    <2> HIDE DEF x
    <2>5. Growing
      BY <1>1, <2>2
    <2>6. req' \in [Requests -> RequestStates] /\ Carried'
      BY <2>3, <2>4, <2>5, RequestTypes
    <2>7. knows' \in [Ids -> SUBSET Emails]
      BY <1>9 DEF AllowChange, TypeOK
    <2>8. QED BY <2>2, <2>6, <2>7 DEF TypeOK, Exists
  <1>10. ASSUME NEW r \in Requests, UpdateUser(r) PROVE TypeOK' /\ Carried'
    <2> DEFINE i == req[r].id
               e == req[r].email
               x == [req[r] EXCEPT !.pc = "changed"]
    <2>1. i \in Ids /\ Exists(i) /\ e \in Emails
      BY <1>10 DEF UpdateUser, At, Carried, Sane, Exists
    <2>2. UNCHANGED <<kind, knows, members, bySecret, forProject, doubleCount, overlapped>>
      BY <1>10 DEF UpdateUser
    <2>3. CASE Holders(e) \subseteq {i}
      <3>1. email' = [email EXCEPT ![i] = e] /\ req' = [req EXCEPT ![r] = x]
        BY <1>10, <2>3 DEF UpdateUser
      <3>2. x \in RequestStates /\ x.id = i /\ x.email = e /\ x.pc = "changed"
        BY DEF TypeOK, RequestStates
      <3> HIDE DEF i, e, x
      <3>3. Growing
        BY <1>1, <2>2
      <3>4. Sane(x, kind')
        BY <2>1, <2>2, <3>2 DEF Sane, Exists
      <3>5. req' \in [Requests -> RequestStates] /\ Carried'
        BY <3>1, <3>2, <3>3, <3>4, RequestTypes
      <3>6. /\ email' \in [Ids -> Emails \cup {NoEmail}]
            /\ \A j \in Ids : Exists(j)' <=> email'[j] # NoEmail
            /\ \A j, m \in Ids : email'[j] = email'[m] => j = m \/ ~Exists(j)'
        BY RegistrationAssumption, <2>1, <2>2, <2>3, <3>1 DEF TypeOK, Exists, Holders
      <3>7. QED BY <2>2, <3>5, <3>6 DEF TypeOK, Exists
    <2>4. CASE ~(Holders(e) \subseteq {i})
      <3>1. email' = email /\ req' = [req EXCEPT ![r] = Idle]
        BY <1>10, <2>4 DEF UpdateUser
      <3>2. QED BY <1>3, <2>2, <3>1 DEF accounts, TypeOK
    <2>5. QED BY <2>3, <2>4
  <1>11. ASSUME NEW r \in Requests, ConfirmChange(r) PROVE TypeOK' /\ Carried'
    <2>1. /\ UNCHANGED <<kind, email, members, bySecret, forProject, doubleCount, overlapped>>
          /\ req' = [req EXCEPT ![r] = Idle] /\ knows' = [knows EXCEPT ![req[r].id] = {req[r].email}]
          /\ req[r].email \in Emails
      BY <1>11 DEF ConfirmChange, At, Carried, Sane, Exists
    <2>2. Growing
      BY <1>1, <2>1
    <2>3. req' \in [Requests -> RequestStates] /\ Carried'
      BY <2>1, <2>2, RequestTypes, IdleTypes, SaneIdle
    <2>4. QED BY <2>1, <2>3 DEF TypeOK, Exists
  <1>12. ASSUME NEW r \in Requests, Abandon(r) PROVE TypeOK' /\ Carried'
    BY <1>3, <1>12 DEF Abandon, TypeOK
  <1>13. CASE UNCHANGED vars
    BY <1>13 DEF vars, TypeOK, Carried, Sane, Exists
  <1>14. QED
    BY <1>2, <1>4, <1>5, <1>6, <1>7, <1>8, <1>9, <1>10, <1>11, <1>12, <1>13, NextCases

LEMMA BaseInvariant == Spec => [](TypeOK /\ Carried)
  <1>1. Init => TypeOK /\ Carried
    <2>1. Init => TypeOK
      BY IdleTypes, RegistrationAssumption DEF Init, TypeOK, Exists
    <2>2. QED BY <2>1 DEF Init, Carried, Sane, Idle, Begun
  <1>2. TypeOK /\ Carried /\ [Next]_vars => TypeOK' /\ Carried'
    BY TypeStep
  <1>3. QED BY <1>1, <1>2, PTL DEF Spec

\* Every reachable state is well formed, no two accounts share an email, and the
\* account that a request has created, found or been allowed to change exists.
THEOREM TypeCorrect == Spec => [](TypeOK /\ Carried)
  BY BaseInvariant

-----------------------------------------------------------------------------
(* Kinds of accounts. *)

\* What a step does to them: nothing, or an account that did not exist becomes a
\* customer of the project or what a global registration has decided.
Decided(r) == IF req[r].admin THEN "admin" ELSE "customer"

CustomerMade(r, i) ==
  /\ ~Exists(i) /\ kind' = [kind EXCEPT ![i] = "customer"]
  /\ forProject' = forProject \cup {i} /\ bySecret' = bySecret

UserMade(r, i) ==
  /\ At(r, "counted") /\ ~Exists(i) /\ kind' = [kind EXCEPT ![i] = Decided(r)]
  /\ bySecret' = IF req[r].secret THEN bySecret \cup {i} ELSE bySecret
  /\ forProject' = forProject

LEMMA CreateCustomerCases ==
  ASSUME NEW r \in Requests, CreateCustomer(r)
  PROVE  (\E i \in Ids : CustomerMade(r, i)) \/ UNCHANGED <<kind, bySecret, forProject>>
  BY DEF CreateCustomer, CustomerMade, Insert, accounts

LEMMA CreateUserCases ==
  ASSUME NEW r \in Requests, CreateUser(r)
  PROVE  (\E i \in Ids : UserMade(r, i)) \/ UNCHANGED <<kind, bySecret, forProject>>
  BY DEF CreateUser, UserMade, Decided, Insert, accounts

LEMMA KindCases ==
  ASSUME [Next]_vars
  PROVE  \/ \E r \in Requests : CreateCustomer(r)
         \/ \E r \in Requests : CreateUser(r)
         \/ UNCHANGED <<kind, bySecret, forProject>>
  BY NextCases DEF CheckEmail, AssignProject, CountUsers, FindUser, AddFound, AllowChange,
     UpdateUser, ConfirmChange, Abandon, accounts, vars

\* Customers of a project never become administrators.
THEOREM CustomersOnly == Spec => []CustomersStayCustomers
  <1>1. Init => CustomersStayCustomers
    BY DEF Init, CustomersStayCustomers
  <1>2. TypeOK /\ CustomersStayCustomers /\ [Next]_vars => CustomersStayCustomers'
    <2> SUFFICES ASSUME TypeOK, CustomersStayCustomers, [Next]_vars
                 PROVE  CustomersStayCustomers'
      OBVIOUS
    <2> USE DEF TypeOK, CustomersStayCustomers, Exists
    <2>1. ASSUME NEW r \in Requests, NEW i \in Ids, CustomerMade(r, i) PROVE CustomersStayCustomers'
      BY <2>1 DEF CustomerMade
    <2>2. ASSUME NEW r \in Requests, NEW i \in Ids, UserMade(r, i) PROVE CustomersStayCustomers'
      BY <2>2 DEF UserMade
    <2>3. CASE UNCHANGED <<kind, bySecret, forProject>>
      BY <2>3
    <2>4. QED BY <2>1, <2>2, <2>3, KindCases, CreateCustomerCases, CreateUserCases
  <1>3. QED BY <1>1, <1>2, TypeCorrect, PTL DEF Spec

-----------------------------------------------------------------------------
(* The first administrator. *)

\* While counts do not overlap the registration of a first administrator, there
\* is one such registration at most, and while it runs no such administrator.
FirstAlone ==
  /\ \A q, r \in Requests : BecomingFirst(q) /\ BecomingFirst(r) => q = r
  /\ (\E q \in Requests : BecomingFirst(q)) => Bootstrapped = {}
  /\ OnlyFirstIsAdmin

FirstInv == ~doubleCount => FirstAlone

\* A step that neither counts nor creates only takes requests away.
LEMMA QuietFirst ==
  ASSUME FirstAlone, Bootstrapped' = Bootstrapped,
         \A q \in Requests : BecomingFirst(q)' => BecomingFirst(q)
  PROVE  FirstAlone'
  BY DEF FirstAlone, OnlyFirstIsAdmin

\* Only a count makes a request become first.
LEMMA FirstShape ==
  ASSUME TypeOK, [Next]_vars, ~(\E r \in Requests : CountUsers(r))
  PROVE  \A q \in Requests : BecomingFirst(q)' => BecomingFirst(q)
  <1> USE DEF BecomingFirst, At, TypeOK
  <1>1. ASSUME NEW r \in Requests, req' = [req EXCEPT ![r] = Idle]
        PROVE  \A q \in Requests : BecomingFirst(q)' => BecomingFirst(q)
    BY <1>1 DEF Idle, Begun
  <1>2. ASSUME NEW r \in Requests, CreateCustomer(r)
        PROVE  \A q \in Requests : BecomingFirst(q)' => BecomingFirst(q)
    <2>1. req' = [req EXCEPT ![r] = Idle] \/ \E i : req' = [req EXCEPT ![r] = [@ EXCEPT !.pc = "created", !.id = i]]
      BY <1>2 DEF CreateCustomer
    <2>2. ASSUME NEW i, req' = [req EXCEPT ![r] = [@ EXCEPT !.pc = "created", !.id = i]]
          PROVE  \A q \in Requests : BecomingFirst(q)' => BecomingFirst(q)
      <3>1. req'[r].pc = "created"
        <4>1. req[r] \in RequestStates /\ req'[r] = [req[r] EXCEPT !.pc = "created", !.id = i]
          BY <2>2
        <4>2. QED BY <4>1 DEF RequestStates
      <3>2. \A q \in Requests \ {r} : req'[q] = req[q]
        BY <2>2
      <3>3. QED BY <3>1, <3>2
    <2>3. QED BY <1>1, <2>1, <2>2
  <1>3. ASSUME NEW r \in Requests, UpdateUser(r)
        PROVE  \A q \in Requests : BecomingFirst(q)' => BecomingFirst(q)
    <2>1. req' = [req EXCEPT ![r] = Idle] \/ req' = [req EXCEPT ![r] = [@ EXCEPT !.pc = "changed"]]
      BY <1>3 DEF UpdateUser
    <2>2. QED BY <1>1, <2>1 DEF RequestStates
  <1>4. ASSUME NEW r \in Requests, NEW l \in {"free", "found", "allowed"}, NEW i, NEW e, NEW p, NEW s,
               req' = [req EXCEPT ![r] = Begun(l, i, e, p, s)]
        PROVE  \A q \in Requests : BecomingFirst(q)' => BecomingFirst(q)
    BY <1>4 DEF Begun
  <1>5. ASSUME NEW r \in Requests, NEW e \in Emails, NEW p \in BOOLEAN, NEW s \in BOOLEAN,
               CheckEmail(r, e, p, s)
        PROVE  \A q \in Requests : BecomingFirst(q)' => BecomingFirst(q)
    BY <1>4, <1>5 DEF CheckEmail
  <1>6. ASSUME NEW r \in Requests, NEW e \in Emails, FindUser(r, e)
        PROVE  \A q \in Requests : BecomingFirst(q)' => BecomingFirst(q)
    <2>1. PICK i : req' = [req EXCEPT ![r] = Begun("found", i, e, FALSE, FALSE)]
      BY <1>6 DEF FindUser
    <2>2. QED BY <2>1 DEF Begun
  <1>7. ASSUME NEW r \in Requests, NEW i \in Ids, NEW e \in Emails, AllowChange(r, i, e)
        PROVE  \A q \in Requests : BecomingFirst(q)' => BecomingFirst(q)
    BY <1>7 DEF AllowChange, Begun
  <1>8. ASSUME NEW r \in Requests,
               AssignProject(r) \/ CreateUser(r) \/ AddFound(r) \/ ConfirmChange(r) \/ Abandon(r)
        PROVE  \A q \in Requests : BecomingFirst(q)' => BecomingFirst(q)
    BY <1>1, <1>8 DEF AssignProject, CreateUser, AddFound, ConfirmChange, Abandon
  <1>9. CASE UNCHANGED vars
    BY <1>9 DEF vars
  <1>10. QED
    BY <1>2, <1>3, <1>5, <1>6, <1>7, <1>8, <1>9, NextCases

LEMMA FirstStep ==
  ASSUME TypeOK, FirstAlone, ~doubleCount', [Next]_vars
  PROVE  FirstAlone'
  <1>1. ASSUME NEW r \in Requests, CountUsers(r) PROVE FirstAlone'
    <2>1. \A q \in Requests : ~BecomingFirst(q)
      BY <1>1 DEF CountUsers
    <2>2. Bootstrapped' = Bootstrapped
      BY <1>1 DEF CountUsers, Bootstrapped, accounts
    <2>3. \A q \in Requests : BecomingFirst(q)' => q = r /\ Bootstrapped = {}
      <3>1. req' = [req EXCEPT ![r] = [@ EXCEPT !.pc = "counted", !.admin = BecomesAdmin(r)]]
        BY <1>1 DEF CountUsers
      <3>2. \A q \in Requests \ {r} : req'[q] = req[q]
        BY <3>1 DEF TypeOK
      <3>3. req'[r].admin = BecomesAdmin(r) /\ req'[r].secret = req[r].secret
        <4>1. req[r] \in RequestStates
          BY DEF TypeOK
        <4>2. req'[r] = [req[r] EXCEPT !.pc = "counted", !.admin = BecomesAdmin(r)]
          BY <3>1 DEF TypeOK
        <4>3. QED BY <4>1, <4>2 DEF RequestStates
      <3>4. BecomingFirst(r)' => Nobody
        BY <3>3 DEF BecomingFirst, BecomesAdmin
      <3>5. Nobody => Bootstrapped = {}
        BY DEF Nobody, Bootstrapped, Exists
      <3>6. QED BY <2>1, <3>2, <3>4, <3>5 DEF BecomingFirst, At
    <2>4. QED BY <2>2, <2>3 DEF FirstAlone, OnlyFirstIsAdmin
  <1>2. CASE ~(\E r \in Requests : CountUsers(r))
    <2>1. \A q \in Requests : BecomingFirst(q)' => BecomingFirst(q)
      BY <1>2, FirstShape
    <2>2. ASSUME NEW r \in Requests, NEW i \in Ids, CustomerMade(r, i) PROVE FirstAlone'
      <3>1. Bootstrapped' = Bootstrapped
        BY <2>2 DEF CustomerMade, Bootstrapped, TypeOK, Exists
      <3>2. QED BY <2>1, <3>1, QuietFirst
    <2>3. ASSUME NEW r \in Requests, NEW i \in Ids, CreateUser(r), UserMade(r, i) PROVE FirstAlone'
      <3>1. CASE BecomingFirst(r)
        <4>1. Bootstrapped = {} /\ \A q \in Requests : BecomingFirst(q) => q = r
          BY <3>1 DEF FirstAlone
        <4>2. ~BecomingFirst(r)'
          BY <2>3 DEF CreateUser, BecomingFirst, At, Idle, Begun, TypeOK
        <4>3. \A j \in Bootstrapped' : j = i
          BY <2>3, <4>1 DEF UserMade, Bootstrapped, TypeOK
        <4>4. QED BY <2>1, <4>1, <4>2, <4>3 DEF FirstAlone, OnlyFirstIsAdmin
      <3>2. CASE ~BecomingFirst(r)
        <4>1. ~req[r].admin \/ req[r].secret
          BY <2>3, <3>2 DEF UserMade, BecomingFirst
        <4>2. Bootstrapped' = Bootstrapped
          BY <2>3, <4>1 DEF UserMade, Decided, Bootstrapped, TypeOK, Exists
        <4>3. QED BY <2>1, <4>2, QuietFirst
      <3>3. QED BY <3>1, <3>2
    <2>4. CASE UNCHANGED <<kind, bySecret, forProject>>
      <3>1. Bootstrapped' = Bootstrapped
        BY <2>4 DEF Bootstrapped
      <3>2. QED BY <2>1, <3>1, QuietFirst
    <2>5. QED BY <2>2, <2>3, <2>4, KindCases, CreateCustomerCases, CreateUserCases
  <1>3. QED BY <1>1, <1>2

\* Without overlapping counts there is at most one administrator without the secret.
THEOREM OneFirst == Spec => []OneBootstrapAdmin
  <1>1. Init => FirstInv
    BY DEF Init, FirstInv, FirstAlone, BecomingFirst, At, Idle, Begun, Bootstrapped, OnlyFirstIsAdmin
  <1>2. TypeOK /\ FirstInv /\ [Next]_vars => FirstInv'
    <2>1. [Next]_vars => (doubleCount => doubleCount')
      BY NextCases DEF CheckEmail, CreateCustomer, AssignProject, CountUsers, CreateUser, FindUser,
         AddFound, AllowChange, UpdateUser, ConfirmChange, Abandon, vars
    <2>2. QED BY <2>1, FirstStep DEF FirstInv
  <1>3. FirstInv => OneBootstrapAdmin
    BY DEF FirstInv, FirstAlone, OneBootstrapAdmin
  <1>4. QED BY <1>1, <1>2, <1>3, TypeCorrect, PTL DEF Spec

\* Somebody has an account, and no registration that has counted before is still
\* about to insert a first administrator.
BootstrapOver == ~Nobody /\ \A q \in Requests : ~BecomingFirst(q)

\* Once the first accounts are there the door is closed for good: whatever races
\* follow, nobody becomes an administrator without the secret any more.
THEOREM BootstrapCloses ==
  ASSUME NEW i \in Ids
  PROVE  Spec => [](BootstrapOver /\ i \notin Bootstrapped => [](i \notin Bootstrapped))
  <1> DEFINE Closed == BootstrapOver /\ i \notin Bootstrapped
  <1>1. TypeOK /\ Closed /\ [Next]_vars => Closed'
    <2> SUFFICES ASSUME TypeOK, Closed, [Next]_vars PROVE Closed'
      OBVIOUS
    <2>1. \A q \in Requests : ~BecomingFirst(q)'
      <3>1. ASSUME NEW r \in Requests, CountUsers(r) PROVE \A q \in Requests : ~BecomingFirst(q)'
        <4>1. req' = [req EXCEPT ![r] = [@ EXCEPT !.pc = "counted", !.admin = BecomesAdmin(r)]]
          BY <3>1 DEF CountUsers
        <4>2. \A q \in Requests \ {r} : req'[q] = req[q]
          BY <4>1 DEF TypeOK
        <4>3. req'[r].admin = BecomesAdmin(r) /\ req'[r].secret = req[r].secret
          <5>1. req[r] \in RequestStates /\ req'[r] = [req[r] EXCEPT !.pc = "counted", !.admin = BecomesAdmin(r)]
            BY <4>1 DEF TypeOK
          <5>2. QED BY <5>1 DEF RequestStates
        <4>4. BecomingFirst(r)' => Nobody
          BY <4>3 DEF BecomingFirst, BecomesAdmin
        <4>5. QED BY <4>2, <4>4 DEF BootstrapOver, BecomingFirst, At
      <3>2. CASE ~(\E r \in Requests : CountUsers(r))
        BY <3>2, FirstShape DEF BootstrapOver
      <3>3. QED BY <3>1, <3>2
    <2>2. ASSUME NEW r \in Requests, NEW j \in Ids, CustomerMade(r, j)
          PROVE  ~Nobody' /\ i \notin Bootstrapped'
      BY <2>2 DEF BootstrapOver, CustomerMade, Nobody, Bootstrapped, Exists, TypeOK
    <2>3. ASSUME NEW r \in Requests, NEW j \in Ids, UserMade(r, j)
          PROVE  ~Nobody' /\ i \notin Bootstrapped'
      <3>1. ~req[r].admin \/ req[r].secret
        BY <2>3 DEF UserMade, BootstrapOver, BecomingFirst
      <3>2. ~Nobody'
        BY <2>3 DEF UserMade, Decided, BootstrapOver, Nobody, Exists, TypeOK
      <3>3. i \notin Bootstrapped'
        BY <2>3, <3>1 DEF UserMade, Decided, BootstrapOver, Bootstrapped, Exists, TypeOK
      <3>4. QED BY <3>2, <3>3
    <2>4. ASSUME UNCHANGED <<kind, bySecret, forProject>>
          PROVE  ~Nobody' /\ i \notin Bootstrapped'
      <3>1. kind' = kind /\ bySecret' = bySecret
        BY <2>4
      <3>2. (Nobody' <=> Nobody) /\ Bootstrapped' = Bootstrapped
        BY <3>1 DEF Nobody, Bootstrapped, Exists
      <3>3. QED BY <3>2 DEF BootstrapOver
    <2>5. ~Nobody' /\ i \notin Bootstrapped'
      <3>1. ASSUME NEW r \in Requests, CreateCustomer(r) PROVE ~Nobody' /\ i \notin Bootstrapped'
        BY <2>2, <2>4, <3>1, CreateCustomerCases
      <3>2. ASSUME NEW r \in Requests, CreateUser(r) PROVE ~Nobody' /\ i \notin Bootstrapped'
        BY <2>3, <2>4, <3>2, CreateUserCases
      <3>3. QED BY <2>4, <3>1, <3>2, KindCases
    <2>6. QED BY <2>1, <2>5 DEF BootstrapOver
  <1>2. Closed => i \notin Bootstrapped
    OBVIOUS
  <1>3. QED BY <1>1, <1>2, TypeCorrect, PTL DEF Spec

\* The overlap is the whole cause: a server that finished each request before the
\* next would do what the comment at auth_handlers.go:127 says.
THEOREM OneAtATime ==
  ASSUME \A q, r \in Requests : q = r
  PROVE  Spec => []OnlyFirstIsAdmin
  <1>1. Init => ~doubleCount
    BY DEF Init
  <1>2. ~doubleCount /\ [Next]_vars => ~doubleCount'
    <2>1. ASSUME NEW r \in Requests, CountUsers(r), ~doubleCount PROVE ~doubleCount'
      <3>1. \A q \in Requests : At(q, "free")
        BY <2>1 DEF CountUsers
      <3>2. QED BY <2>1, <3>1 DEF CountUsers, BecomingFirst, At
    <2>2. QED
      BY <2>1, NextCases DEF CheckEmail, CreateCustomer, AssignProject, CreateUser, FindUser,
         AddFound, AllowChange, UpdateUser, ConfirmChange, Abandon, vars
  <1>3. QED BY <1>1, <1>2, OneFirst, PTL DEF Spec, OneBootstrapAdmin

-----------------------------------------------------------------------------
(* The emails of the holders. *)

\* The holder of i knows his email; one change of it at most is under way, for
\* an email he knows, and once it is stored that is the email of i.
Known(i) ==
  /\ Exists(i) => email[i] \in knows[i]
  /\ \A q, r \in Requests : Changing(q, i) /\ Changing(r, i) => q = r
  /\ \A r \in Requests : Changing(r, i) =>
       req[r].email \in knows[i] /\ (At(r, "changed") => email[i] = req[r].email)

Informed == \A i \in Ids \ overlapped : Known(i)

\* Nothing a holder has to know changes when a request ends, or begins or goes on
\* as anything but a change of the profile.
LEMMA ElsewhereKnown ==
  ASSUME TypeOK, NEW i \in Ids, Known(i),
         Exists(i)' <=> Exists(i), email'[i] = email[i], knows'[i] = knows[i],
         NEW r \in Requests, \A q \in Requests \ {r} : req'[q] = req[q], ~Changing(r, i)'
  PROVE  Known(i)'
  BY DEF Known, Changing, At, Exists

\* The requests that are no change of the profile after their step.
LEMMA OtherRequests ==
  ASSUME TypeOK, NEW r \in Requests,
         \/ req' = [req EXCEPT ![r] = Idle]
         \/ \E i, e, p, s : req' = [req EXCEPT ![r] = Begun("free", i, e, p, s)]
         \/ \E i, e, p, s : req' = [req EXCEPT ![r] = Begun("found", i, e, p, s)]
         \/ \E i : req' = [req EXCEPT ![r] = [@ EXCEPT !.pc = "created", !.id = i]]
         \/ \E a : req' = [req EXCEPT ![r] = [@ EXCEPT !.pc = "counted", !.admin = a]]
  PROVE  /\ \A q \in Requests \ {r} : req'[q] = req[q]
         /\ \A i \in Ids : ~Changing(r, i)'
  <1>1. req[r] \in RequestStates
    BY DEF TypeOK
  <1>2. req'[r].pc \notin {"allowed", "changed"}
    <2>1. CASE req' = [req EXCEPT ![r] = Idle]
      BY <2>1 DEF TypeOK, Idle, Begun
    <2>2. ASSUME NEW l \in {"free", "found"}, NEW i, NEW e, NEW p, NEW s,
                 req' = [req EXCEPT ![r] = Begun(l, i, e, p, s)]
          PROVE  req'[r].pc \notin {"allowed", "changed"}
      BY <2>2 DEF TypeOK, Begun
    <2>3. ASSUME NEW i, req' = [req EXCEPT ![r] = [@ EXCEPT !.pc = "created", !.id = i]]
          PROVE  req'[r].pc \notin {"allowed", "changed"}
      <3>1. req'[r] = [req[r] EXCEPT !.pc = "created", !.id = i]
        BY <2>3 DEF TypeOK
      <3>2. QED BY <1>1, <3>1 DEF RequestStates
    <2>4. ASSUME NEW a, req' = [req EXCEPT ![r] = [@ EXCEPT !.pc = "counted", !.admin = a]]
          PROVE  req'[r].pc \notin {"allowed", "changed"}
      <3>1. req'[r] = [req[r] EXCEPT !.pc = "counted", !.admin = a]
        BY <2>4 DEF TypeOK
      <3>2. QED BY <1>1, <3>1 DEF RequestStates
    <2>5. QED BY <2>1, <2>2, <2>3, <2>4
  <1>3. \A q \in Requests \ {r} : req'[q] = req[q]
    BY DEF TypeOK
  <1>4. QED BY <1>2, <1>3 DEF Changing

\* A new account belongs to a holder who knows its email, and no request is
\* about to change it yet.
LEMMA InsertKnown ==
  ASSUME TypeOK, Carried, Informed, NEW r \in Requests, NEW i \in Ids, ~Exists(i),
         NEW e \in Emails, Holders(e) = {}, NEW k \in {"customer", "admin"}, Insert(i, e, k),
         UNCHANGED overlapped, \A q \in Requests \ {r} : req'[q] = req[q],
         \A j \in Ids : ~Changing(r, j)'
  PROVE  Informed'
  <1> SUFFICES ASSUME NEW j \in Ids \ overlapped PROVE Known(j)'
    BY DEF Informed
  <1>1. CASE j = i
    <2>1. \A q \in Requests : ~Changing(q, i)'
      BY DEF Carried, Sane, Changing, Exists
    <2>2. email'[i] \in knows'[i]
      BY InsertTypes
    <2>3. QED BY <1>1, <2>1, <2>2 DEF Known
  <1>2. CASE j # i
    <2>1. (Exists(j)' <=> Exists(j)) /\ email'[j] = email[j] /\ knows'[j] = knows[j]
      BY <1>2, InsertTypes DEF Exists
    <2>2. Known(j)
      BY DEF Informed
    <2>3. QED BY <2>1, <2>2, ElsewhereKnown
  <1>3. QED BY <1>1, <1>2

LEMMA InformedStep ==
  ASSUME TypeOK, Carried, Informed, [Next]_vars
  PROVE  Informed'
  <1>1. ASSUME NEW r \in Requests, UNCHANGED <<accounts, overlapped>>,
               \A q \in Requests \ {r} : req'[q] = req[q], \A i \in Ids : ~Changing(r, i)'
        PROVE  Informed'
    <2>1. \A i \in Ids : (Exists(i)' <=> Exists(i)) /\ email'[i] = email[i] /\ knows'[i] = knows[i]
      BY <1>1 DEF accounts, Exists
    <2>2. \A i \in Ids \ overlapped : Known(i)'
      BY <1>1, <2>1, ElsewhereKnown DEF Informed
    <2>3. QED BY <1>1, <2>2 DEF Informed
  <1>2. ASSUME NEW r \in Requests, NEW e \in Emails, NEW p \in BOOLEAN, NEW s \in BOOLEAN,
               CheckEmail(r, e, p, s)
        PROVE  Informed'
    BY <1>1, <1>2, OtherRequests DEF CheckEmail
  <1>3. ASSUME NEW r \in Requests, CreateCustomer(r) PROVE Informed'
    <2> DEFINE e == req[r].email
    <2>1. e \in Emails
      BY <1>3 DEF CreateCustomer, At, Carried, Sane
    <2>2. CASE Holders(e) = {}
      <3>1. PICK i \in Ids : /\ ~Exists(i) /\ Insert(i, e, "customer")
                             /\ req' = [req EXCEPT ![r] = [@ EXCEPT !.pc = "created", !.id = i]]
        BY <1>3, <2>2 DEF CreateCustomer
      <3>2. UNCHANGED overlapped
        BY <1>3 DEF CreateCustomer
      <3>3. /\ \A q \in Requests \ {r} : req'[q] = req[q]
            /\ \A j \in Ids : ~Changing(r, j)'
        BY <3>1, OtherRequests
      <3> HIDE DEF e
      <3>4. QED BY <2>1, <2>2, <3>1, <3>2, <3>3, InsertKnown
    <2>3. CASE Holders(e) # {}
      BY <1>1, <1>3, <2>3, OtherRequests DEF CreateCustomer
    <2>4. QED BY <2>2, <2>3
  <1>4. ASSUME NEW r \in Requests, AssignProject(r) \/ AddFound(r) \/ Abandon(r) PROVE Informed'
    BY <1>1, <1>4, OtherRequests DEF AssignProject, AddFound, Abandon
  <1>5. ASSUME NEW r \in Requests, CountUsers(r) PROVE Informed'
    BY <1>1, <1>5, OtherRequests DEF CountUsers
  <1>6. ASSUME NEW r \in Requests, CreateUser(r) PROVE Informed'
    <2> DEFINE e == req[r].email
    <2>1. e \in Emails
      BY <1>6 DEF CreateUser, At, Carried, Sane
    <2>2. /\ req' = [req EXCEPT ![r] = Idle] /\ UNCHANGED overlapped
          /\ \A q \in Requests \ {r} : req'[q] = req[q]
          /\ \A j \in Ids : ~Changing(r, j)'
      BY <1>6, OtherRequests DEF CreateUser
    <2>3. CASE Holders(e) = {}
      <3>1. PICK i \in Ids : ~Exists(i) /\ Insert(i, e, IF req[r].admin THEN "admin" ELSE "customer")
        BY <1>6, <2>3 DEF CreateUser
      <3> HIDE DEF e
      <3>2. QED BY <2>1, <2>2, <2>3, <3>1, InsertKnown
    <2>4. CASE Holders(e) # {}
      BY <1>1, <1>6, <2>2, <2>4 DEF CreateUser
    <2>5. QED BY <2>3, <2>4
  <1>7. ASSUME NEW r \in Requests, NEW e \in Emails, FindUser(r, e) PROVE Informed'
    BY <1>1, <1>7, OtherRequests DEF FindUser
  <1>8. ASSUME NEW r \in Requests, NEW i \in Ids, NEW e \in Emails, AllowChange(r, i, e)
        PROVE  Informed'
    <2> SUFFICES ASSUME NEW j \in Ids \ overlapped' PROVE Known(j)'
      BY DEF Informed
    <2>1. /\ req'[r] = Begun("allowed", i, e, FALSE, FALSE)
          /\ \A q \in Requests \ {r} : req'[q] = req[q]
          /\ knows'[i] = knows[i] \cup {e}
          /\ \A m \in Ids \ {i} : knows'[m] = knows[m]
          /\ UNCHANGED <<kind, email>> /\ At(r, "idle")
      BY <1>8 DEF AllowChange, TypeOK
    <2>2. Known(j)
      BY <1>8 DEF AllowChange, Informed
    <2>3. req'[r].pc = "allowed" /\ req'[r].id = i /\ req'[r].email = e
      BY <2>1 DEF Begun
    <2>4. CASE j = i
      <3>1. \A q \in Requests : ~Changing(q, i)
        BY <1>8, <2>4 DEF AllowChange
      <3>2. \A q \in Requests : Changing(q, i)' => q = r
        BY <2>1, <3>1 DEF Changing
      <3>3. QED BY <2>1, <2>2, <2>3, <2>4, <3>2 DEF Known, At, Exists
    <2>5. CASE j # i
      BY <2>1, <2>2, <2>3, <2>5, ElsewhereKnown DEF Changing, Exists
    <2>6. QED BY <2>4, <2>5
  <1>9. ASSUME NEW r \in Requests, UpdateUser(r) PROVE Informed'
    <2>1. PICK i \in Ids, e \in Emails : /\ i = req[r].id /\ e = req[r].email /\ Exists(i)
                                        /\ Changing(r, i) /\ UNCHANGED <<kind, knows, overlapped>>
      BY <1>9 DEF UpdateUser, At, Carried, Sane, Exists, Changing
    <2>2. CASE Holders(e) \subseteq {i}
      <3>1. email' = [email EXCEPT ![i] = e] /\ req' = [req EXCEPT ![r] = [@ EXCEPT !.pc = "changed"]]
        BY <1>9, <2>1, <2>2 DEF UpdateUser
      <3>2. /\ req'[r].pc = "changed" /\ req'[r].id = i /\ req'[r].email = e
            /\ \A q \in Requests \ {r} : req'[q] = req[q]
        <4>1. req[r] \in RequestStates /\ req'[r] = [req[r] EXCEPT !.pc = "changed"]
          BY <3>1 DEF TypeOK
        <4>2. QED BY <2>1, <3>1, <4>1 DEF RequestStates, TypeOK
      <3>3. email'[i] = e /\ \A j \in Ids \ {i} : email'[j] = email[j]
        BY <2>1, <3>1 DEF TypeOK
      <3>4. ASSUME NEW j \in Ids \ overlapped, j = i PROVE Known(j)'
        <4>1. Known(i) /\ e \in knows[i]
          BY <2>1, <3>4 DEF Informed, Known
        <4>2. \A q \in Requests : Changing(q, i)' => q = r
          BY <2>1, <3>2, <4>1 DEF Known, Changing
        <4>3. QED BY <2>1, <3>2, <3>3, <3>4, <4>1, <4>2 DEF Known, At
      <3>5. ASSUME NEW j \in Ids \ overlapped, j # i PROVE Known(j)'
        <4>1. Known(j) /\ ~Changing(r, j)'
          BY <3>2, <3>5 DEF Informed, Changing
        <4>2. QED BY <2>1, <3>2, <3>3, <3>5, <4>1, ElsewhereKnown DEF Exists
      <3>6. QED BY <2>1, <3>4, <3>5 DEF Informed
    <2>3. CASE ~(Holders(e) \subseteq {i})
      BY <1>1, <1>9, <2>1, <2>3, OtherRequests DEF UpdateUser, accounts
    <2>4. QED BY <2>2, <2>3
  <1>10. ASSUME NEW r \in Requests, ConfirmChange(r) PROVE Informed'
    <2>1. PICK i \in Ids :
          /\ i = req[r].id /\ Changing(r, i) /\ At(r, "changed")
          /\ UNCHANGED <<kind, email, overlapped>> /\ req' = [req EXCEPT ![r] = Idle]
          /\ knows' = [knows EXCEPT ![i] = {req[r].email}]
      BY <1>10 DEF ConfirmChange, At, Carried, Sane, Changing
    <2>2. /\ \A q \in Requests \ {r} : req'[q] = req[q]
          /\ \A j \in Ids : ~Changing(r, j)'
      BY <2>1, OtherRequests
    <2>3. knows'[i] = {req[r].email} /\ \A j \in Ids \ {i} : knows'[j] = knows[j]
      BY <2>1 DEF TypeOK
    <2>4. ASSUME NEW j \in Ids \ overlapped, j = i PROVE Known(j)'
      <3>1. Known(i)
        BY <2>4 DEF Informed
      <3>2. \A q \in Requests : ~Changing(q, i)'
        BY <2>1, <2>2, <3>1 DEF Known, Changing
      <3>3. email'[i] = req[r].email
        BY <2>1, <3>1 DEF Known
      <3>4. QED BY <2>3, <2>4, <3>2, <3>3 DEF Known
    <2>5. ASSUME NEW j \in Ids \ overlapped, j # i PROVE Known(j)'
      BY <2>1, <2>2, <2>3, <2>5, ElsewhereKnown DEF Informed, Exists
    <2>6. QED BY <2>1, <2>4, <2>5 DEF Informed
  <1>11. CASE UNCHANGED vars
    BY <1>11 DEF vars, Informed, Known, Exists, Changing, At
  <1>12. QED
    BY <1>2, <1>3, <1>4, <1>5, <1>6, <1>7, <1>8, <1>9, <1>10, <1>11, NextCases

\* The holder of an account knows its email, unless his own changes overlap.
THEOREM HolderInformed == Spec => []HolderKnowsEmail
  <1>1. Init => Informed
    BY DEF Init, Informed, Known, Exists, Changing, At, Idle, Begun
  <1>2. Informed => HolderKnowsEmail
    BY DEF Informed, Known, HolderKnowsEmail
  <1>3. TypeOK /\ Carried /\ Informed /\ [Next]_vars => Informed'
    BY InformedStep
  <1>4. QED BY <1>1, <1>2, <1>3, BaseInvariant, PTL DEF Spec
=============================================================================
