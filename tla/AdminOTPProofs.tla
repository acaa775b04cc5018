--------------------------- MODULE AdminOTPProofs ---------------------------
(***************************************************************************)
(* Proofs about the global second factor of an administrator, for any      *)
(* number of tabs, concurrent requests and secrets.                        *)
(***************************************************************************)
EXTENDS AdminOTP, TLAPS

-----------------------------------------------------------------------------
(* Types. *)

Labels == {"idle", "loadSent", "loaded", "setupSent", "setupStored", "verifySent", "codeOk",
           "confirmed", "disableSent", "disabling", "disabled"}

\* How the request table changes: a request moves on, starts, or loses its page.
LEMMA GotoTypes ==
  ASSUME req \in [Requests -> RequestStates], NEW r \in Requests, NEW l \in Labels
  PROVE  Goto(r, l) \in [Requests -> RequestStates]
  <1>1. Idle \in RequestStates
    BY DEF Idle, RequestStates
  <1>2. [req[r] EXCEPT !.pc = l] \in RequestStates
    BY DEF RequestStates, Labels
  <1>3. QED BY <1>1, <1>2 DEF Goto

LEMMA SentTypes ==
  ASSUME NEW l \in Labels, NEW t \in Tabs, NEW s \in Secrets \cup {NoSecret}
  PROVE  Sent(l, t, s) \in RequestStates
  BY DEF Sent, RequestStates, Labels

LEMMA DetachedTypes ==
  ASSUME NEW rs \in [Requests -> RequestStates], NEW t
  PROVE  Detached(rs, t) \in [Requests -> RequestStates]
  BY DEF Detached, RequestStates

\* What the helpers leave alone.
LEMMA GotoShape ==
  ASSUME req \in [Requests -> RequestStates], NEW r \in Requests, NEW l \in Labels
  PROVE  /\ Goto(r, l)[r].pc = l
         /\ l # "idle" => /\ Goto(r, l)[r].secret = req[r].secret
                          /\ Goto(r, l)[r].on = req[r].on
         /\ \A q \in Requests \ {r} : Goto(r, l)[q] = req[q]
  BY DEF Goto, Idle, RequestStates, Labels

LEMMA DetachedShape ==
  ASSUME NEW rs \in [Requests -> RequestStates], NEW t, NEW q \in Requests
  PROVE  /\ Detached(rs, t)[q].pc = rs[q].pc
         /\ Detached(rs, t)[q].secret = rs[q].secret
         /\ Detached(rs, t)[q].on = rs[q].on
  BY DEF Detached, RequestStates

\* Every step of the system is one of these.
LEMMA NextCases ==
  ASSUME [Next]_vars
  PROVE  \/ \E r \in Requests, t \in Tabs : Open(r, t)
         \/ \E r \in Requests, t \in Tabs : PressSetup(r, t)
         \/ \E r \in Requests, t \in Tabs : PressVerify(r, t)
         \/ \E r \in Requests, t \in Tabs : PressDisable(r, t)
         \/ \E t \in Tabs : Leave(t)
         \/ \E r \in Requests : ReadProfile(r)
         \/ \E r \in Requests : ShowProfile(r)
         \/ \E r \in Requests : Setup(r)
         \/ \E r \in Requests : ShowSecret(r)
         \/ \E r \in Requests : CheckCode(r)
         \/ \E r \in Requests : EnableOTP(r)
         \/ \E r \in Requests : CheckDisable(r)
         \/ \E r \in Requests : DisableOTP(r)
         \/ \E r \in Requests : Succeed(r)
         \/ \E r \in Requests : Abandon(r)
         \/ UNCHANGED vars
  BY DEF Next, Browse, Serve

\* A press sends a request that carries nothing, or the code of a secret on the device.
LEMMA PressShape ==
  ASSUME NEW r \in Requests, NEW t \in Tabs,
         PressSetup(r, t) \/ PressVerify(r, t) \/ PressDisable(r, t)
  PROVE  \E l \in {"setupSent", "verifySent", "disableSent"}, s \in device \cup {NoSecret} :
           /\ At(r, "idle")
           /\ req' = [req EXCEPT ![r] = Sent(l, t, s)]
           /\ l # "setupSent" => s \in device
           /\ l = "setupSent" => page[t] = "setup"
           /\ l = "verifySent" => page[t] = "verify"
           /\ orderly' => orderly /\ Quiet /\ \A u \in Tabs \ {t} : page[u] = "blank"
           /\ orderly' \in BOOLEAN
           /\ UNCHANGED <<enabled, secret, generated, device, page>>
  BY DEF PressSetup, PressVerify, PressDisable, Send

\* What a request carries: a secret that is still to be shown was generated, and
\* a code comes from the device.
Carried ==
  \A r \in Requests :
    /\ req[r].pc = "setupStored" => req[r].secret \in generated
    /\ req[r].pc \in {"verifySent", "codeOk", "disableSent", "disabling"} => req[r].secret \in device

LEMMA TypeStep ==
  ASSUME TypeOK, Carried, [Next]_vars
  PROVE  TypeOK'
  <1> USE DEF TypeOK
  <1>1. ASSUME NEW r \in Requests, NEW t \in Tabs, Open(r, t) PROVE TypeOK'
    <2>1. req' \in [Requests -> RequestStates]
      <3>1. Sent("loadSent", t, NoSecret) \in RequestStates
        BY SentTypes DEF Labels
      <3>2. Detached(req, t) \in [Requests -> RequestStates]
        BY DetachedTypes
      <3>3. QED BY <1>1, <3>1, <3>2 DEF Open, Send
    <2>2. orderly' \in BOOLEAN
      BY <1>1 DEF Open, Send
    <2>3. QED BY <1>1, <2>1, <2>2 DEF Open, Send
  <1>2. ASSUME NEW r \in Requests, NEW t \in Tabs,
               PressSetup(r, t) \/ PressVerify(r, t) \/ PressDisable(r, t)
        PROVE  TypeOK'
    <2>1. PICK l \in {"setupSent", "verifySent", "disableSent"}, s \in device \cup {NoSecret} :
            /\ req' = [req EXCEPT ![r] = Sent(l, t, s)]
            /\ orderly' \in BOOLEAN
            /\ UNCHANGED <<enabled, secret, generated, device, page>>
      BY <1>2, PressShape
    <2>2. Sent(l, t, s) \in RequestStates
      BY SentTypes DEF Labels
    <2>3. req' \in [Requests -> RequestStates]
      BY <2>1, <2>2
    <2>4. QED BY <2>1, <2>3
  <1>3. ASSUME NEW t \in Tabs, Leave(t) PROVE TypeOK'
    BY <1>3, DetachedTypes DEF Leave
  <1>4. ASSUME NEW r \in Requests, ReadProfile(r) PROVE TypeOK'
    <2>1. [req[r] EXCEPT !.pc = "loaded", !.on = enabled] \in RequestStates
      BY DEF RequestStates
    <2>2. req' \in [Requests -> RequestStates]
      BY <1>4, <2>1 DEF ReadProfile
    <2>3. QED BY <1>4, <2>2 DEF ReadProfile
  <1>5. ASSUME NEW r \in Requests, ShowProfile(r) PROVE TypeOK'
    BY <1>5, GotoTypes DEF ShowProfile, Labels
  <1>6. ASSUME NEW r \in Requests, Setup(r) PROVE TypeOK'
    <2>1. PICK s \in Secrets \ generated :
            /\ generated' = generated \cup {s}
            /\ secret' = s
            /\ req' = [req EXCEPT ![r] = [@ EXCEPT !.pc = "setupStored", !.secret = s]]
      BY <1>6 DEF Setup
    <2>2. [req[r] EXCEPT !.pc = "setupStored", !.secret = s] \in RequestStates
      BY DEF RequestStates
    <2>3. req' \in [Requests -> RequestStates]
      BY <2>1, <2>2
    <2>4. QED BY <1>6, <2>1, <2>3 DEF Setup
  <1>7. ASSUME NEW r \in Requests, ShowSecret(r) PROVE TypeOK'
    BY <1>7, GotoTypes DEF ShowSecret, Carried, At, Labels
  <1>8. ASSUME NEW r \in Requests, CheckCode(r) \/ CheckDisable(r) PROVE TypeOK'
    BY <1>8, GotoTypes DEF CheckCode, CheckDisable, Labels
  <1>9. ASSUME NEW r \in Requests, EnableOTP(r) \/ DisableOTP(r) PROVE TypeOK'
    BY <1>9, GotoTypes DEF EnableOTP, DisableOTP, Labels
  <1>10. ASSUME NEW r \in Requests, Succeed(r) PROVE TypeOK'
    <2> DEFINE t == req[r].tab
    <2>1. Detached(req, t) \in [Requests -> RequestStates]
      BY DetachedTypes
    <2>2. Sent("loadSent", t, NoSecret) \in RequestStates
      BY DEF Sent, RequestStates
    <2>3. req' \in [Requests -> RequestStates]
      BY <1>10, <2>1, <2>2 DEF Succeed
    <2>4. QED BY <1>10, <2>3 DEF Succeed
  <1>11. ASSUME NEW r \in Requests, Abandon(r) PROVE TypeOK'
    BY <1>11, GotoTypes DEF Abandon, Labels
  <1>12. CASE UNCHANGED vars
    BY <1>12 DEF vars
  <1>13. QED
    BY <1>1, <1>2, <1>3, <1>4, <1>5, <1>6, <1>7, <1>8, <1>9, <1>10, <1>11, <1>12, NextCases

LEMMA CarriedStep ==
  ASSUME TypeOK, Carried, [Next]_vars
  PROVE  Carried'
  <1> USE DEF TypeOK, Carried
  <1>1. ASSUME NEW r \in Requests, NEW t \in Tabs, Open(r, t) PROVE Carried'
    <2>1. Detached(req, t) \in [Requests -> RequestStates]
      BY DetachedTypes
    <2>2. /\ req'[r].pc = "loadSent"
          /\ \A q \in Requests \ {r} : req'[q].pc = req[q].pc /\ req'[q].secret = req[q].secret
      BY <1>1, <2>1, DetachedShape DEF Open, Send, Sent
    <2>3. QED BY <1>1, <2>2 DEF Open, Send
  <1>2. ASSUME NEW r \in Requests, NEW t \in Tabs,
               PressSetup(r, t) \/ PressVerify(r, t) \/ PressDisable(r, t)
        PROVE  Carried'
    BY <1>2, PressShape DEF Sent
  <1>3. ASSUME NEW t \in Tabs, Leave(t) PROVE Carried'
    BY <1>3, DetachedShape DEF Leave
  <1>4. ASSUME NEW r \in Requests, ReadProfile(r) PROVE Carried'
    <2>1. /\ req'[r].pc = "loaded"
          /\ \A q \in Requests \ {r} : req'[q] = req[q]
      BY <1>4 DEF ReadProfile, RequestStates
    <2>2. QED BY <1>4, <2>1 DEF ReadProfile
  <1>5. ASSUME NEW r \in Requests, Setup(r) PROVE Carried'
    <2>1. PICK s : /\ generated' = generated \cup {s}
                   /\ req' = [req EXCEPT ![r] = [@ EXCEPT !.pc = "setupStored", !.secret = s]]
      BY <1>5 DEF Setup
    <2>2. /\ req'[r].pc = "setupStored" /\ req'[r].secret = s
          /\ \A q \in Requests \ {r} : req'[q] = req[q]
      BY <2>1 DEF RequestStates
    <2>3. QED BY <1>5, <2>1, <2>2 DEF Setup
  <1>6. ASSUME NEW r \in Requests, CheckCode(r) PROVE Carried'
    <2>1. req' = Goto(r, "codeOk") /\ req[r].pc = "verifySent" /\ UNCHANGED <<generated, device>>
      BY <1>6 DEF CheckCode, At
    <2>2. req'[r].pc = "codeOk" /\ req'[r].secret = req[r].secret
      BY <2>1, GotoShape DEF Labels
    <2>3. \A q \in Requests \ {r} : req'[q] = req[q]
      BY <2>1, GotoShape DEF Labels
    <2>4. QED BY <2>1, <2>2, <2>3
  <1>7. ASSUME NEW r \in Requests, CheckDisable(r) PROVE Carried'
    <2>1. req' = Goto(r, "disabling") /\ req[r].pc = "disableSent" /\ UNCHANGED <<generated, device>>
      BY <1>7 DEF CheckDisable, At
    <2>2. req'[r].pc = "disabling" /\ req'[r].secret = req[r].secret
      BY <2>1, GotoShape DEF Labels
    <2>3. \A q \in Requests \ {r} : req'[q] = req[q]
      BY <2>1, GotoShape DEF Labels
    <2>4. QED BY <2>1, <2>2, <2>3
  <1>8. ASSUME NEW r \in Requests,
               ShowProfile(r) \/ ShowSecret(r) \/ EnableOTP(r) \/ DisableOTP(r) \/ Abandon(r)
        PROVE  Carried'
    <2>1. PICK l \in {"idle", "confirmed", "disabled"} :
            req' = Goto(r, l) /\ generated' = generated /\ device \subseteq device'
      BY <1>8 DEF ShowProfile, ShowSecret, EnableOTP, DisableOTP, Abandon
    <2>2. req'[r].pc = l /\ \A q \in Requests \ {r} : req'[q] = req[q]
      BY <2>1, GotoShape DEF Labels
    <2>3. QED BY <2>1, <2>2
  <1>9. ASSUME NEW r \in Requests, Succeed(r) PROVE Carried'
    <2> DEFINE t == req[r].tab
    <2>1. Detached(req, t) \in [Requests -> RequestStates]
      BY DetachedTypes
    <2>2. /\ req'[r].pc = "loadSent"
          /\ \A q \in Requests \ {r} : req'[q].pc = req[q].pc /\ req'[q].secret = req[q].secret
      BY <1>9, <2>1, DetachedShape DEF Succeed, Sent
    <2>3. QED BY <1>9, <2>2 DEF Succeed
  <1>10. CASE UNCHANGED vars
    BY <1>10 DEF vars
  <1>11. QED
    BY <1>1, <1>2, <1>3, <1>4, <1>5, <1>6, <1>7, <1>8, <1>9, <1>10, NextCases

\* The type invariant holds for any constants.
LEMMA BaseInvariant == Spec => [](TypeOK /\ Carried)
  <1>1. Init => TypeOK /\ Carried
    <2>1. Idle \in RequestStates
      BY DEF Idle, RequestStates
    <2>2. Init => TypeOK
      BY <2>1 DEF Init, TypeOK
    <2>3. QED BY <2>2 DEF Init, Carried, Idle
  <1>2. TypeOK /\ Carried /\ [Next]_vars => TypeOK' /\ Carried'
    BY TypeStep, CarriedStep
  <1>3. QED BY <1>1, <1>2, PTL DEF Spec

\* Every reachable state of the row, the pages and the requests is well formed, a
\* secret on its way to a page was generated, and a code that is being checked or
\* was accepted is of a secret on the device.
THEOREM TypeCorrect == Spec => [](TypeOK /\ Carried)
  BY BaseInvariant

-----------------------------------------------------------------------------
(* An administrator who works in one tab and waits for its answers. *)

\* One request is in flight at a time, and no page offers Setup while the factor
\* is on; what that request has read, stored or checked is still so in the row.
Alone ==
  /\ \A q, r \in Requests : ~At(q, "idle") /\ ~At(r, "idle") => q = r
  /\ enabled => secret \in device
  /\ \A t \in Tabs : page[t] = "setup" => ~enabled
  /\ \A r \in Requests :
       /\ At(r, "loaded") => req[r].on = enabled
       /\ At(r, "setupSent") => ~enabled
       /\ At(r, "setupStored") => ~enabled /\ secret = req[r].secret
       /\ At(r, "codeOk") => secret = req[r].secret
       /\ req[r].pc \in {"verifySent", "codeOk"} => \A t \in Tabs : page[t] # "setup"

AloneInv == orderly => Alone

\* Who was disorderly once remains so.
LEMMA OrderlyOnce ==
  ASSUME [Next]_vars, orderly'
  PROVE  orderly
  BY NextCases, PressShape DEF Open, Send, Leave, ReadProfile, ShowProfile, Setup, ShowSecret,
     CheckCode, EnableOTP, CheckDisable, DisableOTP, Succeed, Abandon, vars

\* A step after which the administrator is still orderly keeps this.
LEMMA AloneStep ==
  ASSUME TypeOK, Carried, Alone, orderly', [Next]_vars
  PROVE  Alone'
  <1> USE DEF TypeOK, Alone, At
  <1>1. ASSUME NEW r \in Requests, NEW t \in Tabs, Open(r, t) PROVE Alone'
    <2>1. Detached(req, t) \in [Requests -> RequestStates]
      BY DetachedTypes
    <2>2. Quiet /\ UNCHANGED <<enabled, secret, device>>
      BY <1>1 DEF Open, Send
    <2>3. /\ req'[r].pc = "loadSent"
          /\ \A q \in Requests \ {r} : req'[q].pc = "idle"
      BY <1>1, <2>1, <2>2, DetachedShape DEF Open, Send, Sent, Quiet
    <2>4. \A u \in Tabs : page'[u] = "setup" => page[u] = "setup"
      BY <1>1 DEF Open
    <2>5. QED BY <2>2, <2>3, <2>4
  <1>2. ASSUME NEW r \in Requests, NEW t \in Tabs,
               PressSetup(r, t) \/ PressVerify(r, t) \/ PressDisable(r, t)
        PROVE  Alone'
    <2>1. PICK l \in {"setupSent", "verifySent", "disableSent"}, s \in device \cup {NoSecret} :
            /\ req' = [req EXCEPT ![r] = Sent(l, t, s)]
            /\ l = "setupSent" => page[t] = "setup"
            /\ l = "verifySent" => page[t] = "verify"
            /\ Quiet /\ \A u \in Tabs \ {t} : page[u] = "blank"
            /\ UNCHANGED <<enabled, secret, generated, device, page>>
      BY <1>2, PressShape
    <2>2. /\ req'[r].pc = l
          /\ \A q \in Requests \ {r} : req'[q].pc = "idle"
      BY <2>1 DEF Sent, Quiet
    <2>3. l = "setupSent" => ~enabled
      BY <2>1
    <2>4. l = "verifySent" => \A u \in Tabs : page[u] # "setup"
      BY <2>1
    <2>5. QED BY <2>1, <2>2, <2>3, <2>4
  <1>3. ASSUME NEW t \in Tabs, Leave(t) PROVE Alone'
    <2>1. \A q \in Requests : /\ req'[q].pc = req[q].pc
                              /\ req'[q].secret = req[q].secret
                              /\ req'[q].on = req[q].on
      BY <1>3, DetachedShape DEF Leave
    <2>2. /\ UNCHANGED <<enabled, secret, device>>
          /\ \A u \in Tabs : page'[u] = "setup" => page[u] = "setup"
      BY <1>3 DEF Leave
    <2>3. QED BY <2>1, <2>2
  <1>4. ASSUME NEW r \in Requests, ReadProfile(r) PROVE Alone'
    <2>1. /\ req'[r].pc = "loaded" /\ req'[r].on = enabled
          /\ \A q \in Requests \ {r} : req'[q] = req[q]
      BY <1>4 DEF ReadProfile, RequestStates
    <2>2. UNCHANGED <<enabled, secret, device, page>> /\ req[r].pc # "idle"
      BY <1>4 DEF ReadProfile
    <2>3. QED BY <2>1, <2>2
  <1>5. ASSUME NEW r \in Requests, ShowProfile(r) PROVE Alone'
    <2>1. req[r].pc = "loaded" /\ UNCHANGED <<enabled, secret, device>>
      BY <1>5 DEF ShowProfile
    <2>2. req'[r].pc = "idle" /\ \A q \in Requests \ {r} : req'[q] = req[q] /\ req[q].pc = "idle"
      BY <1>5, <2>1, GotoShape DEF ShowProfile, Labels
    <2>3. \A t \in Tabs : page'[t] = "setup" => ~enabled
      BY <1>5, <2>1 DEF ShowProfile
    <2>4. QED BY <2>1, <2>2, <2>3
  <1>6. ASSUME NEW r \in Requests, Setup(r) PROVE Alone'
    <2>1. ~enabled /\ req[r].pc = "setupSent" /\ UNCHANGED <<enabled, device, page>>
      BY <1>6 DEF Setup
    <2>2. PICK s : /\ secret' = s
                   /\ req' = [req EXCEPT ![r] = [@ EXCEPT !.pc = "setupStored", !.secret = s]]
      BY <1>6 DEF Setup
    <2>3. /\ req'[r].pc = "setupStored" /\ req'[r].secret = s
          /\ \A q \in Requests \ {r} : req'[q] = req[q] /\ req[q].pc = "idle"
      BY <2>1, <2>2 DEF RequestStates
    <2>4. QED BY <2>1, <2>2, <2>3
  <1>7. ASSUME NEW r \in Requests, ShowSecret(r) PROVE Alone'
    <2>1. /\ req[r].pc = "setupStored" /\ ~enabled /\ UNCHANGED <<enabled, secret>>
          /\ \A t \in Tabs : page'[t] = "setup" => page[t] = "setup"
      BY <1>7 DEF ShowSecret
    <2>2. req'[r].pc = "idle" /\ \A q \in Requests \ {r} : req'[q] = req[q] /\ req[q].pc = "idle"
      BY <1>7, <2>1, GotoShape DEF ShowSecret, Labels
    <2>3. QED BY <2>1, <2>2
  <1>8. ASSUME NEW r \in Requests, CheckCode(r) \/ CheckDisable(r) PROVE Alone'
    <2>1. PICK l \in {"codeOk", "disabling"} :
            /\ req' = Goto(r, l) /\ secret = req[r].secret
            /\ l = "codeOk" => req[r].pc = "verifySent"
            /\ req[r].pc # "idle"
            /\ UNCHANGED <<enabled, secret, device, page>>
      BY <1>8 DEF CheckCode, CheckDisable
    <2>2. req'[r].pc = l /\ req'[r].secret = req[r].secret
      BY <2>1, GotoShape DEF Labels
    <2>3. \A q \in Requests \ {r} : req'[q] = req[q] /\ req[q].pc = "idle"
      BY <2>1, GotoShape DEF Labels
    <2>4. QED BY <2>1, <2>2, <2>3
  <1>9. ASSUME NEW r \in Requests, EnableOTP(r) PROVE Alone'
    <2>1. /\ req[r].pc = "codeOk" /\ enabled' = TRUE /\ secret \in device
          /\ UNCHANGED <<secret, device, page>> /\ \A t \in Tabs : page[t] # "setup"
      BY <1>9 DEF EnableOTP, Carried
    <2>2. /\ req'[r].pc = "confirmed"
          /\ \A q \in Requests \ {r} : req'[q] = req[q] /\ req[q].pc = "idle"
      BY <1>9, <2>1, GotoShape DEF EnableOTP, Labels
    <2>3. QED BY <2>1, <2>2
  <1>10. ASSUME NEW r \in Requests, DisableOTP(r) \/ Abandon(r) PROVE Alone'
    <2>1. PICK l \in {"idle", "disabled"} :
            /\ req' = Goto(r, l) /\ req[r].pc # "idle"
            /\ ~enabled' \/ UNCHANGED <<enabled, secret>>
            /\ UNCHANGED <<device, page>>
      BY <1>10 DEF DisableOTP, Abandon
    <2>2. req'[r].pc = l /\ \A q \in Requests \ {r} : req'[q] = req[q] /\ req[q].pc = "idle"
      BY <2>1, GotoShape DEF Labels
    <2>3. QED BY <2>1, <2>2
  <1>11. ASSUME NEW r \in Requests, Succeed(r) PROVE Alone'
    <2> DEFINE t == req[r].tab
    <2>1. Detached(req, t) \in [Requests -> RequestStates]
      BY DetachedTypes
    <2>2. /\ req'[r].pc = "loadSent"
          /\ \A q \in Requests \ {r} : req'[q].pc = "idle"
      BY <1>11, <2>1, DetachedShape DEF Succeed, Sent
    <2>3. /\ UNCHANGED <<enabled, secret, device>>
          /\ \A u \in Tabs : page'[u] = "setup" => page[u] = "setup"
      BY <1>11 DEF Succeed
    <2>4. QED BY <2>2, <2>3
  <1>12. CASE UNCHANGED vars
    BY <1>12 DEF vars
  <1>13. QED
    BY <1>1, <1>2, <1>3, <1>4, <1>5, <1>6, <1>7, <1>8, <1>9, <1>10, <1>11, <1>12, NextCases

LEMMA AloneInvariant == Spec => []AloneInv
  <1>1. Init => AloneInv
    BY DEF Init, AloneInv, Alone, At, Idle
  <1>2. TypeOK /\ Carried /\ AloneInv /\ [Next]_vars => AloneInv'
    BY OrderlyOnce, AloneStep DEF AloneInv
  <1>3. QED BY <1>1, <1>2, BaseInvariant, PTL DEF Spec

\* Whatever answers are lost, an orderly administrator can produce the code that
\* his login asks for.
THEOREM NeverLockedOut == Spec => []CanLogIn
  <1>1. TypeOK /\ AloneInv => CanLogIn
    BY AdminAssumption DEF TypeOK, AloneInv, Alone, CanLogIn, PasswordSuffices, CodeAccepted
  <1>2. QED BY <1>1, BaseInvariant, AloneInvariant, PTL

\* And his page offers Setup only while the factor is off.
THEOREM OfferIsCurrent == Spec => []SetupOfferedWhenOff
  <1>1. AloneInv => SetupOfferedWhenOff
    BY DEF AloneInv, Alone, SetupOfferedWhenOff
  <1>2. QED BY <1>1, AloneInvariant, PTL

-----------------------------------------------------------------------------
(* Switching off. *)

\* From however many tabs, only a request that has shown a valid code of a secret
\* on the device switches the factor off.
THEOREM OffOnlyByHolder == Spec => OffOnlyWithCode
  <1> DEFINE ByHolder == \E r \in Requests :
               At(r, "disabling") /\ req[r].secret \in device /\ ~At(r, "disabling")'
  <1>1. TypeOK /\ Carried /\ [Next]_vars => [enabled /\ ~enabled' => ByHolder]_vars
    <2> SUFFICES ASSUME TypeOK, Carried, [Next]_vars, enabled, ~enabled'
                 PROVE  ByHolder
      OBVIOUS
    <2>1. PICK r \in Requests : DisableOTP(r)
      <3>1. (\E r \in Requests : DisableOTP(r)) \/ (enabled => enabled')
        BY NextCases, PressShape DEF Open, Send, Leave, ReadProfile, ShowProfile, Setup,
           ShowSecret, CheckCode, EnableOTP, CheckDisable, Succeed, Abandon, vars
      <3>2. QED BY <3>1
    <2>2. req'[r].pc = "disabled"
      BY <2>1, GotoShape DEF DisableOTP, TypeOK, Labels
    <2>3. QED BY <2>1, <2>2 DEF DisableOTP, Carried, At
  <1>2. QED BY <1>1, BaseInvariant, PTL DEF Spec, OffOnlyWithCode

-----------------------------------------------------------------------------
(* Refinement. *)

\* For an orderly administrator the handlers and the page implement OTPEnrolment.
THEOREM RefinesEnrolment == Spec => ImplementsEnrolment
  <1> DEFINE key == IF orderly THEN secret ELSE NoSecret
             known == IF orderly THEN device ELSE {}
             stage == IF ~orderly THEN "void" ELSE IF enabled THEN "on"
                      ELSE IF secret = NoSecret THEN "off" ELSE "pending"
             abstract == <<stage, key, known>>
  <1>1. Init => Enrolment!AInit
    BY DEF Init, Enrolment!AInit
  <1>2. TypeOK /\ Carried /\ AloneInv /\ [Next]_vars => [Enrolment!ANext]_abstract
    <2> SUFFICES ASSUME TypeOK, Carried, AloneInv, [Next]_vars
                 PROVE  Enrolment!ANext \/ UNCHANGED abstract
      OBVIOUS
    <2>1. CASE ~orderly'
      <3>1. Enrolment!Void
        BY <2>1 DEF Enrolment!Void
      <3>2. QED BY <3>1 DEF Enrolment!ANext
    <2>2. CASE orderly'
      <3> USE AdminAssumption DEF TypeOK, Alone, At
      <3>1. orderly /\ Alone
        BY <2>2, OrderlyOnce DEF AloneInv
      <3>2. ASSUME NEW r \in Requests, Setup(r) PROVE Enrolment!ANext
        <4>1. PICK s \in Secrets \ generated : secret' = s /\ UNCHANGED <<enabled, device>>
          BY <3>2 DEF Setup
        <4>2. ~enabled /\ s # NoSecret /\ s \notin device
          BY <3>1, <3>2, <4>1 DEF Setup
        <4>3. Enrolment!Offer(s)
          BY <2>2, <3>1, <4>1, <4>2 DEF Enrolment!Offer
        <4>4. QED BY <4>3 DEF Enrolment!ANext
      <3>3. ASSUME NEW r \in Requests, ShowSecret(r)
            PROVE  Enrolment!ANext \/ UNCHANGED abstract
        <4>1. CASE req[r].live
          <5>1. ~enabled /\ device' = device \cup {secret} /\ UNCHANGED <<enabled, secret>>
            BY <3>1, <3>3, <4>1 DEF ShowSecret
          <5>2. secret # NoSecret
            BY <3>1, <3>3 DEF ShowSecret, Carried
          <5>3. Enrolment!Learn
            BY <2>2, <3>1, <5>1, <5>2 DEF Enrolment!Learn
          <5>4. QED BY <5>3 DEF Enrolment!ANext
        <4>2. CASE ~req[r].live
          BY <2>2, <3>1, <3>3, <4>2 DEF ShowSecret
        <4>3. QED BY <4>1, <4>2
      <3>4. ASSUME NEW r \in Requests, EnableOTP(r)
            PROVE  Enrolment!ANext \/ UNCHANGED abstract
        <4>1. secret \in device /\ secret # NoSecret /\ enabled' = TRUE
              /\ UNCHANGED <<secret, device>>
          BY <3>1, <3>4 DEF EnableOTP, Carried
        <4>2. CASE enabled
          BY <2>2, <3>1, <4>1, <4>2
        <4>3. CASE ~enabled
          <5>1. Enrolment!Confirm
            BY <2>2, <3>1, <4>1, <4>3 DEF Enrolment!Confirm
          <5>2. QED BY <5>1 DEF Enrolment!ANext
        <4>4. QED BY <4>2, <4>3
      <3>5. ASSUME NEW r \in Requests, DisableOTP(r) PROVE Enrolment!ANext
        <4>1. enabled' = FALSE /\ secret' = NoSecret /\ device' = device
          BY <3>5 DEF DisableOTP
        <4>2. Enrolment!Clear
          BY <2>2, <3>1, <4>1 DEF Enrolment!Clear
        <4>3. QED BY <4>2 DEF Enrolment!ANext
      <3>6. CASE UNCHANGED <<enabled, secret, device>>
        BY <2>2, <3>1, <3>6
      <3>7. \/ \E r \in Requests : Setup(r) \/ ShowSecret(r) \/ EnableOTP(r) \/ DisableOTP(r)
            \/ UNCHANGED <<enabled, secret, device>>
        BY NextCases, PressShape DEF Open, Send, Leave, ReadProfile, ShowProfile, CheckCode,
           CheckDisable, Succeed, Abandon, vars
      <3>8. QED BY <3>2, <3>3, <3>4, <3>5, <3>6, <3>7
    <2>3. QED BY <2>1, <2>2
  <1>3. QED
    BY <1>1, <1>2, BaseInvariant, AloneInvariant, PTL
    DEF Spec, ImplementsEnrolment, Enrolment!ASpec, Enrolment!avars
=============================================================================
