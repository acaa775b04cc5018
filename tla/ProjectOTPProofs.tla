-------------------------- MODULE ProjectOTPProofs --------------------------
(***************************************************************************)
(* Proofs about the second factor of a project member, for any number of   *)
(* concurrent requests and secrets.                                        *)
(***************************************************************************)
EXTENDS ProjectOTP, TLAPS

-----------------------------------------------------------------------------
(* Types. *)

\* The settings a request can see are pairs of Booleans.
LEMMA PairTypes ==
  ASSUME NEW f \in BOOLEAN, NEW e \in BOOLEAN
  PROVE  <<f, e>> \in Settings
  BY DEF Settings

\* How the request table changes: a request moves on, observes, or starts.
LEMMA ObservingTypes ==
  ASSUME NEW t \in [Requests -> RequestStates], NEW p \in Settings
  PROVE  Observing(t, p) \in [Requests -> RequestStates]
  BY DEF Observing, RequestStates

LEMMA GotoTypes ==
  ASSUME req \in [Requests -> RequestStates], NEW r \in Requests,
         NEW l \in {"idle", "setupStored", "codeOk", "confirmed", "disabling", "loginRead",
                    "passwordGrant", "otpGrant"}
  PROVE  Goto(r, l) \in [Requests -> RequestStates]
  <1>1. Idle \in RequestStates
    BY DEF Idle, RequestStates
  <1>2. [req[r] EXCEPT !.pc = l] \in RequestStates
    BY DEF RequestStates
  <1>3. QED BY <1>1, <1>2 DEF Goto

LEMMA BeganTypes ==
  ASSUME force2FA \in BOOLEAN, enabled \in BOOLEAN,
         NEW l \in {"idle", "setupStored", "codeOk", "confirmed", "disabling", "loginRead",
                    "passwordGrant", "otpGrant"},
         NEW s \in Secrets \cup {NoSecret}, NEW e \in BOOLEAN
  PROVE  Began(l, s, e) \in RequestStates
  BY PairTypes DEF Began, RequestStates

\* What the two helpers leave alone.
LEMMA ObservingShape ==
  ASSUME NEW t \in [Requests -> RequestStates], NEW p, NEW q \in Requests
  PROVE  /\ Observing(t, p)[q].pc = t[q].pc
         /\ Observing(t, p)[q].secret = t[q].secret
         /\ Observing(t, p)[q].enabled = t[q].enabled
         /\ t[q].seen \subseteq Observing(t, p)[q].seen
         /\ t[q].pc # "idle" => p \in Observing(t, p)[q].seen
  BY DEF Observing, RequestStates

LEMMA GotoShape ==
  ASSUME req \in [Requests -> RequestStates], NEW r \in Requests,
         NEW l \in {"idle", "setupStored", "codeOk", "confirmed", "disabling", "loginRead",
                    "passwordGrant", "otpGrant"}
  PROVE  /\ Goto(r, l)[r].pc = l
         /\ l # "idle" => /\ Goto(r, l)[r].secret = req[r].secret
                          /\ Goto(r, l)[r].enabled = req[r].enabled
                          /\ Goto(r, l)[r].seen = req[r].seen
         /\ \A q \in Requests \ {r} : Goto(r, l)[q] = req[q]
  BY DEF Goto, Idle, RequestStates

\* Every step of the system is one of these.
LEMMA NextCases ==
  ASSUME [Next]_vars
  PROVE  \/ \E r \in Requests : Setup(r) \/ ShowSecret(r)
         \/ \E r \in Requests : CheckCode(r) \/ EnableOTP(r) \/ ReadRoles(r)
         \/ \E r \in Requests : CheckDisable(r) \/ DisableOTP(r)
         \/ \E r \in Requests : LoginRead(r) \/ LoginDecide(r) \/ LoginOTP(r)
         \/ \E r \in Requests : Issue(r) \/ Abandon(r)
         \/ RemoveUser \/ AddUser \/ ChangePolicy
         \/ UNCHANGED vars
  BY DEF Next, Manage, Login

\* A secret that is still to be shown is one that was generated.
ShownGenerated == \A r \in Requests : req[r].pc = "setupStored" => req[r].secret \in generated

\* Types and that fact are preserved.
LEMMA TypeStep ==
  ASSUME TypeOK, ShownGenerated, [Next]_vars
  PROVE  TypeOK'
  <1> USE DEF TypeOK
  <1>1. ASSUME NEW r \in Requests, Setup(r) PROVE TypeOK'
    <2>1. PICK s \in Secrets \ generated :
            /\ generated' = generated \cup {s}
            /\ secret' = s
            /\ req' = [req EXCEPT ![r] = Began("setupStored", s, FALSE)]
      BY <1>1 DEF Setup
    <2>2. Began("setupStored", s, FALSE) \in RequestStates
      BY BeganTypes
    <2>3. req' \in [Requests -> RequestStates]
      BY <2>1, <2>2
    <2>4. QED BY <1>1, <2>1, <2>3 DEF Setup
  <1>2. ASSUME NEW r \in Requests, ShowSecret(r) PROVE TypeOK'
    BY <1>2, GotoTypes DEF ShowSecret, ShownGenerated, At
  <1>3. ASSUME NEW r \in Requests, CheckCode(r) PROVE TypeOK'
    BY <1>3, BeganTypes DEF CheckCode
  <1>4. ASSUME NEW r \in Requests, EnableOTP(r) PROVE TypeOK'
    <2>1. Goto(r, "confirmed") \in [Requests -> RequestStates]
      BY GotoTypes
    <2>2. Observing(Goto(r, "confirmed"), <<force2FA, TRUE>>) \in [Requests -> RequestStates]
      <3>1. <<force2FA, TRUE>> \in Settings
        BY PairTypes
      <3>2. QED BY <2>1, <3>1, ObservingTypes
    <2>3. Goto(r, "idle") \in [Requests -> RequestStates]
      BY GotoTypes
    <2>4. QED BY <1>4, <2>2, <2>3 DEF EnableOTP
  <1>5. ASSUME NEW r \in Requests, ReadRoles(r) PROVE TypeOK'
    BY <1>5, ObservingTypes, GotoTypes DEF ReadRoles
  <1>6. ASSUME NEW r \in Requests, CheckDisable(r) PROVE TypeOK'
    BY <1>6, BeganTypes DEF CheckDisable
  <1>7. ASSUME NEW r \in Requests, DisableOTP(r) PROVE TypeOK'
    <2>1. Goto(r, "idle") \in [Requests -> RequestStates]
      BY GotoTypes
    <2>2. <<force2FA, FALSE>> \in Settings
      BY PairTypes
    <2>3. req' \in [Requests -> RequestStates]
      BY <1>7, <2>1, <2>2, ObservingTypes DEF DisableOTP
    <2>4. QED BY <1>7, <2>3 DEF DisableOTP
  <1>8. ASSUME NEW r \in Requests, LoginRead(r) PROVE TypeOK'
    BY <1>8, BeganTypes DEF LoginRead
  <1>9. ASSUME NEW r \in Requests, LoginDecide(r) PROVE TypeOK'
    BY <1>9, ObservingTypes, GotoTypes DEF LoginDecide
  <1>10. ASSUME NEW r \in Requests, LoginOTP(r) PROVE TypeOK'
    BY <1>10, BeganTypes DEF LoginOTP
  <1>11. ASSUME NEW r \in Requests, Issue(r) PROVE TypeOK'
    BY <1>11, ObservingTypes, GotoTypes DEF Issue
  <1>12. ASSUME NEW r \in Requests, Abandon(r) PROVE TypeOK'
    BY <1>12, ObservingTypes, GotoTypes DEF Abandon
  <1>13. CASE RemoveUser
    <2>1. <<force2FA, FALSE>> \in Settings
      BY PairTypes
    <2>2. req' \in [Requests -> RequestStates]
      BY <1>13, <2>1, ObservingTypes DEF RemoveUser
    <2>3. QED BY <1>13, <2>2 DEF RemoveUser
  <1>14. CASE AddUser
    BY <1>14 DEF AddUser
  <1>15. CASE ChangePolicy
    <2>1. (~force2FA) \in BOOLEAN
      OBVIOUS
    <2>2. <<~force2FA, enabled>> \in Settings
      BY <2>1, PairTypes
    <2>3. req' \in [Requests -> RequestStates]
      BY <1>15, <2>2, ObservingTypes DEF ChangePolicy
    <2>4. QED BY <1>15, <2>1, <2>3 DEF ChangePolicy
  <1>16. CASE UNCHANGED vars
    BY <1>16 DEF vars
  <1>17. QED
    BY <1>1, <1>2, <1>3, <1>4, <1>5, <1>6, <1>7, <1>8, <1>9, <1>10, <1>11, <1>12, <1>13,
       <1>14, <1>15, <1>16, NextCases

LEMMA ShownStep ==
  ASSUME TypeOK, ShownGenerated, [Next]_vars
  PROVE  ShownGenerated'
  <1> USE DEF ShownGenerated, TypeOK
  <1>1. ASSUME NEW r \in Requests, Setup(r) PROVE ShownGenerated'
    BY <1>1 DEF Setup, Began
  <1>2. ASSUME NEW r \in Requests, CheckCode(r) \/ CheckDisable(r) PROVE ShownGenerated'
    BY <1>2 DEF CheckCode, CheckDisable, Began
  <1>3. ASSUME NEW r \in Requests, LoginRead(r) \/ LoginOTP(r) PROVE ShownGenerated'
    BY <1>3 DEF LoginRead, LoginOTP, Began
  <1>4. ASSUME NEW r \in Requests, EnableOTP(r) PROVE ShownGenerated'
    <2>1. \A q \in Requests : req'[q].pc = "setupStored" => req'[q].secret = req[q].secret /\ req[q].pc = "setupStored"
      <3>1. CASE member /\ ~enabled
        <4>1. Goto(r, "confirmed") \in [Requests -> RequestStates]
          BY GotoTypes
        <4>2. QED BY <1>4, <3>1, <4>1, GotoShape, ObservingShape DEF EnableOTP
      <3>2. CASE ~(member /\ ~enabled)
        BY <1>4, <3>2, GotoShape DEF EnableOTP
      <3>3. QED BY <3>1, <3>2
    <2>2. QED BY <1>4, <2>1 DEF EnableOTP
  <1>5. ASSUME NEW r \in Requests, DisableOTP(r) PROVE ShownGenerated'
    <2>1. Goto(r, "idle") \in [Requests -> RequestStates]
      BY GotoTypes
    <2>2. \A q \in Requests : req'[q].pc = "setupStored" => req'[q].secret = req[q].secret /\ req[q].pc = "setupStored"
      BY <1>5, <2>1, GotoShape, ObservingShape DEF DisableOTP
    <2>3. QED BY <1>5, <2>2 DEF DisableOTP
  <1>6. ASSUME NEW r \in Requests, ShowSecret(r) \/ ReadRoles(r) \/ LoginDecide(r)
        PROVE  ShownGenerated'
    BY <1>6 DEF ShowSecret, ReadRoles, LoginDecide, Goto, Idle, RequestStates
  <1>7. ASSUME NEW r \in Requests, Issue(r) \/ Abandon(r) PROVE ShownGenerated'
    BY <1>7 DEF Issue, Abandon, Goto, Idle, RequestStates
  <1>8. CASE RemoveUser \/ ChangePolicy
    <2>1. \A q \in Requests : req'[q].pc = req[q].pc /\ req'[q].secret = req[q].secret
      BY <1>8, ObservingShape DEF RemoveUser, ChangePolicy
    <2>2. QED BY <1>8, <2>1 DEF RemoveUser, ChangePolicy
  <1>9. CASE AddUser \/ UNCHANGED vars
    BY <1>9 DEF AddUser, vars
  <1>10. QED BY <1>1, <1>2, <1>3, <1>4, <1>5, <1>6, <1>7, <1>8, <1>9, NextCases

\* The type invariant holds for any constants.
LEMMA BaseInvariant == Spec => [](TypeOK /\ ShownGenerated)
  <1>1. Init => TypeOK /\ ShownGenerated
    <2>1. Idle \in RequestStates
      BY DEF Idle, RequestStates
    <2>2. Init => TypeOK
      BY <2>1 DEF Init, TypeOK
    <2>3. QED BY <2>2 DEF Init, ShownGenerated, Idle
  <1>2. TypeOK /\ ShownGenerated /\ [Next]_vars => TypeOK' /\ ShownGenerated'
    BY TypeStep, ShownStep
  <1>3. QED BY <1>1, <1>2, PTL DEF Spec

\* Row, device and requests keep their types, and a secret that an answer is about to
\* show was generated, whatever removals and policy changes come in between.
THEOREM TypeCorrect == Spec => [](TypeOK /\ ShownGenerated)
  BY BaseInvariant

-----------------------------------------------------------------------------
(* What a request has seen when it issues tokens. *)

\* A request x in flight has seen the current settings p, and what its next
\* statement relies on.
Informed(x, p) ==
  /\ x.pc # "idle" => p \in x.seen
  /\ x.pc = "loginRead" => \E q \in x.seen : q[2] = x.enabled
  /\ x.pc = "passwordGrant" =>
       <<FALSE, FALSE>> \in x.seen \/ \E a, b \in x.seen : a[1] # b[1]
  /\ x.pc \in {"confirmed", "otpGrant"} => \E q \in x.seen : q[2]

AllInformed == \A r \in Requests : Informed(req[r], <<force2FA, enabled>>)

\* A request that stays where it is and sees more stays informed.
LEMMA InformedGrows ==
  ASSUME NEW x, NEW y, NEW p, NEW q, Informed(x, p),
         y.pc = x.pc, y.enabled = x.enabled, x.seen \subseteq y.seen,
         y.pc # "idle" => q \in y.seen
  PROVE  Informed(y, q)
  BY DEF Informed

\* So a step in which every request observes the new settings is safe.
LEMMA ObservedInformed ==
  ASSUME NEW t \in [Requests -> RequestStates], NEW p, NEW q,
         NEW r \in Requests, Informed(t[r], p)
  PROVE  Informed(Observing(t, q)[r], q)
  BY ObservingShape, InformedGrows

\* A request that gives up is informed of nothing.
LEMMA IdleInformed ==
  ASSUME NEW p
  PROVE  Informed(Idle, p)
  BY DEF Informed, Idle

\* The login decides on two reads made at different moments.
LEMMA LoginInformed ==
  ASSUME TypeOK, AllInformed, NEW r \in Requests, LoginDecide(r)
  PROVE  Informed(req'[r], <<force2FA, enabled>>)
  <1> USE DEF TypeOK, AllInformed
  <1>1. CASE force2FA \/ req[r].enabled
    <2>1. req'[r] = Idle
      BY <1>1 DEF LoginDecide, Goto
    <2>2. QED BY <2>1, IdleInformed
  <1>2. CASE ~force2FA /\ ~req[r].enabled
    <2>1. req' = Goto(r, "passwordGrant")
      BY <1>2 DEF LoginDecide
    <2>2. req'[r].pc = "passwordGrant" /\ req'[r].seen = req[r].seen
      BY <2>1, GotoShape
    <2>3. req[r].pc = "loginRead"
      BY DEF LoginDecide, At
    <2>4. <<force2FA, enabled>> \in req[r].seen
      BY <2>3 DEF Informed
    <2>5. PICK q \in req[r].seen : q[2] = req[r].enabled
      BY <2>3 DEF Informed
    <2>6. req[r].seen \subseteq Settings /\ req[r].enabled \in BOOLEAN
      BY DEF RequestStates
    <2>7. q = <<q[1], q[2]>> /\ q[1] \in BOOLEAN /\ q[2] \in BOOLEAN
      BY <2>5, <2>6 DEF Settings
    <2>8. CASE q[1]
      <3>1. <<force2FA, enabled>>[1] # q[1]
        BY <1>2, <2>8
      <3>2. QED BY <2>2, <2>4, <2>5, <3>1 DEF Informed
    <2>9. CASE ~q[1]
      <3>1. q[1] = FALSE /\ q[2] = FALSE
        BY <1>2, <2>5, <2>6, <2>7, <2>9
      <3>2. <<FALSE, FALSE>> \in req[r].seen
        BY <2>5, <2>7, <3>1
      <3>3. QED BY <2>2, <2>4, <3>2 DEF Informed
    <2>10. QED BY <2>8, <2>9
  <1>3. QED BY <1>1, <1>2

LEMMA InformedStep ==
  ASSUME TypeOK, AllInformed, [Next]_vars
  PROVE  AllInformed'
  <1> USE DEF TypeOK, AllInformed
  <1> DEFINE settings == <<force2FA, enabled>>
  <1>1. ASSUME NEW r \in Requests, UNCHANGED <<force2FA, enabled>>,
               \A q \in Requests \ {r} : req'[q] = req[q],
               Informed(req'[r], settings)
        PROVE  AllInformed'
    BY <1>1
  <1>2. ASSUME NEW r \in Requests, UNCHANGED <<force2FA, enabled>>,
               NEW l \in {"setupStored", "codeOk", "disabling", "loginRead", "otpGrant"},
               NEW s, NEW e, req' = [req EXCEPT ![r] = Began(l, s, e)],
               l = "loginRead" => e = enabled, l = "otpGrant" => enabled
        PROVE  AllInformed'
    <2>1. req'[r] = Began(l, s, e) /\ \A q \in Requests \ {r} : req'[q] = req[q]
      BY <1>2
    <2>2. settings \in {settings} /\ settings[2] = enabled
      OBVIOUS
    <2>3. Informed(Began(l, s, e), settings)
      BY <1>2, <2>2 DEF Informed, Began
    <2>4. QED BY <1>1, <1>2, <2>1, <2>3
  <1>3. ASSUME NEW r \in Requests, UNCHANGED <<force2FA, enabled>>, req' = Goto(r, "idle")
        PROVE  AllInformed'
    <2>1. req'[r] = Idle /\ \A q \in Requests \ {r} : req'[q] = req[q]
      BY <1>3 DEF Goto
    <2>2. QED BY <1>1, <1>3, <2>1, IdleInformed
  <1>4. ASSUME NEW p, <<force2FA, enabled>>' = p, req' = Observing(req, p)
        PROVE  AllInformed'
    BY <1>4, ObservedInformed
  <1>5. ASSUME NEW r \in Requests, Setup(r) PROVE AllInformed'
    BY <1>2, <1>5 DEF Setup
  <1>6. ASSUME NEW r \in Requests, CheckCode(r) PROVE AllInformed'
    BY <1>2, <1>6 DEF CheckCode
  <1>7. ASSUME NEW r \in Requests, CheckDisable(r) PROVE AllInformed'
    BY <1>2, <1>7 DEF CheckDisable
  <1>8. ASSUME NEW r \in Requests, LoginRead(r) PROVE AllInformed'
    BY <1>2, <1>8 DEF LoginRead
  <1>9. ASSUME NEW r \in Requests, LoginOTP(r) PROVE AllInformed'
    BY <1>2, <1>9 DEF LoginOTP
  <1>10. ASSUME NEW r \in Requests, ShowSecret(r) PROVE AllInformed'
    BY <1>3, <1>10 DEF ShowSecret
  <1>11. ASSUME NEW r \in Requests, Issue(r) PROVE AllInformed'
    BY <1>3, <1>11 DEF Issue
  <1>12. ASSUME NEW r \in Requests, Abandon(r) PROVE AllInformed'
    BY <1>3, <1>12 DEF Abandon
  <1>13. ASSUME NEW r \in Requests, LoginDecide(r) PROVE AllInformed'
    <2>1. \A q \in Requests \ {r} : req'[q] = req[q]
      BY <1>13 DEF LoginDecide, Goto
    <2>2. QED BY <1>1, <1>13, <2>1, LoginInformed DEF LoginDecide
  <1>14. ASSUME NEW r \in Requests, ReadRoles(r) PROVE AllInformed'
    <2>1. CASE member
      <3>1. req' = Goto(r, "otpGrant")
        BY <1>14, <2>1 DEF ReadRoles
      <3>2. req'[r].pc = "otpGrant" /\ req'[r].seen = req[r].seen
        BY <3>1, GotoShape
      <3>3. Informed(req'[r], settings)
        BY <1>14, <3>2 DEF Informed, ReadRoles, At
      <3>4. \A q \in Requests \ {r} : req'[q] = req[q]
        BY <3>1, GotoShape
      <3>5. QED BY <1>1, <1>14, <3>3, <3>4 DEF ReadRoles
    <2>2. CASE ~member
      BY <1>3, <1>14, <2>2 DEF ReadRoles
    <2>3. QED BY <2>1, <2>2
  <1>15. ASSUME NEW r \in Requests, EnableOTP(r) PROVE AllInformed'
    <2>1. CASE member /\ ~enabled
      <3> DEFINE p == <<force2FA, TRUE>>
      <3>1. req' = Observing(Goto(r, "confirmed"), p) /\ <<force2FA, enabled>>' = p
        BY <1>15, <2>1 DEF EnableOTP
      <3>2. Goto(r, "confirmed") \in [Requests -> RequestStates]
        BY GotoTypes
      <3>3. ASSUME NEW q \in Requests \ {r} PROVE Informed(req'[q], p)
        <4>1. Informed(Goto(r, "confirmed")[q], settings)
          BY <3>3, GotoShape
        <4>2. QED BY <3>1, <3>2, <3>3, <4>1, ObservedInformed
      <3>4. req'[r].pc = "confirmed" /\ p \in req'[r].seen
        BY <3>1, <3>2, GotoShape, ObservingShape
      <3>5. p[2] = TRUE
        OBVIOUS
      <3>6. Informed(req'[r], p)
        BY <3>4, <3>5 DEF Informed
      <3>7. QED BY <3>1, <3>3, <3>6
    <2>2. CASE ~(member /\ ~enabled)
      BY <1>3, <1>15, <2>2 DEF EnableOTP
    <2>3. QED BY <2>1, <2>2
  <1>16. ASSUME NEW r \in Requests, DisableOTP(r) PROVE AllInformed'
    <2> DEFINE p == <<force2FA, FALSE>>
    <2>1. req' = Observing(Goto(r, "idle"), p) /\ <<force2FA, enabled>>' = p
      BY <1>16 DEF DisableOTP
    <2>2. Goto(r, "idle") \in [Requests -> RequestStates]
      BY GotoTypes
    <2>3. \A q \in Requests : \E x : Informed(Goto(r, "idle")[q], x)
      BY IdleInformed, GotoShape DEF Goto
    <2>4. \A q \in Requests : Informed(req'[q], p)
      BY <2>1, <2>2, <2>3, ObservedInformed
    <2>5. QED BY <2>1, <2>4
  <1>17. CASE RemoveUser
    BY <1>4, <1>17 DEF RemoveUser
  <1>18. CASE ChangePolicy
    BY <1>4, <1>18 DEF ChangePolicy
  <1>19. CASE AddUser \/ UNCHANGED vars
    BY <1>19 DEF AddUser, vars
  <1>20. QED
    BY <1>5, <1>6, <1>7, <1>8, <1>9, <1>10, <1>11, <1>12, <1>13, <1>14, <1>15, <1>16,
       <1>17, <1>18, <1>19, NextCases

\* Tokens are issued only under a policy that was in force during the request.
THEOREM GrantsFollow == Spec => []GrantsFollowPolicy
  <1>1. Init => AllInformed
    BY DEF Init, AllInformed, Informed, Idle
  <1>2. TypeOK /\ AllInformed /\ [Next]_vars => AllInformed'
    BY InformedStep
  <1>3. AllInformed => GrantsFollowPolicy
    BY DEF AllInformed, Informed, GrantsFollowPolicy, At
  <1>4. QED BY <1>1, <1>2, <1>3, TypeCorrect, PTL DEF Spec

-----------------------------------------------------------------------------
(* Switching off. *)

\* The holder of a pending DisableOTP has shown a code of a received secret.
CodeShown == \A r \in Requests : req[r].pc = "disabling" => req[r].secret \in device

LEMMA CodeShownStep ==
  ASSUME TypeOK, CodeShown, [Next]_vars
  PROVE  CodeShown'
  <1> USE DEF CodeShown, TypeOK
  <1>1. ASSUME NEW r \in Requests, Setup(r) PROVE CodeShown'
    BY <1>1 DEF Setup, Began
  <1>2. ASSUME NEW r \in Requests, CheckCode(r) \/ CheckDisable(r) PROVE CodeShown'
    BY <1>2 DEF CheckCode, CheckDisable, Began
  <1>3. ASSUME NEW r \in Requests, LoginRead(r) \/ LoginOTP(r) PROVE CodeShown'
    BY <1>3 DEF LoginRead, LoginOTP, Began
  <1>4. ASSUME NEW r \in Requests, EnableOTP(r) PROVE CodeShown'
    <2>1. \A q \in Requests : req'[q].pc = "disabling" =>
            req[q].pc = "disabling" /\ req'[q].secret = req[q].secret
      <3>1. CASE member /\ ~enabled
        <4>1. Goto(r, "confirmed") \in [Requests -> RequestStates]
          BY GotoTypes
        <4>2. QED BY <1>4, <3>1, <4>1, GotoShape, ObservingShape DEF EnableOTP
      <3>2. CASE ~(member /\ ~enabled)
        BY <1>4, <3>2, GotoShape DEF EnableOTP
      <3>3. QED BY <3>1, <3>2
    <2>2. QED BY <1>4, <2>1 DEF EnableOTP
  <1>5. ASSUME NEW r \in Requests, DisableOTP(r) PROVE CodeShown'
    <2>1. Goto(r, "idle") \in [Requests -> RequestStates]
      BY GotoTypes
    <2>2. \A q \in Requests : req'[q].pc = "disabling" =>
            req[q].pc = "disabling" /\ req'[q].secret = req[q].secret
      BY <1>5, <2>1, GotoShape, ObservingShape DEF DisableOTP
    <2>3. QED BY <1>5, <2>2 DEF DisableOTP
  <1>6. ASSUME NEW r \in Requests, ShowSecret(r) \/ ReadRoles(r) \/ LoginDecide(r)
        PROVE  CodeShown'
    BY <1>6 DEF ShowSecret, ReadRoles, LoginDecide, Goto, Idle, RequestStates
  <1>7. ASSUME NEW r \in Requests, Issue(r) \/ Abandon(r) PROVE CodeShown'
    BY <1>7 DEF Issue, Abandon, Goto, Idle, RequestStates
  <1>8. CASE RemoveUser \/ ChangePolicy
    <2>1. \A q \in Requests : req'[q].pc = req[q].pc /\ req'[q].secret = req[q].secret
      BY <1>8, ObservingShape DEF RemoveUser, ChangePolicy
    <2>2. QED BY <1>8, <2>1 DEF RemoveUser, ChangePolicy
  <1>9. CASE AddUser \/ UNCHANGED vars
    BY <1>9 DEF AddUser, vars
  <1>10. QED BY <1>1, <1>2, <1>3, <1>4, <1>5, <1>6, <1>7, <1>8, <1>9, NextCases

\* Whatever the interleaving, only a DisableOTP whose request produced a valid
\* code switches the factor of a member off.
THEOREM OffOnlyByHolder == Spec => OffOnlyWithCode
  <1> DEFINE Off == enabled /\ ~enabled' /\ member'
             ByHolder == \E r \in Requests :
                           At(r, "disabling") /\ req[r].secret \in device /\ ~At(r, "disabling")'
  <1>1. Init => CodeShown
    BY DEF Init, CodeShown, Idle
  <1>2. TypeOK /\ CodeShown /\ [Next]_vars => CodeShown'
    BY CodeShownStep
  <1>3. TypeOK /\ CodeShown /\ [Next]_vars => [Off => ByHolder]_vars
    <2> SUFFICES ASSUME TypeOK, CodeShown, [Next]_vars, Off
                 PROVE  ByHolder
      OBVIOUS
    <2>1. ASSUME NEW r \in Requests, DisableOTP(r) PROVE ByHolder
      <3>1. Goto(r, "idle") \in [Requests -> RequestStates]
        BY GotoTypes DEF TypeOK
      <3>2. req'[r].pc = "idle"
        BY <2>1, <3>1, GotoShape, ObservingShape DEF DisableOTP, TypeOK
      <3>3. QED BY <2>1, <3>2 DEF CodeShown, DisableOTP, At
    <2>2. ASSUME NEW r \in Requests, EnableOTP(r) PROVE FALSE
      BY <2>2 DEF EnableOTP
    <2>3. (\E r \in Requests : DisableOTP(r) \/ EnableOTP(r)) \/ RemoveUser \/ enabled' = enabled
      BY NextCases DEF Setup, ShowSecret, CheckCode, ReadRoles, CheckDisable, LoginRead,
         LoginDecide, LoginOTP, Issue, Abandon, AddUser, ChangePolicy, vars
    <2>4. QED BY <2>1, <2>2, <2>3 DEF RemoveUser
  <1>4. QED BY <1>1, <1>2, <1>3, TypeCorrect, PTL DEF Spec, OffOnlyWithCode

-----------------------------------------------------------------------------
(* A user whose management requests do not overlap. *)

\* One request at a time manages OTP; while Setup has not answered, its secret
\* is in the row and OTP is off; a validated code stays a code of the row.
Alone ==
  /\ \A q, r \in Requests : Managing(q) /\ Managing(r) => q = r
  /\ \A r \in Requests : At(r, "setupStored") => ~enabled /\ secret = req[r].secret
  /\ \A r \in Requests : At(r, "codeOk") => secret \in device
  /\ enabled => secret \in device

AloneInv == orderly => Alone

\* Who was disorderly once remains so.
LEMMA OrderlyOnce ==
  ASSUME [Next]_vars, orderly'
  PROVE  orderly
  BY NextCases DEF Setup, ShowSecret, CheckCode, EnableOTP, ReadRoles, CheckDisable,
     DisableOTP, LoginRead, LoginDecide, LoginOTP, Issue, Abandon, RemoveUser, AddUser,
     ChangePolicy, vars

\* A step after which the user is still orderly keeps this.
LEMMA AloneStep ==
  ASSUME TypeOK, ShownGenerated, Alone, orderly, orderly', [Next]_vars
  PROVE  Alone'
  <1> USE DEF TypeOK, Alone, At, Managing
  <1>1. ASSUME NEW r \in Requests, Setup(r) PROVE Alone'
    <2>1. Quiet /\ ~enabled /\ UNCHANGED <<enabled, device>>
      BY <1>1 DEF Setup
    <2>2. PICK s : secret' = s /\ req' = [req EXCEPT ![r] = Began("setupStored", s, FALSE)]
      BY <1>1 DEF Setup
    <2>3. /\ req'[r].pc = "setupStored" /\ req'[r].secret = secret'
          /\ \A q \in Requests \ {r} : req'[q] = req[q] /\ ~Managing(q)
      BY <2>1, <2>2 DEF Began, Quiet
    <2>4. QED BY <2>1, <2>3
  <1>2. ASSUME NEW r \in Requests, ShowSecret(r) PROVE Alone'
    <2>1. req' = Goto(r, "idle")
      BY <1>2 DEF ShowSecret
    <2>2. req'[r].pc = "idle" /\ \A q \in Requests \ {r} : req'[q] = req[q]
      BY <2>1, GotoShape
    <2>3. QED BY <1>2, <2>2 DEF ShowSecret
  <1>3. ASSUME NEW r \in Requests, CheckCode(r) \/ CheckDisable(r) PROVE Alone'
    <2>1. PICK l \in {"codeOk", "disabling"} : req' = [req EXCEPT ![r] = Began(l, secret, FALSE)]
      BY <1>3 DEF CheckCode, CheckDisable
    <2>2. /\ req'[r].pc = l
          /\ \A q \in Requests \ {r} : req'[q] = req[q] /\ ~Managing(q)
          /\ UNCHANGED <<enabled, secret, device>> /\ secret \in device
      BY <1>3, <2>1 DEF CheckCode, CheckDisable, Quiet, Began
    <2>3. QED BY <2>2
  <1>4. ASSUME NEW r \in Requests, EnableOTP(r) PROVE Alone'
    <2>1. CASE member /\ ~enabled
      <3>1. Goto(r, "confirmed") \in [Requests -> RequestStates]
        BY GotoTypes
      <3>2. /\ req'[r].pc = "confirmed"
            /\ \A q \in Requests \ {r} : req'[q].pc = req[q].pc /\ req'[q].secret = req[q].secret
        <4>1. req' = Observing(Goto(r, "confirmed"), <<force2FA, TRUE>>)
          BY <1>4, <2>1 DEF EnableOTP
        <4>2. \A q \in Requests : /\ req'[q].pc = Goto(r, "confirmed")[q].pc
                                 /\ req'[q].secret = Goto(r, "confirmed")[q].secret
          BY <3>1, <4>1, ObservingShape
        <4>3. QED BY <4>2, GotoShape
      <3>3. \A q \in Requests \ {r} : ~Managing(q)
        BY <1>4 DEF EnableOTP
      <3>4. QED BY <1>4, <3>2, <3>3 DEF EnableOTP
    <2>2. CASE ~(member /\ ~enabled)
      <3>1. req' = Goto(r, "idle") /\ UNCHANGED <<enabled, secret, device>>
        BY <1>4, <2>2 DEF EnableOTP
      <3>2. req'[r].pc = "idle" /\ \A q \in Requests \ {r} : req'[q] = req[q]
        BY <3>1, GotoShape
      <3>3. QED BY <3>1, <3>2
    <2>3. QED BY <2>1, <2>2
  <1>5. ASSUME NEW r \in Requests, DisableOTP(r) PROVE Alone'
    <2>1. Goto(r, "idle") \in [Requests -> RequestStates]
      BY GotoTypes
    <2>2. /\ req'[r].pc = "idle"
          /\ \A q \in Requests \ {r} : req'[q].pc = req[q].pc /\ req'[q].secret = req[q].secret
      BY <1>5, <2>1, GotoShape, ObservingShape DEF DisableOTP
    <2>3. \A q \in Requests \ {r} : ~Managing(q)
      BY <1>5 DEF DisableOTP
    <2>4. QED BY <1>5, <2>2, <2>3 DEF DisableOTP
  <1>6. ASSUME NEW r \in Requests,
               ReadRoles(r) \/ LoginDecide(r) \/ Issue(r) \/ Abandon(r)
        PROVE  Alone'
    <2>1. PICK l \in {"idle", "passwordGrant", "otpGrant"} : req' = Goto(r, l)
      BY <1>6 DEF ReadRoles, LoginDecide, Issue, Abandon
    <2>2. req'[r].pc = l /\ \A q \in Requests \ {r} : req'[q] = req[q]
      BY <2>1, GotoShape
    <2>3. UNCHANGED <<enabled, secret, device>>
      BY <1>6 DEF ReadRoles, LoginDecide, Issue, Abandon
    <2>4. QED BY <2>2, <2>3
  <1>7. ASSUME NEW r \in Requests, LoginRead(r) \/ LoginOTP(r) PROVE Alone'
    <2>1. /\ req'[r].pc \in {"loginRead", "otpGrant"}
          /\ \A q \in Requests \ {r} : req'[q] = req[q]
          /\ UNCHANGED <<enabled, secret, device>>
      BY <1>7 DEF LoginRead, LoginOTP, Began
    <2>2. QED BY <2>1
  <1>8. CASE RemoveUser
    <2>1. \A q \in Requests : req'[q].pc = req[q].pc
      BY <1>8, ObservingShape DEF RemoveUser
    <2>2. QED BY <1>8, <2>1 DEF RemoveUser, Quiet
  <1>9. CASE ChangePolicy
    <2>1. \A q \in Requests : req'[q].pc = req[q].pc /\ req'[q].secret = req[q].secret
      BY <1>9, ObservingShape DEF ChangePolicy
    <2>2. QED BY <1>9, <2>1 DEF ChangePolicy
  <1>10. CASE AddUser \/ UNCHANGED vars
    <2>1. UNCHANGED <<enabled, secret, device, req>>
      BY <1>10 DEF AddUser, vars
    <2>2. QED BY <2>1
  <1>11. QED BY <1>1, <1>2, <1>3, <1>4, <1>5, <1>6, <1>7, <1>8, <1>9, <1>10, NextCases

LEMMA AloneInvariant == Spec => []AloneInv
  <1>1. Init => AloneInv
    BY DEF Init, AloneInv, Alone, At, Managing, Idle
  <1>2. TypeOK /\ ShownGenerated /\ AloneInv /\ [Next]_vars => AloneInv'
    <2> SUFFICES ASSUME TypeOK, ShownGenerated, AloneInv, [Next]_vars, orderly'
                 PROVE  Alone'
      BY DEF AloneInv
    <2>1. orderly
      BY OrderlyOnce
    <2>2. QED BY <2>1, AloneStep DEF AloneInv
  <1>3. QED BY <1>1, <1>2, BaseInvariant, PTL DEF Spec

\* A user whose management requests do not overlap can always produce the code
\* of an enabled factor, whatever answers are lost.
THEOREM EnabledUsable == Spec => []EnabledIsUsable
  <1>1. AloneInv => EnabledIsUsable
    BY DEF AloneInv, Alone, EnabledIsUsable
  <1>2. QED BY <1>1, AloneInvariant, PTL

\* And for such a user the handlers implement OTPEnrolment.
THEOREM RefinesEnrolment == Spec => ImplementsEnrolment
  <1> DEFINE key == IF orderly THEN secret ELSE NoSecret
             known == IF orderly THEN device ELSE {}
             stage == IF ~orderly THEN "void" ELSE IF enabled THEN "on"
                      ELSE IF secret = NoSecret THEN "off" ELSE "pending"
             abstract == <<stage, key, known>>
  <1>1. Init => Enrolment!AInit
    BY DEF Init, Enrolment!AInit
  <1>2. TypeOK /\ ShownGenerated /\ AloneInv /\ [Next]_vars => [Enrolment!ANext]_abstract
    <2> SUFFICES ASSUME TypeOK, ShownGenerated, AloneInv, [Next]_vars
                 PROVE  Enrolment!ANext \/ UNCHANGED abstract
      OBVIOUS
    <2>1. CASE ~orderly'
      <3>1. Enrolment!Void
        BY <2>1 DEF Enrolment!Void
      <3>2. QED BY <3>1 DEF Enrolment!ANext
    <2>2. CASE orderly'
      <3> USE OTPAssumption DEF TypeOK, Alone, At
      <3>1. orderly /\ Alone
        BY <2>2, OrderlyOnce DEF AloneInv
      <3>2. ASSUME NEW r \in Requests, Setup(r) PROVE Enrolment!ANext
        <4>1. PICK s \in Secrets \ generated : secret' = s /\ UNCHANGED <<enabled, device>>
          BY <3>2 DEF Setup
        <4>2. ~enabled /\ s # NoSecret /\ s \notin device
          BY <2>2, <3>2, <4>1 DEF Setup
        <4>3. Enrolment!Offer(s)
          BY <2>2, <3>1, <4>1, <4>2 DEF Enrolment!Offer
        <4>4. QED BY <4>3 DEF Enrolment!ANext
      <3>3. ASSUME NEW r \in Requests, ShowSecret(r)
            PROVE  Enrolment!ANext \/ UNCHANGED abstract
        <4>1. ~enabled /\ device' = device \cup {secret} /\ UNCHANGED <<enabled, secret>>
          BY <3>1, <3>3 DEF ShowSecret
        <4>2. secret # NoSecret
          BY <3>1, <3>3 DEF ShowSecret, ShownGenerated
        <4>3. Enrolment!Learn
          BY <2>2, <3>1, <4>1, <4>2 DEF Enrolment!Learn
        <4>4. QED BY <4>3 DEF Enrolment!ANext
      <3>4. ASSUME NEW r \in Requests, EnableOTP(r)
            PROVE  Enrolment!ANext \/ UNCHANGED abstract
        <4>1. CASE member /\ ~enabled
          <5>1. secret \in device /\ secret # NoSecret
            BY <3>1, <3>4 DEF EnableOTP
          <5>2. Enrolment!Confirm
            BY <2>2, <3>1, <3>4, <4>1, <5>1 DEF EnableOTP, Enrolment!Confirm
          <5>3. QED BY <5>2 DEF Enrolment!ANext
        <4>2. CASE ~(member /\ ~enabled)
          BY <2>2, <3>1, <3>4, <4>2 DEF EnableOTP
        <4>3. QED BY <4>1, <4>2
      <3>5. ASSUME (\E r \in Requests : DisableOTP(r)) \/ RemoveUser PROVE Enrolment!ANext
        <4>1. enabled' = FALSE /\ secret' = NoSecret /\ device' = device
          BY <3>5 DEF DisableOTP, RemoveUser
        <4>2. Enrolment!Clear
          BY <2>2, <3>1, <4>1 DEF Enrolment!Clear
        <4>3. QED BY <4>2 DEF Enrolment!ANext
      <3>6. CASE UNCHANGED <<enabled, secret, device>>
        BY <2>2, <3>1, <3>6
      <3>7. \/ \E r \in Requests : Setup(r) \/ ShowSecret(r) \/ EnableOTP(r) \/ DisableOTP(r)
            \/ RemoveUser
            \/ UNCHANGED <<enabled, secret, device>>
        BY NextCases DEF CheckCode, ReadRoles, CheckDisable, LoginRead,
           LoginDecide, LoginOTP, Issue, Abandon, AddUser, ChangePolicy, vars
      <3>8. QED BY <3>2, <3>3, <3>4, <3>5, <3>6, <3>7
    <2>3. QED BY <2>1, <2>2
  <1>3. QED
    BY <1>1, <1>2, BaseInvariant, AloneInvariant, PTL
    DEF Spec, ImplementsEnrolment, Enrolment!ASpec, Enrolment!avars
=============================================================================
