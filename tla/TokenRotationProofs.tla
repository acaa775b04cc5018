------------------------- MODULE TokenRotationProofs -------------------------
(***************************************************************************)
(* Theorems about TokenRotation, for any number of tokens, requests and    *)
(* role sets.                                                              *)
(***************************************************************************)
EXTENDS TokenRotation, FiniteSetTheorems, TLAPS

\* Every step is a step of one request, a change of roles or an expiry.
LEMMA NextCases ==
  ASSUME [Next]_vars
  PROVE  \/ \E r \in Requests :
              \/ Login(r) \/ ReadRoles(r) \/ Forbid(r) \/ DeleteOld(r)
              \/ SaveNew(r) \/ Respond(r) \/ Abandon(r)
              \/ \E t \in Tokens : ReadToken(r, t)
         \/ \E x \in RoleSets \cup {NotMember} : ChangeRoles(x)
         \/ \E t \in Tokens : RefuseReplay(t) \/ Expire(t)
         \/ UNCHANGED vars
  BY DEF Next, Refresh

-----------------------------------------------------------------------------
(* Type correctness. *)

\* What the handlers know about the tokens in their local variables: the
\* presented token passed the check, the fresh one was inserted.
Bookkeeping ==
  /\ \A r \in Requests :
       /\ req[r].tok \in accepted \cup {NoToken}
       /\ req[r].pc \in {"tokenRead", "admitted"} => req[r].tok # NoToken
       /\ req[r].pc = "saved" => req[r].fresh \in issued
       /\ req[r].pc = "idle" => req[r].tok = NoToken
  /\ \A n \in issued : parent[n] \in issued \cup {NoToken}

Base == TypeOK /\ Bookkeeping

\* A step keeps the types and the bookkeeping.
LEMMA BaseStep == Base /\ [Next]_vars => Base'
  <1> SUFFICES ASSUME Base, [Next]_vars PROVE Base'
    OBVIOUS
  <1> USE DEF Base, Bookkeeping
  <1>1. ASSUME NEW r \in Requests, Login(r) PROVE Base'
    BY <1>1 DEF Login, TypeOK, Idle, RequestStates
  <1>2. ASSUME NEW r \in Requests, NEW t \in Tokens, ReadToken(r, t) PROVE Base'
    BY <1>2, RotationAssumption DEF ReadToken, TypeOK, Idle, RequestStates
  <1>4. ASSUME NEW r \in Requests, ReadRoles(r) PROVE Base'
    BY <1>4 DEF ReadRoles, TypeOK, RequestStates, At
  <1>5. ASSUME NEW r \in Requests, Forbid(r) \/ Abandon(r) PROVE Base'
    BY <1>5 DEF Forbid, Abandon, TypeOK, Idle, RequestStates
  <1>6. ASSUME NEW r \in Requests, DeleteOld(r) PROVE Base'
    BY <1>6 DEF DeleteOld, TypeOK, RequestStates
  <1>7. ASSUME NEW r \in Requests, SaveNew(r) PROVE Base'
    <2>1. PICK n \in Tokens \ issued :
            /\ rows' = rows \cup {n}
            /\ issued' = issued \cup {n}
            /\ parent' = [parent EXCEPT ![n] = req[r].tok]
            /\ req' = [req EXCEPT ![r] = [@ EXCEPT !.pc = "saved", !.fresh = n]]
      BY <1>7 DEF SaveNew
    <2>2. TypeOK'
      <3>1. [req[r] EXCEPT !.pc = "saved", !.fresh = n] \in RequestStates
        BY DEF TypeOK, RequestStates
      <3>2. req' \in [Requests -> RequestStates]
        BY <2>1, <3>1 DEF TypeOK
      <3>3. parent' \in [Tokens -> Tokens \cup {NoToken}]
        BY <2>1 DEF TypeOK, RequestStates
      <3>4. QED
        BY <1>7, <2>1, <3>2, <3>3 DEF SaveNew, TypeOK
    <2>3. \A m \in issued' : parent'[m] \in issued' \cup {NoToken}
      BY <2>1 DEF TypeOK
    <2>4. /\ req'[r].pc = "saved" /\ req'[r].fresh = n /\ req'[r].tok = req[r].tok
          /\ \A q \in Requests \ {r} : req'[q] = req[q]
      BY <2>1 DEF TypeOK, RequestStates
    <2>5. accepted' = accepted
      BY <1>7 DEF SaveNew
    <2>6. QED
      BY <2>1, <2>2, <2>3, <2>4, <2>5
  <1>8. ASSUME NEW r \in Requests, Respond(r) PROVE Base'
    BY <1>8 DEF Respond, TypeOK, Idle, RequestStates, At
  <1>9. ASSUME NEW x \in RoleSets \cup {NotMember}, ChangeRoles(x) PROVE Base'
    BY <1>9 DEF ChangeRoles, TypeOK, At, RequestStates
  <1>10. ASSUME NEW t \in Tokens, RefuseReplay(t) \/ Expire(t) PROVE Base'
    BY <1>10 DEF RefuseReplay, Expire, TypeOK
  <1>11. CASE UNCHANGED vars
    BY <1>11 DEF vars, TypeOK
  <1>12. QED BY <1>1, <1>2, <1>4, <1>5, <1>6, <1>7, <1>8, <1>9, <1>10, <1>11, NextCases

LEMMA BaseInvariant == Spec => []Base
  <1>1. Init => Base
    BY DEF Init, Base, Bookkeeping, TypeOK, Idle, RequestStates
  <1>2. QED BY <1>1, BaseStep, PTL DEF Spec

\* Every variable keeps its type, among other things a client only ever holds
\* tokens that were inserted first, and a refresh goes on only with a token that
\* was in the table when it was looked up.
THEOREM TypeCorrect == Spec => []Base
  BY BaseInvariant

-----------------------------------------------------------------------------
(* Tokens a client has never used. *)

\* A fresh token waiting for its response is in the table, belongs to one
\* request only and no client knows it yet; so nobody can have it deleted.
FreshSafe ==
  /\ \A r \in Requests : req[r].pc = "saved" => req[r].fresh \in rows \ delivered
  /\ \A q, r \in Requests :
       req[q].pc = "saved" /\ req[r].pc = "saved" /\ q # r => req[q].fresh # req[r].fresh

UnusedStored == delivered \ accepted \subseteq rows

\* A delivered token that no refresh has accepted is in the table (it is there
\* even when its family was replayed, of which the code takes no notice).
THEOREM UnusedLive == Spec => []UnusedTokensLive
  <1> DEFINE IInv == FreshSafe /\ UnusedStored
  <1>1. Init => IInv
    BY DEF Init, FreshSafe, UnusedStored, Idle
  <1>2. Base /\ IInv /\ [Next]_vars => IInv'
    <2> SUFFICES ASSUME Base, IInv, [Next]_vars PROVE IInv'
      OBVIOUS
    <2> USE DEF Base, Bookkeeping, TypeOK, FreshSafe, UnusedStored, RequestStates
    <2>1. ASSUME NEW r \in Requests, Login(r) \/ ReadRoles(r) \/ Forbid(r) \/ Abandon(r)
          PROVE  IInv'
      <3>1. /\ UNCHANGED <<rows, delivered, accepted>>
            /\ req'[r].pc # "saved" /\ \A q \in Requests \ {r} : req'[q] = req[q]
        <4>1. CASE Login(r)
          BY <4>1 DEF Login, Idle
        <4>2. CASE Forbid(r) \/ Abandon(r)
          BY <4>2 DEF Forbid, Abandon, Idle
        <4>3. CASE ReadRoles(r)
          BY <4>3 DEF ReadRoles
        <4>4. QED BY <2>1, <4>1, <4>2, <4>3
      <3>2. QED BY <3>1
    <2>2. ASSUME NEW r \in Requests, NEW t \in Tokens, ReadToken(r, t) PROVE IInv'
      BY <2>2 DEF ReadToken, Idle
    <2>4. ASSUME NEW r \in Requests, DeleteOld(r) PROVE IInv'
      <3>1. req[r].tok \in accepted
        BY <2>4 DEF DeleteOld, At
      <3>2. rows \ accepted \subseteq rows'
        BY <2>4, <3>1 DEF DeleteOld
      <3>3. QED BY <2>4, <3>2 DEF DeleteOld
    <2>5. ASSUME NEW r \in Requests, SaveNew(r) PROVE IInv'
      <3>1. PICK n \in Tokens \ issued :
              /\ rows' = rows \cup {n}
              /\ req' = [req EXCEPT ![r] = [@ EXCEPT !.pc = "saved", !.fresh = n]]
        BY <2>5 DEF SaveNew
      <3>2. delivered' = delivered /\ accepted' = accepted
        BY <2>5 DEF SaveNew
      <3>3. n \notin delivered /\ \A q \in Requests : req[q].pc = "saved" => req[q].fresh # n
        BY <3>1
      <3>4. QED BY <3>1, <3>2, <3>3
    <2>6. ASSUME NEW r \in Requests, Respond(r) PROVE IInv'
      BY <2>6 DEF Respond, At, Idle
    <2>7. ASSUME NEW x \in RoleSets \cup {NotMember}, ChangeRoles(x) PROVE IInv'
      BY <2>7 DEF ChangeRoles, At
    <2>8. ASSUME NEW t \in Tokens, RefuseReplay(t) \/ Expire(t) PROVE IInv'
      BY <2>8 DEF RefuseReplay, Expire
    <2>9. CASE UNCHANGED vars
      BY <2>9 DEF vars
    <2>10. QED BY <2>1, <2>2, <2>4, <2>5, <2>6, <2>7, <2>8, <2>9, NextCases
  <1>3. IInv => UnusedTokensLive
    BY DEF UnusedStored, UnusedTokensLive
  <1>4. QED BY <1>1, <1>2, <1>3, BaseInvariant, PTL DEF Spec

-----------------------------------------------------------------------------
(* The roles in an access token. *)

\* Whoever is in flight has seen the current roles since the request began.
HeldCurrent == \A r \in Requests : req[r].pc # "idle" => roles \in req[r].held

\* The roles served are roles the user had during the request.
THEOREM ServedRoles == Spec => []ServedRolesWereHeld
  <1> DEFINE IInv == HeldCurrent /\ ServedRolesWereHeld
  <1>1. Init => IInv
    BY DEF Init, HeldCurrent, ServedRolesWereHeld, Idle
  <1>2. TypeOK /\ IInv /\ [Next]_vars => IInv'
    <2> SUFFICES ASSUME TypeOK, IInv, [Next]_vars PROVE IInv'
      OBVIOUS
    <2> USE DEF TypeOK, HeldCurrent, ServedRolesWereHeld, RequestStates
    <2>1. ASSUME NEW r \in Requests, Login(r) \/ ReadRoles(r) \/ DeleteOld(r) PROVE IInv'
      <3>1. CASE Login(r)
        BY <3>1 DEF Login, Idle
      <3>2. CASE ReadRoles(r)
        BY <3>2 DEF ReadRoles, At
      <3>3. CASE DeleteOld(r)
        BY <3>3 DEF DeleteOld, At
      <3>4. QED BY <2>1, <3>1, <3>2, <3>3
    <2>2. ASSUME NEW r \in Requests, Forbid(r) \/ Abandon(r) \/ Respond(r) PROVE IInv'
      BY <2>2 DEF Forbid, Abandon, Respond, Idle
    <2>3. ASSUME NEW r \in Requests, NEW t \in Tokens, ReadToken(r, t)
          PROVE  IInv'
      BY <2>3 DEF ReadToken, Idle
    <2>4. ASSUME NEW r \in Requests, SaveNew(r) PROVE IInv'
      BY <2>4 DEF SaveNew, At
    <2>5. ASSUME NEW x \in RoleSets \cup {NotMember}, ChangeRoles(x) PROVE IInv'
      BY <2>5 DEF ChangeRoles, At
    <2>6. CASE (\E t \in Tokens : RefuseReplay(t) \/ Expire(t)) \/ UNCHANGED vars
      BY <2>6 DEF RefuseReplay, Expire, vars
    <2>7. QED BY <2>1, <2>2, <2>3, <2>4, <2>5, <2>6, NextCases
  <1>3. QED BY <1>1, <1>2, BaseInvariant, PTL DEF Spec, Base

-----------------------------------------------------------------------------
(* Exchanged tokens. *)

\* Once the DELETE of a refresh has been executed its token is gone, if that
\* DELETE does not fail.
MintingSpent == \A r \in Requests : req[r].pc = "minting" => req[r].tok \notin rows \ Stuck

SpentInv == MintingSpent /\ ExchangedIsDead

\* Spent and exchanged tokens stay dead.
LEMMA SpentStep ==
  ASSUME Base, SpentInv, [Next]_vars
  PROVE  SpentInv'
  <1> USE DEF Base, Bookkeeping, TypeOK, SpentInv, MintingSpent, ExchangedIsDead, RequestStates
  <1>1. ASSUME NEW r \in Requests, Login(r) PROVE SpentInv'
    BY <1>1, RotationAssumption DEF Login, Idle
  <1>2. ASSUME NEW r \in Requests, NEW t \in Tokens, ReadToken(r, t) PROVE SpentInv'
    BY <1>2 DEF ReadToken, Idle
  <1>4. ASSUME NEW r \in Requests, ReadRoles(r) PROVE SpentInv'
    BY <1>4 DEF ReadRoles
  <1>5. ASSUME NEW r \in Requests, Forbid(r) \/ Abandon(r) \/ Respond(r) PROVE SpentInv'
    BY <1>5 DEF Forbid, Abandon, Respond, Idle
  <1>6. ASSUME NEW r \in Requests, DeleteOld(r) PROVE SpentInv'
    BY <1>6 DEF DeleteOld
  <1>7. ASSUME NEW r \in Requests, SaveNew(r) PROVE SpentInv'
    <2>1. PICK n \in Tokens \ issued :
            /\ rows' = rows \cup {n}
            /\ issued' = issued \cup {n}
            /\ parent' = [parent EXCEPT ![n] = req[r].tok]
            /\ req' = [req EXCEPT ![r] = [@ EXCEPT !.pc = "saved", !.fresh = n]]
      BY <1>7 DEF SaveNew
    <2>2. req[r].tok \notin rows' \ Stuck /\ req[r].tok \in issued \cup {NoToken}
      BY <1>7, <2>1, RotationAssumption DEF SaveNew, At
    <2>3. \A q \in Requests : req'[q].pc = "minting" => req'[q] = req[q] /\ req[q].tok # n
      BY <2>1, RotationAssumption
    <2>4. MintingSpent'
      BY <2>1, <2>3
    <2>5. \A m \in issued' : parent'[m] \notin rows' \ Stuck
      BY <2>1, <2>2, RotationAssumption
    <2>6. QED BY <2>4, <2>5
  <1>8. ASSUME NEW x \in RoleSets \cup {NotMember}, ChangeRoles(x) PROVE SpentInv'
    BY <1>8 DEF ChangeRoles, At
  <1>9. CASE (\E t \in Tokens : RefuseReplay(t) \/ Expire(t)) \/ UNCHANGED vars
    BY <1>9 DEF RefuseReplay, Expire, vars
  <1>10. QED BY <1>1, <1>2, <1>4, <1>5, <1>6, <1>7, <1>8, <1>9, NextCases

LEMMA SpentInvariant == Spec => []SpentInv
  <1>1. Init => SpentInv
    BY DEF Init, SpentInv, MintingSpent, ExchangedIsDead, Idle
  <1>2. Base /\ SpentInv /\ [Next]_vars => SpentInv'
    BY SpentStep
  <1>3. QED BY <1>1, <1>2, BaseInvariant, PTL DEF Spec

\* A token that was exchanged is no longer in the table, however many handlers
\* exchanged it at once, unless its own DELETE may fail.
THEOREM ExchangedDead == Spec => []ExchangedIsDead
  BY SpentInvariant, PTL DEF SpentInv

-----------------------------------------------------------------------------
(* Sound tokens. *)

\* No careful token is in the hands of two requests.
InOneHand ==
  \A q, r \in Requests : q # r /\ req[q].tok \in Careful => req[q].tok # req[r].tok

\* A sound token is in the table until its DELETE, and between its DELETE and
\* the INSERT it has no heir.
SoundInv ==
  \A r \in Requests : req[r].tok \in Sound =>
    /\ req[r].pc \in {"tokenRead", "admitted"} => req[r].tok \in rows
    /\ req[r].pc = "minting" => \A n \in issued : parent[n] # req[r].tok

SingleInv == InOneHand /\ SoundInv /\ OneHeir

\* No request, whatever it does with other tokens, disturbs a sound one.
LEMMA SingleStep ==
  ASSUME Base, SpentInv, SingleInv, [Next]_vars
  PROVE  SingleInv'
  <1> USE DEF Base, Bookkeeping, TypeOK, SingleInv, InOneHand, SoundInv, OneHeir, RequestStates
  <1>0. Sound \subseteq Careful /\ Sound \cap Stuck = {} /\ NoToken \notin Careful
    BY RotationAssumption DEF Sound
  <1>1. ASSUME NEW r \in Requests, Login(r) PROVE SingleInv'
    BY <1>0, <1>1 DEF Login, Idle
  <1>2. ASSUME NEW r \in Requests, NEW t \in Tokens, ReadToken(r, t)
        PROVE  SingleInv'
    <2>1. /\ t \in rows /\ (t \in Careful => \A q \in Requests : req[q].tok # t)
          /\ UNCHANGED <<rows, issued, parent>>
          /\ req'[r].tok = t /\ req'[r].pc = "tokenRead"
          /\ \A q \in Requests \ {r} : req'[q] = req[q]
      BY <1>2 DEF ReadToken, Idle
    <2>2. InOneHand'
      BY <2>1
    <2>3. SoundInv'
      BY <2>1
    <2>4. OneHeir'
      BY <2>1
    <2>5. QED BY <2>2, <2>3, <2>4
  <1>4. ASSUME NEW r \in Requests, ReadRoles(r) PROVE SingleInv'
    BY <1>4 DEF ReadRoles, At
  <1>5. ASSUME NEW r \in Requests, Forbid(r) \/ Abandon(r) \/ Respond(r)
        PROVE  SingleInv'
    BY <1>0, <1>5 DEF Forbid, Abandon, Respond, Idle
  <1>6. ASSUME NEW r \in Requests, DeleteOld(r) PROVE SingleInv'
    <2>1. req[r].pc = "admitted" /\ req[r].tok # NoToken
      BY <1>6 DEF DeleteOld, At
    <2>2. rows \ {req[r].tok} \subseteq rows' /\ UNCHANGED <<issued, parent>>
      BY <1>6 DEF DeleteOld
    <2>3. req[r].tok \in Sound => \A n \in issued : parent[n] # req[r].tok
      BY <1>0, <2>1 DEF SpentInv, ExchangedIsDead
    <2>4. /\ req'[r].pc = "minting" /\ req'[r].tok = req[r].tok
          /\ \A q \in Requests \ {r} : req'[q] = req[q]
      BY <1>6 DEF DeleteOld
    <2>5. OneHeir'
      BY <2>2
    <2>6. InOneHand'
      <3>1. \A q \in Requests : req'[q].tok = req[q].tok
        BY <2>4
      <3>2. QED BY <3>1
    <2>7. ASSUME NEW q \in Requests, req'[q].tok \in Sound
          PROVE  /\ req'[q].pc \in {"tokenRead", "admitted"} => req'[q].tok \in rows'
                 /\ req'[q].pc = "minting" => \A n \in issued' : parent'[n] # req'[q].tok
      <3>1. CASE q = r
        BY <2>2, <2>3, <2>4, <2>7, <3>1
      <3>2. CASE q # r
        <4>1. req'[q] = req[q] /\ req[q].tok # req[r].tok
          BY <1>0, <2>4, <2>7, <3>2
        <4>2. QED BY <2>2, <2>7, <4>1
      <3>3. QED BY <3>1, <3>2
    <2>8. QED BY <2>5, <2>6, <2>7
  <1>7. ASSUME NEW r \in Requests, SaveNew(r) PROVE SingleInv'
    <2>1. PICK n \in Tokens \ issued :
            /\ rows' = rows \cup {n}
            /\ issued' = issued \cup {n}
            /\ parent' = [parent EXCEPT ![n] = req[r].tok]
            /\ req' = [req EXCEPT ![r] = [@ EXCEPT !.pc = "saved", !.fresh = n]]
      BY <1>7 DEF SaveNew
    <2>2. /\ req'[r].pc = "saved" /\ req'[r].tok = req[r].tok
          /\ \A q \in Requests \ {r} : req'[q] = req[q]
      BY <2>1
    <2>3. \A m \in issued : /\ parent'[m] = parent[m]
                            /\ req[r].tok \in Sound => parent[m] # req[r].tok
      BY <1>7, <2>1 DEF SaveNew, At
    <2>4. parent'[n] = req[r].tok
      BY <2>1
    <2>5. OneHeir'
      BY <2>1, <2>3, <2>4
    <2>6. InOneHand'
      BY <2>2
    <2>7. ASSUME NEW q \in Requests, req'[q].tok \in Sound
          PROVE  /\ req'[q].pc \in {"tokenRead", "admitted"} => req'[q].tok \in rows'
                 /\ req'[q].pc = "minting" => \A m \in issued' : parent'[m] # req'[q].tok
      <3>1. CASE q = r
        BY <2>2, <3>1
      <3>2. CASE q # r
        <4>1. req'[q] = req[q] /\ req[q].tok # req[r].tok
          BY <1>0, <2>2, <2>7, <3>2
        <4>2. QED BY <2>1, <2>3, <2>4, <2>7, <4>1
      <3>3. QED BY <3>1, <3>2
    <2>8. QED BY <2>5, <2>6, <2>7
  <1>8. ASSUME NEW x \in RoleSets \cup {NotMember}, ChangeRoles(x) PROVE SingleInv'
    BY <1>8 DEF ChangeRoles, At
  <1>9. CASE (\E t \in Tokens : RefuseReplay(t) \/ Expire(t)) \/ UNCHANGED vars
    BY <1>9 DEF RefuseReplay, Expire, vars
  <1>10. QED BY <1>1, <1>2, <1>4, <1>5, <1>6, <1>7, <1>8, <1>9, NextCases

LEMMA SingleInvariant == Spec => []SingleInv
  <1>1. Init => SingleInv
    BY RotationAssumption DEF Init, SingleInv, InOneHand, SoundInv, OneHeir, Idle, Sound
  <1>2. Base /\ SpentInv /\ SingleInv /\ [Next]_vars => SingleInv'
    BY SingleStep
  <1>3. QED BY <1>1, <1>2, BaseInvariant, SpentInvariant, PTL DEF Spec

\* A sound token is exchanged at most once, whatever happens to the others.
THEOREM SoundOneHeir == Spec => []OneHeir
  BY SingleInvariant, PTL DEF SingleInv

-----------------------------------------------------------------------------
(* Single use, and what it means for the number of sessions. *)

\* A token is inserted for a login, or for a token nothing can be promised about.
Unpaid(n, r) ==
  /\ At(r, "minting") /\ At(r, "saved")' /\ req[r].tok \notin Sound
  /\ SingleUse!ALogin(n)

\* What each step does to the table and to the exchanges in progress: the DELETE
\* of a sound token is the exchange, the INSERT redeems the claim it earned; the
\* DELETE of another token loses it, and what is inserted for it is unpaid.
LEMMA AbstractStep ==
  ASSUME Base, SingleInv, [Next]_vars
  PROVE  \/ \E n \in Tokens, r \in Requests : Unpaid(n, r)
         \/ \E t \in Tokens : SingleUse!Lose(t)
         \/ \E t \in Tokens, r \in Requests : SingleUse!Exchange(t, r) \/ SingleUse!Redeem(t, r)
         \/ \E r \in Requests : SingleUse!Forfeit(r)
         \/ UNCHANGED <<issued, rows, Exchanging>>
  <1> DEFINE same == UNCHANGED <<issued, rows, Exchanging>>
  <1>0. NoToken \notin Sound
    BY RotationAssumption DEF Sound
  <1> USE DEF Base, Bookkeeping, TypeOK, RequestStates, At, Exchanging
  <1>1. ASSUME NEW r \in Requests, Login(r) PROVE same
    BY <1>0, <1>1 DEF Login, Idle
  <1>2. ASSUME NEW r \in Requests, NEW t \in Tokens, ReadToken(r, t) PROVE same
    BY <1>2 DEF ReadToken, Idle
  <1>3. ASSUME NEW r \in Requests, ReadRoles(r) PROVE same
    BY <1>3 DEF ReadRoles
  <1>4. ASSUME NEW r \in Requests, Forbid(r) \/ Respond(r) PROVE same
    BY <1>4 DEF Forbid, Respond, Idle
  <1>5. ASSUME NEW r \in Requests, DeleteOld(r)
        PROVE  (\E t \in Tokens : SingleUse!Exchange(t, r) \/ SingleUse!Lose(t)) \/ same
    <2>1. req[r].pc = "admitted" /\ req[r].tok \in Tokens /\ issued' = issued
      BY <1>5, RotationAssumption DEF DeleteOld
    <2>2. CASE req[r].tok \in Sound
      <3>1. rows' = rows \ {req[r].tok} /\ req[r].tok \in rows
        BY <1>5, <2>1, <2>2 DEF DeleteOld, Sound, SingleInv, SoundInv
      <3>2. Exchanging' = Exchanging \cup {r} /\ r \notin Exchanging
        BY <1>5, <2>1, <2>2 DEF DeleteOld
      <3>3. SingleUse!Exchange(req[r].tok, r)
        BY <2>1, <3>1, <3>2 DEF SingleUse!Exchange
      <3>4. QED BY <2>1, <3>3
    <2>3. CASE req[r].tok \notin Sound
      <3>1. Exchanging' = Exchanging
        BY <1>5, <2>1, <2>3 DEF DeleteOld
      <3>2. CASE rows' = rows
        BY <2>1, <3>1, <3>2
      <3>3. CASE rows' # rows
        <4>1. rows' = rows \ {req[r].tok} /\ req[r].tok \in rows
          BY <1>5, <3>3 DEF DeleteOld
        <4>2. SingleUse!Lose(req[r].tok)
          BY <2>1, <3>1, <4>1 DEF SingleUse!Lose
        <4>3. QED BY <2>1, <4>2
      <3>4. QED BY <3>2, <3>3
    <2>4. QED BY <2>2, <2>3
  <1>6. ASSUME NEW r \in Requests, SaveNew(r)
        PROVE  \E n \in Tokens : Unpaid(n, r) \/ SingleUse!Redeem(n, r)
    <2>1. PICK n \in Tokens \ issued :
            /\ rows' = rows \cup {n}
            /\ issued' = issued \cup {n}
            /\ req' = [req EXCEPT ![r] = [@ EXCEPT !.pc = "saved", !.fresh = n]]
      BY <1>6 DEF SaveNew
    <2>2. Exchanging' = Exchanging \ {r} /\ req[r].pc = "minting" /\ req'[r].pc = "saved"
      BY <1>6, <2>1 DEF SaveNew
    <2>3. CASE req[r].tok \notin Sound
      BY <2>1, <2>2, <2>3 DEF Unpaid, SingleUse!ALogin, SingleUse!Mint
    <2>4. CASE req[r].tok \in Sound
      BY <2>1, <2>2, <2>4 DEF SingleUse!Redeem, SingleUse!Mint
    <2>5. QED BY <2>3, <2>4
  <1>7. ASSUME NEW r \in Requests, Abandon(r)
        PROVE  SingleUse!Forfeit(r) \/ same
    BY <1>7 DEF Abandon, Idle, SingleUse!Forfeit
  <1>8. ASSUME NEW x \in RoleSets \cup {NotMember}, ChangeRoles(x) PROVE same
    BY <1>8 DEF ChangeRoles
  <1>9. CASE (\E t \in Tokens : RefuseReplay(t) \/ Expire(t)) \/ UNCHANGED vars
    BY <1>9 DEF RefuseReplay, Expire, vars
  <1>10. QED
    BY <1>1, <1>2, <1>3, <1>4, <1>5, <1>6, <1>7, <1>8, <1>9, NextCases

\* The handlers implement SingleUseTokens: for sound tokens, what a refresh
\* creates is paid for by exactly one token that is gone.
THEOREM RefinesSingleUse == Spec => ImplementsSingleUse
  <1>1. Init => SingleUse!AInit
    BY DEF Init, SingleUse!AInit, Exchanging, At, Idle
  <1>2. Base /\ SingleInv /\ [Next]_vars => [SingleUse!ANext]_(SingleUse!avars)
    BY AbstractStep DEF Unpaid, SingleUse!ANext, SingleUse!avars
  <1>3. QED
    BY <1>1, <1>2, BaseInvariant, SingleInvariant, PTL
    DEF Spec, ImplementsSingleUse, SingleUse!ASpec

\* Table and exchanges are finite, however many tokens and requests there may be.
SessionsFinite == IsFiniteSet(rows) /\ IsFiniteSet(Exchanging)

\* Adding and removing one element, in the form the steps need.
LEMMA CountOneMore ==
  ASSUME NEW S, IsFiniteSet(S), NEW x, x \notin S
  PROVE  /\ IsFiniteSet(S \cup {x})
         /\ Cardinality(S \cup {x}) = Cardinality(S) + 1
  BY FS_AddElement

LEMMA CountOneLess ==
  ASSUME NEW S, IsFiniteSet(S), NEW x \in S
  PROVE  /\ IsFiniteSet(S \ {x})
         /\ Cardinality(S \ {x}) = Cardinality(S) - 1
  BY FS_RemoveElement

\* Only an unpaid INSERT makes the number of sessions grow.
LEMMA SessionStep ==
  ASSUME Base, SingleInv, SessionsFinite, [Next]_vars
  PROVE  /\ SessionsFinite'
         /\ Worth' > Worth => \E n \in Tokens, r \in Requests : Unpaid(n, r)
  <1> USE DEF SessionsFinite, Worth
  <1>0. Cardinality(rows) \in Nat /\ Cardinality(Exchanging) \in Nat
    BY FS_CardinalityType
  <1>1. CASE UNCHANGED <<issued, rows, Exchanging>>
    BY <1>0, <1>1
  <1>2. CASE \E n \in Tokens, r \in Requests : Unpaid(n, r)
    <2>1. PICK n \in Tokens : n \notin issued /\ rows' = rows \cup {n} /\ Exchanging' = Exchanging
      BY <1>2 DEF Unpaid, SingleUse!ALogin, SingleUse!Mint
    <2>2. IsFiniteSet(rows \cup {n})
      BY <2>1, CountOneMore DEF Base, TypeOK
    <2>3. QED BY <1>2, <2>1, <2>2
  <1>3. ASSUME NEW t \in Tokens, SingleUse!Lose(t)
        PROVE  SessionsFinite' /\ Worth' = Worth - 1
    <2>1. t \in rows /\ rows' = rows \ {t} /\ Exchanging' = Exchanging
      BY <1>3 DEF SingleUse!Lose
    <2>2. IsFiniteSet(rows \ {t}) /\ Cardinality(rows \ {t}) = Cardinality(rows) - 1
      BY <2>1, CountOneLess
    <2>3. QED BY <1>0, <2>1, <2>2
  <1>4. ASSUME NEW t \in Tokens, NEW r \in Requests, SingleUse!Exchange(t, r)
        PROVE  SessionsFinite' /\ Worth' = Worth
    <2>1. /\ t \in rows /\ r \notin Exchanging
          /\ rows' = rows \ {t} /\ Exchanging' = Exchanging \cup {r}
      BY <1>4 DEF SingleUse!Exchange
    <2>2. IsFiniteSet(rows \ {t}) /\ Cardinality(rows \ {t}) = Cardinality(rows) - 1
      BY <2>1, CountOneLess
    <2>3. /\ IsFiniteSet(Exchanging \cup {r})
          /\ Cardinality(Exchanging \cup {r}) = Cardinality(Exchanging) + 1
      BY <2>1, CountOneMore
    <2>4. QED BY <1>0, <2>1, <2>2, <2>3
  <1>5. ASSUME NEW n \in Tokens, NEW r \in Requests, SingleUse!Redeem(n, r)
        PROVE  SessionsFinite' /\ Worth' = Worth
    <2>1. /\ r \in Exchanging /\ n \notin rows
          /\ rows' = rows \cup {n} /\ Exchanging' = Exchanging \ {r}
      BY <1>5 DEF SingleUse!Redeem, SingleUse!Mint, Base, TypeOK
    <2>2. IsFiniteSet(rows \cup {n}) /\ Cardinality(rows \cup {n}) = Cardinality(rows) + 1
      BY <2>1, CountOneMore
    <2>3. /\ IsFiniteSet(Exchanging \ {r})
          /\ Cardinality(Exchanging \ {r}) = Cardinality(Exchanging) - 1
      BY <2>1, CountOneLess
    <2>4. QED BY <1>0, <2>1, <2>2, <2>3
  <1>6. ASSUME NEW r \in Requests, SingleUse!Forfeit(r)
        PROVE  SessionsFinite' /\ Worth' = Worth - 1
    <2>1. r \in Exchanging /\ Exchanging' = Exchanging \ {r} /\ rows' = rows
      BY <1>6 DEF SingleUse!Forfeit
    <2>2. /\ IsFiniteSet(Exchanging \ {r})
          /\ Cardinality(Exchanging \ {r}) = Cardinality(Exchanging) - 1
      BY <2>1, CountOneLess
    <2>3. QED BY <1>0, <2>1, <2>2
  <1>7. ASSUME Worth' = Worth \/ Worth' = Worth - 1 PROVE ~(Worth' > Worth)
    BY <1>0, <1>7
  <1>8. QED
    BY <1>1, <1>2, <1>3, <1>4, <1>5, <1>6, <1>7, AbstractStep

\* Sessions do not multiply: their number grows only by a login, or by a refresh
\* with a token that is stuck or in careless hands.
THEOREM SessionsDoNotMultiply == Spec => SessionsConserved
  <1>1. Init => SessionsFinite
    <2>1. Init => rows = {} /\ \A r \in Requests : ~At(r, "minting")
      BY DEF Init, At, Idle
    <2>2. (\A r \in Requests : ~At(r, "minting")) => Exchanging = {}
      BY DEF Exchanging
    <2>3. QED BY <2>1, <2>2, FS_EmptySet DEF SessionsFinite
  <1>2. Base /\ SingleInv /\ SessionsFinite /\ [Next]_vars => SessionsFinite'
    BY SessionStep
  <1>3. Spec => []SessionsFinite
    BY <1>1, <1>2, BaseInvariant, SingleInvariant, PTL DEF Spec
  <1>4. Base /\ SingleInv /\ SessionsFinite /\ [Next]_vars
          => [Worth' > Worth => \E r \in Requests :
                At(r, "minting") /\ At(r, "saved")' /\ req[r].tok \notin Sound]_vars
    BY SessionStep DEF Unpaid
  <1>5. QED
    BY <1>3, <1>4, BaseInvariant, SingleInvariant, PTL DEF Spec, SessionsConserved

\* A token that is no longer in the table is refused for ever: whichever way it
\* went, no login and no refresh, finished or broken off, brings it back.
THEOREM GoneForGood ==
  ASSUME NEW t \in Tokens
  PROVE  Spec => [](t \in issued \ rows => [](t \notin rows))
  <1>1. t \in issued \ rows /\ Base /\ SingleInv /\ [Next]_vars => (t \in issued \ rows)'
    BY AbstractStep
    DEF Unpaid, SingleUse!ALogin, SingleUse!Mint, SingleUse!Lose, SingleUse!Exchange,
        SingleUse!Redeem, SingleUse!Forfeit
  <1>2. t \in issued \ rows => t \notin rows
    OBVIOUS
  <1>3. QED BY <1>1, <1>2, BaseInvariant, SingleInvariant, PTL DEF Spec
=============================================================================
