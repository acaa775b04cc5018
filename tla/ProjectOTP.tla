----------------------------- MODULE ProjectOTP -----------------------------
(***************************************************************************)
(* The second factor of one user in one project: the row of user_projects  *)
(* that OTP setup, verify, disable and the login handlers share, while an  *)
(* owner adds and removes the user and changes force_2fa.  There is no     *)
(* transaction, so a step is one SQL statement with the code up to the     *)
(* next one (Athena/internal/handlers/otp_handlers.go, auth_handlers.go,   *)
(* internal/database/project_repository.go).  The user always knows his    *)
(* password and holds an access or grace token; a TOTP code is the secret  *)
(* it was computed from.  Requests that are refused at their first         *)
(* statement change nothing and are left out.                              *)
(***************************************************************************)
EXTENDS Naturals, FiniteSets

CONSTANTS
  Requests,   \* HTTP requests that may be in flight at once
  Secrets,    \* bound: the TOTP secrets that may be generated in a behaviour
  NoSecret    \* otp_secret IS NULL

ASSUME OTPAssumption == NoSecret \notin Secrets

VARIABLES
  member,     \* the user has a row in user_projects
  enabled,    \* its otp_enabled
  secret,     \* its otp_secret
  force2FA,   \* projects.force_2fa
  generated,  \* secrets made so far
  device,     \* secrets the user's authenticator has received
  req,        \* the state of each request
  orderly     \* history: so far user and owner acted like one browser tab, whose
              \* requests to manage OTP or membership do not overlap and which
              \* offers Setup only while OTP is off (ProfileView.js)

vars == <<member, enabled, secret, force2FA, generated, device, req, orderly>>

\* pc       idle, or what the request does next:
\*          setupStored  answer with the new secret
\*          codeOk       EnableOTP           confirmed      read the roles
\*          disabling    DisableOTP          loginRead      read the settings
\*          passwordGrant, otpGrant          issue the tokens
\* secret   the secret made or validated by the request
\* enabled  projectData.OTPEnabled as the login read it
\* seen     history: <<force_2fa, otp_enabled>> since the request began
Settings == BOOLEAN \X BOOLEAN

RequestStates ==
  [pc : {"idle", "setupStored", "codeOk", "confirmed", "disabling", "loginRead",
         "passwordGrant", "otpGrant"},
   secret : Secrets \cup {NoSecret},
   enabled : BOOLEAN,
   seen : SUBSET Settings]

Idle == [pc |-> "idle", secret |-> NoSecret, enabled |-> FALSE, seen |-> {}]

TypeOK ==
  /\ member \in BOOLEAN /\ enabled \in BOOLEAN /\ force2FA \in BOOLEAN
  /\ secret \in generated \cup {NoSecret}
  /\ generated \subseteq Secrets
  /\ device \subseteq generated
  /\ req \in [Requests -> RequestStates]
  /\ orderly \in BOOLEAN

Init ==
  /\ member = TRUE /\ enabled = FALSE /\ secret = NoSecret
  /\ force2FA \in BOOLEAN
  /\ generated = {} /\ device = {}
  /\ req = [r \in Requests |-> Idle]
  /\ orderly = TRUE

At(r, l) == req[r].pc = l

Managing(r) == req[r].pc \in {"setupStored", "codeOk", "confirmed", "disabling"}

Quiet == \A r \in Requests : ~Managing(r)

Began(l, s, e) ==
  [pc |-> l, secret |-> s, enabled |-> e, seen |-> {<<force2FA, enabled>>}]

\* The request r moves on to l.
Goto(r, l) == [req EXCEPT ![r] = IF l = "idle" THEN Idle ELSE [@ EXCEPT !.pc = l]]

\* The requests rs, those in flight having seen the settings p.
Observing(rs, p) ==
  [r \in Requests |->
     IF rs[r].pc = "idle" THEN rs[r] ELSE [rs[r] EXCEPT !.seen = @ \cup {p}]]

-----------------------------------------------------------------------------
\* Bugs this code could have had; each must break a property below.

\* Setup starts over: it also clears otp_enabled.
BugSetupDisables(r) ==
  /\ At(r, "idle") /\ member
  /\ orderly' = (orderly /\ Quiet /\ ~enabled)
  /\ \E s \in Secrets \ generated :
       /\ generated' = generated \cup {s}
       /\ secret' = s
       /\ enabled' = FALSE
       /\ req' = Observing([req EXCEPT ![r] = Began("setupStored", s, FALSE)],
                           <<force2FA, FALSE>>)
  /\ UNCHANGED <<member, force2FA, device>>

\* Verify enables OTP whatever code it is given.
BugAnyCode(r) ==
  /\ At(r, "idle") /\ member
  /\ orderly' = (orderly /\ Quiet)
  /\ secret # NoSecret
  /\ req' = [req EXCEPT ![r] = Began("codeOk", secret, FALSE)]
  /\ UNCHANGED <<member, enabled, secret, force2FA, generated, device>>

\* DisableOTP clears the secret but not the flag.
BugKeepFlag(r) ==
  /\ At(r, "disabling")
  /\ secret' = IF member THEN NoSecret ELSE secret
  /\ req' = Goto(r, "idle")
  /\ UNCHANGED <<member, enabled, force2FA, generated, device, orderly>>

\* The login asks for a code only where the project forces 2FA.
BugOnlyForced(r) ==
  /\ At(r, "loginRead")
  /\ req' = Goto(r, IF force2FA THEN "idle" ELSE "passwordGrant")
  /\ UNCHANGED <<member, enabled, secret, force2FA, generated, device, orderly>>

-----------------------------------------------------------------------------
\* SetupOTPHandler.

\* totp.Generate and SetOTPSecretAndURL, which overwrites the secret in the
\* row whether or not OTP is enabled.
Setup(r) ==
  /\ At(r, "idle") /\ member
  /\ orderly' = (orderly /\ Quiet /\ ~enabled)
  /\ \E s \in Secrets \ generated :
       /\ generated' = generated \cup {s}
       /\ secret' = s
       /\ req' = [req EXCEPT ![r] = Began("setupStored", s, FALSE)]
  /\ UNCHANGED <<member, enabled, force2FA, device>>

\* The answer with the secret reaches the user's device.
ShowSecret(r) ==
  /\ At(r, "setupStored")
  /\ device' = device \cup {req[r].secret}
  /\ req' = Goto(r, "idle")
  /\ UNCHANGED <<member, enabled, secret, force2FA, generated, orderly>>

-----------------------------------------------------------------------------
\* VerifyOTPHandler.

\* GetUserOTPSecretAndStatus and ValidateOTPCode.
CheckCode(r) ==
  /\ At(r, "idle") /\ member
  /\ orderly' = (orderly /\ Quiet)
  /\ secret # NoSecret /\ secret \in device
  /\ req' = [req EXCEPT ![r] = Began("codeOk", secret, FALSE)]
  /\ UNCHANGED <<member, enabled, secret, force2FA, generated, device>>

\* EnableOTP: UPDATE by user and project only.  MySQL reports the rows that
\* changed, so an enabled row is ErrUserNotInProject too (500).
EnableOTP(r) ==
  /\ At(r, "codeOk")
  /\ IF member /\ ~enabled
     THEN /\ enabled' = TRUE
          /\ req' = Observing(Goto(r, "confirmed"), <<force2FA, TRUE>>)
     ELSE /\ req' = Goto(r, "idle")
          /\ UNCHANGED enabled
  /\ UNCHANGED <<member, secret, force2FA, generated, device, orderly>>

\* GetUserByID and GetUserProjectData: tokens, or 401 for one who was removed.
ReadRoles(r) ==
  /\ At(r, "confirmed")
  /\ req' = Goto(r, IF member THEN "otpGrant" ELSE "idle")
  /\ UNCHANGED <<member, enabled, secret, force2FA, generated, device, orderly>>

-----------------------------------------------------------------------------
\* DisableOTPHandler.

\* GetUserOTPSecretAndStatus, the test that OTP is on, ValidateOTPCode.
CheckDisable(r) ==
  /\ At(r, "idle") /\ member
  /\ orderly' = (orderly /\ Quiet)
  /\ enabled /\ secret # NoSecret /\ secret \in device
  /\ req' = [req EXCEPT ![r] = Began("disabling", secret, FALSE)]
  /\ UNCHANGED <<member, enabled, secret, force2FA, generated, device>>

\* DisableOTP: UPDATE by user and project only; without a row, or with nothing
\* to change in it, the answer is 500 instead of 200.
DisableOTP(r) ==
  /\ At(r, "disabling")
  /\ enabled' = FALSE
  /\ secret' = NoSecret
  /\ req' = Observing(Goto(r, "idle"), <<force2FA, FALSE>>)
  /\ UNCHANGED <<member, force2FA, generated, device, orderly>>

-----------------------------------------------------------------------------
\* Logins.

\* handleProjectLogin, GetUserAndProjectDataByEmail: otp_enabled is read ...
LoginRead(r) ==
  /\ At(r, "idle") /\ member
  /\ req' = [req EXCEPT ![r] = Began("loginRead", NoSecret, enabled)]
  /\ UNCHANGED <<member, enabled, secret, force2FA, generated, device, orderly>>

\* ... and force_2fa by GetProjectByID after it.  The answer is a grace token
\* (forced but off), "otp_required" (on), or a full pair of tokens.
LoginDecide(r) ==
  /\ At(r, "loginRead")
  /\ req' = Goto(r, IF force2FA \/ req[r].enabled THEN "idle" ELSE "passwordGrant")
  /\ UNCHANGED <<member, enabled, secret, force2FA, generated, device, orderly>>

\* LoginOTPHandler and LoginOTPStandaloneHandler: one row, read once.
LoginOTP(r) ==
  /\ At(r, "idle") /\ member
  /\ enabled /\ secret # NoSecret /\ secret \in device
  /\ req' = [req EXCEPT ![r] = Began("otpGrant", secret, FALSE)]
  /\ UNCHANGED <<member, enabled, secret, force2FA, generated, device, orderly>>

\* issueTokensAndRespond.
Issue(r) ==
  /\ req[r].pc \in {"passwordGrant", "otpGrant"}
  /\ req' = Goto(r, "idle")
  /\ UNCHANGED <<member, enabled, secret, force2FA, generated, device, orderly>>

-----------------------------------------------------------------------------
\* Around the handlers.

\* A statement fails, the answer is lost or the process dies.
Abandon(r) ==
  /\ ~At(r, "idle")
  /\ req' = Goto(r, "idle")
  /\ UNCHANGED <<member, enabled, secret, force2FA, generated, device, orderly>>

\* RemoveUserFromProject.
RemoveUser ==
  /\ member
  /\ orderly' = (orderly /\ Quiet)
  /\ member' = FALSE
  /\ enabled' = FALSE /\ secret' = NoSecret
  /\ req' = Observing(req, <<force2FA, FALSE>>)
  /\ UNCHANGED <<force2FA, generated, device>>

\* AddUserToProject: a new row, OTP off.
AddUser ==
  /\ ~member
  /\ orderly' = (orderly /\ Quiet)
  /\ member' = TRUE
  /\ UNCHANGED <<enabled, secret, force2FA, generated, device, req>>

\* UpdateProjectSettings, as far as it concerns force_2fa.
ChangePolicy ==
  /\ force2FA' = ~force2FA
  /\ req' = Observing(req, <<~force2FA, enabled>>)
  /\ UNCHANGED <<member, enabled, secret, generated, device, orderly>>

Manage(r) ==
  \/ Setup(r) \/ ShowSecret(r)
  \/ CheckCode(r) \/ EnableOTP(r) \/ ReadRoles(r)
  \/ CheckDisable(r) \/ DisableOTP(r)

Login(r) == LoginRead(r) \/ LoginDecide(r) \/ LoginOTP(r)

Next ==
  \/ \E r \in Requests : Manage(r) \/ Login(r) \/ Issue(r) \/ Abandon(r)
  \/ RemoveUser \/ AddUser \/ ChangePolicy

Spec == Init /\ [][Next]_vars

-----------------------------------------------------------------------------
\* Properties.

\* A full pair of tokens for the password alone is only issued if at one moment
\* of the request 2FA was neither forced nor on, although the two settings are
\* read by different statements and both may change in between, unless
\* force_2fa itself was changed during the request.  A pair for a code is only
\* issued if OTP was on at some moment of the request.  handleProjectLogin,
\* LoginOTPHandler, VerifyOTPHandler.
GrantsFollowPolicy ==
  \A r \in Requests :
    /\ At(r, "passwordGrant") =>
         \/ <<FALSE, FALSE>> \in req[r].seen
         \/ \E p, q \in req[r].seen : p[1] # q[1]
    /\ At(r, "otpGrant") => \E p \in req[r].seen : p[2]

\* OTP of a member is switched off only by someone who has produced a code of
\* a secret on the user's device, however the handlers interleave.
\* DisableOTPHandler, and no other handler of a member's row.
OffOnlyWithCode ==
  [][(enabled /\ ~enabled' /\ member') =>
       \E r \in Requests : At(r, "disabling") /\ req[r].secret \in device /\ ~At(r, "disabling")']_vars

\* A user whose OTP is on can produce its code: lost answers and crashes never
\* leave OTP on with a secret the device has not got, as long as the user's own
\* management requests do not overlap.  VerifyOTPHandler checks a code of the
\* stored secret before it enables it.
EnabledIsUsable == orderly /\ enabled => secret \in device

\* Under the same condition the handlers implement OTPEnrolment.
Enrolment == INSTANCE OTPEnrolment
               WITH Keys <- Secrets, NoKey <- NoSecret,
                    key <- IF orderly THEN secret ELSE NoSecret,
                    known <- IF orderly THEN device ELSE {},
                    stage <- IF ~orderly THEN "void" ELSE IF enabled THEN "on"
                             ELSE IF secret = NoSecret THEN "off" ELSE "pending"

ImplementsEnrolment == Enrolment!ASpec
=============================================================================
