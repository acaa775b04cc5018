------------------------------- MODULE AdminOTP -------------------------------
(***************************************************************************)
(* The global second factor of one administrator: his row of users, which  *)
(* the four handlers of admin_handlers.go share, and the page of AthenaUI  *)
(* that offers them (views/AdminProfileView.js), open in several tabs.     *)
(* There is no transaction, so a step of a request is one SQL statement    *)
(* with the code up to the next one, and a page may be older than the row. *)
(* The administrator always holds an access token and knows his password;  *)
(* a TOTP code is the secret it was computed from.  The two logins read    *)
(* the row once and do not write it: see PasswordSuffices, CodeAccepted.   *)
(***************************************************************************)
EXTENDS Naturals, FiniteSets

CONSTANTS
  Tabs,
  Requests,   \* HTTP requests that may be in flight at once
  Secrets,    \* bound: the TOTP secrets that may be generated in a behaviour
  NoSecret,   \* global_otp_secret IS NULL
  NoTab

ASSUME AdminAssumption == NoSecret \notin Secrets /\ NoTab \notin Tabs

VARIABLES
  enabled,    \* users.global_otp_enabled
  secret,     \* users.global_otp_secret
  generated,  \* secrets made so far
  device,     \* secrets the administrator's authenticator has received
  page,       \* what each tab offers: "blank", "setup", "verify" or "disable"
  req,        \* the state of each request
  orderly     \* history: so far every request was sent while none was in flight
              \* and no other tab showed the page

vars == <<enabled, secret, generated, device, page, req, orderly>>

\* pc      idle, or how far the request has come:
\*         loadSent, loaded                    GET profile, row read
\*         setupSent, setupStored              POST setup, secret stored
\*         verifySent, codeOk, confirmed       POST verify, code valid, enabled
\*         disableSent, disabling, disabled    POST disable, code valid, disabled
\* tab     where it came from
\* secret  made by the request, or the one its code was computed from
\* on      otp_enabled as a GET profile has read it
\* live    the page that sent it is still in the document
RequestStates ==
  [pc : {"idle", "loadSent", "loaded", "setupSent", "setupStored", "verifySent", "codeOk",
         "confirmed", "disableSent", "disabling", "disabled"},
   tab : Tabs \cup {NoTab},
   secret : Secrets \cup {NoSecret},
   on : BOOLEAN, live : BOOLEAN]

Idle == [pc |-> "idle", tab |-> NoTab, secret |-> NoSecret, on |-> FALSE, live |-> FALSE]

TypeOK ==
  /\ enabled \in BOOLEAN /\ orderly \in BOOLEAN
  /\ secret \in generated \cup {NoSecret}
  /\ generated \subseteq Secrets
  /\ device \subseteq generated
  /\ page \in [Tabs -> {"blank", "setup", "verify", "disable"}]
  /\ req \in [Requests -> RequestStates]

Init ==
  /\ enabled = FALSE /\ secret = NoSecret
  /\ generated = {} /\ device = {}
  /\ page = [t \in Tabs |-> "blank"]
  /\ req = [r \in Requests |-> Idle]
  /\ orderly = TRUE

At(r, l) == req[r].pc = l

Quiet == \A r \in Requests : At(r, "idle")

\* The request r moves on to l.
Goto(r, l) == [req EXCEPT ![r] = IF l = "idle" THEN Idle ELSE [@ EXCEPT !.pc = l]]

\* The requests rs after tab t has replaced its page.
Detached(rs, t) ==
  [r \in Requests |-> IF rs[r].tab = t THEN [rs[r] EXCEPT !.live = FALSE] ELSE rs[r]]

Sent(l, t, s) == [pc |-> l, tab |-> t, secret |-> s, on |-> FALSE, live |-> TRUE]

-----------------------------------------------------------------------------
\* Bugs this code could have had; each must break a property below.

\* Setup switches the factor on before the secret has been confirmed.
BugEnableEarly(r) ==
  /\ At(r, "setupSent")
  /\ \E s \in Secrets \ generated :
       /\ generated' = generated \cup {s}
       /\ secret' = s
       /\ req' = [req EXCEPT ![r] = [@ EXCEPT !.pc = "setupStored", !.secret = s]]
  /\ enabled' = TRUE
  /\ UNCHANGED <<device, page, orderly>>

\* DisableGlobalOTP clears the flag but not the secret.
BugKeepSecret(r) ==
  /\ At(r, "disabling")
  /\ enabled' = FALSE
  /\ req' = Goto(r, "disabled")
  /\ UNCHANGED <<secret, generated, device, page, orderly>>

\* The page returns to its first step instead of loading the profile again.
BugStartOver(r) ==
  /\ req[r].pc \in {"confirmed", "disabled"}
  /\ page' = [page EXCEPT ![req[r].tab] = "setup"]
  /\ req' = Goto(r, "idle")
  /\ UNCHANGED <<enabled, secret, generated, device, orderly>>

-----------------------------------------------------------------------------
\* The page.

\* A request leaves tab t.
Send(r, rs, x, t) ==
  /\ At(r, "idle")
  /\ orderly' = (orderly /\ Quiet /\ \A u \in Tabs \ {t} : page[u] = "blank")
  /\ req' = [rs EXCEPT ![r] = x]
  /\ UNCHANGED <<enabled, secret, generated, device>>

\* renderAdminProfileView empties the page and loads the profile.
Open(r, t) ==
  /\ Send(r, Detached(req, t), Sent("loadSent", t, NoSecret), t)
  /\ page' = [page EXCEPT ![t] = "blank"]

\* Another view takes its place, or the tab is closed.
Leave(t) ==
  /\ page[t] # "blank"
  /\ page' = [page EXCEPT ![t] = "blank"]
  /\ req' = Detached(req, t)
  /\ UNCHANGED <<enabled, secret, generated, device, orderly>>

\* The button of OTPSetup.js, which is disabled until the answer.
PressSetup(r, t) ==
  /\ page[t] = "setup"
  /\ \A q \in Requests : req[q].tab = t /\ req[q].live => req[q].pc \notin {"setupSent", "setupStored"}
  /\ Send(r, req, Sent("setupSent", t, NoSecret), t)
  /\ UNCHANGED page

\* The forms of OTPSetup.js and OTPDisable.js, which are not disabled.
PressVerify(r, t) ==
  /\ page[t] = "verify"
  /\ \E c \in device : Send(r, req, Sent("verifySent", t, c), t)
  /\ UNCHANGED page

PressDisable(r, t) ==
  /\ page[t] = "disable"
  /\ \E c \in device : Send(r, req, Sent("disableSent", t, c), t)
  /\ UNCHANGED page

-----------------------------------------------------------------------------
\* GetGlobalProfileHandler.

ReadProfile(r) ==
  /\ At(r, "loadSent")
  /\ req' = [req EXCEPT ![r] = [@ EXCEPT !.pc = "loaded", !.on = enabled]]
  /\ UNCHANGED <<enabled, secret, generated, device, page, orderly>>

\* The answer is drawn into the page that asked for it.
ShowProfile(r) ==
  /\ At(r, "loaded")
  /\ page' = IF req[r].live
             THEN [page EXCEPT ![req[r].tab] = IF req[r].on THEN "disable" ELSE "setup"]
             ELSE page
  /\ req' = Goto(r, "idle")
  /\ UNCHANGED <<enabled, secret, generated, device, orderly>>

-----------------------------------------------------------------------------
\* SetupGlobalOTPHandler.

\* SetGlobalOTPSecretAndURL overwrites the secret whether or not the factor is on.
Setup(r) ==
  /\ At(r, "setupSent")
  /\ \E s \in Secrets \ generated :
       /\ generated' = generated \cup {s}
       /\ secret' = s
       /\ req' = [req EXCEPT ![r] = [@ EXCEPT !.pc = "setupStored", !.secret = s]]
  /\ UNCHANGED <<enabled, device, page, orderly>>

\* The answer reaches the page, and the secret the device, unless the page is gone.
ShowSecret(r) ==
  /\ At(r, "setupStored")
  /\ IF req[r].live
     THEN /\ device' = device \cup {req[r].secret}
          /\ page' = [page EXCEPT ![req[r].tab] = "verify"]
     ELSE UNCHANGED <<device, page>>
  /\ req' = Goto(r, "idle")
  /\ UNCHANGED <<enabled, secret, generated, orderly>>

-----------------------------------------------------------------------------
\* VerifyGlobalOTPHandler.

\* GetGlobalOTPSecretAndStatus and ValidateOTPCode.
CheckCode(r) ==
  /\ At(r, "verifySent") /\ secret = req[r].secret
  /\ req' = Goto(r, "codeOk")
  /\ UNCHANGED <<enabled, secret, generated, device, page, orderly>>

\* EnableGlobalOTP: UPDATE by user only, whatever secret the row holds.
EnableOTP(r) ==
  /\ At(r, "codeOk")
  /\ enabled' = TRUE
  /\ req' = Goto(r, "confirmed")
  /\ UNCHANGED <<secret, generated, device, page, orderly>>

-----------------------------------------------------------------------------
\* DisableGlobalOTPHandler.

\* GetGlobalOTPSecretAndStatus, the test that the factor is on, ValidateOTPCode.
CheckDisable(r) ==
  /\ At(r, "disableSent") /\ enabled /\ secret = req[r].secret
  /\ req' = Goto(r, "disabling")
  /\ UNCHANGED <<enabled, secret, generated, device, page, orderly>>

\* DisableGlobalOTP: UPDATE by user only.
DisableOTP(r) ==
  /\ At(r, "disabling")
  /\ enabled' = FALSE /\ secret' = NoSecret
  /\ req' = Goto(r, "disabled")
  /\ UNCHANGED <<generated, device, page, orderly>>

-----------------------------------------------------------------------------
\* Common ends.

\* issueTokensAndRespond.  onSuccess draws the page anew into its tab, even when
\* the tab has left it meanwhile; what setAuth has drawn just before is thrown away.
Succeed(r) ==
  /\ req[r].pc \in {"confirmed", "disabled"}
  /\ page' = [page EXCEPT ![req[r].tab] = "blank"]
  /\ req' = [Detached(req, req[r].tab) EXCEPT ![r] = Sent("loadSent", req[r].tab, NoSecret)]
  /\ UNCHANGED <<enabled, secret, generated, device, orderly>>

\* The request is refused, a statement fails, the answer is lost or the process
\* dies.  The page shows an error and offers the same again.
Abandon(r) ==
  /\ ~At(r, "idle")
  /\ req' = Goto(r, "idle")
  /\ UNCHANGED <<enabled, secret, generated, device, page, orderly>>

Browse(r) == \E t \in Tabs : Open(r, t) \/ PressSetup(r, t) \/ PressVerify(r, t) \/ PressDisable(r, t)

Serve(r) ==
  \/ ReadProfile(r) \/ ShowProfile(r)
  \/ Setup(r) \/ ShowSecret(r)
  \/ CheckCode(r) \/ EnableOTP(r)
  \/ CheckDisable(r) \/ DisableOTP(r)
  \/ Succeed(r) \/ Abandon(r)

Next == (\E r \in Requests : Browse(r) \/ Serve(r)) \/ (\E t \in Tabs : Leave(t))

Spec == Init /\ [][Next]_vars

-----------------------------------------------------------------------------
\* The logins.

\* handleGlobalLogin: tokens for the password alone, or "global_otp_required".
PasswordSuffices == ~enabled

\* LoginGlobalOTPHandler.
CodeAccepted(c) == enabled /\ secret # NoSecret /\ c = secret

-----------------------------------------------------------------------------
\* Properties.

\* The administrator is never locked out: where the password login asks for a
\* code, his device can produce one that LoginGlobalOTPHandler accepts, whatever
\* answers get lost and wherever a handler dies, as long as he works in one tab
\* and waits for its answers.  The page alone keeps Setup away from a factor in
\* use; SetupGlobalOTPHandler does not.
CanLogIn == orderly => PasswordSuffices \/ \E c \in device : CodeAccepted(c)

\* Under the same condition the page never offers Setup, which would overwrite
\* the secret, while the factor is on, although it shows what an earlier request
\* has read.  AdminProfileView.js and its reload after Verify and Disable.
SetupOfferedWhenOff == orderly => \A t \in Tabs : page[t] = "setup" => ~enabled

\* The factor is switched off only by a request that has produced a code of a
\* secret on the device, from however many tabs.  DisableGlobalOTPHandler.
OffOnlyWithCode ==
  [][enabled /\ ~enabled' =>
       \E r \in Requests : At(r, "disabling") /\ req[r].secret \in device /\ ~At(r, "disabling")']_vars

\* As long as orderly holds, handlers and page implement OTPEnrolment.
Enrolment == INSTANCE OTPEnrolment
               WITH Keys <- Secrets, NoKey <- NoSecret,
                    key <- IF orderly THEN secret ELSE NoSecret,
                    known <- IF orderly THEN device ELSE {},
                    stage <- IF ~orderly THEN "void" ELSE IF enabled THEN "on"
                             ELSE IF secret = NoSecret THEN "off" ELSE "pending"

ImplementsEnrolment == Enrolment!ASpec
=============================================================================
