------------------------------- MODULE TwoFactor -------------------------------
(***************************************************************************)
(* Two-factor authentication of one account: routers/auth.py (setup_2fa,   *)
(* enable_2fa, disable_2fa, verify_2fa_login) and the panel that           *)
(* pages/Settings.jsx and pages/AdminDashboard.jsx show for it.            *)
(*                                                                         *)
(* get_current_user loads the row, the handler checks what was loaded, and *)
(* the commit writes only the columns the handler changed; no lock is held *)
(* between the two.  Each device has a page and a copy of the user.        *)
(***************************************************************************)
EXTENDS Naturals, FiniteSets

CONSTANTS
  Device,
  Slot,        \* the requests the server may have under way at once
  NoCall,      \* a slot without a request
  MaxSecrets,  \* bound: secrets generated
  MaxUnheard,  \* bound: answers that do not reach their page
  MaxSignIns   \* bound: sign-ins

ASSUME SecretBounds == MaxSecrets \in Nat /\ MaxUnheard \in Nat /\ MaxSignIns \in Nat

VARIABLES
  enabled,    \* users.is_2fa_enabled
  secret,     \* users.totp_secret: 1, 2, ... or 0
  generated,  \* number of secrets generated
  app,        \* secrets in the user's authenticator app
  calls,      \* per slot, the request with what it has read
  qr,         \* per device, the secret of the QR code it shows, or 0
  believes,   \* per device, is_2fa_enabled of the page's copy of the user
  confirmed,  \* history: secrets a code was accepted for by enable_2fa
  overwrote,  \* history: a commit changed a row that changed since it was read
  why,        \* history: per device, what made its copy go stale
  unheard, signIns

account2fa == <<enabled, secret, generated>>
pages2fa == <<qr, believes>>
history2fa == <<confirmed, overwrote, why, unheard, signIns>>
vars2fa == <<account2fa, app, calls, pages2fa, history2fa>>

Secret == 1..MaxSecrets
Call == [dev : Device, op : {"setup", "enable", "disable"}, code : 0..MaxSecrets,
         stage : {"sent", "checked", "done", "refused"}, heard : BOOLEAN,
         sawEnabled : BOOLEAN, saw : 0..MaxSecrets, new : 0..MaxSecrets]

ASSUME NoCallIsNone == NoCall \notin Call

TypeOK2FA ==
  /\ enabled \in BOOLEAN /\ secret \in 0..MaxSecrets /\ generated \in 0..MaxSecrets
  /\ app \subseteq Secret
  /\ calls \in [Slot -> Call \cup {NoCall}]
  /\ qr \in [Device -> 0..MaxSecrets] /\ believes \in [Device -> BOOLEAN]
  /\ confirmed \subseteq Secret /\ overwrote \in BOOLEAN
  /\ why \in [Device -> SUBSET {"elsewhere", "unheard", "google"}]
  /\ unheard \in 0..MaxUnheard /\ signIns \in 0..MaxSignIns

Init2FA ==
  /\ enabled = FALSE /\ secret = 0 /\ generated = 0 /\ app = {}
  /\ calls = [s \in Slot |-> NoCall]
  /\ qr = [d \in Device |-> 0] /\ believes = [d \in Device |-> FALSE]
  /\ confirmed = {} /\ overwrote = FALSE /\ why = [d \in Device |-> {}]
  /\ unheard = 0 /\ signIns = 0

Awaits(d, op) ==
  \E s \in Slot : calls[s] # NoCall /\ calls[s].dev = d /\ calls[s].op = op /\ calls[s].heard

Quiet(d) == \A s \in Slot : calls[s] # NoCall => calls[s].dev # d

-----------------------------------------------------------------------------
(* The panel.                                                              *)

\* The button of set-up: while no QR code is shown, disabled while it waits.
OffersSetup(d) == ~believes[d] /\ qr[d] = 0 /\ ~Awaits(d, "setup")

\* The QR code with the field for the code: its button is not disabled.
OffersEnable(d) == ~believes[d] /\ qr[d] # 0

OffersDisable(d) == believes[d] /\ ~Awaits(d, "disable")

SendCall(s, d, op, code) ==
  /\ calls[s] = NoCall
  /\ calls' = [calls EXCEPT ![s] =
       [dev |-> d, op |-> op, code |-> code, stage |-> "sent", heard |-> TRUE,
        sawEnabled |-> FALSE, saw |-> 0, new |-> 0]]
  /\ UNCHANGED <<account2fa, app, pages2fa, history2fa>>

Setup(s, d) == OffersSetup(d) /\ SendCall(s, d, "setup", 0)

Scan(d) ==
  /\ OffersEnable(d) /\ qr[d] \notin app
  /\ app' = app \cup {qr[d]}
  /\ UNCHANGED <<account2fa, calls, pages2fa, history2fa>>

\* The user reads the code off one of the app's entries for the account.
Enable(s, d) == OffersEnable(d) /\ \E k \in app : SendCall(s, d, "enable", k)

Disable(s, d) == OffersDisable(d) /\ \E k \in app : SendCall(s, d, "disable", k)

\* Answers to the page that waits; a failure leaves the panel as it is.
SetupAnswered(d, new) ==
  qr' = [qr EXCEPT ![d] = new] /\ UNCHANGED believes

EnableAnswered(d) ==
  qr' = [qr EXCEPT ![d] = 0] /\ believes' = [believes EXCEPT ![d] = TRUE]

\* Variation: the page forgets to update its copy of the user.
DisableForgets(d) == UNCHANGED pages2fa

DisableAnswered(d) == believes' = [believes EXCEPT ![d] = FALSE] /\ UNCHANGED qr

Answered2FA(s) ==
  /\ calls[s] # NoCall /\ calls[s].stage \in {"done", "refused"}
  /\ LET c == calls[s] IN
     IF ~c.heard \/ c.stage = "refused" THEN UNCHANGED pages2fa
     ELSE \/ c.op = "setup" /\ SetupAnswered(c.dev, c.new)
          \/ c.op = "enable" /\ EnableAnswered(c.dev)
          \/ c.op = "disable" /\ DisableAnswered(c.dev)
  /\ calls' = [calls EXCEPT ![s] = NoCall]
  /\ UNCHANGED <<account2fa, app, history2fa>>

\* The page gives the request up; the server may still serve it.
GivesUp(s) ==
  /\ unheard < MaxUnheard /\ unheard' = unheard + 1
  /\ calls[s] # NoCall /\ calls[s].heard
  /\ calls' = [calls EXCEPT ![s].heard = FALSE]
  /\ why' = [why EXCEPT ![calls[s].dev] = @ \cup {"unheard"}]
  /\ UNCHANGED <<account2fa, app, pages2fa, confirmed, overwrote, signIns>>

\* A sign-in, with the password and a code of the stored secret where 2FA is
\* enabled, or with Google, whose answer never says that 2FA is enabled.
SignsIn(d, google) ==
  /\ signIns < MaxSignIns /\ signIns' = signIns + 1
  /\ Quiet(d)
  /\ ~google /\ enabled => secret \in app
  /\ believes' = [believes EXCEPT ![d] = enabled /\ ~google]
  /\ qr' = [qr EXCEPT ![d] = 0]
  /\ why' = [why EXCEPT ![d] = IF google THEN {"google"} ELSE {}]
  /\ UNCHANGED <<account2fa, app, calls, confirmed, overwrote, unheard>>

\* getMe, when the page is loaded anew.
Reloads(d) ==
  /\ Quiet(d)
  /\ believes' = [believes EXCEPT ![d] = enabled]
  /\ qr' = [qr EXCEPT ![d] = 0]
  /\ why' = [why EXCEPT ![d] = {}]
  /\ UNCHANGED <<account2fa, app, calls, confirmed, overwrote, unheard, signIns>>

-----------------------------------------------------------------------------
(* The server.                                                             *)

\* Variation: setup_2fa does not ask whether 2FA is enabled.
AcceptsAnySetup(c) ==
  \/ c.op = "setup"
  \/ c.op = "enable" /\ ~enabled /\ secret # 0 /\ c.code = secret
  \/ c.op = "disable" /\ enabled /\ secret # 0 /\ c.code = secret

\* What the handlers check of the row they loaded.
Accepts(c) ==
  \/ c.op = "setup" /\ ~enabled
  \/ c.op = "enable" /\ ~enabled /\ secret # 0 /\ c.code = secret
  \/ c.op = "disable" /\ enabled /\ secret # 0 /\ c.code = secret

Checks(s) ==
  /\ calls[s] # NoCall /\ calls[s].stage = "sent"
  /\ calls' = [calls EXCEPT ![s] =
       [@ EXCEPT !.stage = IF Accepts(calls[s]) THEN "checked" ELSE "refused",
                 !.sawEnabled = enabled, !.saw = secret]]
  /\ UNCHANGED <<account2fa, app, pages2fa, history2fa>>

\* The copies of the other devices, and of a page that gave the request up,
\* do not hear of the commit.
Outdates(c) ==
  why' = [d \in Device |->
            IF d # c.dev THEN why[d] \cup {"elsewhere"} ELSE why[d]]

\* The commit of the columns that the handler changed.
Commits(s) ==
  /\ calls[s] # NoCall /\ calls[s].stage = "checked"
  /\ LET c == calls[s] IN
     /\ \/ /\ c.op = "setup" /\ generated < MaxSecrets
           /\ generated' = generated + 1 /\ secret' = generated + 1
           /\ UNCHANGED <<enabled, confirmed>>
        \/ /\ c.op = "enable"
           /\ enabled' = TRUE /\ confirmed' = confirmed \cup {c.code}
           /\ UNCHANGED <<secret, generated>>
        \/ /\ c.op = "disable"
           /\ enabled' = FALSE /\ secret' = 0
           /\ UNCHANGED <<generated, confirmed>>
     /\ calls' = [calls EXCEPT ![s] =
          [@ EXCEPT !.stage = "done", !.new = IF c.op = "setup" THEN generated + 1 ELSE 0]]
     /\ overwrote' = (overwrote \/ <<enabled, secret>> # <<c.sawEnabled, c.saw>>)
     /\ Outdates(c)
  /\ UNCHANGED <<app, pages2fa, unheard, signIns>>

Next2FA ==
  \/ \E s \in Slot :
       \/ \E d \in Device : Setup(s, d) \/ Enable(s, d) \/ Disable(s, d)
       \/ Checks(s) \/ Commits(s) \/ Answered2FA(s) \/ GivesUp(s)
  \/ \E d \in Device : Scan(d) \/ Reloads(d) \/ \E google \in BOOLEAN : SignsIn(d, google)

Spec2FA == Init2FA /\ [][Next2FA]_vars2fa

-----------------------------------------------------------------------------
(* Properties.                                                             *)

\* The user can sign in again: while 2FA is enabled the stored secret is one
\* whose code was accepted, unless a commit met a row that had changed since
\* its request read it (the checks of setup_2fa, enable_2fa and disable_2fa
\* are about the row they loaded).
ConfirmedSecret == enabled => overwrote \/ (secret \in confirmed /\ secret \in app)

\* A panel that waits for nothing says the opposite of the account only after
\* a change on another device, an answer that was not heard, a sign-in with
\* Google, or requests that crossed (the button of enable_2fa is not disabled
\* while it waits); and a QR code it shows can be confirmed.
PanelIsTrue ==
  \A d \in Device :
    /\ Quiet(d) /\ why[d] = {} /\ ~overwrote
    => /\ believes[d] = enabled
       /\ qr[d] # 0 => qr[d] = secret
=============================================================================
