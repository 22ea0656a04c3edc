-------------------------------- MODULE Tabs --------------------------------
(***************************************************************************)
(* The session of the web application in the tabs of one browser:          *)
(* api/client.js (request and its events), context/AuthContext.jsx,        *)
(* App.jsx (routes, their guard, the dialog of a disabled account),        *)
(* pages/Login.jsx, components/auth/GoogleAuthButton.jsx and the sign-out  *)
(* of the navigation bars.  All tabs share localStorage; each has React    *)
(* state of its own, and nothing tells one tab what another one stored.    *)
(*                                                                         *)
(* A request carries the token that localStorage holds when it is sent,    *)
(* whoever the tab shows.  Any 401 answer signs the browser out, the one   *)
(* to a wrong password or code included, and so does a code sent too late  *)
(* or a Google token that is not accepted.  The server is reduced to the   *)
(* answers of get_current_user (deps.py) and of the sign-in routes.        *)
(***************************************************************************)
EXTENDS Naturals

CONSTANTS
  Tab,
  Account,
  None,
  RoleOf,      \* the role of each account
  TwoFactor,   \* the accounts with two-factor sign-in
  MaxAttempts, \* bound: sign-ins tried
  MaxFaults    \* bound: calls that fail for another reason than the account

ASSUME NoneAssumption == None \notin Account
ASSUME RoleAssumption == RoleOf \in [Account -> {"client", "provider", "admin"}]
ASSUME TwoFactorAssumption == TwoFactor \subseteq Account
ASSUME BoundAssumption == MaxAttempts \in Nat /\ MaxFaults \in Nat

VARIABLES
  token,     \* localStorage: the account whose token is stored, with its user
  disabled,  \* accounts an administrator has disabled
  expired,   \* accounts whose last token is too old
  shown,     \* React state user of each tab
  loading,   \* React state loading: the stored session is being validated
  page,      \* the route each tab is on
  call,      \* an authenticated request in flight: getMe, data or a save
  entry,     \* a sign-in request in flight
  holds,     \* the account whose 2FA temp token the sign-in form keeps
  modal,     \* GlobalDisabledModal is open
  attempts, faults,
  crossed    \* history: tabs whose session another sign-in has overtaken

tabVars == <<shown, loading, page, call, entry, holds, modal>>
serverVars == <<disabled, expired>>
vars == <<token, serverVars, tabVars, attempts, faults, crossed>>

\* Routes.  A client's dashboard and wallet ask for their data every 15 seconds;
\* the other protected routes when they open or the person acts (so does here a
\* provider's wallet, which has the interval too).  Every public route counts
\* as the sign-in page.
Role == {RoleOf[a] : a \in Account}
Login == [for |-> "anyone", at |-> "login"]
Page == {Login} \cup [for : Role, at : {"quiet"}]
        \cup [for : Role \cap {"client"}, at : {"polling"}]
Protected(p) == p.for # "anyone"
Dashboard(r) == [for |-> r, at |-> IF r = "client" THEN "polling" ELSE "quiet"]

\* A call acts for the account of its token; its answer makes the tab show an
\* account, or leaves that as it is.
Nothing == [kind |-> "none"]
Call ==
  [kind : {"me", "save"}, as : Account \cup {None}, shows : Account \cup {None}]
    \cup [kind : {"data"}, as : Account \cup {None}, shows : {None}]
\* A sign-in names an account, or nobody when its password or code is wrong.
Entry == [kind : {"password", "code", "google"}, as : Account \cup {None}]

TypeOK ==
  /\ token \in Account \cup {None}
  /\ disabled \subseteq Account
  /\ expired \subseteq Account
  /\ shown \in [Tab -> Account \cup {None}]
  /\ loading \in [Tab -> BOOLEAN]
  /\ page \in [Tab -> Page]
  /\ call \in [Tab -> Call \cup {Nothing}]
  /\ entry \in [Tab -> Entry \cup {Nothing}]
  /\ holds \in [Tab -> Account \cup {None}]
  /\ modal \in [Tab -> BOOLEAN]
  /\ attempts \in 0..MaxAttempts
  /\ faults \in 0..MaxFaults
  /\ crossed \subseteq Tab

\* A browser without a session, its tabs on public pages.
Init ==
  /\ token = None
  /\ disabled = {} /\ expired = {}
  /\ shown = [t \in Tab |-> None]
  /\ loading = [t \in Tab |-> FALSE]
  /\ page = [t \in Tab |-> Login]
  /\ call = [t \in Tab |-> Nothing]
  /\ entry = [t \in Tab |-> Nothing]
  /\ holds = [t \in Tab |-> None]
  /\ modal = [t \in Tab |-> FALSE]
  /\ attempts = 0 /\ faults = 0
  /\ crossed = {}

\* ProtectedRoute and DashboardRedirect: where a tab that shows u lands when
\* it goes to p.  While the session is being validated nothing is decided.
Landing(p, u, validating) ==
  IF Protected(p) /\ ~validating /\ (u = None \/ RoleOf[u] # p.for)
  THEN Login ELSE p

-----------------------------------------------------------------------------
(* The effects on localStorage and on a tab.                               *)

\* A page load with tok stored: the React state is new, the requests of the
\* old page are gone, and initAuth validates what localStorage holds.
Load(t, tok, p) ==
  /\ shown' = [shown EXCEPT ![t] = None]
  /\ loading' = [loading EXCEPT ![t] = (tok # None)]
  /\ call' = [call EXCEPT ![t] =
       IF tok = None THEN Nothing
       ELSE [kind |-> "me", as |-> tok, shows |-> tok]]
  /\ page' = [page EXCEPT ![t] = Landing(p, None, tok # None)]
  /\ entry' = [entry EXCEPT ![t] = Nothing]
  /\ holds' = [holds EXCEPT ![t] = None]
  /\ modal' = [modal EXCEPT ![t] = FALSE]
  /\ crossed' = crossed \ {t}

\* logout: the stored session goes, then the tab loads a public page anew.
Logout(t) ==
  /\ token' = None
  /\ Load(t, None, Login)

\* The answer to the request of the tab will say whom it shows.
ShowsLater(t) == call[t].kind \in {"me", "save"}

\* Variation: a token that is stored already is not replaced.
ApplySessionOnce(t, a) ==
  /\ token' = IF token = None THEN a ELSE token
  /\ shown' = [shown EXCEPT ![t] = a]
  /\ page' = [page EXCEPT ![t] = Landing(Dashboard(RoleOf[a]), a, loading[t])]
  /\ crossed' = (crossed \ {t})
       \cup {u \in Tab : ShowsLater(u) \/ (u # t /\ shown[u] # None)}

\* applySession, then the navigation to the dashboard of the role.  Every
\* other tab with a session in hand is overtaken; so is this one when its own
\* getMe or save is still to answer.
ApplySession(t, a) ==
  /\ token' = a
  /\ shown' = [shown EXCEPT ![t] = a]
  /\ page' = [page EXCEPT ![t] = Landing(Dashboard(RoleOf[a]), a, loading[t])]
  /\ crossed' = (crossed \ {t})
       \cup {u \in Tab : ShowsLater(u) \/ (u # t /\ shown[u] # None)}

-----------------------------------------------------------------------------
(* What the person does in a tab.  The dialog of a disabled account covers *)
(* the page: behind it only the requests go on.                            *)

\* An address typed, a bookmark, a refresh.
Open(t, p) ==
  /\ Load(t, token, p)
  /\ UNCHANGED <<token, serverVars, attempts, faults>>

\* A link of the application: the React state stays.
Follow(t, p) ==
  /\ ~modal[t]
  /\ page' = [page EXCEPT ![t] = Landing(p, shown[t], loading[t])]
  /\ holds' = [holds EXCEPT ![t] = None]
  /\ UNCHANGED <<token, serverVars, shown, loading, call, entry, modal,
                 attempts, faults, crossed>>

\* handleSignOut: logout's hard navigation competes with navigate('/').
SignOut(t) ==
  /\ ~modal[t] /\ Protected(page[t]) /\ shown[t] # None /\ ~loading[t]
  /\ Logout(t)
  /\ UNCHANGED <<serverVars, attempts, faults>>

\* "Return to Home"
ReturnHome(t) ==
  /\ modal[t]
  /\ Logout(t)
  /\ UNCHANGED <<serverVars, attempts, faults>>

Send(t, k, a) ==
  /\ attempts < MaxAttempts /\ attempts' = attempts + 1
  /\ ~modal[t] /\ page[t] = Login /\ entry[t] = Nothing
  /\ entry' = [entry EXCEPT ![t] = [kind |-> k, as |-> a]]
  /\ UNCHANGED <<token, serverVars, shown, loading, page, call, holds, modal,
                 faults, crossed>>

\* handleSubmit with the e-mail form, then with the authenticator code.
SubmitPassword(t, a) == holds[t] = None /\ Send(t, "password", a)

SubmitCode(t, a) ==
  holds[t] # None /\ a \in {holds[t], None} /\ Send(t, "code", a)

\* The Google button, for a provider with the agent password it then asks for.
SubmitGoogle(t, a) == a # None /\ Send(t, "google", a)

-----------------------------------------------------------------------------
(* Requests of a signed-in tab, and their answers.                         *)

\* A protected page asks for its data, with whatever token is stored by now.
AskData(t) ==
  /\ Protected(page[t]) /\ ~loading[t] /\ call[t] = Nothing
  /\ call' = [call EXCEPT ![t] =
       [kind |-> "data", as |-> token, shows |-> None]]
  /\ UNCHANGED <<token, serverVars, shown, loading, page, entry, holds, modal,
                 attempts, faults, crossed>>

\* Profile and settings are saved.  The answer to a profile carries the account
\* the request acted for; that to a change of 2FA is laid over the user the
\* form was rendered with (updateUser is called after the await).
Save(t) ==
  /\ ~modal[t] /\ page[t].at = "quiet" /\ ~loading[t] /\ shown[t] # None
  /\ call[t] = Nothing
  /\ \E u \in {token, shown[t]} :
       call' = [call EXCEPT ![t] = [kind |-> "save", as |-> token, shows |-> u]]
  /\ UNCHANGED <<token, serverVars, shown, loading, page, entry, holds, modal,
                 attempts, faults, crossed>>

\* get_current_user
Refused(a) == a = None \/ a \in expired

\* What the request of tab t leaves when it does not sign the tab out: the end
\* of initAuth, or another account shown, decides where a protected page goes.
Returned(t, u) ==
  /\ call' = [call EXCEPT ![t] = Nothing]
  /\ shown' = [shown EXCEPT ![t] = u]
  /\ loading' = [loading EXCEPT ![t] = @ /\ call[t].kind # "me"]
  /\ page' = [page EXCEPT ![t] = Landing(@, u, loading'[t])]

AnswerOk(t) ==
  /\ call[t] # Nothing
  /\ ~Refused(call[t].as) /\ call[t].as \notin disabled
  /\ Returned(t, IF call[t].shows = None THEN shown[t] ELSE call[t].shows)
  /\ UNCHANGED <<token, serverVars, entry, holds, modal, attempts, faults,
                 crossed>>

\* 403 "Account disabled": the accountDisabled event opens the dialog.
AnswerDisabled(t) ==
  /\ call[t] # Nothing
  /\ ~Refused(call[t].as) /\ call[t].as \in disabled
  /\ Returned(t, shown[t])
  /\ modal' = [modal EXCEPT ![t] = TRUE]
  /\ UNCHANGED <<token, serverVars, entry, holds, attempts, faults, crossed>>

\* Variation: a refused request only fails.
AnswerRefusedQuietly(t) ==
  /\ call[t] # Nothing /\ Refused(call[t].as)
  /\ Returned(t, shown[t])
  /\ UNCHANGED <<token, serverVars, entry, holds, modal, attempts, faults,
                 crossed>>

\* 401: the unauthorized event calls logout.
AnswerRefused(t) ==
  /\ call[t] # Nothing /\ Refused(call[t].as)
  /\ Logout(t)
  /\ UNCHANGED <<serverVars, attempts, faults>>

\* Variation: whatever goes wrong signs out.
AnswerFailsAndSignsOut(t) ==
  /\ call[t] # Nothing /\ faults < MaxFaults
  /\ faults' = faults + 1
  /\ Logout(t)
  /\ UNCHANGED <<serverVars, attempts>>

\* The network or the server fails.  getMe failing leaves the tab without a
\* user although the session is stored.
AnswerFails(t) ==
  /\ call[t] # Nothing /\ faults < MaxFaults
  /\ faults' = faults + 1
  /\ Returned(t, shown[t])
  /\ UNCHANGED <<token, serverVars, entry, holds, modal, attempts, crossed>>

-----------------------------------------------------------------------------
(* Answers to a sign-in.                                                   *)

Entered(t) == entry' = [entry EXCEPT ![t] = Nothing]

\* 401 "Invalid credentials" or "Invalid 2FA code"
EntryWrong(t) ==
  /\ entry[t] # Nothing /\ entry[t].as = None
  /\ Logout(t)
  /\ UNCHANGED <<serverVars, attempts, faults>>

\* 401 "Invalid or expired temporary token": the code comes more than five
\* minutes after the password.  401 "Invalid Google token": Google's tokeninfo
\* does not vouch for it, or not for this application.
EntryRefused(t) ==
  /\ entry[t] # Nothing /\ entry[t].kind \in {"code", "google"}
  /\ Logout(t)
  /\ UNCHANGED <<serverVars, attempts, faults>>

\* login answers 403 "Account disabled", which opens the dialog; the other two
\* routes word it differently.
EntryDisabled(t) ==
  /\ entry[t] # Nothing /\ entry[t].as \in disabled
  /\ Entered(t)
  /\ modal' = [modal EXCEPT ![t] = @ \/ entry[t].kind = "password"]
  /\ UNCHANGED <<token, serverVars, shown, loading, page, call, holds, attempts,
                 faults, crossed>>

\* The password is right and a code is still needed.
EntryNeedsCode(t) ==
  /\ entry[t] # Nothing /\ entry[t].as \in Account \ disabled
  /\ entry[t].kind = "password" /\ entry[t].as \in TwoFactor
  /\ Entered(t)
  /\ holds' = [holds EXCEPT ![t] =
       IF page[t] = Login THEN entry[t].as ELSE @]
  /\ UNCHANGED <<token, serverVars, shown, loading, page, call, modal, attempts,
                 faults, crossed>>

\* The session is new, wherever the tab has gone meanwhile.
EntryOk(t) ==
  /\ entry[t] # Nothing /\ entry[t].as \in Account \ disabled
  /\ entry[t].kind = "password" => entry[t].as \notin TwoFactor
  /\ Entered(t)
  /\ ApplySession(t, entry[t].as)
  /\ holds' = [holds EXCEPT ![t] = None]
  /\ expired' = expired \ {entry[t].as}
  /\ UNCHANGED <<disabled, loading, call, modal, attempts, faults>>

\* Any other error: the form shows it.
EntryFails(t) ==
  /\ entry[t] # Nothing /\ faults < MaxFaults
  /\ faults' = faults + 1
  /\ Entered(t)
  /\ UNCHANGED <<token, serverVars, shown, loading, page, call, holds, modal,
                 attempts, crossed>>

-----------------------------------------------------------------------------
(* The server.                                                             *)

\* The stored token is 24 hours old.
Expire(a) ==
  /\ a = token /\ a \notin expired
  /\ expired' = expired \cup {a}
  /\ UNCHANGED <<token, disabled, tabVars, attempts, faults, crossed>>

\* toggle_user_active
Toggle(a) ==
  /\ disabled' = IF a \in disabled THEN disabled \ {a} ELSE disabled \cup {a}
  /\ UNCHANGED <<token, expired, tabVars, attempts, faults, crossed>>

Answer(t) ==
  \/ AnswerOk(t) \/ AnswerDisabled(t) \/ AnswerRefused(t) \/ AnswerFails(t)

EntryAnswer(t) ==
  \/ EntryWrong(t) \/ EntryRefused(t) \/ EntryDisabled(t)
  \/ EntryNeedsCode(t) \/ EntryOk(t) \/ EntryFails(t)

Next ==
  \/ \E t \in Tab :
       \/ \E p \in Page : Open(t, p) \/ Follow(t, p)
       \/ SignOut(t) \/ ReturnHome(t)
       \/ \E a \in Account \cup {None} :
            SubmitPassword(t, a) \/ SubmitCode(t, a) \/ SubmitGoogle(t, a)
       \/ AskData(t) \/ Save(t)
       \/ Answer(t) \/ EntryAnswer(t)
  \/ \E a \in Account : Expire(a) \/ Toggle(a)

Spec == Init /\ [][Next]_vars

\* Requests are answered, and a page with a 15 second interval asks again and
\* again; nothing makes the other pages ask.
FairSpec ==
  /\ Spec
  /\ \A t \in Tab :
       /\ WF_vars(Answer(t))
       /\ WF_vars(page[t].at = "polling" /\ AskData(t))

-----------------------------------------------------------------------------
(* Properties.                                                             *)

\* What a tab shows and the account its requests act for differ only when a
\* sign-in in another tab, or one that overtook the tab's own getMe or save,
\* replaced the stored token behind it (authHeaders reads localStorage,
\* ProtectedRoute the React state, updateUser the user of an earlier rendering).
ActsAsShown ==
  \A t \in Tab :
    shown[t] # None /\ token # None /\ shown[t] # token => t \in crossed

\* How a stored session that is still good may end: somebody signs out, a
\* sign-in tried in some tab is answered 401, or a request made under another
\* token is refused.
GoodSessionEnds ==
  token # None /\ token' = None /\ token \notin expired =>
    \E t \in Tab : \/ SignOut(t) \/ ReturnHome(t)
                   \/ EntryWrong(t) \/ EntryRefused(t)
                   \/ call[t] # Nothing /\ call[t].as # token

\* A stored session that is still good ends in these ways only; never because a
\* call or a sign-in failed otherwise or an account was disabled.
GoodSessionKept == [][GoodSessionEnds]_vars

Polling(t) == page[t].at = "polling"

\* Signing out in one tab reaches a page of another one that asks every 15
\* seconds: its next request is refused and takes it to the sign-in page.
SignOutSpreads ==
  \A t \in Tab : (token = None /\ Polling(t)) ~> (token # None \/ ~Polling(t))

\* Somebody whose account is disabled while such a page is open is told so.
DisabledIsTold ==
  \A t \in Tab :
    (Polling(t) /\ shown[t] = token /\ token \in disabled)
      ~> (modal[t] \/ ~Polling(t) \/ token \notin disabled)

\* The end of a session, of either kind, reaches every page that keeps asking.
EndsReachThePage == SignOutSpreads /\ DisabledIsTold
=============================================================================
