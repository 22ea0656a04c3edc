---------------------------- MODULE MCAccountPages ----------------------------
(***************************************************************************)
(* The pages of the account and of the administration in one run.  Each is *)
(* mounted alone and no variable belongs to two of them: a behaviour is    *)
(* one of the page it starts with, and the others stay as they were.       *)
(***************************************************************************)
EXTENDS EmailLinks, TwoFactor, Places, Profile, AdminUsers, AdminOverview, AdminSettings, TLC

CONSTANTS r1, r2, d1, d2, s1, s2, u1, u2, a1, a2, a3, g1, g2, w1, w2, v1, v2

VARIABLE page  \* the page of the behaviour

Page == {"mail", "2fa", "places", "profile", "users", "overview", "settings"}

pagesVars == <<mailVars, vars2fa, placeVars, profileVars, adminVars, overviewVars,
               settingsVars, page>>

\* The variables of the page keep their types.
PagesTypeOK ==
  /\ page \in Page
  /\ page = "mail" => MailTypeOK
  /\ page = "2fa" => TypeOK2FA
  /\ page = "places" => PlaceTypeOK
  /\ page = "profile" => ProfileTypeOK
  /\ page = "users" => AdminTypeOK
  /\ page = "overview" => OverviewTypeOK
  /\ page = "settings" => SettingsTypeOK

Init ==
  /\ page \in Page
  /\ MailInit /\ Init2FA /\ PlaceInit /\ ProfileInit
  /\ AdminInit /\ OverviewInit /\ SettingsInit
  \* Of the pages that are not followed one initial state is enough.
  /\ page # "profile" => role = "client" /\ stored["place"] = 0
  /\ page # "users" => asks[a3] # Nothing

Next ==
  \/ /\ page = "mail" /\ MailNext
     /\ UNCHANGED <<vars2fa, placeVars, profileVars, adminVars, overviewVars, settingsVars, page>>
  \/ /\ page = "2fa" /\ Next2FA
     /\ UNCHANGED <<mailVars, placeVars, profileVars, adminVars, overviewVars, settingsVars, page>>
  \/ /\ page = "places" /\ PlaceNext
     /\ UNCHANGED <<mailVars, vars2fa, profileVars, adminVars, overviewVars, settingsVars, page>>
  \/ /\ page = "profile" /\ ProfileNext
     /\ UNCHANGED <<mailVars, vars2fa, placeVars, adminVars, overviewVars, settingsVars, page>>
  \/ /\ page = "users" /\ AdminNext
     /\ UNCHANGED <<mailVars, vars2fa, placeVars, profileVars, overviewVars, settingsVars, page>>
  \/ /\ page = "overview" /\ OverviewNext
     /\ UNCHANGED <<mailVars, vars2fa, placeVars, profileVars, adminVars, settingsVars, page>>
  \/ /\ page = "settings" /\ SettingsNext
     /\ UNCHANGED <<mailVars, vars2fa, placeVars, profileVars, adminVars, overviewVars, page>>

PagesSpec == Init /\ [][Next]_pagesVars

-----------------------------------------------------------------------------
(* Properties of two pages each.                                           *)

\* A form sends what the person meant: a place that exists, and changes of the
\* fields that were edited, but for the causes that the two parts name.
FormsSendWhatIsMeant == PlaceIsReal /\ SaveKeepsTheRest

\* The administrator reads what is the case and acts on the user that is named,
\* but for the causes that the two parts name.
AdministratorReadsTrue == OverviewAgrees /\ AboutTheUserNamed

-----------------------------------------------------------------------------
\* The members of each set are interchangeable.  A behaviour is of one page, so
\* the sets of different pages are permuted together.
Like(p, a, b, x, y) == IF p[a] = a THEN x :> x @@ y :> y ELSE x :> y @@ y :> x
Symmetric ==
  {p @@ Like(p, r1, r2, d1, d2) @@ Like(p, r1, r2, u1, u2) @@ Like(p, r1, r2, g1, g2)
     @@ Like(p, r1, r2, w1, w2)
     @@ q @@ Like(q, a1, a2, s1, s2) @@ Like(q, a1, a2, v1, v2) :
     p \in Permutations({r1, r2}), q \in Permutations({a1, a2})}
=============================================================================
