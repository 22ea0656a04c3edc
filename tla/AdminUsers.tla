------------------------------ MODULE AdminUsers ------------------------------
(***************************************************************************)
(* The users' tab of pages/AdminDashboard.jsx with routers/admin.py        *)
(* (admin_list_users, admin_toggle_user_active, admin_get_user_wallet):    *)
(* the list with its Disable and Enable buttons, and the details of a user *)
(* with the wallet.  No button is disabled while its request is under way. *)
(***************************************************************************)
EXTENDS Naturals

CONSTANTS
  Account,       \* the users that the administrator sees
  Ask,           \* the requests that the page may have under way at once
  Nothing,
  MaxAsks,       \* bound: requests sent
  MaxAdminMishaps  \* bound: requests that fail, toggles of another administrator

ASSUME AdminBounds == MaxAsks \in Nat /\ MaxAdminMishaps \in Nat

VARIABLES
  isActive,    \* users.is_active
  users,       \* the list of the page: is_active of each, or Nothing
  asks,        \* the requests under way
  selected,    \* the user of the details, or Nothing
  wallet,      \* whose wallet the details hold, or Nothing
  loadingWallet,
  asked, adminMishaps,
  doubts,      \* history: what may have made the list differ from the table
  crossedWallet, \* history: a wallet of another user came after the selection
  surprised    \* history: a toggle did the opposite of its label, without doubts

adminPage == <<users, selected, wallet, loadingWallet>>
adminHistory == <<doubts, crossedWallet, surprised>>
adminVars == <<isActive, adminPage, asks, asked, adminMishaps, adminHistory>>

Listing == [Account -> BOOLEAN]
Asks ==
  [op : {"list"}, stage : {"sent"}, user : Account \cup {Nothing}]
  \cup [op : {"list"}, stage : {"read"}, user : Account \cup {Nothing}, list : Listing]
  \cup [op : {"toggle"}, stage : {"sent", "read"}, user : Account, label : BOOLEAN,
        saw : BOOLEAN]
  \cup [op : {"wallet"}, stage : {"sent"}, user : Account]

ASSUME NothingIsNone == Nothing \notin Account \cup Listing \cup Asks

AdminTypeOK ==
  /\ isActive \in Listing
  /\ users \in Listing \cup {Nothing}
  /\ asks \in [Ask -> Asks \cup {Nothing}]
  /\ selected \in Account \cup {Nothing} /\ wallet \in Account \cup {Nothing}
  /\ loadingWallet \in BOOLEAN
  /\ asked \in 0..MaxAsks /\ adminMishaps \in 0..MaxAdminMishaps
  /\ doubts \subseteq {"elsewhere", "failed", "double", "crossed"}
  /\ crossedWallet \in BOOLEAN /\ surprised \in BOOLEAN

\* The page is opened: it asks for the list.
AdminInit ==
  /\ isActive = [u \in Account |-> TRUE]
  /\ users = Nothing
  /\ \E a \in Ask : asks = [b \in Ask |->
       IF b = a THEN [op |-> "list", stage |-> "sent", user |-> Nothing] ELSE Nothing]
  /\ selected = Nothing /\ wallet = Nothing /\ loadingWallet = FALSE
  /\ asked = 0 /\ adminMishaps = 0
  /\ doubts = {} /\ crossedWallet = FALSE /\ surprised = FALSE

Asking(a, op) == asks[a] # Nothing /\ asks[a].op = op
AdminMishap == adminMishaps < MaxAdminMishaps /\ adminMishaps' = adminMishaps + 1

NewAsk(a, request) ==
  /\ asks[a] = Nothing /\ asked < MaxAsks
  /\ asks' = [asks EXCEPT ![a] = request] /\ asked' = asked + 1

-----------------------------------------------------------------------------
(* Disable and Enable.                                                     *)

ClickToggle(a, u) ==
  /\ users # Nothing /\ selected = Nothing
  /\ NewAsk(a, [op |-> "toggle", stage |-> "sent", user |-> u, label |-> users[u],
                saw |-> FALSE])
  /\ doubts' = IF \E b \in Ask : asks[b] # Nothing /\ asks[b].op # "wallet" /\ asks[b].user = u
               THEN doubts \cup {"double"} ELSE doubts
  /\ UNCHANGED <<isActive, adminPage, adminMishaps, crossedWallet, surprised>>

ReadUser(a) ==
  /\ Asking(a, "toggle") /\ asks[a].stage = "sent"
  /\ asks' = [asks EXCEPT ![a].stage = "read", ![a].saw = isActive[asks[a].user]]
  /\ UNCHANGED <<isActive, adminPage, asked, adminMishaps, adminHistory>>

\* Variation: the list is not read again after a toggle.
ToggleOnly(a) ==
  /\ Asking(a, "toggle") /\ asks[a].stage = "read"
  /\ isActive' = [isActive EXCEPT ![asks[a].user] = ~asks[a].saw]
  /\ surprised' = (surprised \/ (doubts = {} /\ ~asks[a].saw = asks[a].label))
  /\ asks' = [asks EXCEPT ![a] = Nothing]
  /\ UNCHANGED <<adminPage, asked, adminMishaps, doubts, crossedWallet>>

\* The commit of the opposite of what was read; the page then reads the list.
ToggleUser(a) ==
  /\ Asking(a, "toggle") /\ asks[a].stage = "read"
  /\ isActive' = [isActive EXCEPT ![asks[a].user] = ~asks[a].saw]
  /\ surprised' = (surprised \/ (doubts = {} /\ ~asks[a].saw = asks[a].label))
  /\ asks' = [asks EXCEPT ![a] =
       [op |-> "list", stage |-> "sent", user |-> asks[a].user]]
  /\ UNCHANGED <<adminPage, asked, adminMishaps, doubts, crossedWallet>>

ReadUsers(a) ==
  /\ Asking(a, "list") /\ asks[a].stage = "sent"
  /\ asks' = [asks EXCEPT ![a] = 
       [op |-> "list", stage |-> "read", user |-> asks[a].user, list |-> isActive]]
  /\ UNCHANGED <<isActive, adminPage, asked, adminMishaps, adminHistory>>

\* setUsers, whichever answer comes last.
ShowUsers(a) ==
  /\ Asking(a, "list") /\ asks[a].stage = "read"
  /\ users' = asks[a].list
  /\ asks' = [asks EXCEPT ![a] = Nothing]
  /\ doubts' = IF asks[a].list = isActive THEN doubts ELSE doubts \cup {"crossed"}
  /\ UNCHANGED <<isActive, selected, wallet, loadingWallet, asked, adminMishaps,
                 crossedWallet, surprised>>

\* A toggle or a list that fails is logged and nothing else.
AskFails(a) ==
  /\ AdminMishap
  /\ Asking(a, "toggle") \/ Asking(a, "list")
  /\ asks' = [asks EXCEPT ![a] = Nothing]
  /\ doubts' = doubts \cup {"failed"}
  /\ UNCHANGED <<isActive, adminPage, asked, crossedWallet, surprised>>

ToggledElsewhere(u) ==
  /\ AdminMishap
  /\ isActive' = [isActive EXCEPT ![u] = ~@]
  /\ doubts' = doubts \cup {"elsewhere"}
  /\ UNCHANGED <<adminPage, asks, asked, crossedWallet, surprised>>

-----------------------------------------------------------------------------
(* The details of a user.                                                  *)

ClickUser(a, u) ==
  /\ users # Nothing /\ selected = Nothing
  /\ NewAsk(a, [op |-> "wallet", stage |-> "sent", user |-> u])
  /\ selected' = u /\ wallet' = Nothing /\ loadingWallet' = TRUE
  /\ crossedWallet' = FALSE
  /\ UNCHANGED <<isActive, users, adminMishaps, doubts, surprised>>

\* The answer fills the details of whoever is selected by now.
ShowWallet(a) ==
  /\ Asking(a, "wallet")
  /\ wallet' = asks[a].user /\ loadingWallet' = FALSE
  /\ crossedWallet' = (crossedWallet \/ asks[a].user # selected)
  /\ asks' = [asks EXCEPT ![a] = Nothing]
  /\ UNCHANGED <<isActive, users, selected, asked, adminMishaps, doubts, surprised>>

WalletFails(a) ==
  /\ AdminMishap
  /\ Asking(a, "wallet")
  /\ loadingWallet' = FALSE
  /\ asks' = [asks EXCEPT ![a] = Nothing]
  /\ UNCHANGED <<isActive, users, selected, wallet, asked, adminHistory>>

CloseUser ==
  /\ selected # Nothing /\ selected' = Nothing
  /\ UNCHANGED <<isActive, users, wallet, loadingWallet, asks, asked, adminMishaps,
                 adminHistory>>

AdminNext ==
  \/ \E a \in Ask :
       \/ ReadUser(a) \/ ToggleUser(a) \/ ReadUsers(a) \/ ShowUsers(a) \/ AskFails(a)
       \/ ShowWallet(a) \/ WalletFails(a)
       \/ \E u \in Account : ClickToggle(a, u) \/ ClickUser(a, u)
  \/ \E u \in Account : ToggledElsewhere(u)
  \/ CloseUser

AdminSpec == AdminInit /\ [][AdminNext]_adminVars

-----------------------------------------------------------------------------
(* Properties.                                                             *)

\* A button does what it says: a user is enabled by Disable, or disabled by
\* Enable, only after another administrator's toggle, a request that failed, a
\* second click on the same user before the list came, or lists out of order.
DoesWhatItSays == ~surprised

\* The wallet in a user's details is that user's, unless the answer for another
\* user arrived after the selection.
WalletIsTheirs ==
  selected # Nothing /\ wallet # Nothing /\ ~loadingWallet =>
    wallet = selected \/ crossedWallet

\* What the administrator reads and presses is about the user named there.
AboutTheUserNamed == DoesWhatItSays /\ WalletIsTheirs
=============================================================================
