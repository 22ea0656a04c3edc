----------------------------- MODULE TabsProofs -----------------------------
(* Proofs about Tabs, for any number of tabs and accounts.                 *)
EXTENDS Tabs, TLAPS

(***************************************************************************)
(* A tab's getMe or save may still be on its way when the token is         *)
(* replaced; its answer then shows the old account.  So the invariant      *)
(* speaks of the call as well as of the account shown.                     *)
(***************************************************************************)
OwnCall ==
  \A t \in Tab :
    call[t] # Nothing /\ call[t].shows # None /\ token # None
      /\ call[t].shows # token
    => t \in crossed

IInv == TypeOK /\ ActsAsShown /\ OwnCall

USE NoneAssumption, RoleAssumption, TwoFactorAssumption, BoundAssumption

-----------------------------------------------------------------------------
\* A page load keeps the types of what it sets.
LEMMA LoadTypes ==
  ASSUME TypeOK, NEW t \in Tab, NEW tok \in Account \cup {None}, NEW p \in Page,
         Load(t, tok, p)
  PROVE  /\ shown' \in [Tab -> Account \cup {None}]
         /\ loading' \in [Tab -> BOOLEAN]
         /\ page' \in [Tab -> Page]
         /\ call' \in [Tab -> Call \cup {Nothing}]
         /\ entry' \in [Tab -> Entry \cup {Nothing}]
         /\ holds' \in [Tab -> Account \cup {None}]
         /\ modal' \in [Tab -> BOOLEAN]
         /\ crossed' \subseteq Tab
<1>1. shown' \in [Tab -> Account \cup {None}]  BY DEF TypeOK, Load
<1>2. loading' \in [Tab -> BOOLEAN]  BY Zenon DEF TypeOK, Load
<1>3. page' \in [Tab -> Page]  BY DEF TypeOK, Load, Landing, Page
<1>4. call' \in [Tab -> Call \cup {Nothing}]
  <2>1. [kind |-> "me", as |-> tok, shows |-> tok] \in Call  BY DEF Call
  <2>2. QED  BY <2>1 DEF TypeOK, Load
<1>5. entry' \in [Tab -> Entry \cup {Nothing}]  BY DEF TypeOK, Load
<1>6. holds' \in [Tab -> Account \cup {None}]  BY DEF TypeOK, Load
<1>7. modal' \in [Tab -> BOOLEAN]  BY DEF TypeOK, Load
<1>8. crossed' \subseteq Tab  BY DEF TypeOK, Load
<1>9. QED  BY <1>1, <1>2, <1>3, <1>4, <1>5, <1>6, <1>7, <1>8

\* What a request in flight is.
LEMMA CallTypes ==
  ASSUME TypeOK, NEW t \in Tab, call[t] # Nothing
  PROVE  /\ call[t] \in Call
         /\ call[t].as \in Account \cup {None}
         /\ call[t].shows \in Account \cup {None}
BY DEF TypeOK, Call

LEMMA EntryTypes ==
  ASSUME TypeOK, NEW t \in Tab, entry[t] # Nothing
  PROVE  entry[t] \in Entry /\ entry[t].as \in Account \cup {None}
BY DEF TypeOK, Entry

LEMMA ReturnedTypes ==
  ASSUME TypeOK, NEW t \in Tab, NEW u \in Account \cup {None}, Returned(t, u)
  PROVE  /\ shown' \in [Tab -> Account \cup {None}]
         /\ loading' \in [Tab -> BOOLEAN]
         /\ page' \in [Tab -> Page]
         /\ call' \in [Tab -> Call \cup {Nothing}]
<1>1. shown' \in [Tab -> Account \cup {None}]  BY DEF TypeOK, Returned
<1>2. loading' \in [Tab -> BOOLEAN]  BY DEF TypeOK, Returned
<1>3. page' \in [Tab -> Page]
  <2>1. page[t] \in Page  BY DEF TypeOK
  <2>2. Landing(page[t], u, loading'[t]) \in Page  BY <2>1 DEF Landing, Page
  <2>3. QED  BY <2>2 DEF TypeOK, Returned
<1>4. call' \in [Tab -> Call \cup {Nothing}]  BY DEF TypeOK, Returned
<1>5. QED  BY <1>1, <1>2, <1>3, <1>4

LEMMA SendTypes ==
  ASSUME TypeOK, NEW t \in Tab, NEW k \in {"password", "code", "google"},
         NEW a \in Account \cup {None}, Send(t, k, a)
  PROVE  TypeOK'
<1>1. [kind |-> k, as |-> a] \in Entry  BY DEF Entry
<1>2. entry' \in [Tab -> Entry \cup {Nothing}]  BY <1>1 DEF TypeOK, Send
<1>3. attempts' \in 0..MaxAttempts  BY DEF TypeOK, Send
<1>4. QED  BY <1>2, <1>3 DEF Send, TypeOK, serverVars

-----------------------------------------------------------------------------
\* Every step keeps the types.
LEMMA TypeStep == TypeOK /\ [Next]_vars => TypeOK'
<1> SUFFICES ASSUME TypeOK, [Next]_vars PROVE TypeOK'
  OBVIOUS
<1>1. CASE UNCHANGED vars
  BY <1>1 DEF TypeOK, vars, serverVars, tabVars
<1>2. ASSUME NEW t \in Tab, NEW p \in Page, Open(t, p)  PROVE TypeOK'
  <2>1. Load(t, token, p)  BY <1>2 DEF Open
  <2>2. QED  BY <1>2, <2>1, LoadTypes DEF Open, TypeOK, serverVars
<1>3. ASSUME NEW t \in Tab, NEW p \in Page, Follow(t, p)  PROVE TypeOK'
  <2>1. Landing(p, shown[t], loading[t]) \in Page  BY DEF Landing, Page
  <2>2. QED  BY <1>3, <2>1 DEF Follow, TypeOK, serverVars
<1>4. ASSUME NEW t \in Tab, Logout(t), UNCHANGED <<serverVars, attempts>>, faults' \in 0..MaxFaults
      PROVE  TypeOK'
  <2>1. Load(t, None, Login) /\ Login \in Page  BY <1>4 DEF Logout, Page
  <2>2. QED  BY <1>4, <2>1, LoadTypes DEF Logout, TypeOK, serverVars
<1>5. ASSUME NEW t \in Tab, SignOut(t) \/ ReturnHome(t)  PROVE TypeOK'
  BY <1>5, <1>4 DEF SignOut, ReturnHome, TypeOK
<1>6. ASSUME NEW t \in Tab, NEW a \in Account \cup {None},
             SubmitPassword(t, a) \/ SubmitCode(t, a) \/ SubmitGoogle(t, a)
      PROVE  TypeOK'
  BY <1>6, SendTypes DEF SubmitPassword, SubmitCode, SubmitGoogle
<1>7. ASSUME NEW t \in Tab, NEW c \in Call, call' = [call EXCEPT ![t] = c],
             UNCHANGED <<token, serverVars, shown, loading, page, entry, holds,
                         modal, attempts, faults, crossed>>
      PROVE  TypeOK'
  <2>1. call' \in [Tab -> Call \cup {Nothing}]  BY <1>7 DEF TypeOK
  <2>2. QED  BY <1>7, <2>1 DEF TypeOK, serverVars
<1>8. ASSUME NEW t \in Tab, AskData(t)  PROVE TypeOK'
  <2>1. [kind |-> "data", as |-> token, shows |-> None] \in Call
    BY DEF TypeOK, Call
  <2>2. QED  BY <1>7, <1>8, <2>1 DEF AskData
<1>9. ASSUME NEW t \in Tab, Save(t)  PROVE TypeOK'
  <2>1. PICK u \in {token, shown[t]} :
          call' = [call EXCEPT ![t] = [kind |-> "save", as |-> token, shows |-> u]]
    BY <1>9 DEF Save
  <2>2. [kind |-> "save", as |-> token, shows |-> u] \in Call
    BY DEF TypeOK, Call
  <2>3. UNCHANGED <<token, serverVars, shown, loading, page, entry, holds,
                    modal, attempts, faults, crossed>>
    BY <1>9 DEF Save
  <2>4. QED  BY <1>7, <2>1, <2>2, <2>3
<1>10. ASSUME NEW t \in Tab, NEW u \in Account \cup {None}, Returned(t, u),
              UNCHANGED <<token, serverVars, entry, holds, attempts, crossed>>,
              faults' \in 0..MaxFaults, modal' \in [Tab -> BOOLEAN]
       PROVE  TypeOK'
  BY <1>10, ReturnedTypes DEF TypeOK, serverVars
<1>11. ASSUME NEW t \in Tab, Answer(t)  PROVE TypeOK'
  <2>1. call[t] # Nothing  BY <1>11
    DEF Answer, AnswerOk, AnswerDisabled, AnswerRefused, AnswerFails
  <2>2. call[t].shows \in Account \cup {None} /\ shown[t] \in Account \cup {None}
    BY <2>1, CallTypes DEF TypeOK
  <2>3. CASE AnswerOk(t)
    <3>1. PICK u \in Account \cup {None} : Returned(t, u)
      BY <2>2, <2>3 DEF AnswerOk
    <3>2. QED  BY <2>3, <3>1, <1>10 DEF AnswerOk, TypeOK
  <2>4. CASE AnswerDisabled(t)
    <3>1. modal' \in [Tab -> BOOLEAN]  BY <2>4 DEF AnswerDisabled, TypeOK
    <3>2. QED  BY <2>2, <2>4, <3>1, <1>10 DEF AnswerDisabled, TypeOK
  <2>5. CASE AnswerRefused(t)
    BY <2>5, <1>4 DEF AnswerRefused, TypeOK
  <2>6. CASE AnswerFails(t)
    <3>1. faults' \in 0..MaxFaults  BY <2>6 DEF AnswerFails, TypeOK
    <3>2. QED  BY <2>2, <2>6, <3>1, <1>10 DEF AnswerFails, TypeOK
  <2>7. QED  BY <1>11, <2>3, <2>4, <2>5, <2>6 DEF Answer
<1>12. ASSUME NEW t \in Tab, EntryAnswer(t)  PROVE TypeOK'
  <2>1. CASE EntryWrong(t) \/ EntryRefused(t)
    BY <2>1, <1>4 DEF EntryWrong, EntryRefused, TypeOK
  <2>2. CASE EntryDisabled(t)
    <3>1. modal' \in [Tab -> BOOLEAN]  BY <2>2 DEF EntryDisabled, TypeOK
    <3>2. QED  BY <2>2, <3>1 DEF EntryDisabled, Entered, TypeOK, serverVars
  <2>3. CASE EntryNeedsCode(t)
    <3>1. entry[t].as \in Account  BY <2>3, EntryTypes DEF EntryNeedsCode
    <3>2. QED  BY <2>3, <3>1 DEF EntryNeedsCode, Entered, TypeOK, serverVars
  <2>4. CASE EntryOk(t)
    <3>1. entry[t].as \in Account  BY <2>4, EntryTypes DEF EntryOk
    <3>2. Dashboard(RoleOf[entry[t].as]) \in Page  BY <3>1 DEF Page, Dashboard, Role
    <3>3. Landing(Dashboard(RoleOf[entry[t].as]), entry[t].as, loading[t]) \in Page
      BY <3>2 DEF Landing, Page
    <3>4. page' \in [Tab -> Page]  BY <2>4, <3>3 DEF EntryOk, ApplySession, TypeOK
    <3>5. crossed' \subseteq Tab  BY <2>4 DEF EntryOk, ApplySession, TypeOK
    <3>6. shown' \in [Tab -> Account \cup {None}] /\ token' \in Account
      BY <2>4, <3>1 DEF EntryOk, ApplySession, TypeOK
    <3>7. entry' \in [Tab -> Entry \cup {Nothing}]  BY <2>4 DEF EntryOk, Entered, TypeOK
    <3>8. holds' \in [Tab -> Account \cup {None}] /\ expired' \subseteq Account
      BY <2>4 DEF EntryOk, TypeOK
    <3>9. QED  BY <2>4, <3>4, <3>5, <3>6, <3>7, <3>8 DEF EntryOk, TypeOK
  <2>5. CASE EntryFails(t)
    <3>1. faults' \in 0..MaxFaults  BY <2>5 DEF EntryFails, TypeOK
    <3>2. QED  BY <2>5, <3>1 DEF EntryFails, Entered, TypeOK, serverVars
  <2>6. QED  BY <1>12, <2>1, <2>2, <2>3, <2>4, <2>5 DEF EntryAnswer
<1>13. ASSUME NEW a \in Account, Expire(a) \/ Toggle(a)  PROVE TypeOK'
  BY <1>13 DEF Expire, Toggle, TypeOK, tabVars
<1>14. QED
  BY <1>1, <1>2, <1>3, <1>5, <1>6, <1>8, <1>9, <1>11, <1>12, <1>13 DEF Next

LEMMA TypeInit == Init => TypeOK
<1> SUFFICES ASSUME Init PROVE TypeOK
  OBVIOUS
<1>1. attempts \in 0..MaxAttempts /\ faults \in 0..MaxFaults  BY DEF Init
<1>2. page \in [Tab -> Page]  BY DEF Init, Page
<1>3. loading \in [Tab -> BOOLEAN] /\ modal \in [Tab -> BOOLEAN]  BY Zenon DEF Init
<1>4. shown \in [Tab -> Account \cup {None}] /\ holds \in [Tab -> Account \cup {None}]
  BY DEF Init
<1>5. call \in [Tab -> Call \cup {Nothing}] /\ entry \in [Tab -> Entry \cup {Nothing}]
  BY DEF Init
<1>6. QED  BY <1>1, <1>2, <1>3, <1>4, <1>5 DEF Init, TypeOK

\* The tabs, the stored session and the calls are type correct, for any number
\* of tabs and accounts.
THEOREM TypeCorrect == Spec => []TypeOK
BY TypeInit, TypeStep, PTL DEF Spec

-----------------------------------------------------------------------------
\* A tab that loads anew forgets whom it showed; its getMe goes out under the
\* token stored at that moment.
LEMMA LoadSafe ==
  ASSUME TypeOK, ActsAsShown, OwnCall, NEW t \in Tab, NEW p \in Page,
         Load(t, token', p), token' \in {token, None}
  PROVE  ActsAsShown' /\ OwnCall'
<1>1. ActsAsShown'
  <2> SUFFICES ASSUME NEW u \in Tab, shown'[u] # None, token' # None,
                      shown'[u] # token'
               PROVE  u \in crossed'
    BY DEF ActsAsShown
  <2>1. u # t /\ shown'[u] = shown[u] /\ token' = token
    BY DEF Load, TypeOK
  <2>2. QED  BY <2>1 DEF ActsAsShown, Load
<1>2. OwnCall'
  <2> SUFFICES ASSUME NEW u \in Tab, call'[u] # Nothing, call'[u].shows # None,
                      token' # None, call'[u].shows # token'
               PROVE  u \in crossed'
    BY DEF OwnCall
  <2>1. call'[t] = [kind |-> "me", as |-> token', shows |-> token']
    BY DEF Load, TypeOK
  <2>2. u # t  BY <2>1
  <2>3. call'[u] = call[u] /\ token' = token  BY <2>2 DEF Load, TypeOK
  <2>4. QED  BY <2>2, <2>3 DEF OwnCall, Load
<1>3. QED  BY <1>1, <1>2

\* An answer shows the account its call was to show, or changes nothing.
LEMMA ReturnedSafe ==
  ASSUME TypeOK, ActsAsShown, OwnCall, NEW t \in Tab, NEW u, Returned(t, u),
         \/ u = shown[t]
         \/ call[t] # Nothing /\ call[t].shows # None /\ u = call[t].shows,
         UNCHANGED <<token, crossed>>
  PROVE  ActsAsShown' /\ OwnCall'
<1>1. ActsAsShown'
  <2> SUFFICES ASSUME NEW w \in Tab, shown'[w] # None, token' # None,
                      shown'[w] # token'
               PROVE  w \in crossed'
    BY DEF ActsAsShown
  <2>1. CASE w # t
    BY <2>1 DEF ActsAsShown, Returned, TypeOK
  <2>2. CASE w = t
    <3>1. shown'[t] = u  BY DEF Returned, TypeOK
    <3>2. QED  BY <2>2, <3>1 DEF ActsAsShown, OwnCall
  <2>3. QED  BY <2>1, <2>2
<1>2. OwnCall'
  <2> SUFFICES ASSUME NEW w \in Tab, call'[w] # Nothing, call'[w].shows # None,
                      token' # None, call'[w].shows # token'
               PROVE  w \in crossed'
    BY DEF OwnCall
  <2>1. w # t  BY DEF Returned, TypeOK, Nothing
  <2>2. call'[w] = call[w]  BY <2>1 DEF Returned, TypeOK
  <2>3. QED  BY <2>2 DEF OwnCall
<1>3. QED  BY <1>1, <1>2

LEMMA SafeStep == IInv /\ [Next]_vars => IInv'
<1> SUFFICES ASSUME TypeOK, ActsAsShown, OwnCall, [Next]_vars
             PROVE  ActsAsShown' /\ OwnCall'
  BY TypeStep DEF IInv
<1>1. ASSUME UNCHANGED <<token, shown, call, crossed>>
      PROVE  ActsAsShown' /\ OwnCall'
  BY <1>1 DEF ActsAsShown, OwnCall
<1>2. ASSUME NEW t \in Tab, Logout(t)
      PROVE  ActsAsShown' /\ OwnCall'
  BY <1>2, LoadSafe DEF Logout, Page
<1>3. ASSUME NEW t \in Tab, NEW p \in Page, Open(t, p)
      PROVE  ActsAsShown' /\ OwnCall'
  BY <1>3, LoadSafe DEF Open
<1>4. ASSUME NEW t \in Tab,
             \/ SignOut(t) \/ ReturnHome(t) \/ AnswerRefused(t)
             \/ EntryWrong(t) \/ EntryRefused(t)
      PROVE  ActsAsShown' /\ OwnCall'
  BY <1>2, <1>4 DEF SignOut, ReturnHome, AnswerRefused, EntryWrong, EntryRefused
<1>5. ASSUME NEW t \in Tab, AskData(t) \/ Save(t)
      PROVE  ActsAsShown' /\ OwnCall'
  <2>1. \E k \in {"data", "save"} : \E u \in {None, token, shown[t]} :
          call' = [call EXCEPT ![t] = [kind |-> k, as |-> token, shows |-> u]]
    <3>1. CASE AskData(t)  BY <3>1 DEF AskData
    <3>2. CASE Save(t)  BY <3>2 DEF Save
    <3>3. QED  BY <1>5, <3>1, <3>2
  <2>2. UNCHANGED <<token, shown, crossed>>  BY <1>5 DEF AskData, Save
  <2>3. ActsAsShown'  BY <2>2 DEF ActsAsShown
  <2>4. OwnCall'
    <3> SUFFICES ASSUME NEW w \in Tab, call'[w] # Nothing, call'[w].shows # None,
                        token' # None, call'[w].shows # token'
                 PROVE  w \in crossed'
      BY DEF OwnCall
    <3>1. CASE w # t
      <4>1. call'[w] = call[w]  BY <2>1, <3>1 DEF TypeOK
      <4>2. QED  BY <2>2, <4>1 DEF OwnCall
    <3>2. CASE w = t
      <4>1. call'[t].shows \in {None, token, shown[t]}  BY <2>1 DEF TypeOK
      <4>2. call'[t].shows = shown[t]  BY <2>2, <3>2, <4>1
      <4>3. QED  BY <2>2, <3>2, <4>2 DEF ActsAsShown
    <3>3. QED  BY <3>1, <3>2
  <2>5. QED  BY <2>3, <2>4
<1>6. ASSUME NEW t \in Tab, AnswerOk(t) \/ AnswerDisabled(t) \/ AnswerFails(t)
      PROVE  ActsAsShown' /\ OwnCall'
  <2>1. UNCHANGED <<token, crossed>>
    BY <1>6 DEF AnswerOk, AnswerDisabled, AnswerFails
  <2>2. \/ Returned(t, shown[t])
        \/ call[t] # Nothing /\ call[t].shows # None /\ Returned(t, call[t].shows)
    BY <1>6 DEF AnswerOk, AnswerDisabled, AnswerFails
  <2>3. QED  BY <2>1, <2>2, ReturnedSafe
<1>7. ASSUME NEW t \in Tab, EntryOk(t)
      PROVE  ActsAsShown' /\ OwnCall'
  <2>1. ApplySession(t, entry[t].as) /\ UNCHANGED call  BY <1>7 DEF EntryOk
  <2>2. \A u \in Tab : u # t /\ shown[u] # None => u \in crossed'
    BY <2>1 DEF ApplySession
  <2>3. \A u \in Tab : call[u] # Nothing /\ call[u].shows # None => u \in crossed'
    <3> SUFFICES ASSUME NEW u \in Tab, call[u] # Nothing, call[u].shows # None
                 PROVE  u \in crossed'
      OBVIOUS
    <3>1. ShowsLater(u)  BY DEF ShowsLater, TypeOK, Call
    <3>2. QED  BY <2>1, <3>1 DEF ApplySession
  <2>4. shown'[t] = token' /\ \A u \in Tab : u # t => shown'[u] = shown[u]
    BY <2>1 DEF ApplySession, TypeOK
  <2>5. ActsAsShown'  BY <2>2, <2>4 DEF ActsAsShown
  <2>6. OwnCall'  BY <2>1, <2>3 DEF OwnCall
  <2>7. QED  BY <2>5, <2>6
<1>8. ASSUME NEW t \in Tab,
             EntryDisabled(t) \/ EntryNeedsCode(t) \/ EntryFails(t)
      PROVE  UNCHANGED <<token, shown, call, crossed>>
  BY <1>8 DEF EntryDisabled, EntryNeedsCode, EntryFails
<1>9. ASSUME NEW t \in Tab, NEW p, NEW a,
             \/ Follow(t, p) \/ SubmitPassword(t, a) \/ SubmitGoogle(t, a)
             \/ SubmitCode(t, a)
      PROVE  UNCHANGED <<token, shown, call, crossed>>
  BY <1>9 DEF Follow, SubmitPassword, SubmitGoogle, SubmitCode, Send
<1>10. ASSUME NEW a, Expire(a) \/ Toggle(a)
       PROVE  UNCHANGED <<token, shown, call, crossed>>
  BY <1>10 DEF Expire, Toggle, tabVars
<1>11. CASE UNCHANGED vars
  BY <1>1, <1>11 DEF vars, tabVars
<1>12. QED
  BY <1>1, <1>3, <1>4, <1>5, <1>6, <1>7, <1>8, <1>9, <1>10, <1>11
  DEF Next, Answer, EntryAnswer

\* A tab acts for another account than the one it shows only after a sign-in
\* elsewhere, or over its own getMe or save, for any number of tabs and accounts.
THEOREM TabsActAsShown == Spec => []ActsAsShown
<1>1. Init => IInv
  <2>1. Init => TypeOK
    BY TypeInit
  <2>2. Init => ActsAsShown /\ OwnCall
    BY DEF Init, ActsAsShown, OwnCall
  <2>3. QED  BY <2>1, <2>2 DEF IInv
<1>2. IInv => ActsAsShown
  BY DEF IInv
<1>3. QED  BY <1>1, <1>2, SafeStep, PTL DEF Spec

-----------------------------------------------------------------------------
\* Only a log-out empties the store, and only a 401 logs out by itself; what is
\* refused under the stored token is a token that is too old.
LEMMA EndsStep == TypeOK /\ [Next]_vars => [GoodSessionEnds]_vars
<1> SUFFICES ASSUME TypeOK, Next,
                    token # None, token' = None, token \notin expired
             PROVE  \E t \in Tab : \/ SignOut(t) \/ ReturnHome(t)
                                   \/ EntryWrong(t) \/ EntryRefused(t)
                                   \/ call[t] # Nothing /\ call[t].as # token
  BY DEF GoodSessionEnds
<1>1. ASSUME NEW a \in Account, Expire(a) \/ Toggle(a)  PROVE FALSE
  BY <1>1 DEF Expire, Toggle
<1>2. ASSUME NEW t \in Tab, NEW p, NEW a,
             \/ Open(t, p) \/ Follow(t, p) \/ SubmitPassword(t, a)
             \/ SubmitGoogle(t, a) \/ SubmitCode(t, a) \/ AskData(t) \/ Save(t)
      PROVE  FALSE
  BY <1>2 DEF Open, Follow, SubmitPassword, SubmitGoogle, SubmitCode, Send,
              AskData, Save
<1>3. ASSUME NEW t \in Tab, Answer(t)
      PROVE  call[t] # Nothing /\ call[t].as # token
  <2>1. AnswerRefused(t)
    BY <1>3 DEF Answer, AnswerOk, AnswerDisabled, AnswerFails
  <2>2. QED  BY <2>1 DEF AnswerRefused, Refused
<1>4. ASSUME NEW t \in Tab, EntryAnswer(t)
      PROVE  EntryWrong(t) \/ EntryRefused(t)
  <2>1. ~ EntryOk(t)
    <3> SUFFICES ASSUME EntryOk(t) PROVE FALSE
      OBVIOUS
    <3>1. entry[t].as \in Account  BY DEF EntryOk
    <3>2. token' = entry[t].as  BY DEF EntryOk, ApplySession
    <3>3. QED  BY <3>1, <3>2
  <2>2. QED
    BY <1>4, <2>1 DEF EntryAnswer, EntryDisabled, EntryNeedsCode, EntryFails
<1>5. PICK t \in Tab : \/ SignOut(t) \/ ReturnHome(t)
                       \/ Answer(t) \/ EntryAnswer(t)
  BY <1>1, <1>2 DEF Next
<1>6. QED  BY <1>3, <1>4, <1>5

\* A good session ends by a sign-out, a sign-in answered 401 or a request under
\* another token; no other failure and no disabled account takes it away, for any
\* number of tabs and accounts.
THEOREM GoodSessionsLast == Spec => GoodSessionKept
BY TypeInit, TypeStep, EndsStep, PTL DEF Spec, GoodSessionKept
=============================================================================
