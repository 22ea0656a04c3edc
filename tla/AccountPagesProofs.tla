-------------------------- MODULE AccountPagesProofs --------------------------
(***************************************************************************)
(* Proofs about the pages of the account and of the administration, for    *)
(* any number of devices, requests, users, GPUs, links, secrets and edits: *)
(* each page in a section of its own, with its own inductive invariant,    *)
(* and at the end the page that MCAccountPages mounts.                     *)
(***************************************************************************)
EXTENDS MCAccountPages, TLAPS

-----------------------------------------------------------------------------
(* Two-factor authentication (TwoFactor).                                  *)

\* A call carries a code of the user's app where it enables, and once its
\* handler has passed its checks, what they found of the row it had read.
IsChecked(c, codes) ==
  /\ c.op = "enable" => c.code \in codes
  /\ c.stage = "checked" /\ c.op = "setup" => c.sawEnabled = FALSE
  /\ c.stage = "checked" /\ c.op = "enable" => c.sawEnabled = FALSE /\ c.code = c.saw
  /\ c.stage = "checked" /\ c.op = "disable" => c.sawEnabled = TRUE

CallsAreChecked ==
  \A s \in Slot : calls[s] # NoCall => IsChecked(calls[s], app)

\* A call is of a device d, in a slot s.
Of(s, d) == calls[s] # NoCall /\ calls[s].dev = d

\* Secrets are new when they are generated: until its answer is read, nobody
\* has seen that of a set-up, and no other set-up has it.
SecretsAreNew ==
  /\ secret <= generated
  /\ \A k \in app : k <= generated
  /\ \A d \in Device : qr[d] <= generated
  /\ \A s \in Slot : calls[s] # NoCall /\ calls[s].op = "setup" /\ calls[s].stage = "done" =>
       /\ calls[s].new \in 1 .. generated
       /\ calls[s].new \notin app
       /\ \A d \in Device : qr[d] # calls[s].new
       /\ \A r \in Slot : calls[r] # NoCall /\ calls[r].op = "setup" /\ calls[r].stage = "done"
                            /\ calls[r].new = calls[s].new => r = s

\* What the calls of a device go with, on its panel and in the account.
CallFits(c, d) ==
  /\ c.heard
  /\ c.op = "setup" /\ c.stage # "refused" => ~ believes[d] /\ qr[d] = 0
  /\ c.op = "disable" => believes[d]
  /\ c.op = "enable" /\ c.stage \in {"sent", "checked"} =>
       enabled \/ c.code # secret \/ qr[d] # 0
  /\ c.stage = "done" =>
       /\ c.op = "setup" => ~ enabled /\ c.new = secret
       /\ c.op = "enable" => enabled /\ ~ believes[d] /\ qr[d] # 0
       /\ c.op = "disable" => ~ enabled /\ secret = 0

\* Of the calls of a device, one is a set-up, one disables, and one waits to be
\* answered that changed the account.
OneAtATime(d) ==
  \A s, r \in Slot : Of(s, d) /\ Of(r, d) /\ s # r =>
    /\ calls[s].op = calls[r].op => calls[s].op = "enable"
    /\ ~ (calls[s].stage = "done" /\ calls[r].stage = "done")

\* A device on which only the calls of its own panel changed the account.
Keeps(d) ==
  /\ believes[d] => qr[d] = 0
  /\ \A s \in Slot : Of(s, d) => CallFits(calls[s], d)
  /\ OneAtATime(d)
  /\ (\A s \in Slot : Of(s, d) => calls[s].stage # "done") =>
       believes[d] = enabled /\ (qr[d] # 0 => qr[d] = secret)

PanelsKeep == \A d \in Device : why[d] = {} /\ ~ overwrote => Keeps(d)

IInv2FA ==
  TypeOK2FA /\ CallsAreChecked /\ ConfirmedSecret /\ SecretsAreNew /\ PanelsKeep

USE SecretBounds DEF Secret, account2fa, pages2fa, history2fa, vars2fa

-----------------------------------------------------------------------------
(* Types.                                                                  *)

LEMMA SentTypes ==
  ASSUME TypeOK2FA, NEW s \in Slot, NEW d \in Device,
         NEW op \in {"setup", "enable", "disable"}, NEW code \in 0 .. MaxSecrets,
         SendCall(s, d, op, code)
  PROVE  TypeOK2FA'
<1> DEFINE c == [dev |-> d, op |-> op, code |-> code, stage |-> "sent", heard |-> TRUE,
                 sawEnabled |-> FALSE, saw |-> 0, new |-> 0]
<1>1. c \in Call
  BY DEF Call
<1>2. calls' = [calls EXCEPT ![s] = c]
  BY DEF SendCall
<1> HIDE DEF c
<1>3. calls' \in [Slot -> Call \cup {NoCall}]
  BY <1>1, <1>2 DEF TypeOK2FA
<1>4. QED
  BY <1>3 DEF SendCall, TypeOK2FA

\* What Checks puts in the place of a call.
Checked(c) ==
  [c EXCEPT !.stage = IF Accepts(c) THEN "checked" ELSE "refused",
            !.sawEnabled = enabled, !.saw = secret]

LEMMA CheckedIs ==
  ASSUME TypeOK2FA, NEW c \in Call
  PROVE  /\ Checked(c) \in Call
         /\ Checked(c).op = c.op /\ Checked(c).code = c.code
         /\ Checked(c).dev = c.dev /\ Checked(c).heard = c.heard
         /\ Checked(c).sawEnabled = enabled /\ Checked(c).saw = secret
         /\ Checked(c).stage \in {"checked", "refused"}
         /\ Checked(c).stage = "checked" => Accepts(c)
<1>1. /\ c.dev \in Device /\ c.op \in {"setup", "enable", "disable"}
      /\ c.code \in 0 .. MaxSecrets /\ c.heard \in BOOLEAN /\ c.new \in 0 .. MaxSecrets
  BY DEF Call
<1>2. enabled \in BOOLEAN /\ secret \in 0 .. MaxSecrets
  BY DEF TypeOK2FA
<1> DEFINE stage == IF Accepts(c) THEN "checked" ELSE "refused"
           r == [c EXCEPT !.stage = stage, !.sawEnabled = enabled, !.saw = secret]
<1>3. stage \in {"checked", "refused"} /\ (stage = "checked" => Accepts(c))
  OBVIOUS
<1>4. Checked(c) = r
  BY DEF Checked
<1> HIDE DEF stage
<1>5. r \in Call
  BY <1>1, <1>2, <1>3 DEF Call
<1>6. r.op = c.op /\ r.code = c.code /\ r.dev = c.dev /\ r.heard = c.heard
  BY DEF Call
<1>7. r.stage = stage /\ r.saw = secret
  BY DEF Call
<1>8. r.sawEnabled = enabled
  BY Zenon DEF Call
<1> HIDE DEF r
<1>9. QED
  BY <1>3, <1>4, <1>5, <1>6, <1>7, <1>8


\* What Commits puts in the place of a call.
Done(c, new) == [c EXCEPT !.stage = "done", !.new = new]

LEMMA DoneIs ==
  ASSUME NEW c \in Call, NEW new \in 0 .. MaxSecrets
  PROVE  /\ Done(c, new) \in Call
         /\ Done(c, new).stage = "done" /\ Done(c, new).new = new
         /\ Done(c, new).op = c.op /\ Done(c, new).code = c.code
         /\ Done(c, new).dev = c.dev /\ Done(c, new).heard = c.heard
BY DEF Call, Done

\* What GivesUp puts there.
LEMMA UnheardIs ==
  ASSUME NEW c \in Call
  PROVE  /\ [c EXCEPT !.heard = FALSE] \in Call
         /\ [c EXCEPT !.heard = FALSE].stage = c.stage
         /\ [c EXCEPT !.heard = FALSE].op = c.op
         /\ [c EXCEPT !.heard = FALSE].code = c.code
         /\ [c EXCEPT !.heard = FALSE].dev = c.dev
         /\ [c EXCEPT !.heard = FALSE].new = c.new
         /\ [c EXCEPT !.heard = FALSE].saw = c.saw
         /\ [c EXCEPT !.heard = FALSE].sawEnabled = c.sawEnabled
BY DEF Call

\* A slot's call is replaced.
LEMMA CallsTypes ==
  ASSUME TypeOK2FA, NEW s \in Slot, NEW c \in Call \cup {NoCall},
         calls' = [calls EXCEPT ![s] = c]
  PROVE  /\ calls' \in [Slot -> Call \cup {NoCall}]
         /\ calls'[s] = c /\ \A r \in Slot : r # s => calls'[r] = calls[r]
BY DEF TypeOK2FA

LEMMA TypeStep2FA ==
  ASSUME TypeOK2FA, CallsAreChecked, [Next2FA]_vars2fa
  PROVE  TypeOK2FA'
<1>1. ASSUME NEW s \in Slot, NEW d \in Device, Setup(s, d) \/ Enable(s, d) \/ Disable(s, d)
      PROVE  TypeOK2FA'
  <2>1. 0 \in 0 .. MaxSecrets /\ app \subseteq 0 .. MaxSecrets
    BY DEF TypeOK2FA
  <2>2. QED
    BY <1>1, <2>1, SentTypes DEF Setup, Enable, Disable
<1>2. ASSUME NEW s \in Slot, Checks(s)
      PROVE  TypeOK2FA'
  <2>1. calls[s] \in Call /\ calls' = [calls EXCEPT ![s] = Checked(calls[s])]
    BY <1>2 DEF Checks, Checked, TypeOK2FA
  <2>2. calls' \in [Slot -> Call \cup {NoCall}]
    BY <2>1, CheckedIs, CallsTypes
  <2>3. QED
    BY <1>2, <2>2 DEF Checks, TypeOK2FA
<1>3. ASSUME NEW s \in Slot, Commits(s)
      PROVE  TypeOK2FA'
  <2> DEFINE c == calls[s]
             new == IF c.op = "setup" THEN generated + 1 ELSE 0
  <2>1. /\ c \in Call /\ calls' = [calls EXCEPT ![s] = Done(c, new)]
        /\ c.code \in 0 .. MaxSecrets
    BY <1>3 DEF Commits, Done, TypeOK2FA, Call
  <2>2. c.op = "setup" => generated < MaxSecrets
    BY <1>3 DEF Commits
  <2>3. new \in 0 .. MaxSecrets
    BY <2>2 DEF TypeOK2FA
  <2> HIDE DEF new
  <2>4. calls' \in [Slot -> Call \cup {NoCall}]
    BY <2>1, <2>3, DoneIs, CallsTypes
  <2>5. secret' \in 0 .. MaxSecrets /\ generated' \in 0 .. MaxSecrets
    BY <1>3 DEF Commits, TypeOK2FA
  <2>11. enabled' \in BOOLEAN
    BY <1>3, Zenon DEF Commits, TypeOK2FA
  <2>10. confirmed' \subseteq Secret
    <3>1. c.op = "enable" => c.code \in Secret
      BY <1>3 DEF Commits, CallsAreChecked, IsChecked, TypeOK2FA
    <3>2. QED
      BY <1>3, <3>1 DEF Commits, TypeOK2FA
  <2>6. why' \in [Device -> SUBSET {"elsewhere", "unheard", "google"}]
    BY <1>3 DEF Commits, Outdates, TypeOK2FA
  <2>7. overwrote' \in BOOLEAN
    BY <1>3 DEF Commits, TypeOK2FA
  <2>8. UNCHANGED <<app, qr, believes, unheard, signIns>>
    BY <1>3 DEF Commits
  <2>9. QED
    BY <2>4, <2>5, <2>6, <2>7, <2>8, <2>10, <2>11 DEF TypeOK2FA
<1>4. ASSUME NEW s \in Slot, Answered2FA(s)
      PROVE  TypeOK2FA'
  <2>1. calls[s] \in Call /\ calls' = [calls EXCEPT ![s] = NoCall]
    BY <1>4 DEF Answered2FA, TypeOK2FA
  <2>2. calls' \in [Slot -> Call \cup {NoCall}]
    BY <2>1, CallsTypes
  <2>3. calls[s].dev \in Device /\ calls[s].new \in 0 .. MaxSecrets
    BY <2>1 DEF Call
  <2>4. qr' \in [Device -> 0 .. MaxSecrets]
    BY <1>4, <2>3 DEF Answered2FA, SetupAnswered, EnableAnswered, DisableAnswered, TypeOK2FA
  <2>5. believes' \in [Device -> BOOLEAN]
    BY <1>4, <2>3 DEF Answered2FA, SetupAnswered, EnableAnswered, DisableAnswered, TypeOK2FA
  <2>6. QED
    BY <1>4, <2>2, <2>4, <2>5 DEF Answered2FA, TypeOK2FA
<1>5. ASSUME NEW s \in Slot, GivesUp(s)
      PROVE  TypeOK2FA'
  <2>1. calls[s] \in Call /\ calls' = [calls EXCEPT ![s] = [calls[s] EXCEPT !.heard = FALSE]]
    BY <1>5 DEF GivesUp, TypeOK2FA
  <2>2. calls' \in [Slot -> Call \cup {NoCall}]
    BY <2>1, UnheardIs, CallsTypes
  <2>3. why' \in [Device -> SUBSET {"elsewhere", "unheard", "google"}]
    BY <1>5 DEF GivesUp, TypeOK2FA
  <2>4. unheard' \in 0 .. MaxUnheard
    BY <1>5 DEF GivesUp, TypeOK2FA
  <2>5. QED
    BY <1>5, <2>2, <2>3, <2>4 DEF GivesUp, TypeOK2FA
<1>6. ASSUME NEW d \in Device, Scan(d)
      PROVE  TypeOK2FA'
  <2>1. qr[d] \in 0 .. MaxSecrets /\ qr[d] # 0
    BY <1>6 DEF Scan, OffersEnable, TypeOK2FA
  <2>2. qr[d] \in Secret
    BY <2>1
  <2>3. app \subseteq Secret /\ app' = app \cup {qr[d]}
    BY <1>6, Zenon DEF Scan, TypeOK2FA
  <2>4. QED
    BY <1>6, <2>2, <2>3 DEF Scan, TypeOK2FA
<1>7. ASSUME NEW d \in Device, Reloads(d)
      PROVE  TypeOK2FA'
  BY <1>7 DEF Reloads, TypeOK2FA
<1>8. ASSUME NEW d \in Device, NEW google \in BOOLEAN, SignsIn(d, google)
      PROVE  TypeOK2FA'
  <2>1. believes' \in [Device -> BOOLEAN]
    BY <1>8, Zenon DEF SignsIn, TypeOK2FA
  <2>2. why' \in [Device -> SUBSET {"elsewhere", "unheard", "google"}]
    BY <1>8 DEF SignsIn, TypeOK2FA
  <2>3. signIns' \in 0 .. MaxSignIns /\ qr' \in [Device -> 0 .. MaxSecrets]
    BY <1>8 DEF SignsIn, TypeOK2FA
  <2>4. QED
    BY <1>8, <2>1, <2>2, <2>3 DEF SignsIn, TypeOK2FA
<1>9. CASE UNCHANGED vars2fa
  BY <1>9 DEF TypeOK2FA
<1>10. QED
  BY <1>1, <1>2, <1>3, <1>4, <1>5, <1>6, <1>7, <1>8, <1>9 DEF Next2FA

-----------------------------------------------------------------------------
(* The invariant.                                                          *)

\* A slot's call is replaced by one that is as well checked, or by none.
LEMMA CallsStay ==
  ASSUME CallsAreChecked, app \subseteq app', NEW s \in Slot,
         \A r \in Slot : r # s => calls'[r] = calls[r],
         calls'[s] # NoCall => IsChecked(calls'[s], app')
  PROVE  CallsAreChecked'
BY DEF CallsAreChecked, IsChecked

LEMMA SentStays ==
  ASSUME TypeOK2FA, CallsAreChecked, NEW s \in Slot, NEW d \in Device,
         NEW op, NEW code, op = "enable" => code \in app, SendCall(s, d, op, code)
  PROVE  CallsAreChecked'
<1> DEFINE c == [dev |-> d, op |-> op, code |-> code, stage |-> "sent", heard |-> TRUE,
                 sawEnabled |-> FALSE, saw |-> 0, new |-> 0]
<1>1. c.op = op /\ c.code = code /\ c.stage = "sent"
  OBVIOUS
<1>2. calls' = [calls EXCEPT ![s] = c] /\ app' = app
  BY DEF SendCall
<1> HIDE DEF c
<1>3. calls'[s] = c /\ \A r \in Slot : r # s => calls'[r] = calls[r]
  BY <1>2 DEF TypeOK2FA
<1>4. IsChecked(c, app')
  BY <1>1, <1>2 DEF IsChecked
<1>5. QED
  BY <1>2, <1>3, <1>4, CallsStay

LEMMA CallsStep ==
  ASSUME TypeOK2FA, CallsAreChecked, [Next2FA]_vars2fa
  PROVE  CallsAreChecked'
<1>1. ASSUME NEW s \in Slot, NEW d \in Device, Setup(s, d) \/ Enable(s, d) \/ Disable(s, d)
      PROVE  CallsAreChecked'
  BY <1>1, SentStays DEF Setup, Enable, Disable
<1>2. ASSUME NEW s \in Slot, Checks(s)
      PROVE  CallsAreChecked'
  <2> DEFINE c == calls[s]
  <2>1. /\ c \in Call /\ c # NoCall /\ app' = app
        /\ calls' = [calls EXCEPT ![s] = Checked(c)]
    BY <1>2 DEF Checks, Checked, TypeOK2FA
  <2>2. /\ Checked(c) \in Call
        /\ Checked(c).op = c.op /\ Checked(c).code = c.code
        /\ Checked(c).sawEnabled = enabled /\ Checked(c).saw = secret
        /\ Checked(c).stage = "checked" => Accepts(c)
    BY <2>1, CheckedIs
  <2>3. calls'[s] = Checked(c) /\ \A r \in Slot : r # s => calls'[r] = calls[r]
    BY <2>1, <2>2, CallsTypes
  <2>4. c.op = "enable" => c.code \in app
    BY <2>1 DEF CallsAreChecked, IsChecked
  <2>5. Accepts(c) /\ c.op = "setup" => enabled = FALSE
    BY Zenon DEF Accepts, TypeOK2FA
  <2>6. Accepts(c) /\ c.op = "enable" => c.code = secret
    BY DEF Accepts
  <2>7. /\ Accepts(c) /\ c.op = "enable" => enabled = FALSE
        /\ Accepts(c) /\ c.op = "disable" => enabled = TRUE
    BY Zenon DEF Accepts, TypeOK2FA
  <2>8. IsChecked(Checked(c), app')
    BY <2>1, <2>2, <2>4, <2>5, <2>6, <2>7 DEF IsChecked
  <2>9. QED
    BY <2>1, <2>3, <2>8, CallsStay
<1>3. ASSUME NEW s \in Slot, Commits(s)
      PROVE  CallsAreChecked'
  <2> DEFINE c == calls[s]
             new == IF c.op = "setup" THEN generated + 1 ELSE 0
             r == Done(c, new)
  <2>1. /\ c \in Call /\ c # NoCall /\ app' = app /\ calls' = [calls EXCEPT ![s] = r]
        /\ c.op = "setup" => generated < MaxSecrets
    BY <1>3 DEF Commits, Done, TypeOK2FA
  <2>2. new \in 0 .. MaxSecrets
    BY <2>1 DEF TypeOK2FA
  <2> HIDE DEF new
  <2>3. r \in Call /\ r.stage = "done" /\ r.op = c.op /\ r.code = c.code
    BY <2>1, <2>2, DoneIs
  <2> HIDE DEF r
  <2>4. calls'[s] = r /\ \A k \in Slot : k # s => calls'[k] = calls[k]
    BY <2>1, <2>3, CallsTypes
  <2>5. c.op = "enable" => c.code \in app
    BY <2>1 DEF CallsAreChecked, IsChecked
  <2>6. IsChecked(r, app')
    BY <2>1, <2>3, <2>5 DEF IsChecked
  <2>7. QED
    BY <2>1, <2>4, <2>6, CallsStay
<1>4. ASSUME NEW s \in Slot, Answered2FA(s)
      PROVE  CallsAreChecked'
  <2>1. calls' = [calls EXCEPT ![s] = NoCall] /\ app' = app
    BY <1>4 DEF Answered2FA
  <2>2. QED
    BY <2>1, CallsStay, CallsTypes
<1>5. ASSUME NEW s \in Slot, GivesUp(s)
      PROVE  CallsAreChecked'
  <2> DEFINE c == calls[s]
             r == [c EXCEPT !.heard = FALSE]
  <2>1. c \in Call /\ c # NoCall /\ app' = app /\ calls' = [calls EXCEPT ![s] = r]
    BY <1>5 DEF GivesUp, TypeOK2FA
  <2>2. /\ r \in Call /\ r.stage = c.stage /\ r.op = c.op /\ r.code = c.code
        /\ r.saw = c.saw /\ r.sawEnabled = c.sawEnabled
    BY <2>1, UnheardIs
  <2> HIDE DEF r
  <2>3. calls'[s] = r /\ \A k \in Slot : k # s => calls'[k] = calls[k]
    BY <2>1, <2>2, CallsTypes
  <2>4. IsChecked(c, app)
    BY <2>1 DEF CallsAreChecked
  <2>5. IsChecked(r, app')
    BY <2>1, <2>2, <2>4 DEF IsChecked
  <2>6. QED
    BY <2>1, <2>3, <2>5, CallsStay
<1>6. CASE calls' = calls /\ app \subseteq app'
  BY <1>6 DEF CallsAreChecked, IsChecked
<1>7. QED
  BY <1>1, <1>2, <1>3, <1>4, <1>5, <1>6 DEF Next2FA, Scan, Reloads, SignsIn

\* Only a commit changes the account.
LEMMA ConfirmedStep ==
  ASSUME TypeOK2FA, CallsAreChecked, ConfirmedSecret, [Next2FA]_vars2fa
  PROVE  ConfirmedSecret'
<1>1. ASSUME NEW s \in Slot, Commits(s), ~ overwrote', enabled'
      PROVE  secret' \in confirmed' /\ secret' \in app'
  <2> DEFINE c == calls[s]
  <2>1. c \in Call /\ c # NoCall /\ c.stage = "checked" /\ app' = app
    BY <1>1 DEF Commits, TypeOK2FA
  <2>2. <<enabled, secret>> = <<c.sawEnabled, c.saw>>
    BY <1>1, Zenon DEF Commits
  <2>3. c.sawEnabled = enabled /\ c.saw = secret
    BY <2>2
  <2>4. c.op # "setup"
    <3>1. c.op = "setup" => enabled' = enabled
      BY <1>1 DEF Commits
    <3>2. c.op = "setup" => c.sawEnabled = FALSE
      BY <2>1 DEF CallsAreChecked, IsChecked
    <3>3. QED
      BY <1>1, <2>3, <3>1, <3>2
  <2>5. c.op # "disable"
    <3>1. c.op = "disable" => enabled' = FALSE
      BY <1>1 DEF Commits
    <3>2. QED
      BY <1>1, <3>1
  <2>6. c.op = "enable" => c.code = secret /\ c.code \in app
    BY <2>1, <2>3 DEF CallsAreChecked, IsChecked
  <2>7. c.op = "enable" /\ secret' = secret /\ confirmed' = confirmed \cup {c.code}
    BY <1>1, <2>4, <2>5 DEF Commits
  <2>8. QED
    BY <2>1, <2>6, <2>7
<1>2. CASE UNCHANGED <<enabled, secret, confirmed, overwrote>> /\ app \subseteq app'
  BY <1>2, Zenon DEF ConfirmedSecret
<1> DEFINE Same == UNCHANGED <<enabled, secret, confirmed, overwrote>> /\ app \subseteq app'
<1>3. ASSUME NEW s \in Slot, NEW d \in Device, Setup(s, d) \/ Enable(s, d) \/ Disable(s, d)
      PROVE  Same
  BY <1>3, Zenon DEF Setup, Enable, Disable, SendCall
<1>4. ASSUME NEW s \in Slot, Checks(s) \/ Answered2FA(s) \/ GivesUp(s)
      PROVE  Same
  BY <1>4, Zenon DEF Checks, Answered2FA, GivesUp
<1>5. ASSUME NEW d \in Device, Scan(d) \/ Reloads(d) \/ \E google \in BOOLEAN : SignsIn(d, google)
      PROVE  Same
  BY <1>5 DEF Scan, Reloads, SignsIn
<1>6. (\E s \in Slot : Commits(s)) \/ Same
  BY <1>3, <1>4, <1>5 DEF Next2FA
<1>7. QED
  BY <1>1, <1>2, <1>6, Zenon DEF ConfirmedSecret

-----------------------------------------------------------------------------
(* The secrets and the panels.                                             *)

LEMMA SecretsStep ==
  ASSUME TypeOK2FA, CallsAreChecked, SecretsAreNew, TypeOK2FA', [Next2FA]_vars2fa
  PROVE  SecretsAreNew'
<1> USE DEF SecretsAreNew
<1>1. ASSUME UNCHANGED <<secret, generated, app, qr>>, NEW s \in Slot,
             \A r \in Slot : r # s => calls'[r] = calls[r],
             calls'[s] # NoCall => calls'[s].op # "setup" \/ calls'[s].stage # "done"
      PROVE  SecretsAreNew'
  BY <1>1
<1>2. ASSUME NEW s \in Slot, NEW d \in Device, NEW op, NEW code, SendCall(s, d, op, code)
      PROVE  SecretsAreNew'
  <2> DEFINE c == [dev |-> d, op |-> op, code |-> code, stage |-> "sent", heard |-> TRUE,
                   sawEnabled |-> FALSE, saw |-> 0, new |-> 0]
  <2>1. c.stage = "sent"
    OBVIOUS
  <2>2. calls' = [calls EXCEPT ![s] = c] /\ UNCHANGED <<secret, generated, app, qr>>
    BY <1>2 DEF SendCall
  <2> HIDE DEF c
  <2>3. calls'[s] = c /\ \A r \in Slot : r # s => calls'[r] = calls[r]
    BY <2>2 DEF TypeOK2FA
  <2>4. QED
    BY <1>1, <2>1, <2>2, <2>3
<1>3. ASSUME NEW s \in Slot, Checks(s)
      PROVE  SecretsAreNew'
  <2>1. /\ calls[s] \in Call /\ calls' = [calls EXCEPT ![s] = Checked(calls[s])]
        /\ UNCHANGED <<secret, generated, app, qr>>
    BY <1>3 DEF Checks, Checked, TypeOK2FA
  <2>2. Checked(calls[s]).stage # "done" /\ Checked(calls[s]) \in Call
    BY <2>1, CheckedIs
  <2>3. calls'[s] = Checked(calls[s]) /\ \A r \in Slot : r # s => calls'[r] = calls[r]
    BY <2>1, <2>2, CallsTypes
  <2>4. QED
    BY <1>1, <2>1, <2>2, <2>3
<1>4. ASSUME NEW s \in Slot, Commits(s)
      PROVE  SecretsAreNew'
  <2> DEFINE c == calls[s]
             new == IF c.op = "setup" THEN generated + 1 ELSE 0
             n == Done(c, new)
  <2>1. /\ c \in Call /\ calls' = [calls EXCEPT ![s] = n]
        /\ UNCHANGED <<app, qr>>
        /\ generated \in Nat /\ (c.op = "setup" => generated < MaxSecrets)
    BY <1>4 DEF Commits, Done, TypeOK2FA
  <2>2. new \in 0 .. MaxSecrets /\ (c.op = "setup" => new = generated + 1)
    BY <2>1
  <2> HIDE DEF new
  <2>3. n \in Call /\ n.op = c.op /\ n.new = new
    BY <2>1, <2>2, DoneIs
  <2> HIDE DEF n
  <2>4. calls'[s] = n /\ \A r \in Slot : r # s => calls'[r] = calls[r]
    BY <2>1, <2>3, CallsTypes
  <2>5. CASE c.op # "setup"
    <3>1. generated' = generated /\ (secret' = secret \/ secret' = 0)
      BY <1>4, <2>5 DEF Commits
    <3>2. QED
      BY <2>1, <2>3, <2>4, <2>5, <3>1
  <2>6. CASE c.op = "setup"
    <3>1. generated' = generated + 1 /\ secret' = generated + 1 /\ n.new = generated + 1
      BY <1>4, <2>2, <2>3, <2>6 DEF Commits
    <3>2. \A k \in app : k \in Nat
      BY DEF TypeOK2FA
    <3>3. \A d \in Device : qr[d] \in Nat
      BY DEF TypeOK2FA
    <3>4. /\ n.new \notin app /\ \A d \in Device : qr[d] # n.new
          /\ \A r \in Slot : calls[r] # NoCall /\ calls[r].op = "setup" /\ calls[r].stage = "done"
                               => calls[r].new # n.new
      BY <2>1, <3>1, <3>2, <3>3
    <3>5. /\ \A k \in app : k <= generated'
          /\ \A d \in Device : qr[d] <= generated'
      BY <2>1, <3>1, <3>2, <3>3
    <3>6. \A r \in Slot : calls[r] # NoCall /\ calls[r].op = "setup" /\ calls[r].stage = "done"
                            => calls[r].new \in 1 .. generated'
      BY <2>1, <3>1
    <3>7. n.new \in 1 .. generated' /\ secret' <= generated'
      BY <2>1, <3>1
    <3>8. QED
      BY <2>1, <2>4, <3>4, <3>5, <3>6, <3>7
  <2>7. QED
    BY <2>5, <2>6
<1>5. ASSUME NEW s \in Slot, Answered2FA(s)
      PROVE  SecretsAreNew'
  <2> DEFINE c == calls[s]
  <2>1. /\ c \in Call /\ c # NoCall /\ c.stage \in {"done", "refused"}
        /\ calls' = [calls EXCEPT ![s] = NoCall]
        /\ UNCHANGED <<secret, generated, app>>
    BY <1>5 DEF Answered2FA, TypeOK2FA
  <2>2. calls'[s] = NoCall /\ \A r \in Slot : r # s => calls'[r] = calls[r]
    BY <2>1, CallsTypes
  <2>3. \/ qr' = qr
        \/ qr' = [qr EXCEPT ![c.dev] = 0]
        \/ c.stage = "done" /\ c.op = "setup" /\ qr' = [qr EXCEPT ![c.dev] = c.new]
    BY <1>5 DEF Answered2FA, SetupAnswered, EnableAnswered, DisableAnswered
  <2>4. CASE qr' = qr \/ qr' = [qr EXCEPT ![c.dev] = 0]
    <3>1. \A d \in Device : qr'[d] = qr[d] \/ qr'[d] = 0
      BY <2>4 DEF TypeOK2FA
    <3>2. \A d \in Device : qr'[d] <= generated'
      BY <2>1, <3>1 DEF TypeOK2FA
    <3>3. QED
      BY <2>1, <2>2, <3>1, <3>2
  <2>5. CASE c.stage = "done" /\ c.op = "setup" /\ qr' = [qr EXCEPT ![c.dev] = c.new]
    <3>1. \A d \in Device : qr'[d] = qr[d] \/ qr'[d] = c.new
      BY <2>5 DEF TypeOK2FA
    <3>2. c.new \in 1 .. generated
      BY <2>1, <2>5
    <3>3. \A d \in Device : qr'[d] <= generated'
      BY <2>1, <3>1, <3>2
    <3>4. QED
      BY <2>1, <2>2, <2>5, <3>1, <3>3
  <2>6. QED
    BY <2>3, <2>4, <2>5
<1>6. ASSUME NEW s \in Slot, GivesUp(s)
      PROVE  SecretsAreNew'
  <2> DEFINE c == calls[s]
             n == [c EXCEPT !.heard = FALSE]
  <2>1. /\ c \in Call /\ c # NoCall /\ calls' = [calls EXCEPT ![s] = n]
        /\ UNCHANGED <<secret, generated, app, qr>>
    BY <1>6 DEF GivesUp, TypeOK2FA
  <2>2. n \in Call /\ n.stage = c.stage /\ n.op = c.op /\ n.new = c.new
    BY <2>1, UnheardIs
  <2> HIDE DEF n
  <2>3. calls'[s] = n /\ \A r \in Slot : r # s => calls'[r] = calls[r]
    BY <2>1, <2>2, CallsTypes
  <2>4. QED
    BY <2>1, <2>2, <2>3
<1>7. ASSUME NEW d \in Device, Scan(d)
      PROVE  SecretsAreNew'
  BY <1>7 DEF Scan
<1>8. ASSUME NEW d \in Device, UNCHANGED <<secret, generated, app, calls>>,
             qr' = [qr EXCEPT ![d] = 0]
      PROVE  SecretsAreNew'
  <2>1. \A e \in Device : qr'[e] = qr[e] \/ qr'[e] = 0
    BY <1>8 DEF TypeOK2FA
  <2>2. \A e \in Device : qr'[e] <= generated'
    BY <1>8, <2>1 DEF TypeOK2FA
  <2>3. QED
    BY <1>8, <2>1, <2>2
<1>9. CASE UNCHANGED vars2fa
  BY <1>9
<1>10. QED
  BY <1>2, <1>3, <1>4, <1>5, <1>6, <1>7, <1>8, <1>9
  DEF Next2FA, Setup, Enable, Disable, Reloads, SignsIn

\* What is not a device's own affair leaves what it keeps.
LEMMA OthersKeep ==
  ASSUME NEW d \in Device, NEW s \in Slot, Keeps(d),
         \A r \in Slot : r # s => calls'[r] = calls[r],
         ~ Of(s, d), ~ Of(s, d)', UNCHANGED <<enabled, secret>>,
         qr'[d] = qr[d], believes'[d] = believes[d]
  PROVE  Keeps(d)'
BY DEF Keeps, Of, CallFits, OneAtATime

LEMMA SameKeeps ==
  ASSUME NEW d \in Device, Keeps(d), UNCHANGED <<enabled, secret, calls>>,
         qr'[d] = qr[d], believes'[d] = believes[d]
  PROVE  Keeps(d)'
BY DEF Keeps, Of, CallFits, OneAtATime

\* The panel's own calls: it sends one, ...
LEMMA SentKeeps ==
  ASSUME TypeOK2FA, NEW d \in Device, Keeps(d), NEW s \in Slot,
         NEW op \in {"setup", "enable", "disable"}, NEW code,
         SendCall(s, d, op, code),
         op = "setup" => OffersSetup(d),
         op = "enable" => OffersEnable(d),
         op = "disable" => OffersDisable(d)
  PROVE  Keeps(d)'
<1> DEFINE c == [dev |-> d, op |-> op, code |-> code, stage |-> "sent", heard |-> TRUE,
                 sawEnabled |-> FALSE, saw |-> 0, new |-> 0]
<1>1. c.dev = d /\ c.op = op /\ c.code = code /\ c.stage = "sent" /\ c.heard
  OBVIOUS
<1>2. /\ calls[s] = NoCall /\ calls' = [calls EXCEPT ![s] = c]
      /\ UNCHANGED <<enabled, secret, believes, qr>>
  BY DEF SendCall
<1> HIDE DEF c
<1>3. calls'[s] = c /\ \A r \in Slot : r # s => calls'[r] = calls[r]
  BY <1>2 DEF TypeOK2FA
<1>4. believes[d] \in BOOLEAN
  BY DEF TypeOK2FA
<1>5. CallFits(c, d)'
  BY <1>1, <1>2 DEF CallFits, OffersSetup, OffersEnable, OffersDisable
<1>6. ASSUME NEW r \in Slot, Of(r, d), op # "enable"
      PROVE  calls[r].op # op
  BY <1>6 DEF Keeps, CallFits, Of, OffersSetup, OffersDisable, Awaits
<1>7. OneAtATime(d)'
  BY <1>1, <1>2, <1>3, <1>6 DEF Keeps, OneAtATime, Of
<1>8. \A r \in Slot : Of(r, d)' => CallFits(calls[r], d)'
  BY <1>2, <1>3, <1>5 DEF Keeps, CallFits, Of
<1>9. (\A r \in Slot : Of(r, d)' => calls'[r].stage # "done") =>
        (\A r \in Slot : Of(r, d) => calls[r].stage # "done")
  BY <1>2, <1>3 DEF Of
<1>10. QED
  BY <1>2, <1>7, <1>8, <1>9 DEF Keeps

\* ... the server checks it, ...
LEMMA CheckedKeeps ==
  ASSUME TypeOK2FA, NEW d \in Device, Keeps(d), NEW s \in Slot, Of(s, d), Checks(s)
  PROVE  Keeps(d)'
<1> PICK c : c = calls[s]
  OBVIOUS
<1>1. /\ c \in Call /\ c # NoCall /\ c.dev = d /\ c.stage = "sent"
      /\ calls' = [calls EXCEPT ![s] = Checked(c)]
      /\ UNCHANGED <<enabled, secret, believes, qr>>
  BY DEF Checks, Checked, TypeOK2FA, Of
<1> PICK b : b = Checked(c)
  OBVIOUS
<1>2. /\ b \in Call /\ b.op = c.op /\ b.code = c.code /\ b.dev = d
      /\ b.heard = c.heard /\ b.stage \in {"checked", "refused"}
  BY <1>1, CheckedIs
<1>3. calls'[s] = b /\ \A r \in Slot : r # s => calls'[r] = calls[r]
  BY <1>1, <1>2, CallsTypes
<1>4. CallFits(c, d)
  BY <1>1 DEF Keeps
<1>5. CallFits(b, d)'
  BY <1>1, <1>2, <1>4 DEF CallFits
<1>6. \A r \in Slot : Of(r, d)' => CallFits(calls[r], d)'
  BY <1>1, <1>3, <1>5 DEF Keeps, CallFits, Of
<1>7. OneAtATime(d)'
  BY <1>1, <1>2, <1>3 DEF Keeps, OneAtATime, Of
<1>8. (\A r \in Slot : Of(r, d)' => calls'[r].stage # "done") =>
        (\A r \in Slot : Of(r, d) => calls[r].stage # "done")
  BY <1>1, <1>3 DEF Of
<1>9. QED
  BY <1>1, <1>6, <1>7, <1>8 DEF Keeps

\* ... commits it, when it is the only one of the device that did and is not
\* answered, ...
LEMMA CommittedKeeps ==
  ASSUME TypeOK2FA, CallsAreChecked, SecretsAreNew, NEW d \in Device, Keeps(d),
         NEW s \in Slot, Of(s, d), Commits(s), ~ overwrote'
  PROVE  Keeps(d)'
<1> PICK c : c = calls[s]
  OBVIOUS
<1> PICK new : new = IF c.op = "setup" THEN generated + 1 ELSE 0
  OBVIOUS
<1>1. /\ c \in Call /\ c # NoCall /\ c.dev = d /\ c.stage = "checked"
      /\ calls' = [calls EXCEPT ![s] = Done(c, new)]
      /\ UNCHANGED <<believes, qr>> /\ generated \in Nat
      /\ c.op \in {"setup", "enable", "disable"}
      /\ enabled \in BOOLEAN /\ believes[d] \in BOOLEAN
  BY DEF Commits, Done, TypeOK2FA, Of, Call
<1>2. c.op = "setup" => /\ generated < MaxSecrets
                        /\ enabled' = enabled /\ secret' = generated + 1
  BY DEF Commits
<1>3. c.op = "enable" => enabled' = TRUE /\ secret' = secret
  BY DEF Commits
<1>4. c.op = "disable" => enabled' = FALSE /\ secret' = 0
  BY DEF Commits
<1>5. new \in 0 .. MaxSecrets /\ (c.op = "setup" => new = generated + 1)
  BY <1>1, <1>2
<1>6. c.sawEnabled = enabled /\ c.saw = secret
  <2>1. <<enabled, secret>> = <<c.sawEnabled, c.saw>>
    BY Zenon DEF Commits
  <2>2. QED
    BY <2>1
<1>7. CallFits(c, d) /\ IsChecked(c, app)
  BY <1>1 DEF Keeps, CallsAreChecked
<1>8. /\ c.op = "setup" => ~ enabled /\ ~ believes[d] /\ qr[d] = 0
      /\ c.op = "enable" => ~ enabled /\ c.code = secret /\ c.code \in app /\ qr[d] # 0
      /\ c.op = "disable" => enabled /\ believes[d]
  BY <1>1, <1>6, <1>7 DEF CallFits, IsChecked
<1>9. ASSUME NEW r \in Slot, Of(r, d), calls[r].stage = "done"
      PROVE  FALSE
  <2>1. /\ CallFits(calls[r], d) /\ r # s /\ calls[r] # NoCall
        /\ calls[r].op \in {"setup", "enable", "disable"}
        /\ calls[r].op = c.op => c.op = "enable"
    BY <1>1, <1>9 DEF Keeps, OneAtATime, Of, TypeOK2FA, Call
  <2>2. calls[r].op # "setup"
    <3>1. calls[r].op = "setup" => calls[r].new = secret /\ ~ enabled /\ calls[r].new \notin app
      BY <1>9, <2>1 DEF CallFits, SecretsAreNew
    <3>2. QED
      BY <1>1, <1>8, <2>1, <3>1
  <2>3. calls[r].op # "enable"
    <3>1. calls[r].op = "enable" => enabled /\ ~ believes[d]
      BY <1>9, <2>1 DEF CallFits
    <3>2. QED
      BY <1>1, <1>8, <3>1
  <2>4. calls[r].op # "disable"
    <3>1. calls[r].op = "disable" => ~ enabled /\ secret = 0 /\ believes[d]
      BY <1>9, <2>1 DEF CallFits
    <3>2. 0 \notin app
      BY DEF TypeOK2FA
    <3>3. QED
      BY <1>1, <1>8, <2>1, <3>1, <3>2
  <2>5. QED
    BY <2>1, <2>2, <2>3, <2>4
<1>10. believes[d] = enabled /\ (qr[d] # 0 => qr[d] = secret)
  BY <1>9 DEF Keeps
<1>11. /\ Done(c, new) \in Call /\ Done(c, new).op = c.op /\ Done(c, new).dev = d
       /\ Done(c, new).heard = c.heard /\ Done(c, new).stage = "done"
       /\ Done(c, new).new = new
  BY <1>1, <1>5, DoneIs
<1>12. calls'[s] = Done(c, new) /\ \A r \in Slot : r # s => calls'[r] = calls[r]
  BY <1>1, <1>11, CallsTypes
<1>13. CallFits(Done(c, new), d)'
  <2>1. c.heard
    BY <1>7 DEF CallFits
  <2>2. c.op = "setup" => enabled' = FALSE /\ ~ believes'[d] /\ qr'[d] = 0 /\ new = secret'
    BY <1>1, <1>2, <1>5, <1>8
  <2>3. c.op = "enable" => enabled' /\ ~ believes'[d] /\ qr'[d] # 0
    BY <1>1, <1>3, <1>8, <1>10
  <2>4. c.op = "disable" => ~ enabled' /\ secret' = 0 /\ believes'[d]
    BY <1>1, <1>4, <1>8
  <2>5. QED
    BY <1>11, <2>1, <2>2, <2>3, <2>4 DEF CallFits
<1>14. ASSUME NEW r \in Slot, Of(r, d), r # s
       PROVE  CallFits(calls[r], d)'
  <2>1. /\ CallFits(calls[r], d) /\ calls'[r] = calls[r] /\ calls[r].stage # "done"
    BY <1>9, <1>12, <1>14 DEF Keeps
  <2>2. ASSUME calls[r].op = "enable", calls[r].stage \in {"sent", "checked"}
        PROVE  enabled' \/ calls[r].code # secret' \/ qr'[d] # 0
    <3>1. calls[r].code \in app /\ calls[r].code # 0 /\ calls[r].code # generated + 1
      <4>1. calls[r].code \in app
        BY <1>14, <2>2 DEF CallsAreChecked, IsChecked, Of
      <4>2. calls[r].code <= generated
        BY <4>1 DEF SecretsAreNew
      <4>3. app \subseteq Nat \ {0}
        BY DEF TypeOK2FA
      <4>4. QED
        BY <1>1, <4>1, <4>2, <4>3
    <3>2. QED
      BY <1>1, <1>2, <1>3, <1>4, <3>1
  <2>3. QED
    BY <1>1, <2>1, <2>2 DEF CallFits
<1>15. \A r \in Slot : Of(r, d)' => CallFits(calls[r], d)'
  <2> SUFFICES ASSUME NEW r \in Slot, Of(r, d)'
               PROVE  CallFits(calls[r], d)'
    OBVIOUS
  <2>1. CASE r = s
    <3>1. calls'[r] = Done(c, new)
      BY <1>12, <2>1
    <3>2. QED
      BY <1>13, <3>1 DEF CallFits
  <2>2. CASE r # s
    BY <1>12, <1>14, <2>2 DEF Of
  <2>3. QED
    BY <2>1, <2>2
<1>16. OneAtATime(d)'
  BY <1>1, <1>9, <1>11, <1>12 DEF Keeps, OneAtATime, Of
<1>17. believes'[d] => qr'[d] = 0
  BY <1>1 DEF Keeps
<1>18. Of(s, d)' /\ calls'[s].stage = "done"
  BY <1>11, <1>12, NoCallIsNone DEF Of
<1>19. QED
  BY <1>15, <1>16, <1>17, <1>18 DEF Keeps

\* ... and the panel reads the answer.
LEMMA AnsweredKeeps ==
  ASSUME TypeOK2FA, NEW d \in Device, Keeps(d), NEW s \in Slot, Of(s, d), Answered2FA(s)
  PROVE  Keeps(d)'
<1> DEFINE c == calls[s]
<1>1. /\ c \in Call /\ c # NoCall /\ c.dev = d /\ c.stage \in {"done", "refused"}
      /\ calls' = [calls EXCEPT ![s] = NoCall]
      /\ UNCHANGED <<enabled, secret>>
      /\ c.op \in {"setup", "enable", "disable"}
      /\ believes[d] \in BOOLEAN /\ enabled \in BOOLEAN
  BY DEF Answered2FA, TypeOK2FA, Of, Call
<1>2. calls'[s] = NoCall /\ \A r \in Slot : r # s => calls'[r] = calls[r]
  BY <1>1, CallsTypes
<1>3. CallFits(c, d)
  BY DEF Keeps
<1>4. \/ c.stage = "refused" /\ qr'[d] = qr[d] /\ believes'[d] = believes[d]
      \/ /\ c.stage = "done" /\ c.op = "setup"
         /\ qr'[d] = c.new /\ believes'[d] = believes[d]
      \/ /\ c.stage = "done" /\ c.op = "enable"
         /\ qr'[d] = 0 /\ believes'[d] = TRUE
      \/ /\ c.stage = "done" /\ c.op = "disable"
         /\ qr'[d] = qr[d] /\ believes'[d] = FALSE
  <2>1. c.heard
    BY <1>3 DEF CallFits
  <2>2. \/ c.stage = "refused" /\ UNCHANGED <<qr, believes>>
        \/ c.stage = "done" /\ c.op = "setup" /\ SetupAnswered(d, c.new)
        \/ c.stage = "done" /\ c.op = "enable" /\ EnableAnswered(d)
        \/ c.stage = "done" /\ c.op = "disable" /\ DisableAnswered(d)
    BY <1>1, <2>1, Zenon DEF Answered2FA
  <2>3. QED
    BY <2>2 DEF SetupAnswered, EnableAnswered, DisableAnswered, TypeOK2FA
<1>5. ASSUME NEW r \in Slot, r # s, Of(r, d)
      PROVE  /\ CallFits(calls[r], d)
             /\ calls[r].op = c.op => c.op = "enable"
             /\ c.stage = "done" => calls[r].stage # "done"
             /\ calls[r].op \in {"setup", "enable", "disable"}
  BY <1>5 DEF Keeps, OneAtATime, Of, TypeOK2FA, Call
<1>6. OneAtATime(d)'
  BY <1>2 DEF Keeps, OneAtATime, Of
<1> HIDE DEF c
<1>7. CASE c.stage = "refused"
  <2>1. /\ UNCHANGED <<enabled, secret>> /\ qr'[d] = qr[d] /\ believes'[d] = believes[d]
    BY <1>1, <1>4, <1>7
  <2>2. \A r \in Slot : Of(r, d)' => CallFits(calls[r], d)'
    BY <1>2, <2>1 DEF Keeps, CallFits, Of
  <2>3. (\A r \in Slot : Of(r, d)' => calls'[r].stage # "done") =>
          (\A r \in Slot : Of(r, d) => calls[r].stage # "done")
    BY <1>2, <1>7 DEF Of, c
  <2>4. QED
    BY <1>6, <2>1, <2>2, <2>3 DEF Keeps
<1>8. CASE c.stage = "done"
  <2>1. believes'[d] = enabled' /\ (qr'[d] # 0 => qr'[d] = secret') /\ (believes'[d] => qr'[d] = 0)
    BY <1>1, <1>3, <1>4, <1>8 DEF Keeps, CallFits
  <2>2. ASSUME NEW r \in Slot, Of(r, d)'
        PROVE  CallFits(calls[r], d)'
    <3>1. r # s /\ calls'[r] = calls[r] /\ Of(r, d)
      BY <1>2, <2>2 DEF Of
    <3>2. /\ CallFits(calls[r], d) /\ calls[r].stage # "done"
          /\ calls[r].op = c.op => c.op = "enable"
          /\ calls[r].op \in {"setup", "enable", "disable"}
      BY <1>5, <1>8, <3>1
    <3>3. CASE c.op = "setup"
      <4>1. ~ believes[d] /\ qr[d] = 0 /\ ~ enabled /\ believes'[d] = believes[d]
        BY <1>3, <1>4, <1>8, <3>3 DEF CallFits
      <4>2. calls[r].op = "enable"
        BY <3>2, <3>3, <4>1 DEF CallFits
      <4>3. QED
        BY <1>1, <3>1, <3>2, <4>1, <4>2 DEF CallFits
    <3>4. CASE c.op = "enable"
      <4>1. enabled /\ qr[d] # 0 /\ believes'[d]
        BY <1>3, <1>4, <1>8, <3>4 DEF CallFits
      <4>2. QED
        BY <1>1, <3>1, <3>2, <4>1 DEF CallFits
    <3>5. CASE c.op = "disable"
      <4>1. believes[d] /\ qr'[d] = qr[d] /\ calls[r].op # "disable"
        BY <1>3, <1>4, <1>8, <3>2, <3>5 DEF CallFits
      <4>2. QED
        BY <1>1, <3>1, <3>2, <4>1 DEF CallFits
    <3>6. QED
      BY <1>1, <3>3, <3>4, <3>5
  <2>3. QED
    BY <1>6, <2>1, <2>2 DEF Keeps
<1>9. QED
  BY <1>1, <1>7, <1>8

\* A panel that is new, from a sign-in or a load of the page.
LEMMA NewKeeps ==
  ASSUME TypeOK2FA, NEW d \in Device, Quiet(d), UNCHANGED <<enabled, secret, calls>>,
         qr'[d] = 0, believes'[d] = enabled
  PROVE  Keeps(d)'
<1>1. \A s \in Slot : ~ Of(s, d)'
  BY DEF Quiet, Of
<1>2. QED
  BY <1>1 DEF Keeps, OneAtATime

LEMMA PanelsStep ==
  ASSUME TypeOK2FA, CallsAreChecked, SecretsAreNew, PanelsKeep, TypeOK2FA', [Next2FA]_vars2fa
  PROVE  PanelsKeep'
<1> SUFFICES ASSUME NEW d \in Device, why'[d] = {}, ~ overwrote'
             PROVE  Keeps(d)'
  BY DEF PanelsKeep
<1>1. why[d] = {} /\ ~ overwrote => Keeps(d)
  BY DEF PanelsKeep
<1>2. ASSUME NEW s \in Slot, NEW e \in Device, Setup(s, e) \/ Enable(s, e) \/ Disable(s, e)
      PROVE  Keeps(d)'
  <2>1. PICK op, code :
           /\ op \in {"setup", "enable", "disable"}
           /\ SendCall(s, e, op, code)
           /\ op = "setup" => OffersSetup(e)
           /\ op = "enable" => OffersEnable(e)
           /\ op = "disable" => OffersDisable(e)
    BY <1>2 DEF Setup, Enable, Disable
  <2>2. /\ Keeps(d) /\ calls[s] = NoCall
        /\ UNCHANGED <<enabled, secret, qr, believes>>
    BY <1>1, <2>1 DEF SendCall
  <2>3. CASE e = d
    BY <2>1, <2>2, <2>3, SentKeeps
  <2>4. CASE e # d
    <3> DEFINE c == [dev |-> e, op |-> op, code |-> code, stage |-> "sent", heard |-> TRUE,
                     sawEnabled |-> FALSE, saw |-> 0, new |-> 0]
    <3>1. c.dev = e /\ calls' = [calls EXCEPT ![s] = c]
      BY <2>1 DEF SendCall
    <3> HIDE DEF c
    <3>2. calls'[s] = c /\ \A r \in Slot : r # s => calls'[r] = calls[r]
      BY <3>1 DEF TypeOK2FA
    <3>3. ~ Of(s, d) /\ ~ Of(s, d)'
      BY <2>2, <2>4, <3>1, <3>2 DEF Of
    <3>4. QED
      BY <2>2, <3>2, <3>3, OthersKeep
  <2>5. QED
    BY <2>3, <2>4
<1>3. ASSUME NEW s \in Slot, Checks(s)
      PROVE  Keeps(d)'
  <2>1. /\ Keeps(d) /\ UNCHANGED <<enabled, secret, qr, believes>>
        /\ calls[s] \in Call /\ calls' = [calls EXCEPT ![s] = Checked(calls[s])]
    BY <1>1, <1>3 DEF Checks, Checked, TypeOK2FA
  <2>2. Checked(calls[s]) \in Call /\ Checked(calls[s]).dev = calls[s].dev
    BY <2>1, CheckedIs
  <2>3. calls'[s] = Checked(calls[s]) /\ \A r \in Slot : r # s => calls'[r] = calls[r]
    BY <2>1, <2>2, CallsTypes
  <2>4. CASE Of(s, d)
    BY <1>3, <2>1, <2>4, CheckedKeeps
  <2>5. CASE ~ Of(s, d)
    <3>1. ~ Of(s, d)'
      BY <1>3, <2>2, <2>3, <2>5 DEF Of, Checks
    <3>2. QED
      BY <2>1, <2>3, <2>5, <3>1, OthersKeep
  <2>6. QED
    BY <2>4, <2>5
<1>4. ASSUME NEW s \in Slot, Commits(s)
      PROVE  Keeps(d)'
  <2>1. /\ why' = [e \in Device |-> IF e # calls[s].dev THEN why[e] \cup {"elsewhere"} ELSE why[e]]
        /\ ~ overwrote /\ calls[s] # NoCall
    BY <1>4, Zenon DEF Commits, Outdates
  <2>2. calls[s].dev = d /\ why[d] = {}
    BY <2>1
  <2>3. QED
    BY <1>1, <1>4, <2>1, <2>2, CommittedKeeps DEF Of
<1>5. ASSUME NEW s \in Slot, Answered2FA(s)
      PROVE  Keeps(d)'
  <2>1. /\ Keeps(d) /\ UNCHANGED <<enabled, secret>>
        /\ calls[s] # NoCall /\ calls' = [calls EXCEPT ![s] = NoCall]
    BY <1>1, <1>5 DEF Answered2FA
  <2>2. CASE Of(s, d)
    BY <1>5, <2>1, <2>2, AnsweredKeeps
  <2>3. CASE ~ Of(s, d)
    <3>1. calls'[s] = NoCall /\ \A r \in Slot : r # s => calls'[r] = calls[r]
      BY <2>1, CallsTypes
    <3>2. calls[s].dev # d
      BY <2>1, <2>3 DEF Of
    <3>3. qr'[d] = qr[d] /\ believes'[d] = believes[d]
      BY <1>5, <3>2 DEF Answered2FA, SetupAnswered, EnableAnswered, DisableAnswered, TypeOK2FA
    <3>4. ~ Of(s, d)'
      BY <3>1 DEF Of
    <3>5. QED
      BY <2>1, <2>3, <3>1, <3>3, <3>4, OthersKeep
  <2>4. QED
    BY <2>2, <2>3
<1>6. ASSUME NEW s \in Slot, GivesUp(s)
      PROVE  Keeps(d)'
  <2> DEFINE n == [calls[s] EXCEPT !.heard = FALSE]
  <2>1. /\ calls[s] \in Call /\ calls[s] # NoCall /\ calls' = [calls EXCEPT ![s] = n]
        /\ UNCHANGED <<enabled, secret, qr, believes, overwrote>>
        /\ why' = [why EXCEPT ![calls[s].dev] = @ \cup {"unheard"}]
    BY <1>6 DEF GivesUp, TypeOK2FA
  <2>2. n \in Call /\ n.dev = calls[s].dev
    BY <2>1, UnheardIs
  <2> HIDE DEF n
  <2>3. calls'[s] = n /\ \A r \in Slot : r # s => calls'[r] = calls[r]
    BY <2>1, <2>2, CallsTypes
  <2>4. calls[s].dev # d /\ why[d] = {}
    BY <2>1 DEF TypeOK2FA
  <2>5. ~ Of(s, d) /\ ~ Of(s, d)'
    BY <2>2, <2>3, <2>4 DEF Of
  <2>6. Keeps(d)
    BY <1>1, <2>1, <2>4
  <2>7. QED
    BY <2>1, <2>3, <2>5, <2>6, OthersKeep
<1>7. ASSUME NEW e \in Device, Scan(e)
      PROVE  Keeps(d)'
  BY <1>1, <1>7, SameKeeps DEF Scan
<1>8. ASSUME NEW e \in Device, NEW google \in BOOLEAN, SignsIn(e, google) \/ Reloads(e)
      PROVE  Keeps(d)'
  <2>1. UNCHANGED <<enabled, secret, calls, overwrote>> /\ Quiet(e)
    BY <1>8 DEF SignsIn, Reloads
  <2>2. CASE e = d
    <3>1. qr'[d] = 0 /\ (Reloads(e) \/ ~ google)
      BY <1>8, <2>2 DEF SignsIn, Reloads, TypeOK2FA
    <3>2. believes'[d] = enabled
      <4>1. CASE Reloads(e)
        BY <2>2, <4>1, Zenon DEF Reloads, TypeOK2FA
      <4>2. CASE SignsIn(e, google) /\ ~ google
        BY <2>2, <4>2 DEF SignsIn, TypeOK2FA
      <4>3. QED
        BY <1>8, <3>1, <4>1, <4>2
    <3>3. QED
      BY <2>1, <2>2, <3>1, <3>2, NewKeeps
  <2>3. CASE e # d
    <3>1. why[d] = {} /\ qr'[d] = qr[d]
      BY <1>8, <2>3 DEF SignsIn, Reloads, TypeOK2FA
    <3>2. believes'[d] = believes[d]
      BY <1>8, <2>3, Zenon DEF SignsIn, Reloads, TypeOK2FA
    <3>3. QED
      BY <1>1, <2>1, <3>1, <3>2, SameKeeps
  <2>4. QED
    BY <2>2, <2>3
<1>9. CASE UNCHANGED vars2fa
  BY <1>1, <1>9, SameKeeps
<1>10. QED
  BY <1>2, <1>3, <1>4, <1>5, <1>6, <1>7, <1>8, <1>9 DEF Next2FA

LEMMA Start2FA == Init2FA => IInv2FA
<1> SUFFICES ASSUME Init2FA
             PROVE  IInv2FA
  OBVIOUS
<1>1. TypeOK2FA
  <2>1. why \in [Device -> SUBSET {"elsewhere", "unheard", "google"}]
    BY DEF Init2FA
  <2>2. believes \in [Device -> BOOLEAN] /\ enabled \in BOOLEAN /\ overwrote \in BOOLEAN
    BY Zenon DEF Init2FA
  <2>3. QED
    BY <2>1, <2>2 DEF Init2FA, TypeOK2FA
<1>2. CallsAreChecked
  BY DEF Init2FA, CallsAreChecked
<1>3. ConfirmedSecret
  BY DEF Init2FA, ConfirmedSecret
<1>4. SecretsAreNew
  BY DEF Init2FA, SecretsAreNew
<1>5. PanelsKeep
  BY DEF Init2FA, PanelsKeep, Keeps, Of, OneAtATime
<1>6. QED
  BY <1>1, <1>2, <1>3, <1>4, <1>5 DEF IInv2FA

LEMMA Step2FA == IInv2FA /\ [Next2FA]_vars2fa => IInv2FA'
BY TypeStep2FA, CallsStep, ConfirmedStep, SecretsStep, PanelsStep DEF IInv2FA

LEMMA Invariant2FA == Spec2FA => []IInv2FA
BY Start2FA, Step2FA, PTL DEF Spec2FA

-----------------------------------------------------------------------------
(* The theorems.                                                           *)

\* The row, the calls and the panels stay in their types: a code that is
\* accepted is one of a secret that setup_2fa generated.
THEOREM TypeCorrect2FA == Spec2FA => []TypeOK2FA
<1>1. IInv2FA => TypeOK2FA
  BY DEF IInv2FA
<1>2. QED
  BY <1>1, Invariant2FA, PTL

\* While requests of setup_2fa, enable_2fa and disable_2fa do not cross between
\* their check and their commit, 2FA is never on with a secret the user has
\* not confirmed: nobody is locked out.
THEOREM NobodyIsLockedOut == Spec2FA => []ConfirmedSecret
<1>1. IInv2FA => ConfirmedSecret
  BY DEF IInv2FA
<1>2. QED
  BY <1>1, Invariant2FA, PTL

\* A panel that waits for nothing shows what the account says (Settings.jsx,
\* AdminDashboard.jsx), until the account is changed elsewhere, an answer is
\* not heard, Google signs in or requests cross; and its QR code is that of the
\* stored secret.
THEOREM PanelTellsTheTruth == Spec2FA => []PanelIsTrue
<1>1. IInv2FA => PanelIsTrue
  <2> SUFFICES ASSUME IInv2FA, NEW d \in Device, Quiet(d), why[d] = {}, ~ overwrote
               PROVE  believes[d] = enabled /\ (qr[d] # 0 => qr[d] = secret)
    BY DEF PanelIsTrue
  <2>1. \A s \in Slot : ~ Of(s, d)
    BY DEF Quiet, Of
  <2>2. QED
    BY <2>1 DEF IInv2FA, PanelsKeep, Keeps
<1>2. QED
  BY <1>1, Invariant2FA, PTL

HIDE SecretBounds DEF Secret, account2fa, pages2fa, history2fa, vars2fa

-----------------------------------------------------------------------------
(* The links that arrive by e-mail (EmailLinks).                           *)

Makes == {"register", "resend", "forgot"}
Uses == {"verify", "reset"}

\* A page waits for a request of its own.
WaitsForItsOwn ==
  \A op \in Ops : waiting[op] # NoRequest =>
    req[waiting[op]] # NoRequest /\ req[waiting[op]].op = op

\* A request that wrote or mailed its link holds the row; the links made before
\* it are smaller, and until it is mailed nobody has it.
LinksInOrder ==
  /\ \A m \in mails : m.link <= made
  /\ \A r \in Request : req[r] # NoRequest =>
       /\ req[r].op = "register" => req[r].stage # "read"
       /\ req[r].op \in Uses => req[r].stage = "read"
       /\ req[r].op \in Makes /\ req[r].stage = "read" => req[r].link = 0
       /\ req[r].stage # "read" =>
            /\ lock = r /\ req[r].link \in 1 .. made
            /\ \A m \in mails : m.link <= req[r].link
            /\ req[r].stage = "written" => \A m \in mails : m.link # req[r].link
            /\ req[r].stage = "mailed" =>
                 [for |-> IF req[r].op = "forgot" THEN "reset" ELSE "verify",
                  link |-> req[r].link] \in mails
  /\ \A m1, m2 \in mails : m1.link = m2.link => m1 = m2

\* There is no account until the first registration is over, and no link of it.
NoAccountYet ==
  /\ account = "none" => verifyHash = 0 /\ resetHash = 0
  /\ \A r \in Request : req[r] # NoRequest /\ req[r].op = "register" => account = "none"
  /\ \A r \in Request : req[r] # NoRequest /\ req[r].op \in {"resend", "forgot"} =>
       account # "none"
  /\ account = "none" =>
       \A r \in Request : req[r] # NoRequest /\ req[r].op \in Uses => req[r].link = 0

\* A reset link of which the mail is out is in the row or on its way there; the
\* one request that makes one found none in the row.
ResetLinks ==
  causes \cap {"overlap", "undone", "overtaken"} = {} =>
    /\ \A r, s \in Request :
         req[r] # NoRequest /\ req[r].op = "forgot"
           /\ req[s] # NoRequest /\ req[s].op = "forgot" => r = s
    /\ \A r \in Request : req[r] # NoRequest /\ req[r].op = "forgot" => resetHash = 0
    /\ \A l \in Link : [for |-> "reset", link |-> l] \in mails /\ l \notin spent =>
         \/ resetHash = l
         \/ \E r \in Request : req[r] # NoRequest /\ req[r].op = "forgot" /\ req[r].link = l

\* The same of the newest verification link of an account not verified.
VerifyLinks ==
  "undone" \notin causes =>
    \A l \in Link :
      /\ account = "unverified" /\ l \notin spent
      /\ [for |-> "verify", link |-> l] \in mails
      /\ \A m \in mails : m.for = "verify" => m.link <= l
      => \/ verifyHash = l
         \/ \E r \in Request : /\ req[r] # NoRequest /\ req[r].op \in {"register", "resend"}
                               /\ req[r].link = l

\* Without the causes of a false failure, each link is posted by one page for
\* which it was opened, and what it did has been answered.
Posts ==
  causes \cap {"reran", "reopened", "unheard"} = {} =>
    /\ did \subseteq opened
    /\ \A op \in Uses : token[op] \in opened \cup {0}
    /\ token["verify"] = token["reset"] => token["verify"] = 0
    /\ \A r \in Request : req[r] # NoRequest /\ req[r].op \in Uses /\ req[r].link # 0 =>
         /\ req[r].link \in opened
         /\ \A op \in Uses : req[r].link = token[op] => waiting[op] = r
    /\ \A op \in Uses : token[op] \in did => said[op] = "done" /\ waiting[op] = NoRequest

IInvMail ==
  /\ MailTypeOK /\ WaitsForItsOwn /\ LinksInOrder /\ NoAccountYet
  /\ ResetLinks /\ VerifyLinks /\ Posts

\* What the parts of the actions do.
LEMMA BeginIs ==
  ASSUME MailTypeOK, NEW r \in Request, NEW op \in Ops, NEW stage \in {"read", "written", "mailed"},
         NEW l \in 0 .. MaxLinks, Begin(r, op, stage, l)
  PROVE  /\ req[r] = NoRequest
         /\ req' \in [Request -> Under \cup {NoRequest}]
         /\ req'[r] # NoRequest /\ req'[r].op = op /\ req'[r].stage = stage /\ req'[r].link = l
         /\ \A s \in Request : s # r => req'[s] = req[s]
BY NoRequestIsNone DEF Begin, MailTypeOK, Under

LEMMA OverIs ==
  ASSUME MailTypeOK, NEW r \in Request, Over(r)
  PROVE  /\ req' \in [Request -> Under \cup {NoRequest}] /\ lock' \in Request \cup {NoRequest}
         /\ req'[r] = NoRequest /\ \A s \in Request : s # r => req'[s] = req[s]
         /\ lock' = IF lock = r THEN NoRequest ELSE lock
BY DEF Over, MailTypeOK

LEMMA SubmitIs ==
  ASSUME MailTypeOK, NEW r \in Request, NEW op \in Ops, Submit(r, op)
  PROVE  /\ waiting' \in [Ops -> Request \cup {NoRequest}] /\ said' \in [Ops -> Says]
         /\ waiting[op] = NoRequest /\ waiting'[op] = r
         /\ said[op] # "done" /\ said'[op] = "nothing" /\ token' = token
         /\ \A o \in Ops : o # op => waiting'[o] = waiting[o] /\ said'[o] = said[o]
BY DEF Submit, MailTypeOK, Says

LEMMA AnswerIs ==
  ASSUME MailTypeOK, WaitsForItsOwn, NEW r \in Request, NEW says \in Says, Answer(r, says)
  PROVE  /\ waiting' \in [Ops -> Request \cup {NoRequest}] /\ said' \in [Ops -> Says]
         /\ token' = token
         /\ \A op \in Ops :
              /\ waiting'[op] = IF waiting[op] = r THEN NoRequest ELSE waiting[op]
              /\ said'[op] = IF waiting[op] = r THEN Kept(op, says) ELSE said[op]
<1>1. CASE ~ \E op \in Ops : waiting[op] = r
  <2>1. waiting' = waiting /\ said' = said /\ token' = token
    BY <1>1 DEF Answer, mailPages
  <2>2. QED
    BY <1>1, <2>1 DEF MailTypeOK
<1>2. CASE \E op \in Ops : waiting[op] = r
  <2>1. PICK op \in Ops : /\ waiting[op] = r
                          /\ waiting' = [waiting EXCEPT ![op] = NoRequest]
                          /\ said' = [said EXCEPT ![op] = Kept(op, says)]
                          /\ token' = token
    BY <1>2, Zenon DEF Answer
  <2>2. \A o \in Ops : waiting[o] = r => o = op
    BY <2>1, NoRequestIsNone DEF WaitsForItsOwn
  <2>3. Kept(op, says) \in Says
    BY DEF Kept, Says
  <2>4. QED
    BY <2>1, <2>2, <2>3 DEF MailTypeOK
<1>3. QED
  BY <1>1, <1>2

LEMMA MailStart == MailInit => IInvMail
BY LinkBounds, NoRequestIsNone
DEF MailInit, IInvMail, MailTypeOK, WaitsForItsOwn, LinksInOrder, NoAccountYet, ResetLinks,
    VerifyLinks, Posts, Ops, Makes, Uses, Says, Link

\* The steps that begin a request, ...
Begins(r) ==
  \/ Register(r) \/ Resend(r) \/ Forgot(r) \/ Rerun(r) \/ ResetRequest(r)
  \/ \E l \in Link : OpenVerify(r, l)

\* ... that take it a step further, ...
Goes(r) == WriteLink(r) \/ SendMail(r)

\* ... that end it, ...
Ends(r) == MailFails(r) \/ CommitLink(r) \/ FailsAfterMail(r) \/ Refused(r) \/ Verify(r) \/ Reset(r)

\* ... and those of no request.
Besides ==
  \/ \E op \in Ops : Reload(op) \/ Unheard(op)
  \/ \E l \in Link : OpenReset(l) \/ Expire(l)
  \/ ToggleActive \/ UNCHANGED mailVars

LEMMA MailSteps ==
  ASSUME [MailNext]_mailVars
  PROVE  (\E r \in Request : Begins(r) \/ Goes(r) \/ Ends(r)) \/ Besides
BY DEF MailNext, Begins, Goes, Ends, Besides

\* A request begins with what it found.
LEMMA BeginsIs ==
  ASSUME MailTypeOK, NEW r \in Request, Begins(r)
  PROVE  /\ req' \in [Request -> Under \cup {NoRequest}]
         /\ req[r] = NoRequest /\ req'[r] # NoRequest
         /\ \A s \in Request : s # r => req'[s] = req[s]
         /\ waiting' \in [Ops -> Request \cup {NoRequest}] /\ said' \in [Ops -> Says]
         /\ waiting'[req'[r].op] = r
         /\ \A op \in Ops : op # req'[r].op => waiting'[op] = waiting[op]
<1>1. ASSUME NEW op \in Ops, NEW stage \in {"read", "written", "mailed"},
             NEW l \in 0 .. MaxLinks, Begin(r, op, stage, l), Submit(r, op)
      PROVE  /\ req' \in [Request -> Under \cup {NoRequest}]
             /\ req[r] = NoRequest /\ req'[r] # NoRequest
             /\ \A s \in Request : s # r => req'[s] = req[s]
             /\ waiting' \in [Ops -> Request \cup {NoRequest}] /\ said' \in [Ops -> Says]
             /\ waiting'[req'[r].op] = r
             /\ \A o \in Ops : o # req'[r].op => waiting'[o] = waiting[o]
  BY <1>1, BeginIs, SubmitIs
<1>2. CASE Register(r)
  <2>1. made + 1 \in 0 .. MaxLinks
    BY <1>2, LinkBounds DEF Register, MailTypeOK
  <2>2. QED
    BY <1>1, <1>2, <2>1 DEF Register, SubmitRegister, Ops
<1>3. CASE Resend(r)
  BY <1>1, <1>3, LinkBounds DEF Resend, SubmitResend, Ops
<1>4. CASE Forgot(r)
  BY <1>1, <1>4, LinkBounds DEF Forgot, SubmitForgot, Ops
<1>5. CASE ResetRequest(r)
  <2>1. (IF resetHash = token["reset"] /\ active THEN resetHash ELSE 0) \in 0 .. MaxLinks
    BY LinkBounds DEF MailTypeOK
  <2>2. QED
    BY <1>1, <1>5, <2>1 DEF ResetRequest, SubmitReset, Ops
<1>6. CASE Rerun(r)
  <2>1. (IF verifyHash = token["verify"] THEN verifyHash ELSE 0) \in 0 .. MaxLinks
    BY LinkBounds DEF MailTypeOK
  <2>2. /\ req' \in [Request -> Under \cup {NoRequest}]
        /\ req[r] = NoRequest /\ req'[r] # NoRequest /\ req'[r].op = "verify"
        /\ \A s \in Request : s # r => req'[s] = req[s]
    BY <1>6, <2>1, BeginIs DEF Rerun, Ops
  <2>3. QED
    BY <1>6, <2>2 DEF Rerun, MailTypeOK, Ops
<1>7. ASSUME NEW l \in Link, OpenVerify(r, l)
      PROVE  /\ req' \in [Request -> Under \cup {NoRequest}]
             /\ req[r] = NoRequest /\ req'[r] # NoRequest
             /\ \A s \in Request : s # r => req'[s] = req[s]
             /\ waiting' \in [Ops -> Request \cup {NoRequest}] /\ said' \in [Ops -> Says]
             /\ waiting'[req'[r].op] = r
             /\ \A op \in Ops : op # req'[r].op => waiting'[op] = waiting[op]
  <2>1. (IF verifyHash = l THEN l ELSE 0) \in 0 .. MaxLinks
    BY LinkBounds DEF Link
  <2>2. /\ req' \in [Request -> Under \cup {NoRequest}]
        /\ req[r] = NoRequest /\ req'[r] # NoRequest /\ req'[r].op = "verify"
        /\ \A s \in Request : s # r => req'[s] = req[s]
    BY <1>7, <2>1, BeginIs DEF OpenVerify, Ops
  <2>3. QED
    BY <1>7, <2>2 DEF OpenVerify, MailTypeOK, Ops, Says
<1>8. QED
  BY <1>2, <1>3, <1>4, <1>5, <1>6, <1>7 DEF Begins

LEMMA GoesIs ==
  ASSUME MailTypeOK, NEW r \in Request, Goes(r)
  PROVE  /\ req' \in [Request -> Under \cup {NoRequest}]
         /\ req[r] # NoRequest /\ req'[r] # NoRequest /\ req'[r].op = req[r].op
         /\ req[r].op \in Makes
         /\ \A s \in Request : s # r => req'[s] = req[s]
         /\ UNCHANGED <<row, spent, mailPages, mailHistory>>
         /\ \/ /\ req[r].stage = "read" /\ req'[r].stage = "written"
               /\ req'[r].link = made + 1 /\ made' = made + 1 /\ lock = NoRequest /\ lock' = r
               /\ req[r].op # "register" /\ mails' = mails /\ made < MaxLinks
            \/ /\ req[r].stage = "written" /\ req'[r].stage = "mailed"
               /\ req'[r].link = req[r].link /\ made' = made /\ lock' = lock
               /\ mails' = mails \cup
                    {[for |-> IF req[r].op = "forgot" THEN "reset" ELSE "verify",
                      link |-> req[r].link]}
<1> PICK q : q = req[r]
  OBVIOUS
<1>1. q # NoRequest /\ q \in Under
  BY DEF Goes, WriteLink, SendMail, At, MailTypeOK
<1>2. CASE WriteLink(r)
  <2> PICK n : n = [q EXCEPT !.stage = "written", !.link = made + 1]
    OBVIOUS
  <2>1. /\ q.stage = "read" /\ q.op \in {"resend", "forgot"} /\ lock = NoRequest
        /\ made < MaxLinks /\ lock' = r /\ made' = made + 1
        /\ req' = [req EXCEPT ![r] = n]
        /\ UNCHANGED <<row, mails, spent, mailPages, mailHistory>>
    BY <1>2 DEF WriteLink, At
  <2>2. n \in Under /\ n.op = q.op /\ n.stage = "written" /\ n.link = made + 1
    <3>1. made + 1 \in 0 .. MaxLinks
      BY <2>1, LinkBounds DEF MailTypeOK
    <3>2. QED
      BY <1>1, <3>1 DEF Under
  <2>3. n # NoRequest
    BY <2>2, NoRequestIsNone
  <2>4. QED
    BY <1>1, <2>1, <2>2, <2>3 DEF MailTypeOK, Makes
<1>3. CASE SendMail(r)
  <2> PICK n : n = [q EXCEPT !.stage = "mailed"]
    OBVIOUS
  <2>1. /\ q.stage = "written" /\ q.op \in Makes
        /\ req' = [req EXCEPT ![r] = n]
        /\ mails' = mails \cup {[for |-> IF q.op = "forgot" THEN "reset" ELSE "verify",
                                 link |-> q.link]}
        /\ UNCHANGED <<row, lock, made, spent, mailPages, mailHistory>>
    BY <1>3 DEF SendMail, At, Makes
  <2>2. n \in Under /\ n.op = q.op /\ n.stage = "mailed" /\ n.link = q.link
    BY <1>1, <2>1 DEF Under
  <2>3. n # NoRequest
    BY <2>2, NoRequestIsNone
  <2>4. QED
    BY <1>1, <2>1, <2>2, <2>3 DEF MailTypeOK
<1>4. QED
  BY <1>2, <1>3 DEF Goes

LEMMA GoesOn ==
  ASSUME MailTypeOK, LinksInOrder, NEW r \in Request, Goes(r), NEW l \in Link, req[r].link = l
  PROVE  req'[r].link = l
<1>1. req[r] # NoRequest /\ req[r].op \in Makes
  BY GoesIs
<1>2. req[r].stage # "read"
  <2>1. l # 0
    BY LinkBounds DEF Link
  <2>2. req[r].stage = "read" => req[r].link = 0
    BY <1>1 DEF LinksInOrder
  <2>3. QED
    BY <2>1, <2>2
<1>3. QED
  BY <1>2, GoesIs

LEMMA EndsIs ==
  ASSUME MailTypeOK, WaitsForItsOwn, NEW r \in Request, Ends(r)
  PROVE  /\ req' \in [Request -> Under \cup {NoRequest}] /\ lock' \in Request \cup {NoRequest}
         /\ req[r] # NoRequest /\ req[r] \in Under
         /\ req'[r] = NoRequest /\ \A s \in Request : s # r => req'[s] = req[s]
         /\ lock' = IF lock = r THEN NoRequest ELSE lock
         /\ waiting' \in [Ops -> Request \cup {NoRequest}] /\ said' \in [Ops -> Says]
         /\ \A op \in Ops : waiting'[op] = IF waiting[op] = r THEN NoRequest ELSE waiting[op]
         /\ UNCHANGED <<active, made, mails, token, opened>>
<1>1. Over(r) /\ req[r] # NoRequest
  BY DEF Ends, MailFails, CommitLink, FailsAfterMail, Refused, Verify, Reset, At
<1>2. PICK says \in Says : Answer(r, says)
  BY DEF Ends, MailFails, CommitLink, FailsAfterMail, Refused, Verify, Reset, Says
<1>3. UNCHANGED <<active, made, mails, opened>>
  BY DEF Ends, MailFails, CommitLink, FailsAfterMail, Refused, Verify, Reset, row, mailHistory
<1>4. QED
  BY <1>1, <1>2, <1>3, OverIs, AnswerIs DEF MailTypeOK

LEMMA MailTypes ==
  ASSUME MailTypeOK, WaitsForItsOwn, LinksInOrder, [MailNext]_mailVars
  PROVE  MailTypeOK'
<1>1. ASSUME NEW r \in Request, Begins(r)
      PROVE  MailTypeOK'
  <2>1. UNCHANGED <<row, mails, spent, did>>
    BY <1>1 DEF Begins, Register, Resend, Forgot, OpenVerify, Rerun, ResetRequest, mailHistory
  <2>2. lock' \in Request \cup {NoRequest} /\ made' \in 0 .. MaxLinks
    <3>1. CASE Register(r)
      BY <3>1, LinkBounds DEF Register, MailTypeOK
    <3>2. CASE UNCHANGED <<lock, made>>
      BY <3>2 DEF MailTypeOK
    <3>3. QED
      BY <1>1, <3>1, <3>2 DEF Begins, Resend, Forgot, OpenVerify, Rerun, ResetRequest
  <2>3. token' \in [{"verify", "reset"} -> 0..MaxLinks] /\ opened' \subseteq Link
    <3>1. CASE UNCHANGED <<token, opened>>
      BY <3>1 DEF MailTypeOK
    <3>2. ASSUME NEW l \in Link, OpenVerify(r, l)
          PROVE  token' \in [{"verify", "reset"} -> 0..MaxLinks] /\ opened' \subseteq Link
      BY <3>2, LinkBounds DEF OpenVerify, MailTypeOK, Link
    <3>3. QED
      BY <1>1, <3>1, <3>2
      DEF Begins, Register, Resend, Forgot, Rerun, ResetRequest, Submit, SubmitRegister,
          SubmitResend, SubmitForgot, SubmitReset, mailHistory
  <2>4. /\ causes' \subseteq {"overlap", "undone", "unheard", "reran", "reopened", "overtaken"}
        /\ mailMishaps' = mailMishaps
    BY <1>1
    DEF Begins, Register, Resend, Forgot, OpenVerify, Rerun, ResetRequest, MailTypeOK,
        Overlapping, mailHistory
  <2>5. QED
    BY <1>1, <2>1, <2>2, <2>3, <2>4, BeginsIs DEF MailTypeOK, row
<1>2. ASSUME NEW r \in Request, Goes(r)
      PROVE  MailTypeOK'
  <2>1. lock' \in Request \cup {NoRequest} /\ made' \in 0 .. MaxLinks
    BY <1>2, GoesIs, LinkBounds DEF MailTypeOK
  <2>2. req[r] \in Under
    BY <1>2, GoesIs DEF MailTypeOK
  <2>3. mails' \subseteq [for : {"verify", "reset"}, link : Link]
    <3>1. CASE mails' = mails
      BY <3>1 DEF MailTypeOK
    <3>2. CASE SendMail(r)
      <4>1. req[r] # NoRequest /\ req[r].stage = "written"
        BY <3>2 DEF SendMail, At
      <4>2. req[r].link \in 1 .. made /\ made \in 0 .. MaxLinks
        BY <4>1 DEF LinksInOrder, MailTypeOK
      <4>3. req[r].link \in Link
        BY <4>2, LinkBounds DEF Link
      <4>4. QED
        BY <3>2, <4>3 DEF SendMail, MailTypeOK
    <3>3. QED
      BY <1>2, <3>1, <3>2 DEF Goes, WriteLink
  <2>4. QED
    BY <1>2, <2>1, <2>3, GoesIs DEF MailTypeOK, row, mailPages, mailHistory
<1>3. ASSUME NEW r \in Request, Ends(r)
      PROVE  MailTypeOK'
  <2>1. req[r].link \in 0 .. MaxLinks
    BY <1>3, EndsIs DEF Under
  <2>2. CASE CommitLink(r)
    <3>1. /\ account' \in {"none", "unverified", "verified"}
          /\ verifyHash' \in 0 .. MaxLinks /\ resetHash' \in 0 .. MaxLinks
      BY <2>1, <2>2 DEF CommitLink, MailTypeOK
    <3>2. UNCHANGED <<spent, mailHistory>>
      BY <2>2 DEF CommitLink
    <3>3. QED
      BY <1>3, <3>1, <3>2, EndsIs DEF MailTypeOK, mailHistory
  <2>3. CASE MailFails(r) \/ FailsAfterMail(r) \/ Refused(r)
    <3>1. UNCHANGED <<row, spent, did>>
      BY <2>3 DEF MailFails, FailsAfterMail, Refused, mailHistory
    <3>2. mailMishaps' \in 0 .. MaxMishaps
      <4>1. CASE MailMishap
        BY <4>1, LinkBounds DEF MailMishap, MailTypeOK
      <4>2. CASE UNCHANGED mailMishaps
        BY <4>2 DEF MailTypeOK
      <4>3. QED
        BY <2>3, <4>1, <4>2 DEF MailFails, FailsAfterMail, Refused, mailHistory
    <3>3. causes' \subseteq {"overlap", "undone", "unheard", "reran", "reopened", "overtaken"}
      BY <2>3 DEF MailFails, FailsAfterMail, Refused, MailTypeOK, mailHistory
    <3>4. QED
      BY <1>3, <3>1, <3>2, <3>3, EndsIs DEF MailTypeOK, row
  <2>4. CASE Verify(r) \/ Reset(r)
    <3>1. req[r].link \in Link
      BY <2>1, <2>4, LinkBounds DEF Verify, Reset, Link
    <3>2. spent' \subseteq Link /\ did' \subseteq Link
      BY <2>4, <3>1 DEF Verify, Reset, MailTypeOK
    <3>3. /\ account' \in {"none", "unverified", "verified"}
          /\ verifyHash' \in 0 .. MaxLinks /\ resetHash' \in 0 .. MaxLinks
          /\ mailMishaps' = mailMishaps
      BY <2>4, LinkBounds DEF Verify, Reset, MailTypeOK
    <3>4. causes' \subseteq {"overlap", "undone", "unheard", "reran", "reopened", "overtaken"}
      BY <2>4 DEF Verify, Reset, MailTypeOK
    <3>5. QED
      BY <1>3, <3>2, <3>3, <3>4, EndsIs DEF MailTypeOK
  <2>5. QED
    BY <1>3, <2>2, <2>3, <2>4 DEF Ends
<1>4. ASSUME NEW op \in Ops, Reload(op) \/ Unheard(op)
      PROVE  MailTypeOK'
  <2>1. mailMishaps' \in 0 .. MaxMishaps
    BY <1>4, LinkBounds DEF Reload, Unheard, MailMishap, MailTypeOK
  <2>2. causes' \subseteq {"overlap", "undone", "unheard", "reran", "reopened", "overtaken"}
    BY <1>4 DEF Reload, Unheard, MailTypeOK
  <2>3. /\ waiting' \in [Ops -> Request \cup {NoRequest}] /\ said' \in [Ops -> Says]
    BY <1>4 DEF Reload, Unheard, MailTypeOK, Says, Kept
  <2>4. UNCHANGED <<server, token, opened, did>>
    BY <1>4 DEF Reload, Unheard
  <2>5. QED
    BY <2>1, <2>2, <2>3, <2>4 DEF MailTypeOK, server, row
<1>5. ASSUME NEW l \in Link, OpenReset(l)
      PROVE  MailTypeOK'
  BY <1>5, LinkBounds DEF OpenReset, MailTypeOK, server, row, Says, Link, Ops
<1>6. ASSUME NEW l \in Link, Expire(l)
      PROVE  MailTypeOK'
  BY <1>6, LinkBounds DEF Expire, MailTypeOK, Link, mailPages, mailHistory
<1>7. CASE ToggleActive
  BY <1>7, LinkBounds DEF ToggleActive, MailTypeOK, MailMishap, mailPages
<1>8. CASE UNCHANGED mailVars
  BY <1>8 DEF mailVars, server, row, mailPages, mailHistory, MailTypeOK
<1>9. QED
  BY <1>1, <1>2, <1>3, <1>4, <1>5, <1>6, <1>7, <1>8, MailSteps DEF Besides

\* Only a registration begins with a link of its own.
LEMMA BeginsFrom ==
  ASSUME MailTypeOK, NEW r \in Request, Begins(r)
  PROVE  /\ UNCHANGED <<row, mails, spent, did, mailMishaps>>
         /\ \/ /\ account = "none" /\ req'[r].op = "register" /\ req'[r].stage = "written"
               /\ req'[r].link = made + 1 /\ made' = made + 1 /\ made < MaxLinks
               /\ lock = NoRequest /\ lock' = r
               /\ UNCHANGED <<token, opened, causes>>
            \/ /\ req'[r].op \in {"resend", "forgot"} /\ req'[r].stage = "read"
               /\ req'[r].link = 0 /\ account # "none"
               /\ UNCHANGED <<made, lock, token, opened>> /\ Overlapping(req'[r].op)
               /\ req'[r].op = "forgot" => resetHash = 0
            \/ /\ req'[r].op \in Uses /\ req'[r].stage = "read"
               /\ req'[r].link \in {0, verifyHash, resetHash}
               /\ UNCHANGED <<made, lock>> /\ causes \subseteq causes'
<1>1. CASE Register(r)
  <2>1. Begin(r, "register", "written", made + 1) /\ made + 1 \in 0 .. MaxLinks
    BY <1>1, LinkBounds DEF Register, MailTypeOK
  <2>2. QED
    BY <1>1, <2>1, BeginIs
    DEF Register, SubmitRegister, Submit, mailHistory, Ops
<1>2. CASE Resend(r)
  BY <1>2, BeginIs, LinkBounds DEF Resend, SubmitResend, Submit, Ops
<1>3. CASE Forgot(r)
  BY <1>3, BeginIs, LinkBounds DEF Forgot, SubmitForgot, Submit, Ops
<1>4. CASE ResetRequest(r)
  <2>1. PICK l \in 0 .. MaxLinks : l \in {0, resetHash} /\ Begin(r, "reset", "read", l)
    BY <1>4, LinkBounds DEF ResetRequest, MailTypeOK
  <2>2. QED
    BY <1>4, <2>1, BeginIs DEF ResetRequest, Ops, Uses, mailHistory
<1>5. CASE Rerun(r)
  <2>1. PICK l \in 0 .. MaxLinks : l \in {0, verifyHash} /\ Begin(r, "verify", "read", l)
    BY <1>5, LinkBounds DEF Rerun, MailTypeOK
  <2>2. QED
    BY <1>5, <2>1, BeginIs DEF Rerun, Ops, Uses, mailHistory
<1>6. ASSUME NEW k \in Link, OpenVerify(r, k)
      PROVE  /\ UNCHANGED <<row, mails, spent, did, mailMishaps>>
             /\ req'[r].op \in Uses /\ req'[r].stage = "read"
             /\ req'[r].link \in {0, verifyHash, resetHash}
             /\ UNCHANGED <<made, lock>> /\ causes \subseteq causes'
  <2>1. PICK l \in 0 .. MaxLinks : l \in {0, verifyHash} /\ Begin(r, "verify", "read", l)
    BY <1>6, LinkBounds DEF OpenVerify, MailTypeOK
  <2>2. QED
    BY <1>6, <2>1, BeginIs DEF OpenVerify, Ops, Uses
<1>7. QED
  BY <1>1, <1>2, <1>3, <1>4, <1>5, <1>6 DEF Begins

\* What the steps of no request leave as it is.
LEMMA BesidesIs ==
  ASSUME MailTypeOK, Besides
  PROVE  /\ UNCHANGED <<account, req, lock, made, mails, did>>
         /\ causes \subseteq causes'
         /\ \A op \in Ops : waiting'[op] \in {waiting[op], NoRequest}
<1>1. ASSUME NEW op \in Ops, Reload(op) \/ Unheard(op)
      PROVE  /\ UNCHANGED <<account, req, lock, made, mails, did>>
             /\ causes \subseteq causes'
             /\ \A o \in Ops : waiting'[o] \in {waiting[o], NoRequest}
  BY <1>1 DEF Reload, Unheard, server, row, MailTypeOK
<1>2. ASSUME NEW l \in Link, OpenReset(l)
      PROVE  /\ UNCHANGED <<account, req, lock, made, mails, did>>
             /\ causes \subseteq causes'
             /\ \A o \in Ops : waiting'[o] \in {waiting[o], NoRequest}
  BY <1>2 DEF OpenReset, server, row, MailTypeOK
<1>3. ASSUME NEW l \in Link, Expire(l) \/ ToggleActive \/ UNCHANGED mailVars
      PROVE  /\ UNCHANGED <<account, req, lock, made, mails, did>>
             /\ causes \subseteq causes'
             /\ \A o \in Ops : waiting'[o] \in {waiting[o], NoRequest}
  BY <1>3 DEF Expire, ToggleActive, mailVars, server, row, mailPages, mailHistory
<1>4. CASE ToggleActive \/ UNCHANGED mailVars
  BY <1>4 DEF ToggleActive, mailVars, server, row, mailPages, mailHistory
<1>5. QED
  BY <1>1, <1>2, <1>3, <1>4 DEF Besides

LEMMA WaitsStep ==
  ASSUME MailTypeOK, WaitsForItsOwn, [MailNext]_mailVars
  PROVE  WaitsForItsOwn'
<1>1. ASSUME NEW r \in Request, Begins(r)
      PROVE  WaitsForItsOwn'
  BY <1>1, BeginsIs DEF WaitsForItsOwn, MailTypeOK
<1>2. ASSUME NEW r \in Request, Goes(r)
      PROVE  WaitsForItsOwn'
  BY <1>2, GoesIs DEF WaitsForItsOwn, MailTypeOK, mailPages
<1>3. ASSUME NEW r \in Request, Ends(r)
      PROVE  WaitsForItsOwn'
  BY <1>3, EndsIs DEF WaitsForItsOwn, MailTypeOK
<1>4. CASE Besides
  BY <1>4, BesidesIs DEF WaitsForItsOwn, MailTypeOK
<1>5. QED
  BY <1>1, <1>2, <1>3, <1>4, MailSteps

\* A link is made, mailed and committed with the lock held.
LEMMA OrderStep ==
  ASSUME MailTypeOK, WaitsForItsOwn, LinksInOrder, [MailNext]_mailVars
  PROVE  LinksInOrder'
<1> USE NoRequestIsNone
<1>1. ASSUME NEW r \in Request, Begins(r)
      PROVE  LinksInOrder'
  <2>1. /\ req'[r].op = "register" => req'[r].stage # "read"
        /\ req'[r].op \in Uses => req'[r].stage = "read"
        /\ req'[r].op \in Makes /\ req'[r].stage = "read" => req'[r].link = 0
        /\ mails' = mails /\ made <= made'
        /\ \/ req'[r].stage = "read" /\ lock' = lock /\ made' = made
           \/ req'[r].link = made + 1 /\ made' = made + 1 /\ lock = NoRequest /\ lock' = r
    BY <1>1, BeginsFrom DEF Makes, Uses, MailTypeOK
  <2>2. \A m \in mails : m.link \in Nat /\ m.link <= made
    BY DEF LinksInOrder, MailTypeOK, Link
  <2>3. made \in Nat /\ \A m \in mails' : m.link <= made'
    BY <2>1, <2>2, LinkBounds DEF MailTypeOK
  <2>4. ASSUME NEW s \in Request, req'[s] # NoRequest
        PROVE  /\ req'[s].op = "register" => req'[s].stage # "read"
               /\ req'[s].op \in Uses => req'[s].stage = "read"
               /\ req'[s].op \in Makes /\ req'[s].stage = "read" => req'[s].link = 0
               /\ req'[s].stage # "read" =>
                    /\ lock' = s /\ req'[s].link \in 1 .. made'
                    /\ \A m \in mails' : m.link <= req'[s].link
                    /\ req'[s].stage = "written" => \A m \in mails' : m.link # req'[s].link
                    /\ req'[s].stage = "mailed" =>
                         [for |-> IF req'[s].op = "forgot" THEN "reset" ELSE "verify",
                          link |-> req'[s].link] \in mails'
    <3>1. CASE s # r
      <4>1. req'[s] = req[s]
        BY <1>1, <3>1, BeginsIs
      <4>2. req[s].stage # "read" => lock = s
        BY <2>4, <4>1 DEF LinksInOrder
      <4>3. req[s].stage # "read" => UNCHANGED <<lock, made, mails>>
        BY <2>1, <4>2
      <4>4. QED
        BY <2>4, <4>1, <4>3 DEF LinksInOrder
    <3>2. CASE s = r
      <4>1. req'[r].stage # "read" =>
              /\ lock' = r /\ req'[r].link = made + 1 /\ made' = made + 1
              /\ req'[r].stage = "written"
        BY <1>1, <2>1, BeginsFrom DEF Uses
      <4>2. QED
        BY <2>1, <2>2, <2>3, <3>2, <4>1
    <3>3. QED
      BY <3>1, <3>2
  <2>5. QED
    BY <2>1, <2>3, <2>4 DEF LinksInOrder
<1>2. ASSUME NEW r \in Request, Goes(r)
      PROVE  LinksInOrder'
  <2>1. \A m \in mails : m.link \in Nat /\ m.link <= made
    BY DEF LinksInOrder, MailTypeOK, Link
  <2>2. CASE /\ req[r].stage = "read" /\ req'[r].stage = "written"
             /\ req'[r].link = made + 1 /\ made' = made + 1 /\ lock = NoRequest /\ lock' = r
             /\ req[r].op # "register" /\ mails' = mails
    BY <1>2, <2>1, <2>2, GoesIs DEF LinksInOrder, MailTypeOK, Makes, Uses
  <2>3. CASE /\ req[r].stage = "written" /\ req'[r].stage = "mailed"
             /\ req'[r].link = req[r].link /\ made' = made /\ lock' = lock
             /\ mails' = mails \cup
                  {[for |-> IF req[r].op = "forgot" THEN "reset" ELSE "verify",
                    link |-> req[r].link]}
    BY <1>2, <2>1, <2>3, GoesIs DEF LinksInOrder, MailTypeOK, Makes, Uses
  <2>4. QED
    BY <1>2, <2>2, <2>3, GoesIs
<1>3. ASSUME NEW r \in Request, Ends(r)
      PROVE  LinksInOrder'
  BY <1>3, EndsIs DEF LinksInOrder, MailTypeOK
<1>4. CASE Besides
  BY <1>4, BesidesIs DEF LinksInOrder
<1>5. QED
  BY <1>1, <1>2, <1>3, <1>4, MailSteps

\* A registration holds the row to its end: until then there is no account.
LEMMA AccountStep ==
  ASSUME MailTypeOK, WaitsForItsOwn, LinksInOrder, NoAccountYet, [MailNext]_mailVars
  PROVE  NoAccountYet'
<1> USE NoRequestIsNone
<1>1. ASSUME NEW r \in Request, Begins(r)
      PROVE  NoAccountYet'
  <2>1. UNCHANGED <<account, verifyHash, resetHash>>
    BY <1>1, BeginsFrom DEF row
  <2>2. /\ req'[r].op = "register" => account = "none"
        /\ req'[r].op \in {"resend", "forgot"} => account # "none"
    BY <1>1, BeginsFrom DEF Uses
  <2>3. account = "none" /\ req'[r].op \in Uses => req'[r].link = 0
    BY <1>1, BeginsFrom DEF NoAccountYet, Uses
  <2>4. QED
    BY <1>1, <2>1, <2>2, <2>3, BeginsIs DEF NoAccountYet
<1>2. ASSUME NEW r \in Request, Goes(r)
      PROVE  NoAccountYet'
  <2>1. UNCHANGED <<account, verifyHash, resetHash>>
    BY <1>2, GoesIs DEF row
  <2>2. QED
    BY <1>2, <2>1, GoesIs DEF NoAccountYet, Makes, Uses
<1>3. ASSUME NEW r \in Request, Ends(r)
      PROVE  NoAccountYet'
  <2>1. CASE MailFails(r) \/ FailsAfterMail(r) \/ Refused(r)
    <3>1. UNCHANGED <<account, verifyHash, resetHash>>
      BY <2>1 DEF MailFails, FailsAfterMail, Refused, row
    <3>2. QED
      BY <1>3, <3>1, EndsIs DEF NoAccountYet
  <2>2. CASE CommitLink(r)
    <3>1. /\ At(r, "mailed") /\ account' = IF req[r].op = "register" THEN "unverified" ELSE account
          /\ req[r].op \notin Uses
      BY <1>3, <2>2 DEF CommitLink, At, LinksInOrder
    <3>2. req[r].op \in {"register", "resend", "forgot"}
      BY <1>3, <3>1, EndsIs DEF Under, Ops, Uses
    <3>3. account' # "none"
      BY <1>3, <3>1, <3>2, EndsIs DEF NoAccountYet
    <3>4. \A s \in Request : s # r /\ req[s] # NoRequest => req[s].op # "register"
      BY <3>1 DEF LinksInOrder, At
    <3>5. QED
      BY <1>3, <3>3, <3>4, EndsIs DEF NoAccountYet
  <2>3. CASE Verify(r) \/ Reset(r)
    <3>1. /\ account # "none" /\ account' \in {account, "verified"} /\ lock = NoRequest
      BY <1>3, <2>3, EndsIs DEF Verify, Reset, NoAccountYet, Uses
    <3>2. \A s \in Request : req[s] # NoRequest => req[s].op # "register"
      BY <3>1 DEF LinksInOrder
    <3>3. QED
      BY <1>3, <3>1, <3>2, EndsIs DEF NoAccountYet
  <2>4. QED
    BY <1>3, <2>1, <2>2, <2>3 DEF Ends
<1>4. CASE Besides
  <2>1. verifyHash' \in {verifyHash, 0} /\ resetHash' \in {resetHash, 0}
    BY <1>4
    DEF Besides, Reload, Unheard, OpenReset, Expire, ToggleActive, mailVars, server, row
  <2>2. QED
    BY <1>4, <2>1, BesidesIs DEF NoAccountYet
<1>5. QED
  BY <1>1, <1>2, <1>3, <1>4, MailSteps

\* A request for a reset link finds none in the row, and without an overlap no
\* other request makes one before it commits.
LEMMA ResetStep ==
  ASSUME MailTypeOK, WaitsForItsOwn, LinksInOrder, ResetLinks, [MailNext]_mailVars
  PROVE  ResetLinks'
<1> USE NoRequestIsNone
<1>1. ASSUME NEW r \in Request, Begins(r)
      PROVE  ResetLinks'
  <2>1. UNCHANGED <<resetHash, mails, spent>> /\ causes \subseteq causes'
    BY <1>1, BeginsFrom DEF row, Overlapping
  <2>2. ASSUME req'[r].op = "forgot"
        PROVE  /\ resetHash = 0
               /\ "overlap" \in causes'
                  \/ \A s \in Request : req[s] # NoRequest => req[s].op # "forgot"
    BY <1>1, <2>2, BeginsFrom DEF Uses, Overlapping
  <2>3. QED
    BY <1>1, <2>1, <2>2, BeginsIs DEF ResetLinks
<1>2. ASSUME NEW r \in Request, Goes(r)
      PROVE  ResetLinks'
  <2>1. UNCHANGED <<resetHash, spent, causes>>
    BY <1>2, GoesIs DEF row, mailHistory
  <2>2. ASSUME NEW l \in Link, [for |-> "reset", link |-> l] \in mails' \ mails
        PROVE  req'[r].op = "forgot" /\ req'[r].link = l
    BY <1>2, <2>2, GoesIs
  <2>3. ASSUME NEW l \in Link, [for |-> "reset", link |-> l] \in mails, req[r].link = l
        PROVE  req'[r].link = l
    BY <1>2, <2>3, GoesOn
  <2>4. QED
    BY <1>2, <2>1, <2>2, <2>3, GoesIs DEF ResetLinks
<1>3. ASSUME NEW r \in Request, Ends(r)
      PROVE  ResetLinks'
  <2>1. CASE MailFails(r) \/ Refused(r)
    <3>1. UNCHANGED <<resetHash, spent, causes>>
      BY <2>1 DEF MailFails, Refused, row, mailHistory
    <3>2. ASSUME NEW l \in Link, [for |-> "reset", link |-> l] \in mails
          PROVE  req[r].op # "forgot" \/ req[r].link # l
      BY <2>1, <3>2 DEF MailFails, Refused, At, LinksInOrder
    <3>3. QED
      BY <1>3, <3>1, <3>2, EndsIs DEF ResetLinks
  <2>2. CASE FailsAfterMail(r)
    BY <2>2 DEF FailsAfterMail, ResetLinks
  <2>3. CASE CommitLink(r)
    <3>1. /\ resetHash' = IF req[r].op = "forgot" THEN req[r].link ELSE resetHash
          /\ UNCHANGED <<spent, causes>>
      BY <2>3 DEF CommitLink, mailHistory
    <3>2. QED
      BY <1>3, <3>1, EndsIs DEF ResetLinks, Link
  <2>4. CASE Verify(r)
    <3>1. /\ resetHash' = resetHash /\ spent \subseteq spent' /\ causes' = causes
          /\ req[r].op = "verify"
      BY <2>4 DEF Verify
    <3>2. QED
      BY <1>3, <3>1, EndsIs DEF ResetLinks
  <2>5. CASE Reset(r)
    <3>1. /\ resetHash' = 0 /\ spent' = spent \cup {req[r].link} /\ req[r].op = "reset"
          /\ causes \subseteq causes'
          /\ resetHash \in {0, req[r].link} \/ "overtaken" \in causes'
      BY <2>5 DEF Reset
    <3>2. QED
      BY <1>3, <3>1, EndsIs DEF ResetLinks, Link
  <2>6. QED
    BY <1>3, <2>1, <2>2, <2>3, <2>4, <2>5 DEF Ends
<1>4. CASE Besides
  <2>1. /\ causes \subseteq causes'
        /\ UNCHANGED <<resetHash, spent>>
           \/ \E l \in Link : /\ spent' = spent \cup {l}
                              /\ resetHash' = IF resetHash = l THEN 0 ELSE resetHash
    BY <1>4, BesidesIs
    DEF Besides, Reload, Unheard, OpenReset, Expire, ToggleActive, mailVars, server, row
  <2>2. QED
    BY <1>4, <2>1, BesidesIs DEF ResetLinks, Link
<1>5. QED
  BY <1>1, <1>2, <1>3, <1>4, MailSteps

\* The newest mail was sent by the request that holds the row, or by one that
\* has committed its link.
LEMMA VerifyStep ==
  ASSUME MailTypeOK, WaitsForItsOwn, LinksInOrder, VerifyLinks, [MailNext]_mailVars
  PROVE  VerifyLinks'
<1> USE NoRequestIsNone
<1>1. ASSUME NEW r \in Request, Begins(r)
      PROVE  VerifyLinks'
  <2>1. UNCHANGED <<account, verifyHash, mails, spent>> /\ causes \subseteq causes'
    BY <1>1, BeginsFrom DEF row, Overlapping
  <2>2. QED
    BY <1>1, <2>1, BeginsIs DEF VerifyLinks
<1>2. ASSUME NEW r \in Request, Goes(r)
      PROVE  VerifyLinks'
  <2>1. UNCHANGED <<account, verifyHash, spent, causes>> /\ mails \subseteq mails'
    BY <1>2, GoesIs DEF row, mailHistory
  <2>2. ASSUME NEW l \in Link, [for |-> "verify", link |-> l] \in mails' \ mails
        PROVE  req'[r].op \in {"register", "resend"} /\ req'[r].link = l
    BY <1>2, <2>2, GoesIs DEF Makes
  <2>3. ASSUME NEW l \in Link, req[r].link = l
        PROVE  req'[r].link = l
    BY <1>2, <2>3, GoesOn
  <2>4. QED
    BY <1>2, <2>1, <2>2, <2>3, GoesIs DEF VerifyLinks
<1>3. ASSUME NEW r \in Request, Ends(r)
      PROVE  VerifyLinks'
  <2>1. CASE MailFails(r) \/ Refused(r)
    <3>1. UNCHANGED <<account, verifyHash, spent, causes>>
      BY <2>1 DEF MailFails, Refused, row, mailHistory
    <3>2. ASSUME NEW l \in Link, [for |-> "verify", link |-> l] \in mails
          PROVE  req[r].op \notin {"register", "resend"} \/ req[r].link # l
      BY <2>1, <3>2 DEF MailFails, Refused, At, LinksInOrder
    <3>3. QED
      BY <1>3, <3>1, <3>2, EndsIs DEF VerifyLinks
  <2>2. CASE FailsAfterMail(r)
    BY <2>2 DEF FailsAfterMail, VerifyLinks
  <2>3. CASE CommitLink(r)
    <3>1. /\ verifyHash' = IF req[r].op \in {"register", "resend"} THEN req[r].link ELSE verifyHash
          /\ account' = IF req[r].op = "register" THEN "unverified" ELSE account
          /\ req[r].stage = "mailed" /\ UNCHANGED <<spent, causes>>
      BY <2>3 DEF CommitLink, mailHistory, At
    <3>2. ASSUME NEW l \in Link, [for |-> "verify", link |-> l] \in mails,
                 \A m \in mails : m.for = "verify" => m.link <= l,
                 req[r].op \in {"register", "resend"}
          PROVE  req[r].link = l
      <4>1. [for |-> "verify", link |-> req[r].link] \in mails /\ l <= req[r].link
        BY <1>3, <3>1, <3>2, EndsIs DEF LinksInOrder
      <4>2. req[r].link <= l /\ req[r].link \in Nat /\ l \in Nat
        BY <1>3, <3>2, <4>1, EndsIs, LinkBounds DEF Link, Under
      <4>3. QED
        BY <4>1, <4>2
    <3>3. CASE req[r].op \in {"register", "resend"}
      BY <1>3, <3>1, <3>2, <3>3, EndsIs DEF VerifyLinks
    <3>4. CASE req[r].op \notin {"register", "resend"}
      BY <1>3, <3>1, <3>4, EndsIs DEF VerifyLinks
    <3>5. QED
      BY <3>3, <3>4
  <2>4. CASE Verify(r)
    BY <2>4 DEF Verify, VerifyLinks
  <2>5. CASE Reset(r)
    <3>1. /\ UNCHANGED <<account, verifyHash>> /\ spent \subseteq spent' /\ req[r].op = "reset"
          /\ causes \subseteq causes'
      BY <2>5 DEF Reset
    <3>2. QED
      BY <1>3, <3>1, EndsIs DEF VerifyLinks
  <2>6. QED
    BY <1>3, <2>1, <2>2, <2>3, <2>4, <2>5 DEF Ends
<1>4. CASE Besides
  <2>1. UNCHANGED <<verifyHash, spent>>
        \/ \E l \in Link : /\ spent' = spent \cup {l}
                           /\ verifyHash' = IF verifyHash = l THEN 0 ELSE verifyHash
    BY <1>4
    DEF Besides, Reload, Unheard, OpenReset, Expire, ToggleActive, mailVars, server, row
  <2>2. QED
    BY <1>4, <2>1, BesidesIs DEF VerifyLinks, Link
<1>5. QED
  BY <1>1, <1>2, <1>3, <1>4, MailSteps

\* A page is opened once with a link and posts it once at a time; its answer
\* reaches the page that waits for it.
LEMMA PostsStep ==
  ASSUME MailTypeOK, WaitsForItsOwn, LinksInOrder, Posts, [MailNext]_mailVars
  PROVE  Posts'
<1> USE NoRequestIsNone
<1>1. ASSUME NEW r \in Request, Register(r) \/ Resend(r) \/ Forgot(r)
      PROVE  Posts'
  <2>1. Begins(r) /\ req'[r].op \notin Uses
    BY <1>1, BeginsFrom DEF Begins, Uses, Register, Resend, Forgot, Begin, MailTypeOK, Under
  <2>2. UNCHANGED <<opened, did, token>> /\ causes \subseteq causes'
    BY <2>1, BeginsFrom DEF Overlapping
  <2>3. \A op \in Uses : said'[op] = said[op] /\ waiting'[op] = waiting[op]
    BY <1>1, SubmitIs DEF Register, Resend, Forgot, SubmitRegister, SubmitResend, SubmitForgot,
                          Uses, Ops
  <2>4. QED
    BY <2>1, <2>2, <2>3, BeginsIs DEF Posts
<1>2. ASSUME NEW r \in Request, ResetRequest(r)
      PROVE  Posts'
  <2>1. /\ Begins(r) /\ req'[r].op = "reset" /\ req'[r].link \in {0, token["reset"]}
        /\ UNCHANGED <<opened, did, causes>>
    <3>1. PICK l \in 0 .. MaxLinks :
            l \in {0, token["reset"]} /\ Begin(r, "reset", "read", l)
      BY <1>2, LinkBounds DEF ResetRequest, MailTypeOK
    <3>2. QED
      BY <1>2, <3>1, BeginIs DEF Begins, ResetRequest, Ops, mailHistory
  <2>2. Submit(r, "reset")
    BY <1>2 DEF ResetRequest, SubmitReset
  <2>3. QED
    BY <2>1, <2>2, SubmitIs, BeginsIs DEF Posts, Uses, Ops
<1>3. ASSUME NEW r \in Request, NEW l \in Link, OpenVerify(r, l)
      PROVE  Posts'
  <2>1. /\ Begins(r) /\ req'[r].op = "verify" /\ req'[r].link \in {0, l}
    <3>1. PICK k \in 0 .. MaxLinks : k \in {0, l} /\ Begin(r, "verify", "read", k)
      BY <1>3, LinkBounds DEF OpenVerify, Link
    <3>2. QED
      BY <1>3, <3>1, BeginIs DEF Begins, Ops
  <2>2. /\ waiting["verify"] = NoRequest /\ waiting'["verify"] = r /\ waiting'["reset"] = waiting["reset"]
        /\ said'["reset"] = said["reset"] /\ token'["verify"] = l /\ token'["reset"] = token["reset"]
        /\ opened' = opened \cup {l} /\ did' = did /\ l # 0
        /\ l \in opened => "reopened" \in causes'
        /\ causes \subseteq causes'
    BY <1>3 DEF OpenVerify, MailTypeOK, Ops, Link
  <2>3. QED
    BY <2>1, <2>2, BeginsIs DEF Posts, Uses, Ops
<1>4. ASSUME NEW r \in Request, Goes(r)
      PROVE  Posts'
  <2>1. UNCHANGED <<opened, did, causes, token, waiting, said>> /\ req[r].op \notin Uses
    BY <1>4, GoesIs DEF mailHistory, mailPages, Makes, Uses
  <2>2. QED
    BY <1>4, <2>1, GoesIs DEF Posts
<1>5. ASSUME NEW r \in Request, MailFails(r) \/ CommitLink(r) \/ FailsAfterMail(r)
      PROVE  Posts'
  <2>1. Ends(r) /\ req[r] # NoRequest /\ req[r].op \notin Uses
    BY <1>5 DEF Ends, MailFails, CommitLink, FailsAfterMail, At, LinksInOrder
  <2>2. PICK says \in Says : Answer(r, says)
    BY <1>5 DEF MailFails, CommitLink, FailsAfterMail, Says
  <2>3. \A op \in Uses : waiting[op] # r
    BY <2>1 DEF WaitsForItsOwn, Uses, Ops
  <2>4. \A op \in Uses : said'[op] = said[op] /\ waiting'[op] = waiting[op]
    BY <2>2, <2>3, AnswerIs DEF Uses, Ops
  <2>5. UNCHANGED <<opened, did, token>> /\ causes \subseteq causes'
    BY <1>5, <2>1, EndsIs DEF MailFails, CommitLink, FailsAfterMail, mailHistory
  <2>6. QED
    BY <2>1, <2>4, <2>5, EndsIs DEF Posts
<1>6. ASSUME NEW r \in Request, Refused(r)
      PROVE  Posts'
  <2>1. Ends(r) /\ Answer(r, "failed") /\ UNCHANGED <<opened, did, causes>>
    BY <1>6 DEF Ends, Refused, mailHistory
  <2>2. /\ token' = token
        /\ \A op \in Uses :
             /\ waiting'[op] = IF waiting[op] = r THEN NoRequest ELSE waiting[op]
             /\ waiting[op] # r => said'[op] = said[op]
    BY <2>1, AnswerIs DEF Uses, Ops, Says
  <2>3. QED
    BY <2>1, <2>2, EndsIs DEF Posts
<1>7. ASSUME NEW r \in Request, Verify(r) \/ Reset(r)
      PROVE  Posts'
  <2>1. /\ Ends(r) /\ Answer(r, "done") /\ opened' = opened /\ causes \subseteq causes'
        /\ did' = did \cup {req[r].link} /\ req[r].link # 0 /\ req[r].op \in Uses
        /\ req[r] # NoRequest
    BY <1>7 DEF Ends, Verify, Reset, At, Uses
  <2>2. /\ token' = token
        /\ \A op \in Uses :
             /\ waiting'[op] = IF waiting[op] = r THEN NoRequest ELSE waiting[op]
             /\ said'[op] = IF waiting[op] = r THEN "done" ELSE said[op]
    BY <2>1, AnswerIs DEF Uses, Ops, Says, Kept
  <2>3. QED
    BY <2>1, <2>2, EndsIs DEF Posts
<1>8. ASSUME NEW l \in Link, OpenReset(l)
      PROVE  Posts'
  <2>1. /\ waiting'["reset"] = NoRequest /\ waiting'["verify"] = waiting["verify"]
        /\ said'["verify"] = said["verify"]
        /\ token'["reset"] = l /\ token'["verify"] = token["verify"]
        /\ opened' = opened \cup {l} /\ l # 0 /\ UNCHANGED <<did, req>>
        /\ l \in opened => "reopened" \in causes'
        /\ causes \subseteq causes'
    BY <1>8 DEF OpenReset, MailTypeOK, Ops, Link, server
  <2>2. QED
    BY <2>1 DEF Posts, Uses
<1>9. CASE Besides /\ ~ \E l \in Link : OpenReset(l)
  <2>1. CASE "unheard" \in causes'
    BY <2>1 DEF Posts
  <2>2. CASE "unheard" \notin causes'
    <3>1. UNCHANGED <<opened, token, causes>>
      BY <1>9, <2>2
      DEF Besides, Reload, Unheard, Expire, ToggleActive, mailVars, mailPages, mailHistory
    <3>2. \A op \in Uses : said'[op] = said[op] /\ waiting'[op] = waiting[op]
      <4>1. ASSUME NEW o \in Ops, Reload(o)
            PROVE  \A op \in Uses : said'[op] = said[op] /\ waiting'[op] = waiting[op]
        BY <4>1 DEF Reload, Uses, MailTypeOK, Ops
      <4>2. \A o \in Ops : ~ Unheard(o)
        BY <2>2 DEF Unheard
      <4>3. UNCHANGED mailPages =>
              \A op \in Uses : said'[op] = said[op] /\ waiting'[op] = waiting[op]
        BY DEF mailPages
      <4>4. (\E o \in Ops : Reload(o)) \/ UNCHANGED mailPages
        BY <1>9, <4>2 DEF Besides, Expire, ToggleActive, mailVars
      <4>5. QED
        BY <4>1, <4>3, <4>4
    <3>3. QED
      BY <1>9, <3>1, <3>2, BesidesIs DEF Posts
  <2>3. QED
    BY <2>1, <2>2
<1>10. ASSUME NEW r \in Request, Begins(r)
       PROVE  Posts'
  <2>1. (\E l \in Link : OpenVerify(r, l)) => Posts'
    BY <1>3
  <2>2. Rerun(r) => Posts'
    BY DEF Rerun, Posts
  <2>3. QED
    BY <1>1, <1>2, <1>10, <2>1, <2>2 DEF Begins
<1>11. ASSUME NEW r \in Request, Ends(r)
       PROVE  Posts'
  BY <1>5, <1>6, <1>7, <1>11 DEF Ends
<1>12. QED
  <2>1. CASE \E l \in Link : OpenReset(l)
    BY <1>8, <2>1
  <2>2. CASE ~ \E l \in Link : OpenReset(l)
    BY <1>4, <1>9, <1>10, <1>11, <2>2, MailSteps
  <2>3. QED
    BY <2>1, <2>2

LEMMA MailStep == IInvMail /\ [MailNext]_mailVars => IInvMail'
BY MailTypes, WaitsStep, OrderStep, AccountStep, ResetStep, VerifyStep, PostsStep DEF IInvMail

LEMMA LinksHold == IInvMail => LinksDoAsTheySay
<1> SUFFICES ASSUME IInvMail
             PROVE  LinksDoAsTheySay
  OBVIOUS
<1>1. ResetLinkLives
  BY DEF IInvMail, ResetLinks, ResetLinkLives, Waiting
<1>2. NewestLinkVerifies
  BY DEF IInvMail, VerifyLinks, NewestLinkVerifies, Waiting
<1>3. FailureIsReal
  BY DEF IInvMail, Posts, FailureIsReal, Uses
<1>4. QED
  BY <1>1, <1>2, <1>3 DEF LinksDoAsTheySay, MailedLinksWork

\* A link does what its mail says, and a page that says that its link failed is
\* right, but for the causes named there (verify_email, resend_verification,
\* forgot_password, reset_password with VerifyEmail and ResetPassword).
THEOREM LinksKeepTheirWord == MailSpec => []LinksDoAsTheySay
BY MailStart, MailStep, LinksHold, PTL DEF MailSpec

-----------------------------------------------------------------------------
(* The country and city of a form (Places).                                *)

\* The list of cities is of the country that is chosen, unless it is being
\* loaded or answers crossed.
CitiesOfTheCountry ==
  ~loadingCities /\ country # NoPlace /\ cities # NoPlace => cities = country \/ crossed

IInvPlaces == PlaceTypeOK /\ CitiesOfTheCountry /\ PlaceIsReal

LEMMA PlacesStart == PlaceInit => IInvPlaces
<1> SUFFICES ASSUME PlaceInit
             PROVE  IInvPlaces
  OBVIOUS
<1>1. PlaceTypeOK
  <2>1. choices \in 0 .. MaxChoices
    BY PlaceBounds DEF PlaceInit
  <2>2. QED
    BY <2>1, Zenon DEF PlaceInit, PlaceTypeOK, Choice
<1>2. CitiesOfTheCountry /\ PlaceIsReal
  BY DEF PlaceInit, CitiesOfTheCountry, PlaceIsReal
<1>3. QED
  BY <1>1, <1>2 DEF IInvPlaces

LEMMA PlacesStep == IInvPlaces /\ [PlaceNext]_placeVars => IInvPlaces'
<1> SUFFICES ASSUME IInvPlaces, [PlaceNext]_placeVars
             PROVE  IInvPlaces'
  OBVIOUS
<1> USE DEF IInvPlaces, PlaceTypeOK, CitiesOfTheCountry, PlaceIsReal, Choice
<1>1. CASE FetchCountries
  BY <1>1 DEF FetchCountries
<1>2. ASSUME NEW c \in Choice, ChooseCountry(c)
      PROVE  IInvPlaces'
  <2> PICK n : n = choices + 1
    OBVIOUS
  <2>1. n \in 1 .. MaxChoices /\ choices' = n /\ n \in 0 .. MaxChoices
    BY <1>2, PlaceBounds DEF ChooseCountry
  <2>2. fetches' \subseteq [n : 1 .. MaxChoices, for : Country]
    <3>1. c # NoPlace => c \in Country
      OBVIOUS
    <3>2. fetches' \in {fetches, fetches \cup {[n |-> n, for |-> c]}}
      BY <1>2 DEF ChooseCountry, FetchCities
    <3>3. c = NoPlace => fetches' = fetches
      BY <1>2 DEF ChooseCountry, FetchCities
    <3>4. c # NoPlace => [n |-> n, for |-> c] \in [n : 1 .. MaxChoices, for : Country]
      BY <2>1, <3>1
    <3>5. QED
      BY <3>2, <3>3, <3>4
  <2>3. /\ countries' = countries /\ country' = c /\ city' = NoPlace /\ crossed' = FALSE
        /\ cities' \in {cities, NoPlace}
        /\ loadingCities' \in {loadingCities, TRUE}
        /\ c # NoPlace => loadingCities' = TRUE
    BY <1>2 DEF ChooseCountry, FetchCities
  <2>4. QED
    BY <2>1, <2>2, <2>3
<1>3. ASSUME NEW c \in Choice, ChooseCity(c)
      PROVE  IInvPlaces'
  BY <1>3 DEF ChooseCity
<1>4. ASSUME NEW f \in fetches, NEW list \in Choice, CitiesArrive(f, list)
      PROVE  IInvPlaces'
  BY <1>4, PlaceBounds DEF CitiesArrive
<1>5. CASE UNCHANGED placeVars
  BY <1>5 DEF placeVars
<1>6. QED
  BY <1>1, <1>2, <1>3, <1>4, <1>5 DEF PlaceNext

\* The place that a form sends exists, unless an answer for another country
\* came after the choice (useLocationData).
THEOREM PlacesAreReal == PlaceSpec => []PlaceIsReal
<1>1. IInvPlaces => PlaceIsReal
  BY DEF IInvPlaces
<1>2. QED
  BY PlacesStart, PlacesStep, <1>1, PTL DEF PlaceSpec

-----------------------------------------------------------------------------
(* The profile page (Profile).                                             *)

\* What was not edited is what the user of the session fills in.
FormsAreFilled == \A x \in Field \ edited : form[x] = Filled(copy, listed)[x]

\* The user of the session is the row's, but for what a save has changed whose
\* answer is still to come.
CopyIsTheRow ==
  whyStale = {} =>
    \A f \in Forms : saves[f].stage # "saved" => \A x \in FieldsOf(f) : copy[x] = stored[x]

\* A save holds the fields of its form; those not edited are the row's.
Payload(s, f) ==
  /\ DOMAIN s.payload = FieldsOf(f) /\ \A x \in FieldsOf(f) : s.payload[x] \in Value
  /\ f = "main" => s.payload["place"] # Partial
  /\ whyStale = {} =>
       \A x \in FieldsOf(f) \ s.edited : (x = "place" => s.listed) => s.payload[x] = stored[x]

SavesHold ==
  /\ stored["place"] # Partial
  /\ \A f \in Forms : saves[f].stage = "sent" => Payload(saves[f], f)
  /\ \A f \in Forms : saves[f].stage = "saved" => saves[f].user \in [Field -> Value]

IInvProfile ==
  ProfileTypeOK /\ FormsAreFilled /\ CopyIsTheRow /\ SavesHold /\ SaveKeepsTheRest

LEMMA FormsAre ==
  /\ Forms = {"main", "handles"} /\ Field = {"name", "place", "handle"}
  /\ FieldsOf("main") = {"name", "place"} /\ FieldsOf("handles") = {"handle"}
BY DEF Forms, Field, Main, Handles, FieldsOf

LEMMA FormsApart ==
  ASSUME NEW f \in Forms, NEW g \in Forms, f # g
  PROVE  FieldsOf(f) \cap FieldsOf(g) = {} /\ FieldsOf(f) \cup FieldsOf(g) = Field
BY FormsAre

LEMMA FilledIs ==
  ASSUME NEW user \in [Field -> Value], NEW list \in BOOLEAN
  PROVE  /\ Filled(user, list) \in [Field -> Value]
         /\ \A x \in Field : x # "place" => Filled(user, list)[x] = user[x]
         /\ Filled(user, list)["place"] =
              IF user["place"] # 0 /\ ~list THEN Partial ELSE user["place"]
BY FormsAre DEF Filled, Value, Partial

LEMMA ProfileStart == ProfileInit => IInvProfile
<1> SUFFICES ASSUME ProfileInit
             PROVE  IInvProfile
  OBVIOUS
<1>1. stored \in [Field -> Value] /\ stored["place"] # Partial
  BY FormsAre DEF ProfileInit, Value, Partial
<1>2. form \in [Field -> Value]
  BY <1>1, FilledIs DEF ProfileInit
<1>3. DOMAIN saves = Forms /\ \A f \in Forms : saves[f].stage = "none"
  BY DEF ProfileInit, NoSave
<1>4. ProfileTypeOK
  <2>1. edits \in 0 .. MaxEdits /\ profileMishaps \in 0 .. MaxProfileMishaps
    BY ProfileBounds DEF ProfileInit
  <2>2. QED
    BY <1>1, <1>2, <1>3, <2>1 DEF ProfileInit, ProfileTypeOK
<1>5. FormsAreFilled /\ CopyIsTheRow /\ SaveKeepsTheRest
  BY DEF ProfileInit, FormsAreFilled, CopyIsTheRow, SaveKeepsTheRest
<1>6. QED
  BY <1>1, <1>3, <1>4, <1>5 DEF IInvProfile, SavesHold

\* The steps that leave the row and the saves as they are, ...
OfTheForms ==
  \/ CountriesArrive \/ CancelMain \/ CancelHandles
  \/ \E f \in Forms : OpenForm(f)
  \/ \E v \in Value : EditMain(v) \/ EditHandles(v)
  \/ UNCHANGED profileVars

LEMMA FormsStep ==
  ASSUME IInvProfile, OfTheForms
  PROVE  IInvProfile'
<1> USE DEF IInvProfile
<1>1. UNCHANGED <<role, stored, copy, saves, profileMishaps, whyStale, overreached>>
  BY DEF OfTheForms, CountriesArrive, CancelMain, CancelHandles, Closes, OpenForm, EditMain,
         EditHandles, Edits, profileVars
<1>2. CopyIsTheRow' /\ SavesHold' /\ SaveKeepsTheRest'
  <2>1. CopyIsTheRow'
    BY <1>1 DEF CopyIsTheRow
  <2>2. SavesHold'
    BY <1>1 DEF SavesHold, Payload
  <2>3. SaveKeepsTheRest'
    BY <1>1 DEF SaveKeepsTheRest
  <2>4. QED
    BY <2>1, <2>2, <2>3
<1> SUFFICES /\ FormsAreFilled' /\ form' \in [Field -> Value] /\ listed' \in BOOLEAN
             /\ editing' \subseteq Forms /\ edited' \subseteq Field /\ edits' \in 0 .. MaxEdits
  BY <1>1, <1>2 DEF ProfileTypeOK
<1> PICK filled : filled = Filled(copy, listed)
  OBVIOUS
<1>3. /\ filled \in [Field -> Value] /\ Filled(copy, TRUE) \in [Field -> Value]
      /\ \A x \in Field \ edited : form[x] = filled[x]
  BY FilledIs DEF ProfileTypeOK, FormsAreFilled
<1>4. CASE CountriesArrive
  BY <1>3, <1>4 DEF CountriesArrive, Fills, FormsAreFilled, ProfileTypeOK
<1>5. ASSUME NEW f \in Forms, Closes(f)
      PROVE  /\ FormsAreFilled' /\ form' \in [Field -> Value] /\ listed' \in BOOLEAN
             /\ editing' \subseteq Forms /\ edited' \subseteq Field /\ edits' \in 0 .. MaxEdits
  <2>1. form' = [x \in Field |-> IF x \in FieldsOf(f) THEN filled[x] ELSE form[x]]
    BY <1>5 DEF Closes
  <2>2. UNCHANGED <<listed, edits, copy>> /\ edited' = edited \ FieldsOf(f)
        /\ editing' \subseteq editing
    BY <1>5 DEF Closes
  <2>3. form' \in [Field -> Value] /\ \A x \in Field \ edited' : form'[x] = filled[x]
    BY <1>3, <2>1, <2>2 DEF ProfileTypeOK
  <2>4. QED
    BY <2>2, <2>3 DEF FormsAreFilled, ProfileTypeOK
<1>6. ASSUME NEW f \in Forms, OpenForm(f)
      PROVE  /\ FormsAreFilled' /\ form' \in [Field -> Value] /\ listed' \in BOOLEAN
             /\ editing' \subseteq Forms /\ edited' \subseteq Field /\ edits' \in 0 .. MaxEdits
  BY <1>6 DEF OpenForm, FormsAreFilled, ProfileTypeOK
<1>7. ASSUME NEW field \in Field, NEW v \in Value, Edits(field, v)
      PROVE  /\ FormsAreFilled' /\ form' \in [Field -> Value] /\ listed' \in BOOLEAN
             /\ editing' \subseteq Forms /\ edited' \subseteq Field /\ edits' \in 0 .. MaxEdits
  <2>1. UNCHANGED <<listed, editing, copy>> /\ edited' = edited \cup {field}
        /\ form' = [form EXCEPT ![field] = v]
    BY <1>7 DEF Edits
  <2>2. edits' \in 0 .. MaxEdits
    BY <1>7, ProfileBounds DEF Edits, ProfileTypeOK
  <2>3. form' \in [Field -> Value] /\ \A x \in Field \ edited' : form'[x] = filled[x]
    BY <1>3, <2>1 DEF ProfileTypeOK
  <2>4. QED
    BY <2>1, <2>2, <2>3 DEF FormsAreFilled, ProfileTypeOK
<1>8. ASSUME NEW v \in Value, EditMain(v) \/ EditHandles(v)
      PROVE  \E field \in Field : Edits(field, v)
  BY <1>8, FormsAre DEF EditMain, EditHandles
<1>9. CASE UNCHANGED profileVars
  BY <1>9 DEF profileVars, FormsAreFilled, ProfileTypeOK
<1>10. QED
  BY <1>4, <1>5, <1>6, <1>7, <1>8, <1>9, FormsAre DEF OfTheForms, CancelMain, CancelHandles

\* A form is sent only when no save of it is under way: what was not edited is
\* then the row's.
LEMMA SendStep ==
  ASSUME IInvProfile, SaveMain \/ SaveHandles
  PROVE  IInvProfile'
<1> USE DEF IInvProfile
<1>1. PICK f, payload :
        /\ f \in Forms
        /\ Send(f, payload)
        /\ DOMAIN payload = FieldsOf(f)
        /\ f = "main" => payload["place"] # Partial
        /\ \A x \in FieldsOf(f) : payload[x] \in Value
        /\ \A x \in FieldsOf(f) : x = "place" \/ payload[x] = form[x]
        /\ f = "main" => payload["place"] = IF form["place"] = Partial THEN 0 ELSE form["place"]
  <2>1. CASE SaveMain
    <3> PICK payload : payload = [name |-> form["name"],
                   place |-> IF form["place"] = Partial THEN 0 ELSE form["place"]]
      OBVIOUS
    <3>1. Send("main", payload)
      BY <2>1 DEF SaveMain
    <3>2. /\ DOMAIN payload = {"name", "place"} /\ payload["place"] # Partial
          /\ payload["name"] = form["name"]
          /\ payload["place"] = IF form["place"] = Partial THEN 0 ELSE form["place"]
      BY DEF Partial
    <3>3. payload["name"] \in Value /\ payload["place"] \in Value
      BY <3>2, FormsAre DEF ProfileTypeOK, Value
    <3>4. QED
      BY <3>1, <3>2, <3>3, FormsAre
  <2>2. CASE SaveHandles
    <3> PICK payload : payload = [handle |-> form["handle"]]
      OBVIOUS
    <3>1. Send("handles", payload)
      BY <2>2 DEF SaveHandles
    <3>2. DOMAIN payload = {"handle"} /\ payload["handle"] = form["handle"]
      OBVIOUS
    <3>3. payload["handle"] \in Value
      BY <3>2, FormsAre DEF ProfileTypeOK
    <3>4. QED
      BY <3>1, <3>2, <3>3, FormsAre
  <2>3. QED
    BY <2>1, <2>2
<1> PICK s : s = [stage |-> "sent", payload |-> payload, edited |-> edited, listed |-> listed]
  OBVIOUS
<1>2. /\ s.stage = "sent" /\ s.payload = payload /\ s.edited = edited /\ s.listed = listed
  OBVIOUS
<1>3. /\ saves[f].stage = "none" /\ saves' = [saves EXCEPT ![f] = s]
      /\ UNCHANGED <<role, stored, copy, listed, form, editing, edited, edits,
                     profileMishaps, whyStale, overreached>>
  BY <1>1 DEF Send
<1>4. saves'[f] = s /\ DOMAIN saves' = Forms /\ \A g \in Forms : g # f => saves'[g] = saves[g]
  BY <1>1, <1>3 DEF ProfileTypeOK
<1>5. Payload(s, f)'
  <2>1. ASSUME whyStale = {}, NEW x \in FieldsOf(f) \ edited, x = "place" => listed
        PROVE  payload[x] = stored[x]
    <3>1. x \in Field
      BY <1>1, FormsAre
    <3>2. copy[x] = stored[x] /\ form[x] = Filled(copy, listed)[x]
      BY <1>1, <1>3, <2>1, <3>1 DEF CopyIsTheRow, FormsAreFilled
    <3>3. form[x] = stored[x]
      BY <2>1, <3>1, <3>2, FilledIs DEF ProfileTypeOK
    <3>4. x = "place" => f = "main" /\ stored["place"] # Partial
      BY <1>1, FormsAre DEF SavesHold
    <3>5. QED
      BY <1>1, <3>3, <3>4
  <2>2. QED
    <3>1. \A x \in FieldsOf(f) \ s.edited : whyStale' = {} /\ (x = "place" => s.listed) =>
            s.payload[x] = stored'[x]
      BY <1>2, <1>3, <2>1
    <3>2. QED
      BY <1>1, <1>2, <3>1 DEF Payload
<1>6. SavesHold'
  <2>1. \A g \in Forms : g # f /\ saves[g].stage = "sent" => Payload(saves[g], g)'
    BY <1>3, <1>4 DEF SavesHold, Payload
  <2>2. QED
    BY <1>2, <1>3, <1>4, <1>5, <2>1 DEF SavesHold, Payload
<1>7. ProfileTypeOK' /\ FormsAreFilled' /\ CopyIsTheRow' /\ SaveKeepsTheRest'
  <2>1. ProfileTypeOK'
    BY <1>2, <1>3, <1>4 DEF ProfileTypeOK
  <2>2. FormsAreFilled' /\ SaveKeepsTheRest'
    BY <1>3 DEF FormsAreFilled, SaveKeepsTheRest
  <2>3. CopyIsTheRow'
    BY <1>2, <1>3, <1>4 DEF CopyIsTheRow
  <2>4. QED
    BY <2>1, <2>2, <2>3
<1>8. QED
  BY <1>6, <1>7

Overreaches(s, new) ==
  /\ whyStale = {}
  /\ \E x \in Field \ s.edited :
       /\ new[x] # stored[x]
       /\ x = "place" => s.listed

\* update_me sets the fields of the save, which are the row's but for those
\* that were edited.
LEMMA UpdateStep ==
  ASSUME IInvProfile, NEW f \in Forms, Update(f)
  PROVE  IInvProfile'
<1> USE DEF IInvProfile
<1> PICK s : s = saves[f]
  OBVIOUS
<1> PICK new : new = [x \in Field |-> IF x \in DOMAIN s.payload THEN s.payload[x] ELSE stored[x]]
  OBVIOUS
<1> PICK n : n = [stage |-> "saved", user |-> new]
  OBVIOUS
<1>1. /\ s.stage = "sent" /\ stored' = new /\ saves' = [saves EXCEPT ![f] = n]
      /\ UNCHANGED <<role, copy, listed, form, editing, edited, edits, profileMishaps, whyStale>>
  <2>1. s.stage = "sent"
    BY DEF Update
  <2>2. stored' = new
    BY DEF Update
  <2>3. saves' = [saves EXCEPT ![f] = n]
    BY Zenon DEF Update
  <2>4. QED
    BY <2>1, <2>2, <2>3 DEF Update
<1>2. Payload(s, f)
  BY <1>1 DEF SavesHold
<1>3. /\ new \in [Field -> Value]
      /\ \A x \in FieldsOf(f) : new[x] = s.payload[x]
      /\ \A x \in Field \ FieldsOf(f) : new[x] = stored[x]
      /\ new["place"] # Partial
  <2>1. \A x \in FieldsOf(f) : x \in Field
    BY FormsAre
  <2>2. new \in [Field -> Value]
    BY <1>2 DEF Payload, ProfileTypeOK
  <2>3. new["place"] # Partial
    BY <1>2, FormsAre DEF Payload, SavesHold
  <2>4. QED
    BY <1>2, <2>1, <2>2, <2>3 DEF Payload
<1>4. /\ n.stage = "saved" /\ n.user = new /\ saves'[f] = n /\ DOMAIN saves' = Forms
      /\ \A g \in Forms : g # f => saves'[g] = saves[g]
  BY <1>1 DEF ProfileTypeOK
<1>5. ASSUME whyStale = {}, NEW x \in Field \ s.edited, x = "place" => s.listed
      PROVE  new[x] = stored[x]
  BY <1>2, <1>3, <1>5 DEF Payload
<1>6. SaveKeepsTheRest'
  <2>1. overreached' = (overreached \/ Overreaches(s, new))
    BY Zenon DEF Update, Overreaches
  <2>2. ~ Overreaches(s, new)
    BY <1>5 DEF Overreaches
  <2>3. QED
    BY <2>1, <2>2, Zenon DEF SaveKeepsTheRest
<1>7. ProfileTypeOK' /\ FormsAreFilled'
  <2>1. overreached' \in BOOLEAN
    BY <1>6 DEF SaveKeepsTheRest, Update
  <2>2. \A g \in Forms : saves'[g].stage \in {"none", "sent", "saved"}
    BY <1>4 DEF ProfileTypeOK
  <2>3. QED
    BY <1>1, <1>3, <1>4, <2>1, <2>2 DEF ProfileTypeOK, FormsAreFilled
<1>8. CopyIsTheRow'
  <2>1. ASSUME NEW g \in Forms, g # f, NEW x \in FieldsOf(g)
        PROVE  stored'[x] = stored[x]
    BY <1>1, <1>3, <2>1, FormsApart
  <2>2. QED
    BY <1>1, <1>4, <2>1 DEF CopyIsTheRow
<1>9. SavesHold'
  <2>1. ASSUME NEW g \in Forms, g # f, saves[g].stage = "sent"
        PROVE  Payload(saves[g], g)'
    <3> PICK q : q = saves[g]
      OBVIOUS
    <3>1. saves'[g] = q
      BY <1>4, <2>1
    <3>2. \A x \in FieldsOf(g) : stored'[x] = stored[x]
      BY <1>1, <1>3, <2>1, FormsApart
    <3>3. Payload(q, g)
      BY <2>1 DEF SavesHold
    <3>4. \A x \in FieldsOf(g) \ q.edited : whyStale' = {} /\ (x = "place" => q.listed) =>
            q.payload[x] = stored'[x]
      BY <1>1, <3>2, <3>3 DEF Payload
    <3>5. QED
      BY <3>1, <3>3, <3>4 DEF Payload
  <2>2. QED
    BY <1>1, <1>3, <1>4, <2>1 DEF SavesHold
<1>10. QED
  BY <1>6, <1>7, <1>8, <1>9

\* The answer fills the forms with the user that it holds.
LEMMA SavedStep ==
  ASSUME IInvProfile, NEW f \in Forms, Saved(f)
  PROVE  IInvProfile'
<1> USE DEF IInvProfile
<1> PICK user : user = saves[f].user
  OBVIOUS
<1>1. /\ saves[f].stage = "saved" /\ copy' = user /\ form' = Filled(user, listed)
      /\ edited' = {} /\ editing' = editing \ {f} /\ saves' = [saves EXCEPT ![f] = NoSave]
      /\ whyStale' = IF user = stored THEN whyStale ELSE whyStale \cup {"crossed"}
      /\ UNCHANGED <<role, stored, listed, edits, profileMishaps, overreached>>
  BY DEF Saved, Fills
<1>2. user \in [Field -> Value]
  BY <1>1 DEF SavesHold
<1>3. /\ saves'[f].stage = "none" /\ DOMAIN saves' = Forms
      /\ \A g \in Forms : g # f => saves'[g] = saves[g]
  BY <1>1 DEF ProfileTypeOK, NoSave
<1>4. Filled(user, listed) \in [Field -> Value]
  BY <1>2, FilledIs DEF ProfileTypeOK
<1>5. ProfileTypeOK'
  BY <1>1, <1>2, <1>3, <1>4 DEF ProfileTypeOK
<1>6. FormsAreFilled' /\ CopyIsTheRow' /\ SaveKeepsTheRest'
  BY <1>1 DEF FormsAreFilled, CopyIsTheRow, SaveKeepsTheRest
<1>7. whyStale' = {} => whyStale = {}
  BY <1>1
<1>8. SavesHold'
  <2>1. \A g \in Forms : g # f /\ saves[g].stage = "sent" => Payload(saves[g], g)'
    BY <1>1, <1>3, <1>7 DEF SavesHold, Payload
  <2>2. QED
    BY <1>1, <1>3, <2>1 DEF SavesHold, Payload
<1>9. QED
  BY <1>5, <1>6, <1>8

LEMMA SaveFailsStep ==
  ASSUME IInvProfile, NEW f \in Forms, SaveFails(f)
  PROVE  IInvProfile'
<1> USE DEF IInvProfile
<1>1. /\ saves[f].stage # "none" /\ saves' = [saves EXCEPT ![f] = NoSave]
      /\ whyStale' = IF saves[f].stage = "saved" THEN whyStale \cup {"unheard"} ELSE whyStale
      /\ UNCHANGED <<role, stored, copy, listed, form, editing, edited, edits, overreached>>
  BY DEF SaveFails
<1>2. profileMishaps' \in 0 .. MaxProfileMishaps
  BY ProfileBounds DEF SaveFails, ProfileMishap, ProfileTypeOK
<1>3. /\ saves'[f].stage = "none" /\ DOMAIN saves' = Forms
      /\ \A g \in Forms : g # f => saves'[g] = saves[g]
  BY <1>1 DEF ProfileTypeOK, NoSave
<1>4. ProfileTypeOK' /\ FormsAreFilled' /\ SaveKeepsTheRest'
  BY <1>1, <1>2, <1>3 DEF ProfileTypeOK, FormsAreFilled, SaveKeepsTheRest
<1>5. CopyIsTheRow'
  BY <1>1, <1>3 DEF CopyIsTheRow
<1>6. SavesHold'
  <2>1. whyStale' = {} => whyStale = {}
    BY <1>1
  <2>2. \A g \in Forms : g # f /\ saves[g].stage = "sent" => Payload(saves[g], g)'
    BY <1>1, <1>3, <2>1 DEF SavesHold, Payload
  <2>3. QED
    BY <1>1, <1>3, <2>2 DEF SavesHold, Payload
<1>7. QED
  BY <1>4, <1>5, <1>6

LEMMA ElsewhereStep ==
  ASSUME IInvProfile, NEW x \in Field, SavedElsewhere(x)
  PROVE  IInvProfile'
<1> USE DEF IInvProfile
<1>1. PICK v \in Value \ {Partial} : stored' = [stored EXCEPT ![x] = v]
  <2>1. PICK v \in IF x = "name" THEN 1..2 ELSE IF x = "place" THEN 1..2 ELSE 0..1 :
          stored' = [stored EXCEPT ![x] = v]
    BY DEF SavedElsewhere
  <2>2. v \in Value \ {Partial}
    BY DEF Value, Partial
  <2>3. QED
    BY <2>1, <2>2
<1>2. /\ whyStale' # {} /\ whyStale' = whyStale \cup {"elsewhere"}
      /\ UNCHANGED <<role, copy, listed, form, editing, edited, saves, edits, overreached>>
  BY DEF SavedElsewhere
<1>3. profileMishaps' \in 0 .. MaxProfileMishaps
  BY ProfileBounds DEF SavedElsewhere, ProfileMishap, ProfileTypeOK
<1>4. stored' \in [Field -> Value] /\ stored'["place"] # Partial
  BY <1>1, FormsAre DEF ProfileTypeOK, SavesHold
<1>5. ProfileTypeOK' /\ FormsAreFilled' /\ SaveKeepsTheRest' /\ CopyIsTheRow'
  BY <1>2, <1>3, <1>4 DEF ProfileTypeOK, FormsAreFilled, SaveKeepsTheRest, CopyIsTheRow
<1>6. SavesHold'
  <2>1. \A g \in Forms : saves[g].stage = "sent" => Payload(saves[g], g)'
    BY <1>2 DEF SavesHold, Payload
  <2>2. QED
    BY <1>2, <1>4, <2>1 DEF SavesHold, Payload
<1>7. QED
  BY <1>5, <1>6

\* The page is opened with a user, and no save is under way.
LEMMA ReopenedStep ==
  ASSUME IInvProfile, NEW user \in [Field -> Value], Reopened(user),
         whyStale' \subseteq {"signin"}, whyStale' = {} => user = stored,
         profileMishaps' \in 0 .. MaxProfileMishaps
  PROVE  IInvProfile'
<1> USE DEF IInvProfile
<1>1. /\ \A f \in Forms : saves[f].stage = "none"
      /\ copy' = user /\ listed' = FALSE /\ editing' = {}
      /\ form' = Filled(user, FALSE) /\ edited' = {}
      /\ UNCHANGED <<role, stored, saves, edits, overreached>>
  BY DEF Reopened, Fills
<1>2. Filled(user, FALSE) \in [Field -> Value]
  BY FilledIs
<1>3. ProfileTypeOK'
  BY <1>1, <1>2 DEF ProfileTypeOK
<1>4. FormsAreFilled' /\ SaveKeepsTheRest' /\ CopyIsTheRow'
  BY <1>1, FormsAre DEF FormsAreFilled, SaveKeepsTheRest, CopyIsTheRow
<1>5. SavesHold'
  BY <1>1 DEF SavesHold
<1>6. QED
  BY <1>3, <1>4, <1>5

LEMMA ProfileStep == IInvProfile /\ [ProfileNext]_profileVars => IInvProfile'
<1> SUFFICES ASSUME IInvProfile, [ProfileNext]_profileVars
             PROVE  IInvProfile'
  OBVIOUS
<1>1. CASE ReloadProfile
  <2>1. Reopened(stored) /\ whyStale' = {} /\ UNCHANGED profileMishaps
    BY <1>1 DEF ReloadProfile
  <2>2. stored \in [Field -> Value] /\ profileMishaps' \in 0 .. MaxProfileMishaps
    BY <2>1 DEF IInvProfile, ProfileTypeOK
  <2>3. QED
    BY <2>1, <2>2, ReopenedStep
<1>2. CASE SignIn
  <2> PICK user : user = [stored EXCEPT !["place"] = 0, !["handle"] = 0]
    OBVIOUS
  <2>1. Reopened(user) /\ whyStale' = {"signin"}
    BY <1>2 DEF SignIn
  <2>2. user \in [Field -> Value]
    BY FormsAre DEF IInvProfile, ProfileTypeOK, Value
  <2>3. profileMishaps' \in 0 .. MaxProfileMishaps
    BY <1>2, ProfileBounds DEF SignIn, ProfileMishap, IInvProfile, ProfileTypeOK
  <2>4. QED
    BY <2>1, <2>2, <2>3, ReopenedStep
<1>3. QED
  BY <1>1, <1>2, FormsStep, SendStep, UpdateStep, SavedStep, SaveFailsStep, ElsewhereStep
  DEF ProfileNext, OfTheForms

\* A save changes a field that was not edited only for the causes named there
\* (update_me, with the forms of Profile and the user of AuthContext).
THEOREM SavesKeepTheRest == ProfileSpec => []SaveKeepsTheRest
<1>1. IInvProfile => SaveKeepsTheRest
  BY DEF IInvProfile
<1>2. QED
  BY ProfileStart, ProfileStep, <1>1, PTL DEF ProfileSpec

-----------------------------------------------------------------------------
(* The users' tab of the administrator (AdminUsers).                       *)

\* A toggle was clicked on what is the case, and reads it.
Honest(q) ==
  q.op = "toggle" =>
    q.label = isActive[q.user] /\ (q.stage = "read" => q.saw = isActive[q.user])

\* The request for the list that follows a toggle of u.
Lists(u, b) == asks[b] # Nothing /\ asks[b].op = "list" /\ asks[b].user = u

\* A toggle of u, or the list that follows it.
Toggles(u, b) == asks[b] # Nothing /\ asks[b].op # "wallet" /\ asks[b].user = u

ListIsTheTable ==
  doubts = {} =>
    /\ \A a \in Ask : asks[a] # Nothing => Honest(asks[a])
    /\ \A u \in Account : \A a, b \in Ask : Toggles(u, a) /\ Toggles(u, b) => a = b
    /\ users # Nothing =>
         \A u \in Account : users[u] = isActive[u] \/ \E b \in Ask : Lists(u, b)

NoneWhileLoading == loadingWallet => wallet = Nothing

IInvUsers ==
  /\ AdminTypeOK /\ NoneWhileLoading /\ WalletIsTheirs
  /\ ListIsTheTable /\ DoesWhatItSays

ListAsk(u) == [op |-> "list", stage |-> "sent", user |-> u]
ListRead(q) == [op |-> "list", stage |-> "read", user |-> q.user, list |-> isActive]
ToggleAsk(u) ==
  [op |-> "toggle", stage |-> "sent", user |-> u, label |-> users[u], saw |-> FALSE]
ToggleRead(q) == [q EXCEPT !.stage = "read", !.saw = isActive[q.user]]
WalletAsk(u) == [op |-> "wallet", stage |-> "sent", user |-> u]

LEMMA ListAskIs ==
  ASSUME NEW u \in Account \cup {Nothing}
  PROVE  ListAsk(u) \in Asks /\ ListAsk(u).op = "list" /\ ListAsk(u).user = u
BY DEF ListAsk, Asks

LEMMA WalletAskIs ==
  ASSUME NEW u \in Account
  PROVE  WalletAsk(u) \in Asks /\ WalletAsk(u).op = "wallet" /\ WalletAsk(u).user = u
BY DEF WalletAsk, Asks

LEMMA ListReadIs ==
  ASSUME isActive \in Listing, NEW q \in Asks, q.op = "list"
  PROVE  ListRead(q) \in Asks /\ ListRead(q).op = "list" /\ ListRead(q).user = q.user
<1>1. q.user \in Account \cup {Nothing}
  BY DEF Asks
<1>2. QED
  BY <1>1 DEF ListRead, Asks

LEMMA ToggleAskIs ==
  ASSUME users \in Listing, NEW u \in Account
  PROVE  /\ ToggleAsk(u) \in Asks /\ ToggleAsk(u).op = "toggle" /\ ToggleAsk(u).stage = "sent"
         /\ ToggleAsk(u).user = u /\ ToggleAsk(u).label = users[u]
<1>1. users[u] \in BOOLEAN
  BY DEF Listing
<1>2. QED
  BY <1>1, Zenon DEF ToggleAsk, Asks

LEMMA ToggleIs ==
  ASSUME NEW q \in Asks, q.op = "toggle"
  PROVE  /\ q.user \in Account /\ q.label \in BOOLEAN /\ q.saw \in BOOLEAN
         /\ q \in [op : {"toggle"}, stage : {"sent", "read"}, user : Account,
                   label : BOOLEAN, saw : BOOLEAN]
BY DEF Asks

LEMMA ToggleReadIs ==
  ASSUME isActive \in Listing, NEW q \in Asks, q.op = "toggle"
  PROVE  /\ ToggleRead(q) \in Asks /\ ToggleRead(q).op = "toggle"
         /\ ToggleRead(q).user = q.user /\ ToggleRead(q).label = q.label
         /\ ToggleRead(q).saw = isActive[q.user]
<1> PICK b : b = isActive[q.user]
  OBVIOUS
<1>1. b \in BOOLEAN /\ ToggleRead(q) = [q EXCEPT !.stage = "read", !.saw = b]
  BY ToggleIs DEF Listing, ToggleRead
<1>2. QED
  BY <1>1, ToggleIs DEF Asks

LEMMA UsersStart == AdminInit => IInvUsers
<1> SUFFICES ASSUME AdminInit
             PROVE  IInvUsers
  OBVIOUS
<1>1. PICK a \in Ask : asks = [b \in Ask |-> IF b = a THEN ListAsk(Nothing) ELSE Nothing]
  BY DEF AdminInit, ListAsk
<1>2. asks \in [Ask -> Asks \cup {Nothing}]
  BY <1>1, ListAskIs
<1>3. AdminTypeOK
  <2>1. asked \in 0 .. MaxAsks /\ adminMishaps \in 0 .. MaxAdminMishaps
    BY AdminBounds DEF AdminInit
  <2>2. isActive \in Listing /\ users \in Listing \cup {Nothing}
    BY DEF AdminInit, Listing
  <2>3. QED
    BY <1>2, <2>1, <2>2 DEF AdminInit, AdminTypeOK
<1>4. ListIsTheTable
  <2>1. \A b \in Ask : asks[b] # Nothing => asks[b].op = "list" /\ asks[b].user = Nothing
    BY <1>1, ListAskIs
  <2>2. QED
    BY <2>1, NothingIsNone DEF ListIsTheTable, Honest, Toggles, AdminInit
<1>5. QED
  BY <1>3, <1>4 DEF IInvUsers, NoneWhileLoading, WalletIsTheirs, DoesWhatItSays, AdminInit

LEMMA NewAskIs ==
  ASSUME AdminTypeOK, NEW a \in Ask, NEW q \in Asks, NewAsk(a, q)
  PROVE  /\ asks' \in [Ask -> Asks \cup {Nothing}] /\ asked' \in 0 .. MaxAsks
         /\ asks[a] = Nothing /\ asks'[a] = q /\ q # Nothing
         /\ \A b \in Ask : b # a => asks'[b] = asks[b]
BY NothingIsNone, AdminBounds DEF NewAsk, AdminTypeOK

LEMMA AskIs ==
  ASSUME AdminTypeOK, NEW a \in Ask, asks[a] # Nothing
  PROVE  asks[a] \in Asks
BY DEF AdminTypeOK

\* The steps of the details of a user, ...
LEMMA DetailsStep ==
  ASSUME IInvUsers,
         \/ \E a \in Ask :
              ShowWallet(a) \/ WalletFails(a) \/ \E u \in Account : ClickUser(a, u)
         \/ CloseUser \/ UNCHANGED adminVars
  PROVE  IInvUsers'
<1> USE DEF IInvUsers
<1>1. UNCHANGED <<isActive, users, doubts, surprised>>
  BY DEF ShowWallet, WalletFails, ClickUser, CloseUser, adminVars, adminPage, adminHistory
<1>2. ASSUME /\ asks' \in [Ask -> Asks \cup {Nothing}]
             /\ \A b \in Ask :
                  \/ asks'[b] = asks[b]
                  \/ /\ asks[b] = Nothing \/ asks[b].op = "wallet"
                     /\ asks'[b] = Nothing \/ asks'[b].op = "wallet"
      PROVE  ListIsTheTable'
  <2>1. \A u \in Account, b \in Ask :
          Toggles(u, b)' => Toggles(u, b)
    BY <1>2 DEF Toggles
  <2>2. \A u \in Account, b \in Ask : Lists(u, b) => Lists(u, b)'
    BY <1>2 DEF Lists
  <2>3. \A b \in Ask : asks'[b] # Nothing => asks'[b].op = "wallet" \/ asks'[b] = asks[b]
    BY <1>2
  <2>4. ASSUME doubts = {}, NEW b \in Ask, asks'[b] # Nothing
        PROVE  Honest(asks[b])' 
    <3>1. CASE asks'[b].op = "wallet"
      BY <3>1 DEF Honest
    <3>2. CASE asks'[b] = asks[b]
      BY <1>1, <2>4, <3>2 DEF Honest, ListIsTheTable
    <3>3. QED
      BY <2>3, <2>4, <3>1, <3>2
  <2>5. QED
    BY <1>1, <2>1, <2>2, <2>4 DEF ListIsTheTable
<1>3. ASSUME NEW a \in Ask, NEW u \in Account, ClickUser(a, u)
      PROVE  IInvUsers'
  <2>1. NewAsk(a, WalletAsk(u))
    BY <1>3 DEF ClickUser, WalletAsk
  <2>2. /\ selected' = u /\ wallet' = Nothing /\ loadingWallet' = TRUE
        /\ crossedWallet' = FALSE /\ adminMishaps' = adminMishaps
    BY <1>3 DEF ClickUser
  <2>3. ListIsTheTable'
    BY <1>2, <2>1, NewAskIs, WalletAskIs
  <2>4. QED
    BY <1>1, <2>1, <2>2, <2>3, NewAskIs, WalletAskIs
    DEF AdminTypeOK, NoneWhileLoading, WalletIsTheirs, DoesWhatItSays
<1>4. ASSUME NEW a \in Ask, ShowWallet(a) \/ WalletFails(a)
      PROVE  IInvUsers'
  <2>1. /\ asks[a] # Nothing /\ asks[a].op = "wallet" /\ asks' = [asks EXCEPT ![a] = Nothing]
        /\ selected' = selected /\ loadingWallet' = FALSE /\ asked' = asked
    BY <1>4 DEF ShowWallet, WalletFails, Asking, adminHistory
  <2>2. ListIsTheTable'
    BY <1>2, <2>1 DEF AdminTypeOK
  <2>3. asks[a].user \in Account
    BY <2>1, AskIs DEF Asks
  <2>4. CASE ShowWallet(a)
    <3>1. /\ wallet' = asks[a].user /\ adminMishaps' = adminMishaps
          /\ crossedWallet' \in BOOLEAN
          /\ asks[a].user # selected => crossedWallet' = TRUE
      BY <2>4 DEF ShowWallet
    <3>2. QED
      BY <1>1, <2>1, <2>2, <2>3, <3>1 DEF AdminTypeOK, NoneWhileLoading, WalletIsTheirs, DoesWhatItSays
  <2>5. CASE WalletFails(a)
    <3>1. wallet' = wallet /\ crossedWallet' = crossedWallet
      BY <2>5 DEF WalletFails, adminHistory
    <3>2. adminMishaps' \in 0 .. MaxAdminMishaps
      BY <2>5, AdminBounds DEF WalletFails, AdminMishap, AdminTypeOK
    <3>3. QED
      BY <1>1, <2>1, <2>2, <3>1, <3>2
      DEF AdminTypeOK, NoneWhileLoading, WalletIsTheirs, DoesWhatItSays
  <2>6. QED
    BY <1>4, <2>4, <2>5
<1>5. CASE CloseUser \/ UNCHANGED adminVars
  <2>1. UNCHANGED <<wallet, loadingWallet, asks, asked, adminMishaps, crossedWallet>>
        /\ selected' \in {selected, Nothing}
    BY <1>5 DEF CloseUser, adminVars, adminPage, adminHistory
  <2>2. ListIsTheTable'
    BY <1>2, <2>1 DEF AdminTypeOK
  <2>3. QED
    BY <1>1, <2>1, <2>2 DEF AdminTypeOK, NoneWhileLoading, WalletIsTheirs, DoesWhatItSays
<1>6. QED
  BY <1>3, <1>4, <1>5

\* ... those of the list, ...
LEMMA ClickStep ==
  ASSUME IInvUsers, NEW a \in Ask, NEW u \in Account, ClickToggle(a, u)
  PROVE  IInvUsers'
<1> USE DEF IInvUsers
<1>1. users \in Listing /\ NewAsk(a, ToggleAsk(u))
  BY DEF ClickToggle, ToggleAsk, AdminTypeOK
<1>2. /\ doubts' = IF \E b \in Ask : Toggles(u, b) THEN doubts \cup {"double"} ELSE doubts
      /\ UNCHANGED <<isActive, users, selected, wallet, loadingWallet, adminMishaps,
                     crossedWallet, surprised>>
  BY DEF ClickToggle, Toggles, adminPage
<1> PICK q : q = ToggleAsk(u)
  OBVIOUS
<1>3. /\ q \in Asks /\ q.op = "toggle" /\ q.stage = "sent" /\ q.user = u
      /\ q.label = users[u]
  BY <1>1, ToggleAskIs
<1>4. /\ asks' \in [Ask -> Asks \cup {Nothing}] /\ asked' \in 0 .. MaxAsks
      /\ asks[a] = Nothing /\ asks'[a] = q /\ q # Nothing
      /\ \A b \in Ask : b # a => asks'[b] = asks[b]
  BY <1>1, <1>3, NewAskIs
<1>5. ListIsTheTable'
  <2> SUFFICES ASSUME doubts' = {}
               PROVE  ListIsTheTable'
    BY DEF ListIsTheTable
  <2>1. doubts = {} /\ \A b \in Ask : ~ Toggles(u, b)
    BY <1>2
  <2>2. users[u] = isActive[u]
    <3>1. users # Nothing
      BY <1>1, NothingIsNone
    <3>2. \A b \in Ask : ~ Lists(u, b)
      BY <2>1 DEF Lists, Toggles
    <3>3. QED
      BY <2>1, <3>1, <3>2 DEF ListIsTheTable
  <2>3. Honest(q)
    BY <1>3, <2>2 DEF Honest
  <2>4. ASSUME NEW b \in Ask, asks'[b] # Nothing
        PROVE  Honest(asks[b])'
    <3>1. CASE b = a
      BY <1>2, <1>4, <2>3, <3>1 DEF Honest
    <3>2. CASE b # a
      BY <1>2, <1>4, <2>1, <2>4, <3>2 DEF Honest, ListIsTheTable
    <3>3. QED
      BY <3>1, <3>2
  <2>5. ASSUME NEW v \in Account, NEW b \in Ask, NEW c \in Ask, Toggles(v, b)', Toggles(v, c)'
        PROVE  b = c
    BY <1>3, <1>4, <2>1, <2>5 DEF Toggles, ListIsTheTable
  <2>6. \A v \in Account, b \in Ask : Lists(v, b) => Lists(v, b)'
    BY <1>4 DEF Lists
  <2>7. QED
    BY <1>2, <2>1, <2>4, <2>5, <2>6 DEF ListIsTheTable
<1>6. QED
  BY <1>2, <1>4, <1>5
  DEF AdminTypeOK, NoneWhileLoading, WalletIsTheirs, DoesWhatItSays

\* Steps of one request of the list or of a toggle.
LEMMA OneAskIs ==
  ASSUME AdminTypeOK, NEW a \in Ask, asks[a] # Nothing,
         NEW q \in Asks \cup {Nothing}, asks' = [asks EXCEPT ![a] = q]
  PROVE  /\ asks' \in [Ask -> Asks \cup {Nothing}] /\ asks'[a] = q
         /\ \A b \in Ask : b # a => asks'[b] = asks[b]
BY DEF AdminTypeOK

LEMMA ReadsStep ==
  ASSUME IInvUsers, NEW a \in Ask, ReadUser(a) \/ ReadUsers(a)
  PROVE  IInvUsers'
<1> USE DEF IInvUsers
<1> PICK p : p = asks[a]
  OBVIOUS
<1>1. /\ UNCHANGED <<isActive, users, selected, wallet, loadingWallet, asked, adminMishaps,
                     doubts, crossedWallet, surprised>>
      /\ p \in Asks /\ p # Nothing
  BY AskIs DEF ReadUser, ReadUsers, Asking, adminPage, adminHistory
<1>2. PICK q \in Asks :
        /\ asks' = [asks EXCEPT ![a] = q] /\ q.op = p.op /\ q.user = p.user
        /\ q.op = "toggle" => q.label = p.label /\ q.saw = isActive[q.user]
        /\ q.op # "wallet"
  <2>1. CASE ReadUser(a)
    <3>1. p.op = "toggle" /\ asks' = [asks EXCEPT ![a] = ToggleRead(p)]
      BY <2>1 DEF ReadUser, Asking, ToggleRead
    <3>2. QED
      BY <1>1, <3>1, ToggleReadIs DEF AdminTypeOK
  <2>2. CASE ReadUsers(a)
    <3>1. p.op = "list" /\ asks' = [asks EXCEPT ![a] = ListRead(p)]
      BY <2>2 DEF ReadUsers, Asking, ListRead
    <3>2. QED
      BY <1>1, <3>1, ListReadIs DEF AdminTypeOK
  <2>3. QED
    BY <2>1, <2>2
<1>3. /\ asks' \in [Ask -> Asks \cup {Nothing}] /\ asks'[a] = q
      /\ \A b \in Ask : b # a => asks'[b] = asks[b]
      /\ q # Nothing
  BY <1>1, <1>2, OneAskIs, NothingIsNone
<1>4. ListIsTheTable'
  <2>1. \A v \in Account, b \in Ask : Lists(v, b)' <=> Lists(v, b)
    BY <1>1, <1>2, <1>3 DEF Lists
  <2>2. \A v \in Account, b \in Ask : Toggles(v, b)' <=> Toggles(v, b)
    BY <1>1, <1>2, <1>3 DEF Toggles
  <2>3. ASSUME doubts = {}, NEW b \in Ask, asks'[b] # Nothing
        PROVE  Honest(asks[b])'
    <3>1. Honest(p)
      BY <1>1, <2>3 DEF ListIsTheTable
    <3>2. Honest(q)
      BY <1>2, <3>1 DEF Honest
    <3>3. CASE b = a
      BY <1>1, <1>3, <3>2, <3>3 DEF Honest
    <3>4. CASE b # a
      BY <1>1, <1>3, <2>3, <3>4 DEF Honest, ListIsTheTable
    <3>5. QED
      BY <3>3, <3>4
  <2>4. QED
    BY <1>1, <2>1, <2>2, <2>3 DEF ListIsTheTable
<1>5. QED
  BY <1>1, <1>3, <1>4
  DEF AdminTypeOK, NoneWhileLoading, WalletIsTheirs, DoesWhatItSays

LEMMA ToggleStep ==
  ASSUME IInvUsers, NEW a \in Ask, ToggleUser(a)
  PROVE  IInvUsers'
<1> USE DEF IInvUsers
<1> PICK p : p = asks[a]
  OBVIOUS
<1> PICK u : u = p.user
  OBVIOUS
<1> PICK q : q = ListAsk(u)
  OBVIOUS
<1>1. /\ p \in Asks /\ p # Nothing /\ p.op = "toggle" /\ p.stage = "read"
      /\ u \in Account /\ p.saw \in BOOLEAN /\ p.label \in BOOLEAN
      /\ isActive' = [isActive EXCEPT ![u] = ~p.saw]
      /\ surprised' = (surprised \/ (doubts = {} /\ ~p.saw = p.label))
      /\ UNCHANGED <<users, selected, wallet, loadingWallet, asked, adminMishaps,
                     doubts, crossedWallet>>
  <2>1. p \in Asks /\ p # Nothing /\ p.op = "toggle" /\ p.stage = "read"
    BY AskIs DEF ToggleUser, Asking
  <2>2. u \in Account /\ p.saw \in BOOLEAN /\ p.label \in BOOLEAN
    BY <2>1, ToggleIs
  <2>3. isActive' = [isActive EXCEPT ![u] = ~p.saw]
    BY Zenon DEF ToggleUser
  <2>4. surprised' = (surprised \/ (doubts = {} /\ ~p.saw = p.label))
    BY Zenon DEF ToggleUser
  <2>5. QED
    BY <2>1, <2>2, <2>3, <2>4 DEF ToggleUser, adminPage
<1>2. /\ asks' = [asks EXCEPT ![a] = q]
      /\ q \in Asks /\ q.op = "list" /\ q.user = u /\ q # Nothing
  BY <1>1, ListAskIs, NothingIsNone DEF ToggleUser, ListAsk
<1>3. /\ asks' \in [Ask -> Asks \cup {Nothing}] /\ asks'[a] = q
      /\ \A b \in Ask : b # a => asks'[b] = asks[b]
  BY <1>1, <1>2, OneAskIs
<1>4. /\ isActive' \in Listing
      /\ \A v \in Account : v # u => isActive'[v] = isActive[v]
  <2> PICK t : t = ~p.saw
    OBVIOUS
  <2>1. isActive' = [isActive EXCEPT ![u] = t] /\ t \in BOOLEAN
    BY <1>1, Zenon
  <2>2. QED
    BY <1>1, <2>1 DEF AdminTypeOK, Listing
<1>5. DoesWhatItSays'
  <2>1. doubts = {} => Honest(p)
    BY <1>1 DEF ListIsTheTable
  <2>2. doubts = {} => p.saw = p.label
    BY <1>1, <2>1 DEF Honest
  <2>3. QED
    BY <1>1, <2>2, Zenon DEF DoesWhatItSays
<1>6. ListIsTheTable'
  <2> SUFFICES ASSUME doubts = {}
               PROVE  ListIsTheTable'
    BY <1>1 DEF ListIsTheTable
  <2>1. Toggles(u, a) /\ \A b \in Ask : Toggles(u, b) => a = b
    BY <1>1 DEF Toggles, ListIsTheTable
  <2>2. \A v \in Account, b \in Ask : Toggles(v, b)' <=> Toggles(v, b)
    BY <1>1, <1>2, <1>3 DEF Toggles
  <2>3. Lists(u, a)' /\ \A v \in Account, b \in Ask : Lists(v, b) => Lists(v, b)'
    BY <1>1, <1>2, <1>3 DEF Lists
  <2>4. ASSUME NEW b \in Ask, asks'[b] # Nothing
        PROVE  Honest(asks[b])'
    <3>1. CASE b = a
      BY <1>2, <1>3, <3>1 DEF Honest
    <3>2. CASE b # a
      <4> PICK s : s = asks[b]
        OBVIOUS
      <4>1. asks'[b] = s /\ s \in Asks /\ s # Nothing
        BY <1>3, <2>4, <3>2, AskIs
      <4>2. s.op = "toggle" => s.user \in Account /\ s.user # u
        BY <2>1, <3>2, <4>1, ToggleIs DEF Toggles
      <4>3. Honest(s)
        BY <4>1 DEF ListIsTheTable
      <4>4. QED
        BY <1>4, <4>1, <4>2, <4>3 DEF Honest
    <3>3. QED
      BY <3>1, <3>2
  <2>5. ASSUME users # Nothing, NEW v \in Account
        PROVE  users[v] = isActive'[v] \/ \E b \in Ask : Lists(v, b)'
    BY <1>4, <2>3, <2>5 DEF ListIsTheTable
  <2>6. QED
    BY <1>1, <2>2, <2>4, <2>5 DEF ListIsTheTable
<1>7. QED
  BY <1>1, <1>3, <1>4, <1>5, <1>6
  DEF AdminTypeOK, NoneWhileLoading, WalletIsTheirs, DoesWhatItSays

LEMMA ShowStep ==
  ASSUME IInvUsers, NEW a \in Ask, ShowUsers(a)
  PROVE  IInvUsers'
<1> USE DEF IInvUsers
<1>1. /\ asks[a] # Nothing /\ asks[a].op = "list" /\ asks[a].stage = "read"
      /\ users' = asks[a].list /\ asks' = [asks EXCEPT ![a] = Nothing]
      /\ doubts' = IF users' = isActive THEN doubts ELSE doubts \cup {"crossed"}
      /\ UNCHANGED <<isActive, selected, wallet, loadingWallet, asked, adminMishaps,
                     crossedWallet, surprised>>
  BY DEF ShowUsers, Asking
<1>2. users' \in Listing
  BY <1>1, AskIs DEF Asks
<1>3. /\ asks' \in [Ask -> Asks \cup {Nothing}] /\ asks'[a] = Nothing
      /\ \A b \in Ask : b # a => asks'[b] = asks[b]
  BY <1>1, OneAskIs
<1>4. ListIsTheTable'
  <2> SUFFICES ASSUME doubts' = {}
               PROVE  ListIsTheTable'
    BY DEF ListIsTheTable
  <2>1. users' = isActive /\ doubts = {}
    BY <1>1
  <2>2. \A v \in Account, b \in Ask : Toggles(v, b)' => Toggles(v, b)
    BY <1>3 DEF Toggles
  <2>3. ASSUME NEW b \in Ask, asks'[b] # Nothing
        PROVE  Honest(asks[b])'
    BY <1>1, <1>3, <2>1, <2>3 DEF Honest, ListIsTheTable
  <2>4. QED
    BY <1>1, <2>1, <2>2, <2>3 DEF ListIsTheTable
<1>5. QED
  BY <1>1, <1>2, <1>3, <1>4
  DEF AdminTypeOK, NoneWhileLoading, WalletIsTheirs, DoesWhatItSays

\* ... and what else goes on.
LEMMA DoubtsStep ==
  ASSUME IInvUsers, \/ \E a \in Ask : AskFails(a)
                    \/ \E u \in Account : ToggledElsewhere(u)
  PROVE  IInvUsers'
<1> USE DEF IInvUsers
<1>1. /\ doubts' # {} /\ doubts' \subseteq {"elsewhere", "failed", "double", "crossed"}
      /\ UNCHANGED <<users, selected, wallet, loadingWallet, asked, crossedWallet, surprised>>
  BY DEF AskFails, ToggledElsewhere, adminPage, AdminTypeOK
<1>2. adminMishaps' \in 0 .. MaxAdminMishaps
  BY AdminBounds DEF AskFails, ToggledElsewhere, AdminMishap, AdminTypeOK
<1>3. isActive' \in Listing
  <2>1. ASSUME NEW u \in Account, isActive' = [isActive EXCEPT ![u] = ~@]
        PROVE  isActive' \in Listing
    <3> PICK t : t = ~isActive[u]
      OBVIOUS
    <3>1. t \in BOOLEAN /\ isActive' = [isActive EXCEPT ![u] = t]
      BY <2>1, Zenon
    <3>2. QED
      BY <3>1 DEF AdminTypeOK, Listing
  <2>2. QED
    BY <2>1 DEF AskFails, ToggledElsewhere, AdminTypeOK
<1>4. asks' \in [Ask -> Asks \cup {Nothing}]
  BY DEF AskFails, ToggledElsewhere, AdminTypeOK
<1>5. QED
  BY <1>1, <1>2, <1>3, <1>4
  DEF AdminTypeOK, NoneWhileLoading, WalletIsTheirs, DoesWhatItSays, ListIsTheTable

LEMMA UsersStep == IInvUsers /\ [AdminNext]_adminVars => IInvUsers'
BY DetailsStep, ClickStep, ReadsStep, ToggleStep, ShowStep, DoubtsStep DEF AdminNext

\* A button does what it says and the wallet is the named user's, but for the
\* causes named there (AdminDashboard over admin_toggle_user_active).
THEOREM UsersAreAsNamed == AdminSpec => []AboutTheUserNamed
<1>1. IInvUsers => AboutTheUserNamed
  BY DEF IInvUsers, AboutTheUserNamed
<1>2. QED
  BY UsersStart, UsersStep, <1>1, PTL DEF AdminSpec

-----------------------------------------------------------------------------
(* What the administrator reads of the platform (AdminOverview).           *)

Fleets == UNION {[D -> Status] : D \in SUBSET Gpu}

\* A platform: every GPU has its owner, and the job its GPU.
Platform(o, f, j) ==
  /\ o \in SUBSET Gpu /\ f \in Fleets /\ DOMAIN f \subseteq o
  /\ j \in DOMAIN f \cup {NoGpu}

Read(p) == parts[p].state = "read"

\* The answers are of that platform, which is the present one until the last
\* of them is there.
Snapshot(o, f, j) ==
  /\ parts["stats"].state \in {"counting", "read"} => parts["stats"].total = Cardinality(DOMAIN f)
  /\ Read("stats") => parts["stats"].online = Cardinality(OnlineIn(f))
  /\ Read("gpus") => parts["gpus"].list = f
  /\ Read("jobs") => parts["jobs"].gpu = j
  /\ Read("users") => parts["users"].list = o
  /\ (\E p \in Part : Unfinished(p)) => o = owners /\ f = fleet /\ j = job

\* Unless the platform changed in between, there is one such platform.
OneMoment ==
  ~moved =>
    \E o \in SUBSET Gpu, f \in Fleets, j \in Gpu \cup {NoGpu} :
      Platform(o, f, j) /\ Snapshot(o, f, j)

IInvOverview == OverviewTypeOK /\ Platform(owners, fleet, job) /\ OneMoment

LEMMA FleetIs ==
  ASSUME NEW f, NEW D \in SUBSET Gpu, f \in [D -> Status]
  PROVE  f \in Fleets /\ DOMAIN f = D
BY DEF Fleets

LEMMA OverviewStart == OverviewInit => IInvOverview
<1> SUFFICES ASSUME OverviewInit
             PROVE  IInvOverview
  OBVIOUS
<1>1. fleet \in [{} -> Status] /\ DOMAIN fleet = {}
  BY DEF OverviewInit
<1>2. fleet \in Fleets
  BY <1>1, FleetIs
<1>3. Platform(owners, fleet, job)
  BY <1>1, <1>2 DEF OverviewInit, Platform
<1>4. DOMAIN parts = Part /\ \A p \in Part : parts[p] = Pending
  BY DEF OverviewInit
<1>5. \A p \in Part : parts[p].state = "pending"
  BY <1>4 DEF Pending
<1>6. OverviewTypeOK
  <2>1. changes \in 0 .. MaxChanges
    BY OverviewBounds DEF OverviewInit
  <2>2. QED
    BY <1>1, <1>4, <1>5, <2>1 DEF OverviewInit, OverviewTypeOK
<1>7. OneMoment
  <2>1. Snapshot(owners, fleet, job)
    BY <1>5 DEF Snapshot, Read, Part
  <2>2. owners \in SUBSET Gpu /\ job \in Gpu \cup {NoGpu}
    BY DEF OverviewInit
  <2>3. QED
    BY <1>2, <1>3, <2>1, <2>2 DEF OneMoment
<1>8. QED
  BY <1>3, <1>6, <1>7 DEF IInvOverview

\* A change of the platform before the first answer or after the last.
LEMMA ChangeStep ==
  ASSUME IInvOverview, Change, Platform(owners, fleet, job)'
  PROVE  IInvOverview'
<1> USE DEF IInvOverview
<1>1. /\ parts' = parts /\ shown' = shown
      /\ moved' = (moved \/ (\E p, q \in Part : parts[p] # Pending /\ Unfinished(q)))
  BY Zenon DEF Change
<1>2. changes' \in 0 .. MaxChanges
  BY OverviewBounds DEF Change, OverviewTypeOK
<1>3. /\ owners' \subseteq Gpu /\ DOMAIN fleet' \subseteq Gpu
      /\ job' \in Gpu \cup {NoGpu} /\ fleet' \in Fleets
      /\ \A g \in DOMAIN fleet' : fleet'[g] \in Status
  BY DEF Platform, Fleets
<1>4. OverviewTypeOK'
  BY <1>1, <1>2, <1>3 DEF OverviewTypeOK
<1>5. OneMoment'
  <2> SUFFICES ASSUME ~moved'
               PROVE  \E o \in SUBSET Gpu, f \in Fleets, j \in Gpu \cup {NoGpu} :
                        Platform(o, f, j) /\ Snapshot(o, f, j)'
    BY DEF OneMoment, Platform
  <2>1. ~moved /\ ~ \E p, q \in Part : parts[p] # Pending /\ Unfinished(q)
    BY <1>1, Zenon
  <2>2. CASE \A p \in Part : parts[p] = Pending
    <3> PICK o, f, j : o = owners' /\ f = fleet' /\ j = job'
      OBVIOUS
    <3>1. \A p \in Part : parts'[p].state = "pending"
      BY <1>1, <2>2 DEF Pending
    <3>2. Snapshot(o, f, j)'
      BY <3>1 DEF Snapshot, Read, Part
    <3>3. Platform(o, f, j)
      BY DEF Platform
    <3>4. QED
      BY <1>3, <3>2, <3>3
  <2>3. CASE \A p \in Part : ~Unfinished(p)
    <3>1. PICK o \in SUBSET Gpu, f \in Fleets, j \in Gpu \cup {NoGpu} :
            Platform(o, f, j) /\ Snapshot(o, f, j)
      BY <2>1 DEF OneMoment
    <3>2. Snapshot(o, f, j)'
      BY <1>1, <2>3, <3>1 DEF Snapshot, Read, Unfinished
    <3>3. QED
      BY <3>1, <3>2
  <2>4. QED
    BY <2>1, <2>2, <2>3
<1>6. QED
  BY <1>4, <1>5

\* What comes of a query is of the platform at that moment.
LEMMA AnswersStep ==
  ASSUME IInvOverview, NEW p \in Part,
         \/ ReadPart(p) \/ PartFails(p)
         \/ p = "stats" /\ (CountGpus \/ CountOnline)
  PROVE  IInvOverview'
<1> USE DEF IInvOverview
<1>1. Unfinished(p) /\ UNCHANGED <<owners, fleet, job, changes, shown, moved>>
  BY DEF ReadPart, PartFails, CountGpus, CountOnline, Unfinished, Pending
<1>2. PICK a :
        /\ parts' = [parts EXCEPT ![p] = a] /\ a.state \in {"counting", "read", "failed"}
        /\ a.state = "counting" => p = "stats" /\ a.total = Cardinality(DOMAIN fleet)
        /\ a.state = "read" =>
             /\ p = "stats" => /\ parts[p].state = "counting" /\ a.total = parts[p].total
                               /\ a.online = Cardinality(OnlineIn(fleet))
             /\ p = "gpus" => a.list = fleet
             /\ p = "jobs" => a.gpu = job
             /\ p = "users" => a.list = owners
  <2>1. CASE PartFails(p)
    <3> PICK a : a = Failed
      OBVIOUS
    <3>1. parts' = [parts EXCEPT ![p] = a] /\ a.state = "failed"
      BY <2>1 DEF PartFails, Failed
    <3>2. QED
      BY <3>1
  <2>2. CASE p = "stats" /\ CountGpus
    <3> PICK a : a = [state |-> "counting", total |-> Cardinality(DOMAIN fleet)]
      OBVIOUS
    <3>1. parts' = [parts EXCEPT ![p] = a]
      BY <2>2 DEF CountGpus
    <3>2. a.state = "counting" /\ a.total = Cardinality(DOMAIN fleet)
      OBVIOUS
    <3>3. QED
      BY <2>2, <3>1, <3>2
  <2>6. CASE p = "stats" /\ CountOnline
    <3> PICK a : a = [state |-> "read", total |-> parts["stats"].total,
                      online |-> Cardinality(OnlineIn(fleet))]
      OBVIOUS
    <3>1. parts' = [parts EXCEPT ![p] = a] /\ parts[p].state = "counting"
      BY <2>6 DEF CountOnline
    <3>2. /\ a.state = "read" /\ a.total = parts["stats"].total
          /\ a.online = Cardinality(OnlineIn(fleet))
      OBVIOUS
    <3>3. QED
      BY <2>6, <3>1, <3>2
  <2>3. CASE ReadPart(p) /\ p = "gpus"
    <3> PICK a : a = [state |-> "read", list |-> fleet]
      OBVIOUS
    <3>1. parts' = [parts EXCEPT ![p] = a]
      BY <2>3 DEF ReadPart
    <3>2. a.state = "read" /\ a.list = fleet
      OBVIOUS
    <3>3. QED
      BY <2>3, <3>1, <3>2
  <2>4. CASE ReadPart(p) /\ p = "jobs"
    <3> PICK a : a = [state |-> "read", gpu |-> job]
      OBVIOUS
    <3>1. parts' = [parts EXCEPT ![p] = a]
      BY <2>4 DEF ReadPart
    <3>2. a.state = "read" /\ a.gpu = job
      OBVIOUS
    <3>3. QED
      BY <2>4, <3>1, <3>2
  <2>5. CASE ReadPart(p) /\ p = "users"
    <3> PICK a : a = [state |-> "read", list |-> owners]
      OBVIOUS
    <3>1. parts' = [parts EXCEPT ![p] = a]
      BY <2>5 DEF ReadPart
    <3>2. a.state = "read" /\ a.list = owners
      OBVIOUS
    <3>3. QED
      BY <2>5, <3>1, <3>2
  <2>7. QED
    BY <2>1, <2>2, <2>3, <2>4, <2>5, <2>6 DEF Part, ReadPart
<1>3. parts'[p] = a /\ DOMAIN parts' = Part /\ \A q \in Part : q # p => parts'[q] = parts[q]
  BY <1>2 DEF OverviewTypeOK
<1>5. OverviewTypeOK'
  BY <1>1, <1>2, <1>3 DEF OverviewTypeOK
<1>6. OneMoment'
  <2> SUFFICES ASSUME ~moved
               PROVE  OneMoment'
    BY <1>1 DEF OneMoment
  <2>1. PICK o \in SUBSET Gpu, f \in Fleets, j \in Gpu \cup {NoGpu} :
          Platform(o, f, j) /\ Snapshot(o, f, j)
    BY DEF OneMoment
  <2>2. o = owners /\ f = fleet /\ j = job
    BY <1>1, <2>1, Zenon DEF Snapshot
  <2>3. ASSUME NEW q \in Part, q # p
        PROVE  parts'[q] = parts[q]
    BY <1>3, <2>3
  <2>4. /\ parts'["stats"].state \in {"counting", "read"} =>
             parts'["stats"].total = Cardinality(DOMAIN f)
        /\ Read("stats")' => parts'["stats"].online = Cardinality(OnlineIn(f))
    BY <1>2, <1>3, <2>1, <2>2 DEF Snapshot, Read, Part
  <2>5. Read("gpus")' => parts'["gpus"].list = f
    BY <1>2, <1>3, <2>1, <2>2 DEF Snapshot, Read, Part
  <2>6. Read("jobs")' => parts'["jobs"].gpu = j
    BY <1>2, <1>3, <2>1, <2>2 DEF Snapshot, Read, Part
  <2>7. Read("users")' => parts'["users"].list = o
    BY <1>2, <1>3, <2>1, <2>2 DEF Snapshot, Read, Part
  <2>8. Snapshot(o, f, j)'
    BY <1>1, <2>2, <2>4, <2>5, <2>6, <2>7 DEF Snapshot
  <2>9. QED
    BY <2>1, <2>8 DEF OneMoment, Platform
<1>7. QED
  BY <1>1, <1>5, <1>6 DEF Platform

LEMMA OverviewStep == IInvOverview /\ [OverviewNext]_overviewVars => IInvOverview'
<1> SUFFICES ASSUME IInvOverview, [OverviewNext]_overviewVars
             PROVE  IInvOverview'
  OBVIOUS
<1>1. /\ owners \in SUBSET Gpu /\ fleet \in [DOMAIN fleet -> Status] /\ DOMAIN fleet \subseteq owners
      /\ job \in DOMAIN fleet \cup {NoGpu}
  BY DEF IInvOverview, Platform, Fleets
<1>2. ASSUME NEW g \in Gpu, OwnerRegisters(g)
      PROVE  IInvOverview'
  <2>1. Platform(owners, fleet, job)'
    BY <1>1, <1>2, FleetIs DEF OwnerRegisters, Platform
  <2>2. QED
    BY <1>2, <2>1, ChangeStep DEF OwnerRegisters
<1>3. ASSUME NEW g \in Gpu, GpuRegisters(g)
      PROVE  IInvOverview'
  <2>1. fleet' \in [DOMAIN fleet \cup {g} -> Status] /\ g \in owners
        /\ owners' = owners /\ job' = job
    BY <1>1, <1>3 DEF GpuRegisters, Status
  <2>2. Platform(owners, fleet, job)'
    BY <1>1, <2>1, FleetIs DEF Platform
  <2>3. QED
    BY <1>3, <2>2, ChangeStep DEF GpuRegisters
<1>4. ASSUME NEW g \in Gpu, NEW status \in Status, GpuChanges(g, status)
      PROVE  IInvOverview'
  <2>1. fleet' \in [DOMAIN fleet -> Status] /\ owners' = owners /\ job' = job
    BY <1>1, <1>4 DEF GpuChanges
  <2>2. Platform(owners, fleet, job)'
    BY <1>1, <2>1, FleetIs DEF Platform
  <2>3. QED
    BY <1>4, <2>2, ChangeStep DEF GpuChanges
<1>5. ASSUME NEW g \in Gpu, JobMatched(g)
      PROVE  IInvOverview'
  <2>1. Platform(owners, fleet, job)'
    BY <1>1, <1>5, FleetIs DEF JobMatched, Platform
  <2>2. QED
    BY <1>5, <2>1, ChangeStep DEF JobMatched
<1>6. CASE ShowAll \/ UNCHANGED overviewVars
  <2>1. UNCHANGED <<owners, fleet, job, changes, parts, moved>> /\ shown' \in BOOLEAN
    BY <1>6 DEF ShowAll, overviewVars, IInvOverview, OverviewTypeOK
  <2>2. OverviewTypeOK'
    BY <2>1 DEF IInvOverview, OverviewTypeOK
  <2>3. Platform(owners, fleet, job)'
    BY <2>1 DEF IInvOverview, Platform
  <2>4. OneMoment'
    BY <2>1 DEF IInvOverview, OneMoment, Platform, Snapshot, Read, Unfinished
  <2>5. QED
    BY <2>2, <2>3, <2>4 DEF IInvOverview
<1>7. QED
  BY <1>2, <1>3, <1>4, <1>5, <1>6, AnswersStep DEF OverviewNext, Part

\* What the page joins is of one platform.
LEMMA OverviewHolds == IInvOverview => OverviewAgrees
<1> SUFFICES ASSUME IInvOverview, shown, ~moved
             PROVE  OverviewAgrees
  BY DEF OverviewAgrees
<1>1. PICK o \in SUBSET Gpu, f \in Fleets, j \in Gpu \cup {NoGpu} :
        Platform(o, f, j) /\ Snapshot(o, f, j)
  BY DEF IInvOverview, OneMoment
<1>2. /\ Came("gpus") => parts["gpus"].list = f /\ Rows = DOMAIN f
      /\ ~Came("gpus") => Rows = {}
  BY <1>1 DEF Came, Rows, Snapshot, Read
<1>3. Came("users") => \A g \in DOMAIN f : OwnerShown(g) = g
  BY <1>1 DEF Came, OwnerShown, Snapshot, Read, Platform
<1>4. JobRow \in {j, NoGpu} /\ j \in DOMAIN f \cup {NoGpu}
  BY <1>1 DEF JobRow, Came, Snapshot, Read, Platform
<1>5. Came("gpus") => GpuOfJob = JobRow
  BY <1>2, <1>4 DEF GpuOfJob
<1>6. Came("stats") /\ Came("gpus") =>
        Cards = <<Cardinality(Rows), Cardinality(OnlineIn(parts["gpus"].list))>>
  BY <1>1, <1>2 DEF Cards, Came, Snapshot, Read
<1>7. Came("users") => \A g \in Rows : g \in GpusOwned(OwnerShown(g))
  BY <1>2, <1>3 DEF GpusOwned
<1>8. Came("gpus") => \A g \in Rows : JobListed(g) = (GpuOfJob = g)
  BY <1>5 DEF JobListed
<1>9. Came("gpus") /\ Came("users") => ProviderOfJob = JobRow
  BY <1>2, <1>3, <1>4, <1>5 DEF ProviderOfJob
<1>10. QED
  BY <1>5, <1>6, <1>7, <1>8, <1>9 DEF OverviewAgrees

\* Unless the platform changed between the requests of load, what the page joins
\* agrees (AdminDashboard over admin_stats and the three lists).
THEOREM OverviewReadsTrue == OverviewSpec => []OverviewAgrees
BY OverviewStart, OverviewStep, OverviewHolds, PTL DEF OverviewSpec

-----------------------------------------------------------------------------
(* The settings' tab (AdminSettings).                                      *)

\* Saves that do not overlap are one, and what it read of the limit is true.
SavesApart ==
  ~ raced =>
    /\ settings.limit = lastSaved
    /\ \A w, x \in Window : saving[w] # Nobody /\ saving[x] # Nobody => w = x
    /\ \A w \in Window : saving[w] # Nobody /\ saving[w].saw # Nobody /\ saving[w].saw.exists =>
         saving[w].saw.limit = settings.limit

\* A release p whose file is stored: the row is whole but for p's version, and
\* what p read of the columns it writes is true.
Stored(p) ==
  /\ objects[p.version] = p.id
  /\ settings.version \notin {Nobody, p.version} => objects[settings.version] = settings.notes
  /\ p.saw # Nobody /\ p.saw.exists =>
       p.saw.version = settings.version /\ p.saw.notes = settings.notes

\* Releases that neither overlap nor stop half way are one, and while it has not
\* stored its file the row is whole.
ReleasesApart ==
  ~ tangled =>
    /\ \A w, x \in Window : publishing[w] # Nobody /\ publishing[x] # Nobody => w = x
    /\ \A w \in Window : publishing[w] # Nobody /\ publishing[w].saw # Nobody =>
         publishing[w].stored
    /\ \A w \in Window : publishing[w] # Nobody /\ publishing[w].stored => Stored(publishing[w])
    /\ (\A w \in Window : publishing[w] # Nobody => ~ publishing[w].stored) =>
         (settings.version # Nobody => objects[settings.version] = settings.notes)

IInvSettings == SettingsTypeOK /\ SavesApart /\ ReleasesApart


\* What the commits make of a row.
Inserted(old) == [old EXCEPT !.exists = TRUE]
WithLimit(old, l) == [old EXCEPT !.exists = TRUE, !.limit = l]
WithRelease(old, v, n) == [old EXCEPT !.exists = TRUE, !.version = v, !.notes = n]

LEMMA InsertedIs ==
  ASSUME NEW old \in SettingsRow
  PROVE  /\ Inserted(old) \in SettingsRow /\ Inserted(old).exists
         /\ Inserted(old).limit = old.limit
         /\ Inserted(old).version = old.version /\ Inserted(old).notes = old.notes
BY DEF SettingsRow, Inserted

LEMMA WithLimitIs ==
  ASSUME NEW old \in SettingsRow, NEW l \in Limit
  PROVE  /\ WithLimit(old, l) \in SettingsRow /\ WithLimit(old, l).exists
         /\ WithLimit(old, l).limit = l
         /\ WithLimit(old, l).version = old.version /\ WithLimit(old, l).notes = old.notes
BY DEF SettingsRow, WithLimit

\* What storing its file makes of a release.
WithFile(p) == [p EXCEPT !.stored = TRUE]

LEMMA WithFileIs ==
  ASSUME NEW p \in Release
  PROVE  /\ WithFile(p) \in Release /\ WithFile(p).stored /\ WithFile(p).version = p.version
         /\ WithFile(p).id = p.id /\ WithFile(p).saw = p.saw
BY DEF WithFile, Release

LEMMA WithReleaseIs ==
  ASSUME NEW old \in SettingsRow, NEW v \in Version \cup {Nobody}, NEW n \in 0 .. MaxReleases
  PROVE  /\ WithRelease(old, v, n) \in SettingsRow /\ WithRelease(old, v, n).exists
         /\ WithRelease(old, v, n).limit = old.limit
         /\ WithRelease(old, v, n).version = v /\ WithRelease(old, v, n).notes = n
BY DEF SettingsRow, WithRelease

\* The three commits change the row and what they count.
LEMMA CommitsWrite ==
  ASSUME SettingsTypeOK, NEW w \in Window
  PROVE  /\ InsertSettings(w) =>
              /\ settings' \in SettingsRow /\ settings'.exists
              /\ settings'.limit = settings.limit
              /\ settings'.version = settings.version /\ settings'.notes = settings.notes
         /\ CommitLimit(w) =>
              \/ settings' = settings /\ lastSaved' = lastSaved /\ Conflicts(saving[w].saw)
              \/ /\ settings' \in SettingsRow /\ settings'.exists
                 /\ settings'.limit = Column("limit", saving[w].saw, saving[w].to)
                 /\ settings'.version = settings.version /\ settings'.notes = settings.notes
                 /\ lastSaved' = saving[w].to /\ lastSaved' \in Limit
                 /\ ~ Conflicts(saving[w].saw)
         /\ CommitRelease(w) =>
              \/ settings' = settings /\ tangled'
              \/ /\ settings' \in SettingsRow /\ settings'.exists
                 /\ settings'.limit = settings.limit
                 /\ settings'.version =
                      Column("version", publishing[w].saw, publishing[w].version)
                 /\ settings'.notes = Column("notes", publishing[w].saw, publishing[w].id)
                 /\ tangled' = tangled /\ ~ Conflicts(publishing[w].saw)
<1>1. settings \in SettingsRow
  BY DEF SettingsTypeOK
<1>2. ASSUME InsertSettings(w)
      PROVE  /\ settings' \in SettingsRow /\ settings'.exists
             /\ settings'.limit = settings.limit
             /\ settings'.version = settings.version /\ settings'.notes = settings.notes
  <2>1. settings' = Inserted(settings)
    BY <1>2 DEF InsertSettings, Inserted
  <2>2. QED
    BY <1>1, <2>1, InsertedIs
<1>3. ASSUME CommitLimit(w)
      PROVE  \/ settings' = settings /\ lastSaved' = lastSaved /\ Conflicts(saving[w].saw)
             \/ /\ settings' \in SettingsRow /\ settings'.exists
                /\ settings'.limit = Column("limit", saving[w].saw, saving[w].to)
                /\ settings'.version = settings.version /\ settings'.notes = settings.notes
                /\ lastSaved' = saving[w].to /\ lastSaved' \in Limit
                /\ ~ Conflicts(saving[w].saw)
  <2>1. saving[w].to \in Limit
    BY <1>3 DEF CommitLimit, SettingsTypeOK, Save
  <2> PICK l : l = Column("limit", saving[w].saw, saving[w].to)
    OBVIOUS
  <2>2. l \in Limit
    BY <1>1, <2>1 DEF Column, SettingsRow
  <2>3. CASE Conflicts(saving[w].saw)
    BY <1>3, <2>3 DEF CommitLimit
  <2>4. CASE ~ Conflicts(saving[w].saw)
    <3>1. settings' = WithLimit(settings, l) /\ lastSaved' = saving[w].to
      BY <1>3, <2>4 DEF CommitLimit, WithLimit
    <3>2. QED
      BY <1>1, <2>1, <2>2, <2>4, <3>1, WithLimitIs
  <2>5. QED
    BY <2>3, <2>4
<1>4. ASSUME CommitRelease(w)
      PROVE  \/ settings' = settings /\ tangled'
             \/ /\ settings' \in SettingsRow /\ settings'.exists
                /\ settings'.limit = settings.limit
                /\ settings'.version =
                     Column("version", publishing[w].saw, publishing[w].version)
                /\ settings'.notes = Column("notes", publishing[w].saw, publishing[w].id)
                /\ tangled' = tangled /\ ~ Conflicts(publishing[w].saw)
  <2>1. publishing[w].version \in Version /\ publishing[w].id \in 0 .. MaxReleases
    BY <1>4, SettingsBounds DEF CommitRelease, SettingsTypeOK, Release
  <2> PICK v : v = Column("version", publishing[w].saw, publishing[w].version)
    OBVIOUS
  <2> PICK n : n = Column("notes", publishing[w].saw, publishing[w].id)
    OBVIOUS
  <2>2. v \in Version \cup {Nobody} /\ n \in 0 .. MaxReleases
    BY <1>1, <2>1 DEF Column, SettingsRow
  <2>3. CASE Conflicts(publishing[w].saw)
    BY <1>4, <2>3 DEF CommitRelease
  <2>4. CASE ~ Conflicts(publishing[w].saw)
    <3>1. settings' = WithRelease(settings, v, n) /\ tangled' = tangled
      BY <1>4, <2>4 DEF CommitRelease, ReleasedRow, WithRelease
    <3>2. QED
      BY <1>1, <2>2, <2>4, <3>1, WithReleaseIs
  <2>5. QED
    BY <2>3, <2>4
<1>5. QED
  BY <1>2, <1>3, <1>4

LEMMA SettingsStart == SettingsInit => IInvSettings
<1> SUFFICES ASSUME SettingsInit PROVE IInvSettings
  OBVIOUS
<1>1. settings \in SettingsRow /\ settings.limit = Default /\ settings.version = Nobody
  BY SettingsBounds DEF SettingsInit, SettingsRow, Limit
<1>2. /\ objects \in [Version -> 0..MaxReleases]
      /\ asking \in [Window -> {"sent", "missing", "done"}]
      /\ releases \in 0..MaxReleases /\ savedLimits \in 0..MaxSaves
      /\ failures \in 0..MaxFailures
  BY SettingsBounds DEF SettingsInit
<1>3. /\ saving = [w \in Window |-> Nobody] /\ publishing = [w \in Window |-> Nobody]
      /\ lastSaved = Default /\ raced = FALSE /\ tangled = FALSE
  BY DEF SettingsInit
<1>4. SettingsTypeOK
  BY <1>1, <1>2, <1>3 DEF SettingsTypeOK, Limit
<1>5. QED
  BY <1>1, <1>3, <1>4 DEF IInvSettings, SavesApart, ReleasesApart

LEMMA SettingsTypes ==
  ASSUME SettingsTypeOK, [SettingsNext]_settingsVars
  PROVE  SettingsTypeOK'
<1> USE SettingsBounds DEF SettingsTypeOK, Save, Release
<1>1. CASE UNCHANGED settingsVars
  BY <1>1 DEF settingsVars
<1>2. ASSUME NEW w \in Window, ReadSettings(w) \/ SettingsFail(w)
      PROVE  SettingsTypeOK'
  BY <1>2 DEF ReadSettings, SettingsFail, Failure
<1>3. ASSUME NEW w \in Window, InsertSettings(w)
      PROVE  SettingsTypeOK'
  BY <1>3, CommitsWrite DEF InsertSettings
<1>4. ASSUME NEW w \in Window, NEW typed \in Limit \cup {Blank}, SaveLimit(w, typed)
      PROVE  SettingsTypeOK'
  <2>1. [to |-> Sent(typed), saw |-> Nobody] \in [to : Limit, saw : {Nobody} \cup SettingsRow]
    BY DEF Sent, Limit
  <2>2. QED
    BY <1>4, <2>1 DEF SaveLimit
<1>5. ASSUME NEW w \in Window, ReadLimit(w)
      PROVE  SettingsTypeOK'
  BY <1>5 DEF ReadLimit
<1>6. ASSUME NEW w \in Window, CommitLimit(w)
      PROVE  SettingsTypeOK'
  <2>1. settings' \in SettingsRow /\ lastSaved' \in Limit
    BY <1>6, CommitsWrite
  <2>2. QED
    BY <1>6, <2>1 DEF CommitLimit
<1>7. ASSUME NEW w \in Window, NEW v \in Version, Publish(w, v)
      PROVE  SettingsTypeOK'
  BY <1>7 DEF Publish
<1>8. ASSUME NEW w \in Window, StoreFile(w)
      PROVE  SettingsTypeOK'
  <2>1. publishing' \in [Window -> {Nobody} \cup Release]
    BY <1>8 DEF StoreFile
  <2>2. objects' \in [Version -> 0 .. MaxReleases]
    BY <1>8 DEF StoreFile
  <2>3. QED
    BY <1>8, <2>1, <2>2 DEF StoreFile
<1>9. ASSUME NEW w \in Window, StoreFails(w) \/ PublishDies(w)
      PROVE  SettingsTypeOK'
  <2>1. failures' \in 0..MaxFailures
    BY <1>9 DEF StoreFails, PublishDies, Failure
  <2>2. tangled' \in BOOLEAN
    BY <1>9 DEF StoreFails, PublishDies
  <2>3. QED
    BY <1>9, <2>1, <2>2 DEF StoreFails, PublishDies
<1>10. ASSUME NEW w \in Window, ReadRelease(w)
      PROVE  SettingsTypeOK'
  BY <1>10 DEF ReadRelease
<1>11. ASSUME NEW w \in Window, CommitRelease(w)
      PROVE  SettingsTypeOK'
  <2>1. settings' \in SettingsRow /\ tangled' \in BOOLEAN
    BY <1>11, CommitsWrite DEF CommitRelease
  <2>2. QED
    BY <1>11, <2>1 DEF CommitRelease
<1>12. QED
  BY <1>1, <1>2, <1>3, <1>4, <1>5, <1>6, <1>7, <1>8, <1>9, <1>10, <1>11 DEF SettingsNext

\* Of the steps, three write the limit or what a save read of it; ...
LEMMA SavesStep ==
  ASSUME SettingsTypeOK, SavesApart, [SettingsNext]_settingsVars
  PROVE  SavesApart'
<1>1. ASSUME UNCHANGED <<settings, saving, lastSaved, raced>>
      PROVE  SavesApart'
  BY <1>1 DEF SavesApart
<1>2. ASSUME NEW w \in Window, InsertSettings(w)
      PROVE  SavesApart'
  <2>1. settings'.limit = settings.limit /\ UNCHANGED <<saving, lastSaved, raced>>
    BY <1>2, CommitsWrite DEF InsertSettings
  <2>2. QED
    BY <2>1 DEF SavesApart
<1>3. ASSUME NEW w \in Window, NEW typed \in Limit \cup {Blank}, SaveLimit(w, typed)
      PROVE  SavesApart'
  <2> DEFINE s == [to |-> Sent(typed), saw |-> Nobody]
  <2>1. /\ saving' = [saving EXCEPT ![w] = s] /\ s.saw = Nobody
        /\ UNCHANGED <<settings, lastSaved>>
        /\ ~ raced' => ~ raced /\ \A x \in Window : saving[x] = Nobody
    BY <1>3 DEF SaveLimit
  <2> HIDE DEF s
  <2>2. saving'[w] = s /\ \A x \in Window : x # w => saving'[x] = saving[x]
    BY <2>1 DEF SettingsTypeOK
  <2>3. QED
    BY <2>1, <2>2 DEF SavesApart
<1>4. ASSUME NEW w \in Window, ReadLimit(w)
      PROVE  SavesApart'
  <2> DEFINE s == [saving[w] EXCEPT !.saw = settings]
  <2>1. /\ saving' = [saving EXCEPT ![w] = s] /\ saving[w] # Nobody
        /\ UNCHANGED <<settings, lastSaved, raced>>
    BY <1>4 DEF ReadLimit
  <2>2. s.saw = settings
    BY <2>1 DEF SettingsTypeOK
  <2> HIDE DEF s
  <2>3. saving'[w] = s /\ \A x \in Window : x # w => saving'[x] = saving[x]
    BY <2>1 DEF SettingsTypeOK
  <2>4. QED
    BY <2>1, <2>2, <2>3 DEF SavesApart
<1>5. ASSUME NEW w \in Window, CommitLimit(w)
      PROVE  SavesApart'
  <2>1. /\ saving[w] # Nobody /\ saving[w].saw # Nobody
        /\ saving' = [saving EXCEPT ![w] = Nobody] /\ raced' = raced
    BY <1>5 DEF CommitLimit
  <2>2. saving'[w] = Nobody /\ \A x \in Window : x # w => saving'[x] = saving[x]
    BY <2>1 DEF SettingsTypeOK
  <2>3. ~ raced => \A x \in Window : saving'[x] = Nobody
    BY <2>1, <2>2 DEF SavesApart
  <2>4. ~ raced => settings'.limit = lastSaved'
    <3>1. CASE settings' = settings /\ lastSaved' = lastSaved
      BY <3>1 DEF SavesApart
    <3>2. CASE /\ settings'.limit = Column("limit", saving[w].saw, saving[w].to)
               /\ lastSaved' = saving[w].to
      <4>1. ~ raced /\ saving[w].saw.exists => saving[w].saw.limit = settings.limit
        BY <2>1 DEF SavesApart
      <4>2. QED
        BY <3>2, <4>1 DEF Column, Inserts
    <3>3. QED
      BY <1>5, <3>1, <3>2, CommitsWrite
  <2>5. QED
    BY <2>1, <2>3, <2>4 DEF SavesApart
<1>6. ASSUME NEW w \in Window, CommitRelease(w)
      PROVE  SavesApart'
  <2>1. settings'.limit = settings.limit /\ UNCHANGED <<saving, lastSaved, raced>>
    BY <1>6, CommitsWrite DEF CommitRelease
  <2>2. QED
    BY <2>1 DEF SavesApart
<1>7. QED
  BY <1>1, <1>2, <1>3, <1>4, <1>5, <1>6
  DEF SettingsNext, settingsVars, ReadSettings, SettingsFail, Publish, StoreFile, StoreFails,
      ReadRelease, PublishDies

\* ... and six the release's columns, its file, or what a release read of them.
LEMMA ReleasesStep ==
  ASSUME SettingsTypeOK, ReleasesApart, [SettingsNext]_settingsVars
  PROVE  ReleasesApart'
<1>1. ASSUME UNCHANGED <<publishing, objects, tangled>>,
             settings'.version = settings.version, settings'.notes = settings.notes
      PROVE  ReleasesApart'
  BY <1>1 DEF ReleasesApart, Stored
<1>2. ASSUME NEW w \in Window, NEW v \in Version, Publish(w, v)
      PROVE  ReleasesApart'
  <2> DEFINE p == [id |-> releases + 1, version |-> v, stored |-> FALSE, saw |-> Nobody]
  <2>1. /\ publishing' = [publishing EXCEPT ![w] = p] /\ ~ p.stored /\ p.saw = Nobody
        /\ UNCHANGED <<settings, objects>>
        /\ ~ tangled' => ~ tangled /\ \A x \in Window : publishing[x] = Nobody
    BY <1>2 DEF Publish
  <2> HIDE DEF p
  <2>2. publishing'[w] = p /\ \A x \in Window : x # w => publishing'[x] = publishing[x]
    BY <2>1 DEF SettingsTypeOK
  <2>3. QED
    BY <2>1, <2>2 DEF ReleasesApart
<1>3. ASSUME NEW w \in Window, StoreFile(w)
      PROVE  ReleasesApart'
  <2> PICK p : p = publishing[w]
    OBVIOUS
  <2>1. /\ p # Nobody /\ ~ p.stored /\ publishing' = [publishing EXCEPT ![w] = WithFile(p)]
        /\ objects' = [objects EXCEPT ![p.version] = p.id]
        /\ UNCHANGED <<settings, tangled>>
    BY <1>3 DEF StoreFile, WithFile
  <2> PICK q : q = WithFile(p)
    OBVIOUS
  <2>2. /\ q.stored /\ q.version = p.version /\ q.id = p.id /\ q.saw = p.saw
        /\ p.version \in Version /\ q # Nobody
    <3>1. p \in Release
      BY <2>1 DEF SettingsTypeOK
    <3>2. q \in Release
      BY <3>1, WithFileIs
    <3>3. QED
      BY <3>1, <3>2, WithFileIs, NobodyIsNone DEF Release
  <2>3. publishing'[w] = q /\ \A x \in Window : x # w => publishing'[x] = publishing[x]
    BY <2>1 DEF SettingsTypeOK
  <2>4. \A v \in Version : objects'[v] = IF v = p.version THEN p.id ELSE objects[v]
    BY <2>1 DEF SettingsTypeOK
  <2>5. settings.version \in Version \cup {Nobody}
    BY DEF SettingsTypeOK, SettingsRow
  <2>6. ASSUME ~ tangled
        PROVE  Stored(q)'
    <3>1. \A x \in Window : publishing[x] # Nobody => ~ publishing[x].stored
      BY <2>1, <2>6 DEF ReleasesApart
    <3>2. settings.version # Nobody => objects[settings.version] = settings.notes
      BY <2>6, <3>1 DEF ReleasesApart
    <3>3. p.saw = Nobody
      BY <2>1, <2>6 DEF ReleasesApart
    <3>4. QED
      BY <2>1, <2>2, <2>4, <2>5, <3>2, <3>3 DEF Stored
  <2>7. ~ tangled => \A x \in Window : publishing'[x] # Nobody => x = w
    BY <2>1, <2>3 DEF ReleasesApart
  <2>8. ~ tangled => Stored(publishing[w])'
    BY <2>3, <2>6 DEF Stored
  <2>9. QED
    BY <2>1, <2>2, <2>3, <2>7, <2>8 DEF ReleasesApart
<1>4. ASSUME NEW w \in Window, StoreFails(w)
      PROVE  ReleasesApart'
  <2>1. /\ publishing[w] # Nobody /\ ~ publishing[w].stored
        /\ publishing' = [publishing EXCEPT ![w] = Nobody]
        /\ UNCHANGED <<settings, objects, tangled>>
    BY <1>4 DEF StoreFails
  <2>2. publishing'[w] = Nobody /\ \A x \in Window : x # w => publishing'[x] = publishing[x]
    BY <2>1 DEF SettingsTypeOK
  <2>3. QED
    BY <2>1, <2>2 DEF ReleasesApart
<1>5. ASSUME NEW w \in Window, ReadRelease(w)
      PROVE  ReleasesApart'
  <2> PICK p : p = publishing[w]
    OBVIOUS
  <2> PICK q : q = [p EXCEPT !.saw = settings]
    OBVIOUS
  <2>1. /\ p # Nobody /\ p.stored /\ publishing' = [publishing EXCEPT ![w] = q]
        /\ UNCHANGED <<settings, objects, tangled>>
    BY <1>5 DEF ReadRelease
  <2>2. /\ q.stored /\ q.version = p.version /\ q.id = p.id /\ q.saw = settings
        /\ q # Nobody
    <3>1. p \in Release /\ settings \in SettingsRow
      BY <2>1 DEF SettingsTypeOK
    <3>2. q \in Release
      BY <3>1 DEF Release
    <3>3. QED
      BY <2>1, <3>1, <3>2, NobodyIsNone DEF Release
  <2>3. publishing'[w] = q /\ \A x \in Window : x # w => publishing'[x] = publishing[x]
    BY <2>1 DEF SettingsTypeOK
  <2>4. ASSUME ~ tangled
        PROVE  Stored(q)'
    BY <2>1, <2>2, <2>4 DEF ReleasesApart, Stored
  <2>5. ~ tangled => \A x \in Window : publishing'[x] # Nobody => x = w
    BY <2>1, <2>3 DEF ReleasesApart
  <2>6. ~ tangled => Stored(publishing[w])'
    BY <2>3, <2>4 DEF Stored
  <2>7. QED
    BY <2>1, <2>2, <2>3, <2>5, <2>6 DEF ReleasesApart
<1>6. ASSUME NEW w \in Window, CommitRelease(w)
      PROVE  ReleasesApart'
  <2> DEFINE p == publishing[w]
  <2>1. /\ p # Nobody /\ p.saw # Nobody
        /\ publishing' = [publishing EXCEPT ![w] = Nobody] /\ objects' = objects
    BY <1>6 DEF CommitRelease
  <2>2. publishing'[w] = Nobody /\ \A x \in Window : x # w => publishing'[x] = publishing[x]
    BY <2>1 DEF SettingsTypeOK
  <2>3. CASE tangled'
    BY <2>3 DEF ReleasesApart
  <2>4. CASE ~ tangled'
    <3>1. /\ tangled' = tangled
          /\ settings'.version = Column("version", p.saw, p.version)
          /\ settings'.notes = Column("notes", p.saw, p.id)
      BY <1>6, <2>4, CommitsWrite
    <3>2. p.stored
      BY <2>1, <2>4, <3>1 DEF ReleasesApart
    <3>3. QED
      BY <2>1, <2>2, <2>4, <3>1, <3>2 DEF ReleasesApart, Stored, Column, Inserts
  <2>5. QED
    BY <2>3, <2>4
<1>7. ASSUME NEW w \in Window, PublishDies(w)
      PROVE  ReleasesApart'
  <2>1. tangled'
    BY <1>7 DEF PublishDies
  <2>2. QED
    BY <2>1 DEF ReleasesApart
<1>8. ASSUME NEW w \in Window, InsertSettings(w) \/ CommitLimit(w)
      PROVE  ReleasesApart'
  <2>1. UNCHANGED <<publishing, objects, tangled>>
    BY <1>8 DEF InsertSettings, CommitLimit
  <2>2. settings'.version = settings.version /\ settings'.notes = settings.notes
    BY <1>8, CommitsWrite
  <2>3. QED
    BY <1>1, <2>1, <2>2
<1>9. ASSUME NEW w \in Window, NEW typed \in Limit \cup {Blank},
             ReadSettings(w) \/ SettingsFail(w) \/ SaveLimit(w, typed) \/ ReadLimit(w)
      PROVE  ReleasesApart'
  BY <1>1, <1>9 DEF ReadSettings, SettingsFail, SaveLimit, ReadLimit
<1>10. CASE UNCHANGED settingsVars
  BY <1>1, <1>10 DEF settingsVars
<1>11. QED
  BY <1>2, <1>3, <1>4, <1>5, <1>6, <1>7, <1>8, <1>9, <1>10 DEF SettingsNext

LEMMA SettingsStep == IInvSettings /\ [SettingsNext]_settingsVars => IInvSettings'
BY SettingsTypes, SavesStep, ReleasesStep DEF IInvSettings

LEMMA SettingsHold == IInvSettings => SettingsKept
BY DEF IInvSettings, SavesApart, ReleasesApart, SettingsKept, SavedLimitHolds, ReleaseIsWhole

\* Neither of the two requests that share the row of system_settings undoes the
\* other's columns (update_system_settings, upload_agent_release).
THEOREM SettingsAreKept == SettingsSpec => []SettingsKept
BY SettingsStart, SettingsStep, SettingsHold, PTL DEF SettingsSpec

-----------------------------------------------------------------------------
(* The page that is mounted (MCAccountPages).                              *)

IInvPages ==
  /\ page \in Page
  /\ IInvMail /\ IInv2FA /\ IInvPlaces /\ IInvProfile
  /\ IInvUsers /\ IInvOverview /\ IInvSettings

\* A step is one of the page that is mounted.
LEMMA OnePageSteps ==
  ASSUME [Next]_pagesVars
  PROVE  /\ page' = page
         /\ [MailNext]_mailVars /\ [Next2FA]_vars2fa /\ [PlaceNext]_placeVars
         /\ [ProfileNext]_profileVars /\ [AdminNext]_adminVars
         /\ [OverviewNext]_overviewVars /\ [SettingsNext]_settingsVars
BY DEF Next, pagesVars

LEMMA InvariantPages == PagesSpec => []IInvPages
<1>1. Init => IInvPages
  BY MailStart, Start2FA, PlacesStart, ProfileStart, UsersStart, OverviewStart, SettingsStart
  DEF Init, IInvPages
<1>2. IInvPages /\ [Next]_pagesVars => IInvPages'
  BY OnePageSteps, MailStep, Step2FA, PlacesStep, ProfileStep, UsersStep, OverviewStep,
     SettingsStep
  DEF IInvPages
<1>3. QED
  BY <1>1, <1>2, PTL DEF PagesSpec

\* The variables of the page that is mounted keep their types.
THEOREM PagesTypeCorrect == PagesSpec => []PagesTypeOK
<1>1. IInvPages => PagesTypeOK
  BY DEF IInvPages, PagesTypeOK, IInvMail, IInv2FA, IInvPlaces, IInvProfile, IInvUsers,
         IInvOverview, IInvSettings
<1>2. QED
  BY <1>1, InvariantPages, PTL

\* A form sends what the person meant: the place is real (useLocationData), and
\* update_me changes only what was edited, but for the causes named there.
THEOREM FormsMeanIt == PagesSpec => []FormsSendWhatIsMeant
<1>1. IInvPages => FormsSendWhatIsMeant
  BY DEF IInvPages, IInvPlaces, IInvProfile, FormsSendWhatIsMeant
<1>2. QED
  BY <1>1, InvariantPages, PTL

\* The administrator reads what is the case and acts on the user that is named
\* (AdminDashboard over routers/admin.py), but for the causes named there.
THEOREM AdministratorIsToldTrue == PagesSpec => []AdministratorReadsTrue
<1>1. IInvPages => AdministratorReadsTrue
  BY OverviewHolds DEF IInvPages, IInvUsers, AdministratorReadsTrue, AboutTheUserNamed
<1>2. QED
  BY <1>1, InvariantPages, PTL

=============================================================================
