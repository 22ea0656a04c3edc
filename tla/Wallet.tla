------------------------------- MODULE Wallet -------------------------------
(***************************************************************************)
(* Wallets under concurrent requests: the billing of a finished job        *)
(* (services/billing.py charge_client, run inside the transaction of the   *)
(* agent's job_status message), the top-up (routers/wallet.py) and the     *)
(* balance check that admits a new job (routers/jobs.py).                  *)
(*                                                                         *)
(* Every one of them reads a balance with a plain SELECT, computes in      *)
(* Python and lets the ORM write the absolute result: UPDATE wallets SET   *)
(* balance = <value>.  The UPDATE takes PostgreSQL's row lock and keeps it *)
(* to the commit; it waits for another transaction's row lock and then     *)
(* overwrites what that transaction committed.                             *)
(***************************************************************************)
EXTENDS Integers, FiniteSets

CONSTANTS
  User,        \* wallet owners (every user gets a wallet at registration)
  Charge,      \* jobs reported completed, one charge_client call each
  Topup,       \* POST /wallet/topup requests
  Launch,      \* job submissions (submit and rerun)
  None,
  Owner,       \* whose wallet a request debits, tops up or checks
  Payee,       \* Charge -> User: the provider of the job's GPU
  Amount,      \* credits: the job's cost, or the amount bought
  Opening,     \* balances at the start
  Limit,       \* the values an admin gives overdraft_limit
  Floor        \* a lower bound of those limits and of the opening balances

Txn == Charge \cup Topup \cup Launch

ASSUME KindsAssumption ==
  Charge \cap Topup = {} /\ Charge \cap Launch = {} /\ Topup \cap Launch = {}
ASSUME NoneAssumption == None \notin Txn
ASSUME OwnerAssumption == Owner \in [Txn -> User] /\ Payee \in [Charge -> User]
\* charge_client returns early on cost <= 0 and topup refuses amount <= 0.
ASSUME AmountAssumption == Amount \in [Charge \cup Topup -> Nat \ {0}]
ASSUME MoneyAssumption == Opening \in [User -> Int] /\ Limit \subseteq Int
ASSUME FloorAssumption ==
  Floor \in Int /\ (\A l \in Limit : Floor <= l) /\ \A u \in User : Floor <= Opening[u]

VARIABLES
  balance,     \* wallets.balance, committed
  posted,      \* opening balance plus the committed transactions rows
  limit,       \* system_settings.overdraft_limit
  rowLock,     \* the transaction that has updated the wallet row
  pc,
  seen,        \* the owner's balance as the request read it
  seenPayee,   \* the payee's balance as the charge read it
  overwritten  \* history: wallets where a commit replaced a value it never read

money == <<balance, posted, overwritten>>
vars == <<money, limit, rowLock, pc, seen, seenPayee>>

Ended == {"paid", "refused", "toppedUp", "launched", "aborted"}
Waiting == {"update", "credit"}              \* about to UPDATE a wallet row
PC == {"idle", "check", "debited", "commit", "launch"} \cup Waiting \cup Ended

TypeOK ==
  /\ balance \in [User -> Int] /\ posted \in [User -> Int]
  /\ limit \in Limit
  /\ rowLock \in [User -> Txn \cup {None}]
  /\ pc \in [Txn -> PC]
  /\ seen \in [Txn -> Int] /\ seenPayee \in [Charge -> Int]
  /\ overwritten \subseteq User

Init ==
  /\ balance = Opening /\ posted = Opening
  /\ limit \in Limit
  /\ rowLock = [u \in User |-> None]
  /\ pc = [t \in Txn |-> "idle"]
  /\ seen = [t \in Txn |-> 0]
  /\ seenPayee = [c \in Charge |-> 0]
  /\ overwritten = {}

-----------------------------------------------------------------------------
Goto(t, l) == pc' = [pc EXCEPT ![t] = l]

\* The UPDATE of wallet u by t: waits for another transaction's row lock.
LockRow(t, u) ==
  /\ rowLock[u] \in {None, t}
  /\ rowLock' = [rowLock EXCEPT ![u] = t]

\* The end of t's transaction frees its rows.
Release(t) ==
  rowLock' = [u \in User |-> IF rowLock[u] = t THEN None ELSE rowLock[u]]

\* The first read of the owner's wallet.  A top-up and a submission read it
\* while authenticating (User.wallet is loaded with the user, and the later
\* SELECT returns the same object); a submission without credit is refused.
Read(t) ==
  /\ pc[t] = "idle"
  /\ seen' = [seen EXCEPT ![t] = balance[Owner[t]]]
  /\ \/ t \in Charge /\ Goto(t, "check")
     \/ t \in Topup /\ Goto(t, "update")
     \/ t \in Launch /\ Goto(t, IF balance[Owner[t]] <= 0 THEN "refused" ELSE "launch")
  /\ UNCHANGED <<money, limit, rowLock, seenPayee>>

\* Variation: the check compares the balance before the charge.
CheckOverdraftBefore(c) ==
  /\ pc[c] = "check"
  /\ Goto(c, IF seen[c] < limit THEN "refused" ELSE "update")
  /\ UNCHANGED <<money, limit, rowLock, seen, seenPayee>>

\* The overdraft check, with the limit as it is now and the balance as read.
CheckOverdraft(c) ==
  /\ pc[c] = "check"
  /\ Goto(c, IF seen[c] - Amount[c] < limit THEN "refused" ELSE "update")
  /\ UNCHANGED <<money, limit, rowLock, seen, seenPayee>>

\* The flush of the debit (or of the bought credits) and its transactions row.
UpdateOwner(t) ==
  /\ pc[t] = "update"
  /\ LockRow(t, Owner[t])
  /\ Goto(t, IF t \in Charge THEN "debited" ELSE "commit")
  /\ UNCHANGED <<money, limit, seen, seenPayee>>

\* The payee's wallet as the charge sees it: its own debit included.
ReadPayee(c) ==
  /\ pc[c] = "debited"
  /\ seenPayee' = [seenPayee EXCEPT ![c] =
                      IF Payee[c] = Owner[c] THEN seen[c] - Amount[c] ELSE balance[Payee[c]]]
  /\ Goto(c, "credit")
  /\ UNCHANGED <<money, limit, rowLock, seen>>

\* The flush of the credit and its transactions row.
UpdatePayee(c) ==
  /\ pc[c] = "credit"
  /\ LockRow(c, Payee[c])
  /\ Goto(c, "commit")
  /\ UNCHANGED <<money, limit, seen, seenPayee>>

\* Variation: the provider's row is written back without the income.
WrittenNoIncome(t) ==
  IF t \in Topup THEN [balance EXCEPT ![Owner[t]] = seen[t] + Amount[t]]
  ELSE [balance EXCEPT ![Owner[t]] = seen[t] - Amount[t],
                       ![Payee[t]] = seenPayee[t]]

\* What the transaction wrote into the wallet rows it has updated.
Written(t) ==
  IF t \in Topup THEN [balance EXCEPT ![Owner[t]] = seen[t] + Amount[t]]
  ELSE [balance EXCEPT ![Owner[t]] = seen[t] - Amount[t],
                       ![Payee[t]] = seenPayee[t] + Amount[t]]

Posted(t) ==
  IF t \in Topup THEN [posted EXCEPT ![Owner[t]] = @ + Amount[t]]
  ELSE [posted EXCEPT ![Owner[t]] = @ - Amount[t], ![Payee[t]] = @ + Amount[t]]

\* The wallets whose committed balance is not the one t computed from.
LostUnder(t) ==
  {u \in {Owner[t]} : balance[u] # seen[t]} \cup
  (IF t \in Topup THEN {}
   ELSE {u \in {Payee[t]} \ {Owner[t]} : balance[u] # seenPayee[t]})

\* Variation: a charge is flushed and its session never closed.
CommitForgotten(t) ==
  /\ pc[t] = "commit"
  /\ Goto(t, IF t \in Charge THEN "paid" ELSE "toppedUp")
  /\ UNCHANGED <<money, limit, rowLock, seen, seenPayee>>

Commit(t) ==
  /\ pc[t] = "commit"
  /\ balance' = Written(t)
  /\ posted' = Posted(t)
  /\ overwritten' = overwritten \cup LostUnder(t)
  /\ Release(t)
  /\ Goto(t, IF t \in Charge THEN "paid" ELSE "toppedUp")
  /\ UNCHANGED <<limit, seen, seenPayee>>

\* The submission commits its job.
CommitLaunch(l) ==
  /\ pc[l] = "launch"
  /\ Goto(l, "launched")
  /\ UNCHANGED <<money, limit, rowLock, seen, seenPayee>>

\* PATCH /admin/settings
SetLimit(x) ==
  /\ limit' = x
  /\ UNCHANGED <<money, rowLock, pc, seen, seenPayee>>

\* t's UPDATE waits for a row that s has updated.
WaitsFor(t, s) ==
  /\ t # s
  /\ \/ pc[t] = "update" /\ rowLock[Owner[t]] = s
     \/ pc[t] = "credit" /\ rowLock[Payee[t]] = s

Deadlocked(t) ==
  \E S \in SUBSET {s \in Txn : pc[s] \in Waiting} :
    /\ t \in S
    /\ \A s \in S : \E r \in S : WaitsFor(s, r)
    /\ \A s \in S : \E r \in S : WaitsFor(r, s)

\* PostgreSQL aborts one transaction of a cycle; nothing of it remains.
Abort(t) ==
  /\ Deadlocked(t)
  /\ Release(t)
  /\ Goto(t, "aborted")
  /\ UNCHANGED <<money, limit, seen, seenPayee>>

-----------------------------------------------------------------------------
ChargeStep(c) == CheckOverdraft(c) \/ ReadPayee(c) \/ UpdatePayee(c)
TxnStep(t) == UpdateOwner(t) \/ Commit(t) \/ Abort(t)

Next ==
  \/ \E t \in Txn : Read(t) \/ TxnStep(t)
  \/ \E c \in Charge : ChargeStep(c)
  \/ \E l \in Launch : CommitLaunch(l)
  \/ \E x \in Limit : SetLimit(x)

Spec == Init /\ [][Next]_vars

\* A request that has begun is carried on by the event loop and the database.
FairSpec ==
  /\ Spec
  /\ \A t \in Txn : WF_vars(TxnStep(t))
  /\ \A c \in Charge : WF_vars(ChargeStep(c))

-----------------------------------------------------------------------------
(* Properties.                                                             *)

\* No client ever owes more than the lowest overdraft limit that was in force
\* (client_agreement.md "up to -50 Credits"), however the charges, top-ups
\* and limit changes interleave and even where updates are lost.
AboveFloor == \A u \in User : balance[u] >= Floor

\* A wallet on which no commit replaced a value it had not read agrees with
\* its transactions: lost updates are the only way the two can part.
LedgerExact == \A u \in User \ overwritten : balance[u] = posted[u]

\* Only two charges that pay each other's client can deadlock: a top-up never
\* does, nor a charge whose client provides no GPU.
DeadlockIsMutualPayment ==
  \A t \in Txn : Deadlocked(t) =>
    t \in Charge /\ \E c \in Charge \ {t} : Payee[c] = Owner[t]

\* A charge or top-up whose transaction began comes to an end.
Settles ==
  \A t \in Charge \cup Topup : pc[t] # "idle" ~> pc[t] \in Ended
=============================================================================
