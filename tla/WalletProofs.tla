--------------------------- MODULE WalletProofs ---------------------------
(***************************************************************************)
(* Proofs about Wallet for any users, requests, amounts and limits.        *)
(* AboveFloor is inductive once it also speaks of what is in flight        *)
(* (InFlight): every balance that a request has read, and every balance    *)
(* that it is about to write, is already above the floor.  No hypothesis   *)
(* about lost updates is needed: a commit only ever installs a value that  *)
(* was computed from some earlier balance above the floor.                 *)
(***************************************************************************)
EXTENDS Wallet, TLAPS

\* Where a top-up and a submission can stand: neither ever waits for a payee.
KindOK ==
  /\ \A t \in Topup : pc[t] \in {"idle", "update", "commit", "toppedUp", "aborted"}
  /\ \A l \in Launch : pc[l] \in {"idle", "launch", "launched", "refused", "aborted"}

\* Type correctness of the wallets, the row locks and the requests' reads.
THEOREM TypeCorrect == Spec => [](TypeOK /\ KindOK)
  <1> USE NoneAssumption, OwnerAssumption, AmountAssumption, MoneyAssumption
  <1>1. Init => TypeOK /\ KindOK
    BY DEF Init, TypeOK, KindOK, PC, Txn
  <1>2. TypeOK /\ KindOK /\ [Next]_vars => (TypeOK /\ KindOK)'
    <2> SUFFICES ASSUME TypeOK, KindOK, [Next]_vars
                 PROVE  (TypeOK /\ KindOK)'
      OBVIOUS
    <2> USE KindsAssumption
    <2> USE DEF TypeOK, KindOK, PC, Ended, Waiting, Goto, LockRow, Release, money
    <2>1. ASSUME NEW t \in Txn, Read(t)
          PROVE  (TypeOK /\ KindOK)'
      BY <2>1 DEF Read, Txn
    <2>2. ASSUME NEW t \in Txn, UpdateOwner(t)
          PROVE  (TypeOK /\ KindOK)'
      BY <2>2 DEF UpdateOwner, Txn
    <2>3. ASSUME NEW t \in Txn, Commit(t)
          PROVE  (TypeOK /\ KindOK)'
      <3>1. KindOK'
        BY <2>3 DEF Commit, Txn
      <3>2. t \in Charge \/ t \in Topup
        BY <2>3 DEF Commit, Txn
      <3>3. Owner[t] \in User /\ Amount[t] \in Int /\ (t \in Charge => Payee[t] \in User)
        BY <3>2 DEF Txn
      <3>4. Written(t) \in [User -> Int] /\ Posted(t) \in [User -> Int]
        BY <3>2, <3>3 DEF Written, Posted, Txn
      <3>5. LostUnder(t) \subseteq User
        BY <3>2, <3>3 DEF LostUnder
      <3>6. pc' \in [Txn -> PC]
        BY <2>3 DEF Commit
      <3>7. rowLock' \in [User -> Txn \cup {None}]
        BY <2>3 DEF Commit
      <3>8. overwritten' \subseteq User
        BY <2>3, <3>5 DEF Commit
      <3>9. limit' \in Limit /\ seen' = seen /\ seenPayee' = seenPayee
        BY <2>3 DEF Commit
      <3>10. balance' = Written(t) /\ posted' = Posted(t)
        BY <2>3 DEF Commit
      <3>11. TypeOK'
        BY <3>4, <3>6, <3>7, <3>8, <3>9, <3>10
      <3>12. QED
        BY <3>1, <3>11
    <2>4. ASSUME NEW t \in Txn, Abort(t)
          PROVE  (TypeOK /\ KindOK)'
      BY <2>4 DEF Abort, Txn
    <2>5. ASSUME NEW c \in Charge, ChargeStep(c)
          PROVE  (TypeOK /\ KindOK)'
      <3>1. Owner[c] \in User /\ Payee[c] \in User /\ seen[c] - Amount[c] \in Int
        BY DEF Txn
      <3>2. CASE CheckOverdraft(c)
        BY <3>2 DEF CheckOverdraft, Txn
      <3>3. CASE ReadPayee(c)
        <4>1. seenPayee' \in [Charge -> Int]
          BY <3>1, <3>3 DEF ReadPayee
        <4>2. QED
          BY <3>3, <4>1 DEF ReadPayee, Txn
      <3>4. CASE UpdatePayee(c)
        BY <3>1, <3>4 DEF UpdatePayee, Txn
      <3>5. QED
        BY <2>5, <3>2, <3>3, <3>4 DEF ChargeStep
    <2>6. ASSUME NEW l \in Launch, CommitLaunch(l)
          PROVE  (TypeOK /\ KindOK)'
      BY <2>6 DEF CommitLaunch, Txn
    <2>7. ASSUME NEW x \in Limit, SetLimit(x)
          PROVE  (TypeOK /\ KindOK)'
      BY <2>7 DEF SetLimit
    <2>8. CASE UNCHANGED vars
      BY <2>8 DEF vars
    <2>9. QED
      BY <2>1, <2>2, <2>3, <2>4, <2>5, <2>6, <2>7, <2>8 DEF Next, TxnStep
  <1>3. QED
    BY <1>1, <1>2, PTL DEF Spec

-----------------------------------------------------------------------------
\* What is in flight is above the floor already: every balance read, every
\* debit that passed the overdraft check, every payee's balance read.
InFlight ==
  /\ \A t \in Charge \cup Topup :
       pc[t] \in {"check", "update", "debited", "credit", "commit"} => seen[t] >= Floor
  /\ \A c \in Charge :
       pc[c] \in {"update", "debited", "credit", "commit"} => seen[c] - Amount[c] >= Floor
  /\ \A c \in Charge : pc[c] \in {"credit", "commit"} => seenPayee[c] >= Floor

\* No client ever owes more than the lowest overdraft limit ever in force,
\* whatever is lost between concurrent charges and top-ups (charge_client).
THEOREM FloorHolds == Spec => []AboveFloor
  <1> USE OwnerAssumption, AmountAssumption, MoneyAssumption, FloorAssumption
  <1>1. Init => AboveFloor /\ InFlight
    BY DEF Init, AboveFloor, InFlight, Txn
  <1>2. TypeOK /\ KindOK /\ AboveFloor /\ InFlight /\ [Next]_vars
          => (AboveFloor /\ InFlight)'
    <2> SUFFICES ASSUME TypeOK, KindOK, AboveFloor, InFlight, [Next]_vars
                 PROVE  (AboveFloor /\ InFlight)'
      OBVIOUS
    <2> USE KindsAssumption
    <2> USE DEF TypeOK, KindOK, AboveFloor, InFlight, Goto, LockRow, Release, money, Txn
    <2>1. ASSUME NEW t \in Txn, Read(t)
          PROVE  (AboveFloor /\ InFlight)'
      BY <2>1 DEF Read
    <2>2. ASSUME NEW t \in Txn, UpdateOwner(t)
          PROVE  (AboveFloor /\ InFlight)'
      BY <2>2 DEF UpdateOwner
    <2>3. ASSUME NEW t \in Txn, Commit(t)
          PROVE  (AboveFloor /\ InFlight)'
      <3>1. InFlight'
        BY <2>3 DEF Commit
      <3>2. CASE t \in Topup
        BY <2>3, <3>1, <3>2 DEF Commit, Written
      <3>3. CASE t \in Charge
        BY <2>3, <3>1, <3>3 DEF Commit, Written
      <3>4. CASE t \in Launch
        BY <2>3, <3>4 DEF Commit
      <3>5. QED
        BY <3>2, <3>3, <3>4
    <2>4. ASSUME NEW t \in Txn, Abort(t)
          PROVE  (AboveFloor /\ InFlight)'
      BY <2>4 DEF Abort
    <2>5. ASSUME NEW c \in Charge, CheckOverdraft(c)
          PROVE  (AboveFloor /\ InFlight)'
      BY <2>5 DEF CheckOverdraft
    <2>6. ASSUME NEW c \in Charge, ReadPayee(c)
          PROVE  (AboveFloor /\ InFlight)'
      BY <2>6 DEF ReadPayee
    <2>7. ASSUME NEW c \in Charge, UpdatePayee(c)
          PROVE  (AboveFloor /\ InFlight)'
      BY <2>7 DEF UpdatePayee
    <2>8. ASSUME NEW l \in Launch, CommitLaunch(l)
          PROVE  (AboveFloor /\ InFlight)'
      BY <2>8 DEF CommitLaunch
    <2>9. ASSUME NEW x \in Limit, SetLimit(x)
          PROVE  (AboveFloor /\ InFlight)'
      BY <2>9 DEF SetLimit
    <2>10. CASE UNCHANGED vars
      BY <2>10 DEF vars
    <2>11. QED
      BY <2>1, <2>2, <2>3, <2>4, <2>5, <2>6, <2>7, <2>8, <2>9, <2>10
         DEF Next, TxnStep, ChargeStep
  <1>3. QED
    BY <1>1, <1>2, TypeCorrect, PTL DEF Spec

-----------------------------------------------------------------------------
\* A charge whose client provides the GPU itself credits what it debited.
SelfPayment ==
  \A c \in Charge :
    pc[c] \in {"credit", "commit"} /\ Payee[c] = Owner[c] => seenPayee[c] = seen[c] - Amount[c]

\* Lost updates are the only way a balance can part from its transactions:
\* where no commit replaced a value it had not read, the two agree.
THEOREM LedgerIsExact == Spec => []LedgerExact
  <1> USE OwnerAssumption, AmountAssumption, MoneyAssumption
  <1>1. Init => LedgerExact /\ SelfPayment
    BY DEF Init, LedgerExact, SelfPayment, Txn
  <1>2. TypeOK /\ KindOK /\ LedgerExact /\ SelfPayment /\ [Next]_vars
          => (LedgerExact /\ SelfPayment)'
    <2> SUFFICES ASSUME TypeOK, KindOK, LedgerExact, SelfPayment, [Next]_vars
                 PROVE  (LedgerExact /\ SelfPayment)'
      OBVIOUS
    <2> USE KindsAssumption
    <2> USE DEF TypeOK, KindOK, LedgerExact, SelfPayment, Goto, LockRow, Release, money, Txn
    <2>1. ASSUME NEW t \in Txn, Commit(t)
          PROVE  (LedgerExact /\ SelfPayment)'
      <3>1. SelfPayment'
        BY <2>1 DEF Commit
      <3>2. CASE t \in Topup
        BY <2>1, <3>1, <3>2 DEF Commit, Written, Posted, LostUnder
      <3>3. CASE t \in Charge
        <4>1. CASE Payee[t] = Owner[t]
          BY <2>1, <3>1, <3>3, <4>1 DEF Commit, Written, Posted, LostUnder
        <4>2. CASE Payee[t] # Owner[t]
          BY <2>1, <3>1, <3>3, <4>2 DEF Commit, Written, Posted, LostUnder
        <4>3. QED
          BY <4>1, <4>2
      <3>4. CASE t \in Launch
        BY <2>1, <3>4 DEF Commit
      <3>5. QED
        BY <3>2, <3>3, <3>4
    <2>2. ASSUME NEW t \in Txn, Read(t) \/ UpdateOwner(t) \/ Abort(t)
          PROVE  (LedgerExact /\ SelfPayment)'
      BY <2>2 DEF Read, UpdateOwner, Abort
    <2>3. ASSUME NEW c \in Charge, ChargeStep(c)
          PROVE  (LedgerExact /\ SelfPayment)'
      BY <2>3 DEF ChargeStep, CheckOverdraft, ReadPayee, UpdatePayee
    <2>4. ASSUME NEW l \in Launch, CommitLaunch(l)
          PROVE  (LedgerExact /\ SelfPayment)'
      BY <2>4 DEF CommitLaunch
    <2>5. ASSUME NEW x \in Limit, SetLimit(x)
          PROVE  (LedgerExact /\ SelfPayment)'
      BY <2>5 DEF SetLimit
    <2>6. CASE UNCHANGED vars
      BY <2>6 DEF vars
    <2>7. QED
      BY <2>1, <2>2, <2>3, <2>4, <2>5, <2>6 DEF Next, TxnStep
  <1>3. QED
    BY <1>1, <1>2, TypeCorrect, PTL DEF Spec

-----------------------------------------------------------------------------
\* The rows a request holds while it waits: none before its first UPDATE, the
\* owner's alone before its second.
RowsHeld ==
  \A t \in Txn :
    /\ pc[t] \in {"idle", "check", "update", "launch"} =>
         \A u \in User : rowLock[u] # t
    /\ pc[t] \in {"debited", "credit"} => \A u \in User : rowLock[u] = t => u = Owner[t]

\* A deadlock takes two charges that pay each other's client.
THEOREM DeadlockTakesMutualPayment == Spec => []DeadlockIsMutualPayment
  <1> USE NoneAssumption, OwnerAssumption
  <1>1. Init => RowsHeld
    BY DEF Init, RowsHeld
  <1>2. TypeOK /\ KindOK /\ RowsHeld /\ [Next]_vars => RowsHeld'
    <2> SUFFICES ASSUME TypeOK, KindOK, RowsHeld, [Next]_vars
                 PROVE  RowsHeld'
      OBVIOUS
    <2> USE KindsAssumption
    <2> USE DEF TypeOK, KindOK, RowsHeld, Goto, LockRow, Release, money, Txn
    <2>1. ASSUME NEW t \in Txn, Read(t)
          PROVE  RowsHeld'
      BY <2>1 DEF Read
    <2>2. ASSUME NEW t \in Txn, UpdateOwner(t)
          PROVE  RowsHeld'
      BY <2>2 DEF UpdateOwner
    <2>3. ASSUME NEW t \in Txn, Commit(t) \/ Abort(t)
          PROVE  RowsHeld'
      <3>1. \A s \in Txn : s # t => pc'[s] = pc[s]
        BY <2>3 DEF Commit, Abort
      <3>2. pc'[t] \in {"paid", "toppedUp", "aborted"}
        BY <2>3 DEF Commit, Abort
      <3>3. \A u \in User, s \in Txn : rowLock'[u] = s => rowLock[u] = s
        BY <2>3 DEF Commit, Abort
      <3>4. QED
        BY <3>1, <3>2, <3>3
    <2>4. ASSUME NEW c \in Charge, ChargeStep(c)
          PROVE  RowsHeld'
      BY <2>4 DEF ChargeStep, CheckOverdraft, ReadPayee, UpdatePayee
    <2>5. ASSUME NEW l \in Launch, CommitLaunch(l)
          PROVE  RowsHeld'
      BY <2>5 DEF CommitLaunch
    <2>6. ASSUME NEW x \in Limit, SetLimit(x)
          PROVE  RowsHeld'
      BY <2>6 DEF SetLimit
    <2>7. CASE UNCHANGED vars
      BY <2>7 DEF vars
    <2>8. QED
      BY <2>1, <2>2, <2>3, <2>4, <2>5, <2>6, <2>7 DEF Next, TxnStep
  <1>3. TypeOK /\ KindOK /\ RowsHeld => DeadlockIsMutualPayment
    <2> SUFFICES ASSUME TypeOK, KindOK, RowsHeld, NEW t \in Txn, Deadlocked(t)
                 PROVE  t \in Charge /\ \E c \in Charge \ {t} : Payee[c] = Owner[t]
      BY DEF DeadlockIsMutualPayment
    <2>1. PICK S \in SUBSET {s \in Txn : pc[s] \in Waiting} :
             /\ t \in S
             /\ \A s \in S : \E r \in S : WaitsFor(s, r)
             /\ \A s \in S : \E r \in S : WaitsFor(r, s)
      BY DEF Deadlocked
    <2>2. \A s \in S : pc[s] = "credit" /\ s \in Charge
      <3> SUFFICES ASSUME NEW s \in S
                   PROVE  pc[s] = "credit" /\ s \in Charge
        OBVIOUS
      <3>1. PICK r \in S : WaitsFor(r, s)
        BY <2>1
      <3>2. \E u \in User : rowLock[u] = s
        <4>1. r \in Topup \cup Launch => pc[r] # "credit"
          BY DEF KindOK
        <4>2. r \in Txn
          BY <2>1
        <4>3. QED
          BY <3>1, <4>1, <4>2 DEF WaitsFor, Txn
      <3>3. s \in Txn /\ pc[s] \in Waiting
        BY <2>1
      <3>4. QED
        BY <3>2, <3>3 DEF RowsHeld, Waiting, KindOK, Txn
    <2>3. PICK s \in S : WaitsFor(s, t)
      BY <2>1
    <2>4. Payee[s] \in User /\ rowLock[Payee[s]] = t
      BY <2>2, <2>3 DEF WaitsFor
    <2>5. Payee[s] = Owner[t]
      BY <2>1, <2>2, <2>4 DEF RowsHeld
    <2>6. QED
      BY <2>1, <2>2, <2>3, <2>5 DEF WaitsFor
  <1>4. QED
    BY <1>1, <1>2, <1>3, TypeCorrect, PTL DEF Spec
=============================================================================
