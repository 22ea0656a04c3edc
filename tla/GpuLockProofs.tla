--------------------------- MODULE GpuLockProofs ---------------------------
(***************************************************************************)
(* Proofs about GpuLock for any number of submissions and GPUs, any lock   *)
(* duration and any interleaving.  The invariant of the argument is IInv:  *)
(* a submission that has decided for a GPU holds its row                   *)
(* (DecisionProtected), so nobody moves the lock columns under it, and the *)
(* columns show the latest grant (LatestGrantShown); a new grant was       *)
(* decided after what the columns showed had run out, hence LockTime after *)
(* every earlier grant (GrantsSpaced).                                     *)
(***************************************************************************)
EXTENDS GpuLock, TLAPS

\* The submissions that have a GPU in hand, or name one, where they need it.
PickOK ==
  /\ \A j \in Job : pc[j] \in {"lock", "dispatch", "send"} => pick[j] # None
  /\ \A j \in Job : pc[j] = "want" => want[j] # None

\* No `now` is in the future.
NowPast == \A j \in Job : now[j] <= clock

IInv ==
  TypeOK /\ PickOK /\ NowPast /\ DecisionProtected /\ LatestGrantShown /\ GrantsSpaced

-----------------------------------------------------------------------------
\* Type correctness: every action of every handler keeps each variable in
\* its domain (status, lock columns, captured times, decisions).
THEOREM TypeCorrect == Spec => [](TypeOK /\ PickOK)
  <1> USE NoneAssumption, TimeAssumption
  <1>1. Init => TypeOK /\ PickOK
    BY DEF Init, TypeOK, PickOK, Status, PC, Waiting, Holding, Ended
  <1>2. TypeOK /\ PickOK /\ [Next]_vars => (TypeOK /\ PickOK)'
    <2> SUFFICES ASSUME TypeOK, PickOK, [Next]_vars
                 PROVE  (TypeOK /\ PickOK)'
      OBVIOUS
    <2> USE DEF TypeOK, PickOK, Status, PC, Waiting, Holding, Ended, Goto, Release,
                gpuVars, connVars, subVars
    <2>1. ASSUME NEW j \in Job, NEW w \in Gpu \cup {None}, Submit(j, w)
          PROVE  (TypeOK /\ PickOK)'
      BY <2>1 DEF Submit
    <2>2. ASSUME NEW j \in Job, TakeWanted(j)
          PROVE  (TypeOK /\ PickOK)'
      BY <2>2 DEF TakeWanted, Verdict
    <2>3. ASSUME NEW j \in Job, Query(j)
          PROVE  (TypeOK /\ PickOK)'
      <3>1. Choices(now[j]) \subseteq Gpu \cup {None}
        BY DEF Choices, Pools, BestFit
      <3>2. QED
        BY <2>3, <3>1 DEF Query
    <2>4. ASSUME NEW j \in Job, LockPick(j)
          PROVE  (TypeOK /\ PickOK)'
      BY <2>4 DEF LockPick, Verdict
    <2>5. ASSUME NEW j \in Job, CommitDispatch(j)
          PROVE  (TypeOK /\ PickOK)'
      BY <2>5 DEF CommitDispatch
    <2>6. ASSUME NEW j \in Job, CommitPending(j)
          PROVE  (TypeOK /\ PickOK)'
      BY <2>6 DEF CommitPending
    <2>7. ASSUME NEW j \in Job, Send(j)
          PROVE  (TypeOK /\ PickOK)'
      BY <2>7 DEF Send
    <2>8. ASSUME NEW j \in Job, Abort(j)
          PROVE  (TypeOK /\ PickOK)'
      BY <2>8 DEF Abort
    <2>9. ASSUME Environment
          PROVE  (TypeOK /\ PickOK)'
      BY <2>9 DEF Environment, WriteStatus, AgentConnects, AgentDisconnects, StatusAssigned,
                  ReportDocker, Tick, LoadAndSet
    <2>10. CASE UNCHANGED vars
      BY <2>10 DEF vars
    <2>11. QED
      BY <2>1, <2>2, <2>3, <2>4, <2>5, <2>6, <2>7, <2>8, <2>9, <2>10 DEF Next, SubmissionStep
  <1>3. QED
    BY <1>1, <1>2, PTL DEF Spec

-----------------------------------------------------------------------------
\* A commit by j moves the lock columns of pick[j] only, to now[j] + LockTime.
CommitOf(j) ==
  /\ pc[j] \in Holding /\ pick[j] # None
  /\ lockedBy' = [lockedBy EXCEPT ![pick[j]] = j]
  /\ lockedUntil' = [lockedUntil EXCEPT ![pick[j]] = now[j] + LockTime]
  /\ UNCHANGED <<clock, now, pick>>
  /\ pc' \in {[pc EXCEPT ![j] = "send"], [pc EXCEPT ![j] = "done"]}
  /\ Release(j)

\* What the steps that leave the lock columns alone may do: decide (with the
\* row locked), start, be answered or be aborted; nothing is granted by them.
Quiet ==
  /\ UNCHANGED <<lockedBy, lockedUntil>>
  /\ clock <= clock' /\ clock' \in {clock, clock + 1}
  /\ \A j \in Job :
       /\ now'[j] = now[j] \/ (now'[j] = clock /\ pc'[j] \notin {"send", "done", "lost"})
       /\ pc'[j] \in Holding /\ pick'[j] # None =>
            /\ rowLock'[pick'[j]] = j
            /\ LockAvailable(pick'[j], now'[j])
       /\ Granted(j)' => Granted(j) /\ pick'[j] = pick[j] /\ now'[j] = now[j]

\* Every step is a commit of a lock or leaves the lock columns alone.
LEMMA StepShape ==
  ASSUME TypeOK, PickOK, NowPast, DecisionProtected, [Next]_vars
  PROVE  Quiet \/ \E j \in Job : CommitOf(j)
  <1> USE NoneAssumption, TimeAssumption
  <1> USE DEF TypeOK, PickOK, NowPast, DecisionProtected, Status, PC, Waiting, Holding,
              Ended, Goto, Release, LockAvailable, Granted, gpuVars, connVars, subVars
  <1>1. ASSUME NEW j \in Job, NEW w \in Gpu \cup {None}, Submit(j, w)
        PROVE  Quiet
    BY <1>1 DEF Submit, Quiet
  <1>2. ASSUME NEW j \in Job, TakeWanted(j)
        PROVE  Quiet
    BY <1>2 DEF TakeWanted, Verdict, RowFree, Quiet
  <1>3. ASSUME NEW j \in Job, Query(j)
        PROVE  Quiet
    <2>1. Choices(now[j]) \subseteq Gpu \cup {None}
      BY DEF Choices, Pools, BestFit
    <2>2. QED
      BY <1>3, <2>1 DEF Query, Quiet
  <1>4. ASSUME NEW j \in Job, LockPick(j)
        PROVE  Quiet
    BY <1>4 DEF LockPick, Verdict, RowFree, Quiet
  <1>5. ASSUME NEW j \in Job, CommitDispatch(j)
        PROVE  CommitOf(j)
    BY <1>5 DEF CommitDispatch, CommitOf
  <1>6. ASSUME NEW j \in Job, CommitPending(j)
        PROVE  Quiet \/ CommitOf(j)
    <2>1. CASE pick[j] # None
      BY <1>6, <2>1 DEF CommitPending, CommitOf
    <2>2. CASE pick[j] = None
      BY <1>6, <2>2 DEF CommitPending, Quiet
    <2>3. QED
      BY <2>1, <2>2
  <1>7. ASSUME NEW j \in Job, Send(j)
        PROVE  Quiet
    BY <1>7 DEF Send, Quiet
  <1>8. ASSUME NEW j \in Job, Abort(j)
        PROVE  Quiet
    <2>1. pc[j] \in Waiting
      BY <1>8 DEF Abort, Deadlocked, WaitsFor
    <2>2. QED
      BY <1>8, <2>1 DEF Abort, Quiet
  <1>9. ASSUME Environment
        PROVE  Quiet
    BY <1>9 DEF Environment, WriteStatus, AgentConnects, AgentDisconnects, StatusAssigned,
                ReportDocker, Tick, LoadAndSet, Quiet
  <1>10. CASE UNCHANGED vars
    BY <1>10 DEF vars, Quiet
  <1>11. QED
    BY <1>1, <1>2, <1>3, <1>4, <1>5, <1>6, <1>7, <1>8, <1>9, <1>10 DEF Next, SubmissionStep

\* The invariant of the GPU lock is inductive.
LEMMA LockStep ==
  ASSUME IInv, (TypeOK /\ PickOK)', [Next]_vars
  PROVE  IInv'
  <1> USE NoneAssumption, TimeAssumption
  <1> USE DEF IInv
  <1>1. CASE Quiet
    <2>1. NowPast'
      BY <1>1 DEF NowPast, Quiet, TypeOK
    <2>2. DecisionProtected'
      BY <1>1 DEF DecisionProtected, Quiet, LockAvailable
    <2>3. LatestGrantShown'
      BY <1>1 DEF LatestGrantShown, Quiet
    <2>4. GrantsSpaced'
      BY <1>1 DEF GrantsSpaced, Quiet
    <2>5. QED
      BY <2>1, <2>2, <2>3, <2>4
  <1>2. ASSUME NEW j \in Job, CommitOf(j)
        PROVE  IInv'
    <2> DEFINE g == pick[j]
    <2> USE <1>2 DEF CommitOf, TypeOK
    <2>1. g \in Gpu /\ rowLock[g] = j /\ LockAvailable(g, now[j])
      BY DEF DecisionProtected
    <2>2. pc'[j] \in {"send", "done"} /\ \A k \in Job \ {j} : pc'[k] = pc[k]
      OBVIOUS
    <2>3. NowPast'
      BY DEF NowPast
    <2>4. DecisionProtected'
      <3> SUFFICES ASSUME NEW k \in Job, pc'[k] \in Holding, pick[k] # None
                   PROVE  rowLock'[pick[k]] = k /\ LockAvailable(pick[k], now[k])'
        BY DEF DecisionProtected
      <3>1. k # j /\ pc[k] \in Holding
        BY <2>2 DEF Holding
      <3>2. rowLock[pick[k]] = k /\ LockAvailable(pick[k], now[k])
        BY <3>1 DEF DecisionProtected
      <3>3. pick[k] # g
        BY <3>1, <3>2, <2>1
      <3>4. QED
        BY <3>1, <3>2, <3>3 DEF Release, LockAvailable
    <2>5. \A k \in Job \ {j} : Granted(k) /\ pick[k] = g => now[k] + LockTime <= now[j]
      BY <2>1 DEF LatestGrantShown, LockAvailable
    <2>6. \A k \in Job : Granted(k)' => k = j \/ Granted(k)
      BY <2>2 DEF Granted
    <2>7. LatestGrantShown'
      <3> SUFFICES ASSUME NEW k \in Job, Granted(k)'
                   PROVE  /\ lockedUntil'[pick[k]] # None
                          /\ now[k] + LockTime <= lockedUntil'[pick[k]]
        BY DEF LatestGrantShown
      <3>1. CASE pick[k] = g
        BY <3>1, <2>1, <2>5, <2>6, now[j] + LockTime \in Nat
      <3>2. CASE pick[k] # g
        BY <3>2, <2>6 DEF LatestGrantShown
      <3>3. QED
        BY <3>1, <3>2
    <2>8. GrantsSpaced'
      BY <2>5, <2>6 DEF GrantsSpaced
    <2>9. QED
      BY <2>3, <2>4, <2>7, <2>8
  <1>3. QED
    BY <1>1, <1>2, StepShape

LEMMA LockInvariant == Spec => []IInv
  <1>1. Init => NowPast /\ DecisionProtected /\ LatestGrantShown /\ GrantsSpaced
    BY DEF Init, NowPast, DecisionProtected, LatestGrantShown, GrantsSpaced, Granted, Holding
  <1>2. TypeOK /\ PickOK /\ (TypeOK /\ PickOK)' /\ IInv /\ [Next]_vars => IInv'
    BY LockStep
  <1>3. QED
    BY <1>1, <1>2, TypeCorrect, PTL DEF Spec, IInv

\* Mutual exclusion in time: two jobs granted the same GPU were granted it at
\* least LockTime apart, for any number of concurrent submissions (matching.py
\* "ensure only one job can acquire a GPU at a time").
THEOREM GrantsAreSpaced == Spec => []GrantsSpaced
  BY LockInvariant, PTL DEF IInv

\* What a submission read before it locked the row cannot be invalidated
\* between its decision and its commit.
THEOREM DecisionsAreProtected == Spec => []DecisionProtected
  BY LockInvariant, PTL DEF IInv

\* The lock columns always show the latest grant of the GPU.
THEOREM LatestGrantIsShown == Spec => []LatestGrantShown
  BY LockInvariant, PTL DEF IInv

-----------------------------------------------------------------------------
\* The lock columns, row locks and queries of matching.py implement the
\* abstract lease of GpuLease: no lease is given before the last ran out.
THEOREM Refinement == Spec => ImplementsLease
  <1> USE NoneAssumption, TimeAssumption
  <1>1. Init => Lease!Init
    BY DEF Init, Lease!Init
  <1>2. IInv /\ [Next]_vars => [Lease!Next]_(Lease!leaseVars)
    <2> SUFFICES ASSUME IInv, [Next]_vars
                 PROVE  [Lease!Next]_(Lease!leaseVars)
      OBVIOUS
    <2> USE DEF IInv
    <2>1. CASE Quiet
      <3>1. clock' = clock \/ clock' = clock + 1
        BY <2>1 DEF Quiet
      <3>2. QED
        BY <2>1, <3>1 DEF Quiet, Lease!Next, Lease!Tick, Lease!leaseVars
    <2>2. ASSUME NEW j \in Job, CommitOf(j)
          PROVE  Lease!Next
      <3>1. pick[j] \in Gpu /\ LockAvailable(pick[j], now[j])
        BY <2>2 DEF CommitOf, DecisionProtected, TypeOK
      <3>2. now[j] \in 0..clock
        BY DEF NowPast, TypeOK
      <3>3. Lease!Grant(pick[j], j, now[j])
        BY <2>2, <3>1, <3>2 DEF CommitOf, Lease!Grant, LockAvailable
      <3>4. QED
        BY <3>1, <3>2, <3>3 DEF Lease!Next
    <2>3. QED
      BY <2>1, <2>2, StepShape
  <1>3. QED
    BY <1>1, <1>2, LockInvariant, PTL DEF Spec, ImplementsLease, Lease!Spec

-----------------------------------------------------------------------------
\* A submission without a requested GPU holds no row until it has decided,
\* and a submission that has not started or has ended holds none.
HoldsNothing ==
  \A j \in Job :
    \/ pc[j] \in {"idle", "want"}
    \/ want[j] = None /\ pc[j] \in {"pool", "lock"}
    => \A g \in Gpu : rowLock[g] # j

\* A deadlock takes a request that names a GPU: an auto-matched submission
\* never holds a row while it waits for another.
THEOREM DeadlockTakesNamedGpu == Spec => []DeadlockNeedsNamedGpu
  <1> USE NoneAssumption, TimeAssumption
  <1>1. Init => HoldsNothing
    BY DEF Init, HoldsNothing
  <1>2. TypeOK /\ PickOK /\ HoldsNothing /\ [Next]_vars => HoldsNothing'
    <2> SUFFICES ASSUME TypeOK, PickOK, HoldsNothing, [Next]_vars
                 PROVE  HoldsNothing'
      OBVIOUS
    <2> USE DEF TypeOK, PickOK, HoldsNothing, PC, Waiting, Holding, Ended, Goto, Release,
                gpuVars, connVars, subVars
    <2>1. ASSUME NEW j \in Job, NEW w \in Gpu \cup {None}, Submit(j, w)
          PROVE  HoldsNothing'
      BY <2>1 DEF Submit
    <2>2. ASSUME NEW j \in Job, TakeWanted(j)
          PROVE  HoldsNothing'
      BY <2>2 DEF TakeWanted, Verdict
    <2>3. ASSUME NEW j \in Job, Query(j)
          PROVE  HoldsNothing'
      BY <2>3 DEF Query
    <2>4. ASSUME NEW j \in Job, LockPick(j)
          PROVE  HoldsNothing'
      BY <2>4 DEF LockPick, Verdict
    <2>5. ASSUME NEW j \in Job, CommitDispatch(j) \/ CommitPending(j) \/ Send(j) \/ Abort(j)
          PROVE  HoldsNothing'
      BY <2>5 DEF CommitDispatch, CommitPending, Send, Abort
    <2>6. ASSUME Environment
          PROVE  HoldsNothing'
      BY <2>6 DEF Environment, WriteStatus, AgentConnects, AgentDisconnects, StatusAssigned,
                  ReportDocker, Tick, LoadAndSet
    <2>7. CASE UNCHANGED vars
      BY <2>7 DEF vars
    <2>8. QED
      BY <2>1, <2>2, <2>3, <2>4, <2>5, <2>6, <2>7 DEF Next, SubmissionStep
  <1>3. TypeOK /\ PickOK /\ HoldsNothing => DeadlockNeedsNamedGpu
    <2> SUFFICES ASSUME TypeOK, PickOK, HoldsNothing, NEW j \in Job, Deadlocked(j), want[j] = None
                 PROVE  FALSE
      BY DEF DeadlockNeedsNamedGpu
    <2>1. PICK S \in SUBSET Job : /\ j \in S
                                  /\ \A k \in S : \E l \in S : WaitsFor(k, l)
                                  /\ \A k \in S : \E l \in S : WaitsFor(l, k)
      BY DEF Deadlocked
    <2>2. pc[j] = "lock"
      BY <2>1 DEF WaitsFor, PickOK
    <2>3. PICK k \in S : WaitsFor(k, j)
      BY <2>1
    <2>4. \E g \in Gpu : rowLock[g] = j
      BY <2>3 DEF WaitsFor, TypeOK, PickOK
    <2>5. QED
      BY <2>2, <2>4 DEF HoldsNothing
  <1>4. QED
    BY <1>1, <1>2, <1>3, TypeCorrect, PTL DEF Spec
=============================================================================
