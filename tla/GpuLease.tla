------------------------------ MODULE GpuLease ------------------------------
(***************************************************************************)
(* What the GPU lock promises, without queries, transactions or row locks: *)
(* a GPU is leased to one job at a time, for LockTime from the moment the  *)
(* lease was decided, and no lease is given away before it has run out.    *)
(***************************************************************************)
EXTENDS Naturals

CONSTANTS Job, Gpu, None, LockTime

VARIABLES
  clock,
  holder,   \* the job each GPU was last leased to
  until     \* when that lease runs out

leaseVars == <<clock, holder, until>>

Init ==
  /\ clock = 0
  /\ holder = [g \in Gpu |-> None]
  /\ until = [g \in Gpu |-> None]

\* A lease decided at time t, at or before the present, when the previous one
\* had run out.
Grant(g, j, t) ==
  /\ t <= clock
  /\ until[g] # None => until[g] <= t
  /\ holder' = [holder EXCEPT ![g] = j]
  /\ until' = [until EXCEPT ![g] = t + LockTime]
  /\ UNCHANGED clock

Tick ==
  /\ clock' = clock + 1
  /\ UNCHANGED <<holder, until>>

Next ==
  \/ \E g \in Gpu, j \in Job : \E t \in 0..clock : Grant(g, j, t)
  \/ Tick

Spec == Init /\ [][Next]_leaseVars
=============================================================================
