---------------------------- MODULE MCGpuLock ----------------------------
(* Small instances of GpuLock: three submissions, and two GPUs of         *)
(* different size.                                                        *)
EXTENDS GpuLock, TLC

CONSTANTS g1, g2, j1, j2, j3

MCGpu  == {g1, g2}
MCJob  == {j1, j2, j3}
MCVram == g1 :> 4 @@ g2 :> 8
JobSymmetry == Permutations(Job)

\* Symmetry is not sound for liveness.  But submissions that have not come yet
\* are alike: named by what they want and then by when they come, one behaviour
\* stands for all its renamings.
Rank == j1 :> 1 @@ j2 :> 2 @@ j3 :> 3
Wish == g1 :> 1 @@ g2 :> 2 @@ None :> 3

NamedInOrder(j, w) ==
  \A k \in Job \ {j} : pc[k] # "idle" =>
    IF Rank[k] < Rank[j] THEN Wish[want[k]] <= Wish[w] ELSE Wish[w] < Wish[want[k]]

\* Of the other writers only those that assign a status; a connection is there
\* from the start or never, and decides between two branches.
MCNext ==
  \/ \E j \in Job, w \in Gpu \cup {None} : NamedInOrder(j, w) /\ Submit(j, w)
  \/ \E j \in Job : SubmissionStep(j)
  \/ \E g \in Gpu : WriteStatus(g) \/ \E s \in Status : StatusAssigned(g, s)
  \/ Tick

MCInit == Init /\ status = [g \in Gpu |-> "online"]

MCFairSpec == MCInit /\ [][MCNext]_vars /\ Fairness
==========================================================================
