------------------------------- MODULE JobLife -------------------------------
(***************************************************************************)
(* What the platform promises of a job, without sessions, channels and     *)
(* agents.  Of the one execution of a job two reports may come, that of    *)
(* the start and that of the end, in this order and each at most once;     *)
(* from any moment on they may be lost.  The end of a job that was heard   *)
(* to start, and completed, charges it, and nothing else does.  A client   *)
(* or the sweep may overrule what is shown of the job, without a word to   *)
(* what is still to come.                                                  *)
(***************************************************************************)
EXTENDS Naturals

CONSTANT Job

VARIABLES
  shown,    \* the status of each job
  started,  \* the jobs whose start was heard
  charged,  \* how often each was charged
  left      \* how many of its two reports may still come

lifeVars == <<shown, started, charged, left>>

Init ==
  /\ shown = [j \in Job |-> "none"]
  /\ started = {}
  /\ charged = [j \in Job |-> 0]
  /\ left = [j \in Job |-> 2]

\* A job without a GPU is never executed.
Submit(j) ==
  /\ shown[j] = "none"
  /\ \/ shown' = [shown EXCEPT ![j] = "queued"] /\ UNCHANGED left
     \/ shown' = [shown EXCEPT ![j] = "pending"] /\ left' = [left EXCEPT ![j] = 0]
  /\ UNCHANGED <<started, charged>>

HearStart(j) ==
  /\ shown[j] # "none" /\ shown' = [shown EXCEPT ![j] = "running"]
  /\ started' = started \cup {j}
  /\ left[j] = 2
  /\ \E n \in 0..1 : left' = [left EXCEPT ![j] = n]
  /\ UNCHANGED charged

HearEnd(j, s) ==
  /\ shown[j] # "none" /\ shown' = [shown EXCEPT ![j] = s]
  /\ charged' = IF s = "completed" /\ j \in started
                THEN [charged EXCEPT ![j] = @ + 1]
                ELSE charged
  /\ left[j] > 0 /\ left' = [left EXCEPT ![j] = 0]
  /\ UNCHANGED started

\* Jobs are cancelled, or failed by the sweep.
Overrule(S, s) ==
  /\ \A j \in S : shown[j] # "none"
  /\ shown' = [j \in Job |-> IF j \in S THEN s ELSE shown[j]]
  /\ UNCHANGED <<started, charged, left>>

\* Reports of submitted jobs are lost, or will not be made.
Lose ==
  /\ UNCHANGED <<shown, started, charged>>
  /\ left' \in [Job -> 0..2]
  /\ \A j \in Job : left'[j] <= left[j] /\ (shown[j] = "none" => left'[j] = left[j])

Next ==
  \/ \E j \in Job : \/ Submit(j) \/ HearStart(j)
                    \/ \E s \in {"completed", "failed"} : HearEnd(j, s)
  \/ \E S \in SUBSET Job, s \in {"cancelled", "failed"} : Overrule(S, s)
  \/ Lose

Spec == Init /\ [][Next]_lifeVars
=============================================================================
