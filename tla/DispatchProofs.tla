--------------------------- MODULE DispatchProofs ---------------------------
(***************************************************************************)
(* Proofs about Dispatch, for any number of jobs and GPUs, any faults and  *)
(* any number of mishaps.                                                  *)
(*                                                                         *)
(* What a job can still cause is in one place at a time: the request that  *)
(* will send it, the message to the agent, the agent's current job, or the *)
(* messages to the backend, the last of which reports the end.  A fault    *)
(* destroys such a thing and never doubles it, and the bill comes when     *)
(* none is left.                                                           *)
(***************************************************************************)
EXTENDS Dispatch, SequenceTheorems, TLAPS

-----------------------------------------------------------------------------
(* The parts of the invariant.                                             *)

\* Nothing of job j in the messages to agents, with an agent, in the messages
\* to the backend, or done.
NotSent(j) ==
  \A g \in Gpu : \A i \in 1 .. Len(toAgent[g]) : toAgent[g][i] # <<"assign", j>>
NotHeld(j) == \A g \in Gpu : cur[g] # j
NotReported(j) ==
  \A g \in Gpu : \A i \in 1 .. Len(toServer[g]) : toServer[g][i][2] # j
NotDone(j) == j \notin ended /\ billed[j] = 0

\* Nothing has happened to a job that is not submitted, or not yet sent.
NotYetSent ==
  \A j \in Job : jobStatus[j] = "none" \/ j \in dispatching =>
    NotSent(j) /\ NotHeld(j) /\ NotReported(j) /\ NotDone(j)

\* A request sends for a job that was submitted.
DispatchedIsSubmitted == \A j \in dispatching : jobStatus[j] # "none"

\* An assignment is the only one of its job, goes to the job's GPU, and
\* nothing has come of it.
AssignedOnce ==
  \A g \in Gpu : \A i \in 1 .. Len(toAgent[g]) :
    toAgent[g][i][1] = "assign" =>
      /\ toAgent[g][i][2] \in Job
      /\ jobGpu[toAgent[g][i][2]] = g
      /\ NotHeld(toAgent[g][i][2])
      /\ NotReported(toAgent[g][i][2])
      /\ NotDone(toAgent[g][i][2])
      /\ \A k \in 1 .. Len(toAgent[g]) : toAgent[g][k] = toAgent[g][i] => k = i

\* An agent has a current job while its listener is inside assign_job.
HeldInHandler ==
  \A g \in Gpu : cur[g] = None <=> phase[g] \in {"idle", "stopped", "down"}

\* The current job is one of the agent's GPU; it has not been reported, or
\* only as running.
HeldIsUnfinished ==
  \A g \in Gpu : cur[g] # None =>
    /\ jobGpu[cur[g]] = g
    /\ billed[cur[g]] = 0
    /\ phase[g] # "stuck" => cur[g] \notin ended
    /\ phase[g] = "accepted" => NotReported(cur[g])
    /\ \A i \in 1 .. Len(toServer[g]) :
         toServer[g][i][2] = cur[g] => toServer[g][i][1] = "running"

\* A report comes from the job's GPU and before the bill; that of the end comes
\* after the container's, and last.
ReportsInOrder ==
  \A g \in Gpu : \A i \in 1 .. Len(toServer[g]) :
    /\ jobGpu[toServer[g][i][2]] = g
    /\ billed[toServer[g][i][2]] = 0
    /\ toServer[g][i][1] # "running" =>
         /\ toServer[g][i][2] \in ended
         /\ \A k \in 1 .. Len(toServer[g]) : k > i => toServer[g][k][2] # toServer[g][i][2]

JobInv ==
  /\ NotYetSent /\ DispatchedIsSubmitted /\ AssignedOnce
  /\ HeldInHandler /\ HeldIsUnfinished /\ ReportsInOrder
  /\ BilledForWork

IInv == TypeOK /\ JobInv

-----------------------------------------------------------------------------
(* The gpus table: the parts of its invariant.                             *)

\* What has had no match has no GPU, and what is assigned has one.
MatchedHasGpu ==
  \A j \in Job : /\ jobStatus[j] \in {"none", "pending"} => jobGpu[j] = None
                 /\ jobStatus[j] \in Assigned => jobGpu[j] \in Gpu

\* A cancel that found its job waiting never meets it assigned.
CancelOfWaiting ==
  \A j \in Job : cancelling[j] = "unassigned" =>
    jobGpu[j] = None /\ jobStatus[j] \notin Assigned \cup {"none"}

\* A sweep fails jobs of the GPUs it takes offline, and besides them only
\* overdue ones.
SweepOfItsGpus ==
  \A j \in sweep.jobs : /\ jobStatus[j] # "none"
                        /\ "overdue" \notin happened => jobGpu[j] \in sweep.gpus

\* Something of job j is left that can still show it assigned, or did.
InWork(j) ==
  \/ jobStatus[j] \in Assigned
  \/ j \in dispatching
  \/ ~ NotSent(j)
  \/ ~ NotHeld(j)
  \/ ~ NotReported(j)

\* Only messages were lost, or heartbeats and jobs found old.
Calm == happened \subseteq {"flood", "sweep", "overdue"}

\* Then no session is lost and no handler ends, agents are sent assignments
\* only, a GPU without its handler at work is offline and was never matched,
\* and a GPU has at most one job in work, none when it is offered.
CalmSessions ==
  /\ \A g \in Gpu : session[g] # "none" => g \in link
  /\ closing = {} /\ \A j \in Job : cancelling[j] = "no"
  /\ \A g \in Gpu : \A i \in 1 .. Len(toAgent[g]) : toAgent[g][i][1] = "assign"
  /\ \A g \in Gpu : session[g] # "open" =>
       gpuStatus[g] = "offline" /\ \A j \in Job : jobGpu[j] # g

OneInWork ==
  \A g \in Gpu, j \in Job : jobGpu[j] = g /\ InWork(j) =>
    /\ gpuStatus[g] # "online"
    /\ \A k \in Job : jobGpu[k] = g /\ InWork(k) => k = j

GpuInv ==
  /\ MatchedHasGpu /\ CancelOfWaiting /\ SweepOfItsGpus
  /\ ShownMeansSession /\ BusyHasJob
  /\ Calm => CalmSessions /\ OneInWork

USE NoneIsNoJob DEF Assigned, Terminal, ToServer, ToAgent

\* What the agent is sent, and what it sends.
ToAgentMsg == ToAgent \X (Job \cup {None})
ToServerMsg == ToServer \X Job

-----------------------------------------------------------------------------
(* Sequences.                                                              *)

LEMMA AppendSeq ==
  ASSUME NEW S, NEW q \in Seq(S), NEW e \in S
  PROVE  /\ Append(q, e) \in Seq(S)
         /\ Len(Append(q, e)) = Len(q) + 1 /\ Len(q) \in Nat
         /\ \A i \in 1 .. Len(q) : Append(q, e)[i] = q[i]
         /\ Append(q, e)[Len(q) + 1] = e
  OBVIOUS

LEMMA TailSeq ==
  ASSUME NEW S, NEW q \in Seq(S), q # <<>>
  PROVE  /\ Tail(q) \in Seq(S) /\ Head(q) \in S /\ Head(q) = q[1]
         /\ Len(Tail(q)) = Len(q) - 1 /\ Len(q) \in Nat \ {0}
         /\ \A i \in 1 .. Len(Tail(q)) : Tail(q)[i] = q[i + 1]
  OBVIOUS

LEMMA CutSeq ==
  ASSUME NEW S, NEW q \in Seq(S), NEW c \in Cut(q)
  PROVE  /\ c \in Seq(S) /\ Len(c) \in 0 .. Len(q) /\ Len(q) \in Nat
         /\ \A i \in 1 .. Len(c) : c[i] = q[i]
<1>1. PICK n \in 0 .. Len(q) : c = SubSeq(q, 1, n)
  BY DEF Cut
<1>2. Len(q) \in Nat /\ \A i \in 1 .. n : q[i] \in S
  BY ElementOfSeq, LenProperties
<1>3. QED
  BY <1>1, <1>2, SubSeqProperties

-----------------------------------------------------------------------------
(* Types.                                                                  *)

\* A message that is sent, or lost, leaves a channel of messages.
LEMMA SendTypes ==
  ASSUME TypeOK, NEW g \in Gpu \cup {None}, NEW m \in ToAgentMsg, SendToGpu(g, m)
  PROVE  toAgent' \in [Gpu -> Seq(ToAgentMsg)]
<1>1. toAgent \in [Gpu -> Seq(ToAgentMsg)]
  BY DEF TypeOK, ToAgentMsg
<1>2. CASE g = None
  BY <1>1, <1>2 DEF SendToGpu
<1>3. CASE g \in Gpu
  <2>1. Append(toAgent[g], m) \in Seq(ToAgentMsg)
    BY <1>1, <1>3, AppendSeq
  <2>2. QED
    BY <1>1, <1>3, <2>1 DEF SendToGpu
<1>4. QED
  BY <1>2, <1>3

\* So does a status that is sent, and the agent's phase stays one.
LEMMA StatusTypes ==
  ASSUME TypeOK, NEW g \in Gpu, NEW s \in ToServer, NEW then \in Phase,
         cur[g] \in Job, SendJobStatus(g, s, then)
  PROVE  toServer' \in [Gpu -> Seq(ToServerMsg)] /\ phase' \in [Gpu -> Phase]
<1>1. /\ toServer \in [Gpu -> Seq(ToServerMsg)] /\ phase \in [Gpu -> Phase]
      /\ <<s, cur[g]>> \in ToServerMsg
  BY DEF TypeOK, ToServerMsg
<1>2. Append(toServer[g], <<s, cur[g]>>) \in Seq(ToServerMsg)
  BY <1>1, AppendSeq
<1>3. QED
  BY <1>1, <1>2 DEF SendJobStatus, Phase

\* A connection that ends leaves a beginning of what was under way.
LEMMA BreakCuts ==
  ASSUME NEW g \in Gpu, Break(g)
  PROVE  /\ \E q \in Cut(toAgent[g]) : toAgent' = [toAgent EXCEPT ![g] = q]
         /\ \E q \in Cut(toServer[g]) : toServer' = [toServer EXCEPT ![g] = q]
<1> DEFINE A == {[toAgent EXCEPT ![g] = q] : q \in Cut(toAgent[g])}
           B == {[toServer EXCEPT ![g] = q] : q \in Cut(toServer[g])}
<1>1. toAgent' \in A /\ toServer' \in B
  BY Zenon DEF Break
<1>2. QED
  BY <1>1, Zenon

LEMMA CrashCuts ==
  ASSUME NEW g \in Gpu, AgentCrash(g)
  PROVE  \E q \in Cut(toServer[g]) : toServer' = [toServer EXCEPT ![g] = q]
<1> DEFINE B == {[toServer EXCEPT ![g] = q] : q \in Cut(toServer[g])}
<1>1. toServer' \in B
  BY Zenon DEF AgentCrash
<1>2. QED
  BY <1>1, Zenon

\* What JobStatusReport does with the status and the job it takes.
LEMMA ReportDoes ==
  ASSUME NEW g \in Gpu, NEW s \in ToServer, NEW j \in Job,
         JobStatusReport(g), Head(toServer[g]) = <<s, j>>
  PROVE  /\ jobStatus' = [jobStatus EXCEPT ![j] = s]
         /\ started' = started \/ started' = started \cup {j}
         /\ \/ billed' = billed
            \/ s = "completed" /\ billed' = [billed EXCEPT ![j] = billed[j] + 1]
         /\ gpuStatus' = gpuStatus \/ gpuStatus' = [gpuStatus EXCEPT ![g] = "online"]
<1>1. Head(toServer[g])[1] = s /\ Head(toServer[g])[2] = j
  OBVIOUS
<1>2. jobStatus' = [jobStatus EXCEPT ![Head(toServer[g])[2]] = Head(toServer[g])[1]]
  BY Zenon DEF JobStatusReport
<1>3. \/ started' = started
      \/ started' = started \cup {Head(toServer[g])[2]}
  BY Zenon DEF JobStatusReport
<1>4. \/ billed' = billed
      \/ /\ Head(toServer[g])[1] = "completed"
         /\ billed' = [billed EXCEPT ![Head(toServer[g])[2]] = @ + 1]
  BY Zenon DEF JobStatusReport
<1>5. gpuStatus' = gpuStatus \/ gpuStatus' = [gpuStatus EXCEPT ![g] = "online"]
  BY Zenon DEF JobStatusReport
<1>6. QED
  BY <1>1, <1>2, <1>3, <1>4, <1>5

LEMMA FaultTypes ==
  ASSUME TypeOK, NEW f, (Fault(f) /\ UNCHANGED mishaps) \/ Mishap(f)
  PROVE  mishaps' \in Nat /\ happened' \subseteq Faults
BY DEF TypeOK, Fault, Mishap

LEMMA TypeStep ==
  ASSUME IInv, [Next]_vars
  PROVE  TypeOK'
<1>1. /\ toAgent \in [Gpu -> Seq(ToAgentMsg)]
      /\ toServer \in [Gpu -> Seq(ToServerMsg)]
      /\ \A g \in Gpu : phase[g] \in {"accepted", "executing"} => cur[g] \in Job
  BY DEF IInv, JobInv, HeldInHandler, TypeOK, ToAgentMsg, ToServerMsg
<1> USE DEF IInv, TypeOK, ToAgentMsg, ToServerMsg, jobVars, gpuVars, serverVars,
            netVars, agentVars, faultVars, JobStatus, GpuStatus
<1>2. ASSUME NEW j \in Job, NEW g \in Gpu, SubmitMatched(j, g)
      PROVE  TypeOK'
  BY <1>2 DEF SubmitMatched
<1>3. ASSUME NEW j \in Job, SubmitPending(j)
      PROVE  TypeOK'
  BY <1>3 DEF SubmitPending
<1>4. ASSUME NEW j \in Job, SendAssign(j)
      PROVE  TypeOK'
  <2>1. jobGpu[j] \in Gpu \cup {None} /\ <<"assign", j>> \in ToAgentMsg
    OBVIOUS
  <2>2. toAgent' \in [Gpu -> Seq(ToAgentMsg)]
    BY <1>4, <2>1, SendTypes DEF SendAssign
  <2>3. QED
    BY <1>4, <2>2 DEF SendAssign
<1>5. ASSUME NEW j \in Job, CancelBegin(j)
      PROVE  TypeOK'
  <2>1. jobGpu[j] \in Gpu \cup {None} /\ <<"cancel", j>> \in ToAgentMsg
    OBVIOUS
  <2>2. toAgent' \in [Gpu -> Seq(ToAgentMsg)]
    BY <1>1, <1>5, <2>1, SendTypes DEF CancelBegin
  <2>3. QED
    BY <1>5, <2>2, FaultTypes DEF CancelBegin
<1>6. ASSUME NEW j \in Job, CancelCommit(j)
      PROVE  TypeOK'
  BY <1>6 DEF CancelCommit
<1>7. ASSUME NEW g \in Gpu, NEW s \in GpuStatus, Patch(g, s)
      PROVE  TypeOK'
  <2>1. <<"stop", None>> \in ToAgentMsg
    OBVIOUS
  <2>2. toAgent' \in [Gpu -> Seq(ToAgentMsg)]
    BY <1>1, <1>7, <2>1, SendTypes DEF Patch
  <2>3. mishaps' \in Nat /\ happened' \subseteq Faults
    BY <1>7, FaultTypes DEF Patch
  <2>4. QED
    BY <1>7, <2>2, <2>3 DEF Patch
<1>8. ASSUME NEW g \in Gpu,
             MarkOnline(g) \/ Heartbeat(g) \/ GoStale(g) \/ NoticeDisconnect(g) \/ MarkOffline(g)
      PROVE  TypeOK'
  BY <1>8, FaultTypes DEF MarkOnline, Heartbeat, GoStale, NoticeDisconnect, MarkOffline, Session
<1>9. ASSUME NEW g \in Gpu, toServer[g] # <<>>
      PROVE  /\ Head(toServer[g]) \in ToServerMsg
             /\ [toServer EXCEPT ![g] = Tail(@)] \in [Gpu -> Seq(ToServerMsg)]
  BY <1>1, <1>9, TailSeq
<1>10. ASSUME NEW g \in Gpu, JobStatusReport(g)
       PROVE  TypeOK'
  <2>1. PICK s \in ToServer, j \in Job : Head(toServer[g]) = <<s, j>>
    BY <1>9, <1>10 DEF JobStatusReport
  <2>2. /\ jobStatus' = [jobStatus EXCEPT ![j] = s]
        /\ started' = started \/ started' = started \cup {j}
        /\ billed' = billed \/ billed' = [billed EXCEPT ![j] = billed[j] + 1]
        /\ gpuStatus' = gpuStatus \/ gpuStatus' = [gpuStatus EXCEPT ![g] = "online"]
    BY <1>10, <2>1, ReportDoes
  <2>3. toServer' \in [Gpu -> Seq(ToServerMsg)]
    BY <1>9, <1>10 DEF JobStatusReport
  <2>4. QED
    BY <1>10, <2>2, <2>3 DEF JobStatusReport
<1>11. ASSUME NEW g \in Gpu, DropReport(g)
       PROVE  TypeOK'
  BY <1>9, <1>11, FaultTypes DEF DropReport
<1>12. ASSUME SweepRead
       PROVE  TypeOK'
  <2>1. happened' \subseteq Faults
    BY <1>12 DEF SweepRead, Fault
  <2>2. QED
    BY <1>12, <2>1 DEF SweepRead, StaleGpus, Sweep
<1>13. ASSUME SweepCommit
       PROVE  TypeOK'
  BY <1>13 DEF SweepCommit, NoSweep, Sweep
<1>14. ASSUME NEW g \in Gpu, Connect(g)
       PROVE  TypeOK'
  BY <1>14 DEF Connect, Session
<1>15. ASSUME NEW g \in Gpu, HandleMessage(g)
       PROVE  TypeOK'
  <2>1. /\ Head(toAgent[g]) \in ToAgentMsg
        /\ toAgent' \in [Gpu -> Seq(ToAgentMsg)]
    BY <1>1, <1>15, TailSeq DEF HandleMessage
  <2>2. Head(toAgent[g])[2] \in Job \cup {None}
    BY <2>1
  <2>3. QED
    BY <1>15, <2>1, <2>2 DEF HandleMessage, Phase
<1>16. ASSUME NEW g \in Gpu, AnnounceRunning(g)
       PROVE  TypeOK'
  <2>1. toServer' \in [Gpu -> Seq(ToServerMsg)] /\ phase' \in [Gpu -> Phase]
    BY <1>1, <1>16, StatusTypes DEF AnnounceRunning, Phase
  <2>2. QED
    BY <1>16, <2>1 DEF AnnounceRunning
<1>17. ASSUME NEW g \in Gpu, EndJob(g)
       PROVE  TypeOK'
  <2>1. toServer' \in [Gpu -> Seq(ToServerMsg)] /\ phase' \in [Gpu -> Phase]
    BY <1>1, <1>17, StatusTypes DEF EndJob, Phase
  <2>2. QED
    BY <1>1, <1>17, <2>1 DEF EndJob
<1>18. ASSUME NEW g \in Gpu, NEW q \in Cut(toAgent[g])
       PROVE  [toAgent EXCEPT ![g] = q] \in [Gpu -> Seq(ToAgentMsg)]
  BY <1>1, CutSeq
<1>19. ASSUME NEW g \in Gpu, NEW q \in Cut(toServer[g])
       PROVE  [toServer EXCEPT ![g] = q] \in [Gpu -> Seq(ToServerMsg)]
  BY <1>1, CutSeq
<1>20. ASSUME NEW g \in Gpu, Break(g)
       PROVE  TypeOK'
  <2>1. mishaps' \in Nat /\ happened' \subseteq Faults
    BY <1>20, FaultTypes DEF Break
  <2>2. PICK q \in Cut(toAgent[g]) : toAgent' = [toAgent EXCEPT ![g] = q]
    BY <1>20, BreakCuts, Zenon
  <2>3. PICK r \in Cut(toServer[g]) : toServer' = [toServer EXCEPT ![g] = r]
    BY <1>20, BreakCuts, Zenon
  <2>4. QED
    BY <1>18, <1>19, <1>20, <2>1, <2>2, <2>3 DEF Break
<1>21. ASSUME NEW g \in Gpu, AgentCrash(g)
       PROVE  TypeOK'
  <2>1. mishaps' \in Nat /\ happened' \subseteq Faults
    BY <1>21, FaultTypes DEF AgentCrash
  <2>5. PICK r \in Cut(toServer[g]) : toServer' = [toServer EXCEPT ![g] = r]
    BY <1>21, CrashCuts, Zenon
  <2>2. toServer' \in [Gpu -> Seq(ToServerMsg)]
    BY <1>19, <2>5
  <2>3. toAgent' \in [Gpu -> Seq(ToAgentMsg)]
    BY <1>1, <1>21 DEF AgentCrash
  <2>4. QED
    BY <1>21, <2>1, <2>2, <2>3 DEF AgentCrash, Phase
<1>22. ASSUME NEW g \in Gpu, AgentStart(g)
       PROVE  TypeOK'
  BY <1>1, <1>22 DEF AgentStart, Phase
<1>23. ASSUME BackendRestart
       PROVE  TypeOK'
  <2>1. mishaps' \in Nat /\ happened' \subseteq Faults
    BY <1>23, FaultTypes DEF BackendRestart
  <2>2. QED
    BY <1>1, <1>23, <2>1 DEF BackendRestart, Session
<1>24. CASE UNCHANGED vars
  BY <1>24 DEF vars
<1> HIDE DEF IInv, TypeOK
<1>25. QED
  BY <1>2, <1>3, <1>4, <1>5, <1>6, <1>7, <1>8, <1>10, <1>11, <1>12, <1>13, <1>14,
     <1>15, <1>16, <1>17, <1>20, <1>21, <1>22, <1>23, <1>24 DEF Next

-----------------------------------------------------------------------------
(* Steps that only lose: messages, requests, current jobs.                 *)

NoShift == [g \in Gpu |-> 0]

\* The assignments that are left were there before, down[g] places later.
AssignsLeft(down) ==
  \A g \in Gpu : \A i \in 1 .. Len(toAgent'[g]) :
    toAgent'[g][i][1] = "assign" =>
      i + down[g] \in 1 .. Len(toAgent[g]) /\ toAgent'[g][i] = toAgent[g][i + down[g]]

\* The same of the reports.
ReportsLeft(up) ==
  \A g \in Gpu : \A i \in 1 .. Len(toServer'[g]) :
    i + up[g] \in 1 .. Len(toServer[g]) /\ toServer'[g][i] = toServer[g][i + up[g]]

JobsLeft ==
  /\ jobGpu' = jobGpu /\ billed' = billed /\ ended' = ended
  /\ dispatching' \subseteq dispatching
  /\ \A j \in Job : jobStatus'[j] = "none" => jobStatus[j] = "none"

HeldLeft ==
  \A g \in Gpu : \/ cur'[g] = cur[g] /\ phase'[g] = phase[g]
                 \/ cur'[g] = None /\ phase'[g] \in {"idle", "stopped", "down"}

\* Nothing is new: the invariant stays.
LEMMA LosingKeeps ==
  ASSUME IInv, TypeOK',
         NEW down \in [Gpu -> {0, 1}], NEW up \in [Gpu -> {0, 1}],
         AssignsLeft(down), ReportsLeft(up), JobsLeft, HeldLeft
  PROVE  JobInv'
<1> USE DEF IInv, JobInv
<1>1. ASSUME NEW j \in Job
      PROVE  /\ NotSent(j) => NotSent(j)'
             /\ NotHeld(j) => NotHeld(j)'
             /\ NotReported(j) => NotReported(j)'
             /\ NotDone(j) => NotDone(j)'
  <2>1. NotSent(j) => NotSent(j)'
    BY DEF NotSent, AssignsLeft
  <2>2. NotHeld(j) => NotHeld(j)'
    BY DEF NotHeld, HeldLeft
  <2>3. NotReported(j) => NotReported(j)'
    BY DEF NotReported, ReportsLeft
  <2>4. NotDone(j) => NotDone(j)'
    BY DEF NotDone, JobsLeft
  <2>5. QED
    BY <2>1, <2>2, <2>3, <2>4
<1>2. NotYetSent'
  BY <1>1 DEF NotYetSent, JobsLeft
<1>3. DispatchedIsSubmitted'
  BY DEF DispatchedIsSubmitted, JobsLeft, TypeOK
<1>4. AssignedOnce'
  <2> SUFFICES ASSUME NEW g \in Gpu, NEW i \in 1 .. Len(toAgent'[g]),
                      toAgent'[g][i][1] = "assign"
               PROVE  /\ toAgent'[g][i][2] \in Job
                      /\ jobGpu'[toAgent'[g][i][2]] = g
                      /\ NotHeld(toAgent[g][i][2])'
                      /\ NotReported(toAgent[g][i][2])'
                      /\ NotDone(toAgent[g][i][2])'
                      /\ \A k \in 1 .. Len(toAgent'[g]) : toAgent'[g][k] = toAgent'[g][i] => k = i
    BY DEF AssignedOnce
  <2>1. /\ i + down[g] \in 1 .. Len(toAgent[g])
        /\ toAgent'[g][i] = toAgent[g][i + down[g]]
    BY DEF AssignsLeft
  <2>2. PICK j \in Job : j = toAgent'[g][i][2]
    BY <2>1 DEF AssignedOnce
  <2>3. jobGpu[j] = g /\ NotHeld(j) /\ NotReported(j) /\ NotDone(j)
    BY <2>1, <2>2 DEF AssignedOnce
  <2>4. NotHeld(j)' /\ NotReported(j)' /\ NotDone(j)' /\ jobGpu'[j] = g
    BY <1>1, <2>3 DEF JobsLeft
  <2>5. ASSUME NEW k \in 1 .. Len(toAgent'[g]), toAgent'[g][k] = toAgent'[g][i]
        PROVE  k = i
    <3>1. /\ k + down[g] \in 1 .. Len(toAgent[g])
          /\ toAgent'[g][k] = toAgent[g][k + down[g]]
      BY <2>5 DEF AssignsLeft
    <3>2. k + down[g] = i + down[g]
      BY <2>1, <2>5, <3>1 DEF AssignedOnce
    <3>3. down[g] \in Int /\ k \in Int /\ i \in Int
      OBVIOUS
    <3>4. QED
      BY <3>2, <3>3
  <2>6. QED
    BY <2>2, <2>4, <2>5 DEF NotHeld, NotReported, NotDone
<1>5. HeldInHandler'
  BY DEF HeldInHandler, HeldLeft
<1>6. HeldIsUnfinished'
  <2> SUFFICES ASSUME NEW g \in Gpu, cur'[g] # None
               PROVE  /\ jobGpu'[cur'[g]] = g
                      /\ billed'[cur'[g]] = 0
                      /\ phase'[g] # "stuck" => cur'[g] \notin ended'
                      /\ phase'[g] = "accepted" => NotReported(cur[g])'
                      /\ \A i \in 1 .. Len(toServer'[g]) :
                           toServer'[g][i][2] = cur'[g] => toServer'[g][i][1] = "running"
    BY DEF HeldIsUnfinished
  <2>1. PICK j \in Job : j = cur[g] /\ j = cur'[g]
    BY DEF HeldLeft, TypeOK
  <2>2. phase'[g] = phase[g]
    BY DEF HeldLeft
  <2>3. /\ jobGpu[j] = g /\ billed[j] = 0
        /\ phase[g] # "stuck" => j \notin ended
        /\ phase[g] = "accepted" => NotReported(j)
        /\ \A i \in 1 .. Len(toServer[g]) :
             toServer[g][i][2] = j => toServer[g][i][1] = "running"
    BY <2>1 DEF HeldIsUnfinished
  <2>4. phase'[g] = "accepted" => NotReported(j)'
    BY <1>1, <2>2, <2>3
  <2>5. \A i \in 1 .. Len(toServer'[g]) :
          toServer'[g][i][2] = j => toServer'[g][i][1] = "running"
    BY <2>3 DEF ReportsLeft
  <2>6. QED
    BY <2>1, <2>2, <2>3, <2>4, <2>5 DEF JobsLeft, NotReported
<1>7. ReportsInOrder'
  <2> SUFFICES ASSUME NEW g \in Gpu, NEW i \in 1 .. Len(toServer'[g])
               PROVE  /\ jobGpu'[toServer'[g][i][2]] = g
                      /\ billed'[toServer'[g][i][2]] = 0
                      /\ toServer'[g][i][1] # "running" =>
                           /\ toServer'[g][i][2] \in ended'
                           /\ \A k \in 1 .. Len(toServer'[g]) :
                                k > i => toServer'[g][k][2] # toServer'[g][i][2]
    BY DEF ReportsInOrder
  <2>1. /\ i + up[g] \in 1 .. Len(toServer[g])
        /\ toServer'[g][i] = toServer[g][i + up[g]]
    BY DEF ReportsLeft
  <2>2. ASSUME NEW k \in 1 .. Len(toServer'[g]), k > i
        PROVE  /\ k + up[g] \in 1 .. Len(toServer[g]) /\ k + up[g] > i + up[g]
               /\ toServer'[g][k] = toServer[g][k + up[g]]
    <3>1. up[g] \in Int /\ k \in Int /\ i \in Int
      OBVIOUS
    <3>2. QED
      BY <2>2, <3>1 DEF ReportsLeft
  <2>3. QED
    BY <2>1, <2>2 DEF ReportsInOrder, JobsLeft
<1>8. BilledForWork'
  BY DEF BilledForWork, JobsLeft
<1>9. QED
  BY <1>2, <1>3, <1>4, <1>5, <1>6, <1>7, <1>8

LEMMA NoShiftType == NoShift \in [Gpu -> {0, 1}]
BY DEF NoShift

\* Channels that are as they were, or shorter at either end, or empty.
LEMMA SameAssigns ==
  ASSUME TypeOK, toAgent' = toAgent
  PROVE  AssignsLeft(NoShift)
<1>1. \A g \in Gpu : toAgent[g] \in Seq(ToAgentMsg)
  BY DEF TypeOK, ToAgentMsg
<1>2. \A g \in Gpu : Len(toAgent[g]) \in Nat
  BY <1>1, LenProperties
<1>3. QED
  BY <1>2 DEF AssignsLeft, NoShift

LEMMA SameReports ==
  ASSUME TypeOK, toServer' = toServer
  PROVE  ReportsLeft(NoShift)
<1>1. \A g \in Gpu : toServer[g] \in Seq(ToServerMsg)
  BY DEF TypeOK, ToServerMsg
<1>2. \A g \in Gpu : Len(toServer[g]) \in Nat
  BY <1>1, LenProperties
<1>3. QED
  BY <1>2 DEF ReportsLeft, NoShift

LEMMA CutAssigns ==
  ASSUME TypeOK, NEW g \in Gpu, NEW q \in Cut(toAgent[g]),
         toAgent' = [toAgent EXCEPT ![g] = q]
  PROVE  AssignsLeft(NoShift)
<1>1. \A h \in Gpu : toAgent[h] \in Seq(ToAgentMsg)
  BY DEF TypeOK, ToAgentMsg
<1>2. \A h \in Gpu : Len(toAgent[h]) \in Nat
  BY <1>1, LenProperties
<1>3. Len(q) \in 0 .. Len(toAgent[g]) /\ \A i \in 1 .. Len(q) : q[i] = toAgent[g][i]
  BY <1>1, CutSeq
<1>4. \A h \in Gpu : toAgent'[h] = IF h = g THEN q ELSE toAgent[h]
  BY DEF TypeOK
<1>5. QED
  BY <1>2, <1>3, <1>4 DEF AssignsLeft, NoShift

LEMMA CutReports ==
  ASSUME TypeOK, NEW g \in Gpu, NEW q \in Cut(toServer[g]),
         toServer' = [toServer EXCEPT ![g] = q]
  PROVE  ReportsLeft(NoShift)
<1>1. \A h \in Gpu : toServer[h] \in Seq(ToServerMsg)
  BY DEF TypeOK, ToServerMsg
<1>2. \A h \in Gpu : Len(toServer[h]) \in Nat
  BY <1>1, LenProperties
<1>3. Len(q) \in 0 .. Len(toServer[g]) /\ \A i \in 1 .. Len(q) : q[i] = toServer[g][i]
  BY <1>1, CutSeq
<1>4. \A h \in Gpu : toServer'[h] = IF h = g THEN q ELSE toServer[h]
  BY DEF TypeOK
<1>5. QED
  BY <1>2, <1>3, <1>4 DEF ReportsLeft, NoShift

\* A message that is not an assignment adds none.
LEMMA SendOther ==
  ASSUME TypeOK, NEW g \in Gpu \cup {None}, NEW m \in ToAgentMsg, m[1] # "assign",
         SendToGpu(g, m)
  PROVE  AssignsLeft(NoShift)
<1>1. \A h \in Gpu : toAgent[h] \in Seq(ToAgentMsg)
  BY DEF TypeOK, ToAgentMsg
<1>2. \A h \in Gpu : Len(toAgent[h]) \in Nat
  BY <1>1, LenProperties
<1>3. CASE toAgent' = toAgent
  BY <1>3, SameAssigns
<1>4. CASE toAgent' = [toAgent EXCEPT ![g] = Append(toAgent[g], m)]
  <2>1. CASE g \in Gpu
    <3>1. /\ Len(Append(toAgent[g], m)) = Len(toAgent[g]) + 1
          /\ \A i \in 1 .. Len(toAgent[g]) : Append(toAgent[g], m)[i] = toAgent[g][i]
          /\ Append(toAgent[g], m)[Len(toAgent[g]) + 1] = m
      BY <1>1, <2>1, AppendSeq
    <3>2. \A h \in Gpu : toAgent'[h] = IF h = g THEN Append(toAgent[g], m) ELSE toAgent[h]
      BY <1>4 DEF TypeOK
    <3>3. ASSUME NEW h \in Gpu, NEW i \in 1 .. Len(toAgent'[h]), toAgent'[h][i][1] = "assign"
          PROVE  i + NoShift[h] \in 1 .. Len(toAgent[h]) /\ toAgent'[h][i] = toAgent[h][i + NoShift[h]]
      <4>1. i + NoShift[h] = i
        BY <1>2, <3>1, <3>2 DEF NoShift
      <4>2. CASE h = g
        <5>1. i \in 1 .. Len(toAgent[g]) + 1 /\ Len(toAgent[g]) \in Nat
          BY <1>2, <2>1, <3>1, <3>2, <4>2
        <5>2. i # Len(toAgent[g]) + 1
          BY <3>1, <3>2, <3>3, <4>2
        <5>3. i \in 1 .. Len(toAgent[g])
          BY <5>1, <5>2
        <5>4. QED
          BY <3>1, <3>2, <4>1, <4>2, <5>3
      <4>3. CASE h # g
        BY <1>2, <3>2, <3>3, <4>1, <4>3
      <4>4. QED
        BY <4>2, <4>3
    <3>4. QED
      BY <3>3 DEF AssignsLeft
  <2>2. CASE g \notin Gpu
    <3>1. toAgent' = toAgent
      BY <1>4, <2>2 DEF TypeOK
    <3>2. QED
      BY <3>1, SameAssigns
  <2>3. QED
    BY <2>1, <2>2
<1>5. QED
  BY <1>3, <1>4 DEF SendToGpu

\* A report that is taken from the channel.
LEMMA TakenReport ==
  ASSUME TypeOK, NEW g \in Gpu, toServer[g] # <<>>,
         toServer' = [toServer EXCEPT ![g] = Tail(@)]
  PROVE  ReportsLeft([NoShift EXCEPT ![g] = 1])
<1>1. \A h \in Gpu : toServer[h] \in Seq(ToServerMsg)
  BY DEF TypeOK, ToServerMsg
<1>2. \A h \in Gpu : Len(toServer[h]) \in Nat
  BY <1>1, LenProperties
<1>3. /\ Len(Tail(toServer[g])) = Len(toServer[g]) - 1
      /\ \A i \in 1 .. Len(Tail(toServer[g])) : Tail(toServer[g])[i] = toServer[g][i + 1]
  BY <1>1, TailSeq
<1>4. \A h \in Gpu : toServer'[h] = IF h = g THEN Tail(toServer[g]) ELSE toServer[h]
  BY DEF TypeOK
<1>5. \A h \in Gpu : [NoShift EXCEPT ![g] = 1][h] = IF h = g THEN 1 ELSE 0
  BY DEF NoShift
<1> DEFINE shift == [NoShift EXCEPT ![g] = 1]
<1>6. ASSUME NEW h \in Gpu, NEW i \in 1 .. Len(toServer'[h])
      PROVE  i + shift[h] \in 1 .. Len(toServer[h]) /\ toServer'[h][i] = toServer[h][i + shift[h]]
  <2>1. CASE h = g
    <3>1. toServer'[h] = Tail(toServer[g]) /\ shift[h] = 1
      BY <1>4, <1>5, <2>1
    <3>2. i \in 1 .. Len(toServer[g]) - 1 /\ Len(toServer[g]) \in Nat
      BY <1>2, <1>3, <3>1
    <3>3. i + 1 \in 1 .. Len(toServer[g]) /\ Tail(toServer[g])[i] = toServer[g][i + 1]
      BY <1>3, <3>2
    <3>4. QED
      BY <2>1, <3>1, <3>3
  <2>2. CASE h # g
    <3>1. toServer'[h] = toServer[h] /\ shift[h] = 0 /\ Len(toServer[h]) \in Nat
      BY <1>2, <1>4, <1>5, <2>2
    <3>2. i \in 1 .. Len(toServer[h])
      BY <3>1, Zenon
    <3>3. i + shift[h] = i
      BY <3>1, <3>2
    <3>4. QED
      BY <3>1, <3>2, <3>3, Zenon
  <2>3. QED
    BY <2>1, <2>2
<1>7. QED
  BY <1>6 DEF ReportsLeft

\* A message that is taken by the agent.
LEMMA TakenMessage ==
  ASSUME TypeOK, NEW g \in Gpu, toAgent[g] # <<>>,
         toAgent' = [toAgent EXCEPT ![g] = Tail(@)]
  PROVE  AssignsLeft([NoShift EXCEPT ![g] = 1])
<1>1. \A h \in Gpu : toAgent[h] \in Seq(ToAgentMsg)
  BY DEF TypeOK, ToAgentMsg
<1>2. \A h \in Gpu : Len(toAgent[h]) \in Nat
  BY <1>1, LenProperties
<1>3. /\ Len(Tail(toAgent[g])) = Len(toAgent[g]) - 1
      /\ \A i \in 1 .. Len(Tail(toAgent[g])) : Tail(toAgent[g])[i] = toAgent[g][i + 1]
  BY <1>1, TailSeq
<1>4. \A h \in Gpu : toAgent'[h] = IF h = g THEN Tail(toAgent[g]) ELSE toAgent[h]
  BY DEF TypeOK
<1>5. \A h \in Gpu : [NoShift EXCEPT ![g] = 1][h] = IF h = g THEN 1 ELSE 0
  BY DEF NoShift
<1> DEFINE shift == [NoShift EXCEPT ![g] = 1]
<1>6. ASSUME NEW h \in Gpu, NEW i \in 1 .. Len(toAgent'[h]), toAgent'[h][i][1] = "assign"
      PROVE  i + shift[h] \in 1 .. Len(toAgent[h]) /\ toAgent'[h][i] = toAgent[h][i + shift[h]]
  <2>1. CASE h = g
    <3>1. toAgent'[h] = Tail(toAgent[g]) /\ shift[h] = 1
      BY <1>4, <1>5, <2>1
    <3>2. i \in 1 .. Len(toAgent[g]) - 1 /\ Len(toAgent[g]) \in Nat
      BY <1>2, <1>3, <3>1
    <3>3. i + 1 \in 1 .. Len(toAgent[g]) /\ Tail(toAgent[g])[i] = toAgent[g][i + 1]
      BY <1>3, <3>2
    <3>4. QED
      BY <2>1, <3>1, <3>3
  <2>2. CASE h # g
    <3>1. toAgent'[h] = toAgent[h] /\ shift[h] = 0 /\ Len(toAgent[h]) \in Nat
      BY <1>2, <1>4, <1>5, <2>2
    <3>2. i \in 1 .. Len(toAgent[h])
      BY <3>1, Zenon
    <3>3. i + shift[h] = i
      BY <3>1, <3>2
    <3>4. QED
      BY <3>1, <3>2, <3>3, Zenon
  <2>3. QED
    BY <2>1, <2>2
<1>7. QED
  BY <1>6 DEF AssignsLeft

-----------------------------------------------------------------------------
(* Steps that bring something new.                                         *)

\* A match: nothing of the job was anywhere.
LEMMA SubmitKeeps ==
  ASSUME IInv, NEW j \in Job, NEW g \in Gpu, SubmitMatched(j, g)
  PROVE  JobInv'
<1>1. NotSent(j) /\ NotHeld(j) /\ NotReported(j) /\ NotDone(j)
  BY DEF SubmitMatched, IInv, JobInv, NotYetSent
<1>2. /\ UNCHANGED <<billed, toAgent, toServer, phase, cur, ended>>
      /\ jobStatus' = [jobStatus EXCEPT ![j] = "queued"]
      /\ jobGpu' = [jobGpu EXCEPT ![j] = g]
      /\ dispatching' = dispatching \cup {j}
  BY DEF SubmitMatched, netVars, agentVars
<1>3. /\ toAgent \in [Gpu -> Seq(ToAgentMsg)] /\ toServer \in [Gpu -> Seq(ToServerMsg)]
      /\ jobStatus \in [Job -> JobStatus] /\ jobGpu \in [Job -> Gpu \cup {None}]
      /\ cur \in [Gpu -> Job \cup {None}]
  BY DEF IInv, TypeOK, ToAgentMsg, ToServerMsg
<1>4. /\ \A k \in Job : k # j => jobStatus'[k] = jobStatus[k] /\ jobGpu'[k] = jobGpu[k]
      /\ jobStatus'[j] = "queued"
  BY <1>2, <1>3
<1>5. ASSUME NEW k
      PROVE  /\ NotSent(k)' <=> NotSent(k)
             /\ NotHeld(k)' <=> NotHeld(k)
             /\ NotReported(k)' <=> NotReported(k)
             /\ NotDone(k)' <=> NotDone(k)
  BY <1>2 DEF NotSent, NotHeld, NotReported, NotDone
<1>6. NotYetSent'
  BY <1>1, <1>2, <1>4, <1>5 DEF IInv, JobInv, NotYetSent
<1>7. DispatchedIsSubmitted'
  BY <1>2, <1>4 DEF IInv, JobInv, DispatchedIsSubmitted, TypeOK
<1>8. AssignedOnce'
  <2> SUFFICES ASSUME NEW h \in Gpu, NEW i \in 1 .. Len(toAgent[h]), toAgent[h][i][1] = "assign"
               PROVE  jobGpu'[toAgent[h][i][2]] = h
    BY <1>2, <1>5 DEF IInv, JobInv, AssignedOnce, NotHeld, NotReported, NotDone
  <2>1. toAgent[h][i] \in ToAgentMsg
    BY <1>3, ElementOfSeq
  <2>2. toAgent[h][i] = <<"assign", toAgent[h][i][2]>>
    BY <2>1 DEF ToAgentMsg
  <2>3. toAgent[h][i][2] # j
    BY <1>1, <2>2 DEF NotSent
  <2>4. QED
    BY <1>4, <2>3 DEF IInv, JobInv, AssignedOnce
<1>9. HeldInHandler'
  BY <1>2 DEF IInv, JobInv, HeldInHandler
<1>10. HeldIsUnfinished'
  <2> SUFFICES ASSUME NEW h \in Gpu, cur[h] # None
               PROVE  jobGpu'[cur[h]] = h
    BY <1>2, <1>5 DEF IInv, JobInv, HeldIsUnfinished, NotReported
  <2>1. cur[h] \in Job /\ cur[h] # j
    BY <1>1, <1>3 DEF NotHeld
  <2>2. QED
    BY <1>4, <2>1 DEF IInv, JobInv, HeldIsUnfinished
<1>11. ReportsInOrder'
  <2> SUFFICES ASSUME NEW h \in Gpu, NEW i \in 1 .. Len(toServer[h])
               PROVE  jobGpu'[toServer[h][i][2]] = h
    BY <1>2 DEF IInv, JobInv, ReportsInOrder
  <2>1. toServer[h][i] \in ToServerMsg
    BY <1>3, ElementOfSeq
  <2>2. toServer[h][i][2] \in Job /\ toServer[h][i][2] # j
    BY <1>1, <2>1 DEF NotReported, ToServerMsg
  <2>3. QED
    BY <1>4, <2>2 DEF IInv, JobInv, ReportsInOrder
<1>12. BilledForWork'
  BY <1>2 DEF IInv, JobInv, BilledForWork
<1>13. QED
  BY <1>6, <1>7, <1>8, <1>9, <1>10, <1>11, <1>12 DEF JobInv

\* The assignment is sent, or lost with its socket.
LEMMA SendKeeps ==
  ASSUME IInv, TypeOK', NEW j \in Job, SendAssign(j)
  PROVE  JobInv'
<1> DEFINE g == jobGpu[j]
           m == <<"assign", j>>
           q == Append(toAgent[g], m)
<1>1. /\ NotSent(j) /\ NotHeld(j) /\ NotReported(j) /\ NotDone(j)
      /\ jobStatus[j] # "none" /\ j \in dispatching
  BY DEF SendAssign, IInv, JobInv, NotYetSent, DispatchedIsSubmitted
<1>2. /\ UNCHANGED <<jobStatus, jobGpu, billed, toServer, phase, cur, ended>>
      /\ dispatching' = dispatching \ {j}
  BY DEF SendAssign, jobVars, agentVars
<1>3. /\ toAgent \in [Gpu -> Seq(ToAgentMsg)]
      /\ g \in Gpu \cup {None} /\ m \in ToAgentMsg
  BY DEF IInv, TypeOK, ToAgentMsg
<1>4. toAgent' = toAgent \/ toAgent' = [toAgent EXCEPT ![g] = q]
  BY DEF SendAssign, SendToGpu
<1>5. CASE toAgent' = toAgent
  <2>1. AssignsLeft(NoShift) /\ ReportsLeft(NoShift)
    BY <1>2, <1>5, SameAssigns, SameReports DEF IInv
  <2>2. JobsLeft /\ HeldLeft
    BY <1>2 DEF JobsLeft, HeldLeft
  <2>3. QED
    BY <2>1, <2>2, NoShiftType, LosingKeeps
<1>6. CASE g \in Gpu /\ toAgent' = [toAgent EXCEPT ![g] = q]
  <2>1. /\ Len(q) = Len(toAgent[g]) + 1 /\ Len(toAgent[g]) \in Nat
        /\ \A i \in 1 .. Len(toAgent[g]) : q[i] = toAgent[g][i]
        /\ q[Len(toAgent[g]) + 1] = m
    BY <1>3, <1>6, AppendSeq
  <2>2. \A h \in Gpu : toAgent'[h] = IF h = g THEN q ELSE toAgent[h]
    BY <1>3, <1>6
  <2> HIDE DEF q
  <2>3. ASSUME NEW h \in Gpu, NEW i \in 1 .. Len(toAgent'[h])
        PROVE  \/ i \in 1 .. Len(toAgent[h]) /\ toAgent'[h][i] = toAgent[h][i]
               \/ h = g /\ i = Len(toAgent[g]) + 1 /\ toAgent'[h][i] = m
    <3>1. CASE h # g
      BY <2>2, <3>1
    <3>2. CASE h = g
      <4>1. i \in 1 .. Len(toAgent[g]) + 1
        BY <2>1, <2>2, <3>2
      <4>2. i \in 1 .. Len(toAgent[g]) \/ i = Len(toAgent[g]) + 1
        BY <2>1, <4>1
      <4>3. QED
        BY <2>1, <2>2, <3>2, <4>2
    <3>3. QED
      BY <3>1, <3>2
  <2>4. ASSUME NEW k
        PROVE  /\ NotHeld(k)' <=> NotHeld(k)
               /\ NotReported(k)' <=> NotReported(k)
               /\ NotDone(k)' <=> NotDone(k)
    BY <1>2 DEF NotHeld, NotReported, NotDone
  <2>5. NotYetSent'
    <3> SUFFICES ASSUME NEW k \in Job, jobStatus[k] = "none" \/ k \in dispatching \ {j}
                 PROVE  NotSent(k)'
      BY <1>2, <2>4 DEF IInv, JobInv, NotYetSent
    <3>1. k # j /\ NotSent(k)
      BY <1>1 DEF IInv, JobInv, NotYetSent
    <3>2. QED
      BY <2>3, <3>1 DEF NotSent
  <2>6. DispatchedIsSubmitted'
    BY <1>2 DEF IInv, JobInv, DispatchedIsSubmitted
  <2>7. AssignedOnce'
    <3> SUFFICES ASSUME NEW h \in Gpu, NEW i \in 1 .. Len(toAgent'[h]),
                        toAgent'[h][i][1] = "assign"
                 PROVE  /\ toAgent'[h][i][2] \in Job
                        /\ jobGpu[toAgent'[h][i][2]] = h
                        /\ NotHeld(toAgent'[h][i][2])
                        /\ NotReported(toAgent'[h][i][2])
                        /\ NotDone(toAgent'[h][i][2])
                        /\ \A k \in 1 .. Len(toAgent'[h]) : toAgent'[h][k] = toAgent'[h][i] => k = i
      BY <1>2, <2>4 DEF AssignedOnce, NotHeld, NotReported, NotDone
    <3>1. CASE h = g /\ i = Len(toAgent[g]) + 1 /\ toAgent'[h][i] = m
      <4>1. \A k \in 1 .. Len(toAgent'[h]) : toAgent'[h][k] = toAgent'[h][i] => k = i
        BY <1>1, <2>3, <3>1 DEF NotSent
      <4>2. QED
        BY <1>1, <3>1, <4>1
    <3>2. CASE i \in 1 .. Len(toAgent[h]) /\ toAgent'[h][i] = toAgent[h][i]
      <4>1. toAgent[h][i] # m
        BY <1>1, <3>2 DEF NotSent
      <4>2. \A k \in 1 .. Len(toAgent'[h]) : toAgent'[h][k] = toAgent'[h][i] => k = i
        BY <2>3, <3>2, <4>1 DEF IInv, JobInv, AssignedOnce
      <4>3. QED
        BY <3>2, <4>2 DEF IInv, JobInv, AssignedOnce
    <3>3. QED
      BY <2>3, <3>1, <3>2
  <2>8. HeldInHandler'
    BY <1>2 DEF IInv, JobInv, HeldInHandler
  <2>9. HeldIsUnfinished'
    BY <1>2, <2>4 DEF IInv, JobInv, HeldIsUnfinished, NotReported
  <2>10. ReportsInOrder' /\ BilledForWork'
    BY <1>2 DEF IInv, JobInv, ReportsInOrder, BilledForWork
  <2>11. QED
    BY <2>5, <2>6, <2>7, <2>8, <2>9, <2>10 DEF JobInv
<1>7. CASE g \notin Gpu
  <2>1. toAgent' = toAgent
    BY <1>3, <1>4, <1>7
  <2>2. QED
    BY <1>5, <2>1
<1>8. QED
  BY <1>4, <1>5, <1>6, <1>7

\* The agent takes a message; an assignment makes its job the current one.
LEMMA HandleKeeps ==
  ASSUME IInv, TypeOK', NEW g \in Gpu, HandleMessage(g)
  PROVE  JobInv'
<1> DEFINE m == Head(toAgent[g])
           j == m[2]
           down == [NoShift EXCEPT ![g] = 1]
<1>1. /\ UNCHANGED <<jobStatus, jobGpu, billed, dispatching, toServer, ended>>
      /\ phase[g] = "idle" /\ toAgent[g] # <<>>
      /\ toAgent' = [toAgent EXCEPT ![g] = Tail(@)]
  BY DEF HandleMessage, jobVars, serverVars
<1>2. /\ toAgent \in [Gpu -> Seq(ToAgentMsg)] /\ toServer \in [Gpu -> Seq(ToServerMsg)]
      /\ cur \in [Gpu -> Job \cup {None}] /\ phase \in [Gpu -> Phase]
  BY DEF IInv, TypeOK, ToAgentMsg, ToServerMsg
<1>3. /\ m \in ToAgentMsg /\ m = toAgent[g][1] /\ 1 \in 1 .. Len(toAgent[g])
      /\ Len(toAgent[g]) \in Nat
  <2>1. m \in ToAgentMsg /\ m = toAgent[g][1] /\ Len(toAgent[g]) \in Nat \ {0}
    BY <1>1, <1>2, TailSeq
  <2>2. QED
    BY <2>1
<1>4. down \in [Gpu -> {0, 1}] /\ AssignsLeft(down) /\ down[g] = 1
  BY <1>1, TakenMessage DEF IInv, NoShift
<1>5. ReportsLeft(NoShift) /\ JobsLeft
  BY <1>1, SameReports DEF IInv, JobsLeft
<1> HIDE DEF m, down
<1>6. CASE m[1] = "assign"
  <2>1. /\ phase' = [phase EXCEPT ![g] = "accepted"]
        /\ cur' = [cur EXCEPT ![g] = j]
    BY <1>6 DEF HandleMessage, m
  <2>2. /\ j \in Job /\ jobGpu[j] = g
        /\ NotHeld(j) /\ NotReported(j) /\ NotDone(j)
        /\ \A k \in 1 .. Len(toAgent[g]) : toAgent[g][k] = m => k = 1
    BY <1>3, <1>6 DEF IInv, JobInv, AssignedOnce
  <2>3. m = <<"assign", j>>
    BY <1>3, <1>6 DEF ToAgentMsg
  <2>4. /\ \A h \in Gpu : h # g => cur'[h] = cur[h] /\ phase'[h] = phase[h]
        /\ cur'[g] = j /\ phase'[g] = "accepted"
    BY <1>2, <2>1
  <2>5. ASSUME NEW k \in Job
        PROVE  /\ NotSent(k) => NotSent(k)'
               /\ NotHeld(k) /\ k # j => NotHeld(k)'
               /\ NotReported(k)' <=> NotReported(k)
               /\ NotDone(k)' <=> NotDone(k)
    <3>1. NotSent(k) => NotSent(k)'
      BY <1>4 DEF NotSent, AssignsLeft
    <3>2. NotHeld(k) /\ k # j => NotHeld(k)'
      BY <2>4 DEF NotHeld
    <3>3. QED
      BY <1>1, <3>1, <3>2 DEF NotReported, NotDone
  <2>6. NotYetSent'
    <3>1. \A k \in Job : jobStatus[k] = "none" \/ k \in dispatching => k # j
      BY <1>3, <2>3 DEF IInv, JobInv, NotYetSent, NotSent
    <3>2. QED
      BY <1>1, <2>5, <3>1 DEF IInv, JobInv, NotYetSent
  <2>7. DispatchedIsSubmitted'
    BY <1>1 DEF IInv, JobInv, DispatchedIsSubmitted
  <2>8. AssignedOnce'
    <3> SUFFICES ASSUME NEW h \in Gpu, NEW i \in 1 .. Len(toAgent'[h]),
                        toAgent'[h][i][1] = "assign"
                 PROVE  /\ toAgent'[h][i][2] \in Job
                        /\ jobGpu'[toAgent'[h][i][2]] = h
                        /\ NotHeld(toAgent[h][i][2])'
                        /\ NotReported(toAgent[h][i][2])'
                        /\ NotDone(toAgent[h][i][2])'
                        /\ \A k \in 1 .. Len(toAgent'[h]) : toAgent'[h][k] = toAgent'[h][i] => k = i
      BY DEF AssignedOnce
    <3>1. /\ i + down[h] \in 1 .. Len(toAgent[h])
          /\ toAgent'[h][i] = toAgent[h][i + down[h]]
      BY <1>4 DEF AssignsLeft
    <3>2. PICK k \in Job : k = toAgent'[h][i][2]
      BY <3>1 DEF IInv, JobInv, AssignedOnce
    <3>3. jobGpu[k] = h /\ NotHeld(k) /\ NotReported(k) /\ NotDone(k)
      BY <3>1, <3>2 DEF IInv, JobInv, AssignedOnce
    <3>4. k # j
      <4>1. CASE h = g
        <5>1. i + down[g] # 1
          BY <1>4, <4>1
        <5>2. toAgent[g][i + down[g]] # m
          BY <2>2, <3>1, <4>1, <5>1
        <5>3. toAgent'[h][i] \in ToAgentMsg
          BY <1>2, <3>1, ElementOfSeq
        <5>4. toAgent'[h][i] = <<"assign", k>>
          BY <3>2, <5>3 DEF ToAgentMsg
        <5>5. QED
          BY <2>3, <3>1, <4>1, <5>2, <5>4
      <4>2. CASE h # g
        BY <2>2, <3>3, <4>2
      <4>3. QED
        BY <4>1, <4>2
    <3>5. NotHeld(k)' /\ NotReported(k)' /\ NotDone(k)' /\ jobGpu'[k] = h
      BY <1>1, <2>5, <3>3, <3>4
    <3>6. ASSUME NEW n \in 1 .. Len(toAgent'[h]), toAgent'[h][n] = toAgent'[h][i]
          PROVE  n = i
      <4>1. /\ n + down[h] \in 1 .. Len(toAgent[h])
            /\ toAgent'[h][n] = toAgent[h][n + down[h]]
        BY <1>4, <3>6 DEF AssignsLeft
      <4>2. n + down[h] = i + down[h]
        BY <3>1, <3>6, <4>1 DEF IInv, JobInv, AssignedOnce
      <4>3. down[h] \in Int /\ n \in Int /\ i \in Int
        BY <1>4
      <4>4. QED
        BY <4>2, <4>3
    <3>7. QED
      BY <3>2, <3>5, <3>6 DEF NotHeld, NotReported, NotDone
  <2>9. HeldInHandler'
    BY <2>2, <2>4 DEF IInv, JobInv, HeldInHandler
  <2>10. HeldIsUnfinished'
    <3> SUFFICES ASSUME NEW h \in Gpu, cur'[h] # None
                 PROVE  /\ jobGpu'[cur'[h]] = h
                        /\ billed'[cur'[h]] = 0
                        /\ phase'[h] # "stuck" => cur'[h] \notin ended'
                        /\ phase'[h] = "accepted" => NotReported(cur[h])'
                        /\ \A i \in 1 .. Len(toServer'[h]) :
                             toServer'[h][i][2] = cur'[h] => toServer'[h][i][1] = "running"
      BY DEF HeldIsUnfinished
    <3>1. CASE h = g
      BY <1>1, <2>2, <2>4, <3>1 DEF NotReported, NotDone
    <3>2. CASE h # g
      BY <1>1, <2>4, <3>2 DEF IInv, JobInv, HeldIsUnfinished, NotReported
    <3>3. QED
      BY <3>1, <3>2
  <2>11. ReportsInOrder' /\ BilledForWork'
    BY <1>1 DEF IInv, JobInv, ReportsInOrder, BilledForWork
  <2>12. QED
    BY <2>6, <2>7, <2>8, <2>9, <2>10, <2>11 DEF JobInv
<1>7. CASE m[1] # "assign"
  <2>1. HeldLeft
    <3>1. cur' = cur
      BY <1>7 DEF HandleMessage, m
    <3>2. phase' = phase \/ phase' = [phase EXCEPT ![g] = "stopped"]
      BY <1>7 DEF HandleMessage, m
    <3>3. cur[g] = None
      BY <1>1 DEF IInv, JobInv, HeldInHandler
    <3>4. QED
      BY <1>2, <3>1, <3>2, <3>3 DEF HeldLeft
  <2>2. QED
    BY <1>4, <1>5, <2>1, NoShiftType, LosingKeeps
<1>8. QED
  BY <1>6, <1>7

\* The agent reports the start or the end of its job, is stuck with the report,
\* or loses it.
LEMMA StatusKeeps ==
  ASSUME IInv, TypeOK', NEW g \in Gpu, NEW j \in Job, NEW s \in ToServer, NEW p,
         j = cur[g],
         UNCHANGED <<jobStatus, jobGpu, billed, dispatching, toAgent>>,
         phase' = [phase EXCEPT ![g] = p],
         \/ toServer' = toServer
         \/ toServer' = [toServer EXCEPT ![g] = Append(toServer[g], <<s, j>>)] /\ p # "stuck",
         \/ /\ s = "running" /\ phase[g] = "accepted" /\ p \in {"executing", "stuck"}
            /\ cur' = cur /\ ended' = ended
         \/ /\ s # "running" /\ phase[g] = "executing" /\ ended' = ended \cup {j}
            /\ \/ p = "idle" /\ cur' = [cur EXCEPT ![g] = None]
               \/ p = "stuck" /\ cur' = cur
  PROVE  JobInv'
<1> DEFINE q == Append(toServer[g], <<s, j>>)
<1>1. /\ toServer \in [Gpu -> Seq(ToServerMsg)] /\ cur \in [Gpu -> Job \cup {None}]
      /\ phase \in [Gpu -> Phase] /\ <<s, j>> \in ToServerMsg
      /\ \A h \in Gpu : Len(toServer[h]) \in Nat
  <2>1. toServer \in [Gpu -> Seq(ToServerMsg)]
    BY DEF IInv, TypeOK, ToServerMsg
  <2>2. \A h \in Gpu : Len(toServer[h]) \in Nat
    BY <2>1, LenProperties
  <2>3. QED
    BY <2>1, <2>2 DEF IInv, TypeOK, ToServerMsg
<1>2. /\ j # None /\ jobGpu[j] = g /\ billed[j] = 0 /\ j \notin ended
      /\ phase[g] = "accepted" => NotReported(j)
      /\ \A i \in 1 .. Len(toServer[g]) :
           toServer[g][i][2] = j => toServer[g][i][1] = "running"
  BY DEF IInv, JobInv, HeldIsUnfinished
<1>3. \A h \in Gpu : h # g => cur'[h] = cur[h] /\ phase'[h] = phase[h] /\ cur[h] # j
  BY <1>1, <1>2 DEF IInv, JobInv, HeldIsUnfinished
<1>4. phase'[g] = p
  BY <1>1
<1>5. ASSUME NEW h \in Gpu, NEW i \in 1 .. Len(toServer'[h])
      PROVE  \/ i \in 1 .. Len(toServer[h]) /\ toServer'[h][i] = toServer[h][i]
             \/ /\ h = g /\ i = Len(toServer[g]) + 1 /\ toServer'[h][i] = <<s, j>>
                /\ p # "stuck"
  <2>1. CASE toServer' = toServer
    BY <2>1
  <2>2. CASE toServer' = [toServer EXCEPT ![g] = q] /\ p # "stuck"
    <3>1. /\ Len(q) = Len(toServer[g]) + 1 /\ Len(toServer[g]) \in Nat
          /\ \A n \in 1 .. Len(toServer[g]) : q[n] = toServer[g][n]
          /\ q[Len(toServer[g]) + 1] = <<s, j>>
      BY <1>1, AppendSeq
    <3>2. toServer'[h] = IF h = g THEN q ELSE toServer[h]
      BY <1>1, <2>2
    <3> HIDE DEF q
    <3>3. CASE h # g
      BY <3>2, <3>3
    <3>4. CASE h = g
      <4>1. i \in 1 .. Len(toServer[g]) + 1
        BY <3>1, <3>2, <3>4
      <4>2. i \in 1 .. Len(toServer[g]) \/ i = Len(toServer[g]) + 1
        BY <3>1, <4>1
      <4>3. QED
        BY <2>2, <3>1, <3>2, <3>4, <4>2
    <3>5. QED
      BY <3>3, <3>4
  <2>3. QED
    BY <2>1, <2>2
<1>6. ASSUME NEW k \in Job, k # j
      PROVE  /\ NotSent(k)' <=> NotSent(k)
             /\ NotHeld(k) => NotHeld(k)'
             /\ NotReported(k) => NotReported(k)'
             /\ NotDone(k)' <=> NotDone(k)
  <2>1. NotHeld(k) => NotHeld(k)'
    <3>1. cur'[g] = j \/ cur'[g] = None
      BY <1>1
    <3>2. QED
      BY <1>3, <1>6, <3>1 DEF NotHeld
  <2>2. NotReported(k) => NotReported(k)'
    BY <1>5, <1>6 DEF NotReported
  <2>3. QED
    BY <1>6, <2>1, <2>2 DEF NotSent, NotDone
<1>7. NotYetSent'
  <2>1. \A k \in Job : jobStatus[k] = "none" \/ k \in dispatching => k # j
    BY DEF IInv, JobInv, NotYetSent, NotHeld
  <2>2. QED
    BY <1>6, <2>1 DEF IInv, JobInv, NotYetSent
<1>8. DispatchedIsSubmitted'
  BY DEF IInv, JobInv, DispatchedIsSubmitted
<1>9. AssignedOnce'
  <2> SUFFICES ASSUME NEW h \in Gpu, NEW i \in 1 .. Len(toAgent[h]),
                      toAgent[h][i][1] = "assign"
               PROVE  /\ toAgent[h][i][2] \in Job
                      /\ jobGpu[toAgent[h][i][2]] = h
                      /\ NotHeld(toAgent[h][i][2])'
                      /\ NotReported(toAgent[h][i][2])'
                      /\ NotDone(toAgent[h][i][2])'
                      /\ \A k \in 1 .. Len(toAgent[h]) : toAgent[h][k] = toAgent[h][i] => k = i
    BY DEF AssignedOnce
  <2>1. PICK k \in Job : k = toAgent[h][i][2]
    BY DEF IInv, JobInv, AssignedOnce
  <2>2. jobGpu[k] = h /\ NotHeld(k) /\ NotReported(k) /\ NotDone(k)
    BY <2>1 DEF IInv, JobInv, AssignedOnce
  <2>3. k # j
    BY <2>2 DEF NotHeld
  <2>4. NotHeld(k)' /\ NotReported(k)' /\ NotDone(k)'
    BY <1>6, <2>2, <2>3
  <2>5. \A n \in 1 .. Len(toAgent[h]) : toAgent[h][n] = toAgent[h][i] => n = i
    BY DEF IInv, JobInv, AssignedOnce
  <2>6. toAgent'[h][i][2] = k
    BY <2>1
  <2>7. QED
    BY <2>1, <2>2, <2>4, <2>5, <2>6 DEF NotHeld, NotReported, NotDone
<1>10. HeldInHandler'
  <2>1. cur'[g] = None <=> phase'[g] \in {"idle", "stopped", "down"}
    BY <1>1, <1>2, <1>4
  <2>2. QED
    BY <1>3, <2>1 DEF IInv, JobInv, HeldInHandler
<1>11. HeldIsUnfinished'
  <2> SUFFICES ASSUME NEW h \in Gpu, cur'[h] # None
               PROVE  /\ jobGpu[cur'[h]] = h
                      /\ billed[cur'[h]] = 0
                      /\ phase'[h] # "stuck" => cur'[h] \notin ended'
                      /\ phase'[h] = "accepted" => NotReported(cur[h])'
                      /\ \A i \in 1 .. Len(toServer'[h]) :
                           toServer'[h][i][2] = cur'[h] => toServer'[h][i][1] = "running"
    BY DEF HeldIsUnfinished
  <2>1. CASE h = g
    <3>1. cur'[g] = j /\ p # "accepted" /\ (p = "stuck" \/ s = "running")
      BY <1>1, <2>1
    <3>2. p # "stuck" => j \notin ended'
      <4>1. s = "running" => ended' = ended
        OBVIOUS
      <4>2. QED
        BY <1>2, <3>1, <4>1
    <3>3. \A i \in 1 .. Len(toServer'[g]) :
            toServer'[g][i][2] = j => toServer'[g][i][1] = "running"
      BY <1>2, <1>5, <3>1
    <3>4. QED
      BY <1>2, <1>4, <2>1, <3>1, <3>2, <3>3
  <2>2. CASE h # g
    <3>1. cur'[h] = cur[h] /\ phase'[h] = phase[h] /\ cur[h] # j /\ cur[h] \in Job
      BY <1>1, <1>3, <2>2
    <3>2. /\ jobGpu[cur[h]] = h /\ billed[cur[h]] = 0
          /\ phase[h] # "stuck" => cur[h] \notin ended
          /\ phase[h] = "accepted" => NotReported(cur[h])
          /\ \A i \in 1 .. Len(toServer[h]) :
               toServer[h][i][2] = cur[h] => toServer[h][i][1] = "running"
      BY <3>1 DEF IInv, JobInv, HeldIsUnfinished
    <3>3. phase[h] # "stuck" => cur[h] \notin ended'
      BY <3>1, <3>2
    <3>4. PICK k \in Job : k = cur[h] /\ k = cur'[h] /\ k # j
      BY <3>1
    <3>5. phase[h] = "accepted" => NotReported(k)'
      BY <1>6, <3>2, <3>4
    <3>6. \A i \in 1 .. Len(toServer'[h]) :
            toServer'[h][i][2] = cur[h] => toServer'[h][i][1] = "running"
      BY <1>5, <2>2, <3>2
    <3>7. QED
      BY <3>1, <3>2, <3>3, <3>4, <3>5, <3>6 DEF NotReported
  <2>3. QED
    BY <2>1, <2>2
<1>12. ReportsInOrder'
  <2> SUFFICES ASSUME NEW h \in Gpu, NEW i \in 1 .. Len(toServer'[h])
               PROVE  /\ jobGpu[toServer'[h][i][2]] = h
                      /\ billed[toServer'[h][i][2]] = 0
                      /\ toServer'[h][i][1] # "running" =>
                           /\ toServer'[h][i][2] \in ended'
                           /\ \A k \in 1 .. Len(toServer'[h]) :
                                k > i => toServer'[h][k][2] # toServer'[h][i][2]
    BY DEF ReportsInOrder
  <2>1. CASE i \in 1 .. Len(toServer[h]) /\ toServer'[h][i] = toServer[h][i]
    <3>1. /\ jobGpu[toServer[h][i][2]] = h /\ billed[toServer[h][i][2]] = 0
          /\ toServer[h][i][1] # "running" =>
               /\ toServer[h][i][2] \in ended
               /\ \A k \in 1 .. Len(toServer[h]) :
                    k > i => toServer[h][k][2] # toServer[h][i][2]
      BY <2>1 DEF IInv, JobInv, ReportsInOrder
    <3>2. ASSUME toServer[h][i][1] # "running", NEW k \in 1 .. Len(toServer'[h]), k > i
          PROVE  toServer'[h][k][2] # toServer[h][i][2]
      <4>1. CASE k \in 1 .. Len(toServer[h]) /\ toServer'[h][k] = toServer[h][k]
        BY <3>1, <3>2, <4>1
      <4>2. CASE h = g /\ toServer'[h][k] = <<s, j>>
        BY <1>2, <2>1, <3>2, <4>2
      <4>3. QED
        BY <1>5, <4>1, <4>2
    <3>3. toServer[h][i][1] # "running" => toServer[h][i][2] \in ended'
      BY <3>1
    <3>4. QED
      BY <2>1, <3>1, <3>2, <3>3
  <2>2. CASE h = g /\ i = Len(toServer[g]) + 1 /\ toServer'[h][i] = <<s, j>>
    <3>1. s # "running" => j \in ended'
      OBVIOUS
    <3>2. ASSUME NEW k \in 1 .. Len(toServer'[h])
          PROVE  ~ (k > i)
      <4>1. k \in 1 .. Len(toServer[g]) \/ k = Len(toServer[g]) + 1
        BY <1>5, <2>2
      <4>2. QED
        BY <1>1, <2>2, <4>1
    <3>3. QED
      BY <1>2, <2>2, <3>1, <3>2
  <2>3. QED
    BY <1>5, <2>1, <2>2
<1>13. BilledForWork'
  BY DEF IInv, JobInv, BilledForWork
<1>14. QED
  BY <1>7, <1>8, <1>9, <1>10, <1>11, <1>12, <1>13 DEF JobInv

\* The backend applies a report: the last that may bill the job, and then
\* nothing of the job is left.
LEMMA ReportKeeps ==
  ASSUME IInv, TypeOK', NEW g \in Gpu, JobStatusReport(g)
  PROVE  JobInv'
<1>1. /\ toServer[g] # <<>>
      /\ toServer' = [toServer EXCEPT ![g] = Tail(@)]
      /\ UNCHANGED <<jobGpu, dispatching, toAgent, phase, cur, ended>>
  BY DEF JobStatusReport, serverVars, agentVars
<1>2. /\ toServer \in [Gpu -> Seq(ToServerMsg)] /\ cur \in [Gpu -> Job \cup {None}]
      /\ jobStatus \in [Job -> JobStatus] /\ billed \in [Job -> Nat]
  BY DEF IInv, TypeOK, ToServerMsg
<1>3. /\ Head(toServer[g]) \in ToServerMsg /\ Head(toServer[g]) = toServer[g][1]
      /\ 1 \in 1 .. Len(toServer[g])
  <2>1. /\ Head(toServer[g]) \in ToServerMsg /\ Head(toServer[g]) = toServer[g][1]
        /\ Len(toServer[g]) \in Nat \ {0}
    BY <1>1, <1>2, TailSeq
  <2>2. QED
    BY <2>1
<1>4. PICK s \in ToServer, j \in Job : Head(toServer[g]) = <<s, j>>
  BY <1>3 DEF ToServerMsg
<1>5. toServer[g][1][1] = s /\ toServer[g][1][2] = j
  BY <1>3, <1>4
<1>6. /\ jobStatus' = [jobStatus EXCEPT ![j] = s]
      /\ \/ billed' = billed
         \/ s = "completed" /\ billed' = [billed EXCEPT ![j] = billed[j] + 1]
  BY <1>4, ReportDoes
<1>7. jobGpu[j] = g /\ billed[j] = 0
  BY <1>3, <1>5 DEF IInv, JobInv, ReportsInOrder
<1>8. \A k \in Job : jobStatus'[k] = "none" => jobStatus[k] = "none"
  BY <1>2, <1>6
<1> DEFINE up == [NoShift EXCEPT ![g] = 1]
<1>9. up \in [Gpu -> {0, 1}] /\ up[g] = 1 /\ ReportsLeft(up)
  BY <1>1, TakenReport DEF IInv, NoShift
<1>10. AssignsLeft(NoShift)
  BY <1>1, SameAssigns DEF IInv
<1> HIDE DEF up
<1>11. CASE billed' = billed
  <2>1. JobsLeft /\ HeldLeft
    BY <1>1, <1>8, <1>11 DEF JobsLeft, HeldLeft
  <2>2. QED
    BY <1>9, <1>10, <2>1, NoShiftType, LosingKeeps
<1>12. CASE s = "completed" /\ billed' = [billed EXCEPT ![j] = billed[j] + 1]
  <2>1. billed'[j] = 1 /\ \A k \in Job : k # j => billed'[k] = billed[k]
    BY <1>2, <1>7, <1>12
  <2>2. /\ j \in ended
        /\ \A k \in 1 .. Len(toServer[g]) : k > 1 => toServer[g][k][2] # j
    BY <1>3, <1>5, <1>12 DEF IInv, JobInv, ReportsInOrder
  <2>3. NotHeld(j)
    BY <1>3, <1>5, <1>7, <1>12, NoneIsNoJob DEF IInv, JobInv, HeldIsUnfinished, NotHeld
  <2>4. ~ NotReported(j)
    BY <1>3, <1>5 DEF NotReported
  <2>5. ASSUME NEW h \in Gpu, NEW i \in 1 .. Len(toServer'[h])
        PROVE  /\ i + up[h] \in 1 .. Len(toServer[h])
               /\ toServer'[h][i] = toServer[h][i + up[h]]
               /\ toServer'[h][i][2] # j /\ toServer'[h][i][2] \in Job
    <3>1. /\ i + up[h] \in 1 .. Len(toServer[h])
          /\ toServer'[h][i] = toServer[h][i + up[h]]
      BY <1>9 DEF ReportsLeft
    <3>2. toServer[h][i + up[h]] \in ToServerMsg
      BY <1>2, <3>1, ElementOfSeq
    <3>3. CASE h = g
      <4>1. i + up[g] > 1
        BY <1>9, <3>3
      <4>2. QED
        BY <2>2, <3>1, <3>2, <3>3, <4>1 DEF ToServerMsg
    <3>4. CASE h # g
      <4>1. jobGpu[toServer[h][i + up[h]][2]] = h
        BY <3>1 DEF IInv, JobInv, ReportsInOrder
      <4>2. QED
        BY <1>7, <3>1, <3>2, <3>4, <4>1 DEF ToServerMsg
    <3>5. QED
      BY <3>3, <3>4
  <2>6. ASSUME NEW k \in Job, k # j
        PROVE  /\ NotSent(k)' <=> NotSent(k)
               /\ NotHeld(k)' <=> NotHeld(k)
               /\ NotReported(k) => NotReported(k)'
               /\ NotDone(k)' <=> NotDone(k)
    <3>1. NotReported(k) => NotReported(k)'
      BY <2>5 DEF NotReported
    <3>2. QED
      BY <1>1, <2>1, <2>6, <3>1 DEF NotSent, NotHeld, NotDone
  <2>7. NotYetSent'
    <3>1. \A k \in Job : jobStatus[k] = "none" \/ k \in dispatching => k # j
      BY <2>4 DEF IInv, JobInv, NotYetSent
    <3>2. jobStatus'[j] # "none" /\ j \notin dispatching
      BY <1>2, <1>6, <3>1
    <3>3. QED
      BY <1>1, <1>8, <2>6, <3>1, <3>2 DEF IInv, JobInv, NotYetSent
  <2>8. DispatchedIsSubmitted'
    BY <1>1, <1>8 DEF IInv, JobInv, DispatchedIsSubmitted, TypeOK
  <2>9. AssignedOnce'
    <3> SUFFICES ASSUME NEW h \in Gpu, NEW i \in 1 .. Len(toAgent[h]),
                        toAgent[h][i][1] = "assign"
                 PROVE  /\ toAgent[h][i][2] \in Job
                        /\ jobGpu[toAgent[h][i][2]] = h
                        /\ NotHeld(toAgent[h][i][2])'
                        /\ NotReported(toAgent[h][i][2])'
                        /\ NotDone(toAgent[h][i][2])'
                        /\ \A k \in 1 .. Len(toAgent[h]) : toAgent[h][k] = toAgent[h][i] => k = i
      BY <1>1 DEF AssignedOnce
    <3>1. PICK k \in Job : k = toAgent[h][i][2]
      BY DEF IInv, JobInv, AssignedOnce
    <3>2. jobGpu[k] = h /\ NotHeld(k) /\ NotReported(k) /\ NotDone(k)
      BY <3>1 DEF IInv, JobInv, AssignedOnce
    <3>3. NotHeld(k)' /\ NotReported(k)' /\ NotDone(k)'
      BY <2>4, <2>6, <3>2
    <3>4. toAgent'[h][i][2] = k
      BY <1>1, <3>1
    <3>5. \A n \in 1 .. Len(toAgent[h]) : toAgent[h][n] = toAgent[h][i] => n = i
      BY DEF IInv, JobInv, AssignedOnce
    <3>6. QED
      BY <3>1, <3>2, <3>3, <3>4, <3>5 DEF NotHeld, NotReported, NotDone
  <2>10. HeldInHandler'
    BY <1>1 DEF IInv, JobInv, HeldInHandler
  <2>11. HeldIsUnfinished'
    <3> SUFFICES ASSUME NEW h \in Gpu, cur'[h] # None
                 PROVE  /\ jobGpu'[cur'[h]] = h
                        /\ billed'[cur'[h]] = 0
                        /\ phase'[h] # "stuck" => cur'[h] \notin ended'
                        /\ phase'[h] = "accepted" => NotReported(cur[h])'
                        /\ \A i \in 1 .. Len(toServer'[h]) :
                             toServer'[h][i][2] = cur'[h] => toServer'[h][i][1] = "running"
      BY DEF HeldIsUnfinished
    <3>0. cur'[h] = cur[h] /\ phase'[h] = phase[h] /\ jobGpu' = jobGpu /\ ended' = ended
      BY <1>1
    <3>1. PICK k \in Job : k = cur[h] /\ k # j
      BY <1>2, <2>3, <3>0 DEF NotHeld
    <3>2. /\ jobGpu[k] = h /\ billed[k] = 0
          /\ phase[h] # "stuck" => k \notin ended
          /\ phase[h] = "accepted" => NotReported(k)
          /\ \A i \in 1 .. Len(toServer[h]) :
               toServer[h][i][2] = k => toServer[h][i][1] = "running"
      BY <3>0, <3>1 DEF IInv, JobInv, HeldIsUnfinished
    <3>3. phase[h] = "accepted" => NotReported(k)'
      BY <2>6, <3>1, <3>2
    <3>4. \A i \in 1 .. Len(toServer'[h]) :
            toServer'[h][i][2] = k => toServer'[h][i][1] = "running"
      BY <2>5, <3>2
    <3>5. cur'[h] = k
      BY <1>1, <3>1
    <3>6. QED
      BY <2>1, <3>0, <3>1, <3>2, <3>3, <3>4, <3>5 DEF NotReported
  <2>12. ReportsInOrder'
    <3> SUFFICES ASSUME NEW h \in Gpu, NEW i \in 1 .. Len(toServer'[h])
                 PROVE  /\ jobGpu'[toServer'[h][i][2]] = h
                        /\ billed'[toServer'[h][i][2]] = 0
                        /\ toServer'[h][i][1] # "running" =>
                             /\ toServer'[h][i][2] \in ended'
                             /\ \A k \in 1 .. Len(toServer'[h]) :
                                  k > i => toServer'[h][k][2] # toServer'[h][i][2]
      BY DEF ReportsInOrder
    <3>1. ASSUME NEW k \in 1 .. Len(toServer'[h]), k > i
          PROVE  k + up[h] \in 1 .. Len(toServer[h]) /\ k + up[h] > i + up[h]
                 /\ toServer'[h][k] = toServer[h][k + up[h]]
      <4>1. up[h] \in Int /\ k \in Int /\ i \in Int
        BY <1>9
      <4>2. QED
        BY <2>5, <3>1, <4>1
    <3>2. /\ i + up[h] \in 1 .. Len(toServer[h]) /\ toServer'[h][i] = toServer[h][i + up[h]]
          /\ toServer'[h][i][2] # j /\ toServer'[h][i][2] \in Job
      BY <2>5
    <3>3. PICK k \in Job : k = toServer'[h][i][2] /\ k # j
      BY <3>2
    <3>4. /\ jobGpu[k] = h /\ billed[k] = 0
          /\ toServer'[h][i][1] # "running" =>
               /\ k \in ended
               /\ \A n \in 1 .. Len(toServer[h]) :
                    n > i + up[h] => toServer[h][n][2] # k
      BY <3>2, <3>3 DEF IInv, JobInv, ReportsInOrder
    <3>5. billed'[k] = 0
      BY <2>1, <3>3, <3>4
    <3>6. toServer'[h][i][1] # "running" =>
            \A n \in 1 .. Len(toServer'[h]) : n > i => toServer'[h][n][2] # k
      BY <3>1, <3>4
    <3>7. QED
      BY <1>1, <3>3, <3>4, <3>5, <3>6
  <2>13. BilledForWork'
    BY <1>1, <2>1, <2>2 DEF IInv, JobInv, BilledForWork
  <2>14. QED
    BY <2>7, <2>8, <2>9, <2>10, <2>11, <2>12, <2>13 DEF JobInv
<1>13. QED
  BY <1>6, <1>11, <1>12

-----------------------------------------------------------------------------
(* Every step.                                                             *)

LEMMA EmptyLeft ==
  /\ toAgent' = [g \in Gpu |-> <<>>] => AssignsLeft(NoShift)
  /\ toServer' = [g \in Gpu |-> <<>>] => ReportsLeft(NoShift)
BY DEF AssignsLeft, ReportsLeft

\* The actions that touch no channel and no agent, and bill nothing.
LEMMA QuietKeeps ==
  ASSUME IInv, TypeOK',
         \/ \E j \in Job : SubmitPending(j) \/ CancelCommit(j)
         \/ \E g \in Gpu : \/ MarkOnline(g) \/ Heartbeat(g) \/ GoStale(g)
                           \/ NoticeDisconnect(g) \/ MarkOffline(g) \/ Connect(g)
         \/ SweepRead \/ SweepCommit
         \/ UNCHANGED vars
  PROVE  JobInv'
<1>1. /\ UNCHANGED <<toAgent, toServer, phase, cur>>
      /\ jobGpu' = jobGpu /\ billed' = billed /\ ended' = ended /\ dispatching' = dispatching
  BY DEF SubmitPending, CancelCommit, MarkOnline, Heartbeat, GoStale, NoticeDisconnect,
         MarkOffline, Connect, SweepRead, SweepCommit, vars, jobVars, gpuVars,
         serverVars, netVars, agentVars
<1>2. \A j \in Job : jobStatus'[j] = "none" => jobStatus[j] = "none"
  <2>1. \/ jobStatus' = jobStatus
        \/ \E j \in Job, s \in {"pending", "cancelled"} :
             jobStatus' = [jobStatus EXCEPT ![j] = s]
        \/ jobStatus' = [j \in Job |-> IF j \in sweep.jobs THEN "failed" ELSE jobStatus[j]]
    BY DEF SubmitPending, CancelCommit, MarkOnline, Heartbeat, GoStale, NoticeDisconnect,
           MarkOffline, Connect, SweepRead, SweepCommit, vars, jobVars
  <2>2. QED
    BY <2>1 DEF IInv, TypeOK
<1>3. QED
  BY <1>1, <1>2, SameAssigns, SameReports, NoShiftType, LosingKeeps
  DEF IInv, JobsLeft, HeldLeft

\* The backend tells an agent of a cancel, or to stop.
LEMMA TellLoses ==
  ASSUME IInv,
         \/ \E j \in Job : CancelBegin(j)
         \/ \E g \in Gpu, s \in GpuStatus : Patch(g, s)
  PROVE  /\ UNCHANGED jobVars
         /\ AssignsLeft(NoShift) /\ ReportsLeft(NoShift) /\ JobsLeft /\ HeldLeft
<1>1. UNCHANGED <<jobVars, dispatching, toServer, agentVars>>
  BY DEF CancelBegin, Patch, serverVars
<1>2. AssignsLeft(NoShift)
  <2>1. CASE toAgent' = toAgent
    BY <2>1, SameAssigns DEF IInv
  <2>2. ASSUME NEW j \in Job, SendToGpu(jobGpu[j], <<"cancel", j>>)
        PROVE  AssignsLeft(NoShift)
    <3>1. jobGpu[j] \in Gpu \cup {None} /\ <<"cancel", j>> \in ToAgentMsg
      BY DEF IInv, TypeOK, ToAgentMsg
    <3>2. QED
      BY <2>2, <3>1, SendOther DEF IInv
  <2>3. ASSUME NEW g \in Gpu, SendToGpu(g, <<"stop", None>>)
        PROVE  AssignsLeft(NoShift)
    <3>1. <<"stop", None>> \in ToAgentMsg
      BY DEF ToAgentMsg
    <3>2. QED
      BY <2>3, <3>1, SendOther DEF IInv
  <2>4. QED
    BY <2>1, <2>2, <2>3 DEF CancelBegin, Patch
<1>3. QED
  BY <1>1, <1>2, SameReports DEF IInv, JobsLeft, HeldLeft, jobVars, agentVars

\* The faults and their ends.
LEMMA FaultLoses ==
  ASSUME IInv,
         \/ \E g \in Gpu : Break(g) \/ AgentCrash(g) \/ AgentStart(g)
         \/ BackendRestart
  PROVE  /\ UNCHANGED jobVars
         /\ AssignsLeft(NoShift) /\ ReportsLeft(NoShift) /\ JobsLeft /\ HeldLeft
<1>0. UNCHANGED jobVars
  BY DEF Break, AgentCrash, AgentStart, BackendRestart
<1>1. JobsLeft
  BY DEF Break, AgentCrash, AgentStart, BackendRestart, JobsLeft, jobVars, serverVars, agentVars
<1>2. HeldLeft
  <2>1. CASE UNCHANGED <<phase, cur>>
    BY <2>1 DEF HeldLeft
  <2>2. ASSUME NEW g \in Gpu, AgentCrash(g)
        PROVE  HeldLeft
    BY <2>2 DEF AgentCrash, HeldLeft, IInv, TypeOK
  <2>3. ASSUME NEW g \in Gpu, AgentStart(g)
        PROVE  HeldLeft
    BY <2>3 DEF AgentStart, HeldLeft, IInv, TypeOK, JobInv, HeldInHandler
  <2>4. QED
    BY <2>1, <2>2, <2>3 DEF Break, BackendRestart, agentVars
<1>3. AssignsLeft(NoShift)
  <2>1. \A g \in Gpu : toAgent[g] \in Seq(ToAgentMsg)
    BY DEF IInv, TypeOK, ToAgentMsg
  <2>2. \A g \in Gpu : Len(toAgent[g]) \in Nat
    BY <2>1, LenProperties
  <2>3. ASSUME NEW S \in SUBSET Gpu,
               toAgent' = [g \in Gpu |-> IF g \in S THEN toAgent[g] ELSE <<>>]
        PROVE  AssignsLeft(NoShift)
    BY <2>2, <2>3 DEF AssignsLeft, NoShift
  <2>4. ASSUME NEW g \in Gpu, toAgent' = [toAgent EXCEPT ![g] = <<>>]
        PROVE  AssignsLeft(NoShift)
    BY <2>2, <2>4 DEF AssignsLeft, NoShift, IInv, TypeOK
  <2>5. ASSUME NEW g \in Gpu, Break(g)
        PROVE  AssignsLeft(NoShift)
    <3>1. PICK q \in Cut(toAgent[g]) : toAgent' = [toAgent EXCEPT ![g] = q]
      BY <2>5, BreakCuts, Zenon
    <3>2. QED
      BY <3>1, CutAssigns DEF IInv
  <2>6. QED
    BY <2>3, <2>4, <2>5 DEF AgentCrash, AgentStart, BackendRestart
<1>4. ReportsLeft(NoShift)
  <2>1. ASSUME NEW g \in Gpu, Break(g) \/ AgentCrash(g)
        PROVE  ReportsLeft(NoShift)
    <3>1. PICK q \in Cut(toServer[g]) : toServer' = [toServer EXCEPT ![g] = q]
      BY <2>1, BreakCuts, CrashCuts, Zenon
    <3>2. QED
      BY <3>1, CutReports DEF IInv
  <2>2. QED
    BY <2>1, SameReports, EmptyLeft DEF IInv, AgentStart, BackendRestart
<1>5. QED
  BY <1>0, <1>1, <1>2, <1>3, <1>4

LEMMA DropKeeps ==
  ASSUME IInv, TypeOK', NEW g \in Gpu, DropReport(g)
  PROVE  JobInv'
<1> DEFINE up == [NoShift EXCEPT ![g] = 1]
<1>1. up \in [Gpu -> {0, 1}]
  BY DEF NoShift
<1>2. ReportsLeft(up)
  BY TakenReport DEF DropReport, IInv
<1>3. AssignsLeft(NoShift)
  BY SameAssigns DEF DropReport, IInv
<1>4. JobsLeft /\ HeldLeft
  BY DEF DropReport, JobsLeft, HeldLeft, jobVars, serverVars, agentVars
<1>5. QED
  BY <1>1, <1>2, <1>3, <1>4, NoShiftType, LosingKeeps

\* The agent's reports of its job.
LEMMA AgentReportKeeps ==
  ASSUME IInv, TypeOK', NEW g \in Gpu, AnnounceRunning(g) \/ EndJob(g)
  PROVE  JobInv'
<1>1. cur[g] \in Job
  BY DEF AnnounceRunning, EndJob, IInv, JobInv, HeldInHandler, TypeOK
<1>2. CASE AnnounceRunning(g)
  <2>1. PICK p \in {"executing", "stuck"} :
           /\ phase' = [phase EXCEPT ![g] = p]
           /\ \/ toServer' = toServer
              \/ /\ toServer' = [toServer EXCEPT ![g] = Append(toServer[g], <<"running", cur[g]>>)]
                 /\ p # "stuck"
    BY <1>2 DEF AnnounceRunning, SendJobStatus
  <2>2. /\ UNCHANGED <<jobStatus, jobGpu, billed, dispatching, toAgent, cur, ended>>
        /\ phase[g] = "accepted"
    BY <1>2 DEF AnnounceRunning, jobVars, serverVars
  <2>3. QED
    BY <1>1, <2>1, <2>2, StatusKeeps
<1>3. CASE EndJob(g)
  <2>1. PICK s \in {"completed", "failed"} : SendJobStatus(g, s, "idle")
    BY <1>3 DEF EndJob
  <2>2. PICK p \in {"idle", "stuck"} :
           /\ phase' = [phase EXCEPT ![g] = p]
           /\ \/ toServer' = toServer
              \/ /\ toServer' = [toServer EXCEPT ![g] = Append(toServer[g], <<s, cur[g]>>)]
                 /\ p # "stuck"
    BY <2>1 DEF SendJobStatus
  <2>3. /\ UNCHANGED <<jobStatus, jobGpu, billed, dispatching, toAgent>>
        /\ phase[g] = "executing" /\ ended' = ended \cup {cur[g]}
        /\ cur' = [cur EXCEPT ![g] = IF phase'[g] = "idle" THEN None ELSE @]
    BY <1>3 DEF EndJob, jobVars, serverVars
  <2>4. \/ p = "idle" /\ cur' = [cur EXCEPT ![g] = None]
        \/ p = "stuck" /\ cur' = cur
    BY <2>2, <2>3 DEF IInv, TypeOK
  <2>5. QED
    BY <1>1, <2>2, <2>3, <2>4, StatusKeeps
<1>4. QED
  BY <1>2, <1>3

LEMMA JobStep ==
  ASSUME IInv, [Next]_vars
  PROVE  JobInv'
<1>1. TypeOK'
  BY TypeStep
<1>2. QED
  BY <1>1, SubmitKeeps, SendKeeps, HandleKeeps, ReportKeeps, QuietKeeps, TellLoses,
     FaultLoses, DropKeeps, AgentReportKeeps, NoShiftType, LosingKeeps DEF Next

LEMMA Start == Init => IInv
<1> SUFFICES ASSUME Init
             PROVE  IInv
  OBVIOUS
<1>1. TypeOK
  BY DEF Init, TypeOK, JobStatus, GpuStatus, Session, NoSweep, Sweep, Phase
<1>2. NotYetSent /\ DispatchedIsSubmitted
  BY DEF Init, NotYetSent, DispatchedIsSubmitted, NotSent, NotHeld, NotReported, NotDone
<1>3. AssignedOnce /\ HeldInHandler /\ HeldIsUnfinished
  BY DEF Init, AssignedOnce, HeldInHandler, HeldIsUnfinished
<1>4. ReportsInOrder /\ BilledForWork
  BY DEF Init, ReportsInOrder, BilledForWork
<1>5. QED
  BY <1>1, <1>2, <1>3, <1>4 DEF IInv, JobInv

LEMMA Invariant == Spec => []IInv
<1>1. IInv /\ [Next]_vars => IInv'
  BY TypeStep, JobStep DEF IInv
<1>2. QED
  BY <1>1, Start, PTL DEF Spec

-----------------------------------------------------------------------------
(* The gpus table.                                                         *)

\* The actions that write the rows of the jobs, and those of the GPUs.
LEMMA RowsChange ==
  ASSUME [Next]_vars
  PROVE  /\ \/ UNCHANGED <<jobStatus, jobGpu>>
            \/ \E j \in Job, g \in Gpu : SubmitMatched(j, g)
            \/ \E j \in Job : SubmitPending(j) \/ CancelCommit(j)
            \/ \E g \in Gpu : JobStatusReport(g)
            \/ SweepCommit
         /\ \/ UNCHANGED gpuStatus
            \/ \E j \in Job, g \in Gpu : SubmitMatched(j, g)
            \/ \E j \in Job : CancelCommit(j)
            \/ \E g \in Gpu, s \in GpuStatus : Patch(g, s)
            \/ \E g \in Gpu : MarkOnline(g) \/ JobStatusReport(g) \/ MarkOffline(g)
            \/ SweepCommit
BY DEF Next, vars, jobVars, gpuVars, SubmitMatched, SubmitPending, SendAssign, CancelBegin,
       CancelCommit, Patch, MarkOnline, Heartbeat, GoStale, DropReport, JobStatusReport,
       NoticeDisconnect, MarkOffline, SweepRead, SweepCommit, Connect, HandleMessage,
       AnnounceRunning, EndJob, Break, AgentCrash, AgentStart, BackendRestart

\* The kinds of fault so far are never forgotten.
LEMMA FaultsStay ==
  ASSUME [Next]_vars
  PROVE  happened \subseteq happened'
BY DEF Next, vars, faultVars, Fault, Mishap, SubmitMatched, SubmitPending, SendAssign,
       CancelBegin, CancelCommit, Patch, MarkOnline, Heartbeat, GoStale, DropReport,
       JobStatusReport, NoticeDisconnect, MarkOffline, SweepRead, SweepCommit, Connect,
       HandleMessage, AnnounceRunning, EndJob, Break, AgentCrash, AgentStart, BackendRestart

\* The report the backend applies is of a job of that GPU; after that of the
\* end nothing of the job is left.
LEMMA ReportTakes ==
  ASSUME IInv, NEW g \in Gpu, JobStatusReport(g)
  PROVE  \E s \in ToServer, j \in Job :
           /\ Head(toServer[g]) = <<s, j>>
           /\ jobGpu' = jobGpu /\ jobGpu[j] = g /\ ~ NotReported(j)
           /\ jobStatus[j] # "none" /\ j \notin dispatching
           /\ jobStatus' = [jobStatus EXCEPT ![j] = s]
           /\ s = "running" => gpuStatus' = gpuStatus
           /\ s # "running" => /\ gpuStatus' = [gpuStatus EXCEPT ![g] = "online"]
                               /\ NotSent(j)' /\ NotHeld(j)' /\ NotReported(j)'
<1>1. /\ toServer[g] # <<>>
      /\ toServer' = [toServer EXCEPT ![g] = Tail(@)]
      /\ UNCHANGED <<jobGpu, dispatching, toAgent, phase, cur, ended>>
  BY DEF JobStatusReport, serverVars, agentVars
<1>2. /\ toServer \in [Gpu -> Seq(ToServerMsg)] /\ toAgent \in [Gpu -> Seq(ToAgentMsg)]
      /\ cur \in [Gpu -> Job \cup {None}]
  BY DEF IInv, TypeOK, ToServerMsg, ToAgentMsg
<1>3. /\ Head(toServer[g]) \in ToServerMsg /\ Head(toServer[g]) = toServer[g][1]
      /\ 1 \in 1 .. Len(toServer[g])
  <2>1. /\ Head(toServer[g]) \in ToServerMsg /\ Head(toServer[g]) = toServer[g][1]
        /\ Len(toServer[g]) \in Nat \ {0}
    BY <1>1, <1>2, TailSeq
  <2>2. QED
    BY <2>1
<1>4. PICK s \in ToServer, j \in Job : Head(toServer[g]) = <<s, j>>
  BY <1>3 DEF ToServerMsg
<1>5. toServer[g][1][1] = s /\ toServer[g][1][2] = j
  BY <1>3, <1>4
<1>6. /\ jobStatus' = [jobStatus EXCEPT ![j] = s]
      /\ \/ s = "running" /\ gpuStatus' = gpuStatus
         \/ s # "running" /\ gpuStatus' = [gpuStatus EXCEPT ![g] = "online"]
  <2>1. Head(toServer[g])[1] = s /\ Head(toServer[g])[2] = j
    BY <1>4
  <2>2. jobStatus' = [jobStatus EXCEPT ![Head(toServer[g])[2]] = Head(toServer[g])[1]]
    BY Zenon DEF JobStatusReport
  <2>3. \/ Head(toServer[g])[1] = "running" /\ gpuStatus' = gpuStatus
        \/ Head(toServer[g])[1] # "running" /\ gpuStatus' = [gpuStatus EXCEPT ![g] = "online"]
    BY Zenon DEF JobStatusReport
  <2>4. QED
    BY <2>1, <2>2, <2>3
<1>7. jobGpu[j] = g /\ ~ NotReported(j)
  BY <1>3, <1>5 DEF IInv, JobInv, ReportsInOrder, NotReported
<1>8. jobStatus[j] # "none" /\ j \notin dispatching
  BY <1>7 DEF IInv, JobInv, NotYetSent
<1>9. ASSUME s # "running"
      PROVE  NotSent(j)' /\ NotHeld(j)' /\ NotReported(j)'
  <2>1. NotSent(j)'
    <3>1. NotSent(j)
      <4> SUFFICES ASSUME NEW h \in Gpu, NEW i \in 1 .. Len(toAgent[h]),
                          toAgent[h][i] = <<"assign", j>>
                   PROVE  FALSE
        BY DEF NotSent
      <4>1. toAgent[h][i][1] = "assign" /\ toAgent[h][i][2] = j
        OBVIOUS
      <4>2. NotReported(toAgent[h][i][2])
        BY <4>1 DEF IInv, JobInv, AssignedOnce
      <4>3. QED
        BY <1>7, <4>1, <4>2
    <3>2. QED
      BY <1>1, <3>1 DEF NotSent
  <2>2. NotHeld(j)'
    BY <1>1, <1>3, <1>5, <1>7, <1>9, NoneIsNoJob DEF IInv, JobInv, HeldIsUnfinished, NotHeld
  <2>3. NotReported(j)'
    <3> SUFFICES ASSUME NEW h \in Gpu, NEW i \in 1 .. Len(toServer'[h])
                 PROVE  toServer'[h][i][2] # j
      BY DEF NotReported
    <3> DEFINE up == [NoShift EXCEPT ![g] = 1]
    <3>1. up[g] = 1 /\ ReportsLeft(up)
      BY <1>1, TakenReport DEF IInv, NoShift
    <3>2. /\ i + up[h] \in 1 .. Len(toServer[h])
          /\ toServer'[h][i] = toServer[h][i + up[h]]
      BY <3>1 DEF ReportsLeft
    <3>3. CASE h = g
      <4>1. i + up[g] > 1
        BY <3>1, <3>3
      <4>2. \A k \in 1 .. Len(toServer[g]) : k > 1 => toServer[g][k][2] # j
        BY <1>3, <1>5, <1>9 DEF IInv, JobInv, ReportsInOrder
      <4>3. QED
        BY <3>2, <3>3, <4>1, <4>2
    <3>4. CASE h # g
      BY <1>7, <3>2, <3>4 DEF IInv, JobInv, ReportsInOrder
    <3>5. QED
      BY <3>3, <3>4
  <2>4. QED
    BY <2>1, <2>2, <2>3
<1>10. QED
  BY <1>1, <1>4, <1>6, <1>7, <1>8, <1>9

LEMMA MatchedStep ==
  ASSUME IInv, GpuInv, [Next]_vars
  PROVE  MatchedHasGpu'
<1> USE DEF IInv, GpuInv, TypeOK, MatchedHasGpu
<1>1. CASE UNCHANGED <<jobStatus, jobGpu>>
  BY <1>1
<1>2. ASSUME NEW j \in Job, NEW g \in Gpu, SubmitMatched(j, g)
      PROVE  MatchedHasGpu'
  BY <1>2 DEF SubmitMatched
<1>3. ASSUME NEW j \in Job, SubmitPending(j) \/ CancelCommit(j)
      PROVE  MatchedHasGpu'
  BY <1>3 DEF SubmitPending, CancelCommit
<1>4. ASSUME NEW g \in Gpu, JobStatusReport(g)
      PROVE  MatchedHasGpu'
  <2>1. PICK s \in ToServer, j \in Job :
           jobGpu' = jobGpu /\ jobGpu[j] = g /\ jobStatus' = [jobStatus EXCEPT ![j] = s]
    BY <1>4, ReportTakes
  <2>2. QED
    BY <2>1
<1>5. CASE SweepCommit
  BY <1>5 DEF SweepCommit
<1>6. QED
  BY <1>1, <1>2, <1>3, <1>4, <1>5, RowsChange

LEMMA CancelStep ==
  ASSUME IInv, GpuInv, [Next]_vars
  PROVE  CancelOfWaiting'
<1> USE DEF IInv, GpuInv, TypeOK, CancelOfWaiting
<1>0. \/ UNCHANGED cancelling
      \/ \E j \in Job : CancelBegin(j) \/ CancelCommit(j)
      \/ BackendRestart
  BY DEF Next, vars, serverVars, SubmitMatched, SubmitPending, SendAssign, Patch, MarkOnline,
         Heartbeat, GoStale, DropReport, JobStatusReport, NoticeDisconnect, MarkOffline,
         SweepRead, SweepCommit, Connect, HandleMessage, AnnounceRunning, EndJob, Break,
         AgentCrash, AgentStart
<1>1. ASSUME NEW j \in Job, CancelBegin(j)
      PROVE  CancelOfWaiting'
  BY <1>1 DEF CancelBegin, jobVars, MatchedHasGpu
<1>2. ASSUME NEW j \in Job, CancelCommit(j)
      PROVE  CancelOfWaiting'
  BY <1>2 DEF CancelCommit
<1>3. CASE BackendRestart
  BY <1>3 DEF BackendRestart
<1>4. CASE UNCHANGED cancelling
  <2>1. CASE UNCHANGED <<jobStatus, jobGpu>>
    BY <1>4, <2>1
  <2>2. ASSUME NEW j \in Job, NEW g \in Gpu, SubmitMatched(j, g)
        PROVE  CancelOfWaiting'
    BY <1>4, <2>2 DEF SubmitMatched
  <2>3. ASSUME NEW j \in Job, SubmitPending(j)
        PROVE  CancelOfWaiting'
    BY <1>4, <2>3 DEF SubmitPending
  <2>4. ASSUME NEW g \in Gpu, JobStatusReport(g)
        PROVE  CancelOfWaiting'
    <3>1. PICK s \in ToServer, j \in Job :
             jobGpu' = jobGpu /\ jobGpu[j] = g /\ jobStatus' = [jobStatus EXCEPT ![j] = s]
      BY <2>4, ReportTakes
    <3>2. QED
      BY <1>4, <3>1
  <2>5. CASE SweepCommit
    BY <1>4, <2>5 DEF SweepCommit
  <2>6. QED
    BY <1>2, <2>1, <2>2, <2>3, <2>4, <2>5, RowsChange
<1>5. QED
  BY <1>0, <1>1, <1>2, <1>3, <1>4

LEMMA SweepStep ==
  ASSUME IInv, GpuInv, [Next]_vars
  PROVE  SweepOfItsGpus'
<1> USE DEF IInv, GpuInv, TypeOK, SweepOfItsGpus
<1>0. UNCHANGED sweep \/ SweepRead \/ SweepCommit
  BY DEF Next, vars, serverVars, SubmitMatched, SubmitPending, SendAssign, CancelBegin,
         CancelCommit, Patch, MarkOnline, Heartbeat, GoStale, DropReport, JobStatusReport,
         NoticeDisconnect, MarkOffline, Connect, HandleMessage, AnnounceRunning, EndJob, Break,
         AgentCrash, AgentStart, BackendRestart
<1>1. CASE SweepRead
  BY <1>1 DEF SweepRead, Fault, jobVars
<1>2. CASE SweepCommit
  BY <1>2 DEF SweepCommit, NoSweep
<1>3. CASE UNCHANGED sweep
  <2>1. ASSUME NEW j \in Job, jobStatus[j] # "none"
        PROVE  jobStatus'[j] # "none" /\ jobGpu'[j] = jobGpu[j]
    <3>1. ASSUME NEW k \in Job, NEW g \in Gpu, SubmitMatched(k, g)
          PROVE  jobStatus'[j] # "none" /\ jobGpu'[j] = jobGpu[j]
      BY <2>1, <3>1 DEF SubmitMatched
    <3>2. ASSUME NEW k \in Job, SubmitPending(k) \/ CancelCommit(k)
          PROVE  jobStatus'[j] # "none" /\ jobGpu'[j] = jobGpu[j]
      BY <2>1, <3>2 DEF SubmitPending, CancelCommit
    <3>3. ASSUME NEW g \in Gpu, JobStatusReport(g)
          PROVE  jobStatus'[j] # "none" /\ jobGpu'[j] = jobGpu[j]
      BY <2>1, <3>3, ReportTakes
    <3>4. QED
      BY <1>2, <2>1, <3>1, <3>2, <3>3, RowsChange DEF SweepCommit
  <2>2. sweep.jobs \subseteq Job
    BY DEF Sweep
  <2>3. QED
    BY <1>3, <2>1, <2>2, FaultsStay
<1>4. QED
  BY <1>0, <1>1, <1>2, <1>3

LEMMA ShownStep ==
  ASSUME IInv, GpuInv, [Next]_vars
  PROVE  ShownMeansSession'
<1> SUFFICES ASSUME happened' \cap {"patch", "restart"} = {}, NEW g \in Gpu,
                    gpuStatus'[g] # "offline"
             PROVE  session'[g] # "none" \/ g \in closing'
  BY DEF ShownMeansSession, IsConnected
<1>1. happened \cap {"patch", "restart"} = {}
  BY FaultsStay
<1>2. gpuStatus[g] # "offline" => session[g] # "none" \/ g \in closing
  BY <1>1 DEF GpuInv, ShownMeansSession, IsConnected
<1>3. \A h \in Gpu, s \in GpuStatus : ~ Patch(h, s) /\ ~ BackendRestart
  BY DEF Patch, BackendRestart, Mishap, Fault
<1>4. \/ UNCHANGED <<session, closing>>
      \/ \E h \in Gpu : MarkOnline(h) \/ NoticeDisconnect(h) \/ MarkOffline(h) \/ Connect(h)
      \/ BackendRestart
  BY DEF Next, vars, serverVars, Patch, SubmitMatched, SubmitPending, SendAssign, CancelBegin,
         CancelCommit, Heartbeat, GoStale, DropReport, JobStatusReport, SweepRead, SweepCommit,
         HandleMessage, AnnounceRunning, EndJob, Break, AgentCrash, AgentStart
<1> USE DEF IInv, TypeOK
<1>5. CASE gpuStatus[g] = "offline"
  <2>1. ASSUME NEW j \in Job, NEW h \in Gpu, SubmitMatched(j, h)
        PROVE  session'[g] # "none"
    BY <1>5, <2>1 DEF SubmitMatched, IsConnected
  <2>2. ASSUME NEW j \in Job, CancelCommit(j)
        PROVE  FALSE
    BY <1>5, <2>2 DEF CancelCommit
  <2>3. ASSUME NEW h \in Gpu, MarkOnline(h)
        PROVE  session'[g] # "none"
    BY <1>5, <2>3 DEF MarkOnline
  <2>4. ASSUME NEW h \in Gpu, JobStatusReport(h)
        PROVE  session'[g] # "none"
    <3>1. session[h] = "open" /\ session' = session
      BY <2>4 DEF JobStatusReport, serverVars
    <3>2. gpuStatus' = gpuStatus \/ gpuStatus' = [gpuStatus EXCEPT ![h] = "online"]
      BY <2>4, ReportTakes
    <3>3. QED
      BY <1>5, <3>1, <3>2
  <2>5. ASSUME NEW h \in Gpu, MarkOffline(h)
        PROVE  FALSE
    BY <1>5, <2>5 DEF MarkOffline
  <2>6. ~ SweepCommit
    BY <1>5 DEF SweepCommit
  <2>7. QED
    BY <1>3, <1>5, <2>1, <2>2, <2>3, <2>4, <2>5, <2>6, RowsChange
<1>6. CASE gpuStatus[g] # "offline"
  <2>1. ASSUME NEW h \in Gpu, MarkOnline(h) \/ Connect(h)
        PROVE  session'[g] # "none" \/ g \in closing'
    BY <1>2, <1>6, <2>1 DEF MarkOnline, Connect
  <2>2. ASSUME NEW h \in Gpu, NoticeDisconnect(h)
        PROVE  session'[g] # "none" \/ g \in closing'
    BY <1>2, <1>6, <2>2 DEF NoticeDisconnect
  <2>3. ASSUME NEW h \in Gpu, MarkOffline(h)
        PROVE  session'[g] # "none" \/ g \in closing'
    BY <1>2, <1>6, <2>3 DEF MarkOffline
  <2>4. QED
    BY <1>2, <1>3, <1>4, <1>6, <2>1, <2>2, <2>3
<1>7. QED
  BY <1>5, <1>6

LEMMA BusyStep ==
  ASSUME IInv, GpuInv, [Next]_vars
  PROVE  BusyHasJob'
<1> DEFINE HasJob(g) == \E j \in Job : jobGpu[j] = g /\ jobStatus[j] \in Assigned
<1> SUFFICES ASSUME happened' \cap {"patch", "overdue"} = {}, NEW g \in Gpu,
                    gpuStatus'[g] = "busy"
             PROVE  HasJob(g)'
  BY DEF BusyHasJob
<1>1. happened \cap {"patch", "overdue"} = {}
  BY FaultsStay
<1>2. gpuStatus[g] = "busy" => HasJob(g)
  BY <1>1 DEF GpuInv, BusyHasJob
<1>3. \A h \in Gpu, s \in GpuStatus : ~ Patch(h, s)
  BY DEF Patch, Mishap, Fault
<1> USE DEF IInv, TypeOK
<1>4. ASSUME NEW j \in Job, NEW h \in Gpu, SubmitMatched(j, h)
      PROVE  HasJob(g)'
  <2>1. CASE g = h
    BY <1>4, <2>1 DEF SubmitMatched
  <2>2. CASE g # h
    <3>1. gpuStatus[g] = "busy"
      BY <1>4, <2>2 DEF SubmitMatched
    <3>2. PICK k \in Job : jobGpu[k] = g /\ jobStatus[k] \in Assigned
      BY <1>2, <3>1
    <3>3. QED
      BY <1>4, <3>2 DEF SubmitMatched
  <2>3. QED
    BY <2>1, <2>2
<1>5. ASSUME NEW j \in Job, SubmitPending(j)
      PROVE  HasJob(g)'
  <2>1. gpuStatus[g] = "busy"
    BY <1>5 DEF SubmitPending, gpuVars
  <2>2. PICK k \in Job : jobGpu[k] = g /\ jobStatus[k] \in Assigned
    BY <1>2, <2>1
  <2>3. QED
    BY <1>5, <2>2 DEF SubmitPending
<1>6. ASSUME NEW j \in Job, CancelCommit(j)
      PROVE  HasJob(g)'
  <2>1. gpuStatus[g] = "busy"
    BY <1>6 DEF CancelCommit
  <2>2. PICK k \in Job : jobGpu[k] = g /\ jobStatus[k] \in Assigned
    BY <1>2, <2>1
  <2>3. k # j
    <3>1. CASE cancelling[j] = "unassigned"
      BY <2>2, <3>1 DEF GpuInv, CancelOfWaiting
    <3>2. CASE cancelling[j] = "assigned"
      BY <1>6, <2>1, <2>2, <3>2 DEF CancelCommit
    <3>3. QED
      BY <1>6, <3>1, <3>2 DEF CancelCommit
  <2>4. QED
    BY <1>6, <2>2, <2>3 DEF CancelCommit
<1>7. ASSUME NEW h \in Gpu, JobStatusReport(h)
      PROVE  HasJob(g)'
  <2>1. PICK s \in ToServer, j \in Job :
           /\ jobGpu' = jobGpu /\ jobGpu[j] = h
           /\ jobStatus' = [jobStatus EXCEPT ![j] = s]
           /\ s = "running" => gpuStatus' = gpuStatus
           /\ s # "running" => gpuStatus' = [gpuStatus EXCEPT ![h] = "online"]
    BY <1>7, ReportTakes
  <2>2. gpuStatus[g] = "busy" /\ (s # "running" => g # h)
    BY <2>1
  <2>3. PICK k \in Job : jobGpu[k] = g /\ jobStatus[k] \in Assigned
    BY <1>2, <2>2
  <2>4. k # j \/ s = "running"
    BY <2>1, <2>2, <2>3
  <2>5. QED
    BY <2>1, <2>3, <2>4
<1>8. CASE SweepCommit
  <2>1. gpuStatus[g] = "busy" /\ g \notin sweep.gpus
    BY <1>8 DEF SweepCommit
  <2>2. PICK k \in Job : jobGpu[k] = g /\ jobStatus[k] \in Assigned
    BY <1>2, <2>1
  <2>3. k \notin sweep.jobs
    BY <1>1, <2>1, <2>2 DEF GpuInv, SweepOfItsGpus
  <2>4. QED
    BY <1>8, <2>2, <2>3 DEF SweepCommit
<1>9. CASE UNCHANGED <<jobStatus, jobGpu>>
  <2>1. \A h \in Gpu : MarkOnline(h) \/ MarkOffline(h) => gpuStatus[g] = "busy"
    BY DEF MarkOnline, MarkOffline
  <2>2. gpuStatus[g] = "busy" \/ gpuStatus' # gpuStatus
    OBVIOUS
  <2>3. gpuStatus[g] = "busy"
    <3>1. ASSUME NEW j \in Job, NEW h \in Gpu, SubmitMatched(j, h)
          PROVE  FALSE
      BY <1>9, <3>1 DEF SubmitMatched
    <3>2. ASSUME NEW j \in Job, CancelCommit(j)
          PROVE  gpuStatus[g] = "busy"
      BY <3>2 DEF CancelCommit
    <3>3. ASSUME NEW h \in Gpu, JobStatusReport(h)
          PROVE  gpuStatus[g] = "busy"
      <4>1. gpuStatus' = gpuStatus \/ gpuStatus' = [gpuStatus EXCEPT ![h] = "online"]
        BY <3>3, ReportTakes
      <4>2. QED
        BY <4>1
    <3>4. SweepCommit => gpuStatus[g] = "busy"
      BY DEF SweepCommit
    <3>5. QED
      BY <1>3, <2>1, <2>2, <3>1, <3>2, <3>3, <3>4, RowsChange
  <2>4. QED
    BY <1>2, <1>9, <2>3
<1>10. QED
  BY <1>4, <1>5, <1>6, <1>7, <1>8, <1>9, RowsChange

\* A message of a channel that got one more is one it had, or that one.
LEMMA AppendedAt ==
  ASSUME NEW S, NEW c \in [Gpu -> Seq(S)], NEW g \in Gpu, NEW e \in S, NEW d,
         d = [c EXCEPT ![g] = Append(c[g], e)], NEW h \in Gpu, NEW i \in 1 .. Len(d[h])
  PROVE  \/ i \in 1 .. Len(c[h]) /\ d[h][i] = c[h][i]
         \/ h = g /\ d[h][i] = e
<1> DEFINE q == Append(c[g], e)
<1>1. /\ Len(q) = Len(c[g]) + 1 /\ Len(c[g]) \in Nat
      /\ \A n \in 1 .. Len(c[g]) : q[n] = c[g][n]
      /\ q[Len(c[g]) + 1] = e
  BY AppendSeq
<1>2. d[h] = IF h = g THEN q ELSE c[h]
  OBVIOUS
<1> HIDE DEF q
<1>3. CASE h # g
  BY <1>2, <1>3
<1>4. CASE h = g
  <2>1. i \in 1 .. Len(c[g]) \/ i = Len(c[g]) + 1
    BY <1>1, <1>2, <1>4
  <2>2. QED
    BY <1>1, <1>2, <1>4, <2>1
<1>5. QED
  BY <1>3, <1>4

\* When messages and current jobs are only lost, a job in work was so before.
LEMMA WorkLeft ==
  ASSUME NEW down \in [Gpu -> {0, 1}], NEW up \in [Gpu -> {0, 1}],
         AssignsLeft(down), ReportsLeft(up), dispatching' \subseteq dispatching,
         \A g \in Gpu : cur'[g] \in {cur[g], None},
         \A k \in Job : jobStatus'[k] \in Assigned => InWork(k),
         NEW j \in Job, InWork(j)'
  PROVE  InWork(j)
<1>1. NotSent(j) => NotSent(j)'
  <2> SUFFICES ASSUME NEW g \in Gpu, NEW i \in 1 .. Len(toAgent'[g]),
                      toAgent'[g][i] = <<"assign", j>>
               PROVE  ~ NotSent(j)
    BY DEF NotSent
  <2>1. toAgent'[g][i][1] = "assign"
    OBVIOUS
  <2>2. i + down[g] \in 1 .. Len(toAgent[g]) /\ toAgent[g][i + down[g]] = <<"assign", j>>
    BY <2>1 DEF AssignsLeft
  <2>3. QED
    BY <2>2 DEF NotSent
<1>2. NotHeld(j) => NotHeld(j)'
  BY DEF NotHeld
<1>3. NotReported(j) => NotReported(j)'
  BY DEF NotReported, ReportsLeft
<1>4. CASE jobStatus'[j] \in Assigned
  BY <1>4
<1>5. CASE jobStatus'[j] \notin Assigned
  BY <1>1, <1>2, <1>3, <1>5 DEF InWork
<1>6. QED
  BY <1>4, <1>5

\* No job comes into work but by a match.
LEMMA WorkStays ==
  ASSUME IInv, GpuInv, Calm,
         \/ \E j \in Job : SubmitPending(j) \/ SendAssign(j)
         \/ \E g \in Gpu : \/ MarkOnline(g) \/ Heartbeat(g) \/ GoStale(g)
                           \/ JobStatusReport(g) \/ DropReport(g) \/ Connect(g)
                           \/ HandleMessage(g) \/ AnnounceRunning(g) \/ EndJob(g)
                           \/ AgentStart(g)
         \/ SweepRead \/ SweepCommit
         \/ UNCHANGED vars,
         NEW j \in Job, InWork(j)'
  PROVE  InWork(j)
<1>1. /\ toAgent \in [Gpu -> Seq(ToAgentMsg)] /\ toServer \in [Gpu -> Seq(ToServerMsg)]
      /\ jobStatus \in [Job -> JobStatus] /\ cur \in [Gpu -> Job \cup {None}]
      /\ jobGpu \in [Job -> Gpu \cup {None}] /\ TypeOK
  BY DEF IInv, TypeOK, ToAgentMsg, ToServerMsg
<1>2. CASE \/ \E k \in Job : SubmitPending(k)
           \/ \E g \in Gpu : MarkOnline(g) \/ Heartbeat(g) \/ GoStale(g) \/ Connect(g)
           \/ SweepRead \/ SweepCommit \/ UNCHANGED vars
  <2>1. UNCHANGED <<toAgent, toServer, cur, dispatching>>
    BY <1>2 DEF SubmitPending, MarkOnline, Heartbeat, GoStale, Connect, SweepRead, SweepCommit,
                vars, serverVars, netVars, agentVars
  <2>2. jobStatus'[j] \in Assigned => jobStatus[j] \in Assigned
    BY <1>1, <1>2 DEF SubmitPending, MarkOnline, Heartbeat, GoStale, Connect, SweepRead,
                      SweepCommit, vars, jobVars
  <2>3. QED
    BY <2>1, <2>2 DEF InWork, NotSent, NotHeld, NotReported
<1>3. ASSUME NEW k \in Job, SendAssign(k)
      PROVE  InWork(j)
  <2>1. /\ UNCHANGED <<jobStatus, toServer, cur>> /\ k \in dispatching
        /\ dispatching' \subseteq dispatching
        /\ jobGpu[k] \in Gpu \cup {None} /\ <<"assign", k>> \in ToAgentMsg
    BY <1>1, <1>3 DEF SendAssign, jobVars, agentVars, ToAgentMsg
  <2>2. CASE j = k
    BY <2>1, <2>2 DEF InWork
  <2>3. CASE j # k
    <3>1. NotSent(j) => NotSent(j)'
      <4> SUFFICES ASSUME NotSent(j), NEW h \in Gpu, NEW i \in 1 .. Len(toAgent'[h])
                   PROVE  toAgent'[h][i] # <<"assign", j>>
        BY DEF NotSent
      <4>1. CASE toAgent' = toAgent
        BY <4>1 DEF NotSent
      <4>2. CASE /\ jobGpu[k] \in Gpu
                 /\ toAgent' = [toAgent EXCEPT ![jobGpu[k]] = Append(toAgent[jobGpu[k]], <<"assign", k>>)]
        <5>1. \/ i \in 1 .. Len(toAgent[h]) /\ toAgent'[h][i] = toAgent[h][i]
              \/ toAgent'[h][i] = <<"assign", k>>
          BY <1>1, <2>1, <4>2, AppendedAt
        <5>2. QED
          BY <2>3, <5>1 DEF NotSent
      <4>3. QED
        BY <1>1, <1>3, <2>1, <4>1, <4>2 DEF SendAssign, SendToGpu
    <3>2. QED
      BY <2>1, <3>1 DEF InWork, NotHeld, NotReported
  <2>4. QED
    BY <2>2, <2>3
<1>4. ASSUME NEW g \in Gpu, JobStatusReport(g)
      PROVE  InWork(j)
  <2>1. /\ ReportsLeft([NoShift EXCEPT ![g] = 1]) /\ AssignsLeft(NoShift)
        /\ [NoShift EXCEPT ![g] = 1] \in [Gpu -> {0, 1}]
        /\ cur' = cur /\ dispatching' = dispatching
    BY <1>1, <1>4, TakenReport, SameAssigns DEF JobStatusReport, NoShift, agentVars, serverVars
  <2>2. PICK s \in ToServer, k \in Job : ~ NotReported(k) /\ jobStatus' = [jobStatus EXCEPT ![k] = s]
    BY <1>4, ReportTakes
  <2>3. \A n \in Job : jobStatus'[n] \in Assigned => InWork(n)
    BY <1>1, <2>2 DEF InWork
  <2>4. QED
    BY <2>1, <2>3, NoShiftType, WorkLeft
<1>5. ASSUME NEW g \in Gpu, DropReport(g)
      PROVE  InWork(j)
  <2>1. /\ ReportsLeft([NoShift EXCEPT ![g] = 1]) /\ AssignsLeft(NoShift)
        /\ [NoShift EXCEPT ![g] = 1] \in [Gpu -> {0, 1}]
        /\ cur' = cur /\ dispatching' = dispatching /\ jobStatus' = jobStatus
    BY <1>1, <1>5, TakenReport, SameAssigns DEF DropReport, NoShift, agentVars, serverVars, jobVars
  <2>2. QED
    BY <2>1, NoShiftType, WorkLeft DEF InWork
<1>6. ASSUME NEW g \in Gpu, HandleMessage(g)
      PROVE  InWork(j)
  <2>1. /\ AssignsLeft([NoShift EXCEPT ![g] = 1])
        /\ [NoShift EXCEPT ![g] = 1] \in [Gpu -> {0, 1}]
        /\ UNCHANGED <<toServer, dispatching, jobStatus>>
        /\ toAgent[g] # <<>>
    BY <1>1, <1>6, TakenMessage DEF HandleMessage, NoShift, serverVars, jobVars
  <2>2. /\ Head(toAgent[g]) \in ToAgentMsg /\ Head(toAgent[g]) = toAgent[g][1]
        /\ Len(toAgent[g]) \in Nat \ {0}
    BY <1>1, <2>1, TailSeq
  <2>3. NotSent(j) => NotSent(j)'
    BY <2>1 DEF NotSent, AssignsLeft
  <2>4. NotSent(j) /\ NotHeld(j) => NotHeld(j)'
    <3>1. CASE cur' = cur
      BY <3>1 DEF NotHeld
    <3>2. CASE /\ Head(toAgent[g])[1] = "assign"
               /\ cur' = [cur EXCEPT ![g] = Head(toAgent[g])[2]]
      <4>1. Head(toAgent[g])[2] = j => Head(toAgent[g]) = <<"assign", j>>
        BY <2>2, <3>2 DEF ToAgentMsg
      <4>2. 1 \in 1 .. Len(toAgent[g])
        BY <2>2
      <4>3. NotSent(j) => Head(toAgent[g])[2] # j
        BY <2>2, <4>1, <4>2 DEF NotSent
      <4>4. QED
        BY <1>1, <3>2, <4>3 DEF NotHeld
    <3>3. QED
      BY <1>6, <3>1, <3>2 DEF HandleMessage
  <2>5. QED
    BY <2>1, <2>3, <2>4 DEF InWork, NotReported
<1>7. ASSUME NEW g \in Gpu, AnnounceRunning(g) \/ EndJob(g)
      PROVE  InWork(j)
  <2>1. /\ cur[g] \in Job /\ UNCHANGED <<jobStatus, dispatching, toAgent>>
        /\ \A h \in Gpu : cur'[h] \in {cur[h], None}
    BY <1>1, <1>7 DEF AnnounceRunning, EndJob, IInv, JobInv, HeldInHandler, jobVars, serverVars
  <2>2. \/ toServer' = toServer
        \/ \E s \in ToServer :
             toServer' = [toServer EXCEPT ![g] = Append(toServer[g], <<s, cur[g]>>)]
    BY <1>7 DEF AnnounceRunning, EndJob, SendJobStatus
  <2>3. NotReported(j) /\ NotHeld(j) => NotReported(j)'
    <3>1. CASE toServer' = toServer
      BY <3>1 DEF NotReported
    <3>2. ASSUME NEW s \in ToServer,
                 toServer' = [toServer EXCEPT ![g] = Append(toServer[g], <<s, cur[g]>>)],
                 NotReported(j), NotHeld(j), NEW h \in Gpu, NEW i \in 1 .. Len(toServer'[h])
          PROVE  toServer'[h][i][2] # j
      <4>1. <<s, cur[g]>> \in ToServerMsg
        BY <2>1 DEF ToServerMsg
      <4>2. \/ i \in 1 .. Len(toServer[h]) /\ toServer'[h][i] = toServer[h][i]
            \/ toServer'[h][i] = <<s, cur[g]>>
        BY <1>1, <3>2, <4>1, AppendedAt
      <4>3. QED
        BY <3>2, <4>2 DEF NotReported, NotHeld
    <3>3. QED
      BY <2>2, <3>1, <3>2 DEF NotReported
  <2>4. QED
    BY <2>1, <2>3 DEF InWork, NotSent, NotHeld
<1>8. ASSUME NEW g \in Gpu, AgentStart(g)
      PROVE  InWork(j)
  <2>1. /\ UNCHANGED <<jobStatus, dispatching, toServer, cur>>
        /\ \A h \in Gpu : toAgent'[h] = toAgent[h] \/ toAgent'[h] = <<>>
    BY <1>1, <1>8 DEF AgentStart, jobVars, serverVars
  <2>2. NotSent(j) => NotSent(j)'
    BY <2>1 DEF NotSent
  <2>3. QED
    BY <2>1, <2>2 DEF InWork, NotHeld, NotReported
<1>9. QED
  BY <1>2, <1>3, <1>4, <1>5, <1>6, <1>7, <1>8

\* In the calm, what happens is one of these.
LEMMA CalmActions ==
  ASSUME IInv, GpuInv, [Next]_vars, Calm', Calm
  PROVE  \/ \E j \in Job, g \in Gpu : SubmitMatched(j, g)
         \/ \E j \in Job : SubmitPending(j) \/ SendAssign(j)
         \/ \E g \in Gpu : \/ MarkOnline(g) \/ Heartbeat(g) \/ GoStale(g)
                           \/ JobStatusReport(g) \/ DropReport(g) \/ Connect(g)
                           \/ HandleMessage(g) \/ AnnounceRunning(g) \/ EndJob(g)
                           \/ AgentStart(g)
         \/ SweepRead \/ SweepCommit
         \/ UNCHANGED vars
<1>1. CalmSessions
  BY DEF GpuInv
<1>2. ASSUME NEW j \in Job
      PROVE  ~ CancelBegin(j) /\ ~ CancelCommit(j)
  BY <1>1 DEF CancelBegin, CancelCommit, Fault, Calm, CalmSessions
<1>3. ASSUME NEW g \in Gpu
      PROVE  /\ ~ NoticeDisconnect(g) /\ ~ MarkOffline(g) /\ ~ Break(g) /\ ~ AgentCrash(g)
             /\ \A s \in GpuStatus : ~ Patch(g, s)
  <2>1. ~ NoticeDisconnect(g) /\ ~ MarkOffline(g)
    BY <1>1 DEF NoticeDisconnect, MarkOffline, CalmSessions
  <2>2. ~ Break(g)
    BY DEF Break, Mishap, Fault, Calm
  <2>3. ~ AgentCrash(g)
    BY DEF AgentCrash, Mishap, Fault, Calm
  <2>4. \A s \in GpuStatus : ~ Patch(g, s)
    BY DEF Patch, Mishap, Fault, Calm
  <2>5. QED
    BY <2>1, <2>2, <2>3, <2>4
<1>4. ~ BackendRestart
  BY DEF BackendRestart, Mishap, Fault, Calm
<1>5. QED
  BY <1>2, <1>3, <1>4 DEF Next

LEMMA CalmSessionsStep ==
  ASSUME IInv, GpuInv, [Next]_vars, Calm', Calm
  PROVE  CalmSessions'
<1>1. CalmSessions /\ OneInWork
  BY DEF GpuInv
<1>2. /\ toAgent \in [Gpu -> Seq(ToAgentMsg)] /\ session \in [Gpu -> Session]
      /\ gpuStatus \in [Gpu -> GpuStatus] /\ jobGpu \in [Job -> Gpu \cup {None}]
      /\ jobStatus \in [Job -> JobStatus] /\ cur \in [Gpu -> Job \cup {None}]
  BY DEF IInv, TypeOK, ToAgentMsg
<1>3. ASSUME NEW g \in Gpu, HandleMessage(g)
      PROVE  link' = link /\ toAgent' = [toAgent EXCEPT ![g] = Tail(@)] /\ toAgent[g] # <<>>
  <2>1. toAgent[g] # <<>>
    BY <1>3 DEF HandleMessage
  <2>2. /\ Head(toAgent[g]) = toAgent[g][1] /\ Len(toAgent[g]) \in Nat \ {0}
    BY <1>2, <2>1, TailSeq
  <2>3. 1 \in 1 .. Len(toAgent[g])
    BY <2>2
  <2>4. Head(toAgent[g])[1] = "assign"
    BY <1>1, <2>2, <2>3 DEF CalmSessions
  <2>5. QED
    BY <1>3, <2>1, <2>4 DEF HandleMessage
<1>4. /\ closing' = closing /\ cancelling' = cancelling
      /\ link \subseteq link'
      /\ \A g \in Gpu : session'[g] # "none" => session[g] # "none" \/ g \in link'
  BY <1>2, <1>3, CalmActions
  DEF SubmitMatched, SubmitPending, SendAssign, MarkOnline, Heartbeat, GoStale, JobStatusReport,
      DropReport, Connect, HandleMessage, AnnounceRunning, EndJob, AgentStart, SweepRead,
      SweepCommit, vars, serverVars, netVars
<1>5. ASSUME NEW g \in Gpu, NEW i \in 1 .. Len(toAgent'[g])
      PROVE  toAgent'[g][i][1] = "assign"
  <2>1. CASE toAgent' = toAgent
    BY <1>1, <2>1 DEF CalmSessions
  <2>2. ASSUME NEW j \in Job, SendAssign(j)
        PROVE  toAgent'[g][i][1] = "assign"
    <3>1. CASE /\ jobGpu[j] \in Gpu
               /\ toAgent' = [toAgent EXCEPT ![jobGpu[j]] = Append(toAgent[jobGpu[j]], <<"assign", j>>)]
      <4>1. <<"assign", j>> \in ToAgentMsg
        BY DEF ToAgentMsg
      <4>2. \/ i \in 1 .. Len(toAgent[g]) /\ toAgent'[g][i] = toAgent[g][i]
            \/ toAgent'[g][i] = <<"assign", j>>
        BY <1>2, <3>1, <4>1, AppendedAt
      <4>3. QED
        BY <1>1, <4>2 DEF CalmSessions
    <3>2. QED
      BY <1>2, <2>1, <2>2, <3>1 DEF SendAssign, SendToGpu
  <2>3. ASSUME NEW h \in Gpu, HandleMessage(h)
        PROVE  toAgent'[g][i][1] = "assign"
    <3>1. CASE g = h
      <4>1. /\ toAgent'[g] = Tail(toAgent[g]) /\ toAgent[g] # <<>>
        BY <1>2, <1>3, <2>3, <3>1
      <4>2. /\ Len(Tail(toAgent[g])) = Len(toAgent[g]) - 1 /\ Len(toAgent[g]) \in Nat \ {0}
            /\ \A n \in 1 .. Len(Tail(toAgent[g])) : Tail(toAgent[g])[n] = toAgent[g][n + 1]
        BY <1>2, <4>1, TailSeq
      <4>3. i + 1 \in 1 .. Len(toAgent[g]) /\ toAgent'[g][i] = toAgent[g][i + 1]
        BY <4>1, <4>2
      <4>4. QED
        BY <1>1, <4>3 DEF CalmSessions
    <3>2. CASE g # h
      BY <1>1, <1>2, <1>3, <2>3, <3>2 DEF CalmSessions
    <3>3. QED
      BY <3>1, <3>2
  <2>4. ASSUME NEW h \in Gpu, AgentStart(h)
        PROVE  toAgent'[g][i][1] = "assign"
    <3>1. toAgent'[g] = toAgent[g] \/ toAgent'[g] = <<>>
      BY <1>2, <2>4 DEF AgentStart
    <3>2. QED
      BY <1>1, <3>1 DEF CalmSessions
  <2>5. QED
    BY <2>1, <2>2, <2>3, <2>4, CalmActions
    DEF SubmitMatched, SubmitPending, MarkOnline, Heartbeat, GoStale, JobStatusReport,
        DropReport, Connect, AnnounceRunning, EndJob, SweepRead, SweepCommit, vars, netVars
<1>6. ASSUME NEW g \in Gpu, session'[g] # "open"
      PROVE  gpuStatus'[g] = "offline" /\ \A j \in Job : jobGpu'[j] # g
  <2>1. session[g] # "open"
    BY <1>2, <1>6, CalmActions
    DEF SubmitMatched, SubmitPending, SendAssign, MarkOnline, Heartbeat, GoStale,
        JobStatusReport, DropReport, Connect, HandleMessage, AnnounceRunning, EndJob,
        AgentStart, SweepRead, SweepCommit, vars, serverVars
  <2>2. gpuStatus[g] = "offline" /\ \A j \in Job : jobGpu[j] # g
    BY <1>1, <2>1 DEF CalmSessions
  <2>3. CASE UNCHANGED <<jobGpu, gpuStatus>>
    BY <2>2, <2>3
  <2>4. ASSUME NEW j \in Job, NEW h \in Gpu, SubmitMatched(j, h)
        PROVE  gpuStatus'[g] = "offline" /\ \A k \in Job : jobGpu'[k] # g
    BY <1>2, <2>2, <2>4 DEF SubmitMatched
  <2>5. ASSUME NEW h \in Gpu, MarkOnline(h)
        PROVE  gpuStatus'[g] = "offline" /\ \A k \in Job : jobGpu'[k] # g
    BY <1>2, <1>6, <2>2, <2>5 DEF MarkOnline, jobVars
  <2>6. ASSUME NEW h \in Gpu, JobStatusReport(h)
        PROVE  gpuStatus'[g] = "offline" /\ \A k \in Job : jobGpu'[k] # g
    <3>1. PICK s \in ToServer, j \in Job :
             /\ jobGpu' = jobGpu /\ jobGpu[j] = h
             /\ gpuStatus' = gpuStatus \/ gpuStatus' = [gpuStatus EXCEPT ![h] = "online"]
      BY <2>6, ReportTakes
    <3>2. QED
      BY <1>2, <2>2, <3>1
  <2>7. SweepCommit => gpuStatus'[g] = "offline" /\ \A k \in Job : jobGpu'[k] # g
    BY <2>2 DEF SweepCommit
  <2>8. QED
    BY <2>3, <2>4, <2>5, <2>6, <2>7, CalmActions
    DEF SubmitPending, SendAssign, Heartbeat, GoStale, DropReport, Connect, HandleMessage,
        AnnounceRunning, EndJob, AgentStart, SweepRead, vars, jobVars, gpuVars
<1>7. QED
  BY <1>1, <1>4, <1>5, <1>6 DEF CalmSessions

LEMMA OneInWorkStep ==
  ASSUME IInv, GpuInv, [Next]_vars, Calm', Calm
  PROVE  OneInWork'
<1>1. CalmSessions /\ OneInWork
  BY DEF GpuInv
<1>2. /\ session \in [Gpu -> Session] /\ gpuStatus \in [Gpu -> GpuStatus]
      /\ jobGpu \in [Job -> Gpu \cup {None}] /\ jobStatus \in [Job -> JobStatus]
  BY DEF IInv, TypeOK
<1>3. ASSUME NEW j \in Job, NEW g \in Gpu, SubmitMatched(j, g)
      PROVE  OneInWork'
  <2>1. /\ gpuStatus[g] = "online" /\ jobStatus[j] = "none"
        /\ gpuStatus' = [gpuStatus EXCEPT ![g] = "busy"]
        /\ jobGpu' = [jobGpu EXCEPT ![j] = g]
        /\ jobStatus' = [jobStatus EXCEPT ![j] = "queued"]
        /\ dispatching' = dispatching \cup {j}
        /\ UNCHANGED <<toAgent, toServer, cur>>
    BY <1>3 DEF SubmitMatched, netVars, agentVars
  <2>2. ASSUME NEW k \in Job, k # j, InWork(k)'
        PROVE  InWork(k) /\ jobGpu'[k] = jobGpu[k]
    BY <1>2, <2>1, <2>2 DEF InWork, NotSent, NotHeld, NotReported
  <2>3. \A k \in Job : k # j /\ InWork(k)' => jobGpu[k] # g
    BY <1>1, <2>1, <2>2 DEF OneInWork
  <2>4. ASSUME NEW h \in Gpu, NEW k \in Job, jobGpu'[k] = h, InWork(k)'
        PROVE  /\ gpuStatus'[h] # "online"
               /\ \A n \in Job : jobGpu'[n] = h /\ InWork(n)' => n = k
    <3>1. CASE h = g
      BY <1>2, <2>1, <2>2, <2>3, <2>4, <3>1
    <3>2. CASE h # g
      <4>1. k # j /\ InWork(k) /\ jobGpu[k] = h
        BY <1>2, <2>1, <2>2, <2>4, <3>2
      <4>2. gpuStatus[h] # "online" /\ \A n \in Job : jobGpu[n] = h /\ InWork(n) => n = k
        BY <1>1, <4>1 DEF OneInWork
      <4>3. \A n \in Job : jobGpu'[n] = h /\ InWork(n)' => n = k
        BY <1>2, <2>1, <2>2, <3>2, <4>2
      <4>4. QED
        BY <1>2, <2>1, <3>2, <4>2, <4>3
    <3>3. QED
      BY <3>1, <3>2
  <2>5. QED
    BY <2>4 DEF OneInWork
<1>4. ASSUME NEW g \in Gpu, JobStatusReport(g)
      PROVE  OneInWork'
  <2>1. PICK s \in ToServer, j \in Job :
           /\ jobGpu' = jobGpu /\ jobGpu[j] = g /\ ~ NotReported(j)
           /\ j \notin dispatching
           /\ jobStatus' = [jobStatus EXCEPT ![j] = s]
           /\ s = "running" => gpuStatus' = gpuStatus
           /\ s # "running" => /\ gpuStatus' = [gpuStatus EXCEPT ![g] = "online"]
                               /\ NotSent(j)' /\ NotHeld(j)' /\ NotReported(j)'
    BY <1>4, ReportTakes
  <2>2. \A k \in Job : InWork(k)' => InWork(k)
    BY <1>4, WorkStays
  <2>3. s # "running" => ~ InWork(j)'
    <3>1. dispatching' = dispatching
      BY <1>4 DEF JobStatusReport, serverVars
    <3>2. QED
      BY <1>2, <2>1, <3>1 DEF InWork
  <2>4. ASSUME NEW h \in Gpu, NEW k \in Job, jobGpu'[k] = h, InWork(k)'
        PROVE  /\ gpuStatus'[h] # "online"
               /\ \A n \in Job : jobGpu'[n] = h /\ InWork(n)' => n = k
    <3>1. gpuStatus[h] # "online" /\ \A n \in Job : jobGpu[n] = h /\ InWork(n) => n = k
      BY <1>1, <2>1, <2>2, <2>4 DEF OneInWork
    <3>2. \A n \in Job : jobGpu'[n] = h /\ InWork(n)' => n = k
      BY <2>1, <2>2, <3>1
    <3>3. CASE s = "running"
      BY <2>1, <3>1, <3>2, <3>3
    <3>4. CASE s # "running"
      <4>1. h = g => k = j
        BY <2>1, <3>1 DEF InWork
      <4>2. h # g
        BY <2>3, <2>4, <3>4, <4>1
      <4>3. QED
        BY <1>2, <2>1, <3>1, <3>2, <3>4, <4>2
    <3>5. QED
      BY <3>3, <3>4
  <2>5. QED
    BY <2>4 DEF OneInWork
<1>5. ASSUME NEW g \in Gpu, MarkOnline(g)
      PROVE  OneInWork'
  <2>1. \A j \in Job : jobGpu[j] # g
    BY <1>1, <1>5 DEF MarkOnline, CalmSessions
  <2>2. \A k \in Job : InWork(k)' => InWork(k)
    BY <1>5, WorkStays
  <2>3. jobGpu' = jobGpu /\ gpuStatus' = [gpuStatus EXCEPT ![g] = "online"]
    BY <1>5 DEF MarkOnline, jobVars
  <2>4. QED
    BY <1>1, <1>2, <2>1, <2>2, <2>3 DEF OneInWork
<1>6. CASE \/ \E j \in Job : SubmitPending(j) \/ SendAssign(j)
           \/ \E g \in Gpu : \/ Heartbeat(g) \/ GoStale(g) \/ DropReport(g) \/ Connect(g)
                             \/ HandleMessage(g) \/ AnnounceRunning(g) \/ EndJob(g)
                             \/ AgentStart(g)
           \/ SweepRead \/ SweepCommit
           \/ UNCHANGED vars
  <2>1. \A k \in Job : InWork(k)' => InWork(k)
    BY <1>6, WorkStays
  <2>2. /\ jobGpu' = jobGpu
        /\ \A g \in Gpu : gpuStatus'[g] = gpuStatus[g] \/ gpuStatus'[g] = "offline"
    BY <1>6 DEF SubmitPending, SendAssign, Heartbeat, GoStale, DropReport, Connect,
                HandleMessage, AnnounceRunning, EndJob, AgentStart, SweepRead, SweepCommit,
                vars, jobVars, gpuVars
  <2>3. QED
    BY <1>1, <2>1, <2>2 DEF OneInWork
<1>7. QED
  BY <1>3, <1>4, <1>5, <1>6, CalmActions

LEMMA GpuStep ==
  ASSUME IInv, GpuInv, [Next]_vars
  PROVE  GpuInv'
<1>1. Calm' => CalmSessions' /\ OneInWork'
  <2>1. Calm' => Calm
    BY FaultsStay DEF Calm
  <2>2. QED
    BY <2>1, CalmSessionsStep, OneInWorkStep
<1>2. QED
  BY <1>1, MatchedStep, CancelStep, SweepStep, ShownStep, BusyStep DEF GpuInv

LEMMA GpuStart == Init => GpuInv
<1> SUFFICES ASSUME Init
             PROVE  GpuInv
  OBVIOUS
<1>1. MatchedHasGpu /\ CancelOfWaiting /\ SweepOfItsGpus
  BY DEF Init, MatchedHasGpu, CancelOfWaiting, SweepOfItsGpus, NoSweep
<1>2. ShownMeansSession /\ BusyHasJob
  BY DEF Init, ShownMeansSession, BusyHasJob
<1>3. CalmSessions
  BY DEF Init, CalmSessions
<1>4. OneInWork
  BY DEF Init, OneInWork
<1>5. QED
  BY <1>1, <1>2, <1>3, <1>4 DEF GpuInv

-----------------------------------------------------------------------------
(* The life of a job.                                                      *)

\* The report of the start is made once, and before that of the end.
AnnouncedOnce ==
  \A g \in Gpu : \A i, k \in 1 .. Len(toServer[g]) :
    k > i /\ toServer[g][k][2] = toServer[g][i][2] => toServer[g][k][1] # "running"

\* What is being cancelled was submitted.
CancelOfSubmitted == \A j \in Job : cancelling[j] # "no" => jobStatus[j] # "none"

LifeInv == AnnouncedOnce /\ CancelOfSubmitted

\* No report comes within reach that was not: the end of a job is within reach
\* once it can be started.
Fewer ==
  \A j \in Job : /\ StartToCome(j)' => StartToCome(j)
                 /\ EndToCome(j)' => StartToCome(j) \/ EndToCome(j)

LEMMA FewerCome ==
  ASSUME Fewer, NEW j \in Job
  PROVE  ToCome(j)' <= ToCome(j)
BY DEF Fewer, ToCome

LEMMA ToComeIs == \A j \in Job : ToCome(j) \in 0..2 /\ (jobStatus[j] = "none" => ToCome(j) = 2)
BY DEF ToCome, StartToCome

\* The reports of the jobs are the function that JobLife is given.
LEMMA LoseStep ==
  ASSUME Fewer, UNCHANGED <<jobStatus, started, billed>>
  PROVE  Life!Lose
<1>1. \A j \in Job : ToCome(j)' <= ToCome(j)
  BY FewerCome
<1>2. \A j \in Job : ToCome(j)' \in 0..2 /\ (jobStatus[j] = "none" => ToCome(j)' = 2 /\ ToCome(j) = 2)
  BY DEF ToCome, StartToCome
<1>3. QED
  BY <1>1, <1>2 DEF Life!Lose

\* Channels and agents as they were.
LEMMA SameToCome ==
  ASSUME UNCHANGED <<toAgent, toServer, phase, cur, dispatching>>, NEW j \in Job,
         jobStatus'[j] = "none" <=> jobStatus[j] = "none"
  PROVE  ToCome(j)' = ToCome(j)
<1>1. StartToCome(j)' <=> StartToCome(j)
  BY DEF StartToCome
<1>2. EndToCome(j)' <=> EndToCome(j)
  BY DEF EndToCome
<1>3. QED
  BY <1>1, <1>2 DEF ToCome

LEMMA LosingLeaves ==
  ASSUME IInv, NEW down \in [Gpu -> {0, 1}], NEW up \in [Gpu -> {0, 1}],
         AssignsLeft(down), ReportsLeft(up), JobsLeft, HeldLeft
  PROVE  Fewer
<1> SUFFICES ASSUME NEW j \in Job
             PROVE  /\ StartToCome(j)' => StartToCome(j)
                    /\ EndToCome(j)' => EndToCome(j)
  BY DEF Fewer
<1>1. ASSUME NEW g \in Gpu, NEW p \in {"accepted", "executing"}, cur'[g] = j, phase'[g] = p
      PROVE  cur[g] = j /\ phase[g] = p
  BY <1>1 DEF HeldLeft
<1>2. ASSUME NEW g \in Gpu, NEW i \in 1 .. Len(toAgent'[g]), toAgent'[g][i] = <<"assign", j>>
      PROVE  \E k \in 1 .. Len(toAgent[g]) : toAgent[g][k] = <<"assign", j>>
  <2>1. toAgent'[g][i][1] = "assign"
    BY <1>2
  <2>2. i + down[g] \in 1 .. Len(toAgent[g]) /\ toAgent[g][i + down[g]] = <<"assign", j>>
    BY <1>2, <2>1 DEF AssignsLeft
  <2>3. QED
    BY <2>2
<1>3. ASSUME NEW g \in Gpu, NEW i \in 1 .. Len(toServer'[g])
      PROVE  \E k \in 1 .. Len(toServer[g]) : toServer[g][k] = toServer'[g][i]
  <2>1. i + up[g] \in 1 .. Len(toServer[g]) /\ toServer[g][i + up[g]] = toServer'[g][i]
    BY DEF ReportsLeft
  <2>2. QED
    BY <2>1
<1>4. StartToCome(j)' => StartToCome(j)
  <2>1. jobStatus'[j] = "none" \/ j \in dispatching' => jobStatus[j] = "none" \/ j \in dispatching
    BY DEF JobsLeft
  <2>2. ASSUME NEW g \in Gpu, cur'[g] = j, phase'[g] = "accepted"
        PROVE  StartToCome(j)
    BY <1>1, <2>2 DEF StartToCome
  <2>3. ASSUME NEW g \in Gpu, NEW i \in 1 .. Len(toAgent'[g]), toAgent'[g][i] = <<"assign", j>>
        PROVE  StartToCome(j)
    BY <1>2, <2>3 DEF StartToCome
  <2>4. ASSUME NEW g \in Gpu, NEW i \in 1 .. Len(toServer'[g]), toServer'[g][i] = <<"running", j>>
        PROVE  StartToCome(j)
    BY <1>3, <2>4 DEF StartToCome
  <2>5. QED
    BY <2>1, <2>2, <2>3, <2>4 DEF StartToCome
<1>5. EndToCome(j)' => EndToCome(j)
  BY <1>1, <1>3 DEF EndToCome
<1>6. QED
  BY <1>4, <1>5

\* The assignment is sent.
LEMMA SendLeaves ==
  ASSUME IInv, NEW j \in Job, SendAssign(j)
  PROVE  Fewer
<1>1. /\ UNCHANGED <<jobStatus, toServer, phase, cur>> /\ j \in dispatching
      /\ dispatching' \subseteq dispatching
      /\ jobGpu[j] \in Gpu \cup {None} /\ <<"assign", j>> \in ToAgentMsg
      /\ toAgent \in [Gpu -> Seq(ToAgentMsg)]
  BY DEF SendAssign, jobVars, agentVars, IInv, TypeOK, ToAgentMsg
<1>2. ASSUME NEW h \in Gpu, NEW i \in 1 .. Len(toAgent'[h])
      PROVE  \/ \E k \in 1 .. Len(toAgent[h]) : toAgent[h][k] = toAgent'[h][i]
             \/ toAgent'[h][i] = <<"assign", j>>
  <2>1. CASE toAgent' = toAgent
    BY <2>1
  <2>2. CASE /\ jobGpu[j] \in Gpu
             /\ toAgent' = [toAgent EXCEPT ![jobGpu[j]] = Append(toAgent[jobGpu[j]], <<"assign", j>>)]
    <3>1. \/ i \in 1 .. Len(toAgent[h]) /\ toAgent'[h][i] = toAgent[h][i]
          \/ toAgent'[h][i] = <<"assign", j>>
      BY <1>1, <2>2, AppendedAt
    <3>2. QED
      BY <3>1
  <2>3. QED
    BY <1>1, <2>1, <2>2 DEF SendAssign, SendToGpu
<1>3. ASSUME NEW k \in Job, StartToCome(k)'
      PROVE  StartToCome(k)
  <2>1. CASE k = j
    BY <1>1, <2>1 DEF StartToCome
  <2>2. CASE k # j
    <3>1. \A h \in Gpu : \A i \in 1 .. Len(toAgent'[h]) : toAgent'[h][i] = <<"assign", k>>
            => \E n \in 1 .. Len(toAgent[h]) : toAgent[h][n] = <<"assign", k>>
      BY <1>2, <2>2
    <3>2. QED
      BY <1>1, <1>3, <3>1 DEF StartToCome
  <2>3. QED
    BY <2>1, <2>2
<1>4. \A k \in Job : EndToCome(k)' => EndToCome(k)
  BY <1>1 DEF EndToCome
<1>5. QED
  BY <1>3, <1>4 DEF Fewer

\* The agent takes a message; what is assigned was on its way.
LEMMA HandleLeaves ==
  ASSUME IInv, NEW g \in Gpu, HandleMessage(g)
  PROVE  Fewer
<1> DEFINE m == Head(toAgent[g])
<1>1. /\ UNCHANGED <<jobStatus, toServer, dispatching>>
      /\ phase[g] = "idle" /\ toAgent[g] # <<>>
      /\ toAgent' = [toAgent EXCEPT ![g] = Tail(@)]
      /\ toAgent \in [Gpu -> Seq(ToAgentMsg)]
      /\ cur \in [Gpu -> Job \cup {None}] /\ phase \in [Gpu -> Phase]
  BY DEF HandleMessage, jobVars, serverVars, IInv, TypeOK, ToAgentMsg
<1>2. m \in ToAgentMsg /\ m = toAgent[g][1] /\ 1 \in 1 .. Len(toAgent[g])
  <2>1. m \in ToAgentMsg /\ m = toAgent[g][1] /\ Len(toAgent[g]) \in Nat \ {0}
    BY <1>1, TailSeq
  <2>2. QED
    BY <2>1
<1>3. AssignsLeft([NoShift EXCEPT ![g] = 1])
  BY <1>1, TakenMessage DEF IInv
<1>4. ASSUME NEW h \in Gpu, NEW p \in {"accepted", "executing"}, NEW j \in Job,
             cur'[h] = j, phase'[h] = p
      PROVE  \/ cur[h] = j /\ phase[h] = p
             \/ h = g /\ p = "accepted" /\ m = <<"assign", j>>
  <2>1. CASE m[1] = "assign"
    <3>1. phase' = [phase EXCEPT ![g] = "accepted"] /\ cur' = [cur EXCEPT ![g] = m[2]]
      BY <2>1 DEF HandleMessage
    <3>2. CASE h = g
      BY <1>1, <1>2, <1>4, <2>1, <3>1, <3>2 DEF ToAgentMsg
    <3>3. CASE h # g
      BY <1>1, <1>4, <3>1, <3>3
    <3>4. QED
      BY <3>2, <3>3
  <2>2. CASE m[1] # "assign"
    <3>1. cur' = cur /\ (phase' = phase \/ phase' = [phase EXCEPT ![g] = "stopped"])
      BY <2>2 DEF HandleMessage
    <3>2. QED
      BY <1>1, <1>4, <3>1
  <2>3. QED
    BY <2>1, <2>2
<1> HIDE DEF m
<1>5. ASSUME NEW j \in Job, StartToCome(j)'
      PROVE  StartToCome(j)
  <2>1. ASSUME NEW h \in Gpu, NEW i \in 1 .. Len(toAgent'[h]), toAgent'[h][i] = <<"assign", j>>
        PROVE  \E k \in 1 .. Len(toAgent[h]) : toAgent[h][k] = <<"assign", j>>
    <3> DEFINE down == [NoShift EXCEPT ![g] = 1]
    <3>1. toAgent'[h][i][1] = "assign"
      BY <2>1
    <3>2. i + down[h] \in 1 .. Len(toAgent[h]) /\ toAgent[h][i + down[h]] = <<"assign", j>>
      BY <1>3, <2>1, <3>1 DEF AssignsLeft
    <3> HIDE DEF down
    <3>3. QED
      BY <3>2
  <2>2. ASSUME NEW h \in Gpu, cur'[h] = j, phase'[h] = "accepted"
        PROVE  StartToCome(j)
    BY <1>2, <1>4, <2>2 DEF StartToCome
  <2>3. QED
    BY <1>1, <1>5, <2>1, <2>2 DEF StartToCome
<1>6. ASSUME NEW j \in Job, EndToCome(j)'
      PROVE  EndToCome(j)
  BY <1>1, <1>4, <1>6 DEF EndToCome
<1>7. QED
  BY <1>5, <1>6 DEF Fewer

\* The agent reports of the job it holds.
LEMMA ReportingLeaves ==
  ASSUME IInv, NEW g \in Gpu, AnnounceRunning(g) \/ EndJob(g)
  PROVE  Fewer
<1>1. /\ UNCHANGED <<jobStatus, toAgent, dispatching>>
      /\ toServer \in [Gpu -> Seq(ToServerMsg)] /\ cur[g] \in Job
      /\ cur \in [Gpu -> Job \cup {None}] /\ phase \in [Gpu -> Phase]
      /\ \A h \in Gpu : cur'[h] \in {cur[h], None}
  BY DEF AnnounceRunning, EndJob, jobVars, serverVars, IInv, JobInv, HeldInHandler, TypeOK, ToServerMsg
<1>2. PICK s \in ToServer, p \in Phase :
        /\ phase' = [phase EXCEPT ![g] = p]
        /\ toServer' \in {toServer, [toServer EXCEPT ![g] = Append(toServer[g], <<s, cur[g]>>)]}
        /\ \/ s = "running" /\ phase[g] = "accepted" /\ p \in {"executing", "stuck"}
           \/ s # "running" /\ phase[g] = "executing" /\ p \in {"idle", "stuck"}
  BY DEF AnnounceRunning, EndJob, SendJobStatus, Phase
<1>3. ASSUME NEW h \in Gpu, NEW i \in 1 .. Len(toServer'[h])
      PROVE  \/ \E k \in 1 .. Len(toServer[h]) : toServer[h][k] = toServer'[h][i]
             \/ toServer'[h][i] = <<s, cur[g]>>
  <2>1. CASE toServer' = toServer
    BY <2>1
  <2>2. CASE toServer' = [toServer EXCEPT ![g] = Append(toServer[g], <<s, cur[g]>>)]
    <3>1. <<s, cur[g]>> \in ToServerMsg
      BY <1>1 DEF ToServerMsg
    <3>2. \/ i \in 1 .. Len(toServer[h]) /\ toServer'[h][i] = toServer[h][i]
          \/ toServer'[h][i] = <<s, cur[g]>>
      BY <1>1, <2>2, <3>1, AppendedAt
    <3>3. QED
      BY <3>2
  <2>3. QED
    BY <1>2, <2>1, <2>2
<1>4. ASSUME NEW h \in Gpu, NEW j \in Job, cur'[h] = j
      PROVE  /\ cur[h] = j
             /\ phase'[h] = "accepted" => phase[h] = "accepted"
             /\ phase'[h] = "executing" => phase[h] \in {"accepted", "executing"}
  BY <1>1, <1>2, <1>4
<1>5. ASSUME NEW j \in Job, StartToCome(j)'
      PROVE  StartToCome(j)
  <2>1. ASSUME NEW h \in Gpu, NEW i \in 1 .. Len(toServer'[h]), toServer'[h][i] = <<"running", j>>
        PROVE  StartToCome(j)
    <3>1. CASE toServer'[h][i] = <<s, cur[g]>>
      BY <1>2, <2>1, <3>1 DEF StartToCome
    <3>2. CASE \E k \in 1 .. Len(toServer[h]) : toServer[h][k] = toServer'[h][i]
      BY <2>1, <3>2 DEF StartToCome
    <3>3. QED
      BY <1>3, <3>1, <3>2
  <2>2. QED
    BY <1>1, <1>4, <1>5, <2>1 DEF StartToCome
<1>6. ASSUME NEW j \in Job, EndToCome(j)'
      PROVE  StartToCome(j) \/ EndToCome(j)
  <2>1. ASSUME NEW h \in Gpu, NEW i \in 1 .. Len(toServer'[h]),
               toServer'[h][i] \in {<<"completed", j>>, <<"failed", j>>}
        PROVE  EndToCome(j)
    <3>1. CASE toServer'[h][i] = <<s, cur[g]>>
      BY <1>2, <2>1, <3>1 DEF EndToCome
    <3>2. CASE \E k \in 1 .. Len(toServer[h]) : toServer[h][k] = toServer'[h][i]
      BY <2>1, <3>2 DEF EndToCome
    <3>3. QED
      BY <1>3, <3>1, <3>2
  <2>2. ASSUME NEW h \in Gpu, cur'[h] = j, phase'[h] = "executing"
        PROVE  StartToCome(j) \/ EndToCome(j)
    BY <1>4, <2>2 DEF StartToCome, EndToCome
  <2>3. QED
    BY <1>6, <2>1, <2>2 DEF EndToCome
<1>7. QED
  BY <1>5, <1>6 DEF Fewer

-----------------------------------------------------------------------------
(* What the backend hears.                                                 *)

\* Of a report that is taken nothing remains, and of others all.
LEMMA HearLeaves ==
  ASSUME IInv, AnnouncedOnce, NEW g \in Gpu, JobStatusReport(g)
  PROVE  \E s \in ToServer, j \in Job :
           /\ jobStatus[j] # "none" /\ jobStatus' = [jobStatus EXCEPT ![j] = s]
           /\ \A k \in Job : k # j => ToCome(k)' = ToCome(k)
           /\ \/ /\ s = "running" /\ ToCome(j) = 2 /\ ToCome(j)' < 2
                 /\ started' = started \cup {j} /\ billed' = billed
              \/ /\ s # "running" /\ ToCome(j) > 0 /\ ToCome(j)' = 0
                 /\ started' = started
                 /\ billed' = IF s = "completed" /\ j \in started
                              THEN [billed EXCEPT ![j] = @ + 1] ELSE billed
<1>1. /\ toServer[g] # <<>>
      /\ toServer' = [toServer EXCEPT ![g] = Tail(@)]
      /\ UNCHANGED <<jobGpu, dispatching, toAgent, phase, cur, ended>>
      /\ toServer \in [Gpu -> Seq(ToServerMsg)] /\ jobStatus \in [Job -> JobStatus]
      /\ toAgent \in [Gpu -> Seq(ToAgentMsg)]
  BY DEF JobStatusReport, serverVars, agentVars, IInv, TypeOK, ToServerMsg, ToAgentMsg
<1>2. /\ Head(toServer[g]) \in ToServerMsg /\ Head(toServer[g]) = toServer[g][1]
      /\ Len(toServer[g]) \in Nat \ {0}
  BY <1>1, TailSeq
<1>3. /\ Len(Tail(toServer[g])) = Len(toServer[g]) - 1
      /\ \A i \in 1 .. Len(Tail(toServer[g])) : Tail(toServer[g])[i] = toServer[g][i + 1]
  BY <1>1, TailSeq
<1>4. PICK s \in ToServer, j \in Job : Head(toServer[g]) = <<s, j>>
  BY <1>2 DEF ToServerMsg
<1>5. toServer[g][1] = <<s, j>> /\ 1 \in 1 .. Len(toServer[g])
  BY <1>2, <1>4
<1>6. /\ jobGpu[j] = g /\ ~ NotReported(j)
      /\ jobStatus[j] # "none" /\ j \notin dispatching
  BY <1>5 DEF IInv, JobInv, ReportsInOrder, NotReported, NotYetSent
<1>7. /\ jobStatus' = [jobStatus EXCEPT ![j] = s]
      /\ \/ /\ s = "running" /\ started' = started \cup {j} /\ billed' = billed
         \/ /\ s # "running" /\ started' = started
            /\ billed' = IF s = "completed" /\ j \in started
                         THEN [billed EXCEPT ![j] = @ + 1] ELSE billed
  <2>1. Head(toServer[g])[1] = s /\ Head(toServer[g])[2] = j
    BY <1>4
  <2>2. QED
    BY <2>1, Zenon DEF JobStatusReport
<1>8. ASSUME NEW m, m[2] # j
      PROVE  \A h \in Gpu : (\E i \in 1 .. Len(toServer'[h]) : toServer'[h][i] = m)
                        <=> (\E i \in 1 .. Len(toServer[h]) : toServer[h][i] = m)
  <2> SUFFICES ASSUME NEW h \in Gpu
               PROVE  (\E i \in 1 .. Len(toServer'[h]) : toServer'[h][i] = m)
                        <=> (\E i \in 1 .. Len(toServer[h]) : toServer[h][i] = m)
    OBVIOUS
  <2>1. CASE h # g
    <3>1. toServer'[h] = toServer[h]
      BY <1>1, <2>1
    <3>2. QED
      BY <3>1
  <2>2. CASE h = g
    <3>1. toServer'[h] = Tail(toServer[g])
      BY <1>1, <2>2
    <3>2. ASSUME NEW i \in 1 .. Len(Tail(toServer[g]))
          PROVE  i + 1 \in 1 .. Len(toServer[g]) /\ Tail(toServer[g])[i] = toServer[g][i + 1]
      BY <1>2, <1>3
    <3>3. ASSUME NEW i \in 1 .. Len(toServer[g]), toServer[g][i] = m
          PROVE  i - 1 \in 1 .. Len(Tail(toServer[g])) /\ Tail(toServer[g])[i - 1] = m
      <4>1. i # 1
        BY <1>5, <1>8, <3>3
      <4>2. i - 1 \in 1 .. Len(Tail(toServer[g])) /\ i - 1 + 1 = i
        BY <1>2, <1>3, <4>1
      <4>3. QED
        BY <1>3, <3>3, <4>2
    <3>4. QED
      BY <2>2, <3>1, <3>2, <3>3
  <2>3. QED
    BY <2>1, <2>2
<1>9. ASSUME NEW k \in Job, k # j
      PROVE  ToCome(k)' = ToCome(k)
  <2>1. <<"running", k>>[2] # j /\ <<"completed", k>>[2] # j /\ <<"failed", k>>[2] # j
    BY <1>9
  <2>2. \A h \in Gpu :
          /\ (\E i \in 1 .. Len(toServer'[h]) : toServer'[h][i] = <<"running", k>>)
               <=> (\E i \in 1 .. Len(toServer[h]) : toServer[h][i] = <<"running", k>>)
          /\ (\E i \in 1 .. Len(toServer'[h]) : toServer'[h][i] = <<"completed", k>>)
               <=> (\E i \in 1 .. Len(toServer[h]) : toServer[h][i] = <<"completed", k>>)
          /\ (\E i \in 1 .. Len(toServer'[h]) : toServer'[h][i] = <<"failed", k>>)
               <=> (\E i \in 1 .. Len(toServer[h]) : toServer[h][i] = <<"failed", k>>)
    BY <1>8, <2>1
  <2>3. jobStatus'[k] = jobStatus[k]
    BY <1>1, <1>7, <1>9
  <2>4. StartToCome(k)' <=> StartToCome(k)
    BY <1>1, <2>2, <2>3 DEF StartToCome
  <2>5. EndToCome(k)' <=> EndToCome(k)
    <3>1. \A h \in Gpu :
            (\E i \in 1 .. Len(toServer'[h]) : toServer'[h][i] \in {<<"completed", k>>, <<"failed", k>>})
              <=> (\E i \in 1 .. Len(toServer[h]) : toServer[h][i] \in {<<"completed", k>>, <<"failed", k>>})
      BY <2>2, Zenon
    <3>2. QED
      BY <1>1, <3>1, Zenon DEF EndToCome
  <2>6. QED
    BY <2>4, <2>5 DEF ToCome
<1>10. CASE s = "running"
  <2>1. ToCome(j) = 2
    BY <1>5, <1>10 DEF ToCome, StartToCome
  <2>2. ~ StartToCome(j)'
    <3>1. jobStatus'[j] # "none" /\ j \notin dispatching'
      BY <1>1, <1>6, <1>7, <1>10
    <3>2. \A h \in Gpu : \A i \in 1 .. Len(toAgent[h]) : toAgent[h][i] # <<"assign", j>>
      <4> SUFFICES ASSUME NEW h \in Gpu, NEW i \in 1 .. Len(toAgent[h]),
                          toAgent[h][i] = <<"assign", j>>
                   PROVE  FALSE
        OBVIOUS
      <4>1. toAgent[h][i][1] = "assign" /\ toAgent[h][i][2] = j
        OBVIOUS
      <4>2. NotReported(toAgent[h][i][2])
        BY <4>1 DEF IInv, JobInv, AssignedOnce
      <4>3. QED
        BY <1>6, <4>1, <4>2
    <3>3. \A h \in Gpu : ~ (cur[h] = j /\ phase[h] = "accepted")
      BY <1>6, NoneIsNoJob DEF IInv, JobInv, HeldIsUnfinished
    <3>4. ASSUME NEW h \in Gpu, NEW i \in 1 .. Len(toServer'[h]), toServer'[h][i] = <<"running", j>>
          PROVE  FALSE
      <4>1. toServer'[h][i][2] = j /\ toServer'[h][i][1] = "running"
        BY <3>4
      <4>2. CASE h = g
        <5>1. toServer'[h] = Tail(toServer[g])
          BY <1>1, <4>2
        <5>2. i + 1 \in 1 .. Len(toServer[g]) /\ i + 1 > 1 /\ toServer'[h][i] = toServer[g][i + 1]
          BY <1>2, <1>3, <5>1
        <5>3. QED
          BY <1>5, <4>1, <5>2 DEF AnnouncedOnce
      <4>3. CASE h # g
        <5>1. toServer'[h] = toServer[h]
          BY <1>1, <4>3
        <5>2. jobGpu[toServer[h][i][2]] = h
          BY <5>1 DEF IInv, JobInv, ReportsInOrder
        <5>3. QED
          BY <1>6, <4>1, <4>3, <5>1, <5>2
      <4>4. QED
        BY <4>2, <4>3
    <3>5. QED
      BY <1>1, <3>1, <3>2, <3>3, <3>4 DEF StartToCome
  <2>3. ToCome(j)' < 2
    BY <2>2 DEF ToCome
  <2>4. QED
    BY <1>6, <1>7, <1>9, <1>10, <2>1, <2>3
<1>11. CASE s # "running"
  <2>1. s \in {"completed", "failed"}
    BY <1>11
  <2>2. ToCome(j) > 0
    <3>1. EndToCome(j)
      BY <1>5, <2>1 DEF EndToCome
    <3>2. QED
      BY <3>1 DEF ToCome
  <2>3. NotSent(j)' /\ NotHeld(j)' /\ NotReported(j)' /\ j \notin dispatching'
    <3>1. PICK t \in ToServer, k \in Job :
            /\ Head(toServer[g]) = <<t, k>>
            /\ t # "running" => NotSent(k)' /\ NotHeld(k)' /\ NotReported(k)'
      BY ReportTakes
    <3>2. t = s /\ k = j
      BY <1>4, <3>1
    <3>3. QED
      BY <1>1, <1>6, <1>11, <3>1, <3>2
  <2>4. jobStatus'[j] # "none"
    BY <1>1, <1>7, <2>1
  <2>5. ~ StartToCome(j)' /\ ~ EndToCome(j)'
    BY <2>3, <2>4 DEF StartToCome, EndToCome, NotSent, NotHeld, NotReported
  <2>6. ToCome(j)' = 0
    BY <2>5 DEF ToCome
  <2>7. QED
    BY <1>6, <1>7, <1>9, <1>11, <2>2, <2>6
<1>12. QED
  BY <1>10, <1>11

-----------------------------------------------------------------------------
(* The invariant of the life of a job.                                     *)

LEMMA LosingAnnounces ==
  ASSUME IInv, AnnouncedOnce, NEW up \in [Gpu -> {0, 1}], ReportsLeft(up)
  PROVE  AnnouncedOnce'
<1> SUFFICES ASSUME NEW g \in Gpu,
                    NEW i \in 1 .. Len(toServer'[g]), NEW k \in 1 .. Len(toServer'[g]),
                    k > i, toServer'[g][k][2] = toServer'[g][i][2]
             PROVE  toServer'[g][k][1] # "running"
  BY DEF AnnouncedOnce
<1>1. /\ i + up[g] \in 1 .. Len(toServer[g]) /\ toServer'[g][i] = toServer[g][i + up[g]]
      /\ k + up[g] \in 1 .. Len(toServer[g]) /\ toServer'[g][k] = toServer[g][k + up[g]]
  BY DEF ReportsLeft
<1>2. k + up[g] > i + up[g]
  <2>1. up[g] \in Int /\ k \in Int /\ i \in Int
    OBVIOUS
  <2>2. QED
    BY <2>1
<1>3. QED
  BY <1>1, <1>2 DEF AnnouncedOnce

\* A report of the start is sent when none of its job is under way.
LEMMA ReportingAnnounces ==
  ASSUME IInv, AnnouncedOnce, NEW g \in Gpu, AnnounceRunning(g) \/ EndJob(g)
  PROVE  AnnouncedOnce'
<1>1. /\ toServer \in [Gpu -> Seq(ToServerMsg)] /\ cur[g] \in Job
  BY DEF AnnounceRunning, EndJob, IInv, JobInv, HeldInHandler, TypeOK, ToServerMsg
<1>2. PICK s \in ToServer :
        /\ toServer' \in {toServer, [toServer EXCEPT ![g] = Append(toServer[g], <<s, cur[g]>>)]}
        /\ s = "running" => NotReported(cur[g])
  <2>1. CASE AnnounceRunning(g)
    <3>1. NotReported(cur[g])
      BY <1>1, <2>1, NoneIsNoJob DEF AnnounceRunning, IInv, JobInv, HeldIsUnfinished
    <3>2. QED
      BY <2>1, <3>1 DEF AnnounceRunning, SendJobStatus
  <2>2. CASE EndJob(g)
    BY <2>2 DEF EndJob, SendJobStatus
  <2>3. QED
    BY <2>1, <2>2
<1>3. CASE toServer' = toServer
  BY <1>3 DEF AnnouncedOnce
<1>4. CASE toServer' = [toServer EXCEPT ![g] = Append(toServer[g], <<s, cur[g]>>)]
  <2>1. <<s, cur[g]>> \in ToServerMsg
    BY <1>1 DEF ToServerMsg
  <2>2. /\ \A n \in 1 .. Len(toServer[g]) : toServer'[g][n] = toServer[g][n]
        /\ toServer'[g][Len(toServer[g]) + 1] = <<s, cur[g]>>
        /\ Len(toServer'[g]) = Len(toServer[g]) + 1 /\ Len(toServer[g]) \in Nat
    <3>1. toServer'[g] = Append(toServer[g], <<s, cur[g]>>)
      BY <1>1, <1>4
    <3>2. QED
      BY <1>1, <2>1, <3>1, AppendSeq
  <2> SUFFICES ASSUME NEW h \in Gpu,
                      NEW i \in 1 .. Len(toServer'[h]), NEW k \in 1 .. Len(toServer'[h]),
                      k > i, toServer'[h][k][2] = toServer'[h][i][2]
               PROVE  toServer'[h][k][1] # "running"
    BY DEF AnnouncedOnce
  <2>3. CASE h # g
    <3>1. toServer'[h] = toServer[h]
      BY <1>1, <1>4, <2>3
    <3>2. QED
      BY <3>1 DEF AnnouncedOnce
  <2>4. CASE h = g
    <3>1. i \in 1 .. Len(toServer[g]) /\ (k \in 1 .. Len(toServer[g]) \/ k = Len(toServer[g]) + 1)
      BY <2>2, <2>4
    <3>2. CASE k \in 1 .. Len(toServer[g])
      BY <2>2, <2>4, <3>1, <3>2 DEF AnnouncedOnce
    <3>3. CASE k = Len(toServer[g]) + 1
      <4>1. toServer'[h][k] = <<s, cur[g]>> /\ toServer'[h][i] = toServer[g][i]
        BY <2>2, <2>4, <3>1, <3>3
      <4>2. toServer'[h][k][1] = s /\ toServer[g][i][2] = cur[g]
        BY <4>1
      <4>3. ~ NotReported(cur[g])
        BY <3>1, <4>2 DEF NotReported
      <4>4. QED
        BY <1>2, <4>2, <4>3
    <3>4. QED
      BY <3>1, <3>2, <3>3
  <2>5. QED
    BY <2>3, <2>4
<1>5. QED
  BY <1>2, <1>3, <1>4

\* The actions that send no report, and take at most one.
LEMMA ReportsStep ==
  ASSUME IInv, [Next]_vars
  PROVE  \/ \E up \in [Gpu -> {0, 1}] : ReportsLeft(up)
         \/ \E g \in Gpu : AnnounceRunning(g) \/ EndJob(g)
<1> DEFINE Left == \E up \in [Gpu -> {0, 1}] : ReportsLeft(up)
<1>1. toServer' = toServer => Left
  BY SameReports, NoShiftType DEF IInv
<1>2. ASSUME NEW g \in Gpu, JobStatusReport(g) \/ DropReport(g)
      PROVE  Left
  <2>1. [NoShift EXCEPT ![g] = 1] \in [Gpu -> {0, 1}]
    BY DEF NoShift
  <2>2. QED
    BY <1>2, <2>1, TakenReport DEF IInv, JobStatusReport, DropReport
<1>3. (\E g \in Gpu : Break(g) \/ AgentCrash(g) \/ AgentStart(g)) \/ BackendRestart => Left
  BY FaultLoses, NoShiftType
<1> HIDE DEF Left
<1>4. Left \/ \E g \in Gpu : AnnounceRunning(g) \/ EndJob(g)
  BY <1>1, <1>2, <1>3
  DEF Next, vars, netVars, SubmitMatched, SubmitPending, SendAssign, CancelBegin,
      CancelCommit, Patch, MarkOnline, Heartbeat, GoStale, NoticeDisconnect,
      MarkOffline, SweepRead, SweepCommit, Connect, HandleMessage
<1>5. QED
  BY <1>4 DEF Left

\* No job is unsubmitted again.
LEMMA SubmittedStays ==
  ASSUME IInv, [Next]_vars, NEW j \in Job, jobStatus[j] # "none"
  PROVE  jobStatus'[j] # "none"
<1>1. jobStatus \in [Job -> JobStatus]
  BY DEF IInv, TypeOK
<1>2. ASSUME NEW k \in Job, NEW s \in {"queued", "pending", "cancelled"} \cup ToServer,
             jobStatus' = [jobStatus EXCEPT ![k] = s]
      PROVE  jobStatus'[j] # "none"
  BY <1>1, <1>2
<1>3. CASE jobStatus' = jobStatus
  BY <1>3
<1>4. CASE SweepCommit
  BY <1>4 DEF SweepCommit
<1>5. ASSUME NEW g \in Gpu, JobStatusReport(g)
      PROVE  jobStatus'[j] # "none"
  BY <1>2, <1>5, ReportTakes
<1>6. QED
  BY <1>2, <1>3, <1>4, <1>5, RowsChange DEF SubmitMatched, SubmitPending, CancelCommit

LEMMA LifeInvStep ==
  ASSUME IInv, LifeInv, [Next]_vars
  PROVE  LifeInv'
<1>1. AnnouncedOnce'
  BY ReportsStep, LosingAnnounces, ReportingAnnounces DEF LifeInv
<1>2. ASSUME NEW j \in Job, cancelling'[j] # "no"
      PROVE  jobStatus'[j] # "none"
  <2>1. \/ cancelling' = cancelling
        \/ \E k \in Job : CancelBegin(k) \/ CancelCommit(k)
        \/ BackendRestart
    BY DEF Next, vars, serverVars, SubmitMatched, SubmitPending, SendAssign, Patch,
           MarkOnline, Heartbeat, GoStale, DropReport, JobStatusReport, NoticeDisconnect,
           MarkOffline, SweepRead, SweepCommit, Connect, HandleMessage, AnnounceRunning,
           EndJob, Break, AgentCrash, AgentStart
  <2>2. cancelling \in [Job -> {"no", "unassigned", "assigned"}]
    BY DEF IInv, TypeOK
  <2>3. jobStatus[j] # "none"
    <3>1. CASE cancelling' = cancelling
      BY <1>2, <3>1 DEF LifeInv, CancelOfSubmitted
    <3>2. ASSUME NEW k \in Job, CancelBegin(k)
          PROVE  jobStatus[j] # "none"
      BY <1>2, <2>2, <3>2 DEF CancelBegin, LifeInv, CancelOfSubmitted
    <3>3. ASSUME NEW k \in Job, CancelCommit(k)
          PROVE  jobStatus[j] # "none"
      BY <1>2, <2>2, <3>3 DEF CancelCommit, LifeInv, CancelOfSubmitted
    <3>4. CASE BackendRestart
      BY <1>2, <3>4 DEF BackendRestart
    <3>5. QED
      BY <2>1, <3>1, <3>2, <3>3, <3>4
  <2>4. QED
    BY <2>3, SubmittedStays
<1>3. QED
  BY <1>1, <1>2 DEF LifeInv, CancelOfSubmitted

-----------------------------------------------------------------------------
(* Each step is one of JobLife's.                                          *)

\* Submitted: with a GPU both reports are to come, without one none.
LEMMA SubmitLives ==
  ASSUME IInv, NEW j \in Job, (\E g \in Gpu : SubmitMatched(j, g)) \/ SubmitPending(j)
  PROVE  Life!Submit(j)
<1>1. /\ UNCHANGED <<toAgent, toServer, phase, cur, started, billed>>
      /\ jobStatus[j] = "none" /\ jobStatus \in [Job -> JobStatus]
  BY DEF SubmitMatched, SubmitPending, netVars, agentVars, IInv, TypeOK
<1>2. ToCome(j) = 2
  BY <1>1 DEF ToCome, StartToCome
<1>3. NotSent(j) /\ NotHeld(j) /\ NotReported(j)
  BY <1>1 DEF IInv, JobInv, NotYetSent
<1>4. ASSUME NEW k \in Job, k # j, jobStatus'[k] = jobStatus[k],
             dispatching' = dispatching \/ dispatching' = dispatching \cup {j}
      PROVE  ToCome(k)' = ToCome(k)
  <2>1. StartToCome(k)' <=> StartToCome(k)
    BY <1>1, <1>4 DEF StartToCome
  <2>2. EndToCome(k)' <=> EndToCome(k)
    BY <1>1 DEF EndToCome
  <2>3. QED
    BY <2>1, <2>2 DEF ToCome
<1>5. CASE \E g \in Gpu : SubmitMatched(j, g)
  <2>1. jobStatus' = [jobStatus EXCEPT ![j] = "queued"] /\ dispatching' = dispatching \cup {j}
    BY <1>5 DEF SubmitMatched
  <2>2. ToCome(j)' = 2
    BY <2>1 DEF ToCome, StartToCome
  <2>3. \A k \in Job : ToCome(k)' = ToCome(k)
    BY <1>1, <1>2, <1>4, <2>1, <2>2
  <2>4. QED
    BY <1>1, <2>1, <2>3 DEF Life!Submit
<1>6. CASE SubmitPending(j)
  <2>1. jobStatus' = [jobStatus EXCEPT ![j] = "pending"] /\ dispatching' = dispatching
    BY <1>6 DEF SubmitPending, serverVars
  <2>2. ToCome(j)' = 0
    <3>1. j \notin dispatching'
      BY <1>1, <2>1 DEF IInv, JobInv, DispatchedIsSubmitted
    <3>2. jobStatus'[j] # "none"
      BY <1>1, <2>1
    <3>3. ~ StartToCome(j)' /\ ~ EndToCome(j)'
      BY <1>1, <1>3, <3>1, <3>2 DEF StartToCome, EndToCome, NotSent, NotHeld, NotReported
    <3>4. QED
      BY <3>3 DEF ToCome
  <2>3. \A k \in Job : k # j => ToCome(k)' = ToCome(k)
    BY <1>1, <1>4, <2>1
  <2>4. QED
    BY <1>1, <2>1, <2>2, <2>3 DEF Life!Submit
<1>7. QED
  BY <1>5, <1>6

\* Overruled: nothing becomes of what is to come.
LEMMA OverruleLives ==
  ASSUME IInv, GpuInv, LifeInv, (\E j \in Job : CancelCommit(j)) \/ SweepCommit
  PROVE  \E S \in SUBSET Job, s \in {"cancelled", "failed"} : Life!Overrule(S, s)
<1>1. /\ UNCHANGED <<toAgent, toServer, phase, cur, dispatching, started, billed>>
      /\ jobStatus \in [Job -> JobStatus]
  BY DEF CancelCommit, SweepCommit, netVars, agentVars, IInv, TypeOK
<1>2. ASSUME NEW S \in SUBSET Job, NEW s \in {"cancelled", "failed"},
             \A k \in S : jobStatus[k] # "none",
             jobStatus' = [k \in Job |-> IF k \in S THEN s ELSE jobStatus[k]]
      PROVE  Life!Overrule(S, s)
  <2>1. \A k \in Job : jobStatus'[k] = "none" <=> jobStatus[k] = "none"
    BY <1>2
  <2>2. \A k \in Job : ToCome(k)' = ToCome(k)
    BY <1>1, <2>1, SameToCome
  <2>3. QED
    BY <1>1, <1>2, <2>2 DEF Life!Overrule
<1>3. ASSUME NEW j \in Job, CancelCommit(j)
      PROVE  Life!Overrule({j}, "cancelled")
  <2>1. jobStatus[j] # "none"
    BY <1>3 DEF CancelCommit, LifeInv, CancelOfSubmitted
  <2>2. jobStatus' = [k \in Job |-> IF k \in {j} THEN "cancelled" ELSE jobStatus[k]]
    BY <1>1, <1>3 DEF CancelCommit
  <2>3. QED
    BY <1>2, <2>1, <2>2
<1>4. CASE SweepCommit
  <2>1. sweep.jobs \in SUBSET Job
    BY DEF IInv, TypeOK, Sweep
  <2>2. \A k \in sweep.jobs : jobStatus[k] # "none"
    BY DEF GpuInv, SweepOfItsGpus
  <2>3. jobStatus' = [k \in Job |-> IF k \in sweep.jobs THEN "failed" ELSE jobStatus[k]]
    BY <1>4 DEF SweepCommit
  <2>4. QED
    BY <1>2, <2>1, <2>2, <2>3
<1>5. QED
  BY <1>3, <1>4

\* A report is heard.
LEMMA HearLives ==
  ASSUME IInv, LifeInv, NEW g \in Gpu, JobStatusReport(g)
  PROVE  \E j \in Job : \/ Life!HearStart(j)
                        \/ \E s \in {"completed", "failed"} : Life!HearEnd(j, s)
<1>1. PICK s \in ToServer, j \in Job :
        /\ jobStatus[j] # "none" /\ jobStatus' = [jobStatus EXCEPT ![j] = s]
        /\ \A k \in Job : k # j => ToCome(k)' = ToCome(k)
        /\ \/ /\ s = "running" /\ ToCome(j) = 2 /\ ToCome(j)' < 2
              /\ started' = started \cup {j} /\ billed' = billed
           \/ /\ s # "running" /\ ToCome(j) > 0 /\ ToCome(j)' = 0
              /\ started' = started
              /\ billed' = IF s = "completed" /\ j \in started
                           THEN [billed EXCEPT ![j] = @ + 1] ELSE billed
  BY HearLeaves DEF LifeInv
<1>2. CASE s = "running"
  <2>1. ToCome(j)' \in 0..1
    BY <1>1, <1>2 DEF ToCome
  <2>2. Life!HearStart(j)
    BY <1>1, <1>2, <2>1 DEF Life!HearStart
  <2>3. QED
    BY <2>2
<1>3. CASE s # "running"
  <2>1. s \in {"completed", "failed"}
    BY <1>3
  <2>2. Life!HearEnd(j, s)
    BY <1>1, <1>3 DEF Life!HearEnd
  <2>3. QED
    BY <2>1, <2>2
<1>4. QED
  BY <1>2, <1>3

\* Every other step leaves the rows, and at most loses what is to come.
LEMMA OthersLose ==
  ASSUME IInv,
         \/ \E j \in Job : SendAssign(j) \/ CancelBegin(j)
         \/ \E g \in Gpu, s \in GpuStatus : Patch(g, s)
         \/ \E g \in Gpu : \/ MarkOnline(g) \/ Heartbeat(g) \/ GoStale(g) \/ DropReport(g)
                           \/ NoticeDisconnect(g) \/ MarkOffline(g) \/ Connect(g)
                           \/ HandleMessage(g) \/ AnnounceRunning(g) \/ EndJob(g)
                           \/ Break(g) \/ AgentCrash(g) \/ AgentStart(g)
         \/ SweepRead \/ BackendRestart \/ UNCHANGED vars
  PROVE  Life!Lose
<1>1. UNCHANGED <<jobStatus, started, billed>>
  BY DEF SendAssign, CancelBegin, Patch, MarkOnline, Heartbeat, GoStale, DropReport,
         NoticeDisconnect, MarkOffline, Connect, HandleMessage, AnnounceRunning, EndJob,
         Break, AgentCrash, AgentStart, SweepRead, BackendRestart, vars, jobVars
<1>2. ASSUME NEW g \in Gpu, DropReport(g)
      PROVE  Fewer
  <2>1. [NoShift EXCEPT ![g] = 1] \in [Gpu -> {0, 1}]
    BY DEF NoShift
  <2>2. ReportsLeft([NoShift EXCEPT ![g] = 1])
    BY <1>2, TakenReport DEF DropReport, IInv
  <2>3. AssignsLeft(NoShift)
    BY <1>2, SameAssigns DEF DropReport, IInv
  <2>4. JobsLeft /\ HeldLeft
    BY <1>2 DEF DropReport, JobsLeft, HeldLeft, jobVars, serverVars, agentVars
  <2>5. QED
    BY <2>1, <2>2, <2>3, <2>4, NoShiftType, LosingLeaves
<1>3. Fewer
  <2>1. CASE \/ \E j \in Job : CancelBegin(j)
             \/ \E g \in Gpu, s \in GpuStatus : Patch(g, s)
    BY <2>1, TellLoses, NoShiftType, LosingLeaves
  <2>2. CASE \/ \E g \in Gpu : Break(g) \/ AgentCrash(g) \/ AgentStart(g)
             \/ BackendRestart
    BY <2>2, FaultLoses, NoShiftType, LosingLeaves
  <2>3. CASE \/ \E g \in Gpu : \/ MarkOnline(g) \/ Heartbeat(g) \/ GoStale(g)
                               \/ NoticeDisconnect(g) \/ MarkOffline(g) \/ Connect(g)
             \/ SweepRead \/ UNCHANGED vars
    <3>1. UNCHANGED <<toAgent, toServer, phase, cur, dispatching>>
      BY <2>3 DEF MarkOnline, Heartbeat, GoStale, NoticeDisconnect, MarkOffline, Connect,
                  SweepRead, vars, serverVars, netVars, agentVars
    <3>2. QED
      BY <1>1, <3>1 DEF Fewer, StartToCome, EndToCome
  <2>4. QED
    BY <1>2, <2>1, <2>2, <2>3, SendLeaves, HandleLeaves, ReportingLeaves
<1>4. QED
  BY <1>1, <1>3, LoseStep

LEMMA LifeStep ==
  ASSUME IInv, GpuInv, LifeInv, [Next]_vars
  PROVE  Life!Next
<1>1. ASSUME NEW j \in Job, (\E g \in Gpu : SubmitMatched(j, g)) \/ SubmitPending(j)
      PROVE  Life!Next
  BY <1>1, SubmitLives DEF Life!Next
<1>2. (\E j \in Job : CancelCommit(j)) \/ SweepCommit => Life!Next
  BY OverruleLives DEF Life!Next
<1>3. ASSUME NEW g \in Gpu, JobStatusReport(g)
      PROVE  Life!Next
  BY <1>3, HearLives DEF Life!Next
<1>4. CASE Life!Lose
  BY <1>4 DEF Life!Next
<1>5. QED
  BY <1>1, <1>2, <1>3, <1>4, OthersLose DEF Next

-----------------------------------------------------------------------------
(* The theorems.                                                           *)

\* The rows, the channels and the two processes' variables stay in their
\* types: in particular an agent reports a status of a job, never of nothing
\* (ws_client.py, send_job_status).
THEOREM TypeCorrect == Spec => []TypeOK
<1>1. IInv => TypeOK
  BY DEF IInv
<1>2. QED
  BY <1>1, Invariant, PTL

\* No job is charged twice, or without a container that ran to its end,
\* although the handler of job_status (ws.py) looks at no earlier charge: the
\* report of the end is unique and the last of its job.
THEOREM BilledOnceForWork == Spec => []BilledForWork
<1>1. IInv => BilledForWork
  BY DEF IInv, JobInv
<1>2. QED
  BY <1>1, Invariant, PTL

\* Whatever is lost, cut or restarted, an agent works on jobs matched to its
\* own GPU (agent.py, assign_job).
THEOREM OwnGpu == Spec => []WorksForItsGpu
<1>1. IInv => WorksForItsGpu
  BY DEF IInv, JobInv, HeldIsUnfinished, WorksForItsGpu
<1>2. QED
  BY <1>1, Invariant, PTL

\* The gpus table agrees with the sessions and the jobs, as far as nobody sets
\* a status by hand: no GPU is left shown without a session (ws.py), none left
\* busy without a job, whoever ended it (jobs.py, ws.py, tasks.py), and as long
\* as no connection is lost and nothing cancelled, none has two jobs.
THEOREM TableIsTrue == Spec => []GpuTableTrue
<1>1. Init => IInv /\ GpuInv
  BY Start, GpuStart
<1>2. (IInv /\ GpuInv) /\ [Next]_vars => (IInv /\ GpuInv)'
  BY TypeStep, JobStep, GpuStep DEF IInv
<1>3. IInv /\ GpuInv => GpuTableTrue
  <2> SUFFICES ASSUME IInv, GpuInv
               PROVE  GpuTableTrue
    OBVIOUS
  <2>1. OneJobPerGpu
    <3> SUFFICES ASSUME Calm, NEW j \in Job, NEW k \in Job,
                        jobStatus[j] \in Assigned, jobStatus[k] \in Assigned,
                        jobGpu[j] = jobGpu[k]
                 PROVE  j = k
      BY DEF OneJobPerGpu, Calm
    <3>1. jobGpu[j] \in Gpu /\ InWork(j) /\ InWork(k)
      BY DEF GpuInv, MatchedHasGpu, InWork
    <3>2. QED
      BY <3>1 DEF GpuInv, OneInWork
  <2>2. QED
    BY <2>1 DEF GpuInv, GpuTableTrue
<1>4. QED
  BY <1>1, <1>2, <1>3, PTL DEF Spec

\* The status handler (ws.py) never makes a charged job run again: no report of
\* the job is left when it is charged.
THEOREM ChargedNeverRunsAgain == Spec => ChargedNeverRuns
<1> DEFINE Stays == \A j \in Job : billed[j] > 0 /\ jobStatus[j] # "running"
                                      => jobStatus'[j] # "running"
<1>1. ASSUME IInv, [Next]_vars
      PROVE  Stays
  <2> SUFFICES ASSUME NEW j \in Job, billed[j] > 0, jobStatus[j] # "running"
               PROVE  jobStatus'[j] # "running"
    OBVIOUS
  <2>1. jobStatus \in [Job -> JobStatus] /\ billed[j] # 0
    BY <1>1 DEF IInv, TypeOK
  <2>2. CASE jobStatus' = jobStatus
    BY <2>2
  <2>3. ASSUME NEW k \in Job, NEW s \in {"queued", "pending", "cancelled"},
               jobStatus' = [jobStatus EXCEPT ![k] = s]
        PROVE  jobStatus'[j] # "running"
    BY <2>1, <2>3
  <2>4. CASE SweepCommit
    BY <2>4 DEF SweepCommit
  <2>5. ASSUME NEW g \in Gpu, JobStatusReport(g)
        PROVE  jobStatus'[j] # "running"
    <3>1. toServer \in [Gpu -> Seq(ToServerMsg)] /\ toServer[g] # <<>>
      BY <1>1, <2>5 DEF IInv, TypeOK, ToServerMsg, JobStatusReport
    <3>2. /\ Head(toServer[g]) \in ToServerMsg /\ Head(toServer[g]) = toServer[g][1]
          /\ Len(toServer[g]) \in Nat \ {0}
      BY <3>1, TailSeq
    <3>3. PICK s \in ToServer, k \in Job : Head(toServer[g]) = <<s, k>>
      BY <3>2 DEF ToServerMsg
    <3>4. 1 \in 1 .. Len(toServer[g]) /\ toServer[g][1][2] = k
      BY <3>2, <3>3
    <3>5. billed[k] = 0
      BY <1>1, <3>4 DEF IInv, JobInv, ReportsInOrder
    <3>6. jobStatus' = [jobStatus EXCEPT ![k] = s]
      BY <2>5, <3>3, ReportDoes
    <3>7. QED
      BY <2>1, <3>5, <3>6
  <2>6. QED
    BY <1>1, <2>2, <2>3, <2>4, <2>5
    DEF Next, vars, jobVars, SubmitMatched, SubmitPending, SendAssign, CancelBegin,
        CancelCommit, Patch, MarkOnline, Heartbeat, GoStale, DropReport,
        NoticeDisconnect, MarkOffline, SweepRead, Connect, HandleMessage,
        AnnounceRunning, EndJob, Break, AgentCrash, AgentStart, BackendRestart
<1>2. IInv /\ [Next]_vars => [Stays]_vars
  BY <1>1
<1> HIDE DEF Stays
<1>3. Spec => [][Stays]_vars
  BY <1>2, Invariant, PTL DEF Spec
<1>4. QED
  BY <1>3 DEF ChargedNeverRuns, Stays

\* What the platform keeps of a job in its tables, channels and agents is, step
\* by step, the life that JobLife promises: the handler of job_status (ws.py)
\* hears the start and the end of the one execution, in this order and once,
\* and charges the end of a started one, whatever the requests, the sweep and
\* the faults between them do.
THEOREM LifeIsAsPromised == Spec => ImplementsJobLife
<1>1. Init => IInv /\ GpuInv /\ LifeInv
  BY Start, GpuStart DEF Init, LifeInv, AnnouncedOnce, CancelOfSubmitted
<1>2. (IInv /\ GpuInv /\ LifeInv) /\ [Next]_vars => (IInv /\ GpuInv /\ LifeInv)'
  BY TypeStep, JobStep, GpuStep, LifeInvStep DEF IInv
<1>3. Init => Life!Init
  BY DEF Init, Life!Init, ToCome, StartToCome
<1>4. (IInv /\ GpuInv /\ LifeInv) /\ [Next]_vars => [Life!Next]_(Life!lifeVars)
  BY LifeStep
<1>5. QED
  BY <1>1, <1>2, <1>3, <1>4, PTL DEF Spec, ImplementsJobLife, Life!Spec

=============================================================================
