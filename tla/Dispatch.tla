------------------------------ MODULE Dispatch ------------------------------
(***************************************************************************)
(* The life of a job, from the match to the bill: the backend's request    *)
(* handlers (routers/jobs.py, routers/gpus.py), its WebSocket handler of   *)
(* the agents (routers/ws.py), the Celery sweep (worker/tasks.py), and the *)
(* agent (agent/src/agent.py, agent/src/core/ws_client.py), over one       *)
(* WebSocket per GPU.                                                      *)
(*                                                                         *)
(* A database transaction whose read and write have an await of the        *)
(* network between them, or that runs in the Celery process, takes two     *)
(* actions; the others take one (GpuLock models the awaits inside the      *)
(* match, Wallet those inside a charge).                                   *)
(*                                                                         *)
(* What may go wrong is a parameter: Faults names the kinds of event an    *)
(* instance admits, and MaxMishaps bounds how many of them happen.         *)
(***************************************************************************)
EXTENDS Naturals, Sequences, FiniteSets

CONSTANTS
  Job,
  Gpu,         \* the rows of the gpus table, one agent each
  None,
  Faults,      \* what may happen besides the normal course
  MaxMishaps   \* bound of the number of mishaps

FaultKinds ==
  {"cancel",   \* a client cancels
   "break",    \* a connection breaks
   "crash",    \* the agent's process dies
   "restart",  \* the backend restarts
   "patch",    \* a provider sets the status of a GPU
   "flood",    \* an agent exceeds 100 messages a minute
   "sweep",    \* a heartbeat is found more than 60 s old
   "overdue"}  \* a job is found running for more than 12 h

ASSUME FaultAssumption == Faults \subseteq FaultKinds
ASSUME MishapAssumption == MaxMishaps \in Nat
ASSUME NoneIsNoJob == None \notin Job \cup Gpu

VARIABLES
  jobStatus,   \* jobs.status ("none": not submitted)
  jobGpu,      \* jobs.gpu_id
  started,     \* jobs with started_at set
  billed,      \* charges made for each job
  gpuStatus,   \* gpus.status
  fresh,       \* GPUs whose last_heartbeat is recent
  session,     \* the WebSocket handler of each GPU
  closing,     \* GPUs whose handler ended and has yet to write offline
  dispatching, \* jobs committed as queued, assign_job not sent yet
  cancelling,  \* the cancel request of each job, between send and commit
  sweep,       \* what a running check_heartbeats has read
  link,        \* GPUs whose TCP connection is up
  toAgent,     \* messages to the agent, sent and not handled
  toServer,    \* messages to the backend, sent and not handled
  phase,       \* what the agent's listener does
  cur,         \* the agent's _current_job_id
  ended,       \* jobs whose container ran to its end
  mishaps,     \* number of failures so far
  happened     \* history: the kinds of fault so far

jobVars    == <<jobStatus, jobGpu, started, billed>>
gpuVars    == <<gpuStatus, fresh>>
serverVars == <<session, closing, dispatching, cancelling, sweep>>
netVars    == <<link, toAgent, toServer>>
agentVars  == <<phase, cur, ended>>
faultVars  == <<mishaps, happened>>
vars == <<jobVars, gpuVars, serverVars, netVars, agentVars, faultVars>>

Assigned  == {"queued", "running"}
Terminal  == {"completed", "failed", "cancelled"}
JobStatus == {"none", "pending"} \cup Assigned \cup Terminal
GpuStatus == {"online", "busy", "offline"}
Session   == {"none", "opening", "open"}
Phase     == {"idle", "accepted", "executing", "stuck", "stopped", "down"}
ToAgent   == {"assign", "cancel", "stop"}
ToServer  == {"running", "completed", "failed"}

Sweep == [gpus : SUBSET Gpu, jobs : SUBSET Job]
NoSweep == [gpus |-> {}, jobs |-> {}]

TypeOK ==
  /\ jobStatus \in [Job -> JobStatus]
  /\ jobGpu \in [Job -> Gpu \cup {None}]
  /\ started \subseteq Job
  /\ billed \in [Job -> Nat]
  /\ gpuStatus \in [Gpu -> GpuStatus]
  /\ fresh \subseteq Gpu
  /\ session \in [Gpu -> Session]
  /\ closing \subseteq Gpu
  /\ dispatching \subseteq Job
  /\ cancelling \in [Job -> {"no", "unassigned", "assigned"}]
  /\ sweep \in Sweep
  /\ link \subseteq Gpu
  /\ toAgent \in [Gpu -> Seq(ToAgent \X (Job \cup {None}))]
  /\ toServer \in [Gpu -> Seq(ToServer \X Job)]
  /\ phase \in [Gpu -> Phase]
  /\ cur \in [Gpu -> Job \cup {None}]
  /\ ended \subseteq Job
  /\ mishaps \in Nat /\ happened \subseteq Faults

Init ==
  /\ jobStatus = [j \in Job |-> "none"]
  /\ jobGpu = [j \in Job |-> None]
  /\ started = {}
  /\ billed = [j \in Job |-> 0]
  /\ gpuStatus = [g \in Gpu |-> "offline"]
  /\ fresh = {}
  /\ session = [g \in Gpu |-> "none"]
  /\ closing = {}
  /\ dispatching = {}
  /\ cancelling = [j \in Job |-> "no"]
  /\ sweep = NoSweep
  /\ link = {}
  /\ toAgent = [g \in Gpu |-> <<>>]
  /\ toServer = [g \in Gpu |-> <<>>]
  /\ phase = [g \in Gpu |-> "idle"]
  /\ cur = [g \in Gpu |-> None]
  /\ ended = {}
  /\ mishaps = 0 /\ happened = {}

\* A fault that needs no bound, and one that counts.
Fault(f) == f \in Faults /\ happened' = happened \cup {f}
Mishap(f) == Fault(f) /\ mishaps < MaxMishaps /\ mishaps' = mishaps + 1

-----------------------------------------------------------------------------
(* The backend's HTTP handlers.                                            *)

\* manager.is_connected
IsConnected(g) == session[g] # "none"

\* manager.send_to_gpu: lost when no socket is registered, or a dead one is.
\* (Where a send to a dead socket raises instead, the request that sends fails
\* and its transaction is rolled back: the step does not happen.)
SendToGpu(g, m) ==
  toAgent' = IF IsConnected(g) /\ g \in link
             THEN [toAgent EXCEPT ![g] = Append(@, m)]
             ELSE toAgent

\* submit_job and rerun_job, matched: committed, then sent.
SubmitMatched(j, g) ==
  /\ jobStatus[j] = "none"
  /\ gpuStatus[g] = "online"
  /\ IsConnected(g)
  /\ jobStatus' = [jobStatus EXCEPT ![j] = "queued"]
  /\ jobGpu' = [jobGpu EXCEPT ![j] = g]
  /\ gpuStatus' = [gpuStatus EXCEPT ![g] = "busy"]
  /\ dispatching' = dispatching \cup {j}
  /\ UNCHANGED <<started, billed, fresh, session, closing, cancelling, sweep,
                 netVars, agentVars, faultVars>>

\* No GPU, or only GPUs that are locked, without Docker or not connected.
SubmitPending(j) ==
  /\ jobStatus[j] = "none"
  /\ jobStatus' = [jobStatus EXCEPT ![j] = "pending"]
  /\ UNCHANGED <<jobGpu, started, billed, gpuVars, serverVars, netVars,
                 agentVars, faultVars>>

\* Variation: the job is sent before it is read back, and lost.
SendAssignLost(j) ==
  /\ j \in dispatching
  /\ dispatching' = dispatching \ {j}
  /\ UNCHANGED <<jobVars, gpuVars, session, closing, cancelling, sweep, netVars,
                 agentVars, faultVars>>

\* Variation: the assignment may be sent again.
SendAssignAgain(j) ==
  /\ j \in dispatching
  /\ dispatching' \in {dispatching, dispatching \ {j}}
  /\ SendToGpu(jobGpu[j], <<"assign", j>>)
  /\ UNCHANGED <<jobVars, gpuVars, session, closing, cancelling, sweep, link,
                 toServer, agentVars, faultVars>>

SendAssign(j) ==
  /\ j \in dispatching
  /\ dispatching' = dispatching \ {j}
  /\ SendToGpu(jobGpu[j], <<"assign", j>>)
  /\ UNCHANGED <<jobVars, gpuVars, session, closing, cancelling, sweep, link,
                 toServer, agentVars, faultVars>>

\* cancel_job up to the message to the agent, which leaves before the commit.
CancelBegin(j) ==
  /\ Fault("cancel")
  /\ cancelling[j] = "no"
  /\ \/ /\ jobStatus[j] = "pending"
        /\ cancelling' = [cancelling EXCEPT ![j] = "unassigned"]
        /\ UNCHANGED toAgent
     \/ /\ jobStatus[j] \in Assigned
        /\ cancelling' = [cancelling EXCEPT ![j] = "assigned"]
        /\ SendToGpu(jobGpu[j], <<"cancel", j>>)
  /\ UNCHANGED <<jobVars, gpuVars, session, closing, dispatching, sweep, link,
                 toServer, agentVars, mishaps>>

\* The rest of cancel_job: it writes what it decided from the status it read.
CancelCommit(j) ==
  LET g == jobGpu[j] IN
  /\ cancelling[j] # "no"
  /\ cancelling' = [cancelling EXCEPT ![j] = "no"]
  /\ jobStatus' = [jobStatus EXCEPT ![j] = "cancelled"]
  /\ \/ /\ cancelling[j] = "assigned" /\ gpuStatus[g] = "busy"
        /\ gpuStatus' = [gpuStatus EXCEPT ![g] = "online"]
     \/ /\ ~(cancelling[j] = "assigned" /\ gpuStatus[g] = "busy")
        /\ UNCHANGED gpuStatus
  /\ UNCHANGED <<jobGpu, started, billed, fresh, session, closing, dispatching,
                 sweep, netVars, agentVars, faultVars>>

\* update_gpu_status
Patch(g, s) ==
  /\ Mishap("patch")
  /\ gpuStatus' = [gpuStatus EXCEPT ![g] = s]
  /\ \/ s = "offline" /\ SendToGpu(g, <<"stop", None>>)
     \/ s # "offline" /\ UNCHANGED toAgent
  /\ UNCHANGED <<jobVars, fresh, serverVars, link, toServer, agentVars>>

-----------------------------------------------------------------------------
(* The backend's WebSocket handler of the agents.                          *)

\* manager.connect is done; the handler now writes online and the heartbeat.
MarkOnline(g) ==
  /\ session[g] = "opening"
  /\ session' = [session EXCEPT ![g] = "open"]
  /\ gpuStatus' = [gpuStatus EXCEPT ![g] = "online"]
  /\ fresh' = fresh \cup {g}
  /\ UNCHANGED <<jobVars, closing, dispatching, cancelling, sweep, netVars,
                 agentVars, faultVars>>

\* A heartbeat only refreshes last_heartbeat.
Heartbeat(g) ==
  /\ session[g] = "open" /\ g \in link
  /\ g \notin fresh
  /\ fresh' = fresh \cup {g}
  /\ UNCHANGED <<jobVars, gpuStatus, serverVars, netVars, agentVars, faultVars>>

\* 60 s without a heartbeat: the connection is dead and not noticed, or the
\* rate limit drops the heartbeats.
GoStale(g) ==
  /\ Fault("sweep")
  /\ g \in fresh
  /\ g \notin link \/ "flood" \in Faults
  /\ fresh' = fresh \ {g}
  /\ UNCHANGED <<jobVars, gpuStatus, serverVars, netVars, agentVars, mishaps>>

\* Variation: a job is charged whether its start was heard or not.
JobStatusReportUnstarted(g) ==
  LET s == Head(toServer[g])[1]
      j == Head(toServer[g])[2]
  IN
  /\ session[g] = "open" /\ toServer[g] # <<>>
  /\ toServer' = [toServer EXCEPT ![g] = Tail(@)]
  /\ jobStatus' = [jobStatus EXCEPT ![j] = s]
  /\ \/ /\ s = "running"
        /\ started' = started \cup {j}
        /\ UNCHANGED <<billed, gpuStatus>>
     \/ /\ s # "running"
        /\ billed' = IF s = "completed"
                     THEN [billed EXCEPT ![j] = @ + 1]
                     ELSE billed
        /\ gpuStatus' = [gpuStatus EXCEPT ![g] = "online"]
        /\ UNCHANGED started
  /\ UNCHANGED <<jobGpu, fresh, serverVars, link, toAgent, agentVars, faultVars>>

\* A job_status message, whatever the job's status is by then.
JobStatusReport(g) ==
  LET s == Head(toServer[g])[1]
      j == Head(toServer[g])[2]
  IN
  /\ session[g] = "open" /\ toServer[g] # <<>>
  /\ toServer' = [toServer EXCEPT ![g] = Tail(@)]
  /\ jobStatus' = [jobStatus EXCEPT ![j] = s]
  /\ \/ /\ s = "running"
        /\ started' = started \cup {j}
        /\ UNCHANGED <<billed, gpuStatus>>
     \/ /\ s # "running"
        /\ billed' = IF s = "completed" /\ j \in started
                     THEN [billed EXCEPT ![j] = @ + 1]
                     ELSE billed
        /\ gpuStatus' = [gpuStatus EXCEPT ![g] = "online"]
        /\ UNCHANGED started
  /\ UNCHANGED <<jobGpu, fresh, serverVars, link, toAgent, agentVars, faultVars>>

\* _is_rate_limited: the message is answered with an error and dropped.
DropReport(g) ==
  /\ session[g] = "open" /\ toServer[g] # <<>>
  /\ Mishap("flood")
  /\ toServer' = [toServer EXCEPT ![g] = Tail(@)]
  /\ UNCHANGED <<jobVars, gpuVars, serverVars, link, toAgent, agentVars>>

\* Variation: the handler returns without the offline write.
NoticeDisconnectSilent(g) ==
  /\ session[g] = "open" /\ g \notin link /\ toServer[g] = <<>>
  /\ session' = [session EXCEPT ![g] = "none"]
  /\ UNCHANGED <<jobVars, gpuVars, closing, dispatching, cancelling, sweep,
                 netVars, agentVars, faultVars>>

\* Variation: the count of active connections is not given back.
NoticeDisconnectLeak(g) ==
  /\ session[g] = "open" /\ g \notin link /\ toServer[g] = <<>>
  /\ closing' = closing \cup {g}
  /\ UNCHANGED <<jobVars, gpuVars, session, dispatching, cancelling, sweep,
                 netVars, agentVars, faultVars>>

\* WebSocketDisconnect, once the messages received before it are handled.
NoticeDisconnect(g) ==
  /\ session[g] = "open" /\ g \notin link /\ toServer[g] = <<>>
  /\ session' = [session EXCEPT ![g] = "none"]
  /\ closing' = closing \cup {g}
  /\ UNCHANGED <<jobVars, gpuVars, dispatching, cancelling, sweep, netVars,
                 agentVars, faultVars>>

MarkOffline(g) ==
  /\ g \in closing
  /\ closing' = closing \ {g}
  /\ gpuStatus' = [gpuStatus EXCEPT ![g] = "offline"]
  /\ UNCHANGED <<jobVars, fresh, session, dispatching, cancelling, sweep,
                 netVars, agentVars, faultVars>>

-----------------------------------------------------------------------------
(* check_heartbeats, in the Celery worker.                                 *)

StaleGpus == {g \in Gpu : gpuStatus[g] # "offline" /\ g \notin fresh}

\* The queries: stale GPUs with their queued and running jobs, overdue jobs.
SweepRead ==
  /\ "sweep" \in Faults
  /\ sweep = NoSweep
  /\ \E overdue \in SUBSET {j \in Job : jobStatus[j] = "running" /\ j \in started} :
       /\ IF overdue = {} THEN UNCHANGED happened ELSE Fault("overdue")
       /\ sweep' = [gpus |-> StaleGpus,
                    jobs |-> overdue \cup {j \in Job : /\ jobStatus[j] \in Assigned
                                                       /\ jobGpu[j] \in StaleGpus}]
  /\ sweep' # NoSweep
  /\ UNCHANGED <<jobVars, gpuVars, session, closing, dispatching, cancelling,
                 netVars, agentVars, mishaps>>

SweepCommit ==
  /\ sweep # NoSweep
  /\ gpuStatus' = [g \in Gpu |-> IF g \in sweep.gpus THEN "offline" ELSE gpuStatus[g]]
  /\ jobStatus' = [j \in Job |-> IF j \in sweep.jobs THEN "failed" ELSE jobStatus[j]]
  /\ sweep' = NoSweep
  /\ UNCHANGED <<jobGpu, started, billed, fresh, session, closing, dispatching,
                 cancelling, netVars, agentVars, faultVars>>

-----------------------------------------------------------------------------
(* The agent.  Its listener handles one message at a time and runs a whole *)
(* job inside the handler of assign_job.                                   *)

\* The start loop of the client, once the listener has ended; the backend
\* refuses a second session for a GPU that still has one.
Connect(g) ==
  /\ phase[g] = "idle" /\ g \notin link /\ toAgent[g] = <<>>
  /\ session[g] = "none"
  /\ session' = [session EXCEPT ![g] = "opening"]
  /\ link' = link \cup {g}
  /\ UNCHANGED <<jobVars, gpuVars, closing, dispatching, cancelling, sweep,
                 toAgent, toServer, agentVars, faultVars>>

\* _listen_loop, which also drains what came before the connection broke.
HandleMessage(g) ==
  LET m == Head(toAgent[g]) IN
  /\ phase[g] = "idle" /\ toAgent[g] # <<>>
  /\ toAgent' = [toAgent EXCEPT ![g] = Tail(@)]
  /\ \/ /\ m[1] = "assign"
        /\ phase' = [phase EXCEPT ![g] = "accepted"]
        /\ cur' = [cur EXCEPT ![g] = m[2]]
        /\ UNCHANGED link
     \/ /\ m[1] = "cancel"         \* "Cancel for job .. but current job is .."
        /\ UNCHANGED <<phase, cur, link>>
     \/ /\ m[1] = "stop"
        /\ phase' = [phase EXCEPT ![g] = "stopped"]
        /\ link' = link \ {g}
        /\ UNCHANGED cur
  /\ UNCHANGED <<jobVars, gpuVars, serverVars, toServer, ended, faultVars>>

\* Variation: a retry repeats a status that had been written.
SendJobStatusTwice(g, s, then) ==
  /\ g \in link
  /\ toServer' = [toServer EXCEPT ![g] = @ \o <<<<s, cur[g]>>, <<s, cur[g]>>>>]
  /\ phase' = [phase EXCEPT ![g] = then]

\* send_job_status: on a connection that is gone it either writes to a socket
\* that does not know yet, or clears _connected and waits for a reconnection
\* that only this very listener's return could bring about.
SendJobStatus(g, s, then) ==
  \/ /\ g \in link
     /\ toServer' = [toServer EXCEPT ![g] = Append(@, <<s, cur[g]>>)]
     /\ phase' = [phase EXCEPT ![g] = then]
  \/ /\ g \notin link
     /\ phase' \in {[phase EXCEPT ![g] = then], [phase EXCEPT ![g] = "stuck"]}
     /\ UNCHANGED toServer

AnnounceRunning(g) ==
  /\ phase[g] = "accepted"
  /\ SendJobStatus(g, "running", "executing")
  /\ UNCHANGED <<jobVars, gpuVars, serverVars, link, toAgent, cur, ended, faultVars>>

\* The container has ended, by itself or by the timeout.
EndJob(g) ==
  /\ phase[g] = "executing"
  /\ \E s \in {"completed", "failed"} : SendJobStatus(g, s, "idle")
  /\ ended' = ended \cup {cur[g]}
  /\ cur' = [cur EXCEPT ![g] = IF phase'[g] = "idle" THEN None ELSE @]
  /\ UNCHANGED <<jobVars, gpuVars, serverVars, link, toAgent, faultVars>>

-----------------------------------------------------------------------------
(* Failures.                                                               *)

\* What of a channel still arrives when its connection is cut.
Cut(q) == {SubSeq(q, 1, n) : n \in 0 .. Len(q)}

Break(g) ==
  /\ g \in link
  /\ Mishap("break")
  /\ link' = link \ {g}
  /\ toAgent' \in {[toAgent EXCEPT ![g] = q] : q \in Cut(toAgent[g])}
  /\ toServer' \in {[toServer EXCEPT ![g] = q] : q \in Cut(toServer[g])}
  /\ UNCHANGED <<jobVars, gpuVars, serverVars, agentVars>>

AgentCrash(g) ==
  /\ phase[g] # "down"
  /\ Mishap("crash")
  /\ phase' = [phase EXCEPT ![g] = "down"]
  /\ cur' = [cur EXCEPT ![g] = None]
  /\ link' = link \ {g}
  /\ toAgent' = [toAgent EXCEPT ![g] = <<>>]
  /\ toServer' \in {[toServer EXCEPT ![g] = q] : q \in Cut(toServer[g])}
  /\ UNCHANGED <<jobVars, gpuVars, serverVars, ended>>

\* Somebody starts the agent again.
AgentStart(g) ==
  /\ phase[g] \in {"down", "stopped"}
  /\ phase' = [phase EXCEPT ![g] = "idle"]
  /\ toAgent' = [toAgent EXCEPT ![g] = <<>>]
  /\ UNCHANGED <<jobVars, gpuVars, serverVars, link, toServer, cur, ended, faultVars>>

\* The backend's memory is gone (manager, running handlers), the tables stay.
BackendRestart ==
  /\ Mishap("restart")
  /\ session' = [g \in Gpu |-> "none"]
  /\ closing' = {}
  /\ dispatching' = {}
  /\ cancelling' = [j \in Job |-> "no"]
  /\ link' = {}
  /\ toServer' = [g \in Gpu |-> <<>>]
  /\ \E S \in SUBSET Gpu :
       toAgent' = [g \in Gpu |-> IF g \in S THEN toAgent[g] ELSE <<>>]
  /\ UNCHANGED <<jobVars, gpuVars, sweep, agentVars>>

-----------------------------------------------------------------------------
Next ==
  \/ \E j \in Job, g \in Gpu : SubmitMatched(j, g)
  \/ \E j \in Job : \/ SubmitPending(j) \/ SendAssign(j)
                    \/ CancelBegin(j) \/ CancelCommit(j)
  \/ \E g \in Gpu, s \in GpuStatus : Patch(g, s)
  \/ \E g \in Gpu : \/ MarkOnline(g) \/ Heartbeat(g) \/ GoStale(g)
                    \/ JobStatusReport(g) \/ DropReport(g)
                    \/ NoticeDisconnect(g) \/ MarkOffline(g)
  \/ SweepRead \/ SweepCommit
  \/ \E g \in Gpu : \/ Connect(g) \/ HandleMessage(g)
                    \/ AnnounceRunning(g) \/ EndJob(g)
  \/ \E g \in Gpu : Break(g) \/ AgentCrash(g) \/ AgentStart(g)
  \/ BackendRestart

Spec == Init /\ [][Next]_vars

\* The event loops of both processes, the network and Celery beat carry on
\* what was begun, and a container ends (the executor kills it after
\* max_job_timeout).  Clients, providers, failures and restarts are free.
Fairness ==
  /\ \A j \in Job : WF_vars(SendAssign(j)) /\ WF_vars(CancelCommit(j))
  /\ \A g \in Gpu : /\ WF_vars(MarkOnline(g)) /\ WF_vars(MarkOffline(g))
                    /\ WF_vars(JobStatusReport(g)) /\ WF_vars(Heartbeat(g))
                    /\ WF_vars(NoticeDisconnect(g))
                    /\ WF_vars(Connect(g)) /\ WF_vars(HandleMessage(g))
                    /\ WF_vars(AnnounceRunning(g)) /\ WF_vars(EndJob(g))
  /\ WF_vars(SweepRead) /\ WF_vars(SweepCommit)

FairSpec == Spec /\ Fairness

-----------------------------------------------------------------------------
(* Properties.                                                             *)

\* A job is charged at most once, and only for a container that ran to its
\* end: no mix of retries, reconnections, cancels and sweeps bills twice.
BilledForWork ==
  \A j \in Job : billed[j] <= 1 /\ (billed[j] = 1 => j \in ended)

\* An agent works on a job of its own GPU, so no job ever runs on two.
WorksForItsGpu == \A g \in Gpu : cur[g] # None => jobGpu[cur[g]] = g

\* The handlers check no status, and still a charged job is never shown
\* running again, across reconnections too: reports arrive in order and once.
ChargedNeverRuns ==
  [][\A j \in Job : billed[j] > 0 /\ jobStatus[j] # "running"
                      => jobStatus'[j] # "running"]_vars

\* Only a status set by hand or a restart of the backend can leave a GPU
\* online or busy without a session, or a pending offline write, of its agent.
ShownMeansSession ==
  happened \cap {"patch", "restart"} = {} =>
    \A g \in Gpu : gpuStatus[g] # "offline" => IsConnected(g) \/ g \in closing

\* Unless a status is set by hand or a job is overdue, no GPU is left busy
\* without a job: whatever ends the job frees the GPU.
BusyHasJob ==
  happened \cap {"patch", "overdue"} = {} =>
    \A g \in Gpu : gpuStatus[g] = "busy"
      => \E j \in Job : jobGpu[j] = g /\ jobStatus[j] \in Assigned

\* Dropped messages, stale heartbeats and overdue jobs never give a GPU a
\* second queued or running job; a cancel or a lost connection may.
OneJobPerGpu ==
  happened \subseteq {"flood", "sweep", "overdue"} =>
    \A j, k \in Job :
      /\ jobStatus[j] \in Assigned /\ jobStatus[k] \in Assigned
      /\ jobGpu[j] = jobGpu[k]
      => j = k

\* The gpus table agrees with the sessions and with the jobs.
GpuTableTrue == ShownMeansSession /\ BusyHasJob /\ OneJobPerGpu

\* The report of the start of j may still come: j is not submitted, its request
\* has yet to send it, the assignment is under way, the agent has accepted it, or
\* the report is under way.
StartToCome(j) ==
  \/ jobStatus[j] = "none" \/ j \in dispatching
  \/ \E g \in Gpu :
       \/ \E i \in 1 .. Len(toAgent[g]) : toAgent[g][i] = <<"assign", j>>
       \/ cur[g] = j /\ phase[g] = "accepted"
       \/ \E i \in 1 .. Len(toServer[g]) : toServer[g][i] = <<"running", j>>

\* That of the end may: j is executed, or the report is under way.
EndToCome(j) ==
  \E g \in Gpu :
    \/ cur[g] = j /\ phase[g] = "executing"
    \/ \E i \in 1 .. Len(toServer[g]) :
         toServer[g][i] \in {<<"completed", j>>, <<"failed", j>>}

ToCome(j) == IF StartToCome(j) THEN 2 ELSE IF EndToCome(j) THEN 1 ELSE 0

\* Whatever is lost, cut, overtaken or restarted, a job lives as JobLife says.
Life == INSTANCE JobLife WITH shown <- jobStatus, charged <- billed,
                              left <- [j \in Job |-> ToCome(j)]

ImplementsJobLife == Life!Spec

\* A matched job ends and its GPU is offered again, unless something fails.
MatchedJobEnds ==
  /\ \A j \in Job :
       jobStatus[j] = "queued" ~> jobStatus[j] \in Terminal \/ mishaps > 0
  /\ \A g \in Gpu :
       gpuStatus[g] = "busy" ~> gpuStatus[g] = "online" \/ mishaps > 0

\* An agent that has nothing to do comes back after every broken connection
\* and backend restart, unless it is given work or stopped.
IdleAgentReturns ==
  \A g \in Gpu : phase[g] = "idle" /\ g \notin link
                   ~> g \in link \/ phase[g] # "idle"

-----------------------------------------------------------------------------
(* What the repository says of the program and the code does not do.       *)

\* Refund policy: "If a Job has not started: No compute charges will apply".
NotStartedNotCharged ==
  \A j \in Job : [](jobStatus[j] = "cancelled" /\ j \notin started
                      => [](billed[j] = 0))

=============================================================================
