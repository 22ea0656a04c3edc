------------------------------ MODULE ProviderView ------------------------------
(***************************************************************************)
(* The provider's dashboard of one GPU (pages/ProviderDashboard.jsx with   *)
(* MyGPUs, ConnectionPipeline and SystemMetrics) over the messages that    *)
(* agent_websocket (routers/ws.py) relays to it.                           *)
(*                                                                         *)
(* The page loads its lists when it opens, after its own changes, and on   *)
(* each job_status and agent_status message; it has no interval, and a     *)
(* WebSocket that comes back does not load.  Some changes of the server    *)
(* send no message: a dispatch, a cancellation, the sweep of stale         *)
(* heartbeats, a change of status from elsewhere.  The agent has one       *)
(* session at a time here (Sessions has overlapping ones).                 *)
(***************************************************************************)
EXTENDS Naturals, Sequences, SequencesExt

CONSTANTS
  MaxChanges, \* bound: changes on the server
  MaxLoads,   \* bound: loads under way at once
  MaxFaults   \* bound: connections lost and calls that fail

ASSUME BoundAssumption ==
  MaxChanges \in Nat /\ MaxLoads \in Nat \ {0} /\ MaxFaults \in Nat

VARIABLES
  gpuStatus, job,   \* gpus.status; the status of the GPU's job
  agent,      \* "up": in session; "dead": gone, its handler not told; "down"
  connected,  \* the dashboard's WebSocket
  feed,       \* messages to the dashboard, sent and not handled
  asked,      \* loads the server has yet to read
  answers,    \* loads read, not delivered, in the order of the reads
  shown,      \* gpus and jobs on the page
  metrics,    \* the page has metrics of the GPU
  patch,      \* toggleStatus: the status on its way, or "done"
  changes, faults,
  causes,     \* history: why the page may be out of date
  unheard     \* history: the end of the agent's session was not heard of

server == <<gpuStatus, job, agent, changes>>
page == <<shown, metrics>>
loads == <<asked, answers>>
providerVars == <<server, connected, feed, loads, page, patch, faults, causes, unheard>>

GpuStatus == {"online", "busy", "offline"}
JobStatus == {"none", "queued", "running", "ended"}
Listed == [gpu : GpuStatus, job : JobStatus]
World == [gpu |-> gpuStatus, job |-> job]
Unloaded == [gpu |-> "offline", job |-> "none"]

\* activeGpuId: a GPU that My GPUs shows as available or busy.
Active == shown.gpu \in {"online", "busy"}

\* agentConnected: there are metrics to show, and the pipeline's agent is lit.
AgentConnected == Active /\ metrics

\* The lights of the connection pipeline (docker's repeats what the metrics say).
Pipeline == [backend |-> connected, agent |-> AgentConnected]

ProviderTypeOK ==
  /\ gpuStatus \in GpuStatus /\ job \in JobStatus
  /\ agent \in {"up", "dead", "down"}
  /\ connected \in BOOLEAN
  /\ feed \in Seq({"metrics", "job_status", "connected", "disconnected"})
  /\ asked \in Nat /\ answers \in Seq([list : Listed, late : BOOLEAN])
  /\ shown \in Listed /\ metrics \in BOOLEAN
  /\ patch \in {"no", "online", "offline", "done"}
  /\ changes \in 0..MaxChanges /\ faults \in 0..MaxFaults
  /\ causes \subseteq {"silent", "missed", "failed", "crossed"}
  /\ unheard \in BOOLEAN

\* The page has just been opened.
ProviderInit ==
  /\ gpuStatus \in {"online", "offline"} /\ job = "none"
  /\ agent = IF gpuStatus = "online" THEN "up" ELSE "down"
  /\ connected = FALSE /\ feed = <<>>
  /\ asked = 1 /\ answers = <<>>
  /\ shown = Unloaded /\ metrics = FALSE
  /\ patch = "no" /\ changes = 0 /\ faults = 0
  /\ causes = {} /\ unheard = FALSE

Change == changes < MaxChanges /\ changes' = changes + 1
Fault == faults < MaxFaults /\ faults' = faults + 1

-----------------------------------------------------------------------------
(* The server.                                                             *)

\* send_to_provider
Tell(m) ==
  IF connected
  THEN feed' = Append(feed, m) /\ UNCHANGED <<causes, unheard>>
  ELSE /\ causes' = causes \cup {"missed"}
       /\ unheard' = (unheard \/ m = "disconnected")
       /\ UNCHANGED feed

\* A change that no message tells of.
Silently ==
  causes' = causes \cup {"silent"} /\ UNCHANGED <<feed, unheard>>

Elsewhere == UNCHANGED <<connected, loads, page, patch, faults>>

\* Variation: the connection of an agent is not told.
AgentConnectsQuietly ==
  /\ Change /\ agent = "down"
  /\ agent' = "up" /\ gpuStatus' = "online"
  /\ UNCHANGED <<feed, causes, unheard>>
  /\ UNCHANGED job /\ Elsewhere

AgentConnects ==
  /\ Change /\ agent = "down"
  /\ agent' = "up" /\ gpuStatus' = "online"
  /\ Tell("connected")
  /\ UNCHANGED job /\ Elsewhere

\* Variation: the row's status is cleared.
AgentDisconnectsClears ==
  /\ Change /\ agent # "down"
  /\ agent' = "down" /\ gpuStatus' = ""
  /\ Tell("disconnected")
  /\ UNCHANGED job /\ Elsewhere

AgentDisconnects ==
  /\ Change /\ agent # "down"
  /\ agent' = "down" /\ gpuStatus' = "offline"
  /\ Tell("disconnected")
  /\ UNCHANGED job /\ Elsewhere

\* The agent's machine is gone; the handler still waits for a message.
AgentDies ==
  /\ Change /\ agent = "up"
  /\ agent' = "dead"
  /\ UNCHANGED <<gpuStatus, job, feed, causes, unheard>> /\ Elsewhere

\* The agent reports running, or the end; nothing checks the status before, so
\* that a report after a cancellation has the job running, or ended, again.
JobStatusReport(s) ==
  /\ Change /\ agent = "up" /\ job # "none"
  /\ job' = s
  /\ gpuStatus' = IF s = "ended" THEN "online" ELSE gpuStatus
  /\ Tell("job_status")
  /\ UNCHANGED agent /\ Elsewhere

\* Bound: one metrics message under way.
Metrics ==
  /\ agent = "up" /\ connected
  /\ "metrics" \notin Range(feed)
  /\ feed' = Append(feed, "metrics")
  /\ UNCHANGED <<server, causes, unheard>> /\ Elsewhere

\* submit_job matches the GPU.
Dispatched ==
  /\ Change /\ gpuStatus = "online" /\ job \in {"none", "ended"}
  /\ gpuStatus' = "busy" /\ job' = "queued"
  /\ Silently
  /\ UNCHANGED agent /\ Elsewhere

\* cancel_job, and check_heartbeats.
Cancelled ==
  /\ Change /\ job \in {"queued", "running"}
  /\ job' = "ended" /\ gpuStatus' = IF gpuStatus = "busy" THEN "online" ELSE gpuStatus
  /\ Silently
  /\ UNCHANGED agent /\ Elsewhere

Swept ==
  /\ Change /\ agent = "dead" /\ gpuStatus # "offline"
  /\ gpuStatus' = "offline"
  /\ job' = IF job \in {"queued", "running"} THEN "ended" ELSE job
  /\ Silently
  /\ UNCHANGED agent /\ Elsewhere

\* update_gpu_status from another tab or an administrator.
PatchedElsewhere(s) ==
  /\ Change /\ gpuStatus # s
  /\ gpuStatus' = s
  /\ Silently
  /\ UNCHANGED <<job, agent>> /\ Elsewhere

-----------------------------------------------------------------------------
(* The WebSocket of the page.                                              *)

\* connect, at once and three seconds after each close; onopen loads nothing.
Connect ==
  /\ ~connected /\ connected' = TRUE
  /\ UNCHANGED <<server, feed, loads, page, patch, faults, causes, unheard>>

\* onclose: what was under way is lost.
Close ==
  /\ Fault /\ connected
  /\ connected' = FALSE /\ feed' = <<>>
  /\ causes' = IF Range(feed) \subseteq {"metrics"} THEN causes
               ELSE causes \cup {"missed"}
  /\ unheard' = (unheard \/ "disconnected" \in Range(feed))
  /\ UNCHANGED <<server, loads, page, patch>>

Load == asked + Len(answers) < MaxLoads /\ asked' = asked + 1 /\ UNCHANGED answers

\* onmessage
Hear ==
  /\ feed # <<>> /\ feed' = Tail(feed)
  /\ \/ /\ Head(feed) = "metrics"
        /\ metrics' = TRUE /\ unheard' = FALSE
        /\ UNCHANGED loads
     \/ /\ Head(feed) # "metrics"
        /\ Load
        /\ metrics' = (metrics /\ Head(feed) # "disconnected")
        /\ UNCHANGED unheard
  /\ UNCHANGED <<server, connected, shown, patch, faults, causes>>

-----------------------------------------------------------------------------
(* Loads and the toggle.                                                   *)

\* list_gpus and list_jobs.
Read ==
  /\ asked > 0 /\ asked' = asked - 1
  /\ answers' = Append(answers, [list |-> World, late |-> FALSE])
  /\ UNCHANGED <<server, connected, feed, page, patch, faults, causes, unheard>>

Without(k) ==
  RemoveAt([i \in DOMAIN answers |->
              [answers[i] EXCEPT !.late = @ \/ i < k]], k)

\* setGPUs and setJobs.
Deliver(k) ==
  /\ k \in DOMAIN answers
  /\ shown' = answers[k].list
  /\ answers' = Without(k)
  /\ causes' = IF answers[k].list = World /\ Len(answers) = 1 THEN {}
               ELSE IF answers[k].late THEN causes \cup {"crossed"} ELSE causes
  /\ UNCHANGED <<server, connected, feed, asked, metrics, patch, faults, unheard>>

LoadFails ==
  /\ Fault
  /\ \/ asked > 0 /\ asked' = asked - 1 /\ UNCHANGED answers
     \/ \E k \in DOMAIN answers : answers' = RemoveAt(answers, k) /\ UNCHANGED asked
  /\ causes' = causes \cup {"failed"}
  /\ UNCHANGED <<server, connected, feed, page, patch, unheard>>

\* Go Offline removes the metrics before it asks.
Toggle ==
  /\ patch = "no" /\ changes < MaxChanges
  /\ patch' = IF Active THEN "offline" ELSE "online"
  /\ metrics' = (metrics /\ ~Active)
  /\ UNCHANGED <<server, connected, feed, loads, shown, faults, causes, unheard>>

\* update_gpu_status; the agent that is told to stop leaves by itself.
Patched ==
  /\ patch \in {"online", "offline"} /\ Change
  /\ gpuStatus' = patch /\ patch' = "done"
  /\ UNCHANGED <<job, agent, connected, feed, loads, page, faults, causes, unheard>>

\* The answer to the toggle loads; without one there is an error and no load.
Toggled ==
  /\ patch = "done" /\ patch' = "no"
  /\ Load
  /\ UNCHANGED <<server, connected, feed, page, faults, causes, unheard>>

ToggleFails ==
  /\ Fault /\ patch # "no" /\ patch' = "no"
  /\ causes' = IF patch = "done" THEN causes \cup {"failed"} ELSE causes
  /\ UNCHANGED <<server, connected, feed, loads, page, unheard>>

ProviderNext ==
  \/ AgentConnects \/ AgentDisconnects \/ AgentDies \/ Metrics
  \/ \E s \in {"running", "ended"} : JobStatusReport(s)
  \/ Dispatched \/ Cancelled \/ Swept
  \/ \E s \in {"online", "offline"} : PatchedElsewhere(s)
  \/ Connect \/ Close \/ Hear
  \/ Read \/ LoadFails \/ \E k \in 1..MaxLoads : Deliver(k)
  \/ Toggle \/ Patched \/ Toggled \/ ToggleFails

ProviderSpec == ProviderInit /\ [][ProviderNext]_providerVars

-----------------------------------------------------------------------------
(* Properties.                                                             *)

\* Nothing is under way that would still change the page.
Quiet == connected /\ feed = <<>> /\ asked = 0 /\ answers = <<>> /\ patch = "no"

\* A page at rest shows what the server says, unless something changed without
\* a message, a message was lost, a load failed, or two loads crossed.
StaleHasACause == Quiet /\ shown # World => causes # {}

\* The pipeline shows an agent that has left only if the page never heard.
PipelineHearsOfTheEnd ==
  Pipeline.agent /\ agent = "down" /\ "disconnected" \notin Range(feed) => unheard

\* The lists and the lights of the page follow what the server does.
PageFollowsTheServer == StaleHasACause /\ PipelineHearsOfTheEnd
=============================================================================
