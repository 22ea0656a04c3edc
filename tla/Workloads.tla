------------------------------- MODULE Workloads -------------------------------
(***************************************************************************)
(* The client's list of workloads (pages/ClientDashboard.jsx, with the     *)
(* components RecentWorkloads, WorkloadDrawer, LogsViewer, ConfirmDialog   *)
(* and RerunDialog, and the hook useJobNotifications), over a server whose *)
(* job status is what routers/jobs.py, routers/ws.py and worker/tasks.py   *)
(* make of it.                                                             *)
(*                                                                         *)
(* The list is loaded every 15 seconds and after each action, whether or   *)
(* not an earlier load has been answered, so two answers may cross; the    *)
(* hook compares each list with the one before to tell what has started    *)
(* and what has ended.  One text and one loading flag serve every log      *)
(* viewer.  Pending and queued are one status here, as in utils.js.        *)
(***************************************************************************)
EXTENDS Naturals, Sequences, FiniteSets, SequencesExt

CONSTANTS
  Workload,       \* the workloads of one client
  Old,       \* those that had completed before
  Nothing,
  MaxLoads,  \* bound: list requests under way at once
  MaxMoves,  \* bound: steps of the person
  MaxFaults  \* bound: calls that fail, and sweeps

ASSUME NothingAssumption == Nothing \notin Workload
ASSUME OldAssumption == Old \subseteq Workload
ASSUME BoundAssumption ==
  MaxLoads \in Nat \ {0} /\ MaxMoves \in Nat /\ MaxFaults \in Nat

VARIABLES
  status,    \* per job: jobs.status on the server
  agent,     \* per job: what its agent has reported
  stop,      \* per job: the cancel request at the server
  open,      \* the dashboard is mounted
  asked,     \* list requests the server has yet to read
  answers,   \* lists read, not yet delivered, in the order of the reads
  shown,     \* jobs: the list on the page ("none": not in it)
  prev,      \* prevJobsRef
  notices,   \* per job: notifications that it ended
  dialog,    \* the stop confirmation or the rerun dialog
  reruns,    \* rerun requests under way
  viewer, loading, text,  \* logModal, logsLoading, logs (Nothing is '')
  logCalls,  \* per job: log requests under way
  drawer,    \* drawerJob: the row as it was clicked
  moves, faults,
  due,       \* history: jobs that, when last shown unfinished, were active
  crossed,   \* history: a list was delivered after a later one
  revived,   \* history: jobs that left a final status
  mixed      \* history: logs of two jobs have been under way at once

server == <<status, agent, stop, revived>>
list == <<asked, answers, shown, prev, notices, due, crossed>>
viewing == <<viewer, loading, text, logCalls, mixed>>
dialogs == <<dialog, reruns, drawer>>
workloadsVars == <<server, list, viewing, dialogs, open, moves, faults>>

Active == {"queued", "running"}
Finished == {"completed", "failed"}
Status == {"none", "cancelled"} \cup Active \cup Finished
NoneYet == [j \in Workload |-> "none"]

WorkloadsTypeOK ==
  /\ status \in [Workload -> Status] /\ shown \in [Workload -> Status]
  /\ prev \in [Workload -> Status]
  /\ agent \in [Workload -> {"waits", "runs", "over"}]
  /\ stop \in [Workload -> {"no", "asked", "checked"}]
  /\ open \in BOOLEAN
  /\ asked + Len(answers) \in 0..MaxLoads
  /\ answers \in Seq([jobs : [Workload -> Status], late : BOOLEAN])
  /\ notices \in [Workload -> Nat]
  /\ dialog \in [kind : {"stop", "rerun"}, job : Workload] \cup {Nothing}
  /\ reruns \in Nat
  /\ viewer \in Workload \cup {Nothing} /\ loading \in BOOLEAN
  /\ text \in Workload \cup {Nothing} /\ logCalls \in [Workload -> Nat]
  /\ drawer \in [job : Workload, status : Status \ {"none"}] \cup {Nothing}
  /\ moves \in 0..MaxMoves /\ faults \in 0..MaxFaults
  /\ due \subseteq Workload /\ revived \subseteq Workload
  /\ crossed \in BOOLEAN /\ mixed \in BOOLEAN

WorkloadsInit ==
  /\ status = [j \in Workload |-> IF j \in Old THEN "completed" ELSE "none"]
  /\ agent = [j \in Workload |-> IF j \in Old THEN "over" ELSE "waits"]
  /\ stop = [j \in Workload |-> "no"]
  /\ open = TRUE /\ asked = 1 /\ answers = <<>>
  /\ shown = NoneYet /\ prev = NoneYet
  /\ notices = [j \in Workload |-> 0]
  /\ dialog = Nothing /\ reruns = 0
  /\ viewer = Nothing /\ loading = FALSE /\ text = Nothing
  /\ logCalls = [j \in Workload |-> 0]
  /\ drawer = Nothing
  /\ moves = 0 /\ faults = 0
  /\ due = {} /\ revived = {} /\ crossed = FALSE /\ mixed = FALSE

\* A step of the person on the page.
Acts == open /\ moves < MaxMoves /\ moves' = moves + 1

\* Every overlay covers the page.
Uncovered == dialog = Nothing /\ viewer = Nothing /\ drawer = Nothing

Fault == faults < MaxFaults /\ faults' = faults + 1

-----------------------------------------------------------------------------
(* The server.  An agent's report overwrites whatever the status is.       *)

Revived(j) ==
  revived' = IF status[j] \in Finished THEN revived \cup {j} ELSE revived

Report(j, s) ==
  /\ status[j] # "none"
  /\ status' = [status EXCEPT ![j] = s]
  /\ Revived(j)
  /\ UNCHANGED <<stop, list, viewing, dialogs, open, moves, faults>>

ReportRunning(j) ==
  /\ agent[j] = "waits"
  /\ agent' = [agent EXCEPT ![j] = "runs"]
  /\ Report(j, "running")

\* The report of the start may have been given up.
ReportEnd(j, s) ==
  /\ agent[j] # "over"
  /\ agent' = [agent EXCEPT ![j] = "over"]
  /\ Report(j, s)

\* check_heartbeats
Sweep(j) ==
  /\ Fault
  /\ status[j] \in Active
  /\ status' = [status EXCEPT ![j] = "failed"]
  /\ UNCHANGED <<agent, stop, revived, list, viewing, dialogs, open, moves>>

\* cancel_job reads the status, tells the agent, and commits.
CancelCheck(j) ==
  /\ stop[j] = "asked"
  /\ stop' = [stop EXCEPT ![j] = IF status[j] \in Active THEN "checked" ELSE "no"]
  /\ UNCHANGED <<status, agent, revived, list, viewing, dialogs, open, moves,
                 faults>>

CancelCommit(j) ==
  /\ stop[j] = "checked"
  /\ stop' = [stop EXCEPT ![j] = "no"]
  /\ status' = [status EXCEPT ![j] = "cancelled"]
  /\ Revived(j)
  /\ UNCHANGED <<agent, list, viewing, dialogs, open, moves, faults>>

\* submit_job: from the workspace, or another tab.
Submitted(j) ==
  /\ status[j] = "none"
  /\ status' = [status EXCEPT ![j] = "queued"]
  /\ UNCHANGED <<agent, stop, revived, list, viewing, dialogs, open, moves, faults>>

\* rerun_job
RerunMade(j) ==
  /\ reruns > 0 /\ reruns' = reruns - 1
  /\ status[j] = "none"
  /\ status' = [status EXCEPT ![j] = "queued"]
  /\ UNCHANGED <<agent, stop, revived, list, viewing, dialog, drawer, open, moves,
                 faults>>

-----------------------------------------------------------------------------
(* The list.                                                               *)

\* Variation: no interval.
LoadOnce ==
  /\ open /\ asked + Len(answers) < MaxLoads
  /\ shown = NoneYet
  /\ asked' = asked + 1
  /\ UNCHANGED <<server, answers, shown, prev, notices, due, crossed, viewing,
                 dialogs, open, moves, faults>>

\* load, by the interval or at the end of a submission, a stop or a rerun.
Load ==
  /\ open /\ asked + Len(answers) < MaxLoads
  /\ asked' = asked + 1
  /\ UNCHANGED <<server, answers, shown, prev, notices, due, crossed, viewing,
                 dialogs, open, moves, faults>>

\* list_jobs
Read ==
  /\ asked > 0 /\ asked' = asked - 1
  /\ answers' = Append(answers, [jobs |-> status, late |-> FALSE])
  /\ UNCHANGED <<server, shown, prev, notices, due, crossed, viewing, dialogs, open,
                 moves, faults>>

\* The answers left once the k-th is taken; those read before it are late.
Without(k) ==
  RemoveAt([i \in DOMAIN answers |->
              [answers[i] EXCEPT !.late = @ \/ i < k]], k)

\* The jobs the hook finds ended: the first list it sees is not compared.
Ended(jobs) ==
  {j \in Workload : prev[j] \in Active /\ jobs[j] \in Finished}

\* Variation: the hook forgets to keep the list.
NoticeOld(jobs) ==
  IF jobs = NoneYet THEN UNCHANGED <<prev, notices>>
  ELSE /\ prev' = IF prev = NoneYet THEN jobs ELSE prev
       /\ notices' = [j \in Workload |->
            IF j \in Ended(jobs) THEN notices[j] + 1 ELSE notices[j]]

\* useJobNotifications: an empty list is skipped.
Notice(jobs) ==
  IF jobs = NoneYet THEN UNCHANGED <<prev, notices>>
  ELSE /\ prev' = jobs
       /\ notices' = [j \in Workload |->
            IF j \in Ended(jobs) THEN notices[j] + 1 ELSE notices[j]]

\* setJobs, and the effect of the hook.
Deliver(k) ==
  /\ k \in DOMAIN answers
  /\ LET jobs == answers[k].jobs
     IN  /\ shown' = jobs
         /\ Notice(jobs)
         /\ due' = {j \in Workload : jobs[j] \in Active
                                  \/ (j \in due /\ jobs[j] # "cancelled")}
  /\ crossed' = (crossed \/ answers[k].late)
  /\ answers' = Without(k)
  /\ UNCHANGED <<server, asked, viewing, dialogs, open, moves, faults>>

\* One of the four requests of the load fails: nothing is set.
LoadFails ==
  /\ Fault
  /\ \/ asked > 0 /\ asked' = asked - 1 /\ UNCHANGED answers
     \/ \E k \in DOMAIN answers : answers' = RemoveAt(answers, k) /\ UNCHANGED asked
  /\ UNCHANGED <<server, shown, prev, notices, due, crossed, viewing, dialogs, open,
                 moves>>

-----------------------------------------------------------------------------
(* Logs, details, stop and rerun.                                          *)

\* Variation: the viewer opens without its loading flag.
ViewAtOnce(j) ==
  /\ Acts /\ Uncovered /\ shown[j] # "none"
  /\ viewer' = j
  /\ logCalls' = [logCalls EXCEPT ![j] = @ + 1]
  /\ mixed' = \E i \in Workload \ {j} : logCalls[i] > 0
  /\ UNCHANGED <<server, list, loading, text, dialogs, open, faults>>

\* fetchLogs
View(j) ==
  /\ Acts /\ Uncovered /\ shown[j] # "none"
  /\ viewer' = j
  /\ loading' = TRUE
  /\ logCalls' = [logCalls EXCEPT ![j] = @ + 1]
  /\ mixed' = \E i \in Workload \ {j} : logCalls[i] > 0
  /\ UNCHANGED <<server, list, text, dialogs, open, faults>>

\* The answer sets the one text, whichever viewer is open, or a failure notice.
LogsCome(j, t) ==
  /\ logCalls[j] > 0
  /\ logCalls' = [logCalls EXCEPT ![j] = @ - 1]
  /\ text' = t
  /\ loading' = FALSE
  /\ UNCHANGED <<server, list, viewer, mixed, dialogs, open, moves>>

CloseViewer ==
  /\ viewer # Nothing
  /\ viewer' = Nothing
  /\ UNCHANGED <<server, list, loading, text, logCalls, mixed, dialogs, open, moves,
                 faults>>

\* onSelectJob: a copy of the row, which no load renews.
Select(j) ==
  /\ Acts /\ Uncovered /\ shown[j] # "none"
  /\ drawer' = [job |-> j, status |-> shown[j]]
  /\ UNCHANGED <<server, list, viewing, dialog, reruns, open, faults>>

CloseDrawer ==
  /\ drawer # Nothing
  /\ drawer' = Nothing
  /\ UNCHANGED <<server, list, viewing, dialog, reruns, open, moves, faults>>

\* handleStop is offered for an active row, handleRerunClick for every row.
Ask(kind, j) ==
  /\ Acts /\ Uncovered
  /\ shown[j] \in (IF kind = "stop" THEN Active ELSE Status \ {"none"})
  /\ dialog' = [kind |-> kind, job |-> j]
  /\ UNCHANGED <<server, list, viewing, reruns, drawer, open, faults>>

Dismiss ==
  /\ dialog # Nothing
  /\ dialog' = Nothing
  /\ UNCHANGED <<server, list, viewing, reruns, drawer, open, moves, faults>>

\* onOk and handleRerunConfirm close the dialog before they call.  (A second
\* cancel request while one is out is the same as one.)
Confirm ==
  /\ dialog # Nothing
  /\ dialog' = Nothing
  /\ \/ /\ dialog.kind = "stop"
        /\ stop' = [stop EXCEPT ![dialog.job] = IF @ = "no" THEN "asked" ELSE @]
        /\ UNCHANGED reruns
     \/ /\ dialog.kind = "rerun"
        /\ reruns' = reruns + 1
        /\ UNCHANGED stop
  /\ UNCHANGED <<status, agent, revived, list, viewing, drawer, open, moves, faults>>

\* A stop or rerun that does not reach the server; an error is shown.
CallFails ==
  /\ Fault
  /\ \/ \E j \in Workload : stop[j] = "asked" /\ stop' = [stop EXCEPT ![j] = "no"]
                       /\ UNCHANGED reruns
     \/ reruns > 0 /\ reruns' = reruns - 1 /\ UNCHANGED stop
  /\ UNCHANGED <<status, agent, revived, list, viewing, dialog, drawer, open, moves>>

\* Variation: the lists under way are not given up with the page.
LeaveListening ==
  /\ Acts /\ Uncovered
  /\ open' = FALSE
  /\ shown' = NoneYet /\ prev' = NoneYet
  /\ notices' = [j \in Workload |-> 0]
  /\ loading' = FALSE /\ text' = Nothing
  /\ logCalls' = [j \in Workload |-> 0]
  /\ due' = {} /\ crossed' = FALSE /\ mixed' = FALSE
  /\ UNCHANGED <<asked, answers, server, viewer, dialogs, faults>>

\* Another page: the component's state is gone and its answers are ignored.
Leave ==
  /\ Acts /\ Uncovered
  /\ open' = FALSE
  /\ asked' = 0 /\ answers' = <<>>
  /\ shown' = NoneYet /\ prev' = NoneYet
  /\ notices' = [j \in Workload |-> 0]
  /\ loading' = FALSE /\ text' = Nothing
  /\ logCalls' = [j \in Workload |-> 0]
  /\ due' = {} /\ crossed' = FALSE /\ mixed' = FALSE
  /\ UNCHANGED <<server, viewer, dialogs, faults>>

Return ==
  /\ ~open /\ open' = TRUE
  /\ asked' = 1
  /\ UNCHANGED <<server, answers, shown, prev, notices, due, crossed, viewing,
                 dialogs, moves, faults>>

WorkloadsNext ==
  \/ \E j \in Workload :
       \/ ReportRunning(j) \/ Sweep(j) \/ CancelCheck(j) \/ CancelCommit(j)
       \/ Submitted(j) \/ RerunMade(j) \/ View(j) \/ Select(j)
       \/ (LogsCome(j, j) /\ UNCHANGED faults)
       \/ (LogsCome(j, Nothing) /\ Fault)
       \/ \E s \in Finished : ReportEnd(j, s)
       \/ \E kind \in {"stop", "rerun"} : Ask(kind, j)
  \/ Load \/ Read \/ LoadFails \/ CloseViewer \/ CloseDrawer \/ Dismiss
  \/ Confirm \/ CallFails \/ Leave \/ Return
  \/ \E k \in 1..MaxLoads : Deliver(k)

WorkloadsSpec == WorkloadsInit /\ [][WorkloadsNext]_workloadsVars

\* The interval fires, the server reads, and every answer comes some day.
WorkloadsFair ==
  WorkloadsSpec /\ WF_workloadsVars(Load) /\ WF_workloadsVars(Read) /\ WF_workloadsVars(Deliver(1))

-----------------------------------------------------------------------------
(* Properties.                                                             *)

\* A workload shown active and then ended has been announced, and once, unless
\* two lists crossed or, for a second time, the server took it out of its final
\* status again.
NoticedOnce ==
  \A j \in Workload :
    /\ (j \in due /\ prev[j] \in Finished) => (notices[j] > 0 \/ crossed)
    /\ notices[j] > 1 => (crossed \/ j \in revived)

\* The logs under a workload's name are its own, unless logs of two workloads
\* had been asked for at once.
LogsAreTheViewers ==
  viewer # Nothing /\ ~loading /\ text # Nothing => text = viewer \/ mixed

\* What the page says of a workload is true of that workload.
ListIsTrue == NoticedOnce /\ LogsAreTheViewers

\* Whatever crossed or failed, the page comes to show what the server says.
ServerIsShown == <>[](open => shown = status)
=============================================================================
