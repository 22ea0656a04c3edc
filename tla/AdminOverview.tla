----------------------------- MODULE AdminOverview -----------------------------
(***************************************************************************)
(* What pages/AdminDashboard.jsx shows of the platform: load asks for the  *)
(* statistics, the GPUs, the jobs and the users at once, when the page is  *)
(* mounted and never again, and the tables and details join the answers.   *)
(* Each GPU has an owner of its own, who goes by the GPU's name; one job   *)
(* stands for all.                                                         *)
(***************************************************************************)
EXTENDS Naturals, FiniteSets

CONSTANTS
  Gpu,         \* GPUs, and their owners
  NoGpu,       \* no GPU, no owner
  MaxChanges   \* bound: changes of the platform

ASSUME OverviewBounds == MaxChanges \in Nat

VARIABLES
  owners,    \* GPUs whose owner is registered
  fleet,     \* gpus.status of the GPUs that are registered
  job,       \* jobs.gpu_id of the job, or NoGpu
  changes,
  parts,     \* the four answers, as they come
  shown,     \* the page has its answers
  moved      \* history: the platform changed between two queries of load

overviewVars == <<owners, fleet, job, changes, parts, shown, moved>>

Status == {"online", "busy", "offline"}
Part == {"stats", "gpus", "jobs", "users"}
Pending == [state |-> "pending"]
Failed == [state |-> "failed"]

OverviewTypeOK ==
  /\ owners \subseteq Gpu
  /\ DOMAIN fleet \subseteq Gpu /\ \A g \in DOMAIN fleet : fleet[g] \in Status
  /\ job \in Gpu \cup {NoGpu}
  /\ changes \in 0..MaxChanges
  /\ DOMAIN parts = Part
  /\ \A p \in Part : parts[p].state \in {"pending", "counting", "read", "failed"}
  /\ shown \in BOOLEAN /\ moved \in BOOLEAN

OverviewInit ==
  /\ owners = {} /\ fleet = [g \in {} |-> "online"] /\ job = NoGpu
  /\ changes = 0
  /\ parts = [p \in Part |-> Pending] /\ shown = FALSE /\ moved = FALSE

-----------------------------------------------------------------------------
(* The platform.                                                           *)

\* The queries of the part have not all been made.
Unfinished(p) == parts[p].state \in {"pending", "counting"}

Change ==
  /\ changes < MaxChanges /\ changes' = changes + 1
  /\ moved' = (moved \/ (\E p, q \in Part : parts[p] # Pending /\ Unfinished(q)))
  /\ UNCHANGED <<parts, shown>>

OwnerRegisters(g) ==
  /\ Change
  /\ g \notin owners /\ owners' = owners \cup {g}
  /\ UNCHANGED <<fleet, job>>

GpuRegisters(g) ==
  /\ Change
  /\ g \in owners /\ g \notin DOMAIN fleet
  /\ fleet' = [x \in DOMAIN fleet \cup {g} |-> IF x = g THEN "offline" ELSE fleet[x]]
  /\ UNCHANGED <<owners, job>>

GpuChanges(g, status) ==
  /\ Change
  /\ g \in DOMAIN fleet /\ fleet[g] # status
  /\ fleet' = [fleet EXCEPT ![g] = status]
  /\ UNCHANGED <<owners, job>>

JobMatched(g) ==
  /\ Change
  /\ job = NoGpu /\ g \in DOMAIN fleet /\ fleet[g] = "online"
  /\ job' = g
  /\ UNCHANGED <<owners, fleet>>

-----------------------------------------------------------------------------
(* The page.                                                               *)

OnlineIn(f) == {g \in DOMAIN f : f[g] = "online"}

\* The queries of admin_stats run one after another; those of the busy GPUs, the
\* jobs and the users are left out.
CountGpus ==
  /\ parts["stats"] = Pending
  /\ parts' = [parts EXCEPT !["stats"] =
       [state |-> "counting", total |-> Cardinality(DOMAIN fleet)]]
  /\ UNCHANGED <<owners, fleet, job, changes, shown, moved>>

\* Variation: a busy GPU counts as online.
CountBusyToo ==
  /\ parts["stats"].state = "counting"
  /\ parts' = [parts EXCEPT !["stats"] =
       [state |-> "read", total |-> parts["stats"].total,
        online |-> Cardinality({g \in DOMAIN fleet : fleet[g] # "offline"})]]
  /\ UNCHANGED <<owners, fleet, job, changes, shown, moved>>

CountOnline ==
  /\ parts["stats"].state = "counting"
  /\ parts' = [parts EXCEPT !["stats"] =
       [state |-> "read", total |-> parts["stats"].total,
        online |-> Cardinality(OnlineIn(fleet))]]
  /\ UNCHANGED <<owners, fleet, job, changes, shown, moved>>

\* One of the other requests of load is served, by one query; the jobs and users
\* come with what the joins need of them.
ReadPart(p) ==
  /\ p # "stats" /\ parts[p] = Pending
  /\ parts' = [parts EXCEPT ![p] =
       IF p = "gpus" THEN [state |-> "read", list |-> fleet]
       ELSE IF p = "jobs" THEN [state |-> "read", gpu |-> job]
       ELSE [state |-> "read", list |-> owners]]
  /\ UNCHANGED <<owners, fleet, job, changes, shown, moved>>

PartFails(p) ==
  /\ Unfinished(p)
  /\ parts' = [parts EXCEPT ![p] = Failed]
  /\ UNCHANGED <<owners, fleet, job, changes, shown, moved>>

\* All have settled: a part that failed stays as it was, empty.
ShowAll ==
  /\ ~shown /\ \A p \in Part : ~Unfinished(p)
  /\ shown' = TRUE
  /\ UNCHANGED <<owners, fleet, job, changes, parts, moved>>

Came(p) == shown /\ parts[p].state = "read"

\* The cards of the overview: "-" without the statistics.
Cards == IF Came("stats") THEN <<parts["stats"].total, parts["stats"].online>> ELSE <<>>

\* The rows of the fleet.
Rows == IF Came("gpus") THEN DOMAIN parts["gpus"].list ELSE {}

\* The owner in the row and the details of a GPU: "-" if no user is found.
OwnerShown(g) == IF Came("users") /\ g \in parts["users"].list THEN g ELSE NoGpu

\* The row of the job names the GPU of the job whether or not it has a row.
JobRow == IF Came("jobs") THEN parts["jobs"].gpu ELSE NoGpu

\* The GPU in the details of the job: "Unassigned" if no row is found.
GpuOfJob == IF JobRow \in Rows THEN JobRow ELSE NoGpu

\* The provider in the details of the job, through the GPU.
ProviderOfJob == IF GpuOfJob = NoGpu THEN NoGpu ELSE OwnerShown(GpuOfJob)

\* The other way round: the details of a GPU list its jobs, those of a user the
\* GPUs owned.
JobListed(g) == JobRow = g
GpusOwned(u) == {g \in Rows : g = u}

OverviewNext ==
  \/ \E g \in Gpu : \/ OwnerRegisters(g) \/ GpuRegisters(g) \/ JobMatched(g)
                    \/ \E status \in Status : GpuChanges(g, status)
  \/ CountGpus \/ CountOnline
  \/ \E p \in Part : ReadPart(p) \/ PartFails(p)
  \/ ShowAll

OverviewSpec == OverviewInit /\ [][OverviewNext]_overviewVars

-----------------------------------------------------------------------------
(* Property.                                                               *)

\* Unless the platform changed between the queries of load, what the page
\* joins agrees: the cards count the rows, every row has its owner and its owner
\* the row, a job that has a GPU shows it with its provider, and the GPU lists
\* the job; a part that failed costs only what is taken from it.
OverviewAgrees ==
  shown /\ ~moved =>
    /\ Came("stats") /\ Came("gpus") =>
         Cards = <<Cardinality(Rows), Cardinality(OnlineIn(parts["gpus"].list))>>
    /\ Came("users") => \A g \in Rows : g \in GpusOwned(OwnerShown(g))
    /\ Came("gpus") => GpuOfJob = JobRow /\ \A g \in Rows : JobListed(g) = (GpuOfJob = g)
    /\ Came("gpus") /\ Came("users") => ProviderOfJob = JobRow
=============================================================================
