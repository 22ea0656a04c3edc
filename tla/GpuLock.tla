------------------------------ MODULE GpuLock ------------------------------
(***************************************************************************)
(* GPU matching and the 30 second GPU lock: the part of submit_job and     *)
(* rerun_job (routers/jobs.py) that runs from the requested GPU to the     *)
(* dispatch, together with find_available_gpu_and_lock                     *)
(* (services/matching.py).  Several HTTP requests run it concurrently, on  *)
(* one event loop and over PostgreSQL at READ COMMITTED: every await of    *)
(* the database is a point where the others move, so each action below is  *)
(* the code between two awaits.                                            *)
(*                                                                         *)
(* rowLock is PostgreSQL's FOR UPDATE row lock, held to the end of the     *)
(* transaction; lockedBy / lockedUntil are the application's own lock, two *)
(* columns of the gpus table.  The other writers of gpus.status (agent     *)
(* connect, agent disconnect, job end, the provider's PATCH) load the row, *)
(* then update it, which waits for the row lock.                           *)
(***************************************************************************)
EXTENDS Naturals, FiniteSets

CONSTANTS
  Job,         \* the submissions, one job each
  Gpu,         \* the rows of the gpus table
  None,        \* SQL NULL / Python None
  Vram,        \* Gpu -> Nat, gpus.vram_mb
  PoolLimit,   \* .limit(10) of the candidate query
  LockTime,    \* timedelta(seconds=30), in clock ticks
  MaxTime,     \* bound of the clock, for TLC only
  MaxMoves     \* bound of the moves of the other handlers, for TLC only

ASSUME NoneAssumption == None \notin Job \cup Gpu \cup Nat
ASSUME VramAssumption == Vram \in [Gpu -> Nat]
ASSUME TimeAssumption == {LockTime, MaxTime, MaxMoves} \subseteq Nat
ASSUME PoolAssumption == PoolLimit \in Nat

VARIABLES
  clock,       \* datetime.now(timezone.utc) of the backend
  status,      \* gpus.status, committed
  lockedBy,    \* gpus.locked_by_job_id, committed
  lockedUntil, \* gpus.locked_until, committed
  rowLock,     \* the submission whose transaction holds the row FOR UPDATE
  connected,   \* keys of ConnectionManager._connections
  dockerDown,  \* GPUs whose agent reported docker_running = False
  writer,      \* another handler's pending UPDATE of gpus.status
  pc,          \* where each submission stands
  want,        \* gpu_id of the form, or None
  now,         \* the `now` the submission captured last
  pick,        \* `gpu` / `chosen` of the submission
  jobGpu,      \* jobs.gpu_id, committed (None: the job is pending)
  moves        \* moves of the other handlers so far

gpuVars  == <<status, lockedBy, lockedUntil>>
connVars == <<connected, dockerDown>>
subVars  == <<pc, want, now, pick>>
vars == <<clock, gpuVars, rowLock, connVars, writer, subVars, jobGpu, moves>>

Status  == {"online", "busy", "offline"}
Waiting == {"want", "lock"}                  \* about to SELECT ... FOR UPDATE
Holding == {"dispatch", "park"}              \* decided, not committed yet
Ended   == {"done", "lost", "aborted"}
PC == {"idle", "pool", "send"} \cup Waiting \cup Holding \cup Ended

TypeOK ==
  /\ clock \in Nat
  /\ status \in [Gpu -> Status]
  /\ lockedBy \in [Gpu -> Job \cup {None}]
  /\ lockedUntil \in [Gpu -> Nat \cup {None}]
  /\ rowLock \in [Gpu -> Job \cup {None}]
  /\ connected \subseteq Gpu
  /\ dockerDown \subseteq Gpu
  /\ writer \in [Gpu -> Status \cup {None}]
  /\ pc \in [Job -> PC]
  /\ want \in [Job -> Gpu \cup {None}]
  /\ now \in [Job -> Nat]
  /\ pick \in [Job -> Gpu \cup {None}]
  /\ jobGpu \in [Job -> Gpu \cup {None}]
  /\ moves \in Nat

\* A restart of the backend leaves gpus.status as it was and no connection, so
\* a GPU may be online in the table and not connected.
Init ==
  /\ clock = 0
  /\ status \in [Gpu -> {"online", "offline"}]
  /\ lockedBy = [g \in Gpu |-> None]
  /\ lockedUntil = [g \in Gpu |-> None]
  /\ rowLock = [g \in Gpu |-> None]
  /\ connected \in SUBSET {g \in Gpu : status[g] = "online"}
  /\ dockerDown = {}
  /\ writer = [g \in Gpu |-> None]
  /\ pc = [j \in Job |-> "idle"]
  /\ want = [j \in Job |-> None]
  /\ now = [j \in Job |-> 0]
  /\ pick = [j \in Job |-> None]
  /\ jobGpu = [j \in Job |-> None]
  /\ moves = 0

-----------------------------------------------------------------------------
(* The queries.                                                            *)

\* `lock_available`: never locked, or expired at the captured time t.
LockAvailable(g, t) == lockedUntil[g] # None => lockedUntil[g] <= t

BestFit(S) == {g \in S : \A h \in S : Vram[g] <= Vram[h]}

\* The candidate pools ORDER BY vram_mb ASC LIMIT PoolLimit may return
\* (rows of equal vram_mb come in any order).
Pools(t) ==
  LET rows == {g \in Gpu : status[g] = "online" /\ LockAvailable(g, t)}
  IN  {P \in SUBSET rows :
         /\ Cardinality(P) <= PoolLimit
         /\ P # rows => Cardinality(P) = PoolLimit
         /\ \A g \in P, h \in rows \ P : Vram[g] <= Vram[h]}

\* next((gpu for gpu in candidates if docker status is not False), None)
Choices(t) ==
  UNION {IF P \subseteq dockerDown THEN {None} ELSE BestFit(P \ dockerDown)
           : P \in Pools(t)}

\* Nobody else's transaction holds row g.
RowFree(g, j) == rowLock[g] \in {None, j}

\* if gpu and manager.is_connected(gpu.id): dispatch, else stay pending
Verdict(g) == IF g \in connected THEN "dispatch" ELSE "park"

-----------------------------------------------------------------------------
(* One submission.                                                         *)

Goto(j, l) == pc' = [pc EXCEPT ![j] = l]

\* db.add(job); flush; then branch on gpu_id.  Auto-match captures `now`
\* before its first query.
Submit(j, w) ==
  /\ pc[j] = "idle"
  /\ want' = [want EXCEPT ![j] = w]
  /\ now' = [now EXCEPT ![j] = clock]
  /\ Goto(j, IF w = None THEN "pool" ELSE "want")
  /\ UNCHANGED <<clock, gpuVars, rowLock, connVars, writer, pick, jobGpu, moves>>

\* Variation: the requested GPU is taken whenever it is online.
TakeWantedLocked(j) ==
  LET g == want[j] IN
  /\ pc[j] = "want" /\ RowFree(g, j)
  /\ rowLock' = [rowLock EXCEPT ![g] = j]
  /\ now' = [now EXCEPT ![j] = clock]
  /\ IF status[g] = "online"
     THEN pick' = [pick EXCEPT ![j] = g] /\ Goto(j, Verdict(g))
     ELSE UNCHANGED pick /\ Goto(j, "pool")
  /\ UNCHANGED <<clock, gpuVars, connVars, writer, want, jobGpu, moves>>

\* Variation: the requested GPU is read by a plain SELECT.
TakeWantedNoForUpdate(j) ==
  LET g == want[j] IN
  /\ pc[j] = "want"
  /\ now' = [now EXCEPT ![j] = clock]
  /\ IF status[g] = "online" /\ LockAvailable(g, clock)
     THEN pick' = [pick EXCEPT ![j] = g] /\ Goto(j, Verdict(g))
     ELSE UNCHANGED pick /\ Goto(j, "pool")
  /\ UNCHANGED <<clock, gpuVars, rowLock, connVars, writer, want, jobGpu, moves>>

\* The requested GPU: SELECT ... WHERE id = gpu_id FOR UPDATE keeps the row
\* lock whether or not the GPU turns out to be usable.
TakeWanted(j) ==
  LET g == want[j] IN
  /\ pc[j] = "want"
  /\ RowFree(g, j)
  /\ rowLock' = [rowLock EXCEPT ![g] = j]
  /\ now' = [now EXCEPT ![j] = clock]
  /\ \/ /\ status[g] = "online" /\ LockAvailable(g, clock)
        /\ pick' = [pick EXCEPT ![j] = g]
        /\ Goto(j, Verdict(g))
     \/ /\ ~(status[g] = "online" /\ LockAvailable(g, clock))
        /\ Goto(j, "pool")                  \* falling back to auto-match
        /\ UNCHANGED pick
  /\ UNCHANGED <<clock, gpuVars, connVars, writer, want, jobGpu, moves>>

\* Variation: the candidate query is FOR UPDATE, which locks row after row.
QueryForUpdate(j) ==
  /\ pc[j] = "pool"
  /\ \/ \E g \in Choices(now[j]) :
          /\ pick' = [pick EXCEPT ![j] = g]
          /\ Goto(j, IF g = None THEN "park" ELSE "lock")
          /\ UNCHANGED rowLock
     \/ \E g \in Gpu :
          /\ status[g] = "online" /\ LockAvailable(g, now[j]) /\ rowLock[g] = None
          /\ rowLock' = [rowLock EXCEPT ![g] = j]
          /\ UNCHANGED <<pick, pc>>
  /\ UNCHANGED <<clock, gpuVars, connVars, writer, want, now, jobGpu, moves>>

\* The candidate query and the choice among its rows.
Query(j) ==
  /\ pc[j] = "pool"
  /\ \E g \in Choices(now[j]) :
       /\ pick' = [pick EXCEPT ![j] = g]
       /\ Goto(j, IF g = None THEN "park" ELSE "lock")
  /\ UNCHANGED <<clock, gpuVars, rowLock, connVars, writer, want, now, jobGpu, moves>>

\* Variation: the re-fetch forgets lock_available.
LockPickUnchecked(j) ==
  LET g == pick[j] IN
  /\ pc[j] = "lock" /\ RowFree(g, j)
  /\ rowLock' = [rowLock EXCEPT ![g] = j]
  /\ Goto(j, Verdict(g))
  /\ UNCHANGED <<clock, gpuVars, connVars, writer, want, now, pick, jobGpu, moves>>

\* Re-fetch WHERE id = chosen.id AND lock_available FOR UPDATE.  A row that
\* no longer matches is not waited for and returns None.
LockPick(j) ==
  LET g == pick[j] IN
  /\ pc[j] = "lock"
  /\ \/ /\ LockAvailable(g, now[j])
        /\ RowFree(g, j)
        /\ rowLock' = [rowLock EXCEPT ![g] = j]
        /\ Goto(j, Verdict(g))
        /\ UNCHANGED pick
     \/ /\ ~LockAvailable(g, now[j])
        /\ pick' = [pick EXCEPT ![j] = None]
        /\ Goto(j, "park")
        /\ UNCHANGED rowLock
  /\ UNCHANGED <<clock, gpuVars, connVars, writer, want, now, jobGpu, moves>>

\* The row locks of j's transaction end with it.
Release(j) ==
  rowLock' = [g \in Gpu |-> IF rowLock[g] = j THEN None ELSE rowLock[g]]

\* db.commit() of a job that was matched to a connected GPU.
CommitDispatch(j) ==
  LET g == pick[j] IN
  /\ pc[j] = "dispatch"
  /\ lockedBy' = [lockedBy EXCEPT ![g] = j]
  /\ lockedUntil' = [lockedUntil EXCEPT ![g] = now[j] + LockTime]
  /\ status' = [status EXCEPT ![g] = "busy"]
  /\ jobGpu' = [jobGpu EXCEPT ![j] = g]
  /\ Release(j)
  /\ Goto(j, "send")
  /\ UNCHANGED <<clock, connVars, writer, want, now, pick, moves>>

\* db.commit() of a job that stays pending: a GPU that was locked but is not
\* connected keeps its lock columns.
CommitPending(j) ==
  LET g == pick[j] IN
  /\ pc[j] = "park"
  /\ \/ /\ g # None
        /\ lockedBy' = [lockedBy EXCEPT ![g] = j]
        /\ lockedUntil' = [lockedUntil EXCEPT ![g] = now[j] + LockTime]
     \/ /\ g = None
        /\ UNCHANGED <<lockedBy, lockedUntil>>
  /\ Release(j)
  /\ Goto(j, "done")
  /\ UNCHANGED <<clock, status, connVars, writer, want, now, pick, jobGpu, moves>>

\* manager.send_to_gpu: silently nothing when the socket is gone.
Send(j) ==
  LET g == pick[j] IN
  /\ pc[j] = "send"
  /\ Goto(j, IF g \in connected THEN "done" ELSE "lost")
  /\ UNCHANGED <<clock, gpuVars, rowLock, connVars, writer, want, now, pick, jobGpu, moves>>

\* j waits for a row that k's transaction holds.
WaitsFor(j, k) ==
  /\ j # k
  /\ \/ pc[j] = "want" /\ rowLock[want[j]] = k
     \/ pc[j] = "lock" /\ LockAvailable(pick[j], now[j]) /\ rowLock[pick[j]] = k

\* j is on a cycle of the wait-for graph (each waits for at most one row, so a
\* finite set in which everybody waits and is waited for is made of cycles).
Deadlocked(j) ==
  \E S \in SUBSET {s \in Job : pc[s] \in Waiting} :
    /\ j \in S
    /\ \A k \in S : \E l \in S : WaitsFor(k, l)
    /\ \A k \in S : \E l \in S : WaitsFor(l, k)

\* Variation: get_db does not roll back, and the victim keeps its rows.
AbortOpen(j) ==
  /\ Deadlocked(j)
  /\ Goto(j, "aborted")
  /\ UNCHANGED <<clock, gpuVars, rowLock, connVars, writer, want, now, pick, jobGpu, moves>>

\* PostgreSQL's deadlock detector aborts one transaction of the cycle; get_db
\* rolls back and the client gets a 500.
Abort(j) ==
  /\ Deadlocked(j)
  /\ pick' = [pick EXCEPT ![j] = None]
  /\ Release(j)
  /\ Goto(j, "aborted")
  /\ UNCHANGED <<clock, gpuVars, connVars, writer, want, now, jobGpu, moves>>

-----------------------------------------------------------------------------
(* The other writers of the row, and time.                                 *)

\* A handler loads the row, then assigns s to gpu.status: the ORM emits an
\* UPDATE only if s differs from what was loaded.
LoadAndSet(g, s) ==
  /\ moves < MaxMoves
  /\ moves' = moves + 1
  /\ writer[g] = None
  /\ writer' = [writer EXCEPT ![g] = IF status[g] = s THEN None ELSE s]
  /\ UNCHANGED <<clock, gpuVars, rowLock, subVars, jobGpu>>

\* The UPDATE waits for the row lock and commits.
WriteStatus(g) ==
  /\ writer[g] # None
  /\ rowLock[g] = None
  /\ status' = [status EXCEPT ![g] = writer[g]]
  /\ writer' = [writer EXCEPT ![g] = None]
  /\ UNCHANGED <<clock, lockedBy, lockedUntil, rowLock, connVars, subVars, jobGpu, moves>>

\* agent_websocket: manager.connect, then online.
AgentConnects(g) ==
  /\ g \notin connected
  /\ connected' = connected \cup {g}
  /\ LoadAndSet(g, "online")
  /\ UNCHANGED dockerDown

\* WebSocketDisconnect: manager.disconnect (which also drops the docker
\* status), then offline.
AgentDisconnects(g) ==
  /\ g \in connected
  /\ connected' = connected \ {g}
  /\ dockerDown' = dockerDown \ {g}
  /\ LoadAndSet(g, "offline")

\* Any handler that only assigns the status: a job that ended or was
\* cancelled (online), PATCH /gpus/{id}/status (any), the heartbeat checker
\* (offline).
StatusAssigned(g, s) ==
  /\ LoadAndSet(g, s)
  /\ UNCHANGED connVars

\* metrics messages carry docker_running.
ReportDocker(g, up) ==
  /\ g \in connected
  /\ moves < MaxMoves
  /\ moves' = moves + 1
  /\ dockerDown' = IF up THEN dockerDown \ {g} ELSE dockerDown \cup {g}
  /\ UNCHANGED <<clock, gpuVars, rowLock, connected, writer, subVars, jobGpu>>

Tick ==
  /\ clock < MaxTime
  /\ clock' = clock + 1
  /\ UNCHANGED <<gpuVars, rowLock, connVars, writer, subVars, jobGpu, moves>>

-----------------------------------------------------------------------------
SubmissionStep(j) ==
  \/ TakeWanted(j) \/ Query(j) \/ LockPick(j)
  \/ CommitDispatch(j) \/ CommitPending(j) \/ Send(j) \/ Abort(j)

Environment ==
  \/ \E g \in Gpu : WriteStatus(g) \/ AgentConnects(g) \/ AgentDisconnects(g)
  \/ \E g \in Gpu, s \in Status : StatusAssigned(g, s)
  \/ \E g \in Gpu, up \in BOOLEAN : ReportDocker(g, up)
  \/ Tick

Next ==
  \/ \E j \in Job, w \in Gpu \cup {None} : Submit(j, w)
  \/ \E j \in Job : SubmissionStep(j)
  \/ Environment

Spec == Init /\ [][Next]_vars

\* Every accepted request is carried on by the event loop and the database,
\* which also runs the deadlock detector.
Fairness == \A j \in Job : WF_vars(SubmissionStep(j))
FairSpec == Spec /\ Fairness

-----------------------------------------------------------------------------
(* Properties.                                                             *)

\* The submission obtained the GPU lock and committed it.
Granted(j) == pc[j] \in {"send", "done", "lost"} /\ pick[j] # None

\* The lock works: two jobs that were granted the same GPU were granted it at
\* least LockTime apart (find_available_gpu_and_lock: "only one job can
\* acquire a GPU at a time"), whatever the interleaving of their queries.
GrantsSpaced ==
  \A j, k \in Job :
    /\ j # k /\ Granted(j) /\ Granted(k) /\ pick[j] = pick[k]
    => now[j] + LockTime <= now[k] \/ now[k] + LockTime <= now[j]

\* A submission that has decided for a GPU holds its row and an unexpired
\* right to it until it commits: nobody can invalidate what it read.
DecisionProtected ==
  \A j \in Job :
    pc[j] \in Holding /\ pick[j] # None
      => rowLock[pick[j]] = j /\ LockAvailable(pick[j], now[j])

\* Auto-matched submissions hold no row while they wait for one, so only a
\* request that names a GPU can be the victim of a database deadlock.
DeadlockNeedsNamedGpu == \A j \in Job : Deadlocked(j) => want[j] # None

\* Two grants of one GPU are never undone in the lock columns: the columns
\* always show the latest grant.
LatestGrantShown ==
  \A j \in Job : Granted(j) => /\ lockedUntil[pick[j]] # None
                               /\ now[j] + LockTime <= lockedUntil[pick[j]]

\* The protocol of queries, row locks and columns implements the abstract
\* lease: every commit is a lease given when the previous one had run out.
Lease == INSTANCE GpuLease WITH holder <- lockedBy, until <- lockedUntil
ImplementsLease == Lease!Spec

\* Every accepted submission is answered: 201, or 500 to the victim of a deadlock
\* between requests for named GPUs, whose rows the others then get.
Answered == \A j \in Job : pc[j] # "idle" ~> pc[j] \in Ended
=============================================================================
