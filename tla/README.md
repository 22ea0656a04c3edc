# UniGPU in TLA+

UniGPU lets clients run containers on GPUs that providers offer. A FastAPI
backend keeps users, wallets, GPUs and jobs in PostgreSQL, some limits in Redis
and files in an object store or on disk; a Celery worker sweeps over the tables
every minute; an agent on every provider's machine holds one WebSocket to the
backend and runs the containers; a React frontend drives the HTTP API and
listens on a WebSocket of its own. This directory holds the TLA+ modules that
model the coordination of these parts, the TLC configurations that check them on
small instances, and proofs, checked by TLAPS, of their safety properties.

Paths below are relative to `src/`.

## Inventory

| Component | State | Operations | What is hard about it |
|---|---|---|---|
| GPU matching and lock (`backend/app/services/matching.py`, `routers/jobs.py`) | `gpus.status`, `locked_by_job_id`, `locked_until`, `docker_available`; the row locks of open transactions | submit, rerun: take a named GPU FOR UPDATE or query candidates, re-fetch one FOR UPDATE, lock, commit, send | candidates are read unlocked and locked later; `now` is older than the row it is compared with; two locking orders |
| Billing and wallets (`services/billing.py`, `routers/wallet.py`, `routers/admin.py`) | `wallets.balance`, `transactions`, `system_settings.overdraft_limit` | charge_client, topup, credit check of a submission, change of the limit | read, compute, write an absolute value; several awaits in between; two rows per charge |
| Job lifecycle (`routers/jobs.py`, `models/job.py`) | `jobs.status`, `gpu_id`, `started_at` | submit, rerun, cancel, job_status report | handlers that do not look at the status they overwrite; messages sent before or after the commit |
| Agent sessions (`routers/ws.py`, `services/connection_manager.py`) | registered socket per GPU, GPU to provider, dashboards per provider, counts of active connections, message timestamps | connect, heartbeat, relay, job_status, disconnect | dictionaries shared by all handlers of an event loop; clean-up after one exception class only; late database writes of ended sessions |
| Celery worker (`worker/tasks.py`) | none of its own | check_heartbeats, cleanup_stale_job_files, process_job (never enqueued) | another process: reads, then writes what it read about |
| GPU registry (`routers/gpus.py`) | `gpus` rows | register, list, change of status with a stop message | status set by hand against status derived from sessions |
| Agent: messages and client (`agent/src/agent.py`, `agent/src/core/ws_client.py`) | `_current_job_id`, `_connected`, `_running`, socket | listener, heartbeats, assign, cancel, stop, send_job_status with retries, reconnection, token refresh | the listener runs a whole job inside one handler; everything else of the inbox waits |
| Agent: execution (`agent/src/core/executor.py`, `log_streamer.py`, `uploader.py`) | container, log queue, task of the stream | look for the container, wait with a timeout, remove, read and stream the log, report, upload | four activities at once; a timeout against the container's own end; a sentinel and a cancellation that both end the stream |
| Job files (`routers/jobs.py`, `services/storage.py`) | files of a job, paths in `jobs` | upload, copy for a rerun, artifacts, clean-up | files and rows are not in one transaction |
| Limits (`security_utils.py`, `redis_rate_limiter.py`) | counters per user, in memory or in Redis | check, record | check and record are separate calls with the work between them |
| Accounts (`routers/auth.py`, `routers/users.py`, `models/user.py`) | hashes of verification and reset links, 2FA secret and flag, profile fields | register, verify, resend, forgot, reset, sign in, 2FA set-up, enable, disable, update_me | a mail is out before its row is committed; multi-request protocols over rows that are checked as they were read |
| Administration (`routers/admin.py`) | `users.is_active`, the settings row, releases | lists, toggle, settings, upload of a release | one row shared by two kinds of request; a file stored before its row |
| Frontend: session (`frontend/src/api/client.js`, `context/AuthContext.jsx`, `App.jsx`, `pages/Login.jsx`) | `localStorage` of the browser, React state of each tab | sign in, sign out, getMe, 401 and disabled-account handling, guards of routes | requests act for the stored token, pages show their own state |
| Frontend: client (`pages/ClientDashboard.jsx`, `context/WorkloadContext.jsx`, `components/client-dashboard`) | workload being composed, list of workloads, drawers, viewers | upload, edit, templates, submit, poll, view logs, cancel, re-run | answers out of order, state that outlives the page, lost answers |
| Frontend: provider (`pages/ProviderDashboard.jsx`, `components/provider-dashboard`) | lists, metrics, socket | load, switch a GPU, hear messages | loads only on messages, and some changes send none |
| Frontend: account and administration (`pages/Register.jsx`, `VerifyEmail.jsx`, `ForgotPassword.jsx`, `ResetPassword.jsx`, `Settings.jsx`, `Profile.jsx`, `AdminDashboard.jsx`, `hooks/useLocationData.js`) | forms, answers | one request or more per button | effects that run twice, buttons that are not disabled, copies of the user that are stale or incomplete |

How they interact: the HTTP handlers and the WebSocket handlers of the backend
run on one event loop (the Dockerfile starts one worker) and share
`ConnectionManager` and the in-memory limits; they and the Celery worker share
the tables, each in its own transaction; backend and agent exchange messages
over one TCP connection per GPU (assign_job, cancel_job and stop one way;
heartbeat, metrics, logs and job_status the other); job_status messages carry
the billing; dashboards receive what `send_to_provider` relays; the client's
dashboard polls.

What each part has to get right, in one sentence: a GPU is granted to one
submission at a time; money is neither made nor lost and no client sinks below
the overdraft limit; a job is charged once and for work that was done; the
tables say of a GPU what its session and its jobs say; a lost agent can come
back; no recent row points to a file that is gone; limits are exceeded only by
what overlaps; a link in a mail works once; nobody is locked out by 2FA; a page
acts for the user it shows, and shows and sends what is there.

## Modules

Backend, worker and agent:

- `GpuLock` (with the abstract `GpuLease`, proofs in `GpuLockProofs`): a
  submission from the requested GPU to the sent assignment, one action per await
  of the database: `Submit`, `TakeWanted` (the named GPU FOR UPDATE), `Query`
  (the two candidate queries of `find_available_gpu_and_lock`), `LockPick` (the
  re-fetch FOR UPDATE and the verdict), `CommitDispatch`/`CommitPending`, `Send`.
  Around it are the other writers of the row: an agent's connection and
  disconnection, its Docker report, the provider's status change (each loads a
  status and writes it later), the clock, and PostgreSQL's deadlock detector
  (`Abort`). Memory, VRAM and region only choose among candidates and are
  abstracted to sets of candidates. `GpuLease` is what the lock promises: a GPU is
  granted, and not granted again before the grant has expired; it has one action,
  and `ImplementsLease` maps a committed decision to it.
- `Wallet` (proofs in `WalletProofs`): charges, top-ups, launches and the admin's
  setting as transactions that read balances, flush updates (which take the row
  locks) and commit. `balance` is the column, `posted` the sum of the
  transactions table, `overwritten` a history variable: the wallets in which some
  commit replaced a value it had not read.
- `Dispatch` (proofs in `DispatchProofs`): backend, worker, network and agent over
  the life of a job. `Faults` names the kinds of fault an instance admits (cancel,
  broken connection, agent crash, backend restart, status set by hand, rate limit,
  stale heartbeat, overdue job), `MaxMishaps` bounds their number. Transactions
  that keep nothing across an await of the network are single actions;
  `cancel_job` (message, then commit), dispatch (commit, then message), the
  disconnection (unregister, then offline) and the sweep (read, then commit) are
  two. The agent's `phase` is what its listener does; `stuck` is the wait inside
  `send_job_status` for a reconnection. Channels are sequences that a break cuts
  to a prefix. `JobLife` is the abstract life of a job, without sessions, channels
  and agents: a job is submitted, of its one execution the start and the end may be
  heard, in this order and each once, or lost, only the end of a started one charges,
  and clients and the sweep overrule what is shown. `ImplementsJobLife` gives it the
  columns of the table and, for the reports still to come, a count of where in
  request, channels and agent they may be (`ToCome`).
- `Sessions` (proofs in `SessionsProofs`) zooms into the event loop: the sessions
  of one agent and its provider's dashboards, await by await. `Check` and `Admit`
  are on both sides of the SELECT; `LoadGpu` and `MarkOnline`/`MarkOffline` are
  the ORM's load and its write of a status only where it differs; `BeginRelay`,
  `EndRelay` and `RelayRaises` are `send_to_provider` iterating over a live set.
- `JobFiles` (proofs in `JobsProofs`): the files of jobs beside their rows:
  `Submit`/`SaveFile`, `Rerun` with a copy of every file in two steps (`CopyBytes`,
  then `CopyFile`, with which the request knows its path), `CopyFails` at either, and
  `Undo`, `CommitRow`, the two steps of an artifact upload, and the worker's
  clean-up, which reads, deletes one file at a time and tries to commit. `oci` says
  which storage is configured; `accident` is a history variable: the jobs for which a
  storage or database call failed.
- `Execution` (proofs in `DashboardsProofs`): the inside of one handler of assign_job, which `Dispatch` takes as
  one `phase`: the handler's looks for the container (`Poll`, `PollFails`), the
  executor's thread (`Download`, `StartContainer`, `WaitReturns` or `WaitRaises`,
  `RemoveContainer`), where the one call that creates and starts a container may fail
  before it, between the two, or after the program has started; the reader thread, whose lines and sentinel go through a queue,
  and the streaming task (`TakeBatch`, `Flush`, `Wake`), which the handler cancels
  (`CancelStream`: it drains the queue into a last message). Docker and the program
  are external. `told` is what the backend gets; `unminded` and `holed` are history
  variables: the jobs whose container the agent gave up on, and those of which a
  message was lost with the connection.
- `Quotas` (proofs in `DashboardsProofs`): the hourly and the daily limit of a client's submissions and re-runs
  as check, work and count, with midnights and restarts. The later definitions in
  `security_utils.py` shadow the Redis ones, so the counters are a dictionary of
  one process.

Accounts and administration, each with the page that calls it (proofs of all of
them in `AccountPagesProofs`):

- `EmailLinks`: verification and reset links: `WriteLink`, `SendMail` and
  `CommitLink` are the three awaits of a handler that mails; effects of
  `VerifyEmail.jsx` that run twice; links opened again; expiry; requests that fail
  after their mail is out (`FailsAfterMail`: its reply lost, the count of requests or
  the commit failing, the end of the process).
- `TwoFactor`: set-up, enable and disable from
  several devices; `Checks` is the handler's look at the row it loaded, `Commits`
  its write; the panel follows the answers, not the account.
- `Places`, `Profile`: the pickers of country and city, whose answers arrive in any
  order, and the profile's two forms over AuthContext's copy of the user.
- `AdminUsers`, `AdminOverview`, `AdminSettings`: the toggle and the details of a
  user; the platform joined from the answers of four
  requests, whose queries are apart; the settings row that the overdraft
  limit and the agent's release share.

Frontend:

- `Tabs` (proofs in `TabsProofs`): the stored session of a browser and the shown
  one of each tab, with sign-ins by password, code and Google, the 401 of a wrong
  password, a late code or a refused Google token, expiry, disabled accounts, and
  the calls whose answers change either: getMe, data, and the saves, after which
  `updateUser` shows the user of the rendering they were made in. A page is `polling`
  (a client's dashboard and wallet, with their intervals) or `quiet`.
- `Workspace` (proofs in `DashboardsProofs`): composing a workload: FileReaders, templates that arrive file by
  file, edits, resets, departures, and submissions whose answer may be lost.
- `Workloads` (proofs in `JobsProofs`): the list of workloads over a server whose status any report
  overwrites: crossing lists, notices, the one log viewer, cancels and re-runs.
- `ProviderView` (proofs in `DashboardsProofs`): the provider's page of one GPU over the messages that
  `agent_websocket` relays to it.

`MCJobs`, `MCDashboards` and `MCAccountPages` each put several of
these parts into one run. They are not compositions: the parts share no variable
(what joins them is in the modules that model both ends, such as `Dispatch` or
`ProviderView`), and a behaviour is one of the part it starts with. So a property
of such a run is about one part, and a conjunction of two (`ListIsTrue`,
`LinksDoAsTheySay`, `FormsSendWhatIsMeant`, `AdministratorReadsTrue`) about one part
or two; their conjuncts have names and comments of their own. `PageCatchesUp` is
`ServerIsShown` on the side that has it. The other `MC` modules give the constants
values.

The variables that properties condition on (`overwritten`, `happened`, `accident`,
`causes`, `crossed`, `raced`, ...) are history variables: no guard of a modelled
operation reads them. Each records one of the circumstances, found while modelling,
in which the code breaks what it otherwise keeps; the property says that there is
no other.

Operators introduced by the comment "Variation" are altered forms of the
definition below them, used to see that each property can tell the code from a
plausible mistake; no specification uses them.

## Runs

| Run | Instance | Shows |
|---|---|---|
| `gpu_lock` | 3 submissions, 2 GPUs, a lock of one tick, a clock up to 1, one move of the other writers | `GrantsSpaced`, `DecisionProtected`, `ImplementsLease`: the lock is exclusive and implements the lease; `DeadlockNeedsNamedGpu` |
| `lock_live` | 3 submissions, 2 GPUs that are online, statuses assigned under them, clock up to 1 | `Answered`: every accepted submission is answered, by a 500 where PostgreSQL breaks a deadlock |
| `wallet` | 2 users, 3 charges (two of one client, one the other way), a top-up, a launch, two limits | `AboveFloor`; `LedgerExact`: losses only by overwritten rows; `Settles`: charges that wait or deadlock come to an end |
| `dispatch` | 2 jobs, 1 GPU, all faults but the crash, one counted mishap | `BilledForWork`: single charge and only for work; `ChargedNeverRuns`; `GpuTableTrue`: what may leave a GPU shown wrongly, busy without a job or with two; `ImplementsJobLife`: every step is one of the abstract life of a job |
| `dispatch_live` | 2 jobs, 2 GPUs, one break, crash or restart | `MatchedJobEnds`, `IdleAgentReturns` |
| `dispatch_charge` (violated) | 1 job, a cancel | `NotStartedNotCharged`: a job cancelled before it started runs and is charged |
| `sessions` | 2 agent connections, 3 dashboards, caps 1 and 2, handlers may raise | `ManagerTrue`: the registered session, the dashboards and the caps; `OfflineAtRest`; `PlacesGivenBack` |
| `jobs` | `JobFiles`: 2 jobs, the second a submission or a rerun of the first, both storages, calls may fail; `Workloads`: a new job and an old one, 2 loads under way, 2 moves of the person, one fault | `RowsMatchFiles`: paths of recent jobs lead to files, orphans have a cause; `RerunIsWhole`; `StaleFilesGo`; `ListIsTrue` (`NoticedOnce`, `LogsAreTheViewers`): a job's end is noticed once, the viewer shows its own job's log; `PageCatchesUp` |
| `files_again` (violated) | 1 job | `NotProcessedAgain`: the clean-up goes through the same job again |
| `tabs` | 2 tabs, a client with 2FA and a provider, two sign-ins, saves, one failing call | `ActsAsShown`: a tab shows another account than it acts for only behind another sign-in; `GoodSessionKept`: what may end a session; `EndsReachThePage` (`SignOutSpreads`, `DisabledIsTold`): on pages that keep asking |
| `dashboards` | `Workspace`: 2 own files, 2 templates, 2 submissions, 4 moves; `Quotas`: 3 requests, limits of one job and two bytes, one midnight; `ProviderView`: 4 changes, 2 loads under way, one fault; `Execution`: 2 jobs, 2 lines each, one look for the container, one mishap | `PartsBelongTogether`, `TwiceHasACause`; `QuotasHold`: limits are exceeded only by requests that overlap or run over midnight, by re-runs of unknown size and after restarts; `PageFollowsTheServer`; `StoryIsTold`: lines in order, none twice, none missing, then the true end; `ProgramsAreMinded`: no program outlives its handler |
| `pages` | two requests, devices, accounts, GPUs or windows on each page | `LinksDoAsTheySay` (`MailedLinksWork`, `FailureIsReal`), `ConfirmedSecret`, `PanelIsTrue`, `FormsSendWhatIsMeant` (`PlaceIsReal`, `SaveKeepsTheRest`), `AdministratorReadsTrue` (`OverviewAgrees`, `AboutTheUserNamed`), `SettingsKept` |

The type invariants of all modules are proved; those of the modules that share a
run (`JobsTypeOK`, `DashboardsTypeOK`, `PagesTypeOK`) are also checked there.

Bounds. Two GPUs and three submissions give a submission whose candidate is taken
while it waits for another, and a deadlock: two that each hold a named GPU they
found unusable and wait for the other's, after a third has locked one of them.
With two submissions, or without the tick in which that lock expires, `Abort` is
never enabled. The clock is long enough for a lock to expire and be granted again.
`lock_live` has the same three, since it is about these deadlocks too: if the victim
kept its rows (`AbortOpen`), the other would wait for ever. Symmetry is not sound
for liveness; instead, submissions are named in the order of what they want and
then of their coming (`NamedInOrder`), so that one behaviour stands for its
renamings. There the GPUs are online from the start and, of the other writers, only
those that assign a status move: a connection decides between two branches of a
commit that give the locks back alike. In `Wallet` two
charges of one client race for one row, the third pays the opposite way (the only
shape of deadlock), the top-up races with either. In `Dispatch` two jobs give
every GPU a next job; one counted mishap is enough for each of the properties,
which are conditional on what happened (`happened`); cancels, stale heartbeats and
overdue jobs are not counted. In `Sessions` two connections overlap and succeed
each other, three dashboards fill a cap of two and leave one to be refused. In
`JobFiles` the second job copies the first while the clean-up deletes it. On the
pages two requests are what is needed for answers that cross and for a check that
is stale at its commit; `AdminUsers` has three, so that a list crosses a toggle of
either user. Three requests exceed a limit of one with and without overlap. In
`Execution` the second job runs beside what the first left behind, two lines can
be split over two messages and a cancellation, and one look for the container
gives the job that is found and the job that is not. Every bound on the person's
moves, the faults and the loads under way is a constant named in its module; with
the chosen values every disjunct of every next-state relation is taken and every
property is violated by its altered definition. `SYMMETRY` is used where no
liveness is checked (`ImplementsLease` and `ImplementsJobLife` state abstract
specifications without fairness).

`CHECK_DEADLOCK FALSE` in every run: requests, jobs and moves are finite, and a
system that has answered them all stops.

Fairness. Handlers that have begun are resumed by the event loop, the database
grants a row lock that is free and breaks cycles, bytes on a connection that
holds are delivered, a container ends (the executor kills it after
`max_job_timeout`), Celery beat runs, a call of the browser is answered or fails,
and the interval of 15 seconds of a client's mounted dashboard or wallet fires; no
page without an interval is assumed to ask again. All of it is weak fairness of the steps of
one request, handler or task. Nothing is assumed of clients, providers, failures,
restarts, the return of a crashed agent (`AgentStart`) or the clock of the lock.

## Proofs

Every invariant, every action property and both refinements that a passing run
checks are theorems. They hold for every value of the constants that the named
assumptions admit: bounds are numbers, `None` and its like are none of the values
they stand beside (`NoneAssumption`, `NoneIsNoJob`, `NothingAssumption`,
`NoCallIsNone`, `NobodyIsNone`, `NoRequestIsNone`, `NothingIsNone`), amounts are
positive and no wallet starts below the floor, at least one connection of an agent is
admitted, and connections and dashboards, which are counted, are finitely many. No
assumption limits the number of jobs, GPUs, users, tabs, requests, messages or
faults. Each proof goes by an inductive invariant made of named parts, the type
invariant among them.

*GpuLock.* The inductive invariant `IInv` of `GpuLockProofs` says who holds a
row lock (`rowLock[g] = j` exactly where j's program counter is between its
FOR UPDATE and its commit), that what a submission decided rests on a lock
column it saw under that row lock, that its `now` is not later than the clock,
and that the columns cover the latest grant. `GrantsSpaced` alone is not
inductive: a step that commits a decision needs to know that the decision was
taken under the row lock and that no other commit came in between.
`Refinement` shows each step to be a `Grant` of `GpuLease` or a stutter.
`DeadlockTakesNamedGpu` needs only that an auto-matched submission holds no row
when it asks for one.

*Wallet.* `InFlight` states what a transaction between two awaits knows: its
debit has passed the overdraft check with some limit, a balance it carries is
not below the floor, a row it has flushed is locked by it. From it follow
`FloorHolds` (lost updates included: every value written was checked, whatever
it overwrote), `LedgerIsExact` and `DeadlockTakesMutualPayment`.

*Dispatch.* The backend applies any report to any job, so that a charge is single
and deserved rests on what can be under way. `JobInv` follows the one thing that
can still come of a job through the places it can be in: the request that will
send it (`NotYetSent`, `DispatchedIsSubmitted`), a single assign_job on its own
GPU's channel (`AssignedOnce`), the agent's current job (`HeldInHandler`,
`HeldIsUnfinished`), and reports of which the one of the end is the last and
follows the container's end (`ReportsInOrder`); the charge comes when nothing is
left. Most steps, faults among them, only lose messages, requests or current jobs:
`LosingKeeps` shows once that this keeps the invariant, with what is left of a
channel given by how far it has shifted, and each such step is an instance of it.
Four kinds of step bring something new (`SubmitKeeps`, `SendKeeps`, `HandleKeeps`,
`StatusKeeps`) and one charges (`ReportKeeps`). `BilledOnceForWork`, `OwnGpu` and
`ChargedNeverRunsAgain` follow. `BilledForWork` by itself is not inductive: nothing in
it forbids a second report of an end that is already in the channel.

`TableIsTrue` adds `GpuInv`, in which the sweep's and the cancels' stale reads are
tied to the jobs they were about: what a sweep will fail is of a GPU it will take
offline, or overdue (`SweepOfItsGpus`), and a cancel that found its job waiting never
meets it assigned (`CancelOfWaiting`). While only messages are dropped and heartbeats
or jobs found old (`Calm`), no handler ends and agents are sent nothing but
assignments (`CalmSessions`), so that the places a job can be in (`InWork`) are filled
by one job of each GPU, and by none of a GPU that is offered (`OneInWork`).

`LifeIsAsPromised`: every step is one of `JobLife`'s. Most steps bring no report
within reach that was not (`Fewer`): for the losing ones this is shown once
(`LosingLeaves`), for a sent assignment, a handled message and a report being made
each by itself. A report that is heard takes the last of what is to come of its job
if it is that of the end, and, if it is that of the start, leaves at most the end
(`HearLeaves`). This rests on `JobInv` and on two further facts: the start is
announced once and before the end (`AnnouncedOnce`), and what is being cancelled or
swept was submitted (`CancelOfSubmitted`, `SweepOfItsGpus`). A job without a GPU has
nothing to come (`SubmitLives`, from `NotYetSent`).

*Sessions.* `SessionIsRegistered` goes by "one counted session at most while
none overlapped"; `RestsOffline` by `Owed`: a GPU shown online has a handler
that will still write offline, or one about to load; the dashboards' cap and
`RefusalsHaveACause` by exact counts (`CountExact`, `DashCountExact`), with the
cardinality lemmas of FiniteSetTheorems.

*JobFiles.* `FilesArePresent` needs to know that a row exists exactly when its
request is done, that a running clean-up holds stale jobs only, and that an
upload between its two steps has stored its file; `RerunsAreWhole` that the
inputs of a row never change; `OrphansAreCaused` that a rerun without a failed
call knows every file it stored but one, the next in order (`CopyKnown`, `OneIsDue`):
so what an undo without a path leaves is the script, and its original's is gone
(`LeftByTheCleanup`). `RowsAndFilesMatch` is the first and the last.

*Workloads.* Answers cross, but not the server's time: what one list says of a
workload is so of every list read later (`Later`), the queue of answers is in the
order of the reads, and the list that was kept is before all that no later one has
overtaken (`InOrder`). So a workload that is announced as ended has ended in the list
kept (`NoticesFit`), and is announced once unless the server revived it or lists
crossed. The logs under way belong to the open viewer (`ViewerFits`).

*Tabs.* A tab's getMe or save may be on its way when the token is replaced, and its
answer then shows the old account; so the invariant of `TabsActAsShown` speaks of the
call (`OwnCall`: whom its answer will show) as well as of the account shown.
`GoodSessionsLast` is about single steps (`GoodSessionEnds`): a good session leaves
the store by a sign-out, a sign-in that is answered 401, or a refused request under
another token, in whatever tab.

*TwoFactor.* `NobodyIsLockedOut`: a request between its check and its commit knows
what it checked (`CallsAreChecked`), and the code it was accepted for is that of the
secret it read; if the row is still that, the commit keeps 2FA usable.
`PanelTellsTheTruth`: on a device on which only its own panel's calls changed the
account, every call fits the panel and the row (`CallFits`), at most one waits with a
change made (`OneAtATime`), and a panel without such a call is true (`Keeps`); that
secrets are new (`SecretsAreNew`) keeps the code of one set-up from enabling another.

*EmailLinks.* `LinksKeepTheirWord`: a mailed link is in the row, or the
request that mailed it is about to write it there (`ResetLinks`, `VerifyLinks`); this needs
the order in which links are made and mailed (`LinksInOrder`) and that nothing is
mailed for an account that is not there (`NoAccountYet`). That a failure shown is one
goes by the single request that posts a link (`Posts`).

*Places, Profile.* The list of cities is the chosen country's unless it is loading or
answers crossed (`CitiesOfTheCountry`). A save keeps what was not edited since the
form was filled from the session's copy (`FormsAreFilled`), the copy is the row but
for what another form's save has yet to bring back (`CopyIsTheRow`), and a request
carries what the form held (`SavesHold`).

*AdminUsers, AdminOverview, AdminSettings.* Without a cause of doubt one toggle or
refreshed list of a user is under way, and it is `Honest`: its label is what the row
said. Answers whose queries no change came between are of one platform (`OneMoment`), which
is quantified over, since the present platform may have moved on after the last. A
save or a release that was alone still reads what it will overwrite (`SavesApart`,
`ReleasesApart`).

*Workspace.* A slot's text is its file's, typed, or still being read (`TextComes`); one
template is loading into a workspace without parts of another (`OneTemplate`); and the
submission whose job is not confirmed is the one that disables the button
(`OneSubmission`).

*Quotas.* Of two requests under way one knows of the other's check (`ChecksFit`), so a
request that was alone when it checked still has its place in the hour (`HourFits`) and
room for its bytes in the day (`DayFits`). Counting the hour uses the cardinality
lemmas of FiniteSetTheorems. The bytes are a sum over a set, which the model takes from
the community modules as a CHOOSE of a recursive function: that it exists and may take
the members in any order (`SumsExist`, `WeighTakesAny`) is induction over the
cardinality. The library's induction theorems cannot be instantiated by the provers
installed, so `NaturalsWithoutAGap` derives induction for a set of numbers from the
well-foundedness of the strict subsets of a finite set; the statement is put into the
set.

*ProviderView.* A page at rest shows what the server says if something is `Coming`
whenever it does not: each change of the server is told or loaded, and the newest load
is the last in the order of the reads or the last delivered (`Fresh`, `LateFirst`).
Metrics heard of after the agent has left are followed by the word that it left
(`FeedFits`).

*Execution.* `StoriesAreTold`: lines go from the reader through the queue and the
message being sent to the backend in the order of their numbers, and none is skipped
unless a message was lost (`LinesFit`, `StreamFits`); the end is told last, and as it
was (`StoryFits`, with the result's truth in `ExecutorFits`). `NoProgramOnItsOwn`: a
container runs only under an executor that the handler awaits and that knows it, or
is among the `unminded` (`ExecutorFits`, `HandlerFits`).

*Runs with several parts.* `IInvJobs`, `IInvPages` and `IInvDashboards` put the
invariants of the parts together: a step is of one part and leaves the others as they
were.

Only model-checked: what needs fairness (`Answered`, `Settles`, `MatchedJobEnds`,
`IdleAgentReturns`, `PlacesGivenBack`, `StaleFilesGo`, `EndsReachThePage`,
`PageCatchesUp`), since ENABLED is out of reach of the prover; and the two violated
properties, which are counterexamples.

## Where code and documents disagree

The violated runs show the following; PROJECT.json quotes the lines.

- A job cancelled before it started runs and is charged: the agent learns of
  the cancel after the job (`ws_client.py:287`, `agent.py:205`), and a report is
  applied to any job.
- The clean-up sets a NOT NULL column to NULL (`worker/tasks.py:219`): it deletes
  the files, fails to commit, and finds the same jobs again the next day.

Seen in the code, modelled, and not given a run of their own, because the model
shows them at once, or they are the conditions of the properties that hold:

- A client in debt can launch a job (`routers/jobs.py:155`): the credit is read
  early and the job committed many awaits later, though
  `frontend/public/docs/client_agreement.md:143` requires a negative balance to be
  cleared "before they are permitted to launch new Jobs".
- Balance updates are lost (`services/billing.py:49`): read, compute, write. The
  condition `overwritten` of `LedgerExact` says exactly where.
- An agent whose connection breaks during a job never reconnects
  (`ws_client.py:152` waits for what only its own return brings about), though
  `ws_client.py:43` announces reconnection.
- The jobs of a dead agent stay queued or running: the disconnection makes the GPU
  offline, and the sweep looks at GPUs that are not (`worker/tasks.py:110`).
- A dashboard that comes or goes during a relay, or a message that is not JSON,
  crashes the agent's handler, and its place is lost (`connection_manager.py:55`,
  `routers/ws.py:257`); hence the exception in `PlacesGivenBack`.
- Two connections of one agent may both pass the cap of one (`routers/ws.py:97`
  to `:112`); hence the condition on overlaps in `ManagerTrue`.
- A late offline write of an ended session leaves a connected GPU offline:
  heartbeats do not bring it back, though `readme.md:155` says they keep it
  online.
- The sweep overwrites with failed a job that completed since it was read
  (`worker/tasks.py:120-129`); a job over 12 hours is failed and its GPU stays
  busy (`worker/tasks.py:146`).
- A status dropped by the rate limit (`routers/ws.py:142`) or written to a
  socket that has just died is lost, though `ws_client.py:131` says "so status
  is never lost"; the job stays running and its GPU busy.
- An error of Docker other than NotFound while the handler looks for the container
  reports the job as failed and leaves its program running beside the next job's
  (`agent.py:302`); so does an error of `containers.run` that comes after the daemon
  has started the program, such as a timeout (`executor.py:297`: `container` is still
  None, and nothing is removed); a crash of the agent leaves it running, and `start`
  looks for no container of before. These are the conditions of `ProgramsAreMinded`.
- A local copy whose source is deleted between its bytes and its times
  (`routers/jobs.py:101`, `copy2`) leaves the script of a rerun that failed, since the
  undo returns when it knows no path (`routers/jobs.py:115`): `LeftByTheCleanup` in
  `RowsMatchFiles`.
- A 401 to a sign-in deletes the session that is stored, though it is good
  (`client.js:41`): a wrong password, a code that comes after its temporary token has
  expired (`routers/auth.py:560`), a Google token that is not accepted
  (`routers/auth.py:465`, `:473`). These are the conditions of `GoodSessionKept`.
- A save that a sign-in in the same tab overtakes shows the old account over the new
  token (`AuthContext.jsx:75`: the user of an earlier rendering).
- The log of a job whose container is not there within five looks, two seconds apart,
  is never streamed (`agent.py:301`): a slow pull of an image is enough.
- A program that writes steadily makes the agent send five log messages a second
  (`core/config.py:95`), 300 a minute, where the backend drops what exceeds 100
  (`routers/ws.py:22`), reports of an end among them.
- Pending jobs are matched by nothing (`routers/jobs.py:295`), though
  `readme.md:124` describes a queue.
- With the object store configured the clean-up deletes nothing
  (`worker/tasks.py:193`): only the backend's start-up calls `init_storage`.
- The clean-up of expired locks dies at start (`main.py:102` imports a name
  `database.py` does not define); matching compares times itself and is not
  affected.
- The submission limits are a dictionary in memory although the header of
  `security_utils.py` speaks of Redis; a re-run whose file size cannot be asked for
  counts as empty, although the comment at its check says it is there to prevent
  re-runs from going round the quota; a dataset may be 2 GB while a day's uploads
  may be 100 MB.
- A sign-in's answer lacks the handles and the place (`routers/auth.py`, Token), so
  the profile opened after it shows them empty and a save clears them
  (`Profile.jsx:128`); a sign-in with Google neither asks for a 2FA code nor says
  that 2FA is on, so the panel offers its set-up.
- On a page that was opened for a GPU of the marketplace the choice Auto Select
  does not hold: an effect selects that GPU again (`ClientDashboard.jsx:61`),
  though `GpuPreference.jsx:5` calls the select fully functional.
- An overdraft limit of 0 is saved as -50 (`parseInt(...) || -50`,
  `AdminDashboard.jsx:86`).

## Not modelled

- PostgreSQL, TCP, the operating system and Celery beat, except for what the
  code relies on: row locks held to the end of a transaction, aborts of cycles,
  prefix delivery.
- Of the agent's execution: the choice of the container's runtime and options, the
  making of the archive, and file names that collide. The agent's configuration,
  hardware detection, tray and set-up wizard are file, registry and command-line
  I/O and forms.
- In `Dispatch`, handlers of the WebSocket that another exception than
  WebSocketDisconnect ends (`routers/ws.py:257`): `Sessions` has them (`RelayRaises`
  and the places they keep), and its properties say what is lost with them.
- Retries inside `send_job_status` on a connection that is up: the send is one
  step (the variation `SendJobStatusTwice` shows what a repeated write would do).
- The Redis limits of sign-ins, top-ups and GPU registrations, and the window of
  the WebSocket's rate limit, of which only the loss of a message is modelled.
- Migrations, start-up and configuration, templates of mails, the contact form and
  the public lists: run once, or without state.
- Landing, legal, download and help pages and icons; within the modelled pages,
  wording, layout, validation of fields, metrics, and drawers that show what
  another part fetched. In `ProviderDashboard.jsx` the handlers that no element
  uses are left out.

## What could follow

- The Redis limits beside `Quotas`, with the lock-out of sign-ins.
