------------------------------- MODULE Quotas -------------------------------
(***************************************************************************)
(* The two limits of one client's submissions, so many in an hour and so   *)
(* many bytes in a day (security_utils.py, as submit_job and rerun_job of  *)
(* routers/jobs.py use it).  The later definitions of that file replace    *)
(* the ones that ask Redis: the counters are in the memory of the one      *)
(* process, and a restart clears them.                                     *)
(*                                                                         *)
(* A request checks the hourly limit, reads its files, checks the daily    *)
(* one, stores the files and only then counts itself: awaits lie between,  *)
(* and several requests of the client may be between check and count.      *)
(***************************************************************************)
EXTENDS Naturals, Sequences, FiniteSets, FiniteSetsExt

CONSTANTS
  Request,  \* the requests, to submit or to run again
  Size,     \* sizes their files may have
  MaxJobs,  \* MAX_JOBS_PER_HOUR
  MaxBytes, \* MAX_UPLOAD_BYTES_PER_DAY
  MaxDays   \* bound: midnights

ASSUME QuotaAssumption ==
  Size \subseteq Nat /\ MaxJobs \in Nat /\ MaxBytes \in Nat /\ MaxDays \in Nat

VARIABLES
  step,      \* per request: "no", "checked", "saving", "counted", "refused", "failed"
  size,      \* per request: the bytes of its files
  lately,    \* last_submission_times: who counted itself, oldest first
  total,     \* total_bytes_today
  resetDay,  \* last_reset_date
  day,
  lastHour,  \* history: the submissions of the last hour, restarts or not
  today,     \* history: the submissions counted since midnight
  together,  \* history: requests that passed a check while another was under way
  across,    \* history: requests that counted on a later day than they checked
  unseen,    \* history: re-runs whose files' sizes could not be asked
  restarted  \* history: the process was restarted

quotaVars == <<step, size, lately, total, resetDay, day, lastHour, today, together,
               across, unseen, restarted>>

QuotaTypeOK ==
  /\ step \in [Request -> {"no", "checked", "saving", "counted", "refused", "failed"}]
  /\ size \in [Request -> Size \cup {0}]
  /\ lately \in Seq(Request) /\ total \in Nat
  /\ resetDay \in 0..MaxDays /\ day \in 0..MaxDays
  /\ lastHour \in Seq(Request) /\ today \subseteq Request
  /\ together \subseteq Request /\ across \subseteq Request /\ unseen \subseteq Request
  /\ restarted \in BOOLEAN

\* defaultdict: nothing counted, today.
QuotaInit ==
  /\ step = [s \in Request |-> "no"] /\ size = [s \in Request |-> 0]
  /\ lately = <<>> /\ total = 0 /\ resetDay = 0 /\ day = 0
  /\ lastHour = <<>> /\ today = {} /\ together = {} /\ across = {}
  /\ unseen = {}
  /\ restarted = FALSE

UnderWay == {s \in Request : step[s] \in {"checked", "saving"}}

\* s passes a check: with others under way it may not be the only one.
Passes(s, to) ==
  /\ step' = [step EXCEPT ![s] = to]
  /\ together' = IF UnderWay \subseteq {s} THEN together ELSE together \cup {s}

Refuses(s) == step' = [step EXCEPT ![s] = "refused"] /\ UNCHANGED together

\* Variation: > for >=.
CheckJobsOneMore(s) ==
  /\ step[s] = "no"
  /\ IF Len(lately) > MaxJobs THEN Refuses(s) ELSE Passes(s, "checked")
  /\ UNCHANGED <<size, lately, total, resetDay, day, lastHour, today, across, unseen,
                 restarted>>

\* check_job_submission_limit
CheckJobs(s) ==
  /\ step[s] = "no"
  /\ IF Len(lately) >= MaxJobs THEN Refuses(s) ELSE Passes(s, "checked")
  /\ UNCHANGED <<size, lately, total, resetDay, day, lastHour, today, across, unseen,
                 restarted>>

\* check_upload_limit, which first starts a new day's total.  A re-run asks the
\* sizes of the files it will copy, and an answer that fails counts as nothing.
CheckUpload(s, n, told) ==
  LET before == IF resetDay # day THEN 0 ELSE total IN
  /\ step[s] = "checked"
  /\ size' = [size EXCEPT ![s] = n]
  /\ total' = before /\ resetDay' = day
  /\ unseen' = IF told = n THEN unseen ELSE unseen \cup {s}
  /\ IF before + told > MaxBytes THEN Refuses(s) ELSE Passes(s, "saving")
  /\ UNCHANGED <<lately, day, lastHour, today, across, restarted>>

\* record_job_submission, which starts no new day's total.
Count(s) ==
  /\ step[s] = "saving"
  /\ step' = [step EXCEPT ![s] = "counted"]
  /\ lately' = Append(lately, s)
  /\ total' = total + size[s]
  /\ lastHour' = Append(lastHour, s)
  /\ today' = today \cup {s}
  /\ UNCHANGED <<size, resetDay, day, together, across, unseen, restarted>>

\* Variation: the bytes that were not counted yet are given back.
FailsGivesBack(s) ==
  /\ s \in UnderWay
  /\ step' = [step EXCEPT ![s] = "failed"]
  /\ total' = total - size[s]
  /\ UNCHANGED <<size, lately, resetDay, day, lastHour, today, together, across,
                 unseen, restarted>>

\* No credits, no script, a file that cannot be read or stored.
Fails(s) ==
  /\ s \in UnderWay
  /\ step' = [step EXCEPT ![s] = "failed"]
  /\ UNCHANGED <<size, lately, total, resetDay, day, lastHour, today, together,
                 across, unseen, restarted>>

\* The oldest submission is an hour old; the check drops it from its list.
HourPasses ==
  /\ lastHour # <<>>
  /\ lastHour' = Tail(lastHour)
  /\ lately' = IF lately # <<>> /\ Head(lately) = Head(lastHour) THEN Tail(lately) ELSE lately
  /\ UNCHANGED <<step, size, total, resetDay, day, today, together, across,
                 unseen, restarted>>

Midnight ==
  /\ day < MaxDays /\ day' = day + 1
  /\ today' = {}
  /\ across' = across \cup {s \in Request : step[s] = "saving"}
  /\ UNCHANGED <<step, size, lately, total, resetDay, lastHour, together, unseen, restarted>>

QuotaRestart ==
  /\ ~restarted /\ restarted' = TRUE
  /\ lately' = <<>> /\ total' = 0 /\ resetDay' = day
  /\ step' = [s \in Request |-> IF s \in UnderWay THEN "failed" ELSE step[s]]
  /\ UNCHANGED <<size, day, lastHour, today, together, across, unseen>>

QuotaNext ==
  \/ \E s \in Request :
       \/ CheckJobs(s) \/ Count(s) \/ Fails(s)
       \/ \E n \in Size, told \in Size \cup {0} : told \in {0, n} /\ CheckUpload(s, n, told)
  \/ HourPasses \/ Midnight \/ QuotaRestart

QuotaSpec == QuotaInit /\ [][QuotaNext]_quotaVars

-----------------------------------------------------------------------------
(* Properties.                                                             *)

Bytes(S) == MapThenSumSet(LAMBDA s : size[s], S)

\* The limits of submit_job and rerun_job: only requests that passed a check
\* while another was under way exceed the hour's, one submission each; without
\* their bytes, those of requests over midnight and of re-runs whose sizes were
\* not learned, the day's are within the limit.
QuotasHold ==
  ~restarted =>
    /\ Len(lastHour) <=
         MaxJobs + Cardinality({i \in DOMAIN lastHour : lastHour[i] \in together})
    /\ Bytes(today \ (together \cup across \cup unseen)) <= MaxBytes
=============================================================================
