------------------------------ MODULE JobFiles ------------------------------
(***************************************************************************)
(* The files of a job, in the object store or in its upload directory, and *)
(* the paths to them in the jobs row: submit_job and rerun_job             *)
(* (routers/jobs.py) write the files one by one before the row exists, the *)
(* agent's artifacts come later, and the worker's clean-up                 *)
(* (worker/tasks.py cleanup_stale_job_files) deletes what is over three    *)
(* days old.  Files and rows are in no common transaction.                 *)
(*                                                                         *)
(* jobs.script_path is NOT NULL.  The clean-up sets it to None and so its  *)
(* one commit fails, after the files are gone.  With the object store the  *)
(* worker does not get that far: init_storage is called by the backend's   *)
(* start-up only, and get_storage raises in the worker's process.          *)
(***************************************************************************)
EXTENDS Naturals

CONSTANTS
  Job,        \* jobs, with the request that makes each of them
  None,
  MayFail     \* whether a storage or database call may fail

ASSUME NoneAssumption == None \notin Job
ASSUME FailAssumption == MayFail \in BOOLEAN

VARIABLES
  oci,        \* settings.oci_storage_enabled
  stored,     \* the files that exist under each job's prefix
  row,        \* the jobs row: none, active, ended, or stale (3 days later)
  path,       \* the paths the request has, then the paths of the row
  want,       \* the files the request has to store
  from,       \* the job a rerun copies
  pc,         \* where the request that makes the job stands
  artifacts,  \* where the upload of its artifacts stands
  cleaning,   \* jobs a running clean-up has read
  cleaned,    \* history: jobs that a clean-up has been through
  accident    \* history: jobs for which a storage or database call failed

reqVars == <<path, want, from, pc>>
cleanVars == <<cleaning, cleaned>>
vars == <<oci, stored, row, reqVars, artifacts, cleanVars, accident>>

Input == {"script", "requirements", "dataset"}
File  == Input \cup {"artifacts"}
Before == [script |-> {}, requirements |-> {"script"},
           dataset |-> {"script", "requirements"}]
Row   == {"none", "active", "ended", "stale"}
PC    == {"idle", "saving", "copying", "undo", "flush", "done", "failed"}

TypeOK ==
  /\ oci \in BOOLEAN
  /\ stored \in [Job -> SUBSET File]
  /\ row \in [Job -> Row]
  /\ path \in [Job -> SUBSET File]
  /\ want \in [Job -> SUBSET Input]
  /\ from \in [Job -> Job \cup {None}]
  /\ pc \in [Job -> PC]
  /\ artifacts \in [Job -> {"no", "saved", "over"}]
  /\ cleaning \subseteq Job /\ cleaned \subseteq Job /\ accident \subseteq Job

Init ==
  /\ oci \in BOOLEAN
  /\ stored = [j \in Job |-> {}]
  /\ row = [j \in Job |-> "none"]
  /\ path = [j \in Job |-> {}]
  /\ want = [j \in Job |-> {}]
  /\ from = [j \in Job |-> None]
  /\ pc = [j \in Job |-> "idle"]
  /\ artifacts = [j \in Job |-> "no"]
  /\ cleaning = {} /\ cleaned = {} /\ accident = {}

Goto(j, l) == pc' = [pc EXCEPT ![j] = l]

\* A call made for job j raises.
Fails(j) == MayFail /\ accident' = accident \cup {j}

\* The files come in a fixed order: f is the next one of j.
Due(j, f) == f \in want[j] \ path[j] /\ Before[f] \cap want[j] \subseteq path[j]

\* f is stored for j, and j's request knows.
Store(j, f, then) ==
  /\ stored' = [stored EXCEPT ![j] = @ \cup {f}]
  /\ path' = [path EXCEPT ![j] = @ \cup {f}]
  /\ Goto(j, IF want[j] \subseteq path[j] \cup {f} THEN "flush" ELSE then)

-----------------------------------------------------------------------------
(* submit_job.                                                             *)

Submit(j, S) ==
  /\ pc[j] = "idle"
  /\ "script" \in S
  /\ want' = [want EXCEPT ![j] = S]
  /\ Goto(j, "saving")
  /\ UNCHANGED <<oci, stored, row, path, from, artifacts, cleanVars, accident>>

\* _save_file
SaveFile(j, f) ==
  /\ pc[j] = "saving" /\ Due(j, f)
  /\ Store(j, f, "saving")
  /\ UNCHANGED <<oci, row, want, from, artifacts, cleanVars, accident>>

\* The exception leaves submit_job; what was saved stays, and what was saved of
\* the file that failed.
SaveFails(j, f) ==
  /\ pc[j] = "saving" /\ Due(j, f) /\ Fails(j)
  /\ \/ UNCHANGED stored
     \/ stored' = [stored EXCEPT ![j] = @ \cup {f}]
  /\ Goto(j, "failed")
  /\ UNCHANGED <<oci, row, path, want, from, artifacts, cleanVars>>

-----------------------------------------------------------------------------
(* rerun_job.                                                              *)

\* The original is loaded, its paths with it.
Rerun(j, o) ==
  /\ pc[j] = "idle" /\ row[o] # "none"
  /\ from' = [from EXCEPT ![j] = o]
  /\ want' = [want EXCEPT ![j] = path[o] \cap Input]
  /\ Goto(j, "copying")
  /\ UNCHANGED <<oci, stored, row, path, artifacts, cleanVars, accident>>

\* _copy_file: the bytes.
CopyBytes(j, f) ==
  /\ pc[j] = "copying" /\ Due(j, f) /\ f \notin stored[j]
  /\ f \in stored[from[j]]
  /\ stored' = [stored EXCEPT ![j] = @ \cup {f}]
  /\ UNCHANGED <<oci, row, reqVars, artifacts, cleanVars, accident>>

\* What follows them: shutil.copy2 reads the times of the source once more, the
\* object store is asked for the size of the copy.
CopyEnds(j, f) == oci \/ f \in stored[from[j]]

\* Variation: a file that is gone is left out.
CopyFileIfThere(j, f) ==
  /\ pc[j] = "copying" /\ Due(j, f)
  /\ \/ /\ f \in stored[j] /\ CopyEnds(j, f)
        /\ Store(j, f, "copying")
        /\ UNCHANGED want
     \/ /\ f \notin stored[from[j]] /\ f # "script"
        /\ want' = [want EXCEPT ![j] = @ \ {f}]
        /\ Goto(j, IF want[j] \ {f} = path[j] THEN "flush" ELSE "copying")
        /\ UNCHANGED <<stored, path>>
  /\ UNCHANGED <<oci, row, from, artifacts, cleanVars, accident>>

CopyFile(j, f) ==
  /\ pc[j] = "copying" /\ Due(j, f)
  /\ f \in stored[j] /\ CopyEnds(j, f)
  /\ Store(j, f, "copying")
  /\ UNCHANGED <<oci, row, want, from, artifacts, cleanVars, accident>>

\* _copy_file raises: the source is gone, before its bytes are read or when its
\* times are, or the store fails, before the copy or after it.
CopyFails(j, f) ==
  /\ pc[j] = "copying" /\ Due(j, f)
  /\ \/ /\ f \notin stored[from[j]] /\ (f \in stored[j] => ~oci)
        /\ UNCHANGED accident
     \/ Fails(j)
  /\ Goto(j, "undo")
  /\ UNCHANGED <<oci, stored, row, path, want, from, artifacts, cleanVars>>

\* What _delete_copied_files does not try to delete: in the store the keys it
\* was not given, of a directory nothing, unless it was given no path at all.
Kept(j) ==
  IF oci THEN stored[j] \ path[j] ELSE IF path[j] = {} THEN stored[j] ELSE {}

\* _delete_copied_files, then HTTP 500.
Undo(j) ==
  /\ pc[j] = "undo"
  /\ \/ /\ stored' = [stored EXCEPT ![j] = Kept(j)]
        /\ UNCHANGED accident
     \/ \E L \in SUBSET stored[j] :          \* deletions that fail are logged
          /\ Kept(j) \subseteq L /\ Fails(j)
          /\ stored' = [stored EXCEPT ![j] = L]
  /\ Goto(j, "failed")
  /\ UNCHANGED <<oci, row, path, want, from, artifacts, cleanVars>>
-----------------------------------------------------------------------------
(* The row.                                                                *)

\* flush, the match and the commit, for submissions and reruns.
CommitRow(j) ==
  /\ pc[j] = "flush"
  /\ row' = [row EXCEPT ![j] = "active"]
  /\ Goto(j, "done")
  /\ UNCHANGED <<oci, stored, path, want, from, artifacts, cleanVars, accident>>

\* Any of them raises: rolled back, and the files stay.
CommitFails(j) ==
  /\ pc[j] = "flush" /\ Fails(j)
  /\ Goto(j, "failed")
  /\ UNCHANGED <<oci, stored, row, path, want, from, artifacts, cleanVars>>

\* A report, a cancel or a sweep ends the job; a late report revives it.
SetStatus(j) ==
  /\ row[j] \in {"active", "ended"}
  /\ row' = [row EXCEPT ![j] = IF @ = "active" THEN "ended" ELSE "active"]
  /\ UNCHANGED <<oci, stored, reqVars, artifacts, cleanVars, accident>>

\* Three days have gone by since completed_at (an upload takes 5 minutes at
\* most, uploader.py timeout).
Age(j) ==
  /\ row[j] = "ended" /\ artifacts[j] # "saved"
  /\ row' = [row EXCEPT ![j] = "stale"]
  /\ UNCHANGED <<oci, stored, reqVars, artifacts, cleanVars, accident>>

\* upload_job_artifacts: the file first, then its path.
SaveArtifacts(j) ==
  /\ row[j] \in {"active", "ended"} /\ artifacts[j] = "no"
  /\ artifacts' = [artifacts EXCEPT ![j] = "saved"]
  /\ stored' = [stored EXCEPT ![j] = @ \cup {"artifacts"}]
  /\ UNCHANGED <<oci, row, reqVars, cleanVars, accident>>

CommitArtifacts(j) ==
  /\ artifacts[j] = "saved"
  /\ artifacts' = [artifacts EXCEPT ![j] = "over"]
  /\ \/ path' = [path EXCEPT ![j] = @ \cup {"artifacts"}] /\ UNCHANGED accident
     \/ Fails(j) /\ UNCHANGED path
  /\ UNCHANGED <<oci, stored, row, want, from, pc, cleanVars>>

-----------------------------------------------------------------------------
(* cleanup_stale_job_files, once a day.                                    *)

\* Variation: the three days are forgotten.
CleanupReadEnded ==
  /\ cleaning = {} /\ ~oci
  /\ cleaning' = {j \in Job : row[j] \in {"ended", "stale"} /\ "script" \in path[j]}
  /\ cleaning' # {}
  /\ UNCHANGED <<oci, stored, row, reqVars, artifacts, cleaned, accident>>

\* Variation: jobs with artifacts are left alone.
CleanupReadSome ==
  /\ cleaning = {} /\ ~oci
  /\ cleaning' = {j \in Job : row[j] = "stale" /\ "artifacts" \notin path[j]}
  /\ cleaning' # {}
  /\ UNCHANGED <<oci, stored, row, reqVars, artifacts, cleaned, accident>>

\* The query.  (With the object store, get_storage raises: nothing happens.)
CleanupRead ==
  /\ cleaning = {} /\ ~oci
  /\ cleaning' = {j \in Job : row[j] = "stale" /\ "script" \in path[j]}
  /\ cleaning' # {}
  /\ UNCHANGED <<oci, stored, row, reqVars, artifacts, cleaned, accident>>

\* rmtree takes the files of a directory one at a time.
RemoveFile(j, f) ==
  /\ j \in cleaning /\ f \in stored[j]
  /\ stored' = [stored EXCEPT ![j] = @ \ {f}]
  /\ UNCHANGED <<oci, row, reqVars, artifacts, cleanVars, accident>>

\* The commit sets script_path to NULL: refused, and every path is kept.
CleanupCommit ==
  /\ cleaning # {} /\ \A j \in cleaning : stored[j] = {}
  /\ cleaned' = cleaned \cup cleaning
  /\ cleaning' = {}
  /\ UNCHANGED <<oci, stored, row, reqVars, artifacts, accident>>

-----------------------------------------------------------------------------
RequestStep(j) ==
  \/ \E f \in Input : \/ SaveFile(j, f) \/ SaveFails(j, f)
                     \/ CopyBytes(j, f) \/ CopyFile(j, f) \/ CopyFails(j, f)
  \/ Undo(j) \/ CommitRow(j) \/ CommitFails(j)

JobStep(j) == SetStatus(j) \/ Age(j) \/ SaveArtifacts(j) \/ CommitArtifacts(j)

Cleanup == CleanupRead \/ CleanupCommit \/ \E j \in Job, f \in File : RemoveFile(j, f)

Next ==
  \/ \E j \in Job, S \in SUBSET Input : Submit(j, S)
  \/ \E j, o \in Job : Rerun(j, o)
  \/ \E j \in Job : RequestStep(j) \/ JobStep(j)
  \/ Cleanup

Spec == Init /\ [][Next]_vars

\* Celery beat starts the clean-up every day, and it runs to its end.
FairSpec == Spec /\ WF_vars(Cleanup)

-----------------------------------------------------------------------------
(* Properties.                                                             *)

\* Every path of a job that is not over three days old leads to a file: the
\* agent can download it and a client can run the job again (ws.py "job files
\* kept in OCI for 3 days to allow future retry"), whatever reruns, failed
\* reruns and clean-ups do meanwhile.
FilesPresent == \A j \in Job : row[j] \in {"active", "ended"} => path[j] \subseteq stored[j]

\* A rerun has every input its original has, or it fails as a whole, also when
\* the clean-up takes the original's files from under it.
RerunIsWhole ==
  \A j \in Job : row[j] # "none" /\ from[j] # None => path[from[j]] \cap Input \subseteq path[j]

\* The clean-up took the script of the original after a rerun had copied it and
\* before copy2 was through: no path is known, so nothing is undone.
LeftByTheCleanup(j) ==
  /\ ~oci /\ path[j] = {} /\ stored[j] = {"script"}
  /\ from[j] # None /\ "script" \notin stored[from[j]]

\* Files without a row are the trace of a failed storage or database call, or
\* the one script of a rerun whose original lost it in the middle of the copy;
\* any other rerun that fails because its source is gone leaves none.
OrphansHaveACause ==
  \A j \in Job : pc[j] = "failed" /\ stored[j] # {} =>
    j \in accident \/ LeftByTheCleanup(j)

\* Neither a row without its files nor, without such a cause, files without a row.
RowsMatchFiles == FilesPresent /\ OrphansHaveACause

\* On the local file system the files of a stale job are deleted.
StaleFilesGo == \A j \in Job : ~oci /\ row[j] = "stale" ~> stored[j] = {}

-----------------------------------------------------------------------------
(* What the repository says of the program and the code does not do.       *)

\* cleanup_stale_job_files: "Clear paths so this job isn't processed again".
NotProcessedAgain == [][cleaning' \cap cleaned \subseteq cleaning]_vars
=============================================================================
