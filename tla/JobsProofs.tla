------------------------------ MODULE JobsProofs ------------------------------
(***************************************************************************)
(* Proofs about JobFiles, for any number of jobs, with or without failing  *)
(* calls, on either kind of storage; about Workloads, for any number of    *)
(* workloads, of lists under way and of faults; and about MCJobs, which    *)
(* follows one or the other.                                               *)
(***************************************************************************)
EXTENDS MCJobs, SequenceTheorems, TLAPS

-----------------------------------------------------------------------------
(* A job's files (JobFiles): the parts of the invariant.                   *)

\* A row exists exactly once its request is done.
RowWhenDone == \A j \in Job : row[j] = "none" <=> pc[j] # "done"

\* What a request or a row that is not stale has a path to exists.
PathsStored ==
  \A j \in Job : row[j] # "stale" /\ pc[j] # "failed" => path[j] \subseteq stored[j]

\* The clean-up holds stale jobs only.
CleaningStale == \A j \in cleaning : row[j] = "stale"

\* Between the two steps of the upload the file exists and the job is recent.
UploadStored ==
  \A j \in Job : artifacts[j] = "saved" =>
    "artifacts" \in stored[j] /\ row[j] \in {"active", "ended"}

\* A rerun wants what its original's row shows; a request that stored all it
\* wanted has the paths to it.  There is no job without a script.
WantsAll ==
  \A j \in Job :
    /\ pc[j] = "idle" => from[j] = None
    /\ pc[j] # "idle" => "script" \in want[j]
    /\ from[j] # None => /\ row[from[j]] # "none"
                         /\ want[j] = path[from[j]] \cap Input
    /\ pc[j] \in {"flush", "done"} => want[j] \subseteq path[j]

\* A rerun knows every file it stored but the one it is copying.  When it fails
\* with no failed call, what it does not know is in the directory to be removed,
\* unless the clean-up was in the middle of its first copy.
CopyKnown(j) ==
  /\ pc[j] = "idle" => stored[j] = {} /\ path[j] = {}
  /\ pc[j] = "copying" =>
       from[j] # None /\ \A f \in stored[j] \ path[j] : f \in Input /\ Due(j, f)
  /\ pc[j] = "undo" /\ j \notin accident =>
       IF oci THEN stored[j] \subseteq path[j]
       ELSE path[j] # {} \/ stored[j] = {} \/ LeftByTheCleanup(j)

CopiesKnown == \A j \in Job : CopyKnown(j)

OrphanCaused(j) ==
  pc[j] = "failed" /\ stored[j] # {} => j \in accident \/ LeftByTheCleanup(j)

\* The files come one by one: only one is due.
LEMMA OneIsDue ==
  ASSUME NEW j \in Job, NEW f \in Input, NEW g \in Input, Due(j, f), Due(j, g)
  PROVE  f = g
BY DEF Due, Before, Input

\* The script is the first of them.
LEMMA ScriptIsFirst ==
  ASSUME NEW j \in Job, NEW f \in Input, Due(j, f), path[j] = {}, "script" \in want[j]
  PROVE  f = "script"
BY DEF Due, Before, Input

-----------------------------------------------------------------------------
\* Rows, files and requests keep their types.
LEMMA TypeStep ==
  ASSUME TypeOK, [Next]_vars
  PROVE  TypeOK'
  <1> USE DEF TypeOK, Goto, Fails, reqVars, cleanVars
  <1>1. ASSUME NEW j \in Job, NEW S \in SUBSET Input, Submit(j, S)
        PROVE  TypeOK'
    BY <1>1 DEF Submit, PC
  <1>2. ASSUME NEW j \in Job, NEW o \in Job, Rerun(j, o)
        PROVE  TypeOK'
    BY <1>2 DEF Rerun, PC
  <1>3. ASSUME NEW j \in Job, NEW f \in Input,
             SaveFile(j, f) \/ CopyBytes(j, f) \/ CopyFile(j, f)
        PROVE  TypeOK'
    BY <1>3 DEF SaveFile, CopyBytes, CopyFile, Store, PC, File
  <1>4. ASSUME NEW j \in Job, NEW f \in Input, CopyFails(j, f) \/ SaveFails(j, f)
        PROVE  TypeOK'
    BY <1>4 DEF CopyFails, SaveFails, PC, File
  <1>5. ASSUME NEW j \in Job, CommitRow(j) \/ CommitFails(j)
        PROVE  TypeOK'
    BY <1>5 DEF CommitRow, CommitFails, PC, Row
  <1>6. ASSUME NEW j \in Job, Undo(j)
        PROVE  TypeOK'
    BY <1>6 DEF Undo, Kept, PC
  <1>7. ASSUME NEW j \in Job, SetStatus(j) \/ Age(j)
        PROVE  TypeOK'
    BY <1>7 DEF SetStatus, Age, Row
  <1>8. ASSUME NEW j \in Job, SaveArtifacts(j) \/ CommitArtifacts(j)
        PROVE  TypeOK'
    BY <1>8 DEF SaveArtifacts, CommitArtifacts, File
  <1>9. ASSUME Cleanup
        PROVE  TypeOK'
    BY <1>9 DEF Cleanup, CleanupRead, RemoveFile, CleanupCommit
  <1>10. CASE UNCHANGED vars
    BY <1>10 DEF vars
  <1>11. QED
    BY <1>1, <1>2, <1>3, <1>4, <1>5, <1>6, <1>7, <1>8, <1>9, <1>10
       DEF Next, RequestStep, JobStep

\* Type correctness of rows, files and requests.
THEOREM TypeCorrect == Spec => []TypeOK
  <1>1. Init => TypeOK
    BY DEF Init, TypeOK, Row, PC
  <1>2. TypeOK /\ [Next]_vars => TypeOK'
    BY TypeStep
  <1>3. QED
    BY <1>1, <1>2, PTL DEF Spec

-----------------------------------------------------------------------------
\* Requests and rows keep in step.
LEMMA RowStep ==
  ASSUME TypeOK, RowWhenDone, [Next]_vars
  PROVE  RowWhenDone'
  <1> USE DEF TypeOK, RowWhenDone, Goto, reqVars
  <1>1. ASSUME NEW j \in Job, NEW S \in SUBSET Input, Submit(j, S)
        PROVE  RowWhenDone'
    BY <1>1 DEF Submit
  <1>2. ASSUME NEW j \in Job, NEW o \in Job, Rerun(j, o)
        PROVE  RowWhenDone'
    BY <1>2 DEF Rerun
  <1>3. ASSUME NEW j \in Job, RequestStep(j)
        PROVE  RowWhenDone'
    BY <1>3 DEF RequestStep, SaveFile, CopyBytes, CopyFile, CopyFails, Store, SaveFails, Undo,
                CommitRow, CommitFails
  <1>4. ASSUME NEW j \in Job, JobStep(j)
        PROVE  RowWhenDone'
    BY <1>4 DEF JobStep, SetStatus, Age, SaveArtifacts, CommitArtifacts
  <1>5. ASSUME Cleanup
        PROVE  RowWhenDone'
    BY <1>5 DEF Cleanup, CleanupRead, RemoveFile, CleanupCommit
  <1>6. CASE UNCHANGED vars
    BY <1>6 DEF vars
  <1>7. QED
    BY <1>1, <1>2, <1>3, <1>4, <1>5, <1>6 DEF Next

\* The clean-up and the uploads keep to their jobs.
LEMMA CleaningStep ==
  ASSUME TypeOK, RowWhenDone, CleaningStale, UploadStored, [Next]_vars
  PROVE  CleaningStale' /\ UploadStored'
  <1> USE DEF TypeOK, CleaningStale, UploadStored, reqVars, cleanVars
  <1>1. ASSUME NEW j \in Job, NEW S \in SUBSET Input, Submit(j, S)
        PROVE  CleaningStale' /\ UploadStored'
    BY <1>1 DEF Submit
  <1>2. ASSUME NEW j \in Job, NEW o \in Job, Rerun(j, o)
        PROVE  CleaningStale' /\ UploadStored'
    BY <1>2 DEF Rerun
  <1>3. ASSUME NEW j \in Job, RequestStep(j)
        PROVE  CleaningStale' /\ UploadStored'
    <2>1. row[j] = "none"
      BY <1>3 DEF RequestStep, SaveFile, CopyBytes, CopyFile, CopyFails, SaveFails, Undo,
                  CommitRow, CommitFails, RowWhenDone
    <2>2. \A i \in Job \ {j} : stored'[i] = stored[i] /\ row'[i] = row[i]
      BY <1>3 DEF RequestStep, SaveFile, CopyBytes, CopyFile, CopyFails, Store, SaveFails, Undo,
                  CommitRow, CommitFails
    <2>3. UNCHANGED <<artifacts, cleaning>>
      BY <1>3 DEF RequestStep, SaveFile, CopyBytes, CopyFile, CopyFails, SaveFails, Undo,
                  CommitRow, CommitFails
    <2>4. QED
      BY <2>1, <2>2, <2>3
  <1>4. ASSUME NEW j \in Job, JobStep(j)
        PROVE  CleaningStale' /\ UploadStored'
    BY <1>4 DEF JobStep, SetStatus, Age, SaveArtifacts, CommitArtifacts
  <1>5. ASSUME Cleanup
        PROVE  CleaningStale' /\ UploadStored'
    BY <1>5 DEF Cleanup, CleanupRead, RemoveFile, CleanupCommit
  <1>6. CASE UNCHANGED vars
    BY <1>6 DEF vars
  <1>7. QED
    BY <1>1, <1>2, <1>3, <1>4, <1>5, <1>6 DEF Next

-----------------------------------------------------------------------------
LEMMA PathsStep ==
  ASSUME TypeOK, RowWhenDone, CleaningStale, UploadStored, PathsStored, [Next]_vars
  PROVE  PathsStored'
  <1> USE DEF TypeOK, PathsStored, Goto, reqVars, cleanVars
  <1>1. ASSUME NEW j \in Job, NEW S \in SUBSET Input, Submit(j, S)
        PROVE  PathsStored'
    BY <1>1 DEF Submit
  <1>2. ASSUME NEW j \in Job, NEW o \in Job, Rerun(j, o)
        PROVE  PathsStored'
    BY <1>2 DEF Rerun
  <1>3. ASSUME NEW j \in Job, NEW f \in Input,
             SaveFile(j, f) \/ CopyBytes(j, f) \/ CopyFile(j, f)
        PROVE  PathsStored'
    BY <1>3 DEF SaveFile, CopyBytes, CopyFile, Store
  <1>4. ASSUME NEW j \in Job, NEW f \in Input, CopyFails(j, f) \/ SaveFails(j, f)
        PROVE  PathsStored'
    BY <1>4 DEF CopyFails, SaveFails
  <1>5. ASSUME NEW j \in Job, Undo(j) \/ CommitRow(j) \/ CommitFails(j)
        PROVE  PathsStored'
    BY <1>5 DEF Undo, CommitRow, CommitFails, RowWhenDone
  <1>6. ASSUME NEW j \in Job, SetStatus(j) \/ Age(j)
        PROVE  PathsStored'
    BY <1>6 DEF SetStatus, Age
  <1>7. ASSUME NEW j \in Job, SaveArtifacts(j) \/ CommitArtifacts(j)
        PROVE  PathsStored'
    BY <1>7 DEF SaveArtifacts, CommitArtifacts, UploadStored
  <1>8. ASSUME Cleanup
        PROVE  PathsStored'
    BY <1>8 DEF Cleanup, CleanupRead, RemoveFile, CleanupCommit, CleaningStale
  <1>9. CASE UNCHANGED vars
    BY <1>9 DEF vars
  <1>10. QED
    BY <1>1, <1>2, <1>3, <1>4, <1>5, <1>6, <1>7, <1>8, <1>9 DEF Next, RequestStep, JobStep

\* Every path of a job under three days old leads to a file.
THEOREM FilesArePresent == Spec => []FilesPresent
  <1>1. Init => RowWhenDone /\ CleaningStale /\ UploadStored /\ PathsStored
    BY DEF Init, RowWhenDone, CleaningStale, UploadStored, PathsStored
  <1>2. TypeOK /\ RowWhenDone /\ CleaningStale /\ UploadStored /\ PathsStored /\ [Next]_vars
        => (RowWhenDone /\ CleaningStale /\ UploadStored /\ PathsStored)'
    BY RowStep, CleaningStep, PathsStep
  <1>3. RowWhenDone /\ PathsStored => FilesPresent
    BY DEF RowWhenDone, PathsStored, FilesPresent
  <1>4. QED
    BY <1>1, <1>2, <1>3, TypeCorrect, PTL DEF Spec
-----------------------------------------------------------------------------
\* The inputs of a row never change (the clean-up's commit is refused), so what
\* a rerun loaded remains what its original has.
LEMMA WantsStep ==
  ASSUME TypeOK, RowWhenDone, WantsAll, [Next]_vars
  PROVE  WantsAll'
  <1> USE NoneAssumption DEF TypeOK, RowWhenDone, WantsAll, Goto, reqVars, cleanVars
  <1>1. ASSUME NEW j \in Job, NEW S \in SUBSET Input, Submit(j, S)
        PROVE  WantsAll'
    BY <1>1 DEF Submit
  <1>2. ASSUME NEW j \in Job, NEW o \in Job, Rerun(j, o)
        PROVE  WantsAll'
    BY <1>2 DEF Rerun
  <1>3. ASSUME NEW j \in Job, NEW f \in Input,
             SaveFile(j, f) \/ CopyBytes(j, f) \/ CopyFile(j, f)
        PROVE  WantsAll'
    BY <1>3 DEF SaveFile, CopyBytes, CopyFile, Store
  <1>4. ASSUME NEW j \in Job, NEW f \in Input, CopyFails(j, f) \/ SaveFails(j, f)
        PROVE  WantsAll'
    BY <1>4 DEF CopyFails, SaveFails
  <1>5. ASSUME NEW j \in Job, Undo(j) \/ CommitRow(j) \/ CommitFails(j)
        PROVE  WantsAll'
    BY <1>5 DEF Undo, CommitRow, CommitFails
  <1>6. ASSUME NEW j \in Job, SetStatus(j) \/ Age(j)
        PROVE  WantsAll'
    BY <1>6 DEF SetStatus, Age
  <1>7. ASSUME NEW j \in Job, SaveArtifacts(j) \/ CommitArtifacts(j)
        PROVE  WantsAll'
    <2>1. \A i \in Job : path'[i] \cap Input = path[i] \cap Input /\ path[i] \subseteq path'[i]
      BY <1>7 DEF SaveArtifacts, CommitArtifacts, Input
    <2>2. UNCHANGED <<want, from, pc, row>>
      BY <1>7 DEF SaveArtifacts, CommitArtifacts
    <2>3. QED
      BY <2>1, <2>2
  <1>8. ASSUME Cleanup
        PROVE  WantsAll'
    BY <1>8 DEF Cleanup, CleanupRead, RemoveFile, CleanupCommit
  <1>9. CASE UNCHANGED vars
    BY <1>9 DEF vars
  <1>10. QED
    BY <1>1, <1>2, <1>3, <1>4, <1>5, <1>6, <1>7, <1>8, <1>9 DEF Next, RequestStep, JobStep

\* A rerun is whole or does not exist.
THEOREM RerunsAreWhole == Spec => []RerunIsWhole
  <1>1. Init => RowWhenDone /\ WantsAll
    BY DEF Init, RowWhenDone, WantsAll
  <1>2. TypeOK /\ RowWhenDone /\ WantsAll /\ [Next]_vars => (RowWhenDone /\ WantsAll)'
    BY RowStep, WantsStep
  <1>3. RowWhenDone /\ WantsAll => RerunIsWhole
    BY DEF RowWhenDone, WantsAll, RerunIsWhole
  <1>4. QED
    BY <1>1, <1>2, <1>3, TypeCorrect, PTL DEF Spec

-----------------------------------------------------------------------------
\* What the clean-up took stays gone: the original's request is over.
LEMMA LeftStays ==
  ASSUME TypeOK, RowWhenDone, WantsAll, [Next]_vars, NEW j \in Job,
         LeftByTheCleanup(j), path'[j] = path[j], stored'[j] = stored[j],
         from'[j] = from[j]
  PROVE  LeftByTheCleanup(j)'
  <1>1. oci' = oci
    BY DEF Next, RequestStep, JobStep, Cleanup, Submit, Rerun, SaveFile, SaveFails,
           CopyBytes, CopyFile, CopyFails, Undo, CommitRow, CommitFails, SetStatus, Age,
           SaveArtifacts, CommitArtifacts, CleanupRead, RemoveFile, CleanupCommit, vars
  <1>2. from[j] \in Job /\ pc[from[j]] = "done"
    BY DEF LeftByTheCleanup, TypeOK, RowWhenDone, WantsAll
  <1>3. "script" \notin stored'[from[j]]
    <2>1. ASSUME NEW i \in Job, NEW f \in Input, SaveFile(i, f) \/ CopyBytes(i, f)
                   \/ CopyFile(i, f) \/ CopyFails(i, f) \/ SaveFails(i, f)
          PROVE  stored'[from[j]] = stored[from[j]]
      <3>1. i # from[j]
        BY <1>2, <2>1 DEF SaveFile, CopyBytes, CopyFile, CopyFails, SaveFails
      <3>2. QED
        BY <1>2, <2>1, <3>1 DEF SaveFile, CopyBytes, CopyFile, CopyFails, SaveFails,
                               Store, TypeOK
    <2>2. ASSUME NEW i \in Job, Undo(i)
          PROVE  stored'[from[j]] = stored[from[j]]
      <3>1. i # from[j]
        BY <1>2, <2>2 DEF Undo
      <3>2. QED
        BY <1>2, <2>2, <3>1 DEF Undo, TypeOK
    <2>3. ASSUME NEW i \in Job, SaveArtifacts(i)
          PROVE  "script" \notin stored'[from[j]]
      BY <1>2, <2>3 DEF SaveArtifacts, TypeOK, LeftByTheCleanup
    <2>4. ASSUME NEW i \in Job, NEW f \in File, RemoveFile(i, f)
          PROVE  "script" \notin stored'[from[j]]
      BY <1>2, <2>4 DEF RemoveFile, TypeOK, LeftByTheCleanup
    <2>5. ASSUME NEW i, NEW o, NEW S,
                 \/ Submit(i, S) \/ Rerun(i, o) \/ CommitRow(i) \/ CommitFails(i)
                 \/ SetStatus(i) \/ Age(i) \/ CommitArtifacts(i)
                 \/ CleanupRead \/ CleanupCommit \/ UNCHANGED vars
          PROVE  stored' = stored
      BY <2>5 DEF Submit, Rerun, CommitRow, CommitFails, SetStatus, Age, CommitArtifacts,
                  CleanupRead, CleanupCommit, vars
    <2>6. "script" \notin stored[from[j]]
      BY DEF LeftByTheCleanup
    <2>7. QED
      BY <2>1, <2>2, <2>3, <2>4, <2>5, <2>6 DEF Next, RequestStep, JobStep, Cleanup
  <1>4. QED
    BY <1>1, <1>3 DEF LeftByTheCleanup

\* What a request knows of its copies changes with its own steps only.
LEMMA CopyStep ==
  ASSUME TypeOK, RowWhenDone, UploadStored, CleaningStale, WantsAll, [Next]_vars,
         NEW j \in Job, CopyKnown(j), OrphanCaused(j)
  PROVE  CopyKnown(j)' /\ OrphanCaused(j)'
  <1>1. oci' = oci /\ accident \subseteq accident'
    <2>1. ASSUME NEW i, NEW f, NEW S,
                 \/ Submit(i, S) \/ Rerun(i, f) \/ SaveFile(i, f) \/ SaveFails(i, f)
                 \/ CopyBytes(i, f) \/ CopyFile(i, f) \/ CopyFails(i, f) \/ Undo(i)
                 \/ CommitRow(i) \/ CommitFails(i)
          PROVE  oci' = oci /\ accident \subseteq accident'
      BY <2>1 DEF Submit, Rerun, SaveFile, SaveFails, CopyBytes, CopyFile, CopyFails,
                  Undo, CommitRow, CommitFails, Fails, reqVars
    <2>2. ASSUME NEW i, NEW f,
                 \/ SetStatus(i) \/ Age(i) \/ SaveArtifacts(i) \/ CommitArtifacts(i)
                 \/ CleanupRead \/ RemoveFile(i, f) \/ CleanupCommit \/ UNCHANGED vars
          PROVE  oci' = oci /\ accident \subseteq accident'
      BY <2>2 DEF SetStatus, Age, SaveArtifacts, CommitArtifacts, CleanupRead,
                  RemoveFile, CleanupCommit, Fails, vars
    <2>3. QED
      BY <2>1, <2>2 DEF Next, RequestStep, JobStep, Cleanup
  <1>2. ASSUME pc'[j] = pc[j], path'[j] = path[j], stored'[j] = stored[j],
               from'[j] = from[j], want'[j] = want[j]
        PROVE  CopyKnown(j)' /\ OrphanCaused(j)'
    <2>1. LeftByTheCleanup(j) => LeftByTheCleanup(j)'
      BY <1>2, LeftStays
    <2>2. \A f : Due(j, f)' <=> Due(j, f)
      BY <1>2 DEF Due
    <2>3. CopyKnown(j)'
      BY <1>1, <1>2, <2>1, <2>2 DEF CopyKnown
    <2>4. OrphanCaused(j)'
      BY <1>1, <1>2, <2>1 DEF OrphanCaused
    <2>5. QED
      BY <2>3, <2>4
  <1>3. ASSUME pc'[j] \notin {"idle", "copying", "undo", "failed"}
        PROVE  CopyKnown(j)' /\ OrphanCaused(j)'
    BY <1>3 DEF CopyKnown, OrphanCaused
  <1>4. ASSUME pc'[j] = "failed", j \in accident'
        PROVE  CopyKnown(j)' /\ OrphanCaused(j)'
    BY <1>4 DEF CopyKnown, OrphanCaused
  <1>5. ASSUME NEW S \in SUBSET Input, Submit(j, S)
        PROVE  CopyKnown(j)' /\ OrphanCaused(j)'
    <2>1. pc'[j] = "saving"
      BY <1>5 DEF Submit, Goto, TypeOK
    <2>2. QED
      BY <1>3, <2>1
  <1>6. ASSUME NEW o \in Job, Rerun(j, o)
        PROVE  CopyKnown(j)' /\ OrphanCaused(j)'
    <2>1. pc[j] = "idle" /\ pc'[j] = "copying" /\ from'[j] = o /\ stored' = stored
      BY <1>6 DEF Rerun, Goto, TypeOK
    <2>2. stored'[j] = {}
      BY <2>1 DEF CopyKnown
    <2>3. QED
      BY NoneAssumption, <2>1, <2>2 DEF CopyKnown, OrphanCaused
  <1>7. ASSUME NEW f \in Input, CopyBytes(j, f)
        PROVE  CopyKnown(j)' /\ OrphanCaused(j)'
    <2>1. /\ pc[j] = "copying" /\ Due(j, f) /\ UNCHANGED <<pc, path, from, want>>
          /\ stored'[j] = stored[j] \cup {f}
      BY <1>7 DEF CopyBytes, reqVars, TypeOK
    <2>2. \A g : Due(j, g)' <=> Due(j, g)
      BY <2>1 DEF Due
    <2>3. QED
      BY <2>1, <2>2 DEF CopyKnown, OrphanCaused
  <1>8. ASSUME NEW f \in Input, CopyFile(j, f)
        PROVE  CopyKnown(j)' /\ OrphanCaused(j)'
    <2>1. /\ pc[j] = "copying" /\ pc'[j] \in {"flush", "copying"} /\ Due(j, f)
          /\ from' = from /\ stored'[j] = stored[j] \cup {f} /\ f \in stored[j]
          /\ path'[j] = path[j] \cup {f}
      BY <1>8 DEF CopyFile, Store, Goto, TypeOK
    <2>2. stored[j] \ path[j] \subseteq {f}
      BY <2>1, OneIsDue DEF CopyKnown
    <2>3. stored'[j] \ path'[j] = {}
      BY <2>1, <2>2
    <2>4. QED
      BY <2>1, <2>3 DEF CopyKnown, OrphanCaused
  <1>9. ASSUME NEW f \in Input, CopyFails(j, f)
        PROVE  CopyKnown(j)' /\ OrphanCaused(j)'
    <2>1. /\ pc[j] = "copying" /\ pc'[j] = "undo" /\ Due(j, f)
          /\ UNCHANGED <<oci, stored, path, from>>
      BY <1>9 DEF CopyFails, Goto, TypeOK
    <2>2. stored[j] \ path[j] \subseteq {f} /\ from[j] # None
      BY <2>1, OneIsDue DEF CopyKnown
    <2>3. CASE j \in accident'
      BY <2>1, <2>3 DEF CopyKnown, OrphanCaused
    <2>4. CASE j \notin accident'
      <3>1. f \notin stored[from[j]] /\ (f \in stored[j] => ~oci)
        BY <1>9, <2>4 DEF CopyFails, Fails
      <3>2. CASE f \notin stored[j] \/ path[j] # {}
        BY <2>1, <2>2, <3>1, <3>2 DEF CopyKnown, OrphanCaused
      <3>3. CASE f \in stored[j] /\ path[j] = {}
        <4>1. "script" \in want[j]
          BY <2>1 DEF WantsAll
        <4>2. f = "script"
          BY <2>1, <3>3, <4>1, ScriptIsFirst
        <4>3. LeftByTheCleanup(j)'
          BY <2>1, <2>2, <3>1, <3>3, <4>2 DEF LeftByTheCleanup
        <4>4. QED
          BY <2>1, <3>1, <3>3, <4>3 DEF CopyKnown, OrphanCaused
      <3>4. QED
        BY <3>2, <3>3
    <2>5. QED
      BY <2>3, <2>4
  <1>10. ASSUME Undo(j)
         PROVE  CopyKnown(j)' /\ OrphanCaused(j)'
    <2>1. pc[j] = "undo" /\ pc'[j] = "failed" /\ UNCHANGED <<path, from>>
      BY <1>10 DEF Undo, Goto, TypeOK
    <2>2. CASE j \in accident'
      BY <1>4, <2>1, <2>2
    <2>3. CASE j \notin accident'
      <3>1. stored' = [stored EXCEPT ![j] = Kept(j)] /\ j \notin accident
        BY <1>10, <1>1, <2>3 DEF Undo, Fails
      <3>2. stored'[j] = Kept(j)
        BY <3>1 DEF TypeOK
      <3>3. Kept(j) = {} \/ (Kept(j) = stored[j] /\ LeftByTheCleanup(j))
        BY <2>1, <3>1 DEF Kept, CopyKnown
      <3>4. LeftByTheCleanup(j) /\ Kept(j) = stored[j] => LeftByTheCleanup(j)'
        BY <2>1, <3>1, <3>2, <1>10, LeftStays DEF Undo
      <3>5. QED
        BY <2>1, <3>2, <3>3, <3>4 DEF CopyKnown, OrphanCaused
    <2>4. QED
      BY <2>2, <2>3
  <1>11. ASSUME NEW f \in Input, SaveFile(j, f) \/ SaveFails(j, f)
         PROVE  CopyKnown(j)' /\ OrphanCaused(j)'
    <2>1. \/ pc'[j] \in {"saving", "flush"}
          \/ pc'[j] = "failed" /\ j \in accident'
      BY <1>11 DEF SaveFile, SaveFails, Store, Goto, Fails, TypeOK
    <2>2. QED
      BY <1>3, <1>4, <2>1
  <1>12. ASSUME CommitRow(j) \/ CommitFails(j)
         PROVE  CopyKnown(j)' /\ OrphanCaused(j)'
    <2>1. pc'[j] = "done" \/ (pc'[j] = "failed" /\ j \in accident')
      BY <1>12 DEF CommitRow, CommitFails, Goto, Fails, TypeOK
    <2>2. QED
      BY <1>3, <1>4, <2>1
  <1>13. ASSUME NEW i \in Job \ {j}, NEW f, NEW S,
                \/ Submit(i, S) \/ Rerun(i, f) \/ SaveFile(i, f) \/ SaveFails(i, f)
                \/ CopyBytes(i, f) \/ CopyFile(i, f) \/ CopyFails(i, f) \/ Undo(i)
                \/ CommitRow(i) \/ CommitFails(i)
         PROVE  CopyKnown(j)' /\ OrphanCaused(j)'
    <2>1. /\ pc'[j] = pc[j] /\ path'[j] = path[j] /\ stored'[j] = stored[j]
          /\ from'[j] = from[j] /\ want'[j] = want[j]
      BY <1>13 DEF Submit, Rerun, SaveFile, SaveFails, CopyBytes, CopyFile, CopyFails,
                   Undo, CommitRow, CommitFails, Store, Goto, reqVars, TypeOK
    <2>2. QED
      BY <1>2, <2>1
  <1>14. ASSUME NEW i \in Job, NEW f,
                \/ SetStatus(i) \/ Age(i) \/ SaveArtifacts(i) \/ CommitArtifacts(i)
                \/ CleanupRead \/ RemoveFile(i, f) \/ CleanupCommit \/ UNCHANGED vars
         PROVE  CopyKnown(j)' /\ OrphanCaused(j)'
    <2>1. UNCHANGED <<pc, from, want>>
      BY <1>14 DEF SetStatus, Age, SaveArtifacts, CommitArtifacts, CleanupRead,
                   RemoveFile, CleanupCommit, reqVars, vars
    <2>2. CASE pc[j] = "done"
      BY <1>3, <2>1, <2>2
    <2>3. CASE pc[j] # "done"
      <3>1. row[j] = "none" /\ j \notin cleaning /\ artifacts[j] # "saved"
        BY <2>3 DEF RowWhenDone, CleaningStale, UploadStored
      <3>2. path'[j] = path[j] /\ stored'[j] = stored[j]
        BY <1>14, <3>1 DEF SetStatus, Age, SaveArtifacts, CommitArtifacts, CleanupRead,
                           RemoveFile, CleanupCommit, reqVars, vars, TypeOK
      <3>3. QED
        BY <1>2, <2>1, <3>2
    <2>4. QED
      BY <2>2, <2>3
  <1>15. QED
    BY <1>5, <1>6, <1>7, <1>8, <1>9, <1>10, <1>11, <1>12, <1>13, <1>14
       DEF Next, RequestStep, JobStep, Cleanup

LEMMA CopiesStep ==
  ASSUME TypeOK, RowWhenDone, UploadStored, CleaningStale, WantsAll, CopiesKnown,
         OrphansHaveACause, [Next]_vars
  PROVE  CopiesKnown' /\ OrphansHaveACause'
  <1>1. \A j \in Job : CopyKnown(j) /\ OrphanCaused(j)
    BY DEF CopiesKnown, OrphansHaveACause, OrphanCaused
  <1>2. \A j \in Job : CopyKnown(j)' /\ OrphanCaused(j)'
    BY <1>1, CopyStep
  <1>3. QED
    BY <1>2 DEF CopiesKnown, OrphansHaveACause, OrphanCaused

\* Files without a row are the trace of a failed call, or of a clean-up that
\* took the original's script in the middle of its copy.
THEOREM OrphansAreCaused == Spec => []OrphansHaveACause
  <1> DEFINE Fit == RowWhenDone /\ CleaningStale /\ UploadStored /\ WantsAll
                    /\ CopiesKnown /\ OrphansHaveACause
  <1>1. Init => Fit
    BY DEF Init, RowWhenDone, CleaningStale, UploadStored, WantsAll, CopiesKnown,
           CopyKnown, OrphansHaveACause
  <1>2. TypeOK /\ Fit /\ [Next]_vars => Fit'
    BY RowStep, CleaningStep, WantsStep, CopiesStep
  <1>3. Fit => OrphansHaveACause
    OBVIOUS
  <1>4. QED
    BY <1>1, <1>2, <1>3, TypeCorrect, PTL DEF Spec

\* Rows and files agree: both facts together.
THEOREM RowsAndFilesMatch == Spec => []RowsMatchFiles
  BY FilesArePresent, OrphansAreCaused, PTL DEF RowsMatchFiles

-----------------------------------------------------------------------------
(* The client's list of workloads (Workloads).                             *)

\* What l says of a workload is so of m, which was read later: a workload stays
\* in the list, and one that has ended stays so unless the server revives it.
Later(l, m) ==
  \A j \in Workload :
    /\ l[j] # "none" => m[j] # "none"
    /\ l[j] \in Finished /\ j \notin revived => m[j] \in Finished

\* Lists are answered in the order of their reads, and the one that was kept is
\* before all that no later one has overtaken.
InOrder ==
  /\ \A i, k \in DOMAIN answers : i < k => Later(answers[i].jobs, answers[k].jobs)
  /\ \A k \in DOMAIN answers : Later(answers[k].jobs, status)
  /\ Later(prev, status)
  /\ \A k \in DOMAIN answers : ~ answers[k].late => Later(prev, answers[k].jobs)

ListsFit == InOrder /\ asked \in Nat /\ (~ open => asked = 0 /\ answers = <<>>)

\* A workload shown active is in the list that was kept, and what was announced
\* has ended there.
NoticesFit ==
  ~ crossed =>
    \A j \in Workload :
      /\ j \in due => prev[j] \in Active \cup Finished
      /\ j \in due /\ prev[j] \in Finished => notices[j] > 0
      /\ j \notin revived =>
           notices[j] <= 1 /\ (notices[j] = 1 => prev[j] \in Finished)

\* The logs under way are the viewer's own, and so are those that have come.
ViewerFits ==
  viewer # Nothing /\ ~ mixed =>
    /\ \A j \in Workload : logCalls[j] > 0 => j = viewer
    /\ ~ loading => text \in {viewer, Nothing}

IInvWorkloads == WorkloadsTypeOK /\ ListsFit /\ NoticesFit /\ ViewerFits

USE NothingAssumption DEF server, list, viewing, dialogs, workloadsVars

LEMMA WorkloadsStart == WorkloadsInit => IInvWorkloads
<1> SUFFICES ASSUME WorkloadsInit PROVE IInvWorkloads
  OBVIOUS
<1> USE DEF WorkloadsInit
<1>1. WorkloadsTypeOK
  <2>1. asked + Len(answers) \in 0..MaxLoads /\ 0 \in 0..MaxMoves /\ 0 \in 0..MaxFaults
    BY BoundAssumption, EmptySeq
  <2>2. answers \in Seq([jobs : [Workload -> Status], late : BOOLEAN]) BY EmptySeq
  <2>3. /\ status \in [Workload -> Status] /\ shown \in [Workload -> Status]
        /\ prev \in [Workload -> Status]
    BY DEF Status, Active, Finished, NoneYet
  <2> QED BY <2>1, <2>2, <2>3 DEF WorkloadsTypeOK
<1>2. ListsFit
  BY DEF ListsFit, InOrder, Later, NoneYet, Finished
<1>3. NoticesFit /\ ViewerFits
  BY DEF NoticesFit, ViewerFits
<1> QED BY <1>1, <1>2, <1>3 DEF IInvWorkloads

\* One element of a sequence is removed.
LEMMA RemovedOne ==
  ASSUME NEW S, NEW s \in Seq(S), NEW k \in 1 .. Len(s)
  PROVE  /\ RemoveAt(s, k) \in Seq(S)
         /\ Len(RemoveAt(s, k)) = Len(s) - 1
         /\ \A i \in 1 .. Len(s) - 1 : RemoveAt(s, k)[i] = IF i < k THEN s[i] ELSE s[i + 1]
<1> DEFINE n == Len(s)
           a == SubSeq(s, 1, k - 1)
           b == SubSeq(s, k + 1, n)
<1>1. n \in Nat /\ \A i \in 1 .. n : s[i] \in S BY ElementOfSeq, LenProperties
<1>2. /\ a \in Seq(S) /\ Len(a) = k - 1
      /\ \A i \in 1 .. k - 1 : a[i] = s[i]
  <2> HIDE DEF n
  <2>1. k - 1 \in Int /\ 1 \in Int /\ \A i \in 1 .. k - 1 : s[i] \in S BY <1>1 DEF n
  <2>2. /\ a \in Seq(S) /\ Len(a) = IF 1 <= k - 1 THEN (k - 1) - 1 + 1 ELSE 0
        /\ \A i \in 1 .. (k - 1) - 1 + 1 : a[i] = s[1 + i - 1]
    BY <2>1, SubSeqProperties
  <2>3. k \in Nat \ {0} BY <1>1 DEF n
  <2> HIDE DEF a
  <2>4. \A i \in 1 .. k - 1 : a[i] = s[i]
    <3> TAKE i \in 1 .. k - 1
    <3>1. i \in 1 .. (k - 1) - 1 + 1 /\ 1 + i - 1 = i BY <2>3
    <3> QED BY <2>2, <3>1
  <2> QED BY <2>2, <2>3, <2>4
<1>3. /\ b \in Seq(S) /\ Len(b) = n - k
      /\ \A i \in 1 .. n - k : b[i] = s[k + i]
  <2> HIDE DEF n
  <2>1. k + 1 \in Int /\ n \in Int /\ k \in 1 .. n /\ \A i \in k + 1 .. n : s[i] \in S BY <1>1 DEF n
  <2>2. /\ b \in Seq(S) /\ Len(b) = IF k + 1 <= n THEN n - (k + 1) + 1 ELSE 0
        /\ \A i \in 1 .. n - (k + 1) + 1 : b[i] = s[(k + 1) + i - 1]
    BY <2>1, SubSeqProperties
  <2> HIDE DEF b
  <2>3. \A i \in 1 .. n - k : b[i] = s[k + i]
    <3> TAKE i \in 1 .. n - k
    <3>1. i \in 1 .. n - (k + 1) + 1 /\ (k + 1) + i - 1 = k + i BY <2>1, <1>1
    <3> QED BY <2>2, <3>1
  <2> QED BY <1>1, <2>1, <2>2, <2>3
<1>4. RemoveAt(s, k) = a \o b BY DEF RemoveAt
<1> HIDE DEF a, b
<1>5. /\ a \o b \in Seq(S) /\ Len(a \o b) = Len(a) + Len(b)
      /\ \A i \in 1 .. Len(a) + Len(b) :
           (a \o b)[i] = IF i <= Len(a) THEN a[i] ELSE b[i - Len(a)]
  BY <1>2, <1>3, ConcatProperties
<1> HIDE DEF n
<1>6. k \in 1 .. n BY DEF n
<1>7. Len(a \o b) = n - 1 BY <1>1, <1>2, <1>3, <1>5, <1>6
<1>8. ASSUME NEW i \in 1 .. n - 1
      PROVE  (a \o b)[i] = IF i < k THEN s[i] ELSE s[i + 1]
  <2>1. i \in 1 .. Len(a) + Len(b) BY <1>1, <1>2, <1>3, <1>6
  <2>2. CASE i < k
    <3>1. i <= Len(a) /\ i \in 1 .. k - 1 BY <1>1, <1>2, <1>6, <2>2
    <3> QED BY <1>2, <1>5, <2>1, <2>2, <3>1
  <2>3. CASE ~ (i < k)
    <3>1. ~ (i <= Len(a)) /\ i - Len(a) \in 1 .. n - k /\ k + (i - Len(a)) = i + 1
      BY <1>1, <1>2, <1>6, <2>3
    <3> QED BY <1>3, <1>5, <2>1, <2>3, <3>1
  <2> QED BY <2>2, <2>3
<1> QED BY <1>4, <1>5, <1>7, <1>8 DEF n

Answer == [jobs : [Workload -> Status], late : BOOLEAN]

LEMMA TypesOfTheLists ==
  ASSUME WorkloadsTypeOK
  PROVE  /\ answers \in Seq(Answer)
         /\ \A i \in 1 .. Len(answers) : answers[i] \in Answer
         /\ Len(answers) \in Nat
<1>1. answers \in Seq(Answer) BY DEF WorkloadsTypeOK, Answer
<1>2. Len(answers) \in Nat BY <1>1, LenProperties
<1>3. \A i \in 1 .. Len(answers) : answers[i] \in Answer BY <1>1, ElementOfSeq
<1> QED BY <1>1, <1>2, <1>3

LEMMA PlacesOfTheLists ==
  ASSUME WorkloadsTypeOK
  PROVE  DOMAIN answers = 1 .. Len(answers)
<1>1. answers \in Seq(Answer) BY DEF WorkloadsTypeOK, Answer
<1> QED BY <1>1, LenProperties

\* A list is taken: those that were read before it are now late.
LEMMA TakenIs ==
  ASSUME WorkloadsTypeOK, NEW k \in 1 .. Len(answers)
  PROVE  /\ Without(k) \in Seq(Answer)
         /\ Len(Without(k)) = Len(answers) - 1
         /\ \A i \in 1 .. Len(answers) - 1 :
              LET j == IF i < k THEN i ELSE i + 1
              IN  /\ Without(k)[i].jobs = answers[j].jobs
                  /\ Without(k)[i].late <=> answers[j].late \/ j < k
<1> DEFINE n == Len(answers)
           one(i) == [answers[i] EXCEPT !.late = @ \/ i < k]
<1>1. n \in Nat /\ k \in 1 .. n /\ \A i \in 1 .. n : answers[i] \in Answer
  BY TypesOfTheLists
<1>0. DOMAIN answers = 1 .. n BY PlacesOfTheLists
<1> HIDE DEF n
<1>2. ASSUME NEW i \in 1 .. n
      PROVE  /\ one(i) \in Answer
             /\ one(i).jobs = answers[i].jobs
             /\ one(i).late <=> answers[i].late \/ i < k
  <2>1. answers[i] \in Answer BY <1>1
  <2>2. PICK b \in BOOLEAN : b = (answers[i].late \/ i < k) OBVIOUS
  <2>3. one(i) = [answers[i] EXCEPT !.late = b] BY <2>2, Zenon
  <2>4. one(i) \in Answer /\ one(i).jobs = answers[i].jobs /\ one(i).late = b
    BY <2>1, <2>2, <2>3 DEF Answer
  <2> QED BY <2>2, <2>4, Zenon
<1> PICK s : s = [i \in DOMAIN answers |-> one(i)] OBVIOUS
<1>3. s \in [1 .. n -> Answer] /\ \A i \in 1 .. n : s[i] = one(i)
  <2> HIDE DEF one
  <2> QED BY <1>0, <1>2
<1>4. s \in Seq(Answer) /\ Len(s) = n
  BY <1>1, <1>3
<1>5. Without(k) = RemoveAt(s, k) BY DEF Without
<1>6. /\ RemoveAt(s, k) \in Seq(Answer) /\ Len(RemoveAt(s, k)) = n - 1
      /\ \A i \in 1 .. n - 1 : RemoveAt(s, k)[i] = IF i < k THEN s[i] ELSE s[i + 1]
  <2>1. k \in 1 .. Len(s) BY <1>1, <1>4
  <2>2. /\ RemoveAt(s, k) \in Seq(Answer) /\ Len(RemoveAt(s, k)) = Len(s) - 1
        /\ \A i \in 1 .. Len(s) - 1 : RemoveAt(s, k)[i] = IF i < k THEN s[i] ELSE s[i + 1]
    BY <1>4, <2>1, RemovedOne
  <2> QED BY <1>4, <2>2
<1> HIDE DEF one
<1>7. ASSUME NEW i \in 1 .. n - 1, NEW j, j = IF i < k THEN i ELSE i + 1
      PROVE  /\ Without(k)[i].jobs = answers[j].jobs
             /\ Without(k)[i].late <=> answers[j].late \/ j < k
  <2>1. j \in 1 .. n BY <1>1, <1>7
  <2>2. Without(k)[i] = one(j) BY <1>3, <1>5, <1>6, <1>7, <2>1
  <2> QED BY <1>2, <2>1, <2>2, Zenon
<1> QED BY <1>5, <1>6, <1>7 DEF n

-----------------------------------------------------------------------------
(* The types.                                                              *)

LEMMA WorkloadsTypes ==
  ASSUME WorkloadsTypeOK, asked \in Nat, ~ open => asked = 0 /\ answers = <<>>,
         [WorkloadsNext]_workloadsVars
  PROVE  WorkloadsTypeOK' /\ asked' \in Nat
<1> DEFINE Agent == {"waits", "runs", "over"}
           Stop == {"no", "asked", "checked"}
           Dialog == [kind : {"stop", "rerun"}, job : Workload] \cup {Nothing}
           Drawer == [job : Workload, status : Status \ {"none"}] \cup {Nothing}
           TypedServer ==
             /\ status' \in [Workload -> Status] /\ agent' \in [Workload -> Agent]
             /\ stop' \in [Workload -> Stop] /\ revived' \in SUBSET Workload
           TypedAsked ==
             /\ asked' \in Nat /\ answers' \in Seq(Answer)
             /\ asked' + Len(answers)' \in 0..MaxLoads
           TypedList ==
             /\ shown' \in [Workload -> Status] /\ prev' \in [Workload -> Status]
             /\ notices' \in [Workload -> Nat] /\ due' \in SUBSET Workload
             /\ crossed' \in BOOLEAN
           TypedViewing ==
             /\ viewer' \in Workload \cup {Nothing} /\ loading' \in BOOLEAN
             /\ text' \in Workload \cup {Nothing} /\ logCalls' \in [Workload -> Nat]
             /\ mixed' \in BOOLEAN
           TypedDialogs == dialog' \in Dialog /\ reruns' \in Nat /\ drawer' \in Drawer
           TypedRest == open' \in BOOLEAN /\ moves' \in 0..MaxMoves /\ faults' \in 0..MaxFaults
<1> SUFFICES TypedServer /\ TypedAsked /\ TypedList /\ TypedViewing /\ TypedDialogs /\ TypedRest
  BY DEF WorkloadsTypeOK, Answer
<1>1. /\ status \in [Workload -> Status] /\ agent \in [Workload -> Agent]
      /\ stop \in [Workload -> Stop] /\ revived \in SUBSET Workload
  BY DEF WorkloadsTypeOK
<1>2. /\ asked \in Nat /\ answers \in Seq(Answer) /\ Len(answers) \in Nat
      /\ asked + Len(answers) \in 0..MaxLoads
  BY TypesOfTheLists DEF WorkloadsTypeOK
<1>3. /\ shown \in [Workload -> Status] /\ prev \in [Workload -> Status]
      /\ notices \in [Workload -> Nat] /\ due \in SUBSET Workload /\ crossed \in BOOLEAN
  BY DEF WorkloadsTypeOK
<1>4. /\ viewer \in Workload \cup {Nothing} /\ loading \in BOOLEAN
      /\ text \in Workload \cup {Nothing} /\ logCalls \in [Workload -> Nat]
      /\ mixed \in BOOLEAN
  BY DEF WorkloadsTypeOK
<1>5. dialog \in Dialog /\ reruns \in Nat /\ drawer \in Drawer
  BY DEF WorkloadsTypeOK
<1>6. open \in BOOLEAN /\ moves \in 0..MaxMoves /\ faults \in 0..MaxFaults
  BY DEF WorkloadsTypeOK
<1>7. UNCHANGED server => TypedServer BY <1>1
<1>8. UNCHANGED <<asked, answers>> => TypedAsked BY <1>2
<1>9. UNCHANGED <<shown, prev, notices, due, crossed>> => TypedList BY <1>3
<1>10. UNCHANGED viewing => TypedViewing BY <1>4
<1>11. UNCHANGED dialogs => TypedDialogs BY <1>5
<1>12. /\ UNCHANGED moves \/ Acts => moves' \in 0..MaxMoves
       /\ UNCHANGED faults \/ Fault => faults' \in 0..MaxFaults
       /\ UNCHANGED open => open' \in BOOLEAN
  BY <1>6, BoundAssumption DEF Acts, Fault
<1>13. /\ "queued" \in Status /\ "running" \in Status /\ "failed" \in Status
       /\ "completed" \in Status /\ "cancelled" \in Status /\ "none" \in Status
  BY DEF Status, Active, Finished
<1>14. NoneYet \in [Workload -> Status] BY <1>13 DEF NoneYet
<1> HIDE DEF TypedServer, TypedAsked, TypedList, TypedViewing, TypedDialogs, TypedRest
<1>15. ASSUME NEW j \in Workload,
              ReportRunning(j) \/ Sweep(j) \/ CancelCheck(j) \/ CancelCommit(j) \/ Submitted(j)
                \/ \E s \in Finished : ReportEnd(j, s)
       PROVE  TypedServer /\ TypedAsked /\ TypedList /\ TypedViewing /\ TypedDialogs /\ TypedRest
  <2>1. UNCHANGED <<list, viewing, dialogs, open, moves>> /\ (UNCHANGED faults \/ Fault)
    BY <1>15
    DEF ReportRunning, ReportEnd, Report, Sweep, CancelCheck, CancelCommit, Submitted
  <2>2. \A s \in Finished : s \in Status BY DEF Status
  <2>3. Revived(j) => revived' \in SUBSET Workload BY <1>1 DEF Revived
  <2> HIDE DEF Agent, Stop
  <2>4. "runs" \in Agent /\ "over" \in Agent /\ "no" \in Stop /\ "checked" \in Stop
    BY DEF Agent, Stop
  <2>5. TypedServer
    BY <1>1, <1>13, <1>15, <2>2, <2>3, <2>4
    DEF ReportRunning, ReportEnd, Report, Sweep, CancelCheck, CancelCommit, Submitted,
        TypedServer
  <2>6. TypedRest BY <1>12, <2>1 DEF TypedRest
  <2> QED BY <1>8, <1>9, <1>10, <1>11, <2>1, <2>5, <2>6
<1>16. ASSUME NEW j \in Workload, RerunMade(j)
       PROVE  TypedServer /\ TypedAsked /\ TypedList /\ TypedViewing /\ TypedDialogs /\ TypedRest
  <2>1. TypedServer BY <1>1, <1>13, <1>16 DEF RerunMade, TypedServer
  <2>2. TypedDialogs BY <1>5, <1>16 DEF RerunMade, TypedDialogs
  <2>3. TypedRest BY <1>12, <1>16 DEF RerunMade, TypedRest
  <2> QED BY <1>8, <1>9, <1>10, <1>16, <2>1, <2>2, <2>3 DEF RerunMade
<1>17. CASE Load
  <2>1. TypedAsked BY <1>2, <1>17, BoundAssumption DEF Load, TypedAsked
  <2>2. TypedRest BY <1>12, <1>17 DEF Load, TypedRest
  <2> QED BY <1>7, <1>9, <1>10, <1>11, <1>17, <2>1, <2>2 DEF Load
<1>18. CASE Read
  <2> DEFINE a == [jobs |-> status, late |-> FALSE]
  <2>1. a \in Answer BY <1>1 DEF Answer
  <2>2. asked > 0 /\ asked' = asked - 1 /\ answers' = Append(answers, a) BY <1>18 DEF Read
  <2> HIDE DEF a
  <2>3. answers' \in Seq(Answer) /\ Len(answers') = Len(answers) + 1
    BY <1>2, <2>1, <2>2, AppendProperties
  <2>4. TypedAsked BY <1>2, <2>2, <2>3 DEF TypedAsked
  <2>5. TypedRest BY <1>12, <1>18 DEF Read, TypedRest
  <2> QED BY <1>7, <1>9, <1>10, <1>11, <1>18, <2>4, <2>5 DEF Read
<1>19. ASSUME NEW k \in 1 .. Len(answers), NEW s \in Seq(Answer), Len(s) = Len(answers) - 1,
              answers' = s, UNCHANGED asked
       PROVE  TypedAsked
  BY <1>2, <1>19, BoundAssumption DEF TypedAsked
<1>20. CASE LoadFails
  <2>1. TypedAsked
    <3>1. CASE asked > 0 /\ asked' = asked - 1 /\ UNCHANGED answers
      BY <1>2, <3>1, BoundAssumption DEF TypedAsked
    <3>2. ASSUME NEW k \in DOMAIN answers, answers' = RemoveAt(answers, k), UNCHANGED asked
          PROVE  TypedAsked
      <4>1. k \in 1 .. Len(answers) BY PlacesOfTheLists
      <4>2. RemoveAt(answers, k) \in Seq(Answer) /\ Len(RemoveAt(answers, k)) = Len(answers) - 1
        BY <1>2, <4>1, RemovedOne
      <4> QED BY <1>19, <3>2, <4>1, <4>2
    <3> QED BY <1>20, <3>1, <3>2 DEF LoadFails
  <2>2. TypedRest BY <1>12, <1>20 DEF LoadFails, TypedRest
  <2> QED BY <1>7, <1>9, <1>10, <1>11, <1>20, <2>1, <2>2 DEF LoadFails
<1>21. ASSUME NEW k \in 1..MaxLoads, Deliver(k)
       PROVE  TypedServer /\ TypedAsked /\ TypedList /\ TypedViewing /\ TypedDialogs /\ TypedRest
  <2>1. k \in 1 .. Len(answers) BY <1>21, PlacesOfTheLists DEF Deliver
  <2>2. answers' = Without(k) /\ asked' = asked /\ UNCHANGED <<server, viewing, dialogs, open, moves, faults>>
    BY <1>21 DEF Deliver
  <2>3. TypedAsked BY <1>19, <2>1, <2>2, TakenIs
  <2> PICK jobs : jobs = answers[k].jobs OBVIOUS
  <2>4. jobs \in [Workload -> Status]
    <3>1. answers[k] \in Answer BY <2>1, TypesOfTheLists
    <3> QED BY <3>1 DEF Answer
  <2>5. shown' = jobs /\ Notice(jobs) BY <1>21 DEF Deliver
  <2>6. due' \in SUBSET Workload BY <1>21 DEF Deliver
  <2>7. crossed' \in BOOLEAN
    <3>1. crossed' = (crossed \/ answers[k].late) BY <1>21 DEF Deliver
    <3> QED BY <3>1, Zenon
  <2>8. prev' \in [Workload -> Status] /\ notices' \in [Workload -> Nat]
    BY <1>3, <2>4, <2>5 DEF Notice
  <2>9. TypedList BY <2>4, <2>5, <2>6, <2>7, <2>8 DEF TypedList
  <2>10. TypedRest BY <1>12, <2>2 DEF TypedRest
  <2> QED BY <1>7, <1>10, <1>11, <2>2, <2>3, <2>9, <2>10
<1>22. ASSUME NEW j \in Workload, View(j)
       PROVE  TypedServer /\ TypedAsked /\ TypedList /\ TypedViewing /\ TypedDialogs /\ TypedRest
  <2>1. mixed' \in BOOLEAN
    <3>1. mixed' = \E i \in Workload \ {j} : logCalls[i] > 0 BY <1>22 DEF View
    <3> QED BY <3>1, Zenon
  <2>2. TypedViewing BY <1>4, <1>22, <2>1 DEF View, TypedViewing
  <2>3. TypedRest BY <1>12, <1>22 DEF View, TypedRest
  <2> QED BY <1>7, <1>8, <1>9, <1>11, <1>22, <2>2, <2>3 DEF View
<1>23. ASSUME NEW j \in Workload, NEW t \in {j, Nothing}, LogsCome(j, t), UNCHANGED faults \/ Fault
       PROVE  TypedServer /\ TypedAsked /\ TypedList /\ TypedViewing /\ TypedDialogs /\ TypedRest
  <2>1. logCalls' \in [Workload -> Nat] BY <1>4, <1>23 DEF LogsCome
  <2>2. TypedViewing BY <1>4, <1>23, <2>1 DEF LogsCome, TypedViewing
  <2>3. TypedRest BY <1>12, <1>23 DEF LogsCome, TypedRest
  <2> QED BY <1>7, <1>8, <1>9, <1>11, <1>23, <2>2, <2>3 DEF LogsCome
<1>24. CASE CloseViewer
  <2>1. TypedViewing BY <1>4, <1>24 DEF CloseViewer, TypedViewing
  <2>2. TypedRest BY <1>12, <1>24 DEF CloseViewer, TypedRest
  <2> QED BY <1>7, <1>8, <1>9, <1>11, <1>24, <2>1, <2>2 DEF CloseViewer
<1>25. ASSUME CloseDrawer \/ Dismiss \/ Confirm \/ CallFails
              \/ \E j \in Workload : Select(j) \/ \E kind \in {"stop", "rerun"} : Ask(kind, j)
       PROVE  TypedServer /\ TypedAsked /\ TypedList /\ TypedViewing /\ TypedDialogs /\ TypedRest
  <2>1. /\ UNCHANGED <<asked, answers, shown, prev, notices, due, crossed, viewing, open>>
        /\ (UNCHANGED moves \/ Acts) /\ (UNCHANGED faults \/ Fault)
        /\ UNCHANGED <<status, agent, revived>>
    BY <1>25 DEF CloseDrawer, Dismiss, Confirm, CallFails, Select, Ask, Acts
  <2>2. stop' \in [Workload -> Stop]
    <3>1. "no" \in Stop /\ "asked" \in Stop OBVIOUS
    <3> HIDE DEF Stop
    <3>2. CASE Confirm
      <4>1. UNCHANGED stop \/ (dialog # Nothing /\
              stop' = [stop EXCEPT ![dialog.job] = IF @ = "no" THEN "asked" ELSE @])
        BY <3>2 DEF Confirm
      <4> QED BY <1>1, <3>1, <4>1
    <3>3. CASE CallFails
      BY <1>1, <3>1, <3>3 DEF CallFails
    <3> QED BY <1>1, <1>25, <3>2, <3>3 DEF CloseDrawer, Dismiss, Select, Ask
  <2>3. TypedServer BY <1>1, <2>1, <2>2 DEF TypedServer
  <2>4. TypedDialogs
    <3>1. ASSUME NEW j \in Workload, Select(j) PROVE TypedDialogs
      <4>1. shown[j] \in Status \ {"none"} BY <1>3, <3>1 DEF Select
      <4>2. drawer' \in Drawer BY <3>1, <4>1 DEF Select
      <4> QED BY <1>5, <3>1, <4>2 DEF Select, TypedDialogs
    <3>2. ASSUME NEW j \in Workload, NEW kind \in {"stop", "rerun"}, Ask(kind, j)
          PROVE  TypedDialogs
      BY <1>5, <3>2 DEF Ask, TypedDialogs
    <3>3. CASE CloseDrawer \/ Dismiss \/ Confirm \/ CallFails
      BY <1>5, <3>3 DEF CloseDrawer, Dismiss, Confirm, CallFails, TypedDialogs
    <3> QED BY <1>25, <3>1, <3>2, <3>3
  <2>5. TypedRest BY <1>12, <2>1 DEF TypedRest
  <2> QED BY <1>8, <1>9, <1>10, <2>1, <2>3, <2>4, <2>5
<1>26. CASE Leave
  <2>1. TypedAsked
    <3>1. asked' = 0 /\ answers' = <<>> BY <1>26 DEF Leave
    <3> QED BY <3>1, EmptySeq, BoundAssumption DEF TypedAsked
  <2>2. TypedList BY <1>14, <1>26 DEF Leave, TypedList
  <2>3. TypedViewing BY <1>4, <1>26 DEF Leave, TypedViewing
  <2>4. TypedRest
    <3>1. open' \in BOOLEAN BY <1>26 DEF Leave
    <3> QED BY <1>12, <1>26, <3>1 DEF Leave, TypedRest
  <2> QED BY <1>7, <1>11, <1>26, <2>1, <2>2, <2>3, <2>4 DEF Leave
<1>27. CASE Return
  <2>1. TypedAsked
    <3>1. asked' = 1 /\ answers' = answers /\ answers = <<>> BY <1>27 DEF Return
    <3> QED BY <1>2, <3>1, EmptySeq, BoundAssumption DEF TypedAsked
  <2>2. TypedRest BY <1>12, <1>27 DEF Return, TypedRest
  <2> QED BY <1>7, <1>9, <1>10, <1>11, <1>27, <2>1, <2>2 DEF Return
<1>28. CASE UNCHANGED workloadsVars
  <2>1. TypedRest BY <1>12, <1>28 DEF TypedRest
  <2> QED BY <1>7, <1>8, <1>9, <1>10, <1>11, <1>28, <2>1
<1> QED BY <1>15, <1>16, <1>17, <1>18, <1>20, <1>21, <1>22, <1>23, <1>24, <1>25, <1>26,
           <1>27, <1>28 DEF WorkloadsNext

-----------------------------------------------------------------------------
(* The server, the lists, and what they say.                               *)

\* A workload does not leave the list, and one that has ended only if revived.
LEMMA StatusGoesOn ==
  ASSUME WorkloadsTypeOK, [WorkloadsNext]_workloadsVars
  PROVE  /\ revived \subseteq revived'
         /\ \A j \in Workload :
              /\ status[j] # "none" => status'[j] # "none"
              /\ status[j] \in Finished /\ j \notin revived' => status'[j] \in Finished
<1>1. status \in [Workload -> Status] BY DEF WorkloadsTypeOK
<1>2. ASSUME NEW j \in Workload, NEW s \in Finished \cup {"running", "cancelled"}, Revived(j),
             status' = [status EXCEPT ![j] = s]
      PROVE  /\ revived \subseteq revived'
             /\ \A i \in Workload :
                  /\ status[i] # "none" => status'[i] # "none"
                  /\ status[i] \in Finished /\ i \notin revived' => status'[i] \in Finished
  BY <1>1, <1>2 DEF Revived, Finished
<1>3. CASE \E j \in Workload : ReportRunning(j) \/ CancelCommit(j)
                               \/ \E s \in Finished : ReportEnd(j, s)
  BY <1>2, <1>3 DEF ReportRunning, CancelCommit, ReportEnd, Report
<1>4. CASE \E j \in Workload : Sweep(j)
  BY <1>1, <1>4 DEF Sweep, Active, Finished
<1>5. CASE \E j \in Workload : Submitted(j) \/ RerunMade(j)
  BY <1>1, <1>5 DEF Submitted, RerunMade, Finished
<1>6. CASE UNCHANGED <<status, revived>>
  BY <1>6
<1>7. CASE \E j \in Workload :
             \/ CancelCheck(j) \/ View(j) \/ Select(j)
             \/ LogsCome(j, j) \/ LogsCome(j, Nothing)
             \/ \E kind \in {"stop", "rerun"} : Ask(kind, j)
  BY <1>6, <1>7 DEF CancelCheck, View, Select, LogsCome, Ask
<1>8. CASE Load \/ Read \/ LoadFails \/ CloseViewer \/ CloseDrawer \/ Dismiss
           \/ Confirm \/ CallFails \/ Leave \/ Return \/ \E k \in 1..MaxLoads : Deliver(k)
  BY <1>6, <1>8
  DEF Load, Read, LoadFails, CloseViewer, CloseDrawer, Dismiss, Confirm, CallFails, Leave,
      Return, Deliver
<1>9. CASE UNCHANGED workloadsVars
  BY <1>6, <1>9
<1> QED BY <1>3, <1>4, <1>5, <1>7, <1>8, <1>9 DEF WorkloadsNext

\* The lists are the same, and the server has gone on.
LEMMA OrderStays ==
  ASSUME WorkloadsTypeOK, InOrder, [WorkloadsNext]_workloadsVars, UNCHANGED <<answers, prev>>
  PROVE  InOrder'
<1>1. /\ revived \subseteq revived'
      /\ \A j \in Workload :
           /\ status[j] # "none" => status'[j] # "none"
           /\ status[j] \in Finished /\ j \notin revived' => status'[j] \in Finished
  BY StatusGoesOn
<1> QED BY <1>1 DEF InOrder, Later

LEMMA OrderOf ==
  ASSUME NEW s, NEW p, s = answers', p = prev', UNCHANGED <<status, revived>>,
         \A i, k \in DOMAIN s : i < k => Later(s[i].jobs, s[k].jobs),
         \A k \in DOMAIN s : Later(s[k].jobs, status),
         Later(p, status),
         \A k \in DOMAIN s : ~ s[k].late => Later(p, s[k].jobs)
  PROVE  InOrder'
BY DEF InOrder, Later

LEMMA ReadKeepsOrder == ASSUME WorkloadsTypeOK, InOrder, Read PROVE InOrder'
<1> DEFINE a == [jobs |-> status, late |-> FALSE]
           n == Len(answers)
<1> PICK s : s = answers' OBVIOUS
<1>1. s = Append(answers, a) /\ prev' = prev /\ UNCHANGED <<status, revived>> BY DEF Read
<1>2. a \in Answer /\ a.jobs = status /\ a.late = FALSE BY DEF WorkloadsTypeOK, Answer
<1> HIDE DEF a
<1>3. answers \in Seq(Answer) BY TypesOfTheLists
<1>4. /\ s \in Seq(Answer) /\ Len(s) = n + 1
      /\ \A i \in 1 .. n : s[i] = answers[i]
      /\ s[n + 1] = a
  BY <1>1, <1>2, <1>3, AppendProperties
<1>5. n \in Nat /\ DOMAIN answers = 1 .. n /\ DOMAIN s = 1 .. n + 1
  <2>1. DOMAIN s = 1 .. n + 1 BY <1>4, LenProperties
  <2> QED BY <2>1, TypesOfTheLists, PlacesOfTheLists
<1> HIDE DEF n
<1>6. \A i \in DOMAIN s : i \in DOMAIN answers \/ i = n + 1 BY <1>5
<1>7. \A i, k \in DOMAIN s : i < k => Later(s[i].jobs, s[k].jobs)
  <2> TAKE i, k \in DOMAIN s
  <2> HAVE i < k
  <2>1. i \in 1 .. n BY <1>5
  <2>2. CASE k = n + 1
    BY <1>2, <1>4, <1>5, <2>1, <2>2 DEF InOrder
  <2>3. CASE k \in 1 .. n
    BY <1>4, <1>5, <2>1, <2>3 DEF InOrder
  <2> QED BY <1>5, <2>2, <2>3
<1>8. Later(status, status) BY DEF Later
<1>9. \A k \in DOMAIN s : Later(s[k].jobs, status)
  BY <1>2, <1>4, <1>5, <1>6, <1>8 DEF InOrder
<1>10. \A k \in DOMAIN s : ~ s[k].late => Later(prev, s[k].jobs)
  BY <1>2, <1>4, <1>5, <1>6 DEF InOrder
<1>11. Later(prev, status) BY DEF InOrder
<1> QED BY <1>1, <1>7, <1>9, <1>10, <1>11, OrderOf

LEMMA TakingKeepsOrder ==
  ASSUME WorkloadsTypeOK, InOrder, NEW k \in 1 .. Len(answers), UNCHANGED <<status, revived>>,
         \/ answers' = Without(k) /\ (prev' = prev \/ prev' = answers[k].jobs)
         \/ answers' = RemoveAt(answers, k) /\ prev' = prev
  PROVE  InOrder'
<1> DEFINE n == Len(answers)
           at(i) == IF i < k THEN i ELSE i + 1
<1> PICK s : s = answers' OBVIOUS
<1> PICK p : p = prev' OBVIOUS
<1>1. n \in Nat /\ k \in 1 .. n BY TypesOfTheLists
<1>2. /\ s \in Seq(Answer) /\ Len(s) = n - 1
      /\ \A i \in 1 .. n - 1 : s[i].jobs = answers[at(i)].jobs
      /\ \A i \in 1 .. n - 1 : ~ s[i].late => ~ answers[at(i)].late
      /\ p = prev \/ (p = answers[k].jobs /\ \A i \in 1 .. n - 1 : ~ s[i].late => ~ (at(i) < k))
  <2>1. CASE s = Without(k) /\ (p = prev \/ p = answers[k].jobs)
    <3>1. /\ s \in Seq(Answer) /\ Len(s) = n - 1
          /\ \A i \in 1 .. n - 1 :
              LET j == IF i < k THEN i ELSE i + 1
              IN  /\ s[i].jobs = answers[j].jobs
                  /\ s[i].late <=> answers[j].late \/ j < k
      BY <2>1, TakenIs, Zenon
    <3> HIDE DEF n
    <3> QED BY <2>1, <3>1
  <2>2. CASE s = RemoveAt(answers, k) /\ p = prev
    <3>1. answers \in Seq(Answer) BY TypesOfTheLists
    <3>2. /\ s \in Seq(Answer) /\ Len(s) = n - 1
          /\ \A i \in 1 .. n - 1 : s[i] = IF i < k THEN answers[i] ELSE answers[i + 1]
      BY <2>2, <3>1, RemovedOne
    <3> HIDE DEF n
    <3> QED BY <2>2, <3>2
  <2> QED BY <2>1, <2>2
<1>3. DOMAIN s = 1 .. n - 1 BY <1>2, LenProperties
<1>4. DOMAIN answers = 1 .. n BY PlacesOfTheLists
<1> HIDE DEF n
<1>5. /\ \A i \in 1 .. n - 1 : at(i) \in 1 .. n /\ (at(i) < k \/ k < at(i))
      /\ \A i, l \in 1 .. n - 1 : i < l => at(i) < at(l)
  BY <1>1
<1> HIDE DEF at
<1>6. \A i, l \in DOMAIN s : i < l => Later(s[i].jobs, s[l].jobs)
  BY <1>2, <1>3, <1>4, <1>5 DEF InOrder
<1>7. \A i \in DOMAIN s : Later(s[i].jobs, status)
  BY <1>2, <1>3, <1>4, <1>5 DEF InOrder
<1>8. Later(p, status)
  BY <1>1, <1>2, <1>4 DEF InOrder
<1>9. \A i \in DOMAIN s : ~ s[i].late => Later(p, s[i].jobs)
  <2> TAKE i \in DOMAIN s
  <2> HAVE ~ s[i].late
  <2>1. at(i) \in DOMAIN answers /\ k \in DOMAIN answers /\ i \in 1 .. n - 1
    BY <1>1, <1>3, <1>4, <1>5
  <2>2. s[i].jobs = answers[at(i)].jobs /\ ~ answers[at(i)].late BY <1>2, <2>1
  <2>3. Later(prev, s[i].jobs) BY <2>1, <2>2 DEF InOrder
  <2>4. ~ (at(i) < k) => Later(answers[k].jobs, s[i].jobs) BY <1>5, <2>1, <2>2 DEF InOrder
  <2> QED BY <1>2, <2>1, <2>3, <2>4
<1> QED BY <1>6, <1>7, <1>8, <1>9, OrderOf

LEMMA ListsStep ==
  ASSUME WorkloadsTypeOK, ListsFit, [WorkloadsNext]_workloadsVars
  PROVE  ListsFit'
<1>1. InOrder /\ asked \in Nat /\ (~ open => asked = 0 /\ answers = <<>>) BY DEF ListsFit
<1>2. asked' \in Nat BY <1>1, WorkloadsTypes
<1>3. CASE UNCHANGED <<answers, prev, asked, open>>
  BY <1>1, <1>3, OrderStays DEF ListsFit
<1>4. CASE \E j \in Workload :
             \/ ReportRunning(j) \/ Sweep(j) \/ CancelCheck(j) \/ CancelCommit(j)
             \/ Submitted(j) \/ RerunMade(j) \/ View(j) \/ Select(j)
             \/ LogsCome(j, j) \/ LogsCome(j, Nothing)
             \/ (\E s \in Finished : ReportEnd(j, s))
             \/ \E kind \in {"stop", "rerun"} : Ask(kind, j)
  BY <1>3, <1>4
  DEF ReportRunning, ReportEnd, Report, Sweep, CancelCheck, CancelCommit, Submitted,
      RerunMade, View, Select, LogsCome, Ask
<1>5. CASE CloseViewer \/ CloseDrawer \/ Dismiss \/ Confirm \/ CallFails
  BY <1>3, <1>5 DEF CloseViewer, CloseDrawer, Dismiss, Confirm, CallFails
<1>6. CASE Load \/ Return
  <2>1. UNCHANGED <<answers, prev>> /\ open' BY <1>6 DEF Load, Return
  <2> QED BY <1>1, <1>2, <2>1, OrderStays DEF ListsFit
<1>7. CASE Read
  <2>1. open' = open /\ (open \/ asked > 0) /\ asked > 0 BY <1>7 DEF Read
  <2>2. open BY <1>1, <2>1
  <2> QED BY <1>1, <1>2, <1>7, <2>1, <2>2, ReadKeepsOrder DEF ListsFit
<1>8. CASE LoadFails
  <2>1. open' = open /\ UNCHANGED <<status, revived, prev>> BY <1>8 DEF LoadFails
  <2>2. UNCHANGED answers \/ \E k \in 1 .. Len(answers) : answers' = RemoveAt(answers, k)
    BY <1>8, PlacesOfTheLists DEF LoadFails
  <2>3. InOrder' BY <1>1, <2>1, <2>2, OrderStays, TakingKeepsOrder
  <2>4. open
    <3>1. asked > 0 \/ \E k \in DOMAIN answers : TRUE BY <1>8 DEF LoadFails
    <3> QED BY <1>1, <3>1
  <2> QED BY <1>2, <2>1, <2>3, <2>4 DEF ListsFit
<1>9. ASSUME NEW k \in 1..MaxLoads, Deliver(k) PROVE ListsFit'
  <2>1. k \in DOMAIN answers /\ k \in 1 .. Len(answers) BY <1>9, PlacesOfTheLists DEF Deliver
  <2>2. /\ answers' = Without(k) /\ open' = open /\ UNCHANGED <<status, revived>>
        /\ prev' = prev \/ prev' = answers[k].jobs
    BY <1>9 DEF Deliver, Notice
  <2>3. InOrder' BY <1>1, <2>1, <2>2, TakingKeepsOrder
  <2>4. open BY <1>1, <2>1
  <2> QED BY <1>2, <2>2, <2>3, <2>4 DEF ListsFit
<1>10. CASE Leave
  <2>1. asked' = 0 /\ answers' = <<>> /\ prev' = NoneYet /\ UNCHANGED <<status, revived>>
    BY <1>10 DEF Leave
  <2>2. InOrder' BY <2>1 DEF InOrder, Later, NoneYet, Finished
  <2> QED BY <1>2, <2>1, <2>2 DEF ListsFit
<1>11. CASE UNCHANGED workloadsVars
  BY <1>3, <1>11
<1> QED BY <1>4, <1>5, <1>6, <1>7, <1>8, <1>9, <1>10, <1>11 DEF WorkloadsNext

-----------------------------------------------------------------------------
(* The notices and the logs.                                               *)

LEMMA DeliverNotices ==
  ASSUME WorkloadsTypeOK, ListsFit, NoticesFit, NEW k, Deliver(k)
  PROVE  NoticesFit'
<1> PICK jobs : jobs = answers[k].jobs OBVIOUS
<1>1. /\ k \in DOMAIN answers /\ Notice(jobs) /\ UNCHANGED revived
      /\ due' = {j \in Workload : jobs[j] \in Active \/ (j \in due /\ jobs[j] # "cancelled")}
      /\ crossed' = (crossed \/ answers[k].late)
  BY DEF Deliver
<1> SUFFICES ASSUME ~ crossed', NEW j \in Workload
             PROVE  /\ j \in due' => prev'[j] \in Active \cup Finished
                    /\ j \in due' /\ prev'[j] \in Finished => notices'[j] > 0
                    /\ j \notin revived' =>
                         notices'[j] <= 1 /\ (notices'[j] = 1 => prev'[j] \in Finished)
  BY DEF NoticesFit
<1>2. ~ crossed /\ ~ answers[k].late BY <1>1, Zenon
<1>3. /\ j \in due => prev[j] \in Active \cup Finished
      /\ j \in due /\ prev[j] \in Finished => notices[j] > 0
      /\ j \notin revived => notices[j] <= 1 /\ (notices[j] = 1 => prev[j] \in Finished)
  BY <1>2 DEF NoticesFit
<1>4. /\ prev[j] # "none" => jobs[j] # "none"
      /\ prev[j] \in Finished /\ j \notin revived => jobs[j] \in Finished
  BY <1>1, <1>2 DEF ListsFit, InOrder, Later
<1>5. jobs \in [Workload -> Status] /\ prev \in [Workload -> Status]
      /\ notices \in [Workload -> Nat]
  <2>1. k \in 1 .. Len(answers) BY <1>1, PlacesOfTheLists
  <2>2. answers[k] \in Answer BY <2>1, TypesOfTheLists
  <2> QED BY <2>2 DEF Answer, WorkloadsTypeOK
<1>6. j \in due' <=> jobs[j] \in Active \/ (j \in due /\ jobs[j] # "cancelled") BY <1>1
<1>7. CASE jobs = NoneYet
  <2>1. jobs[j] = "none" BY <1>7 DEF NoneYet
  <2>2. j \in due' => j \in due BY <1>6, <2>1 DEF Active
  <2>3. prev' = prev /\ notices' = notices BY <1>1, <1>7 DEF Notice
  <2> QED BY <1>1, <1>3, <2>2, <2>3
<1>8. CASE jobs # NoneYet
  <2>1. /\ prev' = jobs
        /\ notices'[j] = IF prev[j] \in Active /\ jobs[j] \in Finished
                         THEN notices[j] + 1 ELSE notices[j]
    BY <1>1, <1>8 DEF Notice, Ended
  <2>2. notices[j] \in Nat /\ jobs[j] \in Status BY <1>5
  <2>3. j \in due' => jobs[j] \in Active \cup Finished
    BY <1>3, <1>4, <1>6, <2>2 DEF Status, Active, Finished
  <2>4. j \in due' /\ jobs[j] \in Finished => notices'[j] > 0
    BY <1>3, <1>6, <2>1, <2>2 DEF Active, Finished
  <2>5. j \notin revived => notices'[j] <= 1 /\ (notices'[j] = 1 => jobs[j] \in Finished)
    BY <1>3, <1>4, <2>1, <2>2 DEF Active, Finished
  <2> QED BY <1>1, <2>1, <2>3, <2>4, <2>5
<1> QED BY <1>7, <1>8

LEMMA NoticesStep ==
  ASSUME WorkloadsTypeOK, ListsFit, NoticesFit, [WorkloadsNext]_workloadsVars
  PROVE  NoticesFit'
<1>1. revived \subseteq revived' BY StatusGoesOn
<1>2. CASE UNCHANGED <<prev, notices, due, crossed>>
  BY <1>1, <1>2 DEF NoticesFit
<1>3. CASE \E j \in Workload :
             \/ ReportRunning(j) \/ Sweep(j) \/ CancelCheck(j) \/ CancelCommit(j)
             \/ Submitted(j) \/ RerunMade(j) \/ View(j) \/ Select(j)
             \/ LogsCome(j, j) \/ LogsCome(j, Nothing)
             \/ (\E s \in Finished : ReportEnd(j, s))
             \/ \E kind \in {"stop", "rerun"} : Ask(kind, j)
  BY <1>2, <1>3
  DEF ReportRunning, ReportEnd, Report, Sweep, CancelCheck, CancelCommit, Submitted,
      RerunMade, View, Select, LogsCome, Ask
<1>4. CASE Load \/ Read \/ LoadFails \/ CloseViewer \/ CloseDrawer \/ Dismiss
           \/ Confirm \/ CallFails \/ Return
  BY <1>2, <1>4
  DEF Load, Read, LoadFails, CloseViewer, CloseDrawer, Dismiss, Confirm, CallFails, Return
<1>5. CASE Leave
  <2>1. due' = {} /\ notices' = [j \in Workload |-> 0] BY <1>5 DEF Leave
  <2> QED BY <2>1 DEF NoticesFit
<1>6. CASE UNCHANGED workloadsVars
  BY <1>2, <1>6
<1> QED BY <1>3, <1>4, <1>5, <1>6, DeliverNotices DEF WorkloadsNext

\* The text and the flag are those of the viewer, whoever asked.
LEMMA ViewerStep ==
  ASSUME WorkloadsTypeOK, ViewerFits, [WorkloadsNext]_workloadsVars
  PROVE  ViewerFits'
<1>1. viewer \in Workload \cup {Nothing} /\ logCalls \in [Workload -> Nat]
  BY DEF WorkloadsTypeOK
<1>2. CASE UNCHANGED viewing
  BY <1>2 DEF ViewerFits
<1>3. CASE \E j \in Workload :
             \/ ReportRunning(j) \/ Sweep(j) \/ CancelCheck(j) \/ CancelCommit(j)
             \/ Submitted(j) \/ RerunMade(j) \/ Select(j)
             \/ (\E s \in Finished : ReportEnd(j, s))
             \/ \E kind \in {"stop", "rerun"} : Ask(kind, j)
  BY <1>2, <1>3
  DEF ReportRunning, ReportEnd, Report, Sweep, CancelCheck, CancelCommit, Submitted,
      RerunMade, Select, Ask
<1>4. CASE Load \/ Read \/ LoadFails \/ CloseDrawer \/ Dismiss
           \/ Confirm \/ CallFails \/ Return \/ \E k \in 1..MaxLoads : Deliver(k)
  BY <1>2, <1>4
  DEF Load, Read, LoadFails, CloseDrawer, Dismiss, Confirm, CallFails, Return, Deliver
<1>5. ASSUME NEW j \in Workload, View(j) PROVE ViewerFits'
  <2>1. /\ viewer' = j /\ loading' = TRUE /\ logCalls' = [logCalls EXCEPT ![j] = @ + 1]
        /\ mixed' = \E i \in Workload \ {j} : logCalls[i] > 0
    BY <1>5 DEF View
  <2>2. ~ mixed' => \A i \in Workload \ {j} : ~ (logCalls[i] > 0) BY <2>1, Zenon
  <2>3. \A i \in Workload \ {j} : logCalls'[i] = logCalls[i] BY <1>1, <2>1
  <2> QED BY <2>1, <2>2, <2>3 DEF ViewerFits
<1>6. ASSUME NEW j \in Workload, NEW t \in {j, Nothing}, LogsCome(j, t) PROVE ViewerFits'
  <2>1. /\ logCalls[j] > 0 /\ logCalls' = [logCalls EXCEPT ![j] = @ - 1]
        /\ text' = t /\ UNCHANGED <<viewer, mixed>>
    BY <1>6 DEF LogsCome
  <2>2. \A i \in Workload : logCalls'[i] > 0 => logCalls[i] > 0 BY <1>1, <2>1
  <2> QED BY <2>1, <2>2 DEF ViewerFits
<1>7. CASE CloseViewer \/ Leave
  <2>1. viewer' = Nothing BY <1>7 DEF CloseViewer, Leave, Uncovered
  <2> QED BY <2>1 DEF ViewerFits
<1>8. CASE UNCHANGED workloadsVars
  BY <1>2, <1>8
<1> QED BY <1>3, <1>4, <1>5, <1>6, <1>7, <1>8 DEF WorkloadsNext

-----------------------------------------------------------------------------
(* The list of workloads.                                                  *)

LEMMA WorkloadsStep == IInvWorkloads /\ [WorkloadsNext]_workloadsVars => IInvWorkloads'
<1> SUFFICES ASSUME IInvWorkloads, [WorkloadsNext]_workloadsVars PROVE IInvWorkloads'
  OBVIOUS
<1>1. WorkloadsTypeOK' BY WorkloadsTypes DEF IInvWorkloads, ListsFit
<1>2. ListsFit' BY ListsStep DEF IInvWorkloads
<1>3. NoticesFit' BY NoticesStep DEF IInvWorkloads
<1>4. ViewerFits' BY ViewerStep DEF IInvWorkloads
<1> QED BY <1>1, <1>2, <1>3, <1>4 DEF IInvWorkloads

LEMMA WorkloadsHold == IInvWorkloads => ListIsTrue
<1> SUFFICES ASSUME IInvWorkloads PROVE NoticedOnce /\ LogsAreTheViewers
  BY DEF ListIsTrue
<1>1. notices \in [Workload -> Nat] BY DEF IInvWorkloads, WorkloadsTypeOK
<1>2. NoticedOnce BY <1>1 DEF IInvWorkloads, NoticesFit, NoticedOnce
<1>3. LogsAreTheViewers
  <2>1. viewer # Nothing /\ ~ loading /\ text # Nothing /\ ~ mixed => text = viewer
    BY DEF IInvWorkloads, ViewerFits
  <2> QED BY <2>1, Zenon DEF LogsAreTheViewers
<1> QED BY <1>2, <1>3

LEMMA InvariantWorkloads == WorkloadsSpec => []IInvWorkloads
<1>1. WorkloadsInit => IInvWorkloads BY WorkloadsStart
<1>2. IInvWorkloads /\ [WorkloadsNext]_workloadsVars => IInvWorkloads' BY WorkloadsStep
<1> QED BY <1>1, <1>2, PTL DEF WorkloadsSpec

\* A workload that ended is announced, and once, and the logs under its name are
\* its own, but for lists that crossed, a status that was taken back, and logs
\* of two workloads asked for at once (useJobNotifications, fetchLogs).
THEOREM WhatTheListSays == WorkloadsSpec => []ListIsTrue
BY InvariantWorkloads, WorkloadsHold, PTL

-----------------------------------------------------------------------------
(* One side at a time (MCJobs).                                            *)

\* What each side keeps, whichever is followed.
IInvFiles ==
  /\ TypeOK /\ RowWhenDone /\ CleaningStale /\ UploadStored /\ PathsStored
  /\ WantsAll /\ CopiesKnown /\ OrphansHaveACause

IInvJobs == side \in {"server", "client"} /\ IInvFiles /\ IInvWorkloads

LEMMA FilesStart == Init => IInvFiles
BY NoneAssumption
   DEF Init, IInvFiles, TypeOK, Row, PC, RowWhenDone, CleaningStale, UploadStored, PathsStored,
       WantsAll, CopiesKnown, CopyKnown, OrphansHaveACause

LEMMA FilesStep == IInvFiles /\ [Next]_vars => IInvFiles'
BY TypeStep, RowStep, CleaningStep, PathsStep, WantsStep, CopiesStep DEF IInvFiles

LEMMA InvariantJobs == JobsSpec => []IInvJobs
<1>1. JobsInit => IInvJobs
  BY FilesStart, WorkloadsStart DEF JobsInit, IInvJobs
<1>2. IInvJobs /\ [JobsNext]_jobsVars => IInvJobs'
  <2> SUFFICES ASSUME IInvJobs, [JobsNext]_jobsVars PROVE IInvJobs'
    OBVIOUS
  <2>1. /\ [Next]_vars /\ [WorkloadsNext]_workloadsVars
        /\ UNCHANGED side
    BY DEF JobsNext, jobsVars
  <2> QED BY <2>1, FilesStep, WorkloadsStep DEF IInvJobs
<1> QED BY <1>1, <1>2, PTL DEF JobsSpec

\* The variables of the side that is followed keep their types.
THEOREM JobsTypeCorrect == JobsSpec => []JobsTypeOK
<1>1. IInvJobs => JobsTypeOK
  BY DEF IInvJobs, IInvFiles, IInvWorkloads, JobsTypeOK
<1> QED BY <1>1, InvariantJobs, PTL

\* Whichever side is followed, what is promised of each holds.
THEOREM JobsKeepTheirWord == JobsSpec => [](RowsMatchFiles /\ RerunIsWhole /\ ListIsTrue)
<1>1. IInvFiles => RowsMatchFiles /\ RerunIsWhole
  BY DEF IInvFiles, RowWhenDone, PathsStored, WantsAll, FilesPresent, RowsMatchFiles, RerunIsWhole
<1>2. IInvJobs => RowsMatchFiles /\ RerunIsWhole /\ ListIsTrue
  BY <1>1, WorkloadsHold DEF IInvJobs
<1> QED BY <1>2, InvariantJobs, PTL
===============================================================================
