------------------------------ MODULE Workspace ------------------------------
(***************************************************************************)
(* Composing and submitting a workload in the client's dashboard:          *)
(* context/WorkloadContext.jsx (the state, which outlives the page),       *)
(* pages/ClientDashboard.jsx (uploads, submission, reset), and the         *)
(* components UploadDropzone, ScriptEditor, DatasetUpload, GpuPreference,  *)
(* ExecutionWorkspace (templates) and GpuMarketplace.                      *)
(*                                                                         *)
(* An uploaded file is shown at once, its text comes later from a          *)
(* FileReader; a template arrives file by file; a submission sends the     *)
(* text under the file's name and empties the workspace when it succeeds,  *)
(* whatever the workspace holds by then.  A file stands for its name and   *)
(* its text; Work are the sources that files come from.                    *)
(***************************************************************************)
EXTENDS Naturals, FiniteSets

CONSTANTS
  Own,          \* workloads the person has on disk
  Template,     \* the Quick Start examples
  WithDataset,  \* the templates that bring a dataset
  Gpu,
  Press,        \* the submissions, one per press of the button
  None, Edited, \* no file; a text typed in the editor
  MaxMoves      \* bound: steps of the person

ASSUME NoneAssumption == None \notin Own \cup Template \cup Gpu \cup Press
ASSUME EditedAssumption == Edited # None /\ Edited \notin Own \cup Template
ASSUME TemplateAssumption ==
  Template \cap Own = {} /\ WithDataset \subseteq Template
ASSUME MovesAssumption == MaxMoves \in Nat

Work == Own \cup Template
Slot == {"script", "reqs"}

VARIABLES
  file,       \* script and reqs: the File objects shown
  text,       \* scriptText and reqText
  reading,    \* per slot: files a FileReader is still reading
  dataset,
  gpu, url,   \* selectedGPU ('' is None) and ?selectedGpu of the address
  onPage,     \* the dashboard is mounted
  confirm,    \* the "Clear current workspace?" dialog is open
  template,   \* per template: where its loading stands
  submitting, \* the press whose submission disables the button
  sent,       \* per press: what was submitted, and where it stands
  moves,
  raced,      \* history: slots where one read started before another ended
  astray,     \* history: a template was still loading when another one was
              \* chosen or files were removed
  held,       \* history: what is shown has become a job already
  left,       \* history: the page was left while a submission was out
  lost,       \* history: an accepted submission was answered with an error
  twice       \* history: the same workload became two jobs

workload == <<file, text, dataset>>
history == <<raced, astray, held, left, lost, twice>>
vars == <<workload, reading, gpu, url, onPage, confirm, template, submitting,
          sent, moves, history>>

Submission == [file : Work, text : Work \cup {None, Edited}, raced : BOOLEAN,
               at : {"way", "job", "load", "over"}]
Unused == [at |-> "unused"]

TypeOK ==
  /\ file \in [Slot -> Work \cup {None}]
  /\ text \in [Slot -> Work \cup {None, Edited}]
  /\ reading \in [Slot -> SUBSET Work]
  /\ dataset \in Work \cup {None}
  /\ gpu \in Gpu \cup {None} /\ url \in Gpu \cup {None}
  /\ onPage \in BOOLEAN /\ confirm \in BOOLEAN
  /\ template \in [Template -> {"no", "script", "reqs", "dataset"}]
  /\ submitting \in Press \cup {None}
  /\ sent \in [Press -> Submission \cup {Unused}]
  /\ moves \in 0..MaxMoves
  /\ raced \subseteq Slot
  /\ astray \in BOOLEAN /\ held \in BOOLEAN /\ left \in BOOLEAN
  /\ lost \in BOOLEAN /\ twice \in BOOLEAN

Init ==
  /\ file = [s \in Slot |-> None]
  /\ text = [s \in Slot |-> None]
  /\ reading = [s \in Slot |-> {}]
  /\ dataset = None
  /\ gpu = None /\ url = None
  /\ onPage = TRUE /\ confirm = FALSE
  /\ template = [t \in Template |-> "no"]
  /\ submitting = None
  /\ sent = [p \in Press |-> Unused]
  /\ moves = 0
  /\ raced = {}
  /\ astray = FALSE /\ held = FALSE /\ left = FALSE
  /\ lost = FALSE /\ twice = FALSE

\* A step of the person on the page; a dialog covers it.
Acts == onPage /\ ~confirm /\ moves < MaxMoves /\ moves' = moves + 1

\* The effect after a render: a GPU in the address is taken whenever none is
\* selected.
Selected(g, u) == IF g = None THEN u ELSE g

Loading == \E t \in Template : template[t] # "no"

-----------------------------------------------------------------------------
(* Files.                                                                  *)

\* handleScriptUpload and handleReqsUpload: the file is shown, its text is
\* still to be read.
Take(s, w) ==
  /\ file' = [file EXCEPT ![s] = w]
  /\ reading' = [reading EXCEPT ![s] = @ \cup {w}]
  /\ raced' = IF reading[s] \ {w} # {} THEN raced \cup {s} ELSE raced \ {s}

\* Variation: the text that is there is kept.
UploadKeepsText(s, w) ==
  /\ Acts
  /\ file' = [file EXCEPT ![s] = w]
  /\ reading' = [reading EXCEPT ![s] = IF text[s] = None THEN @ \cup {w} ELSE @]
  /\ raced' = IF reading[s] \ {w} # {} THEN raced \cup {s} ELSE raced \ {s}
  /\ held' = FALSE
  /\ UNCHANGED <<text, dataset, gpu, url, onPage, confirm, template, submitting,
                 sent, astray, left, lost, twice>>

\* A file dropped or picked.
Upload(s, w) ==
  /\ Acts
  /\ Take(s, w)
  /\ held' = FALSE
  /\ UNCHANGED <<text, dataset, gpu, url, onPage, confirm, template, submitting,
                 sent, astray, left, lost, twice>>

\* reader.onload, in whatever order the readers finish.
ReadDone(s, w) ==
  /\ w \in reading[s]
  /\ text' = [text EXCEPT ![s] = w]
  /\ reading' = [reading EXCEPT ![s] = @ \ {w}]
  /\ UNCHANGED <<file, dataset, gpu, url, onPage, confirm, template,
                 submitting, sent, moves, history>>

\* handleClearScript and handleClearReqs; the latter clears the dataset too.
Clear(s) ==
  /\ Acts /\ file[s] # None
  /\ file' = [file EXCEPT ![s] = None]
  /\ text' = [text EXCEPT ![s] = None]
  /\ dataset' = IF s = "reqs" THEN None ELSE dataset
  /\ held' = FALSE
  /\ astray' = (astray \/ Loading)
  /\ UNCHANGED <<reading, gpu, url, onPage, confirm, template, submitting, sent,
                 raced, left, lost, twice>>

\* Typing in the editor that can be opened under a file.
Edit(s) ==
  /\ Acts /\ file[s] # None
  /\ text' = [text EXCEPT ![s] = Edited]
  /\ held' = FALSE
  /\ UNCHANGED <<file, reading, dataset, gpu, url, onPage, confirm,
                 template, submitting, sent, raced, astray, left, lost, twice>>

\* handleFile: only a .csv of at most 2 GB gets through.
TakeDataset(w) ==
  /\ Acts
  /\ dataset' = w
  /\ held' = FALSE
  /\ UNCHANGED <<file, text, reading, gpu, url, onPage, confirm,
                 template, submitting, sent, raced, astray, left, lost, twice>>

-----------------------------------------------------------------------------
(* loadTemplate: two or three fetches, one after the other.                *)

\* The cards are offered while there is neither script nor dependencies.
ChooseTemplate(t) ==
  /\ Acts /\ file["script"] = None /\ file["reqs"] = None /\ template[t] = "no"
  /\ template' = [template EXCEPT ![t] = "script"]
  /\ astray' = (astray \/ Loading)
  /\ UNCHANGED <<workload, reading, gpu, url, onPage, confirm, submitting, sent,
                 raced, held, left, lost, twice>>

\* A template without a dataset clears it as soon as its dependencies are there.
FetchedFile(t, s) ==
  /\ template[t] = s
  /\ Take(s, t)
  /\ LET more == t \in WithDataset
     IN  /\ template' = [template EXCEPT ![t] =
              IF s = "script" THEN "reqs" ELSE IF more THEN "dataset" ELSE "no"]
         /\ dataset' = IF s = "reqs" /\ ~more THEN None ELSE dataset
  /\ held' = FALSE
  /\ UNCHANGED <<text, gpu, url, onPage, confirm, submitting, sent, moves, astray,
                 left, lost, twice>>

FetchedDataset(t) ==
  /\ template[t] = "dataset"
  /\ dataset' = t
  /\ template' = [template EXCEPT ![t] = "no"]
  /\ held' = FALSE
  /\ UNCHANGED <<file, text, reading, gpu, url, onPage, confirm, submitting, sent,
                 moves, raced, astray, left, lost, twice>>

\* The catch: what has come so far stays.
FetchFailed(t) ==
  /\ template[t] # "no"
  /\ template' = [template EXCEPT ![t] = "no"]
  /\ UNCHANGED <<workload, reading, gpu, url, onPage, confirm, submitting, sent,
                 moves, history>>

-----------------------------------------------------------------------------
(* The GPU.                                                                *)

\* handleToggleAuto and handleSelectGPU; None is Auto Select.
ChooseGpu(g) ==
  /\ Acts /\ g # gpu
  /\ gpu' = Selected(g, url)
  /\ UNCHANGED <<workload, reading, url, onPage, confirm, template, submitting,
                 sent, history>>

\* Another page of the application: the component unmounts, the context stays.
Leave ==
  /\ Acts
  /\ onPage' = FALSE
  /\ submitting' = None
  /\ left' = (left \/ \E p \in Press : sent[p].at \in {"way", "job"})
  /\ UNCHANGED <<workload, reading, gpu, url, confirm, template, sent, raced,
                 astray, held, lost, twice>>

\* Back from the navigation bar, or with a choice from the marketplace.
Return(g) ==
  /\ ~onPage
  /\ onPage' = TRUE
  /\ url' = g
  /\ gpu' = Selected(gpu, g)
  /\ UNCHANGED <<workload, reading, confirm, template, submitting, sent, moves,
                 history>>

-----------------------------------------------------------------------------
(* Reset and submission.                                                   *)

AskReset ==
  /\ Acts /\ (file["script"] # None \/ file["reqs"] # None)
  /\ confirm' = TRUE
  /\ UNCHANGED <<workload, reading, gpu, url, onPage, template, submitting, sent,
                 history>>

KeepEditing ==
  /\ confirm
  /\ confirm' = FALSE
  /\ UNCHANGED <<workload, reading, gpu, url, onPage, template, submitting, sent,
                 moves, history>>

\* Nothing is left but the GPU of the address.
Emptied ==
  /\ file' = [s \in Slot |-> None]
  /\ text' = [s \in Slot |-> None]
  /\ dataset' = None
  /\ gpu' = IF onPage THEN url ELSE None
  /\ held' = FALSE
  /\ astray' = (astray \/ Loading)

\* onOk of the dialog.
Reset ==
  /\ confirm
  /\ confirm' = FALSE
  /\ Emptied
  /\ UNCHANGED <<reading, url, onPage, template, submitting, sent, moves, raced,
                 left, lost, twice>>

\* A new file of the script's name with the text at this moment.
Sends(p) ==
  /\ submitting' = p
  /\ sent' = [sent EXCEPT ![p] =
       [file |-> file["script"], text |-> text["script"], at |-> "way",
        raced |-> "script" \in raced \/ reading["script"] # {}]]

\* Variation: the button stays enabled.
SubmitAgain(p) ==
  /\ Acts /\ file["script"] # None /\ sent[p] = Unused
  /\ Sends(p)
  /\ UNCHANGED <<workload, reading, gpu, url, onPage, confirm, template, history>>

\* handleSubmit.
Submit(p) ==
  /\ Acts /\ file["script"] # None /\ submitting = None /\ sent[p] = Unused
  /\ Sends(p)
  /\ UNCHANGED <<workload, reading, gpu, url, onPage, confirm, template, history>>

\* submit_job commits a job.  What is shown is that job's unless the person
\* has changed it since the press.
Accepted(p) ==
  /\ sent[p].at = "way"
  /\ sent' = [sent EXCEPT ![p].at = "job"]
  /\ LET same == file["script"] = sent[p].file /\ text["script"] = sent[p].text
     IN  held' = (held \/ same) /\ twice' = (twice \/ (held /\ same))
  /\ UNCHANGED <<workload, reading, gpu, url, onPage, confirm, template,
                 submitting, moves, raced, astray, left, lost>>

\* resetWorkload, whatever has been composed meanwhile; then the job list is
\* loaded, the button still disabled.
Succeeded(p) ==
  /\ sent[p].at = "job"
  /\ sent' = [sent EXCEPT ![p].at = "load"]
  /\ Emptied
  /\ UNCHANGED <<reading, url, onPage, confirm, template, submitting, moves, raced,
                 left, lost, twice>>

\* The finally of handleSubmit.
Over(p) ==
  /\ sent' = [sent EXCEPT ![p].at = "over"]
  /\ submitting' = IF submitting = p THEN None ELSE submitting

Loaded(p) ==
  /\ sent[p].at = "load"
  /\ Over(p)
  /\ UNCHANGED <<workload, reading, gpu, url, onPage, confirm, template, moves,
                 history>>

\* A refusal, or an answer that does not come: the workspace stays as it is.
Failed(p) ==
  /\ sent[p].at \in {"way", "job"}
  /\ Over(p)
  /\ lost' = (lost \/ sent[p].at = "job")
  /\ UNCHANGED <<workload, reading, gpu, url, onPage, confirm, template, moves,
                 raced, astray, held, left, twice>>

Next ==
  \/ \E s \in Slot :
       \/ \E w \in Own : Upload(s, w)
       \/ \E w \in Work : ReadDone(s, w)
       \/ Clear(s) \/ Edit(s)
       \/ \E t \in Template : FetchedFile(t, s)
  \/ \E w \in Own \cup {None} : TakeDataset(w)
  \/ \E t \in Template : ChooseTemplate(t) \/ FetchedDataset(t) \/ FetchFailed(t)
  \/ \E g \in Gpu \cup {None} : ChooseGpu(g) \/ Return(g)
  \/ Leave \/ AskReset \/ KeepEditing \/ Reset
  \/ \E p \in Press : Submit(p) \/ Accepted(p) \/ Succeeded(p) \/ Loaded(p)
                     \/ Failed(p)

Spec == Init /\ [][Next]_vars

-----------------------------------------------------------------------------
(* Properties.                                                             *)

\* A job runs the text of the file it is named after, or what was typed, unless
\* the button was pressed while the file was being read or after two reads of
\* the slot had overlapped.
JobTextIsItsFiles ==
  \A p \in Press : sent[p] # Unused =>
    sent[p].text \in {sent[p].file, Edited} \/ sent[p].raced

\* Script, dependencies and dataset come from two templates only if one of them
\* was still loading when the other was chosen or when files were removed.
TemplatesKeptApart ==
  \A t, u \in Template :
    t # u /\ {t, u} \subseteq {file["script"], file["reqs"], dataset} => astray

\* What is shown and sent as one workload is one.
PartsBelongTogether == JobTextIsItsFiles /\ TemplatesKeptApart

\* The same workload becomes two jobs only if the person left the page while a
\* submission was out, or pressed again after an accepted one had failed.
TwiceHasACause == twice => left \/ lost
=============================================================================
