-------------------------- MODULE DashboardsProofs --------------------------
(***************************************************************************)
(* Proofs about the client's dashboard (Workspace), the limits of its      *)
(* submissions (Quotas), the provider's dashboard (ProviderView) and the   *)
(* agent that executes the jobs of a GPU (Execution): that what a form, a  *)
(* template and a result say of a job belongs together, that the limits    *)
(* hold but for what they do not bind, that a page at rest shows what the  *)
(* server says, and that the story the backend is told of a job is the one *)
(* that happened.  Each has an invariant of its own; the last section puts *)
(* them together for the specification that the run checks.                *)
(***************************************************************************)
EXTENDS MCDashboards, SequenceTheorems, FiniteSetTheorems, TLAPS

-----------------------------------------------------------------------------
(* Composing and submitting a workload (Workspace).                        *)

\* The text that a slot shows is its file's, or typed, unless a reader of that
\* file is still at work, or two reads of the slot overlapped.
TextComes(s) ==
  file[s] # None /\ s \notin raced =>
    /\ reading[s] \subseteq {file[s]}
    /\ reading[s] = {} => text[s] \in {file[s], Edited}

Parts == {file["script"], file["reqs"], dataset}

\* One template at a time is loading, into a workspace that has nothing of
\* another one; its dataset comes last, and leaves with the dependencies.
OneTemplate ==
  ~ astray =>
    /\ \A t, u \in Template : template[t] # "no" /\ template[u] # "no" => t = u
    /\ \A t, u \in Template : template[t] # "no" /\ u \in Parts => t = u
    /\ \A t \in Template : template[t] = "dataset" => file["reqs"] # None
    /\ dataset \in Template => file["reqs"] # None
    /\ \A t, u \in Template : {t, u} \subseteq Parts => t = u

\* Without a departure or a lost answer, the submission whose job is not
\* confirmed is the one that disables the button, and only a job that is there
\* can be what is shown.
OneSubmission ==
  ~ left /\ ~ lost =>
    /\ \A p \in Press : sent[p].at \in {"way", "job"} => submitting = p
    /\ held => \E p \in Press : sent[p].at = "job"
    /\ ~ twice

IInvWork ==
  /\ TypeOK
  /\ \A s \in Slot : TextComes(s)
  /\ OneTemplate
  /\ OneSubmission
  /\ JobTextIsItsFiles

USE NoneAssumption, EditedAssumption, TemplateAssumption, MovesAssumption
    DEF Work, Slot, workload, history, vars

LEMMA WorkStart == Init => IInvWork
<1> SUFFICES ASSUME Init
             PROVE  IInvWork
  OBVIOUS
<1> USE DEF Init
<1>1. TypeOK
  <2>1. sent \in [Press -> Submission \cup {Unused}] OBVIOUS
  <2>2. 0 \in 0 .. MaxMoves OBVIOUS
  <2> QED BY <2>1, <2>2 DEF TypeOK
<1>2. \A s \in Slot : TextComes(s)
  BY DEF TextComes
<1>3. OneTemplate
  BY DEF OneTemplate, Parts
<1>4. OneSubmission
  BY DEF OneSubmission, Unused
<1>5. JobTextIsItsFiles
  BY DEF JobTextIsItsFiles
<1> QED BY <1>1, <1>2, <1>3, <1>4, <1>5 DEF IInvWork

-----------------------------------------------------------------------------
(* Types.                                                                  *)

\* What a press sends.
LEMMA SendsType ==
  ASSUME TypeOK, NEW p \in Press, file["script"] # None, Sends(p)
  PROVE  /\ sent' \in [Press -> Submission \cup {Unused}]
         /\ submitting' = p
         /\ sent'[p] \in Submission /\ sent'[p].at = "way"
         /\ sent'[p].file = file["script"] /\ sent'[p].text = text["script"]
         /\ sent'[p].raced <=> "script" \in raced \/ reading["script"] # {}
         /\ \A q \in Press : q # p => sent'[q] = sent[q]
<1> DEFINE b == "script" \in raced \/ reading["script"] # {}
           c == [file |-> file["script"], text |-> text["script"], at |-> "way", raced |-> b]
<1>1. b \in BOOLEAN OBVIOUS
<1>2. c \in Submission
  <2> HIDE DEF b
  <2> QED BY <1>1 DEF TypeOK, Submission
<1>3. c.at = "way" /\ c.file = file["script"] /\ c.text = text["script"] /\ c.raced = b
  <2> HIDE DEF b
  <2> QED OBVIOUS
<1>4. sent' = [sent EXCEPT ![p] = c] /\ submitting' = p
  BY DEF Sends
<1>5. sent \in [Press -> Submission \cup {Unused}] BY DEF TypeOK
<1> HIDE DEF c
<1>6. sent'[p] = c /\ \A q \in Press : q # p => sent'[q] = sent[q]
  BY <1>4, <1>5
<1>7. sent' \in [Press -> Submission \cup {Unused}]
  BY <1>2, <1>4, <1>5
<1> QED BY <1>2, <1>3, <1>4, <1>6, <1>7, Zenon

\* What is sent goes on.
LEMMA GoesOnType ==
  ASSUME TypeOK, NEW p \in Press, NEW a \in {"job", "load", "over"},
         sent[p].at \in {"way", "job", "load"}, sent' = [sent EXCEPT ![p].at = a]
  PROVE  /\ sent' \in [Press -> Submission \cup {Unused}]
         /\ sent[p] \in Submission
         /\ sent'[p].at = a /\ sent'[p].file = sent[p].file
         /\ sent'[p].text = sent[p].text /\ sent'[p].raced = sent[p].raced
         /\ \A q \in Press : q # p => sent'[q] = sent[q]
<1>1. sent[p] # Unused
  BY DEF Unused
<1>2. sent[p] \in Submission
  BY <1>1 DEF TypeOK
<1> DEFINE c == [sent[p] EXCEPT !.at = a]
<1>3. /\ c \in Submission /\ c.at = a /\ c.file = sent[p].file
      /\ c.text = sent[p].text /\ c.raced = sent[p].raced
  BY <1>2 DEF Submission
<1>4. sent' = [sent EXCEPT ![p] = c] OBVIOUS
<1>5. sent \in [Press -> Submission \cup {Unused}] BY DEF TypeOK
<1> HIDE DEF c
<1>6. sent'[p] = c /\ \A q \in Press : q # p => sent'[q] = sent[q]
  BY <1>4, <1>5
<1>7. sent' \in [Press -> Submission \cup {Unused}]
  BY <1>3, <1>4, <1>5
<1> QED BY <1>2, <1>3, <1>6, <1>7, Zenon

LEMMA ActsType ==
  ASSUME TypeOK, Acts
  PROVE  moves' \in 0 .. MaxMoves
BY DEF TypeOK, Acts

LEMMA TakeType ==
  ASSUME TypeOK, NEW s \in Slot, NEW w \in Work, Take(s, w)
  PROVE  /\ file' \in [Slot -> Work \cup {None}]
         /\ reading' \in [Slot -> SUBSET Work]
         /\ raced' \subseteq Slot
<1>1. file' \in [Slot -> Work \cup {None}]
  BY DEF TypeOK, Take
<1>2. reading' \in [Slot -> SUBSET Work]
  BY DEF TypeOK, Take
<1>3. raced' \subseteq Slot
  BY DEF TypeOK, Take
<1> QED BY <1>1, <1>2, <1>3

LEMMA WorkTypes ==
  ASSUME TypeOK, [Next]_vars
  PROVE  TypeOK'
<1>1. ASSUME NEW s \in Slot, NEW w \in Own, Upload(s, w) PROVE TypeOK'
  <2>1. moves' \in 0 .. MaxMoves BY <1>1, ActsType DEF Upload
  <2> QED BY <1>1, <2>1, TakeType DEF TypeOK, Upload
<1>2. ASSUME NEW s \in Slot, NEW w \in Work, ReadDone(s, w) PROVE TypeOK'
  BY <1>2 DEF TypeOK, ReadDone
<1>3. ASSUME NEW s \in Slot, Clear(s) PROVE TypeOK'
  <2>1. moves' \in 0 .. MaxMoves BY <1>3, ActsType DEF Clear
  <2>2. astray' \in BOOLEAN BY <1>3, Zenon DEF Clear
  <2> QED BY <1>3, <2>1, <2>2 DEF TypeOK, Clear
<1>4. ASSUME NEW s \in Slot, Edit(s) PROVE TypeOK'
  <2>1. moves' \in 0 .. MaxMoves BY <1>4, ActsType DEF Edit
  <2> QED BY <1>4, <2>1 DEF TypeOK, Edit
<1>5. ASSUME NEW s \in Slot, NEW t \in Template, FetchedFile(t, s) PROVE TypeOK'
  <2>1. template' \in [Template -> {"no", "script", "reqs", "dataset"}]
    BY <1>5 DEF TypeOK, FetchedFile
  <2>2. dataset' \in Work \cup {None}
    BY <1>5 DEF TypeOK, FetchedFile
  <2> QED BY <1>5, <2>1, <2>2, TakeType DEF TypeOK, FetchedFile
<1>6. ASSUME NEW w \in Own \cup {None}, TakeDataset(w) PROVE TypeOK'
  <2>1. moves' \in 0 .. MaxMoves BY <1>6, ActsType DEF TakeDataset
  <2> QED BY <1>6, <2>1 DEF TypeOK, TakeDataset
<1>7. ASSUME NEW t \in Template, ChooseTemplate(t) PROVE TypeOK'
  <2>1. moves' \in 0 .. MaxMoves BY <1>7, ActsType DEF ChooseTemplate
  <2>2. astray' \in BOOLEAN BY <1>7, Zenon DEF ChooseTemplate
  <2> QED BY <1>7, <2>1, <2>2 DEF TypeOK, ChooseTemplate
<1>8. ASSUME NEW t \in Template, FetchedDataset(t) \/ FetchFailed(t) PROVE TypeOK'
  <2>1. CASE FetchedDataset(t)
    BY <2>1 DEF TypeOK, FetchedDataset
  <2>2. CASE FetchFailed(t)
    BY <2>2 DEF TypeOK, FetchFailed
  <2> QED BY <1>8, <2>1, <2>2
<1>9. ASSUME NEW g \in Gpu \cup {None}, ChooseGpu(g) PROVE TypeOK'
  <2>1. moves' \in 0 .. MaxMoves BY <1>9, ActsType DEF ChooseGpu
  <2> QED BY <1>9, <2>1 DEF TypeOK, ChooseGpu, Selected
<1>10. ASSUME NEW g \in Gpu \cup {None}, Return(g) PROVE TypeOK'
  BY <1>10 DEF TypeOK, Return, Selected
<1>11. ASSUME Leave PROVE TypeOK'
  <2>1. moves' \in 0 .. MaxMoves BY <1>11, ActsType DEF Leave
  <2>2. left' \in BOOLEAN BY <1>11, Zenon DEF Leave
  <2> QED BY <1>11, <2>1, <2>2 DEF TypeOK, Leave
<1>12. ASSUME AskReset PROVE TypeOK'
  <2>1. moves' \in 0 .. MaxMoves BY <1>12, ActsType DEF AskReset
  <2> QED BY <1>12, <2>1 DEF TypeOK, AskReset
<1>13. ASSUME KeepEditing PROVE TypeOK'
  BY <1>13 DEF TypeOK, KeepEditing
<1>14. ASSUME Reset PROVE TypeOK'
  <2>1. astray' \in BOOLEAN BY <1>14, Zenon DEF Reset, Emptied
  <2> QED BY <1>14, <2>1 DEF TypeOK, Reset, Emptied
<1>15. ASSUME NEW p \in Press, Submit(p) PROVE TypeOK'
  <2>1. moves' \in 0 .. MaxMoves BY <1>15, ActsType DEF Submit
  <2>2. sent' \in [Press -> Submission \cup {Unused}] /\ submitting' = p
    BY <1>15, SendsType DEF Submit
  <2> QED BY <1>15, <2>1, <2>2 DEF TypeOK, Submit
<1>16. ASSUME NEW p \in Press, Accepted(p) PROVE TypeOK'
  <2>1. sent' \in [Press -> Submission \cup {Unused}]
    BY <1>16, GoesOnType DEF Accepted
  <2>2. held' \in BOOLEAN /\ twice' \in BOOLEAN BY <1>16, Zenon DEF Accepted
  <2> QED BY <1>16, <2>1, <2>2 DEF TypeOK, Accepted
<1>17. ASSUME NEW p \in Press, Succeeded(p) PROVE TypeOK'
  <2>1. sent' \in [Press -> Submission \cup {Unused}]
    BY <1>17, GoesOnType DEF Succeeded
  <2>2. astray' \in BOOLEAN BY <1>17, Zenon DEF Succeeded, Emptied
  <2> QED BY <1>17, <2>1, <2>2 DEF TypeOK, Succeeded, Emptied
<1>18. ASSUME NEW p \in Press, Loaded(p) PROVE TypeOK'
  <2>1. sent' \in [Press -> Submission \cup {Unused}]
    BY <1>18, GoesOnType DEF Loaded, Over
  <2> QED BY <1>18, <2>1 DEF TypeOK, Loaded, Over
<1>19. ASSUME NEW p \in Press, Failed(p) PROVE TypeOK'
  <2>1. sent' \in [Press -> Submission \cup {Unused}]
    BY <1>19, GoesOnType DEF Failed, Over
  <2>2. lost' \in BOOLEAN BY <1>19, Zenon DEF Failed
  <2> QED BY <1>19, <2>1, <2>2 DEF TypeOK, Failed, Over
<1>20. CASE UNCHANGED vars
  BY <1>20 DEF TypeOK
<1> QED
  BY <1>1, <1>2, <1>3, <1>4, <1>5, <1>6, <1>7, <1>8, <1>9, <1>10, <1>11, <1>12, <1>13,
     <1>14, <1>15, <1>16, <1>17, <1>18, <1>19, <1>20 DEF Next

-----------------------------------------------------------------------------
(* The steps.                                                              *)

\* The readers, and the person at the editor, bring a file's own text.
LEMMA TextStep ==
  ASSUME IInvWork, [Next]_vars, NEW r \in Slot
  PROVE  TextComes(r)'
<1> USE DEF TextComes
<1>0. TextComes(r) /\ TypeOK BY DEF IInvWork
<1>t. /\ file \in [Slot -> Work \cup {None}] /\ text \in [Slot -> Work \cup {None, Edited}]
      /\ reading \in [Slot -> SUBSET Work] /\ raced \subseteq Slot
  BY <1>0 DEF TypeOK
<1>1. ASSUME NEW s \in Slot, NEW w \in Work, Take(s, w), UNCHANGED text PROVE TextComes(r)'
  <2>1. file' = [file EXCEPT ![s] = w] /\ reading' = [reading EXCEPT ![s] = @ \cup {w}]
    BY <1>1 DEF Take
  <2>2. CASE r # s
    BY <1>0, <1>1, <1>t, <2>1, <2>2 DEF Take
  <2>3. CASE r = s
    <3>1. file'[r] = w /\ reading'[r] = reading[r] \cup {w} BY <1>t, <2>1, <2>3
    <3>2. r \notin raced' => reading[r] \subseteq {w} BY <1>1, <2>3 DEF Take
    <3> QED BY <3>1, <3>2
  <2> QED BY <2>2, <2>3
<1>2. ASSUME NEW s \in Slot, NEW w \in Work, ReadDone(s, w) PROVE TextComes(r)'
  <2>1. /\ w \in reading[s] /\ text' = [text EXCEPT ![s] = w]
        /\ reading' = [reading EXCEPT ![s] = @ \ {w}] /\ UNCHANGED <<file, raced>>
    BY <1>2 DEF ReadDone
  <2> QED BY <1>0, <1>t, <2>1
<1>3. ASSUME NEW s \in Slot, Clear(s) PROVE TextComes(r)'
  <2>1. /\ file' = [file EXCEPT ![s] = None] /\ text' = [text EXCEPT ![s] = None]
        /\ UNCHANGED <<reading, raced>>
    BY <1>3 DEF Clear
  <2> QED BY <1>0, <1>t, <2>1
<1>4. ASSUME NEW s \in Slot, Edit(s) PROVE TextComes(r)'
  <2>1. text' = [text EXCEPT ![s] = Edited] /\ UNCHANGED <<file, reading, raced>>
    BY <1>4 DEF Edit
  <2> QED BY <1>0, <1>t, <2>1
<1>5. ASSUME file' = [s \in Slot |-> None] PROVE TextComes(r)'
  BY <1>5
<1>6. ASSUME UNCHANGED <<file, text, reading, raced>> PROVE TextComes(r)'
  BY <1>0, <1>6
<1>7. ASSUME NEW w \in Own \cup {None}, TakeDataset(w) PROVE TextComes(r)'
  BY <1>6, <1>7 DEF TakeDataset
<1>8. ASSUME NEW t \in Template, ChooseTemplate(t) \/ FetchedDataset(t) \/ FetchFailed(t)
      PROVE  TextComes(r)'
  BY <1>6, <1>8 DEF ChooseTemplate, FetchedDataset, FetchFailed
<1>9. ASSUME NEW g \in Gpu \cup {None}, ChooseGpu(g) \/ Return(g) PROVE TextComes(r)'
  BY <1>6, <1>9 DEF ChooseGpu, Return
<1>10. ASSUME Leave \/ AskReset \/ KeepEditing PROVE TextComes(r)'
  BY <1>6, <1>10 DEF Leave, AskReset, KeepEditing
<1>11. ASSUME NEW p \in Press, Submit(p) \/ Accepted(p) \/ Loaded(p) \/ Failed(p)
       PROVE  TextComes(r)'
  BY <1>6, <1>11 DEF Submit, Accepted, Loaded, Failed
<1>12. ASSUME NEW p \in Press, Succeeded(p) PROVE TextComes(r)'
  BY <1>5, <1>12 DEF Succeeded, Emptied
<1>13. ASSUME Reset PROVE TextComes(r)'
  BY <1>5, <1>13 DEF Reset, Emptied
<1>14. CASE UNCHANGED vars
  BY <1>6, <1>14
<1>15. ASSUME NEW s \in Slot, NEW w \in Own, Upload(s, w) PROVE TextComes(r)'
  BY <1>1, <1>15 DEF Upload
<1>16. ASSUME NEW s \in Slot, NEW t \in Template, FetchedFile(t, s) PROVE TextComes(r)'
  BY <1>1, <1>16 DEF FetchedFile
<1> QED
  BY <1>2, <1>3, <1>4, <1>7, <1>8, <1>9, <1>10, <1>11, <1>12, <1>13, <1>14, <1>15, <1>16
  DEF Next

\* A template that arrives finds nothing of another one.
LEMMA TemplateStep ==
  ASSUME IInvWork, [Next]_vars
  PROVE  OneTemplate'
<1>0. OneTemplate /\ TypeOK BY DEF IInvWork
<1>t. /\ file \in [Slot -> Work \cup {None}] /\ dataset \in Work \cup {None}
      /\ template \in [Template -> {"no", "script", "reqs", "dataset"}] /\ astray \in BOOLEAN
  BY <1>0 DEF TypeOK
<1>a. ~ astray' => ~ astray
  <2>1. ASSUME NEW s \in Slot, NEW w \in Own, Upload(s, w) PROVE astray' = astray
    BY <2>1 DEF Upload
  <2>2. ASSUME NEW s \in Slot, NEW w \in Work, ReadDone(s, w) PROVE astray' = astray
    BY <2>2 DEF ReadDone
  <2>3. ASSUME NEW s \in Slot, Clear(s) \/ Edit(s) PROVE ~ astray' => ~ astray
    BY <2>3, Zenon DEF Clear, Edit
  <2>4. ASSUME NEW s \in Slot, NEW t \in Template, FetchedFile(t, s) PROVE astray' = astray
    BY <2>4 DEF FetchedFile
  <2>5. ASSUME NEW w \in Own \cup {None}, TakeDataset(w) PROVE astray' = astray
    BY <2>5 DEF TakeDataset
  <2>6. ASSUME NEW t \in Template, ChooseTemplate(t) \/ FetchedDataset(t) \/ FetchFailed(t)
        PROVE  ~ astray' => ~ astray
    BY <2>6, Zenon DEF ChooseTemplate, FetchedDataset, FetchFailed
  <2>7. ASSUME NEW g \in Gpu \cup {None}, ChooseGpu(g) \/ Return(g) PROVE astray' = astray
    BY <2>7 DEF ChooseGpu, Return
  <2>8. ASSUME Leave \/ AskReset \/ KeepEditing \/ Reset PROVE ~ astray' => ~ astray
    BY <2>8, Zenon DEF Leave, AskReset, KeepEditing, Reset, Emptied
  <2>9. ASSUME NEW p \in Press, Submit(p) \/ Accepted(p) \/ Succeeded(p) \/ Loaded(p) \/ Failed(p)
        PROVE  ~ astray' => ~ astray
    BY <2>9, Zenon DEF Submit, Accepted, Succeeded, Emptied, Loaded, Failed
  <2>10. CASE UNCHANGED vars
    BY <2>10
  <2> QED BY <2>1, <2>2, <2>3, <2>4, <2>5, <2>6, <2>7, <2>8, <2>9, <2>10 DEF Next
<1> SUFFICES ASSUME ~ astray'
             PROVE  OneTemplate'
  BY DEF OneTemplate
<1>b. /\ ~ astray
      /\ \A t, u \in Template : template[t] # "no" /\ template[u] # "no" => t = u
      /\ \A t, u \in Template : template[t] # "no" /\ u \in Parts => t = u
      /\ \A t \in Template : template[t] = "dataset" => file["reqs"] # None
      /\ dataset \in Template => file["reqs"] # None
      /\ \A t, u \in Template : u \in Parts /\ t \in Parts => t = u
  BY <1>0, <1>a DEF OneTemplate
<1> USE DEF OneTemplate, Parts
<1>1. ASSUME NEW s \in Slot, NEW w \in Own, Upload(s, w) PROVE OneTemplate'
  <2>1. file' = [file EXCEPT ![s] = w] /\ UNCHANGED <<dataset, template>>
    BY <1>1 DEF Upload, Take
  <2> QED BY <1>b, <1>t, <2>1
<1>2. ASSUME NEW s \in Slot, Clear(s) PROVE OneTemplate'
  <2>1. /\ file' = [file EXCEPT ![s] = None] /\ dataset' = IF s = "reqs" THEN None ELSE dataset
        /\ UNCHANGED template
    BY <1>2 DEF Clear
  <2>2. \A t \in Template : template[t] = "no"
    BY <1>2, Zenon DEF Clear, Loading
  <2> QED BY <1>b, <1>t, <2>1, <2>2
<1>3. ASSUME NEW s \in Slot, NEW t \in Template, FetchedFile(t, s) PROVE OneTemplate'
  <2>1. /\ template[t] = s /\ file' = [file EXCEPT ![s] = t]
        /\ template' = [template EXCEPT ![t] =
             IF s = "script" THEN "reqs" ELSE IF t \in WithDataset THEN "dataset" ELSE "no"]
        /\ dataset' \in {dataset, None}
    BY <1>3 DEF FetchedFile, Take
  <2>2. template[t] # "no" /\ t # None BY <1>t, <2>1
  <2>3. \A u \in Template : template'[u] # "no" => u = t
    BY <1>b, <1>t, <2>1, <2>2
  <2>4. \A u \in Template : u \in Parts' => u = t
    BY <1>b, <1>t, <2>1, <2>2
  <2>5. file["reqs"] # None => file'["reqs"] # None
    BY <1>t, <2>1, <2>2
  <2>6. template'[t] = "dataset" => file'["reqs"] # None
    BY <1>t, <2>1, <2>2
  <2> QED BY <1>b, <2>1, <2>3, <2>4, <2>5, <2>6
<1>4. ASSUME NEW w \in Own \cup {None}, TakeDataset(w) PROVE OneTemplate'
  <2>1. dataset' = w /\ UNCHANGED <<file, template>>
    BY <1>4 DEF TakeDataset
  <2> QED BY <1>b, <2>1
<1>5. ASSUME NEW t \in Template, ChooseTemplate(t) PROVE OneTemplate'
  <2>1. /\ file["script"] = None /\ file["reqs"] = None
        /\ template' = [template EXCEPT ![t] = "script"] /\ UNCHANGED <<file, dataset>>
    BY <1>5 DEF ChooseTemplate
  <2>2. \A u \in Template : template[u] = "no"
    BY <1>5, Zenon DEF ChooseTemplate, Loading
  <2>3. \A u \in Template : u \notin Parts
    BY <1>b, <2>1
  <2> QED BY <1>b, <1>t, <2>1, <2>2, <2>3
<1>6. ASSUME NEW t \in Template, FetchedDataset(t) PROVE OneTemplate'
  <2>1. /\ template[t] = "dataset" /\ dataset' = t /\ template' = [template EXCEPT ![t] = "no"]
        /\ UNCHANGED file
    BY <1>6 DEF FetchedDataset
  <2> QED BY <1>b, <1>t, <2>1
<1>7. ASSUME NEW t \in Template, FetchFailed(t) PROVE OneTemplate'
  <2>1. template' = [template EXCEPT ![t] = "no"] /\ UNCHANGED <<file, dataset>>
    BY <1>7 DEF FetchFailed
  <2> QED BY <1>b, <1>t, <2>1
<1>8. ASSUME Emptied, UNCHANGED template PROVE OneTemplate'
  <2>1. file' = [s \in Slot |-> None] /\ dataset' = None
    BY <1>8 DEF Emptied
  <2>2. \A t \in Template : template[t] = "no"
    BY <1>8, Zenon DEF Emptied, Loading
  <2> QED BY <1>8, <2>1, <2>2
<1>9. ASSUME UNCHANGED <<file, dataset, template>> PROVE OneTemplate'
  BY <1>b, <1>9
<1>10. ASSUME NEW s \in Slot, NEW w \in Work, ReadDone(s, w) PROVE OneTemplate'
  BY <1>9, <1>10 DEF ReadDone
<1>11. ASSUME NEW s \in Slot, Edit(s) PROVE OneTemplate'
  BY <1>9, <1>11 DEF Edit
<1>12. ASSUME NEW g \in Gpu \cup {None}, ChooseGpu(g) \/ Return(g) PROVE OneTemplate'
  BY <1>9, <1>12 DEF ChooseGpu, Return
<1>13. ASSUME Leave \/ AskReset \/ KeepEditing PROVE OneTemplate'
  BY <1>9, <1>13 DEF Leave, AskReset, KeepEditing
<1>14. ASSUME NEW p \in Press, Submit(p) \/ Accepted(p) \/ Loaded(p) \/ Failed(p)
       PROVE  OneTemplate'
  BY <1>9, <1>14 DEF Submit, Accepted, Loaded, Failed
<1>15. ASSUME NEW p \in Press, Succeeded(p) PROVE OneTemplate'
  BY <1>8, <1>15 DEF Succeeded
<1>16. ASSUME Reset PROVE OneTemplate'
  BY <1>8, <1>16 DEF Reset
<1>17. CASE UNCHANGED vars
  BY <1>9, <1>17
<1> QED
  BY <1>1, <1>2, <1>3, <1>4, <1>5, <1>6, <1>7, <1>10, <1>11, <1>12, <1>13, <1>14, <1>15,
     <1>16, <1>17 DEF Next

\* Until a departure or a lost answer, one submission at a time is out.
LEMMA SubmissionStep ==
  ASSUME IInvWork, [Next]_vars
  PROVE  OneSubmission'
<1>0. OneSubmission /\ TypeOK BY DEF IInvWork
<1>t. submitting \in Press \cup {None} /\ left \in BOOLEAN /\ lost \in BOOLEAN
  BY <1>0 DEF TypeOK
<1> USE DEF OneSubmission
<1>1. ASSUME NEW p \in Press, Submit(p) PROVE OneSubmission'
  <2>1. /\ sent'[p].at = "way" /\ submitting' = p
        /\ \A q \in Press : q # p => sent'[q] = sent[q]
    BY <1>0, <1>1, SendsType DEF Submit
  <2>2. submitting = None /\ UNCHANGED <<left, lost, held, twice>>
    BY <1>1 DEF Submit
  <2>3. ASSUME ~ left, ~ lost PROVE /\ \A q \in Press : sent[q].at \notin {"way", "job"}
                                    /\ ~ held
    BY <1>0, <1>t, <2>2, <2>3
  <2> QED BY <1>0, <2>1, <2>2, <2>3
<1>2. ASSUME NEW p \in Press, Accepted(p) PROVE OneSubmission'
  <2>1. /\ sent[p].at = "way" /\ sent'[p].at = "job"
        /\ \A q \in Press : q # p => sent'[q] = sent[q]
    BY <1>0, <1>2, GoesOnType DEF Accepted
  <2>2. UNCHANGED <<submitting, left, lost>>
    BY <1>2 DEF Accepted
  <2>3. ASSUME ~ left, ~ lost PROVE ~ held
    BY <1>0, <2>1, <2>3
  <2>4. ASSUME ~ left, ~ lost PROVE ~ twice'
    BY <1>0, <1>2, <2>3, <2>4, Zenon DEF Accepted
  <2> QED BY <1>0, <2>1, <2>2, <2>4
<1>3. ASSUME NEW p \in Press, Succeeded(p) PROVE OneSubmission'
  <2>1. /\ sent[p].at = "job" /\ sent'[p].at = "load"
        /\ \A q \in Press : q # p => sent'[q] = sent[q]
    BY <1>0, <1>3, GoesOnType DEF Succeeded
  <2>2. ~ held' /\ UNCHANGED <<submitting, left, lost, twice>>
    BY <1>3 DEF Succeeded, Emptied
  <2> QED BY <1>0, <2>1, <2>2
<1>4. ASSUME NEW p \in Press, Loaded(p) PROVE OneSubmission'
  <2>1. /\ sent[p].at = "load" /\ sent'[p].at = "over"
        /\ \A q \in Press : q # p => sent'[q] = sent[q]
    BY <1>0, <1>4, GoesOnType DEF Loaded, Over
  <2>2. /\ submitting' = IF submitting = p THEN None ELSE submitting
        /\ UNCHANGED <<left, lost, held, twice>>
    BY <1>4 DEF Loaded, Over
  <2> QED BY <1>0, <2>1, <2>2
<1>5. ASSUME NEW p \in Press, Failed(p) PROVE OneSubmission'
  <2>1. /\ sent[p].at \in {"way", "job"} /\ sent'[p].at = "over"
        /\ \A q \in Press : q # p => sent'[q] = sent[q]
    BY <1>0, <1>5, GoesOnType DEF Failed, Over
  <2>2. /\ submitting' = IF submitting = p THEN None ELSE submitting
        /\ UNCHANGED <<left, held, twice>>
    BY <1>5 DEF Failed, Over
  <2>3. ~ lost' => ~ lost /\ sent[p].at # "job"
    BY <1>5, Zenon DEF Failed
  <2> QED BY <1>0, <2>1, <2>2, <2>3
<1>6. ASSUME Leave PROVE OneSubmission'
  <2>1. ~ left' => ~ left /\ \A p \in Press : sent[p].at \notin {"way", "job"}
    BY <1>6, Zenon DEF Leave
  <2>2. UNCHANGED <<sent, lost, held, twice>> BY <1>6 DEF Leave
  <2> QED BY <1>0, <2>1, <2>2
<1>7. ASSUME UNCHANGED <<sent, submitting, left, lost, twice>>, held' \in {held, FALSE}
      PROVE  OneSubmission'
  BY <1>0, <1>7
<1>8. held \in {held, FALSE} OBVIOUS
<1>9. ASSUME NEW s \in Slot, NEW w \in Own, Upload(s, w) PROVE OneSubmission'
  BY <1>7, <1>9 DEF Upload
<1>10. ASSUME NEW s \in Slot, NEW w \in Work, ReadDone(s, w) PROVE OneSubmission'
  BY <1>7, <1>10 DEF ReadDone
<1>11. ASSUME NEW s \in Slot, Clear(s) \/ Edit(s) PROVE OneSubmission'
  BY <1>7, <1>11 DEF Clear, Edit
<1>12. ASSUME NEW s \in Slot, NEW t \in Template, FetchedFile(t, s) PROVE OneSubmission'
  BY <1>7, <1>12 DEF FetchedFile
<1>13. ASSUME NEW w \in Own \cup {None}, TakeDataset(w) PROVE OneSubmission'
  BY <1>7, <1>13 DEF TakeDataset
<1>14. ASSUME NEW t \in Template, ChooseTemplate(t) \/ FetchedDataset(t) \/ FetchFailed(t)
       PROVE  OneSubmission'
  BY <1>7, <1>8, <1>14 DEF ChooseTemplate, FetchedDataset, FetchFailed
<1>15. ASSUME NEW g \in Gpu \cup {None}, ChooseGpu(g) \/ Return(g) PROVE OneSubmission'
  BY <1>7, <1>8, <1>15 DEF ChooseGpu, Return
<1>16. ASSUME AskReset \/ KeepEditing PROVE OneSubmission'
  BY <1>7, <1>8, <1>16 DEF AskReset, KeepEditing
<1>17. ASSUME Reset PROVE OneSubmission'
  BY <1>7, <1>17 DEF Reset, Emptied
<1>18. CASE UNCHANGED vars
  BY <1>7, <1>8, <1>18
<1> QED
  BY <1>1, <1>2, <1>3, <1>4, <1>5, <1>6, <1>9, <1>10, <1>11, <1>12, <1>13, <1>14, <1>15,
     <1>16, <1>17, <1>18 DEF Next

\* What is sent is what the slot shows, or it was sent while the slot was read.
LEMMA JobTextStep ==
  ASSUME IInvWork, [Next]_vars
  PROVE  JobTextIsItsFiles'
<1>0. JobTextIsItsFiles /\ TypeOK /\ TextComes("script") BY DEF IInvWork
<1>t. reading \in [Slot -> SUBSET Work]
  BY <1>0 DEF TypeOK
<1> USE DEF JobTextIsItsFiles
<1>1. ASSUME NEW p \in Press, Submit(p) PROVE JobTextIsItsFiles'
  <2>1. /\ sent'[p].file = file["script"] /\ sent'[p].text = text["script"]
        /\ sent'[p].raced <=> "script" \in raced \/ reading["script"] # {}
        /\ \A q \in Press : q # p => sent'[q] = sent[q]
    BY <1>0, <1>1, SendsType DEF Submit
  <2>2. file["script"] # None BY <1>1 DEF Submit
  <2>3. sent'[p].text \in {sent'[p].file, Edited} \/ sent'[p].raced
    BY <1>0, <2>1, <2>2 DEF TextComes
  <2> QED BY <1>0, <2>1, <2>3
<1>2. ASSUME NEW p \in Press, NEW a \in {"job", "load", "over"},
             sent[p].at \in {"way", "job", "load"}, sent' = [sent EXCEPT ![p].at = a]
      PROVE  JobTextIsItsFiles'
  <2>1. /\ sent[p] \in Submission /\ sent'[p].file = sent[p].file
        /\ sent'[p].text = sent[p].text /\ sent'[p].raced = sent[p].raced
        /\ \A q \in Press : q # p => sent'[q] = sent[q]
    BY <1>0, <1>2, GoesOnType
  <2>2. sent[p] # Unused BY <1>2 DEF Unused
  <2>3. sent[p].text \in {sent[p].file, Edited} \/ sent[p].raced BY <1>0, <2>2
  <2>4. sent'[p].text \in {sent'[p].file, Edited} \/ sent'[p].raced BY <2>1, <2>3
  <2> QED BY <1>0, <2>1, <2>4
<1>3. ASSUME NEW p \in Press, Accepted(p) \/ Succeeded(p) \/ Loaded(p) \/ Failed(p)
      PROVE  JobTextIsItsFiles'
  BY <1>2, <1>3 DEF Accepted, Succeeded, Loaded, Failed, Over
<1>4. ASSUME UNCHANGED sent PROVE JobTextIsItsFiles'
  BY <1>0, <1>4
<1>5. ASSUME NEW s \in Slot, NEW w \in Own, Upload(s, w) PROVE UNCHANGED sent
  BY <1>5 DEF Upload
<1>6. ASSUME NEW s \in Slot, NEW w \in Work, ReadDone(s, w) PROVE UNCHANGED sent
  BY <1>6 DEF ReadDone
<1>7. ASSUME NEW s \in Slot, Clear(s) \/ Edit(s) PROVE UNCHANGED sent
  BY <1>7 DEF Clear, Edit
<1>8. ASSUME NEW s \in Slot, NEW t \in Template, FetchedFile(t, s) PROVE UNCHANGED sent
  BY <1>8 DEF FetchedFile
<1>9. ASSUME NEW w \in Own \cup {None}, TakeDataset(w) PROVE UNCHANGED sent
  BY <1>9 DEF TakeDataset
<1>10. ASSUME NEW t \in Template, ChooseTemplate(t) \/ FetchedDataset(t) \/ FetchFailed(t)
       PROVE  UNCHANGED sent
  BY <1>10 DEF ChooseTemplate, FetchedDataset, FetchFailed
<1>11. ASSUME NEW g \in Gpu \cup {None}, ChooseGpu(g) \/ Return(g) PROVE UNCHANGED sent
  BY <1>11 DEF ChooseGpu, Return
<1>12. ASSUME Leave \/ AskReset \/ KeepEditing \/ Reset PROVE UNCHANGED sent
  BY <1>12 DEF Leave, AskReset, KeepEditing, Reset
<1>13. CASE UNCHANGED vars
  BY <1>4, <1>13
<1> QED
  BY <1>1, <1>3, <1>4, <1>5, <1>6, <1>7, <1>8, <1>9, <1>10, <1>11, <1>12, <1>13 DEF Next

LEMMA WorkStep == IInvWork /\ [Next]_vars => IInvWork'
  BY WorkTypes, TextStep, TemplateStep, SubmissionStep, JobTextStep DEF IInvWork

LEMMA WorkHolds == IInvWork => PartsBelongTogether /\ TwiceHasACause
  BY DEF IInvWork, PartsBelongTogether, TemplatesKeptApart, TwiceHasACause, OneTemplate,
         OneSubmission, Parts

LEMMA InvariantWork == Spec => []IInvWork
  BY WorkStart, WorkStep, PTL DEF Spec

\* What is shown and sent as one workload is one: the text of a job is that of
\* the file it is named after, and the parts are of one template (UploadDropzone,
\* ScriptEditor, loadTemplate, handleSubmit).
THEOREM PartsStayTogether == Spec => []PartsBelongTogether
  BY InvariantWork, WorkHolds, PTL

\* The same workload does not become two jobs behind the person's back
\* (handleSubmit and resetWorkload).
THEOREM NoTwiceWithoutACause == Spec => []TwiceHasACause
  BY InvariantWork, WorkHolds, PTL

HIDE DEF Work, Slot, workload, history, vars
HIDE MovesAssumption
HIDE TemplateAssumption
HIDE EditedAssumption
HIDE NoneAssumption

-----------------------------------------------------------------------------
(* Induction, and the sum of what the members of a finite set weigh.       *)

\* The theorems of the library on induction take an operator, which no prover
\* here can instantiate; a set of numbers serves instead.
LEMMA NaturalsWithoutAGap ==
  ASSUME NEW S, 0 \in S, \A n \in Nat : n \in S => n + 1 \in S
  PROVE  Nat \subseteq S
<1> DEFINE R == StrictSubsetOrdering(Nat)
           T == {1 .. n : n \in Nat \ S}
<1> SUFFICES ASSUME Nat \ S # {} PROVE FALSE OBVIOUS
<1>1. T # {} OBVIOUS
<1>2. T \subseteq FiniteSubsetsOf(Nat)
  <2>1. \A n \in Nat : IsFiniteSet(1 .. n) BY FS_Interval
  <2>2. \A n \in Nat : 1 .. n \in SUBSET Nat OBVIOUS
  <2> QED BY <2>1, <2>2 DEF FiniteSubsetsOf
<1>3. IsWellFoundedOn(R, FiniteSubsetsOf(Nat))
  BY FS_StrictSubsetOrderingWellFounded
<1>4. PICK I \in T : \A J \in T : <<J, I>> \notin R
  <2> HIDE DEF R, T
  <2> QED BY <1>1, <1>2, <1>3, WFMin
<1>5. PICK n \in Nat \ S : I = 1 .. n OBVIOUS
<1>6. n # 0 OBVIOUS
<1>7. n - 1 \in Nat /\ (n - 1) + 1 = n BY <1>6
<1>8. n - 1 \notin S BY <1>5, <1>7
<1>9. 1 .. (n - 1) \in T BY <1>7, <1>8
<1>10. /\ 1 .. (n - 1) \subseteq 1 .. n /\ 1 .. (n - 1) \in SUBSET Nat /\ 1 .. n \in SUBSET Nat
       /\ n \in 1 .. n /\ n \notin 1 .. (n - 1)
  BY <1>6
<1>11. <<1 .. (n - 1), 1 .. n>> \in R BY <1>10 DEF StrictSubsetOrdering
<1> QED BY <1>4, <1>5, <1>9, <1>11

\* What the members of S weigh, and the function of the subsets of S that the
\* definition of MapThenSumSet chooses.
Weigh(w, S) == MapThenSumSet(LAMBDA s : w[s], S)
One(S) == CHOOSE x \in S : TRUE
Adds(w, f, s) == f[s] = IF s = {} THEN 0 ELSE w[One(s)] + f[s \ {One(s)}]
Sums(w, f, S) == f = [s \in SUBSET S |-> IF s = {} THEN 0 ELSE w[One(s)] + f[s \ {One(s)}]]

LEMMA WeighIs ==
  ASSUME NEW w, NEW S
  PROVE  Weigh(w, S) = (CHOOSE f : Sums(w, f, S))[S]
BY DEF Weigh, MapThenSumSet, MapThenFoldSet, Sums, One

LEMMA OneIsIn == ASSUME NEW S, S # {} PROVE One(S) \in S
BY DEF One

\* The function exists: for the subsets of at most n members, one n after another.
LEMMA SumsExist ==
  ASSUME NEW D, NEW w \in [D -> Nat], NEW S \in SUBSET D, IsFiniteSet(S)
  PROVE  \E f \in [SUBSET S -> Nat] : Sums(w, f, S)
<1> DEFINE Small(n) == {s \in SUBSET S : Cardinality(s) <= n}
           Good(n, f) == f \in [Small(n) -> Nat] /\ \A s \in Small(n) : Adds(w, f, s)
           G == {n \in Nat : \E f : Good(n, f)}
<1>1. \A s \in SUBSET S : IsFiniteSet(s) /\ Cardinality(s) \in Nat
  BY FS_Subset, FS_CardinalityType
<1>2. 0 \in G
  <2> DEFINE f == [s \in Small(0) |-> 0]
  <2>1. \A s \in Small(0) : s = {} BY <1>1, FS_EmptySet
  <2>2. Good(0, f) BY <2>1 DEF Adds
  <2> QED BY <2>2
<1>3. ASSUME NEW n \in Nat, n \in G PROVE n + 1 \in G
  <2> PICK f : Good(n, f) BY <1>3
  <2> DEFINE g == [s \in Small(n + 1) |-> IF s = {} THEN 0 ELSE w[One(s)] + f[s \ {One(s)}]]
  <2>1. Small(n) \subseteq Small(n + 1) BY <1>1
  <2>2. ASSUME NEW s \in Small(n + 1), s # {}
        PROVE  s \ {One(s)} \in Small(n) /\ One(s) \in D
    <3>1. One(s) \in s BY <2>2, OneIsIn
    <3>2. Cardinality(s \ {One(s)}) = Cardinality(s) - 1 BY <1>1, <3>1, FS_RemoveElement
    <3>3. Cardinality(s) \in Nat /\ Cardinality(s) <= n + 1 BY <1>1
    <3>4. s \ {One(s)} \in SUBSET S OBVIOUS
    <3> QED BY <3>1, <3>2, <3>3, <3>4
  <2>3. g \in [Small(n + 1) -> Nat]
    <3> HIDE DEF Small
    <3> QED BY <2>2
  <2> HIDE DEF Small
  <2>4. ASSUME NEW s \in Small(n) PROVE g[s] = f[s]
    BY <2>1 DEF Adds
  <2>5. ASSUME NEW s \in Small(n + 1) PROVE Adds(w, g, s)
    <3>1. g[s] = IF s = {} THEN 0 ELSE w[One(s)] + f[s \ {One(s)}] OBVIOUS
    <3> HIDE DEF g
    <3> QED BY <2>2, <2>4, <3>1 DEF Adds
  <2>6. Good(n + 1, g) BY <2>3, <2>5
  <2> HIDE DEF g, Good
  <2>7. n + 1 \in Nat /\ \E h : Good(n + 1, h) BY <2>6
  <2> QED BY <2>7
<1>4. PICK f : Good(Cardinality(S), f)
  <2>1. Nat \subseteq G
    <3> HIDE DEF G
    <3> QED BY <1>2, <1>3, NaturalsWithoutAGap
  <2>2. Cardinality(S) \in Nat BY FS_CardinalityType
  <2> QED BY <2>1, <2>2
<1>5. Small(Cardinality(S)) = SUBSET S BY <1>1, FS_Subset
<1> HIDE DEF Small
<1> QED BY <1>4, <1>5 DEF Adds, Sums

LEMMA SumsAdd ==
  ASSUME NEW w, NEW S, NEW f, Sums(w, f, S), NEW s \in SUBSET S
  PROVE  Adds(w, f, s)
<1> PICK g : g = f OBVIOUS
<1>1. f = [t \in SUBSET S |-> IF t = {} THEN 0 ELSE w[One(t)] + g[t \ {One(t)}]]
  BY DEF Sums
<1> QED BY <1>1 DEF Adds

\* Two such functions agree where both are defined.
LEMMA SumsAgree ==
  ASSUME NEW w, NEW S, IsFiniteSet(S), NEW T \in SUBSET S,
         NEW f, Sums(w, f, S), NEW g, Sums(w, g, T)
  PROVE  \A s \in SUBSET T : f[s] = g[s]
<1> DEFINE Same(n) == \A s \in SUBSET T : Cardinality(s) = n => f[s] = g[s]
           G == {n \in Nat : Same(n)}
<1>1. \A s \in SUBSET T : IsFiniteSet(s) /\ Cardinality(s) \in Nat
  BY FS_Subset, FS_CardinalityType
<1>2. \A s \in SUBSET T : Adds(w, f, s) /\ Adds(w, g, s) BY SumsAdd
<1>3. 0 \in G
  <2>1. \A s \in SUBSET T : Cardinality(s) = 0 => s = {} BY <1>1, FS_EmptySet
  <2> QED BY <1>2, <2>1 DEF Adds
<1>4. ASSUME NEW n \in Nat, n \in G PROVE n + 1 \in G
  <2> SUFFICES ASSUME NEW s \in SUBSET T, Cardinality(s) = n + 1 PROVE f[s] = g[s]
    OBVIOUS
  <2>1. s # {} BY FS_EmptySet
  <2> DEFINE t == s \ {One(s)}
  <2>2. t \in SUBSET T /\ Cardinality(t) = n
    <3>1. One(s) \in s BY <2>1, OneIsIn
    <3>2. Cardinality(s \ {One(s)}) = Cardinality(s) - 1 BY <1>1, <3>1, FS_RemoveElement
    <3> QED BY <3>2
  <2>3. f[t] = g[t] BY <1>4, <2>2
  <2> QED BY <1>2, <2>1, <2>3 DEF Adds
<1>5. Nat \subseteq G
  <2> HIDE DEF G
  <2> QED BY <1>3, <1>4, NaturalsWithoutAGap
<1> QED BY <1>1, <1>5

LEMMA WeighChosen ==
  ASSUME NEW D, NEW w \in [D -> Nat], NEW S \in SUBSET D, IsFiniteSet(S)
  PROVE  /\ Weigh(w, {}) = 0
         /\ Weigh(w, S) \in Nat
         /\ S # {} => Weigh(w, S) = w[One(S)] + Weigh(w, S \ {One(S)})
<1> DEFINE sum(T) == CHOOSE f : Sums(w, f, T)
<1>1. ASSUME NEW T \in SUBSET S
      PROVE  /\ Sums(w, sum(T), T) /\ Weigh(w, T) = sum(T)[T] /\ Weigh(w, T) = sum(S)[T]
             /\ Adds(w, sum(T), T) /\ sum(S)[T] \in Nat
  <2>1. \A U \in SUBSET S : Sums(w, sum(U), U)
    <3> TAKE U \in SUBSET S
    <3>1. IsFiniteSet(U) /\ U \in SUBSET D BY FS_Subset
    <3>2. \E f : Sums(w, f, U) BY <3>1, SumsExist
    <3> QED BY <3>2
  <2>2. Sums(w, sum(T), T) /\ Sums(w, sum(S), S) BY <2>1
  <2>3. Weigh(w, T) = sum(T)[T] BY WeighIs
  <2> HIDE DEF sum
  <2>4. sum(S)[T] = sum(T)[T] BY <2>2, SumsAgree
  <2>5. Adds(w, sum(T), T) BY <2>2, SumsAdd
  <2>6. sum(S)[T] \in Nat
    <3>1. PICK f \in [SUBSET S -> Nat] : Sums(w, f, S) BY SumsExist
    <3>2. sum(S)[T] = f[T] BY <2>2, <3>1, SumsAgree
    <3> QED BY <3>1, <3>2
  <2> QED BY <2>2, <2>3, <2>4, <2>5, <2>6
<1> HIDE DEF sum
<1>2. Weigh(w, {}) = 0 BY <1>1 DEF Adds
<1>3. Weigh(w, S) \in Nat BY <1>1
<1>4. ASSUME S # {} PROVE Weigh(w, S) = w[One(S)] + Weigh(w, S \ {One(S)})
  <2>1. Adds(w, sum(S), S) /\ Weigh(w, S) = sum(S)[S] BY <1>1
  <2>2. Weigh(w, S \ {One(S)}) = sum(S)[S \ {One(S)}] BY <1>1
  <2> QED BY <1>4, <2>1, <2>2 DEF Adds
<1> QED BY <1>2, <1>3, <1>4

\* Whichever member is taken away first, the sum is the same.
LEMMA WeighTakesAny ==
  ASSUME NEW D, NEW w \in [D -> Nat], NEW S \in SUBSET D, IsFiniteSet(S), NEW x \in S
  PROVE  Weigh(w, S) = w[x] + Weigh(w, S \ {x})
<1> DEFINE Takes(T) == \A y \in T : Weigh(w, T) = w[y] + Weigh(w, T \ {y})
           G == {n \in Nat : \A T \in SUBSET S : Cardinality(T) = n => Takes(T)}
<1>1. \A T \in SUBSET S : IsFiniteSet(T) /\ Cardinality(T) \in Nat
  BY FS_Subset, FS_CardinalityType
<1>2. 0 \in G
  <2>1. \A T \in SUBSET S : Cardinality(T) = 0 => T = {} BY <1>1, FS_EmptySet
  <2> QED BY <2>1
<1>3. ASSUME NEW n \in Nat, n \in G PROVE n + 1 \in G
  <2> SUFFICES ASSUME NEW T \in SUBSET S, Cardinality(T) = n + 1, NEW y \in T
               PROVE  Weigh(w, T) = w[y] + Weigh(w, T \ {y})
    OBVIOUS
  <2> DEFINE c == One(T)
  <2>1. c \in T BY OneIsIn
  <2> HIDE DEF c
  <2>2. Weigh(w, T) = w[c] + Weigh(w, T \ {c}) BY <1>1, <2>1, WeighChosen DEF c
  <2>3. CASE y = c
    BY <2>2, <2>3
  <2>4. CASE y # c
    <3> DEFINE A == T \ {c}
               B == T \ {y}
               C == T \ {c, y}
    <3>1. /\ A \in SUBSET S /\ B \in SUBSET S /\ C \in SUBSET S
          /\ y \in A /\ c \in B /\ A \ {y} = C /\ B \ {c} = C
      BY <2>1, <2>4
    <3>2. Cardinality(A) = n /\ Cardinality(B) = n
      <4>1. IsFiniteSet(T) BY <1>1
      <4>2. Cardinality(A) = Cardinality(T) - 1 /\ Cardinality(B) = Cardinality(T) - 1
        BY <2>1, <4>1, FS_RemoveElement
      <4> QED BY <4>2
    <3> HIDE DEF A, B, C
    <3>3. Weigh(w, A) = w[y] + Weigh(w, C) /\ Weigh(w, B) = w[c] + Weigh(w, C)
      BY <1>3, <3>1, <3>2
    <3>4. Weigh(w, C) \in Nat /\ w[y] \in Nat /\ w[c] \in Nat
      BY <1>1, <2>1, <3>1, WeighChosen
    <3>5. Weigh(w, T) = w[c] + Weigh(w, A) BY <2>2 DEF A
    <3> QED BY <3>3, <3>4, <3>5 DEF B
  <2> QED BY <2>3, <2>4
<1>4. Nat \subseteq G
  <2> HIDE DEF G
  <2> QED BY <1>2, <1>3, NaturalsWithoutAGap
<1> QED BY <1>1, <1>4

\* A part weighs no more than the whole.
LEMMA WeighPart ==
  ASSUME NEW D, NEW w \in [D -> Nat], NEW S \in SUBSET D, IsFiniteSet(S), NEW P \in SUBSET S
  PROVE  Weigh(w, P) <= Weigh(w, S)
<1> DEFINE Q(n) == \A T \in SUBSET S : P \subseteq T /\ Cardinality(T) = n => Weigh(w, P) <= Weigh(w, T)
           G == {n \in Nat : Q(n)}
<1>1. \A T \in SUBSET S : IsFiniteSet(T) /\ Cardinality(T) \in Nat /\ Weigh(w, T) \in Nat
  BY FS_Subset, FS_CardinalityType, WeighChosen
<1>2. 0 \in G
  <2>1. \A T \in SUBSET S : Cardinality(T) = 0 => T = {} BY <1>1, FS_EmptySet
  <2>2. \A T \in SUBSET S : P \subseteq T /\ Cardinality(T) = 0 => T = P BY <2>1
  <2> QED BY <1>1, <2>2
<1>3. ASSUME NEW n \in Nat, n \in G PROVE n + 1 \in G
  <2> SUFFICES ASSUME NEW T \in SUBSET S, P \subseteq T, Cardinality(T) = n + 1
               PROVE  Weigh(w, P) <= Weigh(w, T)
    OBVIOUS
  <2>1. CASE P = T
    BY <1>1, <2>1
  <2>2. CASE P # T
    <3> PICK x \in T : x \notin P BY <2>2
    <3> DEFINE U == T \ {x}
    <3>1. U \in SUBSET S /\ P \subseteq U OBVIOUS
    <3>2. Cardinality(U) = n
      <4>1. Cardinality(U) = Cardinality(T) - 1 BY <1>1, FS_RemoveElement
      <4> QED BY <4>1
    <3>3. Weigh(w, T) = w[x] + Weigh(w, U) BY <1>1, WeighTakesAny
    <3> HIDE DEF U
    <3>4. Weigh(w, P) <= Weigh(w, U) BY <1>3, <3>1, <3>2
    <3> QED BY <1>1, <3>1, <3>3, <3>4
  <2> QED BY <2>1, <2>2
<1>4. Nat \subseteq G
  <2> HIDE DEF G
  <2> QED BY <1>2, <1>3, NaturalsWithoutAGap
<1>5. Q(Cardinality(S)) BY <1>1, <1>4
<1> QED BY <1>5

\* The sum depends on the weights of the members only.
LEMMA WeighSame ==
  ASSUME NEW D, NEW w \in [D -> Nat], NEW v \in [D -> Nat],
         NEW S \in SUBSET D, IsFiniteSet(S), \A s \in S : w[s] = v[s]
  PROVE  Weigh(w, S) = Weigh(v, S)
<1> DEFINE Same(n) == \A T \in SUBSET S : Cardinality(T) = n => Weigh(w, T) = Weigh(v, T)
           G == {n \in Nat : Same(n)}
<1>1. \A T \in SUBSET S : IsFiniteSet(T) /\ Cardinality(T) \in Nat
  BY FS_Subset, FS_CardinalityType
<1>2. 0 \in G
  <2>1. \A T \in SUBSET S : Cardinality(T) = 0 => T = {} BY <1>1, FS_EmptySet
  <2>2. Weigh(w, {}) = Weigh(v, {}) BY WeighChosen
  <2> QED BY <2>1, <2>2
<1>3. ASSUME NEW n \in Nat, n \in G PROVE n + 1 \in G
  <2> SUFFICES ASSUME NEW T \in SUBSET S, Cardinality(T) = n + 1
               PROVE  Weigh(w, T) = Weigh(v, T)
    OBVIOUS
  <2>1. T # {} BY FS_EmptySet
  <2> PICK x \in T : TRUE BY <2>1
  <2> DEFINE U == T \ {x}
  <2>2. U \in SUBSET S /\ Cardinality(U) = n
    <3>1. Cardinality(U) = Cardinality(T) - 1 BY <1>1, FS_RemoveElement
    <3> QED BY <3>1
  <2>3. Weigh(w, T) = w[x] + Weigh(w, U) /\ Weigh(v, T) = v[x] + Weigh(v, U)
    BY <1>1, WeighTakesAny
  <2> HIDE DEF U
  <2>4. Weigh(w, U) = Weigh(v, U) BY <1>3, <2>2
  <2> QED BY <2>3, <2>4
<1>4. Nat \subseteq G
  <2> HIDE DEF G
  <2> QED BY <1>2, <1>3, NaturalsWithoutAGap
<1>5. Same(Cardinality(S)) BY <1>1, <1>4
<1> QED BY <1>5

-----------------------------------------------------------------------------
(* The limits of one client's submissions (Quotas).                        *)

\* What the limits do not bind, and what they do of the hour and of the day.
Apart == {i \in DOMAIN lastHour : lastHour[i] \notin together}
Unbound == together \cup across \cup unseen
Bound == today \ Unbound

\* Of two requests under way one knows of the other's check.
ChecksFit == \A s, t \in UnderWay : s # t => s \in together \/ t \in together

\* The list is the history, and a request that was alone when it checked still
\* has a place in the hour.
HourFits ==
  /\ lately = lastHour
  /\ Cardinality(Apart) <= MaxJobs
  /\ \A s \in UnderWay : s \notin together => Cardinality(Apart) < MaxJobs

\* The total has what was counted since midnight once a check has asked for it,
\* and a request that was alone when it checked still has room for its bytes.
DayFits ==
  /\ IsFiniteSet(today) /\ \A s \in today : step[s] = "counted"
  /\ \A s \in Request : step[s] = "saving" => s \in across \/ resetDay = day
  /\ resetDay # day => today \subseteq across
  /\ resetDay = day => Bytes(Bound) <= total
  /\ Bytes(Bound) <= MaxBytes
  /\ \A s \in Request : step[s] = "saving" /\ s \notin Unbound =>
       Bytes(Bound) + size[s] <= MaxBytes

IInvQuotas ==
  /\ QuotaTypeOK /\ resetDay <= day /\ ChecksFit
  /\ ~ restarted => HourFits /\ DayFits

USE QuotaAssumption DEF quotaVars

LEMMA SizesAreBytes == ASSUME QuotaTypeOK PROVE size \in [Request -> Nat]
<1>1. size \in [Request -> Size \cup {0}] BY DEF QuotaTypeOK
<1>2. Size \cup {0} \subseteq Nat OBVIOUS
<1> QED BY <1>1, <1>2

LEMMA SizesStayBytes == ASSUME QuotaTypeOK' PROVE size' \in [Request -> Nat]
<1>1. size' \in [Request -> Size \cup {0}] BY DEF QuotaTypeOK
<1>2. Size \cup {0} \subseteq Nat OBVIOUS
<1> QED BY <1>1, <1>2

LEMMA QuotaTypes ==
  ASSUME QuotaTypeOK, [QuotaNext]_quotaVars
  PROVE  QuotaTypeOK'
<1> DEFINE Step == {"no", "checked", "saving", "counted", "refused", "failed"}
<1> DEFINE Typed ==
      /\ step' \in [Request -> Step] /\ size' \in [Request -> Size \cup {0}]
      /\ lately' \in Seq(Request) /\ total' \in Nat
      /\ resetDay' \in 0..MaxDays /\ day' \in 0..MaxDays
      /\ lastHour' \in Seq(Request) /\ today' \in SUBSET Request
      /\ together' \in SUBSET Request /\ across' \in SUBSET Request
      /\ unseen' \in SUBSET Request /\ restarted' \in BOOLEAN
<1> SUFFICES Typed
  BY DEF QuotaTypeOK
<1>1. /\ step \in [Request -> Step] /\ size \in [Request -> Size \cup {0}]
      /\ lately \in Seq(Request) /\ total \in Nat
      /\ resetDay \in 0..MaxDays /\ day \in 0..MaxDays
      /\ lastHour \in Seq(Request) /\ today \in SUBSET Request
      /\ together \in SUBSET Request /\ across \in SUBSET Request
      /\ unseen \in SUBSET Request /\ restarted \in BOOLEAN
  BY DEF QuotaTypeOK
<1>2. \A s \in Request, to \in {"checked", "saving"} : Passes(s, to) \/ Refuses(s) =>
        step' \in [Request -> Step] /\ together' \in SUBSET Request
  BY <1>1 DEF Passes, Refuses
<1>3. ASSUME NEW s \in Request, CheckJobs(s) PROVE Typed
  <2>1. Passes(s, "checked") \/ Refuses(s) BY <1>3 DEF CheckJobs
  <2>2. UNCHANGED <<size, lately, total, resetDay, day, lastHour, today, across, unseen, restarted>>
    BY <1>3 DEF CheckJobs
  <2> QED BY <1>1, <1>2, <2>1, <2>2
<1>4. ASSUME NEW s \in Request, Count(s) PROVE Typed
  <2>1. size[s] \in Nat BY SizesAreBytes
  <2>2. total' \in Nat BY <1>1, <1>4, <2>1 DEF Count
  <2>3. lately' \in Seq(Request) /\ lastHour' \in Seq(Request)
    BY <1>1, <1>4, AppendProperties DEF Count
  <2>4. /\ step' = [step EXCEPT ![s] = "counted"] /\ today' = today \cup {s}
        /\ UNCHANGED <<size, resetDay, day, together, across, unseen, restarted>>
    BY <1>4 DEF Count
  <2> QED BY <1>1, <2>2, <2>3, <2>4
<1>5. ASSUME NEW s \in Request, Fails(s) PROVE Typed
  BY <1>1, <1>5 DEF Fails
<1>6. ASSUME NEW s \in Request, NEW n \in Size, NEW said \in Size \cup {0}, CheckUpload(s, n, said)
      PROVE  Typed
  <2>1. Passes(s, "saving") \/ Refuses(s) BY <1>6 DEF CheckUpload
  <2>2. /\ size' = [size EXCEPT ![s] = n]
        /\ total' = (IF resetDay # day THEN 0 ELSE total) /\ resetDay' = day
        /\ unseen' = (IF said = n THEN unseen ELSE unseen \cup {s})
        /\ UNCHANGED <<lately, day, lastHour, today, across, restarted>>
    BY <1>6 DEF CheckUpload
  <2>3. total' \in Nat /\ unseen' \in SUBSET Request BY <1>1, <2>2
  <2>4. size' \in [Request -> Size \cup {0}] BY <1>1, <2>2
  <2> QED BY <1>1, <1>2, <2>1, <2>2, <2>3, <2>4
<1>7. CASE HourPasses
  <2>1. lastHour' \in Seq(Request) /\ lately' \in Seq(Request)
    BY <1>1, <1>7, HeadTailProperties DEF HourPasses
  <2>2. UNCHANGED <<step, size, total, resetDay, day, today, together, across, unseen, restarted>>
    BY <1>7 DEF HourPasses
  <2> QED BY <1>1, <2>1, <2>2
<1>8. CASE Midnight
  BY <1>1, <1>8 DEF Midnight
<1>9. CASE QuotaRestart
  <2>1. step' \in [Request -> Step] BY <1>1, <1>9 DEF QuotaRestart
  <2>2. lately' \in Seq(Request) BY <1>9, EmptySeq DEF QuotaRestart
  <2> QED BY <1>1, <1>9, <2>1, <2>2 DEF QuotaRestart
<1>10. CASE UNCHANGED quotaVars
  BY <1>1, <1>10
<1> QED BY <1>3, <1>4, <1>5, <1>6, <1>7, <1>8, <1>9, <1>10 DEF QuotaNext

LEMMA QuotaTypesAre ==
  ASSUME QuotaTypeOK
  PROVE  /\ size \in [Request -> Nat] /\ today \in SUBSET Request
         /\ lastHour \in Seq(Request) /\ DOMAIN lastHour = 1 .. Len(lastHour)
         /\ Len(lastHour) \in Nat
         /\ IsFiniteSet(Apart) /\ Cardinality(Apart) \in Nat
         /\ Apart \subseteq 1 .. Len(lastHour)
         /\ Cardinality(Apart) <= Len(lastHour)
<1>1. size \in [Request -> Nat] /\ today \in SUBSET Request /\ lastHour \in Seq(Request)
  BY SizesAreBytes DEF QuotaTypeOK
<1>2. DOMAIN lastHour = 1 .. Len(lastHour) /\ Len(lastHour) \in Nat BY <1>1, LenProperties
<1>3. /\ IsFiniteSet(1 .. Len(lastHour)) /\ Cardinality(1 .. Len(lastHour)) = Len(lastHour)
  <2>0. Len(lastHour) \in Nat BY <1>1, LenProperties
  <2> PICK n \in Nat : n = Len(lastHour) BY <2>0
  <2>1. IsFiniteSet(1 .. n) /\ Cardinality(1 .. n) = IF 1 > n THEN 0 ELSE n - 1 + 1
    <3>1. 1 \in Int /\ n \in Int OBVIOUS
    <3> QED BY <3>1, FS_Interval
  <2> QED BY <2>1
<1>4. Apart \in SUBSET (1 .. Len(lastHour)) BY <1>2 DEF Apart
<1>5. IsFiniteSet(Apart) /\ Cardinality(Apart) <= Len(lastHour) BY <1>3, <1>4, FS_Subset
<1> QED BY <1>1, <1>2, <1>4, <1>5, FS_CardinalityType

-----------------------------------------------------------------------------
(* Checks.                                                                 *)

\* A request that passes a check is alone, or is known to be with others.
LEMMA PassingFits ==
  ASSUME QuotaTypeOK, ChecksFit, NEW s \in Request, NEW to \in {"checked", "saving"},
         Passes(s, to)
  PROVE  /\ ChecksFit' /\ together \subseteq together'
         /\ \A t \in UnderWay' : t \notin together' => t = s \/ t \in UnderWay
         /\ \A t \in Request : t # s => step'[t] = step[t]
         /\ s \notin together' => UnderWay' = {s}
<1>1. /\ step' = [step EXCEPT ![s] = to]
      /\ together' = IF UnderWay \subseteq {s} THEN together ELSE together \cup {s}
  BY DEF Passes
<1>2. step'[s] = to /\ \A t \in Request : t # s => step'[t] = step[t]
  BY <1>1 DEF QuotaTypeOK
<1>3. UnderWay' = UnderWay \cup {s}
  BY <1>2 DEF UnderWay
<1>4. together \subseteq together' /\ (s \in together' \/ UnderWay \subseteq {s}) BY <1>1
<1>5. ChecksFit'
  BY <1>3, <1>4 DEF ChecksFit
<1> QED BY <1>2, <1>3, <1>4, <1>5

\* A request that is no longer under way.
LEMMA LeavingFits ==
  ASSUME QuotaTypeOK, ChecksFit, NEW s \in Request,
         NEW to \in {"counted", "refused", "failed"}, step' = [step EXCEPT ![s] = to],
         UNCHANGED together
  PROVE  /\ ChecksFit' /\ UnderWay' = UnderWay \ {s}
         /\ step'[s] = to /\ \A t \in Request : t # s => step'[t] = step[t]
<1>1. step'[s] = to /\ \A t \in Request : t # s => step'[t] = step[t]
  BY DEF QuotaTypeOK
<1>2. UnderWay' = UnderWay \ {s}
  BY <1>1 DEF UnderWay
<1> QED BY <1>1, <1>2 DEF ChecksFit

LEMMA ChecksFitStep ==
  ASSUME QuotaTypeOK, ChecksFit, resetDay <= day, [QuotaNext]_quotaVars
  PROVE  ChecksFit' /\ resetDay' <= day'
<1>1. resetDay \in Nat /\ day \in Nat BY DEF QuotaTypeOK
<1>2. UNCHANGED <<step, together>> => ChecksFit' BY DEF ChecksFit, UnderWay
<1>3. ASSUME NEW s \in Request, CheckJobs(s) PROVE ChecksFit' /\ resetDay' <= day'
  <2>1. Passes(s, "checked") \/ Refuses(s) BY <1>3 DEF CheckJobs
  <2> QED BY <1>3, <2>1, PassingFits, LeavingFits DEF CheckJobs, Refuses
<1>4. ASSUME NEW s \in Request, NEW n \in Size, NEW said \in Size \cup {0}, CheckUpload(s, n, said)
      PROVE  ChecksFit' /\ resetDay' <= day'
  <2>1. (Passes(s, "saving") \/ Refuses(s)) /\ resetDay' = day /\ day' = day
    BY <1>4 DEF CheckUpload
  <2> QED BY <1>1, <2>1, PassingFits, LeavingFits DEF Refuses
<1>5. ASSUME NEW s \in Request, Count(s) \/ Fails(s) PROVE ChecksFit' /\ resetDay' <= day'
  BY <1>5, LeavingFits DEF Count, Fails
<1>6. CASE HourPasses
  BY <1>2, <1>6 DEF HourPasses
<1>7. CASE Midnight
  BY <1>1, <1>2, <1>7 DEF Midnight
<1>8. CASE QuotaRestart
  <2>1. UnderWay' = {} BY <1>8 DEF QuotaRestart, UnderWay, QuotaTypeOK
  <2> QED BY <1>1, <1>8, <2>1 DEF QuotaRestart, ChecksFit
<1>9. CASE UNCHANGED quotaVars
  BY <1>2, <1>9
<1> QED BY <1>3, <1>4, <1>5, <1>6, <1>7, <1>8, <1>9 DEF QuotaNext

-----------------------------------------------------------------------------
(* The hour.                                                               *)

\* Who was with others stays so, and the history is the same.
LEMMA HourStays ==
  ASSUME QuotaTypeOK, HourFits, UNCHANGED <<lately, lastHour>>, together \subseteq together',
         \A t \in UnderWay' : t \notin together' => t \in UnderWay
  PROVE  HourFits'
<1>1. Apart' \subseteq Apart BY DEF Apart
<1>2. IsFiniteSet(Apart) /\ Cardinality(Apart) \in Nat BY QuotaTypesAre
<1>3. Cardinality(Apart') <= Cardinality(Apart) /\ Cardinality(Apart') \in Nat
  BY <1>1, <1>2, FS_Subset, FS_CardinalityType
<1>4. \A t \in UnderWay' : t \notin together' => t \in UnderWay /\ t \notin together OBVIOUS
<1>5. lately' = lastHour' BY DEF HourFits
<1>6. Cardinality(Apart') <= MaxJobs BY <1>2, <1>3 DEF HourFits
<1>7. \A t \in UnderWay' : t \notin together' => Cardinality(Apart') < MaxJobs
  <2> TAKE t \in UnderWay'
  <2> HAVE t \notin together'
  <2>1. Cardinality(Apart) < MaxJobs BY <1>4 DEF HourFits
  <2> QED BY <1>2, <1>3, <2>1
<1> QED BY <1>5, <1>6, <1>7 DEF HourFits

LEMMA HourStep ==
  ASSUME QuotaTypeOK, QuotaTypeOK', ChecksFit, HourFits, [QuotaNext]_quotaVars, ~ restarted'
  PROVE  HourFits'
<1>0. lastHour \in Seq(Request) BY QuotaTypesAre
<1>1. /\ DOMAIN lastHour = 1 .. Len(lastHour) /\ Len(lastHour) \in Nat
      /\ IsFiniteSet(Apart) /\ Cardinality(Apart) \in Nat
      /\ Cardinality(Apart) <= Len(lastHour)
  BY QuotaTypesAre
<1>2. UNCHANGED <<lately, lastHour, step, together>> => HourFits'
  BY HourStays DEF UnderWay
<1>3. ASSUME NEW s \in Request, CheckJobs(s) PROVE HourFits'
  <2>1. UNCHANGED <<lately, lastHour>> BY <1>3 DEF CheckJobs
  <2>2. CASE Refuses(s)
    BY <2>1, <2>2, LeavingFits, HourStays DEF Refuses
  <2>3. CASE Passes(s, "checked") /\ Len(lately) < MaxJobs
    <3>1. /\ together \subseteq together'
          /\ \A t \in UnderWay' : t \notin together' => t = s \/ t \in UnderWay
      BY <2>3, PassingFits
    <3>2. Apart' \subseteq Apart BY <2>1, <3>1 DEF Apart
    <3>3. Cardinality(Apart') <= Cardinality(Apart) /\ Cardinality(Apart') \in Nat
      BY <1>1, <3>2, FS_Subset, FS_CardinalityType
    <3>4. lately' = lastHour' /\ lately = lastHour BY <2>1 DEF HourFits
    <3>5. Cardinality(Apart') < MaxJobs BY <1>1, <2>3, <3>3, <3>4
    <3> QED BY <3>3, <3>4, <3>5 DEF HourFits
  <2>4. lately \in Seq(Request) /\ Len(lately) \in Nat BY LenProperties DEF QuotaTypeOK
  <2>5. Refuses(s) \/ (Passes(s, "checked") /\ Len(lately) < MaxJobs)
    BY <1>3, <2>4 DEF CheckJobs
  <2> QED BY <2>2, <2>3, <2>5
<1>4. ASSUME NEW s \in Request, NEW n \in Size, NEW said \in Size \cup {0}, CheckUpload(s, n, said)
      PROVE  HourFits'
  <2>1. UNCHANGED <<lately, lastHour>> /\ s \in UnderWay BY <1>4 DEF CheckUpload, UnderWay
  <2>2. Passes(s, "saving") \/ Refuses(s) BY <1>4 DEF CheckUpload
  <2> QED BY <2>1, <2>2, PassingFits, LeavingFits, HourStays DEF Refuses
<1>5. ASSUME NEW s \in Request, Fails(s) PROVE HourFits'
  BY <1>5, LeavingFits, HourStays DEF Fails
<1>6. ASSUME NEW s \in Request, Count(s) PROVE HourFits'
  <2> DEFINE n == Len(lastHour)
  <2>1. /\ lately' = Append(lately, s) /\ lastHour' = Append(lastHour, s)
        /\ step' = [step EXCEPT ![s] = "counted"] /\ UNCHANGED together /\ s \in UnderWay
    BY <1>6 DEF Count, UnderWay
  <2>2. UnderWay' = UnderWay \ {s} BY <2>1, LeavingFits
  <2>3. lately' = lastHour' BY <2>1 DEF HourFits
  <2> PICK l \in Seq(Request) : l = lastHour' BY <1>0, <2>1, AppendProperties
  <2>4. /\ Len(l) = n + 1 /\ l[n + 1] = s /\ \A i \in 1 .. n : l[i] = lastHour[i]
    BY <1>0, <2>1, AppendProperties
  <2>5. DOMAIN l = 1 .. n + 1 BY <2>4, LenProperties
  <2>6. Apart' = IF s \in together THEN Apart ELSE Apart \cup {n + 1}
    <3>1. Apart' = {i \in DOMAIN l : l[i] \notin together} BY <2>1 DEF Apart
    <3> HIDE DEF n
    <3>2. n \in Nat /\ DOMAIN lastHour = 1 .. n BY <1>1 DEF n
    <3>3. \A i \in 1 .. n + 1 : i = n + 1 \/ i \in 1 .. n BY <3>2
    <3> QED BY <2>4, <2>5, <3>1, <3>2, <3>3 DEF Apart
  <2>7. n + 1 \notin Apart BY <1>1 DEF Apart
  <2>8. CASE s \in together
    BY <2>2, <2>3, <2>6, <2>8, <2>1 DEF HourFits
  <2>9. CASE s \notin together
    <3>1. Cardinality(Apart') = Cardinality(Apart) + 1 BY <1>1, <2>6, <2>7, <2>9, FS_AddElement
    <3>2. Cardinality(Apart) < MaxJobs BY <2>1, <2>9 DEF HourFits
    <3>3. \A t \in UnderWay' : t \in together' BY <2>1, <2>2, <2>9 DEF ChecksFit
    <3>4. Cardinality(Apart') <= MaxJobs BY <1>1, <3>1, <3>2
    <3> QED BY <2>3, <3>3, <3>4 DEF HourFits
  <2> QED BY <2>8, <2>9
<1>7. CASE HourPasses
  <2> DEFINE n == Len(lastHour)
  <2>1. /\ lastHour # <<>> /\ lastHour' = Tail(lastHour) /\ lately = lastHour
        /\ lately' = Tail(lastHour) /\ UNCHANGED <<step, together>>
    BY <1>7 DEF HourPasses, HourFits
  <2> PICK l \in Seq(Request) : l = lastHour' BY <1>0, <2>1, HeadTailProperties
  <2>2. /\ Len(l) = n - 1 /\ \A i \in 1 .. n - 1 : l[i] = lastHour[i + 1]
    BY <1>0, <2>1, HeadTailProperties
  <2>3. DOMAIN l = 1 .. n - 1 BY <2>2, LenProperties
  <2> PICK A : A = {i \in DOMAIN l : l[i] \notin together} OBVIOUS
  <2>4. Apart' = A BY <2>1 DEF Apart
  <2>5. \A i \in A : i \in Nat /\ i + 1 \in Apart
    <3> HIDE DEF n
    <3>1. n \in Nat /\ DOMAIN lastHour = 1 .. n BY <1>1 DEF n
    <3> QED BY <2>2, <2>3, <3>1 DEF Apart
  <2>6. [i \in A |-> i + 1] \in Injection(A, Apart)
    BY <2>5 DEF Injection, IsInjective
  <2>7. IsFiniteSet(A) /\ Cardinality(A) <= Cardinality(Apart)
    BY <1>1, <2>6, FS_Injection
  <2>8. Cardinality(Apart') <= Cardinality(Apart) /\ Cardinality(Apart') \in Nat
    BY <2>4, <2>7, FS_CardinalityType
  <2>9. UnderWay' = UnderWay BY <2>1 DEF UnderWay
  <2>10. Cardinality(Apart') <= MaxJobs BY <1>1, <2>8 DEF HourFits
  <2>11. \A t \in UnderWay' : t \notin together' => Cardinality(Apart') < MaxJobs
    <3> TAKE t \in UnderWay'
    <3> HAVE t \notin together'
    <3>1. Cardinality(Apart) < MaxJobs BY <2>1, <2>9 DEF HourFits
    <3> QED BY <1>1, <2>8, <3>1
  <2> QED BY <2>1, <2>10, <2>11 DEF HourFits
<1>8. CASE Midnight
  BY <1>2, <1>8 DEF Midnight
<1>9. CASE QuotaRestart
  BY <1>9 DEF QuotaRestart
<1>10. CASE UNCHANGED quotaVars
  BY <1>2, <1>10
<1> QED BY <1>3, <1>4, <1>5, <1>6, <1>7, <1>8, <1>9, <1>10 DEF QuotaNext

-----------------------------------------------------------------------------
(* The day.                                                                *)

LEMMA BytesAre ==
  /\ Bytes(Bound) = Weigh(size, Bound)
  /\ Bytes(Bound)' = Weigh(size', Bound')
BY DEF Bytes, Weigh, MapThenSumSet, MapThenFoldSet

LEMMA BytesFewer ==
  ASSUME QuotaTypeOK, QuotaTypeOK', IsFiniteSet(today), Bound' \subseteq Bound,
         \A s \in today : size'[s] = size[s]
  PROVE  /\ Bytes(Bound) \in Nat /\ Bytes(Bound)' \in Nat
         /\ Bytes(Bound)' <= Bytes(Bound)
<1> PICK B : B = Bound OBVIOUS
<1> PICK C : C = Bound' OBVIOUS
<1>1. size \in [Request -> Nat] /\ size' \in [Request -> Nat]
  BY SizesAreBytes, SizesStayBytes
<1>2. /\ B \in SUBSET today /\ B \in SUBSET Request /\ C \in SUBSET B /\ C \in SUBSET Request
      /\ \A s \in C : size'[s] = size[s]
  BY DEF Bound, QuotaTypeOK
<1>3. IsFiniteSet(B) /\ IsFiniteSet(C) BY <1>2, FS_Subset
<1>4. Weigh(size', C) = Weigh(size, C) BY <1>1, <1>2, <1>3, WeighSame
<1>5. Weigh(size, C) <= Weigh(size, B) BY <1>1, <1>2, <1>3, WeighPart
<1>6. Weigh(size, B) \in Nat /\ Weigh(size, C) \in Nat BY <1>1, <1>2, <1>3, WeighChosen
<1> QED BY <1>4, <1>5, <1>6, BytesAre

\* The same requests count, or fewer of them, and a request that saves did so
\* before or has passed its check with room.
LEMMA DayStays ==
  ASSUME QuotaTypeOK, QuotaTypeOK', DayFits,
         UNCHANGED <<today, resetDay, day, total>>,
         together \subseteq together', across \subseteq across', unseen \subseteq unseen',
         \A s \in Request : step'[s] = "saving" => step[s] = "saving",
         \A s \in Request : step[s] \in {"saving", "counted"} => size'[s] = size[s],
         \A s \in Request : step[s] = "counted" => step'[s] = "counted"
  PROVE  DayFits'
<1>1. /\ today \subseteq Request /\ total \in Nat BY DEF QuotaTypeOK
<1>2. Bound' \subseteq Bound BY DEF Bound, Unbound
<1>3. /\ Bytes(Bound) \in Nat /\ Bytes(Bound)' \in Nat
      /\ Bytes(Bound)' <= Bytes(Bound)
  BY <1>1, <1>2, BytesFewer DEF DayFits
<1>4. IsFiniteSet(today') /\ \A s \in today' : step'[s] = "counted" BY <1>1 DEF DayFits
<1>5. /\ \A s \in Request : step'[s] = "saving" => s \in across' \/ resetDay' = day'
      /\ resetDay' # day' => today' \subseteq across'
  BY DEF DayFits
<1>6. resetDay' = day' => Bytes(Bound)' <= total' BY <1>1, <1>3 DEF DayFits
<1>7. Bytes(Bound)' <= MaxBytes BY <1>3 DEF DayFits
<1>8. ASSUME NEW s \in Request, step'[s] = "saving", s \notin Unbound'
      PROVE  Bytes(Bound)' + size'[s] <= MaxBytes
  <2>1. step[s] = "saving" /\ s \notin Unbound /\ size'[s] = size[s] BY <1>8 DEF Unbound
  <2>2. size[s] \in Nat BY SizesAreBytes
  <2>3. Bytes(Bound) + size[s] <= MaxBytes BY <2>1 DEF DayFits
  <2> QED BY <1>3, <2>1, <2>2, <2>3
<1> QED BY <1>4, <1>5, <1>6, <1>7, <1>8 DEF DayFits

LEMMA CheckUploadFits ==
  ASSUME QuotaTypeOK, QuotaTypeOK', ChecksFit, DayFits,
         NEW s \in Request, NEW n \in Size, NEW said \in Size \cup {0}, CheckUpload(s, n, said)
  PROVE  DayFits'
<1> DEFINE before == IF resetDay # day THEN 0 ELSE total
<1>1. /\ step[s] = "checked" /\ size' = [size EXCEPT ![s] = n]
      /\ total' = before /\ resetDay' = day /\ day' = day /\ today' = today /\ across' = across
      /\ unseen' = IF said = n THEN unseen ELSE unseen \cup {s}
      /\ IF before + said > MaxBytes THEN Refuses(s) ELSE Passes(s, "saving")
  BY DEF CheckUpload
<1>2. /\ today \subseteq Request /\ total \in Nat /\ s \notin today /\ before \in Nat
      /\ said \in Nat /\ n \in Nat /\ size \in [Request -> Nat]
  BY <1>1, SizesAreBytes DEF QuotaTypeOK, DayFits
<1>3. size'[s] = n /\ \A t \in Request : t # s => size'[t] = size[t] BY <1>1, <1>2
<1>4. /\ together \subseteq together' /\ unseen \subseteq unseen'
      /\ \A t \in Request : t # s => step'[t] = step[t]
      /\ step'[s] # "counted"
      /\ step'[s] = "saving" => Passes(s, "saving")
  <2>1. CASE Passes(s, "saving")
    <3>1. step'[s] = "saving" BY <2>1 DEF Passes, QuotaTypeOK
    <3> QED BY <1>1, <2>1, <3>1, PassingFits
  <2>2. CASE Refuses(s)
    <3>1. step'[s] = "refused" BY <2>2 DEF Refuses, QuotaTypeOK
    <3> QED BY <1>1, <2>2, <3>1, LeavingFits DEF Refuses
  <2> HIDE DEF before
  <2> QED BY <1>1, <2>1, <2>2
<1>5. Bound' \subseteq Bound /\ (s \in Unbound => s \in Unbound')
      /\ Unbound \subseteq Unbound'
  BY <1>1, <1>4 DEF Bound, Unbound
<1>6. IsFiniteSet(today) /\ \A t \in today : size'[t] = size[t]
  BY <1>2, <1>3 DEF DayFits
<1>7. /\ Bytes(Bound) \in Nat /\ Bytes(Bound)' \in Nat
      /\ Bytes(Bound)' <= Bytes(Bound)
  BY <1>5, <1>6, BytesFewer
<1>8. Bytes(Bound)' <= before
  <2>1. CASE resetDay = day
    BY <1>2, <1>7, <2>1 DEF DayFits
  <2>2. CASE resetDay # day
    <3>1. Bound' = {} BY <1>1, <2>2 DEF DayFits, Bound, Unbound
    <3>2. IsFiniteSet({}) /\ {} \in SUBSET Request BY FS_EmptySet
    <3>3. Weigh(size', {}) = 0
      <4>1. size' \in [Request -> Nat] BY SizesStayBytes
      <4> QED BY <3>2, <4>1, WeighChosen
    <3> QED BY <2>2, <3>1, <3>3, BytesAre
  <2> QED BY <2>1, <2>2
<1>9. IsFiniteSet(today') /\ \A t \in today' : step'[t] = "counted"
  BY <1>1, <1>2, <1>4 DEF DayFits
<1>10. Bytes(Bound)' <= MaxBytes BY <1>7 DEF DayFits
<1>11. ASSUME NEW t \in Request, step'[t] = "saving", t \notin Unbound'
       PROVE  Bytes(Bound)' + size'[t] <= MaxBytes
  <2>1. CASE t = s
    <3>1. Passes(s, "saving") /\ s \notin unseen' BY <1>4, <1>11, <2>1 DEF Unbound
    <3>2. said = n BY <1>1, <3>1
    <3>3. before + said <= MaxBytes
      <4>1. ~ Refuses(s)
        <5>1. step'[s] = "saving" BY <1>11, <2>1
        <5> QED BY <5>1 DEF Refuses, QuotaTypeOK
      <4> HIDE DEF before
      <4>2. ~ (before + said > MaxBytes) BY <1>1, <4>1
      <4> QED BY <1>2, <4>2
    <3> HIDE DEF before
    <3> QED BY <1>2, <1>3, <1>7, <1>8, <2>1, <3>2, <3>3
  <2>2. CASE t # s
    <3>1. step[t] = "saving" /\ t \notin Unbound /\ size'[t] = size[t]
      BY <1>3, <1>4, <1>5, <1>11, <2>2
    <3>2. Bytes(Bound) + size[t] <= MaxBytes /\ size[t] \in Nat BY <1>2, <3>1 DEF DayFits
    <3> QED BY <1>7, <3>1, <3>2
  <2> QED BY <2>1, <2>2
<1> HIDE DEF before
<1> QED BY <1>1, <1>8, <1>9, <1>10, <1>11 DEF DayFits

LEMMA CountFits ==
  ASSUME QuotaTypeOK, QuotaTypeOK', ChecksFit, DayFits, NEW s \in Request, Count(s)
  PROVE  DayFits'
<1>1. /\ step[s] = "saving" /\ step' = [step EXCEPT ![s] = "counted"]
      /\ total' = total + size[s] /\ today' = today \cup {s}
      /\ UNCHANGED <<size, resetDay, day, together, across, unseen>>
  BY DEF Count
<1>2. /\ today \subseteq Request /\ total \in Nat /\ size \in [Request -> Nat] /\ s \notin today
  BY <1>1, SizesAreBytes DEF QuotaTypeOK, DayFits
<1>3. step'[s] = "counted" /\ \A t \in Request : t # s => step'[t] = step[t]
  BY <1>1 DEF QuotaTypeOK
<1>4. Unbound' = Unbound BY <1>1 DEF Unbound
<1>5. IsFiniteSet(today') /\ \A t \in today' : step'[t] = "counted"
  <2>1. IsFiniteSet(today) BY DEF DayFits
  <2>2. IsFiniteSet(today \cup {s}) BY <2>1, FS_AddElement
  <2> QED BY <1>1, <1>2, <1>3, <2>2 DEF DayFits
<1>6. /\ \A t \in Request : step'[t] = "saving" => t \in across' \/ resetDay' = day'
      /\ resetDay' # day' => today' \subseteq across'
  BY <1>1, <1>3 DEF DayFits
<1> PICK B : B = Bound OBVIOUS
<1>7. B \in SUBSET Request /\ IsFiniteSet(B) /\ Weigh(size, B) \in Nat
  <2>1. B \in SUBSET today /\ B \in SUBSET Request /\ IsFiniteSet(today)
    BY <1>2 DEF Bound, DayFits
  <2>2. IsFiniteSet(B) BY <2>1, FS_Subset
  <2> QED BY <1>2, <2>1, <2>2, WeighChosen
<1>8. Bytes(Bound) = Weigh(size, B) BY BytesAre
<1>9. CASE s \in Unbound
  <2>1. Bound' = B BY <1>1, <1>4, <1>9 DEF Bound
  <2>2. Bytes(Bound)' = Weigh(size, B) BY <1>1, <2>1, BytesAre
  <2>3. resetDay' = day' => Bytes(Bound)' <= total'
    <3> SUFFICES ASSUME resetDay' = day' PROVE Bytes(Bound)' <= total'
      OBVIOUS
    <3>1. Weigh(size, B) <= total BY <1>1, <1>8 DEF DayFits
    <3>2. size[s] \in Nat BY <1>2
    <3> QED BY <1>1, <1>2, <1>7, <2>2, <3>1, <3>2
  <2>4. Bytes(Bound)' <= MaxBytes BY <1>8, <2>2 DEF DayFits
  <2>5. \A t \in Request : step'[t] = "saving" /\ t \notin Unbound' =>
          Bytes(Bound)' + size'[t] <= MaxBytes
    BY <1>1, <1>3, <1>4, <1>8, <2>2 DEF DayFits
  <2> QED BY <1>5, <1>6, <2>3, <2>4, <2>5 DEF DayFits
<1>10. CASE s \notin Unbound
  <2> PICK C : C = B \cup {s} OBVIOUS
  <2>1. Bound' = C /\ s \notin B /\ C \ {s} = B BY <1>1, <1>2, <1>4, <1>10 DEF Bound
  <2>2. C \in SUBSET Request /\ IsFiniteSet(C) /\ s \in C BY <1>7, FS_AddElement
  <2>3. Weigh(size, C) = size[s] + Weigh(size, B) BY <1>2, <2>1, <2>2, WeighTakesAny
  <2>4. Bytes(Bound)' = size[s] + Weigh(size, B) BY <1>1, <2>1, <2>3, BytesAre
  <2>5. size[s] \in Nat BY <1>2
  <2>6. resetDay' = day' => Bytes(Bound)' <= total'
    <3> SUFFICES ASSUME resetDay' = day' PROVE Bytes(Bound)' <= total'
      OBVIOUS
    <3>1. Weigh(size, B) <= total BY <1>1, <1>8 DEF DayFits
    <3> QED BY <1>1, <1>2, <1>7, <2>4, <2>5, <3>1
  <2>7. Bytes(Bound)' <= MaxBytes
    <3>1. Weigh(size, B) + size[s] <= MaxBytes BY <1>1, <1>8, <1>10 DEF DayFits
    <3> QED BY <1>7, <2>4, <2>5, <3>1
  <2>8. ASSUME NEW t \in Request, step'[t] = "saving", t \notin Unbound' PROVE FALSE
    <3>1. t # s /\ t \in UnderWay /\ s \in UnderWay
      BY <1>1, <1>3, <2>8 DEF UnderWay
    <3>2. t \notin together /\ s \notin together BY <1>4, <1>10, <2>8 DEF Unbound
    <3> QED BY <3>1, <3>2 DEF ChecksFit
  <2> QED BY <1>5, <1>6, <2>6, <2>7, <2>8 DEF DayFits
<1> QED BY <1>9, <1>10

LEMMA DayStep ==
  ASSUME QuotaTypeOK, QuotaTypeOK', ChecksFit, resetDay <= day, DayFits,
         [QuotaNext]_quotaVars, ~ restarted'
  PROVE  DayFits'
<1>1. UNCHANGED <<step, size, total, resetDay, day, today, together, across, unseen>> => DayFits'
  BY DayStays
<1>2. ASSUME NEW s \in Request, CheckJobs(s) PROVE DayFits'
  <2>1. UNCHANGED <<size, total, resetDay, day, today, across, unseen>> /\ step[s] = "no"
    BY <1>2 DEF CheckJobs
  <2>2. /\ together \subseteq together' /\ step'[s] \in {"checked", "refused"}
        /\ \A t \in Request : t # s => step'[t] = step[t]
    BY <1>2 DEF CheckJobs, Passes, Refuses, QuotaTypeOK
  <2> QED BY <2>1, <2>2, DayStays
<1>3. ASSUME NEW s \in Request, Fails(s) PROVE DayFits'
  <2>1. UNCHANGED <<size, total, resetDay, day, today, together, across, unseen>>
        /\ step[s] \in {"checked", "saving"}
    BY <1>3 DEF Fails, UnderWay
  <2>2. step'[s] = "failed" /\ \A t \in Request : t # s => step'[t] = step[t]
    BY <1>3 DEF Fails, QuotaTypeOK
  <2> QED BY <2>1, <2>2, DayStays
<1>4. CASE HourPasses
  BY <1>1, <1>4 DEF HourPasses
<1>5. CASE Midnight
  <2>1. /\ day' = day + 1 /\ resetDay' = resetDay /\ today' = {} /\ step' = step
        /\ across' = across \cup {s \in Request : step[s] = "saving"}
    BY <1>5 DEF Midnight
  <2>2. resetDay' # day' BY <2>1 DEF QuotaTypeOK
  <2>3. Bytes(Bound)' = 0
    <3>1. Bound' = {} BY <2>1 DEF Bound
    <3>2. IsFiniteSet({}) /\ {} \in SUBSET Request BY FS_EmptySet
    <3>3. size' \in [Request -> Nat] BY SizesStayBytes
    <3>4. Weigh(size', {}) = 0 BY <3>2, <3>3, WeighChosen
    <3> QED BY <3>1, <3>4, BytesAre
  <2>4. IsFiniteSet(today') BY <2>1, FS_EmptySet
  <2>5. \A s \in Request : step'[s] = "saving" => s \in across' /\ s \in Unbound'
    BY <2>1 DEF Unbound
  <2>6. 0 <= MaxBytes OBVIOUS
  <2> QED BY <2>1, <2>2, <2>3, <2>4, <2>5, <2>6 DEF DayFits
<1>6. CASE QuotaRestart
  BY <1>6 DEF QuotaRestart
<1>7. CASE UNCHANGED quotaVars
  BY <1>1, <1>7
<1> QED BY <1>2, <1>3, <1>4, <1>5, <1>6, <1>7, CheckUploadFits, CountFits DEF QuotaNext

-----------------------------------------------------------------------------
(* The limits.                                                             *)

LEMMA QuotaStart == QuotaInit => IInvQuotas
<1> SUFFICES ASSUME QuotaInit PROVE IInvQuotas
  OBVIOUS
<1> USE DEF QuotaInit
<1>1. QuotaTypeOK
  <2>1. 0 \in 0..MaxDays OBVIOUS
  <2>2. lately \in Seq(Request) /\ lastHour \in Seq(Request) BY EmptySeq
  <2> QED BY <2>1, <2>2 DEF QuotaTypeOK
<1>2. resetDay <= day OBVIOUS
<1>3. UnderWay = {} BY DEF UnderWay
<1>4. HourFits
  <2>1. Apart = {} BY DEF Apart
  <2>2. Cardinality(Apart) = 0 BY <2>1, FS_EmptySet
  <2> QED BY <1>3, <2>2 DEF HourFits
<1>5. DayFits
  <2>1. IsFiniteSet(today) /\ Bound = {} BY FS_EmptySet DEF Bound
  <2>2. IsFiniteSet({}) /\ {} \in SUBSET Request BY FS_EmptySet
  <2>3. Weigh(size, {}) = 0 BY <1>1, <2>2, SizesAreBytes, WeighChosen
  <2>4. Bytes(Bound) = 0 BY <2>1, <2>3, BytesAre
  <2> QED BY <2>1, <2>4 DEF DayFits
<1> QED BY <1>1, <1>2, <1>3, <1>4, <1>5 DEF IInvQuotas, ChecksFit

LEMMA QuotaStep == IInvQuotas /\ [QuotaNext]_quotaVars => IInvQuotas'
<1> SUFFICES ASSUME IInvQuotas, [QuotaNext]_quotaVars PROVE IInvQuotas'
  OBVIOUS
<1>1. QuotaTypeOK' BY QuotaTypes DEF IInvQuotas
<1>2. ChecksFit' /\ resetDay' <= day' BY ChecksFitStep DEF IInvQuotas
<1>3. ~ restarted' => ~ restarted
  BY DEF QuotaNext, CheckJobs, CheckUpload, Count, Fails, HourPasses, Midnight, QuotaRestart
<1>4. ~ restarted' => HourFits' /\ DayFits'
  BY <1>1, <1>3, HourStep, DayStep DEF IInvQuotas
<1> QED BY <1>1, <1>2, <1>4 DEF IInvQuotas

LEMMA QuotaHolds == IInvQuotas => QuotasHold
<1> SUFFICES ASSUME IInvQuotas, ~ restarted
             PROVE  /\ Len(lastHour) <= MaxJobs +
                         Cardinality({i \in DOMAIN lastHour : lastHour[i] \in together})
                    /\ Bytes(today \ (together \cup across \cup unseen)) <= MaxBytes
  BY DEF QuotasHold
<1>1. QuotaTypeOK /\ HourFits /\ DayFits BY DEF IInvQuotas
<1>2. Bytes(today \ (together \cup across \cup unseen)) <= MaxBytes
  BY <1>1 DEF DayFits, Bound, Unbound
<1> PICK n \in Nat : n = Len(lastHour)
  <2>1. lastHour \in Seq(Request) BY <1>1 DEF QuotaTypeOK
  <2>2. Len(lastHour) \in Nat BY <2>1, LenProperties
  <2> QED BY <2>2
<1> DEFINE R == {i \in DOMAIN lastHour : lastHour[i] \in together}
<1>3. /\ IsFiniteSet(1 .. n) /\ Cardinality(1 .. n) = n
  <2>1. 1 \in Int /\ n \in Int OBVIOUS
  <2>2. IsFiniteSet(1 .. n) /\ Cardinality(1 .. n) = IF 1 > n THEN 0 ELSE n - 1 + 1
    BY <2>1, FS_Interval
  <2> QED BY <2>2
<1>4. DOMAIN lastHour = 1 .. n BY <1>1, QuotaTypesAre
<1>5. R \in SUBSET (1 .. n) /\ Apart \in SUBSET (1 .. n) /\ R \cup Apart = 1 .. n
      /\ R \cap Apart = {}
  BY <1>4 DEF Apart
<1> HIDE DEF R
<1>6. /\ IsFiniteSet(R) /\ IsFiniteSet(Apart)
      /\ Cardinality(R) \in Nat /\ Cardinality(Apart) \in Nat
  BY <1>3, <1>5, FS_Subset, FS_CardinalityType
<1>7. n = Cardinality(R) + Cardinality(Apart)
  <2>1. Cardinality(R \cup Apart) = Cardinality(R) + Cardinality(Apart) - Cardinality(R \cap Apart)
    BY <1>6, FS_Union
  <2>2. Cardinality(R \cap Apart) = 0 BY <1>5, FS_EmptySet
  <2>3. Cardinality(R \cup Apart) = n BY <1>3, <1>5
  <2> QED BY <1>6, <2>1, <2>2, <2>3
<1>8. Cardinality(Apart) <= MaxJobs BY <1>1 DEF HourFits
<1>9. n <= MaxJobs + Cardinality(R) BY <1>6, <1>7, <1>8
<1> QED BY <1>2, <1>9 DEF R

LEMMA InvariantQuotas == QuotaSpec => []IInvQuotas
<1>1. QuotaInit => IInvQuotas BY QuotaStart
<1>2. IInvQuotas /\ [QuotaNext]_quotaVars => IInvQuotas' BY QuotaStep
<1> QED BY <1>1, <1>2, PTL DEF QuotaSpec

\* Until the process restarts, the submissions of an hour and the bytes of a
\* day are within the limits, but for requests that passed a check while another
\* was under way, that checked before midnight and counted after it, or whose
\* files' sizes were not learned (security_utils.py).
THEOREM LimitsHold == QuotaSpec => []QuotasHold
BY InvariantQuotas, QuotaHolds, PTL

HIDE QuotaAssumption DEF quotaVars

-----------------------------------------------------------------------------
(* The provider's page (ProviderView).                                     *)

Note == {"metrics", "job_status", "connected", "disconnected"}

\* What messages on their way say: to load; that the agent has left; and, when
\* it has, nothing of its machine that would be heard of last.
Told(s) == \E i \in DOMAIN s : s[i] # "metrics"
SaysItLeft(s) == \E i \in DOMAIN s : s[i] = "disconnected"
LeftIsLast(s) ==
  \A i \in DOMAIN s : s[i] = "metrics" => \E k \in DOMAIN s : i < k /\ s[k] = "disconnected"

\* Something is under way that will load the page.
Coming == asked > 0 \/ patch = "done" \/ Told(feed)

\* The newest load has what the server says: it is the last in the order of
\* the reads, or was delivered before the others.
Fresh ==
  IF answers = <<>> \/ answers[Len(answers)].late
  THEN shown = World
  ELSE answers[Len(answers)].list = World

\* A load that another one has overtaken was read before all that was not.
LateFirst ==
  \A i, k \in DOMAIN answers : i < k /\ answers[k].late => answers[i].late

LoadsFit == LateFirst /\ (causes = {} => Coming \/ Fresh)

\* Metrics that are heard of after the agent has left are followed by the word
\* that it has left.
FeedFits ==
  /\ ~ connected => feed = <<>>
  /\ agent = "down" => LeftIsLast(feed)
  /\ metrics /\ agent = "down" /\ ~ unheard => SaysItLeft(feed)

IInvProvider == ProviderTypeOK /\ LoadsFit /\ FeedFits

USE BoundAssumption DEF server, page, loads, providerVars, Elsewhere, Change, Fault

LEMMA ProviderStart == ProviderInit => IInvProvider
<1> SUFFICES ASSUME ProviderInit
             PROVE  IInvProvider
  OBVIOUS
<1> USE DEF ProviderInit
<1>1. ProviderTypeOK
  <2>1. feed \in Seq({"metrics", "job_status", "connected", "disconnected"})
        /\ answers \in Seq([list : Listed, late : BOOLEAN])
    OBVIOUS
  <2>2. shown \in Listed BY DEF Unloaded, Listed, GpuStatus, JobStatus
  <2>3. gpuStatus \in GpuStatus /\ job \in JobStatus /\ agent \in {"up", "dead", "down"}
    BY DEF GpuStatus, JobStatus
  <2>4. changes \in 0..MaxChanges /\ faults \in 0..MaxFaults /\ asked \in Nat OBVIOUS
  <2> QED BY <2>1, <2>2, <2>3, <2>4 DEF ProviderTypeOK
<1>2. LoadsFit
  BY DEF LoadsFit, LateFirst, Coming
<1>3. FeedFits
  BY DEF FeedFits, LeftIsLast
<1> QED BY <1>1, <1>2, <1>3 DEF IInvProvider

-----------------------------------------------------------------------------
(* Messages and loads on their way.                                        *)

LEMMA NothingTold == ~ Told(<<>>) /\ ~ SaysItLeft(<<>>) /\ LeftIsLast(<<>>)
  BY DEF Told, SaysItLeft, LeftIsLast

LEMMA AppendTells ==
  ASSUME NEW s \in Seq(Note), NEW m \in Note
  PROVE  /\ Append(s, m) \in Seq(Note)
         /\ Told(s) \/ m # "metrics" => Told(Append(s, m))
         /\ SaysItLeft(s) \/ m = "disconnected" => SaysItLeft(Append(s, m))
         /\ m = "disconnected" => LeftIsLast(Append(s, m))
<1> DEFINE n == Len(s)
<1> PICK t \in Seq(Note) : t = Append(s, m) BY AppendProperties
<1>1. /\ n \in Nat /\ DOMAIN s = 1 .. n /\ DOMAIN t = 1 .. n + 1
      /\ \A i \in 1 .. n : t[i] = s[i]
      /\ t[n + 1] = m
  BY AppendProperties, LenProperties
<1> HIDE DEF n
<1>2. /\ Told(s) \/ m # "metrics" => Told(t)
      /\ SaysItLeft(s) \/ m = "disconnected" => SaysItLeft(t)
      /\ m = "disconnected" => LeftIsLast(t)
  BY <1>1 DEF Told, SaysItLeft, LeftIsLast
<1> QED BY <1>2

LEMMA TailTells ==
  ASSUME NEW s \in Seq(Note), s # <<>>
  PROVE  /\ Head(s) \in Note /\ Tail(s) \in Seq(Note)
         /\ Told(s) => Head(s) # "metrics" \/ Told(Tail(s))
         /\ SaysItLeft(s) => Head(s) = "disconnected" \/ SaysItLeft(Tail(s))
         /\ LeftIsLast(s) => LeftIsLast(Tail(s))
         /\ LeftIsLast(s) /\ Head(s) = "metrics" => SaysItLeft(Tail(s))
<1> DEFINE n == Len(s)
<1> PICK t \in Seq(Note) : t = Tail(s) BY HeadTailProperties
<1>1. /\ n \in Nat \ {0} /\ DOMAIN s = 1 .. n /\ DOMAIN t = 1 .. n - 1
      /\ \A i \in 1 .. n - 1 : t[i] = s[i + 1]
      /\ Head(s) = s[1] /\ Head(s) \in Note
  BY HeadTailProperties, LenProperties, EmptySeq
<1> HIDE DEF n
<1>2. \A k \in DOMAIN s : k = 1 \/ (k - 1 \in DOMAIN t /\ t[k - 1] = s[k])
  BY <1>1
<1>3. /\ Told(s) => Head(s) # "metrics" \/ Told(t)
      /\ SaysItLeft(s) => Head(s) = "disconnected" \/ SaysItLeft(t)
  BY <1>1, <1>2 DEF Told, SaysItLeft
<1>4. ASSUME LeftIsLast(s) PROVE LeftIsLast(t)
  <2> SUFFICES ASSUME NEW i \in DOMAIN t, t[i] = "metrics"
               PROVE  \E k \in DOMAIN t : i < k /\ t[k] = "disconnected"
    BY DEF LeftIsLast
  <2>1. i + 1 \in DOMAIN s /\ s[i + 1] = "metrics" /\ i \in Nat \ {0} BY <1>1
  <2>2. PICK k \in DOMAIN s : i + 1 < k /\ s[k] = "disconnected" BY <1>4, <2>1 DEF LeftIsLast
  <2>3. k \in Nat /\ k # 1 BY <1>1, <2>1, <2>2
  <2>4. k - 1 \in DOMAIN t /\ t[k - 1] = "disconnected" BY <1>2, <2>2, <2>3
  <2>5. i < k - 1 BY <2>1, <2>2, <2>3
  <2> QED BY <2>4, <2>5
<1>5. LeftIsLast(s) /\ Head(s) = "metrics" => SaysItLeft(t)
  <2> SUFFICES ASSUME LeftIsLast(s), Head(s) = "metrics" PROVE SaysItLeft(t)
    OBVIOUS
  <2>1. 1 \in DOMAIN s /\ s[1] = "metrics" BY <1>1
  <2>2. PICK k \in DOMAIN s : 1 < k /\ s[k] = "disconnected" BY <2>1 DEF LeftIsLast
  <2>3. k # 1 BY <1>1, <2>2
  <2> QED BY <1>2, <2>2, <2>3 DEF SaysItLeft
<1> QED BY <1>1, <1>3, <1>4, <1>5

LEMMA RangeTells ==
  ASSUME NEW s
  PROVE  /\ Range(s) \subseteq {"metrics"} <=> ~ Told(s)
         /\ "disconnected" \in Range(s) <=> SaysItLeft(s)
BY DEF Range, Told, SaysItLeft

\* One element of a sequence is removed.
LEMMA RemovedOne ==
  ASSUME NEW S, NEW s \in Seq(S), NEW k \in 1 .. Len(s)
  PROVE  /\ RemoveAt(s, k) \in Seq(S)
         /\ Len(RemoveAt(s, k)) = Len(s) - 1
         /\ \A i \in 1 .. Len(s) - 1 : RemoveAt(s, k)[i] = IF i < k THEN s[i] ELSE s[i + 1]
<1> DEFINE n == Len(s)
           a == SubSeq(s, 1, k - 1)
           b == SubSeq(s, k + 1, n)
<1>1. n \in Nat /\ \A i \in 1 .. n : s[i] \in S BY ElementOfSeq, LenProperties
<1>2. /\ a \in Seq(S) /\ Len(a) = k - 1
      /\ \A i \in 1 .. k - 1 : a[i] = s[i]
  <2> HIDE DEF n
  <2>1. k - 1 \in Int /\ 1 \in Int /\ \A i \in 1 .. k - 1 : s[i] \in S BY <1>1 DEF n
  <2>2. /\ a \in Seq(S) /\ Len(a) = IF 1 <= k - 1 THEN (k - 1) - 1 + 1 ELSE 0
        /\ \A i \in 1 .. (k - 1) - 1 + 1 : a[i] = s[1 + i - 1]
    BY <2>1, SubSeqProperties
  <2>3. k \in Nat \ {0} BY <1>1 DEF n
  <2> HIDE DEF a
  <2>4. \A i \in 1 .. k - 1 : a[i] = s[i]
    <3> TAKE i \in 1 .. k - 1
    <3>1. i \in 1 .. (k - 1) - 1 + 1 /\ 1 + i - 1 = i BY <2>3
    <3> QED BY <2>2, <3>1
  <2> QED BY <2>2, <2>3, <2>4
<1>3. /\ b \in Seq(S) /\ Len(b) = n - k
      /\ \A i \in 1 .. n - k : b[i] = s[k + i]
  <2> HIDE DEF n
  <2>1. k + 1 \in Int /\ n \in Int /\ k \in 1 .. n /\ \A i \in k + 1 .. n : s[i] \in S BY <1>1 DEF n
  <2>2. /\ b \in Seq(S) /\ Len(b) = IF k + 1 <= n THEN n - (k + 1) + 1 ELSE 0
        /\ \A i \in 1 .. n - (k + 1) + 1 : b[i] = s[(k + 1) + i - 1]
    BY <2>1, SubSeqProperties
  <2> HIDE DEF b
  <2>3. \A i \in 1 .. n - k : b[i] = s[k + i]
    <3> TAKE i \in 1 .. n - k
    <3>1. i \in 1 .. n - (k + 1) + 1 /\ (k + 1) + i - 1 = k + i BY <2>1, <1>1
    <3> QED BY <2>2, <3>1
  <2> QED BY <1>1, <2>1, <2>2, <2>3
<1>4. RemoveAt(s, k) = a \o b BY DEF RemoveAt
<1> HIDE DEF a, b
<1>5. /\ a \o b \in Seq(S) /\ Len(a \o b) = Len(a) + Len(b)
      /\ \A i \in 1 .. Len(a) + Len(b) :
           (a \o b)[i] = IF i <= Len(a) THEN a[i] ELSE b[i - Len(a)]
  BY <1>2, <1>3, ConcatProperties
<1> HIDE DEF n
<1>6. k \in 1 .. n BY DEF n
<1>7. Len(a \o b) = n - 1 BY <1>1, <1>2, <1>3, <1>5, <1>6
<1>8. ASSUME NEW i \in 1 .. n - 1
      PROVE  (a \o b)[i] = IF i < k THEN s[i] ELSE s[i + 1]
  <2>1. i \in 1 .. Len(a) + Len(b) BY <1>1, <1>2, <1>3, <1>6
  <2>2. CASE i < k
    <3>1. i <= Len(a) /\ i \in 1 .. k - 1 BY <1>1, <1>2, <1>6, <2>2
    <3> QED BY <1>2, <1>5, <2>1, <2>2, <3>1
  <2>3. CASE ~ (i < k)
    <3>1. ~ (i <= Len(a)) /\ i - Len(a) \in 1 .. n - k /\ k + (i - Len(a)) = i + 1
      BY <1>1, <1>2, <1>6, <2>3
    <3> QED BY <1>3, <1>5, <2>1, <2>3, <3>1
  <2> QED BY <2>2, <2>3
<1> QED BY <1>4, <1>5, <1>7, <1>8 DEF n

Answer == [list : Listed, late : BOOLEAN]

LEMMA TypesOfTheLoads ==
  ASSUME ProviderTypeOK
  PROVE  /\ answers \in Seq(Answer) /\ DOMAIN answers = 1 .. Len(answers) /\ Len(answers) \in Nat
         /\ answers = <<>> <=> Len(answers) = 0
         /\ \A i \in DOMAIN answers : answers[i] \in Answer
         /\ feed \in Seq(Note)
<1>1. answers \in Seq(Answer) /\ feed \in Seq(Note) BY DEF ProviderTypeOK, Answer, Note
<1>2. DOMAIN answers = 1 .. Len(answers) /\ Len(answers) \in Nat BY <1>1, LenProperties
<1>3. \A i \in DOMAIN answers : answers[i] \in Answer BY <1>1, <1>2, ElementOfSeq
<1>4. answers = <<>> <=> Len(answers) = 0 BY <1>1, EmptySeq
<1> QED BY <1>1, <1>2, <1>3, <1>4

\* A load is delivered: those that were read before it are now late.
LEMMA WithoutIs ==
  ASSUME ProviderTypeOK, NEW k \in DOMAIN answers
  PROVE  /\ Without(k) \in Seq(Answer)
         /\ Len(Without(k)) = Len(answers) - 1
         /\ \A i \in 1 .. Len(answers) - 1 :
              LET j == IF i < k THEN i ELSE i + 1
              IN  /\ Without(k)[i].list = answers[j].list
                  /\ Without(k)[i].late <=> answers[j].late \/ j < k
<1> DEFINE n == Len(answers)
           one(i) == [answers[i] EXCEPT !.late = @ \/ i < k]
<1>1. /\ n \in Nat /\ DOMAIN answers = 1 .. n /\ k \in 1 .. n
      /\ \A i \in 1 .. n : answers[i] \in Answer
  BY TypesOfTheLoads
<1> HIDE DEF n
<1>2. ASSUME NEW i \in 1 .. n
      PROVE  /\ one(i) \in Answer
             /\ one(i).list = answers[i].list
             /\ one(i).late <=> answers[i].late \/ i < k
  <2>1. answers[i] \in Answer BY <1>1
  <2>2. PICK b \in BOOLEAN : b = (answers[i].late \/ i < k) OBVIOUS
  <2>3. one(i) = [answers[i] EXCEPT !.late = b] BY <2>2, Zenon
  <2>4. one(i) \in Answer /\ one(i).list = answers[i].list /\ one(i).late = b
    BY <2>1, <2>2, <2>3 DEF Answer
  <2> QED BY <2>2, <2>4, Zenon
<1> PICK s : s = [i \in DOMAIN answers |-> one(i)] OBVIOUS
<1>3. s \in [1 .. n -> Answer] /\ \A i \in 1 .. n : s[i] = one(i)
  <2> HIDE DEF one
  <2> QED BY <1>1, <1>2
<1>4. s \in Seq(Answer) /\ Len(s) = n
  BY <1>1, <1>3
<1>5. Without(k) = RemoveAt(s, k) BY DEF Without
<1>6. /\ RemoveAt(s, k) \in Seq(Answer) /\ Len(RemoveAt(s, k)) = n - 1
      /\ \A i \in 1 .. n - 1 : RemoveAt(s, k)[i] = IF i < k THEN s[i] ELSE s[i + 1]
  <2>1. k \in 1 .. Len(s) BY <1>1, <1>4
  <2>2. /\ RemoveAt(s, k) \in Seq(Answer) /\ Len(RemoveAt(s, k)) = Len(s) - 1
        /\ \A i \in 1 .. Len(s) - 1 : RemoveAt(s, k)[i] = IF i < k THEN s[i] ELSE s[i + 1]
    BY <1>4, <2>1, RemovedOne
  <2> QED BY <1>4, <2>2
<1> HIDE DEF one
<1>7. ASSUME NEW i \in 1 .. n - 1, NEW j, j = IF i < k THEN i ELSE i + 1
      PROVE  /\ Without(k)[i].list = answers[j].list
             /\ Without(k)[i].late <=> answers[j].late \/ j < k
  <2>1. j \in 1 .. n BY <1>1, <1>7
  <2>2. Without(k)[i] = one(j) BY <1>3, <1>5, <1>6, <1>7, <2>1
  <2> QED BY <1>2, <2>1, <2>2, Zenon
<1> QED BY <1>5, <1>6, <1>7 DEF n

-----------------------------------------------------------------------------
(* The types.                                                              *)

LEMMA TellKinds ==
  ASSUME ProviderTypeOK, NEW m \in Note, Tell(m)
  PROVE  /\ feed' \in Seq(Note)
         /\ causes' \subseteq {"silent", "missed", "failed", "crossed"}
         /\ unheard' \in BOOLEAN
<1>1. feed \in Seq(Note) /\ causes \subseteq {"silent", "missed", "failed", "crossed"}
      /\ unheard \in BOOLEAN
  BY DEF ProviderTypeOK, Note
<1>2. CASE connected
  <2>1. feed' = Append(feed, m) /\ causes' = causes /\ unheard' = unheard BY <1>2 DEF Tell
  <2> QED BY <1>1, <2>1, AppendProperties
<1>3. CASE ~ connected
  <2>1. unheard' = (unheard \/ m = "disconnected") BY <1>3 DEF Tell
  <2>2. unheard' \in BOOLEAN BY <2>1, Zenon
  <2> QED BY <1>1, <1>3, <2>2 DEF Tell
<1> QED BY <1>2, <1>3

LEMMA ProviderTypes ==
  ASSUME ProviderTypeOK, [ProviderNext]_providerVars
  PROVE  ProviderTypeOK'
<1> DEFINE Cause == {"silent", "missed", "failed", "crossed"}
           Agent == {"up", "dead", "down"}
           Patch == {"no", "online", "offline", "done"}
<1>1. /\ gpuStatus \in GpuStatus /\ job \in JobStatus /\ agent \in Agent
      /\ connected \in BOOLEAN /\ feed \in Seq(Note) /\ asked \in Nat
      /\ answers \in Seq(Answer) /\ shown \in Listed /\ metrics \in BOOLEAN
      /\ patch \in Patch /\ changes \in 0..MaxChanges /\ faults \in 0..MaxFaults
      /\ causes \in SUBSET Cause /\ unheard \in BOOLEAN
  BY DEF ProviderTypeOK, Note, Answer
<1> DEFINE Typed ==
      /\ gpuStatus' \in GpuStatus /\ job' \in JobStatus /\ agent' \in Agent
      /\ connected' \in BOOLEAN /\ feed' \in Seq(Note) /\ asked' \in Nat
      /\ answers' \in Seq(Answer) /\ shown' \in Listed /\ metrics' \in BOOLEAN
      /\ patch' \in Patch /\ changes' \in 0..MaxChanges /\ faults' \in 0..MaxFaults
      /\ causes' \in SUBSET Cause /\ unheard' \in BOOLEAN
<1> SUFFICES Typed
  BY DEF ProviderTypeOK, Note, Answer
<1>2. "online" \in GpuStatus /\ "busy" \in GpuStatus /\ "offline" \in GpuStatus
      /\ "queued" \in JobStatus /\ "running" \in JobStatus /\ "ended" \in JobStatus
      /\ "metrics" \in Note /\ "job_status" \in Note
      /\ "connected" \in Note /\ "disconnected" \in Note
  BY DEF GpuStatus, JobStatus, Note
<1>3. \A m \in Note : Tell(m) =>
        feed' \in Seq(Note) /\ causes' \in SUBSET Cause /\ unheard' \in BOOLEAN
  BY TellKinds
<1>4. World \in Listed /\ Len(answers) \in Nat BY <1>1, LenProperties DEF World, Listed
<1>5. Change => changes' \in 0..MaxChanges BY <1>1
<1>6. Fault => faults' \in 0..MaxFaults BY <1>1
<1>7. Silently => causes' \in SUBSET Cause /\ feed' = feed /\ unheard' = unheard
  BY <1>1 DEF Silently
<1> HIDE DEF Change, Fault
<1> DEFINE Server == 
      /\ gpuStatus' \in GpuStatus /\ job' \in JobStatus /\ agent' \in Agent
<1>8. ASSUME AgentConnects PROVE Server /\ Change /\ Elsewhere /\ \E m \in Note : Tell(m)
  BY <1>1, <1>2, <1>8 DEF AgentConnects
<1>9. ASSUME AgentDisconnects PROVE Server /\ Change /\ Elsewhere /\ \E m \in Note : Tell(m)
  BY <1>1, <1>2, <1>9 DEF AgentDisconnects
<1>10. ASSUME NEW s \in {"running", "ended"}, JobStatusReport(s)
       PROVE  Server /\ Change /\ Elsewhere /\ \E m \in Note : Tell(m)
  BY <1>1, <1>2, <1>10 DEF JobStatusReport
<1>11. ASSUME Dispatched \/ Cancelled \/ Swept \/ \E s \in {"online", "offline"} : PatchedElsewhere(s)
       PROVE  Server /\ Change /\ Elsewhere /\ Silently
  BY <1>1, <1>2, <1>11 DEF Dispatched, Cancelled, Swept, PatchedElsewhere
<1>12. ASSUME AgentDies PROVE Server /\ Change /\ Elsewhere /\ UNCHANGED <<feed, causes, unheard>>
  BY <1>1, <1>12 DEF AgentDies
<1>13. ASSUME Server, Change, Elsewhere,
              (\E m \in Note : Tell(m)) \/ Silently \/ UNCHANGED <<feed, causes, unheard>>
       PROVE  Typed
  <2>1. feed' \in Seq(Note) /\ causes' \in SUBSET Cause /\ unheard' \in BOOLEAN
    BY <1>1, <1>3, <1>7, <1>13
  <2>2. changes' \in 0..MaxChanges BY <1>5, <1>13
  <2> QED BY <1>1, <1>13, <2>1, <2>2
<1>14. CASE AgentConnects \/ AgentDisconnects \/ AgentDies \/ Dispatched \/ Cancelled \/ Swept
            \/ (\E s \in {"online", "offline"} : PatchedElsewhere(s))
            \/ (\E s \in {"running", "ended"} : JobStatusReport(s))
  BY <1>8, <1>9, <1>10, <1>11, <1>12, <1>13, <1>14
<1> HIDE DEF Cause, Agent
<1>15. CASE Metrics
  <2>1. feed' \in Seq(Note) BY <1>1, <1>2, <1>15, AppendProperties DEF Metrics
  <2> QED BY <1>1, <1>15, <2>1 DEF Metrics
<1>16. CASE Connect
  BY <1>1, <1>16 DEF Connect
<1>17. CASE Close
  <2>1. causes' \in SUBSET Cause BY <1>1, <1>17 DEF Close, Cause
  <2>2. unheard' \in BOOLEAN BY <1>17, Zenon DEF Close
  <2>3. faults' \in 0..MaxFaults BY <1>6, <1>17 DEF Close
  <2>4. connected' = FALSE /\ feed' = <<>> /\ UNCHANGED <<server, loads, page, patch>>
    BY <1>17 DEF Close
  <2>5. feed' \in Seq(Note) /\ connected' \in BOOLEAN BY <2>4, EmptySeq
  <2> QED BY <1>1, <2>1, <2>2, <2>3, <2>4, <2>5
<1>18. CASE Hear
  <2>1. feed' \in Seq(Note) BY <1>1, <1>18, HeadTailProperties DEF Hear
  <2>2. metrics' \in BOOLEAN
    <3>1. metrics' = TRUE \/ metrics' = (metrics /\ Head(feed) # "disconnected") BY <1>18 DEF Hear
    <3> QED BY <3>1, Zenon
  <2>3. unheard' = FALSE \/ unheard' = unheard BY <1>18 DEF Hear
  <2>4. asked' \in Nat /\ answers' = answers BY <1>1, <1>18 DEF Hear, Load
  <2>5. UNCHANGED <<server, connected, shown, patch, faults, causes>> BY <1>18 DEF Hear
  <2> QED BY <1>1, <2>1, <2>2, <2>3, <2>4, <2>5
<1>19. CASE Read
  <2>1. [list |-> World, late |-> FALSE] \in Answer BY <1>4 DEF Answer
  <2>2. answers' \in Seq(Answer) BY <1>1, <1>19, <2>1, AppendProperties DEF Read
  <2>3. asked' \in Nat BY <1>1, <1>19 DEF Read
  <2> QED BY <1>1, <1>19, <2>2, <2>3 DEF Read
<1>20. CASE LoadFails
  <2>1. asked' \in Nat /\ answers' \in Seq(Answer)
    BY <1>1, <1>20, RemovedOne, LenProperties DEF LoadFails
  <2>2. faults' \in 0..MaxFaults BY <1>6, <1>20 DEF LoadFails
  <2>3. causes' \in SUBSET Cause BY <1>1, <1>20 DEF LoadFails, Cause
  <2> QED BY <1>1, <1>20, <2>1, <2>2, <2>3 DEF LoadFails
<1>21. ASSUME NEW k \in 1..MaxLoads, Deliver(k)
       PROVE  Typed
  <2>1. k \in DOMAIN answers /\ answers' = Without(k) /\ shown' = answers[k].list
    BY <1>21 DEF Deliver
  <2>2. answers' \in Seq(Answer) BY <2>1, WithoutIs
  <2>3. answers[k] \in Answer BY <2>1, TypesOfTheLoads
  <2>4. shown' \in Listed BY <2>1, <2>3 DEF Answer
  <2>5. causes' \in SUBSET Cause BY <1>1, <1>21 DEF Deliver, Cause
  <2> QED BY <1>1, <1>21, <2>2, <2>4, <2>5 DEF Deliver
<1>22. CASE Toggle
  <2>1. metrics' \in BOOLEAN BY <1>22, Zenon DEF Toggle
  <2>2. patch' \in Patch BY <1>22 DEF Toggle
  <2> QED BY <1>1, <1>22, <2>1, <2>2 DEF Toggle
<1>23. CASE Patched
  <2>1. changes' \in 0..MaxChanges BY <1>5, <1>23 DEF Patched
  <2> QED BY <1>1, <1>2, <1>23, <2>1 DEF Patched
<1>24. CASE Toggled
  BY <1>1, <1>24 DEF Toggled, Load
<1>25. CASE ToggleFails
  <2>1. faults' \in 0..MaxFaults BY <1>6, <1>25 DEF ToggleFails
  <2>2. causes' \in SUBSET Cause BY <1>1, <1>25 DEF ToggleFails, Cause
  <2> QED BY <1>1, <1>25, <2>1, <2>2 DEF ToggleFails
<1>26. CASE UNCHANGED providerVars
  BY <1>1, <1>26
<1> QED BY <1>14, <1>15, <1>16, <1>17, <1>18, <1>19, <1>20, <1>21, <1>22, <1>23, <1>24,
           <1>25, <1>26 DEF ProviderNext

-----------------------------------------------------------------------------
(* The messages on their way.                                              *)

\* The agent is gone only by AgentDisconnects; it comes by AgentConnects.
LEMMA FeedFitsStep ==
  ASSUME ProviderTypeOK, FeedFits, [ProviderNext]_providerVars
  PROVE  FeedFits'
<1>1. feed \in Seq(Note) BY TypesOfTheLoads
<1>2. /\ "metrics" \in Note /\ "job_status" \in Note
      /\ "connected" \in Note /\ "disconnected" \in Note
      /\ "disconnected" # "metrics" /\ "up" # "down" /\ "dead" # "down"
  BY DEF Note
<1> PICK f : f = feed' OBVIOUS
<1> SUFFICES
      /\ ~ connected' => f = <<>>
      /\ agent' = "down" => LeftIsLast(f)
      /\ metrics' /\ agent' = "down" /\ ~ unheard' => SaysItLeft(f)
  BY DEF FeedFits, LeftIsLast, SaysItLeft
<1>3. /\ ~ connected => feed = <<>>
      /\ agent = "down" => LeftIsLast(feed)
      /\ metrics /\ agent = "down" /\ ~ unheard => SaysItLeft(feed)
  BY DEF FeedFits
<1>4. CASE UNCHANGED <<feed, unheard>> /\ agent' \in {agent, "dead"} /\ connected' = connected
           /\ (metrics' => metrics)
  BY <1>2, <1>3, <1>4
<1>5. CASE agent' # "down" /\ Elsewhere /\ \E m \in Note : Tell(m)
  BY <1>3, <1>5 DEF Tell
<1>6. CASE AgentConnects
  BY <1>2, <1>5, <1>6 DEF AgentConnects
<1>7. CASE AgentDisconnects
  <2>1. Tell("disconnected") /\ connected' = connected /\ metrics' = metrics
    BY <1>7 DEF AgentDisconnects
  <2>2. CASE connected
    <3>1. f = Append(feed, "disconnected") BY <2>1, <2>2 DEF Tell
    <3> QED BY <1>1, <1>2, <2>1, <2>2, <3>1, AppendTells
  <2>3. CASE ~ connected
    <3>1. f = <<>> BY <1>3, <2>1, <2>3 DEF Tell
    <3>2. unheard' BY <2>1, <2>3, Zenon DEF Tell
    <3> QED BY <3>1, <3>2, NothingTold
  <2> QED BY <2>2, <2>3
<1>8. CASE AgentDies
  BY <1>4, <1>8 DEF AgentDies
<1>9. ASSUME NEW s \in {"running", "ended"}, JobStatusReport(s)
      PROVE  agent' # "down" /\ Elsewhere /\ \E m \in Note : Tell(m)
  BY <1>2, <1>9 DEF JobStatusReport
<1>10. CASE Metrics
  <2>1. agent' # "down" /\ connected /\ connected' = connected BY <1>2, <1>10 DEF Metrics
  <2> QED BY <2>1
<1>11. CASE Dispatched \/ Cancelled \/ Swept \/ \E s \in {"online", "offline"} : PatchedElsewhere(s)
  BY <1>4, <1>11 DEF Dispatched, Cancelled, Swept, PatchedElsewhere, Silently
<1>12. CASE Connect
  BY <1>3, <1>12 DEF Connect
<1>13. CASE Close
  <2>1. f = <<>> /\ metrics' = metrics /\ agent' = agent BY <1>13 DEF Close
  <2>2. unheard' = (unheard \/ "disconnected" \in Range(feed)) BY <1>13 DEF Close
  <2>3. (unheard \/ SaysItLeft(feed)) => unheard' BY <2>2, RangeTells, Zenon
  <2> QED BY <1>3, <2>1, <2>3, NothingTold
<1>14. CASE Hear
  <2>1. /\ feed # <<>> /\ f = Tail(feed) /\ connected' = connected /\ agent' = agent
        /\ \/ Head(feed) = "metrics" /\ unheard' = FALSE
           \/ /\ Head(feed) # "metrics" /\ unheard' = unheard
              /\ metrics' = (metrics /\ Head(feed) # "disconnected")
    BY <1>14 DEF Hear
  <2>2. /\ SaysItLeft(feed) => Head(feed) = "disconnected" \/ SaysItLeft(f)
        /\ LeftIsLast(feed) => LeftIsLast(f)
        /\ LeftIsLast(feed) /\ Head(feed) = "metrics" => SaysItLeft(f)
    BY <1>1, <2>1, TailTells
  <2>3. ~ connected' => f = <<>> BY <1>3, <2>1
  <2>4. agent' = "down" => LeftIsLast(f) BY <1>3, <2>1, <2>2
  <2>5. CASE Head(feed) = "metrics"
    BY <1>3, <2>1, <2>2, <2>3, <2>4, <2>5
  <2>6. CASE Head(feed) # "metrics" /\ metrics' = (metrics /\ Head(feed) # "disconnected")
    <3>1. metrics' => metrics /\ Head(feed) # "disconnected" BY <2>6, Zenon
    <3>2. unheard' = unheard BY <2>1, <2>6
    <3> QED BY <1>3, <2>1, <2>2, <2>3, <2>4, <3>1, <3>2
  <2> QED BY <2>1, <2>5, <2>6
<1>15. CASE Read \/ LoadFails \/ Toggled \/ ToggleFails \/ Patched
            \/ \E k \in 1..MaxLoads : Deliver(k)
  BY <1>4, <1>15 DEF Read, LoadFails, Toggled, ToggleFails, Patched, Deliver
<1>16. CASE Toggle
  <2>1. metrics' => metrics BY <1>16, Zenon DEF Toggle
  <2> QED BY <1>4, <1>16, <2>1 DEF Toggle
<1>17. CASE UNCHANGED providerVars
  BY <1>4, <1>17
<1> QED BY <1>5, <1>6, <1>7, <1>8, <1>9, <1>10, <1>11, <1>12, <1>13, <1>14, <1>15, <1>16,
           <1>17 DEF ProviderNext

-----------------------------------------------------------------------------
(* The loads.                                                              *)

\* One of the loads is gone, the others keep their order and what they have.
LEMMA OrderAfterRemoval ==
  ASSUME ProviderTypeOK, LateFirst, NEW k \in 1 .. Len(answers),
         answers' = Without(k) \/ answers' = RemoveAt(answers, k)
  PROVE  LateFirst'
<1> PICK s : s = answers' OBVIOUS
<1> DEFINE n == Len(answers)
           at(i) == IF i < k THEN i ELSE i + 1
<1>0. answers \in Seq(Answer) BY TypesOfTheLoads
<1>1. n \in Nat /\ DOMAIN answers = 1 .. n /\ k \in 1 .. n /\ k \in DOMAIN answers
  BY TypesOfTheLoads
<1>2. CASE answers' = Without(k)
  <2>1. /\ s \in Seq(Answer) /\ Len(s) = n - 1
        /\ \A i \in 1 .. n - 1 : s[i].late <=> answers[at(i)].late \/ at(i) < k
    <3>1. k \in DOMAIN answers /\ s = Without(k) BY <1>1, <1>2
    <3> QED BY <3>1, WithoutIs, Zenon
  <2>2. DOMAIN s = 1 .. n - 1 BY <2>1, LenProperties
  <2>3. ASSUME NEW i \in DOMAIN s, NEW l \in DOMAIN s, i < l, s[l].late PROVE s[i].late
    <3> HIDE DEF n
    <3>1. /\ at(i) \in 1 .. n /\ at(l) \in 1 .. n /\ at(i) < at(l) /\ k \in Nat
          /\ at(i) \in Nat /\ at(l) \in Nat
      BY <1>1, <2>2, <2>3
    <3> HIDE DEF at
    <3>2. answers[at(l)].late \/ at(l) < k BY <2>1, <2>2, <2>3
    <3>3. at(l) < k => at(i) < k BY <3>1
    <3>4. answers[at(l)].late => answers[at(i)].late BY <1>1, <3>1 DEF LateFirst
    <3> QED BY <2>1, <2>2, <3>2, <3>3, <3>4
  <2> QED BY <2>3 DEF LateFirst
<1>3. CASE answers' = RemoveAt(answers, k)
  <2>1. /\ s \in Seq(Answer) /\ Len(s) = n - 1
        /\ \A i \in 1 .. n - 1 : s[i] = answers[at(i)]
    <3>1. /\ s \in Seq(Answer) /\ Len(s) = n - 1
          /\ \A i \in 1 .. n - 1 : s[i] = IF i < k THEN answers[i] ELSE answers[i + 1]
      BY <1>0, <1>3, RemovedOne
    <3> QED BY <3>1
  <2>2. DOMAIN s = 1 .. n - 1 BY <2>1, LenProperties
  <2>3. ASSUME NEW i \in DOMAIN s, NEW l \in DOMAIN s, i < l, s[l].late PROVE s[i].late
    <3> HIDE DEF n
    <3>1. at(i) \in 1 .. n /\ at(l) \in 1 .. n /\ at(i) < at(l)
      BY <1>1, <2>2, <2>3
    <3> HIDE DEF at
    <3>2. answers[at(l)].late => answers[at(i)].late BY <1>1, <3>1 DEF LateFirst
    <3> QED BY <2>1, <2>2, <2>3, <3>2
  <2> QED BY <2>3 DEF LateFirst
<1> QED BY <1>2, <1>3

\* A load is delivered: the newest load keeps what it has, or was delivered.
LEMMA DeliverFits ==
  ASSUME ProviderTypeOK, LoadsFit, NEW k, Deliver(k)
  PROVE  LoadsFit'
<1> DEFINE n == Len(answers)
<1>1. /\ n \in Nat /\ DOMAIN answers = 1 .. n /\ k \in 1 .. n /\ k \in DOMAIN answers
      /\ shown' = answers[k].list /\ answers' = Without(k) /\ World' = World
      /\ asked' = asked /\ patch' = patch /\ feed' = feed
  BY TypesOfTheLoads DEF Deliver, World
<1>2. LateFirst' BY <1>1, OrderAfterRemoval DEF LoadsFit
<1> PICK s : s = answers' OBVIOUS
<1>3. /\ s \in Seq(Answer) /\ Len(s) = n - 1
      /\ \A i \in 1 .. n - 1 :
           LET j == IF i < k THEN i ELSE i + 1
           IN  /\ s[i].list = answers[j].list
               /\ s[i].late <=> answers[j].late \/ j < k
  <2>1. k \in DOMAIN answers /\ s = Without(k) BY <1>1
  <2> QED BY <2>1, WithoutIs, Zenon
<1>4. s = <<>> <=> n = 1 BY <1>1, <1>3, EmptySeq
<1> HIDE DEF n
<1>5. SUFFICES ASSUME causes' = {} PROVE Coming' \/ Fresh'
  BY <1>2 DEF LoadsFit
<1>6. Coming' <=> Coming BY <1>1 DEF Coming, Told
<1>7. Fresh' <=> IF s = <<>> \/ s[Len(s)].late THEN answers[k].list = World
                 ELSE s[Len(s)].list = World
  BY <1>1 DEF Fresh
<1>8. CASE answers[k].list = World /\ n = 1
  BY <1>4, <1>7, <1>8
<1>9. CASE ~ (answers[k].list = World /\ n = 1)
  <2>1. causes = {} /\ ~ answers[k].late BY <1>5, <1>9 DEF Deliver, n
  <2>2. Coming \/ Fresh BY <2>1 DEF LoadsFit
  <2>3. ~ answers[n].late
    <3>1. k < n \/ k = n BY <1>1
    <3>2. n \in DOMAIN answers BY <1>1
    <3> QED BY <1>1, <2>1, <3>1, <3>2 DEF LoadsFit, LateFirst
  <2>4. Fresh => answers[n].list = World
    <3>1. answers # <<>> BY <1>1, EmptySeq, TypesOfTheLoads DEF n
    <3> QED BY <2>3, <3>1 DEF Fresh, n
  <2>5. CASE k = n
    <3>1. n # 1 => s[n - 1].late
      <4> SUFFICES ASSUME n # 1 PROVE s[n - 1].late
        OBVIOUS
      <4>1. n - 1 \in 1 .. n - 1 /\ n - 1 < k BY <1>1, <2>5
      <4> QED BY <1>3, <4>1
    <3> QED BY <1>3, <1>4, <1>6, <1>7, <2>2, <2>4, <2>5, <3>1
  <2>6. CASE k # n
    <3>1. n - 1 \in 1 .. n - 1 /\ ~ (n - 1 < k) /\ (n - 1) + 1 = n /\ ~ (n < k) /\ n # 1
      BY <1>1, <2>6
    <3>2. s[n - 1].list = answers[n].list /\ (s[n - 1].late <=> answers[n].late \/ n < k)
      BY <1>3, <3>1
    <3> QED BY <1>3, <1>4, <1>6, <1>7, <2>2, <2>3, <2>4, <3>1, <3>2
  <2> QED BY <2>5, <2>6
<1> QED BY <1>8, <1>9

\* A message that the page does not get is a cause; one that it gets loads.
LEMMA TellLoads ==
  ASSUME ProviderTypeOK, NEW m \in Note, m # "metrics", Tell(m)
  PROVE  causes' # {} \/ Told(feed)'
<1>1. feed \in Seq(Note) BY TypesOfTheLoads
<1>2. CASE connected
  <2> PICK f : f = feed' OBVIOUS
  <2>1. f = Append(feed, m) BY <1>2 DEF Tell
  <2>2. Told(f) BY <1>1, <2>1, AppendTells
  <2> QED BY <2>2 DEF Told
<1>3. CASE ~ connected
  BY <1>3 DEF Tell
<1> QED BY <1>2, <1>3

LEMMA LoadsFitStep ==
  ASSUME ProviderTypeOK, LoadsFit, FeedFits, [ProviderNext]_providerVars
  PROVE  LoadsFit'
<1>1. feed \in Seq(Note) /\ asked \in Nat BY TypesOfTheLoads DEF ProviderTypeOK
<1>2. LateFirst /\ (causes = {} => Coming \/ Fresh) BY DEF LoadsFit
<1>3. UNCHANGED answers => LateFirst' BY <1>2 DEF LateFirst
<1>4. UNCHANGED <<answers, gpuStatus, job, shown>> => (Fresh' <=> Fresh) BY DEF Fresh, World
<1>5. UNCHANGED <<asked, patch, feed>> => (Coming' <=> Coming) BY DEF Coming, Told
<1>6. CASE Elsewhere /\ \E m \in Note \ {"metrics"} : Tell(m)
  <2>1. causes' # {} \/ Told(feed)' BY <1>6, TellLoads
  <2> QED BY <1>3, <1>6, <2>1 DEF LoadsFit, Coming
<1>7. CASE Elsewhere /\ Silently
  BY <1>3, <1>7 DEF LoadsFit, Silently
<1>8. CASE AgentConnects \/ AgentDisconnects \/ \E s \in {"running", "ended"} : JobStatusReport(s)
  <2>1. /\ "connected" \in Note \ {"metrics"} /\ "disconnected" \in Note \ {"metrics"}
        /\ "job_status" \in Note \ {"metrics"}
    BY DEF Note
  <2> QED BY <1>6, <1>8, <2>1 DEF AgentConnects, AgentDisconnects, JobStatusReport
<1>9. CASE Dispatched \/ Cancelled \/ Swept \/ \E s \in {"online", "offline"} : PatchedElsewhere(s)
  BY <1>7, <1>9 DEF Dispatched, Cancelled, Swept, PatchedElsewhere
<1>10. CASE AgentDies
  BY <1>2, <1>3, <1>4, <1>5, <1>10 DEF AgentDies, LoadsFit
<1>11. CASE Metrics
  <2> PICK f : f = feed' OBVIOUS
  <2>1. /\ f = Append(feed, "metrics")
        /\ UNCHANGED <<answers, gpuStatus, job, shown, asked, patch, causes>>
    BY <1>11 DEF Metrics
  <2>2. Told(feed) => Told(f) BY <1>1, <2>1, AppendTells DEF Note
  <2>3. Coming => Coming' BY <2>1, <2>2 DEF Coming, Told
  <2> QED BY <1>2, <1>3, <1>4, <2>1, <2>3 DEF LoadsFit
<1>12. CASE Connect
  BY <1>2, <1>3, <1>4, <1>5, <1>12 DEF Connect, LoadsFit
<1>13. CASE Close
  <2>1. /\ UNCHANGED <<answers, gpuStatus, job, shown, asked, patch>>
        /\ causes' = IF Range(feed) \subseteq {"metrics"} THEN causes
                     ELSE causes \cup {"missed"}
    BY <1>13 DEF Close
  <2>2. causes' = {} => causes = {} /\ ~ Told(feed) BY <2>1, RangeTells
  <2>3. ~ Told(feed) /\ Coming => Coming' BY <2>1 DEF Coming
  <2> QED BY <1>2, <1>3, <1>4, <2>1, <2>2, <2>3 DEF LoadsFit
<1>14. CASE Hear
  <2> PICK f : f = feed' OBVIOUS
  <2>1. /\ UNCHANGED <<answers, gpuStatus, job, shown, patch, causes>>
        /\ feed # <<>> /\ f = Tail(feed)
        /\ ((Head(feed) = "metrics" /\ asked' = asked) \/ asked' = asked + 1)
    BY <1>14 DEF Hear, Load
  <2>2. Told(feed) => Head(feed) # "metrics" \/ Told(f) BY <1>1, <2>1, TailTells
  <2>3. Coming => Coming' BY <1>1, <2>1, <2>2 DEF Coming, Told
  <2> QED BY <1>2, <1>3, <1>4, <2>1, <2>3 DEF LoadsFit
<1>15. CASE Read
  <2> DEFINE a == [list |-> World, late |-> FALSE]
             n == Len(answers)
  <2> PICK s : s = answers' OBVIOUS
  <2>1. a \in Answer /\ a.list = World /\ a.late = FALSE
    <3>1. World \in Listed BY DEF ProviderTypeOK, World, Listed
    <3> QED BY <3>1 DEF Answer
  <2>2. s = Append(answers, a) /\ World' = World BY <1>15 DEF Read, World
  <2> HIDE DEF a
  <2>3. /\ s \in Seq(Answer) /\ s # <<>> /\ Len(s) = n + 1
        /\ \A i \in 1 .. n : s[i] = answers[i]
        /\ s[n + 1] = a /\ n \in Nat /\ DOMAIN answers = 1 .. n
    <3>1. answers \in Seq(Answer) BY TypesOfTheLoads
    <3>2. /\ s \in Seq(Answer) /\ s # <<>> /\ Len(s) = n + 1
          /\ \A i \in 1 .. n : s[i] = answers[i]
          /\ s[n + 1] = a
      BY <2>1, <2>2, <3>1, AppendProperties
    <3>3. n \in Nat /\ DOMAIN answers = 1 .. n BY TypesOfTheLoads
    <3> QED BY <3>2, <3>3
  <2>4. DOMAIN s = 1 .. n + 1 BY <2>3, LenProperties
  <2> HIDE DEF n
  <2>5. ASSUME NEW i \in DOMAIN s, NEW l \in DOMAIN s, i < l, s[l].late PROVE s[i].late
    <3>1. l # n + 1 BY <2>1, <2>3, <2>5
    <3>2. l \in 1 .. n /\ i \in 1 .. n BY <2>3, <2>4, <2>5, <3>1
    <3> QED BY <1>2, <2>3, <2>5, <3>2 DEF LateFirst
  <2>6. LateFirst' BY <2>5 DEF LateFirst
  <2>7. Fresh' BY <2>1, <2>2, <2>3 DEF Fresh
  <2> QED BY <2>6, <2>7 DEF LoadsFit
<1>16. CASE LoadFails
  <2>1. LateFirst' BY <1>2, <1>3, <1>16, OrderAfterRemoval, TypesOfTheLoads DEF LoadFails
  <2> QED BY <1>16, <2>1 DEF LoadFails, LoadsFit
<1>17. ASSUME NEW k \in 1..MaxLoads, Deliver(k) PROVE LoadsFit'
  BY <1>17, DeliverFits
<1>18. CASE Toggle
  <2>1. UNCHANGED <<answers, gpuStatus, job, shown, asked, feed, causes>> /\ patch # "done"
    BY <1>18 DEF Toggle
  <2>2. Coming => Coming' BY <2>1 DEF Coming, Told
  <2> QED BY <1>2, <1>3, <1>4, <2>1, <2>2 DEF LoadsFit
<1>19. CASE Patched
  BY <1>3, <1>19 DEF Patched, LoadsFit, Coming
<1>20. CASE Toggled
  BY <1>1, <1>3, <1>20 DEF Toggled, Load, LoadsFit, Coming
<1>21. CASE ToggleFails
  <2>1. UNCHANGED <<answers, gpuStatus, job, shown, asked, feed>>
        /\ causes' = IF patch = "done" THEN causes \cup {"failed"} ELSE causes
    BY <1>21 DEF ToggleFails
  <2>2. Coming /\ patch # "done" => Coming' BY <2>1 DEF Coming, Told
  <2> QED BY <1>2, <1>3, <1>4, <2>1, <2>2 DEF LoadsFit
<1>22. CASE UNCHANGED providerVars
  BY <1>2, <1>3, <1>4, <1>5, <1>22 DEF LoadsFit
<1> QED BY <1>8, <1>9, <1>10, <1>11, <1>12, <1>13, <1>14, <1>15, <1>16, <1>17, <1>18,
           <1>19, <1>20, <1>21, <1>22 DEF ProviderNext

-----------------------------------------------------------------------------
(* The page and the server.                                                *)

LEMMA ProviderStep == IInvProvider /\ [ProviderNext]_providerVars => IInvProvider'
BY ProviderTypes, FeedFitsStep, LoadsFitStep DEF IInvProvider

LEMMA ProviderHolds == IInvProvider => PageFollowsTheServer
<1> SUFFICES ASSUME IInvProvider PROVE PageFollowsTheServer
  OBVIOUS
<1>1. StaleHasACause
  BY NothingTold DEF IInvProvider, LoadsFit, Coming, Fresh, StaleHasACause, Quiet
<1>2. PipelineHearsOfTheEnd
  <2>1. Pipeline.agent => metrics BY DEF Pipeline, AgentConnected
  <2> QED BY <2>1, RangeTells DEF IInvProvider, FeedFits, PipelineHearsOfTheEnd
<1> QED BY <1>1, <1>2 DEF PageFollowsTheServer

LEMMA InvariantProvider == ProviderSpec => []IInvProvider
<1>1. ProviderInit => IInvProvider BY ProviderStart
<1>2. IInvProvider /\ [ProviderNext]_providerVars => IInvProvider' BY ProviderStep
<1> QED BY <1>1, <1>2, PTL DEF ProviderSpec

\* A page at rest shows what the server says unless something kept the change
\* from it, and its pipeline shows an agent that has left only if the word of
\* it was lost (ws.py, ProviderDashboard.jsx).
THEOREM PageFollows == ProviderSpec => []PageFollowsTheServer
BY InvariantProvider, ProviderHolds, PTL

HIDE BoundAssumption DEF server, page, loads, providerVars, Elsewhere, Change, Fault

-----------------------------------------------------------------------------
(* A job inside the agent (Execution).                                     *)

\* The handler has a job, and streams its log only while it awaits the executor.
HandlerFits ==
  /\ current = NoJob <=> handler \in {"free", "down"}
  /\ stream \notin {"none", "over"} => handler = "await"
  /\ handler \in {"announce", "poll", "failing"} => stream = "none"
  /\ handler = "announce" => executor[current] = "no" /\ polls = 0
  /\ handler = "poll" => polls < Polls
  /\ handler \in {"poll", "failing"} => executor[current] # "no"
  /\ handler = "await" => executor[current] # "no"
  /\ handler \in {"report", "upload"} => executor[current] = "over"
  /\ handler = "report" => verdict # "none"
  /\ handler = "report" /\ verdict = "completed" => result[current] = "completed"

\* The executor, its container and its result.
ExecutorFits(j) ==
  /\ executor[j] \in {"no", "download", "start"} => container[j] = "none"
  /\ executor[j] \in {"download", "start", "wait", "remove"} =>
       j \in unminded \/ (j = current /\ handler \in {"poll", "await"})
  /\ container[j] = "running" => executor[j] \in {"wait", "remove"} \/ j \in unminded
  /\ result[j] = "completed" => exitCode[j] = "zero" /\ container[j] \in {"exited", "gone"}
  /\ executor[j] = "no" => told[j] = <<>> /\ read[j] = 0

\* Where the lines are that wait to be told, and the sentinel behind them.
StreamFits ==
  /\ stream \in {"none", "over", "ending", "last"} => queue = <<>>
  /\ stream \notin {"sending", "ending", "last"} => batch = <<>>
  /\ \A k \in DOMAIN queue : queue[k] = EndOfLog => k = Len(queue) /\ current \notin readers

\* The lines that were told, that are in the message being sent, that wait.
ToldLines(j) == {told[j][i].line : i \in LogPlaces(j)}
Sending == {batch[k] : k \in DOMAIN batch}
Waiting == {queue[k] : k \in DOMAIN queue} \ {EndOfLog}

\* Lines go in the order of their numbers from the queue to the message being
\* sent and on to the backend; none is skipped unless a message was lost.
LinesFit ==
  /\ \A i, k \in DOMAIN batch : i < k => batch[i] < batch[k]
  /\ \A i, k \in DOMAIN queue : i < k /\ queue[k] # EndOfLog => queue[i] < queue[k]
  /\ \A m \in Sending, n \in Waiting : m < n
  /\ current # NoJob =>
       /\ \A m \in ToldLines(current), n \in Sending \cup Waiting : m < n
       /\ Sending \cup Waiting \subseteq 1 .. read[current]
       /\ current \notin holed =>
            1 .. read[current] \subseteq ToldLines(current) \cup Sending \cup Waiting

\* What was told of a job.
StoryFits(j) ==
  /\ \A i, k \in LogPlaces(j) : i < k => told[j][i].line < told[j][k].line
  /\ ToldLines(j) \subseteq 1 .. read[j]
  /\ \A i \in DOMAIN told[j] : IsEnd(told[j][i]) =>
       /\ i = Len(told[j])
       /\ j = current => handler = "upload"
       /\ executor[j] # "no"
       /\ told[j][i].status = "completed" =>
            exitCode[j] = "zero" /\ container[j] \in {"exited", "gone"}
       /\ j \notin holed => 1 .. read[j] \subseteq ToldLines(j)

IInvExecution ==
  /\ ExecutionTypeOK /\ HandlerFits /\ StreamFits /\ LinesFit
  /\ \A j \in Assigned : ExecutorFits(j) /\ StoryFits(j)

USE ExecutionAssumption
    DEF handlerVars, dockerVars, logVars, historyVars, executionVars, EndOfLog, Line

LEMMA ExecutionStart == ExecutionInit => IInvExecution
<1> SUFFICES ASSUME ExecutionInit
             PROVE  IInvExecution
  OBVIOUS
<1> USE DEF ExecutionInit
<1>1. ExecutionTypeOK
  <2>1. 0 \in 0 .. Polls /\ 0 \in 0 .. MaxLines /\ 0 \in 0 .. MaxMishaps OBVIOUS
  <2>2. told \in [Assigned -> Seq(Message)] OBVIOUS
  <2>3. queue \in Seq(Line \cup {EndOfLog}) /\ batch \in Seq(Line) OBVIOUS
  <2>4. current \in Assigned \cup {NoJob} /\ handler \in HandlerStep /\ stream \in StreamStep
    BY DEF HandlerStep, StreamStep
  <2>5. executor \in [Assigned -> ExecutorStep] /\ result \in [Assigned -> Result]
    BY DEF ExecutorStep, Result
  <2>6. linked \in BOOLEAN OBVIOUS
  <2> QED BY <2>1, <2>2, <2>3, <2>4, <2>5, <2>6 DEF ExecutionTypeOK
<1>2. HandlerFits
  BY DEF HandlerFits
<1>3. StreamFits /\ LinesFit
  BY DEF StreamFits, LinesFit, Sending, Waiting
<1>4. ASSUME NEW j \in Assigned PROVE ExecutorFits(j) /\ StoryFits(j)
  BY DEF ExecutorFits, StoryFits, LogPlaces, ToldLines
<1> QED BY <1>1, <1>2, <1>3, <1>4 DEF IInvExecution

-----------------------------------------------------------------------------
(* What is told, and what waits to be told.                                *)

LEMMA TypesOfTheLog ==
  ASSUME ExecutionTypeOK
  PROVE  /\ told \in [Assigned -> Seq(Message)]
         /\ batch \in Seq(1 .. MaxLines) /\ queue \in Seq(0 .. MaxLines)
         /\ \A j \in Assigned : told[j] \in Seq(Message) /\ DOMAIN told[j] = 1 .. Len(told[j])
                                /\ Len(told[j]) \in Nat
         /\ DOMAIN batch = 1 .. Len(batch) /\ Len(batch) \in Nat
         /\ DOMAIN queue = 1 .. Len(queue) /\ Len(queue) \in Nat
         /\ \A k \in DOMAIN batch : batch[k] \in 1 .. MaxLines
         /\ \A k \in DOMAIN queue : queue[k] \in 0 .. MaxLines
         /\ \A j \in Assigned : read[j] \in 0 .. MaxLines
<1>1. told \in [Assigned -> Seq(Message)] /\ batch \in Seq(1 .. MaxLines)
      /\ queue \in Seq((1 .. MaxLines) \cup {0}) /\ read \in [Assigned -> 0 .. MaxLines]
  BY DEF ExecutionTypeOK
<1>2. (1 .. MaxLines) \cup {0} = 0 .. MaxLines OBVIOUS
<1>3. queue \in Seq(0 .. MaxLines) BY <1>1, <1>2
<1>4. \A j \in Assigned : told[j] \in Seq(Message) BY <1>1
<1>5. \A j \in Assigned : DOMAIN told[j] = 1 .. Len(told[j]) /\ Len(told[j]) \in Nat
  BY <1>4, LenProperties
<1>6. /\ DOMAIN batch = 1 .. Len(batch) /\ Len(batch) \in Nat
      /\ DOMAIN queue = 1 .. Len(queue) /\ Len(queue) \in Nat
  BY <1>1, <1>3, LenProperties
<1>7. /\ \A k \in DOMAIN batch : batch[k] \in 1 .. MaxLines
      /\ \A k \in DOMAIN queue : queue[k] \in 0 .. MaxLines
  BY <1>1, <1>3, <1>6, ElementOfSeq
<1> QED BY <1>1, <1>3, <1>4, <1>5, <1>6, <1>7

\* Messages are told after what was told before.
LEMMA TellsIs ==
  ASSUME ExecutionTypeOK, current \in Assigned, NEW m \in Seq(Message), ToBackend(m)
  PROVE  /\ told' \in [Assigned -> Seq(Message)]
         /\ \A j \in Assigned : j # current => told'[j] = told[j]
         /\ Len(told'[current]) = Len(told[current]) + Len(m)
         /\ DOMAIN told'[current] = 1 .. (Len(told[current]) + Len(m))
         /\ \A i \in 1 .. Len(told[current]) : told'[current][i] = told[current][i]
         /\ \A i \in 1 .. Len(m) : told'[current][Len(told[current]) + i] = m[i]
<1> DEFINE t == told[current]
<1>1. told \in [Assigned -> Seq(Message)] BY DEF ExecutionTypeOK
<1>2. told' = [told EXCEPT ![current] = t \o m] BY DEF ToBackend
<1>3. t \in Seq(Message) BY <1>1
<1>4. /\ t \o m \in Seq(Message) /\ Len(t \o m) = Len(t) + Len(m)
      /\ \A i \in 1 .. Len(t) + Len(m) :
           (t \o m)[i] = IF i <= Len(t) THEN t[i] ELSE m[i - Len(t)]
  BY <1>3, ConcatProperties
<1>5. told'[current] = t \o m /\ \A j \in Assigned : j # current => told'[j] = told[j]
  BY <1>1, <1>2
<1>6. Len(t) \in Nat /\ Len(m) \in Nat BY <1>3, LenProperties
<1>7. DOMAIN (t \o m) = 1 .. (Len(t) + Len(m)) BY <1>4, LenProperties
<1>8. told' \in [Assigned -> Seq(Message)] BY <1>1, <1>2, <1>4
<1> HIDE DEF t
<1>9. ASSUME NEW i \in 1 .. Len(t) PROVE (t \o m)[i] = t[i]
  BY <1>4, <1>6
<1>10. ASSUME NEW i \in 1 .. Len(m) PROVE (t \o m)[Len(t) + i] = m[i]
  <2>1. Len(t) + i \in 1 .. Len(t) + Len(m) /\ ~ (Len(t) + i <= Len(t)) BY <1>6
  <2>2. (Len(t) + i) - Len(t) = i BY <1>6
  <2> QED BY <1>4, <2>1, <2>2
<1> USE DEF t
<1> QED BY <1>4, <1>5, <1>7, <1>8, <1>9, <1>10

\* A status is no line, and only the last message may be an end.
LEMMA TellsStatus ==
  ASSUME ExecutionTypeOK, NEW c \in Assigned, current = c,
         NEW s \in {"running", "completed", "failed"},
         ToBackend(<<[status |-> s, line |-> 0]>>)
  PROVE  /\ told' \in [Assigned -> Seq(Message)]
         /\ \A j \in Assigned : j # c => told'[j] = told[j]
         /\ \A j \in Assigned : LogPlaces(j)' = LogPlaces(j)
         /\ \A j \in Assigned : \A i \in LogPlaces(j) : told'[j][i] = told[j][i]
         /\ \A j \in Assigned : ToldLines(j)' = ToldLines(j)
         /\ \A i \in DOMAIN told[c] :
              i \in DOMAIN told'[c] /\ told'[c][i] = told[c][i]
         /\ Len(told'[c]) \in Nat
         /\ \A i \in DOMAIN told'[c] :
              i = Len(told'[c]) \/ i \in DOMAIN told[c]
         /\ told'[c][Len(told'[c])].status = s
<1> DEFINE e == [status |-> s, line |-> 0]
           m == <<e>>
           n == Len(told[c])
<1>1. e \in Message /\ e.status = s BY DEF Message
<1>2. m \in Seq(Message) /\ Len(m) = 1 /\ m[1] = e
  <2> HIDE DEF e
  <2> QED BY <1>1
<1>3. n \in Nat /\ DOMAIN told[c] = 1 .. n BY TypesOfTheLog
<1> HIDE DEF e, m
<1>4. /\ told' \in [Assigned -> Seq(Message)]
      /\ \A j \in Assigned : j # c => told'[j] = told[j]
      /\ Len(told'[c]) = n + 1
      /\ DOMAIN told'[c] = 1 .. (n + 1)
      /\ \A i \in 1 .. n : told'[c][i] = told[c][i]
      /\ told'[c][n + 1] = e
  <2>1. ToBackend(m) BY DEF m, e
  <2> HIDE DEF n
  <2>2. 1 \in 1 .. Len(m) BY <1>2
  <2> QED BY <1>2, <2>1, <2>2, TellsIs DEF n
<1>5. told'[c][n + 1].status # "log" BY <1>1, <1>4
<1> HIDE DEF n
<1>6. LogPlaces(c)' = LogPlaces(c)
  BY <1>3, <1>4, <1>5 DEF LogPlaces
<1>7. \A j \in Assigned : LogPlaces(j)' = LogPlaces(j)
  BY <1>4, <1>6 DEF LogPlaces
<1>8. \A j \in Assigned : \A i \in LogPlaces(j) : told'[j][i] = told[j][i]
  BY <1>3, <1>4 DEF LogPlaces
<1>9. \A j \in Assigned : ToldLines(j)' = ToldLines(j)
  BY <1>7, <1>8 DEF ToldLines
<1> QED BY <1>1, <1>3, <1>4, <1>7, <1>8, <1>9

\* The lines of a message that is sent are told, and no end is.
LEMMA TellsLog ==
  ASSUME ExecutionTypeOK, NEW c \in Assigned, current = c, ToBackend(Log(batch))
  PROVE  /\ told' \in [Assigned -> Seq(Message)]
         /\ \A j \in Assigned : j # c => told'[j] = told[j]
         /\ Len(told[c]) \in Nat /\ DOMAIN told[c] = 1 .. Len(told[c])
         /\ LogPlaces(c)' =
              LogPlaces(c) \cup {Len(told[c]) + k : k \in DOMAIN batch}
         /\ \A i \in DOMAIN told[c] : told'[c][i] = told[c][i]
         /\ \A k \in DOMAIN batch : told'[c][Len(told[c]) + k].line = batch[k]
         /\ \A i \in DOMAIN told'[c] : IsEnd(told'[c][i]) =>
              i \in DOMAIN told[c]
         /\ ToldLines(c)' = ToldLines(c) \cup Sending
<1> DEFINE m == Log(batch)
           n == Len(told[c])
<1>1. /\ batch \in Seq(1 .. MaxLines) /\ Len(batch) \in Nat /\ DOMAIN batch = 1 .. Len(batch)
      /\ \A k \in DOMAIN batch : batch[k] \in 1 .. MaxLines
      /\ n \in Nat /\ DOMAIN told[c] = 1 .. n
  BY TypesOfTheLog
<1>2. \A k \in 1 .. Len(batch) :
        [status |-> "log", line |-> batch[k]] \in Message
  BY <1>1 DEF Message
<1>3. m = [k \in 1 .. Len(batch) |-> [status |-> "log", line |-> batch[k]]]
  BY <1>1 DEF Log
<1> HIDE DEF m
<1>4. m \in Seq(Message) /\ Len(m) = Len(batch)
  BY <1>1, <1>2, <1>3, IsASeq
<1>5. \A k \in 1 .. Len(batch) : m[k].status = "log" /\ m[k].line = batch[k]
  BY <1>3
<1>6. /\ told' \in [Assigned -> Seq(Message)]
      /\ \A j \in Assigned : j # c => told'[j] = told[j]
      /\ DOMAIN told'[c] = 1 .. (n + Len(batch))
      /\ \A i \in 1 .. n : told'[c][i] = told[c][i]
      /\ \A k \in 1 .. Len(batch) : told'[c][n + k] = m[k]
  BY <1>4, TellsIs DEF m
<1> HIDE DEF n
<1>7. ASSUME NEW i \in 1 .. (n + Len(batch)), i \notin 1 .. n
      PROVE  \E k \in 1 .. Len(batch) : i = n + k
  <2>1. i - n \in 1 .. Len(batch) /\ i = n + (i - n) BY <1>1, <1>7
  <2> QED BY <2>1, Zenon
<1>8. \A k \in 1 .. Len(batch) : n + k \in 1 .. (n + Len(batch)) /\ n + k \notin 1 .. n
  BY <1>1
<1>9. LogPlaces(c)' = LogPlaces(c) \cup {n + k : k \in DOMAIN batch}
  <2>1. LogPlaces(c)' = {i \in 1 .. (n + Len(batch)) : told'[c][i].status = "log"}
    BY <1>6 DEF LogPlaces
  <2>2. LogPlaces(c) = {i \in 1 .. n : told[c][i].status = "log"}
    BY <1>1 DEF LogPlaces
  <2>3. \A k \in 1 .. Len(batch) : told'[c][n + k].status = "log" BY <1>5, <1>6
  <2>4. 1 .. n \subseteq 1 .. (n + Len(batch)) BY <1>1
  <2>5. DOMAIN batch = 1 .. Len(batch) BY <1>1
  <2>6. \A i \in 1 .. n : told'[c][i] = told[c][i] BY <1>6
  <2> PICK P : P = LogPlaces(c)' OBVIOUS
  <2> PICK Q : Q = LogPlaces(c) OBVIOUS
  <2>7. \A i \in P : i \in Q \/ \E k \in 1 .. Len(batch) : i = n + k
    BY <1>7, <2>1, <2>2, <2>6
  <2>8. Q \subseteq P BY <2>1, <2>2, <2>4, <2>6
  <2>9. \A k \in 1 .. Len(batch) : n + k \in P BY <1>8, <2>1, <2>3
  <2>10. P = Q \cup {n + k : k \in 1 .. Len(batch)} BY <2>7, <2>8, <2>9
  <2> QED BY <2>5, <2>10
<1>10. ASSUME NEW i \in DOMAIN told'[c], IsEnd(told'[c][i])
       PROVE  i \in DOMAIN told[c]
  <2>1. told'[c][i].status # "log" BY <1>10 DEF IsEnd
  <2>2. i \in 1 .. (n + Len(batch)) BY <1>6
  <2>3. \A k \in 1 .. Len(batch) : told'[c][n + k].status = "log" BY <1>5, <1>6
  <2>4. i \in 1 .. n BY <1>7, <2>1, <2>2, <2>3
  <2> QED BY <1>1, <2>4
<1>11. \A k \in DOMAIN batch : told'[c][n + k].line = batch[k]
  BY <1>1, <1>5, <1>6
<1>12. ToldLines(c)' = ToldLines(c) \cup Sending
  <2>1. \A i \in LogPlaces(c) : told'[c][i] = told[c][i] BY <1>1, <1>6 DEF LogPlaces
  <2> QED BY <1>9, <1>11, <2>1 DEF ToldLines, Sending
<1> QED BY <1>1, <1>6, <1>9, <1>10, <1>11, <1>12 DEF n

\* The lines that wait are those of the queue.
LEMMA QueuedLinesAre ==
  ASSUME ExecutionTypeOK, StreamFits
  PROVE  /\ QueuedLines \in Seq(1 .. MaxLines)
         /\ DOMAIN QueuedLines \subseteq DOMAIN queue
         /\ \A k \in DOMAIN QueuedLines : QueuedLines[k] = queue[k] /\ queue[k] # 0
         /\ \A k \in DOMAIN queue : queue[k] # 0 => k \in DOMAIN QueuedLines
<1>1. /\ queue \in Seq(0 .. MaxLines) /\ DOMAIN queue = 1 .. Len(queue) /\ Len(queue) \in Nat
      /\ \A k \in DOMAIN queue : queue[k] \in 0 .. MaxLines
  BY TypesOfTheLog
<1>2. \A k \in 1 .. Len(queue) : queue[k] = 0 => k = Len(queue)
  <2>1. \A k \in DOMAIN queue : queue[k] = 0 => k = Len(queue) BY DEF StreamFits
  <2> QED BY <1>1, <2>1, Zenon
<1>3. CASE Contains(queue, EndOfLog)
  <2>1. PICK k \in 1 .. Len(queue) : queue[k] = 0 BY <1>3 DEF Contains
  <2>2. k = Len(queue) /\ Len(queue) >= 1
    <3>1. k = Len(queue) BY <1>2, <2>1
    <3> QED BY <1>1, <2>1, <3>1
  <2> DEFINE n == Len(queue) - 1
  <2>3. n \in Nat /\ 1 .. n \subseteq 1 .. Len(queue) /\ Len(queue) \notin 1 .. n
        /\ 1 .. Len(queue) = (1 .. n) \cup {Len(queue)}
    BY <1>1, <2>2
  <2>4. QueuedLines = [i \in 1 .. n |-> queue[i]]
    BY <1>1, <1>3, <2>2 DEF QueuedLines, Front
  <2>5. ASSUME NEW i \in 1 .. n PROVE queue[i] \in 1 .. MaxLines
    <3>1. i \in 1 .. Len(queue) /\ i # Len(queue) BY <2>3
    <3>2. queue[i] # 0 BY <1>2, <3>1
    <3>3. queue[i] \in 0 .. MaxLines
      <4>1. i \in DOMAIN queue BY <1>1, <3>1, Zenon
      <4> QED BY <1>1, <4>1, Zenon
    <3> QED BY <3>2, <3>3
  <2>6. QueuedLines \in Seq(1 .. MaxLines)
    BY <2>3, <2>4, <2>5, IsASeq
  <2> QED BY <1>1, <2>1, <2>2, <2>3, <2>4, <2>5, <2>6
<1>4. CASE ~ Contains(queue, EndOfLog)
  <2>1. \A k \in 1 .. Len(queue) : queue[k] # 0 BY <1>4 DEF Contains
  <2>2. \A k \in 1 .. Len(queue) : queue[k] \in 1 .. MaxLines BY <1>1, <2>1
  <2>3. queue = [k \in 1 .. Len(queue) |-> queue[k]] BY <1>1
  <2>4. queue \in Seq(1 .. MaxLines) BY <1>1, <2>2, <2>3, IsASeq
  <2>5. QueuedLines = queue BY <1>4 DEF QueuedLines
  <2> QED BY <1>1, <2>1, <2>4, <2>5
<1> QED BY <1>3, <1>4

LEMMA QueuedLinesWait ==
  ASSUME ExecutionTypeOK, StreamFits
  PROVE  {QueuedLines[k] : k \in DOMAIN QueuedLines} = Waiting
<1>1. /\ DOMAIN QueuedLines \subseteq DOMAIN queue
      /\ \A k \in DOMAIN QueuedLines : QueuedLines[k] = queue[k] /\ queue[k] # 0
      /\ \A k \in DOMAIN queue : queue[k] # 0 => k \in DOMAIN QueuedLines
  BY QueuedLinesAre
<1> QED BY <1>1, Zenon DEF Waiting

\* The reader thread puts something behind the lines that wait.
LEMMA QueueGrows ==
  ASSUME ExecutionTypeOK, NEW x \in 0 .. MaxLines, queue' = Append(queue, x)
  PROVE  /\ Len(queue') = Len(queue) + 1 /\ DOMAIN queue' = 1 .. (Len(queue) + 1)
         /\ \A k \in 1 .. Len(queue) : queue'[k] = queue[k]
         /\ queue'[Len(queue) + 1] = x
<1>1. queue \in Seq(0 .. MaxLines) /\ Len(queue) \in Nat BY TypesOfTheLog
<1>2. /\ Append(queue, x) \in Seq(0 .. MaxLines)
      /\ Len(Append(queue, x)) = Len(queue) + 1
      /\ \A k \in 1 .. Len(queue) : Append(queue, x)[k] = queue[k]
      /\ Append(queue, x)[Len(queue) + 1] = x
  BY <1>1, AppendProperties
<1>3. DOMAIN Append(queue, x) = 1 .. Len(Append(queue, x)) BY <1>2, LenProperties
<1> QED BY <1>2, <1>3

LEMMA WaitingGrows ==
  ASSUME ExecutionTypeOK, NEW x \in 0 .. MaxLines, queue' = Append(queue, x)
  PROVE  /\ Waiting' = Waiting \cup ({x} \ {0})
         /\ \A i, k \in DOMAIN queue' :
              \/ i \in DOMAIN queue /\ k \in DOMAIN queue
                   /\ queue'[i] = queue[i] /\ queue'[k] = queue[k]
              \/ ~ (i < k)
              \/ queue'[k] = x /\ i \in DOMAIN queue /\ queue'[i] = queue[i]
<1> DEFINE n == Len(queue)
<1>1. DOMAIN queue = 1 .. n /\ n \in Nat BY TypesOfTheLog
<1>2. /\ DOMAIN queue' = 1 .. (n + 1)
      /\ \A k \in 1 .. n : queue'[k] = queue[k]
      /\ queue'[n + 1] = x
  BY QueueGrows
<1> HIDE DEF n
<1>3. 1 .. (n + 1) = (1 .. n) \cup {n + 1} BY <1>1
<1>4. {queue'[k] : k \in DOMAIN queue'} = {queue[k] : k \in DOMAIN queue} \cup {x}
  <2>1. {queue'[k] : k \in 1 .. (n + 1)} = {queue[k] : k \in 1 .. n} \cup {x}
    BY <1>2, <1>3
  <2> QED BY <1>1, <1>2, <2>1, Zenon
<1>5. Waiting' = Waiting \cup ({x} \ {0})
  BY <1>4 DEF Waiting
<1>6. ASSUME NEW i \in 1 .. (n + 1), NEW k \in 1 .. (n + 1), i < k
      PROVE  i \in 1 .. n /\ (k \in 1 .. n \/ k = n + 1)
  BY <1>1, <1>6
<1> QED BY <1>1, <1>2, <1>5, <1>6, Zenon

-----------------------------------------------------------------------------
(* Types.                                                                  *)

LEMMA MishapType ==
  ASSUME ExecutionTypeOK, Mishap
  PROVE  mishapsSoFar' \in 0 .. MaxMishaps
BY DEF ExecutionTypeOK, Mishap

LEMMA StatusType ==
  ASSUME ExecutionTypeOK, current \in Assigned, NEW s \in {"running", "completed", "failed"},
         NEW then \in HandlerStep, SendStatus(s, then)
  PROVE  /\ told' \in [Assigned -> Seq(Message)] /\ handler' \in {then, "stuck"}
         /\ handler' \in HandlerStep /\ holed' \subseteq Assigned
<1>1. "stuck" \in HandlerStep BY DEF HandlerStep
<1>2. holed \subseteq Assigned /\ told \in [Assigned -> Seq(Message)] BY DEF ExecutionTypeOK
<1>3. CASE linked /\ ToBackend(<<[status |-> s, line |-> 0]>>) /\ handler' = then
           /\ UNCHANGED holed
  BY <1>2, <1>3, TellsStatus
<1>4. CASE ~ linked /\ handler' \in {then, "stuck"} /\ holed' = holed \cup {current}
           /\ UNCHANGED told
  BY <1>1, <1>2, <1>4
<1> QED BY <1>3, <1>4 DEF SendStatus

LEMMA ExecutionTypes ==
  ASSUME ExecutionTypeOK, HandlerFits, StreamFits, [ExecutionNext]_executionVars
  PROVE  ExecutionTypeOK'
<1>0. /\ current \in Assigned \cup {NoJob} /\ handler \in HandlerStep /\ polls \in 0 .. Polls
      /\ verdict \in {"none", "completed", "failed"} /\ linked \in BOOLEAN
      /\ executor \in [Assigned -> ExecutorStep] /\ result \in [Assigned -> Result]
      /\ container \in [Assigned -> {"none", "created", "running", "exited", "gone"}]
      /\ exitCode \in [Assigned -> {"none", "zero", "other"}]
      /\ written \in [Assigned -> 0 .. MaxLines] /\ read \in [Assigned -> 0 .. MaxLines]
      /\ readers \subseteq Assigned /\ stream \in StreamStep
      /\ queue \in Seq(Line \cup {EndOfLog}) /\ batch \in Seq(Line)
      /\ told \in [Assigned -> Seq(Message)]
      /\ mishapsSoFar \in 0 .. MaxMishaps /\ unminded \subseteq Assigned
      /\ holed \subseteq Assigned
  BY DEF ExecutionTypeOK
<1> USE DEF HandlerStep, ExecutorStep, Result, StreamStep
<1>c. handler \in {"announce", "poll", "await", "report", "failing", "upload", "stuck"} =>
        current \in Assigned
  BY <1>0 DEF HandlerFits
<1>a. handler = "await" \/ stream \in {"none", "over"}
  BY <1>0 DEF HandlerFits
<1>q. QueuedLines \in Seq(Line) BY QueuedLinesAre
<1>1. ASSUME NEW j \in Assigned, Assign(j) PROVE ExecutionTypeOK'
  <2>1. 0 \in 0 .. Polls OBVIOUS
  <2> QED BY <1>0, <1>1, <2>1 DEF Assign, ExecutionTypeOK
<1>2. ASSUME NEW j \in Assigned, Download(j) \/ StartContainer(j) PROVE ExecutionTypeOK'
  <2>1. executor' \in [Assigned -> ExecutorStep] /\ result' \in [Assigned -> Result]
    BY <1>0, <1>2 DEF Download, StartContainer, Ends
  <2>2. container' \in [Assigned -> {"none", "created", "running", "exited", "gone"}]
    BY <1>0, <1>2 DEF Download, StartContainer
  <2>3. mishapsSoFar' \in 0 .. MaxMishaps /\ unminded' \subseteq Assigned
    BY <1>0, <1>2, MishapType DEF Download, StartContainer
  <2> QED BY <1>0, <1>2, <2>1, <2>2, <2>3 DEF Download, StartContainer, ExecutionTypeOK
<1>3. ASSUME NEW j \in Assigned, WaitReturns(j) \/ WaitRaises(j) PROVE ExecutionTypeOK'
  <2>1. \E r \in Result : Ends(j, r, "remove")
    <3>1. CASE WaitReturns(j)
      <4>1. (IF exitCode[j] = "zero" THEN "completed" ELSE "failed") \in Result OBVIOUS
      <4> QED BY <3>1, <4>1, Zenon DEF WaitReturns
    <3>2. CASE WaitRaises(j)
      <4>1. {"timeout", "error"} \subseteq Result OBVIOUS
      <4> QED BY <3>2, <4>1, Zenon DEF WaitRaises
    <3> QED BY <1>3, <3>1, <3>2
  <2>2. executor' \in [Assigned -> ExecutorStep] /\ result' \in [Assigned -> Result]
    BY <1>0, <2>1 DEF Ends
  <2>3. UNCHANGED <<handlerVars, linked, container, exitCode, written, logVars, told, historyVars>>
    BY <1>3 DEF WaitReturns, WaitRaises
  <2> QED BY <1>0, <2>2, <2>3 DEF ExecutionTypeOK
<1>4. ASSUME NEW j \in Assigned, RemoveContainer(j) PROVE ExecutionTypeOK'
  <2>1. executor' \in [Assigned -> ExecutorStep]
    BY <1>0, <1>4 DEF RemoveContainer
  <2>2. container' \in [Assigned -> {"none", "created", "running", "exited", "gone"}]
    BY <1>0, <1>4 DEF RemoveContainer
  <2>3. mishapsSoFar' \in 0 .. MaxMishaps /\ unminded' \subseteq Assigned
    BY <1>0, <1>4, MishapType DEF RemoveContainer
  <2> QED BY <1>0, <1>4, <2>1, <2>2, <2>3 DEF RemoveContainer, ExecutionTypeOK
<1>5. ASSUME NEW j \in Assigned, ReadLine(j) PROVE ExecutionTypeOK'
  <2>1. read[j] \in 0 .. MaxLines /\ written[j] \in 0 .. MaxLines /\ read[j] < written[j]
    BY <1>0, <1>5 DEF ReadLine
  <2>2. read[j] + 1 \in 1 .. MaxLines /\ read[j] + 1 \in 0 .. MaxLines BY <2>1
  <2>3. read' = [read EXCEPT ![j] = read[j] + 1] /\ queue' = Append(queue, read'[j])
    BY <1>5 DEF ReadLine
  <2>4. read'[j] = read[j] + 1 BY <1>0, <2>3
  <2>5. read' \in [Assigned -> 0 .. MaxLines] BY <1>0, <2>2, <2>3
  <2>6. queue' \in Seq(Line \cup {EndOfLog}) BY <1>0, <2>2, <2>3, <2>4
  <2> QED BY <1>0, <1>5, <2>5, <2>6 DEF ReadLine, ExecutionTypeOK
<1>6. ASSUME NEW j \in Assigned, EndReading(j) PROVE ExecutionTypeOK'
  <2>1. queue' \in Seq(Line \cup {EndOfLog}) BY <1>0, <1>6 DEF EndReading
  <2> QED BY <1>0, <1>6, <2>1 DEF EndReading, ExecutionTypeOK
<1>7. ASSUME NEW j \in Assigned, WriteLine(j) PROVE ExecutionTypeOK'
  <2>1. written[j] \in 0 .. MaxLines /\ written[j] < MaxLines
    BY <1>0, <1>7 DEF WriteLine
  <2>2. written[j] + 1 \in 0 .. MaxLines BY <2>1
  <2>3. written' \in [Assigned -> 0 .. MaxLines] BY <1>0, <1>7, <2>2 DEF WriteLine
  <2> QED BY <1>0, <1>7, <2>3 DEF WriteLine, ExecutionTypeOK
<1>8. ASSUME NEW j \in Assigned, ExitProgram(j) PROVE ExecutionTypeOK'
  BY <1>0, <1>8 DEF ExitProgram, ExecutionTypeOK
<1>9. ASSUME Announce PROVE ExecutionTypeOK'
  <2>1. current \in Assigned BY <1>c, <1>9 DEF Announce
  <2>2. /\ told' \in [Assigned -> Seq(Message)] /\ handler' \in HandlerStep
        /\ holed' \subseteq Assigned
    BY <1>9, <2>1, StatusType DEF Announce
  <2>3. executor' \in [Assigned -> ExecutorStep] BY <1>0, <1>9 DEF Announce
  <2> QED BY <1>0, <1>9, <2>2, <2>3 DEF Announce, ExecutionTypeOK
<1>10. ASSUME Poll PROVE ExecutionTypeOK'
  <2>1. current \in Assigned BY <1>c, <1>10 DEF Poll
  <2>2. CASE HasContainer(current)
    BY <1>0, <1>10, <2>1, <2>2 DEF Poll, ExecutionTypeOK
  <2>3. CASE ~ HasContainer(current)
    <3>1. polls' = polls + 1 /\ handler' \in HandlerStep /\ (polls' # Polls => handler' = "poll")
      BY <1>10, <2>3 DEF Poll
    <3>2. polls' \in 0 .. Polls
      BY <1>0, <1>10, <3>1 DEF Poll, HandlerFits
    <3> QED BY <1>0, <1>10, <2>3, <3>1, <3>2 DEF Poll, ExecutionTypeOK
  <2> QED BY <2>2, <2>3
<1>11. ASSUME PollFails PROVE ExecutionTypeOK'
  <2>1. current \in Assigned BY <1>c, <1>11 DEF PollFails
  <2>2. mishapsSoFar' \in 0 .. MaxMishaps BY <1>11, MishapType DEF PollFails
  <2> QED BY <1>0, <1>11, <2>1, <2>2 DEF PollFails, ExecutionTypeOK
<1>12. ASSUME Collect PROVE ExecutionTypeOK'
  <2>1. current \in Assigned BY <1>c, <1>12 DEF Collect
  <2>2. told' \in [Assigned -> Seq(Message)] /\ holed' \subseteq Assigned
    BY <1>0, <1>12, <2>1, TellsLog DEF Collect, CancelStream
  <2>3. /\ batch' \in Seq(Line) /\ queue' \in Seq(Line \cup {EndOfLog})
        /\ stream' \in StreamStep
    BY <1>0, <1>12, <1>q DEF Collect, CancelStream
  <2> QED BY <1>0, <1>12, <2>2, <2>3 DEF Collect, ExecutionTypeOK
<1>13. ASSUME Conclude PROVE ExecutionTypeOK'
  <2>1. verdict' \in {"none", "completed", "failed"} BY <1>13 DEF Conclude
  <2> QED BY <1>0, <1>13, <2>1 DEF Conclude, ExecutionTypeOK
<1>14. ASSUME Report PROVE ExecutionTypeOK'
  <2>1. current \in Assigned BY <1>c, <1>14 DEF Report
  <2>2. verdict \in {"completed", "failed"} \/ handler = "failing"
    BY <1>0, <1>14 DEF Report, HandlerFits
  <2>3. /\ told' \in [Assigned -> Seq(Message)] /\ handler' \in HandlerStep
        /\ holed' \subseteq Assigned
    BY <1>0, <1>14, <2>1, <2>2, StatusType DEF Report
  <2> QED BY <1>0, <1>14, <2>3 DEF Report, ExecutionTypeOK
<1>15. ASSUME UploadArtifacts PROVE ExecutionTypeOK'
  BY <1>0, <1>15 DEF UploadArtifacts, ExecutionTypeOK
<1>16. ASSUME TakeBatch PROVE ExecutionTypeOK'
  <2>1. stream' \in StreamStep BY <1>16 DEF TakeBatch
  <2> QED BY <1>0, <1>16, <1>q, <2>1 DEF TakeBatch, ExecutionTypeOK
<1>17. ASSUME Flush PROVE ExecutionTypeOK'
  <2>1. current \in Assigned BY <1>a, <1>c, <1>17 DEF Flush
  <2>2. told' \in [Assigned -> Seq(Message)] /\ holed' \subseteq Assigned
    BY <1>0, <1>17, <2>1, TellsLog DEF Flush
  <2>3. batch' \in Seq(Line) /\ stream' \in StreamStep BY <1>17 DEF Flush
  <2> QED BY <1>0, <1>17, <2>2, <2>3 DEF Flush, ExecutionTypeOK
<1>18. ASSUME Wake PROVE ExecutionTypeOK'
  BY <1>0, <1>18 DEF Wake, ExecutionTypeOK
<1>19. ASSUME LoseLink \/ Reconnect PROVE ExecutionTypeOK'
  BY <1>0, <1>19, MishapType DEF LoseLink, Reconnect, ExecutionTypeOK
<1>20. ASSUME Crash PROVE ExecutionTypeOK'
  <2>1. mishapsSoFar' \in 0 .. MaxMishaps BY <1>20, MishapType DEF Crash
  <2>2. executor' \in [Assigned -> ExecutorStep] BY <1>0, <1>20 DEF Crash
  <2>3. holed' \subseteq Assigned /\ unminded' \subseteq Assigned BY <1>0, <1>20 DEF Crash
  <2>4. queue' \in Seq(Line \cup {EndOfLog}) /\ batch' \in Seq(Line) BY <1>20 DEF Crash
  <2> QED BY <1>0, <1>20, <2>1, <2>2, <2>3, <2>4 DEF Crash, ExecutionTypeOK
<1>21. ASSUME Restart PROVE ExecutionTypeOK'
  BY <1>0, <1>21 DEF Restart, ExecutionTypeOK
<1>22. CASE UNCHANGED executionVars
  BY <1>0, <1>22 DEF ExecutionTypeOK
<1> QED
  BY <1>1, <1>2, <1>3, <1>4, <1>5, <1>6, <1>7, <1>8, <1>9, <1>10, <1>11, <1>12, <1>13,
     <1>14, <1>15, <1>16, <1>17, <1>18, <1>19, <1>20, <1>21, <1>22 DEF ExecutionNext

-----------------------------------------------------------------------------
(* The steps.                                                              *)

\* The types of what the steps below change.
LEMMA ExecutionFacts ==
  ASSUME IInvExecution
  PROVE  /\ current \in Assigned \cup {NoJob}
         /\ handler \in {"announce", "poll", "await", "report", "failing", "upload", "stuck",
                         "free", "down"}
         /\ handler \notin {"free", "down"} => current \in Assigned
         /\ executor \in [Assigned -> ExecutorStep] /\ result \in [Assigned -> Result]
         /\ container \in [Assigned -> {"none", "created", "running", "exited", "gone"}]
         /\ exitCode \in [Assigned -> {"none", "zero", "other"}]
         /\ read \in [Assigned -> 0 .. MaxLines]
         /\ stream \in StreamStep /\ polls \in Nat
         /\ verdict \in {"none", "completed", "failed"}
BY DEF IInvExecution, ExecutionTypeOK, HandlerFits, HandlerStep

LEMMA HandlerFitsStep ==
  ASSUME IInvExecution, [ExecutionNext]_executionVars
  PROVE  HandlerFits'
<1>0. HandlerFits /\ StreamFits /\ ExecutionTypeOK BY DEF IInvExecution
<1>t. /\ current \in Assigned \cup {NoJob}
      /\ handler \in {"announce", "poll", "await", "report", "failing", "upload", "stuck",
                         "free", "down"}
      /\ handler \notin {"free", "down"} => current \in Assigned
      /\ executor \in [Assigned -> ExecutorStep] /\ result \in [Assigned -> Result]
  BY ExecutionFacts
<1> USE DEF HandlerFits
<1>1. ASSUME NEW j \in Assigned, Assign(j) PROVE HandlerFits'
  BY <1>0, <1>t, <1>1 DEF Assign
<1>2. ASSUME NEW j \in Assigned, Download(j) \/ StartContainer(j) \/ WaitReturns(j) \/ WaitRaises(j)
             \/ RemoveContainer(j)
      PROVE  HandlerFits'
  <2>1. UNCHANGED <<current, handler, polls, verdict, stream>>
    BY <1>2 DEF Download, StartContainer, WaitReturns, WaitRaises, RemoveContainer
  <2>2. executor[j] \notin {"no", "over"} /\ executor'[j] # "no"
    BY <1>2, <1>t DEF Download, StartContainer, WaitReturns, WaitRaises, RemoveContainer, Ends
  <2>3. \A i \in Assigned : i # j => executor'[i] = executor[i] /\ result'[i] = result[i]
    BY <1>2, <1>t DEF Download, StartContainer, WaitReturns, WaitRaises, RemoveContainer, Ends
  <2> QED BY <1>0, <1>t, <2>1, <2>2, <2>3
<1>3. ASSUME UNCHANGED <<current, handler, polls, verdict, stream, executor, result>>
      PROVE  HandlerFits'
  BY <1>0, <1>3
<1>4. ASSUME NEW j \in Assigned, ReadLine(j) \/ EndReading(j) \/ WriteLine(j) \/ ExitProgram(j)
      PROVE  HandlerFits'
  BY <1>3, <1>4 DEF ReadLine, EndReading, WriteLine, ExitProgram
<1>5. ASSUME Announce PROVE HandlerFits'
  <2>1. /\ handler = "announce" /\ handler' \in {"poll", "stuck"}
        /\ executor' = [executor EXCEPT ![current] =
                          IF handler' = "poll" THEN "download" ELSE executor[current]]
        /\ UNCHANGED <<current, polls, verdict, stream, result>>
    BY <1>5 DEF Announce, SendStatus
  <2>2. current \in Assigned BY <1>t, <2>1
  <2>3. handler' = "poll" => executor'[current] = "download" BY <1>t, <2>1, <2>2
  <2>4. 0 < Polls OBVIOUS
  <2> QED BY <1>0, <2>1, <2>2, <2>3, <2>4
<1>6. ASSUME Poll PROVE HandlerFits'
  <2>1. /\ handler = "poll" /\ handler' \in {"poll", "await"}
        /\ UNCHANGED <<current, verdict, executor, result>>
    BY <1>6 DEF Poll
  <2>2. stream' # "none" => handler' = "await"
    BY <1>0, <1>6, <2>1 DEF Poll
  <2>3. handler' = "poll" => polls' < Polls
    BY <1>0, <1>6, <2>1 DEF Poll, ExecutionTypeOK
  <2> QED BY <1>0, <2>1, <2>2, <2>3
<1>7. ASSUME PollFails PROVE HandlerFits'
  BY <1>0, <1>7 DEF PollFails
<1>8. ASSUME Collect PROVE HandlerFits'
  BY <1>0, <1>8 DEF Collect
<1>9. ASSUME Conclude PROVE HandlerFits'
  BY <1>0, <1>9 DEF Conclude
<1>10. ASSUME Report PROVE HandlerFits'
  <2>1. /\ handler \in {"report", "failing"} /\ handler' \in {"free", "upload", "stuck"}
        /\ handler = "failing" => handler' # "upload"
        /\ current' = IF handler' = "free" THEN NoJob ELSE current
        /\ UNCHANGED <<verdict, stream, executor, result>>
    BY <1>10 DEF Report, SendStatus
  <2>2. current \in Assigned /\ stream \in {"none", "over"} BY <1>0, <1>t, <2>1
  <2>3. handler' = "upload" => executor'[current'] = "over" BY <1>0, <2>1
  <2> QED BY <1>0, <2>1, <2>2, <2>3
<1>11. ASSUME UploadArtifacts PROVE HandlerFits'
  BY <1>0, <1>11 DEF UploadArtifacts
<1>12. ASSUME TakeBatch \/ Flush \/ Wake PROVE HandlerFits'
  <2>1. /\ stream \notin {"none", "over"}
        /\ UNCHANGED <<current, handler, polls, verdict, executor, result>>
    BY <1>12 DEF TakeBatch, Flush, Wake
  <2> QED BY <1>0, <2>1
<1>13. ASSUME LoseLink \/ Reconnect PROVE HandlerFits'
  BY <1>3, <1>13 DEF LoseLink, Reconnect
<1>14. ASSUME Crash PROVE HandlerFits'
  BY <1>14 DEF Crash
<1>15. ASSUME Restart PROVE HandlerFits'
  BY <1>0, <1>15 DEF Restart
<1>16. CASE UNCHANGED executionVars
  BY <1>3, <1>16
<1> QED
  BY <1>1, <1>2, <1>4, <1>5, <1>6, <1>7, <1>8, <1>9, <1>10, <1>11, <1>12, <1>13, <1>14,
     <1>15, <1>16 DEF ExecutionNext

\* Whoever runs a program minds it, and its result is what it exited with.
LEMMA ExecutorFitsStep ==
  ASSUME IInvExecution, [ExecutionNext]_executionVars, NEW i \in Assigned
  PROVE  ExecutorFits(i)'
<1>0. HandlerFits /\ ExecutorFits(i) /\ ExecutionTypeOK BY DEF IInvExecution
<1>t. /\ current \in Assigned \cup {NoJob}
      /\ handler \notin {"free", "down"} => current \in Assigned
      /\ executor \in [Assigned -> ExecutorStep] /\ result \in [Assigned -> Result]
      /\ container \in [Assigned -> {"none", "created", "running", "exited", "gone"}]
      /\ exitCode \in [Assigned -> {"none", "zero", "other"}]
      /\ read \in [Assigned -> 0 .. MaxLines]
  BY ExecutionFacts
<1>o. executor[i] = "no" => told[i] = <<>> /\ read[i] = 0
  BY <1>0 DEF ExecutorFits
<1> USE DEF ExecutorFits
<1>1. ASSUME NEW j \in Assigned, Assign(j) PROVE ExecutorFits(i)'
  <2>1. /\ handler = "free" /\ UNCHANGED <<executor, container, result, exitCode, unminded, told, read>>
    BY <1>1 DEF Assign
  <2> QED BY <1>0, <2>1
<1>2. ASSUME NEW j \in Assigned, Download(j) \/ StartContainer(j) \/ WaitReturns(j) \/ WaitRaises(j)
             \/ RemoveContainer(j)
      PROVE  ExecutorFits(i)'
  <2>1. UNCHANGED <<current, handler, exitCode, told, read>> /\ unminded \subseteq unminded'
    BY <1>2 DEF Download, StartContainer, WaitReturns, WaitRaises, RemoveContainer
  <2>2. CASE i # j
    <3>1. executor'[i] = executor[i] /\ container'[i] = container[i] /\ result'[i] = result[i]
      BY <1>2, <1>t, <2>2
      DEF Download, StartContainer, WaitReturns, WaitRaises, RemoveContainer, Ends
    <3> QED BY <1>0, <2>1, <3>1
  <2>3. ASSUME i = j, Download(j) PROVE ExecutorFits(i)'
    <3>1. /\ executor[i] = "download" /\ executor'[i] \in {"start", "over"}
          /\ container'[i] = container[i]
          /\ result'[i] = result[i] \/ result'[i] = "error"
      BY <1>t, <2>3 DEF Download, Ends
    <3> QED BY <1>0, <2>1, <3>1
  <2>4. ASSUME i = j, StartContainer(j) PROVE ExecutorFits(i)'
    <3>1. /\ executor[i] = "start"
          /\ \/ executor'[i] = "wait" /\ container'[i] = "running" /\ result'[i] = result[i]
             \/ /\ executor'[i] = "over" /\ result'[i] = "error"
                /\ \/ container'[i] \in {container[i], "created"}
                   \/ container'[i] = "running" /\ i \in unminded'
      BY <1>t, <2>4 DEF StartContainer, Ends
    <3> QED BY <1>0, <2>1, <3>1
  <2>5. ASSUME i = j, WaitReturns(j) PROVE ExecutorFits(i)'
    <3>1. /\ executor[i] = "wait" /\ executor'[i] = "remove" /\ container[i] = "exited"
          /\ container'[i] = container[i]
          /\ result'[i] = "completed" => exitCode[i] = "zero"
      BY <1>t, <2>5 DEF WaitReturns, Ends
    <3> QED BY <1>0, <2>1, <3>1
  <2>6. ASSUME i = j, WaitRaises(j) PROVE ExecutorFits(i)'
    <3>1. /\ executor[i] = "wait" /\ executor'[i] = "remove" /\ container'[i] = container[i]
          /\ result'[i] \in {"timeout", "error"}
      BY <1>t, <2>6 DEF WaitRaises, Ends
    <3> QED BY <1>0, <2>1, <3>1
  <2>7. ASSUME i = j, RemoveContainer(j) PROVE ExecutorFits(i)'
    <3>1. /\ executor[i] = "remove" /\ executor'[i] = "over" /\ result'[i] = result[i]
          /\ container'[i] = "gone" \/ (container'[i] = container[i] /\ i \in unminded')
      BY <1>t, <2>7 DEF RemoveContainer
    <3> QED BY <1>0, <2>1, <3>1
  <2> QED BY <1>2, <2>2, <2>3, <2>4, <2>5, <2>6, <2>7
<1>3. ASSUME UNCHANGED <<current, handler, executor, container, result, exitCode, unminded, told, read>>
      PROVE  ExecutorFits(i)'
  BY <1>0, <1>3
<1>4. ASSUME NEW j \in Assigned, ReadLine(j) PROVE ExecutorFits(i)'
  <2>1. /\ j = current /\ handler = "await"
        /\ UNCHANGED <<current, handler, executor, container, result, exitCode, unminded, told>>
        /\ \A k \in Assigned : k # j => read'[k] = read[k]
    BY <1>0, <1>t, <1>4 DEF ReadLine, Followed, HandlerFits
  <2>2. executor[j] # "no" BY <1>0, <2>1 DEF HandlerFits
  <2> QED BY <1>0, <2>1, <2>2
<1>5. ASSUME NEW j \in Assigned, EndReading(j) \/ WriteLine(j) PROVE ExecutorFits(i)'
  BY <1>3, <1>5 DEF EndReading, WriteLine
<1>6. ASSUME NEW j \in Assigned, ExitProgram(j) PROVE ExecutorFits(i)'
  <2>1. /\ container[j] = "running" /\ container'[j] = "exited"
        /\ \A k \in Assigned : k # j => container'[k] = container[k] /\ exitCode'[k] = exitCode[k]
        /\ UNCHANGED <<current, handler, executor, result, unminded, told, read>>
    BY <1>t, <1>6 DEF ExitProgram
  <2> QED BY <1>0, <2>1
<1>7. ASSUME Announce PROVE ExecutorFits(i)'
  <2>1. /\ handler = "announce" /\ handler' \in {"poll", "stuck"}
        /\ executor' = [executor EXCEPT ![current] =
                          IF handler' = "poll" THEN "download" ELSE executor[current]]
        /\ UNCHANGED <<current, container, result, exitCode, unminded, read>>
    BY <1>7 DEF Announce, SendStatus
  <2>2. current \in Assigned /\ executor[current] = "no" BY <1>0, <1>t, <2>1 DEF HandlerFits
  <2>3. /\ \A j \in Assigned : j # current => told'[j] = told[j]
        /\ handler' # "poll" => told' = told
    <3>1. CASE /\ linked /\ ToBackend(<<[status |-> "running", line |-> 0]>>)
               /\ handler' = "poll" /\ UNCHANGED holed
      BY <1>0, <2>2, <3>1, TellsStatus
    <3>2. CASE ~ linked /\ UNCHANGED told
      BY <3>2
    <3> QED BY <1>7, <3>1, <3>2 DEF Announce, SendStatus
  <2>4. CASE i = current
    <3>1. handler' = "poll" => executor'[i] = "download" BY <1>t, <2>1, <2>4
    <3>2. handler' # "poll" => executor'[i] = "no" BY <1>t, <2>1, <2>2, <2>4
    <3>3. container'[i] = "none" /\ result'[i] = result[i] /\ result[i] # "completed"
      BY <1>0, <2>1, <2>2, <2>4
    <3> QED BY <1>0, <2>1, <2>3, <2>4, <3>1, <3>2, <3>3
  <2>5. CASE i # current
    <3>1. executor'[i] = executor[i] BY <1>t, <2>1, <2>5
    <3> QED BY <1>0, <2>1, <2>3, <2>5, <3>1
  <2> QED BY <2>4, <2>5
<1>8. ASSUME Poll PROVE ExecutorFits(i)'
  <2>1. /\ handler = "poll" /\ handler' \in {"poll", "await"}
        /\ UNCHANGED <<current, executor, container, result, exitCode, unminded, told, read>>
    BY <1>8 DEF Poll
  <2> QED BY <1>0, <2>1
<1>9. ASSUME PollFails PROVE ExecutorFits(i)'
  <2>1. /\ handler = "poll" /\ handler' = "failing"
        /\ unminded' = IF executor[current] = "over" THEN unminded ELSE unminded \cup {current}
        /\ UNCHANGED <<current, executor, container, result, exitCode, told, read>>
    BY <1>9 DEF PollFails
  <2> QED BY <1>0, <2>1
<1>11. ASSUME Collect \/ Flush PROVE ExecutorFits(i)'
  <2>1. handler = "await" /\ UNCHANGED <<current, handler, executor, container, result, exitCode, unminded, read>>
    BY <1>0, <1>11 DEF Collect, Flush, HandlerFits
  <2>2. current \in Assigned /\ executor[current] # "no" BY <1>0, <1>t, <2>1 DEF HandlerFits
  <2>3. \A j \in Assigned : j # current => told'[j] = told[j]
    BY <1>0, <1>11, <2>2, TellsLog DEF Collect, CancelStream, Flush
  <2> QED BY <1>0, <2>1, <2>2, <2>3
<1>12. ASSUME Conclude PROVE ExecutorFits(i)'
  <2>1. /\ executor[current] = "over" /\ handler = "await"
        /\ UNCHANGED <<current, executor, container, result, exitCode, unminded, told, read>>
    BY <1>12 DEF Conclude
  <2> QED BY <1>0, <2>1
<1>13. ASSUME Report PROVE ExecutorFits(i)'
  <2>1. /\ handler \in {"report", "failing"}
        /\ UNCHANGED <<executor, container, result, exitCode, unminded, read>>
    BY <1>13 DEF Report
  <2>2. current \in Assigned /\ executor[current] # "no" BY <1>0, <1>t, <2>1 DEF HandlerFits
  <2>3. \A j \in Assigned : j # current => told'[j] = told[j]
    <3>1. handler = "report" => verdict \in {"completed", "failed"}
      BY <1>0 DEF HandlerFits, ExecutionTypeOK
    <3>2. \E s \in {"completed", "failed"}, then \in {"upload", "free"} : SendStatus(s, then)
      BY <1>13, <3>1 DEF Report
    <3> QED BY <1>0, <2>2, <3>2, TellsStatus DEF SendStatus
  <2> QED BY <1>0, <2>1, <2>2, <2>3
<1>14. ASSUME UploadArtifacts PROVE ExecutorFits(i)'
  <2>1. /\ handler = "upload" /\ UNCHANGED <<executor, container, result, exitCode, unminded, told, read>>
    BY <1>14 DEF UploadArtifacts
  <2> QED BY <1>0, <2>1
<1>15. ASSUME TakeBatch \/ Wake \/ LoseLink \/ Reconnect PROVE ExecutorFits(i)'
  <2>1. /\ UNCHANGED <<current, executor, container, result, exitCode, unminded, told, read>>
        /\ UNCHANGED handler
    BY <1>15 DEF TakeBatch, Wake, LoseLink, Reconnect
  <2> QED BY <1>3, <2>1
<1>16. ASSUME Crash PROVE ExecutorFits(i)'
  <2>1. /\ executor'[i] = IF executor[i] \in {"no", "over"} THEN executor[i] ELSE "died"
        /\ unminded' = unminded \cup {j \in Assigned : executor'[j] = "died"}
        /\ UNCHANGED <<container, result, exitCode, told, read>>
    BY <1>16 DEF Crash
  <2> QED BY <1>0, <2>1
<1>17. ASSUME Restart PROVE ExecutorFits(i)'
  <2>1. /\ handler = "down" /\ UNCHANGED <<current, executor, container, result, exitCode, unminded, told, read>>
    BY <1>17 DEF Restart
  <2> QED BY <1>0, <2>1
<1>18. CASE UNCHANGED executionVars
  BY <1>3, <1>18
<1> QED
  BY <1>1, <1>2, <1>4, <1>5, <1>6, <1>7, <1>8, <1>9, <1>11, <1>12, <1>13, <1>14, <1>15,
     <1>16, <1>17, <1>18 DEF ExecutionNext

\* Behind the sentinel of a job's log there is nothing.
LEMMA StreamFitsStep ==
  ASSUME IInvExecution, [ExecutionNext]_executionVars
  PROVE  StreamFits'
<1>0. HandlerFits /\ StreamFits /\ ExecutionTypeOK BY DEF IInvExecution
<1>t. /\ current \in Assigned \cup {NoJob} /\ stream \in StreamStep
      /\ handler \notin {"free", "down"} => current \in Assigned
  BY ExecutionFacts
<1>q. queue \in Seq(0 .. MaxLines) /\ Len(queue) \in Nat /\ DOMAIN queue = 1 .. Len(queue)
  BY <1>0, TypesOfTheLog
<1>e. \A k \in DOMAIN <<>> : FALSE OBVIOUS
<1> USE DEF StreamFits
<1>1. ASSUME UNCHANGED <<stream, queue, batch>>,
             (\E k \in DOMAIN queue : queue[k] = EndOfLog) => current' \notin readers'
      PROVE  StreamFits'
  BY <1>0, <1>1
<1>2. ASSUME UNCHANGED <<stream, queue, batch, current, readers>> PROVE StreamFits'
  BY <1>0, <1>1, <1>2
<1>3. ASSUME queue' = <<>>, stream' \notin {"sending", "ending", "last"} => batch' = <<>>
      PROVE  StreamFits'
  BY <1>e, <1>3
<1>4. ASSUME NEW j \in Assigned, Assign(j) PROVE StreamFits'
  BY <1>3, <1>4 DEF Assign
<1>5. ASSUME NEW j \in Assigned, Download(j) \/ StartContainer(j) \/ WaitReturns(j) \/ WaitRaises(j)
             \/ RemoveContainer(j) \/ WriteLine(j) \/ ExitProgram(j)
      PROVE  StreamFits'
  BY <1>2, <1>5 DEF Download, StartContainer, WaitReturns, WaitRaises, RemoveContainer,
                    WriteLine, ExitProgram
<1>6. ASSUME NEW j \in Assigned, Followed(j), NEW x \in 0 .. MaxLines, queue' = Append(queue, x),
             UNCHANGED <<stream, batch, current>>, x = 0 => current \notin readers',
             readers' \subseteq readers
      PROVE  StreamFits'
  <2>1. j = current /\ j \in readers /\ stream \in {"waiting", "sending", "asleep"}
    BY <1>6 DEF Followed
  <2>2. \A k \in DOMAIN queue : queue[k] # 0 BY <1>0, <2>1
  <2>3. /\ Len(queue') = Len(queue) + 1 /\ DOMAIN queue' = 1 .. (Len(queue) + 1)
        /\ \A k \in 1 .. Len(queue) : queue'[k] = queue[k]
        /\ queue'[Len(queue) + 1] = x
    BY <1>0, <1>6, QueueGrows
  <2>4. ASSUME NEW k \in DOMAIN queue', queue'[k] = 0 PROVE k = Len(queue') /\ current \notin readers'
    <3>1. k \in 1 .. (Len(queue) + 1) BY <2>3
    <3>2. k \notin 1 .. Len(queue)
      <4>1. ASSUME k \in 1 .. Len(queue) PROVE FALSE
        <5>1. k \in DOMAIN queue BY <1>q, <4>1, Zenon
        <5>2. queue'[k] = queue[k] BY <2>3, <4>1
        <5> QED BY <2>2, <2>4, <5>1, <5>2, Zenon
      <4> QED BY <4>1
    <3>3. k = Len(queue) + 1 BY <1>q, <3>1, <3>2
    <3> QED BY <1>6, <2>3, <2>4, <3>3
  <2> QED BY <1>0, <1>6, <2>1, <2>4
<1>7. ASSUME NEW j \in Assigned, ReadLine(j) PROVE StreamFits'
  <2>1. read'[j] \in 1 .. MaxLines
    <3>1. read \in [Assigned -> 0 .. MaxLines] /\ written \in [Assigned -> 0 .. MaxLines]
      BY <1>0 DEF ExecutionTypeOK
    <3>2. read[j] \in 0 .. MaxLines /\ written[j] \in 0 .. MaxLines /\ read[j] < written[j]
      BY <1>7, <3>1 DEF ReadLine
    <3>3. read'[j] = read[j] + 1 BY <1>7, <3>1 DEF ReadLine
    <3> QED BY <3>2, <3>3
  <2>2. /\ Followed(j) /\ queue' = Append(queue, read'[j])
        /\ UNCHANGED <<stream, batch, current, readers>>
    BY <1>7 DEF ReadLine
  <2>3. read'[j] \in 0 .. MaxLines /\ read'[j] # 0 BY <2>1
  <2> QED BY <1>6, <2>2, <2>3
<1>8. ASSUME NEW j \in Assigned, EndReading(j) PROVE StreamFits'
  <2>1. /\ readers' = readers \ {j} /\ UNCHANGED <<stream, batch, current>>
        /\ queue' = IF Followed(j) THEN Append(queue, 0) ELSE queue
    BY <1>8 DEF EndReading
  <2>2. CASE Followed(j)
    <3>1. j = current BY <2>2 DEF Followed
    <3>2. 0 \in 0 .. MaxLines OBVIOUS
    <3> QED BY <1>6, <2>1, <2>2, <3>1, <3>2
  <2>3. CASE ~ Followed(j)
    BY <1>0, <1>1, <2>1, <2>3
  <2> QED BY <2>2, <2>3
<1>9. ASSUME Announce \/ PollFails \/ Conclude PROVE StreamFits'
  BY <1>2, <1>9 DEF Announce, PollFails, Conclude
<1>10. ASSUME Poll PROVE StreamFits'
  <2>1. handler = "poll" /\ stream = "none" /\ queue = <<>> /\ batch = <<>>
    BY <1>0, <1>10 DEF Poll, HandlerFits
  <2>2. queue' = queue /\ batch' = batch BY <1>10 DEF Poll
  <2> QED BY <1>3, <2>1, <2>2
<1>11. ASSUME Collect PROVE StreamFits'
  <2>1. queue' = <<>> /\ stream' = IF batch' = <<>> THEN "over" ELSE "last"
    BY <1>11 DEF Collect, CancelStream
  <2> QED BY <1>3, <2>1
<1>12. ASSUME Report \/ UploadArtifacts PROVE StreamFits'
  <2>1. queue = <<>>
    BY <1>0, <1>12 DEF Report, UploadArtifacts, HandlerFits
  <2>2. UNCHANGED <<stream, queue, batch>> BY <1>12 DEF Report, UploadArtifacts
  <2> QED BY <1>0, <1>3, <2>1, <2>2
<1>13. ASSUME TakeBatch PROVE StreamFits'
  <2>1. queue' = <<>> /\ batch' = QueuedLines BY <1>13 DEF TakeBatch
  <2>2. stream' \notin {"sending", "ending", "last"} => QueuedLines = <<>>
    BY <1>13 DEF TakeBatch
  <2> QED BY <1>3, <2>1, <2>2
<1>14. ASSUME Flush PROVE StreamFits'
  <2>1. /\ stream \in {"sending", "ending", "last"} /\ batch' = <<>>
        /\ stream' = IF stream = "sending" THEN "asleep" ELSE "over"
        /\ UNCHANGED <<queue, current, readers>>
    BY <1>14 DEF Flush
  <2> QED BY <1>0, <2>1
<1>15. ASSUME Wake PROVE StreamFits'
  <2>1. stream = "asleep" /\ stream' = "waiting" /\ UNCHANGED <<queue, batch, current, readers>>
    BY <1>15 DEF Wake
  <2> QED BY <1>0, <2>1
<1>16. ASSUME LoseLink \/ Reconnect \/ Restart PROVE StreamFits'
  BY <1>2, <1>16 DEF LoseLink, Reconnect, Restart
<1>17. ASSUME Crash PROVE StreamFits'
  BY <1>3, <1>17 DEF Crash
<1>18. CASE UNCHANGED executionVars
  BY <1>2, <1>18
<1> QED
  BY <1>4, <1>5, <1>7, <1>8, <1>9, <1>10, <1>11, <1>12, <1>13, <1>14, <1>15, <1>16, <1>17,
     <1>18 DEF ExecutionNext

\* No line overtakes another one on its way to the backend.
LEMMA LinesFitStep ==
  ASSUME IInvExecution, [ExecutionNext]_executionVars
  PROVE  LinesFit'
<1>0. HandlerFits /\ StreamFits /\ LinesFit /\ ExecutionTypeOK BY DEF IInvExecution
<1>t. /\ current \in Assigned \cup {NoJob} /\ stream \in StreamStep
      /\ handler \notin {"free", "down"} => current \in Assigned
      /\ read \in [Assigned -> 0 .. MaxLines]
  BY ExecutionFacts
<1>n. \A j \in Assigned : read[j] \in Nat BY <1>t
<1>e. batch' = <<>> => Sending' = {} BY DEF Sending
<1>f. queue' = <<>> => Waiting' = {} BY DEF Waiting
<1>d. DOMAIN <<>> = {} OBVIOUS
<1>1. ASSUME UNCHANGED <<batch, queue>>, current' = NoJob PROVE LinesFit'
  BY <1>0, <1>1 DEF LinesFit, Sending, Waiting
<1>2. ASSUME UNCHANGED <<batch, queue, current, told, read>>, holed \subseteq holed'
      PROVE  LinesFit'
  BY <1>0, <1>2 DEF LinesFit, Sending, Waiting, ToldLines, LogPlaces
<1>3. ASSUME NEW c \in Assigned, current = c, UNCHANGED <<batch, queue, current, read>>,
             ToldLines(c)' = ToldLines(c), holed \subseteq holed'
      PROVE  LinesFit'
  <2>1. ToldLines(current)' = ToldLines(current) BY <1>3
  <2> QED BY <1>0, <1>3, <2>1 DEF LinesFit, Sending, Waiting
\* The message being sent is told, or lost; what waits becomes the next one.
<1>4. ASSUME NEW c \in Assigned, current = c, UNCHANGED <<current, read>>,
             \/ ToldLines(c)' = ToldLines(c) \cup Sending /\ holed' = holed
             \/ ToldLines(c)' = ToldLines(c) /\ c \in holed'
      PROVE  /\ ToldLines(current)' \subseteq ToldLines(c) \cup Sending
             /\ current' \notin holed' =>
                  c \notin holed /\ ToldLines(current)' = ToldLines(c) \cup Sending
  BY <1>4
<1>5. ASSUME NEW c \in Assigned, current = c
      PROVE  /\ \A m \in ToldLines(c), n \in Sending \cup Waiting : m < n
             /\ \A m \in Sending, n \in Waiting : m < n
             /\ Sending \cup Waiting \subseteq 1 .. read[c]
             /\ c \notin holed => 1 .. read[c] \subseteq ToldLines(c) \cup Sending \cup Waiting
  BY <1>0, <1>5 DEF LinesFit
<1>6. ASSUME NEW c \in Assigned, current = c, UNCHANGED <<current, read>>,
             \/ ToldLines(c)' = ToldLines(c) \cup Sending /\ holed' = holed
             \/ ToldLines(c)' = ToldLines(c) /\ c \in holed',
             batch' = QueuedLines, queue' = <<>>
      PROVE  LinesFit'
  <2>1. /\ ToldLines(current)' \subseteq ToldLines(c) \cup Sending
        /\ current' \notin holed' =>
             c \notin holed /\ ToldLines(current)' = ToldLines(c) \cup Sending
    BY <1>4, <1>6
  <2>2. Sending' = Waiting BY <1>0, <1>6, QueuedLinesWait DEF Sending
  <2>3. Waiting' = {} BY <1>6, <1>f
  <2>4. \A i, k \in DOMAIN batch' : i < k => batch'[i] < batch'[k]
    <3>1. /\ DOMAIN QueuedLines \subseteq DOMAIN queue
          /\ \A k \in DOMAIN QueuedLines : QueuedLines[k] = queue[k] /\ queue[k] # 0
      BY <1>0, QueuedLinesAre
    <3>2. \A i, k \in DOMAIN queue : i < k /\ queue[k] # 0 => queue[i] < queue[k]
      BY <1>0 DEF LinesFit
    <3> HIDE DEF QueuedLines
    <3> QED BY <1>6, <3>1, <3>2
  <2>5. \A m \in ToldLines(current)', n \in Sending' \cup Waiting' : m < n
    BY <1>5, <1>6, <2>1, <2>2, <2>3
  <2>6. Sending' \cup Waiting' \subseteq 1 .. read'[current']
    BY <1>5, <1>6, <2>2, <2>3
  <2>7. current' \notin holed' =>
          1 .. read'[current'] \subseteq ToldLines(current)' \cup Sending' \cup Waiting'
    BY <1>5, <1>6, <2>1, <2>2
  <2>8. \A i, k \in DOMAIN queue' : i < k /\ queue'[k] # 0 => queue'[i] < queue'[k]
    BY <1>6, <1>d
  <2> QED BY <2>3, <2>4, <2>5, <2>6, <2>7, <2>8 DEF LinesFit
<1>7. ASSUME NEW j \in Assigned, Assign(j) PROVE LinesFit'
  <2>1. /\ current' = j /\ queue' = <<>> /\ batch' = <<>> /\ executor[j] = "no"
        /\ UNCHANGED <<told, read>>
    BY <1>7 DEF Assign
  <2>2. read[j] = 0 BY <2>1 DEF IInvExecution, ExecutorFits
  <2>3. 1 .. read'[j] = {} BY <2>1, <2>2
  <2>4. Sending' = {} /\ Waiting' = {} BY <2>1, <1>e, <1>f
  <2>5. \A i, k \in DOMAIN batch' : i < k => batch'[i] < batch'[k]
    BY <2>1, <1>d
  <2>6. \A i, k \in DOMAIN queue' : i < k /\ queue'[k] # 0 => queue'[i] < queue'[k]
    BY <2>1, <1>d
  <2> QED BY <2>1, <2>3, <2>4, <2>5, <2>6 DEF LinesFit
<1>8. ASSUME NEW j \in Assigned, Download(j) \/ StartContainer(j) \/ WaitReturns(j) \/ WaitRaises(j)
             \/ RemoveContainer(j) \/ WriteLine(j) \/ ExitProgram(j)
      PROVE  LinesFit'
  BY <1>2, <1>8 DEF Download, StartContainer, WaitReturns, WaitRaises, RemoveContainer,
                    WriteLine, ExitProgram
<1>9. ASSUME NEW c \in Assigned, current = c, Followed(c), NEW x \in 0 .. MaxLines,
             queue' = Append(queue, x), UNCHANGED <<batch, current, told, holed>>,
             \/ x = 0 /\ UNCHANGED read
             \/ x = read[c] + 1 /\ read'[c] = x
      PROVE  LinesFit'
  <2>1. /\ Waiting' = Waiting \cup ({x} \ {0}) /\ Sending' = Sending
        /\ ToldLines(c)' = ToldLines(c)
    BY <1>0, <1>9, WaitingGrows DEF Sending, ToldLines, LogPlaces
  <2>2. ToldLines(c) \subseteq 1 .. read[c]
    BY DEF IInvExecution, StoryFits
  <2>3. \A m \in ToldLines(c) \cup Sending \cup Waiting : m < x \/ x = 0
    BY <1>5, <1>9, <1>n, <2>2
  <2>4. \A i \in DOMAIN queue : queue[i] # 0
    <3>1. c \in readers BY <1>9 DEF Followed
    <3> QED BY <1>0, <1>9, <3>1 DEF StreamFits
  <2>5. \A i \in DOMAIN queue : queue[i] \in Waiting
    BY <2>4 DEF Waiting
  <2>6. \A i, k \in DOMAIN queue' : i < k /\ queue'[k] # 0 => queue'[i] < queue'[k]
    <3>1. \A i, k \in DOMAIN queue' :
            \/ i \in DOMAIN queue /\ k \in DOMAIN queue
                 /\ queue'[i] = queue[i] /\ queue'[k] = queue[k]
            \/ ~ (i < k)
            \/ queue'[k] = x /\ i \in DOMAIN queue /\ queue'[i] = queue[i]
      BY <1>0, <1>9, WaitingGrows
    <3>2. \A i, k \in DOMAIN queue : i < k /\ queue[k] # 0 => queue[i] < queue[k]
      BY <1>0 DEF LinesFit
    <3>3. SUFFICES ASSUME NEW i \in DOMAIN queue', NEW k \in DOMAIN queue', i < k, queue'[k] # 0
                   PROVE  queue'[i] < queue'[k]
      OBVIOUS
    <3>4. CASE i \in DOMAIN queue /\ k \in DOMAIN queue
                 /\ queue'[i] = queue[i] /\ queue'[k] = queue[k]
      <4>1. queue[i] < queue[k] BY <3>2, <3>3, <3>4, Zenon
      <4> QED BY <3>4, <4>1, Zenon
    <3>5. CASE queue'[k] = x /\ i \in DOMAIN queue /\ queue'[i] = queue[i]
      <4>1. queue[i] < x \/ x = 0 BY <2>3, <2>5, <3>5, Zenon
      <4>2. x # 0 BY <3>3, <3>5, Zenon
      <4> QED BY <3>5, <4>1, <4>2, Zenon
    <3> QED BY <3>1, <3>3, <3>4, <3>5, Zenon
  <2>7. \A i, k \in DOMAIN batch' : i < k => batch'[i] < batch'[k]
    BY <1>0, <1>9 DEF LinesFit
  <2>8. \A m \in Sending', n \in Waiting' : m < n
    BY <1>5, <1>9, <2>1, <2>3
  <2>9. \A m \in ToldLines(c)', n \in Sending' \cup Waiting' : m < n
    BY <1>5, <1>9, <2>1, <2>3
  <2>10. Sending' \cup Waiting' \subseteq 1 .. read'[c]
    <3>1. Sending \cup Waiting \subseteq 1 .. read[c] BY <1>5, <1>9
    <3>2. 1 .. read[c] \subseteq 1 .. read'[c] /\ (x # 0 => x \in 1 .. read'[c])
      BY <1>9, <1>n
    <3> QED BY <2>1, <3>1, <3>2
  <2>11. c \notin holed' => 1 .. read'[c] \subseteq ToldLines(c)' \cup Sending' \cup Waiting'
    <3>1. c \notin holed => 1 .. read[c] \subseteq ToldLines(c) \cup Sending \cup Waiting
      BY <1>5, <1>9
    <3>2. 1 .. read'[c] \subseteq (1 .. read[c]) \cup ({x} \ {0})
      BY <1>9, <1>n
    <3> QED BY <1>9, <2>1, <3>1, <3>2
  <2>12. ToldLines(current)' = ToldLines(c)' BY <1>9
  <2> QED BY <1>9, <2>6, <2>7, <2>8, <2>9, <2>10, <2>11, <2>12 DEF LinesFit
<1>10. ASSUME NEW j \in Assigned, ReadLine(j) PROVE LinesFit'
  <2>1. /\ j = current /\ Followed(j) BY <1>10 DEF ReadLine, Followed
  <2>2. /\ read' = [read EXCEPT ![j] = read[j] + 1] /\ queue' = Append(queue, read'[j])
        /\ UNCHANGED <<batch, current, told, holed>>
    BY <1>10 DEF ReadLine
  <2>3. read'[j] = read[j] + 1 BY <1>t, <2>2
  <2>4. read'[j] \in 0 .. MaxLines
    <3>1. written[j] \in 0 .. MaxLines /\ read[j] \in 0 .. MaxLines /\ read[j] < written[j]
      BY <1>0, <1>10 DEF ReadLine, ExecutionTypeOK
    <3> QED BY <2>3, <3>1
  <2> QED BY <1>9, <2>1, <2>2, <2>3, <2>4
<1>11. ASSUME NEW j \in Assigned, EndReading(j) PROVE LinesFit'
  <2>1. /\ UNCHANGED <<batch, current, told, holed, read>>
        /\ queue' = IF Followed(j) THEN Append(queue, 0) ELSE queue
    BY <1>11 DEF EndReading
  <2>2. 0 \in 0 .. MaxLines OBVIOUS
  <2>3. CASE Followed(j)
    BY <1>9, <2>1, <2>2, <2>3 DEF Followed
  <2>4. CASE ~ Followed(j)
    BY <1>2, <2>1, <2>4
  <2> QED BY <2>3, <2>4
<1>12. ASSUME NEW s \in {"running", "completed", "failed"}, NEW then, current \in Assigned,
              SendStatus(s, then), UNCHANGED <<batch, queue, current, read>>
       PROVE  LinesFit'
  <2>1. CASE linked /\ ToBackend(<<[status |-> s, line |-> 0]>>) /\ UNCHANGED holed
    BY <1>0, <1>3, <1>12, <2>1, TellsStatus
  <2>2. CASE holed' = holed \cup {current} /\ UNCHANGED told
    BY <1>2, <1>12, <2>2
  <2> QED BY <1>12, <2>1, <2>2 DEF SendStatus
<1>13. ASSUME Announce PROVE LinesFit'
  BY <1>t, <1>12, <1>13 DEF Announce
<1>14. ASSUME Report PROVE LinesFit'
  <2>1. UNCHANGED <<batch, queue, read>> /\ handler \in {"report", "failing"}
        /\ (current' = NoJob \/ UNCHANGED current)
    BY <1>14 DEF Report
  <2>2. handler = "report" => verdict \in {"completed", "failed"}
    BY <1>0 DEF HandlerFits, ExecutionTypeOK
  <2>3. \E s \in {"completed", "failed"}, then \in {"upload", "free"} : SendStatus(s, then)
    BY <1>14, <2>2 DEF Report
  <2> QED BY <1>1, <1>t, <1>12, <2>1, <2>3
<1>15. ASSUME Poll \/ PollFails \/ Conclude PROVE LinesFit'
  BY <1>2, <1>15 DEF Poll, PollFails, Conclude
<1>16. ASSUME Collect PROVE LinesFit'
  <2>1. /\ handler = "await" /\ batch' = QueuedLines /\ queue' = <<>>
        /\ UNCHANGED <<current, read>>
    BY <1>16 DEF Collect, CancelStream
  <2>2. PICK c \in Assigned : c = current BY <1>t, <2>1
  <2>3. \/ ToldLines(c)' = ToldLines(c) \cup Sending /\ holed' = holed
        \/ ToldLines(c)' = ToldLines(c) /\ c \in holed'
    <3>1. CASE ToBackend(Log(batch)) /\ UNCHANGED holed
      BY <1>0, <2>2, <3>1, TellsLog
    <3>2. CASE holed' = holed \cup {current} /\ UNCHANGED told
      BY <2>2, <3>2 DEF ToldLines, LogPlaces
    <3>3. CASE stream \in {"waiting", "asleep"} /\ UNCHANGED <<told, holed>>
      <4>1. batch = <<>> BY <1>0, <3>3 DEF StreamFits
      <4>2. Sending = {} BY <4>1, <1>d DEF Sending
      <4> QED BY <3>3, <4>2 DEF ToldLines, LogPlaces
    <3> QED BY <1>16, <3>1, <3>2, <3>3 DEF Collect, CancelStream
  <2> QED BY <1>6, <2>1, <2>2, <2>3
<1>17. ASSUME UploadArtifacts PROVE LinesFit'
  BY <1>1, <1>17 DEF UploadArtifacts
<1>18. ASSUME TakeBatch PROVE LinesFit'
  <2>1. /\ stream = "waiting" /\ batch' = QueuedLines /\ queue' = <<>>
        /\ UNCHANGED <<current, read, told, holed>>
    BY <1>18 DEF TakeBatch
  <2>2. PICK c \in Assigned : c = current BY <1>0, <1>t, <2>1 DEF HandlerFits
  <2>3. Sending = {} BY <1>0, <1>d, <2>1 DEF Sending, StreamFits
  <2>4. ToldLines(c)' = ToldLines(c) \cup Sending
    BY <2>1, <2>3 DEF ToldLines, LogPlaces
  <2> QED BY <1>6, <2>1, <2>2, <2>4
<1>19. ASSUME Flush PROVE LinesFit'
  <2>1. /\ stream \in {"sending", "ending", "last"} /\ batch' = <<>>
        /\ UNCHANGED <<current, read, queue>>
    BY <1>19 DEF Flush
  <2>2. PICK c \in Assigned : c = current BY <1>0, <1>t, <2>1 DEF HandlerFits
  <2>3. \/ ToldLines(c)' = ToldLines(c) \cup Sending /\ holed' = holed
        \/ ToldLines(c)' = ToldLines(c) /\ c \in holed'
    <3>1. CASE ToBackend(Log(batch)) /\ UNCHANGED holed
      BY <1>0, <2>2, <3>1, TellsLog
    <3>2. CASE holed' = holed \cup {current} /\ UNCHANGED told
      BY <2>2, <3>2 DEF ToldLines, LogPlaces
    <3> QED BY <1>19, <3>1, <3>2 DEF Flush
  <2>4. /\ ToldLines(current)' \subseteq ToldLines(c) \cup Sending
        /\ current' \notin holed' =>
             c \notin holed /\ ToldLines(current)' = ToldLines(c) \cup Sending
    BY <1>4, <2>1, <2>2, <2>3
  <2>5. Sending' = {} /\ Waiting' = Waiting BY <1>e, <2>1 DEF Waiting
  <2>6. \A m \in ToldLines(current)', n \in Sending' \cup Waiting' : m < n
    BY <1>5, <2>2, <2>4, <2>5
  <2>7. Sending' \cup Waiting' \subseteq 1 .. read'[current']
    BY <1>5, <2>1, <2>2, <2>5
  <2>8. current' \notin holed' =>
          1 .. read'[current'] \subseteq ToldLines(current)' \cup Sending' \cup Waiting'
    BY <1>5, <2>1, <2>2, <2>4, <2>5
  <2>9. \A i, k \in DOMAIN queue' : i < k /\ queue'[k] # 0 => queue'[i] < queue'[k]
    BY <1>0, <2>1 DEF LinesFit
  <2>10. \A i, k \in DOMAIN batch' : i < k => batch'[i] < batch'[k]
    BY <1>d, <2>1
  <2> QED BY <2>5, <2>6, <2>7, <2>8, <2>9, <2>10 DEF LinesFit
<1>20. ASSUME Wake \/ LoseLink \/ Reconnect \/ Restart PROVE LinesFit'
  BY <1>2, <1>20 DEF Wake, LoseLink, Reconnect, Restart
<1>21. ASSUME Crash PROVE LinesFit'
  <2>1. current' = NoJob /\ queue' = <<>> /\ batch' = <<>> BY <1>21 DEF Crash
  <2>2. Sending' = {} /\ Waiting' = {} BY <2>1, <1>e, <1>f
  <2> QED BY <1>d, <2>1, <2>2 DEF LinesFit
<1>22. CASE UNCHANGED executionVars
  BY <1>2, <1>22
<1> QED
  BY <1>7, <1>8, <1>10, <1>11, <1>13, <1>14, <1>15, <1>16, <1>17, <1>18, <1>19, <1>20,
     <1>21, <1>22 DEF ExecutionNext

\* A story only grows while its job is the handler's, and ends with the end.
LEMMA StoryFitsStep ==
  ASSUME IInvExecution, [ExecutionNext]_executionVars, NEW j \in Assigned
  PROVE  StoryFits(j)'
<1>0. HandlerFits /\ StreamFits /\ LinesFit /\ ExecutionTypeOK /\ StoryFits(j) BY DEF IInvExecution
<1>t. /\ current \in Assigned \cup {NoJob} /\ stream \in StreamStep
      /\ handler \in {"announce", "poll", "await", "report", "failing", "upload", "stuck",
                         "free", "down"}
      /\ handler \notin {"free", "down"} => current \in Assigned
      /\ executor \in [Assigned -> ExecutorStep]
      /\ container \in [Assigned -> {"none", "created", "running", "exited", "gone"}]
      /\ exitCode \in [Assigned -> {"none", "zero", "other"}]
      /\ read \in [Assigned -> 0 .. MaxLines]
  BY ExecutionFacts
<1>n. read[j] \in Nat /\ DOMAIN told[j] = 1 .. Len(told[j]) /\ Len(told[j]) \in Nat
  BY <1>0, <1>t, TypesOfTheLog
<1>j. executor[j] = "no" => told[j] = <<>>
  BY DEF IInvExecution, ExecutorFits
<1>x. ExecutorFits(j) BY DEF IInvExecution
<1>d. DOMAIN <<>> = {} OBVIOUS
\* Steps that tell nothing about the job.
<1>1. ASSUME told'[j] = told[j], read'[j] = read[j], holed \subseteq holed',
             executor[j] # "no" => executor'[j] # "no",
             container[j] \in {"exited", "gone"} =>
               exitCode'[j] = exitCode[j] /\ container'[j] \in {"exited", "gone"},
             j = current' => (j = current \/ executor[j] = "no")
                             /\ (handler = "upload" => handler' = "upload" \/ executor[j] = "no")
      PROVE  StoryFits(j)'
  <2>1. LogPlaces(j)' = LogPlaces(j) /\ ToldLines(j)' = ToldLines(j)
    BY <1>1 DEF LogPlaces, ToldLines
  <2>2. \A i \in DOMAIN told[j] : executor[j] # "no" BY <1>d, <1>j
  <2> QED BY <1>0, <1>1, <2>1, <2>2 DEF StoryFits
<1>3. ASSUME NEW a \in Assigned, Assign(a) PROVE StoryFits(j)'
  BY <1>1, <1>3 DEF Assign
<1>4. ASSUME NEW a \in Assigned, Download(a) \/ StartContainer(a) \/ WaitReturns(a) \/ WaitRaises(a)
             \/ RemoveContainer(a)
      PROVE  StoryFits(j)'
  <2>1. /\ UNCHANGED <<told, read, holed, exitCode, current, handler>>
        /\ executor'[j] # "no" \/ executor'[j] = executor[j]
    BY <1>t, <1>4 DEF Download, StartContainer, WaitReturns, WaitRaises, RemoveContainer, Ends
  <2>2. container'[j] \in {container[j], "gone"} \/ executor[j] = "start"
    BY <1>t, <1>4 DEF Download, StartContainer, WaitReturns, WaitRaises, RemoveContainer
  <2>3. executor[j] = "start" => container[j] = "none" BY <1>x DEF ExecutorFits
  <2> QED BY <1>1, <2>1, <2>2, <2>3
<1>5. ASSUME NEW a \in Assigned, ExitProgram(a) PROVE StoryFits(j)'
  <2>1. /\ UNCHANGED <<told, read, holed, executor, current, handler>>
        /\ container[a] = "running"
        /\ \A k \in Assigned : k # a => container'[k] = container[k] /\ exitCode'[k] = exitCode[k]
    BY <1>t, <1>5 DEF ExitProgram
  <2> QED BY <1>1, <2>1
<1>6. ASSUME NEW a \in Assigned, EndReading(a) \/ WriteLine(a) PROVE StoryFits(j)'
  BY <1>1, <1>6 DEF EndReading, WriteLine
<1>7. ASSUME NEW a \in Assigned, ReadLine(a) PROVE StoryFits(j)'
  <2>1. /\ a = current /\ handler = "await"
        /\ UNCHANGED <<told, holed, executor, container, exitCode, current, handler>>
        /\ \A k \in Assigned : k # a => read'[k] = read[k]
        /\ read'[a] = read[a] + 1
    BY <1>0, <1>t, <1>7 DEF ReadLine, Followed, HandlerFits
  <2>2. CASE j # a
    BY <1>1, <2>1, <2>2
  <2>3. CASE j = a
    <3>1. \A i \in DOMAIN told[j] : ~ IsEnd(told[j][i])
      BY <1>0, <2>1, <2>3 DEF StoryFits
    <3>2. LogPlaces(j)' = LogPlaces(j) /\ ToldLines(j)' = ToldLines(j)
      BY <2>1 DEF LogPlaces, ToldLines
    <3>3. ToldLines(j)' \subseteq 1 .. read'[j]
      BY <1>0, <1>n, <2>1, <2>3, <3>2 DEF StoryFits
    <3> QED BY <1>0, <2>1, <3>1, <3>2, <3>3 DEF StoryFits
  <2> QED BY <2>2, <2>3
\* A status that is sent.
<1>8. ASSUME NEW c \in Assigned, current = c, NEW s \in {"running", "completed", "failed"},
             ToBackend(<<[status |-> s, line |-> 0]>>),
             UNCHANGED <<read, holed, container, exitCode>>,
             executor[j] # "no" => executor'[j] # "no",
             current' \in {c, NoJob},
             handler # "upload", s = "running" \/ executor'[c] # "no",
             s = "completed" => exitCode[c] = "zero" /\ container[c] \in {"exited", "gone"},
             s # "running" /\ c \notin holed => 1 .. read[c] \subseteq ToldLines(c),
             s # "running" /\ current' = c => handler' = "upload"
      PROVE  StoryFits(j)'
  <2>1. CASE j # c
    <3>1. told'[j] = told[j] BY <1>0, <1>8, <2>1, TellsStatus
    <3> QED BY <1>1, <1>8, <2>1, <3>1
  <2>2. CASE j = c
    <3>1. /\ LogPlaces(c)' = LogPlaces(c) /\ ToldLines(c)' = ToldLines(c)
          /\ \A i \in LogPlaces(c) : told'[c][i] = told[c][i]
          /\ \A i \in DOMAIN told[c] : told'[c][i] = told[c][i]
          /\ \A i \in DOMAIN told'[c] : i = Len(told'[c]) \/ i \in DOMAIN told[c]
          /\ told'[c][Len(told'[c])].status = s
      BY <1>0, <1>8, TellsStatus
    <3>2. \A i \in DOMAIN told[c] : ~ IsEnd(told[c][i])
      BY <1>0, <1>8, <2>2 DEF StoryFits
    <3>3. \A i \in DOMAIN told'[c] : IsEnd(told'[c][i]) =>
            i = Len(told'[c]) /\ s # "running" /\ told'[c][i].status = s
      BY <3>1, <3>2 DEF IsEnd
    <3>4. \A i, k \in LogPlaces(c)' : i < k => told'[c][i].line < told'[c][k].line
      BY <1>0, <2>2, <3>1 DEF StoryFits
    <3>5. ToldLines(c)' \subseteq 1 .. read'[c]
      BY <1>0, <1>8, <2>2, <3>1 DEF StoryFits
    <3> HIDE DEF IsEnd
    <3> QED BY <1>8, <2>2, <3>1, <3>3, <3>4, <3>5 DEF StoryFits
  <2> QED BY <2>1, <2>2
<1>9. ASSUME Announce PROVE StoryFits(j)'
  <2>1. /\ handler = "announce" /\ UNCHANGED <<current, read, container, exitCode>>
        /\ executor' = [executor EXCEPT ![current] =
                          IF handler' = "poll" THEN "download" ELSE executor[current]]
    BY <1>9 DEF Announce
  <2>2. PICK c \in Assigned : c = current BY <1>t, <2>1
  <2>3. executor[j] # "no" => executor'[j] # "no" BY <1>t, <2>1, <2>2
  <2>4. CASE ToBackend(<<[status |-> "running", line |-> 0]>>) /\ UNCHANGED holed
    BY <1>8, <2>1, <2>2, <2>3, <2>4
  <2>5. CASE holed' = holed \cup {current} /\ UNCHANGED told
    BY <1>1, <2>1, <2>3, <2>5
  <2> QED BY <1>9, <2>4, <2>5 DEF Announce, SendStatus
<1>10. ASSUME Poll \/ PollFails \/ Conclude PROVE StoryFits(j)'
  <2>1. /\ handler # "upload" /\ UNCHANGED <<current, told, read, holed, executor, container, exitCode>>
    BY <1>10 DEF Poll, PollFails, Conclude
  <2> QED BY <1>1, <2>1
\* Before the end is told, every line that was read is.
<1>11. ASSUME NEW c \in Assigned, c = current, handler \in {"report", "failing"}, c \notin holed
       PROVE  1 .. read[c] \subseteq ToldLines(c)
  <2>1. stream \in {"none", "over"} BY <1>0, <1>11 DEF HandlerFits
  <2>2. batch = <<>> /\ queue = <<>> BY <1>0, <2>1 DEF StreamFits
  <2>3. Sending = {} /\ Waiting = {} BY <1>d, <2>2 DEF Sending, Waiting
  <2> QED BY <1>0, <1>11, <2>3 DEF LinesFit
<1>12. ASSUME Report PROVE StoryFits(j)'
  <2>1. /\ handler \in {"report", "failing"} /\ UNCHANGED <<read, executor, container, exitCode>>
        /\ current' = IF handler' = "free" THEN NoJob ELSE current
    BY <1>12 DEF Report
  <2>2. PICK c \in Assigned : c = current BY <1>t, <2>1
  <2>3. executor[c] # "no" BY <1>0, <2>1, <2>2 DEF HandlerFits
  <2>4. handler = "report" /\ verdict = "completed" =>
          exitCode[c] = "zero" /\ container[c] \in {"exited", "gone"}
    <3>1. ExecutorFits(c) BY <2>2 DEF IInvExecution
    <3> QED BY <1>0, <2>2, <3>1 DEF HandlerFits, ExecutorFits
  <2>5. PICK s \in {"completed", "failed"}, then \in {"upload", "free"} :
          /\ SendStatus(s, then)
          /\ s = "completed" => handler = "report" /\ verdict = "completed"
    <3>1. handler = "report" => verdict \in {"completed", "failed"}
      BY <1>0 DEF HandlerFits, ExecutionTypeOK
    <3> QED BY <1>12, <3>1 DEF Report
  <2>6. CASE ToBackend(<<[status |-> s, line |-> 0]>>) /\ handler' = then /\ UNCHANGED holed
    <3>1. c \notin holed => 1 .. read[c] \subseteq ToldLines(c) BY <1>11, <2>1, <2>2
    <3>2. current' \in {c, NoJob} /\ (current' = c => handler' = "upload")
      <4>1. NoJob # c OBVIOUS
      <4> QED BY <2>1, <2>2, <2>5, <2>6, <4>1
    <3> QED BY <1>8, <2>1, <2>2, <2>3, <2>4, <2>5, <2>6, <3>1, <3>2
  <2>7. CASE holed' = holed \cup {current} /\ UNCHANGED told
    <3>1. j = current' => j = current BY <2>1
    <3>2. handler # "upload" BY <2>1
    <3> QED BY <1>1, <2>1, <2>7, <3>1, <3>2
  <2> QED BY <2>5, <2>6, <2>7 DEF SendStatus
<1>13. ASSUME UploadArtifacts PROVE StoryFits(j)'
  BY <1>1, <1>13 DEF UploadArtifacts
\* A message of lines.
<1>14. ASSUME NEW c \in Assigned, current = c, handler = "await", ToBackend(Log(batch)),
              UNCHANGED <<read, holed, executor, container, exitCode, current, handler>>
       PROVE  StoryFits(j)'
  <2>1. CASE j # c
    <3>1. told'[j] = told[j] BY <1>0, <1>14, <2>1, TellsLog
    <3> QED BY <1>1, <1>14, <2>1, <3>1
  <2>2. CASE j = c
    <3> DEFINE n == Len(told[c])
    <3>1. /\ DOMAIN told[c] = 1 .. n /\ n \in Nat
          /\ LogPlaces(c)' = LogPlaces(c) \cup {n + k : k \in DOMAIN batch}
          /\ \A i \in DOMAIN told[c] : told'[c][i] = told[c][i]
          /\ \A k \in DOMAIN batch : told'[c][n + k].line = batch[k]
          /\ \A i \in DOMAIN told'[c] : IsEnd(told'[c][i]) => i \in DOMAIN told[c]
          /\ ToldLines(c)' = ToldLines(c) \cup Sending
      BY <1>0, <1>14, TellsLog
    <3>2. DOMAIN batch = 1 .. Len(batch) /\ Len(batch) \in Nat BY <1>0, TypesOfTheLog
    <3>3. LogPlaces(c) \subseteq 1 .. n /\ \A i \in LogPlaces(c) : told'[c][i] = told[c][i]
      BY <3>1 DEF LogPlaces
    <3>4. /\ \A m \in ToldLines(c), k \in Sending : m < k
          /\ Sending \subseteq 1 .. read[c]
          /\ \A i, k \in DOMAIN batch : i < k => batch[i] < batch[k]
      BY <1>0, <1>14 DEF LinesFit
    <3> HIDE DEF n
    <3>5. \A i, k \in LogPlaces(c)' : i < k => told'[c][i].line < told'[c][k].line
      <4>1. SUFFICES ASSUME NEW i \in LogPlaces(c)', NEW k \in LogPlaces(c)', i < k
                     PROVE  told'[c][i].line < told'[c][k].line
        OBVIOUS
      <4>2. CASE i \in LogPlaces(c) /\ k \in LogPlaces(c)
        <5>1. told[c][i].line < told[c][k].line
          BY <1>0, <2>2, <4>1, <4>2 DEF StoryFits
        <5> QED BY <3>3, <4>2, <5>1
      <4>3. CASE i \in LogPlaces(c) /\ k \notin LogPlaces(c)
        <5>1. PICK b \in DOMAIN batch : k = n + b BY <3>1, <4>1, <4>3
        <5>2. told[c][i].line \in ToldLines(c) BY <4>3 DEF ToldLines
        <5>3. batch[b] \in Sending BY <5>1 DEF Sending
        <5>4. told[c][i].line < batch[b] BY <3>4, <5>2, <5>3
        <5>5. told'[c][k].line = batch[b] BY <3>1, <5>1, Zenon
        <5>6. told'[c][i].line = told[c][i].line BY <3>3, <4>3, Zenon
        <5> QED BY <5>4, <5>5, <5>6, Zenon
      <4>4. CASE i \notin LogPlaces(c) /\ k \in LogPlaces(c)
        <5>1. PICK b \in 1 .. Len(batch) : i = n + b BY <3>1, <3>2, <4>1, <4>4
        <5>2. k \in 1 .. n BY <3>3, <4>4
        <5> QED BY <3>1, <3>2, <4>1, <5>1, <5>2
      <4>5. CASE i \notin LogPlaces(c) /\ k \notin LogPlaces(c)
        <5>1. PICK a \in 1 .. Len(batch) : i = n + a BY <3>1, <3>2, <4>1, <4>5
        <5>2. PICK b \in 1 .. Len(batch) : k = n + b BY <3>1, <3>2, <4>1, <4>5
        <5>3. a < b BY <3>1, <3>2, <4>1, <5>1, <5>2
        <5>4. a \in DOMAIN batch /\ b \in DOMAIN batch BY <3>2, <5>1, <5>2, Zenon
        <5>5. batch[a] < batch[b] BY <3>4, <5>3, <5>4, Zenon
        <5>6. told'[c][i].line = batch[a] /\ told'[c][k].line = batch[b]
          BY <3>1, <5>1, <5>2, <5>4, Zenon
        <5> QED BY <5>5, <5>6, Zenon
      <4> QED BY <4>2, <4>3, <4>4, <4>5
    <3>6. ToldLines(c)' \subseteq 1 .. read'[c]
      BY <1>0, <1>14, <2>2, <3>1, <3>4 DEF StoryFits
    <3>7. \A i \in DOMAIN told'[c] : ~ IsEnd(told'[c][i])
      <4>1. \A i \in DOMAIN told[c] : ~ IsEnd(told[c][i])
        BY <1>0, <1>14, <2>2 DEF StoryFits
      <4> QED BY <3>1, <4>1
    <3> QED BY <1>14, <2>2, <3>5, <3>6, <3>7 DEF StoryFits
  <2> QED BY <2>1, <2>2
<1>15. ASSUME Collect PROVE StoryFits(j)'
  <2>1. /\ handler = "await" /\ UNCHANGED <<read, executor, container, exitCode, current, handler>>
    BY <1>15 DEF Collect
  <2>2. PICK c \in Assigned : c = current BY <1>t, <2>1
  <2>3. CASE ToBackend(Log(batch)) /\ UNCHANGED holed
    BY <1>14, <2>1, <2>2, <2>3
  <2>4. CASE holed \subseteq holed' /\ UNCHANGED told
    BY <1>1, <2>1, <2>4
  <2> QED BY <1>15, <2>3, <2>4 DEF Collect, CancelStream
<1>16. ASSUME Flush PROVE StoryFits(j)'
  <2>1. /\ handler = "await" /\ UNCHANGED <<read, executor, container, exitCode, current, handler>>
    BY <1>0, <1>16 DEF Flush, HandlerFits
  <2>2. PICK c \in Assigned : c = current BY <1>t, <2>1
  <2>3. CASE ToBackend(Log(batch)) /\ UNCHANGED holed
    BY <1>14, <2>1, <2>2, <2>3
  <2>4. CASE holed \subseteq holed' /\ UNCHANGED told
    BY <1>1, <2>1, <2>4
  <2> QED BY <1>16, <2>3, <2>4 DEF Flush
<1>17. ASSUME TakeBatch \/ Wake \/ LoseLink \/ Reconnect PROVE StoryFits(j)'
  <2>1. UNCHANGED <<told, read, holed, executor, container, exitCode, current, handler>>
    BY <1>17 DEF TakeBatch, Wake, LoseLink, Reconnect
  <2> QED BY <1>1, <2>1
<1>18. ASSUME Crash PROVE StoryFits(j)'
  <2>1. /\ current' = NoJob /\ UNCHANGED <<told, read, container, exitCode>>
        /\ holed \subseteq holed' /\ (executor[j] # "no" => executor'[j] # "no")
    BY <1>18 DEF Crash
  <2> QED BY <1>1, <2>1
<1>19. ASSUME Restart PROVE StoryFits(j)'
  <2>1. /\ handler = "down" /\ UNCHANGED <<told, read, holed, executor, container, exitCode, current>>
    BY <1>19 DEF Restart
  <2> QED BY <1>1, <2>1
<1>20. CASE UNCHANGED executionVars
  BY <1>1, <1>20
<1> QED
  BY <1>3, <1>4, <1>5, <1>6, <1>7, <1>9, <1>10, <1>12, <1>13, <1>15, <1>16, <1>17, <1>18,
     <1>19, <1>20 DEF ExecutionNext

LEMMA ExecutionStep ==
  IInvExecution /\ [ExecutionNext]_executionVars => IInvExecution'
<1> SUFFICES ASSUME IInvExecution, [ExecutionNext]_executionVars
             PROVE  IInvExecution'
  OBVIOUS
<1>1. ExecutionTypeOK' BY ExecutionTypes DEF IInvExecution
<1>2. HandlerFits' /\ StreamFits' /\ LinesFit'
  BY HandlerFitsStep, StreamFitsStep, LinesFitStep
<1>3. \A j \in Assigned : ExecutorFits(j)' /\ StoryFits(j)'
  BY ExecutorFitsStep, StoryFitsStep
<1> QED BY <1>1, <1>2, <1>3 DEF IInvExecution

LEMMA ExecutionHolds == IInvExecution => StoryIsTold /\ ProgramsAreMinded
<1> SUFFICES ASSUME IInvExecution
             PROVE  StoryIsTold /\ ProgramsAreMinded
  OBVIOUS
<1>1. StoryIsTold
  <2>1. ASSUME NEW j \in Assigned
        PROVE  /\ \A i, k \in LogPlaces(j) : i < k => told[j][i].line < told[j][k].line
               /\ \A i \in DOMAIN told[j] : IsEnd(told[j][i]) =>
                    /\ i = Len(told[j])
                    /\ told[j][i].status = "completed" => exitCode[j] = "zero"
                    /\ j \notin holed => ToldLines(j) = 1 .. read[j]
    BY DEF IInvExecution, StoryFits
  <2> QED BY <2>1 DEF StoryIsTold, ToldLines
<1>2. ProgramsAreMinded
  BY DEF IInvExecution, ExecutorFits, ProgramsAreMinded
<1> QED BY <1>1, <1>2

LEMMA InvariantExecution == ExecutionSpec => []IInvExecution
  BY ExecutionStart, ExecutionStep, PTL DEF ExecutionSpec

\* The backend hears a job's lines in the order in which the program wrote them,
\* none twice and none missing without a lost message, then the end
\* (LogStreamer.stream, _execute_with_streaming, _handle_assign_job).
THEOREM StoriesAreTold == ExecutionSpec => []StoryIsTold
  BY InvariantExecution, ExecutionHolds, PTL

\* No program runs on after its job was reported or beside another job, unless a
\* Docker call failed or the agent died (_run_container, _handle_assign_job).
THEOREM NoProgramOnItsOwn == ExecutionSpec => []ProgramsAreMinded
  BY InvariantExecution, ExecutionHolds, PTL

HIDE ExecutionAssumption
    DEF handlerVars, dockerVars, logVars, historyVars, executionVars, EndOfLog, Line

-----------------------------------------------------------------------------
(* The part that the behaviour is of (MCDashboards).                       *)

IInvDashboards ==
  /\ part \in {"client", "limits", "provider", "agent"}
  /\ IInvWork /\ IInvQuotas /\ IInvProvider /\ IInvExecution

\* A step is one of the part, and the others stay as they were.
LEMMA OnePartSteps ==
  ASSUME [DashboardsNext]_dashboardsVars
  PROVE  /\ part' = part
         /\ [Next]_vars /\ [QuotaNext]_quotaVars
         /\ [ProviderNext]_providerVars /\ [ExecutionNext]_executionVars
BY DEF DashboardsNext, dashboardsVars

LEMMA InvariantDashboards == DashboardsSpec => []IInvDashboards
<1>1. DashboardsInit => IInvDashboards
  BY WorkStart, QuotaStart, ProviderStart, ExecutionStart DEF DashboardsInit, IInvDashboards
<1>2. IInvDashboards /\ [DashboardsNext]_dashboardsVars => IInvDashboards'
  BY OnePartSteps, WorkStep, QuotaStep, ProviderStep, ExecutionStep DEF IInvDashboards
<1> QED BY <1>1, <1>2, PTL DEF DashboardsSpec

\* The variables of the part that is followed keep their types.
THEOREM DashboardsTypeCorrect == DashboardsSpec => []DashboardsTypeOK
<1>1. IInvDashboards => DashboardsTypeOK
  BY DEF IInvDashboards, DashboardsTypeOK, IInvWork, IInvQuotas, IInvProvider, IInvExecution
<1> QED BY <1>1, InvariantDashboards, PTL

\* Whichever part is followed, what is promised of each holds.
THEOREM DashboardsKeepTheirWord ==
  DashboardsSpec => [](/\ PartsBelongTogether /\ TwiceHasACause
                       /\ QuotasHold /\ PageFollowsTheServer
                       /\ StoryIsTold /\ ProgramsAreMinded)
<1>1. IInvDashboards => /\ PartsBelongTogether /\ TwiceHasACause
                        /\ QuotasHold /\ PageFollowsTheServer
                        /\ StoryIsTold /\ ProgramsAreMinded
  BY WorkHolds, QuotaHolds, ProviderHolds, ExecutionHolds DEF IInvDashboards
<1> QED BY <1>1, InvariantDashboards, PTL
=============================================================================
