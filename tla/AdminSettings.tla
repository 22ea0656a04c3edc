----------------------------- MODULE AdminSettings -----------------------------
(***************************************************************************)
(* The settings' tab of pages/AdminDashboard.jsx with routers/admin.py     *)
(* (get_system_settings, update_system_settings, upload_agent_release):    *)
(* the overdraft limit, and the release of the agent, whose file goes to   *)
(* the object store before its row is written.                             *)
(*                                                                         *)
(* All three read the row "default" and commit: they insert the row if     *)
(* they read none, which fails if another one did so first, and else write *)
(* the columns whose value is not the one they read.                       *)
(***************************************************************************)
EXTENDS Naturals

CONSTANTS
  Window,      \* the administrators' pages
  Version,     \* versions of the agent
  Default,     \* the limit -50
  Limits,      \* other limits that can be saved
  Blank,       \* an empty field, or a 0 in it
  Nobody,      \* no version, no request
  MaxReleases, \* bound: releases published
  MaxSaves,    \* bound: limits saved
  MaxFailures  \* bound: requests that fail, processes that die

ASSUME SettingsBounds ==
  MaxReleases \in Nat /\ MaxSaves \in Nat /\ MaxFailures \in Nat

VARIABLES
  settings,    \* the row of system_settings; exists says whether it is there
  objects,     \* per version, the release whose file the store holds, or 0
  asking,      \* per window, the request for the settings
  saving,      \* per window, the limit under way
  publishing,  \* per window, the release under way
  releases, savedLimits, failures,
  lastSaved,   \* history: the limit of the last save that succeeded
  raced,       \* history: two saves overlapped
  tangled      \* history: two releases overlapped, or one stopped half way

settingsVars == <<settings, objects, asking, saving, publishing, releases,
                  savedLimits, failures, lastSaved, raced, tangled>>

Limit == {Default} \cup Limits
SettingsRow == [exists : BOOLEAN, limit : Limit, version : Version \cup {Nobody},
                notes : 0..MaxReleases]
Save == [to : Limit, saw : {Nobody} \cup SettingsRow]
Release == [id : 1..MaxReleases, version : Version, stored : BOOLEAN,
            saw : {Nobody} \cup SettingsRow]

ASSUME NobodyIsNone == Nobody \notin Save \cup Release

SettingsTypeOK ==
  /\ settings \in SettingsRow
  /\ objects \in [Version -> 0..MaxReleases]
  /\ asking \in [Window -> {"sent", "missing", "done"}]
  /\ saving \in [Window -> {Nobody} \cup Save]
  /\ publishing \in [Window -> {Nobody} \cup Release]
  /\ releases \in 0..MaxReleases /\ savedLimits \in 0..MaxSaves
  /\ failures \in 0..MaxFailures
  /\ lastSaved \in Limit /\ raced \in BOOLEAN /\ tangled \in BOOLEAN

SettingsInit ==
  /\ settings = [exists |-> FALSE, limit |-> Default, version |-> Nobody, notes |-> 0]
  /\ objects = [v \in Version |-> 0]
  /\ asking = [w \in Window |-> "sent"]
  /\ saving = [w \in Window |-> Nobody] /\ publishing = [w \in Window |-> Nobody]
  /\ releases = 0 /\ savedLimits = 0 /\ failures = 0
  /\ lastSaved = Default /\ raced = FALSE /\ tangled = FALSE

Failure == failures < MaxFailures /\ failures' = failures + 1

\* The commit of a handler that read saw and set its columns.
Inserts(saw) == ~saw.exists
Conflicts(saw) == Inserts(saw) /\ settings.exists
Column(name, saw, value) ==
  IF Inserts(saw) \/ value # saw[name] THEN value ELSE settings[name]

-----------------------------------------------------------------------------
(* The settings are asked for when the page is mounted.                    *)

ReadSettings(w) ==
  /\ asking[w] = "sent"
  /\ asking' = [asking EXCEPT ![w] = IF settings.exists THEN "done" ELSE "missing"]
  /\ UNCHANGED <<settings, objects, saving, publishing, releases, savedLimits,
                 failures, lastSaved, raced, tangled>>

InsertSettings(w) ==
  /\ asking[w] = "missing"
  /\ asking' = [asking EXCEPT ![w] = "done"]
  /\ settings' = [settings EXCEPT !.exists = TRUE]
  /\ UNCHANGED <<objects, saving, publishing, releases, savedLimits, failures,
                 lastSaved, raced, tangled>>

SettingsFail(w) ==
  /\ Failure
  /\ asking[w] = "sent" /\ asking' = [asking EXCEPT ![w] = "done"]
  /\ UNCHANGED <<settings, objects, saving, publishing, releases, savedLimits,
                 lastSaved, raced, tangled>>

-----------------------------------------------------------------------------
(* The overdraft limit.                                                    *)

\* Variation: an empty field is sent as it is.
SentAsShown(shown) == shown

\* parseInt(overdraftLimit) || -50: an empty field and a zero are -50.
Sent(typed) == IF typed = Blank THEN Default ELSE typed

\* handleSaveSettings, with what the field shows, typed or as it came; the button is disabled until the answer.
SaveLimit(w, typed) ==
  /\ saving[w] = Nobody /\ savedLimits < MaxSaves
  /\ savedLimits' = savedLimits + 1
  /\ saving' = [saving EXCEPT ![w] = [to |-> Sent(typed), saw |-> Nobody]]
  /\ raced' = (raced \/ \E x \in Window : saving[x] # Nobody)
  /\ UNCHANGED <<settings, objects, asking, publishing, releases, failures, lastSaved,
                 tangled>>

ReadLimit(w) ==
  /\ saving[w] # Nobody /\ saving[w].saw = Nobody
  /\ saving' = [saving EXCEPT ![w].saw = settings]
  /\ UNCHANGED <<settings, objects, asking, publishing, releases, savedLimits, failures,
                 lastSaved, raced, tangled>>

CommitLimit(w) ==
  /\ saving[w] # Nobody /\ saving[w].saw # Nobody
  /\ LET to == saving[w].to  saw == saving[w].saw IN
       IF Conflicts(saw) THEN UNCHANGED <<settings, lastSaved>>
       ELSE /\ settings' = [settings EXCEPT !.exists = TRUE, !.limit = Column("limit", saw, to)]
            /\ lastSaved' = to
  /\ saving' = [saving EXCEPT ![w] = Nobody]
  /\ UNCHANGED <<objects, asking, publishing, releases, savedLimits, failures,
                 raced, tangled>>

-----------------------------------------------------------------------------
(* The release of the agent.                                               *)

\* handleAgentUpload: one release at a time from a window.
Publish(w, v) ==
  /\ publishing[w] = Nobody /\ releases < MaxReleases
  /\ publishing' = [publishing EXCEPT ![w] =
       [id |-> releases + 1, version |-> v, stored |-> FALSE, saw |-> Nobody]]
  /\ releases' = releases + 1
  /\ tangled' = (tangled \/ \E x \in Window : publishing[x] # Nobody)
  /\ UNCHANGED <<settings, objects, asking, saving, savedLimits, failures, lastSaved,
                 raced>>

\* POST, or PUT over the object that has the version's name.
StoreFile(w) ==
  /\ publishing[w] # Nobody /\ ~publishing[w].stored
  /\ objects' = [objects EXCEPT ![publishing[w].version] = publishing[w].id]
  /\ publishing' = [publishing EXCEPT ![w].stored = TRUE]
  /\ UNCHANGED <<settings, asking, saving, releases, savedLimits, failures, lastSaved,
                 raced, tangled>>

\* 502: neither request is accepted.
StoreFails(w) ==
  /\ Failure
  /\ publishing[w] # Nobody /\ ~publishing[w].stored
  /\ publishing' = [publishing EXCEPT ![w] = Nobody]
  /\ UNCHANGED <<settings, objects, asking, saving, releases, savedLimits, lastSaved,
                 raced, tangled>>

ReadRelease(w) ==
  /\ publishing[w] # Nobody /\ publishing[w].stored /\ publishing[w].saw = Nobody
  /\ publishing' = [publishing EXCEPT ![w].saw = settings]
  /\ UNCHANGED <<settings, objects, asking, saving, releases, savedLimits, failures,
                 lastSaved, raced, tangled>>

\* Variation: every column of the row is written back.
ReleasedRowWhole(p) ==
  [p.saw EXCEPT !.exists = TRUE, !.version = p.version, !.notes = p.id]

\* agent_version, agent_patch_notes and agent_download_url are set.
ReleasedRow(p) ==
  [settings EXCEPT !.exists = TRUE,
              !.version = Column("version", p.saw, p.version),
              !.notes = Column("notes", p.saw, p.id)]

CommitRelease(w) ==
  /\ publishing[w] # Nobody /\ publishing[w].saw # Nobody
  /\ LET p == publishing[w] IN
       IF Conflicts(p.saw) THEN UNCHANGED settings /\ tangled' = TRUE
       ELSE settings' = ReleasedRow(p) /\ UNCHANGED tangled
  /\ publishing' = [publishing EXCEPT ![w] = Nobody]
  /\ UNCHANGED <<objects, asking, saving, releases, savedLimits, failures,
                 lastSaved, raced>>

\* The process dies, or the store's answer is lost, after the file is stored.
PublishDies(w) ==
  /\ Failure
  /\ publishing[w] # Nobody /\ publishing[w].stored
  /\ publishing' = [publishing EXCEPT ![w] = Nobody]
  /\ tangled' = TRUE
  /\ UNCHANGED <<settings, objects, asking, saving, releases, savedLimits, lastSaved,
                 raced>>

SettingsNext ==
  \E w \in Window :
    \/ ReadSettings(w) \/ InsertSettings(w) \/ SettingsFail(w)
    \/ \E typed \in Limit \cup {Blank} : SaveLimit(w, typed)
    \/ ReadLimit(w) \/ CommitLimit(w)
    \/ \E v \in Version : Publish(w, v)
    \/ StoreFile(w) \/ StoreFails(w) \/ ReadRelease(w) \/ CommitRelease(w) \/ PublishDies(w)

SettingsSpec == SettingsInit /\ [][SettingsNext]_settingsVars

-----------------------------------------------------------------------------
(* Properties.                                                             *)

\* The notes of the row are those of the release whose version it names, and
\* the file under that version is that release's, unless releases overlapped,
\* one died between the file and the row, or one is under way.
ReleaseIsWhole ==
  settings.version # Nobody /\ ~tangled /\ (\A w \in Window : publishing[w] = Nobody) =>
    objects[settings.version] = settings.notes

\* The limit is the one that was saved last, whatever releases and inserts of
\* the row were under way, unless two saves overlapped.
SavedLimitHolds == ~raced => settings.limit = lastSaved

\* Neither of the two requests that share the row undoes the other's columns.
SettingsKept == ReleaseIsWhole /\ SavedLimitHolds
=============================================================================
