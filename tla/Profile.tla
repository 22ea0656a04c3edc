-------------------------------- MODULE Profile --------------------------------
(***************************************************************************)
(* The profile page: pages/Profile.jsx over the copy of the user that      *)
(* context/AuthContext.jsx keeps, and update_me of routers/users.py.       *)
(*                                                                         *)
(* Two forms, each saved with all its fields: the main one (the name and   *)
(* the place) and the handles (two of the four).  0 is an empty field; the *)
(* place "partial" has a country or a city but not both.                   *)
(***************************************************************************)
EXTENDS Naturals

CONSTANTS
  MaxEdits,          \* bound: edits in the forms
  MaxProfileMishaps  \* bound: saves of other devices, sign-ins, answers lost

ASSUME ProfileBounds == MaxEdits \in Nat /\ MaxProfileMishaps \in Nat

VARIABLES
  role,
  stored,      \* the row
  copy,        \* the user of AuthContext
  listed,      \* the list of countries is loaded
  form,        \* what the two forms hold
  editing,     \* the forms that are open
  edited,      \* fields edited since the forms were last filled
  saves,       \* per form, the save under way
  edits, profileMishaps,
  whyStale,     \* history: what may have made the copy differ from the row
  overreached  \* history: a save changed a field that the user had not edited

profileVars == <<role, stored, copy, listed, form, editing, edited, saves, edits,
                 profileMishaps, whyStale, overreached>>

Main == {"name", "place"}
\* The four handles are sent together: one stands for all.
Handles == {"handle"}
Field == Main \cup Handles
Forms == {"main", "handles"}
FieldsOf(f) == IF f = "main" THEN Main ELSE Handles
Partial == 3
Value == 0..3
NoSave == [stage |-> "none"]

ProfileTypeOK ==
  /\ role \in {"client", "provider"}
  /\ stored \in [Field -> Value] /\ copy \in [Field -> Value] /\ form \in [Field -> Value]
  /\ listed \in BOOLEAN
  /\ editing \subseteq Forms /\ edited \subseteq Field
  /\ DOMAIN saves = Forms
  /\ \A f \in Forms : saves[f].stage \in {"none", "sent", "saved"}
  /\ edits \in 0..MaxEdits /\ profileMishaps \in 0..MaxProfileMishaps
  /\ whyStale \subseteq {"signin", "elsewhere", "unheard", "crossed"}
  /\ overreached \in BOOLEAN

\* The forms of a user: without the list of countries the country is empty.
Filled(user, list) ==
  [user EXCEPT !["place"] = IF @ # 0 /\ ~list THEN Partial ELSE @]

\* The effect on the user and the countries fills both forms.
Fills(user, list) == form' = Filled(user, list) /\ edited' = {}

ProfileInit ==
  /\ role \in {"client", "provider"}
  /\ stored \in {[name |-> 1, place |-> p, handle |-> 1] : p \in {0, 1}}
  /\ role = "provider" => stored["place"] # 0
  /\ copy = stored /\ listed = FALSE
  /\ form = Filled(stored, FALSE) /\ editing = {} /\ edited = {}
  /\ saves = [f \in Forms |-> NoSave]
  /\ edits = 0 /\ profileMishaps = 0 /\ whyStale = {} /\ overreached = FALSE

ProfileMishap == profileMishaps < MaxProfileMishaps /\ profileMishaps' = profileMishaps + 1

-----------------------------------------------------------------------------
(* The page.                                                               *)

CountriesArrive ==
  /\ ~listed /\ listed' = TRUE
  /\ Fills(copy, TRUE)
  /\ UNCHANGED <<role, stored, copy, editing, saves, edits, profileMishaps, whyStale,
                 overreached>>

OpenForm(f) ==
  /\ f \notin editing /\ editing' = editing \cup {f}
  /\ UNCHANGED <<role, stored, copy, listed, form, edited, saves, edits,
                 profileMishaps, whyStale, overreached>>

Edits(field, v) ==
  /\ edits < MaxEdits /\ edits' = edits + 1
  /\ form[field] # v
  /\ form' = [form EXCEPT ![field] = v]
  /\ edited' = edited \cup {field}
  /\ UNCHANGED <<role, stored, copy, listed, editing, saves, profileMishaps, whyStale,
                 overreached>>

EditMain(v) ==
  /\ "main" \in editing
  /\ \/ v \in 1..2 /\ Edits("name", v)
     \/ listed /\ Edits("place", v)

EditHandles(v) ==
  /\ "handles" \in editing /\ v \in 0..1
  /\ Edits("handle", v)

Closes(f) ==
  /\ f \in editing /\ editing' = editing \ {f}
  /\ form' = [x \in Field |-> IF x \in FieldsOf(f) THEN Filled(copy, listed)[x] ELSE form[x]]
  /\ edited' = edited \ FieldsOf(f)
  /\ UNCHANGED <<role, stored, copy, listed, saves, edits, profileMishaps, whyStale,
                 overreached>>

\* Variation: the form keeps what was typed.
CancelMainKeeps ==
  /\ "main" \in editing /\ editing' = editing \ {"main"}
  /\ edited' = edited \ Main
  /\ UNCHANGED <<role, stored, copy, listed, form, saves, edits, profileMishaps,
                 whyStale, overreached>>

CancelMain == Closes("main")

CancelHandles == Closes("handles")

Send(f, payload) ==
  /\ f \in editing /\ saves[f].stage = "none"
  /\ saves' = [saves EXCEPT ![f] =
       [stage |-> "sent", payload |-> payload, edited |-> edited, listed |-> listed]]
  /\ UNCHANGED <<role, stored, copy, listed, form, editing, edited, edits,
                 profileMishaps, whyStale, overreached>>

\* A place that is not complete is refused to a provider, and empties the
\* location of a client.
SaveMain ==
  /\ role = "provider" => form["place"] \in 1..2
  /\ Send("main", [name |-> form["name"],
                   place |-> IF form["place"] = Partial THEN 0 ELSE form["place"]])

SaveHandles ==
  Send("handles", [handle |-> form["handle"]])

\* The answer holds the whole user; the page closes the form.
Saved(f) ==
  /\ saves[f].stage = "saved"
  /\ copy' = saves[f].user
  /\ Fills(copy', listed)
  /\ editing' = editing \ {f}
  /\ saves' = [saves EXCEPT ![f] = NoSave]
  /\ whyStale' = IF copy' = stored THEN whyStale ELSE whyStale \cup {"crossed"}
  /\ UNCHANGED <<role, stored, listed, edits, profileMishaps, overreached>>

\* The save fails, or its answer is lost: the form stays open.
SaveFails(f) ==
  /\ ProfileMishap
  /\ saves[f].stage # "none"
  /\ whyStale' = IF saves[f].stage = "saved" THEN whyStale \cup {"unheard"} ELSE whyStale
  /\ saves' = [saves EXCEPT ![f] = NoSave]
  /\ UNCHANGED <<role, stored, copy, listed, form, editing, edited, edits, overreached>>

-----------------------------------------------------------------------------
(* The server and the session.                                             *)

\* update_me sets the fields of the payload.
Update(f) ==
  /\ saves[f].stage = "sent"
  /\ LET s == saves[f]
         new == [x \in Field |-> IF x \in DOMAIN s.payload THEN s.payload[x] ELSE stored[x]]
     IN /\ stored' = new
        /\ saves' = [saves EXCEPT ![f] = [stage |-> "saved", user |-> new]]
        /\ overreached' =
             (overreached \/ /\ whyStale = {}
                             /\ \E x \in Field \ s.edited :
                                  /\ new[x] # stored[x]
                                  /\ x = "place" => s.listed)
  /\ UNCHANGED <<role, copy, listed, form, editing, edited, edits, profileMishaps, whyStale>>

\* Another device saves a field.
SavedElsewhere(x) ==
  /\ ProfileMishap
  /\ \E v \in IF x = "name" THEN 1..2 ELSE IF x = "place" THEN 1..2 ELSE 0..1 :
       v # stored[x] /\ stored' = [stored EXCEPT ![x] = v]
  /\ whyStale' = whyStale \cup {"elsewhere"}
  /\ UNCHANGED <<role, copy, listed, form, editing, edited, saves, edits, overreached>>

\* The page is left and opened again, with the user from getMe, or, after a
\* sign-in, with one whose handles and location the answer of login left out.
Reopened(user) ==
  /\ \A f \in Forms : saves[f].stage = "none"
  /\ copy' = user /\ listed' = FALSE
  /\ Fills(user, FALSE) /\ editing' = {}
  /\ UNCHANGED <<role, stored, saves, edits, overreached>>

ReloadProfile ==
  Reopened(stored) /\ whyStale' = {} /\ UNCHANGED profileMishaps

SignIn ==
  /\ ProfileMishap
  /\ Reopened([stored EXCEPT !["place"] = 0, !["handle"] = 0])
  /\ whyStale' = {"signin"}

ProfileNext ==
  \/ CountriesArrive \/ CancelMain \/ CancelHandles \/ SaveMain \/ SaveHandles
  \/ \E f \in Forms : OpenForm(f) \/ Saved(f) \/ SaveFails(f) \/ Update(f)
  \/ \E v \in Value : EditMain(v) \/ EditHandles(v)
  \/ \E x \in Field : SavedElsewhere(x)
  \/ ReloadProfile \/ SignIn

ProfileSpec == ProfileInit /\ [][ProfileNext]_profileVars

-----------------------------------------------------------------------------
(* Properties.                                                             *)

\* A save changes a field that the user did not edit only after a sign-in (its
\* answer leaves out what the forms then take for empty), a save on another
\* device, an answer that was lost or overtaken, or, for the location, before
\* the countries were listed: update_me changes "only provided fields", and
\* the forms provide them all.
SaveKeepsTheRest == ~overreached
=============================================================================
