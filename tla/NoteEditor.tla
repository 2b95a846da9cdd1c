----------------------------- MODULE NoteEditor -----------------------------
(***************************************************************************)
(* The note editor of one page: its form, its autosave timer, the requests *)
(* it has under way, which reach the server in any order, and the notes    *)
(* they read and write.                                                    *)
(*                                                                         *)
(* Abstractions.  What the form shows, title, tags and body alike, is a    *)
(* text: the document the user means it to be, and how many edits made it. *)
(* Documents are numbered as the forms for them are opened; the notes that *)
(* exist at the start are a document each.  Nobody else writes the notes.  *)
(* What apiFetch does about a 401 is the matter of Sessions.               *)
(***************************************************************************)
EXTENDS Integers, FiniteSets

CONSTANTS
  Request,       \* requests the page can have under way
  None,          \* no note, no text, no request
  Existing,      \* notes there are at the start
  MaxNotes,      \* bound on the notes
  MaxDocuments,  \* bound on the documents
  MaxEdits,      \* bound on the edits
  MaxErrors      \* bound on requests that fail

ASSUME NoteEditorAssumption ==
  /\ None \notin Nat
  /\ Existing \in Nat /\ MaxEdits \in Nat /\ MaxErrors \in Nat
  /\ MaxNotes \in Nat /\ Existing <= MaxNotes
  /\ MaxDocuments \in Nat /\ Existing <= MaxDocuments

VARIABLES
  notes,      \* the text of each note in the database; None if there is none
  created,    \* the last id given to a note
  field,      \* current-note-id
  text,       \* what the form shows
  shown,      \* the form is visible
  timer,      \* autoSaveTimeout is set
  stage,      \* where each request is
  what,       \* what each request is for
  documents,  \* the last document a form was opened for
  edits,
  strayed,    \* history: notes whose id came to another document's form
  doubled,    \* history: documents created again with a creation under way
              \* or after a failed one
  crossed,    \* history: since the form was filled, two saves overlapped, a
              \* save crossed the filling, or a request failed
  errors

database == <<notes, created>>
form     == <<field, text, shown, timer>>
requests == <<stage, what>>
counters == <<documents, edits, errors>>
history  == <<strayed, doubled, crossed>>
vars     == <<database, form, requests, counters, history>>

Note == 1 .. MaxNotes
Document == 1 .. MaxDocuments
Text == [doc : Document, edit : 0 .. MaxEdits]

\* alone: no save has been under way since the note was asked for.
Purpose ==
  [kind : {"create", "update", "open", "delete"},
   note : Note \cup {None}, text : Text \cup {None}, alone : BOOLEAN]

ASSUME NoneAssumption == None \notin Text /\ None \notin Purpose

Init ==
  /\ notes = [n \in Note |-> IF n <= Existing THEN [doc |-> n, edit |-> 0] ELSE None]
  /\ created = Existing /\ documents = Existing
  /\ field = None /\ text = None /\ shown = FALSE /\ timer = FALSE
  /\ stage = [r \in Request |-> "free"] /\ what = [r \in Request |-> None]
  /\ edits = 0 /\ errors = 0
  /\ strayed = {} /\ doubled = {} /\ crossed = FALSE
-----------------------------------------------------------------------------
Busy(kinds) == {r \in Request : stage[r] # "free" /\ what[r].kind \in kinds}

Saving == Busy({"create", "update"})

To(kind, n, t) ==
  [kind |-> kind, note |-> n, text |-> t, alone |-> kind = "open" /\ Saving = {}]

Send(r, purpose) ==
  /\ stage[r] = "free" /\ stage' = [stage EXCEPT ![r] = "sent"]
  /\ what' = [what EXCEPT ![r] = purpose]

End(r) ==
  /\ stage' = [stage EXCEPT ![r] = "free"]
  /\ what' = [what EXCEPT ![r] = None]

\* saveNote, up to its request: it reads the form as it is now.
Save(r) ==
  LET creating == {q \in Busy({"create"}) : what[q].text.doc = text.doc} IN
  /\ stage[r] = "free" /\ stage' = [stage EXCEPT ![r] = "sent"]
  /\ what' = [q \in Request |->
       IF q = r THEN To(IF field = None THEN "create" ELSE "update", field, text)
       ELSE IF what[q] = None THEN None
       ELSE [what[q] EXCEPT !.alone = FALSE]]
  /\ doubled' = IF field = None /\ creating # {} THEN doubled \cup {text.doc}
                                                 ELSE doubled
  /\ crossed' = (crossed \/ Saving # {})
-----------------------------------------------------------------------------
(* The page.                                                               *)

\* Variant: the id of the note is set before its text is there.
SelectAtOnce(r, n) ==
  /\ notes[n] # None
  /\ Send(r, To("open", n, None))
  /\ field' = n
  /\ UNCHANGED <<database, text, shown, timer, counters, history>>

\* selectNote, of a note in the catalog.
Select(r, n) ==
  /\ notes[n] # None
  /\ Send(r, To("open", n, None))
  /\ UNCHANGED <<database, form, counters, history>>

\* openNewNoteForm; an autosave that is due stays due.
OpenNew ==
  /\ documents < MaxDocuments /\ documents' = documents + 1
  /\ field' = None /\ text' = [doc |-> documents + 1, edit |-> 0] /\ shown' = TRUE
  /\ crossed' = (Saving # {})
  /\ UNCHANGED <<database, timer, requests, edits, errors, strayed, doubled>>

\* Variant: no autosave is scheduled while a save is under way.
TypeUnlessSaving ==
  /\ shown /\ edits < MaxEdits /\ edits' = edits + 1
  /\ text' = [text EXCEPT !.edit = edits + 1]
  /\ timer' = (timer \/ Saving = {})
  /\ UNCHANGED <<database, field, shown, requests, documents, errors, history>>

\* An input in the body: triggerAutoSave.
Type ==
  /\ shown /\ edits < MaxEdits /\ edits' = edits + 1
  /\ text' = [text EXCEPT !.edit = edits + 1] /\ timer' = TRUE
  /\ UNCHANGED <<database, field, shown, requests, documents, errors, history>>

\* The timer runs out, whatever the form shows by then.
AutoSave(r) ==
  /\ timer /\ timer' = FALSE /\ Save(r)
  /\ UNCHANGED <<database, field, text, shown, counters, strayed>>

\* The Save button, or a change of the title or the tags.
SaveNow(r) ==
  /\ shown /\ Save(r)
  /\ UNCHANGED <<database, form, counters, strayed>>

\* deleteCurrentNote, of a note that has an id.
Delete(r) ==
  /\ shown /\ field # None
  /\ Send(r, To("delete", field, None))
  /\ UNCHANGED <<database, form, counters, history>>
-----------------------------------------------------------------------------
(* The server.                                                             *)

Served(r) == stage[r] = "sent" /\ stage' = [stage EXCEPT ![r] = "served"]

Refuse(r) == stage[r] = "sent" /\ stage' = [stage EXCEPT ![r] = "failed"]

ServeCreate(r) ==
  /\ what[r].kind = "create" /\ Served(r)
  /\ created < MaxNotes /\ created' = created + 1
  /\ notes' = [notes EXCEPT ![created + 1] = what[r].text]
  /\ what' = [what EXCEPT ![r].note = created + 1]

\* 404 if the note has been deleted, here as below.
ServeUpdate(r) ==
  /\ what[r].kind = "update" /\ UNCHANGED <<what, created>>
  /\ \/ /\ notes[what[r].note] # None /\ Served(r)
        /\ notes' = [notes EXCEPT ![what[r].note] = what[r].text]
     \/ notes[what[r].note] = None /\ Refuse(r) /\ UNCHANGED notes

ServeOpen(r) ==
  /\ what[r].kind = "open" /\ UNCHANGED database
  /\ \/ /\ notes[what[r].note] # None /\ Served(r)
        /\ what' = [what EXCEPT ![r].text = notes[what[r].note]]
     \/ notes[what[r].note] = None /\ Refuse(r) /\ UNCHANGED what

ServeDelete(r) ==
  /\ what[r].kind = "delete" /\ UNCHANGED <<what, created>>
  /\ \/ /\ notes[what[r].note] # None /\ Served(r)
        /\ notes' = [notes EXCEPT ![what[r].note] = None]
     \/ notes[what[r].note] = None /\ Refuse(r) /\ UNCHANGED notes

Serve(r) ==
  /\ stage[r] = "sent"
  /\ ServeCreate(r) \/ ServeUpdate(r) \/ ServeOpen(r) \/ ServeDelete(r)
  /\ UNCHANGED <<form, counters, history>>
-----------------------------------------------------------------------------
(* The answers.                                                            *)

\* Variant: the page does not keep the id of the new note.
SavedForgotten(r) ==
  /\ stage[r] = "served" /\ what[r].kind \in {"create", "update"} /\ End(r)
  /\ UNCHANGED <<database, form, counters, history>>

\* Of a save: a new note's id goes to the form, whatever that shows by now.
Saved(r) ==
  /\ stage[r] = "served" /\ what[r].kind \in {"create", "update"} /\ End(r)
  /\ \/ /\ what[r].kind = "create" /\ field' = what[r].note
        /\ strayed' = IF text.doc = what[r].text.doc THEN strayed
                       ELSE strayed \cup {what[r].note}
     \/ what[r].kind = "update" /\ UNCHANGED <<field, strayed>>
  /\ UNCHANGED <<database, text, shown, timer, counters, doubled, crossed>>

\* Of selectNote: id and text together; what the form had is gone.
Opened(r) ==
  /\ stage[r] = "served" /\ what[r].kind = "open" /\ End(r)
  /\ field' = what[r].note /\ text' = what[r].text /\ shown' = TRUE
  /\ crossed' = ~ what[r].alone
  /\ UNCHANGED <<database, timer, counters, strayed, doubled>>

\* Of deleteCurrentNote: the form is hidden, its fields stay.
Deleted(r) ==
  /\ stage[r] = "served" /\ what[r].kind = "delete" /\ End(r)
  /\ shown' = FALSE
  /\ UNCHANGED <<database, field, text, timer, counters, history>>

\* An error: it is logged, and nothing else.
Failed(r) ==
  /\ stage[r] = "failed" /\ End(r) /\ crossed' = TRUE
  /\ doubled' = IF what[r].kind = "create" THEN doubled \cup {what[r].text.doc}
                                           ELSE doubled
  /\ UNCHANGED <<database, form, counters, strayed>>

\* A request or its answer is lost, or the server answers 500.
Fail(r) ==
  /\ errors < MaxErrors /\ errors' = errors + 1
  /\ stage[r] \in {"sent", "served"} /\ stage' = [stage EXCEPT ![r] = "failed"]
  /\ UNCHANGED <<database, form, what, documents, edits, history>>
-----------------------------------------------------------------------------
Answered(r) == Saved(r) \/ Opened(r) \/ Deleted(r) \/ Failed(r)

Next ==
  \/ OpenNew \/ Type
  \/ \E r \in Request :
       \/ \E n \in Note : Select(r, n)
       \/ AutoSave(r) \/ SaveNow(r) \/ Delete(r)
       \/ Serve(r) \/ Answered(r) \/ Fail(r)

Spec == Init /\ [][Next]_vars
-----------------------------------------------------------------------------
TypeOK ==
  /\ notes \in [Note -> Text \cup {None}]
  /\ created \in Existing .. MaxNotes /\ documents \in Existing .. MaxDocuments
  /\ \A n \in Note : notes[n] # None => n <= created
  /\ field \in Note \cup {None} /\ text \in Text \cup {None}
  /\ shown \in BOOLEAN /\ timer \in BOOLEAN
  /\ shown \/ timer \/ field # None \/ Saving # {} => text # None
  /\ stage \in [Request -> {"free", "sent", "served", "failed"}]
  /\ what \in [Request -> Purpose \cup {None}]
  /\ \A r \in Request :
       /\ stage[r] = "free" <=> what[r] = None
       /\ what[r] # None =>
            /\ what[r].kind # "create" \/ stage[r] = "served" => what[r].note # None
            /\ what[r].text = None =>
                 \/ what[r].kind = "delete"
                 \/ what[r].kind = "open" /\ stage[r] # "served"
  /\ edits \in 0 .. MaxEdits /\ errors \in 0 .. MaxErrors
  /\ strayed \subseteq Note /\ doubled \subseteq Document /\ crossed \in BOOLEAN

\* However the saves, the openings and the timer interleave, a note is never
\* overwritten with another document, unless the answer to its creation
\* came when the form showed another document already.
NotesKeepTheirDocument ==
  [][\A n \in Note :
       notes[n] # None /\ notes'[n] # None /\ notes[n].doc # notes'[n].doc
         => n \in strayed]_vars

\* And a document is in one note only, unless it was saved anew while its
\* creation was under way, or after one that failed, or one of the notes
\* had its id go astray.
OneNotePerDocument ==
  \A m, n \in Note :
    notes[m] # None /\ notes[n] # None /\ notes[m].doc = notes[n].doc
      => m = n \/ {m, n} \cap strayed # {} \/ notes[n].doc \in doubled

\* When nothing is due or under way, what the form shows is what its note
\* holds, and an edited document has a note: unless saves crossed each
\* other, or the form's filling, or a request failed, or the note's id had
\* gone astray.
AutoSaved ==
  shown /\ ~ timer /\ (\A r \in Request : stage[r] = "free")
    /\ ~ crossed
  => /\ field # None => notes[field] \in {text, None} \/ field \in strayed
     /\ field = None => text.edit = 0
=============================================================================
