--------------------------- MODULE NoteEditorProofs ---------------------------
(***************************************************************************)
(* What NoteEditor promises, proved for any number of requests, notes and  *)
(* documents.                                                              *)
(*                                                                         *)
(* RefInv: whoever is going to write a note, the form or a request, holds  *)
(* the document the note holds, or the note's id went astray.  DocInv: a   *)
(* document is created by one request only, or is known as doubled; the    *)
(* form that has no id is on a document that is in no note, or the request *)
(* creating it is under way.  FormInv: as long as nothing crossed, one     *)
(* save at most is under way, it is of the form's document, and holds what *)
(* the form shows, or the timer is set.                                    *)
(***************************************************************************)
EXTENDS NoteEditor, TLAPS

Live(n, d) == notes[n] # None /\ notes[n].doc = d

Keeps(n, t) ==
  n <= created /\ (notes[n] # None /\ notes[n].doc # t.doc => n \in strayed)

RefInv ==
  /\ field # None => Keeps(field, text)
  /\ \A r \in Request : what[r] # None =>
       /\ what[r].kind # "create" => what[r].note # None
       /\ what[r].kind = "create" /\ stage[r] = "sent" => what[r].note = None
       /\ what[r].note # None => what[r].note <= created
       /\ what[r].note # None /\ what[r].text # None => Keeps(what[r].note, what[r].text)

Creates(r, d) == what[r] # None /\ what[r].kind = "create" /\ what[r].text.doc = d

DocInv ==
  /\ \A n \in Note : notes[n] # None => notes[n].doc <= documents
  /\ text # None => text.doc <= documents
  /\ \A r \in Request : what[r] # None /\ what[r].text # None => what[r].text.doc <= documents
  /\ \A r \in Request, d \in Document, n \in Note :
       Creates(r, d) /\ stage[r] = "sent" /\ Live(n, d) => n \in strayed \/ d \in doubled
  /\ \A q, r \in Request, d \in Document :
       Creates(q, d) /\ Creates(r, d) => q = r \/ d \in doubled
  /\ field = None /\ text # None =>
       \A n \in Note : Live(n, text.doc) =>
         n \in strayed \/ text.doc \in doubled \/ \E r \in Request : Creates(r, text.doc)

Holds(n, t) == notes[n] \in {t, None} \/ n \in strayed

Own(r) ==
  /\ what[r].text.doc = text.doc /\ (~ timer => what[r].text = text)
  /\ what[r].kind = "create" => field = None
  /\ what[r].kind = "update" => field = what[r].note
  /\ stage[r] = "served" => Holds(what[r].note, what[r].text)

Clean ==
  /\ field # None => Holds(field, text)
  /\ field = None => text.edit = 0

FormInv ==
  /\ \A r \in Request : what[r] # None /\ what[r].kind = "open" /\ what[r].alone =>
       Saving = {} /\ (what[r].text # None => Holds(what[r].note, what[r].text))
  /\ ~ crossed =>
       /\ \A q, r \in Saving : q = r
       /\ \A r \in Saving : Own(r)
       /\ Saving = {} /\ ~ timer /\ text # None => Clean

-----------------------------------------------------------------------------
(* Types.                                                                  *)

USE DEF Note, Document

\* Whoever reads a request reads a purpose.
LEMMA Purposes ==
  ASSUME TypeOK, NEW r \in Request, what[r] # None
  PROVE  /\ what[r] \in Purpose
         /\ what[r].kind \in {"create", "update", "open", "delete"}
         /\ what[r].note \in Note \cup {None} /\ what[r].text \in Text \cup {None}
         /\ what[r].alone \in BOOLEAN
BY DEF TypeOK, Purpose

\* To makes a purpose.
LEMMA ToIsPurpose ==
  ASSUME NEW kind \in {"create", "update", "open", "delete"},
         NEW n \in Note \cup {None}, NEW t \in Text \cup {None}
  PROVE  /\ To(kind, n, t) \in Purpose /\ To(kind, n, t) # None
         /\ To(kind, n, t).kind = kind /\ To(kind, n, t).note = n
         /\ To(kind, n, t).text = t
         /\ To(kind, n, t).alone = (kind = "open" /\ Saving = {})
<1>1. /\ To(kind, n, t).kind = kind /\ To(kind, n, t).note = n
      /\ To(kind, n, t).text = t
      /\ To(kind, n, t).alone = (kind = "open" /\ Saving = {})
  BY DEF To
<1>2. (kind = "open" /\ Saving = {}) \in BOOLEAN
  OBVIOUS
<1>3. To(kind, n, t) \in Purpose
  BY <1>2 DEF To, Purpose
<1> QED
  BY <1>1, <1>3, NoneAssumption

\* A request that is sent changes nothing but itself.
LEMMA SendFacts ==
  ASSUME TypeOK, NEW r \in Request, NEW kind \in {"create", "update", "open", "delete"},
         NEW n \in Note \cup {None}, NEW t \in Text \cup {None}, Send(r, To(kind, n, t))
  PROVE  /\ stage[r] = "free" /\ what[r] = None
         /\ stage' = [stage EXCEPT ![r] = "sent"]
         /\ what' \in [Request -> Purpose \cup {None}]
         /\ what'[r] # None /\ what'[r].kind = kind /\ what'[r].note = n
         /\ what'[r].text = t /\ what'[r].alone = (kind = "open" /\ Saving = {})
         /\ stage'[r] = "sent"
         /\ \A q \in Request : q # r => what'[q] = what[q] /\ stage'[q] = stage[q]
<1>1. what' = [what EXCEPT ![r] = To(kind, n, t)]
  BY DEF Send
<1>2. what'[r] = To(kind, n, t) /\ what' \in [Request -> Purpose \cup {None}]
  BY <1>1, ToIsPurpose DEF TypeOK
<1>3. what'[r] # None /\ what'[r].kind = kind /\ what'[r].note = n
      /\ what'[r].text = t /\ what'[r].alone = (kind = "open" /\ Saving = {})
  BY <1>2, ToIsPurpose
<1> QED
  BY <1>1, <1>2, <1>3 DEF Send, TypeOK

\* A save adds its request, and no request is alone any more.
LEMMA SaveFacts ==
  ASSUME TypeOK, text # None, NEW r \in Request, Save(r)
  PROVE  /\ stage[r] = "free" /\ what[r] = None
         /\ stage' = [stage EXCEPT ![r] = "sent"] /\ stage'[r] = "sent"
         /\ what' \in [Request -> Purpose \cup {None}]
         /\ what'[r] # None
         /\ what'[r].kind = IF field = None THEN "create" ELSE "update"
         /\ what'[r].note = field /\ what'[r].text = text
         /\ \A q \in Request : q # r =>
              /\ stage'[q] = stage[q] /\ (what'[q] = None <=> what[q] = None)
              /\ what[q] # None =>
                   /\ what'[q].kind = what[q].kind /\ what'[q].note = what[q].note
                   /\ what'[q].text = what[q].text /\ what'[q].alone = FALSE
<1> DEFINE kind == IF field = None THEN "create" ELSE "update"
           new == To(kind, field, text)
           old(q) == [what[q] EXCEPT !.alone = FALSE]
<1>1. what' = [q \in Request |->
                 IF q = r THEN new ELSE IF what[q] = None THEN None ELSE old(q)]
  BY DEF Save
<1>2. /\ new \in Purpose /\ new # None /\ new.kind = kind
      /\ new.note = field /\ new.text = text
  BY ToIsPurpose DEF TypeOK
<1>3. ASSUME NEW q \in Request, what[q] # None
      PROVE  /\ old(q) \in Purpose /\ old(q) # None
             /\ old(q).kind = what[q].kind /\ old(q).note = what[q].note
             /\ old(q).text = what[q].text /\ old(q).alone = FALSE
  BY <1>3, Purposes, NoneAssumption DEF Purpose
<1> HIDE DEF new, old
<1>4. what' \in [Request -> Purpose \cup {None}]
  BY <1>1, <1>2, <1>3
<1>5. what'[r] = new
  BY <1>1
<1>6. ASSUME NEW q \in Request, q # r
      PROVE  what'[q] = IF what[q] = None THEN None ELSE old(q)
  BY <1>1, <1>6
<1>7. /\ stage[r] = "free" /\ what[r] = None /\ stage'[r] = "sent"
      /\ stage' = [stage EXCEPT ![r] = "sent"]
      /\ \A q \in Request : q # r => stage'[q] = stage[q]
  BY DEF Save, TypeOK
<1>8. /\ what'[r] # None /\ what'[r].kind = kind
      /\ what'[r].note = field /\ what'[r].text = text
  BY <1>2, <1>5
<1>9. ASSUME NEW q \in Request, q # r
      PROVE  /\ what'[q] = None <=> what[q] = None
             /\ what[q] # None =>
                  /\ what'[q].kind = what[q].kind /\ what'[q].note = what[q].note
                  /\ what'[q].text = what[q].text /\ what'[q].alone = FALSE
  BY <1>3, <1>6, <1>9
<1> QED
  BY <1>4, <1>7, <1>8, <1>9

\* An answered request is free again, and nothing else changes.
LEMMA EndFacts ==
  ASSUME TypeOK, NEW r \in Request, End(r)
  PROVE  /\ stage'[r] = "free" /\ what'[r] = None
         /\ stage' \in [Request -> {"free", "sent", "served", "failed"}]
         /\ what' \in [Request -> Purpose \cup {None}]
         /\ \A q \in Request : q # r => what'[q] = what[q] /\ stage'[q] = stage[q]
BY DEF End, TypeOK

LEMMA SavingIs ==
  ASSUME TypeOK
  PROVE  /\ Saving \subseteq Request
         /\ \A r \in Request : r \in Saving <=>
              what[r] # None /\ what[r].kind \in {"create", "update"}
BY DEF Saving, Busy, TypeOK

\* The serving of a request, whatever it is for.
LEMMA ServeFacts ==
  ASSUME TypeOK, NEW r \in Request, Serve(r)
  PROVE  /\ what[r] # None /\ stage[r] = "sent" /\ stage'[r] \in {"served", "failed"}
         /\ stage' \in [Request -> {"free", "sent", "served", "failed"}]
         /\ what' \in [Request -> Purpose \cup {None}]
         /\ \A q \in Request : q # r => what'[q] = what[q] /\ stage'[q] = stage[q]
         /\ what'[r] # None /\ what'[r].kind = what[r].kind
         /\ what'[r].alone = what[r].alone
         /\ what[r].kind # "create" => what'[r].note = what[r].note
         /\ what[r].kind # "open" => what'[r].text = what[r].text
<1>1. what[r] # None /\ stage[r] = "sent" /\ what[r] \in Purpose
  BY Purposes DEF Serve, TypeOK
<1>2. CASE ServeCreate(r)
  <2> DEFINE new == [what[r] EXCEPT !.note = created + 1]
  <2>1. created + 1 \in Note /\ what' = [what EXCEPT ![r] = new]
    <3>1. created \in Nat /\ created < MaxNotes
      BY <1>2, NoteEditorAssumption DEF ServeCreate, TypeOK
    <3> QED
      BY <1>2, <3>1, NoteEditorAssumption DEF ServeCreate
  <2>2. /\ new \in Purpose /\ new # None /\ new.kind = what[r].kind
        /\ new.alone = what[r].alone /\ new.text = what[r].text
    BY <1>1, <2>1, NoneAssumption DEF Purpose
  <2> HIDE DEF new
  <2>3. what' \in [Request -> Purpose \cup {None}] /\ what'[r] = new
    BY <2>1, <2>2 DEF TypeOK
  <2>4. \A q \in Request : q # r => what'[q] = what[q] /\ stage'[q] = stage[q]
    BY <1>2, <2>1 DEF ServeCreate, Served, TypeOK
  <2>5. /\ what[r].kind = "create" /\ stage'[r] = "served"
        /\ stage' \in [Request -> {"free", "sent", "served", "failed"}]
    BY <1>2 DEF ServeCreate, Served, TypeOK
  <2>6. what'[r] # None /\ what'[r].kind = what[r].kind
        /\ what'[r].alone = what[r].alone /\ what'[r].text = what[r].text
    BY <2>2, <2>3
  <2> QED
    BY <1>1, <2>3, <2>4, <2>5, <2>6
<1>3. CASE ServeOpen(r) /\ notes[what[r].note] # None /\ Served(r)
  <2> DEFINE new == [what[r] EXCEPT !.text = notes[what[r].note]]
  <2>1. /\ what[r].note \in Note /\ notes[what[r].note] \in Text
        /\ what[r].kind = "open"
    BY <1>1, <1>3, Purposes DEF ServeOpen, TypeOK
  <2>2. what' = [what EXCEPT ![r] = new]
    BY <1>3, <1>1, <2>1 DEF ServeOpen
  <2>3. /\ new \in Purpose /\ new # None /\ new.kind = what[r].kind
        /\ new.alone = what[r].alone /\ new.note = what[r].note
    BY <1>1, <2>1, NoneAssumption DEF Purpose
  <2> HIDE DEF new
  <2>4. what' \in [Request -> Purpose \cup {None}] /\ what'[r] = new
    BY <2>2, <2>3 DEF TypeOK
  <2>5. \A q \in Request : q # r => what'[q] = what[q] /\ stage'[q] = stage[q]
    BY <1>3, <2>2 DEF Served, TypeOK
  <2>6. /\ stage'[r] = "served"
        /\ stage' \in [Request -> {"free", "sent", "served", "failed"}]
    BY <1>3 DEF Served, TypeOK
  <2>7. what'[r] # None /\ what'[r].kind = what[r].kind
        /\ what'[r].alone = what[r].alone /\ what'[r].note = what[r].note
    BY <2>3, <2>4
  <2> QED
    BY <1>1, <2>1, <2>4, <2>5, <2>6, <2>7
<1>4. CASE UNCHANGED what /\ (Served(r) \/ Refuse(r))
  BY <1>1, <1>4 DEF Served, Refuse, TypeOK
<1> QED
  BY <1>2, <1>3, <1>4 DEF Serve, ServeUpdate, ServeOpen, ServeDelete

\* The parts of the type invariant.
DataOK ==
  /\ notes \in [Note -> Text \cup {None}]
  /\ created \in Existing .. MaxNotes /\ documents \in Existing .. MaxDocuments
  /\ \A n \in Note : notes[n] # None => n <= created
  /\ field \in Note \cup {None} /\ text \in Text \cup {None}
  /\ shown \in BOOLEAN /\ timer \in BOOLEAN
  /\ edits \in 0 .. MaxEdits /\ errors \in 0 .. MaxErrors
  /\ strayed \subseteq Note /\ doubled \subseteq Document /\ crossed \in BOOLEAN

RequestOK(r) ==
  /\ stage[r] = "free" <=> what[r] = None
  /\ what[r] # None =>
       /\ what[r].kind # "create" \/ stage[r] = "served" => what[r].note # None
       /\ what[r].text = None =>
            \/ what[r].kind = "delete"
            \/ what[r].kind = "open" /\ stage[r] # "served"
       /\ what[r].kind \in {"create", "update"} => text # None

RequestsOK ==
  /\ stage \in [Request -> {"free", "sent", "served", "failed"}]
  /\ what \in [Request -> Purpose \cup {None}]
  /\ \A r \in Request : RequestOK(r)
  /\ shown \/ timer \/ field # None => text # None

LEMMA TypeParts == TypeOK <=> DataOK /\ RequestsOK
<1>1. ASSUME TypeOK PROVE DataOK /\ RequestsOK
  <2>1. Saving # {} => text # None
    BY <1>1 DEF TypeOK
  <2>2. ASSUME NEW r \in Request PROVE RequestOK(r)
    BY <1>1, <2>1, SavingIs DEF TypeOK, RequestOK
  <2> QED
    BY <1>1, <2>2 DEF TypeOK, DataOK, RequestsOK
<1>2. ASSUME DataOK, RequestsOK PROVE TypeOK
  <2>1. Saving # {} => text # None
    BY <1>2 DEF RequestsOK, RequestOK, Saving, Busy
  <2> QED
    BY <1>2, <2>1 DEF TypeOK, DataOK, RequestsOK, RequestOK
<1> QED
  BY <1>1, <1>2

LEMMA InitType == Init => TypeOK
<1> SUFFICES ASSUME Init PROVE DataOK /\ RequestsOK
  BY TypeParts
<1>1. DataOK
  <2>1. ASSUME NEW n \in Note
        PROVE  /\ notes[n] \in Text \cup {None}
               /\ notes[n] # None => n <= created
    <3>1. n \in 1 .. Existing => [doc |-> n, edit |-> 0] \in Text
      BY NoteEditorAssumption DEF Text
    <3>2. notes[n] = IF n <= Existing THEN [doc |-> n, edit |-> 0] ELSE None
      BY DEF Init
    <3> QED
      BY <3>1, <3>2, NoteEditorAssumption DEF Init
  <2>2. notes \in [Note -> Text \cup {None}]
    BY <2>1 DEF Init
  <2> QED
    <3>1. 0 \in 0 .. MaxEdits /\ 0 \in 0 .. MaxErrors
          /\ Existing \in Existing .. MaxNotes /\ Existing \in Existing .. MaxDocuments
      BY NoteEditorAssumption
    <3> QED
      BY <2>1, <2>2, <3>1 DEF Init, DataOK
<1>2. RequestsOK
  BY DEF Init, RequestsOK, RequestOK
<1> QED
  BY <1>1, <1>2

LEMMA DataStep ==
  ASSUME TypeOK, [Next]_vars
  PROVE  DataOK'
<1> USE NoteEditorAssumption
<1>0. DataOK
  BY TypeParts
<1>1. CASE OpenNew
  <2>1. text' \in Text \cup {None} /\ documents' \in Existing .. MaxDocuments
    BY <1>0, <1>1 DEF OpenNew, DataOK, Text
  <2> QED
    BY <1>0, <1>1, <2>1 DEF OpenNew, DataOK, database, requests
<1>2. CASE Type
  <2>1. edits' \in 0 .. MaxEdits /\ text' \in Text \cup {None}
    <3>1. text \in Text /\ edits + 1 \in 0 .. MaxEdits
      BY <1>0, <1>2, TypeParts DEF Type, DataOK, RequestsOK
    <3> QED
      BY <1>2, <3>1 DEF Type, Text
  <2> QED
    BY <1>0, <1>2, <2>1 DEF Type, DataOK, database, requests, history
<1>3. ASSUME NEW r \in Request, NEW n \in Note, Select(r, n) PROVE DataOK'
  BY <1>0, <1>3 DEF Select, DataOK, database, form, counters, history
<1>4. ASSUME NEW r \in Request, Save(r), text # None
      PROVE  doubled' \subseteq Document /\ crossed' \in BOOLEAN
  BY <1>0, <1>4 DEF Save, DataOK, Text
<1>5. ASSUME NEW r \in Request, AutoSave(r) \/ SaveNow(r) PROVE DataOK'
  <2>1. doubled' \subseteq Document /\ crossed' \in BOOLEAN
    BY <1>4, <1>5 DEF AutoSave, SaveNow, TypeOK
  <2> QED
    BY <1>0, <1>5, <2>1 DEF AutoSave, SaveNow, DataOK, database, form, counters
<1>6. ASSUME NEW r \in Request, Delete(r) PROVE DataOK'
  BY <1>0, <1>6 DEF Delete, DataOK, database, form, counters, history
<1>7. ASSUME NEW r \in Request, Serve(r) PROVE DataOK'
  <2>1. what[r] # None /\ what[r].note \in Note \cup {None}
        /\ what[r].text \in Text \cup {None}
    BY <1>7, ServeFacts, Purposes
  <2>2. /\ notes' \in [Note -> Text \cup {None}] /\ created' \in Existing .. MaxNotes
        /\ \A n \in Note : notes'[n] # None => n <= created'
    <3>1. CASE ServeCreate(r)
      BY <1>0, <2>1, <3>1 DEF ServeCreate, DataOK
    <3>2. CASE ServeUpdate(r)
      BY <1>0, <2>1, <3>2 DEF ServeUpdate, DataOK
    <3>3. CASE ServeOpen(r)
      BY <1>0, <3>3 DEF ServeOpen, DataOK, database
    <3>4. CASE ServeDelete(r)
      BY <1>0, <3>4 DEF ServeDelete, DataOK
    <3> QED
      BY <1>7, <3>1, <3>2, <3>3, <3>4 DEF Serve
  <2> QED
    BY <1>0, <1>7, <2>2 DEF Serve, DataOK, form, counters, history
<1>8. ASSUME NEW r \in Request, Saved(r) PROVE DataOK'
  <2>1. what[r] # None /\ what[r].note \in Note
    BY <1>8, Purposes DEF Saved, TypeOK
  <2> QED
    BY <1>0, <1>8, <2>1 DEF Saved, DataOK, database, counters
<1>9. ASSUME NEW r \in Request, Opened(r) PROVE DataOK'
  <2>1. /\ what[r] # None /\ what[r].note \in Note \cup {None}
        /\ what[r].text \in Text \cup {None} /\ what[r].alone \in BOOLEAN
    BY <1>9, Purposes DEF Opened, TypeOK
  <2> QED
    BY <1>0, <1>9, <2>1 DEF Opened, DataOK, database, counters
<1>10. ASSUME NEW r \in Request, Deleted(r) PROVE DataOK'
  BY <1>0, <1>10 DEF Deleted, DataOK, database, counters, history
<1>11. ASSUME NEW r \in Request, Failed(r) PROVE DataOK'
  <2>1. what[r] # None /\ (what[r].kind = "create" => what[r].text.doc \in Document)
    BY <1>11, Purposes DEF Failed, TypeOK, Text
  <2> QED
    BY <1>0, <1>11, <2>1 DEF Failed, DataOK, database, form, counters
<1>12. ASSUME NEW r \in Request, Fail(r) PROVE DataOK'
  BY <1>0, <1>12 DEF Fail, DataOK, database, form, history
<1>13. CASE UNCHANGED vars
  BY <1>0, <1>13 DEF vars, database, form, requests, counters, history, DataOK
<1> QED
  BY <1>1, <1>2, <1>3, <1>5, <1>6, <1>7, <1>8, <1>9, <1>10, <1>11, <1>12, <1>13
  DEF Next, Answered

LEMMA RequestsStep ==
  ASSUME TypeOK, [Next]_vars
  PROVE  RequestsOK'
<1>0. RequestsOK /\ DataOK
  BY TypeParts
<1>1. CASE OpenNew
  <2>1. text' # None
    <3>1. documents + 1 \in Document /\ 0 \in 0 .. MaxEdits
      BY <1>0, <1>1, NoteEditorAssumption DEF OpenNew, DataOK
    <3>2. text' \in Text
      BY <1>1, <3>1 DEF OpenNew, Text
    <3> QED
      BY <3>2, NoneAssumption
  <2> QED
    BY <1>0, <1>1, <2>1 DEF OpenNew, RequestsOK, RequestOK, requests
<1>2. CASE Type
  <2>1. text' # None
    <3>1. text \in Text /\ edits + 1 \in 0 .. MaxEdits
      BY <1>0, <1>2, NoteEditorAssumption DEF Type, DataOK, RequestsOK
    <3>2. text' \in Text
      BY <1>2, <3>1 DEF Type, Text
    <3> QED
      BY <3>2, NoneAssumption
  <2> QED
    BY <1>0, <1>2, <2>1 DEF Type, RequestsOK, RequestOK, requests
<1>3. ASSUME NEW r \in Request, NEW n \in Note, Select(r, n) PROVE RequestsOK'
  <2>1. UNCHANGED form /\ Send(r, To("open", n, None))
    BY <1>3 DEF Select
  <2>2. ASSUME NEW q \in Request PROVE RequestOK(q)'
    <3>1. n # None
      BY NoteEditorAssumption
    <3>2. CASE q = r
      BY <2>1, <3>1, <3>2, SendFacts DEF RequestOK
    <3>3. CASE q # r
      BY <1>0, <2>1, <3>3, SendFacts DEF RequestsOK, RequestOK, form
    <3> QED
      BY <3>2, <3>3
  <2>3. /\ stage' \in [Request -> {"free", "sent", "served", "failed"}]
        /\ what' \in [Request -> Purpose \cup {None}]
    BY <1>0, <2>1, SendFacts DEF RequestsOK
  <2> QED
    BY <1>0, <2>1, <2>2, <2>3 DEF RequestsOK, form
<1>4. ASSUME NEW r \in Request, AutoSave(r) \/ SaveNow(r) PROVE RequestsOK'
  <2>1. text # None /\ Save(r) /\ UNCHANGED <<field, text, shown>>
        /\ (timer' => timer \/ timer' = FALSE)
    BY <1>0, <1>4 DEF AutoSave, SaveNow, RequestsOK, form
  <2>2. ASSUME NEW q \in Request PROVE RequestOK(q)'
    <3>1. CASE q = r
      BY <2>1, <3>1, SaveFacts DEF RequestOK
    <3>2. CASE q # r
      <4>1. /\ stage'[q] = stage[q] /\ (what'[q] = None <=> what[q] = None)
            /\ what[q] # None =>
                 /\ what'[q].kind = what[q].kind /\ what'[q].note = what[q].note
                 /\ what'[q].text = what[q].text
        BY <2>1, <3>2, SaveFacts
      <4>2. RequestOK(q)
        BY <1>0 DEF RequestsOK
      <4> QED
        BY <2>1, <4>1, <4>2 DEF RequestOK
    <3> QED
      BY <3>1, <3>2
  <2>3. /\ stage' \in [Request -> {"free", "sent", "served", "failed"}]
        /\ what' \in [Request -> Purpose \cup {None}]
    BY <1>0, <2>1, SaveFacts DEF RequestsOK
  <2> QED
    BY <1>0, <2>1, <2>2, <2>3 DEF RequestsOK
<1>5. ASSUME NEW r \in Request, Delete(r) PROVE RequestsOK'
  BY <1>0, <1>5, SendFacts DEF Delete, RequestsOK, RequestOK, form, DataOK
<1>6. ASSUME NEW r \in Request, Serve(r) PROVE RequestsOK'
  <2>1. UNCHANGED form
    BY <1>6 DEF Serve
  <2>2. RequestOK(r)'
    <3>1. CASE ServeCreate(r)
      <4>1. /\ what[r].kind = "create" /\ created \in Nat /\ created < MaxNotes
            /\ what' = [what EXCEPT ![r].note = created + 1]
        BY <1>0, <3>1, NoteEditorAssumption DEF ServeCreate, DataOK
      <4>2. what[r] \in Purpose /\ what'[r].note = created + 1
        BY <1>6, <4>1, ServeFacts DEF RequestsOK, TypeOK, Purpose
      <4> QED
        <5>1. RequestOK(r) /\ what[r] # None /\ what'[r].text = what[r].text
              /\ what'[r] # None /\ what'[r].kind = "create"
              /\ stage'[r] \in {"served", "failed"} /\ text' = text
          BY <1>0, <1>6, <2>1, <4>1, ServeFacts DEF RequestsOK, form
        <5>2. created + 1 # None
          BY <4>1, NoteEditorAssumption
        <5> QED
          BY <4>1, <4>2, <5>1, <5>2 DEF RequestOK
    <3>2. CASE ~ ServeCreate(r)
      <4>1. what[r].kind # "create"
        BY <1>6, <3>2 DEF Serve, ServeUpdate, ServeOpen, ServeDelete
      <4> QED
        <5>1. /\ RequestOK(r) /\ what[r] # None /\ text' = text
              /\ what'[r] # None /\ what'[r].kind = what[r].kind
              /\ what'[r].note = what[r].note /\ stage'[r] \in {"served", "failed"}
          BY <1>0, <1>6, <2>1, <4>1, ServeFacts DEF RequestsOK, form
        <5>2. what[r].kind # "open" => what'[r].text = what[r].text
          BY <1>6, ServeFacts
        <5>3. what[r].kind = "open" /\ stage'[r] = "served" => what'[r].text # None
          <6> SUFFICES ASSUME what[r].kind = "open", stage'[r] = "served"
                       PROVE  what'[r].text # None
            OBVIOUS
          <6>1. /\ what[r].note # None /\ notes[what[r].note] # None
                /\ what' = [what EXCEPT ![r].text = notes[what[r].note]]
            BY <1>0, <1>6, <5>1
            DEF Serve, ServeCreate, ServeUpdate, ServeDelete, ServeOpen, Refuse, RequestsOK, RequestOK
          <6>2. what'[r].text = notes[what[r].note]
            BY <1>6, <6>1, ServeFacts, Purposes DEF Purpose, TypeOK
          <6> QED
            BY <6>1, <6>2
        <5> QED
          BY <4>1, <5>1, <5>2, <5>3 DEF RequestOK
    <3> QED
      BY <3>1, <3>2
  <2>3. ASSUME NEW q \in Request, q # r PROVE RequestOK(q)'
    BY <1>0, <1>6, <2>1, <2>3, ServeFacts DEF RequestsOK, RequestOK, form
  <2> QED
    BY <1>0, <1>6, <2>1, <2>2, <2>3, ServeFacts DEF RequestsOK, form
<1>7. ASSUME NEW r \in Request, Saved(r) PROVE RequestsOK'
  BY <1>0, <1>7, EndFacts, NoneAssumption DEF Saved, RequestsOK, RequestOK
<1>8. ASSUME NEW r \in Request, Opened(r) PROVE RequestsOK'
  <2>1. what[r] # None /\ what[r].kind = "open" /\ End(r)
        /\ UNCHANGED timer /\ field' = what[r].note /\ text' = what[r].text
    BY <1>0, <1>8 DEF Opened, RequestsOK, RequestOK
  <2>2. text' # None
    BY <1>0, <1>8, <2>1 DEF Opened, RequestsOK, RequestOK
  <2> QED
    BY <1>0, <2>1, <2>2, EndFacts DEF RequestsOK, RequestOK
<1>9. ASSUME NEW r \in Request, Deleted(r) PROVE RequestsOK'
  BY <1>0, <1>9, EndFacts DEF Deleted, RequestsOK, RequestOK
<1>10. ASSUME NEW r \in Request, Failed(r) PROVE RequestsOK'
  BY <1>0, <1>10, EndFacts DEF Failed, RequestsOK, RequestOK, form
<1>11. ASSUME NEW r \in Request, Fail(r) PROVE RequestsOK'
  BY <1>0, <1>11 DEF Fail, RequestsOK, RequestOK, form
<1>12. CASE UNCHANGED vars
  BY <1>0, <1>12 DEF vars, form, requests, RequestsOK, RequestOK
<1> QED
  BY <1>1, <1>2, <1>3, <1>4, <1>5, <1>6, <1>7, <1>8, <1>9, <1>10, <1>11, <1>12
  DEF Next, Answered

\* The type invariant of the editor, its notes and its requests: an answered
\* request names its note, and one that reads or writes a text has it.
THEOREM EditorTypeCorrect == Spec => []TypeOK
<1>1. Init => TypeOK
  BY InitType
<1>2. TypeOK /\ [Next]_vars => TypeOK'
  <2> SUFFICES ASSUME TypeOK, [Next]_vars PROVE TypeOK'
    OBVIOUS
  <2>1. DataOK' /\ RequestsOK'
    BY DataStep, RequestsStep
  <2> QED
    BY <2>1, TypeParts, PTL
<1> QED
  BY <1>1, <1>2, PTL DEF Spec
-----------------------------------------------------------------------------
(* A note keeps its document.                                              *)

\* Serving alone changes the notes; no step forgets an id that went astray.
LEMMA OnlyServing ==
  ASSUME TypeOK, [Next]_vars
  PROVE  /\ strayed \subseteq strayed'
         /\ UNCHANGED database \/ \E r \in Request : Serve(r)
<1>1. CASE UNCHANGED vars
  BY <1>1 DEF vars, history
<1>2. CASE OpenNew \/ Type
  BY <1>2 DEF OpenNew, Type, history
<1>3. ASSUME NEW r \in Request,
             (\E n \in Note : Select(r, n)) \/ AutoSave(r) \/ SaveNow(r) \/ Delete(r)
      PROVE  strayed \subseteq strayed' /\ UNCHANGED database
  BY <1>3 DEF Select, AutoSave, SaveNow, Delete, history
<1>4. ASSUME NEW r \in Request, Answered(r) \/ Fail(r)
      PROVE  strayed \subseteq strayed' /\ UNCHANGED database
  BY <1>4 DEF Answered, Saved, Opened, Deleted, Failed, Fail, history
<1>5. ASSUME NEW r \in Request, Serve(r) PROVE strayed \subseteq strayed'
  BY <1>5 DEF Serve, history
<1> QED
  BY <1>1, <1>2, <1>3, <1>4, <1>5 DEF Next

\* What a serving does to the notes.
LEMMA ServedNotes ==
  ASSUME TypeOK, NEW r \in Request, Serve(r)
  PROVE  \/ /\ what[r].kind = "create" /\ created' = created + 1
            /\ stage'[r] = "served" /\ what'[r].note = created + 1
            /\ notes' = [notes EXCEPT ![created + 1] = what[r].text]
            /\ created + 1 \in Note /\ notes[created + 1] = None
            /\ notes'[created + 1] = what[r].text
         \/ /\ what[r].kind = "update" /\ created' = created
            /\ notes' = [notes EXCEPT ![what[r].note] = what[r].text]
            /\ what[r].note \in Note /\ notes[what[r].note] # None
            /\ notes'[what[r].note] = what[r].text
         \/ /\ what[r].kind = "delete" /\ created' = created
            /\ notes' = [notes EXCEPT ![what[r].note] = None]
         \/ /\ what[r].kind = "open" /\ UNCHANGED database /\ stage'[r] = "served"
            /\ what'[r].text = notes[what[r].note]
         \/ UNCHANGED database /\ stage'[r] = "failed" /\ what' = what
<1>0. what[r] # None /\ what[r] \in Purpose /\ what[r].note \in Note \cup {None}
  BY ServeFacts, Purposes
<1>1. CASE ServeCreate(r)
  <2>1. created \in Nat /\ created < MaxNotes
    BY <1>1, NoteEditorAssumption DEF ServeCreate, TypeOK
  <2>2. created + 1 \in Note /\ notes[created + 1] = None
    BY <2>1, NoteEditorAssumption DEF TypeOK
  <2>3. what'[r].note = created + 1
    BY <1>0, <1>1 DEF ServeCreate, TypeOK, Purpose
  <2> QED
    BY <1>1, <2>2, <2>3 DEF ServeCreate, Served, TypeOK
<1>2. CASE ServeUpdate(r)
  <2>1. what[r].note \in Note
    BY <1>0, <1>2 DEF TypeOK, ServeUpdate
  <2> QED
    BY <1>2, <2>1 DEF ServeUpdate, Served, Refuse, TypeOK, database
<1>3. CASE ServeOpen(r)
  BY <1>0, <1>3 DEF ServeOpen, Served, Refuse, TypeOK, Purpose
<1>4. CASE ServeDelete(r)
  BY <1>4 DEF ServeDelete, Served, Refuse, TypeOK, database
<1> QED
  BY <1>1, <1>2, <1>3, <1>4 DEF Serve

LEMMA KeepsOn ==
  ASSUME TypeOK, RefInv, [Next]_vars, NEW n \in Note, NEW t \in Text, Keeps(n, t)
  PROVE  Keeps(n, t)'
<1>1. CASE UNCHANGED database
  BY <1>1, OnlyServing DEF Keeps, database
<1>2. ASSUME NEW r \in Request, Serve(r) PROVE Keeps(n, t)'
  <2>0. strayed \subseteq strayed' /\ created \in Nat
    BY OnlyServing, NoteEditorAssumption DEF TypeOK
  <2>1. what[r] # None
    BY <1>2, ServeFacts
  <2>2. CASE what[r].kind = "update" /\ what[r].note = n /\ created' = created
             /\ notes' = [notes EXCEPT ![what[r].note] = what[r].text]
             /\ notes[n] # None
    <3>1. Keeps(n, what[r].text)
      BY <2>1, <2>2, NoteEditorAssumption DEF RefInv, TypeOK
    <3> QED
      BY <2>0, <2>2, <3>1 DEF Keeps, TypeOK
  <2>3. CASE created' \in {created, created + 1} /\ notes'[n] \in {notes[n], None}
    BY <2>0, <2>3 DEF Keeps
  <2>4. n # created + 1
    BY <2>0 DEF Keeps
  <2> QED
    BY <1>2, <2>2, <2>3, <2>4, ServedNotes DEF TypeOK, database
<1> QED
  BY <1>1, <1>2, OnlyServing

\* The part of RefInv about one request.
Refers(r) ==
  what[r] # None =>
    /\ what[r].kind # "create" => what[r].note # None
    /\ what[r].kind = "create" /\ stage[r] = "sent" => what[r].note = None
    /\ what[r].note # None => what[r].note <= created
    /\ what[r].note # None /\ what[r].text # None => Keeps(what[r].note, what[r].text)

\* A request a step leaves alone still refers to what it did.
LEMMA RefersOn ==
  ASSUME TypeOK, RefInv, [Next]_vars, NEW r \in Request,
         what'[r] = None <=> what[r] = None,
         what[r] # None =>
           /\ what'[r].kind = what[r].kind /\ what'[r].note = what[r].note
           /\ what'[r].text = what[r].text,
         stage'[r] = "sent" => stage[r] = "sent"
  PROVE  Refers(r)'
<1> SUFFICES ASSUME what[r] # None PROVE Refers(r)'
  BY DEF Refers
<1>1. /\ what[r].note \in Note \cup {None} /\ what[r].text \in Text \cup {None}
      /\ Refers(r)
  BY Purposes DEF RefInv, Refers
<1>2. what[r].note # None => what[r].note <= created'
  <2>1. created \in Nat /\ created' \in {created, created + 1}
    BY OnlyServing, ServedNotes, NoteEditorAssumption DEF TypeOK, database
  <2> QED
    BY <1>1, <2>1 DEF Refers
<1>3. what[r].note # None /\ what[r].text # None => Keeps(what[r].note, what[r].text)'
  <2> SUFFICES ASSUME what[r].note # None, what[r].text # None
               PROVE  Keeps(what[r].note, what[r].text)'
    OBVIOUS
  <2>1. PICK n \in Note, t \in Text : n = what[r].note /\ t = what[r].text
    BY <1>1
  <2>2. Keeps(n, t)
    BY <1>1, <2>1 DEF Refers
  <2>3. Keeps(n, t)'
    BY <2>2, KeepsOn
  <2>4. what'[r].note = n /\ what'[r].text = t
    BY <2>1
  <2> QED
    BY <2>1, <2>3 DEF Keeps
<1> QED
  BY <1>1, <1>2, <1>3 DEF Refers, Keeps

\* The form still keeps its document, where a step leaves form and id alone.
LEMMA FormKeeps ==
  ASSUME TypeOK, RefInv, [Next]_vars, field' = field,
         text' = text \/ (text # None /\ text'.doc = text.doc)
  PROVE  field' # None => Keeps(field, text)'
<1> SUFFICES ASSUME field # None PROVE Keeps(field, text)'
  OBVIOUS
<1>1. PICK n \in Note, t \in Text : n = field /\ t = text
  BY DEF TypeOK
<1>2. Keeps(n, t)'
  BY <1>1, KeepsOn DEF RefInv
<1> QED
  BY <1>1, <1>2 DEF Keeps

LEMMA RefStep ==
  ASSUME TypeOK, RefInv, [Next]_vars
  PROVE  RefInv'
<1>1. \A r \in Request : Refers(r)
  BY DEF RefInv, Refers
<1>2. SUFFICES /\ field' # None => Keeps(field, text)'
               /\ \A r \in Request : Refers(r)'
  BY DEF RefInv, Refers
<1>3. created \in Nat /\ None \notin Nat
  BY NoteEditorAssumption DEF TypeOK
<1>4. CASE UNCHANGED vars
  BY <1>1, <1>4, FormKeeps, RefersOn DEF vars, form, requests
<1>5. CASE OpenNew
  <2>1. field' = None /\ UNCHANGED requests
    BY <1>5 DEF OpenNew
  <2> QED
    BY <1>1, <2>1, RefersOn DEF requests
<1>6. CASE Type
  <2>1. /\ field' = field /\ UNCHANGED requests
        /\ text # None /\ text'.doc = text.doc
    BY <1>6 DEF Type, TypeOK, Text
  <2> QED
    BY <1>1, <2>1, FormKeeps, RefersOn DEF requests
<1>7. ASSUME NEW r \in Request, NEW n \in Note, Select(r, n)
      PROVE  (field' # None => Keeps(field, text)') /\ \A q \in Request : Refers(q)'
  <2>1. UNCHANGED <<form, database>> /\ Send(r, To("open", n, None)) /\ notes[n] # None
    BY <1>7 DEF Select
  <2>2. Refers(r)'
    BY <1>3, <2>1, SendFacts DEF Refers, TypeOK, database
  <2>3. ASSUME NEW q \in Request, q # r PROVE Refers(q)'
    BY <2>1, <2>3, SendFacts, RefersOn
  <2> QED
    BY <2>1, <2>2, <2>3, FormKeeps DEF form
<1>8. ASSUME NEW r \in Request, AutoSave(r) \/ SaveNow(r)
      PROVE  (field' # None => Keeps(field, text)') /\ \A q \in Request : Refers(q)'
  <2>1. text # None /\ Save(r) /\ UNCHANGED <<field, text>>
    BY <1>8 DEF AutoSave, SaveNow, TypeOK, form
  <2>2. field' # None => Keeps(field, text)'
    BY <2>1, FormKeeps
  <2>3. Refers(r)'
    BY <2>1, <2>2, SaveFacts DEF Refers, Keeps
  <2>4. ASSUME NEW q \in Request, q # r PROVE Refers(q)'
    BY <2>1, <2>4, SaveFacts, RefersOn
  <2> QED
    BY <2>2, <2>3, <2>4
<1>9. ASSUME NEW r \in Request, Delete(r)
      PROVE  (field' # None => Keeps(field, text)') /\ \A q \in Request : Refers(q)'
  <2>1. /\ UNCHANGED <<form, database>> /\ Send(r, To("delete", field, None))
        /\ field \in Note
    BY <1>9 DEF Delete, TypeOK
  <2>2. field <= created
    BY <1>3, <2>1 DEF RefInv, Keeps
  <2>3. Refers(r)'
    BY <1>3, <2>1, <2>2, SendFacts DEF Refers, database
  <2>4. ASSUME NEW q \in Request, q # r PROVE Refers(q)'
    BY <2>1, <2>4, SendFacts, RefersOn
  <2> QED
    BY <2>1, <2>3, <2>4, FormKeeps DEF form
<1>10. ASSUME NEW r \in Request, Serve(r)
       PROVE  (field' # None => Keeps(field, text)') /\ \A q \in Request : Refers(q)'
  <2>1. UNCHANGED form
    BY <1>10 DEF Serve
  <2>2. ASSUME NEW q \in Request, q # r PROVE Refers(q)'
    BY <1>10, <2>2, ServeFacts, RefersOn
  <2>3. what[r] # None /\ what[r].text \in Text \cup {None} /\ what'[r] # None
        /\ what'[r].kind = what[r].kind /\ stage'[r] # "sent"
    BY <1>10, ServeFacts, Purposes
  <2>4. Refers(r)'
    <3>1. CASE UNCHANGED what
      BY <1>10, <2>3, <3>1, RefersOn
    <3>2. CASE /\ what[r].kind = "create" /\ created' = created + 1
               /\ what'[r].note = created + 1 /\ notes'[created + 1] = what[r].text
      <4>1. what'[r].text = what[r].text
        BY <1>10, <3>2, ServeFacts
      <4> QED
        BY <1>3, <2>3, <3>2, <4>1 DEF Refers, Keeps
    <3>3. CASE /\ what[r].kind = "open" /\ UNCHANGED database
               /\ what'[r].text = notes[what[r].note]
      <4>1. what'[r].note = what[r].note
        BY <1>10, <3>3, ServeFacts
      <4> QED
        BY <1>1, <2>3, <3>3, <4>1 DEF Refers, Keeps, database
    <3>4. CASE what[r].kind \in {"update", "delete"}
      <4>1. what'[r].note = what[r].note /\ what'[r].text = what[r].text
        BY <1>10, <3>4, ServeFacts
      <4> QED
        BY <2>3, <4>1, RefersOn
    <3> QED
      BY <1>10, <3>1, <3>2, <3>3, <3>4, ServedNotes
  <2> QED
    BY <2>1, <2>2, <2>4, FormKeeps DEF form
<1>11. ASSUME NEW r \in Request, Answered(r)
       PROVE  (field' # None => Keeps(field, text)') /\ \A q \in Request : Refers(q)'
  <2>1. /\ End(r) /\ UNCHANGED database /\ strayed \subseteq strayed' /\ what[r] # None
        /\ what[r].note \in Note \cup {None} /\ what[r].text \in Text \cup {None}
    <3>1. what[r] # None
      BY <1>11 DEF Answered, Saved, Opened, Deleted, Failed, TypeOK
    <3> QED
      BY <1>11, <3>1, OnlyServing, Purposes DEF Answered, Saved, Opened, Deleted, Failed
  <2>2. Refers(r)'
    BY <2>1, EndFacts DEF Refers
  <2>3. ASSUME NEW q \in Request, q # r PROVE Refers(q)'
    BY <2>1, <2>3, EndFacts, RefersOn
  <2>4. field' # None => Keeps(field, text)'
    <3>1. CASE UNCHANGED <<field, text>>
      BY <3>1, FormKeeps
    <3>2. CASE Opened(r)
      <4>1. /\ stage[r] = "served" /\ what[r].kind = "open"
            /\ field' = what[r].note /\ text' = what[r].text
        BY <3>2 DEF Opened
      <4>2. what[r].note # None /\ what[r].text # None
        BY <2>1, <4>1 DEF TypeOK
      <4> QED
        BY <1>1, <2>1, <4>1, <4>2 DEF Refers, Keeps, database
    <3>3. CASE Saved(r) /\ what[r].kind = "create"
      <4>1. /\ field' = what[r].note /\ UNCHANGED text
            /\ text.doc # what[r].text.doc => what[r].note \in strayed'
        BY <3>3 DEF Saved
      <4>2. what[r].note # None /\ what[r].text # None
        BY <2>1, <3>3 DEF TypeOK, Saved
      <4> QED
        BY <1>1, <2>1, <4>1, <4>2 DEF Refers, Keeps, database
    <3> QED
      BY <1>11, <3>1, <3>2, <3>3 DEF Answered, Saved, Deleted, Failed, form
  <2> QED
    BY <2>2, <2>3, <2>4
<1>12. ASSUME NEW r \in Request, Fail(r)
       PROVE  (field' # None => Keeps(field, text)') /\ \A q \in Request : Refers(q)'
  <2>1. /\ UNCHANGED <<form, what>>
        /\ \A q \in Request : stage'[q] = "sent" => stage[q] = "sent"
    BY <1>12 DEF Fail, TypeOK
  <2> QED
    BY <2>1, FormKeeps, RefersOn DEF form
<1> QED
  BY <1>4, <1>5, <1>6, <1>7, <1>8, <1>9, <1>10, <1>11, <1>12 DEF Next

LEMMA InitRefs == Init => RefInv
BY DEF Init, RefInv

LEMMA WritesKeep ==
  ASSUME TypeOK, RefInv, [Next]_vars, NEW n \in Note,
         notes[n] # None, notes'[n] # None, notes[n].doc # notes'[n].doc
  PROVE  n \in strayed
<1>1. PICK r \in Request : Serve(r)
  BY OnlyServing DEF database
<1>2. /\ what[r] # None /\ what[r].kind = "update" /\ what[r].note = n
      /\ notes'[n] = what[r].text
  BY <1>1, ServedNotes, ServeFacts DEF TypeOK, database
<1>3. Keeps(n, what[r].text)
  BY <1>2, NoteEditorAssumption DEF RefInv, TypeOK
<1> QED
  BY <1>2, <1>3 DEF Keeps

\* However saves, openings and the timer interleave, a note is overwritten
\* with another document only if its id went astray.
THEOREM NotesAreNotMixed == Spec => NotesKeepTheirDocument
<1>1. Init => RefInv
  BY InitRefs
<1>2. TypeOK /\ RefInv /\ [Next]_vars => RefInv'
  BY RefStep
<1>3. TypeOK /\ RefInv /\ [Next]_vars =>
        [\A n \in Note :
           notes[n] # None /\ notes'[n] # None /\ notes[n].doc # notes'[n].doc
             => n \in strayed]_vars
  BY WritesKeep
<1> QED
  BY <1>1, <1>2, <1>3, EditorTypeCorrect, PTL DEF Spec, NotesKeepTheirDocument
-----------------------------------------------------------------------------
(* A document is in one note.                                              *)

Known ==
  /\ \A n \in Note : notes[n] # None => notes[n].doc <= documents
  /\ text # None => text.doc <= documents
  /\ \A r \in Request : what[r] # None /\ what[r].text # None => what[r].text.doc <= documents

Once ==
  \A r \in Request, d \in Document, n \in Note :
    Creates(r, d) /\ stage[r] = "sent" /\ Live(n, d) => n \in strayed \/ d \in doubled

Single ==
  \A q, r \in Request, d \in Document :
    Creates(q, d) /\ Creates(r, d) => q = r \/ d \in doubled

Unsaved ==
  field = None /\ text # None =>
    \A n \in Note : Live(n, text.doc) =>
      n \in strayed \/ text.doc \in doubled \/ \E r \in Request : Creates(r, text.doc)

LEMMA DocParts == DocInv <=> Known /\ Once /\ Single /\ Unsaved
BY DEF DocInv, Known, Once, Single, Unsaved

\* The documents grow in number, and so do those doubled.
LEMMA Monotone ==
  ASSUME TypeOK, [Next]_vars
  PROVE  documents \in Nat /\ documents' \in Nat /\ documents <= documents'
         /\ doubled \subseteq doubled'
<1>0. documents \in Nat
  BY NoteEditorAssumption DEF TypeOK
<1>1. CASE UNCHANGED vars
  BY <1>0, <1>1 DEF vars, history, counters
<1>2. CASE OpenNew \/ Type
  BY <1>0, <1>2 DEF OpenNew, Type, history
<1>3. ASSUME NEW r \in Request,
             (\E n \in Note : Select(r, n)) \/ AutoSave(r) \/ SaveNow(r) \/ Delete(r)
      PROVE  documents' = documents /\ doubled \subseteq doubled'
  BY <1>3 DEF Select, AutoSave, SaveNow, Save, Delete, history, counters
<1>4. ASSUME NEW r \in Request, Serve(r) \/ Answered(r) \/ Fail(r)
      PROVE  documents' = documents /\ doubled \subseteq doubled'
  BY <1>4 DEF Serve, Answered, Saved, Opened, Deleted, Failed, Fail, history, counters
<1> QED
  BY <1>0, <1>1, <1>2, <1>3, <1>4 DEF Next

\* A creation under way was so before, or is the save of a form without id.
LEMMA CreatesWas ==
  ASSUME TypeOK, [Next]_vars, NEW q \in Request, NEW d \in Document, Creates(q, d)'
  PROVE  \/ Creates(q, d) /\ (stage'[q] = "sent" => stage[q] = "sent")
         \/ /\ AutoSave(q) \/ SaveNow(q)
            /\ field = None /\ text # None /\ text.doc = d
<1> USE DEF Creates
<1>1. CASE UNCHANGED vars \/ OpenNew \/ Type
  BY <1>1 DEF vars, requests, OpenNew, Type
<1>2. ASSUME NEW r \in Request, NEW n \in Note, Select(r, n)
      PROVE  Creates(q, d) /\ stage'[q] = stage[q]
  <2>1. Send(r, To("open", n, None))
    BY <1>2 DEF Select
  <2> QED
    BY <2>1, SendFacts
<1>3. ASSUME NEW r \in Request, Delete(r)
      PROVE  Creates(q, d) /\ stage'[q] = stage[q]
  <2>1. Send(r, To("delete", field, None)) /\ field \in Note
    BY <1>3 DEF Delete, TypeOK
  <2> QED
    BY <2>1, SendFacts
<1>4. ASSUME NEW r \in Request, AutoSave(r) \/ SaveNow(r)
      PROVE  \/ Creates(q, d) /\ stage'[q] = stage[q]
             \/ q = r /\ field = None /\ text # None /\ text.doc = d
  <2>1. Save(r) /\ text # None
    BY <1>4 DEF AutoSave, SaveNow, TypeOK
  <2> QED
    BY <2>1, SaveFacts
<1>5. ASSUME NEW r \in Request, Serve(r)
      PROVE  Creates(q, d) /\ (stage'[q] = "sent" => stage[q] = "sent")
  BY <1>5, ServeFacts
<1>6. ASSUME NEW r \in Request, Answered(r)
      PROVE  Creates(q, d) /\ stage'[q] = stage[q]
  <2>1. End(r)
    BY <1>6 DEF Answered, Saved, Opened, Deleted, Failed
  <2> QED
    BY <2>1, EndFacts
<1>7. ASSUME NEW r \in Request, Fail(r)
      PROVE  Creates(q, d) /\ (stage'[q] = "sent" => stage[q] = "sent")
  BY <1>7 DEF Fail, TypeOK
<1> QED
  BY <1>1, <1>2, <1>3, <1>4, <1>5, <1>6, <1>7 DEF Next

\* A note of a document was so before, or was created now, or went astray.
LEMMA LiveWas ==
  ASSUME TypeOK, RefInv, [Next]_vars, NEW n \in Note, NEW d \in Document, Live(n, d)'
  PROVE  \/ Live(n, d) \/ n \in strayed
         \/ /\ n = created + 1
            /\ \E r \in Request : Serve(r) /\ Creates(r, d) /\ stage'[r] # "sent"
<1>1. CASE UNCHANGED database
  BY <1>1 DEF Live, database
<1>2. ASSUME NEW r \in Request, Serve(r), ~ Live(n, d)
      PROVE  \/ n \in strayed
             \/ n = created + 1 /\ Creates(r, d) /\ stage'[r] # "sent"
  <2>1. CASE notes[n] # None
    BY <2>1, <1>2, WritesKeep DEF Live
  <2>2. CASE notes[n] = None
    BY <1>2, <2>2, ServedNotes, ServeFacts DEF Live, Creates, TypeOK, database
  <2> QED
    BY <2>1, <2>2
<1> QED
  BY <1>1, <1>2, OnlyServing

\* A save of a form without id, with a creation of its document under way,
\* doubles the document.
LEMMA SecondSave ==
  ASSUME TypeOK, NEW q \in Request, NEW r \in Request, NEW d \in Document,
         AutoSave(r) \/ SaveNow(r), Creates(q, d), field = None, text # None, text.doc = d
  PROVE  d \in doubled'
<1>1. Save(r)
  BY DEF AutoSave, SaveNow
<1>2. q \in {p \in Busy({"create"}) : what[p].text.doc = text.doc}
  BY DEF Creates, Busy, TypeOK
<1> QED
  BY <1>1, <1>2 DEF Save

LEMMA SingleStep ==
  ASSUME TypeOK, DocInv, [Next]_vars
  PROVE  Single'
<1> SUFFICES ASSUME NEW q \in Request, NEW r \in Request, NEW d \in Document,
                    Creates(q, d)', Creates(r, d)', q # r
             PROVE  d \in doubled'
  BY DEF Single, Creates
<1>1. CASE Creates(q, d) /\ Creates(r, d)
  BY <1>1, Monotone, DocParts DEF Single
<1>2. ASSUME NEW a \in Request, NEW b \in Request, a # b,
             Creates(a, d), AutoSave(b) \/ SaveNow(b),
             field = None, text # None, text.doc = d
      PROVE  d \in doubled'
  BY <1>2, SecondSave
<1>3. ~ ((AutoSave(q) \/ SaveNow(q)) /\ (AutoSave(r) \/ SaveNow(r)))
  <2>1. ASSUME NEW a \in Request, AutoSave(a) \/ SaveNow(a)
        PROVE  stage[a] = "free" /\ stage' = [stage EXCEPT ![a] = "sent"]
    BY <2>1 DEF AutoSave, SaveNow, Save
  <2> QED
    BY <2>1 DEF TypeOK
<1> QED
  BY <1>1, <1>2, <1>3, CreatesWas

LEMMA OnceStep ==
  ASSUME TypeOK, RefInv, DocInv, [Next]_vars
  PROVE  Once'
<1> SUFFICES ASSUME NEW r \in Request, NEW d \in Document, NEW n \in Note,
                    Creates(r, d)', stage'[r] = "sent", Live(n, d)'
             PROVE  n \in strayed' \/ d \in doubled'
  BY DEF Once, Creates, Live
<1>1. strayed \subseteq strayed' /\ doubled \subseteq doubled'
  BY OnlyServing, Monotone
<1>2. CASE Creates(r, d) /\ stage[r] = "sent"
  <2>1. CASE Live(n, d)
    BY <1>1, <1>2, <2>1, DocParts DEF Once
  <2>2. ASSUME NEW q \in Request, Creates(q, d), stage'[q] # "sent" PROVE d \in doubled'
    BY <1>1, <1>2, <2>2, DocParts DEF Single
  <2> QED
    BY <1>1, <2>1, <2>2, LiveWas
<1>3. CASE (AutoSave(r) \/ SaveNow(r)) /\ field = None /\ text # None /\ text.doc = d
  <2>1. UNCHANGED database
    BY <1>3 DEF AutoSave, SaveNow
  <2>2. Live(n, d)
    BY <2>1 DEF Live, database
  <2>3. n \in strayed \/ d \in doubled \/ \E q \in Request : Creates(q, d)
    BY <1>3, <2>2, DocParts DEF Unsaved
  <2> QED
    BY <1>1, <1>3, <2>3, SecondSave
<1> QED
  BY <1>2, <1>3, CreatesWas

LEMMA KnownStep ==
  ASSUME TypeOK, RefInv, DocInv, [Next]_vars
  PROVE  Known'
<1>0. Known /\ documents \in Nat /\ documents' \in Nat /\ documents <= documents'
  BY DocParts, Monotone
<1>1. \A r \in Request : what[r] # None =>
        what[r].text \in Text \cup {None} /\ what[r].note \in Note \cup {None}
  BY Purposes
<1>2. \A t \in Text : t.doc \in Nat
  BY DEF Text
<1>3. text \in Text \cup {None} /\ \A n \in Note : notes[n] \in Text \cup {None}
  BY DEF TypeOK
<1>4. ASSUME NEW n \in Note, notes'[n] # None PROVE notes'[n].doc <= documents'
  <2>1. CASE UNCHANGED database
    BY <1>0, <1>2, <1>3, <1>4, <2>1 DEF Known, database
  <2>2. ASSUME NEW r \in Request, Serve(r) PROVE notes'[n].doc <= documents'
    <3>1. what[r] # None
      BY <2>2, ServeFacts
    <3>2. notes'[n] \in {notes[n], what[r].text}
      BY <1>4, <2>2, <3>1, ServedNotes DEF TypeOK, database
    <3> QED
      BY <1>0, <1>1, <1>2, <1>3, <1>4, <3>1, <3>2 DEF Known
  <2> QED
    BY <2>1, <2>2, OnlyServing
<1>5. /\ text' # None => text'.doc <= documents'
      /\ \A r \in Request : what'[r] # None /\ what'[r].text # None =>
           what'[r].text.doc <= documents'
  <2>1. CASE UNCHANGED vars
    BY <1>0, <2>1 DEF vars, Known, form, requests, counters
  <2>2. CASE OpenNew
    BY <1>0, <1>1, <1>2, <2>2 DEF OpenNew, Known, requests
  <2>3. CASE Type
    BY <1>0, <1>2, <2>3 DEF Type, Known, requests, Text, TypeOK
  <2>4. ASSUME NEW r \in Request, NEW n \in Note, Select(r, n)
        PROVE  /\ text' = text /\ documents' = documents
               /\ \A q \in Request : what'[q] = what[q] \/ what'[q].text = None
    <3>1. Send(r, To("open", n, None)) /\ text' = text /\ documents' = documents
      BY <2>4 DEF Select, form, counters
    <3> QED
      BY <3>1, SendFacts
  <2>5. ASSUME NEW r \in Request, Delete(r)
        PROVE  /\ text' = text /\ documents' = documents
               /\ \A q \in Request : what'[q] = what[q] \/ what'[q].text = None
    <3>1. Send(r, To("delete", field, None)) /\ text' = text /\ documents' = documents
          /\ field \in Note
      BY <2>5 DEF Delete, form, counters, TypeOK
    <3> QED
      BY <3>1, SendFacts
  <2>6. ASSUME NEW r \in Request, AutoSave(r) \/ SaveNow(r)
        PROVE  /\ text' = text /\ documents' = documents
               /\ \A q \in Request : what'[q] # None =>
                    \/ what'[q].text = text
                    \/ what[q] # None /\ what'[q].text = what[q].text
    <3>1. Save(r) /\ text' = text /\ documents' = documents /\ text # None
      BY <2>6 DEF AutoSave, SaveNow, form, counters, TypeOK
    <3> QED
      BY <3>1, SaveFacts
  <2>7. ASSUME NEW r \in Request, Serve(r)
        PROVE  /\ text' = text /\ documents' = documents
               /\ \A q \in Request : q # r => what'[q] = what[q]
               /\ what[r] # None
               /\ \/ what'[r].text = what[r].text
                  \/ what[r].note \in Note /\ what'[r].text = notes[what[r].note]
    <3>1. text' = text /\ documents' = documents /\ what[r] # None
      BY <2>7, ServeFacts DEF Serve, form, counters
    <3>2. what[r].kind = "open" => what[r].note \in Note
      BY <3>1, <1>1 DEF TypeOK
    <3> QED
      BY <2>7, <3>1, <3>2, ServeFacts, ServedNotes
  <2>8. ASSUME NEW r \in Request, Answered(r)
        PROVE  /\ documents' = documents /\ what[r] # None
               /\ text' \in {text, what[r].text}
               /\ \A q \in Request : what'[q] \in {what[q], None}
    <3>1. End(r) /\ documents' = documents /\ text' \in {text, what[r].text}
          /\ what[r] # None
      BY <2>8 DEF Answered, Saved, Opened, Deleted, Failed, form, counters, TypeOK
    <3> QED
      BY <3>1, EndFacts
  <2>9. ASSUME NEW r \in Request, Fail(r)
        PROVE  text' = text /\ documents' = documents /\ what' = what
    BY <2>9 DEF Fail, form
  <2> QED
    BY <1>0, <1>1, <1>3, <2>1, <2>2, <2>3, <2>4, <2>5, <2>6, <2>7, <2>8, <2>9
    DEF Next, Known
<1> QED
  BY <1>4, <1>5 DEF Known

LEMMA UnsavedStep ==
  ASSUME TypeOK, RefInv, DocInv, [Next]_vars
  PROVE  Unsaved'
<1> SUFFICES ASSUME field' = None, text' # None, NEW n \in Note, Live(n, text.doc)'
             PROVE  \/ n \in strayed' \/ text'.doc \in doubled'
                    \/ \E r \in Request : Creates(r, text.doc)'
  BY DEF Unsaved
<1>0. /\ Unsaved /\ Known /\ strayed \subseteq strayed' /\ doubled \subseteq doubled'
      /\ None \notin Nat /\ documents \in Nat
  BY DocParts, OnlyServing, Monotone, NoteEditorAssumption
<1>1. CASE OpenNew
  <2>1. text'.doc = documents + 1 /\ notes' = notes
    BY <1>1 DEF OpenNew, database
  <2> QED
    BY <1>0, <2>1 DEF Live, Known
\* Otherwise the form is on the document it was on, and had no id.
<1>2. ASSUME field = None, text # None, text'.doc = text.doc,
             \A r \in Request : Creates(r, text.doc) =>
               Creates(r, text.doc)' \/ text.doc \in doubled'
      PROVE  \/ n \in strayed' \/ text'.doc \in doubled'
             \/ \E r \in Request : Creates(r, text.doc)'
  <2>1. text.doc \in Document /\ Live(n, text.doc)'
    BY <1>2 DEF TypeOK, Text, Live
  <2>2. n \in strayed \/ text.doc \in doubled \/ \E r \in Request : Creates(r, text.doc)
    <3>1. PICK d \in Document : d = text.doc
      BY <2>1
    <3>2. Live(n, d)'
      BY <1>2, <2>1, <3>1 DEF Live
    <3>3. Live(n, d) \/ n \in strayed \/ \E r \in Request : Creates(r, d)
      BY <3>2, LiveWas
    <3> QED
      BY <1>0, <1>2, <3>1, <3>3 DEF Unsaved, Live
  <2> QED
    BY <1>0, <1>2, <2>2 DEF Creates
<1>3. CASE UNCHANGED vars
  BY <1>2, <1>3 DEF vars, form, requests, Creates
<1>4. CASE Type
  <2>1. text'.doc = text.doc /\ text # None
    BY <1>4 DEF Type, TypeOK, Text
  <2> QED
    BY <1>2, <1>4, <2>1 DEF Type, requests, Creates
<1>5. ASSUME NEW q \in Request, (\E m \in Note : Select(q, m)) \/ Delete(q)
      PROVE  UNCHANGED form /\ \A r \in Request : r # q => what'[r] = what[r]
  <2>1. CASE \E m \in Note : Select(q, m)
    BY <2>1, SendFacts DEF Select
  <2>2. CASE Delete(q)
    BY <2>2, SendFacts DEF Delete, TypeOK
  <2> QED
    BY <1>5, <2>1, <2>2
<1>6. ASSUME NEW q \in Request, (\E m \in Note : Select(q, m)) \/ Delete(q)
      PROVE  what[q] = None
  BY <1>6 DEF Select, Delete, Send, TypeOK
<1>7. ASSUME NEW q \in Request, AutoSave(q) \/ SaveNow(q)
      PROVE  /\ UNCHANGED <<field, text>>
             /\ \A r \in Request : Creates(r, text.doc) => Creates(r, text.doc)'
  <2>1. UNCHANGED <<field, text>> /\ Save(q) /\ text # None
    BY <1>7 DEF AutoSave, SaveNow, form, TypeOK
  <2> QED
    BY <2>1, SaveFacts DEF Creates
<1>8. ASSUME NEW q \in Request, Serve(q)
      PROVE  /\ UNCHANGED form
             /\ \A r \in Request : Creates(r, text.doc) => Creates(r, text.doc)'
  BY <1>8, ServeFacts DEF Serve, Creates, form
<1>9. ASSUME NEW q \in Request, Answered(q)
      PROVE  /\ UNCHANGED <<field, text>>
             /\ \A r \in Request : Creates(r, text.doc) =>
                  Creates(r, text.doc)' \/ text.doc \in doubled'
  <2>1. End(q) /\ what[q] # None
    BY <1>9 DEF Answered, Saved, Opened, Deleted, Failed, TypeOK
  <2>2. \A r \in Request : r # q => what'[r] = what[r]
    BY <2>1, EndFacts
  <2>3. what[q].kind # "create" \/ Failed(q)
    BY <1>0, <1>9, <2>1 DEF Answered, Saved, Opened, Deleted, TypeOK
  <2>4. UNCHANGED <<field, text>>
    BY <1>0, <1>9, <2>1 DEF Answered, Saved, Opened, Deleted, Failed, form, TypeOK
  <2>5. Creates(q, text.doc) => text.doc \in doubled'
    BY <2>3 DEF Creates, Failed
  <2> QED
    BY <2>2, <2>4, <2>5 DEF Creates
<1>10. ASSUME NEW q \in Request, Fail(q)
       PROVE  UNCHANGED form /\ what' = what
  BY <1>10 DEF Fail
<1> QED
  BY <1>1, <1>2, <1>3, <1>4, <1>5, <1>6, <1>7, <1>8, <1>9, <1>10
  DEF Next, form, Creates

LEMMA OneStep ==
  ASSUME TypeOK, RefInv, DocInv, OneNotePerDocument, [Next]_vars
  PROVE  OneNotePerDocument'
<1> SUFFICES ASSUME NEW m \in Note, NEW n \in Note, NEW d \in Document,
                    Live(m, d)', Live(n, d)', m # n, m \notin strayed', n \notin strayed'
             PROVE  d \in doubled'
  <2>1. \A n \in Note : notes'[n] # None => notes'[n].doc \in Document
    BY DataStep DEF DataOK, Text
  <2> QED
    BY <2>1 DEF OneNotePerDocument, Live
<1>0. strayed \subseteq strayed' /\ doubled \subseteq doubled'
  BY OnlyServing, Monotone
<1>1. CASE Live(m, d) /\ Live(n, d)
  BY <1>0, <1>1 DEF OneNotePerDocument, Live
<1>2. ASSUME NEW a \in Note, a \notin strayed, Live(a, d),
             NEW r \in Request, Serve(r), Creates(r, d)
      PROVE  d \in doubled
  BY <1>2, DocParts, ServeFacts DEF Once
<1> QED
  BY <1>0, <1>1, <1>2, LiveWas

\* A document is in one note, unless it was created twice or an id strayed.
THEOREM DocumentsAreNotDoubled == Spec => []OneNotePerDocument
<1>1. Init => RefInv
  BY InitRefs
<1>2. Init => DocInv /\ OneNotePerDocument
  <2> SUFFICES ASSUME Init PROVE DocInv /\ OneNotePerDocument
    OBVIOUS
  <2>1. /\ \A n \in Note : notes[n] # None => notes[n].doc = n /\ n <= Existing
        /\ documents = Existing /\ text = None /\ field = None
        /\ \A r \in Request : what[r] = None
    BY DEF Init
  <2> QED
    BY <2>1 DEF DocInv, OneNotePerDocument, Creates
<1>3. TypeOK /\ RefInv /\ [Next]_vars => RefInv'
  BY RefStep
<1>4. TypeOK /\ RefInv /\ DocInv /\ [Next]_vars => DocInv'
  <2> SUFFICES ASSUME TypeOK, RefInv, DocInv, [Next]_vars
               PROVE  Known' /\ Once' /\ Single' /\ Unsaved'
    BY DEF DocInv, Known, Once, Single, Unsaved
  <2> QED
    BY KnownStep, OnceStep, SingleStep, UnsavedStep
<1>5. TypeOK /\ RefInv /\ DocInv /\ OneNotePerDocument /\ [Next]_vars => OneNotePerDocument'
  BY OneStep
<1> QED
  BY <1>1, <1>2, <1>3, <1>4, <1>5, EditorTypeCorrect, PTL DEF Spec
-----------------------------------------------------------------------------
(* What the form shows is saved.                                           *)

\* The two parts of FormInv.
Lone(r) ==
  what[r] # None /\ what[r].kind = "open" /\ what[r].alone =>
    Saving = {} /\ (what[r].text # None => Holds(what[r].note, what[r].text))

Calm ==
  /\ \A q, r \in Saving : q = r
  /\ \A r \in Saving : Own(r)
  /\ Saving = {} /\ ~ timer /\ text # None => Clean

LEMMA FormParts == FormInv <=> (\A r \in Request : Lone(r)) /\ (~ crossed => Calm)
BY DEF FormInv, Lone, Calm

\* A request is a save after a step as before, but for one that is sent as a
\* save or answered.
LEMMA SavingAfter ==
  ASSUME TypeOK, [Next]_vars
  PROVE  /\ Saving' \subseteq Request
         /\ \A r \in Request : r \in Saving' <=>
              what'[r] # None /\ what'[r].kind \in {"create", "update"}
<1>1. TypeOK'
  <2>1. DataOK' /\ RequestsOK'
    BY DataStep, RequestsStep
  <2> QED
    BY <2>1, TypeParts, PTL
<1>2. \A r \in Request : stage'[r] # "free" <=> what'[r] # None
  BY <1>1 DEF TypeOK
<1> QED
  BY <1>2 DEF Saving, Busy

\* A step that leaves the form and the saves alone, and deletes a note at
\* most, leaves them as they were to each other.
LEMMA StillCalm ==
  ASSUME TypeOK, FormInv, [Next]_vars,
         UNCHANGED <<field, text, timer>>, crossed' = crossed,
         \A n \in Note : notes'[n] \in {notes[n], None},
         \A r \in Request : r \in Saving' <=> r \in Saving,
         \A r \in Saving : what'[r] = what[r] /\ (stage'[r] = "served" => stage[r] = "served")
  PROVE  /\ ~ crossed' => Calm'
         /\ \A n \in Note, t \in Text : Holds(n, t) => Holds(n, t)'
<1>1. strayed \subseteq strayed' /\ Saving' = Saving /\ Saving \subseteq Request
  BY OnlyServing, SavingAfter, SavingIs
<1>2. \A n \in Note, t \in Text : Holds(n, t) => Holds(n, t)'
  BY <1>1 DEF Holds
<1>3. ASSUME ~ crossed PROVE Calm'
  <2>1. Calm
    BY <1>3, FormParts
  <2>2. ASSUME NEW r \in Saving PROVE Own(r)'
    <3>1. Own(r) /\ what[r] # None /\ what'[r] = what[r]
      BY <1>1, <2>1, <2>2, SavingIs DEF Calm
    <3>2. what[r].text \in Text /\ (stage[r] = "served" => what[r].note \in Note)
      BY <1>1, <2>2, <3>1, Purposes, SavingIs DEF TypeOK
    <3>3. stage'[r] = "served" => Holds(what[r].note, what[r].text)
      BY <2>2, <3>1 DEF Own
    <3>4. PICK n, t : n = what[r].note /\ t = what[r].text
      OBVIOUS
    <3>5. stage'[r] = "served" => Holds(n, t)'
      BY <1>2, <2>2, <3>2, <3>3, <3>4
    <3> QED
      BY <3>1, <3>4, <3>5 DEF Own, Holds
  <2>3. Clean => Clean' \/ text = None
    <3>1. field \in Note \cup {None} /\ text \in Text \cup {None}
      BY DEF TypeOK
    <3>2. PICK n, t : n = field /\ t = text
      OBVIOUS
    <3>3. Holds(n, t) /\ n \in Note /\ t \in Text => Holds(n, t)'
      BY <1>2
    <3> QED
      BY <3>1, <3>2, <3>3 DEF Clean, Holds
  <2> QED
    BY <1>1, <2>1, <2>2, <2>3 DEF Calm
<1> QED
  BY <1>2, <1>3

LEMMA FormStep ==
  ASSUME TypeOK, FormInv, [Next]_vars
  PROVE  FormInv'
<1> SUFFICES (\A r \in Request : Lone(r)') /\ (~ crossed' => Calm')
  BY DEF FormInv, Lone, Calm
<1>0. /\ \A r \in Request : Lone(r)
      /\ ~ crossed => Calm
      /\ Saving \subseteq Request /\ Saving' \subseteq Request
  BY FormParts, SavingIs, SavingAfter
<1>1. CASE UNCHANGED vars
  BY <1>0, <1>1 DEF vars, database, form, requests, history,
     Lone, Calm, Own, Clean, Holds, Saving, Busy
<1>2. CASE OpenNew
  <2>1. /\ UNCHANGED <<database, requests, strayed>> /\ crossed' = (Saving # {})
        /\ field' = None /\ text'.edit = 0
    BY <1>2 DEF OpenNew
  <2>2. Saving' = Saving
    BY <2>1 DEF Saving, Busy, requests
  <2> QED
    BY <1>0, <2>1, <2>2 DEF Lone, Calm, Clean, Holds, database, requests
<1>3. CASE Type
  <2>1. /\ UNCHANGED <<database, field, requests, history>> /\ timer' = TRUE
        /\ text'.doc = text.doc
    BY <1>3 DEF Type, TypeOK, Text
  <2>2. Saving' = Saving
    BY <2>1 DEF Saving, Busy, requests
  <2>3. \A r \in Saving : Own(r) => Own(r)'
    BY <2>1 DEF Own, Holds, database, requests, history
  <2> QED
    BY <1>0, <2>1, <2>2, <2>3 DEF Lone, Calm, Holds, database, requests, history
<1>4. ASSUME NEW r \in Request, (\E n \in Note : Select(r, n)) \/ Delete(r)
      PROVE  (\A q \in Request : Lone(q)') /\ (~ crossed' => Calm')
  <2>1. /\ UNCHANGED <<database, form, history>> /\ what[r] = None
        /\ \A q \in Request : q # r => what'[q] = what[q] /\ stage'[q] = stage[q]
        /\ what'[r] # None /\ what'[r].kind \in {"open", "delete"}
        /\ what'[r].text = None /\ (what'[r].alone => Saving = {})
    <3>1. CASE \E n \in Note : Select(r, n)
      BY <3>1, SendFacts DEF Select
    <3>2. CASE Delete(r)
      <4>1. /\ Send(r, To("delete", field, None)) /\ field \in Note \cup {None}
            /\ UNCHANGED <<database, form, history>>
        BY <3>2 DEF Delete, TypeOK
      <4> QED
        BY <4>1, SendFacts
    <3> QED
      BY <1>4, <3>1, <3>2
  <2>2. \A q \in Request : q \in Saving' <=> q \in Saving
    BY <2>1, SavingIs, SavingAfter
  <2>3. r \notin Saving /\ Saving' = Saving
    BY <1>0, <2>1, <2>2, SavingIs
  <2>4. ~ crossed' => Calm'
    <3>1. \A n \in Note : notes'[n] \in {notes[n], None}
      BY <2>1 DEF database
    <3>2. \A q \in Saving : what'[q] = what[q] /\ (stage'[q] = "served" => stage[q] = "served")
      BY <1>0, <2>1, <2>3
    <3>3. UNCHANGED <<field, text, timer>> /\ crossed' = crossed
      BY <2>1 DEF form, history
    <3> QED
      BY <2>2, <3>1, <3>2, <3>3, StillCalm
  <2>5. ASSUME NEW q \in Request PROVE Lone(q)'
    <3>1. CASE q = r
      BY <2>1, <2>3, <3>1 DEF Lone
    <3>2. CASE q # r
      BY <1>0, <2>1, <2>3, <3>2 DEF Lone, Holds, database, history
    <3> QED
      BY <3>1, <3>2
  <2> QED
    BY <2>4, <2>5
<1>5. ASSUME NEW r \in Request, AutoSave(r) \/ SaveNow(r)
      PROVE  (\A q \in Request : Lone(q)') /\ (~ crossed' => Calm')
  <2>1. /\ Save(r) /\ text # None /\ UNCHANGED <<field, text, database>>
        /\ crossed' = (crossed \/ Saving # {})
    BY <1>5 DEF AutoSave, SaveNow, Save, form, TypeOK
  <2>2. /\ what'[r] # None /\ what'[r].note = field /\ what'[r].text = text
        /\ what'[r].kind = (IF field = None THEN "create" ELSE "update")
        /\ stage'[r] = "sent"
    BY <2>1, SaveFacts
  <2>3. \A q \in Request : Lone(q)'
    BY <2>1, <2>2, SaveFacts DEF Lone
  <2>4. ASSUME ~ crossed' PROVE Calm'
    <3>1. Saving = {}
      BY <2>1, <2>4
    <3>2. \A q \in Request : q \in Saving' <=> q = r
      BY <2>1, <2>2, <3>1, SaveFacts, SavingAfter, SavingIs
    <3>3. Own(r)'
      BY <2>1, <2>2 DEF Own
    <3> QED
      BY <1>0, <3>2, <3>3 DEF Calm
  <2> QED
    BY <2>3, <2>4

<1>6. ASSUME NEW r \in Request, Serve(r)
      PROVE  (\A q \in Request : Lone(q)') /\ (~ crossed' => Calm')
  <2>1. /\ UNCHANGED <<form, history>>
        /\ what[r] # None /\ what'[r] # None /\ what'[r].kind = what[r].kind
        /\ what'[r].alone = what[r].alone
        /\ \A q \in Request : q # r => what'[q] = what[q] /\ stage'[q] = stage[q]
    BY <1>6, ServeFacts DEF Serve
  <2>2. Saving' = Saving
    BY <1>0, <2>1, SavingIs, SavingAfter
  <2>3. CASE what[r].kind \in {"create", "update"}
    <3>1. r \in Saving
      BY <2>1, <2>3, SavingIs
    <3>2. ASSUME NEW q \in Request PROVE Lone(q)'
      <4>1. CASE q = r
        BY <2>1, <2>3, <4>1 DEF Lone
      <4>2. CASE q # r
        BY <1>0, <2>1, <3>1, <4>2 DEF Lone
      <4> QED
        BY <4>1, <4>2
    <3>3. ASSUME ~ crossed PROVE Own(r)'
      <4>1. Own(r)
        BY <1>0, <3>1, <3>3 DEF Calm
      <4>2. what'[r].text = what[r].text
            /\ (what[r].kind = "update" => what'[r].note = what[r].note)
        BY <1>6, <2>3, ServeFacts
      <4>3. stage'[r] = "served" => Holds(what[r].note, what[r].text)'
        BY <1>6, <2>1, <2>3, <4>2, ServedNotes DEF Holds
      <4> QED
        BY <2>1, <4>1, <4>2, <4>3 DEF Own, Holds, form
    <3>4. ~ crossed' => Calm'
      BY <1>0, <2>1, <2>2, <3>1, <3>3 DEF Calm, history
    <3> QED
      BY <3>2, <3>4
  <2>4. CASE what[r].kind \in {"open", "delete"}
    <3>1. r \notin Saving
      BY <2>4, SavingIs
    <3>2. \A n \in Note : notes'[n] \in {notes[n], None}
      BY <1>6, <2>4, ServedNotes DEF TypeOK, database
    <3>3. /\ UNCHANGED <<field, text, timer>> /\ crossed' = crossed
          /\ \A q \in Request : q \in Saving' <=> q \in Saving
          /\ \A q \in Saving :
               what'[q] = what[q] /\ (stage'[q] = "served" => stage[q] = "served")
      BY <1>0, <2>1, <2>2, <3>1 DEF form, history
    <3>4. /\ ~ crossed' => Calm'
          /\ \A n \in Note, t \in Text : Holds(n, t) => Holds(n, t)'
      BY <3>2, <3>3, StillCalm
    <3>5. ASSUME NEW q \in Request, q # r PROVE Lone(q)'
      <4> SUFFICES ASSUME what[q] # None, what[q].kind = "open", what[q].alone,
                          what[q].text # None
                   PROVE  Holds(what[q].note, what[q].text)'
        BY <1>0, <2>1, <2>2, <3>5 DEF Lone
      <4>1. what[q].note \in Note /\ what[q].text \in Text
            /\ Holds(what[q].note, what[q].text)
        BY <1>0, Purposes DEF Lone, TypeOK
      <4>2. PICK n \in Note, t \in Text : n = what[q].note /\ t = what[q].text
        BY <4>1
      <4>3. Holds(n, t)'
        BY <3>4, <4>1, <4>2
      <4> QED
        BY <2>1, <3>5, <4>2, <4>3 DEF Holds
    <3>6. Lone(r)'
      <4> SUFFICES ASSUME what[r].kind = "open", what[r].alone, what'[r].text # None
                   PROVE  Holds(what[r].note, what[r].text)'
        BY <1>0, <2>1, <2>2 DEF Lone
      <4>1. what'[r].note = what[r].note /\ UNCHANGED database
        BY <1>6, ServeFacts, ServedNotes
      <4>2. what'[r].text = notes[what[r].note] \/ what' = what
        BY <1>6, ServedNotes
      <4>3. CASE what'[r].text = notes[what[r].note]
        BY <4>1, <4>3 DEF Holds, database
      <4>4. CASE what' = what
        BY <1>0, <2>1, <4>1, <4>4 DEF Holds, Lone, database, history
      <4> QED
        BY <4>2, <4>3, <4>4
    <3> QED
      BY <3>4, <3>5, <3>6
  <2> QED
    BY <2>1, <2>3, <2>4, Purposes
<1>7. ASSUME NEW r \in Request, Answered(r)
      PROVE  (\A q \in Request : Lone(q)') /\ (~ crossed' => Calm')
  <2>1. /\ End(r) /\ UNCHANGED <<database, timer>> /\ strayed \subseteq strayed'
        /\ what[r] # None
    <3>1. End(r) /\ UNCHANGED <<database, timer>> /\ what[r] # None
      BY <1>7 DEF Answered, Saved, Opened, Deleted, Failed, form, TypeOK
    <3> QED
      BY <3>1, OnlyServing
  <2>2. /\ what'[r] = None
        /\ \A q \in Request : q # r => what'[q] = what[q] /\ stage'[q] = stage[q]
    BY <2>1, EndFacts
  <2>3. Saving' = Saving \ {r}
    BY <1>0, <2>2, SavingIs, SavingAfter
  <2>4. ASSUME NEW q \in Request PROVE Lone(q)'
    <3>1. CASE q = r
      BY <2>2, <3>1 DEF Lone
    <3>2. CASE q # r
      BY <1>0, <2>1, <2>2, <2>3, <3>2 DEF Lone, Holds, database
    <3> QED
      BY <3>1, <3>2
  <2>5. CASE Saved(r)
    <3> SUFFICES ASSUME ~ crossed' PROVE Calm'
      BY <2>4
    <3>1. ~ crossed /\ UNCHANGED text /\ r \in Saving /\ stage[r] = "served"
      BY <2>1, <2>5, SavingIs DEF Saved
    <3>2. Own(r) /\ Saving' = {}
      BY <1>0, <2>3, <3>1 DEF Calm
    <3>3. what[r].note # None /\ what[r].note \in Note /\ what[r].text \in Text
      BY <2>1, <2>5, Purposes DEF Saved, TypeOK
    <3>4. field' = what[r].note
      BY <2>5, <3>2 DEF Saved, Own
    <3>5. Holds(what[r].note, what[r].text)
      BY <3>1, <3>2 DEF Own
    <3>6. ~ timer => what[r].text = text
      BY <3>2 DEF Own
    <3>7. ~ timer' => Clean'
      BY <2>1, <3>1, <3>3, <3>4, <3>5, <3>6 DEF Clean, Holds, database
    <3> QED
      BY <3>2, <3>7 DEF Calm
  <2>6. CASE Opened(r)
    <3> SUFFICES ASSUME ~ crossed' PROVE Calm'
      BY <2>4
    <3>1. /\ what[r].kind = "open" /\ what[r].alone /\ stage[r] = "served"
          /\ field' = what[r].note /\ text' = what[r].text
      BY <2>1, <2>6, Purposes DEF Opened
    <3>2. what[r].note # None /\ what[r].text # None
      BY <2>1, <3>1 DEF TypeOK
    <3>3. Saving = {} /\ Holds(what[r].note, what[r].text)
      BY <1>0, <2>1, <3>1, <3>2 DEF Lone
    <3>4. Clean'
      BY <2>1, <3>1, <3>2, <3>3 DEF Clean, Holds, database
    <3> QED
      BY <2>3, <3>3, <3>4 DEF Calm
  <2>7. CASE Deleted(r)
    <3>1. r \notin Saving
      BY <2>7, SavingIs DEF Deleted
    <3>2. /\ UNCHANGED <<field, text, timer>> /\ crossed' = crossed
          /\ \A n \in Note : notes'[n] \in {notes[n], None}
          /\ \A q \in Request : q \in Saving' <=> q \in Saving
          /\ \A q \in Saving :
               what'[q] = what[q] /\ (stage'[q] = "served" => stage[q] = "served")
      BY <1>0, <2>1, <2>2, <2>3, <2>7, <3>1 DEF Deleted, history, database
    <3> QED
      BY <2>4, <3>2, StillCalm
  <2>8. CASE Failed(r)
    BY <2>4, <2>8 DEF Failed
  <2> QED
    BY <1>7, <2>5, <2>6, <2>7, <2>8 DEF Answered
<1>8. ASSUME NEW r \in Request, Fail(r)
      PROVE  (\A q \in Request : Lone(q)') /\ (~ crossed' => Calm')
  <2>1. /\ UNCHANGED <<database, form, what, history>>
        /\ \A q \in Request : stage'[q] = "served" => stage[q] = "served"
    BY <1>8 DEF Fail, TypeOK
  <2>2. Saving' = Saving
    BY <1>0, <2>1, SavingIs, SavingAfter
  <2>3. ~ crossed' => Calm'
    BY <1>0, <2>1, <2>2, StillCalm DEF database, form, history
  <2> QED
    BY <1>0, <2>1, <2>2, <2>3 DEF Lone, Holds, database, history
<1> QED
  BY <1>1, <1>2, <1>3, <1>4, <1>5, <1>6, <1>7, <1>8 DEF Next

\* At rest, with nothing crossed, what the form shows is what its note holds.
THEOREM FormsAreSaved == Spec => []AutoSaved
<1>1. Init => FormInv
  BY DEF Init, FormInv, Saving, Busy
<1>2. TypeOK /\ FormInv /\ [Next]_vars => FormInv'
  BY FormStep
<1>3. TypeOK /\ FormInv => AutoSaved
  BY DEF TypeOK, FormInv, AutoSaved, Clean, Holds, Saving, Busy
<1> QED
  BY <1>1, <1>2, <1>3, EditorTypeCorrect, PTL DEF Spec
=============================================================================
