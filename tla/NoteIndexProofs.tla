-------------------------- MODULE NoteIndexProofs --------------------------
(* Proofs about NoteIndex, for every set of notes, requests and workers,   *)
(* every retry limit and any number of failing statements and stops.       *)
EXTENDS NoteIndex, TLAPS

-----------------------------------------------------------------------------
(* Type correctness.  A step of a handler is well typed because its task   *)
(* belongs to a request that has been answered, whose note is known, and   *)
(* because no two workers run the same task.                               *)

Reading == {"embed", "wipe", "insert"}

TypeInv ==
  /\ TypeOK
  /\ \A t \in Task : status[t] # "new" => request[t] = "answered"
  /\ \A w \in Worker : step[w] # "idle" => status[task[w]] = "running"
  /\ \A w \in Worker : step[w] \in Reading => seen[w] \in Task
  /\ \A v, w \in Worker : step[v] # "idle" /\ task[v] = task[w] => v = w

\* The note of a task at work exists or has existed.
LEMMA TaskHasNote ==
  ASSUME TypeInv, NEW w \in Worker, step[w] # "idle"
  PROVE  /\ task[w] \in Task /\ target[task[w]] \in Note
         /\ request[task[w]] = "answered" /\ status[task[w]] = "running"
<1>1. task[w] \in Task
  BY DEF TypeInv, TypeOK
<1>2. status[task[w]] = "running" /\ request[task[w]] = "answered"
  BY <1>1 DEF TypeInv
<1>3. target[task[w]] \in Note
  BY <1>1, <1>2, NoteIndexAssumption DEF TypeInv, TypeOK
<1> QED BY <1>1, <1>2, <1>3

LEMMA InitType == Init => TypeInv
<1> SUFFICES ASSUME Init PROVE TypeInv
  OBVIOUS
<1>1. 0 \in 0 .. MaxErrors /\ 0 \in 0 .. MaxHalts
  BY NoteIndexAssumption
<1>2. TypeOK
  BY <1>1, NoteIndexAssumption
  DEF Init, TypeOK, Queue!LInit, Queue!Status, RequestState, Step
<1> QED BY <1>2 DEF Init, TypeInv, Reading, Queue!LInit

LEMMA WebType ==
  ASSUME TypeInv, NEW t \in Task, NEW x \in Note,
         Create(t, x) \/ Update(t, x) \/ Request(t) \/ RequestError(t) \/ Delete(x)
  PROVE  TypeInv'
<1> USE DEF TypeInv, TypeOK, Reading, queue, worker, budget, Advance, Write,
            RequestState
<1>1. CASE Create(t, x) \/ Update(t, x)
  BY <1>1, NoteIndexAssumption DEF Create, Update
<1>2. CASE Refresh(t)
  BY <1>2 DEF Refresh
<1>3. CASE Enqueue(t)
  <2>1. request[t] = "enqueue" /\ status[t] = "new"
    BY <1>3 DEF Enqueue, Queue!Submit, Queue!Move
  <2>2. \A w \in Worker : step[w] # "idle" => task[w] # t
    BY <2>1
  <2> QED BY <1>3, <2>1, <2>2
      DEF Enqueue, Queue!Submit, Queue!Move, Queue!Status
<1>4. CASE RequestError(t)
  BY <1>4, NoteIndexAssumption DEF RequestError
<1>5. CASE Delete(x)
  BY <1>5 DEF Delete, Alive
<1> QED BY <1>1, <1>2, <1>3, <1>4, <1>5 DEF Request

\* A worker that starts, ends or gives up a task leaves the others' alone.
LEMMA TakeType ==
  ASSUME TypeInv, NEW w \in Worker, NEW t \in Task, Take(w, t)
  PROVE  TypeInv'
<1>1. /\ step[w] = "idle" /\ status[t] = "waiting"
      /\ status' = [status EXCEPT ![t] = "running"]
      /\ tries' = [tries EXCEPT ![t] = @ + 1]
      /\ step' = [step EXCEPT ![w] = "read"] /\ task' = [task EXCEPT ![w] = t]
      /\ UNCHANGED <<text, request, target, chunks, seen, doomed, errors, halts>>
  BY DEF Take, Queue!Start, Queue!Move, Goto, web, budget
<1>2. \A v \in Worker : step[v] # "idle" => task[v] # t
  BY <1>1 DEF TypeInv
<1>3. TypeOK'
  BY <1>1, NoteIndexAssumption DEF TypeInv, TypeOK, Queue!Status, Step
<1> QED BY <1>1, <1>2, <1>3 DEF TypeInv, TypeOK, Reading

\* The end of a handler, however it ends.
LEMMA EndType ==
  ASSUME TypeInv, NEW w \in Worker, step[w] # "idle", Idle(w),
         NEW s \in Queue!Status \ {"new"},
         status' = [status EXCEPT ![task[w]] = s],
         UNCHANGED <<text, request, target, tries>>,
         chunks' \in [Note -> SUBSET Generation],
         errors' \in 0 .. MaxErrors, halts' \in 0 .. MaxHalts
  PROVE  TypeInv'
<1>1. task[w] \in Task /\ request[task[w]] = "answered"
  BY TaskHasNote
<1>2. /\ step' = [step EXCEPT ![w] = "idle"] /\ task' = [task EXCEPT ![w] = None]
      /\ seen' = [seen EXCEPT ![w] = None] /\ doomed' = [doomed EXCEPT ![w] = {}]
  BY DEF Idle, Goto
<1>3. TypeOK'
  BY <1>1, <1>2, NoteIndexAssumption DEF TypeInv, TypeOK, Step
<1>4. \A v \in Worker : step'[v] # "idle" =>
        v # w /\ step[v] # "idle" /\ task[v] # task[w] /\ task[v] \in Task
  BY <1>2 DEF TypeInv, TypeOK
<1> QED BY <1>1, <1>2, <1>3, <1>4 DEF TypeInv, TypeOK, Reading

LEMMA ReplaceType ==
  ASSUME TypeInv, NEW w \in Worker, step[w] = "insert", Replace(w)
  PROVE  chunks' \in [Note -> SUBSET Generation]
<1>1. task[w] \in Task /\ target[task[w]] \in Note /\ seen[w] \in Task
  BY TaskHasNote DEF TypeInv, Reading
<1>2. [text |-> seen[w], by |-> task[w]] \in Generation
  BY <1>1 DEF Generation
<1> QED BY <1>1, <1>2 DEF Replace, TypeInv, TypeOK

LEMMA MaybeCommittedType ==
  ASSUME TypeInv, NEW w \in Worker, MaybeCommitted(w)
  PROVE  chunks' \in [Note -> SUBSET Generation]
<1>1. CASE UNCHANGED chunks
  BY <1>1 DEF TypeInv, TypeOK
<1>2. CASE step[w] = "insert" /\ Replace(w)
  BY <1>2, ReplaceType
<1> QED BY <1>1, <1>2 DEF MaybeCommitted

\* What Raise, Finish and Lose do to the queue.
LEMMA RaiseQueue ==
  ASSUME NEW w \in Worker, Raise(w)
  PROVE  /\ Idle(w) /\ UNCHANGED tries
         /\ \/ status' = [status EXCEPT ![task[w]] = "waiting"]
            \/ status' = [status EXCEPT ![task[w]] = "dead"]
BY DEF Raise, Queue!Retry, Queue!Bury, Queue!Move

LEMMA HandlerType ==
  ASSUME TypeInv, NEW w \in Worker, Handler(w)
  PROVE  TypeInv'
<1> USE DEF web, queue, worker, budget
<1>1. step[w] # "idle" => /\ task[w] \in Task /\ target[task[w]] \in Note
                          /\ status[task[w]] = "running"
  BY TaskHasNote
<1>2. "waiting" \in Queue!Status \ {"new"} /\ "dead" \in Queue!Status \ {"new"}
      /\ "succeeded" \in Queue!Status \ {"new"}
  BY DEF Queue!Status
<1>3. chunks \in [Note -> SUBSET Generation]
      /\ errors \in 0 .. MaxErrors /\ halts \in 0 .. MaxHalts
  BY DEF TypeInv, TypeOK
<1>4. CASE Read(w)
  <2>1. CASE /\ Alive(target[task[w]])
             /\ seen' = [seen EXCEPT ![w] = text[target[task[w]]]]
             /\ Goto(w, "embed") /\ UNCHANGED <<queue, task, doomed>>
    BY <2>1, <1>1, <1>4 DEF Read, Goto, TypeInv, TypeOK, Alive, Reading, Step
  <2>2. CASE ~ Alive(target[task[w]]) /\ Queue!Finish(task[w]) /\ Idle(w)
    BY <2>2, <1>2, <1>3, <1>4, EndType DEF Read, Queue!Finish, Queue!Move
  <2> QED BY <1>4, <2>1, <2>2 DEF Read
<1>5. CASE Embed(w)
  BY <1>1, <1>5 DEF Embed, Goto, TypeInv, TypeOK, Reading, Step
<1>6. CASE Wipe(w)
  BY <1>1, <1>6 DEF Wipe, Goto, TypeInv, TypeOK, Reading, Step
<1>7. CASE Insert(w)
  <2>1. CASE Replace(w) /\ Queue!Finish(task[w]) /\ Idle(w)
    BY <2>1, <1>2, <1>3, <1>7, ReplaceType, EndType
    DEF Insert, Queue!Finish, Queue!Move
  <2>2. CASE Raise(w) /\ UNCHANGED chunks
    BY <2>2, <1>2, <1>3, <1>7, RaiseQueue, EndType DEF Insert
  <2> QED BY <1>7, <2>1, <2>2 DEF Insert
<1> QED BY <1>4, <1>5, <1>6, <1>7 DEF Handler

LEMMA FaultType ==
  ASSUME TypeInv, NEW w \in Worker, HandlerError(w) \/ Halt(w)
  PROVE  TypeInv'
<1> USE DEF web, queue, worker, budget
<1>1. "waiting" \in Queue!Status \ {"new"} /\ "dead" \in Queue!Status \ {"new"}
      /\ "lost" \in Queue!Status \ {"new"}
  BY DEF Queue!Status
<1>2. errors' \in 0 .. MaxErrors /\ halts' \in 0 .. MaxHalts
  BY NoteIndexAssumption DEF HandlerError, Halt, TypeInv, TypeOK
<1>3. CASE HandlerError(w)
  BY <1>1, <1>2, <1>3, MaybeCommittedType, RaiseQueue, EndType DEF HandlerError
<1>4. CASE step[w] # "idle" /\ Halt(w)
  BY <1>1, <1>2, <1>4, MaybeCommittedType, EndType
  DEF Halt, Queue!Lose, Queue!Move
<1>5. CASE step[w] = "idle" /\ Halt(w)
  <2>1. PICK t \in Task : status[t] = "waiting" /\ Queue!Lose(t)
    BY <1>5 DEF Halt
  <2>2. status' = [status EXCEPT ![t] = "lost"] /\ UNCHANGED tries
    BY <2>1 DEF Queue!Lose, Queue!Move
  <2>3. \A v \in Worker : step[v] # "idle" => task[v] # t
    BY <2>1 DEF TypeInv
  <2> QED BY <1>1, <1>2, <1>5, <2>1, <2>2, <2>3
      DEF Halt, TypeInv, TypeOK, Reading
<1> QED BY <1>3, <1>4, <1>5

LEMMA TypeStep == TypeInv /\ [Next]_vars => TypeInv'
<1> SUFFICES ASSUME TypeInv, [Next]_vars PROVE TypeInv'
  OBVIOUS
<1>1. CASE UNCHANGED vars
  BY <1>1 DEF vars, web, queue, worker, budget, TypeInv, TypeOK, Reading
<1>2. ASSUME NEW t \in Task, NEW x \in Note, Create(t, x) \/ Update(t, x)
      PROVE  TypeInv'
  BY <1>2, WebType
<1>3. ASSUME NEW t \in Task, Request(t) \/ RequestError(t) PROVE TypeInv'
  <2>1. target[t] \in Note
    BY <1>3, NoteIndexAssumption
    DEF Request, Refresh, Enqueue, RequestError, TypeInv, TypeOK
  <2> QED BY <1>3, <2>1, WebType
<1>4. ASSUME NEW x \in Note, Delete(x) PROVE TypeInv'
  <2>1. text[x] \in Task
    BY <1>4 DEF Delete, Alive
  <2> QED BY <1>4, <2>1, WebType
<1>5. ASSUME NEW w \in Worker, NEW t \in Task, Take(w, t) PROVE TypeInv'
  BY <1>5, TakeType
<1>6. ASSUME NEW w \in Worker, Handler(w) \/ HandlerError(w) \/ Halt(w)
      PROVE  TypeInv'
  BY <1>6, HandlerType, FaultType
<1> QED BY <1>1, <1>2, <1>3, <1>4, <1>5, <1>6 DEF Next

\* Every state has its type, and in particular a worker that is not idle runs
\* a task of an existing request.
THEOREM TypeCorrect == Spec => []TypeOK
<1>1. TypeInv => TypeOK
  BY DEF TypeInv
<1> QED BY InitType, TypeStep, <1>1, PTL DEF Spec
-----------------------------------------------------------------------------
(* How the texts and the chunks of a note change, whoever acts.            *)

\* The text of a note is that of a request to it, and a note that was deleted
\* is not created again.
TextInv ==
  /\ \A x \in Note : Alive(x) => target[text[x]] = x
  /\ \A t \in Task : target[t] # None => text[target[t]] # None

\* A web request writes to one note, under a name no other request had.
LEMMA WriteStep ==
  ASSUME TypeInv, NEW t \in Task, NEW x \in Note,
         Create(t, x) \/ Update(t, x)
  PROVE  /\ request[t] = "idle" /\ target[t] = None /\ status[t] = "new"
         /\ text' = [text EXCEPT ![x] = t]
         /\ target' = [target EXCEPT ![t] = x]
         /\ UNCHANGED <<chunks, status, step, task, seen, doomed>>
         /\ text[x] = None \/ Alive(x)
BY DEF Create, Update, Write, queue, worker, TypeInv, TypeOK

\* What a handler, a failing statement or a stop may do to the chunks.
LEMMA WorkerChunks ==
  ASSUME TypeInv, NEW w \in Worker, Handler(w) \/ HandlerError(w) \/ Halt(w)
  PROVE  /\ UNCHANGED <<text, target>>
         /\ \/ UNCHANGED chunks
            \/ step[w] = "insert" /\ Alive(target[task[w]]) /\ Replace(w)
BY DEF Handler, Read, Embed, Wipe, Insert, HandlerError, Halt, MaybeCommitted, web

\* Every step, seen from the texts and the chunks.
LEMMA StepOfNext ==
  ASSUME TypeInv, [Next]_vars
  PROVE  \/ UNCHANGED <<text, target, chunks>>
         \/ \E t \in Task, x \in Note : Create(t, x) \/ Update(t, x)
         \/ \E x \in Note : Delete(x)
         \/ \E w \in Worker : /\ Handler(w) \/ HandlerError(w) \/ Halt(w)
                              /\ step[w] = "insert" /\ Alive(target[task[w]])
                              /\ Replace(w) /\ UNCHANGED <<text, target>>
<1>1. CASE UNCHANGED vars
  BY <1>1 DEF vars, web
<1>2. ASSUME NEW t \in Task, Request(t) \/ RequestError(t)
      PROVE  UNCHANGED <<text, target, chunks>>
  BY <1>2 DEF Request, Refresh, Enqueue, RequestError
<1>3. ASSUME NEW w \in Worker, NEW t \in Task, Take(w, t)
      PROVE  UNCHANGED <<text, target, chunks>>
  BY <1>3 DEF Take, web
<1> QED BY <1>1, <1>2, <1>3, WorkerChunks DEF Next

\* A generation is added to the chunks of the note of the task, whatever
\* else is removed.
LEMMA ReplaceChunks ==
  ASSUME TypeInv, NEW w \in Worker, step[w] = "insert", Replace(w)
  PROVE  LET x   == target[task[w]]
             new == [text |-> seen[w], by |-> task[w]]
         IN  /\ x \in Note
             /\ chunks'[x] = (chunks[x] \ doomed[w]) \cup {new}
             /\ \A y \in Note \ {x} : chunks'[y] = chunks[y]
BY TaskHasNote DEF Replace, TypeInv, TypeOK

LEMMA TextStep == TypeInv /\ TextInv /\ [Next]_vars => TextInv'
<1> SUFFICES ASSUME TypeInv, TextInv, [Next]_vars PROVE TextInv'
  OBVIOUS
<1>1. CASE UNCHANGED <<text, target>>
  BY <1>1 DEF TextInv, Alive
<1>2. ASSUME NEW t \in Task, NEW x \in Note, Create(t, x) \/ Update(t, x)
      PROVE  TextInv'
  BY <1>2, WriteStep, NoteIndexAssumption DEF TextInv, Alive, TypeInv, TypeOK
<1>3. ASSUME NEW x \in Note, Delete(x) PROVE TextInv'
  BY <1>3, NoteIndexAssumption DEF Delete, TextInv, Alive, TypeInv, TypeOK
<1> QED BY <1>1, <1>2, <1>3, StepOfNext

\* Chunks belong to living notes.
LEMMA OrphanStep == TypeInv /\ NoOrphans /\ [Next]_vars => NoOrphans'
<1> SUFFICES ASSUME TypeInv, NoOrphans, [Next]_vars PROVE NoOrphans'
  OBVIOUS
<1>1. CASE UNCHANGED <<text, target, chunks>>
  BY <1>1 DEF NoOrphans, Alive
<1>2. ASSUME NEW t \in Task, NEW x \in Note, Create(t, x) \/ Update(t, x)
      PROVE  NoOrphans'
  BY <1>2, WriteStep DEF NoOrphans, Alive, TypeInv, TypeOK
<1>3. ASSUME NEW x \in Note, Delete(x) PROVE NoOrphans'
  BY <1>3 DEF Delete, NoOrphans, Alive, TypeInv, TypeOK
<1>4. ASSUME NEW w \in Worker, step[w] = "insert", Alive(target[task[w]]),
             Replace(w), UNCHANGED <<text, target>>
      PROVE  NoOrphans'
  BY <1>4, ReplaceChunks DEF NoOrphans, Alive
<1> QED BY <1>1, <1>2, <1>3, <1>4, StepOfNext

\* An indexed note that stays alive stays indexed.
LEMMA FindableStep ==
  TypeInv /\ [Next]_vars =>
    \A x \in Note : chunks[x] # {} /\ Alive(x)' => chunks'[x] # {}
<1> SUFFICES ASSUME TypeInv, [Next]_vars, NEW x \in Note,
                    chunks[x] # {}, Alive(x)'
             PROVE  chunks'[x] # {}
  OBVIOUS
<1>1. CASE \E t \in Task, y \in Note : Create(t, y) \/ Update(t, y)
  BY <1>1, WriteStep
<1>2. ASSUME NEW y \in Note, Delete(y) PROVE chunks'[x] # {}
  BY <1>2, NoteIndexAssumption DEF Delete, Alive, TypeInv, TypeOK
<1>3. ASSUME NEW w \in Worker, step[w] = "insert", Replace(w)
      PROVE  chunks'[x] # {}
  BY <1>3, ReplaceChunks
<1> QED BY <1>1, <1>2, <1>3, StepOfNext

\* With any number of workers no chunk outlives its note: the foreign key
\* refuses the insert of a handler that read the note before its deletion.
THEOREM DeletedIsNotFound == Spec => []NoOrphans
<1>1. Init => NoOrphans
  BY DEF Init, NoOrphans
<1> QED BY <1>1, InitType, TypeStep, OrphanStep, PTL DEF Spec

\* With any number of workers an indexed note has chunks in every state until
\* it is deleted: the wipe and the insert are one transaction.
THEOREM IndexedStaysFindable == Spec => StaysFindable
<1>1. TypeInv /\ [Next]_vars =>
        [\A x \in Note : chunks[x] # {} /\ Alive(x)' => chunks'[x] # {}]_vars
  BY FindableStep
<1> QED BY <1>1, InitType, TypeStep, PTL DEF Spec, StaysFindable
-----------------------------------------------------------------------------
(* A success is indexed, with any number of workers.                       *)

\* The tasks a step declares succeeded were running, and their handler found
\* the note gone or inserted its generation.
LEMMA FinishStep ==
  ASSUME TypeInv, [Next]_vars, NEW t \in Task, status'[t] = "succeeded"
  PROVE  \/ status[t] = "succeeded"
         \/ /\ UNCHANGED <<text, target>>
            /\ ~ Alive(target[t]) \/ chunks'[target[t]] # {}
<1>1. CASE UNCHANGED status
  BY <1>1
<1>2. ASSUME NEW u \in Task, Enqueue(u) PROVE status[t] = "succeeded"
  BY <1>2 DEF Enqueue, Queue!Submit, Queue!Move, TypeInv, TypeOK
<1>3. ASSUME NEW w \in Worker, NEW u \in Task, Take(w, u)
      PROVE  status[t] = "succeeded"
  BY <1>3 DEF Take, Queue!Start, Queue!Move, TypeInv, TypeOK
<1>4. ASSUME NEW w \in Worker, Raise(w) PROVE status[t] = "succeeded"
  BY <1>4, RaiseQueue DEF TypeInv, TypeOK
<1>5. ASSUME NEW u \in Task, Queue!Lose(u) PROVE status[t] = "succeeded"
  BY <1>5 DEF Queue!Lose, Queue!Move, TypeInv, TypeOK
<1>6. ASSUME NEW w \in Worker, Queue!Finish(task[w]), t # task[w]
      PROVE  status[t] = "succeeded"
  BY <1>6 DEF Queue!Finish, Queue!Move, TypeInv, TypeOK
<1>7. ASSUME NEW w \in Worker, Handler(w)
      PROVE  \/ status[t] = "succeeded"
             \/ /\ UNCHANGED <<text, target>>
                /\ ~ Alive(target[t]) \/ chunks'[target[t]] # {}
  <2>1. CASE Read(w)
    BY <1>1, <1>6, <2>1 DEF Read, web, queue
  <2>2. CASE Embed(w) \/ Wipe(w)
    BY <1>1, <2>2 DEF Embed, Wipe, queue
  <2>3. CASE Insert(w)
    BY <1>4, <1>6, <2>3, ReplaceChunks DEF Insert, web
  <2> QED BY <1>7, <2>1, <2>2, <2>3 DEF Handler
<1>8. ASSUME NEW w \in Worker, HandlerError(w) \/ Halt(w)
      PROVE  status[t] = "succeeded"
  <2>1. CASE HandlerError(w)
    BY <1>4, <2>1 DEF HandlerError
  <2>2. CASE Halt(w) /\ step[w] # "idle"
    BY <2>2, <1>5, TaskHasNote DEF Halt
  <2>3. CASE Halt(w) /\ step[w] = "idle"
    BY <2>3, <1>5 DEF Halt
  <2> QED BY <1>8, <2>1, <2>2, <2>3
<1>9. ASSUME NEW u \in Task, NEW x \in Note, Create(u, x) \/ Update(u, x)
      PROVE  UNCHANGED status
  BY <1>9, WriteStep
<1>10. ASSUME NEW x \in Note, Delete(x) PROVE UNCHANGED status
  BY <1>10 DEF Delete, queue
<1>11. ASSUME NEW u \in Task, Refresh(u) \/ RequestError(u) PROVE UNCHANGED status
  BY <1>11 DEF Refresh, RequestError, queue
<1> QED
  <2>1. CASE Next
    BY <2>1, <1>1, <1>2, <1>3, <1>7, <1>8, <1>9, <1>10, <1>11 DEF Next, Request
  <2>2. CASE UNCHANGED vars
    BY <2>2, <1>1 DEF vars, queue
  <2> QED BY <2>1, <2>2

\* A note that has had a text and is gone does not come back.
LEMMA GoneStep ==
  ASSUME TypeInv, TextInv, [Next]_vars, NEW t \in Task, target[t] # None,
         ~ Alive(target[t])
  PROVE  target'[t] = target[t] /\ ~ Alive(target[t])'
<1>1. CASE UNCHANGED <<text, target>>
  BY <1>1 DEF Alive
<1>2. ASSUME NEW u \in Task, NEW x \in Note, Create(u, x) \/ Update(u, x)
      PROVE  target'[t] = target[t] /\ ~ Alive(target[t])'
  BY <1>2, WriteStep DEF TextInv, Alive, TypeInv, TypeOK
<1>3. ASSUME NEW x \in Note, Delete(x)
      PROVE  target'[t] = target[t] /\ ~ Alive(target[t])'
  BY <1>3, NoteIndexAssumption DEF Delete, Alive, TypeInv, TypeOK
<1> QED BY <1>1, <1>2, <1>3, StepOfNext

LEMMA TargetStays ==
  ASSUME TypeInv, [Next]_vars, NEW t \in Task, target[t] # None
  PROVE  target'[t] = target[t]
BY StepOfNext, WriteStep DEF Delete, TypeInv, TypeOK

LEMMA SuccessStep ==
  TypeInv /\ TextInv /\ SuccessIsIndexed /\ [Next]_vars => SuccessIsIndexed'
<1> SUFFICES ASSUME TypeInv, TextInv, SuccessIsIndexed, [Next]_vars,
                    NEW t \in Task, status'[t] = "succeeded",
                    text'[target'[t]] \in Task
             PROVE  chunks'[target'[t]] # {}
  BY DEF SuccessIsIndexed, Alive
<1>1. CASE status[t] = "succeeded"
  <2>1. target[t] \in Note /\ target[t] # None /\ target'[t] = target[t]
    BY <1>1, TargetStays, NoteIndexAssumption DEF TypeInv, TypeOK
  <2>2. Alive(target[t])
    BY <2>1, GoneStep DEF Alive
  <2>3. chunks[target[t]] # {}
    BY <1>1, <2>2 DEF SuccessIsIndexed
  <2> QED BY <2>1, <2>3, FindableStep DEF Alive
<1>2. CASE status[t] # "succeeded"
  BY <1>2, FinishStep DEF Alive
<1> QED BY <1>1, <1>2

LEMMA InitText == Init => TextInv /\ SuccessIsIndexed
BY NoteIndexAssumption DEF Init, TextInv, SuccessIsIndexed, Alive, Queue!LInit

\* With any number of workers a task that has succeeded has left its note with
\* chunks, and no other worker's transaction takes them away for good.
THEOREM SuccessMeansIndexed == Spec => []SuccessIsIndexed
BY InitText, InitType, TypeStep, TextStep, SuccessStep, PTL DEF Spec
-----------------------------------------------------------------------------
(* Whose text the index holds, with any number of workers.                 *)

\* The index of a note is made of texts of that note, by its own tasks, and
\* what a handler holds is a text of the note its task is about.
SourceInv ==
  /\ \A x \in Note : \A g \in chunks[x] : target[g.text] = x /\ target[g.by] = x
  /\ \A w \in Worker : step[w] \in Reading => target[seen[w]] = target[task[w]]

IndexHoldsItsNote ==
  \A x \in Note : \A g \in chunks[x] : target[g.text] = x

LEMMA SourceChunks ==
  ASSUME TypeInv, SourceInv, [Next]_vars
  PROVE  \A x \in Note : \A g \in chunks'[x] : target'[g.text] = x /\ target'[g.by] = x
<1>1. CASE UNCHANGED <<text, target, chunks>>
  BY <1>1 DEF SourceInv
<1>2. ASSUME NEW t \in Task, NEW y \in Note, Create(t, y) \/ Update(t, y),
             NEW x \in Note, NEW g \in chunks'[x]
      PROVE  target'[g.text] = x /\ target'[g.by] = x
  <2>1. /\ target[t] = None /\ target' = [target EXCEPT ![t] = y]
        /\ g \in chunks[x]
    BY <1>2, WriteStep
  <2>2. g.text # t /\ g.by # t
    BY <2>1, NoteIndexAssumption DEF SourceInv
  <2>3. target'[g.text] = target[g.text] /\ target'[g.by] = target[g.by]
    BY <2>1, <2>2 DEF TypeInv, TypeOK, Generation
  <2> QED BY <2>1, <2>3 DEF SourceInv
<1>3. ASSUME NEW y \in Note, Delete(y), NEW x \in Note, NEW g \in chunks'[x]
      PROVE  target'[g.text] = x /\ target'[g.by] = x
  BY <1>3 DEF Delete, SourceInv, TypeInv, TypeOK
<1>4. ASSUME NEW w \in Worker, step[w] = "insert", Replace(w),
             UNCHANGED <<text, target>>, NEW x \in Note, NEW g \in chunks'[x]
      PROVE  target'[g.text] = x /\ target'[g.by] = x
  BY <1>4, ReplaceChunks DEF SourceInv, Reading
<1> QED BY <1>1, <1>2, <1>3, <1>4, StepOfNext

LEMMA SourceStep == TypeInv /\ TextInv /\ SourceInv /\ [Next]_vars => SourceInv'
<1> SUFFICES ASSUME TypeInv, TextInv, SourceInv, [Next]_vars,
                    NEW w \in Worker, step'[w] \in Reading
             PROVE  target'[seen'[w]] = target'[task'[w]]
  BY SourceChunks DEF SourceInv
<1> USE DEF web, queue, worker
<1>1. CASE UNCHANGED <<target, step, task, seen>>
  BY <1>1 DEF SourceInv
<1>2. ASSUME NEW t \in Task, NEW y \in Note, Create(t, y) \/ Update(t, y)
      PROVE  target'[seen'[w]] = target'[task'[w]]
  <2>1. /\ target[t] = None /\ target' = [target EXCEPT ![t] = y]
        /\ UNCHANGED <<step, task, seen>>
    BY <1>2, WriteStep
  <2>2. /\ seen[w] \in Task /\ target[seen[w]] = target[task[w]]
        /\ task[w] \in Task /\ target[task[w]] \in Note
    BY <2>1, TaskHasNote DEF SourceInv, TypeInv, Reading
  <2> QED BY <2>1, <2>2, NoteIndexAssumption DEF TypeInv, TypeOK
<1>3. ASSUME NEW v \in Worker, NEW t \in Task, Take(v, t)
      PROVE  target'[seen'[w]] = target'[task'[w]]
  BY <1>3 DEF Take, Goto, SourceInv, Reading, TypeInv, TypeOK
<1>4. ASSUME NEW v \in Worker, Idle(v), UNCHANGED target
      PROVE  target'[seen'[w]] = target'[task'[w]]
  BY <1>4 DEF Idle, Goto, SourceInv, Reading, TypeInv, TypeOK
<1>5. ASSUME NEW v \in Worker, Embed(v) \/ Wipe(v)
      PROVE  target'[seen'[w]] = target'[task'[w]]
  BY <1>5 DEF Embed, Wipe, Goto, SourceInv, Reading, TypeInv, TypeOK
<1>6. ASSUME NEW v \in Worker, Read(v), ~ Idle(v)
      PROVE  target'[seen'[w]] = target'[task'[w]]
  <2>1. /\ Alive(target[task[v]]) /\ step[v] = "read" /\ UNCHANGED <<target, task>>
        /\ seen' = [seen EXCEPT ![v] = text[target[task[v]]]]
        /\ step' = [step EXCEPT ![v] = "embed"]
    BY <1>6 DEF Read, Goto
  <2>2. target[text[target[task[v]]]] = target[task[v]]
    BY <2>1, TaskHasNote DEF TextInv
  <2> QED BY <2>1, <2>2 DEF SourceInv, TypeInv, TypeOK
<1>7. CASE \E t \in Task : Request(t) \/ RequestError(t)
  BY <1>1, <1>7 DEF Request, Refresh, Enqueue, RequestError
<1>8. CASE \E y \in Note : Delete(y)
  BY <1>1, <1>8 DEF Delete
<1>9. ASSUME NEW v \in Worker, Handler(v) \/ HandlerError(v) \/ Halt(v)
      PROVE  target'[seen'[w]] = target'[task'[w]]
  BY <1>1, <1>4, <1>5, <1>6, <1>9
  DEF Handler, Read, Insert, Raise, HandlerError, Halt
<1>10. CASE UNCHANGED vars
  BY <1>1, <1>10 DEF vars
<1> QED BY <1>2, <1>3, <1>7, <1>8, <1>9, <1>10 DEF Next

\* On any number of workers, out of order, retried, overlapping or stopped, a
\* handler stores under a note what some request wrote to that note: a search
\* may find an outdated text of a note, never one of another.
THEOREM IndexIsOfItsNote == Spec => []IndexHoldsItsNote
<1>1. Init => SourceInv
  BY DEF Init, SourceInv, Reading
<1>2. SourceInv => IndexHoldsItsNote
  BY DEF SourceInv, IndexHoldsItsNote
<1> QED BY <1>1, <1>2, InitType, InitText, TypeStep, TextStep, SourceStep, PTL
    DEF Spec
-----------------------------------------------------------------------------
(* Freshness, when no two handlers of a note overlap.  Between its read and *)
(* its commit the handler holds the current text, or one that has been      *)
(* overwritten by a request whose own task has not run; nobody else touches *)
(* the chunks it will wipe.                                                 *)

AtNote(w, x) == step[w] # "idle" /\ target[task[w]] = x

OneGeneration == \A x \in Note : Alive(x) => \A g, h \in chunks[x] : g = h

SeesAll ==
  \A w \in Worker, x \in Note :
    AtNote(w, x) /\ Alive(x) /\ step[w] \in {"wipe", "insert"} => doomed[w] = chunks[x]

SeesCurrent ==
  \A w \in Worker, x \in Note :
    AtNote(w, x) /\ Alive(x) /\ step[w] \in Reading =>
      \/ seen[w] = text[x]
      \/ status[text[x]] # "succeeded" /\ text[x] # task[w]

FreshInv == OneGeneration /\ FreshOnceIndexed /\ SeesAll /\ SeesCurrent

\* Everything the proof of freshness knows before and after a step.
IndexInv == TypeInv /\ TextInv /\ NoOrphans

LEMMA IndexStep == IndexInv /\ [Next]_vars => IndexInv'
BY TypeStep, TextStep, OrphanStep DEF IndexInv

\* Handlers of one note do not overlap between their read and their commit;
\* handlers of different notes may.
Inside(w, x) == AtNote(w, x) /\ step[w] \in Reading

Separate ==
  \A v, w \in Worker, x \in Note : Inside(v, x) /\ Inside(w, x) => v = w

OneWorker == \A v, w \in Worker : v = w

\* The task a handler runs did not write the text of any other living note:
\* each request writes to one note.
LEMMA TextsDiffer ==
  ASSUME IndexInv, NEW w \in Worker, step[w] # "idle", NEW x \in Note, Alive(x),
         x # target[task[w]] \/ ~ Alive(target[task[w]])
  PROVE  text[x] # task[w] /\ text[x] \in Task
BY DEF IndexInv, TextInv, Alive

\* A handler that ends frees its worker and touches no other.
LEMMA IdleOne ==
  ASSUME TypeInv, NEW w \in Worker, Idle(w)
  PROVE  /\ step'[w] = "idle"
         /\ \A v \in Worker \ {w} :
              /\ step'[v] = step[v] /\ task'[v] = task[v]
              /\ seen'[v] = seen[v] /\ doomed'[v] = doomed[v]
BY DEF Idle, Goto, TypeInv, TypeOK

\* A request's commit overwrites a text under a name no task has run for.
LEMMA WriteFresh ==
  ASSUME IndexInv, FreshInv, NEW t \in Task, NEW x \in Note,
         Create(t, x) \/ Update(t, x)
  PROVE  FreshInv'
<1>1. /\ request[t] = "idle" /\ target[t] = None /\ status[t] = "new"
      /\ text' = [text EXCEPT ![x] = t] /\ target' = [target EXCEPT ![t] = x]
      /\ UNCHANGED <<chunks, status, step, task, seen, doomed>>
      /\ text[x] = None \/ Alive(x)
  BY WriteStep DEF IndexInv
<1>2. text'[x] = t /\ \A y \in Note \ {x} : text'[y] = text[y]
  BY <1>1 DEF IndexInv, TypeInv, TypeOK
<1>3. text[x] = None => chunks[x] = {}
  BY NoteIndexAssumption DEF IndexInv, NoOrphans, Alive
<1>4. \A w \in Worker : step[w] # "idle" =>
        task[w] # t /\ target'[task[w]] = target[task[w]]
  BY <1>1, TaskHasNote DEF IndexInv, TypeInv, TypeOK
<1>5. \A w \in Worker : step[w] # "idle" => text[target[task[w]]] # None
  BY TaskHasNote, NoteIndexAssumption DEF IndexInv, TextInv
<1>6. OneGeneration'
  BY <1>1, <1>2, <1>3 DEF FreshInv, OneGeneration, Alive
<1>7. FreshOnceIndexed'
  BY <1>1, <1>2 DEF FreshInv, FreshOnceIndexed, Fresh, Alive
<1>8. SeesAll'
  BY <1>1, <1>2, <1>4, <1>5 DEF FreshInv, SeesAll, AtNote, Alive
<1>9. SeesCurrent'
  BY <1>1, <1>2, <1>4, <1>5 DEF FreshInv, SeesCurrent, AtNote, Alive, Reading
<1> QED BY <1>6, <1>7, <1>8, <1>9 DEF FreshInv

LEMMA DeleteFresh ==
  ASSUME IndexInv, FreshInv, NEW x \in Note, Delete(x)
  PROVE  FreshInv'
<1>1. /\ UNCHANGED <<target, status, step, task, seen, doomed>>
      /\ text' = [text EXCEPT ![x] = Gone] /\ chunks' = [chunks EXCEPT ![x] = {}]
  BY DEF Delete, queue, worker
<1>2. /\ ~ Alive(x)'
      /\ \A y \in Note \ {x} : text'[y] = text[y] /\ chunks'[y] = chunks[y]
  BY <1>1, NoteIndexAssumption DEF IndexInv, TypeInv, TypeOK, Alive
<1>3. OneGeneration' /\ FreshOnceIndexed'
  BY <1>1, <1>2 DEF FreshInv, OneGeneration, FreshOnceIndexed, Fresh, Alive
<1>4. SeesAll' /\ SeesCurrent'
  BY <1>1, <1>2 DEF FreshInv, SeesAll, SeesCurrent, AtNote, Alive, Reading
<1> QED BY <1>3, <1>4 DEF FreshInv

\* Steps of the queue that declare nothing succeeded.
LEMMA QueueFresh ==
  ASSUME IndexInv, FreshInv, UNCHANGED <<text, target, chunks, step, task, seen, doomed>>,
         \A t \in Task : status'[t] = "succeeded" => status[t] = "succeeded"
  PROVE  FreshInv'
<1>1. OneGeneration' /\ FreshOnceIndexed'
  BY DEF FreshInv, OneGeneration, FreshOnceIndexed, Fresh, Alive
<1>2. SeesAll' /\ SeesCurrent'
  BY DEF FreshInv, SeesAll, SeesCurrent, AtNote, Alive, Reading
<1> QED BY <1>1, <1>2 DEF FreshInv

LEMMA TakeFresh ==
  ASSUME IndexInv, FreshInv, NEW w \in Worker, NEW t \in Task, Take(w, t)
  PROVE  FreshInv'
<1>1. /\ step[w] = "idle" /\ UNCHANGED <<text, target, chunks, seen, doomed>>
      /\ status' = [status EXCEPT ![t] = "running"]
      /\ step' = [step EXCEPT ![w] = "read"] /\ task' = [task EXCEPT ![w] = t]
  BY DEF Take, Queue!Start, Queue!Move, Goto, web
<1>2. \A u \in Task : status'[u] = "succeeded" => status[u] = "succeeded"
  BY <1>1 DEF IndexInv, TypeInv, TypeOK
<1>3. step'[w] = "read" /\ \A v \in Worker \ {w} : step'[v] = step[v] /\ task'[v] = task[v]
  BY <1>1 DEF IndexInv, TypeInv, TypeOK
<1>4. OneGeneration' /\ FreshOnceIndexed'
  BY <1>1, <1>2 DEF FreshInv, OneGeneration, FreshOnceIndexed, Fresh, Alive
<1>5. SeesAll' /\ SeesCurrent'
  BY <1>1, <1>2, <1>3 DEF FreshInv, SeesAll, SeesCurrent, AtNote, Alive, Reading
<1> QED BY <1>4, <1>5 DEF FreshInv

\* The steps of a handler that end nothing.
LEMMA HandlerFresh ==
  ASSUME IndexInv, FreshInv, NEW w \in Worker,
         \/ Read(w) /\ step'[w] # "idle"
         \/ Embed(w) \/ Wipe(w)
  PROVE  FreshInv'
<1>1. /\ UNCHANGED <<text, target, chunks, status, task>>
      /\ \/ step[w] = "read" /\ step'[w] = "embed" /\ seen'[w] = text[target[task[w]]]
         \/ /\ step[w] = "embed" /\ step'[w] = "wipe"
            /\ UNCHANGED seen /\ doomed'[w] = chunks[target[task[w]]]
         \/ step[w] = "wipe" /\ step'[w] = "insert" /\ UNCHANGED <<seen, doomed>>
  BY DEF Read, Embed, Wipe, Goto, Idle, web, queue, IndexInv, TypeInv, TypeOK
<1>2. \A v \in Worker \ {w} : /\ step'[v] = step[v] /\ seen'[v] = seen[v]
                              /\ doomed'[v] = doomed[v]
  BY DEF Read, Embed, Wipe, Goto, Idle, IndexInv, TypeInv, TypeOK
<1>3. OneGeneration' /\ FreshOnceIndexed'
  BY <1>1 DEF FreshInv, OneGeneration, FreshOnceIndexed, Fresh, Alive
<1>4. SeesAll'
  BY <1>1, <1>2 DEF FreshInv, SeesAll, AtNote, Alive
<1>5. SeesCurrent'
  BY <1>1, <1>2 DEF FreshInv, SeesCurrent, AtNote, Alive, Reading
<1> QED BY <1>3, <1>4, <1>5 DEF FreshInv

\* The end of a handler that leaves the chunks alone.
LEMMA EndFresh ==
  ASSUME IndexInv, FreshInv, NEW w \in Worker, step[w] # "idle",
         Idle(w), UNCHANGED <<text, target, chunks>>, NEW s \in Queue!Status,
         status' = [status EXCEPT ![task[w]] = s],
         s = "succeeded" => ~ Alive(target[task[w]])
  PROVE  FreshInv'
<1>1. /\ step'[w] = "idle"
      /\ \A v \in Worker \ {w} :
           /\ step'[v] = step[v] /\ task'[v] = task[v]
           /\ seen'[v] = seen[v] /\ doomed'[v] = doomed[v]
  BY IdleOne DEF IndexInv
<1>2. \A x \in Note : Alive(x) /\ status'[text[x]] = "succeeded"
                        => status[text[x]] = "succeeded"
  BY TextsDiffer DEF IndexInv, TypeInv, TypeOK, Alive
<1>3. SeesAll' /\ SeesCurrent'
  BY <1>1, <1>2 DEF FreshInv, SeesAll, SeesCurrent, AtNote, Alive, Reading
<1>4. OneGeneration' /\ FreshOnceIndexed'
  BY <1>2 DEF FreshInv, OneGeneration, FreshOnceIndexed, Fresh, Alive
<1> QED BY <1>3, <1>4 DEF FreshInv

\* The end of a handler whose transaction was committed.
LEMMA ReplaceFresh ==
  ASSUME Separate, IndexInv, FreshInv, NEW w \in Worker, step[w] = "insert",
         Alive(target[task[w]]), Replace(w), Idle(w), UNCHANGED <<text, target>>,
         NEW s \in Queue!Status, status' = [status EXCEPT ![task[w]] = s]
  PROVE  FreshInv'
<1> DEFINE x == target[task[w]]
           new == [text |-> seen[w], by |-> task[w]]
<1>1. /\ step'[w] = "idle"
      /\ \A v \in Worker \ {w} :
           /\ step'[v] = step[v] /\ task'[v] = task[v]
           /\ seen'[v] = seen[v] /\ doomed'[v] = doomed[v]
  BY IdleOne DEF IndexInv
<1>2. \A v \in Worker \ {w} : AtNote(v, x) => step[v] \notin Reading
  BY TaskHasNote DEF Separate, Inside, AtNote, Reading, IndexInv
<1>3. /\ x \in Note /\ doomed[w] = chunks[x]
      /\ \/ seen[w] = text[x]
         \/ status[text[x]] # "succeeded" /\ text[x] # task[w]
  BY TaskHasNote DEF IndexInv, FreshInv, SeesAll, SeesCurrent, AtNote, Reading
<1>4. chunks'[x] = {new} /\ \A y \in Note \ {x} : chunks'[y] = chunks[y]
  BY <1>3, ReplaceChunks DEF IndexInv
<1>5. OneGeneration'
  BY <1>3, <1>4 DEF FreshInv, OneGeneration, Alive
<1>6. status'[text[x]] = "succeeded" =>
        \E g \in chunks'[x] : g.text = text[x] /\ chunks'[x] = {g}
  <2>1. status'[text[x]] = "succeeded" => seen[w] = text[x]
    BY <1>3, TaskHasNote DEF IndexInv, TypeInv, TypeOK, Alive
  <2> QED BY <1>4, <2>1
<1>7. \A y \in Note \ {x} : Alive(y) /\ status'[text[y]] = "succeeded"
                              => status[text[y]] = "succeeded"
  BY TextsDiffer DEF IndexInv, TypeInv, TypeOK, Alive
<1>8. ASSUME NEW y \in Note, Alive(y)', status'[text'[y]] = "succeeded"
      PROVE  Fresh(y)'
  <2>1. text'[y] = text[y] /\ Alive(y)
    BY <1>8 DEF Alive
  <2>2. CASE y = x
    BY <1>6, <1>8, <2>1, <2>2 DEF Fresh
  <2>3. CASE y # x
    <3>1. Fresh(y)
      BY <1>7, <1>8, <2>1, <2>3 DEF FreshInv, FreshOnceIndexed
    <3> QED BY <1>4, <2>1, <2>3, <3>1 DEF Fresh
  <2> QED BY <2>2, <2>3
<1>9. FreshOnceIndexed'
  BY <1>8 DEF FreshOnceIndexed
<1>10. SeesAll' /\ SeesCurrent'
  <2>1. \A v \in Worker, y \in Note :
          AtNote(v, y)' /\ Alive(y)' /\ step'[v] \in Reading =>
            /\ v # w /\ y # x /\ AtNote(v, y) /\ Alive(y)
            /\ step'[v] = step[v] /\ seen'[v] = seen[v]
            /\ doomed'[v] = doomed[v] /\ task'[v] = task[v]
    BY <1>1, <1>2 DEF AtNote, Alive, Reading
  <2>2. SeesAll'
    BY <1>4, <2>1 DEF FreshInv, SeesAll, Reading
  <2>3. SeesCurrent'
    BY <1>7, <2>1 DEF FreshInv, SeesCurrent
  <2> QED BY <2>2, <2>3
<1> QED BY <1>5, <1>9, <1>10 DEF FreshInv

\* Every step of the workers and of the web keeps the index fresh.
LEMMA FreshStep ==
  Separate /\ IndexInv /\ FreshInv /\ [Next]_vars => FreshInv'
<1> SUFFICES ASSUME Separate, IndexInv, FreshInv, [Next]_vars PROVE FreshInv'
  OBVIOUS
<1> USE DEF web, queue, worker, budget
<1>1. CASE UNCHANGED vars
  BY <1>1, QueueFresh DEF vars
<1>2. ASSUME NEW t \in Task, NEW x \in Note, Create(t, x) \/ Update(t, x)
      PROVE  FreshInv'
  BY <1>2, WriteFresh
<1>3. ASSUME NEW t \in Task, Refresh(t) \/ RequestError(t) PROVE FreshInv'
  BY <1>3, QueueFresh DEF Refresh, RequestError
<1>4. ASSUME NEW t \in Task, Enqueue(t) PROVE FreshInv'
  <2>1. \A u \in Task : status'[u] = "succeeded" => status[u] = "succeeded"
    BY <1>4 DEF Enqueue, Queue!Submit, Queue!Move, IndexInv, TypeInv, TypeOK
  <2> QED BY <1>4, <2>1, QueueFresh DEF Enqueue
<1>5. ASSUME NEW x \in Note, Delete(x) PROVE FreshInv'
  BY <1>5, DeleteFresh
<1>6. ASSUME NEW w \in Worker, NEW t \in Task, Take(w, t) PROVE FreshInv'
  BY <1>6, TakeFresh
<1>7. {"waiting", "dead", "lost", "succeeded"} \subseteq Queue!Status
  BY DEF Queue!Status
<1>8. ASSUME NEW w \in Worker, Handler(w) PROVE FreshInv'
  <2>1. CASE \/ Read(w) /\ step'[w] # "idle"
             \/ Embed(w) \/ Wipe(w)
    BY <2>1, HandlerFresh
  <2>2. CASE Read(w) /\ step'[w] = "idle"
    <3>1. ~ Alive(target[task[w]]) /\ Queue!Finish(task[w]) /\ Idle(w)
      BY <2>2 DEF Read, Goto, IndexInv, TypeInv, TypeOK
    <3> QED BY <1>7, <2>2, <3>1, EndFresh DEF Read, Queue!Finish, Queue!Move
  <2>3. CASE Insert(w) /\ Alive(target[task[w]])
    BY <1>7, <2>3, ReplaceFresh DEF Insert, Queue!Finish, Queue!Move
  <2>4. CASE Insert(w) /\ ~ Alive(target[task[w]])
    BY <1>7, <2>4, RaiseQueue, EndFresh DEF Insert
  <2> QED BY <1>8, <2>1, <2>2, <2>3, <2>4 DEF Handler
<1>9. ASSUME NEW w \in Worker, HandlerError(w) PROVE FreshInv'
  <2>1. /\ step[w] # "idle" /\ Idle(w) /\ UNCHANGED <<text, target>>
        /\ \/ status' = [status EXCEPT ![task[w]] = "waiting"]
           \/ status' = [status EXCEPT ![task[w]] = "dead"]
    BY <1>9, RaiseQueue DEF HandlerError
  <2>2. CASE UNCHANGED chunks
    BY <1>7, <2>1, <2>2, EndFresh
  <2>3. CASE step[w] = "insert" /\ Alive(target[task[w]]) /\ Replace(w)
    BY <1>7, <2>1, <2>3, ReplaceFresh
  <2> QED BY <1>9, <2>2, <2>3 DEF HandlerError, MaybeCommitted
<1>10. ASSUME NEW w \in Worker, Halt(w) PROVE FreshInv'
  <2>1. CASE step[w] = "idle"
    <3>1. \A u \in Task : status'[u] = "succeeded" => status[u] = "succeeded"
      BY <1>10, <2>1 DEF Halt, Queue!Lose, Queue!Move, IndexInv, TypeInv, TypeOK
    <3> QED BY <1>10, <2>1, <3>1, QueueFresh DEF Halt
  <2>2. CASE step[w] # "idle"
    <3>1. /\ Idle(w) /\ UNCHANGED <<text, target>> /\ MaybeCommitted(w)
          /\ status' = [status EXCEPT ![task[w]] = "lost"]
      BY <1>10, <2>2 DEF Halt, Queue!Lose, Queue!Move
    <3>2. CASE UNCHANGED chunks
      BY <1>7, <2>2, <3>1, <3>2, EndFresh
    <3>3. CASE step[w] = "insert" /\ Alive(target[task[w]]) /\ Replace(w)
      BY <1>7, <2>2, <3>1, <3>3, ReplaceFresh
    <3> QED BY <3>1, <3>2, <3>3 DEF MaybeCommitted
  <2> QED BY <2>1, <2>2
<1> QED BY <1>1, <1>2, <1>3, <1>4, <1>5, <1>6, <1>8, <1>9, <1>10
    DEF Next, Request

LEMMA InitFresh == Init => IndexInv /\ FreshInv
<1> SUFFICES ASSUME Init PROVE IndexInv /\ FreshInv
  OBVIOUS
<1>1. \A x \in Note : ~ Alive(x) /\ chunks[x] = {}
  BY NoteIndexAssumption DEF Init, Alive
<1>2. \A w \in Worker : step[w] = "idle"
  BY DEF Init
<1>3. IndexInv
  BY <1>1, InitType, InitText DEF IndexInv, NoOrphans
<1> QED BY <1>1, <1>2, <1>3
    DEF FreshInv, OneGeneration, FreshOnceIndexed, SeesAll, SeesCurrent, AtNote

\* The cause of the stale index is the overlap and nothing else: in every
\* behaviour in which no two handlers of a note are between their read and
\* their commit at the same time, a success of the task of the last edit means
\* the index holds its text, once; workers at other notes, tasks out of order,
\* retries, failing statements and stops do no harm.
THEOREM SeparateHandlersKeepFresh ==
  Spec /\ []Separate => []FreshOnceIndexed
<1>1. Separate /\ IndexInv /\ FreshInv /\ [Next]_vars => (IndexInv /\ FreshInv)'
  BY IndexStep, FreshStep
<1>2. FreshInv => FreshOnceIndexed
  BY DEF FreshInv
<1> QED BY InitFresh, <1>1, <1>2, PTL DEF Spec

\* One worker keeps the index fresh: it cannot overlap itself.
THEOREM OneWorkerKeepsFresh ==
  ASSUME OneWorker PROVE Spec => []FreshOnceIndexed
<1>1. Separate
  BY DEF OneWorker, Separate
<1> QED BY <1>1, SeparateHandlersKeepFresh, PTL
=============================================================================
