----------------------------- MODULE NoteIndex -----------------------------
(***************************************************************************)
(* The semantic index of the notes: web requests create, edit and delete a *)
(* note and enqueue an embedding task after their commit; workers run the  *)
(* task generate_note_embeddings, which reads the note, embeds it and      *)
(* replaces its chunks in one READ COMMITTED transaction.                  *)
(*                                                                         *)
(* Abstractions.  A request, the text it commits and the task it enqueues  *)
(* have the same name: Task.  All the chunks one transaction inserts are   *)
(* one generation, the pair of the text they were made from and the task   *)
(* that made them.  The queue is what TaskLifecycle promises: a task is    *)
(* started by one worker at a time and retried a bounded number of times.  *)
(***************************************************************************)
EXTENDS Integers

CONSTANTS
  Note,        \* note ids, never reused
  Task,        \* create and update requests, each with its task
  Worker,      \* worker processes
  MaxRetries,  \* max_retries of each task
  None,        \* no text: a note before its creation; no task: an idle worker
  Gone,        \* no text: a deleted note
  MaxErrors,   \* bound on statements that fail
  MaxHalts     \* bound on processes that stop

ASSUME NoteIndexAssumption ==
  /\ None \notin Task /\ Gone \notin Task /\ None # Gone
  /\ None \notin Note
  /\ MaxRetries \in [Task -> Nat]
  /\ MaxErrors \in Nat /\ MaxHalts \in Nat

VARIABLES
  text,       \* notes: the request whose commit wrote the text, None or Gone
  chunks,     \* note_chunks: the committed generations of each note
  request,    \* what each create or update request does next
  target,     \* the note of a request, the argument of its task
  status,     \* the queue: where each task is in its life
  tries,      \* the queue: attempts started
  step,       \* what the handler a worker runs does next
  task,       \* the task a worker runs
  seen,       \* the text the handler read
  doomed,     \* the generations the handler's DELETE statement found
  errors, halts

web    == <<text, request, target>>
queue  == <<status, tries>>
worker == <<step, task, seen, doomed>>
budget == <<errors, halts>>
vars   == <<web, chunks, queue, worker, budget>>

Queue == INSTANCE TaskLifecycle WITH Unregistered <- {}

Generation == [text : Task, by : Task]
Step == {"idle", "read", "embed", "wipe", "insert"}
RequestState == {"idle", "refresh", "enqueue", "answered", "unqueued"}

Init ==
  /\ text = [x \in Note |-> None] /\ chunks = [x \in Note |-> {}]
  /\ request = [t \in Task |-> "idle"] /\ target = [t \in Task |-> None]
  /\ Queue!LInit
  /\ step = [w \in Worker |-> "idle"] /\ task = [w \in Worker |-> None]
  /\ seen = [w \in Worker |-> None] /\ doomed = [w \in Worker |-> {}]
  /\ errors = 0 /\ halts = 0

Alive(x) == text[x] \in Task

Advance(t, next) == request' = [request EXCEPT ![t] = next]
-----------------------------------------------------------------------------
(* NoteService on the web side.  A request that fails before its commit    *)
(* changes nothing.                                                        *)

Write(t, x) ==
  /\ request[t] = "idle"
  /\ text' = [text EXCEPT ![x] = t]
  /\ target' = [target EXCEPT ![t] = x]

\* create_note, up to the commit
Create(t, x) ==
  /\ text[x] = None /\ Write(t, x) /\ Advance(t, "enqueue")
  /\ UNCHANGED <<chunks, queue, worker, budget>>

\* update_note, up to the commit
Update(t, x) ==
  /\ Alive(x) /\ Write(t, x) /\ Advance(t, "refresh")
  /\ UNCHANGED <<chunks, queue, worker, budget>>

\* db.refresh(note) raises when the note has been deleted meanwhile: the
\* request fails without a task, which nothing needs any more.
Refresh(t) ==
  /\ request[t] = "refresh"
  /\ Advance(t, IF Alive(target[t]) THEN "enqueue" ELSE "unqueued")
  /\ UNCHANGED <<text, target, chunks, queue, worker, budget>>

Enqueue(t) ==
  /\ request[t] = "enqueue"
  /\ Queue!Submit(t) /\ Advance(t, "answered")
  /\ UNCHANGED <<text, target, chunks, worker, budget>>

\* The statement after the commit fails: the enqueue's exception is logged
\* and swallowed, the refresh's is the client's 500.
RequestError(t) ==
  /\ errors < MaxErrors /\ errors' = errors + 1
  /\ request[t] \in {"refresh", "enqueue"} /\ Advance(t, "unqueued")
  /\ UNCHANGED <<text, target, chunks, queue, worker, halts>>

\* Generations an uncommitted DELETE of a worker has locked
Locked(x) ==
  chunks[x] \cap UNION {doomed[w] : w \in {w \in Worker : step[w] = "insert"}}

\* delete_note: chunks go with the note, and wait for locked ones.
Delete(x) ==
  /\ Alive(x) /\ Locked(x) = {}
  /\ text' = [text EXCEPT ![x] = Gone]
  /\ chunks' = [chunks EXCEPT ![x] = {}]
  /\ UNCHANGED <<request, target, queue, worker, budget>>
-----------------------------------------------------------------------------
(* A worker and the handler generate_note_embeddings.                      *)

Goto(w, next) == step' = [step EXCEPT ![w] = next]

Idle(w) ==
  /\ Goto(w, "idle")
  /\ task' = [task EXCEPT ![w] = None]
  /\ seen' = [seen EXCEPT ![w] = None]
  /\ doomed' = [doomed EXCEPT ![w] = {}]

\* Variant: the error is logged and taken for a success.
RaiseSwallowed(w) == Queue!Finish(task[w]) /\ Idle(w)

\* The handler raises: its transaction is rolled back and the worker
\* schedules a retry or gives the task up.
Raise(w) ==
  /\ Queue!Retry(task[w]) \/ Queue!Bury(task[w])
  /\ Idle(w)

\* The worker takes a task; nothing orders the tasks of different requests.
Take(w, t) ==
  /\ step[w] = "idle" /\ Queue!Start(t)
  /\ Goto(w, "read") /\ task' = [task EXCEPT ![w] = t]
  /\ UNCHANGED <<web, chunks, seen, doomed, budget>>

\* Variant: the text to embed travels in the payload.
ReadFromPayload(w) ==
  /\ step[w] = "read"
  /\ \/ /\ Alive(target[task[w]])
        /\ seen' = [seen EXCEPT ![w] = task[w]]
        /\ Goto(w, "embed") /\ UNCHANGED <<queue, task, doomed>>
     \/ /\ ~ Alive(target[task[w]])
        /\ Queue!Finish(task[w]) /\ Idle(w)
  /\ UNCHANGED <<web, chunks, budget>>

\* SELECT the note; a note that is gone needs no chunks.
Read(w) ==
  /\ step[w] = "read"
  /\ LET x == target[task[w]] IN
     \/ /\ Alive(x)
        /\ seen' = [seen EXCEPT ![w] = text[x]]
        /\ Goto(w, "embed") /\ UNCHANGED <<queue, task, doomed>>
     \/ /\ ~ Alive(x)
        /\ Queue!Finish(task[w]) /\ Idle(w)
  /\ UNCHANGED <<web, chunks, budget>>

\* The vectors are computed; DELETE FROM note_chunks takes its snapshot.
Embed(w) ==
  /\ step[w] = "embed"
  /\ doomed' = [doomed EXCEPT ![w] = chunks[target[task[w]]]]
  /\ Goto(w, "wipe")
  /\ UNCHANGED <<web, chunks, queue, task, seen, budget>>

\* Variant: the wipe is committed on its own.
WipeCommitted(w) ==
  /\ step[w] = "wipe"
  /\ doomed[w] \cap Locked(target[task[w]]) = {}
  /\ chunks' = [chunks EXCEPT ![target[task[w]]] = @ \ doomed[w]]
  /\ Goto(w, "insert")
  /\ UNCHANGED <<web, queue, task, seen, doomed, budget>>

\* DELETE waits for another transaction's locks on the rows it found; it
\* locks those that are left and never sees rows inserted since.
Wipe(w) ==
  /\ step[w] = "wipe"
  /\ doomed[w] \cap Locked(target[task[w]]) = {}
  /\ Goto(w, "insert")
  /\ UNCHANGED <<web, chunks, queue, task, seen, doomed, budget>>

Replace(w) ==
  LET t == task[w]
      new == [text |-> seen[w], by |-> t]
  IN  chunks' = [chunks EXCEPT ![target[t]] = (@ \ doomed[w]) \cup {new}]

\* Variant: the table has no foreign key.
InsertUnchecked(w) ==
  /\ step[w] = "insert"
  /\ Replace(w) /\ Queue!Finish(task[w]) /\ Idle(w)
  /\ UNCHANGED <<web, budget>>

\* The INSERTs and the COMMIT; the foreign key refuses a deleted note.
Insert(w) ==
  /\ step[w] = "insert"
  /\ \/ /\ Alive(target[task[w]])
        /\ Replace(w) /\ Queue!Finish(task[w]) /\ Idle(w)
     \/ /\ ~ Alive(target[task[w]])
        /\ Raise(w) /\ UNCHANGED chunks
  /\ UNCHANGED <<web, budget>>

\* The commit may have been applied although its answer was lost.
MaybeCommitted(w) ==
  \/ UNCHANGED chunks
  \/ step[w] = "insert" /\ Alive(target[task[w]]) /\ Replace(w)

\* A statement of the handler raises.
HandlerError(w) ==
  /\ errors < MaxErrors /\ errors' = errors + 1
  /\ step[w] # "idle" /\ MaybeCommitted(w) /\ Raise(w)
  /\ UNCHANGED <<web, halts>>

\* The worker stops: its transaction is rolled back and its task is lost,
\* like one it has popped and not started.
Halt(w) ==
  /\ halts < MaxHalts /\ halts' = halts + 1
  /\ \/ /\ step[w] # "idle" /\ MaybeCommitted(w)
        /\ Queue!Lose(task[w]) /\ Idle(w)
     \/ /\ step[w] = "idle"
        /\ \E t \in Task : status[t] = "waiting" /\ Queue!Lose(t)
        /\ UNCHANGED <<chunks, worker>>
  /\ UNCHANGED <<web, errors>>
-----------------------------------------------------------------------------
Request(t) == Refresh(t) \/ Enqueue(t)

Handler(w) == Read(w) \/ Embed(w) \/ Wipe(w) \/ Insert(w)

Next ==
  \/ \E t \in Task, x \in Note : Create(t, x) \/ Update(t, x)
  \/ \E t \in Task : Request(t) \/ RequestError(t)
  \/ \E x \in Note : Delete(x)
  \/ \E w \in Worker, t \in Task : Take(w, t)
  \/ \E w \in Worker : Handler(w) \/ HandlerError(w) \/ Halt(w)

Spec == Init /\ [][Next]_vars

\* A request that has committed goes on, and a worker keeps working.
Fairness ==
  /\ \A t \in Task : WF_vars(Request(t))
  /\ \A w \in Worker :
       WF_vars(Handler(w)) /\ WF_vars(\E t \in Task : Take(w, t))

FairSpec == Spec /\ Fairness
-----------------------------------------------------------------------------
TypeOK ==
  /\ text \in [Note -> Task \cup {None, Gone}]
  /\ chunks \in [Note -> SUBSET Generation]
  /\ request \in [Task -> RequestState] /\ target \in [Task -> Note \cup {None}]
  /\ \A t \in Task : target[t] = None <=> request[t] = "idle"
  /\ status \in [Task -> Queue!Status] /\ tries \in [Task -> Nat]
  /\ step \in [Worker -> Step] /\ task \in [Worker -> Task \cup {None}]
  /\ \A w \in Worker : task[w] = None <=> step[w] = "idle"
  /\ seen \in [Worker -> Task \cup {None}]
  /\ doomed \in [Worker -> SUBSET Generation]
  /\ errors \in 0 .. MaxErrors /\ halts \in 0 .. MaxHalts

\* The index of a note holds its current text, once, and nothing else.
Fresh(x) == \E g \in chunks[x] : g.text = text[x] /\ chunks[x] = {g}

\* No chunk outlives its note, however the deletion is interleaved with a
\* handler that read the note before it: nothing deleted is ever found.
NoOrphans == \A x \in Note : chunks[x] # {} => Alive(x)

\* Once indexed, a note stays findable until it is deleted: no reader of the
\* table sees it between the wipe and the insert, and no failure leaves it
\* wiped.
StaysFindable ==
  [][\A x \in Note : chunks[x] # {} /\ Alive(x)' => chunks'[x] # {}]_vars

\* A task that succeeded leaves its note indexed: what is reported as done is
\* neither undone by another worker's wipe nor only half done.
SuccessIsIndexed ==
  \A t \in Task : status[t] = "succeeded" /\ Alive(target[t])
                    => chunks[target[t]] # {}

\* With one worker: when the task of the request that wrote the current text
\* has succeeded, the index is fresh, whatever older tasks, out-of-order
\* retries and re-executions come before or after it.
FreshOnceIndexed ==
  \A x \in Note : Alive(x) /\ status[text[x]] = "succeeded" => Fresh(x)

\* The embedding of t's text was given up: no task, a lost or a dead one.
GivenUp(t) == request[t] = "unqueued" \/ status[t] \in {"lost", "dead"}

\* With one worker: every committed text is indexed, or overwritten, or
\* deleted, unless its task was given up.
IndexCatchesUp ==
  \A x \in Note, t \in Task :
    text[x] = t ~> text[x] # t \/ Fresh(x) \/ GivenUp(t)
=============================================================================
