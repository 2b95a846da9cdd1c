----------------------------- MODULE TaskQueue -----------------------------
(***************************************************************************)
(* The background job system: TaskQueue.enqueue on the web side, and on    *)
(* every worker process ("node") one AsyncWorker and one TaskScheduler,    *)
(* all sharing four kinds of Redis keys.  One action is one Redis command  *)
(* (or one handler execution): every await in the code is a point where    *)
(* another process may run.                                                *)
(*                                                                         *)
(* Abstractions.  A payload is the pair the control depends on, its task   *)
(* id and its retry_count; the JSON of two payloads is equal exactly when  *)
(* the pairs are, so a sorted-set member is a payload.  Scores are kept    *)
(* relative to the clock: due[p] is the number of ticks until p is ready.  *)
(* Handlers are opaque: one may return or raise.                           *)
(***************************************************************************)
EXTENDS Integers, Sequences

CONSTANTS
  Node,          \* worker processes; each runs one worker and one scheduler
  Task,          \* task ids, one fresh uuid per enqueue
  Unregistered,  \* tasks whose name has no entry in the handlers dictionary
  MaxRetries,    \* max_retries of each task
  Delays,        \* the values of enqueue's delay argument
  NoJob,         \* a worker that holds no payload
  MaxHalts,      \* bound on process stops and crashes
  MaxErrors,     \* bound on Redis commands that raise
  MaxExpiries    \* bound on idempotency keys that reach their TTL

ASSUME TaskQueueAssumption ==
  /\ Unregistered \subseteq Task
  /\ MaxRetries \in [Task -> Nat]
  /\ Delays \subseteq Nat
  /\ MaxHalts \in Nat /\ MaxErrors \in Nat /\ MaxExpiries \in Nat

Payload == UNION {[task : {t}, retry : 0 .. MaxRetries[t]] : t \in Task}

ASSUME NoJobAssumption == NoJob \notin Payload

VARIABLES
  queue,     \* queue:default, the next payload to pop first
  delayed,   \* queue:delayed, its members
  due,       \* queue:delayed, ticks until a member's score is reached
  dlq,       \* queue:dlq, oldest record first
  lock,      \* task:processed:{task_id}
  pc,        \* the Redis command (or handler) each worker is about to run
  job,       \* the payload each worker holds
  wait,      \* target_time of the retry a worker is scheduling, in ticks
  batch,     \* the members each scheduler fetched and has not promoted yet
  enqueued,  \* history: tasks enqueue was called for
  runs,      \* history: handler executions begun per task
  done,      \* history: handler executions that returned per task
  rest,      \* history: ticks of backoff owed since the last failure
  dropped,   \* history: tasks a payload of which vanished with its holder
  halts, errors, expiries

redis   == <<queue, delayed, due, dlq, lock>>
worker  == <<pc, job, wait>>
history == <<enqueued, runs, done, rest, dropped>>
budget  == <<halts, errors, expiries>>
vars    == <<redis, worker, batch, history, budget>>

LockState == {"absent", "in_progress", "success", "failed"}
Step == {"pop", "claim", "check", "run", "record", "unlock", "requeue",
         "bury", "mark", "shunt"}

Init ==
  /\ queue = <<>> /\ delayed = {} /\ due = [p \in Payload |-> 0]
  /\ dlq = <<>> /\ lock = [t \in Task |-> "absent"]
  /\ pc = [n \in Node |-> "pop"]
  /\ job = [n \in Node |-> NoJob]
  /\ wait = [n \in Node |-> 0]
  /\ batch = [n \in Node |-> {}]
  /\ enqueued = {} /\ dropped = {}
  /\ runs = [t \in Task |-> 0]
  /\ done = [t \in Task |-> 0]
  /\ rest = [t \in Task |-> 0]
  /\ halts = 0 /\ errors = 0 /\ expiries = 0

-----------------------------------------------------------------------------
(* Redis commands and worker helpers the actions are made of.              *)

\* LPUSH queue:default; BRPOP takes from the other end, so this is a FIFO.
Push(p) == queue' = Append(queue, p)

\* ZADD queue:delayed: a member that is already there gets the new score.
ZAdd(p, d) ==
  /\ delayed' = delayed \cup {p}
  /\ due' = [due EXCEPT ![p] = d]

ZRem(p) ==
  /\ delayed' = delayed \ {p}
  /\ due' = [due EXCEPT ![p] = 0]

SetLock(t, s) == lock' = [lock EXCEPT ![t] = s]

\* ZRANGEBYSCORE queue:delayed 0 now
Ready == {p \in delayed : due[p] = 0}

Goto(n, step) == pc' = [pc EXCEPT ![n] = step]

\* The worker is back at BRPOP and holds nothing.
Release(n) ==
  /\ Goto(n, "pop")
  /\ job' = [job EXCEPT ![n] = NoJob]
  /\ wait' = [wait EXCEPT ![n] = 0]

\* The payload in the worker's hands is gone: nothing puts it back.
Drop(n) ==
  /\ Release(n)
  /\ dropped' = dropped \cup {job[n].task}

\* Look up the handler and start it, or head for the dead-letter queue.
Dispatch(n) ==
  LET t == job[n].task IN
  \/ /\ t \in Unregistered
     /\ Goto(n, "shunt")
     /\ UNCHANGED runs
  \/ /\ t \notin Unregistered
     /\ Goto(n, "run")
     /\ runs' = [runs EXCEPT ![t] = @ + 1]

(* Definitions marked "Variant" are wrong on purpose: each replaces the    *)
(* definition it varies to show that a property notices the difference.    *)

\* Variant of HandleFailure: one retry too few.
HandleFailureEarly(n) ==
  LET t == job[n].task
      r == job[n].retry
  IN  \/ /\ r < MaxRetries[t] - 1
         /\ Goto(n, "unlock")
         /\ wait' = [wait EXCEPT ![n] = 2 ^ r]
         /\ rest' = [rest EXCEPT ![t] = 2 ^ r]
      \/ /\ r >= MaxRetries[t] - 1
         /\ Goto(n, "bury")
         /\ UNCHANGED <<wait, rest>>

\* The except branch: schedule a retry with its target time, or give up.
HandleFailure(n) ==
  LET t == job[n].task
      r == job[n].retry
  IN  \/ /\ r < MaxRetries[t]
         /\ Goto(n, "unlock")
         /\ wait' = [wait EXCEPT ![n] = 2 ^ r]
         /\ rest' = [rest EXCEPT ![t] = 2 ^ r]
      \/ /\ r >= MaxRetries[t]
         /\ Goto(n, "bury")
         /\ UNCHANGED <<wait, rest>>

\* Variant: the attempt is not counted.
RetriedUncounted(p) == p

Retried(p) == [p EXCEPT !.retry = @ + 1]
-----------------------------------------------------------------------------
(* TaskQueue.enqueue, called by a web process.                             *)

Enqueue(t, d) ==
  /\ t \notin enqueued
  /\ enqueued' = enqueued \cup {t}
  /\ LET p == [task |-> t, retry |-> 0] IN
     \/ d > 0 /\ ZAdd(p, d) /\ UNCHANGED queue
     \/ d = 0 /\ Push(p) /\ UNCHANGED <<delayed, due>>
  /\ UNCHANGED <<dlq, lock, worker, batch, runs, done, rest, dropped, budget>>
-----------------------------------------------------------------------------
(* TaskScheduler._scheduler_loop.                                          *)

\* Fetch what is ready; a poll that finds nothing changes nothing.
Poll(n) ==
  /\ batch[n] = {} /\ Ready # {}
  /\ batch' = [batch EXCEPT ![n] = Ready]
  /\ UNCHANGED <<redis, worker, history, budget>>

\* Variant: the member is never removed.
MovePayloadOnlyPush(p) == Push(p) /\ UNCHANGED <<delayed, due>>

\* The transaction: ZREM and LPUSH, the push whatever ZREM returned.
MovePayload(p) == ZRem(p) /\ Push(p)

Promote(n) ==
  /\ \E p \in batch[n] :
       /\ MovePayload(p)
       /\ batch' = [batch EXCEPT ![n] = @ \ {p}]
  /\ UNCHANGED <<dlq, lock, worker, history, budget>>

\* The transaction raises, applied or not: the rest of the batch is left
\* to the next poll.
PromoteError(n) ==
  /\ errors < MaxErrors /\ errors' = errors + 1
  /\ \E p \in batch[n] :
       MovePayload(p) \/ UNCHANGED <<delayed, due, queue>>
  /\ batch' = [batch EXCEPT ![n] = {}]
  /\ UNCHANGED <<dlq, lock, worker, history, halts, expiries>>
-----------------------------------------------------------------------------
(* AsyncWorker._worker_loop and _process_task.                             *)

Pop(n) ==
  /\ pc[n] = "pop" /\ queue # <<>>
  /\ job' = [job EXCEPT ![n] = Head(queue)]
  /\ queue' = Tail(queue)
  /\ Goto(n, "claim")
  /\ UNCHANGED <<delayed, due, dlq, lock, wait, batch, history, budget>>

\* SET task:processed:{id} in_progress NX
Claim(n) ==
  /\ pc[n] = "claim"
  /\ LET t == job[n].task IN
     \/ lock[t] = "absent" /\ SetLock(t, "in_progress") /\ Dispatch(n)
     \/ lock[t] # "absent" /\ Goto(n, "check") /\ UNCHANGED <<lock, runs>>
  /\ UNCHANGED <<queue, delayed, due, dlq, job, wait, batch, enqueued, done,
                 rest, dropped, budget>>

\* Variant: a duplicate is put back to try again later.
CheckPutsBack(n) ==
  /\ pc[n] = "check"
  /\ \/ /\ lock[job[n].task] = "success"
        /\ Release(n) /\ UNCHANGED <<queue, runs>>
     \/ /\ lock[job[n].task] = "in_progress"
        /\ Push(job[n]) /\ Release(n) /\ UNCHANGED runs
     \/ /\ lock[job[n].task] \notin {"success", "in_progress"}
        /\ Dispatch(n) /\ UNCHANGED <<queue, job, wait>>
  /\ UNCHANGED <<delayed, due, dlq, lock, batch, enqueued, done, rest,
                 dropped, budget>>

\* GET after a failed SET NX: skip a success or an execution in progress;
\* any other answer ("failed", or no key any more) falls through.
Check(n) ==
  /\ pc[n] = "check"
  /\ \/ /\ lock[job[n].task] \in {"success", "in_progress"}
        /\ Release(n) /\ UNCHANGED runs
     \/ /\ lock[job[n].task] \notin {"success", "in_progress"}
        /\ Dispatch(n) /\ UNCHANGED <<job, wait>>
  /\ UNCHANGED <<redis, batch, enqueued, done, rest, dropped, budget>>

\* The handler returns ...
Succeed(n) ==
  /\ pc[n] = "run"
  /\ Goto(n, "record")
  /\ done' = [done EXCEPT ![job[n].task] = @ + 1]
  /\ UNCHANGED <<redis, job, wait, batch, enqueued, runs, rest, dropped,
                 budget>>

\* ... or raises.
Fail(n) ==
  /\ pc[n] = "run"
  /\ HandleFailure(n)
  /\ UNCHANGED <<redis, job, batch, enqueued, runs, done, dropped, budget>>

Record(n) ==
  /\ pc[n] = "record"
  /\ SetLock(job[n].task, "success")
  /\ Release(n)
  /\ UNCHANGED <<queue, delayed, due, dlq, batch, history, budget>>

\* Variant: the key stays, so the retry is skipped as in progress.
UnlockForgotten(n) ==
  /\ pc[n] = "unlock"
  /\ Goto(n, "requeue")
  /\ UNCHANGED <<redis, job, wait, batch, history, budget>>

Unlock(n) ==
  /\ pc[n] = "unlock"
  /\ SetLock(job[n].task, "absent")
  /\ Goto(n, "requeue")
  /\ UNCHANGED <<queue, delayed, due, dlq, job, wait, batch, history, budget>>

\* Variant: the retry is pushed for immediate execution.
RequeueNow(n) ==
  /\ pc[n] = "requeue"
  /\ Push(Retried(job[n]))
  /\ Release(n)
  /\ UNCHANGED <<delayed, due, dlq, lock, batch, history, budget>>

Requeue(n) ==
  /\ pc[n] = "requeue"
  /\ ZAdd(Retried(job[n]), wait[n])
  /\ Release(n)
  /\ UNCHANGED <<queue, dlq, lock, batch, history, budget>>

\* _promote_to_dlq with the retries exhausted, then SET failed.
Bury(n) ==
  /\ pc[n] = "bury"
  /\ dlq' = Append(dlq, job[n])
  /\ Goto(n, "mark")
  /\ UNCHANGED <<queue, delayed, due, lock, job, wait, batch, history, budget>>

Mark(n) ==
  /\ pc[n] = "mark"
  /\ SetLock(job[n].task, "failed")
  /\ Release(n)
  /\ UNCHANGED <<queue, delayed, due, dlq, batch, history, budget>>

\* _promote_to_dlq with no handler registered: the key stays in_progress.
Shunt(n) ==
  /\ pc[n] = "shunt"
  /\ dlq' = Append(dlq, job[n])
  /\ Release(n)
  /\ UNCHANGED <<queue, delayed, due, lock, batch, history, budget>>
-----------------------------------------------------------------------------
(* A Redis command of the worker raises, or the process stops while it     *)
(* waits for the answer; the server may have applied the command.          *)

\* BRPOP took a payload that never reaches the worker.
LosePop(n) ==
  /\ pc[n] = "pop" /\ queue # <<>>
  /\ queue' = Tail(queue)
  /\ dropped' = dropped \cup {Head(queue).task}
  /\ UNCHANGED <<delayed, due, dlq, lock, worker, enqueued, runs, done, rest>>

\* The worker abandons its payload at a command.  ZADD and SET failed, when
\* applied, end the same way as the steps Requeue and Mark.
LoseCommand(n) ==
  /\ pc[n] \in {"claim", "check", "unlock", "requeue", "bury", "mark", "shunt"}
  /\ Drop(n)
  /\ \/ UNCHANGED <<lock, dlq>>
     \/ /\ pc[n] = "claim" /\ lock[job[n].task] = "absent"
        /\ SetLock(job[n].task, "in_progress") /\ UNCHANGED dlq
     \/ /\ pc[n] = "unlock"
        /\ SetLock(job[n].task, "absent") /\ UNCHANGED dlq
     \/ /\ pc[n] \in {"bury", "shunt"}
        /\ dlq' = Append(dlq, job[n]) /\ UNCHANGED lock
  /\ UNCHANGED <<queue, delayed, due, enqueued, runs, done, rest>>

\* SET success is inside the try block: its error is taken for the
\* handler's, and the task that has succeeded is retried or buried.
RecordError(n) ==
  /\ pc[n] = "record"
  /\ SetLock(job[n].task, "success") \/ UNCHANGED lock
  /\ HandleFailure(n)
  /\ UNCHANGED <<queue, delayed, due, dlq, job, enqueued, runs, done, dropped>>

\* Everywhere else the exception reaches _worker_loop, which logs it, sleeps
\* and pops again.
WorkerError(n) ==
  /\ errors < MaxErrors /\ errors' = errors + 1
  /\ LosePop(n) \/ LoseCommand(n) \/ RecordError(n)
  /\ UNCHANGED <<batch, halts, expiries>>

\* The process stops: a crash, or SIGTERM, whose stop() cancels both loops
\* at their current await.  CancelledError is not an Exception, so nothing
\* in _process_task handles it.  The process is then started again.
Halt(n) ==
  /\ halts < MaxHalts /\ halts' = halts + 1
  /\ \/ LosePop(n) \/ LoseCommand(n)
     \/ /\ pc[n] \in {"run", "record"} /\ Drop(n)
        /\ UNCHANGED <<redis, enqueued, runs, done, rest>>
     \/ /\ pc[n] = "pop" /\ batch[n] # {}
        /\ UNCHANGED <<redis, worker, history>>
  /\ batch' = [batch EXCEPT ![n] = {}]
  /\ UNCHANGED <<errors, expiries>>
-----------------------------------------------------------------------------
(* The environment: key expiry and the clock.                              *)

Expire(t) ==
  /\ expiries < MaxExpiries /\ expiries' = expiries + 1
  /\ lock[t] # "absent" /\ SetLock(t, "absent")
  /\ UNCHANGED <<queue, delayed, due, dlq, worker, batch, history, halts,
                 errors>>

Less(x) == IF x > 0 THEN x - 1 ELSE 0

Tick ==
  /\ \/ \E p \in delayed : due[p] > 0
     \/ \E n \in Node : wait[n] > 0
  /\ due'  = [p \in Payload |-> Less(due[p])]
  /\ wait' = [n \in Node |-> Less(wait[n])]
  /\ rest' = [t \in Task |-> Less(rest[t])]
  /\ UNCHANGED <<queue, delayed, dlq, lock, pc, job, batch, enqueued, runs,
                 done, dropped, budget>>
-----------------------------------------------------------------------------
Scheduler(n) == Poll(n) \/ Promote(n)

Worker(n) ==
  \/ Pop(n) \/ Claim(n) \/ Check(n)
  \/ Succeed(n) \/ Fail(n)
  \/ Record(n) \/ Unlock(n) \/ Requeue(n)
  \/ Bury(n) \/ Mark(n) \/ Shunt(n)

Fault(n) == PromoteError(n) \/ WorkerError(n) \/ Halt(n)

Next ==
  \/ \E t \in Task, d \in Delays : Enqueue(t, d)
  \/ \E n \in Node : Scheduler(n) \/ Worker(n) \/ Fault(n)
  \/ \E t \in Task : Expire(t)
  \/ Tick

Spec == Init /\ [][Next]_vars

\* asyncio keeps scheduling both loops of a live process, and time passes.
Fairness ==
  /\ \A n \in Node : WF_vars(Scheduler(n)) /\ WF_vars(Worker(n))
  /\ WF_vars(Tick)

FairSpec == Spec /\ Fairness
-----------------------------------------------------------------------------
(* Properties that hold with any number of nodes and under every fault.    *)

TypeOK ==
  /\ queue \in Seq(Payload) /\ dlq \in Seq(Payload)
  /\ delayed \subseteq Payload /\ due \in [Payload -> Int]
  /\ lock \in [Task -> LockState]
  /\ pc \in [Node -> Step]
  /\ job \in [Node -> Payload \cup {NoJob}]
  /\ \A n \in Node : job[n] = NoJob <=> pc[n] = "pop"
  /\ wait \in [Node -> Int]
  /\ batch \in [Node -> SUBSET Payload]
  /\ enqueued \subseteq Task /\ dropped \subseteq Task
  /\ runs \in [Task -> Nat] /\ done \in [Task -> Nat]
  /\ rest \in [Task -> Int]
  /\ halts \in 0 .. MaxHalts /\ errors \in 0 .. MaxErrors
  /\ expiries \in 0 .. MaxExpiries

\* Where a task can be.
Queued(t)  == \E i \in 1 .. Len(queue) : queue[i].task = t
Delayed(t) == \E p \in delayed : p.task = t
Held(t)    == \E n \in Node : job[n] # NoJob /\ job[n].task = t
Buried(t)  == \E i \in 1 .. Len(dlq) : dlq[i].task = t

\* A task that was enqueued is still in Redis or with a worker, or it has
\* run to its end, or it is in the dead-letter queue; the one way out is a
\* worker that dies, or whose Redis command fails, holding the payload.
\* Skipping a "duplicate", promoting and retrying never lose a task.
NoTaskLost ==
  \A t \in enqueued :
    \/ Queued(t) \/ Delayed(t) \/ Held(t)
    \/ done[t] > 0 \/ Buried(t) \/ t \in dropped

\* retry_count counts executions that took place: no payload with count r is
\* anywhere unless its handler ran r times, and a task with a handler is
\* dead-lettered only after all its max_retries + 1 attempts.
Earned(p) == runs[p.task] >= p.retry

RetryCountIsEarned ==
  /\ \A i \in 1 .. Len(queue) : Earned(queue[i])
  /\ \A p \in delayed : Earned(p)
  /\ \A n \in Node : \A p \in batch[n] : Earned(p)
  /\ \A n \in Node : job[n] # NoJob => Earned(job[n])
  /\ \A i \in 1 .. Len(dlq) :
       LET t == dlq[i].task IN t \in Unregistered \/ runs[t] > MaxRetries[t]
-----------------------------------------------------------------------------
(* Properties of a single node.                                            *)

\* The places a payload of task t is in.
Copies(t) ==
     {<<"queue", i>> : i \in {i \in 1 .. Len(queue) : queue[i].task = t}}
  \cup {<<"delayed", p>> : p \in {p \in delayed : p.task = t}}
  \cup {<<"worker", n>> :
         n \in {n \in Node : job[n] # NoJob /\ job[n].task = t}}

\* Whatever fails, a task is never in two places: no second execution of it
\* can be on its way.
OneCopy == \A t \in Task : \A a, b \in Copies(t) : a = b

\* A handler runs at most max_retries + 1 times, errors after a success and
\* expired keys included.
AttemptsBounded == \A t \in Task : runs[t] <= MaxRetries[t] + 1

\* A retry starts only when the backoff of the last failure has elapsed.
BackoffRespected == [][\A t \in Task : runs'[t] > runs[t] => rest[t] = 0]_vars

\* Until a Redis command fails a task succeeds once, or is dead-lettered
\* once, or neither; never both.
OutcomeExclusive ==
  errors = 0 => \A t \in Task :
    /\ done[t] <= 1
    /\ done[t] > 0 => ~Buried(t)
    /\ \A i, j \in 1 .. Len(dlq) : dlq[i].task = t /\ dlq[j].task = t => i = j
-----------------------------------------------------------------------------
(* Liveness, when no process stops and no command fails.                   *)

\* Every enqueued task is executed to its end or dead-lettered, on any
\* number of nodes, duplicates and all.
EveryTaskSettles ==
  \A t \in Task : t \in enqueued ~> done[t] > 0 \/ Buried(t)

\* The job system comes to rest: no duplicate or retry circulates for ever.
Drains == <>[](queue = <<>> /\ delayed = {} /\ \A n \in Node : job[n] = NoJob)
-----------------------------------------------------------------------------
(* What the documentation says of the job system and the code does not do. *)

\* README: the idempotency locks "prevent double executions".
NoConcurrentExecution ==
  \A m, n \in Node :
    m # n /\ pc[m] = "run" /\ pc[n] = "run" => job[m].task # job[n].task
=============
