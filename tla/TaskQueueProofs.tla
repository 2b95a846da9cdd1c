-------------------------- MODULE TaskQueueProofs --------------------------
(* Theorems about TaskQueue, for every set of nodes and tasks and every    *)
(* bound on the faults.                                                    *)
EXTENDS TaskQueueRefinement, SequenceTheorems, TLAPS

-----------------------------------------------------------------------------
(* Payloads.                                                               *)

LEMMA PayloadParts ==
  ASSUME NEW p \in Payload
  PROVE  /\ p.task \in Task /\ p.retry \in 0 .. MaxRetries[p.task]
         /\ p.retry \in Nat /\ MaxRetries[p.task] \in Nat
         /\ p = [task |-> p.task, retry |-> p.retry]
<1>1. PICK t \in Task : p \in [task : {t}, retry : 0 .. MaxRetries[t]]
  BY DEF Payload
<1>2. MaxRetries[t] \in Nat
  BY TaskQueueAssumption
<1>3. QED
  BY <1>1, <1>2

LEMMA FreshPayload ==
  ASSUME NEW t \in Task
  PROVE  [task |-> t, retry |-> 0] \in Payload
<1>1. 0 \in 0 .. MaxRetries[t]
  BY TaskQueueAssumption
<1>2. QED
  BY <1>1 DEF Payload

LEMMA RetriedPayload ==
  ASSUME NEW p \in Payload, p.retry < MaxRetries[p.task]
  PROVE  /\ Retried(p) \in Payload
         /\ Retried(p).task = p.task
         /\ Retried(p).retry = p.retry + 1
<1>1. Retried(p) = [task |-> p.task, retry |-> p.retry + 1]
  BY PayloadParts DEF Retried
<1>2. p.retry + 1 \in 0 .. MaxRetries[p.task]
  BY PayloadParts
<1>3. QED
  BY <1>1, <1>2, PayloadParts DEF Payload

-----------------------------------------------------------------------------
(* Types.                                                                  *)

\* A worker that schedules a retry is entitled to one; one that buries its
\* payload is not, or has no handler for it.
Entitled ==
  \A n \in Node :
    LET t == job[n].task
        r == job[n].retry
    IN  /\ pc[n] \in {"unlock", "requeue"} => r < MaxRetries[t]
        /\ pc[n] \in {"bury", "mark"} => r >= MaxRetries[t]
        /\ pc[n] = "shunt" => t \in Unregistered

TypeInv == TypeOK /\ Entitled

LEMMA HeldPayload ==
  ASSUME TypeOK, NEW n \in Node, pc[n] # "pop"
  PROVE  /\ job[n] \in Payload /\ job[n] # NoJob
         /\ job[n].task \in Task
  BY PayloadParts DEF TypeOK

LEMMA PoppedPayload ==
  ASSUME TypeOK, queue # <<>>
  PROVE  /\ Head(queue) \in Payload /\ Head(queue).task \in Task
         /\ Tail(queue) \in Seq(Payload)
  BY HeadTailProperties, PayloadParts DEF TypeOK

LEMMA InitType == Init => TypeInv
<1> SUFFICES ASSUME Init PROVE TypeInv
  OBVIOUS
<1>1. \A n \in Node : job[n] = NoJob /\ pc[n] = "pop"
  BY DEF Init
<1>2. TypeOK
  BY <1>1, TaskQueueAssumption DEF Init, TypeOK, LockState, Step
<1>3. Entitled
  BY <1>1 DEF Entitled
<1>4. QED
  BY <1>2, <1>3 DEF TypeInv

LEMMA EnqueueType ==
  ASSUME TypeInv, NEW t \in Task, NEW d \in Delays, Enqueue(t, d)
  PROVE  TypeInv'
<1> DEFINE p == [task |-> t, retry |-> 0]
<1>1. p \in Payload
  BY FreshPayload
<1>2. d \in Int
  BY TaskQueueAssumption
<1> HIDE DEF p
<1>3. queue' \in Seq(Payload) /\ delayed' \subseteq Payload
      /\ due' \in [Payload -> Int]
  <2>1. CASE d > 0 /\ ZAdd(p, d) /\ UNCHANGED queue
    BY <1>1, <1>2, <2>1 DEF TypeInv, TypeOK, ZAdd
  <2>2. CASE Push(p) /\ UNCHANGED <<delayed, due>>
    BY <1>1, <2>2 DEF TypeInv, TypeOK, Push
  <2>3. QED
    BY <2>1, <2>2 DEF Enqueue, p
<1>4. QED
  BY <1>3 DEF TypeInv, TypeOK, Entitled, Enqueue, worker, budget

LEMMA SchedulerType ==
  ASSUME TypeInv, NEW n \in Node, Poll(n) \/ Promote(n) \/ PromoteError(n)
  PROVE  TypeInv'
<1>1. CASE Poll(n)
  BY <1>1 DEF TypeInv, TypeOK, Entitled, Poll, Ready, redis, worker, history,
              budget
<1>2. ASSUME NEW p \in batch[n], MovePayload(p)
      PROVE  /\ p \in Payload /\ queue' \in Seq(Payload)
             /\ delayed' \subseteq Payload /\ due' \in [Payload -> Int]
  BY <1>2 DEF TypeInv, TypeOK, MovePayload, ZRem, Push
<1>3. CASE Promote(n)
  <2>1. PICK p \in batch[n] : MovePayload(p) /\ batch' = [batch EXCEPT ![n] = @ \ {p}]
    BY <1>3 DEF Promote
  <2>2. batch' \in [Node -> SUBSET Payload]
    BY <2>1 DEF TypeInv, TypeOK
  <2>3. QED
    BY <1>2, <1>3, <2>1, <2>2 DEF TypeInv, TypeOK, Entitled, Promote, worker,
                                  history, budget
<1>4. CASE PromoteError(n)
  <2>1. /\ queue' \in Seq(Payload) /\ delayed' \subseteq Payload
        /\ due' \in [Payload -> Int]
    BY <1>2, <1>4 DEF PromoteError, TypeInv, TypeOK
  <2>2. errors' \in 0 .. MaxErrors
    BY <1>4, TaskQueueAssumption DEF PromoteError, TypeInv, TypeOK
  <2>3. QED
    BY <1>4, <2>1, <2>2 DEF TypeInv, TypeOK, Entitled, PromoteError, worker,
                            history
<1>5. QED
  BY <1>1, <1>3, <1>4

\* A worker that lets go of its payload, whatever it did with it.
LEMMA ReleaseType ==
  ASSUME TypeInv, NEW n \in Node, Release(n)
  PROVE  /\ pc' \in [Node -> Step] /\ job' \in [Node -> Payload \cup {NoJob}]
         /\ \A m \in Node : job'[m] = NoJob <=> pc'[m] = "pop"
         /\ wait' \in [Node -> Int] /\ Entitled'
  BY DEF TypeInv, TypeOK, Entitled, Release, Goto, Step

LEMMA DispatchType ==
  ASSUME TypeInv, NEW n \in Node, pc[n] # "pop", Dispatch(n), UNCHANGED job
  PROVE  /\ pc' \in [Node -> Step] /\ runs' \in [Task -> Nat]
         /\ \A m \in Node : job'[m] = NoJob <=> pc'[m] = "pop"
         /\ Entitled'
<1>1. job[n].task \in Task /\ job[n] # NoJob
  BY HeldPayload DEF TypeInv
<1>2. CASE /\ job[n].task \in Unregistered
           /\ pc' = [pc EXCEPT ![n] = "shunt"] /\ UNCHANGED runs
  BY <1>1, <1>2 DEF TypeInv, TypeOK, Entitled, Step
<1>3. CASE /\ pc' = [pc EXCEPT ![n] = "run"]
           /\ runs' = [runs EXCEPT ![job[n].task] = @ + 1]
  <2>1. runs' \in [Task -> Nat]
    BY <1>1, <1>3 DEF TypeInv, TypeOK
  <2>2. QED
    BY <1>1, <1>3, <2>1 DEF TypeInv, TypeOK, Entitled, Step
<1>4. QED
  BY <1>2, <1>3 DEF Dispatch, Goto

LEMMA HandleFailureType ==
  ASSUME TypeInv, NEW n \in Node, pc[n] # "pop", HandleFailure(n), UNCHANGED job
  PROVE  /\ pc' \in [Node -> Step] /\ rest' \in [Task -> Int]
         /\ wait' \in [Node -> Int]
         /\ \A m \in Node : job'[m] = NoJob <=> pc'[m] = "pop"
         /\ Entitled'
<1>1. job[n].retry \in Nat /\ MaxRetries[job[n].task] \in Nat
  BY HeldPayload, PayloadParts DEF TypeInv
<1>2. 2 ^ job[n].retry \in Int
  BY <1>1
<1>3. job[n].task \in Task /\ job[n] # NoJob
  BY HeldPayload DEF TypeInv
<1>4. CASE /\ job[n].retry < MaxRetries[job[n].task]
           /\ pc' = [pc EXCEPT ![n] = "unlock"]
           /\ wait' = [wait EXCEPT ![n] = 2 ^ job[n].retry]
           /\ rest' = [rest EXCEPT ![job[n].task] = 2 ^ job[n].retry]
  <2>1. wait' \in [Node -> Int] /\ rest' \in [Task -> Int]
    BY <1>2, <1>3, <1>4 DEF TypeInv, TypeOK
  <2>2. QED
    BY <1>3, <1>4, <2>1 DEF TypeInv, TypeOK, Entitled, Step
<1>5. CASE /\ job[n].retry >= MaxRetries[job[n].task]
           /\ pc' = [pc EXCEPT ![n] = "bury"] /\ UNCHANGED <<wait, rest>>
  BY <1>3, <1>5 DEF TypeInv, TypeOK, Entitled, Step
<1>6. QED
  BY <1>4, <1>5 DEF HandleFailure, Goto

LEMMA LockType ==
  ASSUME TypeInv, NEW t \in Task, NEW s \in LockState, SetLock(t, s)
  PROVE  lock' \in [Task -> LockState]
  BY DEF TypeInv, TypeOK, SetLock

LEMMA WorkerType ==
  ASSUME TypeInv, NEW n \in Node, Worker(n)
  PROVE  TypeInv'
<1>0. pc[n] # "pop" => job[n] \in Payload /\ job[n].task \in Task
  BY HeldPayload DEF TypeInv
<1>1. CASE Pop(n)
  <2>1. /\ Head(queue) \in Payload /\ Head(queue) # NoJob
        /\ queue' \in Seq(Payload)
    BY <1>1, PoppedPayload, NoJobAssumption DEF Pop, TypeInv
  <2>2. QED
    BY <1>1, <2>1 DEF TypeInv, TypeOK, Entitled, Pop, Goto, Step, history, budget
<1>2. CASE Claim(n)
  <2>1. CASE lock[job[n].task] = "absent" /\ Dispatch(n)
    BY <1>0, <1>2, <2>1, DispatchType, LockType
       DEF TypeInv, TypeOK, Claim, SetLock, LockState, budget
  <2>2. CASE lock[job[n].task] # "absent"
    BY <1>2, <2>2 DEF TypeInv, TypeOK, Entitled, Claim, Goto, Step, budget
  <2>3. QED
    BY <1>2, <2>1, <2>2 DEF Claim
<1>3. CASE Check(n)
  <2>1. CASE Release(n) /\ UNCHANGED runs
    BY <1>3, <2>1, ReleaseType DEF TypeInv, TypeOK, Check, redis, budget
  <2>2. CASE Dispatch(n) /\ UNCHANGED <<job, wait>>
    BY <1>3, <2>2, DispatchType DEF TypeInv, TypeOK, Check, redis, budget
  <2>3. QED
    BY <1>3, <2>1, <2>2 DEF Check
<1>4. CASE Succeed(n)
  BY <1>0, <1>4 DEF TypeInv, TypeOK, Entitled, Succeed, Goto, Step, redis, budget
<1>5. CASE Fail(n)
  BY <1>5, HandleFailureType DEF TypeInv, TypeOK, Fail, redis, budget
<1>6. CASE Record(n)
  BY <1>0, <1>6, ReleaseType, LockType
     DEF TypeInv, TypeOK, Record, LockState, history, budget
<1>7. CASE Unlock(n)
  BY <1>0, <1>7, LockType
     DEF TypeInv, TypeOK, Entitled, Unlock, Goto, Step, LockState, history, budget
<1>8. CASE Requeue(n)
  <2>1. Retried(job[n]) \in Payload
    BY <1>0, <1>8, RetriedPayload DEF Requeue, TypeInv, Entitled
  <2>2. delayed' \subseteq Payload /\ due' \in [Payload -> Int]
    BY <1>8, <2>1 DEF Requeue, ZAdd, TypeInv, TypeOK
  <2>3. QED
    BY <1>8, <2>2, ReleaseType DEF TypeInv, TypeOK, Requeue, history, budget
<1>9. CASE Bury(n)
  BY <1>0, <1>9 DEF TypeInv, TypeOK, Entitled, Bury, Goto, Step, history, budget
<1>10. CASE Mark(n)
  BY <1>0, <1>10, ReleaseType, LockType
     DEF TypeInv, TypeOK, Mark, LockState, history, budget
<1>11. CASE Shunt(n)
  <2>1. dlq' \in Seq(Payload)
    BY <1>0, <1>11 DEF TypeInv, TypeOK, Shunt
  <2>2. QED
    BY <1>11, <2>1, ReleaseType DEF TypeInv, TypeOK, Shunt, history, budget
<1>12. QED
  BY <1>1, <1>2, <1>3, <1>4, <1>5, <1>6, <1>7, <1>8, <1>9, <1>10, <1>11
     DEF Worker

\* What losing a payload leaves well typed.
LEMMA LosePayloadType ==
  ASSUME TypeInv, NEW n \in Node, LosePop(n) \/ LoseCommand(n)
  PROVE  /\ queue' \in Seq(Payload) /\ dlq' \in Seq(Payload)
         /\ lock' \in [Task -> LockState] /\ dropped' \subseteq Task
         /\ pc' \in [Node -> Step] /\ job' \in [Node -> Payload \cup {NoJob}]
         /\ \A m \in Node : job'[m] = NoJob <=> pc'[m] = "pop"
         /\ wait' \in [Node -> Int] /\ Entitled'
         /\ UNCHANGED <<delayed, due, enqueued, runs, done, rest>>
<1>1. CASE LosePop(n)
  BY <1>1, PoppedPayload DEF LosePop, TypeInv, TypeOK, Entitled, worker
<1>2. CASE LoseCommand(n)
  <2>1. pc[n] # "pop" /\ job[n] \in Payload /\ job[n].task \in Task
    BY <1>2, HeldPayload DEF LoseCommand, TypeInv
  <2>2. lock' \in [Task -> LockState] /\ dlq' \in Seq(Payload)
    <3>1. dlq' = dlq \/ dlq' = Append(dlq, job[n])
      BY <1>2 DEF LoseCommand
    <3>2. \/ lock' = lock
          \/ \E s \in LockState : lock' = [lock EXCEPT ![job[n].task] = s]
      BY <1>2 DEF LoseCommand, SetLock, LockState
    <3>3. dlq' \in Seq(Payload)
      <4>1. dlq \in Seq(Payload)
        BY DEF TypeInv, TypeOK
      <4>2. QED
        BY <2>1, <3>1, <4>1, AppendProperties
    <3>4. lock' \in [Task -> LockState]
      BY <2>1, <3>2 DEF TypeInv, TypeOK
    <3>5. QED
      BY <3>3, <3>4
  <2>3. QED
    BY <1>2, <2>1, <2>2, ReleaseType DEF LoseCommand, Drop, TypeInv, TypeOK
<1>3. QED
  BY <1>1, <1>2

LEMMA WorkerErrorType ==
  ASSUME TypeInv, NEW n \in Node, WorkerError(n)
  PROVE  TypeInv'
<1>1. errors' \in 0 .. MaxErrors
  BY TaskQueueAssumption DEF WorkerError, TypeInv, TypeOK
<1>2. CASE LosePop(n) \/ LoseCommand(n)
  BY <1>1, <1>2, LosePayloadType DEF TypeInv, TypeOK, WorkerError
<1>3. CASE RecordError(n)
  <2>1. pc[n] # "pop" /\ job[n].task \in Task
    BY <1>3, HeldPayload DEF RecordError, TypeInv
  <2>2. lock' \in [Task -> LockState]
    BY <1>3, <2>1, LockType DEF RecordError, LockState, TypeInv, TypeOK
  <2>3. QED
    BY <1>1, <1>3, <2>1, <2>2, HandleFailureType
       DEF RecordError, TypeInv, TypeOK, WorkerError
<1>4. QED
  BY <1>2, <1>3 DEF WorkerError

LEMMA HaltType ==
  ASSUME TypeInv, NEW n \in Node, Halt(n)
  PROVE  TypeInv'
<1>1. halts' \in 0 .. MaxHalts /\ batch' \in [Node -> SUBSET Payload]
  BY TaskQueueAssumption DEF Halt, TypeInv, TypeOK
<1>2. CASE LosePop(n) \/ LoseCommand(n)
  BY <1>1, <1>2, LosePayloadType DEF TypeInv, TypeOK, Halt
<1>3. CASE /\ pc[n] \in {"run", "record"} /\ Drop(n)
           /\ UNCHANGED <<redis, enqueued, runs, done, rest>>
  BY <1>1, <1>3, ReleaseType, HeldPayload DEF TypeInv, TypeOK, Halt, Drop, redis
<1>4. CASE UNCHANGED <<redis, worker, history>>
  BY <1>1, <1>4 DEF TypeInv, TypeOK, Entitled, Halt, redis, worker, history
<1>5. QED
  BY <1>2, <1>3, <1>4 DEF Halt

LEMMA EnvironmentType ==
  ASSUME TypeInv, Tick \/ \E t \in Task : Expire(t)
  PROVE  TypeInv'
<1>1. CASE Tick
  BY <1>1 DEF TypeInv, TypeOK, Entitled, Tick, Less, budget
<1>2. ASSUME NEW t \in Task, Expire(t) PROVE TypeInv'
  BY <1>2, LockType, TaskQueueAssumption
     DEF TypeInv, TypeOK, Entitled, Expire, LockState, worker, history
<1>3. QED
  BY <1>1, <1>2

LEMMA TypeStep == TypeInv /\ [Next]_vars => TypeInv'
<1> SUFFICES ASSUME TypeInv, [Next]_vars PROVE TypeInv'
  OBVIOUS
<1>1. CASE \E t \in Task, d \in Delays : Enqueue(t, d)
  BY <1>1, EnqueueType
<1>2. CASE \E n \in Node : Scheduler(n) \/ Worker(n)
  BY <1>2, SchedulerType, WorkerType DEF Scheduler
<1>3. CASE \E n \in Node : Fault(n)
  BY <1>3, SchedulerType, WorkerErrorType, HaltType DEF Fault
<1>4. CASE Tick \/ \E t \in Task : Expire(t)
  BY <1>4, EnvironmentType
<1>5. CASE UNCHANGED vars
  BY <1>5 DEF TypeInv, TypeOK, Entitled, vars, redis, worker, history, budget
<1>6. QED
  BY <1>1, <1>2, <1>3, <1>4, <1>5 DEF Next

\* Every variable keeps its type; in particular no retry_count ever exceeds
\* max_retries, although nothing but HandleFailure compares the two.
THEOREM TypeCorrect == Spec => []TypeOK
<1>1. Spec => []TypeInv
  BY InitType, TypeStep, PTL DEF Spec
<1>2. TypeInv => TypeOK
  BY DEF TypeInv
<1>3. QED
  BY <1>1, <1>2, PTL

-----------------------------------------------------------------------------
(* No task is lost.                                                        *)

Settled(t) == done[t] > 0 \/ Buried(t) \/ t \in dropped

Live(t) == Queued(t) \/ Delayed(t) \/ Held(t)

\* Workers that have passed the idempotency guard.
Engaged(t) ==
  \E n \in Node : /\ pc[n] \in {"run", "record", "unlock", "bury", "shunt"}
                  /\ job[n].task = t

\* What the answer to SET NX and GET tells the worker that skips a payload.
\* A worker at "requeue" has given the lock up and cannot stand for it.
LockMeaning ==
  \A t \in Task :
    /\ lock[t] = "success" => done[t] > 0
    /\ lock[t] = "in_progress" => Engaged(t) \/ Settled(t)

Recording ==
  \A n \in Node :
    /\ pc[n] = "record" => done[job[n].task] > 0
    /\ pc[n] = "mark" => Buried(job[n].task)

LossInv == TypeInv /\ LockMeaning /\ Recording /\ NoTaskLost

LEMMA QueuedPush ==
  ASSUME TypeOK, NEW p \in Payload, Push(p), NEW t
  PROVE  /\ Queued(t) => Queued(t)'
         /\ p.task = t => Queued(t)'
<1>1. queue \in Seq(Payload) /\ queue' = Append(queue, p)
  BY DEF TypeOK, Push
<1>2. /\ Len(queue') = Len(queue) + 1 /\ Len(queue) \in Nat
      /\ \A i \in 1 .. Len(queue) : queue'[i] = queue[i]
      /\ queue'[Len(queue) + 1] = p
  BY <1>1, AppendProperties, LenProperties
<1>3. QED
  BY <1>2 DEF Queued

LEMMA QueuedPop ==
  ASSUME TypeOK, queue # <<>>, queue' = Tail(queue), NEW t, Queued(t)
  PROVE  Head(queue).task = t \/ Queued(t)'
<1>1. PICK i \in 1 .. Len(queue) : queue[i].task = t
  BY DEF Queued
<1>2. queue \in Seq(Payload) /\ Len(queue) \in Nat
  BY LenProperties DEF TypeOK
<1>3. CASE i = 1
  BY <1>1, <1>2, <1>3, HeadTailProperties
<1>4. CASE i # 1
  <2>1. i - 1 \in 1 .. Len(queue') /\ queue'[i - 1] = queue[i]
    BY <1>2, <1>4, HeadTailProperties
  <2>2. QED
    BY <1>1, <2>1 DEF Queued
<1>5. QED
  BY <1>3, <1>4

LEMMA BuriedAppend ==
  ASSUME TypeOK, NEW p \in Payload, dlq' = Append(dlq, p), NEW t
  PROVE  /\ Buried(t) => Buried(t)'
         /\ p.task = t => Buried(t)'
<1>1. /\ Len(dlq') = Len(dlq) + 1 /\ Len(dlq) \in Nat
      /\ \A i \in 1 .. Len(dlq) : dlq'[i] = dlq[i]
      /\ dlq'[Len(dlq) + 1] = p
  BY AppendProperties, LenProperties DEF TypeOK
<1>2. QED
  BY <1>1 DEF Buried

\* Outcomes are never taken back, and neither are attempts.
Grows ==
  /\ dropped \subseteq dropped'
  /\ \A t \in Task : /\ done'[t] \in Nat /\ done[t] <= done'[t]
                    /\ runs'[t] \in Nat /\ runs[t] <= runs'[t]
  /\ dlq' = dlq \/ \E p \in Payload : dlq' = Append(dlq, p)

\* Workers other than n keep their place and their payload.
OthersKeep(n) == \A m \in Node \ {n} : pc'[m] = pc[m] /\ job'[m] = job[m]

LEMMA NodeGrows ==
  ASSUME TypeInv, NEW n \in Node, Worker(n) \/ WorkerError(n) \/ Halt(n)
  PROVE  Grows /\ OthersKeep(n)
<1>1. /\ done \in [Task -> Nat] /\ runs \in [Task -> Nat]
      /\ pc \in [Node -> Step] /\ job \in [Node -> Payload \cup {NoJob}]
  BY DEF TypeInv, TypeOK
<1>2. pc[n] # "pop" => job[n] \in Payload
  BY HeldPayload DEF TypeInv
<1>3. OthersKeep(n)
  BY <1>1 DEF OthersKeep, Worker, WorkerError, Halt, Pop, Claim, Check, Succeed,
     Fail, Record, Unlock, Requeue, Bury, Mark, Shunt, LosePop, LoseCommand,
     RecordError, Release, Goto, Drop, Dispatch, HandleFailure, worker
<1>4. dropped \subseteq dropped'
  BY DEF Worker, WorkerError, Halt, Pop, Claim, Check, Succeed,
     Fail, Record, Unlock, Requeue, Bury, Mark, Shunt, LosePop, LoseCommand,
     RecordError, Drop, history
<1>5. dlq' = dlq \/ (pc[n] # "pop" /\ dlq' = Append(dlq, job[n]))
  BY DEF Worker, WorkerError, Halt, Pop, Claim, Check, Succeed,
     Fail, Record, Unlock, Requeue, Bury, Mark, Shunt, LosePop, LoseCommand,
     RecordError, redis
<1>6. done' = done \/ done' = [done EXCEPT ![job[n].task] = @ + 1]
  BY DEF Worker, WorkerError, Halt, Pop, Claim, Check, Succeed,
     Fail, Record, Unlock, Requeue, Bury, Mark, Shunt, LosePop, LoseCommand,
     RecordError, history
<1>7. runs' = runs \/ runs' = [runs EXCEPT ![job[n].task] = @ + 1]
  BY DEF Worker, WorkerError, Halt, Pop, Claim, Check, Succeed, Dispatch,
     Fail, Record, Unlock, Requeue, Bury, Mark, Shunt, LosePop, LoseCommand,
     RecordError, history
<1>8. \A t \in Task : /\ done'[t] \in Nat /\ done[t] <= done'[t]
                    /\ runs'[t] \in Nat /\ runs[t] <= runs'[t]
  BY <1>1, <1>6, <1>7
<1>9. QED
  BY <1>2, <1>3, <1>4, <1>5, <1>8 DEF Grows

LEMMA DoneStays ==
  ASSUME TypeInv, Grows, NEW t \in Task, done[t] > 0
  PROVE  done'[t] > 0
<1>1. done[t] \in Nat /\ done'[t] \in Nat /\ done[t] <= done'[t]
  BY DEF Grows, TypeInv, TypeOK
<1>2. QED
  BY <1>1

LEMMA SettledStays ==
  ASSUME TypeInv, Grows, NEW t \in Task, Settled(t)
  PROVE  Settled(t)'
<1>1. Buried(t) => Buried(t)'
  BY BuriedAppend DEF Grows, TypeInv, Buried
<1>2. QED
  BY <1>1, DoneStays DEF Settled, Grows

\* A step of a node that holds a payload of task u: only u needs a look.
NodeFrame(n) ==
  /\ pc[n] # "pop" /\ Grows /\ OthersKeep(n)
  /\ queue' = queue /\ delayed \subseteq delayed' /\ enqueued' = enqueued
  /\ \A t \in Task : t # job[n].task => lock'[t] = lock[t]

LEMMA NodeStep ==
  ASSUME LossInv, TypeInv', NEW n \in Node, NodeFrame(n), NEW u, u = job[n].task,
         lock'[u] = "success" => done'[u] > 0,
         lock'[u] = "in_progress" => Engaged(u)' \/ Settled(u)',
         Live(u)' \/ Settled(u)',
         pc'[n] = "record" => done'[job'[n].task] > 0,
         pc'[n] = "mark" => Buried(job[n].task)'
  PROVE  LossInv'
<1>1. ASSUME NEW t \in Task, Settled(t) PROVE Settled(t)'
  BY <1>1, SettledStays DEF LossInv, NodeFrame
<1>2. ASSUME NEW t \in Task, t # u
      PROVE  /\ lock'[t] = "success" => done'[t] > 0
             /\ lock'[t] = "in_progress" => Engaged(t)' \/ Settled(t)'
  <2>1. lock'[t] = lock[t]
    BY <1>2 DEF NodeFrame
  <2>2. done[t] > 0 => done'[t] > 0
    BY DoneStays DEF NodeFrame, LossInv
  <2>3. Engaged(t) => Engaged(t)'
    BY <1>2 DEF Engaged, NodeFrame, OthersKeep
  <2>4. QED
    BY <1>1, <2>1, <2>2, <2>3 DEF LossInv, LockMeaning
<1>3. LockMeaning'
  BY <1>2 DEF LockMeaning
<1>4. ASSUME NEW m \in Node, m # n
      PROVE  /\ pc'[m] = "record" => done'[job'[m].task] > 0
             /\ pc'[m] = "mark" => Buried(job[m].task)'
  <2>1. pc'[m] = pc[m] /\ job'[m] = job[m]
    BY <1>4 DEF NodeFrame, OthersKeep
  <2>2. CASE pc[m] \in {"record", "mark"}
    <3>1. PICK w \in Task : w = job[m].task
      BY <2>2, HeldPayload DEF LossInv, TypeInv
    <3>2. done[w] > 0 => done'[w] > 0
      BY DoneStays DEF NodeFrame, LossInv
    <3>3. Buried(w) => Buried(w)'
      BY BuriedAppend DEF NodeFrame, Grows, LossInv, TypeInv, Buried
    <3>4. Buried(w)' => Buried(job[m].task)'
      BY <2>1, <3>1 DEF Buried
    <3>5. pc[m] = "mark" => Buried(w)
      BY <3>1 DEF LossInv, Recording, Buried
    <3>6. pc[m] = "record" => done[w] > 0
      BY <3>1 DEF LossInv, Recording
    <3>7. QED
      BY <2>1, <3>1, <3>2, <3>3, <3>4, <3>5, <3>6
  <2>3. CASE pc[m] \notin {"record", "mark"}
    BY <2>1, <2>3
  <2>4. QED
    BY <2>2, <2>3
<1>5. Recording'
  BY <1>4 DEF Recording
<1>6. ASSUME NEW t \in enqueued, t # u
      PROVE  Live(t)' \/ Settled(t)'
  <2>1. t \in Task
    BY DEF LossInv, TypeInv, TypeOK
  <2>2. Queued(t) => Queued(t)'
    BY DEF Queued, NodeFrame
  <2>3. Delayed(t) => Delayed(t)'
    BY DEF Delayed, NodeFrame
  <2>4. Held(t) => Held(t)'
    BY <1>6 DEF Held, NodeFrame, OthersKeep
  <2>5. QED
    BY <1>1, <2>1, <2>2, <2>3, <2>4 DEF LossInv, NoTaskLost, Live, Settled
<1>7. NoTaskLost'
  BY <1>6 DEF NoTaskLost, NodeFrame, Live, Settled
<1>8. QED
  BY <1>3, <1>5, <1>7 DEF LossInv

\* A payload dropped by its worker: the task counts as dropped.
LEMMA DropStep ==
  ASSUME LossInv, TypeInv', NEW n \in Node, NodeFrame(n), Drop(n),
         lock'[job[n].task] = "success" => done[job[n].task] > 0
  PROVE  LossInv'
<1>1. PICK u \in Task : u = job[n].task
  BY HeldPayload DEF LossInv, TypeInv, NodeFrame
<1>2. Settled(u)'
  BY <1>1 DEF Drop, Settled
<1>3. pc'[n] = "pop"
  BY DEF Drop, Release, Goto, LossInv, TypeInv, TypeOK
<1>4. lock'[u] = "success" => done'[u] > 0
  BY <1>1, DoneStays DEF NodeFrame, LossInv
<1>5. QED
  BY <1>1, <1>2, <1>3, <1>4, NodeStep

LEMMA FrameOfStep ==
  ASSUME TypeInv, NEW n \in Node, pc[n] # "pop",
         Worker(n) \/ (WorkerError(n) /\ ~LosePop(n)) \/ (Halt(n) /\ ~LosePop(n))
  PROVE  NodeFrame(n)
<1>1. Grows /\ OthersKeep(n)
  BY NodeGrows
<1>2. queue' = queue /\ delayed \subseteq delayed' /\ enqueued' = enqueued
  BY DEF Worker, WorkerError, Halt, Pop, Claim, Check, Succeed,
     Fail, Record, Unlock, Requeue, ZAdd, Bury, Mark, Shunt, LoseCommand,
     RecordError, history, redis
<1>3. lock' = lock \/ \E s \in LockState : SetLock(job[n].task, s)
  BY DEF Worker, WorkerError, Halt, Pop, Claim, Check, Succeed,
     Fail, Record, Unlock, Requeue, Bury, Mark, Shunt, LoseCommand,
     RecordError, redis, LockState
<1>4. \A t \in Task : t # job[n].task => lock'[t] = lock[t]
  BY <1>3 DEF SetLock, TypeInv, TypeOK
<1>5. QED
  BY <1>1, <1>2, <1>4 DEF NodeFrame

LEMMA WorkerLoss ==
  ASSUME LossInv, TypeInv', NEW n \in Node, Worker(n), pc[n] # "pop"
  PROVE  LossInv'
<1> USE DEF LossInv
<1>0. PICK u \in Task : u = job[n].task
  BY HeldPayload DEF TypeInv
<1>1. NodeFrame(n)
  BY FrameOfStep
<1>2. /\ pc \in [Node -> Step] /\ job \in [Node -> Payload \cup {NoJob}]
      /\ lock \in [Task -> LockState] /\ done \in [Task -> Nat]
      /\ job[n] # NoJob
  BY HeldPayload DEF TypeInv, TypeOK
\* The worker keeps its payload and does not touch the lock.
<1>3. ASSUME job' = job PROVE Live(u)'
  BY <1>0, <1>2, <1>3 DEF Live, Held
<1>4. ASSUME job' = job, pc'[n] \in {"run", "record", "unlock", "bury", "shunt"}
      PROVE  Engaged(u)'
  BY <1>0, <1>4 DEF Engaged
<1>5. done[u] > 0 => done'[u] > 0
  BY <1>1, DoneStays DEF NodeFrame
<1>6. lock[u] = "success" => done'[u] > 0
  BY <1>5 DEF LockMeaning
<1>7. ASSUME Dispatch(n), job' = job PROVE pc'[n] \in {"run", "shunt"}
  BY <1>2, <1>7 DEF Dispatch, Goto
<1>8. ASSUME HandleFailure(n), job' = job PROVE pc'[n] \in {"unlock", "bury"}
  BY <1>2, <1>8 DEF HandleFailure, Goto
<1>9. ASSUME Release(n) PROVE pc'[n] = "pop"
  BY <1>2, <1>9 DEF Release, Goto
<1>11. CASE Claim(n)
  <2>1. CASE Dispatch(n)
    <3>1. job' = job /\ pc'[n] \in {"run", "shunt"}
      BY <1>7, <1>11, <2>1 DEF Claim
    <3>2. lock'[u] = "success" => done'[u] > 0
      BY <1>0, <1>2, <1>6, <1>11 DEF Claim, SetLock
    <3>3. QED
      BY <1>0, <1>1, <1>3, <1>4, <3>1, <3>2, NodeStep
  <2>2. CASE lock[u] # "absent" /\ Goto(n, "check") /\ UNCHANGED lock
    <3>1. job' = job /\ pc'[n] = "check"
      BY <1>2, <1>11, <2>2 DEF Claim, Goto
    <3>2. lock'[u] = "in_progress" => Engaged(u)' \/ Settled(u)'
      <4>1. Engaged(u) => Engaged(u)'
        BY <1>1, <1>11 DEF Engaged, NodeFrame, OthersKeep, Claim
      <4>2. QED
        BY <1>1, <2>2, <4>1, SettledStays DEF LockMeaning, NodeFrame
    <3>3. QED
      BY <1>0, <1>1, <1>3, <1>6, <2>2, <3>1, <3>2, NodeStep
  <2>3. QED
    BY <1>0, <1>11, <2>1, <2>2 DEF Claim
<1>12. CASE Check(n)
  <2>0. lock' = lock
    BY <1>12 DEF Check, redis
  <2>1. Engaged(u) => Engaged(u)' /\ Held(u)'
    <3>1. SUFFICES ASSUME Engaged(u) PROVE Engaged(u)' /\ Held(u)'
      OBVIOUS
    <3>2. PICK m \in Node : /\ pc[m] \in {"run", "record", "unlock", "bury", "shunt"}
                           /\ job[m].task = u
      BY <3>1 DEF Engaged
    <3>3. pc'[m] = pc[m] /\ job'[m] = job[m]
      BY <1>1, <1>12, <3>2 DEF Check, NodeFrame, OthersKeep
    <3>4. job[m] # NoJob
      BY <3>2, HeldPayload DEF TypeInv
    <3>5. QED
      BY <3>2, <3>3, <3>4 DEF Engaged, Held
  <2>2. Settled(u) => Settled(u)'
    BY <1>1, SettledStays DEF NodeFrame
  <2>3. lock'[u] = "in_progress" => Engaged(u)' \/ Settled(u)'
    BY <2>0, <2>1, <2>2 DEF LockMeaning
  <2>4. CASE lock[u] \in {"success", "in_progress"} /\ Release(n)
    <3>1. Live(u)' \/ Settled(u)'
      BY <2>1, <2>2, <2>4, <1>5 DEF LockMeaning, Settled, Live
    <3>2. QED
      BY <1>0, <1>1, <1>6, <1>9, <2>0, <2>3, <2>4, <3>1, NodeStep
  <2>5. CASE Dispatch(n) /\ UNCHANGED job
    BY <1>0, <1>1, <1>3, <1>6, <1>7, <2>0, <2>3, <2>5, NodeStep
  <2>6. QED
    BY <1>0, <1>12, <2>4, <2>5 DEF Check
<1>13. CASE Succeed(n)
  <2>1. job' = job /\ lock' = lock /\ pc'[n] = "record" /\ done'[u] > 0
    BY <1>0, <1>2, <1>13 DEF Succeed, Goto, redis
  <2>2. QED
    BY <1>0, <1>1, <1>3, <1>4, <1>6, <2>1, NodeStep
<1>14. CASE Fail(n)
  <2>1. job' = job /\ lock' = lock /\ pc'[n] \in {"unlock", "bury"}
    BY <1>8, <1>14 DEF Fail, redis
  <2>2. QED
    BY <1>0, <1>1, <1>3, <1>4, <1>6, <2>1, NodeStep
<1>15. CASE Record(n)
  <2>1. lock'[u] = "success" /\ done'[u] > 0 /\ pc'[n] = "pop"
    BY <1>0, <1>2, <1>5, <1>9, <1>15 DEF Record, SetLock, Recording
  <2>2. QED
    BY <1>0, <1>1, <2>1, NodeStep DEF Settled
<1>16. CASE Unlock(n)
  <2>1. job' = job /\ lock'[u] = "absent" /\ pc'[n] = "requeue"
    BY <1>0, <1>2, <1>16 DEF Unlock, SetLock, Goto
  <2>2. QED
    BY <1>0, <1>1, <1>3, <2>1, NodeStep
<1>17. CASE Requeue(n)
  <2>1. lock' = lock /\ pc'[n] = "pop"
    BY <1>9, <1>17 DEF Requeue
  <2>2. Delayed(u)'
    <3>1. Retried(job[n]) \in delayed'
      BY <1>17 DEF Requeue, ZAdd
    <3>2. Retried(job[n]).task = u
      BY <1>0, <1>2, <1>17, RetriedPayload DEF Requeue, TypeInv, Entitled
    <3>3. QED
      BY <3>1, <3>2 DEF Delayed
  <2>3. Engaged(u) => Engaged(u)'
    BY <1>1, <1>17 DEF Engaged, NodeFrame, OthersKeep, Requeue
  <2>4. lock'[u] = "in_progress" => Engaged(u)' \/ Settled(u)'
    BY <1>1, <2>1, <2>3, SettledStays DEF LockMeaning, NodeFrame
  <2>5. QED
    BY <1>0, <1>1, <1>6, <2>1, <2>2, <2>4, NodeStep DEF Live
<1>18. CASE Bury(n) \/ Shunt(n)
  <2>1. Buried(u)' /\ lock' = lock
    <3>1. dlq' = Append(dlq, job[n]) /\ lock' = lock
      BY <1>18 DEF Bury, Shunt
    <3>2. QED
      BY <1>0, <1>2, <3>1, BuriedAppend DEF TypeInv
  <2>2. \/ pc'[n] = "pop"
        \/ pc'[n] = "mark" /\ job' = job
    BY <1>2, <1>9, <1>18 DEF Bury, Shunt, Goto
  <2>3. pc'[n] = "mark" => Buried(job[n].task)'
    BY <1>0, <2>1, <2>2 DEF Buried
  <2>4. QED
    BY <1>0, <1>1, <1>6, <2>1, <2>2, <2>3, NodeStep DEF Settled
<1>19. CASE Mark(n)
  <2>1. lock'[u] = "failed" /\ pc'[n] = "pop"
    BY <1>0, <1>2, <1>9, <1>19 DEF Mark, SetLock
  <2>2. Buried(u)
    BY <1>0, <1>19 DEF Mark, Recording, Buried
  <2>3. Settled(u)'
    BY <1>1, <2>2, SettledStays DEF Settled, NodeFrame
  <2>4. QED
    BY <1>0, <1>1, <2>1, <2>3, NodeStep
<1>20. QED
  BY <1>11, <1>12, <1>13, <1>14, <1>15, <1>16, <1>17, <1>18, <1>19
     DEF Worker, Pop

LEMMA PopLoss ==
  ASSUME LossInv, TypeInv', NEW n \in Node, Worker(n), pc[n] = "pop"
  PROVE  LossInv'
<1>1. Pop(n)
  BY DEF Worker, Claim, Check, Succeed, Fail, Record, Unlock, Requeue, Bury,
         Mark, Shunt
<1>2. /\ lock' = lock /\ done' = done /\ dlq' = dlq /\ dropped' = dropped
      /\ delayed' = delayed /\ enqueued' = enqueued
      /\ queue # <<>> /\ queue' = Tail(queue)
  BY <1>1 DEF Pop, history
<1>3. Head(queue) \in Payload /\ Head(queue) # NoJob
  BY <1>2, PoppedPayload, NoJobAssumption DEF LossInv, TypeInv
<1>4. /\ pc'[n] = "claim" /\ job'[n] = Head(queue) /\ job'[n] # NoJob
      /\ OthersKeep(n) /\ job[n] = NoJob
  BY <1>1, <1>3, NodeGrows DEF Pop, Goto, LossInv, TypeInv, TypeOK
<1>5. ASSUME NEW t PROVE /\ Settled(t)' <=> Settled(t)
                         /\ Engaged(t) => Engaged(t)'
  BY <1>2, <1>4 DEF Settled, Buried, Engaged, OthersKeep
<1>6. LockMeaning'
  BY <1>2, <1>5 DEF LockMeaning, LossInv
<1>7. Recording'
  <2>1. ASSUME NEW m \in Node, m # n
        PROVE  /\ pc'[m] = "record" => done'[job'[m].task] > 0
               /\ pc'[m] = "mark" => Buried(job[m].task)'
    BY <1>2, <1>4, <2>1 DEF Recording, OthersKeep, Buried, LossInv
  <2>2. QED
    BY <1>4, <2>1 DEF Recording
<1>8. ASSUME NEW t \in enqueued PROVE Live(t)' \/ Settled(t)'
  <2>1. Queued(t) => Held(t)' \/ Queued(t)'
    BY <1>2, <1>4, QueuedPop DEF Held, LossInv, TypeInv
  <2>2. Live(t) \/ Settled(t)
    BY DEF LossInv, NoTaskLost, Live, Settled
  <2>3. (Settled(t) => Settled(t)') /\ (Delayed(t) => Delayed(t)')
        /\ (Held(t) => Held(t)')
    BY <1>2, <1>4 DEF Settled, Buried, Delayed, Held, OthersKeep
  <2>4. QED
    BY <2>1, <2>2, <2>3 DEF Live
<1>9. QED
  BY <1>2, <1>6, <1>7, <1>8 DEF LossInv, NoTaskLost, Live, Settled

\* A payload lost by BRPOP, at a command or with its process.
LEMMA FaultLoss ==
  ASSUME LossInv, TypeInv', NEW n \in Node, WorkerError(n) \/ Halt(n)
  PROVE  LossInv'
<1>0. Grows /\ OthersKeep(n)
  BY NodeGrows DEF LossInv
<1>1. CASE LosePop(n)
  <2>1. /\ pc' = pc /\ job' = job /\ lock' = lock /\ done' = done
        /\ dlq' = dlq /\ delayed' = delayed /\ enqueued' = enqueued
        /\ queue # <<>> /\ queue' = Tail(queue)
        /\ dropped' = dropped \cup {Head(queue).task}
    BY <1>1 DEF LosePop, worker
  <2>2. ASSUME NEW t PROVE /\ Settled(t) => Settled(t)'
                           /\ Engaged(t) => Engaged(t)'
    BY <2>1 DEF Settled, Buried, Engaged
  <2>3. LockMeaning' /\ Recording'
    BY <2>1, <2>2 DEF LossInv, LockMeaning, Recording, Buried
  <2>4. ASSUME NEW t \in enqueued PROVE Live(t)' \/ Settled(t)'
    <3>1. Queued(t) => Queued(t)' \/ Settled(t)'
      BY <2>1, QueuedPop DEF Settled, LossInv, TypeInv
    <3>2. Live(t) \/ Settled(t)
      BY DEF LossInv, NoTaskLost, Live, Settled
    <3>3. (Settled(t) => Settled(t)') /\ (Delayed(t) => Delayed(t)')
          /\ (Held(t) => Held(t)')
      BY <2>1 DEF Settled, Buried, Delayed, Held
    <3>4. QED
      BY <3>1, <3>2, <3>3 DEF Live
  <2>5. QED
    BY <2>1, <2>3, <2>4 DEF LossInv, NoTaskLost, Live, Settled
<1>2. CASE pc[n] # "pop" /\ ~LosePop(n)
  <2>0. PICK u \in Task : u = job[n].task
    BY <1>2, HeldPayload DEF LossInv, TypeInv
  <2>1. NodeFrame(n)
    BY <1>2, FrameOfStep DEF LossInv
  <2>2. CASE Drop(n)
    <3>1. lock'[u] = lock[u] \/ lock'[u] \in {"absent", "in_progress"}
      BY <1>2, <2>0, <2>2 DEF WorkerError, Halt, LoseCommand, RecordError, SetLock,
                         redis, worker, LossInv, TypeInv, TypeOK, Drop, Release
    <3>2. QED
      BY <2>0, <2>1, <2>2, <3>1, DropStep DEF LossInv, LockMeaning
  <2>3. CASE RecordError(n)
    <3>1. job' = job /\ done' = done /\ (lock'[u] = lock[u] \/ lock'[u] = "success")
      BY <2>0, <2>3 DEF RecordError, SetLock, LossInv, TypeInv, TypeOK
    <3>2. done[u] > 0
      BY <2>0, <2>3 DEF RecordError, LossInv, Recording
    <3>3. pc'[n] \in {"unlock", "bury"}
      BY <2>3 DEF RecordError, HandleFailure, Goto, LossInv, TypeInv, TypeOK
    <3>4. QED
      BY <2>0, <2>1, <3>1, <3>2, <3>3, NodeStep DEF Settled
  <2>4. QED
    BY <1>2, <2>2, <2>3 DEF WorkerError, Halt, LoseCommand
<1>3. CASE UNCHANGED <<redis, worker, history>>
  BY <1>3 DEF LossInv, LockMeaning, Recording, NoTaskLost, Settled, Engaged,
     Queued, Delayed, Held, Buried, redis, worker, history
<1>4. QED
  BY <1>1, <1>2, <1>3 DEF WorkerError, Halt, LoseCommand, RecordError

\* Steps that touch no worker and no outcome, and only add payloads.
LEMMA QuietStep ==
  ASSUME LossInv, TypeInv', UNCHANGED <<pc, job, done, dropped, dlq>>,
         \A t \in Task : lock'[t] \in {lock[t], "absent"},
         \A t \in enqueued' : \/ t \in enqueued /\ ~(Queued(t) \/ Delayed(t))
                              \/ Queued(t)' \/ Delayed(t)'
  PROVE  LossInv'
<1>1. ASSUME NEW t PROVE /\ Settled(t)' <=> Settled(t)
                         /\ Engaged(t)' <=> Engaged(t)
                         /\ Held(t)' <=> Held(t)
  BY DEF Settled, Buried, Engaged, Held
<1>2. LockMeaning' /\ Recording'
  BY <1>1 DEF LossInv, LockMeaning, Recording, Buried
<1>3. ASSUME NEW t \in enqueued' PROVE (Live(t) \/ Settled(t))'
  BY <1>1 DEF LossInv, NoTaskLost, Live, Settled
<1>4. QED
  BY <1>2, <1>3 DEF LossInv, NoTaskLost, Live, Settled

LEMMA EnqueueLoss ==
  ASSUME LossInv, TypeInv', NEW u \in Task, NEW d \in Delays, Enqueue(u, d)
  PROVE  LossInv'
<1> DEFINE p == [task |-> u, retry |-> 0]
<1>1. p \in Payload /\ p.task = u
  BY FreshPayload
<1> HIDE DEF p
<1>2. /\ enqueued' = enqueued \cup {u} /\ lock' = lock
      /\ UNCHANGED <<pc, job, done, dropped, dlq>>
      /\ \/ delayed' = delayed \cup {p} /\ queue' = queue
         \/ delayed' = delayed /\ Push(p)
  BY DEF Enqueue, ZAdd, worker, p
<1>3. ASSUME NEW t PROVE /\ Queued(t) => Queued(t)'
                         /\ Delayed(t) => Delayed(t)'
                         /\ t = u => Queued(t)' \/ Delayed(t)'
  BY <1>1, <1>2, QueuedPush DEF Queued, Delayed, LossInv, TypeInv
<1>4. QED
  BY <1>2, <1>3, QuietStep

LEMMA SchedulerLoss ==
  ASSUME LossInv, TypeInv', NEW n \in Node, Poll(n) \/ Promote(n) \/ PromoteError(n)
  PROVE  LossInv'
<1>1. UNCHANGED <<pc, job, done, dropped, dlq, lock, enqueued>>
  BY DEF Poll, Promote, PromoteError, redis, worker, history
<1>2. \/ UNCHANGED <<queue, delayed>>
      \/ \E p \in batch[n] : MovePayload(p)
  BY DEF Poll, Promote, PromoteError, redis
<1>3. ASSUME NEW t, Queued(t) \/ Delayed(t) PROVE Queued(t)' \/ Delayed(t)'
  <2>1. CASE UNCHANGED <<queue, delayed>>
    BY <1>3, <2>1 DEF Queued, Delayed
  <2>2. ASSUME NEW p \in batch[n], MovePayload(p)
        PROVE  Queued(t)' \/ Delayed(t)'
    <3>1. p \in Payload /\ Push(p) /\ delayed' = delayed \ {p}
      BY <2>2 DEF MovePayload, ZRem, LossInv, TypeInv, TypeOK
    <3>2. (Queued(t) => Queued(t)') /\ (p.task = t => Queued(t)')
      BY <3>1, QueuedPush DEF LossInv, TypeInv
    <3>3. QED
      BY <1>3, <3>1, <3>2 DEF Delayed
  <2>3. QED
    BY <1>2, <2>1, <2>2
<1>4. QED
  BY <1>1, <1>3, QuietStep

LEMMA LossStep == LossInv /\ [Next]_vars => LossInv'
<1> SUFFICES ASSUME LossInv, [Next]_vars PROVE LossInv'
  OBVIOUS
<1>0. TypeInv'
  BY TypeStep DEF LossInv
<1>1. CASE \E t \in Task, d \in Delays : Enqueue(t, d)
  BY <1>0, <1>1, EnqueueLoss
<1>2. CASE \E n \in Node : Scheduler(n) \/ Worker(n)
  BY <1>0, <1>2, SchedulerLoss, WorkerLoss, PopLoss DEF Scheduler
<1>3. CASE \E n \in Node : Fault(n)
  BY <1>0, <1>3, SchedulerLoss, FaultLoss DEF Fault
<1>4. ASSUME NEW u \in Task, Expire(u) PROVE LossInv'
  <2>1. /\ UNCHANGED <<pc, job, done, dropped, dlq, queue, delayed, enqueued>>
        /\ \A t \in Task : lock'[t] \in {lock[t], "absent"}
    BY <1>4 DEF Expire, SetLock, worker, history, LossInv, TypeInv, TypeOK
  <2>2. QED
    BY <1>0, <2>1, QuietStep DEF Queued, Delayed
<1>5. CASE Tick \/ UNCHANGED vars
  <2>1. UNCHANGED <<pc, job, done, dropped, dlq, lock, queue, delayed, enqueued>>
    BY <1>5 DEF Tick, vars, redis, worker, history
  <2>2. QED
    BY <1>0, <2>1, QuietStep DEF Queued, Delayed
<1>6. QED
  BY <1>1, <1>2, <1>3, <1>4, <1>5 DEF Next

LEMMA InitLoss == Init => LossInv
  BY InitType DEF Init, LossInv, LockMeaning, Recording, NoTaskLost

\* On any number of nodes, with any crashes, failing commands and expiring
\* keys, a task leaves the system only by being executed, by being
\* dead-lettered, or in the hands of a worker that stopped or whose Redis
\* command failed: the idempotency guard never skips the last copy of a task.
THEOREM TasksAreKept == Spec => []NoTaskLost
<1>1. Spec => []LossInv
  BY InitLoss, LossStep, PTL DEF Spec
<1>2. LossInv => NoTaskLost
  BY DEF LossInv
<1>3. QED
  BY <1>1, <1>2, PTL

-----------------------------------------------------------------------------
(* Every retry has been earned by an execution.                            *)

Started == {"run", "record", "unlock", "requeue", "bury", "mark"}

\* From the start of its handler to the end of its payload's handling, a
\* worker's own attempt is one of the executions counted.
Spent ==
  \A n \in Node : pc[n] \in Started => runs[job[n].task] >= job[n].retry + 1

EarnInv == TypeInv /\ Spent /\ RetryCountIsEarned

\* What a step may do for the invariant to survive it.
EarnFrame ==
  /\ Grows
  /\ \/ queue' = queue
     \/ queue # <<>> /\ queue' = Tail(queue)
     \/ \E p \in Payload : Push(p) /\ runs[p.task] >= p.retry
  /\ \A p \in delayed' : p \in delayed \/ runs[p.task] >= p.retry
  /\ \A m \in Node : batch'[m] \subseteq batch[m] \cup delayed
  /\ \A m \in Node : \/ job'[m] = NoJob \/ job'[m] = job[m]
                     \/ queue # <<>> /\ job'[m] = Head(queue)
  /\ \/ dlq' = dlq
     \/ \E p \in Payload :
          /\ dlq' = Append(dlq, p)
          /\ p.task \in Unregistered \/ runs[p.task] > MaxRetries[p.task]
  /\ \A m \in Node :
       pc'[m] \in Started =>
         /\ job'[m] = job[m]
         /\ pc[m] \in Started \/ runs'[job[m].task] >= job[m].retry + 1

LEMMA RunsStay ==
  ASSUME TypeInv, Grows, NEW p \in Payload, NEW k \in Nat, runs[p.task] >= k
  PROVE  runs'[p.task] >= k
<1>1. p.task \in Task
  BY PayloadParts
<1>2. /\ runs[p.task] \in Nat /\ runs'[p.task] \in Nat
      /\ runs[p.task] <= runs'[p.task]
  BY <1>1 DEF Grows, TypeInv, TypeOK
<1>3. QED
  BY <1>2

LEMMA EarnStays ==
  ASSUME EarnInv, TypeInv', EarnFrame
  PROVE  EarnInv'
<1>0. Grows
  BY DEF EarnFrame
<1>1. ASSUME NEW p \in Payload, runs[p.task] >= p.retry
      PROVE  runs'[p.task] >= p.retry
  BY <1>0, <1>1, RunsStay, PayloadParts DEF EarnInv
<1>2. \A i \in 1 .. Len(queue') : runs'[queue'[i].task] >= queue'[i].retry
  <2>1. ASSUME NEW i \in 1 .. Len(queue)
        PROVE  queue[i] \in Payload /\ runs[queue[i].task] >= queue[i].retry
    BY ElementOfSeq DEF EarnInv, RetryCountIsEarned, Earned, TypeInv, TypeOK
  <2>2. queue \in Seq(Payload) /\ Len(queue) \in Nat
    BY LenProperties DEF EarnInv, TypeInv, TypeOK
  <2>3. CASE queue' = queue
    BY <1>1, <2>1, <2>3
  <2>4. CASE queue # <<>> /\ queue' = Tail(queue)
    <3>1. ASSUME NEW i \in 1 .. Len(queue')
          PROVE  i + 1 \in 1 .. Len(queue) /\ queue'[i] = queue[i + 1]
      BY <2>2, <2>4, HeadTailProperties
    <3>2. QED
      BY <1>1, <2>1, <3>1
  <2>5. ASSUME NEW p \in Payload, Push(p), runs[p.task] >= p.retry
        PROVE  \A i \in 1 .. Len(queue') : runs'[queue'[i].task] >= queue'[i].retry
    <3>1. /\ Len(queue') = Len(queue) + 1
          /\ \A i \in 1 .. Len(queue) : queue'[i] = queue[i]
          /\ queue'[Len(queue) + 1] = p
      BY <2>2, <2>5, AppendProperties DEF Push
    <3>2. ASSUME NEW i \in 1 .. Len(queue')
          PROVE  runs'[queue'[i].task] >= queue'[i].retry
      <4>1. CASE i \in 1 .. Len(queue)
        BY <1>1, <2>1, <3>1, <4>1
      <4>2. CASE i = Len(queue) + 1
        BY <1>1, <2>5, <3>1, <4>2
      <4>3. QED
        BY <2>2, <3>1, <4>1, <4>2
    <3>3. QED
      BY <3>2
  <2>6. QED
    BY <2>3, <2>4, <2>5 DEF EarnFrame
<1>3. \A p \in delayed' : runs'[p.task] >= p.retry
  <2>1. ASSUME NEW p \in delayed' PROVE p \in Payload /\ runs[p.task] >= p.retry
    BY DEF EarnFrame, EarnInv, RetryCountIsEarned, Earned, TypeInv, TypeOK
  <2>2. QED
    BY <1>1, <2>1
<1>4. \A m \in Node : \A p \in batch'[m] : runs'[p.task] >= p.retry
  <2>1. ASSUME NEW m \in Node, NEW p \in batch'[m]
        PROVE  p \in Payload /\ runs[p.task] >= p.retry
    <3>1. p \in batch[m] \cup delayed
      BY DEF EarnFrame
    <3>2. QED
      BY <3>1 DEF EarnInv, RetryCountIsEarned, Earned, TypeInv, TypeOK
  <2>2. QED
    BY <1>1, <2>1
<1>5. \A m \in Node : job'[m] # NoJob => runs'[job'[m].task] >= job'[m].retry
  <2>1. ASSUME NEW m \in Node, job'[m] # NoJob
        PROVE  job'[m] \in Payload /\ runs[job'[m].task] >= job'[m].retry
    <3>1. CASE job'[m] = job[m]
      BY <2>1, <3>1 DEF EarnInv, RetryCountIsEarned, Earned, TypeInv, TypeOK
    <3>2. CASE queue # <<>> /\ job'[m] = Head(queue)
      <4>1. 1 \in 1 .. Len(queue) /\ Head(queue) = queue[1]
        BY <3>2, HeadTailProperties DEF EarnInv, TypeInv, TypeOK
      <4>2. Head(queue) \in Payload
        BY <3>2, PoppedPayload DEF EarnInv, TypeInv
      <4>3. QED
        BY <3>2, <4>1, <4>2 DEF EarnInv, RetryCountIsEarned, Earned
    <3>3. QED
      BY <2>1, <3>1, <3>2 DEF EarnFrame
  <2>2. QED
    BY <1>1, <2>1
<1>6. \A i \in 1 .. Len(dlq') :
        dlq'[i].task \in Unregistered \/ runs'[dlq'[i].task] > MaxRetries[dlq'[i].task]
  <2>1. ASSUME NEW p \in Payload, runs[p.task] > MaxRetries[p.task]
        PROVE  runs'[p.task] > MaxRetries[p.task]
    <3>1. p.task \in Task /\ MaxRetries[p.task] \in Nat
      BY PayloadParts
    <3>2. /\ runs[p.task] \in Nat /\ runs'[p.task] \in Nat
          /\ runs[p.task] <= runs'[p.task]
      BY <1>0, <3>1 DEF Grows, EarnInv, TypeInv, TypeOK
    <3>3. QED
      BY <2>1, <3>1, <3>2
  <2>2. ASSUME NEW i \in 1 .. Len(dlq)
        PROVE  /\ dlq[i] \in Payload
               /\ dlq[i].task \in Unregistered \/ runs[dlq[i].task] > MaxRetries[dlq[i].task]
    BY ElementOfSeq DEF EarnInv, RetryCountIsEarned, TypeInv, TypeOK
  <2>3. CASE dlq' = dlq
    BY <2>1, <2>2, <2>3
  <2>4. ASSUME NEW p \in Payload, dlq' = Append(dlq, p),
               p.task \in Unregistered \/ runs[p.task] > MaxRetries[p.task],
               NEW i \in 1 .. Len(dlq')
        PROVE  dlq'[i].task \in Unregistered \/ runs'[dlq'[i].task] > MaxRetries[dlq'[i].task]
    <3>1. /\ Len(dlq') = Len(dlq) + 1 /\ Len(dlq) \in Nat
          /\ \A j \in 1 .. Len(dlq) : dlq'[j] = dlq[j]
          /\ dlq'[Len(dlq) + 1] = p
      BY <2>4, AppendProperties, LenProperties DEF EarnInv, TypeInv, TypeOK
    <3>2. CASE i \in 1 .. Len(dlq)
      BY <2>1, <2>2, <3>1, <3>2
    <3>3. CASE i = Len(dlq) + 1
      BY <2>1, <2>4, <3>1, <3>3
    <3>4. QED
      BY <3>1, <3>2, <3>3
  <2>5. QED
    BY <2>3, <2>4 DEF EarnFrame
<1>7. Spent'
  <2>1. ASSUME NEW m \in Node, pc'[m] \in Started
        PROVE  runs'[job'[m].task] >= job'[m].retry + 1
    <3>1. job'[m] = job[m] /\ job[m] \in Payload
      BY <2>1 DEF EarnFrame, Started, TypeInv, TypeOK
    <3>2. job[m].retry + 1 \in Nat
      BY <3>1, PayloadParts
    <3>3. CASE pc[m] \in Started
      BY <1>0, <3>1, <3>2, <3>3, RunsStay DEF EarnInv, Spent
    <3>4. QED
      BY <2>1, <3>1, <3>3 DEF EarnFrame
  <2>2. QED
    BY <2>1 DEF Spent
<1>8. QED
  BY <1>2, <1>3, <1>4, <1>5, <1>6, <1>7 DEF EarnInv, RetryCountIsEarned, Earned

LEMMA WorkerEarn ==
  ASSUME EarnInv, TypeInv', NEW n \in Node, Worker(n)
  PROVE  EarnInv'
<1> USE DEF EarnInv
<1>0. Grows /\ OthersKeep(n)
  BY NodeGrows
<1>1. pc[n] # "pop" => job[n] \in Payload /\ job[n].task \in Task
  BY HeldPayload DEF TypeInv
<1>2. \A m \in Node : batch'[m] \subseteq batch[m] \cup delayed
  BY DEF Worker, Pop, Claim, Check, Succeed, Fail, Record, Unlock, Requeue,
         Bury, Mark, Shunt
<1>3. queue' = queue \/ (queue # <<>> /\ queue' = Tail(queue))
  BY DEF Worker, Pop, Claim, Check, Succeed, Fail, Record, Unlock, Requeue,
         Bury, Mark, Shunt, redis
<1>4. \A m \in Node : \/ job'[m] = NoJob \/ job'[m] = job[m]
                      \/ queue # <<>> /\ job'[m] = Head(queue)
  <2>1. \/ job' = job \/ job' = [job EXCEPT ![n] = NoJob]
        \/ queue # <<>> /\ job' = [job EXCEPT ![n] = Head(queue)]
    BY DEF Release, Worker, Pop, Claim, Check, Succeed, Fail, Record, Unlock,
           Requeue, Bury, Mark, Shunt
  <2>2. SUFFICES ASSUME NEW m \in Node, job'[m] # NoJob, job'[m] # job[m]
                 PROVE  queue # <<>> /\ job'[m] = Head(queue)
    OBVIOUS
  <2>3. job \in [Node -> Payload \cup {NoJob}]
    BY DEF TypeInv, TypeOK
  <2>4. queue # <<>> /\ job' = [job EXCEPT ![n] = Head(queue)]
    BY <2>1, <2>2, <2>3
  <2>5. QED
    BY <2>2, <2>3, <2>4
<1>5. \A p \in delayed' : p \in delayed \/ runs[p.task] >= p.retry
  <2>1. CASE Requeue(n)
    <3>1. delayed' = delayed \cup {Retried(job[n])} /\ pc[n] = "requeue"
      BY <2>1 DEF Requeue, ZAdd
    <3>2. /\ Retried(job[n]).task = job[n].task
          /\ Retried(job[n]).retry = job[n].retry + 1
      BY <1>1, <3>1, RetriedPayload DEF TypeInv, Entitled
    <3>3. runs[job[n].task] >= job[n].retry + 1
      BY <3>1 DEF Spent, Started
    <3>4. QED
      BY <3>1, <3>2, <3>3
  <2>2. CASE ~Requeue(n)
    <3>1. delayed' = delayed
      BY <2>2 DEF Worker, Pop, Claim, Check, Succeed, Fail, Record, Unlock,
                  Bury, Mark, Shunt, redis
    <3>2. QED
      BY <3>1
  <2>3. QED
    BY <2>1, <2>2
<1>6. \/ dlq' = dlq
      \/ \E p \in Payload :
           /\ dlq' = Append(dlq, p)
           /\ p.task \in Unregistered \/ runs[p.task] > MaxRetries[p.task]
  <2>1. CASE Bury(n)
    <3>1. runs[job[n].task] >= job[n].retry + 1 /\ job[n].retry >= MaxRetries[job[n].task]
      BY <2>1 DEF Bury, Spent, Started, TypeInv, Entitled
    <3>2. /\ job[n].retry \in Nat /\ MaxRetries[job[n].task] \in Nat
          /\ runs[job[n].task] \in Nat
      BY <1>1, <2>1, PayloadParts DEF Bury, TypeInv, TypeOK
    <3>3. QED
      BY <1>1, <2>1, <3>1, <3>2 DEF Bury
  <2>2. CASE Shunt(n)
    BY <1>1, <2>2 DEF Shunt, TypeInv, Entitled
  <2>3. CASE ~Bury(n) /\ ~Shunt(n)
    BY <2>3 DEF Worker, Pop, Claim, Check, Succeed, Fail, Record, Unlock,
                Requeue, Mark, redis
  <2>4. QED
    BY <2>1, <2>2, <2>3
<1>7. ASSUME NEW m \in Node, pc'[m] \in Started
      PROVE  /\ job'[m] = job[m]
             /\ pc[m] \in Started \/ runs'[job[m].task] >= job[m].retry + 1
  <2>1. CASE m # n
    BY <1>0, <1>7, <2>1 DEF OthersKeep
  <2>2. CASE m = n
    <3>1. /\ pc' \in [Node -> Step] /\ pc \in [Node -> Step]
          /\ runs \in [Task -> Nat]
      BY DEF TypeInv, TypeOK
    <3>2. CASE Dispatch(n) /\ job' = job /\ pc[n] # "pop"
      <4>1. pc'[n] = "run" /\ job[n].task \notin Unregistered
        BY <1>7, <2>2, <3>1, <3>2 DEF Dispatch, Goto, Started
      <4>2. runs'[job[n].task] = runs[job[n].task] + 1
        BY <1>1, <3>1, <3>2, <4>1 DEF Dispatch
      <4>3. runs[job[n].task] >= job[n].retry /\ job[n].retry \in Nat
            /\ runs[job[n].task] \in Nat
        BY <1>1, <3>1, <3>2, PayloadParts, HeldPayload
           DEF RetryCountIsEarned, Earned, TypeInv
      <4>4. QED
        BY <2>2, <3>2, <4>2, <4>3
    <3>3. CASE job' = job /\ pc[n] \in Started
      BY <2>2, <3>3
    <3>4. CASE pc'[n] \in {"pop", "claim", "check"}
      BY <1>7, <2>2, <3>4 DEF Started
    <3>5. QED
      BY <3>1, <3>2, <3>3, <3>4 DEF Worker, Pop, Claim, Check, Succeed, Fail,
         Record, Unlock, Requeue, Bury, Mark, Shunt, Release, Goto, Started
  <2>3. QED
    BY <2>1, <2>2
<1>8. EarnFrame
  BY <1>0, <1>2, <1>3, <1>4, <1>5, <1>6, <1>7 DEF EarnFrame
<1>9. QED
  BY <1>8, EarnStays

LEMMA FaultEarn ==
  ASSUME EarnInv, TypeInv', NEW n \in Node, WorkerError(n) \/ Halt(n)
  PROVE  EarnInv'
<1> USE DEF EarnInv
<1>0. Grows /\ OthersKeep(n)
  BY NodeGrows
<1>1. pc[n] # "pop" => job[n] \in Payload /\ job[n].task \in Task
  BY HeldPayload DEF TypeInv
<1>2. \A m \in Node : batch'[m] \subseteq batch[m] \cup delayed
  BY DEF WorkerError, Halt, TypeInv, TypeOK
<1>3. /\ queue' = queue \/ (queue # <<>> /\ queue' = Tail(queue))
      /\ delayed' = delayed
  BY DEF WorkerError, Halt, LosePop, LoseCommand, RecordError, redis
<1>4. \A m \in Node : job'[m] = NoJob \/ job'[m] = job[m]
  BY <1>0 DEF TypeInv, TypeOK, OthersKeep, Release, Drop, WorkerError, Halt,
     LosePop, LoseCommand, RecordError, worker
<1>5. \/ dlq' = dlq
      \/ \E p \in Payload :
           /\ dlq' = Append(dlq, p)
           /\ p.task \in Unregistered \/ runs[p.task] > MaxRetries[p.task]
  <2>1. CASE LoseCommand(n) /\ pc[n] = "bury"
    <3>1. runs[job[n].task] >= job[n].retry + 1 /\ job[n].retry >= MaxRetries[job[n].task]
      BY <2>1 DEF Spent, Started, TypeInv, Entitled
    <3>2. /\ job[n].retry \in Nat /\ MaxRetries[job[n].task] \in Nat
          /\ runs[job[n].task] \in Nat
      BY <1>1, <2>1, PayloadParts DEF TypeInv, TypeOK
    <3>3. QED
      BY <1>1, <2>1, <3>1, <3>2 DEF LoseCommand
  <2>2. CASE LoseCommand(n) /\ pc[n] = "shunt"
    BY <1>1, <2>2 DEF LoseCommand, TypeInv, Entitled
  <2>3. CASE ~(LoseCommand(n) /\ pc[n] \in {"bury", "shunt"})
    BY <2>3 DEF WorkerError, Halt, LosePop, LoseCommand, RecordError, redis
  <2>4. QED
    BY <2>1, <2>2, <2>3
<1>6. ASSUME NEW m \in Node, pc'[m] \in Started
      PROVE  job'[m] = job[m] /\ pc[m] \in Started
  <2>1. CASE m # n
    BY <1>0, <1>6, <2>1 DEF OthersKeep
  <2>2. CASE m = n
    BY <1>6, <2>2 DEF WorkerError, Halt, LosePop, LoseCommand, RecordError, Drop,
       Release, Goto, worker, Started, TypeInv, TypeOK
  <2>3. QED
    BY <2>1, <2>2
<1>7. EarnFrame
  BY <1>0, <1>2, <1>3, <1>4, <1>5, <1>6 DEF EarnFrame
<1>8. QED
  BY <1>7, EarnStays

LEMMA SchedulerEarn ==
  ASSUME EarnInv, TypeInv', NEW n \in Node, Poll(n) \/ Promote(n) \/ PromoteError(n)
  PROVE  EarnInv'
<1>1. UNCHANGED <<pc, job, dlq, runs, done, dropped>>
  BY DEF Poll, Promote, PromoteError, redis, worker, history
<1>2. queue' = queue \/ \E p \in Payload : Push(p) /\ runs[p.task] >= p.retry
  <2>1. ASSUME NEW p \in batch[n], MovePayload(p)
        PROVE  p \in Payload /\ Push(p) /\ runs[p.task] >= p.retry
    BY <2>1 DEF MovePayload, EarnInv, TypeInv, TypeOK, RetryCountIsEarned, Earned
  <2>2. queue' = queue \/ \E p \in batch[n] : MovePayload(p)
    BY DEF Poll, Promote, PromoteError, redis
  <2>3. QED
    BY <2>1, <2>2
<1>3. delayed' \subseteq delayed
  BY DEF Poll, Promote, PromoteError, MovePayload, ZRem, redis
<1>4. \A m \in Node : batch'[m] \subseteq batch[m] \cup delayed
  <2>1. \/ batch' = [batch EXCEPT ![n] = Ready]
        \/ batch' = [batch EXCEPT ![n] = {}]
        \/ \E p \in batch[n] : batch' = [batch EXCEPT ![n] = @ \ {p}]
    BY DEF Poll, Promote, PromoteError
  <2>2. batch \in [Node -> SUBSET Payload] /\ Ready \subseteq delayed
    BY DEF Ready, EarnInv, TypeInv, TypeOK
  <2>3. QED
    BY <2>1, <2>2
<1>5. Grows
  BY <1>1 DEF Grows, EarnInv, TypeInv, TypeOK
<1>6. EarnFrame
  BY <1>1, <1>2, <1>3, <1>4, <1>5 DEF EarnFrame
<1>7. QED
  BY <1>6, EarnStays

LEMMA EnqueueEarn ==
  ASSUME EarnInv, TypeInv', NEW u \in Task, NEW d \in Delays, Enqueue(u, d)
  PROVE  EarnInv'
<1> DEFINE p == [task |-> u, retry |-> 0]
<1>1. p \in Payload /\ runs[p.task] >= p.retry
  BY FreshPayload DEF EarnInv, TypeInv, TypeOK
<1> HIDE DEF p
<1>2. /\ UNCHANGED <<pc, job, batch, dlq, runs, done, dropped>>
      /\ queue' = queue \/ Push(p)
      /\ delayed' = delayed \/ delayed' = delayed \cup {p}
  BY DEF Enqueue, ZAdd, worker, p
<1>3. Grows
  BY <1>2 DEF Grows, EarnInv, TypeInv, TypeOK
<1>4. EarnFrame
  BY <1>1, <1>2, <1>3 DEF EarnFrame
<1>5. QED
  BY <1>4, EarnStays

LEMMA EarnStep == EarnInv /\ [Next]_vars => EarnInv'
<1> SUFFICES ASSUME EarnInv, [Next]_vars PROVE EarnInv'
  OBVIOUS
<1>0. TypeInv'
  BY TypeStep DEF EarnInv
<1>1. CASE \E t \in Task, d \in Delays : Enqueue(t, d)
  BY <1>0, <1>1, EnqueueEarn
<1>2. CASE \E n \in Node : Scheduler(n) \/ Worker(n)
  BY <1>0, <1>2, SchedulerEarn, WorkerEarn DEF Scheduler
<1>3. CASE \E n \in Node : Fault(n)
  BY <1>0, <1>3, SchedulerEarn, FaultEarn DEF Fault
<1>4. CASE Tick \/ (\E t \in Task : Expire(t)) \/ UNCHANGED vars
  <2>1. UNCHANGED <<pc, job, batch, queue, delayed, dlq, runs, done, dropped>>
    BY <1>4 DEF Tick, Expire, vars, redis, worker, history
  <2>2. Grows
    BY <2>1 DEF Grows, EarnInv, TypeInv, TypeOK
  <2>3. EarnFrame
    BY <2>1, <2>2 DEF EarnFrame
  <2>4. QED
    BY <1>0, <2>3, EarnStays
<1>5. QED
  BY <1>1, <1>2, <1>3, <1>4 DEF Next

LEMMA InitEarn == Init => EarnInv
<1> SUFFICES ASSUME Init PROVE EarnInv
  OBVIOUS
<1>1. Len(queue) = 0 /\ Len(dlq) = 0
  BY DEF Init
<1>2. Spent /\ RetryCountIsEarned
  BY <1>1 DEF Init, Spent, Started, RetryCountIsEarned
<1>3. QED
  BY <1>2, InitType DEF EarnInv

\* retry_count never runs ahead of the executions that took place, and no
\* task with a handler is dead-lettered before max_retries + 1 of them,
\* whatever duplicates, crashes and expiring keys do.
THEOREM RetriesAreEarned == Spec => []RetryCountIsEarned
<1>1. Spec => []EarnInv
  BY InitEarn, EarnStep, PTL DEF Spec
<1>2. EarnInv => RetryCountIsEarned
  BY DEF EarnInv
<1>3. QED
  BY <1>1, <1>2, PTL

-----------------------------------------------------------------------------
(* The first execution of a task is never overlapped while no idempotency  *)
(* key has expired: what the lock achieves, on any number of nodes.        *)

On(n, t) == job[n] # NoJob /\ job[n].task = t

Begun(n, t) == pc[n] \in Started /\ On(n, t)

\* A duplicate that finds the lock taken before the first execution is
\* skipped, and the lock changes hands only when an attempt has ended: so a
\* first attempt has no companion and a second none that runs its handler.
FirstOf(t) ==
  /\ runs[t] = 0 =>
       /\ done[t] = 0 /\ lock[t] \in {"absent", "in_progress"}
       /\ \A n \in Node : pc[n] = "check" /\ On(n, t) => lock[t] = "in_progress"
  /\ runs[t] = 1 => \A m, n \in Node : Begun(m, t) /\ Begun(n, t) => m = n
  /\ runs[t] <= 2 =>
       \A m, n \in Node :
         pc[m] = "run" /\ pc[n] = "run" /\ On(m, t) /\ On(n, t) => m = n
  /\ runs[t] = 1 =>
       \A n \in Node : pc[n] = "run" /\ On(n, t) => lock[t] = "in_progress"
  /\ errors = 0 /\ runs[t] = 1 /\ done[t] > 0 =>
       /\ lock[t] \in {"in_progress", "success"}
       /\ \A n \in Node : Begun(n, t) => pc[n] = "record"

FirstInv == expiries = 0 => \A t \in Task : FirstOf(t)

\* A first execution has no companion: two handlers of one task run at the
\* same time only after its third execution has begun.
FirstRunAlone ==
  expiries = 0 =>
    \A m, n \in Node :
      m # n /\ pc[m] = "run" /\ pc[n] = "run" /\ job[m].task = job[n].task
        => runs[job[m].task] > 2

\* A task whose first execution succeeded is never executed again.
FirstSuccessIsLast ==
  [][\A t \in Task :
       expiries = 0 /\ errors = 0 /\ runs[t] = 1 /\ done[t] > 0
         => runs'[t] = 1]_vars

LEMMA NoneBegun ==
  ASSUME EarnInv, NEW t \in Task, runs[t] = 0, NEW n \in Node
  PROVE  ~Begun(n, t)
<1> SUFFICES ASSUME Begun(n, t) PROVE FALSE
  OBVIOUS
<1>1. pc[n] \in Started /\ job[n].task = t /\ pc[n] # "pop"
  BY DEF Begun, On, Started
<1>2. job[n].retry \in Nat
  BY <1>1, HeldPayload, PayloadParts DEF EarnInv, TypeInv
<1>3. runs[t] >= job[n].retry + 1
  BY <1>1 DEF EarnInv, Spent
<1>4. QED
  BY <1>2, <1>3

\* A step that leaves what FirstOf(t) is about as it was.
Calm(t) ==
  /\ runs'[t] = runs[t] /\ done'[t] = done[t] /\ lock'[t] = lock[t]
  /\ errors \in Nat /\ errors' \in Nat /\ errors <= errors'
  /\ \A m \in Node :
       /\ Begun(m, t)' => Begun(m, t) /\ pc'[m] = pc[m]
       /\ pc'[m] = "check" /\ On(m, t)' => pc[m] = "check" /\ On(m, t)

LEMMA FirstCalm ==
  ASSUME NEW t \in Task, FirstOf(t), Calm(t)
  PROVE  FirstOf(t)'
<1>1. errors' = 0 => errors = 0
  BY DEF Calm
<1>2. \A m \in Node : pc'[m] = "run" /\ On(m, t)' => pc[m] = "run" /\ On(m, t)
  BY DEF Calm, Begun, Started
<1>3. QED
  BY <1>1, <1>2 DEF FirstOf, Calm

\* Other nodes see nothing of a step of n but the lock.
LEMMA Bystander ==
  ASSUME NEW n \in Node, OthersKeep(n), NEW t, NEW m \in Node, m # n
  PROVE  /\ On(m, t)' <=> On(m, t)
         /\ Begun(m, t)' <=> Begun(m, t)
         /\ pc'[m] = pc[m]
  BY DEF OthersKeep, On, Begun

\* A handler starts: the lock was not held, so no first attempt is under way.
Starts(n, t) ==
  /\ pc'[n] = "run" /\ On(n, t) /\ On(n, t)' /\ OthersKeep(n)
  /\ runs'[t] = runs[t] + 1 /\ done'[t] = done[t]
  /\ \/ pc[n] = "claim" /\ lock[t] = "absent" /\ lock'[t] = "in_progress"
     \/ pc[n] = "check" /\ lock[t] \in {"absent", "failed"}

LEMMA FirstStarts ==
  ASSUME EarnInv, NEW t \in Task, FirstOf(t), NEW n \in Node, Starts(n, t)
  PROVE  FirstOf(t)'
<1>1. runs[t] \in Nat /\ runs'[t] = runs[t] + 1 /\ done'[t] = done[t]
  BY DEF Starts, EarnInv, TypeInv, TypeOK
<1>2. \A m \in Node \ {n} : /\ On(m, t)' <=> On(m, t)
                            /\ Begun(m, t)' <=> Begun(m, t)
                            /\ pc'[m] = pc[m]
  BY Bystander DEF Starts
<1>3. ASSUME runs'[t] = 1
      PROVE  /\ runs[t] = 0 /\ done'[t] = 0 /\ lock'[t] = "in_progress"
             /\ \A m \in Node : Begun(m, t)' => m = n
  <2>1. runs[t] = 0
    BY <1>1, <1>3
  <2>2. \A m \in Node : ~Begun(m, t)
    BY <2>1, NoneBegun
  <2>3. done[t] = 0 /\ (pc[n] = "check" => lock[t] = "in_progress")
    BY <2>1 DEF FirstOf, Starts
  <2>4. QED
    BY <1>1, <1>2, <2>1, <2>2, <2>3 DEF Starts
<1>4. ASSUME runs'[t] <= 2, NEW m \in Node \ {n}, pc'[m] = "run", On(m, t)'
      PROVE  FALSE
  <2>1. pc[m] = "run" /\ On(m, t)
    BY <1>2, <1>4
  <2>2. CASE runs[t] = 0
    BY <2>1, <2>2, NoneBegun DEF Begun, Started
  <2>3. CASE runs[t] = 1
    <3>1. lock[t] = "in_progress"
      BY <2>1, <2>3 DEF FirstOf
    <3>2. QED
      BY <3>1 DEF Starts
  <2>4. QED
    BY <1>1, <1>4, <2>2, <2>3
<1>5. runs'[t] # 0
  BY <1>1
<1>6. \A m \in Node : pc'[m] = "run" /\ On(m, t)' => Begun(m, t)'
  BY DEF Begun, Started
<1>7. QED
  BY <1>3, <1>4, <1>5, <1>6 DEF FirstOf

\* A worker moves on without starting a handler and without an outcome.
Quiet(n, t) ==
  /\ On(n, t) /\ OthersKeep(n) /\ pc'[n] # "run"
  /\ runs'[t] = runs[t] /\ done'[t] = done[t]
  /\ errors \in Nat /\ errors' \in Nat /\ errors <= errors'
  /\ Begun(n, t)' => Begun(n, t)
  /\ \/ lock'[t] = lock[t]
     \/ pc[n] = "claim" /\ lock[t] = "absent" /\ lock'[t] = "in_progress"
     \/ pc[n] \in Started \ {"run"}
  /\ pc'[n] = "check" => lock[t] # "absent" /\ lock'[t] = lock[t]
  /\ pc[n] = "record" /\ errors' = 0 =>
       pc'[n] \notin Started /\ lock'[t] \in {lock[t], "success"}

LEMMA FirstQuiet ==
  ASSUME EarnInv, NEW t \in Task, FirstOf(t), NEW n \in Node, Quiet(n, t)
  PROVE  FirstOf(t)'
<1>1. /\ runs'[t] = runs[t] /\ done'[t] = done[t] /\ On(n, t)
      /\ errors' = 0 => errors = 0
  BY DEF Quiet
<1>2. \A m \in Node \ {n} : /\ On(m, t)' <=> On(m, t)
                            /\ Begun(m, t)' <=> Begun(m, t)
                            /\ pc'[m] = pc[m]
  BY Bystander DEF Quiet
<1>3. \A m \in Node : /\ pc'[m] = "run" => m # n
                      /\ Begun(m, t)' => Begun(m, t)
  BY <1>2 DEF Quiet
<1>4. ASSUME runs[t] = 0
      PROVE  /\ done'[t] = 0 /\ lock'[t] \in {"absent", "in_progress"}
             /\ \A m \in Node : pc'[m] = "check" /\ On(m, t)' =>
                  lock'[t] = "in_progress"
  <2>1. pc[n] \notin Started
    BY <1>1, <1>4, NoneBegun DEF Begun
  <2>2. \/ lock'[t] = lock[t]
        \/ lock[t] = "absent" /\ lock'[t] = "in_progress"
    BY <2>1 DEF Quiet
  <2>3. done[t] = 0 /\ lock[t] \in {"absent", "in_progress"}
    BY <1>4 DEF FirstOf
  <2>4. \A m \in Node \ {n} : pc'[m] = "check" /\ On(m, t)' =>
          lock[t] = "in_progress"
    BY <1>2, <1>4 DEF FirstOf
  <2>5. pc'[n] = "check" => lock'[t] = "in_progress"
    BY <2>3 DEF Quiet
  <2>6. QED
    BY <1>1, <2>2, <2>3, <2>4, <2>5
<1>5. ASSUME runs[t] = 1
      PROVE  \A m, k \in Node : Begun(m, t)' /\ Begun(k, t)' => m = k
  BY <1>3, <1>5 DEF FirstOf
<1>6. ASSUME runs[t] <= 2, NEW m \in Node, NEW k \in Node, pc'[m] = "run",
             pc'[k] = "run", On(m, t)', On(k, t)'
      PROVE  m = k
  <2>1. /\ pc[m] = "run" /\ On(m, t)
        /\ pc[k] = "run" /\ On(k, t)
    BY <1>2, <1>3, <1>6
  <2>2. QED
    BY <1>6, <2>1 DEF FirstOf
<1>7. ASSUME runs[t] = 1, NEW m \in Node, pc'[m] = "run", On(m, t)'
      PROVE  lock'[t] = "in_progress"
  <2>1. m # n /\ pc[m] = "run" /\ On(m, t)
    BY <1>2, <1>3, <1>7
  <2>2. lock[t] = "in_progress"
    BY <1>7, <2>1 DEF FirstOf
  <2>3. Begun(m, t)
    BY <2>1 DEF Begun, Started
  <2>4. ~Begun(n, t)
    BY <1>7, <2>1, <2>3 DEF FirstOf
  <2>5. pc[n] \notin Started
    BY <1>1, <2>4 DEF Begun
  <2>6. QED
    BY <2>2, <2>5 DEF Quiet
<1>8. ASSUME errors' = 0, runs[t] = 1, done[t] > 0
      PROVE  /\ lock'[t] \in {"in_progress", "success"}
             /\ \A m \in Node : Begun(m, t)' => pc'[m] = "record"
  <2>1. /\ lock[t] \in {"in_progress", "success"}
        /\ \A m \in Node : Begun(m, t) => pc[m] = "record"
    BY <1>1, <1>8 DEF FirstOf
  <2>2. pc[n] \in Started => pc[n] = "record"
    BY <1>1, <2>1 DEF Begun
  <2>3. lock'[t] \in {"in_progress", "success"}
    BY <1>8, <2>1, <2>2 DEF Quiet
  <2>4. ~Begun(n, t)'
    BY <1>8, <2>1 DEF Quiet, Begun
  <2>5. QED
    BY <1>2, <2>1, <2>3, <2>4
<1>9. QED
  BY <1>1, <1>4, <1>5, <1>6, <1>7, <1>8 DEF FirstOf

\* The handler returns.
Returns(n, t) ==
  /\ pc[n] = "run" /\ pc'[n] = "record" /\ On(n, t) /\ On(n, t)'
  /\ OthersKeep(n)
  /\ runs'[t] = runs[t] /\ lock'[t] = lock[t]

LEMMA FirstReturns ==
  ASSUME EarnInv, NEW t \in Task, FirstOf(t), NEW n \in Node, Returns(n, t)
  PROVE  FirstOf(t)'
<1>1. /\ runs'[t] = runs[t] /\ lock'[t] = lock[t]
      /\ Begun(n, t) /\ pc'[n] = "record"
  BY DEF Returns, Begun, Started
<1>2. \A m \in Node : /\ pc'[m] = "run" => m # n
                      /\ Begun(m, t)' => Begun(m, t)
                      /\ m # n => pc'[m] = pc[m]
                      /\ m # n => (On(m, t)' <=> On(m, t))
  BY <1>1, Bystander DEF Returns
<1>3. runs[t] # 0
  BY <1>1, NoneBegun
<1>4. ASSUME runs[t] = 1
      PROVE  /\ lock[t] = "in_progress"
             /\ \A m \in Node : Begun(m, t)' => m = n
  BY <1>1, <1>2, <1>4 DEF FirstOf, Returns
<1>5. ASSUME runs[t] <= 2, NEW m \in Node, NEW k \in Node, pc'[m] = "run",
             pc'[k] = "run", On(m, t)', On(k, t)'
      PROVE  m = k
  <2>1. /\ pc[m] = "run" /\ On(m, t)
        /\ pc[k] = "run" /\ On(k, t)
    BY <1>2, <1>5
  <2>2. QED
    BY <1>5, <2>1 DEF FirstOf
<1>6. QED
  BY <1>1, <1>3, <1>4, <1>5 DEF FirstOf

\* Every step of a worker that holds a payload of task u is one of these.
LEMMA FirstKinds ==
  ASSUME EarnInv, TypeInv', NEW n \in Node, pc[n] # "pop", NEW u \in Task,
         u = job[n].task,
         Worker(n) \/ (WorkerError(n) /\ ~LosePop(n)) \/ (Halt(n) /\ ~LosePop(n))
  PROVE  Starts(n, u) \/ Quiet(n, u) \/ Returns(n, u)
<1>0. /\ runs \in [Task -> Nat] /\ done \in [Task -> Nat]
      /\ lock \in [Task -> LockState]
      /\ pc \in [Node -> Step] /\ job \in [Node -> Payload \cup {NoJob}]
      /\ errors \in 0 .. MaxErrors /\ errors' \in 0 .. MaxErrors
      /\ MaxErrors \in Nat
  BY TaskQueueAssumption DEF EarnInv, TypeInv, TypeOK
<1>1. NodeFrame(n)
  BY FrameOfStep DEF EarnInv
<1>2. OthersKeep(n)
  BY <1>1 DEF NodeFrame
<1>3. job[n] # NoJob /\ On(n, u)
  BY HeldPayload DEF On, EarnInv, TypeInv
<1>4. job' = job => On(n, u)'
  BY <1>3 DEF On
<1>5. ASSUME Release(n)
      PROVE  pc'[n] = "pop" /\ ~Begun(n, u)'
  <2>1. pc'[n] = "pop"
    BY <1>0, <1>5 DEF Release, Goto
  <2>2. QED
    BY <2>1 DEF Begun, Started
<1>6. errors \in Nat /\ errors' \in Nat
  BY <1>0
<1>7. ASSUME NEW s \in Step, Goto(n, s) PROVE pc'[n] = s
  BY <1>0, <1>7 DEF Goto
<1>8. ASSUME Dispatch(n), job' = job, done' = done, errors' = errors,
             \/ pc[n] = "claim" /\ lock[u] = "absent" /\ SetLock(u, "in_progress")
             \/ pc[n] = "check" /\ lock[u] \notin {"success", "in_progress"}
                /\ lock' = lock
      PROVE  Starts(n, u) \/ Quiet(n, u)
  <2>1. \/ pc[n] = "claim" /\ lock[u] = "absent" /\ lock'[u] = "in_progress"
        \/ pc[n] = "check" /\ lock[u] \in {"absent", "failed"} /\ lock' = lock
    BY <1>0, <1>8 DEF SetLock, LockState
  <2>2. CASE u \in Unregistered
    <3>1. pc'[n] = "shunt" /\ runs' = runs
      BY <1>7, <1>8, <2>2 DEF Dispatch, Step
    <3>2. ~Begun(n, u)'
      BY <3>1 DEF Begun, Started
    <3>3. QED
      BY <1>2, <1>3, <1>6, <1>8, <2>1, <3>1, <3>2 DEF Quiet, Started
  <2>3. CASE u \notin Unregistered
    <3>1. pc'[n] = "run" /\ runs' = [runs EXCEPT ![u] = @ + 1]
      BY <1>7, <1>8, <2>3 DEF Dispatch, Step
    <3>2. runs'[u] = runs[u] + 1
      BY <1>0, <3>1
    <3>3. QED
      BY <1>2, <1>3, <1>4, <1>8, <2>1, <3>1, <3>2 DEF Starts
  <2>4. QED
    BY <2>2, <2>3
<1>9. ASSUME HandleFailure(n)
      PROVE  pc'[n] \in {"unlock", "bury"}
  BY <1>7, <1>9 DEF HandleFailure, Step
<1>11. CASE Claim(n)
  <2>1. CASE lock[u] = "absent" /\ SetLock(u, "in_progress") /\ Dispatch(n)
    BY <1>8, <1>11, <2>1 DEF Claim, budget
  <2>2. CASE lock[u] # "absent" /\ Goto(n, "check") /\ UNCHANGED <<lock, runs>>
    <3>1. pc'[n] = "check" /\ ~Begun(n, u)' /\ pc[n] = "claim"
      BY <1>7, <1>11, <2>2 DEF Step, Begun, Started, Claim
    <3>2. QED
      BY <1>2, <1>3, <1>6, <1>11, <2>2, <3>1 DEF Quiet, Claim, budget, Started
  <2>3. QED
    BY <1>11, <2>1, <2>2 DEF Claim
<1>12. CASE Check(n)
  <2>1. CASE Release(n) /\ runs' = runs
    BY <1>2, <1>3, <1>5, <1>6, <1>12, <2>1 DEF Quiet, Check, budget, redis
  <2>2. CASE lock[u] \notin {"success", "in_progress"} /\ Dispatch(n)
             /\ UNCHANGED <<job, wait>>
    BY <1>8, <1>12, <2>2 DEF Check, budget, redis
  <2>3. QED
    BY <1>12, <2>1, <2>2 DEF Check
<1>13. CASE Succeed(n)
  <2>1. pc'[n] = "record" /\ pc[n] = "run"
    BY <1>7, <1>13 DEF Succeed, Step
  <2>2. QED
    BY <1>2, <1>3, <1>4, <1>13, <2>1 DEF Succeed, Returns, redis
<1>14. CASE Fail(n)
  <2>1. pc'[n] \in {"unlock", "bury"} /\ pc[n] = "run" /\ Begun(n, u)
    BY <1>3, <1>9, <1>14 DEF Fail, Begun, Started
  <2>2. QED
    BY <1>2, <1>3, <1>6, <1>14, <2>1 DEF Fail, Quiet, redis, budget
<1>15. CASE Record(n)
  <2>1. pc[n] = "record" /\ lock'[u] = "success" /\ pc'[n] = "pop"
    BY <1>0, <1>5, <1>15 DEF Record, SetLock
  <2>2. QED
    BY <1>2, <1>3, <1>5, <1>6, <1>15, <2>1
    DEF Record, Quiet, history, budget, Started
<1>16. CASE Unlock(n) \/ Requeue(n) \/ Bury(n) \/ Mark(n)
  <2>1. /\ pc[n] \in Started \ {"run", "record"}
        /\ pc'[n] \in {"requeue", "mark", "pop"}
    BY <1>5, <1>7, <1>16 DEF Unlock, Requeue, Bury, Mark, Started, Step
  <2>2. runs' = runs /\ done' = done /\ errors' = errors
    BY <1>16 DEF Unlock, Requeue, Bury, Mark, history, budget
  <2>3. Begun(n, u)
    BY <1>3, <2>1 DEF Begun
  <2>4. QED
    BY <1>2, <1>3, <1>6, <2>1, <2>2, <2>3 DEF Quiet
<1>17. CASE Shunt(n)
  BY <1>2, <1>3, <1>5, <1>6, <1>17 DEF Shunt, Quiet, history, budget, Started
<1>18. CASE LoseCommand(n) /\ errors <= errors'
  <2>1. Release(n) /\ runs' = runs /\ done' = done
    BY <1>18 DEF LoseCommand, Drop
  <2>2. \/ lock'[u] = lock[u]
        \/ pc[n] = "claim" /\ lock[u] = "absent" /\ lock'[u] = "in_progress"
        \/ pc[n] = "unlock"
    BY <1>0, <1>18 DEF LoseCommand, SetLock
  <2>3. pc[n] # "record"
    BY <1>18 DEF LoseCommand
  <2>4. QED
    BY <1>2, <1>3, <1>5, <1>6, <1>18, <2>1, <2>2, <2>3 DEF Quiet, Started
<1>19. CASE RecordError(n) /\ errors' = errors + 1
  <2>1. pc[n] = "record" /\ pc'[n] \in {"unlock", "bury"} /\ Begun(n, u)
    BY <1>3, <1>9, <1>19 DEF RecordError, Begun, Started
  <2>2. runs' = runs /\ done' = done /\ errors' # 0 /\ errors <= errors'
    BY <1>6, <1>19 DEF RecordError
  <2>3. QED
    BY <1>2, <1>3, <1>6, <2>1, <2>2 DEF Quiet, Started
<1>20. CASE pc[n] \in {"run", "record"} /\ Drop(n) /\ errors' = errors
            /\ UNCHANGED <<redis, runs, done>>
  BY <1>2, <1>3, <1>5, <1>6, <1>20 DEF Quiet, Drop, redis, Started
<1>21. CASE Worker(n)
  BY <1>11, <1>12, <1>13, <1>14, <1>15, <1>16, <1>17, <1>21 DEF Worker, Pop
<1>22. CASE WorkerError(n) /\ ~LosePop(n)
  BY <1>6, <1>18, <1>19, <1>22 DEF WorkerError
<1>23. CASE Halt(n) /\ ~LosePop(n)
  BY <1>6, <1>18, <1>20, <1>23 DEF Halt
<1>24. QED
  BY <1>21, <1>22, <1>23

\* A step in which no worker moves past its claim disturbs no task.
LEMMA CalmSteps ==
  ASSUME EarnInv, TypeInv', runs' = runs, done' = done, lock' = lock,
         errors <= errors', NEW n \in Node, OthersKeep(n),
         pc'[n] \in {"pop", "claim"} \/ UNCHANGED <<pc, job>>,
         NEW t \in Task
  PROVE  Calm(t)
<1>1. errors \in Nat /\ errors' \in Nat
  BY TaskQueueAssumption DEF EarnInv, TypeInv, TypeOK
<1>2. ASSUME NEW m \in Node
      PROVE  /\ Begun(m, t)' => Begun(m, t) /\ pc'[m] = pc[m]
             /\ pc'[m] = "check" /\ On(m, t)' => pc[m] = "check" /\ On(m, t)
  BY DEF OthersKeep, Begun, On, Started
<1>3. QED
  BY <1>1, <1>2 DEF Calm

LEMMA FirstNode ==
  ASSUME EarnInv, TypeInv', NEW n \in Node, Worker(n) \/ WorkerError(n) \/ Halt(n),
         NEW t \in Task, FirstOf(t)
  PROVE  FirstOf(t)'
<1>0. Grows /\ OthersKeep(n)
  BY NodeGrows DEF EarnInv
<1>1. errors \in Nat /\ errors' \in Nat /\ errors <= errors'
  <2>1. errors \in Nat /\ errors' \in Nat
    BY TaskQueueAssumption DEF EarnInv, TypeInv, TypeOK
  <2>2. errors' = errors \/ errors' = errors + 1
    BY DEF Worker, WorkerError, Halt, Pop, Claim, Check, Succeed, Fail, Record,
           Unlock, Requeue, Bury, Mark, Shunt, budget
  <2>3. QED
    BY <2>1, <2>2
<1>2. CASE pc[n] = "pop"
  <2>1. runs' = runs /\ done' = done /\ lock' = lock
    BY <1>2 DEF Worker, WorkerError, Halt, Pop, Claim, Check, Succeed, Fail,
       Record, Unlock, Requeue, Bury, Mark, Shunt, LosePop, LoseCommand,
       RecordError, redis, history
  <2>2. pc'[n] \in {"pop", "claim"} \/ UNCHANGED <<pc, job>>
    BY <1>2 DEF Worker, WorkerError, Halt, Pop, Claim, Check, Succeed, Fail,
       Record, Unlock, Requeue, Bury, Mark, Shunt, LosePop, LoseCommand,
       RecordError, Goto, worker, EarnInv, TypeInv, TypeOK
  <2>3. QED
    BY <1>0, <1>1, <2>1, <2>2, CalmSteps, FirstCalm
<1>3. CASE pc[n] # "pop"
  <2>1. PICK u \in Task : u = job[n].task
    BY <1>3, HeldPayload DEF EarnInv, TypeInv
  <2>2. ~LosePop(n)
    BY <1>3 DEF LosePop
  <2>3. NodeFrame(n)
    BY <1>3, <2>2, FrameOfStep DEF EarnInv
  <2>4. CASE t = u
    BY <1>3, <2>1, <2>2, <2>4, FirstKinds, FirstStarts, FirstQuiet, FirstReturns
  <2>5. CASE t # u
    <3>1. lock'[t] = lock[t]
      BY <2>1, <2>3, <2>5 DEF NodeFrame
    <3>2. runs'[t] = runs[t] /\ done'[t] = done[t]
      BY <2>1, <2>5 DEF Worker, WorkerError, Halt, Pop, Claim, Check, Succeed,
         Dispatch, Fail, Record, Unlock, Requeue, Bury, Mark, Shunt, LosePop,
         LoseCommand, RecordError, history, EarnInv, TypeInv, TypeOK
    <3>3. job'[n] = NoJob \/ job'[n] = job[n]
      BY <1>3 DEF Worker, WorkerError, Halt, Pop, Claim, Check, Succeed, Fail,
         Record, Unlock, Requeue, Bury, Mark, Shunt, LosePop, LoseCommand,
         RecordError, Release, Drop, worker, EarnInv, TypeInv, TypeOK
    <3>4. ~On(n, t)'
      BY <2>1, <2>5, <3>3 DEF On
    <3>5. \A m \in Node :
            /\ Begun(m, t)' => Begun(m, t) /\ pc'[m] = pc[m]
            /\ pc'[m] = "check" /\ On(m, t)' => pc[m] = "check" /\ On(m, t)
      BY <1>0, <3>4, Bystander DEF Begun
    <3>6. QED
      BY <1>1, <3>1, <3>2, <3>5, FirstCalm DEF Calm
  <2>6. QED
    BY <2>4, <2>5
<1>4. QED
  BY <1>2, <1>3

LEMMA FirstStep ==
  ASSUME EarnInv, FirstInv, [Next]_vars
  PROVE  FirstInv'
<1>0. TypeInv' /\ expiries \in Nat /\ expiries' \in Nat
  BY TypeStep, TaskQueueAssumption DEF EarnInv, TypeInv, TypeOK
<1>1. SUFFICES ASSUME expiries' = 0, NEW t \in Task PROVE FirstOf(t)'
  BY DEF FirstInv
<1>2. ASSUME NEW n \in Node, Worker(n) \/ WorkerError(n) \/ Halt(n)
      PROVE  FirstOf(t)'
  <2>1. expiries = 0
    BY <1>1, <1>2 DEF Worker, WorkerError, Halt, Pop, Claim, Check, Succeed,
       Fail, Record, Unlock, Requeue, Bury, Mark, Shunt, budget
  <2>2. QED
    BY <1>0, <1>2, <2>1, FirstNode DEF FirstInv
<1>3. ASSUME UNCHANGED <<pc, job, lock, runs, done, expiries>>,
             errors' = errors \/ errors' = errors + 1
      PROVE  FirstOf(t)'
  <2>1. errors \in Nat /\ errors' \in Nat /\ errors <= errors'
    BY <1>0, <1>3, TaskQueueAssumption DEF EarnInv, TypeInv, TypeOK
  <2>2. Calm(t)
    BY <1>3, <2>1 DEF Calm, Begun, On
  <2>3. QED
    BY <1>1, <1>3, <2>2, FirstCalm DEF FirstInv
<1>4. CASE \E u \in Task, d \in Delays : Enqueue(u, d)
  BY <1>3, <1>4 DEF Enqueue, worker, budget
<1>5. CASE \E n \in Node : Scheduler(n) \/ PromoteError(n)
  BY <1>3, <1>5
  DEF Scheduler, Poll, Promote, PromoteError, redis, worker, history, budget
<1>6. CASE Tick \/ UNCHANGED vars
  BY <1>3, <1>6 DEF Tick, vars, redis, worker, history, budget
<1>7. CASE \E u \in Task : Expire(u)
  BY <1>0, <1>1, <1>7 DEF Expire
<1>8. QED
  BY <1>2, <1>4, <1>5, <1>6, <1>7 DEF Next, Fault

LEMMA InitFirst == Init => FirstInv
<1> SUFFICES ASSUME Init, NEW t \in Task PROVE FirstOf(t)
  BY DEF FirstInv
<1>1. runs[t] = 0 /\ done[t] = 0 /\ lock[t] = "absent"
  BY DEF Init
<1>2. \A n \in Node : pc[n] = "pop"
  BY DEF Init
<1>3. QED
  BY <1>1, <1>2 DEF FirstOf

LEMMA FirstAlways == Spec => [](EarnInv /\ FirstInv)
<1>1. Init => EarnInv /\ FirstInv
  BY InitEarn, InitFirst
<1>2. EarnInv /\ FirstInv /\ [Next]_vars => (EarnInv /\ FirstInv)'
  BY EarnStep, FirstStep
<1>3. QED
  BY <1>1, <1>2, PTL DEF Spec

\* The positive half of "prevent double executions": on any number of nodes,
\* under crashes and failing commands but with no expired key, no first and
\* second execution of a task overlap.  Only when an attempt has failed and
\* deleted the key can a worker between its SET NX and its GET, and another
\* that claims the free key, both start: executions two and three.
THEOREM FirstExecutionIsAlone == Spec => []FirstRunAlone
<1>1. EarnInv /\ FirstInv => FirstRunAlone
  <2> SUFFICES ASSUME EarnInv, FirstInv, expiries = 0, NEW m \in Node,
                      NEW n \in Node, m # n, pc[m] = "run", pc[n] = "run",
                      job[m].task = job[n].task
               PROVE  runs[job[m].task] > 2
    BY DEF FirstRunAlone
  <2>1. PICK t \in Task : t = job[m].task
    BY HeldPayload DEF EarnInv, TypeInv
  <2>2. On(m, t) /\ On(n, t)
    BY <2>1, HeldPayload DEF On, EarnInv, TypeInv
  <2>3. ~(runs[t] <= 2)
    BY <2>2 DEF FirstInv, FirstOf
  <2>4. runs[t] \in Nat
    BY DEF EarnInv, TypeInv, TypeOK
  <2>5. QED
    BY <2>1, <2>3, <2>4
<1>2. QED
  BY <1>1, FirstAlways, PTL

\* While no command has failed and no key expired, a task whose first
\* execution succeeded is done: no duplicate of it, on any node, at any point
\* of the protocol, starts its handler again.
THEOREM FirstSuccessStands == Spec => FirstSuccessIsLast
<1>1. ASSUME EarnInv, FirstInv, [Next]_vars, NEW t \in Task, expiries = 0,
             errors = 0, runs[t] = 1, done[t] > 0
      PROVE  runs'[t] = 1
  <2>1. TypeInv' /\ FirstOf(t) /\ lock[t] \in {"in_progress", "success"}
    BY <1>1, TypeStep DEF EarnInv, FirstInv, FirstOf
  <2>2. ASSUME NEW n \in Node, Claim(n) \/ Check(n)
        PROVE  runs'[t] = 1
    <3>1. runs' = runs \/ runs' = [runs EXCEPT ![job[n].task] = @ + 1]
      BY <2>2 DEF Claim, Check, Dispatch
    <3>2. job[n].task = t => runs' = runs
      BY <2>1, <2>2 DEF Claim, Check
    <3>3. QED
      BY <1>1, <3>1, <3>2 DEF EarnInv, TypeInv, TypeOK
  <2>3. runs' = runs \/ \E n \in Node : Claim(n) \/ Check(n)
    BY <1>1 DEF Next, Enqueue, Scheduler, Poll, Promote, Worker, Pop, Succeed,
       Fail, Record, Unlock, Requeue, Bury, Mark, Shunt, Fault, PromoteError,
       WorkerError, Halt, LosePop, LoseCommand, RecordError, Expire, Tick, vars,
       history
  <2>4. QED
    BY <1>1, <2>2, <2>3
<1>2. EarnInv /\ FirstInv /\ [Next]_vars =>
        (\A t \in Task : expiries = 0 /\ errors = 0 /\ runs[t] = 1 /\ done[t] > 0
           => runs'[t] = 1)
  BY <1>1
<1>3. QED
  BY <1>2, FirstAlways, PTL DEF Spec, FirstSuccessIsLast

-----------------------------------------------------------------------------
(* Unless two schedulers fetch the same payload, a task has one, and what   *)
(* that payload is worth bounds its executions and outcomes.               *)

\* No scheduler fetches a payload that another has fetched and not promoted
\* yet: what two processes' polling loops do not exclude.
Unshared == \A m, n \in Node : batch[m] \cap batch[n] # {} => m = n

\* One worker process: its scheduler shares with no other.
OneNode == \A m, n \in Node : m = n

Slots == 1 .. Len(queue)

\* A task has one payload, and the scheduler promotes what is still there.
Alone ==
  /\ \A i, j \in Slots : queue[i].task = queue[j].task => i = j
  /\ \A p, q \in delayed : p.task = q.task => p = q
  /\ \A i \in Slots, p \in delayed : queue[i].task # p.task
  /\ \A n \in Node : job[n] # NoJob =>
       /\ \A i \in Slots : queue[i].task # job[n].task
       /\ \A p \in delayed : p.task # job[n].task
       /\ \A m \in Node : job[m] # NoJob /\ job[m].task = job[n].task => m = n
  /\ \A n \in Node : batch[n] \subseteq delayed /\ \A p \in batch[n] : due[p] = 0

\* What a step of node n does with payloads: it keeps, takes, drops, loses,
\* puts back or promotes one.
Keep(n) ==
  UNCHANGED <<queue, delayed, due, job>> /\ batch'[n] \subseteq batch[n] \cup Ready

Take(n) ==
  /\ pc[n] = "pop" /\ pc'[n] = "claim" /\ queue # <<>> /\ queue' = Tail(queue)
  /\ job'[n] = Head(queue) /\ UNCHANGED <<delayed, due>> /\ batch'[n] \subseteq batch[n]

LetGo(n) ==
  /\ pc[n] # "pop" /\ job'[n] = NoJob
  /\ UNCHANGED <<queue, delayed, due>> /\ batch'[n] \subseteq batch[n]

LoseHead(n) ==
  /\ pc[n] = "pop" /\ job' = job /\ queue # <<>> /\ queue' = Tail(queue)
  /\ UNCHANGED <<delayed, due>> /\ batch'[n] \subseteq batch[n]

PutBack(n) ==
  /\ pc[n] = "requeue" /\ ZAdd(Retried(job[n]), wait[n]) /\ job'[n] = NoJob
  /\ batch'[n] \subseteq batch[n] /\ UNCHANGED <<queue, runs, done, rest, dlq, errors>>

Moved(n, p) ==
  /\ p \in batch[n] /\ MovePayload(p) /\ job' = job
  /\ batch'[n] \subseteq batch[n] \ {p}

\* Nothing is counted or recorded for t.
SameFor(t) ==
  /\ runs'[t] = runs[t] /\ done'[t] = done[t] /\ rest'[t] = rest[t]
  /\ Buried(t)' <=> Buried(t)

LEMMA SlotsPush ==
  ASSUME TypeOK, NEW p \in Payload, Push(p)
  PROVE  /\ Slots' = 1 .. (Len(queue) + 1) /\ Len(queue) \in Nat
         /\ \A i \in Slots : queue'[i] = queue[i]
         /\ queue'[Len(queue) + 1] = p
<1>1. queue \in Seq(Payload) /\ queue' = Append(queue, p)
  BY DEF TypeOK, Push
<1> HIDE DEF Payload
<1>2. Len(queue') = Len(queue) + 1 /\ Len(queue) \in Nat
  BY <1>1
<1>3. \A i \in 1 .. Len(queue) : queue'[i] = queue[i]
  BY <1>1
<1>4. queue'[Len(queue) + 1] = p
  BY <1>1
<1> QED BY <1>2, <1>3, <1>4 DEF Slots

LEMMA SlotsPop ==
  ASSUME TypeOK, queue # <<>>, queue' = Tail(queue)
  PROVE  /\ 1 \in Slots /\ Head(queue) = queue[1]
         /\ \A i \in Slots' : i + 1 \in Slots /\ queue'[i] = queue[i + 1] /\ i + 1 # 1
         /\ \A i, j \in Slots' : i + 1 = j + 1 => i = j
<1>1. queue \in Seq(Payload)
  BY DEF TypeOK
<1> HIDE DEF Payload
<1>2. Len(queue') = Len(queue) - 1 /\ Len(queue) \in Nat /\ Len(queue) > 0
  BY <1>1
<1>3. \A i \in 1 .. (Len(queue) - 1) : queue'[i] = queue[i + 1]
  BY <1>1
<1>4. Head(queue) = queue[1]
  BY <1>1
<1> QED BY <1>2, <1>3, <1>4 DEF Slots

LEMMA SlotPayload ==
  ASSUME TypeOK, NEW i \in Slots
  PROVE  queue[i] \in Payload
<1>1. queue \in Seq(Payload)
  BY DEF TypeOK
<1> HIDE DEF Payload
<1> QED BY <1>1 DEF Slots

LEMMA HeadInSlots ==
  ASSUME TypeOK, queue # <<>>
  PROVE  1 \in Slots /\ Head(queue) = queue[1]
<1>1. queue \in Seq(Payload)
  BY DEF TypeOK
<1> HIDE DEF Payload
<1> QED BY <1>1 DEF Slots

\* Every step of a node does one of the six.
LEMMA NodeMoves ==
  ASSUME TypeInv, NEW n \in Node, Scheduler(n) \/ Worker(n) \/ Fault(n)
  PROVE  \/ Keep(n) \/ Take(n) \/ LetGo(n) \/ LoseHead(n) \/ PutBack(n)
         \/ \E p \in batch[n] : Moved(n, p)
<1>0. /\ batch \in [Node -> SUBSET Payload] /\ job \in [Node -> Payload \cup {NoJob}]
      /\ pc \in [Node -> Step]
  BY DEF TypeInv, TypeOK
<1> USE DEF redis, worker, history, budget
<1>1. CASE Poll(n)
  BY <1>0, <1>1 DEF Poll, Keep
<1>2. CASE Promote(n)
  <2>1. PICK p \in batch[n] : MovePayload(p) /\ batch' = [batch EXCEPT ![n] = @ \ {p}]
    BY <1>2 DEF Promote
  <2>2. Moved(n, p)
    BY <1>0, <1>2, <2>1 DEF Promote, Moved
  <2> QED BY <2>2
<1>3. CASE PromoteError(n)
  <2>1. PICK p \in batch[n] : MovePayload(p) \/ UNCHANGED <<delayed, due, queue>>
    BY <1>3 DEF PromoteError
  <2>2. batch'[n] = {} /\ job' = job
    BY <1>0, <1>3 DEF PromoteError
  <2>3. Keep(n) \/ Moved(n, p)
    BY <2>1, <2>2 DEF Keep, Moved
  <2> QED BY <2>3
<1>4. CASE Pop(n)
  BY <1>0, <1>4 DEF Pop, Goto, Take
<1>5. CASE Claim(n) \/ Succeed(n) \/ Fail(n) \/ Unlock(n) \/ Bury(n)
  BY <1>5 DEF Claim, Succeed, Fail, Unlock, Bury, Keep
<1>6. CASE Check(n)
  <2>1. CASE Release(n)
    BY <1>0, <1>6, <2>1 DEF Check, Release, LetGo
  <2>2. CASE UNCHANGED job
    BY <1>6, <2>2 DEF Check, Keep
  <2> QED BY <1>6, <2>1, <2>2 DEF Check
<1>7. CASE Record(n) \/ Mark(n) \/ Shunt(n)
  BY <1>0, <1>7 DEF Record, Mark, Shunt, Release, LetGo
<1>8. CASE Requeue(n)
  BY <1>0, <1>8 DEF Requeue, Release, PutBack
<1>9. CASE LosePop(n) /\ batch'[n] \subseteq batch[n]
  BY <1>9 DEF LosePop, LoseHead
<1>10. CASE LoseCommand(n) /\ batch'[n] \subseteq batch[n]
  BY <1>0, <1>10 DEF LoseCommand, Drop, Release, LetGo
<1>11. CASE WorkerError(n)
  <2>1. CASE RecordError(n)
    BY <1>11, <2>1 DEF WorkerError, RecordError, Keep
  <2> QED BY <1>9, <1>10, <1>11, <2>1 DEF WorkerError
<1>12. CASE Halt(n)
  <2>1. batch'[n] = {}
    BY <1>0, <1>12 DEF Halt
  <2>2. CASE pc[n] \in {"run", "record"} /\ Drop(n) /\ UNCHANGED redis
    BY <1>0, <2>1, <2>2 DEF Drop, Release, LetGo
  <2>3. CASE UNCHANGED <<redis, worker, history>>
    BY <2>1, <2>3 DEF Keep
  <2> QED BY <1>9, <1>10, <1>12, <2>1, <2>2, <2>3 DEF Halt
<1> QED BY <1>1, <1>2, <1>3, <1>4, <1>5, <1>6, <1>7, <1>8, <1>11, <1>12
        DEF Scheduler, Worker, Fault

\* A step of a node leaves the hands of the others alone.
Apart(n) ==
  \A m \in Node \ {n} :
    pc'[m] = pc[m] /\ job'[m] = job[m] /\ wait'[m] = wait[m] /\ batch'[m] = batch[m]

LEMMA NodeApart ==
  ASSUME TypeInv, NEW n \in Node, Scheduler(n) \/ Worker(n) \/ Fault(n)
  PROVE  Apart(n)
<1>0. /\ batch \in [Node -> SUBSET Payload] /\ job \in [Node -> Payload \cup {NoJob}]
      /\ pc \in [Node -> Step] /\ wait \in [Node -> Int]
  BY DEF TypeInv, TypeOK
<1>1. /\ pc' = pc \/ pc' = [pc EXCEPT ![n] = pc'[n]]
      /\ job' = job \/ job' = [job EXCEPT ![n] = NoJob] \/ job' = [job EXCEPT ![n] = Head(queue)]
      /\ wait' = wait \/ wait' = [wait EXCEPT ![n] = wait'[n]]
  BY <1>0 DEF Scheduler, Poll, Promote, Worker, Pop, Claim, Check, Succeed, Fail, Record,
     Unlock, Requeue, Bury, Mark, Shunt, Fault, PromoteError, WorkerError, Halt, LosePop,
     LoseCommand, RecordError, Release, Goto, Drop, Dispatch, HandleFailure, worker
<1>2. \/ batch' = batch
      \/ \E S : batch' = [batch EXCEPT ![n] = S]
  BY DEF Scheduler, Poll, Promote, Worker, Pop, Claim, Check, Succeed, Fail, Record,
     Unlock, Requeue, Bury, Mark, Shunt, Fault, PromoteError, WorkerError, Halt
<1> QED BY <1>0, <1>1, <1>2 DEF Apart

LEMMA NodeAlone ==
  ASSUME Unshared, TypeInv, Alone, NEW n \in Node, Scheduler(n) \/ Worker(n) \/ Fault(n)
  PROVE  Alone'
<1>0. TypeOK /\ Apart(n)
  BY NodeApart DEF TypeInv
<1>1. CASE Keep(n)
  <2>1. Slots' = Slots
    BY <1>1 DEF Keep, Slots
  <2>2. \A m \in Node : batch'[m] \subseteq delayed' /\ \A p \in batch'[m] : due'[p] = 0
    <3>1. \A m \in Node : batch'[m] = batch[m] \/ batch'[m] \subseteq batch[n] \cup Ready
      BY <1>0, <1>1 DEF Keep, Apart
    <3> QED BY <1>1, <3>1 DEF Keep, Alone, Ready
  <2> QED BY <1>1, <2>1, <2>2 DEF Keep, Alone
<1>2. CASE Take(n)
  <2>1. job[n] = NoJob
    BY <1>0, <1>2 DEF Take, TypeOK, TypeInv
  <2>2. /\ 1 \in Slots /\ Head(queue) = queue[1]
        /\ \A i \in Slots' : i + 1 \in Slots /\ queue'[i] = queue[i + 1] /\ i + 1 # 1
        /\ \A i, j \in Slots' : i + 1 = j + 1 => i = j
    BY <1>0, <1>2, SlotsPop DEF Take
  <2>3. /\ job'[n] = queue[1] /\ delayed' = delayed /\ due' = due
        /\ \A m \in Node \ {n} : job'[m] = job[m]
        /\ \A m \in Node : batch'[m] \subseteq batch[m]
    BY <1>0, <1>2, <2>2 DEF Take, Apart
  <2>4. \A i, j \in Slots' : queue'[i].task = queue'[j].task => i = j
    BY <2>2 DEF Alone
  <2>5. \A i \in Slots' : queue'[i].task # queue[1].task
    BY <2>2 DEF Alone
  <2>6. /\ \A p \in delayed : p.task # queue[1].task
        /\ \A m \in Node \ {n} : job[m] # NoJob => job[m].task # queue[1].task
    BY <2>2 DEF Alone
  <2>7. \A m \in Node : job'[m] # NoJob =>
          /\ \A i \in Slots' : queue'[i].task # job'[m].task
          /\ \A p \in delayed' : p.task # job'[m].task
          /\ \A l \in Node : job'[l] # NoJob /\ job'[l].task = job'[m].task => l = m
    <3> SUFFICES ASSUME NEW m \in Node, job'[m] # NoJob
                 PROVE  /\ \A i \in Slots' : queue'[i].task # job'[m].task
                        /\ \A p \in delayed' : p.task # job'[m].task
                        /\ \A l \in Node : job'[l] # NoJob /\ job'[l].task = job'[m].task
                                           => l = m
      OBVIOUS
    <3>1. CASE m = n
      BY <2>3, <2>5, <2>6, <3>1
    <3>2. CASE m # n
      <4>1. job'[m] = job[m] /\ job[m] # NoJob
        BY <2>3, <3>2
      <4>2. \A i \in Slots' : queue'[i].task # job[m].task
        BY <2>2, <4>1 DEF Alone
      <4>3. \A l \in Node : job'[l] # NoJob /\ job'[l].task = job[m].task => l = m
        BY <2>3, <2>6, <3>2, <4>1 DEF Alone
      <4> QED BY <2>3, <4>1, <4>2, <4>3 DEF Alone
    <3> QED BY <3>1, <3>2
  <2>8. \A m \in Node : batch'[m] \subseteq delayed' /\ \A p \in batch'[m] : due'[p] = 0
    BY <2>3 DEF Alone
  <2> QED BY <2>2, <2>3, <2>4, <2>7, <2>8 DEF Alone
<1>3. CASE LetGo(n)
  <2>1. Slots' = Slots
    BY <1>3 DEF LetGo, Slots
  <2>2. \A m \in Node : /\ batch'[m] \subseteq batch[m]
                        /\ job'[m] = NoJob \/ job'[m] = job[m]
    BY <1>0, <1>3 DEF LetGo, Apart
  <2> QED BY <1>3, <2>1, <2>2 DEF LetGo, Alone
<1>4. CASE LoseHead(n)
  <2>2. /\ \A i \in Slots' : i + 1 \in Slots /\ queue'[i] = queue[i + 1]
        /\ \A i, j \in Slots' : i + 1 = j + 1 => i = j
    BY <1>0, <1>4, SlotsPop DEF LoseHead
  <2>3. \A i, j \in Slots' : queue'[i].task = queue'[j].task => i = j
    BY <2>2 DEF Alone
  <2>4. \A m \in Node : batch'[m] \subseteq batch[m]
    BY <1>0, <1>4 DEF LoseHead, Apart
  <2>5. delayed' = delayed /\ job' = job /\ due' = due
    BY <1>4 DEF LoseHead
  <2> QED BY <2>2, <2>3, <2>4, <2>5 DEF Alone
<1>5. CASE PutBack(n)
  <2>1. job[n] \in Payload /\ job[n] # NoJob
    BY <1>0, <1>5, HeldPayload DEF PutBack
  <2>2. PICK back \in Payload : back = Retried(job[n]) /\ back.task = job[n].task
    BY <1>5, <2>1, RetriedPayload DEF PutBack, TypeInv, Entitled
  <2>3. Slots' = Slots /\ queue' = queue /\ delayed' = delayed \cup {back}
    BY <1>5, <2>2 DEF PutBack, ZAdd, Slots
  <2>4. \A m \in Node : /\ batch'[m] \subseteq batch[m]
                        /\ IF m = n THEN job'[m] = NoJob ELSE job'[m] = job[m]
    BY <1>0, <1>5 DEF PutBack, Apart
  <2>5. \A m \in Node : \A p \in batch'[m] : p \in delayed' /\ due'[p] = 0
    <3>1. \A m \in Node : \A p \in batch'[m] : p \in delayed /\ p # back /\ due[p] = 0
      BY <2>1, <2>2, <2>4 DEF Alone
    <3>2. due' = [due EXCEPT ![back] = wait[n]] /\ due \in [Payload -> Int]
      BY <1>0, <1>5, <2>2 DEF PutBack, ZAdd, TypeOK
    <3>3. \A p \in delayed : p \in Payload
      BY <1>0 DEF TypeOK
    <3> QED BY <2>3, <3>1, <3>2, <3>3
  <2>6. \A p, q \in delayed' : p.task = q.task => p = q
    BY <2>1, <2>2, <2>3 DEF Alone
  <2>7. \A i \in Slots', p \in delayed' : queue'[i].task # p.task
    BY <2>1, <2>2, <2>3 DEF Alone
  <2>8. \A m \in Node : job'[m] # NoJob => \A p \in delayed' : p.task # job'[m].task
    BY <2>1, <2>2, <2>3, <2>4 DEF Alone
  <2> QED BY <2>3, <2>4, <2>5, <2>6, <2>7, <2>8 DEF Alone
<1>6. CASE \E p \in batch[n] : Moved(n, p)
  <2>1. PICK p \in batch[n] : Moved(n, p)
    BY <1>6
  <2>2. p \in Payload /\ p \in delayed
    BY <1>0, <2>1 DEF TypeOK, Alone
  <2>3. /\ Slots' = 1 .. (Len(queue) + 1) /\ Len(queue) \in Nat
        /\ \A i \in Slots : queue'[i] = queue[i]
        /\ queue'[Len(queue) + 1] = p
    BY <1>0, <2>1, <2>2, SlotsPush DEF Moved, MovePayload
  <2>4. \A i \in Slots' : (i \in Slots /\ queue'[i] = queue[i]) \/ (i = Len(queue) + 1 /\ queue'[i] = p)
    BY <2>3 DEF Slots
  <2>5. delayed' = delayed \ {p} /\ job' = job
    BY <2>1 DEF Moved, MovePayload, ZRem
  <2>6. \A m \in Node : \A q \in batch'[m] : q \in delayed' /\ due'[q] = 0
    <3>1. due' = [due EXCEPT ![p] = 0] /\ batch'[n] \subseteq batch[n] \ {p}
      BY <2>1 DEF Moved, MovePayload, ZRem
    <3>2. due \in [Payload -> Int] /\ \A m \in Node : \A q \in batch[m] : q \in Payload
      BY <1>0 DEF TypeOK
    <3>3. \A m \in Node : \A q \in batch'[m] : q \in batch[m] /\ q # p
      <4>1. \A m \in Node \ {n} : p \notin batch[m] /\ batch'[m] = batch[m]
        BY <1>0, <2>1 DEF Apart, Unshared
      <4> QED BY <3>1, <4>1
    <3> QED BY <2>5, <3>1, <3>2, <3>3 DEF Alone
  <2>7. \A i, j \in Slots' : queue'[i].task = queue'[j].task => i = j
    BY <2>2, <2>4 DEF Alone
  <2>8. \A i \in Slots', q \in delayed' : queue'[i].task # q.task
    BY <2>2, <2>4, <2>5 DEF Alone
  <2>9. \A m \in Node : job[m] # NoJob => \A i \in Slots' : queue'[i].task # job[m].task
    BY <2>2, <2>4 DEF Alone
  <2> QED BY <2>5, <2>6, <2>7, <2>8, <2>9 DEF Alone
<1> QED BY <1>1, <1>2, <1>3, <1>4, <1>5, <1>6, NodeMoves

-----------------------------------------------------------------------------
(* What an enqueued task's payload is worth.                               *)

\* All payloads are of tasks in S.
Within(S) ==
  /\ \A i \in Slots : queue[i].task \in S
  /\ \A p \in delayed : p.task \in S
  /\ \A n \in Node : job[n] # NoJob => job[n].task \in S

\* Nothing is known of a task that was never enqueued.
Unborn ==
  /\ Within(enqueued)
  /\ dropped \subseteq enqueued
  /\ \A t \in Task \ enqueued :
       runs[t] = 0 /\ done[t] = 0 /\ rest[t] = 0 /\ ~ Buried(t)

\* A task that lost its payload has no other.
Gone == Within(Task \ dropped)

Before == {"claim", "check", "shunt"}

\* Until a command fails, a task with a payload under way has no outcome.
Open(t) == errors = 0 => done[t] = 0 /\ ~ Buried(t)

\* No more executions than the payload's retry count, and no backoff owed
\* but what the payload waits for.
QueueFit(p) == runs[p.task] <= p.retry /\ rest[p.task] = 0 /\ Open(p.task)
DelayFit(p) == runs[p.task] <= p.retry /\ rest[p.task] \in {0, due[p]} /\ Open(p.task)

HandFit(n) ==
  LET t == job[n].task IN
  /\ runs[t] <= IF pc[n] \in Before THEN job[n].retry ELSE job[n].retry + 1
  /\ rest[t] \in {0, IF pc[n] \in {"unlock", "requeue"} THEN wait[n] ELSE 0}
  /\ errors = 0 /\ pc[n] # "record" => done[t] = 0
  /\ errors = 0 /\ pc[n] # "mark" => ~ Buried(t)

Fit ==
  /\ \A i \in Slots : QueueFit(queue[i])
  /\ \A p \in delayed : DelayFit(p)
  /\ \A n \in Node : job[n] # NoJob => HandFit(n)
  /\ AttemptsBounded /\ OutcomeExclusive

\* A node counts and records nothing but what it holds.
OthersSame(n) == \A t \in Task : job[n] = NoJob \/ t # job[n].task => SameFor(t)

LEMMA BuriedOther ==
  ASSUME TypeOK, NEW p \in Payload, dlq' = Append(dlq, p), NEW t, p.task # t
  PROVE  Buried(t)' <=> Buried(t)
<1>1. /\ Len(dlq') = Len(dlq) + 1 /\ Len(dlq) \in Nat
      /\ \A i \in 1 .. Len(dlq) : dlq'[i] = dlq[i]
      /\ dlq'[Len(dlq) + 1] = p
  BY AppendProperties, LenProperties DEF TypeOK
<1>2. \A i \in 1 .. Len(dlq') : i \in 1 .. Len(dlq) \/ i = Len(dlq) + 1
  BY <1>1
<1>3. \A i \in 1 .. Len(dlq) : i \in 1 .. Len(dlq')
  BY <1>1
<1> QED BY <1>1, <1>2, <1>3 DEF Buried

LEMMA NodeSame ==
  ASSUME TypeInv, NEW n \in Node, Scheduler(n) \/ Worker(n) \/ Fault(n)
  PROVE  OthersSame(n)
<1>0. /\ runs \in [Task -> Nat] /\ done \in [Task -> Nat] /\ rest \in [Task -> Int]
      /\ dlq \in Seq(Payload) /\ (pc[n] = "pop" <=> job[n] = NoJob)
      /\ pc[n] # "pop" => job[n] \in Payload /\ job[n].task \in Task
  BY HeldPayload DEF TypeInv, TypeOK
<1>1. UNCHANGED <<runs, done, rest, dlq>> => OthersSame(n)
  BY DEF SameFor, Buried, OthersSame
<1>2. UNCHANGED <<runs, done, rest>> /\ pc[n] # "pop" /\ dlq' = Append(dlq, job[n])
      => OthersSame(n)
  BY <1>0, BuriedOther DEF TypeInv, SameFor, OthersSame
<1>3. pc[n] # "pop" /\ dlq' = dlq /\ Dispatch(n) /\ UNCHANGED <<done, rest>> => OthersSame(n)
  BY <1>0 DEF Dispatch, SameFor, Buried, OthersSame
<1>4. pc[n] # "pop" /\ dlq' = dlq /\ HandleFailure(n) /\ UNCHANGED <<done, runs>> => OthersSame(n)
  BY <1>0 DEF HandleFailure, SameFor, Buried, OthersSame
<1> USE DEF redis, worker, history, budget
<1>5. CASE Poll(n) \/ Promote(n) \/ PromoteError(n)
  BY <1>1, <1>5 DEF Poll, Promote, PromoteError
<1>6. CASE Pop(n) \/ Record(n) \/ Unlock(n) \/ Requeue(n) \/ Mark(n)
  BY <1>1, <1>6 DEF Pop, Record, Unlock, Requeue, Mark
<1>7. CASE Bury(n) \/ Shunt(n)
  BY <1>2, <1>7 DEF Bury, Shunt
<1>8. CASE Claim(n) \/ Check(n)
  <2>1. pc[n] # "pop" /\ UNCHANGED <<dlq, done, rest>> /\ (Dispatch(n) \/ UNCHANGED runs)
    BY <1>8 DEF Claim, Check
  <2> QED BY <1>1, <1>3, <2>1
<1>9. CASE Succeed(n)
  BY <1>0, <1>9 DEF Succeed, OthersSame, SameFor, Buried
<1>10. CASE Fail(n)
  BY <1>4, <1>10 DEF Fail
<1>11. CASE LosePop(n)
  BY <1>1, <1>11 DEF LosePop
<1>12. CASE LoseCommand(n)
  <2>1. /\ pc[n] # "pop" /\ UNCHANGED <<runs, done, rest>>
        /\ dlq' = dlq \/ dlq' = Append(dlq, job[n])
    BY <1>12 DEF LoseCommand
  <2> QED BY <1>1, <1>2, <2>1
<1>13. CASE RecordError(n)
  BY <1>4, <1>13 DEF RecordError
<1>14. CASE Halt(n)
  <2>1. LosePop(n) \/ LoseCommand(n) \/ UNCHANGED <<runs, done, rest, dlq>>
    BY <1>14 DEF Halt
  <2> QED BY <1>1, <1>11, <1>12, <2>1
<1> QED BY <1>5, <1>6, <1>7, <1>8, <1>9, <1>10, <1>11, <1>12, <1>13, <1>14
        DEF Scheduler, Worker, Fault, WorkerError

LEMMA NodeErrors ==
  ASSUME TypeInv, NEW n \in Node, Scheduler(n) \/ Worker(n) \/ Fault(n)
  PROVE  /\ enqueued' = enqueued /\ errors' \in Nat /\ (errors' = 0 => errors = 0)
         /\ (errors' = 0 => ~ PromoteError(n) /\ ~ WorkerError(n))
<1>0. errors \in Nat
  BY TaskQueueAssumption DEF TypeInv, TypeOK
<1> USE DEF redis, worker, history, budget
<1>1. CASE PromoteError(n) \/ WorkerError(n)
  <2>1. errors' = errors + 1
    BY <1>1 DEF PromoteError, WorkerError
  <2>2. enqueued' = enqueued
    BY <1>1 DEF PromoteError, WorkerError, LosePop, LoseCommand, RecordError
  <2> QED BY <1>0, <2>1, <2>2
<1>2. CASE Scheduler(n) \/ Worker(n) \/ Halt(n)
  <2>1. enqueued' = enqueued
    BY <1>2 DEF Scheduler, Poll, Promote, Worker, Pop, Claim, Check, Succeed, Fail, Record,
                Unlock, Requeue, Bury, Mark, Shunt, Halt, LosePop, LoseCommand
  <2>2. errors' = errors
    BY <1>2 DEF Scheduler, Poll, Promote, Worker, Pop, Claim, Check, Succeed, Fail, Record,
                Unlock, Requeue, Bury, Mark, Shunt, Halt
  <2>3. PromoteError(n) \/ WorkerError(n) => errors' = errors + 1
    BY DEF PromoteError, WorkerError
  <2> QED BY <1>0, <2>1, <2>2, <2>3
<1> QED BY <1>1, <1>2 DEF Fault

\* Only what a node holds, or was about to be handed, gets lost.
LEMMA NodeDropped ==
  ASSUME TypeInv, NEW n \in Node, Scheduler(n) \/ Worker(n) \/ Fault(n)
  PROVE  \/ dropped' = dropped
         \/ job[n] # NoJob /\ dropped' = dropped \cup {job[n].task} /\ LetGo(n)
         \/ LoseHead(n) /\ dropped' = dropped \cup {Head(queue).task}
<1>0. /\ (pc[n] = "pop" <=> job[n] = NoJob)
      /\ batch \in [Node -> SUBSET Payload] /\ job \in [Node -> Payload \cup {NoJob}]
  BY DEF TypeInv, TypeOK
<1> USE DEF redis, worker, history, budget
<1>1. CASE Scheduler(n) \/ Worker(n) \/ PromoteError(n)
  BY <1>1 DEF Scheduler, Poll, Promote, PromoteError, Worker, Pop, Claim, Check, Succeed,
              Fail, Record, Unlock, Requeue, Bury, Mark, Shunt
<1>2. WorkerError(n) \/ Halt(n) => batch'[n] \subseteq batch[n]
  BY <1>0 DEF WorkerError, Halt
<1>3. LosePop(n) /\ batch'[n] \subseteq batch[n]
      => LoseHead(n) /\ dropped' = dropped \cup {Head(queue).task}
  BY DEF LosePop, LoseHead
<1>4. LoseCommand(n) /\ batch'[n] \subseteq batch[n]
      => job[n] # NoJob /\ dropped' = dropped \cup {job[n].task} /\ LetGo(n)
  BY <1>0 DEF LoseCommand, Drop, Release, LetGo
<1>5. pc[n] \in {"run", "record"} /\ Drop(n) /\ UNCHANGED redis /\ batch'[n] \subseteq batch[n]
      => job[n] # NoJob /\ dropped' = dropped \cup {job[n].task} /\ LetGo(n)
  BY <1>0 DEF Drop, Release, LetGo
<1>6. CASE WorkerError(n)
  BY <1>2, <1>3, <1>4, <1>6 DEF WorkerError, RecordError
<1>7. CASE Halt(n)
  BY <1>2, <1>3, <1>4, <1>5, <1>7 DEF Halt
<1> QED BY <1>1, <1>6, <1>7 DEF Fault

\* Where a payload is after a node's step.
LEMMA NodeSlots ==
  ASSUME TypeInv, NEW n \in Node, Scheduler(n) \/ Worker(n) \/ Fault(n)
  PROVE  \A i \in Slots' : (\E j \in Slots : queue'[i] = queue[j])
                           \/ (\E p \in batch[n] : Moved(n, p) /\ queue'[i] = p)
<1>0. TypeOK /\ batch[n] \subseteq Payload
  BY DEF TypeInv, TypeOK
<1>1. CASE Keep(n) \/ LetGo(n) \/ PutBack(n)
  BY <1>1 DEF Keep, LetGo, PutBack, Slots
<1>2. CASE Take(n) \/ LoseHead(n)
  BY <1>0, <1>2, SlotsPop DEF Take, LoseHead
<1>3. ASSUME NEW p \in batch[n], Moved(n, p)
      PROVE  \A i \in Slots' : (\E j \in Slots : queue'[i] = queue[j]) \/ queue'[i] = p
  <2>1. /\ Slots' = 1 .. (Len(queue) + 1) /\ Len(queue) \in Nat
        /\ \A i \in Slots : queue'[i] = queue[i]
        /\ queue'[Len(queue) + 1] = p
    BY <1>0, <1>3, SlotsPush DEF Moved, MovePayload
  <2>2. \A i \in Slots' : i \in Slots \/ i = Len(queue) + 1
    BY <2>1 DEF Slots
  <2> QED BY <2>1, <2>2
<1> QED BY <1>1, <1>2, <1>3, NodeMoves

\* A node puts back nothing but what it was given.
LEMMA NodeWithin ==
  ASSUME TypeInv, Alone, NEW n \in Node, Scheduler(n) \/ Worker(n) \/ Fault(n)
  PROVE  \A S : Within(S) => Within(S)'
<1> SUFFICES ASSUME NEW S, Within(S) PROVE Within(S)'
  OBVIOUS
<1>0. TypeOK /\ batch[n] \subseteq delayed /\ Apart(n)
  BY NodeApart DEF TypeInv, Alone
<1>1. \A i \in Slots' : queue'[i].task \in S
  BY <1>0, NodeSlots DEF Within
<1>2. queue # <<>> => Head(queue).task \in S
  BY <1>0, HeadInSlots DEF Within
<1>3. \A m \in Node : job'[m] # NoJob => job'[m].task \in S
  <2>1. job'[n] # NoJob => job'[n].task \in S
    BY <1>2, NodeMoves DEF Within, Keep, Take, LetGo, LoseHead, PutBack, Moved
  <2> QED BY <1>0, <2>1 DEF Within, Apart
<1>4. \A p \in delayed' : p.task \in S
  <2>1. CASE PutBack(n)
    <3>1. job[n] \in Payload /\ job[n] # NoJob /\ job[n].retry < MaxRetries[job[n].task]
      BY <1>0, <2>1, HeldPayload DEF PutBack, TypeInv, Entitled
    <3>2. Retried(job[n]).task = job[n].task
      BY <3>1, RetriedPayload
    <3> QED BY <2>1, <3>1, <3>2 DEF PutBack, ZAdd, Within
  <2>2. ~ PutBack(n) => delayed' \subseteq delayed
    BY NodeMoves DEF Keep, Take, LetGo, LoseHead, Moved, MovePayload, ZRem
  <2> QED BY <2>1, <2>2 DEF Within
<1> QED BY <1>0, <1>1, <1>3, <1>4 DEF Within

LEMMA NodeUnborn ==
  ASSUME TypeInv, Alone, Unborn, NEW n \in Node,
         Scheduler(n) \/ Worker(n) \/ Fault(n)
  PROVE  Unborn'
<1>1. Within(enqueued)' /\ enqueued' = enqueued
  BY NodeWithin, NodeErrors DEF Unborn, Within
<1>2. queue # <<>> => Head(queue).task \in enqueued
  BY HeadInSlots DEF TypeInv, Unborn, Within
<1>3. dropped' \subseteq enqueued
  BY <1>2, NodeDropped DEF LoseHead, Unborn, Within
<1>4. \A t \in Task \ enqueued :
        runs'[t] = 0 /\ done'[t] = 0 /\ rest'[t] = 0 /\ ~ Buried(t)'
  <2>1. \A t \in Task \ enqueued : job[n] = NoJob \/ t # job[n].task
    BY DEF Unborn, Within
  <2> QED BY <2>1, NodeSame DEF Unborn, OthersSame, SameFor
<1> QED BY <1>1, <1>3, <1>4 DEF Unborn

LEMMA NodeGone ==
  ASSUME TypeInv, Alone, Gone, NEW n \in Node,
         Scheduler(n) \/ Worker(n) \/ Fault(n)
  PROVE  Gone'
<1>0. TypeOK /\ Apart(n)
  BY NodeApart DEF TypeInv
<1>1. Within(Task \ dropped)
  BY DEF Gone
<1>2. CASE dropped' = dropped
  BY <1>1, <1>2, NodeWithin DEF Gone, Within
<1>3. CASE job[n] # NoJob /\ dropped' = dropped \cup {job[n].task} /\ LetGo(n)
  <2>1. Slots' = Slots
    BY <1>3 DEF LetGo, Slots
  <2>2. \A m \in Node : job'[m] = NoJob \/ (m # n /\ job'[m] = job[m])
    BY <1>0, <1>3 DEF LetGo, Apart
  <2> QED BY <1>1, <1>3, <2>1, <2>2 DEF Gone, Within, LetGo, Alone
<1>4. CASE LoseHead(n) /\ dropped' = dropped \cup {Head(queue).task}
  <2>1. /\ 1 \in Slots /\ Head(queue) = queue[1]
        /\ \A i \in Slots' : i + 1 \in Slots /\ queue'[i] = queue[i + 1] /\ i + 1 # 1
    BY <1>0, <1>4, SlotsPop DEF LoseHead
  <2>2. delayed' = delayed /\ job' = job
    BY <1>4 DEF LoseHead
  <2> QED BY <1>0, <1>1, <1>4, <2>1, <2>2 DEF Gone, Within, Alone
<1> QED BY <1>2, <1>3, <1>4, NodeDropped


\* What is true of a payload elsewhere stays true.
LEMMA Elsewhere ==
  ASSUME TypeInv, NEW n \in Node, Scheduler(n) \/ Worker(n) \/ Fault(n),
         NEW p \in Payload, job[n] = NoJob \/ p.task # job[n].task
  PROVE  /\ QueueFit(p) => QueueFit(p)'
         /\ DelayFit(p) /\ due'[p] = due[p] => DelayFit(p)'
<1>1. p.task \in Task
  BY PayloadParts
<1>2. SameFor(p.task) /\ (errors' = 0 => errors = 0)
  BY <1>1, NodeSame, NodeErrors DEF OthersSame
<1> QED BY <1>2 DEF QueueFit, DelayFit, Open, SameFor

LEMMA NodeQueueFit ==
  ASSUME TypeInv, Alone, Fit, NEW n \in Node, Scheduler(n) \/ Worker(n) \/ Fault(n)
  PROVE  \A i \in Slots' : QueueFit(queue[i])'
<1>0. TypeOK /\ batch[n] \subseteq Payload
  BY DEF TypeInv, TypeOK
<1> SUFFICES ASSUME NEW i \in Slots' PROVE \E p \in Payload : queue'[i] = p /\ QueueFit(p)'
  BY DEF QueueFit, Open, Buried
<1>1. ASSUME NEW j \in Slots, queue'[i] = queue[j]
      PROVE  \E p \in Payload : queue'[i] = p /\ QueueFit(p)'
  <2>1. PICK p \in Payload : p = queue[j]
    BY <1>0, SlotPayload
  <2>2. (job[n] = NoJob \/ p.task # job[n].task) /\ QueueFit(p)
    BY <2>1 DEF Alone, Fit
  <2> QED BY <1>1, <2>1, <2>2, Elsewhere
<1>2. ASSUME NEW p \in batch[n], Moved(n, p), queue'[i] = p
      PROVE  \E q \in Payload : queue'[i] = q /\ QueueFit(q)'
  <2>1. p \in Payload /\ p \in delayed /\ due[p] = 0 /\ p.task \in Task
    BY <1>0, PayloadParts DEF Alone
  <2>2. (job[n] = NoJob \/ p.task # job[n].task) /\ DelayFit(p)
    BY <2>1 DEF Alone, Fit
  <2>3. QueueFit(p)
    BY <2>1, <2>2 DEF DelayFit, QueueFit
  <2> QED BY <1>2, <2>1, <2>2, <2>3, Elsewhere
<1> QED BY <1>1, <1>2, NodeSlots

LEMMA NodeDelayFit ==
  ASSUME TypeInv, Alone, Fit, NEW n \in Node, Scheduler(n) \/ Worker(n) \/ Fault(n)
  PROVE  \A p \in delayed' : DelayFit(p)'
<1>0. TypeOK /\ delayed \subseteq Payload
      /\ due \in [Payload -> Int] /\ wait \in [Node -> Int]
  BY DEF TypeInv, TypeOK
<1>1. ASSUME NEW p \in delayed, due'[p] = due[p] PROVE DelayFit(p)'
  <2>1. (job[n] = NoJob \/ p.task # job[n].task) /\ DelayFit(p) /\ p \in Payload
    BY <1>0 DEF Alone, Fit
  <2> QED BY <1>1, <2>1, Elsewhere
<1>2. CASE PutBack(n)
  <2>1. job[n] \in Payload /\ job[n] # NoJob /\ job[n].retry < MaxRetries[job[n].task]
    BY <1>0, <1>2, HeldPayload DEF PutBack, TypeInv, Entitled
  <2>2. PICK back \in Payload : /\ back = Retried(job[n]) /\ back.task = job[n].task
                                /\ back.retry = job[n].retry + 1
    BY <2>1, RetriedPayload
  <2>3. delayed' = delayed \cup {back} /\ due' = [due EXCEPT ![back] = wait[n]]
    BY <1>2, <2>2 DEF PutBack, ZAdd
  <2>4. \A p \in delayed : p # back /\ due'[p] = due[p]
    BY <1>0, <2>1, <2>2, <2>3 DEF Alone
  <2>5. DelayFit(back)'
    <3>1. UNCHANGED <<runs, rest, done, dlq, errors>>
      BY <1>2 DEF PutBack
    <3>2. HandFit(n) /\ pc[n] = "requeue"
      BY <1>2, <2>1 DEF PutBack, Fit
    <3>3. due'[back] = wait[n]
      BY <1>0, <2>3
    <3>4. /\ runs[back.task] <= back.retry /\ rest[back.task] \in {0, wait[n]} /\ Open(back.task)
      BY <2>2, <3>2 DEF HandFit, Open, Before
    <3> QED BY <3>1, <3>3, <3>4 DEF DelayFit, Open, Buried
  <2> QED BY <1>1, <2>3, <2>4, <2>5
<1>3. CASE \E p \in batch[n] : Moved(n, p)
  <2>1. PICK p \in batch[n] : Moved(n, p)
    BY <1>3
  <2>2. delayed' = delayed \ {p} /\ due' = [due EXCEPT ![p] = 0]
    BY <2>1 DEF Moved, MovePayload, ZRem
  <2> QED BY <1>0, <1>1, <2>2
<1>4. CASE UNCHANGED <<delayed, due>>
  BY <1>1, <1>4
<1> QED BY <1>2, <1>3, <1>4, NodeMoves DEF Keep, Take, LetGo, LoseHead

\* A worker counts at most one execution and records at most one outcome of
\* what it holds.
LEMMA NodeOutcome ==
  ASSUME TypeInv, NEW n \in Node, Scheduler(n) \/ Worker(n) \/ Fault(n)
  PROVE  /\ \/ runs' = runs
            \/ /\ pc[n] \in {"claim", "check"} /\ job' = job
               /\ runs' = [runs EXCEPT ![job[n].task] = @ + 1]
         /\ \/ UNCHANGED <<done, dlq>>
            \/ /\ pc[n] = "run" /\ dlq' = dlq
               /\ done' = [done EXCEPT ![job[n].task] = @ + 1]
            \/ /\ pc[n] \in {"bury", "shunt"} /\ done' = done
               /\ dlq' = Append(dlq, job[n])
<1> USE DEF redis, worker, history, budget
<1>1. CASE Poll(n) \/ Promote(n) \/ PromoteError(n)
  BY <1>1 DEF Poll, Promote, PromoteError
<1>2. CASE Pop(n) \/ Succeed(n) \/ Record(n) \/ Unlock(n) \/ Requeue(n) \/ Bury(n)
           \/ Mark(n) \/ Shunt(n)
  BY <1>2 DEF Pop, Succeed, Record, Unlock, Requeue, Bury, Mark, Shunt
<1>3. CASE Claim(n) \/ Check(n)
  BY <1>3 DEF Claim, Check, Dispatch
<1>4. CASE Fail(n) \/ RecordError(n)
  BY <1>4 DEF Fail, RecordError
<1>5. CASE LosePop(n)
  BY <1>5 DEF LosePop
<1>6. CASE LoseCommand(n)
  BY <1>6 DEF LoseCommand
<1>7. CASE Halt(n)
  BY <1>5, <1>6, <1>7 DEF Halt
<1> QED BY <1>1, <1>2, <1>3, <1>4, <1>5, <1>6, <1>7
        DEF Scheduler, Worker, Fault, WorkerError

LEMMA NodeHandFit ==
  ASSUME TypeInv, Alone, Fit, NEW n \in Node,
         Scheduler(n) \/ Worker(n) \/ Fault(n), job'[n] # NoJob
  PROVE  HandFit(n)'
<1>0. /\ runs \in [Task -> Nat] /\ done \in [Task -> Nat] /\ rest \in [Task -> Int]
      /\ wait \in [Node -> Int] /\ pc \in [Node -> Step]
      /\ (pc[n] = "pop" <=> job[n] = NoJob)
      /\ pc[n] # "pop" => job[n] \in Payload /\ job[n].task \in Task /\ job[n].retry \in Nat
      /\ job \in [Node -> Payload \cup {NoJob}]
  BY HeldPayload, PayloadParts DEF TypeInv, TypeOK
<1>1. /\ job[n] # NoJob => HandFit(n)
      /\ errors' = 0 => errors = 0 /\ ~ PromoteError(n) /\ ~ WorkerError(n)
  BY NodeErrors DEF Fit
<1> USE DEF redis, worker, history, budget
<1>3. CASE UNCHANGED <<pc, job, wait, runs, done, rest, dlq>>
  BY <1>1, <1>3 DEF HandFit, Buried
<1>4. CASE Poll(n) \/ Promote(n) \/ PromoteError(n)
  BY <1>3, <1>4 DEF Poll, Promote, PromoteError
<1>5. CASE Take(n)
  <2>1. PICK p \in Payload : p = queue[1] /\ p = job'[n] /\ QueueFit(p)
    <3>1. 1 \in Slots /\ job'[n] = queue[1]
      BY <1>5, SlotsPop DEF Take, TypeInv
    <3> QED BY <3>1, SlotPayload DEF Fit, TypeInv
  <2>2. job[n] = NoJob /\ pc'[n] = "claim"
    BY <1>0, <1>5 DEF Take
  <2>3. QueueFit(p)'
    BY <2>1, <2>2, Elsewhere
  <2> QED BY <2>1, <2>2, <2>3 DEF HandFit, QueueFit, Open, Before, Buried
<1>6. CASE Claim(n) \/ Check(n)
  <2>1. /\ pc[n] \in {"claim", "check"} /\ job' = job
        /\ UNCHANGED <<dlq, rest, done, errors>>
        /\ \/ pc'[n] \in {"check", "shunt"} /\ runs' = runs
           \/ pc'[n] = "run" /\ runs' = [runs EXCEPT ![job[n].task] = @ + 1]
    BY <1>0, <1>6 DEF Claim, Check, Release, Dispatch, Goto
  <2>2. HandFit(n) /\ job[n].task \in Task /\ job[n].retry \in Nat
    BY <1>0, <1>1, <2>1
  <2>3. runs'[job[n].task] <= IF pc'[n] \in Before THEN job[n].retry ELSE job[n].retry + 1
    BY <1>0, <2>1, <2>2 DEF HandFit, Before
  <2> QED BY <2>1, <2>2, <2>3 DEF HandFit, Buried
<1>7. CASE Succeed(n)
  BY <1>0, <1>1, <1>7 DEF Succeed, Goto, HandFit, Before, Buried
<1>8. CASE HandleFailure(n) /\ pc[n] \in {"run", "record"}
           /\ UNCHANGED <<job, dlq, runs, done>>
           /\ (errors' = 0 => pc[n] = "run")
  <2>1. HandFit(n) /\ job[n].task \in Task /\ job[n].retry \in Nat
    BY <1>0, <1>1, <1>8
  <2>2. \/ /\ pc'[n] = "unlock"
           /\ wait'[n] = 2 ^ job[n].retry /\ rest'[job[n].task] = 2 ^ job[n].retry
        \/ pc'[n] = "bury" /\ UNCHANGED <<wait, rest>>
    BY <1>0, <1>8, <2>1 DEF HandleFailure, Goto
  <2> QED BY <1>1, <1>8, <2>1, <2>2 DEF HandFit, Before, Buried
<1>9. CASE Fail(n) \/ (WorkerError(n) /\ RecordError(n))
  <2>1. errors' = 0 => Fail(n)
    BY <1>1, <1>9
  <2>2. Fail(n) \/ RecordError(n)
    BY <1>9
  <2> QED BY <1>8, <2>1, <2>2 DEF Fail, RecordError
<1>10. CASE Unlock(n)
  BY <1>0, <1>1, <1>10 DEF Unlock, Goto, HandFit, Before, Buried
<1>11. CASE Bury(n)
  BY <1>0, <1>1, <1>11 DEF Bury, Goto, HandFit, Before
<1>12. CASE Halt(n)
  <2>1. LosePop(n) => UNCHANGED <<pc, job, wait, runs, done, rest, dlq>>
    BY DEF LosePop
  <2>2. ~ LoseCommand(n) /\ ~ Drop(n)
    BY <1>0 DEF LoseCommand, Drop, Release
  <2> QED BY <1>3, <1>12, <2>1, <2>2 DEF Halt
<1>13. CASE LosePop(n) \/ LoseCommand(n)
  <2>1. LosePop(n) => UNCHANGED <<pc, job, wait, runs, done, rest, dlq>>
    BY DEF LosePop
  <2>2. ~ LoseCommand(n)
    BY <1>0 DEF LoseCommand, Drop, Release
  <2> QED BY <1>3, <1>13, <2>1, <2>2
<1>14. CASE Record(n) \/ Requeue(n) \/ Mark(n) \/ Shunt(n)
  BY <1>0, <1>14 DEF Record, Requeue, Mark, Shunt, Release
<1>15. Pop(n) => Take(n)
  BY <1>0 DEF Pop, Goto, Take
<1> QED BY <1>4, <1>5, <1>6, <1>7, <1>9, <1>10, <1>11, <1>12, <1>13, <1>14, <1>15
        DEF Scheduler, Worker, Fault, WorkerError

\* What another node holds is of another task.
LEMMA NodeOtherFit ==
  ASSUME TypeInv, Alone, Fit, NEW n \in Node, Scheduler(n) \/ Worker(n) \/ Fault(n),
         NEW m \in Node \ {n}, job'[m] # NoJob
  PROVE  HandFit(m)'
<1>1. pc'[m] = pc[m] /\ job'[m] = job[m] /\ wait'[m] = wait[m] /\ job[m] # NoJob
  BY NodeApart DEF Apart
<1>2. /\ job[m].task \in Task /\ HandFit(m)
      /\ job[n] = NoJob \/ job[m].task # job[n].task
  BY <1>1, HeldPayload DEF TypeInv, TypeOK, Fit, Alone
<1>3. SameFor(job[m].task) /\ (errors' = 0 => errors = 0)
  BY <1>2, NodeSame, NodeErrors DEF OthersSame
<1>4. PICK t \in Task : t = job[m].task /\ SameFor(t)
  BY <1>2, <1>3
<1> QED BY <1>1, <1>2, <1>3, <1>4 DEF HandFit, SameFor

LEMMA NodeBounded ==
  ASSUME TypeInv, Alone, Fit, NEW n \in Node,
         Scheduler(n) \/ Worker(n) \/ Fault(n)
  PROVE  AttemptsBounded'
<1> SUFFICES ASSUME NEW t \in Task, runs'[t] # runs[t]
             PROVE  runs'[t] <= MaxRetries[t] + 1
  BY DEF AttemptsBounded, Fit
<1>1. /\ pc[n] \in {"claim", "check"} /\ job' = job
      /\ runs' = [runs EXCEPT ![job[n].task] = @ + 1]
  BY NodeOutcome
<1>2. job[n] \in Payload /\ job[n] # NoJob
  BY <1>1, HeldPayload DEF TypeInv
<1>3. runs[job[n].task] <= job[n].retry
  BY <1>1, <1>2 DEF Fit, HandFit, Before
<1>4. /\ job[n].task \in Task /\ job[n].retry \in 0 .. MaxRetries[job[n].task]
      /\ MaxRetries[job[n].task] \in Nat
  BY <1>2, PayloadParts
<1>5. runs \in [Task -> Nat]
  BY DEF TypeInv, TypeOK
<1>6. t = job[n].task
  BY <1>1, <1>5
<1> QED BY <1>1, <1>3, <1>4, <1>5, <1>6

\* At most one record of t.
Once(t) == \A i, j \in 1 .. Len(dlq) : dlq[i].task = t /\ dlq[j].task = t => i = j

LEMMA OnceMore ==
  ASSUME TypeOK, NEW p \in Payload, dlq' = Append(dlq, p), ~ Buried(p.task),
         NEW t, Once(t)
  PROVE  Once(t)'
<1>1. /\ Len(dlq') = Len(dlq) + 1 /\ Len(dlq) \in Nat
      /\ \A i \in 1 .. Len(dlq) : dlq'[i] = dlq[i]
      /\ dlq'[Len(dlq) + 1] = p
  BY AppendProperties, LenProperties DEF TypeOK
<1>2. \A i \in 1 .. Len(dlq') : i \in 1 .. Len(dlq) \/ i = Len(dlq) + 1
  BY <1>1
<1>3. \A i \in 1 .. Len(dlq) : dlq[i].task # p.task
  BY DEF Buried
<1> QED BY <1>1, <1>2, <1>3 DEF Once

LEMMA NodeExclusive ==
  ASSUME TypeInv, Alone, Fit, NEW n \in Node,
         Scheduler(n) \/ Worker(n) \/ Fault(n)
  PROVE  OutcomeExclusive'
<1> SUFFICES ASSUME errors' = 0, NEW t \in Task
             PROVE  done'[t] <= 1 /\ (done'[t] > 0 => ~ Buried(t)') /\ Once(t)'
  BY DEF OutcomeExclusive, Once
<1>0. /\ done \in [Task -> Nat] /\ (pc[n] = "pop" <=> job[n] = NoJob)
      /\ pc[n] # "pop" => job[n] \in Payload /\ job[n].task \in Task
      /\ TypeOK
  BY HeldPayload DEF TypeInv, TypeOK
<1>1. done[t] <= 1 /\ (done[t] > 0 => ~ Buried(t)) /\ Once(t)
  BY NodeErrors DEF Fit, OutcomeExclusive, Once
<1>2. pc[n] \in {"run", "bury", "shunt"} =>
        done[job[n].task] = 0 /\ ~ Buried(job[n].task)
  BY <1>0, NodeErrors DEF Fit, HandFit
<1>3. CASE UNCHANGED <<done, dlq>>
  BY <1>1, <1>3 DEF Buried, Once
<1>4. CASE /\ pc[n] = "run" /\ dlq' = dlq
           /\ done' = [done EXCEPT ![job[n].task] = @ + 1]
  <2>1. (Buried(t)' <=> Buried(t)) /\ (Once(t)' <=> Once(t))
    BY <1>4 DEF Buried, Once
  <2>2. CASE t = job[n].task
    BY <1>0, <1>1, <1>2, <1>4, <2>1, <2>2
  <2>3. CASE t # job[n].task
    BY <1>0, <1>1, <1>4, <2>1, <2>3
  <2> QED BY <2>2, <2>3
<1>5. CASE pc[n] \in {"bury", "shunt"} /\ done' = done /\ dlq' = Append(dlq, job[n])
  <2>1. job[n] \in Payload /\ done[job[n].task] = 0 /\ ~ Buried(job[n].task)
    BY <1>0, <1>2, <1>5
  <2>2. Once(t)'
    BY <1>0, <1>1, <1>5, <2>1, OnceMore
  <2>3. done'[t] > 0 => t # job[n].task
    BY <1>5, <2>1
  <2> QED BY <1>0, <1>1, <1>5, <2>1, <2>2, <2>3, BuriedOther
<1> QED BY <1>3, <1>4, <1>5, NodeOutcome

-----------------------------------------------------------------------------
(* Enqueue, expiry and the clock.                                          *)

SingleInv == TypeInv /\ Alone /\ Unborn /\ Gone /\ Fit

LEMMA EnqueueSingle ==
  ASSUME SingleInv, NEW u \in Task, NEW d \in Delays, Enqueue(u, d)
  PROVE  Alone' /\ Unborn' /\ Gone' /\ Fit'
<1> DEFINE p == [task |-> u, retry |-> 0]
<1>0. p \in Payload /\ p.task = u /\ p.retry = 0
  BY FreshPayload
<1>1. /\ UNCHANGED <<dlq, pc, job, wait, batch, runs, done, rest, errors, dropped>>
      /\ u \notin enqueued /\ enqueued' = enqueued \cup {u}
      /\ \/ ZAdd(p, d) /\ UNCHANGED queue
         \/ Push(p) /\ UNCHANGED <<delayed, due>>
  BY DEF Enqueue, worker, budget
<1> HIDE DEF p
<1>2. /\ TypeOK /\ due \in [Payload -> Int] /\ delayed \subseteq Payload
      /\ \A q \in delayed : q.task # u /\ q # p
      /\ \A i \in Slots : queue[i].task # u
      /\ \A n \in Node : job[n] # NoJob => job[n].task # u
      /\ \A n \in Node : batch[n] \subseteq delayed
  BY <1>0, <1>1 DEF SingleInv, TypeInv, TypeOK, Unborn, Within, Alone
<1>3. \A i \in Slots' : (i \in Slots /\ queue'[i] = queue[i]) \/
                        (queue'[i] = p /\ delayed' = delayed /\ due' = due
                         /\ i \notin Slots /\ \A j \in Slots' \ {i} : j \in Slots)
  <2>1. CASE Push(p) /\ UNCHANGED <<delayed, due>>
    <3>1. /\ Slots' = 1 .. (Len(queue) + 1) /\ Len(queue) \in Nat
          /\ \A i \in Slots : queue'[i] = queue[i]
          /\ queue'[Len(queue) + 1] = p
      BY <1>0, <1>2, <2>1, SlotsPush
    <3> QED BY <2>1, <3>1 DEF Slots
  <2>2. CASE UNCHANGED queue
    BY <2>2 DEF Slots
  <2> QED BY <1>1, <2>1, <2>2
<1>4. /\ \A q \in delayed' : q \in delayed \/ (q = p /\ queue' = queue)
      /\ \A q \in delayed : q \in delayed' /\ due'[q] = due[q]
  BY <1>1, <1>2 DEF ZAdd
<1>5. Alone'
  <2>1. \A i, j \in Slots' : queue'[i].task = queue'[j].task => i = j
    BY <1>0, <1>2, <1>3 DEF SingleInv, Alone
  <2>2. \A q, r \in delayed' : q.task = r.task => q = r
    BY <1>0, <1>2, <1>4 DEF SingleInv, Alone
  <2>3. \A i \in Slots', q \in delayed' : queue'[i].task # q.task
    <3>1. CASE queue' = queue
      BY <1>0, <1>2, <1>4, <3>1 DEF SingleInv, Alone, Slots
    <3>2. CASE delayed' = delayed
      BY <1>0, <1>2, <1>3, <3>2 DEF SingleInv, Alone
    <3> QED BY <1>1, <3>1, <3>2
  <2>4. \A n \in Node : job'[n] # NoJob =>
          /\ \A i \in Slots' : queue'[i].task # job'[n].task
          /\ \A q \in delayed' : q.task # job'[n].task
          /\ \A m \in Node : job'[m] # NoJob /\ job'[m].task = job'[n].task => m = n
    BY <1>0, <1>1, <1>2, <1>3, <1>4 DEF SingleInv, Alone
  <2>5. \A n \in Node : batch'[n] \subseteq delayed' /\ \A q \in batch'[n] : due'[q] = 0
    BY <1>1, <1>4 DEF SingleInv, Alone
  <2> QED BY <2>1, <2>2, <2>3, <2>4, <2>5 DEF Alone
<1>6. \A t : Buried(t)' <=> Buried(t)
  BY <1>1 DEF Buried
<1>7. Unborn' /\ Gone'
  BY <1>0, <1>1, <1>3, <1>4, <1>6 DEF SingleInv, Unborn, Gone, Within
<1>8. Fit'
  <2>1. runs[u] = 0 /\ done[u] = 0 /\ rest[u] = 0 /\ ~ Buried(u)
    BY <1>1 DEF SingleInv, Unborn
  <2>2. \A i \in Slots' : QueueFit(queue[i])'
    BY <1>0, <1>1, <1>3, <1>6, <2>1 DEF SingleInv, Fit, QueueFit, Open
  <2>3. \A q \in delayed' : DelayFit(q)'
    BY <1>0, <1>1, <1>4, <1>6, <2>1 DEF SingleInv, Fit, DelayFit, Open
  <2>4. \A n \in Node : job'[n] # NoJob => HandFit(n)'
    BY <1>1, <1>6 DEF SingleInv, Fit, HandFit
  <2>5. AttemptsBounded' /\ OutcomeExclusive'
    BY <1>1, <1>6 DEF SingleInv, Fit, AttemptsBounded, OutcomeExclusive
  <2> QED BY <2>2, <2>3, <2>4, <2>5 DEF Fit
<1> QED BY <1>5, <1>7, <1>8

LEMMA TickSingle ==
  ASSUME SingleInv, Tick
  PROVE  Alone' /\ Unborn' /\ Gone' /\ Fit'
<1>1. /\ UNCHANGED <<queue, delayed, dlq, pc, job, batch, enqueued, runs, done,
                     dropped, errors>>
      /\ due' = [p \in Payload |-> Less(due[p])]
      /\ wait' = [n \in Node |-> Less(wait[n])]
      /\ rest' = [t \in Task |-> Less(rest[t])]
  BY DEF Tick, budget
<1>2. Less(0) = 0
  BY DEF Less
<1> HIDE DEF Less
<1>3. TypeOK /\ delayed \subseteq Payload /\ Slots' = Slots
      /\ (\A t : Buried(t)' <=> Buried(t))
  BY <1>1 DEF SingleInv, TypeInv, TypeOK, Slots, Buried
<1>4. Alone'
  BY <1>1, <1>2, <1>3 DEF SingleInv, Alone
<1>5. Unborn' /\ Gone'
  BY <1>1, <1>2, <1>3 DEF SingleInv, Unborn, Gone, Within
<1>6. Fit'
  <2>1. \A i \in Slots' : QueueFit(queue[i])'
    <3>1. \A i \in Slots : queue[i].task \in Task /\ QueueFit(queue[i])
      BY <1>3, SlotPayload, PayloadParts DEF SingleInv, Fit
    <3> QED BY <1>1, <1>2, <1>3, <3>1 DEF QueueFit, Open
  <2>2. \A p \in delayed' : DelayFit(p)'
    <3>1. \A p \in delayed : p \in Payload /\ p.task \in Task /\ DelayFit(p)
      BY <1>3, PayloadParts DEF SingleInv, Fit
    <3> QED BY <1>1, <1>2, <1>3, <3>1 DEF DelayFit, Open
  <2>3. \A n \in Node : job'[n] # NoJob => HandFit(n)'
    <3>1. \A n \in Node : job[n] # NoJob => job[n].task \in Task /\ HandFit(n)
      BY <1>3, HeldPayload DEF SingleInv, Fit, TypeOK
    <3> QED BY <1>1, <1>2, <1>3, <3>1 DEF HandFit
  <2>4. AttemptsBounded' /\ OutcomeExclusive'
    BY <1>1, <1>3 DEF SingleInv, Fit, AttemptsBounded, OutcomeExclusive
  <2> QED BY <2>1, <2>2, <2>3, <2>4 DEF Fit
<1> QED BY <1>4, <1>5, <1>6

\* Neither an expiring key nor a stutter touches what SingleInv speaks of.
LEMMA QuietSingle ==
  ASSUME SingleInv, UNCHANGED vars \/ \E t \in Task : Expire(t)
  PROVE  Alone' /\ Unborn' /\ Gone' /\ Fit'
<1>1. UNCHANGED <<queue, delayed, due, dlq, pc, job, wait, batch, enqueued, runs,
                  done, rest, dropped, errors>>
  BY DEF vars, redis, worker, history, budget, Expire
<1>2. Slots' = Slots /\ \A t : Buried(t)' <=> Buried(t)
  BY <1>1 DEF Slots, Buried
<1>3. Alone' /\ Unborn' /\ Gone'
  BY <1>1, <1>2 DEF SingleInv, Alone, Unborn, Gone, Within
<1>4. Fit'
  BY <1>1, <1>2 DEF SingleInv, Fit, QueueFit, DelayFit, HandFit, Open, AttemptsBounded,
                    OutcomeExclusive
<1> QED BY <1>3, <1>4

LEMMA InitSingle == Init => SingleInv
<1> SUFFICES ASSUME Init PROVE SingleInv
  OBVIOUS
<1>1. Slots = {} /\ Len(dlq) = 0
  BY DEF Init, Slots
<1>2. \A t : ~ Buried(t)
  BY <1>1 DEF Buried
<1>3. Alone /\ Unborn /\ Gone
  BY <1>1, <1>2 DEF Init, Alone, Unborn, Gone, Within
<1>4. AttemptsBounded /\ OutcomeExclusive
  BY <1>1, <1>2, TaskQueueAssumption DEF Init, AttemptsBounded, OutcomeExclusive
<1>5. Fit
  BY <1>1, <1>4 DEF Init, Fit
<1> QED BY <1>3, <1>5, InitType DEF SingleInv

LEMMA NodeSingle ==
  ASSUME Unshared, SingleInv, NEW n \in Node, Scheduler(n) \/ Worker(n) \/ Fault(n)
  PROVE  Alone' /\ Unborn' /\ Gone' /\ Fit'
<1>1. Alone' /\ Unborn' /\ Gone'
  BY NodeAlone, NodeUnborn, NodeGone DEF SingleInv
<1>2. \A m \in Node : job'[m] # NoJob => HandFit(m)'
  <2>1. job'[n] # NoJob => HandFit(n)'
    BY NodeHandFit DEF SingleInv
  <2>2. ASSUME NEW m \in Node \ {n}, job'[m] # NoJob PROVE HandFit(m)'
    BY <2>2, NodeOtherFit DEF SingleInv
  <2> QED BY <2>1, <2>2
<1>3. /\ \A i \in Slots' : QueueFit(queue[i])'
      /\ \A p \in delayed' : DelayFit(p)'
      /\ AttemptsBounded' /\ OutcomeExclusive'
  BY NodeQueueFit, NodeDelayFit, NodeBounded, NodeExclusive DEF SingleInv
<1> QED BY <1>1, <1>2, <1>3 DEF Fit

LEMMA SingleStep == SingleInv /\ Unshared /\ [Next]_vars => SingleInv'
<1> SUFFICES ASSUME SingleInv, Unshared, [Next]_vars PROVE SingleInv'
  OBVIOUS
<1>1. TypeInv'
  BY TypeStep DEF SingleInv
<1>2. Alone' /\ Unborn' /\ Gone' /\ Fit'
  BY EnqueueSingle, NodeSingle, TickSingle, QuietSingle DEF Next
<1> QED BY <1>1, <1>2 DEF SingleInv

LEMMA SingleAlways == Spec /\ []Unshared => []SingleInv
BY InitSingle, SingleStep, PTL DEF Spec

LEMMA OneNodeShares == ASSUME OneNode PROVE Unshared
BY DEF OneNode, Unshared

\* However many worker processes there are: as long as no two schedulers
\* fetch the same payload, a task is never in two places, whatever stops,
\* fails or expires.  Nothing else ever copies a payload.
THEOREM UnsharedOneCopy == Spec /\ []Unshared => []OneCopy
<1>1. SingleInv => OneCopy
  <2> SUFFICES ASSUME Alone, NEW t \in Task, NEW a \in Copies(t), NEW b \in Copies(t)
               PROVE  a = b
    BY DEF OneCopy, SingleInv
  <2>1. ASSUME NEW c \in Copies(t)
        PROVE  \/ \E i \in Slots : c = <<"queue", i>> /\ queue[i].task = t
               \/ \E p \in delayed : c = <<"delayed", p>> /\ p.task = t
               \/ \E n \in Node : c = <<"worker", n>> /\ job[n] # NoJob /\ job[n].task = t
    BY <2>1 DEF Copies, Slots
  <2> QED BY <2>1 DEF Alone
<1> QED BY <1>1, SingleAlways, PTL

\* With one worker process, then, a task is never in two places.
THEOREM OneNodeOneCopy ==
  ASSUME OneNode PROVE Spec => []OneCopy
BY OneNodeShares, UnsharedOneCopy, PTL

\* The scheduler race is the only cause of a double execution: unless two
\* schedulers fetch the same payload, no two handlers of a task run at once,
\* with any number of worker processes and the idempotency key expiring or
\* being deleted at any moment.
THEOREM UnsharedNoConcurrent == Spec /\ []Unshared => []NoConcurrentExecution
<1>1. SingleInv => NoConcurrentExecution
  <2> SUFFICES ASSUME SingleInv, NEW m \in Node, NEW n \in Node,
                      m # n, pc[m] = "run", pc[n] = "run"
               PROVE  job[m].task # job[n].task
    BY DEF NoConcurrentExecution
  <2>1. job[m] # NoJob /\ job[n] # NoJob
    BY DEF SingleInv, TypeInv, TypeOK
  <2> QED BY <2>1 DEF SingleInv, Alone
<1> QED BY <1>1, SingleAlways, PTL

\* As long as no two schedulers fetch the same payload, no handler is started
\* more than max_retries + 1 times for a task, errors after a success and
\* expired keys included.
THEOREM UnsharedAttempts == Spec /\ []Unshared => []AttemptsBounded
<1>1. SingleInv => AttemptsBounded
  BY DEF SingleInv, Fit
<1> QED BY <1>1, SingleAlways, PTL

\* With one worker process, then, a task's attempts are bounded.
THEOREM OneNodeAttempts ==
  ASSUME OneNode PROVE Spec => []AttemptsBounded
BY OneNodeShares, UnsharedAttempts, PTL

\* As long as no two schedulers fetch the same payload, and until a Redis
\* command fails, a task succeeds once or is dead-lettered once, and never
\* both.
THEOREM UnsharedOutcome == Spec /\ []Unshared => []OutcomeExclusive
<1>1. SingleInv => OutcomeExclusive
  BY DEF SingleInv, Fit
<1> QED BY <1>1, SingleAlways, PTL

\* With one worker process, then, until a Redis command fails every task has
\* one outcome at most.
THEOREM OneNodeOutcome ==
  ASSUME OneNode PROVE Spec => []OutcomeExclusive
BY OneNodeShares, UnsharedOutcome, PTL

\* As long as no two schedulers fetch the same payload, no execution of a
\* task begins while a backoff of it is still running.
THEOREM UnsharedBackoff == Spec /\ []Unshared => BackoffRespected
<1>1. ASSUME SingleInv, [Next]_vars, NEW t \in Task, runs'[t] > runs[t] PROVE rest[t] = 0
  <2>1. PICK n \in Node : Scheduler(n) \/ Worker(n) \/ Fault(n)
    <3>1. runs'[t] # runs[t]
      BY <1>1 DEF SingleInv, TypeInv, TypeOK
    <3> QED BY <1>1, <3>1 DEF Next, Enqueue, Expire, Tick, vars, history
  <2>2. /\ TypeInv /\ runs \in [Task -> Nat]
        /\ pc[n] # "pop" => job[n] # NoJob
    BY <1>1 DEF SingleInv, TypeInv, TypeOK
  <2>3. runs' # runs
    BY <1>1, <2>2
  <2>4. /\ pc[n] \in {"claim", "check"}
        /\ runs' = [runs EXCEPT ![job[n].task] = @ + 1]
    BY <2>1, <2>2, <2>3, NodeOutcome
  <2>5. t = job[n].task /\ job[n] # NoJob
    BY <1>1, <2>2, <2>4
  <2> QED BY <1>1, <2>4, <2>5 DEF SingleInv, Fit, HandFit
<1>2. SingleInv /\ [Next]_vars => [\A t \in Task : runs'[t] > runs[t] => rest[t] = 0]_vars
  BY <1>1
<1> QED BY <1>2, SingleAlways, PTL DEF Spec, BackoffRespected

\* With one worker process, then, every backoff is waited for.
THEOREM OneNodeBackoff ==
  ASSUME OneNode PROVE Spec => BackoffRespected
BY OneNodeShares, UnsharedBackoff, PTL

Over(t) == done[t] > 0 \/ Buried(t) \/ t \in dropped

\* A task that has succeeded, is in the dead-letter queue or lost its worker
\* is never executed again, whatever process stops or key expires: as long as
\* no two schedulers fetch the same payload and no Redis command fails.
THEOREM UnsharedOver ==
  Spec /\ []Unshared =>
    [][errors' = 0 => \A t \in Task : Over(t) => runs'[t] = runs[t]]_vars
<1>1. ASSUME SingleInv, [Next]_vars, errors' = 0, NEW t \in Task, Over(t)
      PROVE  runs'[t] = runs[t]
  <2> SUFFICES ASSUME runs'[t] # runs[t] PROVE FALSE
    OBVIOUS
  <2>1. PICK n \in Node : Scheduler(n) \/ Worker(n) \/ Fault(n)
    BY <1>1 DEF Next, Enqueue, Expire, Tick, vars, history
  <2>2. /\ TypeInv /\ runs \in [Task -> Nat] /\ runs' # runs /\ errors = 0
        /\ pc[n] # "pop" => job[n] # NoJob
    BY <1>1, <2>1, NodeErrors DEF SingleInv, TypeInv, TypeOK
  <2>3. /\ pc[n] \in {"claim", "check"}
        /\ runs' = [runs EXCEPT ![job[n].task] = @ + 1]
    BY <2>1, <2>2, NodeOutcome
  <2>4. t = job[n].task /\ job[n] # NoJob
    BY <2>2, <2>3
  <2>5. done[t] = 0 /\ ~ Buried(t)
    BY <1>1, <2>2, <2>3, <2>4 DEF SingleInv, Fit, HandFit
  <2>6. t \notin dropped
    BY <1>1, <2>4 DEF SingleInv, Gone, Within
  <2> QED BY <1>1, <2>5, <2>6 DEF Over
<1>2. SingleInv /\ [Next]_vars
        => [errors' = 0 => \A t \in Task : Over(t) => runs'[t] = runs[t]]_vars
  BY <1>1
<1> QED BY <1>2, SingleAlways, PTL DEF Spec

-----------------------------------------------------------------------------
(* Unless two schedulers fetch the same payload, TaskLifecycle is           *)
(* implemented.                                                            *)

LifeInv == SingleInv /\ LossInv /\ EarnInv

\* A step that moves t in its life, and no other task.
Moves(t, from, to) ==
  /\ LifecycleStatus(t) = from /\ LifecycleStatus(t)' = to
  /\ \A u \in Task \ {t} : LifecycleStatus(u)' = LifecycleStatus(u)

Busy == {"run", "unlock", "requeue", "bury"}

LifeStep == [Lifecycle!LNext]_(Lifecycle!lvars)

Stays == \A u \in Task : LifecycleStatus(u)' = LifecycleStatus(u)

LEMMA MovesMove ==
  ASSUME NEW t \in Task, NEW from, NEW to, Moves(t, from, to)
  PROVE  Lifecycle!Move(t, from, to)
BY DEF Moves, Lifecycle!Move

LEMMA StaysStutters ==
  ASSUME errors = 0, errors' = 0, runs' = runs, Stays
  PROVE  LifeStep
BY DEF LifeStep, Stays, Lifecycle!lvars

\* Where the payload in a worker's hands is in its life.
LEMMA HeldStatus ==
  ASSUME LifeInv, NEW n \in Node, job[n] # NoJob, errors = 0
  PROVE  /\ pc[n] \in Before => LifecycleStatus(job[n].task) = "waiting"
         /\ pc[n] \in Busy
              => LifecycleStatus(job[n].task) = "running"
         /\ job[n].task \notin dropped /\ job[n].task \in enqueued
         /\ pc[n] = "record" => done[job[n].task] > 0
         /\ pc[n] # "record" => done[job[n].task] = 0
         /\ pc[n] = "mark" <=> Buried(job[n].task)
<1>1. /\ HandFit(n) /\ job[n].task \in Task \ dropped /\ job[n].task \in enqueued
      /\ pc[n] \in Step
      /\ pc[n] = "record" => done[job[n].task] > 0
      /\ pc[n] = "mark" => Buried(job[n].task)
  BY HeldPayload DEF LifeInv, SingleInv, Fit, Gone, Unborn, Within, LossInv, Recording,
                     TypeInv, TypeOK
<1>2. \A m \in Node : pc[m] \in Busy /\ job[m].task = job[n].task => m = n
  BY DEF Busy, LifeInv, SingleInv, Alone, TypeInv, TypeOK
<1>3. Running(job[n].task) <=> pc[n] \in Busy
  BY <1>2 DEF Running, Busy
<1> QED BY <1>1, <1>3 DEF HandFit, LifecycleStatus, Before, Busy, Step

LEMMA IdleStatus ==
  ASSUME LifeInv, NEW n \in Node, NEW u \in Task,
         Scheduler(n) \/ Worker(n) \/ Fault(n), errors' = 0,
         job[n] = NoJob \/ u # job[n].task, pc'[n] \notin Busy \/ job' = job,
         u \in dropped' <=> u \in dropped
  PROVE  LifecycleStatus(u)' = LifecycleStatus(u)
<1>1. SameFor(u) /\ enqueued' = enqueued /\ errors = 0
  BY NodeSame, NodeErrors DEF OthersSame, LifeInv, SingleInv
<1>2. job[n] = NoJob <=> pc[n] = "pop"
  BY DEF LifeInv, SingleInv, TypeInv, TypeOK
<1>3. Apart(n)
  BY NodeApart DEF LifeInv, SingleInv
<1>4. TypeInv'
  BY TypeStep DEF Next, LifeInv, SingleInv
<1>5. job'[n] = NoJob <=> pc'[n] = "pop"
  BY <1>4 DEF TypeInv, TypeOK
<1>6. ~ (pc[n] \in Busy /\ job[n].task = u) /\ ~ (pc'[n] \in Busy /\ job'[n].task = u)
  BY <1>2, <1>5 DEF Busy
<1>7. Running(u)' <=> Running(u)
  BY <1>3, <1>6 DEF Running, Busy, Apart
<1> QED BY <1>1, <1>7 DEF SameFor, LifecycleStatus

\* The life of the payload in a worker's hands, after a step of the worker.
LEMMA HeldAfter ==
  ASSUME LifeInv, NEW n \in Node,
         Scheduler(n) \/ Worker(n) \/ Fault(n), errors' = 0, job[n] # NoJob,
         NEW t \in Task, t = job[n].task,
         pc'[n] \notin Busy \/ job' = job,
         dropped' = dropped \/ dropped' = dropped \cup {t}
  PROVE  /\ \A u \in Task \ {t} : LifecycleStatus(u)' = LifecycleStatus(u)
         /\ LifecycleStatus(t)' =
              IF done'[t] > 0 THEN "succeeded" ELSE IF Buried(t)' THEN "dead"
              ELSE IF dropped' # dropped THEN "lost"
              ELSE IF pc'[n] \in Busy THEN "running" ELSE "waiting"
<1>1. \A u \in Task \ {t} : LifecycleStatus(u)' = LifecycleStatus(u)
  BY IdleStatus
<1>2. t \notin dropped /\ t \in enqueued /\ enqueued' = enqueued
  BY HeldStatus, NodeErrors DEF LifeInv, SingleInv
<1>3. Running(t)' <=> pc'[n] \in Busy
  <2>1. pc'[n] \in Busy => job'[n].task = t
    OBVIOUS
  <2>2. ASSUME NEW m \in Node \ {n} PROVE ~ (pc'[m] \in Busy /\ job'[m].task = t)
    <3>1. pc'[m] = pc[m] /\ job'[m] = job[m]
      BY NodeApart DEF Apart, LifeInv, SingleInv
    <3> QED BY <3>1 DEF Busy, LifeInv, SingleInv, Alone, TypeInv, TypeOK
  <2> QED BY <2>1, <2>2 DEF Running, Busy
<1>4. t \in dropped' <=> dropped' # dropped
  BY <1>2
<1> QED BY <1>1, <1>2, <1>3, <1>4 DEF LifecycleStatus

LEMMA LifeDispatch ==
  ASSUME LifeInv, NEW n \in Node, errors' = 0, Claim(n) \/ Check(n)
  PROVE  LifeStep
<1>0. /\ job[n] \in Payload /\ job[n] # NoJob /\ Worker(n) /\ TypeOK
      /\ pc \in [Node -> Step] /\ runs \in [Task -> Nat]
      /\ pc[n] \in {"claim", "check"} /\ errors = 0
  BY HeldPayload, NodeErrors DEF Claim, Check, Worker, LifeInv, SingleInv, TypeInv, TypeOK
<1>1. PICK t \in Task : t = job[n].task
  BY <1>0, PayloadParts
<1>2. /\ LifecycleStatus(t) = "waiting" /\ done[t] = 0 /\ ~ Buried(t)
  BY <1>0, <1>1, HeldStatus DEF Before
<1>3. UNCHANGED <<done, dlq, dropped>>
  BY DEF Claim, Check, redis
<1>4. \/ /\ t \notin Unregistered /\ pc'[n] = "run" /\ job' = job
         /\ runs' = [runs EXCEPT ![t] = @ + 1]
      \/ pc'[n] \notin Busy /\ runs' = runs
  BY <1>0, <1>1 DEF Claim, Check, Dispatch, Goto, Release, Busy
<1>5. done'[t] = 0 /\ ~ Buried(t)'
  BY <1>2, <1>3 DEF Buried
<1>6. /\ \A u \in Task \ {t} : LifecycleStatus(u)' = LifecycleStatus(u)
      /\ LifecycleStatus(t)' = IF pc'[n] \in Busy THEN "running" ELSE "waiting"
  BY <1>0, <1>1, <1>3, <1>4, <1>5, HeldAfter
<1>7. CASE /\ t \notin Unregistered /\ pc'[n] = "run" /\ job' = job
           /\ runs' = [runs EXCEPT ![t] = @ + 1]
  <2>1. Lifecycle!Move(t, "waiting", "running")
    BY <1>2, <1>6, <1>7, MovesMove DEF Moves, Busy
  <2>2. runs[t] <= MaxRetries[t]
    <3>1. runs[t] <= job[n].retry
      BY <1>0, <1>1 DEF LifeInv, SingleInv, Fit, HandFit, Before
    <3>2. job[n].retry \in 0 .. MaxRetries[t] /\ MaxRetries[t] \in Nat
      BY <1>0, <1>1, PayloadParts
    <3> QED BY <1>0, <3>1, <3>2
  <2>3. Lifecycle!Start(t)
    BY <1>0, <1>7, <2>1, <2>2 DEF Lifecycle!Start
  <2> QED BY <2>3 DEF LifeStep, Lifecycle!LNext
<1>8. CASE pc'[n] \notin Busy /\ runs' = runs
  BY <1>0, <1>2, <1>6, <1>8, StaysStutters DEF Stays
<1> QED BY <1>4, <1>7, <1>8

LEMMA LifeRun ==
  ASSUME LifeInv, NEW n \in Node, errors' = 0, Succeed(n) \/ Fail(n)
  PROVE  LifeStep
<1>0. /\ job[n] \in Payload /\ job[n] # NoJob /\ Worker(n)
      /\ pc \in [Node -> Step] /\ done \in [Task -> Nat]
      /\ pc[n] = "run" /\ errors = 0 /\ UNCHANGED <<dlq, dropped, runs, job>>
  BY HeldPayload, NodeErrors
     DEF Succeed, Fail, Worker, LifeInv, SingleInv, TypeInv, TypeOK, redis
<1>1. PICK t \in Task : t = job[n].task
  BY <1>0, PayloadParts
<1>2. LifecycleStatus(t) = "running" /\ done[t] = 0 /\ ~ Buried(t) /\ ~ Buried(t)'
  BY <1>0, <1>1, HeldStatus DEF Busy, Buried
<1>3. /\ \A u \in Task \ {t} : LifecycleStatus(u)' = LifecycleStatus(u)
      /\ LifecycleStatus(t)' =
           IF done'[t] > 0 THEN "succeeded"
           ELSE IF pc'[n] \in Busy THEN "running" ELSE "waiting"
  BY <1>0, <1>1, <1>2, HeldAfter
<1>4. CASE Succeed(n)
  <2>1. done'[t] > 0
    BY <1>0, <1>1, <1>2, <1>4 DEF Succeed
  <2>2. Lifecycle!Move(t, "running", "succeeded")
    BY <1>2, <1>3, <2>1, MovesMove DEF Moves
  <2>3. Lifecycle!Finish(t)
    BY <1>0, <2>2 DEF Lifecycle!Finish
  <2> QED BY <2>3 DEF LifeStep, Lifecycle!LNext
<1>5. CASE Fail(n)
  <2>1. done' = done /\ pc'[n] \in Busy
    BY <1>0, <1>5 DEF Fail, HandleFailure, Goto, Busy
  <2> QED BY <1>0, <1>2, <1>3, <2>1, StaysStutters DEF Stays
<1> QED BY <1>4, <1>5

LEMMA LifeBack ==
  ASSUME LifeInv, NEW n \in Node, errors' = 0,
         Record(n) \/ Unlock(n) \/ Requeue(n) \/ Mark(n)
  PROVE  LifeStep
<1>0. /\ job[n] \in Payload /\ job[n] # NoJob /\ Worker(n) /\ TypeOK
      /\ pc \in [Node -> Step] /\ job \in [Node -> Payload \cup {NoJob}]
      /\ errors = 0 /\ UNCHANGED <<dlq, dropped, runs, done>>
  BY HeldPayload, NodeErrors
     DEF Record, Unlock, Requeue, Mark, Worker, LifeInv, SingleInv, TypeInv, TypeOK, history
<1>1. PICK t \in Task : t = job[n].task
  BY <1>0, PayloadParts
<1>2. done'[t] = done[t] /\ (Buried(t)' <=> Buried(t))
  BY <1>0 DEF Buried
<1>3. \/ pc[n] \in {"record", "requeue", "mark"} /\ pc'[n] = "pop"
      \/ pc[n] = "unlock" /\ pc'[n] = "requeue" /\ job' = job
  BY <1>0 DEF Record, Unlock, Requeue, Mark, Release, Goto
<1>4. /\ \A u \in Task \ {t} : LifecycleStatus(u)' = LifecycleStatus(u)
      /\ LifecycleStatus(t)' =
           IF done[t] > 0 THEN "succeeded" ELSE IF Buried(t) THEN "dead"
           ELSE IF pc'[n] \in Busy THEN "running" ELSE "waiting"
  BY <1>0, <1>1, <1>2, <1>3, HeldAfter DEF Busy
<1>5. CASE pc[n] \in {"record", "mark"}
  <2>1. done[t] > 0 \/ Buried(t)
    BY <1>0, <1>1, <1>5, HeldStatus
  <2>2. LifecycleStatus(t)' = LifecycleStatus(t)
    BY <1>0, <1>4, <2>1 DEF LifecycleStatus
  <2> QED BY <1>0, <1>4, <2>2, StaysStutters DEF Stays
<1>6. CASE pc[n] = "unlock"
  <2>1. LifecycleStatus(t)' = LifecycleStatus(t)
    BY <1>0, <1>1, <1>3, <1>4, <1>6, HeldStatus DEF Busy
  <2> QED BY <1>0, <1>4, <2>1, StaysStutters DEF Stays
<1>7. CASE pc[n] = "requeue"
  <2>1. /\ LifecycleStatus(t) = "running" /\ done[t] = 0 /\ ~ Buried(t)
    BY <1>0, <1>1, <1>7, HeldStatus DEF Busy
  <2>2. Lifecycle!Move(t, "running", "waiting")
    BY <1>3, <1>4, <1>7, <2>1, MovesMove DEF Moves, Busy
  <2>3. runs[t] <= MaxRetries[t]
    <3>1. runs[t] <= job[n].retry + 1 /\ job[n].retry < MaxRetries[t]
      BY <1>0, <1>1, <1>7
         DEF LifeInv, SingleInv, Fit, HandFit, Before, TypeInv, Entitled
    <3>2. runs[t] \in Nat /\ job[n].retry \in Nat /\ MaxRetries[t] \in Nat
      BY <1>0, <1>1, PayloadParts DEF TypeOK
    <3> QED BY <3>1, <3>2
  <2>4. Lifecycle!Retry(t)
    BY <1>0, <2>2, <2>3 DEF Lifecycle!Retry
  <2> QED BY <2>4 DEF LifeStep, Lifecycle!LNext
<1> QED BY <1>3, <1>5, <1>6, <1>7

\* A record in the dead-letter queue ends a life.
LEMMA LifeDead ==
  ASSUME LifeInv, NEW n \in Node, Scheduler(n) \/ Worker(n) \/ Fault(n),
         errors' = 0, pc[n] \in {"bury", "shunt"}, pc'[n] \notin Busy,
         dlq' = Append(dlq, job[n]), UNCHANGED <<done, runs>>,
         dropped' = dropped \/ dropped' = dropped \cup {job[n].task}
  PROVE  LifeStep
<1>0. /\ job[n] \in Payload /\ job[n] # NoJob /\ TypeOK /\ errors = 0
  BY HeldPayload, NodeErrors DEF LifeInv, SingleInv, TypeInv
<1>1. PICK t \in Task : t = job[n].task
  BY <1>0, PayloadParts
<1>2. done'[t] = 0
  BY <1>0, <1>1, HeldStatus
<1>3. Buried(t)'
  <2>1. /\ Len(dlq') = Len(dlq) + 1 /\ Len(dlq) \in Nat /\ dlq'[Len(dlq) + 1] = job[n]
    BY <1>0, AppendProperties, LenProperties DEF TypeOK
  <2> QED BY <1>1, <2>1 DEF Buried
<1>4. /\ \A u \in Task \ {t} : LifecycleStatus(u)' = LifecycleStatus(u)
      /\ LifecycleStatus(t)' = "dead"
  BY <1>0, <1>1, <1>2, <1>3, HeldAfter
<1>5. CASE pc[n] = "bury"
  <2>1. Lifecycle!Move(t, "running", "dead")
    BY <1>0, <1>1, <1>4, <1>5, HeldStatus, MovesMove DEF Moves, Busy
  <2>2. runs[t] = MaxRetries[t] + 1
    <3>1. runs[t] <= MaxRetries[t] + 1
      BY <1>1 DEF LifeInv, SingleInv, Fit, AttemptsBounded
    <3>2. runs[t] >= job[n].retry + 1 /\ job[n].retry >= MaxRetries[t]
      BY <1>1, <1>5 DEF LifeInv, EarnInv, Spent, Started, TypeInv, Entitled
    <3>3. runs[t] \in Nat /\ job[n].retry \in Nat /\ MaxRetries[t] \in Nat
      BY <1>0, <1>1, PayloadParts DEF TypeOK
    <3> QED BY <3>1, <3>2, <3>3
  <2>3. Lifecycle!Bury(t)
    BY <1>0, <2>1, <2>2 DEF Lifecycle!Bury
  <2> QED BY <2>3 DEF LifeStep, Lifecycle!LNext
<1>6. CASE pc[n] = "shunt"
  <2>1. Lifecycle!Move(t, "waiting", "dead")
    BY <1>0, <1>1, <1>4, <1>6, HeldStatus, MovesMove DEF Moves, Before
  <2>2. t \in Unregistered
    BY <1>1, <1>6 DEF LifeInv, SingleInv, TypeInv, Entitled
  <2>3. Lifecycle!Reject(t)
    BY <1>0, <2>1, <2>2 DEF Lifecycle!Reject
  <2> QED BY <2>3 DEF LifeStep, Lifecycle!LNext
<1> QED BY <1>5, <1>6

\* A payload that vanishes with its worker ends a life that has no outcome.
LEMMA LifeLost ==
  ASSUME LifeInv, NEW n \in Node, Scheduler(n) \/ Worker(n) \/ Fault(n),
         errors' = 0, pc[n] # "pop", pc'[n] \notin Busy, UNCHANGED <<dlq, done, runs>>,
         dropped' = dropped \cup {job[n].task}
  PROVE  LifeStep
<1>0. /\ job[n] \in Payload /\ job[n] # NoJob /\ TypeOK /\ errors = 0
      /\ pc[n] \in Step
  BY HeldPayload, NodeErrors DEF LifeInv, SingleInv, TypeInv, TypeOK
<1>1. PICK t \in Task : t = job[n].task
  BY <1>0, PayloadParts
<1>2. done'[t] = done[t] /\ (Buried(t)' <=> Buried(t)) /\ dropped' # dropped
  BY <1>0, <1>1, HeldStatus DEF Buried
<1>3. /\ \A u \in Task \ {t} : LifecycleStatus(u)' = LifecycleStatus(u)
      /\ LifecycleStatus(t)' =
           IF done[t] > 0 THEN "succeeded" ELSE IF Buried(t) THEN "dead" ELSE "lost"
  BY <1>0, <1>1, <1>2, HeldAfter
<1>4. CASE pc[n] \in {"record", "mark"}
  <2>1. done[t] > 0 \/ Buried(t)
    BY <1>0, <1>1, <1>4, HeldStatus
  <2>2. LifecycleStatus(t)' = LifecycleStatus(t)
    BY <1>0, <1>3, <2>1 DEF LifecycleStatus
  <2> QED BY <1>0, <1>3, <2>2, StaysStutters DEF Stays
<1>5. CASE pc[n] \notin {"record", "mark"}
  <2>1. LifecycleStatus(t) \in {"waiting", "running"} /\ done[t] = 0 /\ ~ Buried(t)
    BY <1>0, <1>1, <1>5, HeldStatus DEF Busy, Before, Step
  <2>2. LifecycleStatus(t)' = "lost"
    BY <1>3, <2>1
  <2>3. Moves(t, LifecycleStatus(t), "lost")
    BY <1>3, <2>2 DEF Moves
  <2>4. Lifecycle!Move(t, "waiting", "lost") \/ Lifecycle!Move(t, "running", "lost")
    BY <2>1, <2>3, MovesMove
  <2>5. Lifecycle!Lose(t)
    BY <1>0, <2>4 DEF Lifecycle!Lose
  <2> QED BY <2>5 DEF LifeStep, Lifecycle!LNext
<1> QED BY <1>4, <1>5

\* ... and so does one that BRPOP took and never delivered.
LEMMA LifeUndelivered ==
  ASSUME LifeInv, NEW n \in Node, Scheduler(n) \/ Worker(n) \/ Fault(n),
         errors' = 0, LosePop(n)
  PROVE  LifeStep
<1>0. /\ TypeOK /\ errors = 0 /\ job[n] = NoJob /\ queue # <<>>
      /\ dropped' = dropped \cup {Head(queue).task}
      /\ UNCHANGED <<pc, job, dlq, done, runs, enqueued>>
  BY NodeErrors DEF LifeInv, SingleInv, TypeInv, TypeOK, LosePop, worker
<1>1. PICK t \in Task : t = Head(queue).task
  BY <1>0, PoppedPayload
<1>2. 1 \in Slots /\ t = queue[1].task
  BY <1>0, <1>1, HeadInSlots
<1>3. /\ t \in enqueued /\ t \notin dropped /\ done[t] = 0 /\ ~ Buried(t)
  BY <1>0, <1>2 DEF LifeInv, SingleInv, Unborn, Gone, Within, Fit, QueueFit, Open
<1>4. ~ Running(t) /\ ~ Running(t)'
  <2>1. \A m \in Node : job[m] # NoJob => job[m].task # t
    BY <1>2 DEF LifeInv, SingleInv, Alone
  <2>2. \A m \in Node : pc[m] # "pop" => job[m].task # t
    BY <2>1 DEF LifeInv, SingleInv, TypeInv, TypeOK
  <2> QED BY <1>0, <2>2 DEF Running
<1>5. LifecycleStatus(t) = "waiting"
  BY <1>0, <1>3, <1>4 DEF LifecycleStatus
<1>6. LifecycleStatus(t)' = "lost"
  <2>1. t \in dropped' /\ done'[t] = 0 /\ ~ Buried(t)'
    BY <1>0, <1>1, <1>3 DEF Buried
  <2> QED BY <2>1 DEF LifecycleStatus
<1>7. \A u \in Task \ {t} : LifecycleStatus(u)' = LifecycleStatus(u)
  BY <1>0, <1>1, IdleStatus
<1>8. Lifecycle!Lose(t)
  BY <1>0, <1>5, <1>6, <1>7, MovesMove DEF Moves, Lifecycle!Lose
<1> QED BY <1>8 DEF LifeStep, Lifecycle!LNext

LEMMA LifeHalt ==
  ASSUME LifeInv, NEW n \in Node, errors' = 0, Halt(n)
  PROVE  LifeStep
<1>0. Fault(n) /\ pc \in [Node -> Step] /\ errors = 0
  BY NodeErrors DEF Fault, LifeInv, SingleInv, TypeInv, TypeOK
<1>1. CASE LosePop(n)
  BY <1>0, <1>1, LifeUndelivered
<1>2. CASE LoseCommand(n)
  <2>1. /\ pc[n] # "pop" /\ pc'[n] = "pop" /\ UNCHANGED <<done, runs>>
        /\ dropped' = dropped \cup {job[n].task}
        /\ dlq' = dlq \/ (pc[n] \in {"bury", "shunt"} /\ dlq' = Append(dlq, job[n]))
    BY <1>0, <1>2 DEF LoseCommand, Drop, Release, Goto
  <2> QED BY <1>0, <2>1, LifeDead, LifeLost DEF Busy
<1>3. CASE pc[n] \in {"run", "record"} /\ Drop(n)
           /\ UNCHANGED <<redis, enqueued, runs, done, rest>>
  <2>1. /\ pc'[n] = "pop" /\ dropped' = dropped \cup {job[n].task}
        /\ dlq' = dlq
    BY <1>0, <1>3 DEF Drop, Release, Goto, redis
  <2> QED BY <1>0, <1>3, <2>1, LifeLost DEF Busy
<1>4. CASE UNCHANGED <<redis, worker, history>>
  <2>1. Stays /\ runs' = runs
    BY <1>0, <1>4 DEF Stays, LifecycleStatus, Running, Buried, redis, worker, history
  <2> QED BY <1>0, <2>1, StaysStutters
<1> QED BY <1>1, <1>2, <1>3, <1>4 DEF Halt

LEMMA LifeQuiet ==
  ASSUME LifeInv, NEW n \in Node, errors' = 0, Scheduler(n) \/ Pop(n)
  PROVE  LifeStep
<1>0. /\ pc \in [Node -> Step] /\ errors = 0
      /\ UNCHANGED <<dlq, done, runs, dropped, enqueued>>
  BY NodeErrors DEF Scheduler, Poll, Promote, Worker, Pop, redis, history,
                    LifeInv, SingleInv, TypeInv, TypeOK
<1>1. \A u : Running(u)' <=> Running(u)
  <2>1. CASE Scheduler(n)
    BY <2>1 DEF Scheduler, Poll, Promote, worker, Running
  <2>2. CASE Pop(n)
    <3>1. pc[n] = "pop" /\ pc'[n] = "claim" /\ Apart(n)
      BY <1>0, <2>2, NodeApart DEF Pop, Goto, Worker, LifeInv, SingleInv
    <3> QED BY <3>1 DEF Running, Apart
  <2> QED BY <2>1, <2>2
<1>2. Stays
  BY <1>0, <1>1 DEF Stays, LifecycleStatus, Buried
<1> QED BY <1>0, <1>2, StaysStutters

LEMMA LifeEnqueue ==
  ASSUME LifeInv, NEW t \in Task, NEW d \in Delays, Enqueue(t, d), errors = 0
  PROVE  LifeStep
<1>1. /\ UNCHANGED <<pc, job, dlq, done, runs, dropped, errors>>
      /\ t \notin enqueued /\ enqueued' = enqueued \cup {t}
  BY DEF Enqueue, worker, budget
<1>2. /\ \A u : Running(u)' <=> Running(u)
      /\ \A u : Buried(u)' <=> Buried(u)
  BY <1>1 DEF Running, Buried
<1>3. /\ t \notin dropped /\ done[t] = 0 /\ ~ Buried(t) /\ ~ Running(t)
  <2>1. \A n \in Node : pc[n] # "pop" => job[n].task # t
    BY <1>1 DEF LifeInv, SingleInv, Unborn, Within, TypeInv, TypeOK
  <2> QED BY <1>1, <2>1 DEF LifeInv, SingleInv, Unborn, Running
<1>4. Moves(t, "new", "waiting")
  BY <1>1, <1>2, <1>3 DEF Moves, LifecycleStatus
<1>5. Lifecycle!Submit(t)
  BY <1>1, <1>4, MovesMove DEF Lifecycle!Submit
<1> QED BY <1>5 DEF LifeStep, Lifecycle!LNext

\* Once a command has failed the lifecycle promises nothing more.
LEMMA LifeVoid ==
  ASSUME LifeInv, LifeInv', errors' # 0
  PROVE  LifeStep
<1>1. errors' > 0 /\ errors \in Nat
  BY TaskQueueAssumption DEF LifeInv, SingleInv, TypeInv, TypeOK
<1>2. /\ \A t \in Task : LifecycleStatus(t)' = "void"
      /\ [t \in Task |-> IF errors > 0 THEN 0 ELSE runs[t]]' = [t \in Task |-> 0]
  BY <1>1 DEF LifecycleStatus
<1>3. Lifecycle!Void
  BY <1>2 DEF Lifecycle!Void
<1> QED BY <1>3 DEF LifeStep, Lifecycle!LNext

LEMMA LifeSteps ==
  ASSUME LifeInv, LifeInv', [Next]_vars
  PROVE  LifeStep
<1>0. CASE errors' # 0
  BY <1>0, LifeVoid
<1> SUFFICES ASSUME errors' = 0 PROVE LifeStep
  BY <1>0
<1>1. CASE \E t \in Task, d \in Delays : Enqueue(t, d)
  <2>1. errors = 0
    BY <1>1 DEF Enqueue, budget
  <2> QED BY <1>1, <2>1, LifeEnqueue
<1>2. ASSUME NEW n \in Node, Scheduler(n) \/ Worker(n) \/ Fault(n)
      PROVE  LifeStep
  <2>1. ~ PromoteError(n) /\ ~ WorkerError(n)
    BY <1>2, NodeErrors DEF LifeInv, SingleInv
  <2>2. CASE Claim(n) \/ Check(n)
    BY <2>2, LifeDispatch
  <2>3. CASE Succeed(n) \/ Fail(n)
    BY <2>3, LifeRun
  <2>4. CASE Record(n) \/ Unlock(n) \/ Requeue(n) \/ Mark(n)
    BY <2>4, LifeBack
  <2>5. CASE Bury(n) \/ Shunt(n)
    <3>1. /\ pc[n] \in {"bury", "shunt"} /\ pc'[n] \notin Busy
          /\ dlq' = Append(dlq, job[n]) /\ UNCHANGED <<done, runs, dropped>>
      BY <2>5 DEF Bury, Shunt, Release, Goto, Busy, history,
                  LifeInv, SingleInv, TypeInv, TypeOK
    <3> QED BY <1>2, <3>1, LifeDead
  <2>6. CASE Halt(n)
    BY <2>6, LifeHalt
  <2>7. CASE Scheduler(n) \/ Pop(n)
    BY <2>7, LifeQuiet
  <2> QED BY <1>2, <2>1, <2>2, <2>3, <2>4, <2>5, <2>6, <2>7 DEF Worker, Fault
<1>3. CASE Tick \/ (\E t \in Task : Expire(t)) \/ UNCHANGED vars
  <2>1. UNCHANGED <<pc, job, dlq, enqueued, runs, done, dropped, errors>>
    BY <1>3 DEF Tick, Expire, vars, redis, worker, history, budget
  <2>2. Stays
    BY <2>1 DEF Stays, LifecycleStatus, Running, Buried
  <2> QED BY <2>1, <2>2, StaysStutters
<1> QED BY <1>1, <1>2, <1>3 DEF Next

LEMMA LifeInit == Init => Lifecycle!LInit
<1> SUFFICES ASSUME Init PROVE Lifecycle!LInit
  OBVIOUS
<1>1. \A t \in Task : LifecycleStatus(t) = "new"
  BY DEF Init, LifecycleStatus, Buried, Running
<1> QED BY <1>1 DEF Init, Lifecycle!LInit

\* As long as no two schedulers fetch the same payload, the job system
\* implements the lifecycle it promises, with any number of worker processes:
\* attempts are counted and limited and every outcome is final, until a Redis
\* command fails.
THEOREM UnsharedLifecycle == Spec /\ []Unshared => ImplementsLifecycle
<1>1. LifeInv /\ Unshared /\ [Next]_vars => LifeInv'
  BY SingleStep, LossStep, EarnStep DEF LifeInv
<1>2. LifeInv /\ LifeInv' /\ [Next]_vars => LifeStep
  BY LifeSteps
<1>3. Init => LifeInv /\ Lifecycle!LInit
  BY InitSingle, InitLoss, InitEarn, LifeInit DEF LifeInv
<1> QED BY <1>1, <1>2, <1>3, PTL DEF Spec, ImplementsLifecycle, Lifecycle!LSpec, LifeStep

\* With one worker process, then, the job system implements the lifecycle.
THEOREM OneNodeLifecycle ==
  ASSUME OneNode PROVE Spec => ImplementsLifecycle
BY OneNodeShares, UnsharedLifecycle, PTL
=============================================================================
