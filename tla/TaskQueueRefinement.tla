------------------------ MODULE TaskQueueRefinement ------------------------
(* One node, or any number of which no two schedulers fetch the same       *)
(* payload, implements TaskLifecycle until a Redis command fails: process  *)
(* stops and expiring keys cost a task at most its life, never an extra    *)
(* attempt or a second outcome.                                            *)
EXTENDS TaskQueue

Running(t) ==
  \E n \in Node : /\ pc[n] \in {"run", "unlock", "requeue", "bury"}
                  /\ job[n].task = t

\* The outcome reached first decides, until a command has failed.
LifecycleStatus(t) ==
  IF errors > 0 THEN "void"
  ELSE IF done[t] > 0 THEN "succeeded"
  ELSE IF Buried(t) THEN "dead"
  ELSE IF t \in dropped THEN "lost"
  ELSE IF Running(t) THEN "running"
  ELSE IF t \in enqueued THEN "waiting" ELSE "new"

Lifecycle == INSTANCE TaskLifecycle WITH
  status <- [t \in Task |-> LifecycleStatus(t)],
  tries  <- [t \in Task |-> IF errors > 0 THEN 0 ELSE runs[t]]

\* The job system implements the lifecycle it promises.
ImplementsLifecycle == Lifecycle!LSpec
=============================================================================
