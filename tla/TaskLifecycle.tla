--------------------------- MODULE TaskLifecycle ---------------------------
(* What the job system promises for each task, with the queues, locks and  *)
(* worker steps hidden: attempts are counted, limited and never overlap,   *)
(* and every outcome is final.                                             *)
EXTENDS Integers

CONSTANTS Task, Unregistered, MaxRetries

VARIABLES
  status,   \* where the task is in its life
  tries     \* attempts started

lvars == <<status, tries>>

Status ==
  {"new", "waiting", "running", "succeeded", "dead", "lost", "void"}

LInit ==
  /\ status = [t \in Task |-> "new"]
  /\ tries  = [t \in Task |-> 0]

Move(t, from, to) == status[t] = from /\ status' = [status EXCEPT ![t] = to]

Submit(t) == Move(t, "new", "waiting") /\ UNCHANGED tries

Start(t) ==
  /\ Move(t, "waiting", "running")
  /\ t \notin Unregistered /\ tries[t] <= MaxRetries[t]
  /\ tries' = [tries EXCEPT ![t] = @ + 1]

Finish(t) == Move(t, "running", "succeeded") /\ UNCHANGED tries

Retry(t) ==
  /\ Move(t, "running", "waiting")
  /\ tries[t] <= MaxRetries[t] /\ UNCHANGED tries

\* Dead-lettered because the attempts are used up ...
Bury(t) ==
  /\ Move(t, "running", "dead")
  /\ tries[t] = MaxRetries[t] + 1 /\ UNCHANGED tries

\* ... or because no handler is registered.
Reject(t) ==
  /\ Move(t, "waiting", "dead")
  /\ t \in Unregistered /\ UNCHANGED tries

\* A process died with the task's only payload in its hands.
Lose(t) ==
  /\ Move(t, "waiting", "lost") \/ Move(t, "running", "lost")
  /\ UNCHANGED tries

\* A command has failed: nothing is promised any more.
Void ==
  /\ status' = [t \in Task |-> "void"]
  /\ tries'  = [t \in Task |-> 0]

LNext ==
  \/ \E t \in Task : \/ Submit(t) \/ Start(t) \/ Finish(t) \/ Retry(t)
                     \/ Bury(t) \/ Reject(t) \/ Lose(t)
  \/ Void

LSpec == LInit /\ [][LNext]_lvars
=============================================================================
