---------------------------- MODULE MCTaskQueue ----------------------------
(* Finite instances of TaskQueue for TLC.                                  *)
EXTENDS TaskQueueRefinement, TLC

CONSTANTS a, b, ghost   \* two tasks with a handler and one without

\* a is retried twice (the test-fail job), b once; nothing retries ghost.
MCMaxRetries == [t \in Task |-> CASE t = a -> 2 [] t = b -> 1 [] OTHER -> 0]

Symmetry == Permutations(Node)
=============================================================================
