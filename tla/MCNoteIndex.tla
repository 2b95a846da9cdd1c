---------------------------- MODULE MCNoteIndex ----------------------------
(* Finite instances of NoteIndex for TLC.                                  *)
EXTENDS NoteIndex, TLC

CONSTANTS x1, t1, t2, t3, w1, w2

\* One retry where the code allows three: enough for a retry to overtake.
MCMaxRetries == [t \in Task |-> 1]

Symmetry == Permutations(Task) \cup Permutations(Worker)
=============================================================================
