---------------------------- MODULE MCNoteEditor ----------------------------
(* Finite instances of NoteEditor for TLC.                                 *)
EXTENDS NoteEditor, TLC

CONSTANTS r1, r2, r3

Symmetry == Permutations(Request)
=============================================================================
