----------------------------- MODULE TextChunks -----------------------------
(***************************************************************************)
(* chunk_text of the workers: the loop that cuts a note's text into the    *)
(* overlapping slices the semantic index is made of.  One action is one    *)
(* pass through the loop.  Offsets count from 0 as in the code, so the     *)
(* character at offset i is text[i + 1].                                   *)
(*                                                                         *)
(* Abstractions.  A chunk is the set of offsets it holds.  The code strips *)
(* each slice and removes the empty ones when it returns; nothing reads    *)
(* them before, so here a blank slice is never added.                      *)
(***************************************************************************)
EXTENDS Integers, Sequences

CONSTANTS
  Char,        \* the characters of a text
  Blank,       \* those that strip() removes
  Separators,  \* where to cut, most wanted first
  Size,        \* chunk_size: 500 in the one call there is
  Overlap      \* overlap: 100

\* What the call's arguments satisfy; with more overlap a boundary at the
\* start of the window would move the loop backwards.
ASSUME TextChunksAssumption ==
  /\ Blank \subseteq Char
  /\ Separators \in Seq(Seq(Char) \ {<<>>})
  /\ Size \in Nat \ {0} /\ Overlap \in Nat
  /\ 2 * Overlap <= Size

VARIABLES
  text,    \* the argument
  start,   \* where the next slice begins
  chunks,  \* the slices so far
  phase    \* in the loop, or returned

tvars == <<text, start, chunks, phase>>

Offset == 0 .. Len(text) - 1

\* `if not text: return []`
Chunk(t) ==
  /\ text = t /\ start = 0 /\ chunks = <<>>
  /\ phase = IF t = <<>> THEN "done" ELSE "slicing"

\* The next call.
ChunkNext(t) ==
  /\ text' = t /\ start' = 0 /\ chunks' = <<>>
  /\ phase' = IF t = <<>> THEN "done" ELSE "slicing"

ChunkInit == \E t \in Seq(Char) : Chunk(t)
-----------------------------------------------------------------------------
\* text.rfind(sep, lo, hi) looks for the greatest of these.
Matches(sep, lo, hi) ==
  {p \in lo .. hi - Len(sep) :
     \A k \in 1 .. Len(sep) : text[p + k] = sep[k]}

\* The boundary scanner looks only at the last `overlap` characters.
Window == start + Size - Overlap .. start + Size

\* The last occurrence of the first separator that occurs in the window; the
\* boundary is behind it.
Boundary(e) ==
  \E i \in DOMAIN Separators :
    LET sep   == Separators[i]
        In(j) == {p \in Matches(Separators[j], 0, start + Size) : p \in Window}
    IN  /\ e - Len(sep) \in In(i)
        /\ \A p \in In(i) : p <= e - Len(sep)
        /\ \A j \in 1 .. i - 1 : In(j) = {}

\* e is the `end` of the slice that begins at start.
IsEnd(e) ==
  \/ start + Size >= Len(text) /\ e = Len(text)
  \/ start + Size < Len(text) /\ Boundary(e)
  \/ /\ start + Size < Len(text) /\ e = start + Size
     /\ \A b \in 0 .. e : ~Boundary(b)

\* text[from:to].strip()
Strip(from, to) ==
  LET full == {i \in from .. to - 1 : text[i + 1] \notin Blank}
  IN  {i \in from .. to - 1 : \E j, k \in full : j <= i /\ i <= k}

\* Variant: the next slice begins where this one ends.
NextStartNoOverlap(e) == e

NextStart(e) == e - Overlap

\* One pass: find the end, keep the slice, break or go back by the overlap.
Slice ==
  /\ phase = "slicing" /\ start < Len(text)
  /\ \E e \in 0 .. Len(text) :
       /\ IsEnd(e)
       /\ chunks' = IF Strip(start, e) = {} THEN chunks
                    ELSE Append(chunks, Strip(start, e))
       /\ \/ e >= Len(text) /\ phase' = "done" /\ UNCHANGED start
          \/ e < Len(text) /\ start' = NextStart(e) /\ UNCHANGED phase
  /\ UNCHANGED text

ChunkSpec == ChunkInit /\ [][Slice]_tvars
-----------------------------------------------------------------------------
ChunkTypeOK ==
  /\ text \in Seq(Char)
  /\ start \in 0 .. Len(text)
  /\ chunks \in Seq(SUBSET Offset)
  /\ phase \in {"slicing", "done"}

\* Whatever the separators and wherever they stand, no passage of up to
\* overlap + 1 characters is torn: some chunk holds it whole.  In
\* particular every character that is not blank is in the index.
PassagesWhole ==
  phase = "done" =>
    \A i \in Offset : \A n \in 1 .. Overlap + 1 :
      i + n <= Len(text) /\ Strip(i, i + n) # {} =>
        \E c \in DOMAIN chunks : Strip(i, i + n) \subseteq chunks[c]

\* The loop comes to its end, because each pass begins behind the last one.
Advances == [][phase' = "slicing" => start' > start \/ UNCHANGED tvars]_tvars
=============================================================================
