-------------------------- MODULE AssistantProofs --------------------------
(* Proofs about TextChunks and Assistant, for all texts, every list of     *)
(* separators, every size and overlap within the assumption, and any       *)
(* number of notes and requests.                                           *)
EXTENDS Assistant, TLAPS

-----------------------------------------------------------------------------
(* The end of a slice.                                                     *)

\* A boundary lies behind a separator that starts in the window.
LEMMA BoundaryBounds ==
  ASSUME ChunkTypeOK, NEW e \in Int, Boundary(e)
  PROVE  start + Size - Overlap < e /\ e <= start + Size
<1>1. PICK i \in DOMAIN Separators :
        LET sep == Separators[i]
        IN  e - Len(sep) \in {p \in Matches(sep, 0, start + Size) : p \in Window}
  BY DEF Boundary
<1>2. Separators[i] \in Seq(Char) \ {<<>>}
  BY <1>1, TextChunksAssumption
<1>3. Len(Separators[i]) \in Nat \ {0}
  BY <1>2
<1>4. start \in Int /\ Size \in Nat /\ Overlap \in Nat
  BY TextChunksAssumption DEF ChunkTypeOK, Offset
<1> QED BY <1>1, <1>3, <1>4 DEF Matches, Window

\* The slice ends within the text, and unless it is the last one the next
\* start lies behind the present one.
LEMMA EndBounds ==
  ASSUME ChunkTypeOK, start < Len(text), NEW e \in 0 .. Len(text), IsEnd(e)
  PROVE  /\ start < e
         /\ e < Len(text) => NextStart(e) \in start + 1 .. Len(text)
<1>1. /\ start \in Nat /\ Len(text) \in Nat /\ e \in Int
      /\ Size \in Nat \ {0} /\ Overlap \in Nat /\ 2 * Overlap <= Size
  BY TextChunksAssumption DEF ChunkTypeOK
<1>2. CASE start + Size >= Len(text) /\ e = Len(text)
  BY <1>1, <1>2
<1>3. CASE start + Size < Len(text) /\ Boundary(e)
  <2>1. start + Size - Overlap < e /\ e <= start + Size
    BY <1>1, <1>3, BoundaryBounds
  <2> QED BY <1>1, <2>1 DEF NextStart
<1>4. CASE start + Size < Len(text) /\ e = start + Size
  BY <1>1, <1>4 DEF NextStart
<1> QED BY <1>2, <1>3, <1>4 DEF IsEnd

\* A passage within a slice is whole after both are stripped.
LEMMA StripMonotone ==
  ASSUME NEW from \in Int, NEW to \in Int, NEW i \in Int, NEW j \in Int,
         from <= i, j <= to
  PROVE  Strip(i, j) \subseteq Strip(from, to)
BY DEF Strip

-----------------------------------------------------------------------------
(* The passages that begin before the next slice are in a chunk already.   *)

Covered(i, n) == \E c \in DOMAIN chunks : Strip(i, i + n) \subseteq chunks[c]

ChunkInv ==
  /\ ChunkTypeOK
  /\ \A i \in Offset : \A n \in 1 .. Overlap + 1 :
       /\ i < start \/ phase = "done"
       /\ i + n <= Len(text) /\ Strip(i, i + n) # {}
       => Covered(i, n)

LEMMA ChunkBegins ==
  ASSUME NEW t \in Seq(Char), Chunk(t)
  PROVE  ChunkInv
<1>1. text = t /\ start = 0 /\ chunks = <<>> /\ phase \in {"slicing", "done"}
  BY DEF Chunk
<1>2. phase = "done" => Len(text) = 0
  BY DEF Chunk
<1>3. Len(text) \in Nat
  BY <1>1
<1>4. ChunkTypeOK
  BY <1>1, <1>3 DEF ChunkTypeOK
<1>5. \A i \in Offset : ~(i < start) /\ phase # "done"
  BY <1>1, <1>2, <1>3 DEF Offset
<1> QED BY <1>4, <1>5 DEF ChunkInv

LEMMA ChunkBeginsNext ==
  ASSUME NEW t \in Seq(Char), ChunkNext(t)
  PROVE  ChunkInv'
<1>1. text' = t /\ start' = 0 /\ chunks' = <<>> /\ phase' \in {"slicing", "done"}
  BY DEF ChunkNext
<1>2. phase' = "done" => Len(text') = 0
  BY DEF ChunkNext
<1>3. Len(text') \in Nat
  BY <1>1
<1>4. ChunkTypeOK'
  BY <1>1, <1>3 DEF ChunkTypeOK
<1>5. \A i \in Offset' : ~(i < start') /\ phase' # "done"
  BY <1>1, <1>2, <1>3 DEF Offset
<1> QED BY <1>4, <1>5 DEF ChunkInv

LEMMA SliceKeepsInv ==
  ASSUME ChunkInv, Slice
  PROVE  ChunkInv' /\ (phase' = "slicing" => start' > start)
<1> USE DEF ChunkInv
<1>1. PICK e \in 0 .. Len(text) :
        /\ IsEnd(e)
        /\ chunks' = IF Strip(start, e) = {} THEN chunks
                     ELSE Append(chunks, Strip(start, e))
        /\ \/ e >= Len(text) /\ phase' = "done" /\ UNCHANGED start
           \/ e < Len(text) /\ start' = NextStart(e) /\ UNCHANGED phase
  BY DEF Slice
<1>2. /\ phase = "slicing" /\ start < Len(text) /\ text' = text
      /\ start \in Nat /\ Len(text) \in Nat /\ e \in Int /\ Overlap \in Nat
      /\ chunks \in Seq(SUBSET Offset)
  BY TextChunksAssumption DEF Slice, ChunkTypeOK
<1>3. start < e /\ (e < Len(text) => NextStart(e) \in start + 1 .. Len(text))
  BY <1>1, <1>2, EndBounds
<1>4. ChunkTypeOK'
  <2>1. ASSUME NEW i \in Strip(start, e) PROVE i \in Offset
    BY <1>1, <1>2, <2>1 DEF Strip, Offset
  <2>2. chunks' \in Seq(SUBSET Offset)
    BY <1>1, <1>2, <2>1
  <2>3. start' \in 0 .. Len(text) /\ phase' \in {"slicing", "done"}
    BY <1>1, <1>2, <1>3
  <2> QED BY <1>2, <2>2, <2>3 DEF ChunkTypeOK, Offset
<1>5. ASSUME NEW i \in Offset', NEW n \in 1 .. Overlap + 1,
             i < start' \/ phase' = "done",
             i + n <= Len(text'), Strip(i, i + n)' # {}
      PROVE  Covered(i, n)'
  <2>1. /\ i \in Offset /\ i \in Int /\ n \in Int
        /\ Strip(i, i + n)' = Strip(i, i + n)
    BY <1>2 DEF Offset, Strip
  <2>2. CASE i < start
    <3>1. PICK c \in DOMAIN chunks : Strip(i, i + n) \subseteq chunks[c]
      BY <1>2, <1>5, <2>1, <2>2 DEF Covered
    <3>2. c \in DOMAIN chunks' /\ chunks'[c] = chunks[c]
      BY <1>1, <1>2, <3>1
    <3> QED BY <2>1, <3>1, <3>2 DEF Covered
  <2>3. CASE ~(i < start)
    <3>1. i + n <= e
      BY <1>1, <1>2, <1>5, <2>1 DEF NextStart
    <3>2. Strip(i, i + n) \subseteq Strip(start, e)
      BY <1>2, <2>1, <2>3, <3>1, StripMonotone
    <3>3. chunks' = Append(chunks, Strip(start, e))
      BY <1>1, <1>5, <2>1, <3>2
    <3>4. /\ Len(chunks) + 1 \in DOMAIN chunks'
          /\ chunks'[Len(chunks) + 1] = Strip(start, e)
      BY <1>2, <3>3
    <3> QED BY <2>1, <3>2, <3>4 DEF Covered
  <2> QED BY <2>2, <2>3
<1>6. phase' = "slicing" => start' > start
  BY <1>1, <1>2, <1>3
<1> QED BY <1>4, <1>5, <1>6

LEMMA ChunkStutter == ASSUME ChunkInv, UNCHANGED tvars PROVE ChunkInv'
<1> USE DEF tvars
<1>1. ChunkTypeOK'
  BY DEF ChunkInv, ChunkTypeOK, Offset
<1>2. ASSUME NEW i \in Offset', NEW n \in 1 .. Overlap + 1,
             i < start' \/ phase' = "done",
             i + n <= Len(text'), Strip(i, i + n)' # {}
      PROVE  Covered(i, n)'
  <2>1. i \in Offset /\ Strip(i, i + n)' = Strip(i, i + n)
    BY <1>2 DEF Offset, Strip
  <2>2. Covered(i, n)
    BY <1>2, <2>1 DEF ChunkInv
  <2> QED BY <2>1, <2>2 DEF Covered
<1> QED BY <1>1, <1>2 DEF ChunkInv

LEMMA InvPassages == ChunkInv => PassagesWhole
BY DEF ChunkInv, Covered, PassagesWhole

-----------------------------------------------------------------------------
(* Type correctness of Assistant, with what the place of a request says    *)
(* about what it asks.                                                     *)

AskInv ==
  \A r \in Request :
    /\ at[r] = "idle" => ask[r] = None /\ reply[r] = 0
    /\ at[r] # "idle" => ask[r] \in Question
    /\ at[r] = "history" => ask[r].kind = "summary"
    /\ at[r] \in {"embed", "search"} => ask[r].kind # "summary"

TypeInv == TypeOK /\ ChunkInv /\ AskInv

LEMMA InitType == Init => TypeInv
<1> SUFFICES ASSUME Init PROVE TypeInv
  OBVIOUS
<1>1. <<>> \in Seq(Char) /\ Chunk(<<>>)
  BY DEF Init
<1>2. ChunkInv
  BY <1>1, ChunkBegins
<1>3. ChunkTypeOK
  BY <1>2 DEF ChunkInv
<1> QED BY <1>2, <1>3, AssistantAssumption DEF Init, TypeInv, TypeOK, AskInv

LEMMA WorkerType ==
  ASSUME TypeInv, Worker
  PROVE  TypeInv'
<1> USE AssistantAssumption DEF TypeInv, note, handler, requests, tvars
<1>1. AskInv'
  <2>1. UNCHANGED requests
    BY DEF Worker, TakeTask, SliceText, EmbedChunk, ReplaceChunks
  <2> QED BY <2>1 DEF AskInv
<1>2. ASSUME NEW n \in Note, TakeTask(n) PROVE TypeInv'
  <2>1. content[n] \in Seq(Char)
    BY DEF TypeOK
  <2>2. ChunkInv'
    BY <1>2, <2>1, ChunkBeginsNext DEF TakeTask
  <2>3. ChunkTypeOK'
    BY <2>2 DEF ChunkInv
  <2>4. TypeOK'
    BY <1>2, <2>3 DEF TakeTask, TypeOK
  <2> QED BY <1>1, <2>2, <2>4
<1>3. CASE SliceText
  <2>1. ChunkInv'
    BY <1>3, SliceKeepsInv DEF SliceText
  <2>2. ChunkTypeOK'
    BY <2>1 DEF ChunkInv
  <2>3. TypeOK'
    BY <1>3, <2>2 DEF SliceText, TypeOK
  <2> QED BY <1>1, <2>1, <2>3
<1>4. CASE EmbedChunk
  <2>1. ChunkInv'
    BY <1>4, ChunkStutter DEF EmbedChunk
  <2>2. ChunkTypeOK'
    BY <2>1 DEF ChunkInv
  <2>3. outages' \in 0 .. MaxOutages /\ vectors' \in Seq(Space)
    BY <1>4 DEF EmbedChunk, Embedded, TypeOK
  <2>4. TypeOK'
    BY <1>4, <2>2, <2>3 DEF EmbedChunk, TypeOK
  <2> QED BY <1>1, <2>1, <2>4
<1>5. CASE ReplaceChunks
  <2>1. ChunkInv'
    BY <1>5, ChunkStutter DEF ReplaceChunks
  <2>2. ChunkTypeOK'
    BY <2>1 DEF ChunkInv
  <2>3. \A i \in DOMAIN Parts : Parts[i] \in SUBSET Nat /\ vectors[i] \in Space
    <3>1. chunks \in Seq(SUBSET Nat)
      BY DEF TypeOK, ChunkTypeOK, Offset
    <3>2. Parts \in Seq(SUBSET Nat)
      <4>1. {} \in SUBSET Nat
        OBVIOUS
      <4>2. <<{}>> \in Seq(SUBSET Nat)
        BY <4>1
      <4> QED BY <3>1, <4>2 DEF Parts
    <3>3. vectors \in Seq(Space) /\ Len(vectors) = Len(Parts)
      BY <1>5 DEF ReplaceChunks, TypeOK
    <3> QED BY <3>2, <3>3
  <2>4. index' \subseteq Row
    BY <1>5, <2>3 DEF ReplaceChunks, TypeOK, Row
  <2>5. TypeOK'
    BY <1>5, <2>2, <2>4 DEF ReplaceChunks, TypeOK
  <2> QED BY <1>1, <2>1, <2>5
<1> QED BY <1>2, <1>3, <1>4, <1>5 DEF Worker

\* What the sources of a request and its transcript may become.
LEMMA HistoryType ==
  ASSUME TypeInv, NEW r \in Request, ReadHistory(r)
  PROVE  \E last \in heard[r] .. MaxMessages :
           LET new == transcript'[r] IN
           /\ transcript' = [transcript EXCEPT ![r] = new]
           /\ new \in Seq(Nat) /\ Len(new) <= ask[r].limit
           /\ {new[i] : i \in DOMAIN new} = {m \in 1 .. last : m > last - ask[r].limit}
<1>1. PICK last \in heard[r] .. MaxMessages :
        LET lines == History(last, ask[r].limit)
        IN  transcript' = [transcript EXCEPT ![r] =
              [i \in DOMAIN lines |-> lines[Len(lines) + 1 - i]]]
  BY DEF ReadHistory
<1> DEFINE limit == ask[r].limit
           lines == History(last, limit)
           new == [i \in DOMAIN lines |-> lines[Len(lines) + 1 - i]]
           count == IF last < limit THEN last ELSE limit
<1>2. limit \in Nat \ {0} /\ last \in Nat
  <2>1. ask[r] \in Question
    BY DEF TypeInv, AskInv, ReadHistory
  <2>2. ask[r] \in Query
    BY <2>1, AssistantAssumption
  <2>3. heard[r] \in Nat
    BY DEF TypeInv, TypeOK
  <2> QED BY <2>2, <2>3, AssistantAssumption DEF Query
<1>3. transcript' = [transcript EXCEPT ![r] = new] /\ transcript'[r] = new
  BY <1>1 DEF TypeInv, TypeOK
<1> HIDE DEF limit
<1>4. /\ count \in Nat /\ count <= limit /\ count <= last
      /\ lines = [i \in 1 .. count |-> last - count + i]
  BY <1>2 DEF History
<1>5. lines \in Seq(Nat) /\ Len(lines) = count /\ DOMAIN lines = 1 .. count
  BY <1>2, <1>4
<1>6. \A i \in 1 .. count : new[i] = last + 1 - i
  BY <1>2, <1>4, <1>5
<1>7. new \in Seq(Nat) /\ Len(new) = count /\ DOMAIN new = 1 .. count
  BY <1>2, <1>4, <1>5, <1>6
<1>8. {new[i] : i \in DOMAIN new} = {m \in 1 .. last : m > last - limit}
  <2> HIDE DEF new
  <2>1. ASSUME NEW i \in 1 .. count PROVE new[i] \in 1 .. last /\ new[i] > last - limit
    BY <1>2, <1>4, <1>6
  <2>2. ASSUME NEW m \in 1 .. last, m > last - limit
        PROVE  last + 1 - m \in 1 .. count /\ new[last + 1 - m] = m
    BY <1>2, <1>4, <1>6, <2>2
  <2> QED BY <1>7, <2>1, <2>2
<1>9. Len(new) <= limit
  BY <1>4, <1>7
<1> HIDE DEF new
<1> QED BY <1>3, <1>7, <1>8, <1>9 DEF limit

LEMMA EndpointType ==
  ASSUME TypeInv, NEW r \in Request, Ask(r) \/ Endpoint(r)
  PROVE  TypeInv'
<1> USE AssistantAssumption DEF TypeInv, note, handler, requests, tvars
<1>1. UNCHANGED <<note, handler>>
  BY DEF Endpoint, Ask, Gate, EmbedQuery, Search, ReadHistory, Complete
<1>2. ChunkInv' /\ ChunkTypeOK'
  <2>1. ChunkInv'
    BY <1>1, ChunkStutter
  <2> QED BY <2>1 DEF ChunkInv
<1>3. CASE Ask(r)
  <2>1. {row.note : row \in index} \subseteq Note
    BY DEF TypeOK, Row
  <2> QED BY <1>1, <1>2, <1>3, <2>1 DEF Ask, Goto, TypeOK, AskInv
<1>4. ASSUME UNCHANGED <<ask, heard>>,
             sources' \in [Request -> SUBSET Row],
             transcript' \in [Request -> Seq(Nat)], outages' \in 0 .. MaxOutages,
             at[r] # "idle",
             NEW place \in {"embed", "search", "history", "complete", "answered"},
             at' = [at EXCEPT ![r] = place],
             place = "history" => ask[r].kind = "summary",
             place \in {"embed", "search"} => ask[r].kind # "summary",
             NEW code \in {0, 200, 403, 404}, reply' = [reply EXCEPT ![r] = code]
      PROVE  TypeInv'
  <2>1. TypeOK'
    BY <1>1, <1>2, <1>4 DEF TypeOK
  <2>2. ASSUME NEW q \in Request
        PROVE  /\ at'[q] = "idle" => ask'[q] = None /\ reply'[q] = 0
               /\ at'[q] # "idle" => ask'[q] \in Question
               /\ at'[q] = "history" => ask'[q].kind = "summary"
               /\ at'[q] \in {"embed", "search"} => ask'[q].kind # "summary"
    <3>1. CASE q = r
      BY <1>4, <3>1 DEF TypeOK, AskInv
    <3>2. CASE q # r
      <4>1. at'[q] = at[q] /\ ask'[q] = ask[q] /\ reply'[q] = reply[q]
        BY <1>4, <3>2 DEF TypeOK
      <4> QED BY <4>1 DEF AskInv
    <3> QED BY <3>1, <3>2
  <2> QED BY <1>2, <2>1, <2>2 DEF AskInv
<1>5. reply = [reply EXCEPT ![r] = reply[r]] /\ reply[r] \in {0, 200, 403, 404}
  BY DEF TypeOK
<1>6. CASE Gate(r)
  <2> USE DEF Gate, Goto, Respond
  <2>1. /\ UNCHANGED <<ask, heard, sources, transcript, outages>>
        /\ at[r] # "idle"
        /\ sources' \in [Request -> SUBSET Row]
        /\ transcript' \in [Request -> Seq(Nat)] /\ outages' \in 0 .. MaxOutages
    BY <1>6 DEF TypeOK
  <2>2. CASE at' = [at EXCEPT ![r] = "answered"] /\ reply' = [reply EXCEPT ![r] = 404]
    BY <1>4, <2>1, <2>2
  <2>3. CASE at' = [at EXCEPT ![r] = "answered"] /\ reply' = [reply EXCEPT ![r] = 403]
    BY <1>4, <2>1, <2>3
  <2>4. CASE /\ ask[r].kind = "summary" /\ at' = [at EXCEPT ![r] = "history"]
             /\ UNCHANGED reply
    BY <1>4, <1>5, <2>1, <2>4
  <2>5. CASE /\ ask[r].kind # "summary" /\ at' = [at EXCEPT ![r] = "embed"]
             /\ UNCHANGED reply
    BY <1>4, <1>5, <2>1, <2>5
  <2> QED BY <1>6, <2>2, <2>3, <2>4, <2>5
<1>7. CASE EmbedQuery(r)
  <2>1. outages' \in 0 .. MaxOutages
    BY <1>7 DEF EmbedQuery, Embedded, TypeOK
  <2>2. ask[r].kind # "summary"
    BY <1>7 DEF EmbedQuery, AskInv
  <2> QED BY <1>4, <1>5, <1>7, <2>1, <2>2 DEF EmbedQuery, Goto, TypeOK
<1>8. CASE Search(r)
  <2>1. /\ sources' \in [Request -> SUBSET Row] /\ at[r] # "idle"
        /\ UNCHANGED <<ask, heard, transcript, outages>>
    BY <1>8 DEF Search, TypeOK
  <2>2. CASE at' = [at EXCEPT ![r] = "answered"] /\ reply' = [reply EXCEPT ![r] = 200]
    BY <1>4, <2>1, <2>2 DEF TypeOK
  <2>3. CASE at' = [at EXCEPT ![r] = "complete"] /\ UNCHANGED reply
    BY <1>4, <1>5, <2>1, <2>3 DEF TypeOK
  <2> QED BY <1>8, <2>2, <2>3 DEF Search, Goto, Respond
<1>9. CASE ReadHistory(r)
  <2>1. transcript' \in [Request -> Seq(Nat)]
    <3>1. PICK new \in Seq(Nat) : transcript' = [transcript EXCEPT ![r] = new]
      BY <1>9, HistoryType
    <3> QED BY <3>1 DEF TypeOK
  <2>2. at[r] # "idle" /\ UNCHANGED <<ask, heard, sources, outages>>
    BY <1>9 DEF ReadHistory
  <2>3. CASE at' = [at EXCEPT ![r] = "answered"] /\ reply' = [reply EXCEPT ![r] = 200]
    BY <1>4, <2>1, <2>2, <2>3 DEF TypeOK
  <2>4. CASE at' = [at EXCEPT ![r] = "complete"] /\ UNCHANGED reply
    BY <1>4, <1>5, <2>1, <2>2, <2>4 DEF TypeOK
  <2> QED BY <1>9, <2>3, <2>4 DEF ReadHistory, Goto, Respond
<1>10. CASE Complete(r)
  <2>1. outages' \in 0 .. MaxOutages
    BY <1>10 DEF Complete, TypeOK
  <2> QED BY <1>4, <1>10, <2>1 DEF Complete, Goto, Respond, TypeOK
<1> QED BY <1>3, <1>6, <1>7, <1>8, <1>9, <1>10 DEF Endpoint

LEMMA NextType == TypeInv /\ [Next]_vars => TypeInv'
<1> SUFFICES ASSUME TypeInv, [Next]_vars PROVE TypeInv'
  OBVIOUS
<1>1. CASE UNCHANGED vars
  <2>1. ChunkInv'
    BY <1>1, ChunkStutter DEF TypeInv, vars, handler
  <2> QED BY <1>1, <2>1 DEF TypeInv, TypeOK, ChunkInv, AskInv, vars, note, handler, requests
<1> QED BY <1>1, WorkerType, EndpointType DEF Next

-----------------------------------------------------------------------------
(* Summaries.                                                              *)

IsRecent(lines, count, limit) ==
  \E last \in count .. MaxMessages :
    /\ {lines[i] : i \in DOMAIN lines} = {m \in 1 .. last : m > last - limit}
    /\ Len(lines) <= limit

Latest(r) == IsRecent(transcript[r], heard[r], ask[r].limit)

SummaryInv ==
  \A r \in Request :
    /\ reply[r] # 0 => at[r] = "answered"
    /\ (at[r] = "complete" \/ reply[r] = 200) /\ ask[r].kind = "summary" => Latest(r)

LEMMA SummaryStep ==
  TypeInv /\ SummaryInv /\ [Next]_vars => SummaryInv'
<1> SUFFICES ASSUME TypeInv, SummaryInv, [Next]_vars PROVE SummaryInv'
  OBVIOUS
<1>1. CASE UNCHANGED requests
  BY <1>1 DEF SummaryInv, Latest, requests
<1>2. ASSUME NEW r \in Request, Ask(r) \/ Endpoint(r) PROVE SummaryInv'
  <2>1. ASSUME NEW q \in Request, q # r
        PROVE  /\ reply'[q] # 0 => at'[q] = "answered"
               /\ (at'[q] = "complete" \/ reply'[q] = 200) /\ ask'[q].kind = "summary"
                    => Latest(q)'
    <3>1. /\ at'[q] = at[q] /\ ask'[q] = ask[q] /\ reply'[q] = reply[q]
          /\ heard'[q] = heard[q]
      BY <1>2, <2>1 DEF Ask, Endpoint, Gate, EmbedQuery, Search, ReadHistory, Complete,
                        Goto, Respond, TypeInv, TypeOK
    <3>2. transcript'[q] = transcript[q]
      BY <1>2, <2>1 DEF Ask, Endpoint, Gate, EmbedQuery, Search, ReadHistory, Complete,
                        TypeInv, TypeOK
    <3> QED BY <3>1, <3>2 DEF SummaryInv, Latest
  <2>2. ReadHistory(r) => IsRecent(transcript'[r], heard[r], ask[r].limit)
    BY HistoryType DEF IsRecent
  <2>3. /\ reply'[r] # 0 => at'[r] = "answered"
        /\ (at'[r] = "complete" \/ reply'[r] = 200) /\ ask'[r].kind = "summary"
             => Latest(r)'
    <3> USE DEF Goto, Respond, TypeInv, TypeOK, SummaryInv
    <3>1. CASE Ask(r)
      BY <3>1 DEF Ask, AskInv
    <3>2. CASE Gate(r)
      BY <3>2 DEF Gate
    <3>3. CASE EmbedQuery(r)
      BY <3>3 DEF EmbedQuery
    <3>4. CASE Search(r)
      BY <3>4 DEF Search, AskInv
    <3>5. CASE ReadHistory(r)
      <4>1. ask' = ask /\ heard' = heard
        BY <3>5 DEF ReadHistory
      <4>2. Latest(r)'
        BY <2>2, <3>5, <4>1 DEF Latest
      <4>3. reply'[r] # 0 => at'[r] = "answered"
        BY <3>5 DEF ReadHistory
      <4> QED BY <4>2, <4>3
    <3>6. CASE Complete(r)
      <4>1. UNCHANGED <<ask, heard, transcript>> /\ at'[r] = "answered"
        BY <3>6 DEF Complete
      <4>2. ask[r].kind = "summary" => Latest(r)
        BY <3>6 DEF Complete
      <4> QED BY <4>1, <4>2 DEF Latest
    <3> QED BY <1>2, <3>1, <3>2, <3>3, <3>4, <3>5, <3>6 DEF Endpoint
  <2> QED BY <2>1, <2>3 DEF SummaryInv
<1>3. Worker => UNCHANGED requests
  BY DEF Worker, TakeTask, SliceText, EmbedChunk, ReplaceChunks
<1> QED BY <1>1, <1>2, <1>3 DEF Next, vars

-----------------------------------------------------------------------------
(* The index.  A note that is out of the queue has every word of its text  *)
(* in one of its rows; one that is not has no rows yet.                    *)

\* The characters from offset i to offset j of a text are a short word.
Word(t, i, j) ==
  /\ i \in 0 .. Len(t) - 1 /\ j \in 0 .. Len(t) - 1
  /\ i <= j /\ j - i <= Overlap /\ \A k \in i .. j : t[k + 1] \notin Blank

IndexInv ==
  /\ \A row \in index : row.note \notin jobs
  /\ \A n \in task : text = content[n]
  /\ \A n \in Note \ jobs : \A i, j \in Int : Word(content[n], i, j) =>
       \E row \in index : row.note = n /\ i .. j \subseteq row.part

\* A word has no blanks, so it is a passage as it stands.
LEMMA WordInChunk ==
  ASSUME ChunkInv, phase = "done", NEW i \in Int, NEW j \in Int, Word(text, i, j)
  PROVE  \E c \in DOMAIN chunks : i .. j \subseteq chunks[c]
<1> DEFINE n == j - i + 1
<1>1. text \in Seq(Char) /\ Len(text) \in Nat /\ Overlap \in Nat
  BY TextChunksAssumption DEF ChunkInv, ChunkTypeOK
<1>2. /\ i \in Offset /\ n \in 1 .. Overlap + 1 /\ i + n <= Len(text)
      /\ i + n - 1 = j
  BY <1>1 DEF Word, Offset
<1>3. i .. j \subseteq Strip(i, i + n)
  BY <1>1, <1>2 DEF Strip, Word
<1>4. Strip(i, i + n) # {}
  <2>1. i \in i .. j
    BY <1>1 DEF Word
  <2> QED BY <1>3, <2>1
<1>5. Covered(i, n)
  BY <1>2, <1>4 DEF ChunkInv
<1> QED BY <1>3, <1>5 DEF Covered

LEMMA ReplaceIndex ==
  ASSUME TypeInv, IndexInv, ReplaceChunks
  PROVE  IndexInv'
<1> DEFINE new == {[note |-> n, part |-> Parts[i], space |-> vectors[i]] :
                     n \in task, i \in DOMAIN Parts}
<1>1. /\ index' = index \cup new /\ jobs' = jobs \ task /\ task' = {}
      /\ UNCHANGED <<content, text, chunks>>
  <2>1. {row \in index : row.note \notin task} = index
    BY DEF IndexInv, TypeInv, TypeOK
  <2> QED BY <2>1 DEF ReplaceChunks, note, requests, tvars
<1>2. PICK n \in task : task = {n}
  <2>1. task # {} /\ \A m, n \in task : m = n
    BY DEF ReplaceChunks, TypeInv, TypeOK
  <2> QED BY <2>1
<1>3. n \in jobs /\ n \in Note /\ text = content[n] /\ phase = "done"
  BY <1>2 DEF TypeInv, TypeOK, IndexInv, ReplaceChunks
<1>4. \A row \in index' : row.note \notin jobs'
  BY <1>1, <1>2 DEF IndexInv
<1>5. ASSUME NEW i \in Int, NEW j \in Int, Word(content[n], i, j)
      PROVE  \E row \in index' : row.note = n /\ i .. j \subseteq row.part
  <2>1. PICK c \in DOMAIN chunks : i .. j \subseteq chunks[c]
    BY <1>3, <1>5, WordInChunk DEF TypeInv
  <2>2. Parts = chunks
    BY <2>1 DEF Parts
  <2>3. [note |-> n, part |-> Parts[c], space |-> vectors[c]] \in index'
    BY <1>1, <1>2, <2>1, <2>2
  <2> QED BY <2>1, <2>2, <2>3
<1>6. ASSUME NEW m \in Note \ jobs', NEW i \in Int, NEW j \in Int, Word(content'[m], i, j)
      PROVE  \E row \in index' : row.note = m /\ i .. j \subseteq row.part
  <2>1. CASE m = n
    BY <1>1, <1>5, <1>6, <2>1
  <2>2. CASE m # n
    <3>1. PICK row \in index : row.note = m /\ i .. j \subseteq row.part
      BY <1>1, <1>2, <1>6, <2>2 DEF IndexInv
    <3> QED BY <1>1, <3>1
  <2> QED BY <2>1, <2>2
<1>7. \A m \in task' : text' = content'[m]
  BY <1>1
<1> QED BY <1>4, <1>6, <1>7 DEF IndexInv, Word

LEMMA IndexStep ==
  TypeInv /\ IndexInv /\ [Next]_vars => IndexInv'
<1> SUFFICES ASSUME TypeInv, IndexInv, [Next]_vars PROVE IndexInv'
  OBVIOUS
<1> USE DEF note, handler, requests, tvars
<1>1. ASSUME UNCHANGED <<content, index, jobs>>, \A n \in task' : text' = content[n]
      PROVE  IndexInv'
  BY <1>1 DEF IndexInv, Word
<1>2. CASE UNCHANGED vars
  BY <1>1, <1>2 DEF vars, IndexInv
<1>3. ASSUME NEW n \in Note, TakeTask(n) PROVE IndexInv'
  BY <1>1, <1>3 DEF TakeTask, ChunkNext, IndexInv
<1>4. CASE SliceText
  BY <1>1, <1>4 DEF SliceText, Slice, IndexInv
<1>5. CASE EmbedChunk
  BY <1>1, <1>5 DEF EmbedChunk, IndexInv
<1>6. CASE ReplaceChunks
  BY <1>6, ReplaceIndex
<1>7. ASSUME NEW r \in Request, Ask(r) \/ Endpoint(r) PROVE IndexInv'
  <2>1. UNCHANGED <<content, index, jobs, task, text>>
    BY <1>7 DEF Ask, Endpoint, Gate, EmbedQuery, Search, ReadHistory, Complete
  <2> QED BY <1>1, <2>1 DEF IndexInv
<1> QED BY <1>2, <1>3, <1>4, <1>5, <1>6, <1>7 DEF Next, Worker

-----------------------------------------------------------------------------
\* The offsets of the loop stay within the text.
THEOREM ChunkTypeCorrect == ChunkSpec => []ChunkTypeOK
<1>1. ChunkInit => ChunkInv
  BY ChunkBegins DEF ChunkInit
<1>2. ChunkInv /\ [Slice]_tvars => ChunkInv'
  BY SliceKeepsInv, ChunkStutter
<1>3. ChunkInv => ChunkTypeOK
  BY DEF ChunkInv
<1> QED BY <1>1, <1>2, <1>3, PTL DEF ChunkSpec

\* chunk_text tears no passage of up to overlap + 1 characters, wherever it
\* finds its boundaries.
THEOREM PassagesStayWhole == ChunkSpec => []PassagesWhole
<1>1. ChunkInit => ChunkInv
  BY ChunkBegins DEF ChunkInit
<1>2. ChunkInv /\ [Slice]_tvars => ChunkInv'
  BY SliceKeepsInv, ChunkStutter
<1> QED BY <1>1, <1>2, InvPassages, PTL DEF ChunkSpec

\* Every pass of the loop begins behind the one before: it comes to an end.
THEOREM LoopAdvances == ChunkSpec => Advances
<1>1. ChunkInit => ChunkInv
  BY ChunkBegins DEF ChunkInit
<1>2. ChunkInv /\ [Slice]_tvars => ChunkInv'
  BY SliceKeepsInv, ChunkStutter
<1>3. ChunkInv /\ [Slice]_tvars =>
        [phase' = "slicing" => start' > start \/ UNCHANGED tvars]_tvars
  BY SliceKeepsInv
<1> QED BY <1>1, <1>2, <1>3, PTL DEF ChunkSpec, Advances

-----------------------------------------------------------------------------
AssistantInv == TypeInv /\ SummaryInv /\ IndexInv

LEMMA AssistantInit == Init => AssistantInv
<1> SUFFICES ASSUME Init PROVE AssistantInv
  OBVIOUS
<1> QED BY InitType DEF Init, AssistantInv, SummaryInv, IndexInv

LEMMA AssistantNext == AssistantInv /\ [Next]_vars => AssistantInv'
BY NextType, SummaryStep, IndexStep DEF AssistantInv

\* The variables of Assistant keep their types.
THEOREM AssistantTypeCorrect == Spec => []TypeOK
<1>1. AssistantInv => TypeOK
  BY DEF AssistantInv, TypeInv
<1> QED BY <1>1, AssistantInit, AssistantNext, PTL DEF Spec

\* While the worker indexes one note after the other, no passage is torn.
THEOREM WorkerKeepsPassages == Spec => []PassagesWhole
<1>1. AssistantInv => PassagesWhole
  BY InvPassages DEF AssistantInv, TypeInv
<1> QED BY <1>1, AssistantInit, AssistantNext, PTL DEF Spec

\* Every note with rows has all of its words in them, for every text, size,
\* overlap and list of separators, whatever the embedding service answers.
THEOREM EveryWordIsIndexed == Spec => []WordsAreIndexed
<1>1. AssistantInv => WordsAreIndexed
  <2> SUFFICES ASSUME AssistantInv, NEW n \in {row.note : row \in index},
                      NEW i \in 0 .. Len(content[n]) - 1, NEW j \in 0 .. Len(content[n]) - 1,
                      i <= j, j - i <= Overlap, \A k \in i .. j : content[n][k + 1] \notin Blank
               PROVE  \E row \in index : row.note = n /\ i .. j \subseteq row.part
    BY DEF WordsAreIndexed
  <2>1. n \in Note \ jobs
    BY DEF AssistantInv, IndexInv, TypeInv, TypeOK, Row
  <2>2. i \in Int /\ j \in Int /\ Word(content[n], i, j)
    BY DEF Word
  <2> QED BY <2>1, <2>2 DEF AssistantInv, IndexInv
<1> QED BY <1>1, AssistantInit, AssistantNext, PTL DEF Spec

\* Summaries are made of the latest messages.
THEOREM SummariesAreRecent == Spec => []SummaryHasTheLatest
<1>1. AssistantInv => SummaryHasTheLatest
  BY DEF AssistantInv, SummaryInv, Latest, IsRecent, SummaryHasTheLatest
<1> QED BY <1>1, AssistantInit, AssistantNext, PTL DEF Spec
=============================================================================
