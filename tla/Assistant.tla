----------------------------- MODULE Assistant -----------------------------
(***************************************************************************)
(* From a note's text to an answer: the worker's handler cuts the text     *)
(* (TextChunks), asks the embedding service for a vector per chunk and     *)
(* replaces the note's rows; the endpoints of ai.py search these rows,     *)
(* answer questions from them, and summarise the chat of a room.  One      *)
(* action is one pass of the loop, one call of the AI service, or one      *)
(* statement.                                                              *)
(*                                                                         *)
(* Abstractions.  The texts do not change (NoteIndex edits and deletes     *)
(* notes and lets handlers fail).  Of a vector only the space it lies in   *)
(* is kept, the model's or that of the word hashes the service falls back  *)
(* to, and nothing of the query's: the vectors are in an approximate index *)
(* whose answer is filtered by the workspace, so that any rows of the      *)
(* workspace may come, and fewer than asked for.  Of a completion only     *)
(* what it is given is kept.  The room's messages are numbered, and        *)
(* counted when a request comes and when it reads them.                    *)
(***************************************************************************)
EXTENDS TextChunks, FiniteSets

CONSTANTS
  Note, Request,
  Home,         \* the notes of the workspace that is asked about
  Contents,     \* the texts the notes may have
  Question,     \* what a request may ask
  MaxMessages,  \* bound on the messages of the room
  MaxOutages    \* bound on calls of the AI service that fail

VARIABLES
  content,     \* the text of each note
  online,      \* whether an API key is configured
  jobs,        \* notes with an embedding task in the queue
  task,        \* the notes whose handler is running: one or none
  vectors,     \* the spaces of the chunks embedded so far
  index,       \* the rows of note_chunks
  ask, at,     \* what each request asks and where its handler is
  sources,     \* the rows it has found
  transcript,  \* the messages it has put into the prompt
  reply,       \* its status code
  heard,       \* history: the messages there were when it came
  outages

note     == <<content, online>>
handler  == <<jobs, task, vectors, index, tvars>>
requests == <<ask, at, sources, transcript, reply, heard>>
vars     == <<note, handler, requests, outages>>

Space == {"model", "hashes"}
Query == [kind : {"search", "rag"}, member : BOOLEAN, limit : Nat \ {0}]
           \cup [kind : {"summary"}, room : BOOLEAN, member : BOOLEAN,
                 limit : Nat \ {0}]
Row   == [note : Note, part : SUBSET Nat, space : Space]
None  == [kind |-> "none"]

\* The request schemas have limit >= 1.
ASSUME AssistantAssumption ==
  /\ Home \subseteq Note /\ Contents \subseteq [Note -> Seq(Char)]
  /\ Question \subseteq Query
  /\ MaxMessages \in Nat /\ MaxOutages \in Nat

Init ==
  /\ content \in Contents /\ online \in BOOLEAN
  /\ jobs = Note /\ task = {} /\ vectors = <<>> /\ index = {}
  /\ Chunk(<<>>)
  /\ outages = 0
  /\ ask = [r \in Request |-> None] /\ at = [r \in Request |-> "idle"]
  /\ sources = [r \in Request |-> {}]
  /\ transcript = [r \in Request |-> <<>>] /\ reply = [r \in Request |-> 0]
  /\ heard = [r \in Request |-> 0]
-----------------------------------------------------------------------------
\* generate_embedding: without a key, or when the call fails or takes more
\* than ten seconds, the words are hashed.
Embedded(s) ==
  \/ s = (IF online THEN "model" ELSE "hashes") /\ UNCHANGED outages
  \/ online /\ s = "hashes" /\ outages < MaxOutages /\ outages' = outages + 1

(* generate_note_embeddings                                                *)

TakeTask(n) ==
  /\ n \in jobs /\ task = {} /\ task' = {n}
  /\ ChunkNext(content[n]) /\ vectors' = <<>>
  /\ UNCHANGED <<note, jobs, index, requests, outages>>

SliceText ==
  /\ task # {} /\ Slice
  /\ UNCHANGED <<note, jobs, task, vectors, index, requests, outages>>

\* Variant: a note without a body gets no chunk.
PartsOfText == chunks

\* A note without a body gets one chunk that says so.
Parts == IF chunks = <<>> THEN <<{}>> ELSE chunks

EmbedChunk ==
  /\ task # {} /\ phase = "done" /\ Len(vectors) < Len(Parts)
  /\ \E s \in Space : Embedded(s) /\ vectors' = Append(vectors, s)
  /\ UNCHANGED <<note, jobs, task, index, tvars, requests>>

\* Variant: only the last chunk is added to the session.
ReplaceChunksLast ==
  /\ task # {} /\ phase = "done" /\ Len(vectors) = Len(Parts)
  /\ index' = {row \in index : row.note \notin task}
       \cup {[note |-> n, part |-> Parts[Len(Parts)],
              space |-> vectors[Len(Parts)]] : n \in task}
  /\ jobs' = jobs \ task /\ task' = {}
  /\ UNCHANGED <<note, vectors, tvars, requests, outages>>

\* The old rows are wiped and the new ones inserted in one transaction.
ReplaceChunks ==
  /\ task # {} /\ phase = "done" /\ Len(vectors) = Len(Parts)
  /\ index' = {row \in index : row.note \notin task}
       \cup {[note |-> n, part |-> Parts[i], space |-> vectors[i]] :
               n \in task, i \in DOMAIN Parts}
  /\ jobs' = jobs \ task /\ task' = {}
  /\ UNCHANGED <<note, vectors, tvars, requests, outages>>
-----------------------------------------------------------------------------
(* The endpoints.                                                          *)

Goto(r, place) == at' = [at EXCEPT ![r] = place]

Respond(r, code) == Goto(r, "answered") /\ reply' = [reply EXCEPT ![r] = code]

Ask(r) ==
  /\ at[r] = "idle" /\ Goto(r, "gate")
  /\ \E q \in Question, count \in 0 .. MaxMessages :
       /\ q.kind # "summary" => count = 0
       /\ ask' = [ask EXCEPT ![r] = q] /\ heard' = [heard EXCEPT ![r] = count]
  /\ UNCHANGED <<note, handler, sources, transcript, reply, outages>>

\* The room must exist; verify_workspace_membership.
Gate(r) ==
  /\ at[r] = "gate"
  /\ LET q == ask[r]
     IN  \/ q.kind = "summary" /\ ~q.room /\ Respond(r, 404)
         \/ (q.kind = "summary" => q.room) /\ ~q.member /\ Respond(r, 403)
         \/ /\ q.kind = "summary" /\ q.room /\ q.member /\ Goto(r, "history")
            /\ UNCHANGED reply
         \/ /\ q.kind # "summary" /\ q.member /\ Goto(r, "embed")
            /\ UNCHANGED reply
  /\ UNCHANGED <<note, handler, ask, sources, transcript, heard, outages>>

EmbedQuery(r) ==
  /\ at[r] = "embed" /\ Goto(r, "search")
  /\ \E s \in Space : Embedded(s)
  /\ UNCHANGED <<note, handler, ask, sources, transcript, reply, heard>>

\* ORDER BY embedding <=> query LIMIT limit, joined with the notes of the
\* workspace: rows of the workspace, no more than the limit.
Search(r) ==
  /\ at[r] = "search"
  /\ \E cut \in SUBSET index :
       /\ \A row \in cut : row.note \in Home
       /\ Cardinality(cut) <= ask[r].limit
       /\ sources' = [sources EXCEPT ![r] = cut]
  /\ \/ ask[r].kind = "search" /\ Respond(r, 200)
     \/ ask[r].kind = "rag" /\ Goto(r, "complete") /\ UNCHANGED reply
  /\ UNCHANGED <<note, handler, ask, transcript, heard, outages>>

\* Variant: the first messages of the room instead of the last.
HistoryFirst(messages, limit) ==
  [i \in 1 .. IF messages < limit THEN messages ELSE limit |-> i]

\* get_room_history: the last messages, oldest first.
History(messages, limit) ==
  LET count == IF messages < limit THEN messages ELSE limit
  IN  [i \in 1 .. count |-> messages - count + i]

\* An empty room is answered at once; otherwise the endpoint reverses the
\* history once more: the newest message comes first.
ReadHistory(r) ==
  /\ at[r] = "history"
  /\ \E messages \in heard[r] .. MaxMessages :
     LET lines == History(messages, ask[r].limit)
     IN  /\ transcript' = [transcript EXCEPT ![r] =
              [i \in DOMAIN lines |-> lines[Len(lines) + 1 - i]]]
         /\ \/ lines = <<>> /\ Respond(r, 200)
            \/ lines # <<>> /\ Goto(r, "complete") /\ UNCHANGED reply
  /\ UNCHANGED <<note, handler, ask, sources, heard, outages>>

\* generate_completion answers in any case: a failing call, or one of more
\* than thirty seconds, falls back to a text put together here.
Complete(r) ==
  /\ at[r] = "complete" /\ Respond(r, 200)
  /\ \/ UNCHANGED outages
     \/ online /\ outages < MaxOutages /\ outages' = outages + 1
  /\ UNCHANGED <<note, handler, ask, sources, transcript, heard>>

-----------------------------------------------------------------------------
Worker == (\E n \in Note : TakeTask(n)) \/ SliceText \/ EmbedChunk \/ ReplaceChunks

Endpoint(r) ==
  Gate(r) \/ EmbedQuery(r) \/ Search(r) \/ ReadHistory(r) \/ Complete(r)

Next == Worker \/ \E r \in Request : Ask(r) \/ Endpoint(r)

\* The worker and the server go on; calls of the AI service have a timeout.
Spec ==
  Init /\ [][Next]_vars /\ WF_vars(Worker) /\ WF_vars(\E r \in Request : Endpoint(r))
-----------------------------------------------------------------------------
TypeOK ==
  /\ content \in Contents /\ online \in BOOLEAN
  /\ jobs \subseteq Note /\ task \subseteq jobs /\ \A m, n \in task : m = n
  /\ vectors \in Seq(Space) /\ index \subseteq Row /\ ChunkTypeOK
  /\ outages \in 0 .. MaxOutages
  /\ ask \in [Request -> Question \cup {None}]
  /\ at \in [Request -> {"idle", "gate", "embed", "search", "history",
                         "complete", "answered"}]
  /\ sources \in [Request -> SUBSET Row] /\ transcript \in [Request -> Seq(Nat)]
  /\ reply \in [Request -> {0, 200, 403, 404}]
  /\ heard \in [Request -> Nat]

\* Whatever the search makes of it, the index has every word: one of up to
\* overlap + 1 characters in a note that has rows stands whole in one of them,
\* wherever the text was cut and whoever embedded the chunks.
WordsAreIndexed ==
  \A n \in {row.note : row \in index} :
    \A i, j \in 0 .. Len(content[n]) - 1 :
      /\ i <= j /\ j - i <= Overlap
      /\ \A k \in i .. j : content[n][k + 1] \notin Blank
      => \E row \in index : row.note = n /\ i .. j \subseteq row.part

\* A summary is made of the latest messages, without a gap, and of none
\* twice; at least those that were there when it was asked for.
SummaryHasTheLatest ==
  \A r \in Request :
    reply[r] = 200 /\ ask[r].kind = "summary" =>
      \E last \in heard[r] .. MaxMessages :
        /\ {transcript[r][i] : i \in DOMAIN transcript[r]}
             = {m \in 1 .. last : m > last - ask[r].limit}
        /\ Len(transcript[r]) <= ask[r].limit

\* Every request is answered and every note gets its rows, whatever the AI
\* service does.
Answered ==
  /\ \A r \in Request : (at[r] # "idle") ~> (at[r] = "answered")
  /\ \A n \in Note : <>(n \in {row.note : row \in index})
=============================================================================
