# A formal model of the collaboration platform

TLA+ modules, TLC configurations and TLAPS proofs for the platform in
`backend/app`: a FastAPI web service (`platform_web`), worker processes
(`platform_worker`), PostgreSQL with pgvector, Redis, and the browser client
that is served with it. Paths below are relative to `backend/app/` unless they
start with a directory of the repository.

- `<Name>.tla` models a component, `MC<Name>.tla` gives it finite constants,
  `<Name>_<variant>.cfg` is one run of TLC, `<Name>Proofs.tla` holds the theorems.
- `tlc -workers 2 -config NoteIndex_single.cfg MCNoteIndex` repeats a run,
  `tlapm NoteIndexProofs.tla` repeats the proofs.
- `PROJECT.json` lists the components, the runs, the source lines of every
  definition, a mutation of the model that breaks each property, the hazards
  and the findings.

Contents: [1 the system](#1-the-system), [2 the modules](#2-the-modules),
[3 the runs](#3-the-runs), [4 fairness](#4-fairness),
[5 the proofs](#5-the-proofs), [6 what the code does otherwise than it
says](#6-what-the-code-does-otherwise-than-it-says),
[7 what is not modelled](#7-what-is-not-modelled), [8 plan](#8-plan).

## 1 The system

Requests enter through the routers (`api/v1/endpoints/`), which call the
services (`services/`), which use one SQLAlchemy session per request and the
repositories. Three things live longer than a request: the database, the keys of
Redis, and the loops of the processes. All concurrency is between processes, and
between the coroutines of one process at their `await`s. No code takes a lock:
what keeps two actors apart is a Redis command, a database constraint, a row lock
or nothing.

| Component | State | Operations | Interacts with |
|---|---|---|---|
| Background jobs (`workers/`) | Redis `queue:default`, `queue:delayed`, `queue:dlq`, `task:processed:{id}`; the payload in a worker's hands | enqueue, pop, claim, execute, retry, dead-letter, promote | web services enqueue; handlers write the database |
| Note requests (`services/note.py`) | `notes`, `note_tags` | create, read, update, delete, list | enqueues an embedding task after the commit |
| Semantic index (`workers/worker.py`) | `note_chunks` | `generate_note_embeddings`: read, embed, wipe, insert | driven by the job queue; read by the semantic search |
| Text chunking (`workers/worker.py`) | none | `chunk_text` | called by the handler |
| Sessions (`services/auth.py`, `core/security.py`, `api/deps.py`) | Redis `refresh_token:{user}`; the tokens in each page and in `localStorage` | sign in, refresh with rotation, log out, authorise a request | every request of the browser |
| Presence and room sockets (`websocket/`, `services/chat.py`) | Redis set of online users per workspace; a node's `active_connections`; its subscription | connect, announce, broadcast, disconnect, listen | Redis Pub/Sub between nodes; the browser's two sockets |
| Chat history (`services/chat.py`) | `chat_rooms`, `chat_messages` | persist and publish, history, summarise | the receive loop of the sockets |
| Workspaces, membership (`services/workspace.py`) | `workspaces`, `workspace_members` | create, invite, list | enqueues the invitation mail |
| Tags, registration, notifications (`repositories/note.py`, `services/user.py`, `services/notification.py`) | `tags`, `users` | look up or create; register; mail | same shape: check, insert, commit, enqueue |
| Note editor (`static/app.js`) | the form, the autosave timer, requests under way | open, edit, autosave, save, delete | note requests |
| Rest of the client (`static/app.js`) | views | render | all endpoints |
| AI services (`services/ai.py`, `api/v1/endpoints/ai.py`) | none | embed, complete; search, answer, summarise | the handler of the index; `note_chunks`, `chat_messages` |
| Job administration, health, configuration | none | calls and reads | - |

### What is hard, and what makes each part correct

**Background jobs.** A task is in one place at a time by convention only: BRPOP
takes the payload out of Redis, and every later step is a separate command that
may fail, or whose process may stop. Two schedulers may promote one member, a
retry waits in the delayed set while its idempotency key is deleted, rewritten or
expires. Correct means: a task is never lost except together with whoever held
it; it is executed at most `max_retries + 1` times; a counted retry was an
execution; a retry respects its backoff; a task has one outcome; everything
enqueued settles; the queues come to rest.

**Semantic index.** The handler reads a text, spends a long time on an HTTP
call, and then replaces rows it did not lock, while requests edit or delete the
note and other tasks of the same note are retried out of order. Correct means:
the index of a note is its current text, once; nothing deleted is ever found; an
indexed note is never seen without its chunks; a reported success is a fact; each
committed text is indexed unless its task is given up.

**Sessions.** A refresh is four steps on the server and three in the browser; the
pair it replaces is in one Redis key, in each tab's memory and in
`localStorage`. The dashboard makes several calls at a time, and each may refresh.
Correct means: refreshing logs nobody out without a cause; a logout is final;
every call comes to an end although logging out is itself a call that may refresh.

**Presence.** A user is one member of a set for any number of sockets on any
number of nodes; set and event are two commands; a page learns of others only
through events. Correct means: whoever is gone is offline, in Redis and on every
page that was told; a node's register is exactly its open sockets; whoever is
connected is online (only as long as no other socket of the user closes: section 6).

**Note editor.** Form, timer and answers are independent: the timer survives a
change of the form, an answer arrives when the form shows something else, two
saves of one note overtake each other. Correct means: a note is never overwritten
with another document, a document becomes one note, and what the form shows is
saved when everything is quiet.

**Chat.** A page reads the history of a room in one request and hears what comes
after it over a socket that it opens later; the old room's socket stays open
until then, histories are answered in any order, and every socket that closes,
also one the page has closed itself, is opened again three seconds later in
whatever room is active then. Correct means: the page shows the messages of the
room it names, all, once, in order, and sends what is typed to that room; a lost
socket is replaced as long as the page's token is valid, which nothing in the
retries sees to.

**Workspaces, memberships, tags, registration, rooms.** Requests look a key up,
insert it in a second statement, commit, and enqueue a job, each with its own
session. Between the look and the insert another request may have inserted the
same key, and then the unique index makes the second one wait and fail; two
requests that create the same two tags in opposite orders wait for each other.
Correct means: one row per key; all rows of a request or none; a mail only about
a row that is there, and exactly one; a failure only for a cause; every request
ends; and what was saved is listed under the label it was saved with.

**Text chunking, search, answers.** The loop of `chunk_text` steps back by the
overlap after every slice, from a boundary it has searched for; the handler stores
a vector per slice, of one service or of another when that fails; a search orders
the rows by distance and cuts the list.
Correct means: the loop ends; no short passage is torn apart; every word of an
indexed note stands whole in one of its rows; a summary is made of the latest
messages; every request is answered although the AI service fails.

## 2 The modules

```
TaskLifecycle  <--refines--  TaskQueueRefinement -- extends --> TaskQueue
      ^                              ^
      |                 MCTaskQueue, TaskQueueProofs
      '--- INSTANCE (its queue) --- NoteIndex <-- NoteIndexProofs, MCNoteIndex
Sessions   <-- SessionsProofs, MCSessions
Presence   <-- PresenceProofs, MCPresence
ChatRoom   <-- ChatRoomProofs, MCChatRoom
NoteEditor <-- NoteEditorProofs, MCNoteEditor
Records    <-- RecordsProofs, MCRecords
TextChunks <-- Assistant <-- AssistantProofs, MCAssistant
```

The composition is by abstract specification: the job system is shown to
implement `TaskLifecycle`, and the index uses `TaskLifecycle` as its queue. The
assistant extends the loop of `chunk_text`, which its worker runs note by note.
An operator marked "Variant" in a module is a plausible slip in the operator
after it; no specification uses it, and `PROJECT.json` names the property that
breaks when it takes the place of the real one.

### TaskQueue

One action is one Redis command or one handler execution, because every `await`
lets another process run. A payload is its task and its `retry_count`: the JSON
of two payloads is equal exactly if these are, which is what decides whether a
member of the sorted set is new. Scores are kept relative to the clock.

| Variable | Code |
|---|---|
| `queue`, `delayed` with `due`, `dlq` | `queue:default`, `queue:delayed` with its scores, `queue:dlq` |
| `lock` | `task:processed:{task_id}` |
| `pc`, `job`, `wait` | where a worker is in `_worker_loop`/`_process_task`, the payload it holds, `target_time` |
| `batch` | the members a scheduler's ZRANGEBYSCORE returned |
| `enqueued`, `runs`, `done`, `rest`, `dropped` | history |

| Action | Code |
|---|---|
| `Enqueue` | `TaskQueue.enqueue`, with and without delay |
| `Poll`, `Promote` | `_scheduler_loop`: fetch, then ZREM and LPUSH in one MULTI per member, in any order of the members |
| `Pop`, `Claim`, `Check` | BRPOP, SET NX, GET and the early returns for `in_progress` and `success` |
| `Succeed`, `Fail`, `Record` | the handler, SET `success` |
| `Unlock`, `Requeue` | DELETE of the key and ZADD of the retry: two commands |
| `Bury`, `Mark`, `Shunt` | LPUSH to the dead-letter queue and SET `failed`; the branch without a handler |
| `PromoteError`, `WorkerError` | a command raises, applied or not; `RecordError` is the one whose exception is caught as the handler's own |
| `Halt` | the process is killed or cancelled: `CancelledError` is no `Exception`, so no handler of the code catches it |
| `Expire` | the key reaches its TTL |
| `Tick` | a unit of time |

A node is what `run_worker.py` starts: one worker and one scheduler. Payloads
are well-formed; `enqueue_raw` has no caller; redis-py retries no command by
default, so a failing command raises.

### TaskLifecycle, TaskQueueRefinement

The abstract job system: a task is new, waiting, running, and then succeeded,
dead or lost for good; attempts are counted and limited. The refinement maps the
queues, locks and program counters to it: `tries` is `runs`, and the outcome
reached first decides the status. A command that fails voids the promise (`Void`):
its task may run once more than was counted, or be lost between two commands.

### NoteIndex

`Create`, `Update`, `Refresh`, `Enqueue`, `RequestError` and `Delete` are the
requests of `NoteService`, cut at their commit and at the enqueue after it: a
process may stop, and Redis may fail, in between. `Take`, `Read`, `Embed`,
`Wipe`, `Insert`, `HandlerError` and `Halt` are the handler. Transactions are
READ COMMITTED, PostgreSQL's default, which the code does not change: `Wipe`
records in `doomed` the rows a DELETE sees when it starts, `Locked` says whose
row locks make a `Delete` or another `Wipe` wait, and `Replace` commits both
statements. All chunks of one transaction are one generation, named by the text
and the task that made it. A COMMIT whose answer is lost may have been applied
(`MaybeCommitted`). `update_note` refreshes the note after its commit and fails
if it has been deleted by then, before the enqueue.

The queue is `TaskLifecycle`. That is what one node provides (run `job_single`), and
any number of nodes no two of whose schedulers fetch the same payload
(`UnsharedLifecycle`); otherwise a duplicated execution of a task acts here
as another task of the same note does, and these are present.

### Sessions

The server has the actions `Answer` (`get_current_user` and the endpoint),
`Check`, `Mint` and `Store` (the steps of `refresh_session`, the last two also of
`login_user`); the browser `SignIn`, `Browse`, `Logout`, `Reload`, and `Denied`,
`Issued`, `Refused`, `Answered`, `Failed`, `Discard` for what `apiFetch` and
`handleLogout` do with an answer. Access and refresh token of one mint are a pair,
named by the second they were minted in: the claims are the user and an `exp` cut
to whole seconds, so two pairs of one second are the same. `kind` says whether a
call is a page's, the first of a reloaded page, a logout or a sign-in; `tab` is
the page it returns to, `None` when that page has gone. `ended`, `late`,
`disturbed` and `overlapped` are history, for the causes the properties name.
The user exists and is active: nothing in the code deactivates one.

### Presence

`Connect`, `SAdd`, `Announce`, `Leave`, `SRem`, `Farewell` are the commands of
`websocket_endpoint` in their order, `Close` the client going away,
`SetupError`, `LoopError`, `TeardownError` a command that raises before, in and
after the receive loop: only what is inside the `try` reaches the clean-up.
`Deliver` is `broadcast_local`, which drops sockets that cannot be sent to;
`ListenerError`, `Resubscribe`, `ResubscribeError` are `_listen_loop`, whose
`psubscribe` is outside its `try`. `view` is `onlineUsers` of a page; `channel`
is what Redis has sent to a node and its listener has not taken. Redis Pub/Sub is
modelled as it is: order is kept per subscriber, nothing is kept for whoever is
not subscribed. `shaken` is history: the sockets whose user another socket of
theirs has taken, or is about to take, out of the set.

### ChatRoom

`Insert`, `Commit`, `Publish`, `HandlerError` are the message branch of the
receive loop at the sockets of other pages. Messages are numbered in the order
of `created_at`, which PostgreSQL takes from the start of the transaction, so
messages become visible and are published in another order than they are
numbered in. `Read` is `get_room_history`, whose result is described rather than
computed (`IsHistory`: the last messages that are committed, in ascending order);
`Select`, `Show`, `ShowNothing` are
`selectRoom` before and after its `await`, `Receive`, `Closed`, `Reconnect` the
callbacks of the socket, `Register` the accepted handshake, `Lose` a connection
that breaks. The access token of the page is valid or not (`fresh`): `Expire` ends
its 30 minutes, and `Refresh` is any `apiFetch` of the page that meets a 401 and
renews it. A handshake with an expired token (`link = "barred"`) is refused for good
(`Refuse`), its socket closes, and the retry carries the token the page has then.
`link`, `linkRoom` and `inbox` are the socket in `wsActiveRoom`;
of older ones nothing matters but that their `onclose` is still to come
(`closing`), since the browser hands over no message once `close()` was called.
`close()` without a code is reported as 1005, which is not 1000, so each of them
schedules a reconnect (`timers`). `listener` is the `RedisPubSubListener` of the node
the page's socket is on: subscribed, in the 2 s after an error (`ListenerError`), or
ended because Redis was not back when it subscribed again (`Restart`). A message
reaches the socket if that is registered and the listener subscribed (`Reached`);
messages on their way are lost with the socket or the subscription. The time a
message takes between PUBLISH and the socket counts as time before `Publish`;
Presence has the channel. `missed` collects the messages that did not reach the page
for one of these reasons, until a history holds them.

### NoteEditor

`OpenNew`, `Select`, `Type`, `AutoSave`, `SaveNow`, `Delete` are the handlers of
the page, `Serve` the endpoint's answer to a request, `Saved`, `Opened`,
`Deleted`, `Failed` what the page does when the answer comes, `Fail` a request
or an answer that is lost. What the form shows is a text: the document the user
has in mind and how often it was edited. `field` is `current-note-id`. `what` is
the purpose of a request under way: the kind of the request, the note and the text
it is about, and whether it was alone when it was sent.

### Records

A request's service is a sequence of statements (`RegisterUser`,
`CreateWorkspace`, `AddMember`, `CreateRoom`, `CreateNote`, `List`), in the code's
order; `todo` is what is left of it, and one action executes the head of one
request's sequence.

| Action | Code |
|---|---|
| `Arrive` | the endpoint calls the service with a new session |
| `Look` | the lookups by key and the refusals that hang on them: 400, 403, 404 |
| `ResolveTag` | `get_or_create_by_name`: clean the label, look it up, and, if it is not there, put an insert in front of the rest |
| `InsertRow` | `BaseRepository.create`: the flush of one row; it waits while another request has inserted the key and not committed (`Waits`), and fails when the key is there or a tag is too long for its column (`Takes`); a note goes in with its links to tags, and may fail when its list has a tag twice (`LinksTwice`) |
| `CommitRows`, `RefreshRow` | `db.commit()`, `db.refresh()` |
| `EnqueueJob` | the mail of a registration or an invitation, the embedding task of a note |
| `ReadRows` | the listings; `Matches` is their WHERE |
| `AbortVictim` | PostgreSQL ends a cycle of waiting requests by aborting one of them |
| `StatementError` | a statement fails; a COMMIT may have been applied; what is enqueued inside a `try` costs only the job |

`rows` are the committed rows, `pending` those of open transactions; sessions do
not flush by themselves (`autoflush=False`) and statements see what is committed
and their own (READ COMMITTED). A label is what its cleaning depends on: whether
it starts with `#`, whether a blank follows, and its word; `TooLong` are the names of
more than the 50 characters of `Tag.name`, which no schema bounds. `tags` is a list, as
in the code: a label that is given twice, or as "x" and "#x", puts one tag into it
twice. Whether the note's row then gets two links with one key depends on which side of
the relation SQLAlchemy's flush comes to first, which the code does not determine, so
`InsertRow` may do either. `hit` and `before` are history, for the causes the
properties name.

### TextChunks, Assistant

`TextChunks` is `chunk_text`, one action per pass of its loop (`Slice`), over texts
of characters, with the separators, the chunk size and the overlap as constants. A
chunk is the set of offsets it holds. `IsEnd` says which `end` the boundary
scanner finds, by what `rfind` returns.

`Assistant` runs this loop in the worker (`TakeTask`, `SliceText`, `EmbedChunk`,
`ReplaceChunks`) next to the endpoints of `api/v1/endpoints/ai.py`: `Ask`, `Gate`
(room and membership), `EmbedQuery`, `Search`, `ReadHistory`, `Complete`. Of a
vector the model keeps the space it lies in (`space`), since the service falls
back to hashed words when a call fails (`Embedded`). Nothing is assumed of
distances: `Search` returns any rows of the workspace, up to the limit. The vectors
are in an approximate index
(`backend/alembic/versions/8ba4e2bf6dd6_add_pgvector_and_note_chunks.py:42`), whose
answer is filtered by the workspace, so rows may be missing; a vector is of the note's
title and the chunk together (`workers/worker.py:118`); and the fallback hashes whole
words (`services/ai.py:102`). So no property says that a search finds a word; what
the code does see to, and `WordsAreIndexed` states, is that the word is there to be
found.

## 3 The runs

Each run fits in a few minutes; the mutants were used to see that the bounds let
every property be violated by a slip of the code.

| Run | Instance | Shows |
|---|---|---|
| `job_single` | 1 node; tasks with 2, 1 and 0 retries, the last without a handler; delays 0 and 2; 1 stop, 1 failing command, 1 expired key | `OneCopy` a task is never in two places; `NoTaskLost` never lost but with its holder; `AttemptsBounded`; `RetryCountIsEarned`; `BackoffRespected`; as long as no command fails, `ImplementsLifecycle` and `OutcomeExclusive`, one outcome per task |
| `job_liveness` | 2 nodes, 2 tasks, no faults | `EveryTaskSettles`, `Drains`, with all the duplicates two schedulers make |
| `index_single` | 1 worker, 1 note, 3 requests, 1 retry, 2 failing statements, 1 stop | `FreshOnceIndexed`: when the current text's task has succeeded, the index is that text once; `IndexCatchesUp`; `NoOrphans`, `SuccessIsIndexed`, `StaysFindable` |
| `sessions` | 1 tab, 2 calls, 1 failing request; access token 1, refresh token 2, clock 2 seconds | `RefusedForCause`, `LogoutHolds`, `CallsEnd` |
| `presence` | 2 nodes, a user with two sockets on different nodes and another's page, 1 fault | `GoneMeansOffline`, `RosterForgetsGone`, `RegisterIsExact`, `ConnectedMeansOnline` |
| `chat` | 2 rooms, a sender in each, 3 messages, history limit 2, 2 selections under way, 1 fault (a statement, a request, a connection or the listener's subscription), a token that expires and is renewed any number of times | `SocketFollowsRoom`, `DeckShowsItsRoom`, `NothingElseMissed`, `ShownOnce`, `SendersOrder`, `Reconnects` |
| `editor` | 2 requests, 1 note at the start, 3 notes, 2 documents, 1 edit, 1 failure | `NotesKeepTheirDocument`, `OneNotePerDocument`, `AutoSaved` |
| `records` | 3 requests out of 7, 4 and 7 calls; 3 users, 2 of them registered, 2 words in 3 spellings, a third too long for the column; 1 failing statement | `OneRowPerKey`, `AllOrNothing`, `JobsFollowRows`, `FailsForCause`, `FoundByItsLabel`, `RequestsEnd` |
| `retrieval` | 17 texts of up to 9 characters, next to a note of another workspace; chunk size 4, overlap 2, the code's separators; 1 request out of 5, 3 messages, 1 outage | `PassagesWhole`, `WordsAreIndexed`, `SummaryHasTheLatest`, `Answered` |
| `job_double_run`, `index_overtaken`, `sessions_transparent` | small, no faults | three statements that fail: section 6 |

The type invariants are proved (section 5), so no run repeats them.

Why the bounds are enough to be interesting:

- *Jobs.* Two retries give the first, a middle and the last value of
  `retry_count`; the task without a handler takes the third way to the
  dead-letter queue; one fault of each kind can be at every step of every task,
  and the three kinds meet in one behaviour. A delay of 2 lets a delayed task and
  a backoff be due in either order. The two-node case with faults is covered by
  the theorems for `NoTaskLost` and `RetryCountIsEarned`; so is that of several
  workers for `NoOrphans`, `SuccessIsIndexed` and `StaysFindable`.
- *Index.* Three requests are a creation and two edits, so an older and a newer
  task can overtake each other twice; one retry (the code has three) lets each
  task come back after a later one; two failures make one task dead.
- *Sessions.* Two calls are the smallest number that can refresh together; the
  clock allows a fresh access token, an expired one and an expired refresh token,
  and pairs minted in the same and in different seconds. Two tabs and two calls
  (1.6 million states) were also explored; the proofs cover any number.
- *Presence.* Two sockets of one user on two nodes, each of which connects again
  and again, give every order of connecting and disconnecting. `MaxPending` 1 lets
  one event per node be late. A publish waits for room instead of being lost,
  which hides no order: each node's events stay in order, and the two nodes'
  progress is independent.
- *Chat.* Two selections can overlap, or one can meet the socket of the other;
  three messages exceed the limit of the history by one; a message can be in
  every stage when a history is read. The token may expire at any step, also while a
  handshake is under way. One fault is a lost connection or a broken subscription, not
  both in one behaviour; that, and any number of faults, is covered by the theorems.
- *Editor.* Two requests are two saves, or a save and an opening; two documents
  are an existing note and a new one, or two new ones. The run was also done once
  with two edits (8.6 million states) and once with three documents (19.6
  million).

- *Records.* Three requests are two that race for a key and one that looks on, or
  a chain: eve registers while bob is invited, and bob, once he is a member,
  invites eve. The two requests with the same two tags name them in opposite orders
  and may wait for each other; a third spelling, "# x", is the one that cleans
  twice. One note names a tag twice, as "x" and "#x", beside requests that create
  the same tag; one has a label that is too long behind one that may be new, so that the
  tag before it must go with it. One failing statement can be at every place of every
  request.
- *Retrieval.* A chunk of 4 characters with an overlap of 2 keeps the proportion that
  matters (the overlap is at most half of the size; the code has 500 and 100). The
  texts of letters and blanks are complete for five characters with a letter in
  the middle; the others have every separator at the edges of the window and take
  up to three passes. The theorems cover all texts, sizes and limits.

Deadlock is checked except where the number of tasks, requests or edits is
bounded and the system rests when they are used up: the job, index, chat,
editor, records and retrieval runs. `MaxHalts`, `MaxErrors`, `MaxExpiries`, `MaxFaults`, `MaxTime`,
`MaxPending`, `MaxMessages`, `MaxSelections`, `MaxNotes`, `MaxDocuments`,
`MaxEdits` and `MaxOutages` are the only artificial bounds; each is a guard of the action it bounds. Symmetry is used only in runs
without liveness.

The causes that properties name (`late`, `disturbed`, `overlapped`, `missed`,
`leaked`, `shaken`, `hit`, `early`, `overlapped` and `broken` of a selection, `strayed`,
`doubled`, `crossed`) are not decoration: each was put in
because TLC showed a behaviour of the code without it, and each is as narrow as
the runs allow. They are the precise statement of when the code does not keep
its promise.

## 4 Fairness

- *TaskQueue*: weak fairness of each node's worker and each node's scheduler,
  and of the clock. asyncio schedules both tasks of a live process for ever, and
  each step is one awaited command that ends (the Redis client raises on a lost
  connection). No fairness for `Enqueue`, faults or expiries. The choice between
  `Succeed` and `Fail` is free, so nothing depends on handlers that succeed.
- *NoteIndex*: weak fairness of a request that has committed, of a worker's
  handler and of its taking a waiting task. A request that stops is an action of
  its own (`RequestError`), which takes its fairness obligation away. Weak
  fairness of `Take` with one worker is enough because a waiting task stays
  waiting until it is taken.
- *Sessions*: weak fairness of every call: a request is answered or fails, and the
  page runs the continuation. The user does nothing by obligation.
- *ChatRoom*: weak fairness of the handshake's answer, be it accepted or refused
  (`Register \/ Refuse`), of `onclose` and of the timer: the browser runs its callbacks,
  and lost connections are bounded. None of `Refresh`: a page that only listens sends no
  request whose 401 would renew the token, so `Reconnects` promises a connection only
  while the token is valid.
- *Records*: weak fairness of `Work`, the disjunction of all statements: the server
  goes on with some request as long as one can go on. A request that waits for a
  key is not enabled, and a cycle of them is ended by the database. Requests arrive
  and fail by no obligation.
- *Assistant*: weak fairness of the worker and of the endpoints: both await calls
  that have a timeout (10 and 30 seconds), after which they go on without the AI
  service.
- *Presence, NoteEditor*: none; only safety is stated. Whether events get
  through depends on a subscription nothing restores, and whether a text is
  saved depends on the user, so their progress is stated as "when nothing is under
  way".

## 5 The proofs

All theorems hold for every value of the constants that satisfies the module's
assumption, and are checked by TLAPS to the last leaf.

| Theorem | Statement |
|---|---|
| `TaskQueueProofs!TypeCorrect` | `Spec => []TypeOK` |
| `TaskQueueProofs!TasksAreKept` | `Spec => []NoTaskLost`, any number of nodes, every fault |
| `TaskQueueProofs!RetriesAreEarned` | `Spec => []RetryCountIsEarned`, likewise |
| `TaskQueueProofs!FirstExecutionIsAlone` | `Spec => []FirstRunAlone`: two handlers of a task overlap only after its third execution began, or a key expired |
| `TaskQueueProofs!FirstSuccessStands` | `Spec => FirstSuccessIsLast`: no execution after a first one that succeeded, unless a command fails or a key expires |
| `TaskQueueProofs!UnsharedOneCopy` | `Spec /\ []Unshared => []OneCopy`, any number of nodes, every fault |
| `TaskQueueProofs!UnsharedNoConcurrent` | `Spec /\ []Unshared => []NoConcurrentExecution`, likewise |
| `TaskQueueProofs!UnsharedAttempts` | `Spec /\ []Unshared => []AttemptsBounded`, likewise |
| `TaskQueueProofs!UnsharedOutcome` | `Spec /\ []Unshared => []OutcomeExclusive`, likewise |
| `TaskQueueProofs!UnsharedBackoff` | `Spec /\ []Unshared => BackoffRespected`, likewise |
| `TaskQueueProofs!UnsharedOver` | `Spec /\ []Unshared =>` no step without a failing command executes a task that has succeeded, is in the dead-letter queue or lost its worker |
| `TaskQueueProofs!UnsharedLifecycle` | `Spec /\ []Unshared => ImplementsLifecycle`, the refinement of TaskLifecycle |
| `NoteIndexProofs!TypeCorrect` | `Spec => []TypeOK` |
| `NoteIndexProofs!DeletedIsNotFound` | `Spec => []NoOrphans`, any number of workers |
| `NoteIndexProofs!IndexedStaysFindable` | `Spec => StaysFindable`, likewise |
| `NoteIndexProofs!SuccessMeansIndexed` | `Spec => []SuccessIsIndexed`, likewise |
| `NoteIndexProofs!SeparateHandlersKeepFresh` | `Spec /\ []Separate => []FreshOnceIndexed`, any number of workers |
| `NoteIndexProofs!OneWorkerKeepsFresh` | with `OneWorker`: `Spec => []FreshOnceIndexed` |
| `NoteIndexProofs!IndexIsOfItsNote` | `Spec => []IndexHoldsItsNote`: a note's chunks are of its own texts, any number of workers |
| `SessionsProofs!TypeCorrect` | `Spec => []TypeOK` |
| `SessionsProofs!LogoutIsFinal` | `Spec => []LogoutHolds`, any number of tabs and calls |
| `SessionsProofs!RefusalsHaveACause` | `Spec => []RefusedForCause`, likewise |
| `SessionsProofs!OneRefreshIsTransparent` | `Spec /\ []OneRefresh => []TransparentRotation`, likewise |
| `PresenceProofs!PresenceTypeCorrect` | `Spec => []TypeOK` |
| `PresenceProofs!RegisterStaysExact` | `Spec => []RegisterIsExact`, any number of nodes and sockets, every fault |
| `PresenceProofs!NobodyLingers` | `Spec => []GoneMeansOffline`, likewise |
| `PresenceProofs!ConnectedStaysOnline` | `Spec => []ConnectedMeansOnline`, likewise |
| `PresenceProofs!OneSocketIsOnline` | `Spec /\ []OneAtATime => [](every user whose handler is at work is in the set)`, likewise |
| `PresenceProofs!PagesForget` | `Spec => []RosterForgetsGone`, likewise |
| `ChatRoomProofs!ChatTypeCorrect` | `Spec => []TypeOK` |
| `ChatRoomProofs!SocketStaysInRoom` | `Spec => []SocketFollowsRoom`, any number of rooms, senders, messages and selections |
| `ChatRoomProofs!DeckStaysInRoom` | `Spec => []DeckShowsItsRoom`, likewise |
| `ChatRoomProofs!NothingElseIsMissed` | `Spec => []NothingElseMissed`, likewise, any limit of the history |
| `ChatRoomProofs!MessagesShownOnce` | `Spec => []ShownOnce`, likewise |
| `ChatRoomProofs!OrderIsKept` | `Spec => []SendersOrder`, likewise |
| `NoteEditorProofs!EditorTypeCorrect` | `Spec => []TypeOK` |
| `NoteEditorProofs!NotesAreNotMixed` | `Spec => NotesKeepTheirDocument`, any number of requests, notes and documents |
| `NoteEditorProofs!DocumentsAreNotDoubled` | `Spec => []OneNotePerDocument`, likewise |
| `NoteEditorProofs!FormsAreSaved` | `Spec => []AutoSaved`, likewise |
| `RecordsProofs!RecordsTypeCorrect` | `Spec => []TypeOK` |
| `RecordsProofs!KeysStayUnique` | `Spec => []OneRowPerKey`, any calls of any number of requests, every fault |
| `RecordsProofs!RequestsAreWhole` | `Spec => []AllOrNothing`, likewise |
| `RecordsProofs!JobsHaveTheirRows` | `Spec => []JobsFollowRows`, likewise |
| `RecordsProofs!FailuresHaveACause` | `Spec => []FailsForCause`, likewise |
| `RecordsProofs!NotesAreFound` | `Spec => []FoundByItsLabel`, likewise |
| `RecordsProofs!ListsShowCommittedRows` | `Spec => []ListsAreExact`: a listing has what was committed and matches when it was called, and nothing uncommitted |
| `RecordsProofs!LockCyclesAreSaves` | `Spec => []OnlySavesDeadlock`: only requests that save notes wait for each other in a cycle |
| `RecordsProofs!CommitsAreAtomic` | `Spec => OneCommitEach`: a step commits all the rows of one request |
| `AssistantProofs!ChunkTypeCorrect` | `ChunkSpec => []ChunkTypeOK` |
| `AssistantProofs!PassagesStayWhole` | `ChunkSpec => []PassagesWhole`, every text, every list of separators |
| `AssistantProofs!LoopAdvances` | `ChunkSpec => Advances`: each pass begins behind the last |
| `AssistantProofs!AssistantTypeCorrect` | `Spec => []TypeOK` |
| `AssistantProofs!WorkerKeepsPassages` | `Spec => []PassagesWhole` |
| `AssistantProofs!EveryWordIsIndexed` | `Spec => []WordsAreIndexed`, any notes, texts and outages |
| `AssistantProofs!SummariesAreRecent` | `Spec => []SummaryHasTheLatest`, any limit and number of messages |

**Assumptions.** `TaskQueueAssumption`: retry limits and delays are naturals,
tasks without a handler are tasks. `NoJobAssumption`, `NoteIndexAssumption`,
`SessionsAssumption`: the null values are none of the values they stand beside,
and bounds are naturals; so in the other modules' assumptions. `PresenceAssumption`
says who owns a socket and which node it is on. `RecordsAssumption`: the rows at
the start have one key each and are no request's, none of them is of an id that a
request is going to be given, and none is a tag too long for its column. Calls may name
any labels, any number of times. That generated ids are
new is what PostgreSQL's sequences provide (`models/workspace.py:21` and the like
declare autoincrement keys); without it `FailsForCause` is false, a request failing
on a row nobody else inserted, which its proof brought to light.
`TextChunksAssumption`: separators are not empty and the overlap is at most half
of the chunk size. `AssistantAssumption`: questions have a limit of at least 1, which
their schemas demand. TLC evaluates all assumptions in every run of their modules.

**What the three violations need.** `NoConcurrentExecution`, `FreshOnceIndexed` and
`TransparentRotation` do not hold of the code, as `job_double_run`,
`index_overtaken` and `sessions_transparent` show. Each is proved under a hypothesis
that names the one interleaving to blame, so that nothing else in the code can break
it: `Unshared`, no scheduler fetches a payload another has fetched and not promoted
yet; `Separate`, no two handlers of one note are at once between their read and
their commit; `OneRefresh`, no two refreshes are under way at once. The three are
conditions on the states of a behaviour (`Spec /\ []Unshared`), which all behaviours
of one node, one worker or one call satisfy and many of several; so the
theorems of one node (`OneNodeOneCopy`, `OneNodeAttempts`, `OneNodeOutcome`,
`OneNodeBackoff`, `OneNodeLifecycle`) and of one worker are corollaries, and those
are what `job_single` and `index_single` check.

**TasksAreKept.** `NoTaskLost` alone is not inductive: a worker that skips a
"duplicate" throws its payload away because of a key somebody else wrote. The
invariant `LossInv` adds what that key is worth: `LockMeaning` says that
`success` is written only for a task that is done, and that `in_progress` means
that a worker past the guard has the task (`Engaged`) or that it is settled
(`Settled`). A worker between DELETE and ZADD has given up the key and does not
count as engaged. `Recording` says that the two steps that write a final key
come after the outcome; `Entitled` that a worker which schedules a retry has one
left.

**RetriesAreEarned.** `EarnInv` adds `Spent`: a worker from the handler on has one
execution more behind it than the retry count it carries. This is what makes the
incremented payload earned at `Requeue`, and the buried one used up, also when
the exception came from `SET success` and not from the handler.

**FirstExecutionIsAlone, FirstSuccessStands.** Here schedulers may share, so a task has
payloads in any number of places and the key alone keeps them apart. `FirstInv` says, for
a task and as long as no key has expired (`FirstOf`): before the first execution a
worker between SET NX and GET finds `in_progress` there and will skip; after it one
worker at most is past the guard, and while its handler runs the key says so; up to the
second execution one handler at most runs; and a task whose only execution succeeded
has its key until its worker has written `success`. When the attempt has failed, the
worker deletes the key for the retry, and from there the guard protects nothing: a
worker between SET NX and GET finds no key and falls through, while another claims it.
Those are executions two and three, so two is the last number of executions for which
the statement holds; TLC finds the overlap with three.

**The theorems of payloads that are not shared.** `SingleInv` follows the one payload
a task has. `Alone`: it is in one place, be it one of several workers' hands, and
what a scheduler has fetched is still in the sorted set, since nobody else promotes
it: the only use of `Unshared`. `Unborn` and `Gone`: a task that was not
enqueued yet, or has lost its payload, has none. `Fit` says what the payload is worth
where it is: in a queue its task has run no more often than it was retried
(`QueueFit`), a delayed one waits for as long as a backoff is owed (`DelayFit`), and
in a worker's hands both depend on the step the worker is at (`HandFit`); until a
command fails a task with a payload under way has no outcome yet. No part of it
speaks of the lock: where payloads are not shared the retry count alone bounds the
attempts, and the idempotency key is not needed. A step
moves one payload in one of six ways (`NodeMoves`) and leaves the counters of all
other tasks (`NodeSame`) and the hands of all other nodes (`NodeApart`) alone. With `LossInv` and `EarnInv` this gives the step
simulation of `UnsharedLifecycle`: a worker's step number determines where the held
task is in its life (`HeldStatus`), and only that task moves (`HeldAfter`).

**DeletedIsNotFound, IndexedStaysFindable, SuccessMeansIndexed.** `TypeInv`
carries the facts about who works on what: a task at work is running, belongs to
an answered request, and no two workers have the same task. `TextInv` says that a
living note's text is that of a request to it and that deleted notes stay
deleted. The chunks change only in `Replace`, which needs a living note and puts
in what `NoOrphans` and `SuccessIsIndexed` ask for, and in `Delete`.

**SeparateHandlersKeepFresh.** Freshness needs a view into the handlers: `SeesAll` (what
a handler's DELETE found is all there is), `OneGeneration` (so the index is one
generation after the commit), and `SeesCurrent`: between read and commit it
holds the current text, or one that was overwritten by a request whose task has
not succeeded and is not the one at work. The last part is why an older task
that commits late leaves the property true: the newer text's own task is still to
come. `Separate` is used where a handler commits: the other workers' handlers are of
other notes and see nothing of it. When two handlers of one note overlap,
`SeesAll` fails, which is finding 2.

**IndexIsOfItsNote.** What an overlap cannot do: `SourceInv` follows a text from the
request that wrote it through the handler's read into the chunks; the texts a handler
holds and its DELETE and INSERTs are of one note, whoever else is at work.

**LogoutIsFinal.** `EndInv`: from a logout that met no refresh past its check on,
the key stays empty and whatever is past its check is a sign-in, because `Check`
compares with the key.

**RefusalsHaveACause.** A refresh is refused when its token is not the cached
one, so the invariant must say that it is, through all the places the pair
travels: `QuietInv` states, as long as no cause has occurred, that one tab has
the session (`OneSession`), every call belongs to it and none has failed
(`LiveCalls`), a sign-in is alone (`LoneLogin`), there is one refresh at a time
(`OneRefresh`), and Redis holds the tab's pair or the one on its way to it
(`Current`). `StoredInv` ties `localStorage` to some tab, so that a reload brings
nothing stale back. `OneRefreshIsTransparent` adds that only a second refresh under
way sets `overlapped`, so that without one the causes that remain are those the page's
promise excepts.

**NobodyLingers, ConnectedStaysOnline, PagesForget.** The set is right because of
who is on the way to change it. `OnlineInv`: whoever is in the set has a handler
between its SADD and its SREM, and the other sockets of a user one of whose
handlers is about to run SREM are `shaken`. `RosterInv` looks into what a node has
not taken yet: of the events about a user who is gone, the last says so.
`OneSocketIsOnline` shows that a second socket is the only thing that can take a
connected user out of the set: if a user's sockets follow one another, a `shaken`
socket is always one whose SADD is still to come (`Steady`).

**The chat.** `RoomInv` ties rooms together: the messages in the socket are those
of the room it is for, an answer has those of the room it was asked for, and
without overlapping selections that is the room of the page. `OnceInv` and
`OrderInv` say the same of deck, socket and answers: whatever came by the socket is
published, once, and behind what the deck has; a handler publishes its sender's
messages in their order. `MissInv` is the invariant of catching up: a history that
has been read holds all of the room's last messages that were published by then,
and afterwards the deck and the socket together do (`LastShrinks`: a message that is
among the last was so before more came).

**The editor.** `RefInv`: whoever is going to write a note (the form or a request)
has the document the note holds, or the note's id is `strayed`. `DocInv`: a document
is created by one request, or is `doubled`, and a form without an id shows a
document that is in no note yet, unless the request that creates it is under way.
`FormInv`: as long as nothing `crossed`, at most one save is under way, it is of the
form's document, and has what the form shows unless the timer is running.

**KeysStayUnique.** `KeysInv` says what an index entry locks: the keys a request has
inserted and not committed are no other request's and no committed row's. A look
decides nothing; the insert does.

**RequestsAreWhole, JobsHaveTheirRows.** `PlanInv` says what is left of a request's
plan: looks and inserts, then the commit, the refresh and the job, in this order
(`Ordered`). Before the commit the request has no row, and each row it is to leave is
inserted or still to be inserted (`OpenPlan`); after it all are there and nothing is
inserted, and the job was enqueued or is next (`ClosedPlan`). A label that is unknown
puts an insert in front of what is left, which `ConcatLeft` covers.

**FailuresHaveACause, NotesAreFound.** `WriteInv` follows the keys. What is left of a
plan names each key once (`Separate`), and what it still inserts was looked up, or is
going to be, or belongs to an id that is new (`WriteOf`); so when an insert meets its
key, somebody else committed it since, or the lookup asked for another name than the
insert writes (`Unstable`). Labels that are one (`NamesTwice`) may name a key twice, and
are excepted (`Apart`); without them the list of resolved tags has none twice
(`TagsNotDue`, `ResolvedName`), so its links do not collide, and an insert fails for its
length only with a label of the call. Rows are never removed, so a cause once there remains
(`CauseStays`). `NoteInv` adds for each note the labels it carries or whose
resolution is still ahead (`NoteOf`), and for a listing what it has shown
(`ListOf`). Both are preserved move by move: the statements make a request pass on,
plant an insert, put a row, commit or leave (`Moves`).

**LockCyclesAreSaves, CommitsAreAtomic.** In a cycle of locks a request waits for a key
and holds one another waits for; by `WriteInv` only a request with two keys others
know, a save with two tags, can do both. A commit adds what `PlanInv` says
is inserted by then, under keys which `KeysInv` says are free.

**The index and the answers.** `ChunkInv` is the loop invariant: the passages that
begin before the next slice are whole in some chunk; a slice that begins an overlap
before the last one's end holds those that were cut. `LoopAdvances` needs the overlap
to be at most half of the size: a boundary found at the start of the window must not
send the loop back. `IndexInv` carries this to the rows, which are replaced by the
parts of the whole text in one step; a word holds no blanks, so what is stripped from
the ends of a chunk cannot tear it. `SummaryInv` does the same for the transcript.

**Only model-checked.** Liveness (`EveryTaskSettles`, `Drains`, `IndexCatchesUp`,
`CallsEnd`, `Reconnects`, `RequestsEnd`, `Answered`) and anything with ENABLED is out
of the prover's reach: these seven are the only properties of the passing runs that no
theorem states.
Induction over data and RECURSIVE operators, which the prover cannot
handle either, occur nowhere: `chunk_text` is a state machine, and the history of a
room a relation.

## 6 What the code does otherwise than it says

Three runs check a statement of the repository and find it violated:

1. **`job_double_run`** - `README.md:73` has idempotency locks "to prevent double
   executions". `workers/worker.py:221-226` sets the key with NX and, when that
   fails, reads it with a second command; a holder that deletes the key for its
   retry in between makes GET return nothing, no branch returns, and the handler
   runs without the lock, beside whoever claims the key next.
2. **`index_overtaken`** - the comment at `workers/worker.py:129` says "Atomic
   Flush". Two workers that embed one note each wipe only what was committed when
   their DELETE started, and the text was read long before: two generations
   remain, or the older text does though the newer task has succeeded.
3. **`sessions_transparent`** - the comment at `static/app.js:43` says
   "transparent token rotation". Two calls that meet an expired token together
   both refresh; the second presents the token the first has replaced, is
   refused, and logs the user out of the renewed session.

Smaller observations made while modelling, all of them behaviours of the models:

- `workers/scheduler.py:56` pushes a member whatever ZREM returned, so two
  schedulers duplicate it, against the comment at line 53 and `README.md:72`. The
  idempotency key makes up for most of it.
- `workers/worker.py:249`: when SET `success` fails after the handler has
  returned, the exception is taken for the handler's and the task runs again.
- `workers/worker.py:266`: the key is deleted and the retry added in two
  commands; what fails in between is lost, though the comment at line 255 promises
  a retry. The comment at line 257 gives delays of 2, 4, 8, 16 seconds,
  `2 ** retry_count` gives 1, 2, 4, 8.
- A dead-lettered task's key `failed` is written but never asked for.
- `services/note.py:64`: the commit and the enqueue are not one step; a text
  whose enqueue fails stays unindexed until the next edit.
- `websocket/manager.py:112`: `psubscribe` is outside the `try`, so a Redis that
  is still down when the listener resubscribes ends the listener for good.
- `websocket/endpoints.py:86`: Redis failing while a connection is tracked leaves
  the socket registered until a broadcast purges it.
- `static/app.js:558`: a socket the page has closed itself is reconnected three
  seconds later, which closes the one that replaced it, and so on for ever; each
  selection of a room, or opening of the chat tab, adds another such round. What
  is published between two sockets is not shown, since a reconnect reads no
  history. Text sent on a socket that is closing or closed is discarded and the
  input emptied; text sent while a room is loading goes to the room before.
- `static/app.js:376`: of two selections whose histories are answered in the other
  order, the deck shows the room selected first under the title, and over the
  socket, of the second.
- `api/v1/endpoints/ai.py:175`: the transcript of `summarize_chat` is reversed "to
  match chronological read order", which the history is in already.
- A user has two sockets (`static/app.js:489`, `static/app.js:524`) and is one member
  of what `README.md:12` calls "active user presence sets"; closing either socket
  takes the user offline. `ConnectedMeansOnline` says precisely when.
- Of two registrations of one address, or two invitations of one user, that race, the
  second is answered 500 by the unique index instead of 400
  (`services/user.py:22`, `services/workspace.py:82`); so is one of two notes that
  create the same tag, and one of two that create two tags in opposite orders,
  although `repositories/note.py:104` calls the operation idempotent.
- `repositories/note.py:107-112`: "# x" is stored as " x" but looked up as "x", so
  every second note with that label is answered 500, and the tag filter of a listing
  does not find it by "x".
- `services/ai.py:59`: after an outage of the embedding service a note has vectors of
  two kinds, and stays so until it is edited; distances between them mean nothing.
- The workspace filter of a search is applied to what the approximate vector index
  returns (`api/v1/endpoints/ai.py:59`), so a search in a small workspace beside large
  ones may come back with fewer rows than there are, or with none.
- `static/app.js:558`: the reconnects of a socket carry the token the page has and never
  refresh it (`static/app.js:529`), so a page that only listens for more than 30 minutes
  and loses its socket is refused every three seconds until it sends another request.
- `models/note.py:51`: a label of more than 50 characters is answered 500; no schema
  bounds it. So may be a note that names a tag twice (`services/note.py:48`), which
  links it twice against the key of `note_tags`.
- `workers/worker.py:77`: each slice but the first begins `overlap` characters before
  the last one's end, in the middle of whatever stands there; `README.md:76` says
  "without clipping logical sentence structures". What holds is `PassagesWhole`.
- `services/ai.py:152` looks for "context:" at the start of a line's end; the prompt
  says "Context Snippets:", so the offline answer never quotes a note.
- A page's roster never learns who was online before it connected.
- `static/app.js`: a refresh whose answer is lost, or is a 500, loses the
  session; a late `handleLogout` clears a fresh sign-in; until a creation is
  answered every save of the form creates another note; the answer to a creation
  puts the new note's id into whatever form is shown then; edits typed just
  before another note is opened are lost.

## 7 What is not modelled

- *The page's change of workspace*, and what the page itself sends to a room: it
  comes back like the messages of others. Typing events.
- *Tags of an update, pages, totals and the text search of a listing*: `update_note`
  resolves tags as `create_note` does; two statements of one listing (the total and
  the page) may see different notes.
- *The texts of prompts and of offline answers*, and what a vector is beyond the space
  it lies in.
- *Job administration, health, configuration, logging, schemas, migrations,
  rendering*: reads, declarations or wording.
- *Redis or PostgreSQL losing data at a restart*, and clocks that differ between
  machines.
- *Several editors of one note*: `update_note` checks no version, so the last
  writer wins; NoteEditor has one page.

## 8 Plan

Written in this order, so that the most important behaviour came first, and done:
TaskQueue with TaskLifecycle, the refinement and TaskQueueProofs; NoteIndex on top of
TaskLifecycle; Sessions; Presence; NoteEditor; ChatRoom; Records; TextChunks and
Assistant; each with its proofs.

What would come next:

1. Records: updates and deletions of notes with their tags; the total and the page of
   a listing.
2. ChatRoom: the page's own messages, and the change of workspace with the presence
   socket (`static/app.js:299-326`).

Properties that are proved in full generality need no larger instances: their
runs stay small, and several properties share one.
