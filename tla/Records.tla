------------------------------ MODULE Records ------------------------------
(***************************************************************************)
(* What requests write into the database together: registrations, new      *)
(* workspaces, invitations, chat rooms and new notes with their tags, each *)
(* a transaction of several statements, and the requests that read the     *)
(* rows.                                                                   *)
(* One action is one statement of one request; a request waits where it    *)
(* inserts a key another one has inserted and not committed.               *)
(*                                                                         *)
(* Abstractions.  The plan of a request is the sequence of its statements. *)
(* Generated ids are those of the request.  A tag label is reduced to what *)
(* the cleaning tells apart; all other values fit their columns, as the    *)
(* schemas bound them, and no text holds a NUL.  Rows are never deleted    *)
(* (NoteIndex deletes notes); a page holds all notes.                      *)
(***************************************************************************)
EXTENDS Integers, Sequences

CONSTANTS
  Request, User, Word,
  TooLong,    \* the tag names with more than 50 characters
  Home,       \* the workspaces there are at the start
  Seed,       \* the rows there are at the start
  Call,       \* the calls each request may make
  MaxErrors   \* bound on statements that fail

VARIABLES
  rows,     \* committed rows
  pending,  \* the rows each request has inserted and not committed
  call,     \* what each request does
  todo,     \* the statements it still has to execute
  tags,     \* the tags it has resolved, in the order of its labels
  found,    \* the rows it has read
  answer,   \* its status code
  jobs,     \* how often it has enqueued its background job
  before,   \* history: the rows committed when it arrived
  hit,      \* history: requests hit by an error or chosen to end a lock cycle
  errors

work == <<call, before>>
vars == <<rows, pending, todo, tags, found, answer, jobs, hit, errors, work>>

Role      == {"owner", "admin", "member"}
Label     == [hash : BOOLEAN, gap : BOOLEAN, word : Word] \* x, #x, " x", "# x"
Name      == [gap : BOOLEAN, word : Word]             \* a string of the column
Workspace == Home \cup Request

UserKey(u)      == <<"user", u>>
WorkspaceKey(w) == <<"workspace", w>>
MemberKey(w, u) == <<"member", w, u>>
TagKey(name)    == <<"tag", name>>
NoteKey(w, n)   == <<"note", w, n>>
RoomKey(w, n)   == <<"room", w, n>>

Key ==
  ({"user"} \X User) \cup ({"workspace"} \X Workspace)
    \cup ({"member"} \X Workspace \X User) \cup ({"tag"} \X Name)
    \cup ({"note", "room"} \X Workspace \X Request)

Row == [key : Key, role : Role \cup {"none"}, tags : SUBSET Name,
        by : Request \cup {"seed"}]

Operation ==
  [op : {"register"}, user : User] \cup [op : {"create", "workspaces"}, by : User]
    \cup [op : {"invite"}, by : User, user : User, role : Role, workspace : Home]
    \cup [op : {"save"}, by : User, labels : Seq(Label), workspace : Home]
    \cup [op : {"notes"}, by : User, label : Label, workspace : Home]
    \cup [op : {"room", "rooms", "members"}, by : User, workspace : Home]

Keys(set) == {row.key : row \in set}
-----------------------------------------------------------------------------
\* name.strip().lower() without one leading "#".
Cleaned(label) == [gap |-> label.hash /\ label.gap, word |-> label.word]

\* ... but get_by_name strips the name once more.
LookedUp(name) == [name EXCEPT !.gap = FALSE]

Stable(label) == LookedUp(Cleaned(label)) = Cleaned(label)

\* The keys that hold an id drawn from a sequence for r.
Generated(r) ==
  {WorkspaceKey(r)} \cup {MemberKey(r, u) : u \in User}
    \cup {NoteKey(w, r) : w \in Workspace} \cup {RoomKey(w, r) : w \in Workspace}

ASSUME RecordsAssumption ==
  /\ Seed \subseteq Row /\ Home \cap Request = {}
  /\ TooLong \subseteq Name /\ \A name \in TooLong : TagKey(name) \notin Keys(Seed)
  /\ \A r \in Request : Generated(r) \cap Keys(Seed) = {}
  /\ \A row \in Seed : row.by = "seed"
  /\ \A one, other \in Seed : one.key = other.key => one = other
  /\ "seed" \notin Request
  /\ Call \in [Request -> SUBSET Operation]
  /\ MaxErrors \in Nat
-----------------------------------------------------------------------------
(* The services as sequences of statements.                                *)

Present(key, code) == [do |-> "present", key |-> key, code |-> code]
Absent(key, code)  == [do |-> "absent", key |-> key, code |-> code]
Authority(key)     == [do |-> "authority", key |-> key, code |-> 403]
Insert(key, role)  == [do |-> "insert", key |-> key, role |-> role]
Resolve(label)     == [do |-> "resolve", label |-> label]
Read               == [do |-> "read"]
Commit             == [do |-> "commit"]
Refresh            == [do |-> "refresh"]
Enqueue            == [do |-> "enqueue"]

\* UserService.register_user
RegisterUser(u) ==
  << Absent(UserKey(u), 400), Insert(UserKey(u), "none"),
     Commit, Refresh, Enqueue >>

\* Variant: the owner is enrolled after the workspace is committed.
CreateWorkspaceTwoCommits(r, by) ==
  << Insert(WorkspaceKey(r), "none"), Commit,
     Insert(MemberKey(r, by), "owner"), Commit, Refresh >>

\* WorkspaceService.create_workspace
CreateWorkspace(r, by) ==
  << Insert(WorkspaceKey(r), "none"), Insert(MemberKey(r, by), "owner"),
     Commit, Refresh >>

\* Variant: the mail is queued before the membership is committed.
AddMemberMailFirst(c) ==
  << Authority(MemberKey(c.workspace, c.by)), Present(UserKey(c.user), 404),
     Absent(MemberKey(c.workspace, c.user), 400),
     Insert(MemberKey(c.workspace, c.user), c.role), Enqueue, Commit >>

\* WorkspaceService.add_workspace_member
AddMember(c) ==
  << Authority(MemberKey(c.workspace, c.by)), Present(UserKey(c.user), 404),
     Absent(MemberKey(c.workspace, c.user), 400),
     Insert(MemberKey(c.workspace, c.user), c.role), Commit, Enqueue >>

\* NoteService.create_note
CreateNote(r, c) ==
  <<Present(MemberKey(c.workspace, c.by), 403)>>
    \o [i \in DOMAIN c.labels |-> Resolve(c.labels[i])]
    \o <<Insert(NoteKey(c.workspace, r), "none"), Commit, Enqueue>>

\* ChatService.create_room
CreateRoom(r, c) ==
  << Present(MemberKey(c.workspace, c.by), 403),
     Insert(RoomKey(c.workspace, r), "none"), Commit, Refresh >>

\* list_notes_in_workspace, list_workspace_members, list_rooms
List(c) == <<Present(MemberKey(c.workspace, c.by), 403), Read>>

Plan(r, c) ==
  CASE c.op = "register"   -> RegisterUser(c.user)
    [] c.op = "create"     -> CreateWorkspace(r, c.by)
    [] c.op = "invite"     -> AddMember(c)
    [] c.op = "save"       -> CreateNote(r, c)
    [] c.op = "room"       -> CreateRoom(r, c)
    [] c.op = "workspaces" -> <<Read>>  \* list_user_workspaces
    [] OTHER               -> List(c)

\* The rows a call answers for.
Wanted(r, c) ==
  CASE c.op = "register" -> {UserKey(c.user)}
    [] c.op = "create"   -> {WorkspaceKey(r), MemberKey(r, c.by)}
    [] c.op = "invite"   -> {MemberKey(c.workspace, c.user)}
    [] c.op = "save"     -> {NoteKey(c.workspace, r)}
    [] c.op = "room"     -> {RoomKey(c.workspace, r)}
    [] OTHER             -> {}
-----------------------------------------------------------------------------
None == [op |-> "none"]

Init ==
  /\ rows = Seed /\ pending = [r \in Request |-> {}]
  /\ call = [r \in Request |-> None] /\ todo = [r \in Request |-> <<>>]
  /\ tags = [r \in Request |-> <<>>] /\ found = [r \in Request |-> {}]
  /\ answer = [r \in Request |-> 0] /\ jobs = [r \in Request |-> 0]
  /\ before = [r \in Request |-> {}] /\ hit = {} /\ errors = 0

At(r, do) == todo[r] # <<>> /\ Head(todo[r]).do = do

\* The statement is done; after the last one the response is sent.
Advance(r) ==
  /\ todo' = [todo EXCEPT ![r] = Tail(@)]
  /\ answer' = [answer EXCEPT ![r] =
       IF Len(todo[r]) > 1 THEN 0
       ELSE IF Wanted(r, call[r]) = {} THEN 200 ELSE 201]

\* Variant: the session is not closed, and its transaction stays open.
RaiseKeepsSession(r, code) ==
  /\ answer' = [answer EXCEPT ![r] = code]
  /\ todo' = [todo EXCEPT ![r] = <<>>] /\ UNCHANGED pending

\* An exception leaves the service: get_db closes the session, which rolls
\* back what is not committed.
Raise(r, code) ==
  /\ answer' = [answer EXCEPT ![r] = code]
  /\ todo' = [todo EXCEPT ![r] = <<>>] /\ pending' = [pending EXCEPT ![r] = {}]

Visible(r) == rows \cup pending[r]

Arrive(r) ==
  /\ call[r] = None
  /\ \E c \in Call[r] : /\ call' = [call EXCEPT ![r] = c]
                     /\ todo' = [todo EXCEPT ![r] = Plan(r, c)]
  /\ before' = [before EXCEPT ![r] = rows]
  /\ UNCHANGED <<rows, pending, tags, found, answer, jobs, hit, errors>>
-----------------------------------------------------------------------------
(* The statements.                                                         *)

\* A lookup and the refusal that hangs on it.
Look(r) ==
  /\ todo[r] # <<>>
  /\ LET s == Head(todo[r])
         Passes == CASE s.do = "present"   -> s.key \in Keys(Visible(r))
                     [] s.do = "absent"    -> s.key \notin Keys(Visible(r))
                     [] s.do = "authority" -> \E row \in Visible(r) :
                          row.key = s.key /\ row.role \in {"owner", "admin"}
     IN  /\ s.do \in {"present", "absent", "authority"}
         /\ \/ Passes /\ Advance(r) /\ UNCHANGED pending
            \/ ~Passes /\ Raise(r, s.code)
  /\ UNCHANGED <<rows, tags, found, jobs, hit, errors, work>>

\* Variant: the tag is inserted without a look.
ResolveTagBlindly(r) ==
  /\ At(r, "resolve")
  /\ LET stored == Cleaned(Head(todo[r]).label)
     IN  /\ tags' = [tags EXCEPT ![r] = Append(@, stored)]
         /\ todo' = [todo EXCEPT ![r] =
              <<Insert(TagKey(stored), "none")>> \o Tail(@)]
  /\ UNCHANGED <<rows, pending, found, answer, jobs, hit, errors, work>>

\* Variant: only the tags the request creates are linked to its note.
ResolveTagNewOnly(r) ==
  /\ At(r, "resolve")
  /\ LET stored == Cleaned(Head(todo[r]).label)
         known  == TagKey(LookedUp(stored)) \in Keys(Visible(r))
     IN  /\ tags' = [tags EXCEPT ![r] = IF known THEN @ ELSE Append(@, stored)]
         /\ todo' = [todo EXCEPT ![r] =
              IF known THEN Tail(@)
              ELSE <<Insert(TagKey(stored), "none")>> \o Tail(@)]
  /\ UNCHANGED <<rows, pending, found, answer, jobs, hit, errors, work>>

\* get_or_create_by_name: the tag is looked up and, if it is not there,
\* inserted by a second statement.
ResolveTag(r) ==
  /\ At(r, "resolve")
  /\ LET stored == Cleaned(Head(todo[r]).label)
         asked  == LookedUp(stored)
     IN  \/ /\ TagKey(asked) \in Keys(Visible(r))
            /\ tags' = [tags EXCEPT ![r] = Append(@, asked)]
            /\ todo' = [todo EXCEPT ![r] = Tail(@)]
         \/ /\ TagKey(asked) \notin Keys(Visible(r))
            /\ tags' = [tags EXCEPT ![r] = Append(@, stored)]
            /\ todo' = [todo EXCEPT ![r] =
                 <<Insert(TagKey(stored), "none")>> \o Tail(@)]
  /\ UNCHANGED <<rows, pending, found, answer, jobs, hit, errors, work>>

\* The unique index makes r wait for q, which has inserted the key.
Waits(r, q) ==
  At(r, "insert") /\ q # r /\ Head(todo[r]).key \in Keys(pending[q])

\* The rows of note_tags that go in with the note.
Links(r, key) ==
  IF key[1] = "note" THEN {tags[r][i] : i \in DOMAIN tags[r]} ELSE {}

\* The list of the note's tags holds one of them twice.
LinksTwice(r) == \E i, j \in DOMAIN tags[r] : i # j /\ tags[r][i] = tags[r][j]

\* The table takes a key that is not there, and a name that fits the column.
Takes(r, key) ==
  key \notin Keys(Visible(r)) /\ ~(key[1] = "tag" /\ key[2] \in TooLong)

\* Variant: the table has no unique constraint.
InsertUnconstrained(r) ==
  /\ At(r, "insert")
  /\ LET s   == Head(todo[r])
         row == [key |-> s.key, role |-> s.role, by |-> r,
                 tags |-> Links(r, s.key)]
     IN  pending' = [pending EXCEPT ![r] = @ \cup {row}]
  /\ Advance(r)
  /\ UNCHANGED <<rows, tags, found, jobs, hit, errors, work>>

\* BaseRepository.create: a note goes in with the links to its tags.  A tag
\* that is in its list twice is linked twice, against the key of note_tags,
\* unless the flush comes to the tag's side of the relation first.
InsertRow(r) ==
  /\ At(r, "insert")
  /\ \A q \in Request : ~Waits(r, q)
  /\ LET s   == Head(todo[r])
         row == [key |-> s.key, role |-> s.role, by |-> r,
                 tags |-> Links(r, s.key)]
     IN  \/ /\ Takes(r, s.key)
            /\ pending' = [pending EXCEPT ![r] = @ \cup {row}] /\ Advance(r)
         \/ ~Takes(r, s.key) /\ Raise(r, 500)
         \/ s.key[1] = "note" /\ LinksTwice(r) /\ Raise(r, 500)
  /\ UNCHANGED <<rows, tags, found, jobs, hit, errors, work>>

CommitRows(r) ==
  /\ At(r, "commit")
  /\ rows' = rows \cup pending[r] /\ pending' = [pending EXCEPT ![r] = {}]
  /\ Advance(r)
  /\ UNCHANGED <<tags, found, jobs, hit, errors, work>>

RefreshRow(r) ==
  /\ At(r, "refresh") /\ Advance(r)
  /\ UNCHANGED <<rows, pending, tags, found, jobs, hit, errors, work>>

\* The mail about the row, or the note's embedding, is enqueued.
EnqueueJob(r) ==
  /\ At(r, "enqueue") /\ Advance(r)
  /\ jobs' = [jobs EXCEPT ![r] = @ + 1]
  /\ UNCHANGED <<rows, pending, tags, found, hit, errors, work>>

\* The rows a list call returns; the tag filter cleans the label again.
Matches(c, row) ==
  CASE c.op = "notes"   -> /\ row.key[1] = "note" /\ row.key[2] = c.workspace
                           /\ Cleaned(c.label) \in row.tags
    [] c.op = "members" -> row.key[1] = "member" /\ row.key[2] = c.workspace
    [] c.op = "rooms"   -> row.key[1] = "room" /\ row.key[2] = c.workspace
    [] OTHER            -> row.key[1] = "member" /\ row.key[3] = c.by

ReadRows(r) ==
  /\ At(r, "read") /\ Advance(r)
  /\ found' = [found EXCEPT ![r] = {row \in rows : Matches(call[r], row)}]
  /\ UNCHANGED <<rows, pending, tags, jobs, hit, errors, work>>
-----------------------------------------------------------------------------
(* Failures.                                                               *)

\* Requests that wait for each other in a circle, r among them.
Deadlocked(r) ==
  \E circle \in SUBSET Request :
    /\ r \in circle
    /\ \A q \in circle : \E p \in circle : Waits(q, p)
    /\ \A p \in circle : \E q \in circle : Waits(q, p)

\* The database ends the circle by aborting one of them.
AbortVictim(r) ==
  /\ Deadlocked(r) /\ Raise(r, 500) /\ hit' = hit \cup {r}
  /\ UNCHANGED <<rows, tags, found, jobs, errors, work>>

\* A statement fails (the connection breaks, no connection is free in the
\* pool, a timeout), a commit applied or not.  Enqueueing fails, and the
\* two lookups before it, inside a try block that swallows the exception.
StatementError(r) ==
  /\ errors < MaxErrors /\ errors' = errors + 1
  /\ todo[r] # <<>> /\ hit' = hit \cup {r}
  /\ \/ ~At(r, "enqueue") /\ Raise(r, 500) /\ UNCHANGED <<rows, jobs>>
     \/ /\ At(r, "commit") /\ Raise(r, 500) /\ UNCHANGED jobs
        /\ rows' = rows \cup pending[r]
     \/ /\ At(r, "enqueue") /\ Advance(r) /\ UNCHANGED <<rows, pending>>
        /\ jobs' = jobs \/ jobs' = [jobs EXCEPT ![r] = @ + 1]
  /\ UNCHANGED <<tags, found, work>>
-----------------------------------------------------------------------------
Statement(r) ==
  \/ Look(r) \/ ResolveTag(r) \/ InsertRow(r) \/ CommitRows(r)
  \/ RefreshRow(r) \/ EnqueueJob(r) \/ ReadRows(r)

Work == \E r \in Request : Statement(r) \/ AbortVictim(r)

Next == Work \/ \E r \in Request : Arrive(r) \/ StatementError(r)

\* While some request can go on, the server goes on with one of them; the
\* database detects lock cycles.
Spec == Init /\ [][Next]_vars /\ WF_vars(Work)
-----------------------------------------------------------------------------
Stmt ==
  [do : {"present", "absent", "authority"}, key : Key, code : {400, 403, 404}]
    \cup [do : {"insert"}, key : Key, role : Role \cup {"none"}]
    \cup [do : {"resolve"}, label : Label]
    \cup [do : {"read", "commit", "refresh", "enqueue"}]

TypeOK ==
  /\ rows \subseteq Row /\ pending \in [Request -> SUBSET Row]
  /\ call \in [Request -> Operation \cup {None}] /\ todo \in [Request -> Seq(Stmt)]
  /\ tags \in [Request -> Seq(Name)] /\ found \in [Request -> SUBSET Row]
  /\ answer \in [Request -> {0, 200, 201, 400, 403, 404, 500}]
  /\ jobs \in [Request -> Nat] /\ before \in [Request -> SUBSET Row]
  /\ hit \subseteq Request /\ errors \in 0 .. MaxErrors

Mine(r) == {row \in rows : row.by = r}

\* No two rows have one key: of two requests that both looked before either
\* inserted, at most one gets through.
OneRowPerKey ==
  \A one, other \in rows : one.key = other.key => one = other

\* A request leaves all the rows its answer stands for or none; refused, it
\* leaves nothing behind, not even a tag, and created is what it says.
AllOrNothing ==
  \A r \in Request :
    /\ Mine(r) # {} => Wanted(r, call[r]) \subseteq Keys(Mine(r))
    /\ answer[r] = 201 => Mine(r) # {}
    /\ answer[r] \notin {0, 201} => Mine(r) = {} \/ r \in hit

\* A mail or an embedding job is about a row that is there to stay, and there
\* is exactly one unless the request was hit by an error.
JobsFollowRows ==
  \A r \in Request :
    /\ jobs[r] <= 1
    /\ jobs[r] = 1 => Mine(r) # {}
    /\ answer[r] = 201 /\ call[r].op \notin {"create", "room"} /\ r \notin hit => jobs[r] = 1

\* Two labels that get_by_name takes for one.
NamesTwice(labels) ==
  \E i, j \in DOMAIN labels :
    i # j /\ LookedUp(Cleaned(labels[i])) = LookedUp(Cleaned(labels[j]))

\* A request fails only for an error, for losing a race to a request that was
\* under way at the same time, or for its labels: one the lookup does not find
\* again, one too long for the column, or two that are one.
FailsForCause ==
  \A r \in Request :
    answer[r] = 500 /\ r \notin hit =>
      \/ \E key \in Wanted(r, call[r]) : key \in Keys(rows) \ Keys(before[r])
      \/ /\ call[r].op = "save"
         /\ \/ NamesTwice(call[r].labels)
            \/ \E i \in DOMAIN call[r].labels :
                 LET label == call[r].labels[i]
                     key   == TagKey(Cleaned(label))
                 IN  \/ Cleaned(label) \in TooLong
                     \/ key \in Keys(rows) /\ (key \notin Keys(before[r]) \/ ~Stable(label))

\* A list shows whatever was saved before it was asked for: a note under the
\* label it was saved with, unless the label is one that cleans twice.
FoundByItsLabel ==
  \A r, q \in Request :
    answer[r] = 200 /\ call[r].op = "notes" /\ call[q].op = "save" =>
      \A note \in before[r] :
        /\ note.by = q /\ note.key[1] = "note" /\ note.key[2] = call[r].workspace
        /\ Stable(call[r].label)
        /\ Cleaned(call[r].label)
             \in {Cleaned(call[q].labels[i]) : i \in DOMAIN call[q].labels}
        => note \in found[r]

\* Every request is answered, lock cycles included.
RequestsEnd ==
  \A r \in Request : (call[r] # None) ~> (answer[r] # 0)
=============================================================================
