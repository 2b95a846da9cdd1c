---------------------------- MODULE RecordsProofs ----------------------------
(***************************************************************************)
(* Proofs about Records.  Types first; then the keys: what a request has   *)
(* inserted and not committed locks its keys against every other request,  *)
(* which is what keeps two requests that both looked first from leaving    *)
(* two rows; then the plans: how far a request has come says which of its  *)
(* rows are there and whether its job is due.                              *)
(***************************************************************************)
EXTENDS Records, TLAPS

\* The parts of a plan that saves a note.
LEMMA SaveType ==
  ASSUME NEW r \in Request, NEW c \in Operation, c.op = "save"
  PROVE  /\ <<Present(MemberKey(c.workspace, c.by), 403)>> \in Seq(Stmt)
         /\ [i \in DOMAIN c.labels |-> Resolve(c.labels[i])] \in Seq(Stmt)
         /\ <<Insert(NoteKey(c.workspace, r), "none"), Commit, Enqueue>> \in Seq(Stmt)
<1> USE DEF Operation, Stmt, Key, Workspace, Role, Present, Insert, Resolve, Commit, Enqueue,
            MemberKey, NoteKey
<1>1. /\ Present(MemberKey(c.workspace, c.by), 403) \in Stmt
      /\ Insert(NoteKey(c.workspace, r), "none") \in Stmt
      /\ Commit \in Stmt /\ Enqueue \in Stmt
  OBVIOUS
<1>2. c.labels \in Seq(Label)
  OBVIOUS
<1>3. \A i \in DOMAIN c.labels : Resolve(c.labels[i]) \in Stmt
  BY <1>2
<1> HIDE DEF Stmt, Resolve, Insert, Present, Commit, Enqueue
<1>4. [i \in DOMAIN c.labels |-> Resolve(c.labels[i])] \in Seq(Stmt)
  BY <1>2, <1>3
<1> QED BY <1>1, <1>4

\* Every call is a sequence of well-formed statements.
LEMMA PlanType ==
  ASSUME NEW r \in Request, NEW c \in Operation
  PROVE  Plan(r, c) \in Seq(Stmt)
<1> USE DEF Operation, Stmt, Key, Workspace, Role, Present, Absent, Authority,
            Insert, Resolve, Read, Commit, Refresh, Enqueue,
            UserKey, WorkspaceKey, MemberKey, NoteKey, RoomKey
<1>1. CASE c.op = "register"
  <2>1. /\ Absent(UserKey(c.user), 400) \in Stmt /\ Insert(UserKey(c.user), "none") \in Stmt
        /\ Commit \in Stmt /\ Refresh \in Stmt /\ Enqueue \in Stmt
    BY <1>1
  <2> QED BY <1>1, <2>1 DEF Plan, RegisterUser
<1>2. CASE c.op = "create"
  <2>1. /\ Insert(WorkspaceKey(r), "none") \in Stmt
        /\ Insert(MemberKey(r, c.by), "owner") \in Stmt
        /\ Commit \in Stmt /\ Refresh \in Stmt
    BY <1>2
  <2> QED BY <1>2, <2>1 DEF Plan, CreateWorkspace
<1>3. CASE c.op = "invite"
  <2>1. /\ Authority(MemberKey(c.workspace, c.by)) \in Stmt
        /\ Present(UserKey(c.user), 404) \in Stmt
        /\ Absent(MemberKey(c.workspace, c.user), 400) \in Stmt
        /\ Insert(MemberKey(c.workspace, c.user), c.role) \in Stmt
        /\ Commit \in Stmt /\ Enqueue \in Stmt
    BY <1>3
  <2> QED BY <1>3, <2>1 DEF Plan, AddMember
<1>4. CASE c.op = "save"
  <2> HIDE DEF Stmt, Resolve, Insert, Present, Commit, Enqueue
  <2> QED BY <1>4, SaveType DEF Plan, CreateNote
<1>5. CASE c.op \in {"notes", "members", "rooms"}
  <2>1. Present(MemberKey(c.workspace, c.by), 403) \in Stmt /\ Read \in Stmt
    BY <1>5
  <2>2. List(c) \in Seq(Stmt)
    BY <2>1 DEF List
  <2>3. Plan(r, c) = List(c)
    BY <1>5 DEF Plan
  <2> QED BY <2>2, <2>3
<1>6. CASE c.op = "workspaces"
  BY <1>6 DEF Plan
<1>7. CASE c.op = "room"
  <2>1. /\ Present(MemberKey(c.workspace, c.by), 403) \in Stmt
        /\ Insert(RoomKey(c.workspace, r), "none") \in Stmt
        /\ Commit \in Stmt /\ Refresh \in Stmt
    BY <1>7
  <2> QED BY <1>7, <2>1 DEF Plan, CreateRoom
<1> QED BY <1>1, <1>2, <1>3, <1>4, <1>5, <1>6, <1>7

\* What is left to do shrinks by one statement.
LEMMA AdvanceType ==
  ASSUME TypeOK, NEW r \in Request, todo[r] # <<>>, Advance(r)
  PROVE  /\ todo' \in [Request -> Seq(Stmt)]
         /\ answer' \in [Request -> {0, 200, 201, 400, 403, 404, 500}]
<1>1. Tail(todo[r]) \in Seq(Stmt)
  BY DEF TypeOK
<1> QED BY <1>1 DEF Advance, TypeOK

LEMMA RaiseType ==
  ASSUME TypeOK, NEW r \in Request, NEW code \in {400, 403, 404, 500}, Raise(r, code)
  PROVE  /\ todo' \in [Request -> Seq(Stmt)] /\ pending' \in [Request -> SUBSET Row]
         /\ answer' \in [Request -> {0, 200, 201, 400, 403, 404, 500}]
BY DEF Raise, TypeOK

\* The row an insert statement adds.
LEMMA NewRowType ==
  ASSUME TypeOK, NEW r \in Request, At(r, "insert")
  PROVE  [key |-> Head(todo[r]).key, role |-> Head(todo[r]).role, by |-> r,
          tags |-> Links(r, Head(todo[r]).key)] \in Row
<1>1. Head(todo[r]) \in Stmt /\ Head(todo[r]).do = "insert"
  BY DEF At, TypeOK
<1>2. Head(todo[r]).key \in Key /\ Head(todo[r]).role \in Role \cup {"none"}
  BY <1>1 DEF Stmt
<1>3. Links(r, Head(todo[r]).key) \in SUBSET Name
  <2>1. tags[r] \in Seq(Name)
    BY DEF TypeOK
  <2>2. \A i \in DOMAIN tags[r] : tags[r][i] \in Name
    BY <2>1
  <2> QED BY <2>2 DEF Links
<1> QED BY <1>2, <1>3 DEF Row

LEMMA InitType == Init => TypeOK
BY RecordsAssumption DEF Init, TypeOK

LEMMA StatementType ==
  ASSUME TypeOK, NEW r \in Request, Statement(r)
  PROVE  TypeOK'
<1> USE DEF work
<1>1. CASE Look(r)
  <2>1. Head(todo[r]) \in Stmt
    BY <1>1 DEF Look, TypeOK
  <2>2. Head(todo[r]).do \in {"present", "absent", "authority"}
    BY <1>1 DEF Look
  <2>3. Head(todo[r]).code \in {400, 403, 404, 500}
    BY <2>1, <2>2 DEF Stmt
  <2>4. CASE Advance(r) /\ UNCHANGED pending
    BY <1>1, <2>4, AdvanceType DEF Look, TypeOK
  <2>5. CASE Raise(r, Head(todo[r]).code)
    BY <1>1, <2>3, <2>5, RaiseType DEF Look, TypeOK
  <2> QED BY <1>1, <2>4, <2>5 DEF Look
<1>2. CASE ResolveTag(r)
  <2> DEFINE label == Head(todo[r]).label
             stored == Cleaned(label)
  <2>1. Head(todo[r]) \in Stmt /\ Head(todo[r]).do = "resolve" /\ todo[r] # <<>>
    BY <1>2 DEF ResolveTag, At, TypeOK
  <2>2. label \in Label
    BY <2>1 DEF Stmt
  <2>3. stored \in Name /\ LookedUp(stored) \in Name
    BY <2>2 DEF Label, Name, Cleaned, LookedUp
  <2>4. Insert(TagKey(stored), "none") \in Stmt
    BY <2>3 DEF Insert, TagKey, Stmt, Key
  <2>5. Tail(todo[r]) \in Seq(Stmt)
    BY <2>1 DEF TypeOK
  <2> HIDE DEF stored
  <2>6. <<Insert(TagKey(stored), "none")>> \o Tail(todo[r]) \in Seq(Stmt)
    BY <2>4, <2>5
  <2>7. \/ tags' = [tags EXCEPT ![r] = Append(@, LookedUp(stored))]
        \/ tags' = [tags EXCEPT ![r] = Append(@, stored)]
    BY <1>2 DEF ResolveTag, stored
  <2>8. \/ todo' = [todo EXCEPT ![r] = Tail(@)]
        \/ todo' = [todo EXCEPT ![r] = <<Insert(TagKey(stored), "none")>> \o Tail(@)]
    BY <1>2 DEF ResolveTag, stored
  <2>9. tags' \in [Request -> Seq(Name)]
    <3>1. tags \in [Request -> Seq(Name)]
      BY DEF TypeOK
    <3> DEFINE asked == LookedUp(stored)
    <3>2. asked \in Name /\ stored \in Name
      BY <2>3
    <3>3. \/ tags' = [tags EXCEPT ![r] = Append(tags[r], asked)]
          \/ tags' = [tags EXCEPT ![r] = Append(tags[r], stored)]
      BY <2>7
    <3> HIDE DEF asked, Name
    <3>4. tags[r] \in Seq(Name)
      BY <3>1
    <3>5. Append(tags[r], asked) \in Seq(Name) /\ Append(tags[r], stored) \in Seq(Name)
      BY <3>2, <3>4
    <3> QED BY <3>1, <3>3, <3>5
  <2>10. todo' \in [Request -> Seq(Stmt)]
    <3>1. todo \in [Request -> Seq(Stmt)]
      BY DEF TypeOK
    <3> DEFINE more == <<Insert(TagKey(stored), "none")>> \o Tail(todo[r])
    <3>2. todo' = [todo EXCEPT ![r] = Tail(todo[r])] \/ todo' = [todo EXCEPT ![r] = more]
      BY <2>8
    <3> HIDE DEF more, Stmt
    <3>3. more \in Seq(Stmt)
      BY <2>6 DEF more
    <3> QED BY <2>5, <3>1, <3>2, <3>3
  <2> QED BY <1>2, <2>9, <2>10 DEF ResolveTag, TypeOK
<1>3. CASE InsertRow(r)
  <2> DEFINE row == [key |-> Head(todo[r]).key, role |-> Head(todo[r]).role, by |-> r,
                     tags |-> Links(r, Head(todo[r]).key)]
  <2>1. row \in Row /\ todo[r] # <<>>
    BY <1>3, NewRowType DEF InsertRow, At
  <2>2. CASE pending' = [pending EXCEPT ![r] = @ \cup {row}] /\ Advance(r)
    <3> HIDE DEF row
    <3>1. pending' \in [Request -> SUBSET Row]
      BY <2>1, <2>2 DEF TypeOK
    <3> QED BY <1>3, <2>1, <2>2, <3>1, AdvanceType DEF InsertRow, TypeOK
  <2>3. CASE Raise(r, 500)
    BY <1>3, <2>3, RaiseType DEF InsertRow, TypeOK
  <2> QED BY <1>3, <2>2, <2>3 DEF InsertRow
<1>4. CASE CommitRows(r)
  BY <1>4, AdvanceType DEF CommitRows, At, TypeOK
<1>5. CASE RefreshRow(r)
  BY <1>5, AdvanceType DEF RefreshRow, At, TypeOK
<1>6. CASE EnqueueJob(r)
  BY <1>6, AdvanceType DEF EnqueueJob, At, TypeOK
<1>7. CASE ReadRows(r)
  <2> DEFINE shown == {row \in rows : Matches(call[r], row)}
  <2>1. shown \subseteq Row
    BY DEF TypeOK
  <2>2. found' = [found EXCEPT ![r] = shown] /\ todo[r] # <<>>
    BY <1>7 DEF ReadRows, At
  <2> HIDE DEF shown
  <2>3. found' \in [Request -> SUBSET Row]
    BY <2>1, <2>2 DEF TypeOK
  <2> QED BY <1>7, <2>2, <2>3, AdvanceType DEF ReadRows, TypeOK
<1> QED BY <1>1, <1>2, <1>3, <1>4, <1>5, <1>6, <1>7 DEF Statement

LEMMA NextType == TypeOK /\ [Next]_vars => TypeOK'
<1> SUFFICES ASSUME TypeOK, [Next]_vars PROVE TypeOK'
  OBVIOUS
<1> USE DEF work
<1>1. CASE UNCHANGED vars
  BY <1>1 DEF vars, TypeOK
<1>2. ASSUME NEW r \in Request, Arrive(r) PROVE TypeOK'
  <2>1. PICK c \in Call[r] : /\ call' = [call EXCEPT ![r] = c]
                            /\ todo' = [todo EXCEPT ![r] = Plan(r, c)]
    BY <1>2 DEF Arrive
  <2>2. c \in Operation
    BY RecordsAssumption
  <2>3. Plan(r, c) \in Seq(Stmt)
    BY <2>2, PlanType
  <2> HIDE DEF Stmt
  <2>4. todo' \in [Request -> Seq(Stmt)] /\ call' \in [Request -> Operation \cup {None}]
    BY <2>1, <2>2, <2>3 DEF TypeOK
  <2> QED BY <1>2, <2>4 DEF Arrive, TypeOK
<1>3. ASSUME NEW r \in Request, AbortVictim(r) PROVE TypeOK'
  BY <1>3, RaiseType DEF AbortVictim, TypeOK
<1>4. ASSUME NEW r \in Request, StatementError(r) PROVE TypeOK'
  <2>1. errors' \in 0 .. MaxErrors /\ hit' \subseteq Request /\ todo[r] # <<>>
    BY <1>4, RecordsAssumption DEF StatementError, TypeOK
  <2>2. CASE Raise(r, 500) /\ UNCHANGED jobs /\ rows' \in {rows, rows \cup pending[r]}
    BY <1>4, <2>1, <2>2, RaiseType DEF StatementError, TypeOK
  <2>3. CASE /\ Advance(r) /\ UNCHANGED <<rows, pending>>
             /\ jobs' = jobs \/ jobs' = [jobs EXCEPT ![r] = @ + 1]
    <3>1. jobs' \in [Request -> Nat]
      <4>1. jobs \in [Request -> Nat] /\ jobs[r] + 1 \in Nat
        BY DEF TypeOK
      <4> QED BY <2>3, <4>1
    <3>2. /\ todo' \in [Request -> Seq(Stmt)]
          /\ answer' \in [Request -> {0, 200, 201, 400, 403, 404, 500}]
      BY <2>1, <2>3, AdvanceType
    <3>3. UNCHANGED <<rows, pending, tags, found, call, before>>
      BY <1>4, <2>3 DEF StatementError
    <3> QED BY <2>1, <3>1, <3>2, <3>3 DEF TypeOK
  <2> QED BY <1>4, <2>2, <2>3 DEF StatementError
<1> QED BY <1>1, <1>2, <1>3, <1>4, StatementType DEF Next, Work

-----------------------------------------------------------------------------
(* The keys.                                                               *)

OnePerKey(set) == \A one, other \in set : one.key = other.key => one = other

Disjoint(one, other) == Keys(one) \cap Keys(other) = {}

KeysInv ==
  /\ OnePerKey(rows)
  /\ \A r \in Request : OnePerKey(pending[r]) /\ Disjoint(pending[r], rows)
  /\ \A r, q \in Request : r # q => Disjoint(pending[r], pending[q])

LEMMA OnePerKeyUnion ==
  ASSUME NEW one, NEW other, OnePerKey(one), OnePerKey(other), Disjoint(one, other)
  PROVE  OnePerKey(one \cup other)
BY DEF OnePerKey, Disjoint, Keys

LEMMA RaiseKeys ==
  ASSUME TypeOK, KeysInv, NEW r \in Request, NEW code, Raise(r, code),
         rows' \in {rows, rows \cup pending[r]}
  PROVE  KeysInv'
<1>1. \A q \in Request : pending'[q] = IF q = r THEN {} ELSE pending[q]
  BY DEF Raise, TypeOK
<1>2. OnePerKey(rows')
  BY OnePerKeyUnion DEF KeysInv, Disjoint
<1>3. ASSUME NEW q \in Request PROVE OnePerKey(pending'[q]) /\ Disjoint(pending'[q], rows')
  BY <1>1 DEF KeysInv, OnePerKey, Disjoint, Keys
<1>4. ASSUME NEW p \in Request, NEW q \in Request, p # q
      PROVE  Disjoint(pending'[p], pending'[q])
  BY <1>1, <1>4 DEF KeysInv, Disjoint, Keys
<1> QED BY <1>2, <1>3, <1>4 DEF KeysInv

\* A request that neither waits nor finds the key takes it.
LEMMA InsertKeys ==
  ASSUME TypeOK, KeysInv, NEW r \in Request, InsertRow(r)
  PROVE  KeysInv'
<1> DEFINE row == [key |-> Head(todo[r]).key, role |-> Head(todo[r]).role, by |-> r,
                   tags |-> Links(r, Head(todo[r]).key)]
<1>1. rows' = rows
  BY DEF InsertRow
<1>2. CASE Raise(r, 500)
  BY <1>1, <1>2, RaiseKeys
<1>3. CASE /\ Takes(r, Head(todo[r]).key)
           /\ pending' = [pending EXCEPT ![r] = @ \cup {row}]
  <2>1. row.key \notin Keys(rows) /\ row.key \notin Keys(pending[r])
    BY <1>3 DEF Takes, Visible, Keys
  <2>2. \A q \in Request : q # r => row.key \notin Keys(pending[q])
    BY DEF InsertRow, Waits
  <2> HIDE DEF row
  <2>3. \A q \in Request : pending'[q] = IF q = r THEN pending[r] \cup {row} ELSE pending[q]
    BY <1>3 DEF TypeOK
  <2>4. ASSUME NEW q \in Request PROVE OnePerKey(pending'[q]) /\ Disjoint(pending'[q], rows')
    BY <1>1, <2>1, <2>3 DEF KeysInv, OnePerKey, Disjoint, Keys
  <2>5. ASSUME NEW p \in Request, NEW q \in Request, p # q
        PROVE  Disjoint(pending'[p], pending'[q])
    BY <2>2, <2>3, <2>5 DEF KeysInv, Disjoint, Keys
  <2> QED BY <1>1, <2>4, <2>5 DEF KeysInv
<1> QED BY <1>2, <1>3 DEF InsertRow

LEMMA KeysStep == TypeOK /\ KeysInv /\ [Next]_vars => KeysInv'
<1> SUFFICES ASSUME TypeOK, KeysInv, [Next]_vars PROVE KeysInv'
  OBVIOUS
<1>1. UNCHANGED <<rows, pending>> => KeysInv'
  BY DEF KeysInv
<1>2. CASE UNCHANGED vars
  BY <1>1, <1>2 DEF vars
<1>3. ASSUME NEW r \in Request, Arrive(r) PROVE KeysInv'
  BY <1>1, <1>3 DEF Arrive
<1>4. ASSUME NEW r \in Request, Look(r) PROVE KeysInv'
  <2>1. UNCHANGED rows
    BY <1>4 DEF Look
  <2>2. UNCHANGED pending \/ Raise(r, Head(todo[r]).code)
    BY <1>4 DEF Look
  <2> QED BY <1>1, <2>1, <2>2, RaiseKeys
<1>5. ASSUME NEW r \in Request, CommitRows(r) PROVE KeysInv'
  <2>1. \A q \in Request : pending'[q] = IF q = r THEN {} ELSE pending[q]
    BY <1>5 DEF CommitRows, TypeOK
  <2>2. rows' = rows \cup pending[r]
    BY <1>5 DEF CommitRows
  <2>3. OnePerKey(rows')
    BY <2>2, OnePerKeyUnion DEF KeysInv, Disjoint
  <2>4. ASSUME NEW q \in Request PROVE OnePerKey(pending'[q]) /\ Disjoint(pending'[q], rows')
    BY <2>1, <2>2 DEF KeysInv, OnePerKey, Disjoint, Keys
  <2>5. ASSUME NEW p \in Request, NEW q \in Request, p # q
        PROVE  Disjoint(pending'[p], pending'[q])
    BY <2>1, <2>5 DEF KeysInv, Disjoint, Keys
  <2> QED BY <2>3, <2>4, <2>5 DEF KeysInv
<1>6. ASSUME NEW r \in Request,
             ResolveTag(r) \/ RefreshRow(r) \/ EnqueueJob(r) \/ ReadRows(r)
      PROVE  KeysInv'
  BY <1>1, <1>6 DEF ResolveTag, RefreshRow, EnqueueJob, ReadRows
<1>7. ASSUME NEW r \in Request, AbortVictim(r) PROVE KeysInv'
  BY <1>7, RaiseKeys DEF AbortVictim
<1>8. ASSUME NEW r \in Request, StatementError(r) PROVE KeysInv'
  <2>1. \/ Raise(r, 500) /\ rows' \in {rows, rows \cup pending[r]}
        \/ UNCHANGED <<rows, pending>>
    BY <1>8 DEF StatementError
  <2> QED BY <1>1, <2>1, RaiseKeys
<1> QED BY <1>2, <1>3, <1>4, <1>5, <1>6, <1>7, <1>8, InsertKeys DEF Next, Work, Statement

-----------------------------------------------------------------------------
(* What is left of a plan: lookups and inserts, then the commit, the       *)
(* refresh and the job.  Before the commit no row is there and each wanted *)
(* one is inserted or to be inserted; after it all are there.              *)

Left(q)    == {q[i] : i \in DOMAIN q}
Has(q, do) == \E s \in Left(q) : s.do = do

Rank(s) == CASE s.do = "commit"  -> 1
             [] s.do = "refresh" -> 2
             [] s.do = "enqueue" -> 3
             [] OTHER            -> 0

Follows(t, s) == Rank(s) < Rank(t) \/ (Rank(s) = 0 /\ Rank(t) = 0)
Ordered(q)    == \A i, j \in DOMAIN q : i < j => Follows(q[j], q[i])

Due(r)      == Wanted(r, call[r])
Notifies(c) == c.op \in {"register", "invite", "save"}

Writes            == {"insert", "resolve"}
Inserts(set, key) == \E s \in set : s.do = "insert" /\ s.key = key

OpenPlan(r) ==
  /\ Due(r) # {} /\ Mine(r) = {} /\ jobs[r] = 0
  /\ \A key \in Due(r) : key \in Keys(pending[r]) \/ Inserts(Left(todo[r]), key)
  /\ Notifies(call[r]) => Has(todo[r], "enqueue")

ClosedPlan(r) ==
  /\ pending[r] = {}
  /\ Mine(r) # {} => Due(r) # {} /\ Due(r) \subseteq Keys(Mine(r))
  /\ \A s \in Left(todo[r]) :
       IF Rank(s) = 0 THEN Due(r) = {} /\ s.do \notin Writes ELSE Mine(r) # {}
  /\ jobs[r] # 0 => Mine(r) # {} /\ jobs[r] = 1 /\ ~ Has(todo[r], "enqueue")
  /\ Notifies(call[r]) /\ r \notin hit /\ Mine(r) # {}
       => jobs[r] = 1 \/ Has(todo[r], "enqueue")

Answered(r) ==
  /\ todo[r] # <<>> \/ call[r] = None => answer[r] = 0
  /\ call[r] = None => todo[r] = <<>>
  /\ answer[r] = 201 => Mine(r) # {}
  /\ answer[r] \notin {0, 201} => Mine(r) = {} \/ r \in hit

PlanOf(r) ==
  /\ Ordered(todo[r])
  /\ \A row \in pending[r] : row.by = r
  /\ IF Has(todo[r], "commit") THEN OpenPlan(r) ELSE ClosedPlan(r)
  /\ Answered(r)

PlanInv == \A r \in Request : PlanOf(r)

LEMMA FollowsTypes ==
  \A s, t : Rank(s) \in 0 .. 3 /\ (Rank(s) = 1 <=> s.do = "commit")
            /\ (s.do \notin {"commit", "refresh", "enqueue"} <=> Rank(s) = 0)
            /\ (s.do = "refresh" => Rank(s) = 2) /\ (s.do = "enqueue" => Rank(s) = 3)
BY DEF Rank

\* Where the statements of a tail and of two plans in one stand.
LEMMA TailAt ==
  ASSUME NEW q \in Seq(Stmt), q # <<>>
  PROVE  /\ DOMAIN q = 1 .. Len(q) /\ Len(q) \in Nat /\ Len(q) > 0
         /\ DOMAIN Tail(q) = 1 .. (Len(q) - 1) /\ Head(q) = q[1]
         /\ \A i \in 1 .. (Len(q) - 1) : Tail(q)[i] = q[i + 1]
         /\ Tail(q) \in Seq(Stmt) /\ Len(Tail(q)) = Len(q) - 1
OBVIOUS

LEMMA ConcatAt ==
  ASSUME NEW p \in Seq(Stmt), NEW q \in Seq(Stmt)
  PROVE  /\ DOMAIN p = 1 .. Len(p) /\ Len(p) \in Nat
         /\ DOMAIN q = 1 .. Len(q) /\ Len(q) \in Nat
         /\ DOMAIN (p \o q) = 1 .. (Len(p) + Len(q))
         /\ \A i \in 1 .. (Len(p) + Len(q)) :
              (p \o q)[i] = IF i <= Len(p) THEN p[i] ELSE q[i - Len(p)]
OBVIOUS

\* The head comes off.
LEMMA TailLeft ==
  ASSUME NEW q \in Seq(Stmt), q # <<>>, Ordered(q)
  PROVE  /\ Left(q) = {Head(q)} \cup Left(Tail(q))
         /\ Ordered(Tail(q)) /\ \A s \in Left(Tail(q)) : Follows(s, Head(q))
         /\ Left(Tail(q)) # {} => Len(q) > 1
         /\ ~ Len(q) > 1 => Tail(q) = <<>>
<1>1. /\ DOMAIN q = 1 .. Len(q) /\ Len(q) \in Nat /\ Len(q) > 0
      /\ DOMAIN Tail(q) = 1 .. (Len(q) - 1) /\ Head(q) = q[1]
      /\ \A i \in 1 .. (Len(q) - 1) : Tail(q)[i] = q[i + 1]
      /\ Tail(q) \in Seq(Stmt) /\ Len(Tail(q)) = Len(q) - 1
  BY TailAt
<1>2. Left(q) \subseteq {Head(q)} \cup Left(Tail(q))
  <2> SUFFICES ASSUME NEW i \in 1 .. Len(q) PROVE q[i] \in {Head(q)} \cup Left(Tail(q))
    BY <1>1 DEF Left
  <2>1. CASE i = 1
    BY <1>1, <2>1
  <2>2. CASE i # 1
    <3>1. i - 1 \in 1 .. (Len(q) - 1) /\ Tail(q)[i - 1] = q[i]
      BY <1>1, <2>2
    <3> QED BY <1>1, <3>1 DEF Left
  <2> QED BY <2>1, <2>2
<1>3. Head(q) \in Left(q) /\ Left(Tail(q)) \subseteq Left(q)
  <2>1. Head(q) \in Left(q)
    BY <1>1 DEF Left
  <2>2. ASSUME NEW i \in 1 .. (Len(q) - 1) PROVE Tail(q)[i] \in Left(q)
    BY <1>1 DEF Left
  <2> QED BY <1>1, <2>1, <2>2 DEF Left
<1>4. Ordered(Tail(q))
  <2> SUFFICES ASSUME NEW i \in 1 .. (Len(q) - 1), NEW j \in 1 .. (Len(q) - 1), i < j
               PROVE  Follows(Tail(q)[j], Tail(q)[i])
    BY <1>1 DEF Ordered
  <2> QED BY <1>1 DEF Ordered
<1>5. \A s \in Left(Tail(q)) : Follows(s, Head(q))
  <2> SUFFICES ASSUME NEW i \in 1 .. (Len(q) - 1) PROVE Follows(Tail(q)[i], Head(q))
    BY <1>1 DEF Left
  <2> QED BY <1>1 DEF Ordered
<1>6. ASSUME Left(Tail(q)) # {} PROVE Len(q) > 1
  <2>1. PICK i \in DOMAIN Tail(q) : TRUE
    BY <1>6 DEF Left
  <2> QED BY <1>1, <2>1
<1>7. ASSUME ~ Len(q) > 1 PROVE Tail(q) = <<>>
  <2>1. Tail(q) \in Seq(Stmt) /\ Len(Tail(q)) = 0
    BY <1>1, <1>7
  <2> HIDE DEF Stmt
  <2>2. ASSUME NEW S, NEW t \in Seq(S), Len(t) = 0 PROVE t = <<>>
    BY <2>2
  <2> QED BY <2>1, <2>2
<1> QED BY <1>2, <1>3, <1>4, <1>5, <1>6, <1>7

\* Two parts of a plan in one.
LEMMA ConcatLeft ==
  ASSUME NEW p \in Seq(Stmt), NEW q \in Seq(Stmt)
  PROVE  /\ Left(p \o q) = Left(p) \cup Left(q)
         /\ Ordered(p) /\ Ordered(q) /\ (\A s \in Left(p), t \in Left(q) : Follows(t, s))
            => Ordered(p \o q)
<1>1. /\ DOMAIN p = 1 .. Len(p) /\ Len(p) \in Nat
      /\ DOMAIN q = 1 .. Len(q) /\ Len(q) \in Nat
      /\ DOMAIN (p \o q) = 1 .. (Len(p) + Len(q))
      /\ \A i \in 1 .. (Len(p) + Len(q)) :
           (p \o q)[i] = IF i <= Len(p) THEN p[i] ELSE q[i - Len(p)]
  BY ConcatAt
<1>2. Left(p \o q) \subseteq Left(p) \cup Left(q)
  <2> SUFFICES ASSUME NEW i \in 1 .. (Len(p) + Len(q))
               PROVE  (p \o q)[i] \in Left(p) \cup Left(q)
    BY <1>1 DEF Left
  <2>1. CASE i <= Len(p)
    BY <1>1, <2>1 DEF Left
  <2>2. CASE i > Len(p)
    <3>1. i - Len(p) \in 1 .. Len(q) /\ (p \o q)[i] = q[i - Len(p)]
      BY <1>1, <2>2
    <3> QED BY <1>1, <3>1 DEF Left
  <2> QED BY <1>1, <2>1, <2>2
<1>3. Left(p) \subseteq Left(p \o q)
  <2> SUFFICES ASSUME NEW i \in 1 .. Len(p) PROVE p[i] \in Left(p \o q)
    BY <1>1 DEF Left
  <2>1. i \in 1 .. (Len(p) + Len(q)) /\ (p \o q)[i] = p[i]
    BY <1>1
  <2> QED BY <1>1, <2>1 DEF Left
<1>4. Left(q) \subseteq Left(p \o q)
  <2> SUFFICES ASSUME NEW i \in 1 .. Len(q) PROVE q[i] \in Left(p \o q)
    BY <1>1 DEF Left
  <2>1. i + Len(p) \in 1 .. (Len(p) + Len(q)) /\ (p \o q)[i + Len(p)] = q[i]
    BY <1>1
  <2> QED BY <1>1, <2>1 DEF Left
<1>5. ASSUME Ordered(p), Ordered(q), \A s \in Left(p), t \in Left(q) : Follows(t, s)
      PROVE  Ordered(p \o q)
  <2> SUFFICES ASSUME NEW i \in 1 .. (Len(p) + Len(q)), NEW j \in 1 .. (Len(p) + Len(q)), i < j
               PROVE  Follows((p \o q)[j], (p \o q)[i])
    BY <1>1 DEF Ordered
  <2>1. CASE j <= Len(p)
    BY <1>1, <1>5, <2>1 DEF Ordered
  <2>2. CASE i > Len(p)
    <3>1. i - Len(p) \in 1 .. Len(q) /\ j - Len(p) \in 1 .. Len(q) /\ i - Len(p) < j - Len(p)
      BY <1>1, <2>2
    <3>2. (p \o q)[i] = q[i - Len(p)] /\ (p \o q)[j] = q[j - Len(p)]
      BY <1>1, <2>2
    <3> QED BY <1>1, <1>5, <3>1, <3>2 DEF Ordered
  <2>3. CASE i <= Len(p) /\ j > Len(p)
    <3>1. (p \o q)[i] = p[i] /\ p[i] \in Left(p)
      BY <1>1, <2>3 DEF Left
    <3>2. j - Len(p) \in 1 .. Len(q) /\ (p \o q)[j] = q[j - Len(p)]
      BY <1>1, <2>3
    <3>3. q[j - Len(p)] \in Left(q)
      BY <1>1, <3>2 DEF Left
    <3> QED BY <1>5, <3>1, <3>2, <3>3
  <2> QED BY <1>1, <2>1, <2>2, <2>3
<1> QED BY <1>2, <1>3, <1>4, <1>5

LEMMA PlanFacts ==
  ASSUME NEW r \in Request, NEW c \in Operation
  PROVE  /\ Ordered(Plan(r, c))
         /\ IF Has(Plan(r, c), "commit")
            THEN /\ Wanted(r, c) # {}
                 /\ \A key \in Wanted(r, c) : Inserts(Left(Plan(r, c)), key)
                 /\ Notifies(c) => Has(Plan(r, c), "enqueue")
            ELSE /\ Wanted(r, c) = {}
                 /\ \A s \in Left(Plan(r, c)) : Rank(s) = 0 /\ s.do \notin Writes
<1>1. /\ \A key, code : Rank(Present(key, code)) = 0 /\ Rank(Absent(key, code)) = 0
      /\ \A key : Rank(Authority(key)) = 0
      /\ \A key, role : Rank(Insert(key, role)) = 0
      /\ \A label : Rank(Resolve(label)) = 0
      /\ Rank(Read) = 0 /\ Rank(Commit) = 1 /\ Rank(Refresh) = 2 /\ Rank(Enqueue) = 3
  BY DEF Rank, Present, Absent, Authority, Insert, Resolve, Read, Commit, Refresh, Enqueue
<1>2. /\ \A s : s.do = "commit" <=> Rank(s) = 1
      /\ Commit.do = "commit" /\ Enqueue.do = "enqueue"
      /\ \A key, role : Insert(key, role).do = "insert" /\ Insert(key, role).key = key
  BY DEF Rank, Insert, Commit, Enqueue
<1>3. CASE c.op = "register"
  <2>1. Plan(r, c) = << Absent(UserKey(c.user), 400), Insert(UserKey(c.user), "none"),
                        Commit, Refresh, Enqueue >>
    BY <1>3 DEF Plan, RegisterUser
  <2>2. Wanted(r, c) = {UserKey(c.user)}
    BY <1>3 DEF Wanted
  <2>3. Ordered(Plan(r, c))
    BY <1>1, <2>1 DEF Ordered, Follows
  <2>4. Left(Plan(r, c)) = { Absent(UserKey(c.user), 400), Insert(UserKey(c.user), "none"),
                             Commit, Refresh, Enqueue }
    BY <2>1 DEF Left
  <2> QED BY <1>2, <2>2, <2>3, <2>4 DEF Has, Inserts
<1>4. CASE c.op = "create"
  <2>1. Plan(r, c) = << Insert(WorkspaceKey(r), "none"), Insert(MemberKey(r, c.by), "owner"),
                        Commit, Refresh >>
    BY <1>4 DEF Plan, CreateWorkspace
  <2>2. Wanted(r, c) = {WorkspaceKey(r), MemberKey(r, c.by)} /\ ~ Notifies(c)
    BY <1>4 DEF Wanted, Notifies
  <2>3. Ordered(Plan(r, c))
    BY <1>1, <2>1 DEF Ordered, Follows
  <2>4. Left(Plan(r, c)) = { Insert(WorkspaceKey(r), "none"),
                             Insert(MemberKey(r, c.by), "owner"), Commit, Refresh }
    BY <2>1 DEF Left
  <2> QED BY <1>2, <2>2, <2>3, <2>4 DEF Has, Inserts
<1>5. CASE c.op = "invite"
  <2>1. Plan(r, c) =
          << Authority(MemberKey(c.workspace, c.by)), Present(UserKey(c.user), 404),
             Absent(MemberKey(c.workspace, c.user), 400),
             Insert(MemberKey(c.workspace, c.user), c.role), Commit, Enqueue >>
    BY <1>5 DEF Plan, AddMember
  <2>2. Wanted(r, c) = {MemberKey(c.workspace, c.user)}
    BY <1>5 DEF Wanted
  <2>3. Ordered(Plan(r, c))
    BY <1>1, <2>1 DEF Ordered, Follows
  <2>4. Left(Plan(r, c)) =
          { Authority(MemberKey(c.workspace, c.by)), Present(UserKey(c.user), 404),
            Absent(MemberKey(c.workspace, c.user), 400),
            Insert(MemberKey(c.workspace, c.user), c.role), Commit, Enqueue }
    BY <2>1 DEF Left
  <2> QED BY <1>2, <2>2, <2>3, <2>4 DEF Has, Inserts
<1>6. CASE c.op = "room"
  <2>1. Plan(r, c) = << Present(MemberKey(c.workspace, c.by), 403),
                        Insert(RoomKey(c.workspace, r), "none"), Commit, Refresh >>
    BY <1>6 DEF Plan, CreateRoom
  <2>2. Wanted(r, c) = {RoomKey(c.workspace, r)} /\ ~ Notifies(c)
    BY <1>6 DEF Wanted, Notifies
  <2>3. Ordered(Plan(r, c))
    BY <1>1, <2>1 DEF Ordered, Follows
  <2>4. Left(Plan(r, c)) = { Present(MemberKey(c.workspace, c.by), 403),
                             Insert(RoomKey(c.workspace, r), "none"), Commit, Refresh }
    BY <2>1 DEF Left
  <2> QED BY <1>2, <2>2, <2>3, <2>4 DEF Has, Inserts
<1>7. CASE c.op \in {"notes", "members", "rooms", "workspaces"}
  <2>1. Plan(r, c) \in { <<Present(MemberKey(c.workspace, c.by), 403), Read>>, <<Read>> }
    BY <1>7 DEF Plan, List
  <2>2. Wanted(r, c) = {}
    BY <1>7 DEF Wanted
  <2>3. Ordered(Plan(r, c))
    BY <1>1, <2>1 DEF Ordered, Follows
  <2>4. \A s \in Left(Plan(r, c)) : Rank(s) = 0 /\ s.do \notin Writes
    BY <1>1, <2>1 DEF Left, Present, Read, Writes
  <2> QED BY <1>2, <2>2, <2>3, <2>4 DEF Has
<1>8. CASE c.op = "save"
  <2> DEFINE look  == <<Present(MemberKey(c.workspace, c.by), 403)>>
             names == [i \in DOMAIN c.labels |-> Resolve(c.labels[i])]
             write == <<Insert(NoteKey(c.workspace, r), "none"), Commit, Enqueue>>
  <2>1. Plan(r, c) = look \o names \o write
    BY <1>8 DEF Plan, CreateNote
  <2>2. Wanted(r, c) = {NoteKey(c.workspace, r)}
    BY <1>8 DEF Wanted
  <2>3. look \in Seq(Stmt) /\ names \in Seq(Stmt) /\ write \in Seq(Stmt)
    BY <1>8, SaveType
  <2>4. /\ Ordered(look) /\ Left(look) = {Present(MemberKey(c.workspace, c.by), 403)}
        /\ Ordered(names) /\ Left(names) = {Resolve(c.labels[i]) : i \in DOMAIN c.labels}
    <3>1. Ordered(look) /\ Left(look) = {Present(MemberKey(c.workspace, c.by), 403)}
      BY DEF Ordered, Left
    <3>2. \A i \in DOMAIN names : names[i] = Resolve(c.labels[i]) /\ Rank(names[i]) = 0
      BY <1>1
    <3>3. Ordered(names)
      BY <3>2 DEF Ordered, Follows
    <3>4. Left(names) = {Resolve(c.labels[i]) : i \in DOMAIN c.labels}
      BY <3>2 DEF Left
    <3> QED BY <3>1, <3>3, <3>4
  <2>5. Ordered(write)
    BY <1>1 DEF Ordered, Follows
  <2>6. Left(write) = {Insert(NoteKey(c.workspace, r), "none"), Commit, Enqueue}
    BY DEF Left
  <2>7. /\ \A s \in Left(look) \cup Left(names) : Rank(s) = 0
        /\ \A s \in Left(write) : Rank(s) \in 0 .. 3
    BY <1>1, <2>4, <2>6
  <2>8. \A s \in Left(look) \cup Left(names), t \in Left(names) \cup Left(write) : Follows(t, s)
    BY <2>7 DEF Follows
  <2> HIDE DEF look, names, write, Stmt
  <2>9. look \o names \in Seq(Stmt)
    BY <2>3
  <2>10. Left(look \o names) = Left(look) \cup Left(names) /\ Ordered(look \o names)
    BY <2>3, <2>4, <2>8, ConcatLeft
  <2>11. /\ Left(Plan(r, c)) = Left(look) \cup Left(names) \cup Left(write)
         /\ Ordered(Plan(r, c))
    BY <2>1, <2>3, <2>5, <2>8, <2>9, <2>10, ConcatLeft
  <2>12. {Insert(NoteKey(c.workspace, r), "none"), Commit, Enqueue} \subseteq Left(Plan(r, c))
    BY <2>6, <2>11
  <2> QED BY <1>2, <2>2, <2>11, <2>12 DEF Has, Inserts
<1> QED BY <1>3, <1>4, <1>5, <1>6, <1>7, <1>8 DEF Operation

\* A step of r leaves the other requests where they are.
LEMMA OthersKeep ==
  ASSUME PlanInv, NEW r \in Request, NEW q \in Request, q # r,
         todo'[q] = todo[q], pending'[q] = pending[q], call'[q] = call[q],
         answer'[q] = answer[q], jobs'[q] = jobs[q], hit \subseteq hit',
         rows \subseteq rows', \A row \in rows' \ rows : row.by = r
  PROVE  PlanOf(q)'
<1>1. Mine(q)' = Mine(q)
  BY DEF Mine
<1>2. Due(q)' = Due(q) /\ PlanOf(q)
  BY DEF PlanInv, Due
<1> QED BY <1>1, <1>2 DEF PlanOf, OpenPlan, ClosedPlan, Answered

\* Where the first statement of a plan stands, and what is behind it.
LEMMA Position ==
  ASSUME TypeOK, NEW r \in Request, PlanOf(r), todo[r] # <<>>
  PROVE  /\ todo[r] \in Seq(Stmt) /\ Left(todo[r]) = {Head(todo[r])} \cup Left(Tail(todo[r]))
         /\ Ordered(Tail(todo[r]))
         /\ \A s \in Left(Tail(todo[r])) : Follows(s, Head(todo[r]))
         /\ Rank(Head(todo[r])) = 0 /\ Due(r) # {} => Has(todo[r], "commit")
         /\ Head(todo[r]).do \in Writes => Due(r) # {}
         /\ Rank(Head(todo[r])) # 0 => ~ Has(Tail(todo[r]), "commit")
         /\ answer[r] = 0 /\ call[r] # None
<1>1. todo[r] \in Seq(Stmt)
  BY DEF TypeOK
<1>2. /\ Left(todo[r]) = {Head(todo[r])} \cup Left(Tail(todo[r]))
      /\ Ordered(Tail(todo[r])) /\ \A s \in Left(Tail(todo[r])) : Follows(s, Head(todo[r]))
  BY <1>1, TailLeft DEF PlanOf
<1>3. Rank(Head(todo[r])) = 0 /\ Due(r) # {} => Has(todo[r], "commit")
  BY <1>2 DEF PlanOf, ClosedPlan
<1>4. Rank(Head(todo[r])) # 0 => ~ Has(Tail(todo[r]), "commit")
  BY <1>2, FollowsTypes DEF Follows, Has
<1>5. Head(todo[r]).do \in Writes => Due(r) # {}
  BY <1>2, FollowsTypes DEF PlanOf, OpenPlan, ClosedPlan, Writes
<1> QED BY <1>1, <1>2, <1>3, <1>4, <1>5 DEF PlanOf, Answered

\* At the commit everything the answer stands for is in the transaction.
LEMMA AtCommit ==
  ASSUME TypeOK, NEW r \in Request, PlanOf(r), At(r, "commit")
  PROVE  /\ Due(r) # {} /\ Mine(r) = {} /\ jobs[r] = 0
         /\ Due(r) \subseteq Keys(pending[r])
         /\ \A s \in Left(Tail(todo[r])) : Rank(s) > 1
         /\ Notifies(call[r]) => Has(Tail(todo[r]), "enqueue")
<1>1. todo[r] # <<>> /\ Head(todo[r]).do = "commit" /\ Rank(Head(todo[r])) = 1
  BY FollowsTypes DEF At
<1>2. /\ Left(todo[r]) = {Head(todo[r])} \cup Left(Tail(todo[r]))
      /\ \A s \in Left(Tail(todo[r])) : Follows(s, Head(todo[r]))
  BY <1>1, Position
<1>3. OpenPlan(r)
  BY <1>1, <1>2 DEF PlanOf, Has
<1>4. \A s \in Left(Tail(todo[r])) : Rank(s) > 1 /\ s.do # "insert"
  BY <1>1, <1>2, FollowsTypes DEF Follows
<1>5. \A key : ~ Inserts(Left(todo[r]), key)
  BY <1>1, <1>2, <1>4 DEF Inserts
<1>6. Notifies(call[r]) => Has(Tail(todo[r]), "enqueue")
  BY <1>1, <1>2, <1>3 DEF OpenPlan, Has
<1> QED BY <1>3, <1>4, <1>5, <1>6 DEF OpenPlan

\* What commits is what r has inserted.
LEMMA CommittedMine ==
  ASSUME NEW r \in Request, PlanOf(r), Mine(r) = {}, rows' = rows \cup pending[r]
  PROVE  Mine(r)' = pending[r]
BY DEF PlanOf, Mine

\* The transaction is given up: before the commit nothing is left, after it
\* only an error does that.
LEMMA RaisePlan ==
  ASSUME TypeOK, NEW r \in Request, PlanOf(r), todo[r] # <<>>,
         NEW code \in {400, 403, 404, 500}, Raise(r, code),
         UNCHANGED <<call, jobs>>, hit \subseteq hit',
         \/ rows' = rows /\ (Rank(Head(todo[r])) = 0 \/ r \in hit')
         \/ At(r, "commit") /\ r \in hit' /\ rows' = rows \cup pending[r]
  PROVE  PlanOf(r)'
<1>1. todo'[r] = <<>> /\ pending'[r] = {} /\ answer'[r] = code
  BY DEF Raise, TypeOK
<1>2. Left(todo[r])' = {} /\ ~ Has(todo[r], "commit")' /\ ~ Has(todo[r], "enqueue")'
  BY <1>1 DEF Left, Has
<1>3. Ordered(todo[r])'
  BY <1>1 DEF Ordered
<1>4. Due(r)' = Due(r) /\ call'[r] # None
  BY Position DEF Due
<1>5. (Mine(r)' = {} \/ r \in hit') /\ ClosedPlan(r)'
  <2>1. CASE rows' = rows /\ Rank(Head(todo[r])) = 0
    <3>1. Mine(r) = {} /\ jobs[r] = 0
      BY <2>1, Position DEF PlanOf, OpenPlan, ClosedPlan
    <3>2. Mine(r)' = {}
      BY <2>1, <3>1 DEF Mine
    <3> QED BY <1>1, <1>2, <3>1, <3>2 DEF ClosedPlan
  <2>2. CASE rows' = rows /\ r \in hit'
    <3>1. Mine(r)' = Mine(r)
      BY <2>2 DEF Mine
    <3>2. /\ Mine(r) # {} => Due(r) # {} /\ Due(r) \subseteq Keys(Mine(r))
          /\ jobs[r] # 0 => Mine(r) # {} /\ jobs[r] = 1
      BY DEF PlanOf, OpenPlan, ClosedPlan
    <3> QED BY <1>1, <1>2, <1>4, <2>2, <3>1, <3>2 DEF ClosedPlan
  <2>3. CASE At(r, "commit") /\ r \in hit' /\ rows' = rows \cup pending[r]
    <3>1. Mine(r)' = pending[r]
      BY <2>3, AtCommit, CommittedMine
    <3> QED BY <1>1, <1>2, <1>4, <2>3, <3>1, AtCommit DEF ClosedPlan
  <2> QED BY <2>1, <2>2, <2>3
<1>6. Answered(r)'
  BY <1>1, <1>4, <1>5 DEF Answered
<1> QED BY <1>1, <1>2, <1>3, <1>5, <1>6 DEF PlanOf

\* The statement before the commit is done.
LEMMA AdvanceOpen ==
  ASSUME TypeOK, NEW r \in Request, PlanOf(r), todo[r] # <<>>, Rank(Head(todo[r])) = 0,
         Advance(r), UNCHANGED <<call, rows, jobs, hit>>, pending[r] \subseteq pending'[r],
         \/ Head(todo[r]).do # "insert" /\ pending'[r] = pending[r]
         \/ /\ Head(todo[r]).do = "insert" /\ Head(todo[r]).key \in Keys(pending'[r])
            /\ \A row \in pending'[r] \ pending[r] : row.by = r
            /\ Due(r) # {}
  PROVE  PlanOf(r)'
<1>1. /\ todo'[r] = Tail(todo[r])
      /\ answer'[r] = IF Len(todo[r]) > 1 THEN 0 ELSE IF Due(r) = {} THEN 200 ELSE 201
  BY DEF Advance, TypeOK, Due
<1>2. Due(r)' = Due(r) /\ Mine(r)' = Mine(r)
  BY DEF Due, Mine
<1>3. /\ todo[r] \in Seq(Stmt) /\ Left(todo[r]) = {Head(todo[r])} \cup Left(Tail(todo[r]))
      /\ Ordered(Tail(todo[r])) /\ call[r] # None
      /\ Due(r) # {} => Has(todo[r], "commit")
  BY Position
<1>4. Head(todo[r]).do \notin {"commit", "enqueue"}
  BY FollowsTypes
<1>5. \A do \in {"commit", "enqueue"} : Has(Tail(todo[r]), do) <=> Has(todo[r], do)
  BY <1>3, <1>4 DEF Has
<1>6. CASE Has(todo[r], "commit")
  <2>1. OpenPlan(r)
    BY <1>6 DEF PlanOf
  <2>2. OpenPlan(r)'
    <3>1. \A key \in Due(r) : key \in Keys(pending'[r]) \/ Inserts(Left(Tail(todo[r])), key)
      BY <1>3, <2>1 DEF OpenPlan, Inserts, Keys
    <3> QED BY <1>1, <1>2, <1>5, <2>1, <3>1 DEF OpenPlan
  <2>3. Left(Tail(todo[r])) # {}
    BY <1>5, <1>6 DEF Has
  <2>4. answer'[r] = 0
    BY <1>1, <1>3, <2>3, TailLeft DEF PlanOf
  <2> QED BY <1>1, <1>2, <1>3, <1>5, <1>6, <2>2, <2>4 DEF PlanOf, Answered
<1>7. CASE ~ Has(todo[r], "commit")
  <2>1. Due(r) = {} /\ Mine(r) = {} /\ pending'[r] = {} /\ jobs[r] = 0 /\ ClosedPlan(r)
    BY <1>3, <1>7 DEF PlanOf, ClosedPlan
  <2>2. ClosedPlan(r)'
    BY <1>1, <1>2, <1>3, <1>5, <2>1 DEF ClosedPlan
  <2>3. todo'[r] # <<>> => answer'[r] = 0
    BY <1>1, <1>3, TailLeft DEF PlanOf
  <2>4. answer'[r] \in {0, 200}
    BY <1>1, <2>1
  <2> QED BY <1>1, <1>2, <1>3, <1>5, <1>7, <2>1, <2>2, <2>3, <2>4 DEF PlanOf, Answered
<1> QED BY <1>6, <1>7

\* The statement after the commit is done; the last one may be the job.
LEMMA AdvanceClosed ==
  ASSUME TypeOK, NEW r \in Request, PlanOf(r), todo[r] # <<>>, Rank(Head(todo[r])) > 1,
         Advance(r), UNCHANGED <<call, rows, pending>>, hit \subseteq hit',
         \/ Head(todo[r]).do = "enqueue" /\ jobs'[r] = jobs[r] + 1
         \/ (Head(todo[r]).do = "refresh" \/ r \in hit') /\ jobs'[r] = jobs[r]
  PROVE  PlanOf(r)'
<1>1. /\ todo'[r] = Tail(todo[r])
      /\ answer'[r] = IF Len(todo[r]) > 1 THEN 0 ELSE IF Due(r) = {} THEN 200 ELSE 201
  BY DEF Advance, TypeOK, Due
<1>2. Due(r)' = Due(r) /\ Mine(r)' = Mine(r)
  BY DEF Due, Mine
<1>3. /\ todo[r] \in Seq(Stmt) /\ Left(todo[r]) = {Head(todo[r])} \cup Left(Tail(todo[r]))
      /\ Ordered(Tail(todo[r])) /\ call[r] # None
      /\ \A s \in Left(Tail(todo[r])) : Follows(s, Head(todo[r]))
      /\ ~ Has(Tail(todo[r]), "commit")
  <2>1. Rank(Head(todo[r])) # 0
    BY FollowsTypes
  <2> QED BY <2>1, Position
<1>4. ~ Has(todo[r], "commit")
  BY <1>3, FollowsTypes DEF Has
<1>5. ClosedPlan(r) /\ Mine(r) # {}
  BY <1>3, <1>4 DEF PlanOf, ClosedPlan
<1>6. ~ (Head(todo[r]).do = "enqueue" /\ Has(Tail(todo[r]), "enqueue"))
  BY <1>3, FollowsTypes DEF Has, Follows
<1>7. Has(Tail(todo[r]), "enqueue") => Has(todo[r], "enqueue")
  BY <1>3 DEF Has
<1>8. Head(todo[r]).do = "enqueue" => jobs[r] = 0
  BY <1>3, <1>5 DEF ClosedPlan, Has
<1>9. Head(todo[r]).do = "refresh" => (Has(todo[r], "enqueue") => Has(Tail(todo[r]), "enqueue"))
  BY <1>3 DEF Has
<1>10. ClosedPlan(r)'
  <2>1. jobs'[r] # 0 => jobs'[r] = 1 /\ ~ Has(Tail(todo[r]), "enqueue")
    BY <1>5, <1>6, <1>7, <1>8 DEF ClosedPlan
  <2>2. Notifies(call[r]) /\ r \notin hit' => jobs'[r] = 1 \/ Has(Tail(todo[r]), "enqueue")
    BY <1>5, <1>8, <1>9 DEF ClosedPlan
  <2>3. \A s \in Left(Tail(todo[r])) : Rank(s) # 0
    BY <1>3, FollowsTypes DEF Follows
  <2> QED BY <1>1, <1>2, <1>5, <2>1, <2>2, <2>3 DEF ClosedPlan
<1>11. todo'[r] # <<>> => answer'[r] = 0
  BY <1>1, <1>3, TailLeft DEF PlanOf
<1>12. answer'[r] \in {0, 201}
  BY <1>1, <1>5 DEF ClosedPlan
<1>13. \A row \in pending'[r] : row.by = r
  BY DEF PlanOf
<1> QED BY <1>1, <1>2, <1>3, <1>5, <1>10, <1>11, <1>12, <1>13 DEF PlanOf, Answered

\* A request that has not arrived has done nothing.
LEMMA Idle ==
  ASSUME PlanInv, NEW r \in Request, call[r] = None
  PROVE  /\ todo[r] = <<>> /\ answer[r] = 0
         /\ pending[r] = {} /\ Mine(r) = {} /\ jobs[r] = 0
<1>1. todo[r] = <<>> /\ answer[r] = 0 /\ PlanOf(r)
  BY DEF PlanInv, PlanOf, Answered
<1>2. Left(todo[r]) = {} /\ Due(r) = {}
  BY <1>1 DEF Left, Due, Wanted, None
<1> QED BY <1>1, <1>2 DEF PlanOf, ClosedPlan, Has

LEMMA ArrivePlan ==
  ASSUME TypeOK, PlanInv, NEW r \in Request, Arrive(r)
  PROVE  PlanOf(r)'
<1>1. PICK c \in Call[r] : /\ call' = [call EXCEPT ![r] = c]
                           /\ todo' = [todo EXCEPT ![r] = Plan(r, c)]
  BY DEF Arrive
<1>2. c \in Operation /\ call[r] = None
  BY RecordsAssumption DEF Arrive
<1>3. call'[r] = c /\ todo'[r] = Plan(r, c)
  BY <1>1 DEF TypeOK
<1>4. answer[r] = 0
  BY <1>2, Idle
<1>6. pending[r] = {} /\ Mine(r) = {} /\ jobs[r] = 0
  BY <1>2, Idle
<1>7. UNCHANGED <<pending, answer, jobs, rows, hit>>
  BY DEF Arrive
<1>8. Mine(r)' = {} /\ Due(r)' = Wanted(r, c)
  BY <1>3, <1>6, <1>7 DEF Mine, Due
<1>9. c # None
  BY <1>2 DEF Operation, None
<1>10. Answered(r)'
  BY <1>3, <1>4, <1>7, <1>9 DEF Answered
<1>11. IF Has(todo[r], "commit")' THEN OpenPlan(r)' ELSE ClosedPlan(r)'
  BY <1>2, <1>3, <1>6, <1>7, <1>8, PlanFacts DEF OpenPlan, ClosedPlan
<1> QED BY <1>2, <1>3, <1>6, <1>7, <1>10, <1>11, PlanFacts DEF PlanOf

\* A tag that is not there puts an insert in front of what is left.
LEMMA ResolvePlan ==
  ASSUME TypeOK, NEW r \in Request, PlanOf(r), ResolveTag(r)
  PROVE  PlanOf(r)'
<1> DEFINE stored == Cleaned(Head(todo[r]).label)
           insert == Insert(TagKey(stored), "none")
<1>1. todo[r] # <<>> /\ Head(todo[r]).do = "resolve" /\ Rank(Head(todo[r])) = 0
  BY FollowsTypes DEF ResolveTag, At
<1>2. UNCHANGED <<rows, pending, answer, jobs, hit, call>>
  BY DEF ResolveTag, work
<1>3. Due(r)' = Due(r) /\ Mine(r)' = Mine(r)
  BY <1>2 DEF Due, Mine
<1>4. /\ Left(todo[r]) = {Head(todo[r])} \cup Left(Tail(todo[r])) /\ Ordered(Tail(todo[r]))
      /\ answer[r] = 0 /\ call[r] # None /\ todo[r] \in Seq(Stmt)
  BY <1>1, Position
<1>5. /\ insert.do = "insert" /\ Rank(insert) = 0
      /\ insert \in Stmt
  <2>1. Head(todo[r]) \in Stmt
    BY <1>1, <1>4
  <2>2. Head(todo[r]).label \in Label
    BY <1>1, <2>1 DEF Stmt
  <2>3. stored \in Name
    BY <2>2 DEF Label, Name, Cleaned
  <2> HIDE DEF stored
  <2> QED BY <2>3 DEF Insert, TagKey, Stmt, Key, Rank
<1> HIDE DEF insert
<1>6. \/ todo'[r] = Tail(todo[r])
      \/ todo'[r] = <<insert>> \o Tail(todo[r])
  BY DEF ResolveTag, TypeOK, insert
<1>7. /\ Ordered(todo'[r])
      /\ Left(Tail(todo[r])) \subseteq Left(todo'[r])
      /\ Left(todo'[r]) \subseteq {insert} \cup Left(Tail(todo[r]))
  <2>1. CASE todo'[r] = Tail(todo[r])
    BY <1>4, <2>1
  <2>2. CASE todo'[r] = <<insert>> \o Tail(todo[r])
    <3>1. Tail(todo[r]) \in Seq(Stmt) /\ <<insert>> \in Seq(Stmt)
      BY <1>1, <1>4, <1>5
    <3>2. Left(<<insert>>) = {insert} /\ Ordered(<<insert>>)
      BY DEF Left, Ordered
    <3>3. \A s \in Left(<<insert>>), t \in Left(Tail(todo[r])) : Follows(t, s)
      BY <1>5, <3>2, FollowsTypes DEF Follows
    <3> HIDE DEF Stmt
    <3> QED BY <1>4, <2>2, <3>1, <3>2, <3>3, ConcatLeft
  <2> QED BY <1>6, <2>1, <2>2
<1>8. \A do \in {"commit", "enqueue"} : Has(todo'[r], do) <=> Has(todo[r], do)
  BY <1>1, <1>4, <1>5, <1>7 DEF Has
<1>9. Answered(r)'
  BY <1>2, <1>4 DEF Answered
<1>10. Has(todo[r], "commit") /\ OpenPlan(r)
  BY <1>1, Position DEF PlanOf, Writes
<1>11. \A key : Inserts(Left(todo[r]), key) => Inserts(Left(todo'[r]), key)
  BY <1>1, <1>4, <1>7 DEF Inserts
<1>12. OpenPlan(r)'
  BY <1>2, <1>3, <1>8, <1>10, <1>11 DEF OpenPlan
<1> QED BY <1>2, <1>7, <1>8, <1>9, <1>10, <1>12 DEF PlanOf

LEMMA InsertPlan ==
  ASSUME TypeOK, NEW r \in Request, PlanOf(r), InsertRow(r)
  PROVE  PlanOf(r)'
<1>1. todo[r] # <<>> /\ Head(todo[r]).do = "insert" /\ Rank(Head(todo[r])) = 0
  BY FollowsTypes DEF InsertRow, At
<1>2. UNCHANGED <<rows, jobs, hit, call>>
  BY DEF InsertRow, work
<1>3. Due(r) # {}
  BY <1>1, Position DEF Writes
<1>4. CASE Raise(r, 500)
  BY <1>1, <1>2, <1>4, RaisePlan
<1> DEFINE row == [key |-> Head(todo[r]).key, role |-> Head(todo[r]).role, by |-> r,
                   tags |-> Links(r, Head(todo[r]).key)]
<1>5. CASE pending' = [pending EXCEPT ![r] = @ \cup {row}] /\ Advance(r)
  <2>1. row.by = r /\ row.key = Head(todo[r]).key
    OBVIOUS
  <2> HIDE DEF row
  <2>2. pending'[r] = pending[r] \cup {row}
    BY <1>5 DEF TypeOK
  <2>3. Head(todo[r]).key \in Keys(pending'[r])
    BY <2>1, <2>2 DEF Keys
  <2> QED BY <1>1, <1>2, <1>3, <1>5, <2>1, <2>2, <2>3, AdvanceOpen
<1> QED BY <1>4, <1>5 DEF InsertRow

LEMMA CommitPlan ==
  ASSUME TypeOK, NEW r \in Request, PlanOf(r), CommitRows(r)
  PROVE  PlanOf(r)'
<1>1. At(r, "commit") /\ todo[r] # <<>> /\ Rank(Head(todo[r])) = 1
  BY FollowsTypes DEF CommitRows, At
<1>2. /\ todo'[r] = Tail(todo[r])
      /\ answer'[r] = IF Len(todo[r]) > 1 THEN 0 ELSE IF Due(r) = {} THEN 200 ELSE 201
  BY DEF CommitRows, Advance, TypeOK, Due
<1>3. pending'[r] = {} /\ rows' = rows \cup pending[r] /\ UNCHANGED <<call, jobs, hit>>
  BY DEF CommitRows, TypeOK, work
<1>4. Mine(r)' = pending[r] /\ Due(r)' = Due(r)
  BY <1>1, <1>3, AtCommit, CommittedMine DEF Due
<1>5. Mine(r)' # {} /\ Due(r) \subseteq Keys(Mine(r)')
  BY <1>1, <1>4, AtCommit DEF Keys
<1>6. ~ Has(Tail(todo[r]), "commit")
  BY <1>1, Position
<1>7. Ordered(Tail(todo[r])) /\ todo[r] \in Seq(Stmt) /\ call[r] # None
  BY <1>1, Position
<1>8. ClosedPlan(r)'
  BY <1>1, <1>2, <1>3, <1>4, <1>5, AtCommit DEF ClosedPlan
<1>9. todo'[r] # <<>> => answer'[r] = 0
  BY <1>1, <1>2, <1>7, TailLeft DEF PlanOf
<1>10. answer'[r] \in {0, 201}
  BY <1>1, <1>2, AtCommit
<1> QED BY <1>2, <1>3, <1>5, <1>6, <1>7, <1>8, <1>9, <1>10 DEF PlanOf, Answered

LEMMA StatementPlan ==
  ASSUME TypeOK, NEW r \in Request, PlanOf(r), Statement(r)
  PROVE  PlanOf(r)'
<1>1. CASE Look(r)
  <2>1. /\ todo[r] # <<>> /\ Head(todo[r]).do \in {"present", "absent", "authority"}
        /\ UNCHANGED <<rows, jobs, hit, call>>
    BY <1>1 DEF Look, work
  <2>2. Rank(Head(todo[r])) = 0
    BY <2>1, FollowsTypes
  <2>3. Head(todo[r]).code \in {400, 403, 404, 500}
    <3>1. Head(todo[r]) \in Stmt
      BY <2>1 DEF TypeOK
    <3> QED BY <2>1, <3>1 DEF Stmt
  <2>4. CASE Advance(r) /\ UNCHANGED pending
    BY <2>1, <2>2, <2>4, AdvanceOpen
  <2>5. CASE Raise(r, Head(todo[r]).code)
    BY <2>1, <2>2, <2>3, <2>5, RaisePlan
  <2> QED BY <1>1, <2>4, <2>5 DEF Look
<1>2. CASE ReadRows(r)
  <2>1. Rank(Head(todo[r])) = 0 /\ Head(todo[r]).do # "insert" /\ todo[r] # <<>>
    BY <1>2, FollowsTypes DEF ReadRows, At
  <2> QED BY <1>2, <2>1, AdvanceOpen DEF ReadRows, work
<1>3. CASE RefreshRow(r)
  <2>1. Rank(Head(todo[r])) = 2 /\ Head(todo[r]).do = "refresh" /\ todo[r] # <<>>
    BY <1>3, FollowsTypes DEF RefreshRow, At
  <2>2. Rank(Head(todo[r])) > 1
    BY <2>1
  <2> QED BY <1>3, <2>1, <2>2, AdvanceClosed DEF RefreshRow, work
<1>4. CASE EnqueueJob(r)
  <2>1. Rank(Head(todo[r])) = 3 /\ Head(todo[r]).do = "enqueue" /\ todo[r] # <<>>
    BY <1>4, FollowsTypes DEF EnqueueJob, At
  <2>2. Rank(Head(todo[r])) > 1
    BY <2>1
  <2>3. jobs'[r] = jobs[r] + 1
    BY <1>4 DEF EnqueueJob, TypeOK
  <2> QED BY <1>4, <2>1, <2>2, <2>3, AdvanceClosed DEF EnqueueJob, work
<1>5. CASE InsertRow(r)
  BY <1>5, InsertPlan
<1> QED BY <1>1, <1>2, <1>3, <1>4, <1>5, ResolvePlan, CommitPlan DEF Statement

LEMMA ErrorPlan ==
  ASSUME TypeOK, NEW r \in Request, PlanOf(r), StatementError(r)
  PROVE  PlanOf(r)'
<1>1. todo[r] # <<>> /\ r \in hit' /\ hit \subseteq hit' /\ UNCHANGED call
  BY DEF StatementError, work
<1>2. CASE Raise(r, 500) /\ UNCHANGED <<rows, jobs>>
  BY <1>1, <1>2, RaisePlan
<1>3. CASE At(r, "commit") /\ Raise(r, 500) /\ UNCHANGED jobs /\ rows' = rows \cup pending[r]
  BY <1>1, <1>3, RaisePlan
<1>4. CASE /\ At(r, "enqueue") /\ Advance(r) /\ UNCHANGED <<rows, pending>>
           /\ jobs' = jobs \/ jobs' = [jobs EXCEPT ![r] = @ + 1]
  <2>1. Head(todo[r]).do = "enqueue" /\ Rank(Head(todo[r])) > 1
    <3>1. Head(todo[r]).do = "enqueue" /\ Rank(Head(todo[r])) = 3
      BY <1>4, FollowsTypes DEF At
    <3> QED BY <3>1
  <2>2. jobs'[r] = jobs[r] \/ jobs'[r] = jobs[r] + 1
    BY <1>4 DEF TypeOK
  <2> QED BY <1>1, <1>4, <2>1, <2>2, AdvanceClosed
<1> QED BY <1>2, <1>3, <1>4 DEF StatementError

\* A request's step concerns its own session.
LEMMA OwnStep ==
  ASSUME TypeOK, PlanInv, NEW r \in Request,
         Statement(r) \/ AbortVictim(r) \/ Arrive(r) \/ StatementError(r)
  PROVE  /\ hit \subseteq hit' /\ rows' \in {rows, rows \cup pending[r]}
         /\ \A q \in Request \ {r} :
              /\ todo'[q] = todo[q] /\ pending'[q] = pending[q] /\ call'[q] = call[q]
              /\ answer'[q] = answer[q] /\ jobs'[q] = jobs[q] /\ tags'[q] = tags[q]
              /\ found'[q] = found[q] /\ before'[q] = before[q]
<1> USE DEF work, Advance, Raise, TypeOK
<1>1. CASE Look(r)
  <2>1. UNCHANGED <<rows, hit, jobs, tags, found, call, before>>
    BY <1>1 DEF Look
  <2>2. (Advance(r) /\ UNCHANGED pending) \/ Raise(r, Head(todo[r]).code)
    BY <1>1 DEF Look
  <2> QED BY <2>1, <2>2
<1>2. CASE ResolveTag(r)
  BY <1>2 DEF ResolveTag
<1>3. CASE InsertRow(r)
  BY <1>3 DEF InsertRow
<1>4. CASE CommitRows(r) \/ RefreshRow(r) \/ EnqueueJob(r) \/ ReadRows(r)
  BY <1>4 DEF CommitRows, RefreshRow, EnqueueJob, ReadRows
<1>5. CASE AbortVictim(r)
  BY <1>5 DEF AbortVictim
<1>6. CASE Arrive(r)
  BY <1>6 DEF Arrive
<1>7. CASE StatementError(r)
  BY <1>7 DEF StatementError
<1> QED BY <1>1, <1>2, <1>3, <1>4, <1>5, <1>6, <1>7 DEF Statement

LEMMA InitPlan == Init => PlanInv
<1> SUFFICES ASSUME Init, NEW r \in Request PROVE PlanOf(r)
  BY DEF PlanInv
<1>1. /\ todo[r] = <<>> /\ pending[r] = {} /\ call[r] = None
      /\ answer[r] = 0 /\ jobs[r] = 0 /\ Mine(r) = {}
  BY RecordsAssumption DEF Init, Mine
<1>2. Left(todo[r]) = {} /\ Ordered(todo[r])
  BY <1>1 DEF Left, Ordered
<1> QED BY <1>1, <1>2 DEF PlanOf, ClosedPlan, Answered, Has

LEMMA PlanStep == TypeOK /\ PlanInv /\ [Next]_vars => PlanInv'
<1> SUFFICES ASSUME TypeOK, PlanInv, [Next]_vars PROVE PlanInv'
  OBVIOUS
<1>1. CASE UNCHANGED vars
  BY <1>1 DEF vars, work, PlanInv, PlanOf, OpenPlan, ClosedPlan, Answered, Mine, Due
<1>2. ASSUME NEW r \in Request,
             Statement(r) \/ AbortVictim(r) \/ Arrive(r) \/ StatementError(r)
      PROVE  PlanInv'
  <2>1. PlanOf(r) /\ \A row \in pending[r] : row.by = r
    BY DEF PlanInv, PlanOf
  <2>2. ASSUME NEW q \in Request, q # r PROVE PlanOf(q)'
    BY <1>2, <2>1, <2>2, OwnStep, OthersKeep
  <2>3. CASE AbortVictim(r)
    <3>1. todo[r] # <<>> /\ Rank(Head(todo[r])) = 0
      BY <2>3, FollowsTypes DEF AbortVictim, Deadlocked, Waits, At
    <3> QED BY <2>1, <2>2, <2>3, <3>1, RaisePlan DEF AbortVictim, PlanInv, work
  <2> QED BY <1>2, <2>1, <2>2, <2>3, StatementPlan, ArrivePlan, ErrorPlan DEF PlanInv
<1> QED BY <1>1, <1>2 DEF Next, Work

-----------------------------------------------------------------------------
(* What a plan still writes.  Each key is one the call answers for or the  *)
(* tag of one of its labels; a key to be inserted was not there when the   *)
(* request arrived, unless a lookup for it is still ahead or its label     *)
(* cleans twice; and no two statements write one key, unless two labels    *)
(* are one.  An insert that meets its key has therefore lost a race, but   *)
(* for the labels.                                                         *)

Target(s) == IF s.do = "insert" THEN s.key ELSE TagKey(Cleaned(s.label))
Asked(s)  == LookedUp(Cleaned(s.label))

Labels(c) == IF c.op = "save" THEN {c.labels[i] : i \in DOMAIN c.labels} ELSE {}
TagsOf(c) == {TagKey(Cleaned(label)) : label \in Labels(c)}
Twice(c)  == c.op = "save" /\ NamesTwice(c.labels)

\* t may stand behind s in a plan for c.
Apart(c, s, t) ==
  s.do \in Writes =>
    /\ t.do # "absent"
    /\ t.do \in Writes => Target(s) # Target(t) \/ Twice(c)
    /\ s.do = "resolve" /\ t.do = "resolve" => Asked(s) # Asked(t) \/ Twice(c)
    /\ s.do = "insert" /\ s.key[1] = "note" => t.do # "resolve"

Separate(c, q) == \A i, j \in DOMAIN q : i < j => Apart(c, q[i], q[j])

LookedFor(q, key) == \E t \in Left(q) : t.do = "absent" /\ t.key = key

Unstable(c, key) == \E label \in Labels(c) : key = TagKey(Cleaned(label)) /\ ~ Stable(label)

WriteOf(r) ==
  /\ Separate(call[r], todo[r])
  /\ Keys(pending[r]) \subseteq Due(r) \cup TagsOf(call[r])
  /\ \A s \in Left(todo[r]) :
       /\ s.do = "resolve" => s.label \in Labels(call[r])
       /\ s.do \in Writes =>
            /\ Target(s) \in Due(r) \cup TagsOf(call[r])
            /\ Target(s) \notin Keys(pending[r]) \/ Twice(call[r])
       /\ s.do = "insert" =>
            \/ s.key \notin Keys(before[r]) \/ LookedFor(todo[r], s.key)
            \/ Unstable(call[r], s.key)

\* The list of the note's tags: none is in it twice, and none is one that a
\* label still to be resolved asks for, unless two labels are one.
Linked(r) == {tags[r][i] : i \in DOMAIN tags[r]}

LinkOf(r) ==
  /\ call[r] = None => tags[r] = <<>>
  /\ \/ Twice(call[r])
     \/ /\ ~ LinksTwice(r)
        /\ \A s \in Left(todo[r]) : s.do = "resolve" =>
             \A name \in Linked(r) : LookedUp(name) # Asked(s)

LEMMA TailSeparate ==
  ASSUME NEW c, NEW q \in Seq(Stmt), q # <<>>, Separate(c, q)
  PROVE  Separate(c, Tail(q)) /\ \A s \in Left(Tail(q)) : Apart(c, Head(q), s)
<1>1. Separate(c, Tail(q))
  <2> SUFFICES ASSUME NEW i \in 1 .. (Len(q) - 1), NEW j \in 1 .. (Len(q) - 1), i < j
               PROVE  Apart(c, Tail(q)[i], Tail(q)[j])
    BY TailAt DEF Separate
  <2> QED BY TailAt DEF Separate
<1>2. \A s \in Left(Tail(q)) : Apart(c, Head(q), s)
  <2> SUFFICES ASSUME NEW i \in 1 .. (Len(q) - 1) PROVE Apart(c, Head(q), Tail(q)[i])
    BY TailAt DEF Left
  <2> QED BY TailAt DEF Separate
<1> QED BY <1>1, <1>2

LEMMA ConcatSeparate ==
  ASSUME NEW c, NEW p \in Seq(Stmt), NEW q \in Seq(Stmt), Separate(c, p), Separate(c, q),
         \A s \in Left(p), t \in Left(q) : Apart(c, s, t)
  PROVE  Separate(c, p \o q)
<1> SUFFICES ASSUME NEW i \in 1 .. (Len(p) + Len(q)), NEW j \in 1 .. (Len(p) + Len(q)), i < j
             PROVE  Apart(c, (p \o q)[i], (p \o q)[j])
  BY ConcatAt DEF Separate
<1>1. CASE j <= Len(p)
  BY <1>1, ConcatAt DEF Separate
<1>2. CASE i > Len(p)
  <2>1. /\ i - Len(p) \in 1 .. Len(q) /\ j - Len(p) \in 1 .. Len(q) /\ i - Len(p) < j - Len(p)
        /\ (p \o q)[i] = q[i - Len(p)] /\ (p \o q)[j] = q[j - Len(p)]
    BY <1>2, ConcatAt
  <2> QED BY <2>1, ConcatAt DEF Separate
<1>3. CASE i <= Len(p) /\ j > Len(p)
  <2>1. /\ i \in 1 .. Len(p) /\ j - Len(p) \in 1 .. Len(q)
        /\ (p \o q)[i] = p[i] /\ (p \o q)[j] = q[j - Len(p)]
    BY <1>3, ConcatAt
  <2>2. p[i] \in Left(p) /\ q[j - Len(p)] \in Left(q)
    BY <2>1, ConcatAt DEF Left
  <2> QED BY <2>1, <2>2
<1> QED BY <1>1, <1>2, <1>3, ConcatAt

\* The table of a key, and its parts.
LEMMA KeyParts ==
  /\ \A u : UserKey(u)[1] = "user"
  /\ \A w : WorkspaceKey(w)[1] = "workspace" /\ WorkspaceKey(w)[2] = w
  /\ \A w, u : /\ MemberKey(w, u)[1] = "member" /\ MemberKey(w, u)[2] = w
               /\ MemberKey(w, u)[3] = u
  /\ \A name : TagKey(name)[1] = "tag" /\ TagKey(name)[2] = name
  /\ \A w, n : /\ NoteKey(w, n)[1] = "note" /\ NoteKey(w, n)[2] = w /\ NoteKey(w, n)[3] = n
               /\ RoomKey(w, n)[1] = "room" /\ RoomKey(w, n)[2] = w /\ RoomKey(w, n)[3] = n
BY DEF UserKey, WorkspaceKey, MemberKey, TagKey, NoteKey, RoomKey

\* What the plan of a call writes.
LEMMA PlanWrites ==
  ASSUME NEW r \in Request, NEW c \in Call[r]
  PROVE  /\ Separate(c, Plan(r, c))
         /\ \A s \in Left(Plan(r, c)) :
              /\ s.do = "resolve" => s.label \in Labels(c)
              /\ s.do \in Writes => Target(s) \in Wanted(r, c) \cup TagsOf(c)
              /\ s.do = "insert" =>
                   /\ s.key \in Generated(r) \/ LookedFor(Plan(r, c), s.key)
                   /\ s.key[1] = "note" => \A label \in Labels(c) :
                        \E t \in Left(Plan(r, c)) : t.do = "resolve" /\ t.label = label
<1>1. /\ \A key, code : Present(key, code).do = "present" /\ Absent(key, code).do = "absent"
      /\ \A key, code : Absent(key, code).key = key
      /\ \A key : Authority(key).do = "authority"
      /\ Read.do = "read" /\ Commit.do = "commit" /\ Refresh.do = "refresh"
      /\ Enqueue.do = "enqueue"
  BY DEF Present, Absent, Authority, Read, Commit, Refresh, Enqueue
<1>2. /\ \A key, role : Insert(key, role).do = "insert" /\ Insert(key, role).key = key
      /\ \A label : Resolve(label).do = "resolve" /\ Resolve(label).label = label
  BY DEF Insert, Resolve
<1>3. /\ \A key, role : Target(Insert(key, role)) = key
      /\ \A label : Target(Resolve(label)) = TagKey(Cleaned(label))
  BY <1>2 DEF Target
<1>4. c \in Operation
  BY RecordsAssumption
<1>5. CASE c.op = "register"
  <2>1. Plan(r, c) = << Absent(UserKey(c.user), 400), Insert(UserKey(c.user), "none"),
                        Commit, Refresh, Enqueue >>
    BY <1>5 DEF Plan, RegisterUser
  <2>2. Wanted(r, c) = {UserKey(c.user)} /\ Labels(c) = {}
    BY <1>5 DEF Wanted, Labels
  <2>3. Separate(c, Plan(r, c))
    BY <1>1, <1>2, <2>1 DEF Separate, Apart, Writes
  <2>4. Left(Plan(r, c)) = { Absent(UserKey(c.user), 400), Insert(UserKey(c.user), "none"),
                             Commit, Refresh, Enqueue }
    BY <2>1 DEF Left
  <2> QED BY <1>1, <1>2, <1>3, <2>2, <2>3, <2>4 DEF Writes, LookedFor
<1>6. CASE c.op = "create"
  <2>1. Plan(r, c) = << Insert(WorkspaceKey(r), "none"), Insert(MemberKey(r, c.by), "owner"),
                        Commit, Refresh >>
    BY <1>6 DEF Plan, CreateWorkspace
  <2>2. Wanted(r, c) = {WorkspaceKey(r), MemberKey(r, c.by)} /\ Labels(c) = {}
    BY <1>6 DEF Wanted, Labels
  <2>3. WorkspaceKey(r) # MemberKey(r, c.by)
    BY KeyParts
  <2>4. Separate(c, Plan(r, c))
    BY <1>1, <1>2, <1>3, <2>1, <2>3 DEF Separate, Apart, Writes
  <2>5. Left(Plan(r, c)) = { Insert(WorkspaceKey(r), "none"),
                             Insert(MemberKey(r, c.by), "owner"), Commit, Refresh }
    BY <2>1 DEF Left
  <2>6. WorkspaceKey(r) \in Generated(r) /\ MemberKey(r, c.by) \in Generated(r)
    BY <1>4, <1>6 DEF Generated, Operation
  <2> QED BY <1>1, <1>2, <1>3, <2>2, <2>4, <2>5, <2>6 DEF Writes
<1>7. CASE c.op = "invite"
  <2>1. Plan(r, c) =
          << Authority(MemberKey(c.workspace, c.by)), Present(UserKey(c.user), 404),
             Absent(MemberKey(c.workspace, c.user), 400),
             Insert(MemberKey(c.workspace, c.user), c.role), Commit, Enqueue >>
    BY <1>7 DEF Plan, AddMember
  <2>2. Wanted(r, c) = {MemberKey(c.workspace, c.user)} /\ Labels(c) = {}
    BY <1>7 DEF Wanted, Labels
  <2>3. Separate(c, Plan(r, c))
    BY <1>1, <1>2, <2>1 DEF Separate, Apart, Writes
  <2>4. Left(Plan(r, c)) =
          { Authority(MemberKey(c.workspace, c.by)), Present(UserKey(c.user), 404),
            Absent(MemberKey(c.workspace, c.user), 400),
            Insert(MemberKey(c.workspace, c.user), c.role), Commit, Enqueue }
    BY <2>1 DEF Left
  <2> QED BY <1>1, <1>2, <1>3, <2>2, <2>3, <2>4 DEF Writes, LookedFor
<1>8. CASE c.op = "room"
  <2>1. Plan(r, c) = << Present(MemberKey(c.workspace, c.by), 403),
                        Insert(RoomKey(c.workspace, r), "none"), Commit, Refresh >>
    BY <1>8 DEF Plan, CreateRoom
  <2>2. Wanted(r, c) = {RoomKey(c.workspace, r)} /\ Labels(c) = {}
    BY <1>8 DEF Wanted, Labels
  <2>3. Separate(c, Plan(r, c))
    BY <1>1, <1>2, <2>1 DEF Separate, Apart, Writes
  <2>4. Left(Plan(r, c)) = { Present(MemberKey(c.workspace, c.by), 403),
                             Insert(RoomKey(c.workspace, r), "none"), Commit, Refresh }
    BY <2>1 DEF Left
  <2>5. RoomKey(c.workspace, r) \in Generated(r)
    BY <1>4, <1>8 DEF Generated, Operation, Workspace
  <2> QED BY <1>1, <1>2, <1>3, <2>2, <2>3, <2>4, <2>5 DEF Writes
<1>9. CASE c.op \in {"notes", "members", "rooms", "workspaces"}
  <2>1. Plan(r, c) \in { <<Present(MemberKey(c.workspace, c.by), 403), Read>>, <<Read>> }
    BY <1>9 DEF Plan, List
  <2>2. Separate(c, Plan(r, c))
    BY <1>1, <2>1 DEF Separate, Apart, Writes
  <2>3. \A s \in Left(Plan(r, c)) : s.do \notin Writes
    BY <1>1, <2>1 DEF Left, Writes
  <2> QED BY <2>2, <2>3 DEF Writes
<1>10. CASE c.op = "save"
  <2> DEFINE look  == <<Present(MemberKey(c.workspace, c.by), 403)>>
             names == [i \in DOMAIN c.labels |-> Resolve(c.labels[i])]
             write == <<Insert(NoteKey(c.workspace, r), "none"), Commit, Enqueue>>
  <2>1. Plan(r, c) = look \o names \o write
    BY <1>10 DEF Plan, CreateNote
  <2>2. /\ Wanted(r, c) = {NoteKey(c.workspace, r)}
        /\ Labels(c) = {c.labels[i] : i \in DOMAIN c.labels}
    BY <1>10 DEF Wanted, Labels
  <2>3. look \in Seq(Stmt) /\ names \in Seq(Stmt) /\ write \in Seq(Stmt)
    BY <1>4, <1>10, SaveType
  <2>4. Left(look) = {Present(MemberKey(c.workspace, c.by), 403)} /\ Separate(c, look)
    BY DEF Left, Separate
  <2>5. Left(names) = {Resolve(label) : label \in Labels(c)}
    BY <2>2 DEF Left
  <2>6. Separate(c, names)
    <3> SUFFICES ASSUME NEW i \in DOMAIN c.labels, NEW j \in DOMAIN c.labels, i < j
                 PROVE  Apart(c, Resolve(c.labels[i]), Resolve(c.labels[j]))
      BY DEF Separate
    <3>1. i # j
      <4>1. i \in Nat /\ j \in Nat
        BY <1>4, <1>10 DEF Operation
      <4> QED BY <4>1
    <3>2. LookedUp(Cleaned(c.labels[i])) # LookedUp(Cleaned(c.labels[j])) \/ Twice(c)
      BY <1>10, <3>1 DEF Twice, NamesTwice
    <3>3. TagKey(Cleaned(c.labels[i])) # TagKey(Cleaned(c.labels[j])) \/ Twice(c)
      BY <3>2 DEF TagKey
    <3> QED BY <1>2, <1>3, <3>2, <3>3 DEF Apart, Asked
  <2>7. Separate(c, write)
    BY <1>1, <1>2, <1>3 DEF Separate, Apart, Writes
  <2>8. Left(write) = {Insert(NoteKey(c.workspace, r), "none"), Commit, Enqueue}
    BY DEF Left
  <2>9. \A s \in Left(look), t \in Left(names) \cup Left(write) : Apart(c, s, t)
    BY <1>1, <2>4 DEF Apart, Writes
  <2>10. \A s \in Left(names), t \in Left(write) : Apart(c, s, t)
    <3>1. \A label : TagKey(Cleaned(label)) # NoteKey(c.workspace, r)
      BY KeyParts
    <3> QED BY <1>1, <1>2, <1>3, <2>5, <2>8, <3>1 DEF Apart, Writes
  <2> HIDE DEF look, names, write, Stmt
  <2>11. look \o names \in Seq(Stmt)
    BY <2>3
  <2>12. Left(look \o names) = Left(look) \cup Left(names) /\ Separate(c, look \o names)
    BY <2>3, <2>4, <2>6, <2>9, ConcatLeft, ConcatSeparate
  <2>13. Left(Plan(r, c)) = Left(look) \cup Left(names) \cup Left(write)
    BY <2>1, <2>3, <2>11, <2>12, ConcatLeft
  <2>14. Separate(c, Plan(r, c))
    BY <2>1, <2>3, <2>7, <2>9, <2>10, <2>11, <2>12, ConcatSeparate
  <2>15. NoteKey(c.workspace, r) \in Generated(r)
    BY <1>4, <1>10 DEF Generated, Operation, Workspace
  <2>16. \A s \in Left(Plan(r, c)) :
           /\ s.do = "resolve" => s.label \in Labels(c)
           /\ s.do \in Writes => Target(s) \in Wanted(r, c) \cup TagsOf(c)
           /\ s.do = "insert" => s.key \in Generated(r)
    BY <1>1, <1>2, <1>3, <2>2, <2>4, <2>5, <2>8, <2>13, <2>15 DEF Writes, TagsOf
  <2>17. \A label \in Labels(c) :
           \E t \in Left(Plan(r, c)) : t.do = "resolve" /\ t.label = label
    BY <1>2, <2>5, <2>13
  <2> QED BY <2>14, <2>16, <2>17
<1> QED BY <1>4, <1>5, <1>6, <1>7, <1>8, <1>9, <1>10 DEF Operation

-----------------------------------------------------------------------------
(* A step of a request, by what it does to its session: a statement that   *)
(* writes nothing is done; a tag that is not there puts an insert in front *)
(* of what is left; a row goes in; the rows are committed; or the session  *)
(* is given up.                                                            *)

Shown(c, set) == {row \in set : Matches(c, row)}

Passes(r) ==
  /\ todo[r] # <<>> /\ Head(todo[r]).do \notin {"insert", "commit"}
  /\ todo'[r] = Tail(todo[r]) /\ UNCHANGED <<pending, rows>>
  /\ At(r, "absent") => Head(todo[r]).key \notin Keys(rows)
  /\ tags'[r] = IF At(r, "resolve") THEN Append(tags[r], Asked(Head(todo[r]))) ELSE tags[r]
  /\ found'[r] = IF At(r, "read") THEN Shown(call[r], rows) ELSE found[r]

Plants(r) ==
  LET stored == Cleaned(Head(todo[r]).label)
  IN  /\ At(r, "resolve") /\ TagKey(LookedUp(stored)) \notin Keys(rows)
      /\ tags'[r] = Append(tags[r], stored) /\ UNCHANGED <<pending, rows, found>>
      /\ todo'[r] = <<Insert(TagKey(stored), "none")>> \o Tail(todo[r])

Puts(r) ==
  /\ At(r, "insert") /\ todo'[r] = Tail(todo[r]) /\ UNCHANGED <<rows, tags, found>>
  /\ pending'[r] = pending[r] \cup
       {[key |-> Head(todo[r]).key, role |-> Head(todo[r]).role, by |-> r,
         tags |-> Links(r, Head(todo[r]).key)]}

Commits(r) ==
  /\ At(r, "commit") /\ todo'[r] = Tail(todo[r]) /\ UNCHANGED <<tags, found>>
  /\ rows' = rows \cup pending[r] /\ pending'[r] = {}

\* The insert at the head of what is left may fail.
Refused(r) ==
  LET key == Head(todo[r]).key
  IN  ~ Takes(r, key) \/ (key[1] = "note" /\ LinksTwice(r))

Leaves(r) ==
  /\ todo[r] # <<>> /\ todo'[r] = <<>> /\ pending'[r] = {} /\ UNCHANGED <<found, tags>>
  /\ \/ rows' = rows
     \/ At(r, "commit") /\ rows' = rows \cup pending[r]
  /\ answer'[r] \in {400, 403, 404, 500}
  /\ answer'[r] = 500 /\ r \notin hit' => At(r, "insert") /\ Refused(r)

LEMMA AdvanceMoves ==
  ASSUME TypeOK, NEW r \in Request, Advance(r)
  PROVE  todo'[r] = Tail(todo[r]) /\ answer'[r] \in {0, 200, 201}
BY DEF Advance, TypeOK

LEMMA RaiseMoves ==
  ASSUME TypeOK, NEW r \in Request, NEW code, Raise(r, code)
  PROVE  todo'[r] = <<>> /\ pending'[r] = {} /\ answer'[r] = code
BY DEF Raise, TypeOK

LEMMA Moves ==
  ASSUME TypeOK, NEW r \in Request, PlanOf(r),
         Statement(r) \/ AbortVictim(r) \/ StatementError(r)
  PROVE  /\ Passes(r) \/ Plants(r) \/ Puts(r) \/ Commits(r) \/ Leaves(r)
         /\ Leaves(r) \/ answer'[r] \in {0, 200, 201}
         /\ UNCHANGED <<call, before>> /\ hit \subseteq hit'
<1> USE DEF work
<1>1. CASE Look(r)
  <2>1. /\ UNCHANGED <<rows, hit, tags, found, call, before>> /\ todo[r] # <<>>
        /\ Head(todo[r]).do \in {"present", "absent", "authority"}
    BY <1>1 DEF Look
  <2>2. ASSUME Advance(r), UNCHANGED pending,
               Head(todo[r]).do = "absent" => Head(todo[r]).key \notin Keys(Visible(r))
        PROVE  Passes(r) /\ answer'[r] \in {0, 200, 201}
    <3>1. Head(todo[r]).do = "absent" => Head(todo[r]).key \notin Keys(rows)
      BY <2>2 DEF Keys, Visible
    <3> QED BY <2>1, <2>2, <3>1, AdvanceMoves DEF Passes, At
  <2>3. ASSUME Raise(r, Head(todo[r]).code) PROVE Leaves(r)
    <3>1. Head(todo[r]) \in Stmt
      BY <2>1 DEF TypeOK
    <3>2. Head(todo[r]).code \in {400, 403, 404}
      BY <2>1, <3>1 DEF Stmt
    <3> QED BY <2>1, <2>3, <3>2, RaiseMoves DEF Leaves
  <2>4. \/ /\ Advance(r) /\ UNCHANGED pending
           /\ Head(todo[r]).do = "absent" => Head(todo[r]).key \notin Keys(Visible(r))
        \/ Raise(r, Head(todo[r]).code)
    BY <1>1 DEF Look
  <2> QED BY <2>1, <2>2, <2>3, <2>4
<1>2. CASE ResolveTag(r)
  <2> DEFINE stored == Cleaned(Head(todo[r]).label)
  <2>1. At(r, "resolve") /\ UNCHANGED <<rows, pending, found, answer, hit, call, before>>
    BY <1>2 DEF ResolveTag
  <2>2. \/ /\ tags' = [tags EXCEPT ![r] = Append(@, LookedUp(stored))]
           /\ todo' = [todo EXCEPT ![r] = Tail(@)]
        \/ /\ TagKey(LookedUp(stored)) \notin Keys(Visible(r))
           /\ tags' = [tags EXCEPT ![r] = Append(@, stored)]
           /\ todo' = [todo EXCEPT ![r] = <<Insert(TagKey(stored), "none")>> \o Tail(@)]
    BY <1>2 DEF ResolveTag
  <2> HIDE DEF stored
  <2>3. \/ tags'[r] = Append(tags[r], LookedUp(stored)) /\ todo'[r] = Tail(todo[r])
        \/ /\ TagKey(LookedUp(stored)) \notin Keys(Visible(r))
           /\ tags'[r] = Append(tags[r], stored)
           /\ todo'[r] = <<Insert(TagKey(stored), "none")>> \o Tail(todo[r])
    BY <2>2 DEF TypeOK
  <2>4. todo[r] # <<>> /\ Head(todo[r]).do = "resolve"
    BY <2>1 DEF At
  <2>5. Passes(r) \/ Plants(r)
    BY <2>1, <2>3, <2>4 DEF Passes, Plants, At, Asked, Keys, Visible, stored
  <2>6. answer'[r] = 0
    BY <2>1, <2>4, Position
  <2> QED BY <2>1, <2>3, <2>5, <2>6
<1>3. CASE InsertRow(r)
  <2> DEFINE row == [key |-> Head(todo[r]).key, role |-> Head(todo[r]).role, by |-> r,
                     tags |-> Links(r, Head(todo[r]).key)]
  <2>1. At(r, "insert") /\ UNCHANGED <<rows, tags, found, hit, call, before>>
    BY <1>3 DEF InsertRow
  <2>2. ASSUME pending' = [pending EXCEPT ![r] = @ \cup {row}], Advance(r)
        PROVE  Puts(r) /\ answer'[r] \in {0, 200, 201}
    <3>1. pending'[r] = pending[r] \cup {row}
      <4> HIDE DEF row
      <4> QED BY <2>2 DEF TypeOK
    <3> QED BY <2>1, <2>2, <3>1, AdvanceMoves DEF Puts
  <2>3. ASSUME Refused(r), Raise(r, 500) PROVE Leaves(r)
    BY <2>1, <2>3, RaiseMoves DEF Leaves, At
  <2>4. \/ pending' = [pending EXCEPT ![r] = @ \cup {row}] /\ Advance(r)
        \/ Refused(r) /\ Raise(r, 500)
    BY <1>3 DEF InsertRow, Refused
  <2> QED BY <2>1, <2>2, <2>3, <2>4
<1>4. CASE CommitRows(r)
  <2>1. pending'[r] = {}
    BY <1>4 DEF CommitRows, TypeOK
  <2> QED BY <1>4, <2>1, AdvanceMoves DEF CommitRows, Commits
<1>5. CASE RefreshRow(r) \/ EnqueueJob(r)
  BY <1>5, AdvanceMoves DEF RefreshRow, EnqueueJob, Passes, At
<1>6. CASE ReadRows(r)
  <2>1. found'[r] = Shown(call[r], rows)
    BY <1>6 DEF ReadRows, TypeOK, Shown
  <2> QED BY <1>6, <2>1, AdvanceMoves DEF ReadRows, Passes, At
<1>7. CASE AbortVictim(r)
  <2>1. todo[r] # <<>>
    BY <1>7 DEF AbortVictim, Deadlocked, Waits, At
  <2> QED BY <1>7, <2>1, RaiseMoves DEF AbortVictim, Leaves
<1>8. CASE StatementError(r)
  <2>1. /\ UNCHANGED <<tags, found, call, before>> /\ todo[r] # <<>>
        /\ hit \subseteq hit' /\ r \in hit'
    BY <1>8 DEF StatementError
  <2>2. ASSUME Raise(r, 500),
               rows' = rows \/ (At(r, "commit") /\ rows' = rows \cup pending[r])
        PROVE  Leaves(r)
    BY <2>1, <2>2, RaiseMoves DEF Leaves
  <2>3. ASSUME At(r, "enqueue"), Advance(r), UNCHANGED <<rows, pending>>
        PROVE  Passes(r) /\ answer'[r] \in {0, 200, 201}
    BY <2>1, <2>3, AdvanceMoves DEF Passes, At
  <2> QED BY <1>8, <2>1, <2>2, <2>3 DEF StatementError
<1> QED BY <1>1, <1>2, <1>3, <1>4, <1>5, <1>6, <1>7, <1>8 DEF Statement

\* A step of r keeps what its plan writes.
LEMMA PassWrites ==
  ASSUME TypeOK, NEW r \in Request, PlanOf(r), WriteOf(r), before[r] \subseteq rows,
         UNCHANGED <<call, before>>, Passes(r)
  PROVE  WriteOf(r)'
<1>1. /\ todo[r] \in Seq(Stmt) /\ todo[r] # <<>> /\ Separate(call[r], todo[r])
      /\ Left(todo[r]) = {Head(todo[r])} \cup Left(Tail(todo[r]))
  BY Position DEF Passes, WriteOf
<1>2. todo'[r] = Tail(todo[r]) /\ pending'[r] = pending[r] /\ Separate(call[r], Tail(todo[r]))
  BY <1>1, TailSeparate DEF Passes
<1>3. \A key : LookedFor(todo[r], key) => LookedFor(Tail(todo[r]), key) \/ key \notin Keys(before[r])
  BY <1>1 DEF Passes, At, LookedFor, Keys
<1> QED BY <1>1, <1>2, <1>3 DEF WriteOf, Due

LEMMA PlantWrites ==
  ASSUME TypeOK, NEW r \in Request, PlanOf(r), WriteOf(r), before[r] \subseteq rows,
         UNCHANGED <<call, before>>, Plants(r)
  PROVE  WriteOf(r)'
<1> DEFINE label  == Head(todo[r]).label
           insert == Insert(TagKey(Cleaned(label)), "none")
<1>1. /\ todo[r] \in Seq(Stmt) /\ todo[r] # <<>> /\ Head(todo[r]).do = "resolve"
      /\ Left(todo[r]) = {Head(todo[r])} \cup Left(Tail(todo[r]))
  BY Position DEF Plants, At
<1>2. /\ Separate(call[r], Tail(todo[r])) /\ pending'[r] = pending[r]
      /\ \A s \in Left(Tail(todo[r])) : Apart(call[r], Head(todo[r]), s)
  BY <1>1, TailSeparate DEF Plants, WriteOf
<1>3. todo'[r] = <<insert>> \o Tail(todo[r])
  BY DEF Plants
<1>4. /\ insert.do = "insert" /\ insert.key = TagKey(Cleaned(label))
      /\ Target(insert) = TagKey(Cleaned(label)) /\ Target(Head(todo[r])) = Target(insert)
      /\ insert.key[1] = "tag"
  BY <1>1, KeyParts DEF Insert, Target
<1>5. insert \in Stmt
  <2>1. Head(todo[r]) \in Stmt
    BY <1>1
  <2>2. label \in Label
    BY <1>1, <2>1 DEF Stmt
  <2>3. Cleaned(label) \in Name
    BY <2>2 DEF Label, Name, Cleaned
  <2> HIDE DEF label
  <2> QED BY <2>3 DEF Insert, TagKey, Stmt, Key
<1>6. insert.key \notin Keys(before[r]) \/ Unstable(call[r], insert.key)
  <2>1. CASE Stable(label)
    BY <1>4, <2>1 DEF Plants, Stable, Keys
  <2>2. CASE ~ Stable(label)
    <3>1. label \in Labels(call[r])
      BY <1>1 DEF WriteOf
    <3> QED BY <1>4, <2>2, <3>1 DEF Unstable
  <2> QED BY <2>1, <2>2
<1>7. Target(insert) \in Due(r) \cup TagsOf(call[r]) /\ (Target(insert) \notin Keys(pending[r]) \/ Twice(call[r]))
  BY <1>1, <1>4 DEF WriteOf, Writes
<1> HIDE DEF insert, label
<1>8. \A s \in Left(Tail(todo[r])) : Apart(call[r], insert, s)
  BY <1>1, <1>2, <1>4 DEF Apart, Writes
<1>9. <<insert>> \in Seq(Stmt) /\ Left(<<insert>>) = {insert} /\ Separate(call[r], <<insert>>)
  <2>1. Left(<<insert>>) = {insert} /\ Separate(call[r], <<insert>>)
    BY DEF Left, Separate
  <2> HIDE DEF Stmt
  <2> QED BY <1>5, <2>1
<1>10. Left(todo'[r]) = {insert} \cup Left(Tail(todo[r])) /\ Separate(call[r], todo'[r])
  <2>1. Tail(todo[r]) \in Seq(Stmt)
    BY <1>1, TailAt
  <2> QED BY <1>2, <1>3, <1>8, <1>9, <2>1, ConcatLeft, ConcatSeparate
<1>11. \A key : LookedFor(todo[r], key) => LookedFor(todo'[r], key)
  BY <1>1, <1>10 DEF LookedFor
<1> QED BY <1>1, <1>2, <1>4, <1>6, <1>7, <1>10, <1>11 DEF WriteOf, Due

LEMMA PutWrites ==
  ASSUME TypeOK, NEW r \in Request, PlanOf(r), WriteOf(r),
         UNCHANGED <<call, before>>, Puts(r)
  PROVE  WriteOf(r)'
<1>1. /\ todo[r] \in Seq(Stmt) /\ todo[r] # <<>> /\ Head(todo[r]).do = "insert"
      /\ Left(todo[r]) = {Head(todo[r])} \cup Left(Tail(todo[r]))
  BY Position DEF Puts, At
<1>2. /\ Separate(call[r], Tail(todo[r])) /\ todo'[r] = Tail(todo[r])
      /\ \A s \in Left(Tail(todo[r])) : Apart(call[r], Head(todo[r]), s)
  BY <1>1, TailSeparate DEF Puts, WriteOf
<1>3. Keys(pending'[r]) = Keys(pending[r]) \cup {Target(Head(todo[r]))}
  <2> DEFINE row == [key |-> Head(todo[r]).key, role |-> Head(todo[r]).role, by |-> r,
                     tags |-> Links(r, Head(todo[r]).key)]
  <2>1. pending'[r] = pending[r] \cup {row} /\ row.key = Target(Head(todo[r]))
    BY <1>1 DEF Puts, Target
  <2> HIDE DEF row
  <2> QED BY <2>1 DEF Keys
<1>4. \A s \in Left(Tail(todo[r])) : s.do \in Writes => Target(s) # Target(Head(todo[r])) \/ Twice(call[r])
  BY <1>1, <1>2 DEF Apart, Writes
<1>5. \A key : LookedFor(todo[r], key) => LookedFor(Tail(todo[r]), key)
  BY <1>1 DEF LookedFor
<1>6. Target(Head(todo[r])) \in Due(r) \cup TagsOf(call[r])
  BY <1>1 DEF WriteOf, Writes
<1> QED BY <1>1, <1>2, <1>3, <1>4, <1>5, <1>6 DEF WriteOf, Due

LEMMA CommitWrites ==
  ASSUME TypeOK, NEW r \in Request, PlanOf(r), WriteOf(r),
         UNCHANGED <<call, before>>, Commits(r)
  PROVE  WriteOf(r)'
<1>1. /\ todo[r] \in Seq(Stmt) /\ todo[r] # <<>> /\ Head(todo[r]).do = "commit"
      /\ Left(todo[r]) = {Head(todo[r])} \cup Left(Tail(todo[r])) /\ Separate(call[r], todo[r])
  BY Position DEF Commits, At, WriteOf
<1>2. Separate(call[r], Tail(todo[r])) /\ todo'[r] = Tail(todo[r]) /\ Keys(pending'[r]) = {}
  BY <1>1, TailSeparate DEF Commits, Keys
<1>3. \A key : LookedFor(todo[r], key) => LookedFor(Tail(todo[r]), key)
  BY <1>1 DEF LookedFor
<1> QED BY <1>1, <1>2, <1>3 DEF WriteOf, Due

LEMMA LeaveWrites ==
  ASSUME NEW r \in Request, Leaves(r) PROVE WriteOf(r)'
<1>1. todo'[r] = <<>> /\ pending'[r] = {}
  BY DEF Leaves
<1> QED BY <1>1 DEF WriteOf, Separate, Left, Keys

-----------------------------------------------------------------------------
(* What was there when a request arrived.  Ids drawn from a sequence were  *)
(* not, and a failure has the cause FailsForCause names.                   *)

Cause(r) ==
  \/ \E key \in Due(r) : key \in Keys(rows) \ Keys(before[r])
  \/ \E label \in Labels(call[r]) :
       LET key == TagKey(Cleaned(label))
       IN  \/ Cleaned(label) \in TooLong
           \/ key \in Keys(rows) /\ (key \notin Keys(before[r]) \/ ~ Stable(label))
  \/ Twice(call[r])

SeenOf(r) ==
  /\ before[r] \subseteq rows /\ Generated(r) \cap Keys(before[r]) = {}
  /\ \A row \in rows : row.key \in Generated(r) => row.by = r
  /\ answer[r] = 500 /\ r \notin hit => Cause(r)

WriteInv == \A r \in Request : WriteOf(r) /\ LinkOf(r) /\ SeenOf(r)

\* No request writes a key with another one's id.
LEMMA NotGenerated ==
  ASSUME TypeOK, NEW r \in Request, NEW q \in Request, q # r
  PROVE  (Due(q) \cup TagsOf(call[q])) \cap Generated(r) = {}
<1> DEFINE c == call[q]
<1>1. c \in Operation \cup {None}
  BY DEF TypeOK
<1>2. \A key \in Generated(r) :
        \/ key[1] \in {"workspace", "member"} /\ key[2] = r
        \/ key[1] \in {"note", "room"} /\ key[3] = r
  BY KeyParts DEF Generated
<1>3. TagsOf(c) \cap Generated(r) = {}
  BY <1>2, KeyParts DEF TagsOf
<1>4. c.op = "invite" => c.workspace # r
  BY <1>1, RecordsAssumption DEF Operation, None
<1>5. Due(q) \cap Generated(r) = {}
  <2> SUFFICES ASSUME NEW key \in Wanted(q, c) PROVE key \notin Generated(r)
    BY DEF Due
  <2>1. \/ key = UserKey(c.user) \/ key = WorkspaceKey(q) \/ key = MemberKey(q, c.by)
        \/ (c.op = "invite" /\ key = MemberKey(c.workspace, c.user))
        \/ key = NoteKey(c.workspace, q) \/ key = RoomKey(c.workspace, q)
    BY DEF Wanted
  <2> QED BY <1>2, <1>4, <2>1, KeyParts
<1> QED BY <1>3, <1>5

\* Rows with an id of r's own were written by r.
LEMMA RowsMine ==
  ASSUME TypeOK, PlanInv, WriteInv, NEW r \in Request, NEW q \in Request,
         rows' \in {rows, rows \cup pending[q]},
         NEW row \in rows', row.key \in Generated(r)
  PROVE  row.by = r
<1>1. CASE row \in rows
  BY <1>1 DEF WriteInv, SeenOf
<1>2. CASE row \in pending[q]
  <2>1. row.key \in Due(q) \cup TagsOf(call[q]) /\ row.by = q
    BY <1>2 DEF WriteInv, WriteOf, PlanInv, PlanOf, Keys
  <2> QED BY <2>1, NotGenerated
<1> QED BY <1>1, <1>2

\* A cause stays one.
LEMMA CauseStays ==
  ASSUME NEW r \in Request, Cause(r), rows \subseteq rows',
         call'[r] = call[r], before'[r] = before[r]
  PROVE  Cause(r)'
<1>1. Keys(rows) \subseteq Keys(rows')
  BY DEF Keys
<1> QED BY <1>1 DEF Cause, Due

\* No call answers for a tag.
LEMMA TagsNotDue == \A r \in Request : \A key \in Due(r) : key[1] # "tag"
BY KeyParts DEF Due, Wanted

\* An insert that meets its key has lost a race, or its labels are to blame.
LEMMA Collision ==
  ASSUME TypeOK, NEW r \in Request, PlanOf(r), WriteOf(r), LinkOf(r),
         At(r, "insert"), Refused(r)
  PROVE  Cause(r)
<1> DEFINE key == Head(todo[r]).key
<1>1. /\ todo[r] \in Seq(Stmt) /\ todo[r] # <<>> /\ Head(todo[r]).do = "insert"
      /\ Left(todo[r]) = {Head(todo[r])} \cup Left(Tail(todo[r])) /\ Separate(call[r], todo[r])
  BY Position DEF At, WriteOf
<1> SUFFICES ASSUME ~ Twice(call[r]) PROVE Cause(r)
  BY DEF Cause
<1>2. /\ Target(Head(todo[r])) = key /\ key \in Due(r) \cup TagsOf(call[r])
      /\ key \notin Keys(pending[r])
  BY <1>1 DEF WriteOf, Writes, Target
<1>3. ~ Takes(r, key)
  BY DEF Refused, LinkOf
<1>4. CASE key[1] = "tag" /\ key[2] \in TooLong
  <2>1. key \in TagsOf(call[r])
    BY <1>2, <1>4, TagsNotDue
  <2> QED BY <1>4, <2>1, KeyParts DEF TagsOf, Cause
<1>5. CASE key \in Keys(Visible(r))
  <2>1. key \in Keys(rows)
    BY <1>2, <1>5 DEF Keys, Visible
  <2>2. \A s \in Left(Tail(todo[r])) : Apart(call[r], Head(todo[r]), s)
    BY <1>1, TailSeparate
  <2>3. ~ LookedFor(todo[r], key)
    BY <1>1, <2>2 DEF LookedFor, Apart, Writes
  <2>4. key \notin Keys(before[r]) \/ Unstable(call[r], key)
    BY <1>1, <2>3 DEF WriteOf
  <2> QED BY <1>2, <2>1, <2>4 DEF Cause, Unstable, TagsOf
<1> QED BY <1>3, <1>4, <1>5 DEF Takes

\* What a name more makes of a list of tags.
LEMMA AppendLinked ==
  ASSUME NEW r \in Request, NEW name \in Name, tags[r] \in Seq(Name),
         tags'[r] = Append(tags[r], name)
  PROVE  Linked(r)' = Linked(r) \cup {name} /\ (LinksTwice(r)' => LinksTwice(r) \/ name \in Linked(r))
<1> HIDE DEF Name
<1>1. /\ DOMAIN tags[r] = 1 .. Len(tags[r]) /\ Len(tags[r]) \in Nat
      /\ DOMAIN tags'[r] = 1 .. (Len(tags[r]) + 1)
      /\ \A i \in 1 .. Len(tags[r]) : tags'[r][i] = tags[r][i]
      /\ tags'[r][Len(tags[r]) + 1] = name
  OBVIOUS
<1>2. \A i \in DOMAIN tags'[r] : i \in DOMAIN tags[r] \/ i = Len(tags[r]) + 1
  BY <1>1
<1>3. DOMAIN tags[r] \subseteq DOMAIN tags'[r] /\ Len(tags[r]) + 1 \in DOMAIN tags'[r]
  BY <1>1
<1>4. \A i \in DOMAIN tags[r] : tags'[r][i] = tags[r][i]
  BY <1>1
<1>5. Linked(r)' = Linked(r) \cup {name}
  BY <1>1, <1>2, <1>3, <1>4 DEF Linked
<1>6. LinksTwice(r)' => LinksTwice(r) \/ name \in Linked(r)
  BY <1>1, <1>2, <1>4 DEF LinksTwice, Linked
<1> QED BY <1>5, <1>6

\* A label to be resolved has a name.
LEMMA ResolvedName ==
  ASSUME TypeOK, NEW r \in Request, At(r, "resolve")
  PROVE  /\ Cleaned(Head(todo[r]).label) \in Name /\ Asked(Head(todo[r])) \in Name
         /\ LookedUp(Asked(Head(todo[r]))) = Asked(Head(todo[r])) /\ tags[r] \in Seq(Name)
<1>1. Head(todo[r]) \in Stmt /\ Head(todo[r]).do = "resolve"
  BY DEF At, TypeOK
<1>2. Head(todo[r]).label \in Label
  BY <1>1 DEF Stmt
<1> DEFINE name == Cleaned(Head(todo[r]).label)
<1>3. name \in Name
  BY <1>2 DEF Label, Name, Cleaned
<1> HIDE DEF name
<1>4. LookedUp(name) \in Name /\ LookedUp(LookedUp(name)) = LookedUp(name)
  BY <1>3 DEF Name, LookedUp
<1>5. tags[r] \in Seq(Name)
  BY DEF TypeOK
<1> QED BY <1>3, <1>4, <1>5 DEF Asked, name

\* A list of tags only grows.
LEMMA LinkedGrows ==
  ASSUME TypeOK, NEW r \in Request,
         Passes(r) \/ Plants(r) \/ Puts(r) \/ Commits(r) \/ Leaves(r)
  PROVE  Linked(r) \subseteq Linked(r)'
<1>1. CASE Passes(r) /\ At(r, "resolve")
  BY <1>1, ResolvedName, AppendLinked DEF Passes
<1>2. CASE Plants(r)
  BY <1>2, ResolvedName, AppendLinked DEF Plants
<1>3. CASE tags'[r] = tags[r]
  BY <1>3 DEF Linked
<1> QED BY <1>1, <1>2, <1>3 DEF Passes, Puts, Commits, Leaves

\* A step of r keeps its list of tags.
LEMMA LinkStep ==
  ASSUME TypeOK, NEW r \in Request, PlanOf(r), WriteOf(r), LinkOf(r), UNCHANGED call,
         Passes(r) \/ Plants(r) \/ Puts(r) \/ Commits(r) \/ Leaves(r)
  PROVE  LinkOf(r)'
<1>0. call[r] # None
  BY Position DEF Passes, Plants, Puts, Commits, Leaves, At
<1> SUFFICES ASSUME ~ Twice(call[r]) PROVE LinkOf(r)'
  BY <1>0 DEF LinkOf
<1>1. /\ ~ LinksTwice(r) /\ todo[r] # <<>> /\ todo[r] \in Seq(Stmt)
      /\ \A s \in Left(todo[r]) : s.do = "resolve" =>
           \A name \in Linked(r) : LookedUp(name) # Asked(s)
  BY Position DEF LinkOf, Passes, Plants, Puts, Commits, Leaves, At
<1>2. Left(todo[r]) = {Head(todo[r])} \cup Left(Tail(todo[r]))
  BY <1>1, Position
<1>3. ASSUME NEW name \in Name, LookedUp(name) = Asked(Head(todo[r])), At(r, "resolve"),
             tags'[r] = Append(tags[r], name),
             \A s \in Left(todo'[r]) : s.do = "resolve" => s \in Left(Tail(todo[r]))
      PROVE  LinkOf(r)'
  <2>1. \A s \in Left(Tail(todo[r])) : Apart(call[r], Head(todo[r]), s)
    BY <1>1, TailSeparate DEF WriteOf
  <2>2. Linked(r)' = Linked(r) \cup {name} /\ (LinksTwice(r)' => name \in Linked(r))
    BY <1>1, <1>3, AppendLinked, ResolvedName
  <2>3. name \notin Linked(r)
    BY <1>1, <1>2, <1>3 DEF At
  <2>4. \A s \in Left(Tail(todo[r])) : s.do = "resolve" => LookedUp(name) # Asked(s)
    BY <1>3, <2>1 DEF Apart, Writes, At
  <2> QED BY <1>0, <1>1, <1>2, <1>3, <2>2, <2>3, <2>4 DEF LinkOf
<1>4. CASE Passes(r) /\ At(r, "resolve")
  BY <1>3, <1>4, ResolvedName DEF Passes
<1>5. CASE Plants(r)
  <2> DEFINE insert == Insert(TagKey(Cleaned(Head(todo[r]).label)), "none")
  <2>1. insert.do = "insert" /\ insert \in Stmt
    <3> DEFINE name == Cleaned(Head(todo[r]).label)
    <3>1. name \in Name
      BY <1>5, ResolvedName DEF Plants
    <3> HIDE DEF name
    <3> QED BY <3>1 DEF Insert, TagKey, Stmt, Key, insert, name
  <2>2. todo'[r] = <<insert>> \o Tail(todo[r])
    BY <1>5 DEF Plants
  <2> HIDE DEF insert, Stmt
  <2>3. <<insert>> \in Seq(Stmt) /\ Tail(todo[r]) \in Seq(Stmt) /\ Left(<<insert>>) = {insert}
    BY <1>1, <2>1 DEF Left
  <2>4. Left(todo'[r]) = {insert} \cup Left(Tail(todo[r]))
    BY <2>2, <2>3, ConcatLeft
  <2> QED BY <1>3, <1>5, <2>1, <2>4, ResolvedName DEF Plants, Asked
<1>6. CASE (Passes(r) /\ ~ At(r, "resolve")) \/ Puts(r) \/ Commits(r) \/ Leaves(r)
  <2>1. CASE Leaves(r)
    <3>1. Left(todo'[r]) = {} /\ LinksTwice(r)' = LinksTwice(r)
      BY <2>1 DEF Leaves, Left, LinksTwice
    <3> QED BY <1>0, <1>1, <3>1 DEF LinkOf
  <2>2. CASE ~ Leaves(r)
    <3>1. tags'[r] = tags[r] /\ todo'[r] = Tail(todo[r])
      BY <1>6, <2>2 DEF Passes, Puts, Commits
    <3>2. Linked(r)' = Linked(r) /\ LinksTwice(r)' = LinksTwice(r)
      BY <3>1 DEF Linked, LinksTwice
    <3> QED BY <1>0, <1>1, <1>2, <3>1, <3>2 DEF LinkOf
  <2> QED BY <2>1, <2>2
<1> QED BY <1>4, <1>5, <1>6

LEMMA InitWrites == Init => WriteInv
<1> SUFFICES ASSUME Init, NEW r \in Request PROVE WriteOf(r) /\ LinkOf(r) /\ SeenOf(r)
  BY DEF WriteInv
<1>1. /\ todo[r] = <<>> /\ pending[r] = {} /\ answer[r] = 0 /\ before[r] = {} /\ rows = Seed
      /\ tags[r] = <<>>
  BY DEF Init
<1>2. WriteOf(r)
  BY <1>1 DEF WriteOf, Separate, Left, Keys
<1>3. SeenOf(r)
  BY <1>1, RecordsAssumption DEF SeenOf, Keys
<1>4. LinkOf(r)
  BY <1>1 DEF LinkOf, LinksTwice, Left
<1> QED BY <1>2, <1>3, <1>4

LEMMA ArriveWrites ==
  ASSUME TypeOK, PlanInv, WriteInv, NEW r \in Request, Arrive(r)
  PROVE  WriteOf(r)' /\ LinkOf(r)' /\ SeenOf(r)'
<1>1. PICK c \in Call[r] : /\ call' = [call EXCEPT ![r] = c]
                           /\ todo' = [todo EXCEPT ![r] = Plan(r, c)]
  BY DEF Arrive
<1>2. call[r] = None /\ UNCHANGED <<rows, pending, answer, hit>>
  BY DEF Arrive
<1>3. call'[r] = c /\ todo'[r] = Plan(r, c) /\ before'[r] = rows
  BY <1>1 DEF Arrive, TypeOK
<1>4. pending[r] = {} /\ Mine(r) = {} /\ answer[r] = 0
  BY <1>2, Idle
<1>5. Generated(r) \cap Keys(rows) = {}
  BY <1>4 DEF WriteInv, SeenOf, Mine, Keys
<1>6. WriteOf(r)'
  <2>1. Keys(pending'[r]) = {}
    BY <1>2, <1>4 DEF Keys
  <2> QED BY <1>3, <1>5, <2>1, PlanWrites DEF WriteOf, Due
<1>7. SeenOf(r)'
  BY <1>2, <1>3, <1>4, <1>5 DEF WriteInv, SeenOf
<1>8. LinkOf(r)'
  <2>1. tags'[r] = <<>>
    BY <1>2 DEF Arrive, WriteInv, LinkOf
  <2> QED BY <2>1 DEF LinkOf, LinksTwice, Linked
<1> QED BY <1>6, <1>7, <1>8

LEMMA WriteStep == TypeOK /\ PlanInv /\ WriteInv /\ [Next]_vars => WriteInv'
<1> SUFFICES ASSUME TypeOK, PlanInv, WriteInv, [Next]_vars PROVE WriteInv'
  OBVIOUS
<1>1. CASE UNCHANGED vars
  BY <1>1 DEF vars, work, WriteInv, WriteOf, LinkOf, LinksTwice, Linked, SeenOf, Cause, Due
<1>2. ASSUME NEW r \in Request,
             Statement(r) \/ AbortVictim(r) \/ Arrive(r) \/ StatementError(r)
      PROVE  WriteInv'
  <2>1. /\ hit \subseteq hit' /\ rows \subseteq rows' /\ rows' \in {rows, rows \cup pending[r]}
        /\ \A q \in Request \ {r} :
             /\ todo'[q] = todo[q] /\ pending'[q] = pending[q] /\ call'[q] = call[q]
             /\ answer'[q] = answer[q] /\ before'[q] = before[q] /\ tags'[q] = tags[q]
    BY <1>2, OwnStep
  <2>2. \A q \in Request : \A row \in rows' : row.key \in Generated(q) => row.by = q
    BY <2>1, RowsMine
  <2>3. ASSUME NEW q \in Request, q # r PROVE WriteOf(q)' /\ LinkOf(q)' /\ SeenOf(q)'
    <3>1. WriteOf(q)'
      BY <2>1, <2>3 DEF WriteInv, WriteOf, Due
    <3>2. answer[q] = 500 /\ q \notin hit' => Cause(q)'
      BY <2>1, <2>3, CauseStays DEF WriteInv, SeenOf
    <3>3. LinkOf(q)'
      BY <2>1, <2>3 DEF WriteInv, LinkOf, LinksTwice, Linked
    <3> QED BY <2>1, <2>2, <2>3, <3>1, <3>2, <3>3 DEF WriteInv, SeenOf
  <2>4. ASSUME Statement(r) \/ AbortVictim(r) \/ StatementError(r)
        PROVE  WriteOf(r)' /\ LinkOf(r)' /\ SeenOf(r)'
    <3>1. PlanOf(r) /\ WriteOf(r) /\ LinkOf(r) /\ SeenOf(r) /\ before[r] \subseteq rows
      BY DEF PlanInv, WriteInv, SeenOf
    <3>2. /\ Passes(r) \/ Plants(r) \/ Puts(r) \/ Commits(r) \/ Leaves(r)
          /\ Leaves(r) \/ answer'[r] \in {0, 200, 201}
          /\ UNCHANGED <<call, before>>
      BY <2>4, <3>1, Moves
    <3>3. WriteOf(r)'
      BY <3>1, <3>2, PassWrites, PlantWrites, PutWrites, CommitWrites, LeaveWrites
    <3>4. answer'[r] = 500 /\ r \notin hit' => Cause(r)'
      <4> SUFFICES ASSUME answer'[r] = 500, r \notin hit' PROVE Cause(r)'
        OBVIOUS
      <4>1. At(r, "insert") /\ Refused(r)
        BY <3>2 DEF Leaves
      <4> QED BY <2>1, <3>1, <3>2, <4>1, Collision, CauseStays
    <3>5. LinkOf(r)'
      BY <3>1, <3>2, LinkStep
    <3> QED BY <2>1, <2>2, <3>1, <3>2, <3>3, <3>4, <3>5 DEF SeenOf
  <2> QED BY <1>2, <2>3, <2>4, ArriveWrites DEF WriteInv
<1> QED BY <1>1, <1>2 DEF Next, Work

-----------------------------------------------------------------------------
(* What a note carries and what a list shows.  A note goes in behind the   *)
(* last of its labels, with the tag of each label that cleans to itself; a *)
(* list is read last, so an answer has the rows there were on arrival.     *)

IsNote(key) == key[1] = "note"

Carried(r) == {Cleaned(label) : label \in {l \in Labels(call[r]) : Stable(l)}}

ToResolve(q, name) == \E t \in Left(q) : t.do = "resolve" /\ Cleaned(t.label) = name

NoteOf(r) ==
  /\ \A row \in rows \cup pending[r] : row.by = r /\ IsNote(row.key) =>
       call[r].op = "save" /\ Carried(r) \subseteq row.tags
  /\ \A s \in Left(todo[r]) : s.do = "insert" /\ IsNote(s.key) =>
       \A name \in Carried(r) : name \in Linked(r) \/ ToResolve(todo[r], name)

Lists == {"notes", "members", "rooms", "workspaces"}

ListOf(r) ==
  /\ found[r] \subseteq rows
  /\ call[r].op \in Lists =>
       /\ \/ todo[r] \in {<<>>, <<Read>>}
          \/ \E key \in Key : todo[r] = <<Present(key, 403), Read>>
       /\ answer[r] = 200 => Shown(call[r], before[r]) \subseteq found[r]

NoteInv == \A r \in Request : NoteOf(r) /\ ListOf(r)

\* Only a call that saves a note writes one.
LEMMA NotesAreSaved ==
  ASSUME NEW r \in Request, NEW key \in Due(r) \cup TagsOf(call[r]), IsNote(key)
  PROVE  call[r].op = "save"
<1>1. key \notin TagsOf(call[r])
  BY KeyParts DEF TagsOf, IsNote
<1>2. key \in Wanted(r, call[r])
  BY <1>1 DEF Due
<1>3. \A w, u : ~ IsNote(UserKey(u)) /\ ~ IsNote(WorkspaceKey(w)) /\ ~ IsNote(MemberKey(w, u))
                /\ ~ IsNote(RoomKey(w, u))
  BY KeyParts DEF IsNote
<1> QED BY <1>2, <1>3 DEF Wanted

LEMMA PassNote ==
  ASSUME TypeOK, NEW r \in Request, PlanOf(r), NoteOf(r), UNCHANGED call,
         Linked(r) \subseteq Linked(r)', Passes(r)
  PROVE  NoteOf(r)'
<1>1. /\ todo[r] \in Seq(Stmt) /\ todo[r] # <<>> /\ todo'[r] = Tail(todo[r])
      /\ Left(todo[r]) = {Head(todo[r])} \cup Left(Tail(todo[r]))
  BY Position DEF Passes
<1>2. ASSUME NEW name \in Carried(r), ToResolve(todo[r], name)
      PROVE  name \in Linked(r)' \/ ToResolve(Tail(todo[r]), name)
  <2>1. LookedUp(name) = name
    BY DEF Carried, Stable
  <2>2. PICK t \in Left(todo[r]) : t.do = "resolve" /\ Cleaned(t.label) = name
    BY <1>2 DEF ToResolve
  <2>3. CASE t = Head(todo[r])
    BY <1>1, <2>1, <2>2, <2>3, ResolvedName, AppendLinked DEF Passes, At, Asked
  <2> QED BY <1>1, <2>2, <2>3 DEF ToResolve
<1>3. rows' \cup pending'[r] = rows \cup pending[r] /\ Carried(r)' = Carried(r)
  BY DEF Passes, Carried
<1> QED BY <1>1, <1>2, <1>3 DEF NoteOf

LEMMA PlantNote ==
  ASSUME TypeOK, NEW r \in Request, PlanOf(r), NoteOf(r), UNCHANGED call,
         Linked(r) \subseteq Linked(r)', Plants(r)
  PROVE  NoteOf(r)'
<1> DEFINE stored == Cleaned(Head(todo[r]).label)
           insert == Insert(TagKey(stored), "none")
<1>1. /\ todo[r] \in Seq(Stmt) /\ todo[r] # <<>> /\ Head(todo[r]).do = "resolve"
      /\ Left(todo[r]) = {Head(todo[r])} \cup Left(Tail(todo[r]))
  BY Position DEF Plants, At
<1>2. todo'[r] = <<insert>> \o Tail(todo[r]) /\ stored \in Linked(r)'
  BY ResolvedName, AppendLinked DEF Plants
<1>3. ~ IsNote(insert.key)
  BY KeyParts DEF Insert, IsNote
<1>4. insert \in Stmt
  <2>1. Head(todo[r]) \in Stmt
    BY <1>1
  <2>2. Head(todo[r]).label \in Label
    BY <1>1, <2>1 DEF Stmt
  <2>3. stored \in Name
    BY <2>2 DEF Label, Name, Cleaned
  <2> HIDE DEF stored
  <2> QED BY <2>3 DEF Insert, TagKey, Stmt, Key
<1> HIDE DEF insert
<1>5. Left(todo'[r]) = {insert} \cup Left(Tail(todo[r]))
  <2>1. <<insert>> \in Seq(Stmt) /\ Tail(todo[r]) \in Seq(Stmt)
    BY <1>1, <1>4, TailAt
  <2>2. Left(<<insert>>) = {insert}
    BY DEF Left
  <2> HIDE DEF Stmt
  <2> QED BY <1>2, <2>1, <2>2, ConcatLeft
<1>6. ASSUME NEW name, ToResolve(todo[r], name)
      PROVE  name \in Linked(r)' \/ ToResolve(todo'[r], name)
  BY <1>1, <1>2, <1>5, <1>6 DEF ToResolve
<1>7. rows' \cup pending'[r] = rows \cup pending[r] /\ Carried(r)' = Carried(r)
  BY DEF Plants, Carried
<1> QED BY <1>1, <1>3, <1>5, <1>6, <1>7 DEF NoteOf

LEMMA PutNote ==
  ASSUME TypeOK, NEW r \in Request, PlanOf(r), WriteOf(r), NoteOf(r), UNCHANGED call, Puts(r)
  PROVE  NoteOf(r)'
<1> DEFINE row == [key |-> Head(todo[r]).key, role |-> Head(todo[r]).role, by |-> r,
                   tags |-> Links(r, Head(todo[r]).key)]
<1>1. /\ todo[r] \in Seq(Stmt) /\ todo[r] # <<>> /\ Head(todo[r]).do = "insert"
      /\ Left(todo[r]) = {Head(todo[r])} \cup Left(Tail(todo[r])) /\ Separate(call[r], todo[r])
  BY Position DEF Puts, At, WriteOf
<1>2. \A s \in Left(Tail(todo[r])) : Apart(call[r], Head(todo[r]), s)
  BY <1>1, TailSeparate
<1>3. \A name : ToResolve(todo[r], name) => ToResolve(Tail(todo[r]), name)
  BY <1>1 DEF ToResolve
<1>4. ASSUME IsNote(Head(todo[r]).key) PROVE call[r].op = "save" /\ Carried(r) \subseteq Linked(r)
  <2>1. \A name : ~ ToResolve(todo[r], name)
    BY <1>1, <1>2, <1>4 DEF ToResolve, Apart, Writes, IsNote
  <2>2. Head(todo[r]).key \in Due(r) \cup TagsOf(call[r])
    BY <1>1 DEF WriteOf, Writes, Target
  <2> QED BY <1>1, <1>4, <2>1, <2>2, NotesAreSaved DEF NoteOf
<1>5. row.key = Head(todo[r]).key /\ (IsNote(row.key) => row.tags = Linked(r))
  BY DEF IsNote, Links, Linked
<1>6. pending'[r] = pending[r] \cup {row}
  BY DEF Puts
<1> HIDE DEF row
<1>7. /\ UNCHANGED <<rows, tags>> /\ Carried(r)' = Carried(r) /\ todo'[r] = Tail(todo[r])
      /\ Linked(r)' = Linked(r)
  BY DEF Puts, Carried, Linked
<1>8. \A one \in rows' \cup pending'[r] : one.by = r /\ IsNote(one.key) =>
        call'[r].op = "save" /\ Carried(r)' \subseteq one.tags
  BY <1>4, <1>5, <1>6, <1>7 DEF NoteOf
<1>9. \A s \in Left(todo[r])' : s.do = "insert" /\ IsNote(s.key) =>
        \A name \in Carried(r)' : name \in Linked(r)' \/ ToResolve(todo[r], name)'
  BY <1>1, <1>3, <1>7 DEF NoteOf
<1> QED BY <1>8, <1>9 DEF NoteOf

LEMMA EndNote ==
  ASSUME TypeOK, NEW r \in Request, PlanOf(r), NoteOf(r), UNCHANGED call,
         Linked(r) \subseteq Linked(r)', Commits(r) \/ Leaves(r)
  PROVE  NoteOf(r)'
<1>1. /\ todo[r] \in Seq(Stmt) /\ todo[r] # <<>>
      /\ Left(todo[r]) = {Head(todo[r])} \cup Left(Tail(todo[r]))
  BY Position DEF Commits, Leaves, At
<1>2. rows' \cup pending'[r] \subseteq rows \cup pending[r] /\ Carried(r)' = Carried(r)
  BY DEF Commits, Leaves, Carried
<1>3. CASE Commits(r)
  <2>1. todo'[r] = Tail(todo[r]) /\ Head(todo[r]).do = "commit"
    BY <1>3 DEF Commits, At
  <2>2. \A name : ToResolve(todo[r], name) => ToResolve(Tail(todo[r]), name)
    BY <1>1, <2>1 DEF ToResolve
  <2> QED BY <1>1, <1>2, <2>1, <2>2 DEF NoteOf
<1>4. CASE Leaves(r)
  <2>1. Left(todo'[r]) = {}
    BY <1>4 DEF Leaves, Left
  <2> QED BY <1>2, <2>1 DEF NoteOf
<1> QED BY <1>3, <1>4

LEMMA MoveList ==
  ASSUME TypeOK, NEW r \in Request, PlanOf(r), PlanOf(r)', ListOf(r), before[r] \subseteq rows,
         rows \subseteq rows', UNCHANGED <<call, before>>,
         Passes(r) \/ Plants(r) \/ Puts(r) \/ Commits(r) \/ Leaves(r)
  PROVE  ListOf(r)'
<1>1. todo[r] # <<>>
  BY DEF Passes, Plants, Puts, Commits, Leaves, At
<1>2. found'[r] = found[r] \/ (Passes(r) /\ At(r, "read") /\ found'[r] = Shown(call[r], rows))
  BY DEF Passes, Plants, Puts, Commits, Leaves
<1>3. found'[r] \subseteq rows'
  BY <1>2 DEF ListOf, Shown
<1>4. ASSUME call[r].op \in Lists
      PROVE  /\ \/ todo'[r] \in {<<>>, <<Read>>}
                \/ \E key \in Key : todo'[r] = <<Present(key, 403), Read>>
             /\ answer'[r] = 200 => Shown(call[r], before[r]) \subseteq found'[r]
  <2>1. /\ Read.do = "read" /\ Tail(<<Read>>) = <<>> /\ Head(<<Read>>) = Read
        /\ \A key : /\ Present(key, 403).do = "present"
                    /\ Head(<<Present(key, 403), Read>>) = Present(key, 403)
                    /\ Tail(<<Present(key, 403), Read>>) = <<Read>>
    BY DEF Read, Present
  <2>2. Head(todo[r]).do \in {"read", "present"} /\ Tail(todo[r]) \in {<<>>, <<Read>>}
        /\ (Head(todo[r]).do = "present" => Tail(todo[r]) = <<Read>>)
    <3>1. todo[r] = <<Read>> \/ \E key \in Key : todo[r] = <<Present(key, 403), Read>>
      BY <1>1, <1>4 DEF ListOf
    <3>2. CASE todo[r] = <<Read>>
      <4>1. Head(todo[r]) = Read /\ Tail(todo[r]) = <<>>
        BY <2>1, <3>2
      <4> QED BY <2>1, <4>1
    <3>3. ASSUME NEW key \in Key, todo[r] = <<Present(key, 403), Read>>
          PROVE  Head(todo[r]).do = "present" /\ Tail(todo[r]) = <<Read>>
      <4>1. Head(todo[r]) = Present(key, 403) /\ Tail(todo[r]) = <<Read>>
        BY <2>1, <3>3
      <4> QED BY <2>1, <4>1
    <3> QED BY <3>1, <3>2, <3>3
  <2>3. CASE Passes(r)
    <3>1. todo'[r] = Tail(todo[r])
      BY <2>3 DEF Passes
    <3>2. CASE Head(todo[r]).do = "read"
      <4>1. found'[r] = Shown(call[r], rows)
        BY <1>1, <2>3, <3>2 DEF Passes, At
      <4> QED BY <2>2, <3>1, <4>1 DEF Shown
    <3>3. CASE Head(todo[r]).do = "present"
      <4>1. todo'[r] = <<Read>> /\ todo'[r] # <<>>
        BY <2>2, <3>1, <3>3
      <4>2. answer'[r] = 0
        BY <4>1 DEF PlanOf, Answered
      <4> QED BY <4>1, <4>2
    <3> QED BY <2>2, <3>2, <3>3
  <2>4. CASE Leaves(r)
    BY <2>4 DEF Leaves
  <2>5. ~ (Plants(r) \/ Puts(r) \/ Commits(r))
    BY <2>2 DEF Plants, Puts, Commits, At
  <2> QED BY <2>3, <2>4, <2>5
<1> QED BY <1>3, <1>4 DEF ListOf, Shown

LEMMA ArriveNote ==
  ASSUME TypeOK, PlanInv, NoteInv, NEW r \in Request, Arrive(r)
  PROVE  NoteOf(r)' /\ ListOf(r)'
<1>1. PICK c \in Call[r] : /\ call' = [call EXCEPT ![r] = c]
                           /\ todo' = [todo EXCEPT ![r] = Plan(r, c)]
  BY DEF Arrive
<1>2. call[r] = None /\ UNCHANGED <<rows, pending, answer, tags, found>> /\ c \in Operation
  BY RecordsAssumption DEF Arrive
<1>3. call'[r] = c /\ todo'[r] = Plan(r, c)
  BY <1>1 DEF TypeOK
<1>4. pending[r] = {} /\ Mine(r) = {} /\ answer[r] = 0
  BY <1>2, Idle
<1>5. \A row \in rows' \cup pending'[r] : row.by # r
  BY <1>2, <1>4 DEF Mine
<1>6. \A s \in Left(Plan(r, c)) : s.do = "insert" /\ IsNote(s.key) =>
        \A label \in Labels(c) : ToResolve(Plan(r, c), Cleaned(label))
  BY PlanWrites DEF ToResolve, IsNote
<1>7. Carried(r)' \subseteq {Cleaned(label) : label \in Labels(c)}
  BY <1>3 DEF Carried
<1>8. NoteOf(r)'
  BY <1>3, <1>5, <1>6, <1>7 DEF NoteOf
<1>9. ASSUME c.op \in Lists
      PROVE  Plan(r, c) = <<Read>> \/ \E key \in Key : Plan(r, c) = <<Present(key, 403), Read>>
  <2>1. CASE c.op = "workspaces"
    BY <2>1 DEF Plan
  <2>2. CASE c.op # "workspaces"
    <3>1. MemberKey(c.workspace, c.by) \in Key
      BY <1>2, <1>9, <2>2 DEF Operation, MemberKey, Key, Workspace, Lists
    <3>2. Plan(r, c) = List(c)
      BY <1>9, <2>2 DEF Plan, Lists
    <3> QED BY <3>1, <3>2 DEF List
  <2> QED BY <2>1, <2>2
<1>10. ListOf(r)'
  BY <1>2, <1>3, <1>4, <1>9 DEF NoteInv, ListOf
<1> QED BY <1>8, <1>10

LEMMA InitNote == Init => NoteInv
<1> SUFFICES ASSUME Init, NEW r \in Request PROVE NoteOf(r) /\ ListOf(r)
  BY DEF NoteInv
<1>1. /\ todo[r] = <<>> /\ pending[r] = {} /\ answer[r] = 0 /\ found[r] = {} /\ rows = Seed
  BY DEF Init
<1>2. \A row \in rows : row.by # r
  BY <1>1, RecordsAssumption
<1> QED BY <1>1, <1>2 DEF NoteOf, ListOf, Left

LEMMA NoteStep ==
  TypeOK /\ PlanInv /\ WriteInv /\ NoteInv /\ [Next]_vars => NoteInv'
<1> SUFFICES ASSUME TypeOK, PlanInv, WriteInv, NoteInv, [Next]_vars PROVE NoteInv'
  OBVIOUS
<1>1. CASE UNCHANGED vars
  <2>1. \A r \in Request : Linked(r)' = Linked(r) /\ Carried(r)' = Carried(r)
    BY <1>1 DEF vars, work, Linked, Carried
  <2> QED BY <1>1, <2>1 DEF vars, work, NoteInv, NoteOf, ListOf
<1>2. ASSUME NEW r \in Request,
             Statement(r) \/ AbortVictim(r) \/ Arrive(r) \/ StatementError(r)
      PROVE  NoteInv'
  <2>1. /\ rows \subseteq rows' /\ \A row \in rows' \ rows : row.by = r
        /\ \A q \in Request \ {r} :
             /\ todo'[q] = todo[q] /\ pending'[q] = pending[q] /\ call'[q] = call[q]
             /\ answer'[q] = answer[q] /\ before'[q] = before[q] /\ tags'[q] = tags[q]
             /\ found'[q] = found[q]
    BY <1>2, OwnStep DEF PlanInv, PlanOf
  <2>2. ASSUME NEW q \in Request, q # r PROVE NoteOf(q)' /\ ListOf(q)'
    <3>1. NoteOf(q)'
      BY <2>1, <2>2 DEF NoteInv, NoteOf, Carried, Linked
    <3>2. ListOf(q)'
      BY <2>1, <2>2 DEF NoteInv, ListOf
    <3> QED BY <3>1, <3>2
  <2>3. ASSUME Statement(r) \/ AbortVictim(r) \/ StatementError(r)
        PROVE  NoteOf(r)' /\ ListOf(r)'
    <3>1. /\ PlanOf(r) /\ WriteOf(r) /\ NoteOf(r) /\ ListOf(r) /\ before[r] \subseteq rows
      BY DEF PlanInv, WriteInv, SeenOf, NoteInv
    <3>2. /\ Passes(r) \/ Plants(r) \/ Puts(r) \/ Commits(r) \/ Leaves(r)
          /\ UNCHANGED <<call, before>>
      BY <2>3, <3>1, Moves
    <3>4. Linked(r) \subseteq Linked(r)'
      BY <3>1, <3>2, LinkedGrows
    <3>3. PlanOf(r)'
      BY <1>2, PlanStep DEF PlanInv, Next, Work
    <3> QED BY <2>1, <3>1, <3>2, <3>3, <3>4, PassNote, PlantNote, PutNote, EndNote, MoveList
  <2> QED BY <1>2, <2>2, <2>3, ArriveNote DEF NoteInv
<1> QED BY <1>1, <1>2 DEF Next, Work

-----------------------------------------------------------------------------
\* The variables of Records keep their types.
THEOREM RecordsTypeCorrect == Spec => []TypeOK
<1> QED BY InitType, NextType, PTL DEF Spec

\* However many requests look for a key before one of them inserts it, there
\* is one row for it: a user, a membership, a tag, a note.
THEOREM KeysStayUnique == Spec => []OneRowPerKey
<1>1. Init => TypeOK /\ KeysInv
  <2>1. Init => KeysInv
    BY RecordsAssumption DEF Init, KeysInv, OnePerKey, Disjoint, Keys
  <2> QED BY <2>1, InitType
<1>2. TypeOK /\ KeysInv /\ [Next]_vars => (TypeOK /\ KeysInv)'
  BY NextType, KeysStep
<1>3. KeysInv => OneRowPerKey
  BY DEF KeysInv, OnePerKey, OneRowPerKey
<1> QED BY <1>1, <1>2, <1>3, PTL DEF Spec

\* A request leaves all the rows its answer stands for or none, whichever of
\* its statements fails and whatever the others insert meanwhile.
THEOREM RequestsAreWhole == Spec => []AllOrNothing
<1>1. Init => TypeOK /\ PlanInv
  BY InitType, InitPlan
<1>2. TypeOK /\ PlanInv /\ [Next]_vars => (TypeOK /\ PlanInv)'
  BY NextType, PlanStep
<1>3. PlanInv => AllOrNothing
  BY DEF PlanInv, PlanOf, OpenPlan, ClosedPlan, Answered, AllOrNothing, Due
<1> QED BY <1>1, <1>2, <1>3, PTL DEF Spec

\* A job is about a row that is there, and only an error leaves a row without
\* its job.
THEOREM JobsHaveTheirRows == Spec => []JobsFollowRows
<1>1. Init => TypeOK /\ PlanInv
  BY InitType, InitPlan
<1>2. TypeOK /\ PlanInv /\ [Next]_vars => (TypeOK /\ PlanInv)'
  BY NextType, PlanStep
<1>3. PlanInv => JobsFollowRows
  <2> SUFFICES ASSUME PlanInv, NEW r \in Request
               PROVE  /\ jobs[r] <= 1 /\ (jobs[r] = 1 => Mine(r) # {})
                      /\ answer[r] = 201 /\ call[r].op \notin {"create", "room"} /\ r \notin hit
                           => jobs[r] = 1
    BY DEF JobsFollowRows
  <2>1. jobs[r] <= 1 /\ (jobs[r] = 1 => Mine(r) # {})
    BY DEF PlanInv, PlanOf, OpenPlan, ClosedPlan
  <2>2. ASSUME answer[r] = 201, call[r].op \notin {"create", "room"}, r \notin hit
        PROVE  jobs[r] = 1
    <3>1. todo[r] = <<>> /\ Mine(r) # {}
      BY <2>2 DEF PlanInv, PlanOf, Answered
    <3>2. ClosedPlan(r) /\ ~ Has(todo[r], "enqueue")
      BY <3>1 DEF PlanInv, PlanOf, OpenPlan, Has, Left
    <3>3. Notifies(call[r])
      BY <2>2, <3>1, <3>2 DEF ClosedPlan, Due, Wanted, Notifies
    <3> QED BY <2>2, <3>1, <3>2, <3>3 DEF ClosedPlan
  <2> QED BY <2>1, <2>2
<1> QED BY <1>1, <1>2, <1>3, PTL DEF Spec

\* A request that fails without an error has lost a race for a key that was
\* not there when it came, or has a label that the lookup does not find again
\* or that is too long for the column, or two labels that are one.
THEOREM FailuresHaveACause == Spec => []FailsForCause
<1>1. Init => TypeOK /\ PlanInv /\ WriteInv
  BY InitType, InitPlan, InitWrites
<1>2. TypeOK /\ PlanInv /\ WriteInv /\ [Next]_vars => (TypeOK /\ PlanInv /\ WriteInv)'
  BY NextType, PlanStep, WriteStep
<1>3. WriteInv => FailsForCause
  <2> SUFFICES ASSUME WriteInv, NEW r \in Request, answer[r] = 500, r \notin hit
               PROVE  \/ \E key \in Wanted(r, call[r]) : key \in Keys(rows) \ Keys(before[r])
                      \/ /\ call[r].op = "save"
                         /\ \/ NamesTwice(call[r].labels)
                            \/ \E i \in DOMAIN call[r].labels :
                                 LET label == call[r].labels[i]
                                     key   == TagKey(Cleaned(label))
                                 IN  \/ Cleaned(label) \in TooLong
                                     \/ /\ key \in Keys(rows)
                                        /\ key \notin Keys(before[r]) \/ ~ Stable(label)
    BY DEF FailsForCause
  <2>1. Cause(r)
    BY DEF WriteInv, SeenOf
  <2> QED BY <2>1 DEF Cause, Due, Labels, Twice
<1> QED BY <1>1, <1>2, <1>3, PTL DEF Spec

\* A note saved before a list was asked for is on it under its label.
THEOREM NotesAreFound == Spec => []FoundByItsLabel
<1>1. Init => TypeOK /\ PlanInv /\ WriteInv /\ NoteInv
  BY InitType, InitPlan, InitWrites, InitNote
<1>2. TypeOK /\ PlanInv /\ WriteInv /\ NoteInv /\ [Next]_vars
        => (TypeOK /\ PlanInv /\ WriteInv /\ NoteInv)'
  BY NextType, PlanStep, WriteStep, NoteStep
<1>3. WriteInv /\ NoteInv => FoundByItsLabel
  <2> SUFFICES ASSUME WriteInv, NoteInv, NEW r \in Request, NEW q \in Request, NEW note \in before[r],
                      answer[r] = 200, call[r].op = "notes", call[q].op = "save",
                      note.by = q, note.key[1] = "note", note.key[2] = call[r].workspace,
                      Stable(call[r].label),
                      Cleaned(call[r].label)
                        \in {Cleaned(call[q].labels[i]) : i \in DOMAIN call[q].labels}
               PROVE  note \in found[r]
    BY DEF FoundByItsLabel
  <2>1. PICK label \in Labels(call[q]) : Cleaned(label) = Cleaned(call[r].label)
    BY DEF Labels
  <2>2. Cleaned(call[r].label) \in Carried(q)
    BY <2>1 DEF Carried, Stable
  <2>3. note \in rows
    BY DEF WriteInv, SeenOf
  <2>4. Carried(q) \subseteq note.tags
    BY <2>3 DEF NoteInv, NoteOf, IsNote
  <2>5. note \in Shown(call[r], before[r])
    BY <2>2, <2>4 DEF Shown, Matches
  <2> QED BY <2>5 DEF NoteInv, ListOf, Lists
<1> QED BY <1>1, <1>2, <1>3, PTL DEF Spec

\* A list has every row that was committed before it was asked for, and none
\* that is not committed.
ListsAreExact ==
  \A r \in Request : answer[r] = 200 /\ call[r].op \in Lists =>
    Shown(call[r], before[r]) \subseteq found[r] /\ found[r] \subseteq rows

THEOREM ListsShowCommittedRows == Spec => []ListsAreExact
<1>1. Init => TypeOK /\ PlanInv /\ WriteInv /\ NoteInv
  BY InitType, InitPlan, InitWrites, InitNote
<1>2. TypeOK /\ PlanInv /\ WriteInv /\ NoteInv /\ [Next]_vars
        => (TypeOK /\ PlanInv /\ WriteInv /\ NoteInv)'
  BY NextType, PlanStep, WriteStep, NoteStep
<1>3. NoteInv => ListsAreExact
  BY DEF NoteInv, ListOf, ListsAreExact
<1> QED BY <1>1, <1>2, <1>3, PTL DEF Spec

-----------------------------------------------------------------------------
(* Locks.                                                                  *)

\* Only a request that saves a note waits with a key another one waits for:
\* the others write one key, or keys that nobody else knows.
OnlySavesDeadlock == \A r \in Request : Deadlocked(r) => call[r].op = "save"

LEMMA WaitsOnBothSides ==
  ASSUME TypeOK, PlanInv, WriteInv, NEW r \in Request, NEW p \in Request, NEW q \in Request,
         Waits(r, p), Waits(q, r)
  PROVE  call[r].op = "save"
<1> SUFFICES ASSUME call[r].op # "save" PROVE FALSE
  OBVIOUS
<1> DEFINE key == Head(todo[r]).key
<1>1. /\ p # r /\ todo[r] # <<>> /\ Head(todo[r]).do = "insert" /\ key \in Keys(pending[p])
      /\ PlanOf(r) /\ WriteOf(r) /\ WriteOf(p)
  BY DEF Waits, At, PlanInv, WriteInv
<1>2. Head(todo[r]) \in Left(todo[r])
  BY <1>1, Position
<1>3. TagsOf(call[r]) = {}
  BY DEF TagsOf, Labels
<1>4. key \in Due(r) /\ key \notin Keys(pending[r])
  BY <1>1, <1>2, <1>3 DEF WriteOf, Writes, Target, Twice
<1>5. PICK held \in Keys(pending[r]) : held \in Due(r)
  BY <1>1, <1>3 DEF Waits, WriteOf
<1>6. held # key
  BY <1>4
<1>7. call[r] \in Operation \cup {None}
  BY DEF TypeOK
<1>8. call[r].op = "create"
  BY <1>4, <1>5, <1>6 DEF Due, Wanted
<1>9. key \in Generated(r)
  BY <1>4, <1>7, <1>8 DEF Due, Wanted, Generated, Operation, None
<1>10. key \in Due(p) \cup TagsOf(call[p])
  BY <1>1 DEF WriteOf
<1> QED BY <1>1, <1>9, <1>10, NotGenerated

\* Registrations, workspaces, invitations and rooms are never the victim of a
\* lock cycle, whatever runs next to them.
THEOREM LockCyclesAreSaves == Spec => []OnlySavesDeadlock
<1>1. Init => TypeOK /\ PlanInv /\ WriteInv
  BY InitType, InitPlan, InitWrites
<1>2. TypeOK /\ PlanInv /\ WriteInv /\ [Next]_vars => (TypeOK /\ PlanInv /\ WriteInv)'
  BY NextType, PlanStep, WriteStep
<1>3. TypeOK /\ PlanInv /\ WriteInv => OnlySavesDeadlock
  <2> SUFFICES ASSUME TypeOK, PlanInv, WriteInv, NEW r \in Request, Deadlocked(r)
               PROVE  call[r].op = "save"
    BY DEF OnlySavesDeadlock
  <2>1. PICK p \in Request, q \in Request : Waits(r, p) /\ Waits(q, r)
    BY DEF Deadlocked
  <2> QED BY <2>1, WaitsOnBothSides
<1> QED BY <1>1, <1>2, <1>3, PTL DEF Spec

-----------------------------------------------------------------------------
(* Commits.                                                                *)

\* A step that changes the database adds all the rows one request answers
\* for, under keys that were free, and of other rows only tags of its labels;
\* a request does so once.
OneCommitEach ==
  [][rows' # rows =>
       \E r \in Request :
         /\ Mine(r) = {} /\ rows \subseteq rows' /\ Mine(r)' = rows' \ rows
         /\ Due(r) \subseteq Keys(Mine(r)') /\ Due(r) # {}
         /\ Keys(Mine(r)') \subseteq Due(r) \cup TagsOf(call[r])
         /\ Keys(Mine(r)') \cap Keys(rows) = {}]_vars

\* Nobody sees half of a request: it changes the database in one step.
THEOREM CommitsAreAtomic == Spec => OneCommitEach
<1> DEFINE Inv == TypeOK /\ KeysInv /\ PlanInv /\ WriteInv
<1>1. Init => Inv
  <2>1. Init => KeysInv
    BY RecordsAssumption DEF Init, KeysInv, OnePerKey, Disjoint, Keys
  <2> QED BY <2>1, InitType, InitPlan, InitWrites
<1>2. Inv /\ [Next]_vars => Inv'
  BY NextType, KeysStep, PlanStep, WriteStep
<1> DEFINE Whole ==
      rows' # rows =>
        \E r \in Request :
          /\ Mine(r) = {} /\ rows \subseteq rows' /\ Mine(r)' = rows' \ rows
          /\ Due(r) \subseteq Keys(Mine(r)') /\ Due(r) # {}
          /\ Keys(Mine(r)') \subseteq Due(r) \cup TagsOf(call[r])
          /\ Keys(Mine(r)') \cap Keys(rows) = {}
<1>3. Inv /\ [Next]_vars => Whole
  <2> SUFFICES ASSUME Inv, [Next]_vars, rows' # rows PROVE Whole
    OBVIOUS
  <2>1. PICK r \in Request : Statement(r) \/ AbortVictim(r) \/ Arrive(r) \/ StatementError(r)
    BY DEF Next, Work, vars
  <2>2. ~ Arrive(r)
    BY DEF Arrive
  <2>3. PlanOf(r) /\ WriteOf(r)
    BY DEF PlanInv, WriteInv
  <2>4. At(r, "commit") /\ rows' = rows \cup pending[r]
    <3>1. Passes(r) \/ Plants(r) \/ Puts(r) \/ Commits(r) \/ Leaves(r)
      BY <2>1, <2>2, <2>3, Moves
    <3> QED BY <3>1 DEF Passes, Plants, Puts, Commits, Leaves
  <2>5. Mine(r) = {} /\ Due(r) # {} /\ Due(r) \subseteq Keys(pending[r])
    BY <2>3, <2>4, AtCommit
  <2>6. Mine(r)' = pending[r]
    BY <2>3, <2>4, <2>5, CommittedMine
  <2>7. Keys(pending[r]) \cap Keys(rows) = {} /\ rows' \ rows = pending[r]
    BY <2>4 DEF KeysInv, Disjoint, Keys
  <2>8. Keys(pending[r]) \subseteq Due(r) \cup TagsOf(call[r])
    BY <2>3 DEF WriteOf
  <2> QED BY <2>4, <2>5, <2>6, <2>7, <2>8
<1>4. Inv /\ [Next]_vars => [Whole]_vars
  BY <1>3
<1> HIDE DEF Inv, Whole
<1>5. Spec => [][Whole]_vars
  BY <1>1, <1>2, <1>4, PTL DEF Spec
<1> QED BY <1>5 DEF Whole, OneCommitEach
=============================================================================
