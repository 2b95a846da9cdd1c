--------------------------- MODULE ChatRoomProofs ---------------------------
(***************************************************************************)
(* Proofs about ChatRoom: types, the room of the socket and of the deck,   *)
(* and which messages the deck shows, once and in which order.             *)
(***************************************************************************)
EXTENDS ChatRoom, FiniteSetTheorems, TLAPS

\* A handler works on its socket's latest message, which is not published;
\* nothing happens on the page before a room is selected.
TypeInv ==
  /\ TypeOK
  /\ \A m \in DOMAIN messages : messages[m].room = Place[messages[m].by]
  /\ \A s \in Sender : handling[s] # None =>
       /\ messages[handling[s]].state # "published"
       /\ \A m \in DOMAIN messages : messages[m].by = s => m <= handling[s]
  /\ \A q \in Load : load[q] # None => load[q].answer \in Seq(DOMAIN messages)
  /\ room = None => /\ link = "none" /\ closing = 0 /\ timers = 0
                    /\ \A q \in Load : load[q] = None

LEMMA RowFacts ==
  ASSUME TypeInv
  PROVE  /\ DOMAIN messages = 1 .. Len(messages) /\ Len(messages) \in 0 .. MaxMessages
         /\ DOMAIN messages \subseteq Message
         /\ \A m \in DOMAIN messages :
              /\ m \in Nat /\ messages[m] \in Row /\ messages[m].room \in Room
              /\ messages[m].by \in Sender
              /\ messages[m].state \in {"inserted", "committed", "published"}
<1>1. messages \in Seq(Row) /\ Len(messages) <= MaxMessages /\ MaxMessages \in Nat
  BY ChatRoomAssumption DEF TypeInv, TypeOK
<1>2. \A m \in DOMAIN messages : messages[m] \in Row /\ m \in Nat
  BY <1>1
<1>3. DOMAIN messages \subseteq Message
  BY <1>1 DEF Message
<1> QED BY <1>1, <1>2, <1>3 DEF Row

LEMMA HandlingFacts ==
  ASSUME TypeInv
  PROVE  /\ handling \in [Sender -> Message \cup {None}]
         /\ \A t \in Sender : handling[t] # None =>
              /\ handling[t] \in DOMAIN messages /\ messages[handling[t]].by = t
              /\ messages[handling[t]].state # "published"
              /\ \A n \in DOMAIN messages : messages[n].by = t => n <= handling[t]
BY DEF TypeInv, TypeOK

LEMMA SetStateFacts ==
  ASSUME TypeInv, NEW m \in DOMAIN messages,
         NEW st \in {"inserted", "committed", "published"}, SetState(m, st)
  PROVE  /\ messages' \in Seq(Row) /\ Len(messages') = Len(messages)
         /\ DOMAIN messages' = DOMAIN messages
         /\ \A n \in DOMAIN messages :
              /\ messages'[n].room = messages[n].room /\ messages'[n].by = messages[n].by
              /\ messages'[n].state = IF n = m THEN st ELSE messages[n].state
<1>1. messages \in Seq(Row) /\ messages[m] \in Row
  BY RowFacts DEF TypeInv, TypeOK
<1> DEFINE row == [messages[m] EXCEPT !.state = st]
<1>2. row \in Row /\ row.room = messages[m].room /\ row.by = messages[m].by /\ row.state = st
  BY <1>1 DEF Row
<1>3. messages' = [messages EXCEPT ![m] = row]
  BY DEF SetState
<1> HIDE DEF row, Row
<1>4. messages' \in Seq(Row) /\ Len(messages') = Len(messages) /\ DOMAIN messages' = DOMAIN messages
  BY <1>1, <1>2, <1>3
<1>5. \A n \in DOMAIN messages : messages'[n] = IF n = m THEN row ELSE messages[n]
  BY <1>1, <1>3
<1> QED BY <1>2, <1>4, <1>5

\* What a step of a sender's handler does to the rows, unless it publishes.
RowsGrow ==
  /\ messages' \in Seq(Row) /\ Len(messages') <= MaxMessages
  /\ DOMAIN messages \subseteq DOMAIN messages'
  /\ \A n \in DOMAIN messages :
       /\ messages'[n].room = messages[n].room /\ messages'[n].by = messages[n].by
       /\ messages'[n].state = "published" <=> messages[n].state = "published"
       /\ messages[n].state # "inserted" => messages'[n].state # "inserted"
  /\ \A n \in DOMAIN messages' \ DOMAIN messages : messages'[n].state = "inserted"

LEMMA InsertFacts ==
  ASSUME TypeInv, NEW s \in Sender, Insert(s)
  PROVE  /\ RowsGrow /\ DOMAIN messages' = DOMAIN messages \cup {Len(messages) + 1}
         /\ Len(messages) + 1 \in Message
         /\ messages'[Len(messages) + 1] = [room |-> Place[s], by |-> s, state |-> "inserted"]
<1> DEFINE row == [room |-> Place[s], by |-> s, state |-> "inserted"]
<1>1. row \in Row /\ row.state = "inserted"
  BY ChatRoomAssumption DEF Row
<1>2. messages \in Seq(Row) /\ Len(messages) \in Nat /\ Len(messages) < MaxMessages
  BY DEF Insert, TypeInv, TypeOK
<1>3. messages' = Append(messages, row)
  BY DEF Insert
<1> HIDE DEF row, Row
<1>4. /\ messages' \in Seq(Row) /\ Len(messages') = Len(messages) + 1
      /\ messages'[Len(messages) + 1] = row
      /\ \A n \in DOMAIN messages : messages'[n] = messages[n]
      /\ DOMAIN messages' = 1 .. Len(messages) + 1 /\ DOMAIN messages = 1 .. Len(messages)
  BY <1>1, <1>2, <1>3
<1>5. DOMAIN messages' = DOMAIN messages \cup {Len(messages) + 1}
  BY <1>2, <1>4
<1>6. RowsGrow
  BY <1>1, <1>2, <1>4, <1>5, ChatRoomAssumption DEF RowsGrow
<1>7. Len(messages) + 1 \in Message
  BY <1>2, ChatRoomAssumption DEF Message
<1> QED BY <1>4, <1>5, <1>6, <1>7 DEF row

LEMMA CommitFacts ==
  ASSUME TypeInv, NEW s \in Sender, Commit(s) \/ HandlerError(s)
  PROVE  RowsGrow /\ DOMAIN messages' = DOMAIN messages
<1>1. /\ handling[s] \in DOMAIN messages /\ messages[handling[s]].state # "published"
      /\ messages \in Seq(Row) /\ Len(messages) <= MaxMessages
  BY DEF Commit, HandlerError, TypeInv, TypeOK
<1>2. CASE SetState(handling[s], "committed")
  BY <1>1, <1>2, SetStateFacts DEF RowsGrow
<1>3. CASE UNCHANGED messages
  BY <1>1, <1>3 DEF RowsGrow
<1> QED BY <1>2, <1>3 DEF Commit, HandlerError

LEMMA PublishFacts ==
  ASSUME TypeInv, NEW s \in Sender, Publish(s), NEW m, m = handling[s]
  PROVE  /\ m \in DOMAIN messages /\ messages[m].state = "committed"
         /\ messages[m].by = s /\ messages[m].room = Place[s]
         /\ \A n \in DOMAIN messages : messages[n].by = s => n <= m
         /\ messages' \in Seq(Row) /\ Len(messages') = Len(messages)
         /\ DOMAIN messages' = DOMAIN messages
         /\ \A n \in DOMAIN messages :
              /\ messages'[n].room = messages[n].room /\ messages'[n].by = messages[n].by
              /\ messages'[n].state = IF n = m THEN "published" ELSE messages[n].state
<1>1. /\ m \in DOMAIN messages /\ messages[m].by = s /\ messages[m].state = "committed"
      /\ \A n \in DOMAIN messages : messages[n].by = s => n <= m
  BY DEF Publish, TypeInv, TypeOK
<1>2. messages[m].room = Place[s]
  BY <1>1 DEF TypeInv
<1>3. SetState(m, "published")
  BY DEF Publish
<1> QED BY <1>1, <1>2, <1>3, SetStateFacts

LEMMA SeqGrows ==
  ASSUME NEW S, NEW T, S \subseteq T, NEW q \in Seq(S)
  PROVE  q \in Seq(T)
OBVIOUS

LEMMA InitType == Init => TypeInv
<1> SUFFICES ASSUME Init PROVE TypeInv
  OBVIOUS
<1>1. messages = <<>> /\ deck = <<>> /\ inbox = <<>> /\ DOMAIN messages = {}
  BY DEF Init
<1>2. /\ messages \in Seq(Row) /\ Len(messages) <= MaxMessages
      /\ deck \in Seq(DOMAIN messages) /\ inbox \in Seq(DOMAIN messages)
  BY <1>1, ChatRoomAssumption
<1>3. handling \in [Sender -> Message \cup {None}] /\ load \in [Load -> Request \cup {None}]
  BY DEF Init
<1>4. TypeOK
  <2>1. \A s \in Sender : handling[s] = None
    BY DEF Init
  <2>2. selections \in 0 .. MaxSelections /\ errors \in 0 .. MaxErrors
    BY ChatRoomAssumption DEF Init
  <2>3. /\ room = None /\ link = "none" /\ linkRoom = None /\ inbox = <<>>
        /\ closing = 0 /\ timers = 0 /\ missed = {} /\ early = {}
        /\ listener = "listening" /\ fresh = TRUE
        /\ overlapped = FALSE /\ broken = FALSE
    BY DEF Init
  <2> QED BY <1>2, <1>3, <2>1, <2>2, <2>3 DEF TypeOK
<1> QED BY <1>1, <1>4 DEF Init, TypeInv

\* What the page and the requests hold stays well typed when rows come.
LEMMA GrownType ==
  ASSUME TypeInv, DOMAIN messages \subseteq DOMAIN messages',
         UNCHANGED <<room, deck, load, socket, closed, history, selections>>
  PROVE  /\ deck' \in Seq(DOMAIN messages') /\ inbox' \in Seq(DOMAIN messages')
         /\ \A q \in Load : load'[q] # None => load'[q].answer \in Seq(DOMAIN messages')
BY SeqGrows DEF TypeInv, TypeOK, socket

LEMMA SenderType ==
  ASSUME TypeInv, NEW s \in Sender, Handler(s)
  PROVE  TypeInv'
<1> USE DEF socket, closed, access, history, counters
<1>1. CASE Insert(s)
  <2> DEFINE m == Len(messages) + 1
  <2>1. /\ RowsGrow /\ DOMAIN messages' = DOMAIN messages \cup {m} /\ m \in Message
        /\ messages'[m] = [room |-> Place[s], by |-> s, state |-> "inserted"]
        /\ m \in Nat /\ m \notin DOMAIN messages
    <3>1. m \in Nat /\ m \notin DOMAIN messages
      BY RowFacts, ChatRoomAssumption
    <3>2. /\ RowsGrow /\ DOMAIN messages' = DOMAIN messages \cup {m} /\ m \in Message
          /\ messages'[m] = [room |-> Place[s], by |-> s, state |-> "inserted"]
      BY <1>1, InsertFacts
    <3> QED BY <3>1, <3>2
  <2>2. \A n \in DOMAIN messages : n <= m
    BY RowFacts
  <2> HIDE DEF m
  <2>3. handling' = [handling EXCEPT ![s] = m] /\ handling[s] = None
    BY <1>1 DEF Insert, m
  <2>4. \A t \in Sender : handling'[t] = IF t = s THEN m ELSE handling[t]
    BY <2>3 DEF TypeInv, TypeOK
  <2>5. m # None
    BY <2>1, ChatRoomAssumption
  <2>6. /\ deck' \in Seq(DOMAIN messages') /\ inbox' \in Seq(DOMAIN messages')
        /\ \A q \in Load : load'[q] # None => load'[q].answer \in Seq(DOMAIN messages')
    BY <1>1, <2>1, GrownType DEF Insert
  <2>7. /\ handling' \in [Sender -> Message \cup {None}]
        /\ \A t \in Sender : handling'[t] # None =>
             /\ handling'[t] \in DOMAIN messages' /\ messages'[handling'[t]].by = t
             /\ messages'[handling'[t]].state # "published"
    <3>1. handling' \in [Sender -> Message \cup {None}]
      BY <2>1, <2>3, HandlingFacts
    <3>2. ASSUME NEW t \in Sender, handling'[t] # None
          PROVE  /\ handling'[t] \in DOMAIN messages' /\ messages'[handling'[t]].by = t
                 /\ messages'[handling'[t]].state # "published"
      BY <2>1, <2>4, <3>2, HandlingFacts DEF RowsGrow
    <3> QED BY <3>1, <3>2
  <2>8. \A t \in Sender : handling'[t] # None =>
          \A n \in DOMAIN messages' : messages'[n].by = t => n <= handling'[t]
    BY <2>1, <2>2, <2>4 DEF TypeInv, RowsGrow
  <2>9. \A n \in DOMAIN messages' : messages'[n].room = Place[messages'[n].by]
    BY <2>1 DEF TypeInv, RowsGrow
  <2>10. TypeOK'
    BY <1>1, <2>1, <2>6, <2>7 DEF Insert, TypeInv, TypeOK, RowsGrow
  <2>11. UNCHANGED <<room, load, link, closing, timers>>
    BY <1>1 DEF Insert
  <2> QED BY <2>6, <2>7, <2>8, <2>9, <2>10, <2>11 DEF TypeInv
<1>2. CASE Commit(s) \/ HandlerError(s)
  <2>1. RowsGrow /\ DOMAIN messages' = DOMAIN messages
    BY <1>2, CommitFacts
  <2>2. /\ errors' \in 0 .. MaxErrors
        /\ UNCHANGED <<room, deck, load, link, linkRoom, inbox, closing, timers,
                       listener, fresh, missed, early, overlapped, broken, selections>>
    BY <1>2, ChatRoomAssumption DEF Commit, HandlerError, Fault, TypeInv, TypeOK
  <2>3. /\ handling' \in [Sender -> Message \cup {None}]
        /\ \A t \in Sender : handling'[t] # None => handling'[t] = handling[t]
    BY <1>2 DEF Commit, HandlerError, TypeInv, TypeOK
  <2>4. \A t \in Sender : handling'[t] # None =>
          /\ handling'[t] \in DOMAIN messages' /\ messages'[handling'[t]].by = t
          /\ messages'[handling'[t]].state # "published"
          /\ \A n \in DOMAIN messages' : messages'[n].by = t => n <= handling'[t]
    BY <2>1, <2>3, HandlingFacts DEF RowsGrow
  <2>5. \A n \in DOMAIN messages' : messages'[n].room = Place[messages'[n].by]
    BY <2>1 DEF TypeInv, RowsGrow
  <2>6. TypeOK'
    BY <2>1, <2>2, <2>3, <2>4 DEF TypeInv, TypeOK, RowsGrow
  <2> QED BY <2>1, <2>2, <2>4, <2>5, <2>6 DEF TypeInv
<1>3. CASE Publish(s)
  <2> DEFINE m == handling[s]
  <2>1. /\ m \in DOMAIN messages /\ messages' \in Seq(Row) /\ Len(messages') = Len(messages)
        /\ messages[m].by = s /\ DOMAIN messages' = DOMAIN messages
        /\ \A n \in DOMAIN messages :
             /\ messages'[n].room = messages[n].room /\ messages'[n].by = messages[n].by
             /\ messages'[n].state = IF n = m THEN "published" ELSE messages[n].state
    BY <1>3, PublishFacts
  <2>2. m \in Message
    BY <2>1, RowFacts
  <2>3. /\ handling' \in [Sender -> Message \cup {None}]
        /\ \A t \in Sender : handling'[t] # None => t # s /\ handling'[t] = handling[t]
    BY <1>3 DEF Publish, TypeInv, TypeOK
  <2> HIDE DEF m
  <2>4. \A t \in Sender : handling'[t] # None =>
          /\ handling'[t] \in DOMAIN messages' /\ messages'[handling'[t]].by = t
          /\ messages'[handling'[t]].state # "published"
          /\ \A n \in DOMAIN messages' : messages'[n].by = t => n <= handling'[t]
    BY <2>1, <2>3, HandlingFacts
  <2>5. \A n \in DOMAIN messages' : messages'[n].room = Place[messages'[n].by]
    BY <2>1 DEF TypeInv
  <2>6. inbox' \in Seq(DOMAIN messages') /\ (link # "open" => inbox' = <<>>)
    <3>1. inbox \in Seq(DOMAIN messages) /\ Append(inbox, m) \in Seq(DOMAIN messages)
      BY <2>1 DEF TypeInv, TypeOK
    <3> QED BY <1>3, <2>1, <3>1 DEF Publish, Reached, ConnectedTo, TypeInv, TypeOK, m
  <2>7. missed' \subseteq Message
    BY <1>3, <2>2 DEF Publish, TypeInv, TypeOK, m
  <2>8. UNCHANGED <<room, deck, load, link, linkRoom, closing, timers, listener, fresh,
                    early, overlapped, broken, selections, errors>>
    BY <1>3 DEF Publish
  <2>9. TypeOK'
    BY <2>1, <2>3, <2>4, <2>6, <2>7, <2>8 DEF TypeInv, TypeOK
  <2> QED BY <2>1, <2>4, <2>5, <2>8, <2>9 DEF TypeInv
<1> QED BY <1>1, <1>2, <1>3 DEF Handler

\* The lines of a history are a sequence of messages, each there once.
LEMMA HistoryFacts ==
  ASSUME TypeInv, NEW q \in Load, Read(q)
  PROVE  \E lines \in Seq(DOMAIN messages) :
           /\ IsHistory(lines, load[q].room)
           /\ load' = [load EXCEPT ![q].stage = "read", ![q].answer = lines]
<1>1. PICK count \in 0 .. Limit : \E lines \in [1 .. count -> DOMAIN messages] :
        /\ IsHistory(lines, load[q].room)
        /\ load' = [load EXCEPT ![q].stage = "read", ![q].answer = lines]
  BY DEF Read
<1>2. PICK lines \in [1 .. count -> DOMAIN messages] :
        /\ IsHistory(lines, load[q].room)
        /\ load' = [load EXCEPT ![q].stage = "read", ![q].answer = lines]
  BY <1>1
<1>3. lines \in Seq(DOMAIN messages)
  BY ChatRoomAssumption
<1> QED BY <1>2, <1>3

\* What a request under way becomes.
LEMMA LoadFacts ==
  ASSUME TypeInv, NEW q \in Load, Selection(q) \/ \E r \in Room : Select(q, r)
  PROVE  /\ load' \in [Load -> Request \cup {None}]
         /\ \A p \in Load : load'[p] # None => load'[p].answer \in Seq(DOMAIN messages)
         /\ \A p \in Load \ {q} : load'[p] = load[p]
<1>1. /\ load \in [Load -> Request \cup {None}]
      /\ \A p \in Load : load[p] # None => load[p].answer \in Seq(DOMAIN messages)
  BY DEF TypeInv, TypeOK
<1>2. Seq(DOMAIN messages) \subseteq Seq(Message)
  BY RowFacts, SeqGrows
<1>3. ASSUME NEW new \in Request \cup {None}, load' = [load EXCEPT ![q] = new],
             new # None => new.answer \in Seq(DOMAIN messages)
      PROVE  /\ load' \in [Load -> Request \cup {None}]
             /\ \A p \in Load : load'[p] # None => load'[p].answer \in Seq(DOMAIN messages)
             /\ \A p \in Load \ {q} : load'[p] = load[p]
  BY <1>1, <1>3
<1>4. CASE Read(q)
  <2>1. PICK lines \in Seq(DOMAIN messages) :
          load' = [load EXCEPT ![q].stage = "read", ![q].answer = lines]
    BY <1>4, HistoryFacts
  <2> DEFINE new == [load[q] EXCEPT !.stage = "read", !.answer = lines]
  <2>2. load[q] \in Request
    BY <1>1, <1>4 DEF Read
  <2>3. new \in Request /\ new.answer = lines /\ load' = [load EXCEPT ![q] = new]
    BY <1>2, <2>1, <2>2 DEF Request
  <2> HIDE DEF new, Request
  <2> QED BY <1>3, <2>3
<1>5. CASE LoadError(q)
  <2> DEFINE new == [load[q] EXCEPT !.stage = "failed"]
  <2>1. load[q] \in Request /\ load[q] # None
    BY <1>1, <1>5 DEF LoadError
  <2>2. new \in Request /\ new.answer = load[q].answer /\ load' = [load EXCEPT ![q] = new]
    BY <1>5, <2>1 DEF Request, LoadError
  <2> HIDE DEF new, Request
  <2> QED BY <1>1, <1>3, <2>1, <2>2
<1>6. CASE Show(q) \/ ShowNothing(q)
  BY <1>3, <1>6 DEF Show, ShowNothing
<1>7. ASSUME NEW r \in Room, Select(q, r)
      PROVE  load' = [load EXCEPT ![q] = [room |-> r, stage |-> "sent", answer |-> <<>>]]
  BY <1>7 DEF Select
<1>8. ASSUME NEW r \in Room
      PROVE  /\ [room |-> r, stage |-> "sent", answer |-> <<>>] \in Request
             /\ <<>> \in Seq(DOMAIN messages)
  BY DEF Request
<1> QED BY <1>3, <1>4, <1>5, <1>6, <1>7, <1>8 DEF Selection

LEMMA ReadFacts ==
  ASSUME TypeInv, NEW q \in Load, Read(q)
  PROVE  \E lines \in Seq(DOMAIN messages) :
           /\ IsHistory(lines, load[q].room)
           /\ load'[q].answer = lines /\ load'[q].room = load[q].room /\ load'[q] # None
           /\ load'[q].stage = "read" /\ load[q] # None
           /\ \A p \in Load \ {q} : load'[p] = load[p]
<1>1. PICK lines \in Seq(DOMAIN messages) :
        /\ IsHistory(lines, load[q].room)
        /\ load' = [load EXCEPT ![q].stage = "read", ![q].answer = lines]
  BY HistoryFacts
<1> DEFINE new == [load[q] EXCEPT !.stage = "read", !.answer = lines]
<1>2. load[q] \in Request /\ load[q] # None /\ load \in [Load -> Request \cup {None}]
  BY DEF Read, TypeInv, TypeOK
<1>3. Seq(DOMAIN messages) \subseteq Seq(Message)
  BY RowFacts, SeqGrows
<1>4. /\ new \in Request /\ new.answer = lines /\ new.room = load[q].room /\ new.stage = "read"
      /\ load' = [load EXCEPT ![q] = new]
  BY <1>1, <1>2, <1>3 DEF Request
<1> HIDE DEF new, Request
<1> QED BY <1>1, <1>2, <1>4, NoneAssumption

LEMMA LoadErrorFacts ==
  ASSUME TypeInv, NEW q \in Load, LoadError(q)
  PROVE  /\ load[q] # None /\ load'[q] # None /\ load'[q].stage = "failed"
         /\ load'[q].answer = load[q].answer /\ load'[q].room = load[q].room
         /\ \A p \in Load \ {q} : load'[p] = load[p]
<1> DEFINE new == [load[q] EXCEPT !.stage = "failed"]
<1>1. load[q] \in Request /\ load[q] # None /\ load \in [Load -> Request \cup {None}]
  BY DEF LoadError, TypeInv, TypeOK
<1>2. /\ new \in Request /\ new.answer = load[q].answer /\ new.room = load[q].room
      /\ new.stage = "failed" /\ load' = [load EXCEPT ![q] = new]
  BY <1>1 DEF Request, LoadError
<1> HIDE DEF new, Request
<1> QED BY <1>1, <1>2, NoneAssumption

LEMMA ShowFacts ==
  ASSUME TypeInv, NEW q \in Load, Show(q) \/ ShowNothing(q)
  PROVE  /\ load[q] # None /\ load'[q] = None
         /\ \A p \in Load \ {q} : load'[p] = load[p]
BY DEF Show, ShowNothing, TypeInv, TypeOK

LEMMA SelectFacts ==
  ASSUME TypeInv, NEW q \in Load, NEW r \in Room, Select(q, r)
  PROVE  /\ load[q] = None /\ load'[q] # None
         /\ load'[q].room = r /\ load'[q].answer = <<>> /\ load'[q].stage = "sent"
         /\ \A p \in Load \ {q} : load'[p] = load[p]
<1>1. [room |-> r, stage |-> "sent", answer |-> <<>>] \in Request
  BY DEF Request
<1>2. load'[q] = [room |-> r, stage |-> "sent", answer |-> <<>>] /\ load[q] = None
  BY DEF Select, TypeInv, TypeOK
<1> QED BY <1>1, <1>2, NoneAssumption DEF Select, TypeInv, TypeOK

LEMMA ConnectFacts ==
  ASSUME TypeInv, Connect
  PROVE  /\ link' \in {"connecting", "barred"} /\ linkRoom' = room /\ inbox' = <<>>
         /\ closing' \in Nat
BY DEF Connect, ConnectTo, TypeInv, TypeOK

\* The page leaves the rows and the senders alone.
LEMMA PageType ==
  ASSUME TypeInv, UNCHANGED server, load' \in [Load -> Request \cup {None}],
         \A q \in Load : load'[q] # None => load'[q].answer \in Seq(DOMAIN messages),
         room' \in Room \/ UNCHANGED <<room, load, link, linkRoom, closing, timers>>,
         deck' \in Seq(DOMAIN messages), inbox' \in Seq(DOMAIN messages),
         link' \in {"none", "connecting", "barred", "open", "closed"},
         linkRoom' \in Room \cup {None}, link' = "none" <=> linkRoom' = None,
         link' # "open" => inbox' = <<>>,
         closing' \in Nat, timers' \in Nat, missed' \subseteq Message, early' \subseteq Message,
         listener' \in {"listening", "cooldown", "ended"}, fresh' \in BOOLEAN,
         overlapped' \in BOOLEAN, broken' \in BOOLEAN,
         selections' \in 0 .. MaxSelections, errors' \in 0 .. MaxErrors
  PROVE  TypeInv'
<1>1. UNCHANGED <<messages, handling>>
  BY DEF server
<1>2. room' \in Room \cup {None}
  BY DEF TypeInv, TypeOK
<1>3. TypeOK'
  BY <1>1, <1>2 DEF TypeInv, TypeOK
<1> QED BY <1>1, <1>3, ChatRoomAssumption DEF TypeInv

\* What a broken subscription leaves of the inbox.
LEMMA InboxCut ==
  ASSUME TypeInv, ListenerError
  PROVE  /\ inbox' \in Seq(DOMAIN messages) /\ (inbox = <<>> => inbox' = <<>>)
         /\ DOMAIN inbox' \subseteq DOMAIN inbox
         /\ \A i \in DOMAIN inbox' : inbox'[i] = inbox[i]
         /\ missed \subseteq missed' /\ missed' \subseteq missed \cup {inbox[i] : i \in DOMAIN inbox}
         /\ \A i \in DOMAIN inbox \ DOMAIN inbox' : inbox[i] \in missed'
<1>1. PICK count \in 0 .. Len(inbox) :
        /\ inbox' = SubSeq(inbox, 1, count)
        /\ missed' = missed \cup {inbox[i] : i \in count + 1 .. Len(inbox)}
  BY DEF ListenerError
<1>2. inbox \in Seq(DOMAIN messages) /\ DOMAIN inbox = 1 .. Len(inbox) /\ Len(inbox) \in Nat
  BY DEF TypeInv, TypeOK
<1>3. /\ inbox' \in Seq(DOMAIN messages) /\ DOMAIN inbox' = 1 .. count
      /\ \A i \in 1 .. count : inbox'[i] = inbox[i]
  BY <1>1, <1>2
<1>4. inbox = <<>> => inbox' = <<>>
  BY <1>1, <1>3
<1>5. 1 .. count \subseteq DOMAIN inbox /\ count + 1 .. Len(inbox) \subseteq DOMAIN inbox
  BY <1>2
<1>6. \A i \in DOMAIN inbox \ DOMAIN inbox' : i \in count + 1 .. Len(inbox)
  BY <1>2, <1>3
<1> QED BY <1>1, <1>3, <1>4, <1>5, <1>6

LEMMA PageStep ==
  ASSUME TypeInv,
         \/ \E q \in Load : Selection(q) \/ \E r \in Room : Select(q, r)
         \/ Register \/ Refuse \/ Receive \/ Lose \/ Closed \/ Reconnect
         \/ Expire \/ Refresh \/ ListenerError \/ Restart
  PROVE  TypeInv'
<1> USE DEF socket, closed, access, history, counters
<1>1. /\ room \in Room \cup {None} /\ deck \in Seq(DOMAIN messages)
      /\ load \in [Load -> Request \cup {None}]
      /\ \A q \in Load : load[q] # None => load[q].answer \in Seq(DOMAIN messages)
      /\ link \in {"none", "connecting", "barred", "open", "closed"}
      /\ listener \in {"listening", "cooldown", "ended"} /\ fresh \in BOOLEAN
      /\ linkRoom \in Room \cup {None} /\ (link = "none" <=> linkRoom = None)
      /\ inbox \in Seq(DOMAIN messages) /\ (link # "open" => inbox = <<>>)
      /\ closing \in Nat /\ timers \in Nat
      /\ missed \subseteq Message /\ early \subseteq Message
      /\ overlapped \in BOOLEAN /\ broken \in BOOLEAN
      /\ selections \in 0 .. MaxSelections /\ errors \in 0 .. MaxErrors
      /\ room = None => /\ link = "none" /\ closing = 0 /\ timers = 0
                        /\ \A q \in Load : load[q] = None
  BY DEF TypeInv, TypeOK
<1>2. <<>> \in Seq(DOMAIN messages) /\ DOMAIN messages \subseteq Message
  BY RowFacts
<1>3. ToSet(inbox) \subseteq Message
  BY <1>1, <1>2 DEF ToSet
<1>4. Fault => errors' \in 0 .. MaxErrors
  BY <1>1, ChatRoomAssumption DEF Fault
<1>5. ASSUME NEW q \in Load, Selection(q) PROVE TypeInv'
  <2>1. /\ load' \in [Load -> Request \cup {None}]
        /\ \A p \in Load : load'[p] # None => load'[p].answer \in Seq(DOMAIN messages)
    BY <1>5, LoadFacts
  <2>2. room \in Room /\ room # None
    BY <1>1, <1>5, ChatRoomAssumption DEF Selection, Read, LoadError, Show, ShowNothing
  <2>3. CASE Read(q)
    <3>1. missed' \subseteq Message /\ early' \subseteq Message
      BY <1>1, <1>2, <2>3 DEF Read, Committed
    <3> QED BY <1>1, <2>1, <2>2, <2>3, <3>1, PageType DEF Read
  <2>4. CASE LoadError(q)
    BY <1>1, <1>4, <2>1, <2>2, <2>4, PageType DEF LoadError
  <2>5. CASE Show(q)
    BY <1>1, <1>2, <2>1, <2>2, <2>5, ConnectFacts, PageType DEF Show
  <2>6. CASE ShowNothing(q)
    BY <1>1, <1>2, <2>1, <2>2, <2>6, ConnectFacts, PageType DEF ShowNothing
  <2> QED BY <1>5, <2>3, <2>4, <2>5, <2>6 DEF Selection
<1>6. ASSUME NEW q \in Load, NEW r \in Room, Select(q, r) PROVE TypeInv'
  <2>1. /\ load' \in [Load -> Request \cup {None}]
        /\ \A p \in Load : load'[p] # None => load'[p].answer \in Seq(DOMAIN messages)
    BY <1>6, LoadFacts
  <2>2. selections' \in 0 .. MaxSelections /\ overlapped' \in BOOLEAN /\ broken' \in BOOLEAN
    BY <1>1, <1>6, ChatRoomAssumption DEF Select, Loading
  <2> QED BY <1>1, <1>2, <1>6, <2>1, <2>2, PageType DEF Select
<1>7. CASE Register
  BY <1>1, <1>2, <1>7, PageType, ChatRoomAssumption DEF Register
<1>8. CASE Receive
  <2>1. link = "open" /\ room \in Room
    BY <1>1, <1>8 DEF Receive
  <2>2. Append(deck, Head(inbox)) \in Seq(DOMAIN messages) /\ Tail(inbox) \in Seq(DOMAIN messages)
    BY <1>1, <1>8 DEF Receive
  <2> QED BY <1>1, <1>8, <2>1, <2>2, PageType DEF Receive
<1>9. CASE Lose
  BY <1>1, <1>2, <1>3, <1>4, <1>9, PageType DEF Lose
<1>10. CASE Closed
  BY <1>1, <1>10, PageType DEF Closed
<1>11. CASE Reconnect
  BY <1>1, <1>2, <1>3, <1>11, ConnectFacts, PageType, ChatRoomAssumption DEF Reconnect
<1>12. CASE Refuse
  BY <1>1, <1>12, PageType, ChatRoomAssumption DEF Refuse
<1>13. CASE Expire
  BY <1>1, <1>13, PageType, ChatRoomAssumption DEF Expire
<1>14. CASE Refresh \/ Restart
  BY <1>1, <1>14, PageType DEF Refresh, Restart
<1>15. CASE ListenerError
  <2>1. UNCHANGED <<room, load, link, linkRoom, closing, timers>> /\ (link # "open" => inbox' = <<>>)
    BY <1>1, <1>15, InboxCut DEF ListenerError
  <2>2. inbox' \in Seq(DOMAIN messages) /\ missed' \subseteq Message
    BY <1>1, <1>2, <1>15, InboxCut
  <2> QED BY <1>1, <1>4, <1>15, <2>1, <2>2, PageType DEF ListenerError
<1> QED BY <1>5, <1>6, <1>7, <1>8, <1>9, <1>10, <1>11, <1>12, <1>13, <1>14, <1>15

LEMMA NextType == TypeInv /\ [Next]_vars => TypeInv'
<1> SUFFICES ASSUME TypeInv, [Next]_vars PROVE TypeInv'
  OBVIOUS
<1>1. CASE UNCHANGED vars
  BY <1>1 DEF vars, server, socket, closed, access, history, counters, TypeInv, TypeOK
<1> QED BY <1>1, SenderType, PageStep DEF Next

-----------------------------------------------------------------------------
(* Which room the socket and the deck belong to.                           *)

RoomInv ==
  /\ SocketFollowsRoom /\ DeckShowsItsRoom
  /\ \A i \in DOMAIN inbox : messages[inbox[i]].room = linkRoom
  /\ \A q \in Load : load[q] # None =>
       /\ \A i \in DOMAIN load[q].answer : messages[load[q].answer[i]].room = load[q].room
       /\ ~ overlapped => load[q].room = room /\ \A p \in Load : load[p] # None => p = q

\* The elements of what the page holds are rows.
LEMMA Elements ==
  ASSUME TypeInv
  PROVE  /\ \A i \in DOMAIN deck : deck[i] \in DOMAIN messages
         /\ \A i \in DOMAIN inbox : inbox[i] \in DOMAIN messages
         /\ \A q \in Load : load[q] # None =>
              \A i \in DOMAIN load[q].answer : load[q].answer[i] \in DOMAIN messages
BY DEF TypeInv, TypeOK

\* The rows a page holds keep their rooms.
LEMMA RoomsStay ==
  ASSUME TypeInv, RoomInv,
         \A n \in DOMAIN messages : messages'[n].room = messages[n].room,
         UNCHANGED <<room, deck, load, link, linkRoom, inbox, overlapped, broken>>
  PROVE  RoomInv'
BY Elements DEF RoomInv, SocketFollowsRoom, DeckShowsItsRoom, Loading

\* The first message of the inbox moves to the deck.
LEMMA ReceiveFacts ==
  ASSUME TypeInv, Receive
  PROVE  /\ DOMAIN inbox = 1 .. Len(inbox) /\ 1 \in DOMAIN inbox /\ Len(inbox) \in Nat
         /\ DOMAIN deck = 1 .. Len(deck) /\ Len(deck) \in Nat
         /\ DOMAIN inbox' = 1 .. Len(inbox) - 1
         /\ \A i \in DOMAIN inbox' : i + 1 \in DOMAIN inbox /\ inbox'[i] = inbox[i + 1]
         /\ DOMAIN deck' = 1 .. Len(deck) + 1 /\ deck'[Len(deck) + 1] = inbox[1]
         /\ \A i \in DOMAIN deck : deck'[i] = deck[i]
<1>1. /\ deck \in Seq(DOMAIN messages) /\ inbox \in Seq(DOMAIN messages) /\ inbox # <<>>
      /\ deck' = Append(deck, Head(inbox)) /\ inbox' = Tail(inbox)
  BY DEF Receive, TypeInv, TypeOK
<1>2. Head(inbox) = inbox[1] /\ Head(inbox) \in DOMAIN messages
  BY <1>1
<1> QED BY <1>1, <1>2

LEMMA PublishInbox ==
  ASSUME TypeInv, NEW s \in Sender, Publish(s)
  PROVE  \/ UNCHANGED inbox
         \/ /\ Reached(Place[s]) /\ linkRoom = Place[s]
            /\ DOMAIN inbox = 1 .. Len(inbox) /\ DOMAIN inbox' = 1 .. Len(inbox) + 1
            /\ Len(inbox) \in Nat
            /\ inbox'[Len(inbox) + 1] = handling[s]
            /\ \A i \in DOMAIN inbox : inbox'[i] = inbox[i]
BY DEF Publish, Reached, ConnectedTo, TypeInv, TypeOK

LEMMA RoomStep == TypeInv /\ RoomInv /\ [Next]_vars => RoomInv'
<1> SUFFICES ASSUME TypeInv, RoomInv, [Next]_vars PROVE RoomInv'
  OBVIOUS
<1> USE DEF server, socket, closed, access, history, counters
<1>1. CASE UNCHANGED vars
  BY <1>1, RoomsStay DEF vars
<1>2. ASSUME NEW s \in Sender, Insert(s) \/ Commit(s) \/ HandlerError(s) PROVE RoomInv'
  <2>1. RowsGrow
    BY <1>2, InsertFacts, CommitFacts
  <2> QED BY <1>2, <2>1, RoomsStay DEF RowsGrow, Insert, Commit, HandlerError
<1>3. ASSUME NEW s \in Sender, Publish(s) PROVE RoomInv'
  <2>1. /\ handling[s] \in DOMAIN messages /\ messages[handling[s]].room = Place[s]
        /\ \A n \in DOMAIN messages : messages'[n].room = messages[n].room
    BY <1>3, PublishFacts
  <2>2. UNCHANGED <<room, deck, load, link, linkRoom, overlapped, broken>>
    BY <1>3 DEF Publish
  <2>3. \A i \in DOMAIN inbox' : messages'[inbox'[i]].room = linkRoom'
    <3>1. CASE UNCHANGED inbox
      BY <2>1, <2>2, <3>1, Elements DEF RoomInv
    <3>2. CASE inbox' # inbox
      <4>1. \A i \in DOMAIN inbox' : i \in DOMAIN inbox \/ inbox'[i] = handling[s]
        BY <1>3, <3>2, PublishInbox
      <4> QED BY <1>3, <2>1, <2>2, <3>2, <4>1, Elements, PublishInbox DEF RoomInv
    <3> QED BY <3>1, <3>2
  <2> QED BY <2>1, <2>2, <2>3, Elements
          DEF RoomInv, SocketFollowsRoom, DeckShowsItsRoom, Loading
<1>4. ASSUME NEW q \in Load, Read(q) PROVE RoomInv'
  <2>1. PICK lines \in Seq(DOMAIN messages) :
          /\ IsHistory(lines, load[q].room)
          /\ load'[q].answer = lines /\ load'[q].room = load[q].room /\ load'[q] # None
          /\ \A p \in Load \ {q} : load'[p] = load[p]
    BY <1>4, ReadFacts
  <2>2. \A i \in DOMAIN lines : messages[lines[i]].room = load[q].room
    BY <2>1 DEF IsHistory, IsAscending, ToSet, LastOf, Committed
  <2>3. UNCHANGED <<messages, room, deck, link, linkRoom, inbox, overlapped, broken>>
    BY <1>4 DEF Read
  <2>4. Loading' /\ load[q] # None
    BY <1>4, <2>1 DEF Loading, Read
  <2> QED BY <2>1, <2>2, <2>3, <2>4 DEF RoomInv, SocketFollowsRoom, DeckShowsItsRoom
<1>5. ASSUME NEW q \in Load, LoadError(q) PROVE RoomInv'
  <2>1. /\ load[q] # None /\ load'[q] # None
        /\ load'[q].answer = load[q].answer /\ load'[q].room = load[q].room
        /\ \A p \in Load \ {q} : load'[p] = load[p]
    BY <1>5, LoadErrorFacts
  <2>2. UNCHANGED <<messages, room, deck, link, linkRoom, inbox, overlapped, broken>>
    BY <1>5 DEF LoadError
  <2>3. Loading'
    BY <2>1 DEF Loading
  <2> QED BY <2>1, <2>2, <2>3 DEF RoomInv, SocketFollowsRoom, DeckShowsItsRoom
<1>6. ASSUME NEW q \in Load, Show(q) \/ ShowNothing(q) PROVE RoomInv'
  <2>1. /\ load[q] # None /\ load'[q] = None
        /\ \A p \in Load \ {q} : load'[p] = load[p]
    BY <1>6, ShowFacts
  <2>2. /\ linkRoom' = room /\ inbox' = <<>>
        /\ UNCHANGED <<messages, room, overlapped>>
    BY <1>6, ConnectFacts DEF Show, ShowNothing
  <2>3. Show(q) => deck' = load[q].answer /\ UNCHANGED broken
    BY DEF Show
  <2>4. ShowNothing(q) => broken'
    BY DEF ShowNothing
  <2>5. \A p \in Load : load'[p] # None => p # q /\ load'[p] = load[p]
    BY <2>1
  <2>6. DeckShowsItsRoom'
    BY <1>6, <2>1, <2>2, <2>3, <2>4 DEF RoomInv, DeckShowsItsRoom
  <2> QED BY <2>1, <2>2, <2>5, <2>6 DEF RoomInv, SocketFollowsRoom
<1>7. ASSUME NEW q \in Load, NEW r \in Room, Select(q, r) PROVE RoomInv'
  <2>1. /\ load[q] = None /\ load'[q] # None
        /\ load'[q].room = r /\ load'[q].answer = <<>>
        /\ \A p \in Load \ {q} : load'[p] = load[p]
    BY <1>7, SelectFacts
  <2>2. /\ room' = r /\ overlapped' = Loading
        /\ UNCHANGED <<messages, linkRoom, inbox>>
    BY <1>7 DEF Select
  <2>3. Loading' /\ DOMAIN load'[q].answer = {}
    BY <2>1 DEF Loading
  <2>4. ~ Loading => \A p \in Load : load'[p] # None => p = q
    BY <2>1 DEF Loading
  <2> QED BY <2>1, <2>2, <2>3, <2>4 DEF RoomInv, SocketFollowsRoom, DeckShowsItsRoom
<1>8. CASE Register
  BY <1>8 DEF Register, RoomInv, SocketFollowsRoom, DeckShowsItsRoom, Loading
<1>13. CASE Refuse
  BY <1>13 DEF Refuse, RoomInv, SocketFollowsRoom, DeckShowsItsRoom, Loading
<1>14. CASE Expire
  BY <1>14 DEF Expire, RoomInv, SocketFollowsRoom, DeckShowsItsRoom, Loading
<1>15. CASE Refresh \/ Restart
  BY <1>15, RoomsStay DEF Refresh, Restart
<1>16. CASE ListenerError
  <2>1. UNCHANGED <<messages, room, deck, load, link, linkRoom, overlapped, broken>>
    BY <1>16 DEF ListenerError
  <2> QED BY <1>16, <2>1, InboxCut DEF RoomInv, SocketFollowsRoom, DeckShowsItsRoom, Loading
<1>9. CASE Receive
  <2>1. UNCHANGED <<messages, room, load, link, linkRoom, overlapped, broken>>
    BY <1>9 DEF Receive
  <2>2. link # "none"
    BY <1>9 DEF Receive, TypeInv, TypeOK
  <2>3. \A i \in DOMAIN deck' : i \in DOMAIN deck \/ deck'[i] = inbox[1]
    BY <1>9, ReceiveFacts
  <2> QED BY <1>9, <2>1, <2>2, <2>3, ReceiveFacts
          DEF RoomInv, SocketFollowsRoom, DeckShowsItsRoom, Loading
<1>10. CASE Lose
  BY <1>10 DEF Lose, RoomInv, SocketFollowsRoom, DeckShowsItsRoom, Loading
<1>11. CASE Closed
  BY <1>11, RoomsStay DEF Closed
<1>12. CASE Reconnect
  BY <1>12, ConnectFacts DEF Reconnect, RoomInv, SocketFollowsRoom, DeckShowsItsRoom, Loading
<1> QED BY <1>1, <1>2, <1>3, <1>4, <1>5, <1>6, <1>7, <1>8, <1>9, <1>10, <1>11, <1>12,
           <1>13, <1>14, <1>15, <1>16 DEF Next, Handler, Selection

-----------------------------------------------------------------------------
(* How often, and in which order, messages are shown.                      *)

Shown(m) == messages[m].state = "published" \/ m \in early

InOrder(m, n) == messages[m].by = messages[n].by => m <= n

\* What has come by the socket is published and comes once; whatever else
\* is shown came with a history.
OnceInv ==
  /\ ShownOnce
  /\ \A i \in DOMAIN inbox : messages[inbox[i]].state = "published"
  /\ \A i, j \in DOMAIN inbox : inbox[i] = inbox[j] => i = j
  /\ \A i \in DOMAIN inbox, j \in DOMAIN deck : inbox[i] = deck[j] => deck[j] \in early
  /\ \A j \in DOMAIN deck : Shown(deck[j])
  /\ \A q \in Load : load[q] # None =>
       /\ \A i \in DOMAIN load[q].answer : Shown(load[q].answer[i])
       /\ \A i, j \in DOMAIN load[q].answer : load[q].answer[i] = load[q].answer[j] => i = j

OrderInv ==
  /\ \A i, j \in DOMAIN deck : i < j => InOrder(deck[i], deck[j])
  /\ \A i, j \in DOMAIN inbox : i < j => InOrder(inbox[i], inbox[j])
  /\ \A i \in DOMAIN deck, j \in DOMAIN inbox : InOrder(deck[i], inbox[j])
  /\ \A q \in Load : load[q] # None =>
       \A i, j \in DOMAIN load[q].answer :
         i < j => InOrder(load[q].answer[i], load[q].answer[j])

\* Rows that come or are committed change neither.
LEMMA RowsKeep ==
  ASSUME TypeInv, OnceInv, OrderInv,
         \A n \in DOMAIN messages :
           /\ messages'[n].by = messages[n].by
           /\ messages[n].state = "published" => messages'[n].state = "published",
         UNCHANGED <<deck, load, inbox, early>>
  PROVE  OnceInv' /\ OrderInv'
<1>1. OnceInv'
  BY Elements DEF OnceInv, ShownOnce, Shown
<1>2. OrderInv'
  BY Elements DEF OrderInv, InOrder
<1> QED BY <1>1, <1>2

LEMMA PublishKeeps ==
  ASSUME TypeInv, OnceInv, OrderInv, NEW s \in Sender, Publish(s)
  PROVE  OnceInv' /\ OrderInv'
<1> DEFINE m == handling[s]
<1>1. /\ m \in DOMAIN messages /\ messages[m].state = "committed" /\ messages[m].by = s
      /\ \A n \in DOMAIN messages : messages[n].by = s => n <= m
      /\ \A n \in DOMAIN messages :
           /\ messages'[n].by = messages[n].by
           /\ messages'[n].state = IF n = m THEN "published" ELSE messages[n].state
  BY PublishFacts
<1>2. UNCHANGED <<deck, load, early>>
  BY DEF Publish
<1>3. CASE UNCHANGED inbox
  BY <1>1, <1>2, <1>3, RowsKeep
<1>4. CASE inbox' # inbox
  <2> DEFINE k == Len(inbox) + 1
  <2>1. /\ DOMAIN inbox' = DOMAIN inbox \cup {k} /\ k \notin DOMAIN inbox
        /\ inbox'[k] = m /\ \A i \in DOMAIN inbox : inbox'[i] = inbox[i] /\ i < k
        /\ k \in Nat /\ DOMAIN inbox \subseteq Nat
    <3>1. /\ DOMAIN inbox = 1 .. Len(inbox) /\ DOMAIN inbox' = 1 .. Len(inbox) + 1
          /\ Len(inbox) \in Nat /\ inbox'[Len(inbox) + 1] = m
          /\ \A i \in DOMAIN inbox : inbox'[i] = inbox[i]
      BY <1>4, PublishInbox
    <3> HIDE DEF m
    <3>2. 1 .. Len(inbox) + 1 = (1 .. Len(inbox)) \cup {k} /\ k \notin 1 .. Len(inbox)
      BY <3>1
    <3>3. \A i \in 1 .. Len(inbox) : i < k /\ i \in Nat
      BY <3>1
    <3> QED BY <3>1, <3>2, <3>3
  <2> HIDE DEF k, m
  <2>2. \A i \in DOMAIN inbox : inbox[i] # m
    BY <1>1 DEF OnceInv
  <2>3. \A j \in DOMAIN deck : deck[j] = m => deck[j] \in early
    BY <1>1 DEF OnceInv, Shown
  <2>4. OnceInv'
    <3>1. ShownOnce'
      BY <1>2 DEF OnceInv, ShownOnce
    <3>2. \A i \in DOMAIN inbox' : messages'[inbox'[i]].state = "published"
      BY <1>1, <2>1, Elements DEF OnceInv
    <3>3. \A i, j \in DOMAIN inbox' : inbox'[i] = inbox'[j] => i = j
      BY <2>1, <2>2 DEF OnceInv
    <3>4. \A i \in DOMAIN inbox', j \in DOMAIN deck' : inbox'[i] = deck'[j] => deck'[j] \in early'
      BY <1>2, <2>1, <2>3 DEF OnceInv
    <3>5. \A n \in DOMAIN messages : Shown(n) => Shown(n)'
      BY <1>1, <1>2 DEF Shown
    <3>6. \A j \in DOMAIN deck' : Shown(deck[j])'
      BY <1>2, <3>5, Elements DEF OnceInv
    <3> QED BY <1>2, <3>1, <3>2, <3>3, <3>4, <3>5, <3>6, Elements DEF OnceInv
  <2>5. OrderInv'
    <3>1. \A n, o \in DOMAIN messages : InOrder(n, o)' <=> InOrder(n, o)
      BY <1>1 DEF InOrder
    <3>2. \A n \in DOMAIN messages : InOrder(n, m)
      BY <1>1 DEF InOrder
    <3>3. \A i \in DOMAIN inbox' : inbox'[i] \in DOMAIN messages
      BY <1>1, <2>1, Elements
    <3>4. ASSUME NEW i \in DOMAIN inbox', NEW j \in DOMAIN inbox', i < j
          PROVE  InOrder(inbox'[i], inbox'[j])
      <4>1. i \in DOMAIN inbox /\ inbox'[i] = inbox[i]
        <5>1. i # k
          BY <2>1, <3>4
        <5> QED BY <2>1, <5>1
      <4> QED BY <1>1, <2>1, <3>2, <3>3, <3>4, <4>1 DEF OrderInv
    <3>5. \A i \in DOMAIN deck, j \in DOMAIN inbox' : InOrder(deck[i], inbox'[j])
      BY <2>1, <3>2, Elements DEF OrderInv
    <3>6. \A i, j \in DOMAIN inbox' : i < j => InOrder(inbox[i], inbox[j])'
      BY <3>1, <3>3, <3>4 DEF InOrder
    <3>7. \A i \in DOMAIN deck', j \in DOMAIN inbox' : InOrder(deck[i], inbox[j])'
      BY <1>2, <3>1, <3>3, <3>5, Elements DEF InOrder
    <3>8. \A i, j \in DOMAIN deck' : i < j => InOrder(deck[i], deck[j])'
      BY <1>2, <3>1, Elements DEF OrderInv, InOrder
    <3>9. \A q \in Load : load'[q] # None => \A i, j \in DOMAIN load'[q].answer :
            i < j => InOrder(load[q].answer[i], load[q].answer[j])'
      BY <1>2, <3>1, Elements DEF OrderInv, InOrder
    <3> QED BY <3>6, <3>7, <3>8, <3>9 DEF OrderInv
  <2> QED BY <2>4, <2>5
<1> QED BY <1>3, <1>4

LEMMA ReadKeeps ==
  ASSUME TypeInv, OnceInv, OrderInv, NEW q \in Load, Read(q)
  PROVE  OnceInv' /\ OrderInv'
<1>1. PICK lines \in Seq(DOMAIN messages) :
        /\ IsHistory(lines, load[q].room) /\ load'[q].answer = lines
        /\ \A p \in Load \ {q} : load'[p] = load[p]
  BY ReadFacts
<1>2. /\ early' = early \cup {m \in Committed(load[q].room) : messages[m].state = "committed"}
      /\ UNCHANGED <<messages, deck, inbox>>
  BY DEF Read, server, socket
<1>3. \A i \in DOMAIN lines : lines[i] \in Committed(load[q].room) /\ lines[i] \in Nat
  BY <1>1, RowFacts DEF IsHistory, IsAscending, ToSet, LastOf, Committed
<1>4. \A n \in Committed(load[q].room) : Shown(n)'
  BY <1>2, RowFacts DEF Shown, Committed
<1>5. \A i, j \in DOMAIN lines : i < j => lines[i] < lines[j]
  BY <1>1 DEF IsHistory, IsAscending
<1>6. \A i, j \in DOMAIN lines : lines[i] = lines[j] => i = j
  <2> SUFFICES ASSUME NEW i \in DOMAIN lines, NEW j \in DOMAIN lines, lines[i] = lines[j], i < j
               PROVE  FALSE
    BY <1>1
  <2> QED BY <1>3, <1>5
<1>7. OnceInv'
  <2>1. \A p \in Load : load'[p] # None =>
          /\ \A i \in DOMAIN load'[p].answer : Shown(load[p].answer[i])'
          /\ \A i, j \in DOMAIN load'[p].answer : load'[p].answer[i] = load'[p].answer[j] => i = j
    <3> SUFFICES ASSUME NEW p \in Load, load'[p] # None
                 PROVE  /\ \A i \in DOMAIN load'[p].answer : Shown(load[p].answer[i])'
                        /\ \A i, j \in DOMAIN load'[p].answer :
                             load'[p].answer[i] = load'[p].answer[j] => i = j
      OBVIOUS
    <3>1. CASE p = q
      BY <1>1, <1>3, <1>4, <1>6, <3>1 DEF Shown
    <3>2. CASE p # q
      BY <1>1, <1>2, <3>2 DEF OnceInv, Shown
    <3> QED BY <3>1, <3>2
  <2> QED BY <1>2, <2>1 DEF OnceInv, ShownOnce, Shown
<1>8. OrderInv'
  <2>1. \A p \in Load : load'[p] # None => \A i, j \in DOMAIN load'[p].answer :
          i < j => InOrder(load[p].answer[i], load[p].answer[j])'
    <3> SUFFICES ASSUME NEW p \in Load, load'[p] # None
                 PROVE  \A i, j \in DOMAIN load'[p].answer :
                          i < j => InOrder(load[p].answer[i], load[p].answer[j])'
      OBVIOUS
    <3>1. CASE p = q
      BY <1>1, <1>3, <1>5, <3>1 DEF InOrder
    <3>2. CASE p # q
      BY <1>1, <1>2, <3>2 DEF OrderInv, InOrder
    <3> QED BY <3>1, <3>2
  <2> QED BY <1>2, <2>1 DEF OrderInv, InOrder
<1> QED BY <1>7, <1>8

LEMMA PageKeeps ==
  ASSUME TypeInv, OnceInv, OrderInv,
         \/ \E q \in Load : Selection(q) \/ \E r \in Room : Select(q, r)
         \/ Register \/ Refuse \/ Receive \/ Lose \/ Closed \/ Reconnect
         \/ Expire \/ Refresh \/ ListenerError \/ Restart
  PROVE  OnceInv' /\ OrderInv'
<1> USE DEF server, socket, closed, access, history, counters
\* The inbox is as it was or emptied, the deck as it was or an answer.
<1>1. ASSUME UNCHANGED <<messages, early>>, inbox' \in {inbox, <<>>},
             \/ UNCHANGED deck \/ deck' = <<>>
             \/ inbox' = <<>> /\ \E q \in Load : load[q] # None /\ deck' = load[q].answer,
             \A q \in Load : load'[q] # None =>
               load'[q].answer = <<>> \/ (load[q] # None /\ load'[q].answer = load[q].answer)
      PROVE  OnceInv' /\ OrderInv'
  <2>1. DOMAIN <<>> = {}
    OBVIOUS
  <2>2. OnceInv'
    BY <1>1, <2>1 DEF OnceInv, ShownOnce, Shown
  <2>3. OrderInv'
    BY <1>1, <2>1 DEF OrderInv, InOrder
  <2> QED BY <2>2, <2>3
<1>2. ASSUME NEW q \in Load, Read(q) PROVE OnceInv' /\ OrderInv'
  BY <1>2, ReadKeeps
<1>3. ASSUME NEW q \in Load, LoadError(q) PROVE OnceInv' /\ OrderInv'
  BY <1>1, <1>3, LoadErrorFacts DEF LoadError
<1>4. ASSUME NEW q \in Load, Show(q) PROVE OnceInv' /\ OrderInv'
  BY <1>1, <1>4, ShowFacts, ConnectFacts DEF Show
<1>5. ASSUME NEW q \in Load, ShowNothing(q) PROVE OnceInv' /\ OrderInv'
  BY <1>1, <1>5, ShowFacts, ConnectFacts DEF ShowNothing
<1>6. ASSUME NEW q \in Load, NEW r \in Room, Select(q, r) PROVE OnceInv' /\ OrderInv'
  <2>1. /\ load'[q].answer = <<>>
        /\ \A p \in Load \ {q} : load'[p] = load[p]
    BY <1>6, SelectFacts
  <2>2. UNCHANGED <<messages, early, inbox>> /\ deck' = <<>>
    BY <1>6 DEF Select
  <2>3. \A p \in Load : load'[p] # None =>
          load'[p].answer = <<>> \/ (load[p] # None /\ load'[p].answer = load[p].answer)
    BY <2>1
  <2>4. inbox' \in {inbox, <<>>}
    BY <2>2
  <2> HIDE DEF socket, history, server
  <2> QED BY <1>1, <2>2, <2>3, <2>4
<1>7. CASE Register \/ Refuse \/ Lose \/ Closed \/ Reconnect \/ Expire \/ Refresh \/ Restart
  BY <1>1, <1>7, ConnectFacts
     DEF Register, Refuse, Lose, Closed, Reconnect, Expire, Refresh, Restart
<1>9. CASE ListenerError
  <2>1. UNCHANGED <<messages, deck, load, early>>
    BY <1>9 DEF ListenerError
  <2>2. OnceInv'
    BY <1>9, <2>1, InboxCut DEF OnceInv, ShownOnce, Shown
  <2>3. OrderInv'
    BY <1>9, <2>1, InboxCut DEF OrderInv, InOrder
  <2> QED BY <2>2, <2>3
<1>8. CASE Receive
  <2> DEFINE k == Len(deck) + 1
  <2>1. /\ DOMAIN deck' = DOMAIN deck \cup {k} /\ k \notin DOMAIN deck /\ k \in Nat
        /\ deck'[k] = inbox[1] /\ 1 \in DOMAIN inbox
        /\ \A i \in DOMAIN deck : deck'[i] = deck[i] /\ i < k
        /\ \A i \in DOMAIN inbox' : /\ i + 1 \in DOMAIN inbox /\ inbox'[i] = inbox[i + 1]
                                    /\ i \in Nat /\ 1 < i + 1
    BY <1>8, ReceiveFacts
  <2> HIDE DEF k
  <2>2. UNCHANGED <<messages, load, early>>
    BY <1>8 DEF Receive
  <2>3. OnceInv'
    <3>1. ShownOnce'
      <4> SUFFICES ASSUME NEW i \in DOMAIN deck', NEW j \in DOMAIN deck', deck'[i] = deck'[j]
                   PROVE  i = j \/ deck'[i] \in early
        BY <2>2 DEF ShownOnce
      <4>1. CASE i # k /\ j # k
        BY <2>1, <4>1 DEF OnceInv, ShownOnce
      <4>2. CASE i = k /\ j # k
        BY <2>1, <4>2 DEF OnceInv
      <4>3. CASE i # k /\ j = k
        BY <2>1, <4>3 DEF OnceInv
      <4> QED BY <4>1, <4>2, <4>3
    <3>2. \A i \in DOMAIN inbox' : messages'[inbox'[i]].state = "published"
      BY <2>1, <2>2 DEF OnceInv
    <3>3. \A i, j \in DOMAIN inbox' : inbox'[i] = inbox'[j] => i = j
      <4> SUFFICES ASSUME NEW i \in DOMAIN inbox', NEW j \in DOMAIN inbox', inbox'[i] = inbox'[j]
                   PROVE  i = j
        OBVIOUS
      <4>1. i + 1 = j + 1
        BY <2>1 DEF OnceInv
      <4> QED BY <2>1, <4>1
    <3>4. \A i \in DOMAIN inbox', j \in DOMAIN deck' : inbox'[i] = deck'[j] => deck'[j] \in early'
      <4> SUFFICES ASSUME NEW i \in DOMAIN inbox', NEW j \in DOMAIN deck', inbox'[i] = deck'[j]
                   PROVE  deck'[j] \in early
        BY <2>2
      <4>1. CASE j = k
        <5>1. i + 1 = 1
          BY <2>1, <4>1 DEF OnceInv
        <5> QED BY <2>1, <5>1
      <4>2. CASE j # k
        BY <2>1, <4>2 DEF OnceInv
      <4> QED BY <4>1, <4>2
    <3>5. \A j \in DOMAIN deck' : Shown(deck[j])'
      BY <2>1, <2>2 DEF OnceInv, Shown
    <3> QED BY <2>2, <3>1, <3>2, <3>3, <3>4, <3>5 DEF OnceInv, Shown
  <2>4. OrderInv'
    <3>1. \A i, j \in DOMAIN deck' : i < j => InOrder(deck'[i], deck'[j])
      <4> SUFFICES ASSUME NEW i \in DOMAIN deck', NEW j \in DOMAIN deck', i < j
                   PROVE  InOrder(deck'[i], deck'[j])
        OBVIOUS
      <4>1. i # k
        <5> SUFFICES ASSUME i = k PROVE FALSE
          OBVIOUS
        <5>1. j = k \/ j \in DOMAIN deck
          BY <2>1
        <5>2. DOMAIN deck \subseteq Nat
          BY <1>8, ReceiveFacts
        <5> QED BY <2>1, <5>1, <5>2
      <4> QED BY <2>1, <4>1 DEF OrderInv
    <3>2. \A i, j \in DOMAIN inbox' : i < j => InOrder(inbox'[i], inbox'[j])
      <4> SUFFICES ASSUME NEW i \in DOMAIN inbox', NEW j \in DOMAIN inbox', i < j
                   PROVE  InOrder(inbox'[i], inbox'[j])
        OBVIOUS
      <4>1. i + 1 < j + 1
        BY <2>1
      <4> QED BY <2>1, <4>1 DEF OrderInv
    <3>3. \A i \in DOMAIN deck', j \in DOMAIN inbox' : InOrder(deck'[i], inbox'[j])
      BY <2>1 DEF OrderInv
    <3> QED BY <2>2, <3>1, <3>2, <3>3 DEF OrderInv, InOrder
  <2> QED BY <2>3, <2>4
<1> QED BY <1>2, <1>3, <1>4, <1>5, <1>6, <1>7, <1>8, <1>9 DEF Selection

LEMMA ShownStep ==
  TypeInv /\ OnceInv /\ OrderInv /\ [Next]_vars => (OnceInv /\ OrderInv)'
<1> SUFFICES ASSUME TypeInv, OnceInv, OrderInv, [Next]_vars PROVE OnceInv' /\ OrderInv'
  OBVIOUS
<1>1. CASE UNCHANGED vars
  BY <1>1, RowsKeep DEF vars, server, socket, history
<1>2. ASSUME NEW s \in Sender, Insert(s) \/ Commit(s) \/ HandlerError(s)
      PROVE  OnceInv' /\ OrderInv'
  <2>1. RowsGrow
    BY <1>2, InsertFacts, CommitFacts
  <2> QED BY <1>2, <2>1, RowsKeep DEF RowsGrow, Insert, Commit, HandlerError, socket, history
<1> QED BY <1>1, <1>2, PublishKeeps, PageKeeps DEF Next, Handler

-----------------------------------------------------------------------------
(* What the page has not missed.                                           *)

Held(m, q) == \E i \in DOMAIN q : q[i] = m

Due(r) == {m \in LastOf(Committed(r)) \ missed : messages[m].state = "published"}

MissInv ==
  ~ overlapped =>
    /\ \A q \in Load : load[q] # None /\ load[q].stage = "read" =>
         \A m \in Due(load[q].room) : Held(m, load[q].answer)
    /\ ~ Loading /\ ~ broken => \A m \in Due(room) : Held(m, deck) \/ Held(m, inbox)

LEMMA PrefixIsFinite ==
  ASSUME NEW k \in Nat PROVE IsFiniteSet(1 .. k)
<1>1. 1 \in Int /\ k \in Int
  OBVIOUS
<1> QED BY <1>1, FS_Interval

\* More committed messages do not bring an older one back among the last.
LEMMA LastShrinks ==
  ASSUME NEW S, NEW T, S \subseteq T, IsFiniteSet(T), Limit \in Nat,
         NEW m \in S, m \in LastOf(T)
  PROVE  m \in LastOf(S)
<1> DEFINE Above(X) == {n \in X : n > m}
<1>1. Above(S) \subseteq Above(T) /\ IsFiniteSet(Above(T))
  BY FS_Subset
<1>2. /\ Cardinality(Above(S)) <= Cardinality(Above(T))
      /\ Cardinality(Above(S)) \in Nat /\ Cardinality(Above(T)) \in Nat
  BY <1>1, FS_Subset, FS_CardinalityType
<1>3. Cardinality(Above(T)) < Limit
  BY DEF LastOf
<1>4. Cardinality(Above(S)) < Limit
  BY <1>2, <1>3
<1> QED BY <1>4 DEF LastOf

\* What is due after a step was due before it, unless the step published it
\* or took it off the missed ones.
LEMMA DueBefore ==
  ASSUME TypeInv, NEW r, missed \subseteq missed',
         messages' \in Seq(Row), DOMAIN messages \subseteq DOMAIN messages',
         \A n \in DOMAIN messages :
           /\ messages'[n].room = messages[n].room
           /\ messages[n].state # "inserted" => messages'[n].state # "inserted",
         NEW m \in Due(r)', m \in DOMAIN messages, messages[m].state = "published"
  PROVE  m \in Due(r)
<1>1. Committed(r) \subseteq Committed(r)'
  BY DEF Committed
<1>2. IsFiniteSet(Committed(r)')
  <2>1. DOMAIN messages' = 1 .. Len(messages') /\ Len(messages') \in Nat
    OBVIOUS
  <2>2. IsFiniteSet(1 .. Len(messages'))
    BY <2>1, PrefixIsFinite
  <2>3. IsFiniteSet(DOMAIN messages')
    BY <2>1, <2>2
  <2> QED BY <2>3, FS_Subset DEF Committed
<1>3. m \in LastOf(Committed(r)') /\ m \notin missed'
  BY DEF Due, LastOf
<1>4. m \in Committed(r)
  BY <1>3 DEF LastOf, Committed
<1>5. m \in LastOf(Committed(r))
  BY <1>1, <1>2, <1>3, <1>4, LastShrinks, ChatRoomAssumption
<1> QED BY <1>3, <1>5 DEF Due

LEMMA DueIsRow ==
  ASSUME NEW r, NEW m \in Due(r)
  PROVE  m \in DOMAIN messages /\ messages[m].state = "published" /\ messages[m].room = r
         /\ m \in LastOf(Committed(r)) /\ m \notin missed
BY DEF Due, LastOf, Committed

\* Steps after which nothing new is due.
LEMMA NothingNewDue ==
  ASSUME TypeInv, MissInv, UNCHANGED <<room, load, overlapped, broken>>,
         \A r : Due(r)' \subseteq Due(r),
         \A m \in Due(room)' : Held(m, deck) \/ Held(m, inbox) =>
                               Held(m, deck') \/ Held(m, inbox')
  PROVE  MissInv'
<1>1. Loading' = Loading
  BY DEF Loading
<1>2. ASSUME ~ overlapped', NEW q \in Load, load'[q] # None, load'[q].stage = "read",
             NEW m \in Due(load[q].room)'
      PROVE  Held(m, load'[q].answer)
  <2>1. m \in Due(load[q].room)
    BY <1>2
  <2> QED BY <1>2, <2>1 DEF MissInv
<1>3. ASSUME ~ overlapped', ~ Loading', ~ broken', NEW m \in Due(room)'
      PROVE  Held(m, deck') \/ Held(m, inbox')
  <2>1. m \in Due(room)
    BY <1>3
  <2> QED BY <1>1, <1>3, <2>1 DEF MissInv
<1> QED BY <1>2, <1>3 DEF MissInv

LEMMA DueStays ==
  ASSUME UNCHANGED messages, missed \subseteq missed'
  PROVE  \A r : Due(r)' \subseteq Due(r) \ missed'
BY DEF Due, LastOf, Committed

LEMMA PublishMisses ==
  ASSUME TypeInv, RoomInv, MissInv, NEW s \in Sender, Publish(s)
  PROVE  MissInv'
<1> DEFINE new == handling[s]
<1>1. /\ new \in DOMAIN messages /\ messages[new].room = Place[s]
      /\ messages' \in Seq(Row) /\ DOMAIN messages' = DOMAIN messages
      /\ \A n \in DOMAIN messages :
           /\ messages'[n].room = messages[n].room
           /\ messages[n].state # "inserted" => messages'[n].state # "inserted"
           /\ n # new => messages'[n].state = messages[n].state
  BY PublishFacts
<1>2. /\ missed' = IF Reached(Place[s]) /\ ~ Loading THEN missed ELSE missed \cup {new}
      /\ inbox' = IF Reached(Place[s]) THEN Append(inbox, new) ELSE inbox
      /\ UNCHANGED <<room, deck, load, overlapped, broken>>
  BY DEF Publish
<1> HIDE DEF new
<1>3. ASSUME NEW r, NEW m \in Due(r)', m # new PROVE m \in Due(r)
  <2>1. m \in DOMAIN messages /\ messages[m].state = "published"
    <3>1. m \in DOMAIN messages' /\ messages'[m].state = "published"
      BY DEF Due, LastOf, Committed
    <3> QED BY <1>1, <1>3, <3>1
  <2>2. missed \subseteq missed'
    BY <1>2
  <2> QED BY <1>1, <2>1, <2>2, DueBefore
<1>4. ASSUME NEW r, new \in Due(r)' PROVE ~ Loading /\ Reached(Place[s])
  <2>1. new \notin missed'
    BY <1>4 DEF Due
  <2> QED BY <1>2, <2>1
<1>5. \A m : Held(m, inbox) => Held(m, inbox')
  BY PublishInbox DEF Held
<1>6. Reached(Place[s]) => Held(new, inbox')
  <2>1. inbox \in Seq(DOMAIN messages)
    BY DEF TypeInv, TypeOK
  <2> SUFFICES ASSUME Reached(Place[s]) PROVE Held(new, inbox')
    OBVIOUS
  <2>2. inbox' = Append(inbox, new)
    BY <1>2
  <2>3. Len(inbox) + 1 \in DOMAIN inbox' /\ inbox'[Len(inbox) + 1] = new
    BY <2>1, <2>2
  <2> QED BY <2>3 DEF Held
<1>7. Loading' = Loading
  BY <1>2 DEF Loading
<1>8. ASSUME ~ overlapped', NEW q \in Load, load'[q] # None, load'[q].stage = "read",
             NEW m \in Due(load[q].room)'
      PROVE  Held(m, load'[q].answer)
  <2>1. Loading
    BY <1>2, <1>8 DEF Loading
  <2>2. m # new
    BY <1>4, <1>8, <2>1
  <2>3. m \in Due(load[q].room)
    BY <1>2, <1>3, <1>8, <2>2 DEF Due
  <2> QED BY <1>2, <1>8, <2>3 DEF MissInv
<1>9. ASSUME ~ overlapped', ~ Loading', ~ broken', NEW m \in Due(room)'
      PROVE  Held(m, deck') \/ Held(m, inbox')
  <2>1. CASE m = new
    BY <1>4, <1>6, <1>9, <2>1
  <2>2. CASE m # new
    <3>1. m \in Due(room)
      BY <1>2, <1>3, <1>9, <2>2 DEF Due
    <3> QED BY <1>2, <1>5, <1>7, <1>9, <3>1 DEF MissInv
  <2> QED BY <2>1, <2>2
<1> QED BY <1>8, <1>9 DEF MissInv

LEMMA SelectionMisses ==
  ASSUME TypeInv, RoomInv, MissInv, NEW q \in Load,
         Selection(q) \/ \E r \in Room : Select(q, r)
  PROVE  MissInv'
<1> USE DEF server, socket, history
<1>1. ~ overlapped /\ load[q] # None =>
        load[q].room = room /\ \A p \in Load \ {q} : load[p] = None
  BY DEF RoomInv
<1>2. CASE Read(q)
  <2>1. PICK lines \in Seq(DOMAIN messages) :
          /\ IsHistory(lines, load[q].room) /\ load[q] # None
          /\ load'[q].answer = lines /\ load'[q].room = load[q].room /\ load'[q] # None
          /\ \A p \in Load \ {q} : load'[p] = load[p]
    BY <1>2, ReadFacts
  <2>2. Loading' /\ UNCHANGED <<messages, overlapped>>
    BY <1>2, <2>1 DEF Loading, Read
  <2>3. \A m \in Due(load[q].room)' : Held(m, load'[q].answer)
    <3>1. \A m \in LastOf(Committed(load[q].room)) : Held(m, lines)
      BY <2>1 DEF IsHistory, IsAscending, ToSet, Held
    <3>2. Due(load[q].room)' \subseteq LastOf(Committed(load[q].room))
      BY <2>1, <2>2 DEF Due, LastOf, Committed
    <3> QED BY <2>1, <3>1, <3>2
  <2>4. \A p \in Load : ~ overlapped' /\ load'[p] # None => p = q
    BY <1>1, <2>1, <2>2
  <2> QED BY <2>2, <2>3, <2>4 DEF MissInv
<1>3. CASE LoadError(q)
  <2>1. /\ load'[q] # None /\ load'[q].stage = "failed"
        /\ \A p \in Load \ {q} : load'[p] = load[p]
    BY <1>3, LoadErrorFacts
  <2>2. Loading' /\ UNCHANGED <<messages, missed, overlapped>> /\ load[q] # None
    BY <1>3, <2>1 DEF Loading, LoadError
  <2>3. \A p \in Load : ~ overlapped' /\ load'[p] # None => p = q
    BY <1>1, <2>1, <2>2
  <2> QED BY <2>1, <2>2, <2>3 DEF MissInv
<1>4. CASE Show(q) \/ ShowNothing(q)
  <2>1. /\ load[q] # None /\ load'[q] = None
        /\ \A p \in Load \ {q} : load'[p] = load[p]
    BY <1>4, ShowFacts
  <2>2. UNCHANGED <<messages, missed, room, overlapped>>
    BY <1>4 DEF Show, ShowNothing
  <2>3. \A p \in Load : ~ overlapped' => load'[p] = None
    BY <1>1, <2>1, <2>2
  <2>4. CASE Show(q)
    <3>1. deck' = load[q].answer /\ load[q].stage = "read"
      BY <2>4 DEF Show
    <3>2. ~ overlapped' => \A m \in Due(room)' : Held(m, deck')
      BY <1>1, <2>1, <2>2, <3>1 DEF MissInv, Due, LastOf, Committed
    <3> QED BY <2>3, <3>2 DEF MissInv
  <2>5. CASE ShowNothing(q)
    BY <2>3, <2>5 DEF MissInv, ShowNothing
  <2> QED BY <1>4, <2>4, <2>5
<1>5. ASSUME NEW r \in Room, Select(q, r) PROVE MissInv'
  <2>1. /\ load[q] = None /\ load'[q] # None /\ load'[q].stage = "sent"
        /\ \A p \in Load \ {q} : load'[p] = load[p]
    BY <1>5, SelectFacts
  <2>2. Loading' /\ overlapped' = Loading
    BY <1>5, <2>1 DEF Loading, Select
  <2>3. \A p \in Load : ~ overlapped' /\ load'[p] # None => p = q
    BY <2>1, <2>2 DEF Loading
  <2> QED BY <2>1, <2>2, <2>3 DEF MissInv
<1> QED BY <1>2, <1>3, <1>4, <1>5 DEF Selection

LEMMA MissStep == TypeInv /\ RoomInv /\ MissInv /\ [Next]_vars => MissInv'
<1> SUFFICES ASSUME TypeInv, RoomInv, MissInv, [Next]_vars PROVE MissInv'
  OBVIOUS
<1> USE DEF server, socket, closed, access, history, counters
<1>1. CASE \/ UNCHANGED vars \/ Register \/ Refuse \/ Closed
           \/ Expire \/ Refresh \/ Restart
  <2>1. UNCHANGED <<messages, missed, room, load, overlapped, broken, deck, inbox>>
    BY <1>1 DEF vars, Register, Refuse, Closed, Expire, Refresh, Restart
  <2> QED BY <2>1, DueStays, NothingNewDue
<1>2. ASSUME NEW s \in Sender, Insert(s) \/ Commit(s) \/ HandlerError(s) PROVE MissInv'
  <2>1. RowsGrow
    BY <1>2, InsertFacts, CommitFacts
  <2>2. UNCHANGED <<missed, room, load, overlapped, broken, deck, inbox>>
    BY <1>2 DEF Insert, Commit, HandlerError
  <2>3. ASSUME NEW r, NEW m \in Due(r)' PROVE m \in Due(r)
    <3>1. m \in DOMAIN messages' /\ messages'[m].state = "published"
      BY DEF Due, LastOf, Committed
    <3>2. m \in DOMAIN messages /\ messages[m].state = "published"
      BY <2>1, <3>1 DEF RowsGrow
    <3> QED BY <2>1, <2>2, <3>2, DueBefore DEF RowsGrow
  <2> QED BY <2>2, <2>3, NothingNewDue
<1>3. CASE Receive
  <2>1. UNCHANGED <<messages, missed, room, load, overlapped, broken>>
    BY <1>3 DEF Receive
  <2>2. \A m : Held(m, deck) => Held(m, deck')
    BY <1>3, ReceiveFacts DEF Held
  <2>3. ASSUME NEW m, Held(m, inbox) PROVE Held(m, deck') \/ Held(m, inbox')
    <3>1. PICK i \in DOMAIN inbox : inbox[i] = m
      BY <2>3 DEF Held
    <3>2. CASE i = 1
      <4>1. Len(deck) + 1 \in DOMAIN deck' /\ deck'[Len(deck) + 1] = m
        BY <1>3, <3>1, <3>2, ReceiveFacts
      <4> QED BY <4>1 DEF Held
    <3>3. CASE i # 1
      <4>1. i - 1 \in DOMAIN inbox' /\ i - 1 + 1 = i
        BY <1>3, <3>1, <3>3, ReceiveFacts
      <4>2. inbox'[i - 1] = m
        BY <1>3, <3>1, <4>1, ReceiveFacts
      <4> QED BY <4>1, <4>2 DEF Held
    <3> QED BY <3>2, <3>3
  <2>4. \A r : Due(r)' \subseteq Due(r)
    BY <2>1, DueStays
  <2> QED BY <2>1, <2>2, <2>3, <2>4, NothingNewDue
<1>4. CASE Lose \/ Reconnect
  <2>1. UNCHANGED <<messages, room, load, overlapped, broken, deck>>
    BY <1>4 DEF Lose, Reconnect
  <2>2. missed' = missed \cup ToSet(inbox)
    BY <1>4 DEF Lose, Reconnect
  <2>3. \A r : Due(r)' \subseteq Due(r) \ missed'
    BY <2>1, <2>2, DueStays
  <2>4. \A m : Held(m, inbox) => m \in missed'
    BY <2>2 DEF Held, ToSet
  <2> QED BY <2>1, <2>3, <2>4, NothingNewDue
<1>5. CASE ListenerError
  <2>1. UNCHANGED <<messages, room, load, overlapped, broken, deck>>
    BY <1>5 DEF ListenerError
  <2>2. \A r : Due(r)' \subseteq Due(r) \ missed'
    BY <1>5, <2>1, InboxCut, DueStays
  <2>3. \A m : Held(m, inbox) => Held(m, inbox') \/ m \in missed'
    BY <1>5, InboxCut DEF Held
  <2> QED BY <2>1, <2>2, <2>3, NothingNewDue
<1> QED BY <1>1, <1>2, <1>3, <1>4, <1>5, PublishMisses, SelectionMisses DEF Next, Handler

-----------------------------------------------------------------------------
ChatInv == TypeInv /\ RoomInv /\ OnceInv /\ OrderInv /\ MissInv

LEMMA ChatInit == Init => ChatInv
<1> SUFFICES ASSUME Init PROVE ChatInv
  OBVIOUS
<1>1. DOMAIN deck = {} /\ DOMAIN inbox = {} /\ \A q \in Load : load[q] = None
  BY DEF Init
<1>2. Due(None) = {} /\ room = None
  BY DEF Init, Due, LastOf, Committed
<1>3. RoomInv
  BY <1>1 DEF Init, RoomInv, SocketFollowsRoom, DeckShowsItsRoom
<1>4. OnceInv /\ OrderInv
  BY <1>1 DEF OnceInv, ShownOnce, OrderInv
<1>5. MissInv
  BY <1>1, <1>2 DEF MissInv
<1> QED BY <1>3, <1>4, <1>5, InitType DEF ChatInv

LEMMA ChatNext == ChatInv /\ [Next]_vars => ChatInv'
BY NextType, RoomStep, ShownStep, MissStep DEF ChatInv

\* The variables of ChatRoom keep their types.
THEOREM ChatTypeCorrect == Spec => []TypeOK
<1>1. ChatInv => TypeOK
  BY DEF ChatInv, TypeInv
<1> QED BY <1>1, ChatInit, ChatNext, PTL DEF Spec

\* What is typed into the page goes to the room it shows.
THEOREM SocketStaysInRoom == Spec => []SocketFollowsRoom
<1>1. ChatInv => SocketFollowsRoom
  BY DEF ChatInv, RoomInv
<1> QED BY <1>1, ChatInit, ChatNext, PTL DEF Spec

\* The deck holds the messages of no other room.
THEOREM DeckStaysInRoom == Spec => []DeckShowsItsRoom
<1>1. ChatInv => DeckShowsItsRoom
  BY DEF ChatInv, RoomInv
<1> QED BY <1>1, ChatInit, ChatNext, PTL DEF Spec

\* The history and the socket together show every message, but for those
\* published while neither was there, the listener of the node was not
\* subscribed, or lost with the connection or the subscription.
THEOREM NothingElseIsMissed == Spec => []NothingElseMissed
<1>1. ChatInv => NothingElseMissed
  <2> SUFFICES ASSUME ChatInv, ~ Loading, inbox = <<>>, ~ overlapped, ~ broken,
                      NEW m \in LastOf(Committed(room)) \ missed, messages[m].state = "published"
               PROVE  \E i \in DOMAIN deck : deck[i] = m
    BY DEF NothingElseMissed
  <2>1. m \in Due(room)
    BY DEF Due
  <2>2. ~ Held(m, inbox)
    BY DEF Held
  <2> QED BY <2>1, <2>2 DEF ChatInv, MissInv, Held
<1> QED BY <1>1, ChatInit, ChatNext, PTL DEF Spec

\* No message is shown twice, unless its history was early.
THEOREM MessagesShownOnce == Spec => []ShownOnce
<1>1. ChatInv => ShownOnce
  BY DEF ChatInv, OnceInv
<1> QED BY <1>1, ChatInit, ChatNext, PTL DEF Spec

\* The messages of one sender are shown in the order they were sent.
THEOREM OrderIsKept == Spec => []SendersOrder
<1>1. ChatInv => SendersOrder
  BY DEF ChatInv, OrderInv, InOrder, SendersOrder
<1> QED BY <1>1, ChatInit, ChatNext, PTL DEF Spec
=============================================================================
