------------------------------ MODULE ChatRoom ------------------------------
(***************************************************************************)
(* The chat as one page sees it: the handlers that persist and publish the *)
(* messages of other sockets, the history the page fetches when a room is  *)
(* selected, the socket it opens after that, and the sockets it opens when *)
(* one has closed.                                                         *)
(*                                                                         *)
(* Abstractions.  Messages are numbered in the order of their created_at,  *)
(* which the database sets when their transaction begins.  A published     *)
(* message is at once on its way to the page's socket, if the socket is    *)
(* registered and the listener of its node subscribed, and the time it     *)
(* takes counts as time before it; Presence has the nodes and listeners.   *)
(* The page stays logged in and in one workspace, whose rooms are there    *)
(* from the start: what else ends a session is the matter of Sessions.     *)
(* What the page sends comes back to it like the messages of others.       *)
(***************************************************************************)
EXTENDS Integers, FiniteSets, SequencesExt

CONSTANTS
  Room,
  Sender,        \* the sockets of other pages
  Place,         \* the room of each sender
  Load,          \* history requests the page can have under way
  None,          \* no room, no request, no message
  Limit,         \* the limit of the history
  MaxMessages,   \* bound on the messages
  MaxSelections, \* bound on the selections of a room
  MaxErrors      \* bound on failing commands, requests and connections

ASSUME ChatRoomAssumption ==
  /\ Place \in [Sender -> Room]
  /\ None \notin Room /\ None \notin Nat
  /\ Limit \in Nat \ {0} /\ MaxMessages \in Nat
  /\ MaxSelections \in Nat /\ MaxErrors \in Nat

VARIABLES
  messages,   \* the chat_messages, and those whose transaction is open
  handling,   \* the message each sender's handler is at work on
  room,       \* activeRoomId
  deck,       \* chat-messages, the messages shown
  load,       \* the history requests under way
  link,       \* wsActiveRoom: its state ...
  linkRoom,   \* ... and its room
  inbox,      \* messages sent to that socket the page has not handled
  closing,    \* closed sockets whose onclose has not run
  timers,     \* reconnects that are due in 3 s
  listener,   \* the RedisPubSubListener of the page's node
  fresh,      \* state.token has not expired
  missed,     \* history: messages that did not reach the page, or while it
              \* loaded a history, and that it has not read since
  early,      \* history: messages a history held before they were published
  overlapped, \* history: a room was selected while one was loading, since the
              \* last selection that was alone
  broken,     \* history: and a history request failed
  selections, errors

server  == <<messages, handling>>
socket  == <<link, linkRoom, inbox>>
closed  == <<closing, timers>>
access  == <<listener, fresh>>
history == <<missed, early, overlapped, broken>>
counters == <<selections, errors>>
vars    == <<server, room, deck, load, socket, closed, access, history, counters>>

Message == 1 .. MaxMessages
Row == [room : Room, by : Sender, state : {"inserted", "committed", "published"}]
Request == [room : Room, stage : {"sent", "read", "failed"}, answer : Seq(Message)]

ASSUME NoneAssumption == None \notin Request

Init ==
  /\ messages = <<>> /\ handling = [s \in Sender |-> None]
  /\ room = None /\ deck = <<>> /\ load = [q \in Load |-> None]
  /\ link = "none" /\ linkRoom = None /\ inbox = <<>>
  /\ closing = 0 /\ timers = 0 /\ listener = "listening" /\ fresh = TRUE
  /\ missed = {} /\ early = {} /\ overlapped = FALSE /\ broken = FALSE
  /\ selections = 0 /\ errors = 0

Loading == \E q \in Load : load[q] # None

ConnectedTo(r) == link = "open" /\ linkRoom = r

\* What is published to the room now is handed to the page's socket.
Reached(r) == ConnectedTo(r) /\ listener = "listening"

Fault == errors < MaxErrors /\ errors' = errors + 1
-----------------------------------------------------------------------------
(* The message branch of the receive loop, at each sender's socket.        *)

SetState(m, s) == messages' = [messages EXCEPT ![m].state = s]

\* persist_message begins.
Insert(s) ==
  /\ handling[s] = None /\ Len(messages) < MaxMessages
  /\ messages' = Append(messages,
       [room |-> Place[s], by |-> s, state |-> "inserted"])
  /\ handling' = [handling EXCEPT ![s] = Len(messages) + 1]
  /\ UNCHANGED <<room, deck, load, socket, closed, access, history, counters>>

Commit(s) ==
  LET m == handling[s] IN
  /\ m # None /\ messages[m].state = "inserted"
  /\ SetState(m, "committed")
  /\ UNCHANGED <<handling, room, deck, load, socket, closed, access, history, counters>>

\* publish_event: the listener that is subscribed hands it to the socket that
\* is registered for the room.
Publish(s) ==
  LET m == handling[s]
      r == Place[s]
  IN
  /\ m # None /\ messages[m].state = "committed"
  /\ SetState(m, "published") /\ handling' = [handling EXCEPT ![s] = None]
  /\ inbox' = IF Reached(r) THEN Append(inbox, m) ELSE inbox
  /\ missed' = IF Reached(r) /\ ~ Loading THEN missed ELSE missed \cup {m}
  /\ UNCHANGED <<room, deck, load, link, linkRoom, closed, access,
                 early, overlapped, broken, counters>>

\* A statement or command raises, the commit applied or not: the exception
\* leaves the receive loop and ends the sender's socket.
HandlerError(s) ==
  LET m == handling[s] IN
  /\ Fault /\ m # None /\ handling' = [handling EXCEPT ![s] = None]
  /\ SetState(m, "committed") \/ UNCHANGED messages
  /\ UNCHANGED <<room, deck, load, socket, closed, access, history, selections>>
-----------------------------------------------------------------------------
(* get_room_history                                                        *)

Committed(r) ==
  {m \in DOMAIN messages :
     messages[m].room = r /\ messages[m].state # "inserted"}

LastOf(S) == {m \in S : Cardinality({n \in S : n > m}) < Limit}

\* The messages of S, each once and oldest first.
IsAscending(lines, S) ==
  /\ ToSet(lines) = S
  /\ \A i, j \in DOMAIN lines : i < j => lines[i] < lines[j]

\* Variants: the first messages instead of the last; the last, not reversed.
IsHistoryFirst(lines, r) ==
  IsAscending(lines, {m \in Committed(r) :
                        Cardinality({n \in Committed(r) : n < m}) < Limit})
IsHistoryUnreversed(lines, r) ==
  /\ ToSet(lines) = LastOf(Committed(r))
  /\ \A i, j \in DOMAIN lines : i < j => lines[i] > lines[j]

IsHistory(lines, r) == IsAscending(lines, LastOf(Committed(r)))

Read(q) ==
  /\ fresh /\ load[q] # None /\ load[q].stage = "sent"
  /\ LET r == load[q].room IN
     /\ \E count \in 0 .. Limit : \E lines \in [1 .. count -> DOMAIN messages] :
          /\ IsHistory(lines, r)
          /\ load' = [load EXCEPT ![q].stage = "read", ![q].answer = lines]
     /\ missed' = missed \ Committed(r)
     /\ early' = early \cup {m \in Committed(r) : messages[m].state = "committed"}
  /\ UNCHANGED <<server, room, deck, socket, closed, access, overlapped, broken, counters>>

LoadError(q) ==
  /\ Fault /\ load[q] # None /\ load[q].stage # "failed"
  /\ load' = [load EXCEPT ![q].stage = "failed"]
  /\ UNCHANGED <<server, room, deck, socket, closed, access, history, selections>>
-----------------------------------------------------------------------------
(* The page.                                                               *)

\* selectRoom, also when the tab of the chat is opened again: the deck is
\* emptied and the history asked for.
Select(q, r) ==
  /\ load[q] = None /\ q = (CHOOSE free \in Load : load[free] = None)
  /\ selections < MaxSelections
  /\ room' = r /\ deck' = <<>>
  /\ load' = [load EXCEPT ![q] = [room |-> r, stage |-> "sent", answer |-> <<>>]]
  /\ overlapped' = Loading /\ broken' = (broken /\ Loading)
  /\ selections' = selections + 1
  /\ UNCHANGED <<server, socket, closed, access, missed, early, errors>>

\* connectActiveRoomSocket: a socket that is still there is closed.  close()
\* without a code is reported as 1005, so its onclose will reconnect.  The
\* URL carries state.token as it is now, expired or not.
ConnectTo(r) ==
  /\ closing' = IF link \in {"connecting", "barred", "open"} THEN closing + 1 ELSE closing
  /\ link' = (IF fresh THEN "connecting" ELSE "barred")
  /\ linkRoom' = r /\ inbox' = <<>>

Connect == ConnectTo(room)

\* Variant: the room is the selection's own.
ShowOwnRoom(q) ==
  /\ load[q] # None /\ load[q].stage = "read"
  /\ deck' = load[q].answer /\ ConnectTo(load[q].room)
  /\ load' = [load EXCEPT ![q] = None]
  /\ UNCHANGED <<server, room, timers, access, history, counters>>

\* Variant: the deck is not emptied again.
ShowBelow(q) ==
  /\ load[q] # None /\ load[q].stage = "read"
  /\ deck' = deck \o load[q].answer /\ Connect
  /\ load' = [load EXCEPT ![q] = None]
  /\ UNCHANGED <<server, room, timers, access, history, counters>>

\* The history replaces what the deck shows, and the socket is opened.
Show(q) ==
  /\ load[q] # None /\ load[q].stage = "read"
  /\ deck' = load[q].answer /\ Connect
  /\ load' = [load EXCEPT ![q] = None]
  /\ UNCHANGED <<server, room, timers, access, history, counters>>

\* Without a history the deck stays as it is.
ShowNothing(q) ==
  /\ load[q] # None /\ load[q].stage = "failed"
  /\ broken' = TRUE /\ Connect
  /\ load' = [load EXCEPT ![q] = None]
  /\ UNCHANGED <<server, room, deck, timers, access, missed, early, overlapped, counters>>

\* The handshake is accepted and the socket registered.
Register ==
  /\ link = "connecting" /\ link' = "open"
  /\ UNCHANGED <<server, room, deck, load, linkRoom, inbox, closed, access,
                 history, counters>>

\* The handshake is refused with 1008: its token has expired.
Refuse ==
  /\ link = "barred" /\ link' = "closed" /\ closing' = closing + 1
  /\ UNCHANGED <<server, room, deck, load, linkRoom, inbox, timers, access,
                 history, counters>>

\* onmessage
Receive ==
  /\ inbox # <<>>
  /\ deck' = Append(deck, Head(inbox)) /\ inbox' = Tail(inbox)
  /\ UNCHANGED <<server, room, load, link, linkRoom, closed, access, history, counters>>

\* The connection is lost, with what was on its way, or the handshake fails;
\* where the node went down, it is started again with a new listener.
Lose ==
  /\ Fault /\ link \in {"connecting", "barred", "open"}
  /\ listener' \in {listener, "listening"}
  /\ link' = "closed" /\ inbox' = <<>> /\ closing' = closing + 1
  /\ missed' = missed \cup ToSet(inbox)
  /\ UNCHANGED <<server, room, deck, load, linkRoom, timers, fresh,
                 early, overlapped, broken, selections>>

\* Variant: a socket that is gone is let go.
CloseQuietly ==
  /\ closing > 0 /\ closing' = closing - 1
  /\ UNCHANGED <<server, room, deck, load, socket, timers, access, history, counters>>

\* onclose
Closed ==
  /\ closing > 0 /\ closing' = closing - 1 /\ timers' = timers + 1
  /\ UNCHANGED <<server, room, deck, load, socket, access, history, counters>>

\* The 3 s are over.
Reconnect ==
  /\ timers > 0 /\ timers' = timers - 1 /\ Connect
  /\ missed' = missed \cup ToSet(inbox)
  /\ UNCHANGED <<server, room, deck, load, access, early, overlapped, broken, counters>>
-----------------------------------------------------------------------------
(* The access token of the page.                                           *)

\* ACCESS_TOKEN_EXPIRE_MINUTES are over, for a handshake under way as well.
Expire ==
  /\ fresh /\ fresh' = FALSE
  /\ link' = (IF link = "connecting" THEN "barred" ELSE link)
  /\ UNCHANGED <<server, room, deck, load, linkRoom, inbox, closed, listener,
                 history, counters>>

\* Some apiFetch of the page, that of a history or another, is answered 401
\* and gets a new token.  Nothing makes the page send one.
Refresh ==
  /\ ~ fresh /\ fresh' = TRUE
  /\ UNCHANGED <<server, room, deck, load, socket, closed, listener, history, counters>>
-----------------------------------------------------------------------------
(* RedisPubSubListener                                                     *)

\* The subscription breaks; what the listener has not handed on is gone.
ListenerError ==
  /\ Fault /\ listener = "listening" /\ listener' = "cooldown"
  /\ \E count \in 0 .. Len(inbox) :
       /\ inbox' = SubSeq(inbox, 1, count)
       /\ missed' = missed \cup {inbox[i] : i \in count + 1 .. Len(inbox)}
  /\ UNCHANGED <<server, room, deck, load, link, linkRoom, closed, fresh,
                 early, overlapped, broken, selections>>

\* After 2 s the listener is started again.  If Redis is not back yet it ends
\* for good: psubscribe is outside the try block.
Restart ==
  /\ listener = "cooldown" /\ listener' \in {"listening", "ended"}
  /\ UNCHANGED <<server, room, deck, load, socket, closed, fresh, history, counters>>
-----------------------------------------------------------------------------
Handler(s) == Insert(s) \/ Commit(s) \/ Publish(s) \/ HandlerError(s)

Selection(q) == Read(q) \/ LoadError(q) \/ Show(q) \/ ShowNothing(q)

Next ==
  \/ \E s \in Sender : Handler(s)
  \/ \E q \in Load : Selection(q) \/ \E r \in Room : Select(q, r)
  \/ Register \/ Refuse \/ Receive \/ Lose \/ Closed \/ Reconnect
  \/ Expire \/ Refresh \/ ListenerError \/ Restart

Spec == Init /\ [][Next]_vars

\* The browser runs the callbacks, and a handshake is answered.
Fairness ==
  WF_vars(Register \/ Refuse) /\ WF_vars(Closed) /\ WF_vars(Reconnect)

FairSpec == Spec /\ Fairness
-----------------------------------------------------------------------------
TypeOK ==
  /\ messages \in Seq(Row) /\ Len(messages) <= MaxMessages
  /\ handling \in [Sender -> Message \cup {None}]
  /\ \A s \in Sender : handling[s] # None =>
       handling[s] \in DOMAIN messages /\ messages[handling[s]].by = s
  /\ room \in Room \cup {None} /\ deck \in Seq(DOMAIN messages)
  /\ load \in [Load -> Request \cup {None}]
  /\ link \in {"none", "connecting", "barred", "open", "closed"}
  /\ linkRoom \in Room \cup {None} /\ (link = "none" <=> linkRoom = None)
  /\ inbox \in Seq(DOMAIN messages) /\ (link # "open" => inbox = <<>>)
  /\ closing \in Nat /\ timers \in Nat
  /\ listener \in {"listening", "cooldown", "ended"} /\ fresh \in BOOLEAN
  /\ missed \subseteq Message /\ early \subseteq Message
  /\ overlapped \in BOOLEAN /\ broken \in BOOLEAN
  /\ selections \in 0 .. MaxSelections /\ errors \in 0 .. MaxErrors

\* Whatever selections and reconnects overlap, when none is loading the page
\* talks to the room it shows: what is typed there goes there.
SocketFollowsRoom == ~ Loading /\ link # "none" => linkRoom = room

\* And its deck holds that room's messages and no others, though until the
\* history came it took the messages of the room before; unless selections
\* overlapped, or the history did not come.
DeckShowsItsRoom ==
  ~ Loading /\ ~ overlapped /\ ~ broken =>
    \A i \in DOMAIN deck : messages[deck[i]].room = room

\* A page that is connected and at rest shows every message published to
\* its room, back to the limit of the history, but for those published
\* between the reading of the history and the opening of the socket or
\* between two sockets, those lost with a connection or a subscription, and
\* those published while the node's listener was not subscribed; unless as
\* above.
NothingElseMissed ==
  ConnectedTo(room) /\ ~ Loading /\ inbox = <<>> /\ ~ overlapped /\ ~ broken =>
    \A m \in LastOf(Committed(room)) \ missed :
      messages[m].state = "published" => \E i \in DOMAIN deck : deck[i] = m

\* A message is shown once, unless the history had it before it was
\* published.
ShownOnce ==
  \A i, j \in DOMAIN deck : deck[i] = deck[j] => i = j \/ deck[i] \in early

\* The messages of a sender are shown in the order they were sent, where the
\* history and the socket meet as well.
SendersOrder ==
  \A i, j \in DOMAIN deck :
    i < j /\ messages[deck[i]].by = messages[deck[j]].by => deck[i] <= deck[j]

\* A page that has lost its socket, or was refused, is connected again,
\* however selections and reconnects close each other's sockets; but only
\* while its token is valid.  A page whose token has expired reconnects in
\* vain until some other request of it has renewed the token.
Reconnects ==
  link \in {"connecting", "barred", "closed"} ~> link = "open" \/ ~ fresh
=============================================================================
