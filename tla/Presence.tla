------------------------------ MODULE Presence ------------------------------
(***************************************************************************)
(* Who is online in a workspace: the WebSocket handlers of every node, the *)
(* set of online users in Redis, the presence events published to room 0,  *)
(* the listener of each node that hands them to its sockets, and what the  *)
(* pages behind the sockets of room 0 believe.  One action is one command  *)
(* of a handler, or one event taken by a listener.                         *)
(*                                                                         *)
(* Abstractions.  One workspace.  A socket has one user, node and room; it *)
(* is connected again and again, each time as a new WebSocket object, once *)
(* the one before it is off the register.  A handshake that is rejected    *)
(* changes nothing.  Chat and typing messages touch neither the set nor    *)
(* the events and show only as the failures of the receive loop.           *)
(***************************************************************************)
EXTENDS Integers, Sequences

CONSTANTS
  User, Node, Socket,
  Owner,       \* the user of each socket
  Host,        \* the node each socket is connected to
  Roster,      \* the sockets of room 0, which a page keeps for presence events
  MaxPending,  \* bound on the events a listener has not taken
  MaxFaults    \* bound on failing commands, lost subscriptions and crashes

ASSUME PresenceAssumption ==
  /\ Owner \in [Socket -> User] /\ Host \in [Socket -> Node]
  /\ Roster \subseteq Socket
  /\ MaxPending \in Nat \ {0} /\ MaxFaults \in Nat

VARIABLES
  online,    \* workspace:{id}:online_users
  stage,     \* the command each handler is about to run
  up,        \* the sockets whose client is still there
  active,    \* active_connections of all nodes
  channel,   \* published events each node's listener has not taken
  listener,  \* the listener of each node
  view,      \* onlineUsers of the page behind each socket of room 0
  unheard,   \* history: users of whose last event that page was not told
  missed,    \* history: users a failure or crash kept from being taken offline
  leaked,    \* history: sockets whose handler failed before its try block
  shaken,    \* history: sockets connected while another of the user closes
  faults

handlers == <<stage, up, active>>
events   == <<channel, listener, view, unheard>>
history  == <<missed, leaked, shaken>>
vars     == <<online, handlers, events, history, faults>>

Stage == {"none", "sadd", "announce", "open", "srem", "farewell"}
Event == [user : User, online : BOOLEAN]

Init ==
  /\ online = {} /\ up = {} /\ active = {}
  /\ stage = [s \in Socket |-> "none"]
  /\ channel = [n \in Node |-> <<>>]
  /\ listener = [n \in Node |-> "listening"]
  /\ view = [s \in Roster |-> {}] /\ unheard = [s \in Roster |-> {}]
  /\ missed = {} /\ leaked = {} /\ shaken = {} /\ faults = 0
-----------------------------------------------------------------------------
Goto(s, next) == stage' = [stage EXCEPT ![s] = next]

Hears(n) == listener[n] = "listening"

\* PUBLISH: every node that is subscribed gets the event.
Publish(u, on) ==
  /\ \A n \in Node : Hears(n) => Len(channel[n]) < MaxPending
  /\ channel' = [n \in Node |->
       IF Hears(n) THEN Append(channel[n], [user |-> u, online |-> on])
                   ELSE channel[n]]
  /\ unheard' = [s \in Roster |->
       IF Hears(Host[s]) THEN unheard[s] ELSE unheard[s] \cup {u}]

Fault == faults < MaxFaults /\ faults' = faults + 1

Others(s) == {t \in Socket \ {s} : Owner[t] = Owner[s]}

Miss(s) == missed' = missed \cup {Owner[s]}
-----------------------------------------------------------------------------
(* The handler websocket_endpoint.                                         *)

\* The handshake is accepted and the socket registered on its node.
Connect(s) ==
  /\ stage[s] = "none" /\ s \notin active
  /\ Goto(s, "sadd")
  /\ up' = up \cup {s} /\ active' = active \cup {s}
  /\ UNCHANGED <<online, events, history, faults>>

\* track_user_connected
SAdd(s) ==
  /\ stage[s] = "sadd" /\ Goto(s, "announce")
  /\ online' = online \cup {Owner[s]}
  /\ shaken' = IF \E t \in Others(s) : stage[t] = "srem"
               THEN shaken \cup {s} ELSE shaken \ {s}
  /\ UNCHANGED <<up, active, events, missed, leaked, faults>>

\* ... and its event; the SMEMBERS after it answers nobody.
Announce(s) ==
  /\ stage[s] = "announce" /\ Goto(s, "open")
  /\ Publish(Owner[s], TRUE)
  /\ UNCHANGED <<online, up, active, listener, view, history, faults>>

\* The client closes the socket or its connection breaks.
Close(s) ==
  /\ s \in up /\ up' = up \ {s}
  /\ UNCHANGED <<online, stage, active, events, history, faults>>

\* Variant: the socket is not taken off the node's register.
LeaveRegistered(s) ==
  /\ stage[s] = "open" /\ s \notin up
  /\ Goto(s, "srem") /\ shaken' = shaken \cup Others(s)
  /\ UNCHANGED <<online, up, active, events, missed, leaked, faults>>

\* WebSocketDisconnect: the finally block takes the socket off the node.
Leave(s) ==
  /\ stage[s] = "open" /\ s \notin up
  /\ active' = active \ {s} /\ Goto(s, "srem")
  /\ shaken' = shaken \cup Others(s)
  /\ UNCHANGED <<online, up, events, missed, leaked, faults>>

\* Variant: a user stays in the set until the node's next clean-up.
SRemSkipped(s) ==
  /\ stage[s] = "srem" /\ Goto(s, "farewell")
  /\ UNCHANGED <<online, up, active, events, history, faults>>

\* track_user_disconnected
SRem(s) ==
  /\ stage[s] = "srem" /\ Goto(s, "farewell")
  /\ online' = online \ {Owner[s]}
  /\ UNCHANGED <<up, active, events, history, faults>>

\* Variant: no event is published.
FarewellSilent(s) ==
  /\ stage[s] = "farewell" /\ Goto(s, "none") /\ up' = up \ {s}
  /\ UNCHANGED <<online, active, events, history, faults>>

\* Variant: the user is taken off the set only with the event.
FarewellRemoves(s) ==
  /\ stage[s] = "farewell" /\ Goto(s, "none") /\ up' = up \ {s}
  /\ online' = online \ {Owner[s]}
  /\ Publish(Owner[s], FALSE)
  /\ UNCHANGED <<active, listener, view, history, faults>>

\* ... and its event; the handler ends.
Farewell(s) ==
  /\ stage[s] = "farewell" /\ Goto(s, "none") /\ up' = up \ {s}
  /\ Publish(Owner[s], FALSE)
  /\ UNCHANGED <<online, active, listener, view, history, faults>>
-----------------------------------------------------------------------------
(* Failures of a handler.                                                  *)

\* A command of track_user_connected raises, applied or not: no try block
\* is entered yet, so nothing is undone.
SetupError(s) ==
  /\ Fault /\ Goto(s, "none") /\ up' = up \ {s}
  /\ leaked' = leaked \cup ({s} \cap active) /\ Miss(s)
  /\ \/ /\ stage[s] = "sadd" /\ UNCHANGED <<channel, unheard>>
        /\ online' = online \/ online' = online \cup {Owner[s]}
     \/ /\ stage[s] = "announce" /\ UNCHANGED online
        /\ UNCHANGED <<channel, unheard>> \/ Publish(Owner[s], TRUE)
  /\ UNCHANGED <<active, shaken, listener, view>>

\* The receive loop raises: the finally block runs all the same.
LoopError(s) ==
  /\ Fault /\ stage[s] = "open" /\ s \in up
  /\ active' = active \ {s} /\ Goto(s, "srem")
  /\ shaken' = shaken \cup Others(s)
  /\ UNCHANGED <<online, up, events, missed, leaked>>

\* A command of the finally block raises: the rest of it is skipped.
TeardownError(s) ==
  /\ Fault /\ Goto(s, "none") /\ up' = up \ {s} /\ Miss(s)
  /\ \/ /\ stage[s] = "srem" /\ UNCHANGED <<channel, unheard>>
        /\ online' = online \/ online' = online \ {Owner[s]}
     \/ /\ stage[s] = "farewell" /\ UNCHANGED online
        /\ UNCHANGED <<channel, unheard>> \/ Publish(Owner[s], FALSE)
  /\ UNCHANGED <<active, leaked, shaken, listener, view>>

\* A node crashes, a SADD or SREM on its way, and is started again.
Crash(n) ==
  LET lost == {s \in Socket : Host[s] = n}
      busy == {s \in lost : stage[s] # "none"}
      Sent(command) == {Owner[s] : s \in {s \in busy : stage[s] = command}}
  IN
  /\ Fault
  /\ stage' = [s \in Socket |-> IF s \in lost THEN "none" ELSE stage[s]]
  /\ up' = up \ lost /\ active' = active \ lost /\ leaked' = leaked \ lost
  /\ \E added \in SUBSET Sent("sadd"), removed \in SUBSET Sent("srem") :
       online' = (online \ removed) \cup added
  /\ missed' = missed \cup {Owner[s] : s \in busy}
  /\ unheard' = [s \in Roster |-> IF s \in lost
       THEN unheard[s] \cup {channel[n][i].user : i \in 1 .. Len(channel[n])}
       ELSE unheard[s]]
  /\ channel' = [channel EXCEPT ![n] = <<>>]
  /\ listener' = [listener EXCEPT ![n] = "listening"]
  /\ UNCHANGED <<view, shaken>>
-----------------------------------------------------------------------------
(* RedisPubSubListener and ConnectionManager.broadcast_local.              *)

\* The page applies the event, if the socket is registered and still there.
Deliver(n) ==
  LET event == Head(channel[n])
      local == {s \in Roster \cap active : Host[s] = n}
      Applied(users) == IF event.online THEN users \cup {event.user}
                                        ELSE users \ {event.user}
  IN
  /\ Hears(n) /\ channel[n] # <<>>
  /\ channel' = [channel EXCEPT ![n] = Tail(@)]
  /\ view' = [s \in Roster |->
       IF s \in local \cap up THEN Applied(view[s]) ELSE view[s]]
  /\ unheard' = [s \in Roster |->
       IF s \in local \cap up THEN unheard[s] \ {event.user}
       ELSE IF Host[s] = n THEN unheard[s] \cup {event.user} ELSE unheard[s]]
  \* A send to a client that is gone may raise: the socket is purged.
  /\ \E dead \in SUBSET (local \ up) :
       active' = active \ dead /\ leaked' = leaked \ dead
  /\ UNCHANGED <<online, stage, up, listener, missed, shaken, faults>>

\* The subscription breaks; what was published to it is gone.
ListenerError(n) ==
  /\ Fault /\ Hears(n)
  /\ listener' = [listener EXCEPT ![n] = "cooldown"]
  /\ channel' = [channel EXCEPT ![n] = <<>>]
  /\ unheard' = [s \in Roster |-> IF Host[s] = n
       THEN unheard[s] \cup {channel[n][i].user : i \in 1 .. Len(channel[n])}
       ELSE unheard[s]]
  /\ UNCHANGED <<online, handlers, view, history>>

Resubscribe(n) ==
  /\ listener[n] = "cooldown"
  /\ listener' = [listener EXCEPT ![n] = "listening"]
  /\ UNCHANGED <<online, handlers, channel, view, unheard, history, faults>>

\* Redis is not back yet: psubscribe is outside the try block, so the task
\* ends for good.
ResubscribeError(n) ==
  /\ listener[n] = "cooldown"
  /\ listener' = [listener EXCEPT ![n] = "ended"]
  /\ UNCHANGED <<online, handlers, channel, view, unheard, history, faults>>
-----------------------------------------------------------------------------
Handler(s) ==
  \/ Connect(s) \/ SAdd(s) \/ Announce(s)
  \/ Leave(s) \/ SRem(s) \/ Farewell(s)

HandlerError(s) == SetupError(s) \/ LoopError(s) \/ TeardownError(s)

Listener(n) ==
  Deliver(n) \/ ListenerError(n) \/ Resubscribe(n) \/ ResubscribeError(n)

Next ==
  \/ \E s \in Socket : Handler(s) \/ HandlerError(s) \/ Close(s)
  \/ \E n \in Node : Listener(n) \/ Crash(n)

Spec == Init /\ [][Next]_vars
-----------------------------------------------------------------------------
TypeOK ==
  /\ online \subseteq User
  /\ stage \in [Socket -> Stage]
  /\ up \subseteq {s \in Socket : stage[s] # "none"} /\ active \subseteq Socket
  /\ channel \in [Node -> Seq(Event)]
  /\ \A n \in Node : Len(channel[n]) <= MaxPending
  /\ \A n \in Node : ~ Hears(n) => channel[n] = <<>>
  /\ listener \in [Node -> {"listening", "cooldown", "ended"}]
  /\ view \in [Roster -> SUBSET User] /\ unheard \in [Roster -> SUBSET User]
  /\ missed \subseteq User /\ leaked \subseteq active /\ shaken \subseteq Socket
  /\ faults \in 0 .. MaxFaults

\* No handler of the user is past its SADD.
Gone(u) ==
  \A s \in Socket : Owner[s] = u => stage[s] \in {"none", "sadd"}

\* However the connects and disconnects of a user's sockets interleave on
\* the nodes, the user is offline when the last of them is over, unless a
\* failure or a crash cut one of them short.
GoneMeansOffline == \A u \in User \ missed : Gone(u) => u \notin online

\* And no page believes otherwise, once it has been told the last event.
RosterForgetsGone ==
  \A u \in User \ missed, s \in Roster :
    Gone(u) /\ u \notin unheard[s]
      /\ (\A i \in 1 .. Len(channel[Host[s]]) : channel[Host[s]][i].user # u)
    => u \notin view[s]

\* A node registers exactly the sockets with a handler in its receive loop
\* or before it: a client that is there gets the broadcasts, and a closed
\* socket is kept only if its handler failed before the loop, until a
\* broadcast purges it.
RegisterIsExact ==
  \A s \in Socket :
    /\ s \in up /\ stage[s] \in {"sadd", "announce", "open"} => s \in active
    /\ s \in active => stage[s] \in {"sadd", "announce", "open"} \/ s \in leaked

\* README: Redis holds the "active user presence sets".  A user whose handler
\* is at work is in the set, unless since its SADD another socket of the user
\* has begun to close, or one was at it then: the set counts no sockets.
ConnectedMeansOnline ==
  \A s \in Socket :
    stage[s] \in {"announce", "open"} /\ s \notin shaken => Owner[s] \in online
=============================================================================
