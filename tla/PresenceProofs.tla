--------------------------- MODULE PresenceProofs ---------------------------
(***************************************************************************)
(* Proofs about Presence: types and the register, the set of online users, *)
(* and what the pages are told.                                            *)
(***************************************************************************)
EXTENDS Presence, TLAPS

\* A socket leaked by its handler is off every handler's hands.
TypeInv ==
  /\ TypeOK /\ RegisterIsExact
  /\ \A s \in leaked : stage[s] = "none"

LEMMA InitType == Init => TypeInv
BY PresenceAssumption DEF Init, TypeInv, TypeOK, RegisterIsExact, Stage, Hears

\* What a PUBLISH leaves of the channels and of what the pages know.
LEMMA PublishType ==
  ASSUME TypeOK, NEW u \in User, NEW on \in BOOLEAN, Publish(u, on)
  PROVE  /\ channel' \in [Node -> Seq(Event)]
         /\ \A n \in Node : Len(channel'[n]) <= MaxPending
         /\ \A n \in Node : ~ Hears(n) => channel'[n] = <<>>
         /\ unheard' \in [Roster -> SUBSET User]
<1> DEFINE event == [user |-> u, online |-> on]
<1>1. event \in Event
  BY DEF Event
<1>2. \A n \in Node : channel'[n] = IF Hears(n) THEN Append(channel[n], event) ELSE channel[n]
  BY DEF Publish
<1> HIDE DEF event
<1>3. ASSUME NEW n \in Node
      PROVE  /\ channel'[n] \in Seq(Event) /\ Len(channel'[n]) <= MaxPending
             /\ ~ Hears(n) => channel'[n] = <<>>
  <2>1. channel[n] \in Seq(Event) /\ Len(channel[n]) <= MaxPending
    BY DEF TypeOK
  <2>2. CASE Hears(n)
    <3>1. channel'[n] = Append(channel[n], event) /\ Len(channel[n]) < MaxPending
      BY <1>2, <2>2 DEF Publish
    <3> QED BY <1>1, <2>1, <2>2, <3>1, PresenceAssumption
  <2>3. CASE ~ Hears(n)
    BY <1>2, <2>1, <2>3 DEF TypeOK
  <2> QED BY <2>2, <2>3
<1>4. channel' \in [Node -> Seq(Event)]
  BY <1>3 DEF Publish
<1>5. unheard' \in [Roster -> SUBSET User]
  BY DEF Publish, TypeOK
<1> QED BY <1>3, <1>4, <1>5

LEMMA FaultType == TypeOK /\ Fault => faults' \in 0 .. MaxFaults
BY PresenceAssumption DEF TypeOK, Fault

\* A handler's own step keeps the register exact.
LEMMA HandlerType ==
  ASSUME TypeInv, NEW s \in Socket, Handler(s) \/ HandlerError(s) \/ Close(s)
  PROVE  TypeInv'
<1> USE DEF TypeInv, RegisterIsExact, handlers, events, history, Stage
<1>1. Owner[s] \in User
  BY PresenceAssumption
<1>2. CASE Connect(s)
  BY <1>2 DEF Connect, Goto, TypeOK, Hears
<1>3. CASE SAdd(s)
  BY <1>1, <1>3 DEF SAdd, Goto, TypeOK, Hears
<1>4. CASE Announce(s)
  BY <1>1, <1>4, PublishType DEF Announce, Goto, TypeOK, Hears
<1>5. CASE Leave(s)
  BY <1>5 DEF Leave, Goto, Others, TypeOK, Hears
<1>6. CASE SRem(s)
  BY <1>6 DEF SRem, Goto, TypeOK, Hears
<1>7. CASE Farewell(s)
  BY <1>1, <1>7, PublishType DEF Farewell, Goto, TypeOK, Hears
<1>8. CASE Close(s)
  BY <1>8 DEF Close, TypeOK, Hears
<1>9. CASE SetupError(s)
  <2>1. UNCHANGED <<channel, unheard>> \/ Publish(Owner[s], TRUE)
    BY <1>9 DEF SetupError
  <2>2. /\ channel' \in [Node -> Seq(Event)]
        /\ \A n \in Node : Len(channel'[n]) <= MaxPending
        /\ \A n \in Node : ~ Hears(n) => channel'[n] = <<>>
        /\ unheard' \in [Roster -> SUBSET User]
    BY <1>1, <2>1, PublishType DEF TypeOK
  <2>3. online' \subseteq User /\ missed' \subseteq User
    BY <1>1, <1>9 DEF SetupError, Miss, TypeOK
  <2>4. faults' \in 0 .. MaxFaults
    BY <1>9, FaultType DEF SetupError
  <2>5. stage[s] \in {"sadd", "announce"}
    BY <1>9 DEF SetupError
  <2> QED BY <1>9, <2>2, <2>3, <2>4, <2>5 DEF SetupError, Goto, TypeOK, Hears
<1>10. CASE LoopError(s)
  <2>1. faults' \in 0 .. MaxFaults
    BY <1>10, FaultType DEF LoopError
  <2> QED BY <1>10, <2>1 DEF LoopError, Goto, Others, TypeOK, Hears
<1>11. CASE TeardownError(s)
  <2>1. UNCHANGED <<channel, unheard>> \/ Publish(Owner[s], FALSE)
    BY <1>11 DEF TeardownError
  <2>2. /\ channel' \in [Node -> Seq(Event)]
        /\ \A n \in Node : Len(channel'[n]) <= MaxPending
        /\ \A n \in Node : ~ Hears(n) => channel'[n] = <<>>
        /\ unheard' \in [Roster -> SUBSET User]
    BY <1>1, <2>1, PublishType DEF TypeOK
  <2>3. online' \subseteq User /\ missed' \subseteq User
    BY <1>1, <1>11 DEF TeardownError, Miss, TypeOK
  <2>4. faults' \in 0 .. MaxFaults
    BY <1>11, FaultType DEF TeardownError
  <2>5. stage[s] \in {"srem", "farewell"}
    BY <1>11 DEF TeardownError
  <2> QED BY <1>11, <2>2, <2>3, <2>4, <2>5 DEF TeardownError, Goto, TypeOK, Hears
<1> QED BY <1>2, <1>3, <1>4, <1>5, <1>6, <1>7, <1>8, <1>9, <1>10, <1>11
        DEF Handler, HandlerError

LEMMA QueueType ==
  ASSUME NEW q \in Seq(Event)
  PROVE  /\ \A i \in 1 .. Len(q) : q[i].user \in User /\ q[i].online \in BOOLEAN
         /\ q # <<>> => /\ Tail(q) \in Seq(Event) /\ Len(Tail(q)) = Len(q) - 1
                       /\ Head(q) = q[1] /\ 1 \in 1 .. Len(q) /\ Len(q) \in Nat
                       /\ \A i \in 1 .. Len(q) - 1 : Tail(q)[i] = q[i + 1]
<1>1. \A i \in 1 .. Len(q) : q[i] \in Event
  OBVIOUS
<1>2. \A i \in 1 .. Len(q) : q[i].user \in User /\ q[i].online \in BOOLEAN
  BY <1>1 DEF Event
<1> HIDE DEF Event
<1>3. ASSUME q # <<>>
      PROVE  /\ Tail(q) \in Seq(Event) /\ Len(Tail(q)) = Len(q) - 1
             /\ Head(q) = q[1] /\ 1 \in 1 .. Len(q) /\ Len(q) \in Nat
             /\ \A i \in 1 .. Len(q) - 1 : Tail(q)[i] = q[i + 1]
  BY <1>3
<1> QED BY <1>2, <1>3

LEMMA NodeType ==
  ASSUME TypeInv, NEW n \in Node, Listener(n) \/ Crash(n)
  PROVE  TypeInv'
<1> USE DEF TypeInv, RegisterIsExact, handlers, events, history, Stage, Hears
<1>1. channel[n] \in Seq(Event)
  BY DEF TypeOK
<1>2. \A i \in 1 .. Len(channel[n]) : channel[n][i].user \in User
  BY <1>1, QueueType
<1>3. channel' = [channel EXCEPT ![n] = <<>>] =>
        /\ channel' \in [Node -> Seq(Event)]
        /\ \A m \in Node : Len(channel'[m]) <= MaxPending
  <2>1. <<>> \in Seq(Event) /\ Len(<<>>) = 0
    OBVIOUS
  <2> QED BY <2>1, PresenceAssumption DEF TypeOK
<1>4. CASE Deliver(n)
  <2>1. Tail(channel[n]) \in Seq(Event) /\ Len(Tail(channel[n])) <= MaxPending
    <3>1. channel[n] # <<>> /\ Len(channel[n]) <= MaxPending
      BY <1>4 DEF Deliver, TypeOK
    <3> QED BY <1>1, <3>1, QueueType, PresenceAssumption
  <2>2. Head(channel[n]).user \in User
    BY <1>1, <1>4, QueueType DEF Deliver
  <2>3. /\ channel' \in [Node -> Seq(Event)]
        /\ \A m \in Node : Len(channel'[m]) <= MaxPending
        /\ \A m \in Node : ~ Hears(m) => channel'[m] = <<>>
    BY <1>4, <2>1 DEF Deliver, TypeOK
  <2>4. view' \in [Roster -> SUBSET User] /\ unheard' \in [Roster -> SUBSET User]
    BY <1>4, <2>2 DEF Deliver, TypeOK
  <2>5. PICK dead \in SUBSET (({s \in Roster \cap active : Host[s] = n}) \ up) :
          active' = active \ dead /\ leaked' = leaked \ dead
    BY <1>4 DEF Deliver
  <2>6. UNCHANGED <<online, stage, up, listener, missed, shaken, faults>>
    BY <1>4 DEF Deliver
  <2>7. TypeOK'
    BY <2>3, <2>4, <2>5, <2>6 DEF TypeOK
  <2> QED BY <2>5, <2>6, <2>7
<1>5. CASE ListenerError(n)
  <2>1. unheard' \in [Roster -> SUBSET User]
    BY <1>2, <1>5 DEF ListenerError, TypeOK
  <2>2. faults' \in 0 .. MaxFaults
    BY <1>5, FaultType DEF ListenerError
  <2> QED BY <1>3, <1>5, <2>1, <2>2 DEF ListenerError, TypeOK
<1>6. CASE Resubscribe(n)
  BY <1>6 DEF Resubscribe, TypeOK
<1>7. CASE ResubscribeError(n)
  BY <1>7 DEF ResubscribeError, TypeOK
<1>8. CASE Crash(n)
  <2>1. unheard' \in [Roster -> SUBSET User]
    BY <1>2, <1>8 DEF Crash, TypeOK
  <2>2. faults' \in 0 .. MaxFaults
    BY <1>8, FaultType DEF Crash
  <2>3. online' \subseteq User /\ missed' \subseteq User
    BY <1>8, PresenceAssumption DEF Crash, TypeOK
  <2>4. \A m \in Node : ~ Hears(m)' => channel'[m] = <<>>
    BY <1>8 DEF Crash, TypeOK
  <2>5. stage' \in [Socket -> Stage]
    BY <1>8 DEF Crash, TypeOK
  <2>6. TypeOK'
    BY <1>3, <1>8, <2>1, <2>2, <2>3, <2>4, <2>5 DEF Crash, TypeOK
  <2> QED BY <1>8, <2>6 DEF Crash, TypeOK
<1> QED BY <1>4, <1>5, <1>6, <1>7, <1>8 DEF Listener

LEMMA NextType == TypeInv /\ [Next]_vars => TypeInv'
<1> SUFFICES ASSUME TypeInv, [Next]_vars PROVE TypeInv'
  OBVIOUS
<1>1. CASE UNCHANGED vars
  BY <1>1 DEF vars, handlers, events, history, TypeInv, TypeOK, RegisterIsExact, Hears
<1> QED BY <1>1, HandlerType, NodeType DEF Next

-----------------------------------------------------------------------------
(* The set of online users.                                                *)

\* Whoever is in the set has a handler past its SADD and before its SREM;
\* and while a socket closes, the others of the user count as shaken.
OnlineInv ==
  /\ \A u \in online \ missed : \E s \in Socket :
       Owner[s] = u /\ stage[s] \in {"announce", "open", "srem"}
  /\ \A t \in Socket : stage[t] = "srem" =>
       \A s \in Others(t) : stage[s] \in {"announce", "open"} => s \in shaken
  /\ ConnectedMeansOnline

LEMMA OnlineStep == TypeInv /\ OnlineInv /\ [Next]_vars => OnlineInv'
<1> SUFFICES ASSUME TypeInv, OnlineInv, [Next]_vars PROVE OnlineInv'
  OBVIOUS
<1> USE PresenceAssumption
    DEF TypeInv, OnlineInv, ConnectedMeansOnline, handlers, events, history, Goto
<1>1. stage \in [Socket -> Stage]
  BY DEF TypeOK
<1>2. CASE UNCHANGED vars
  BY <1>2 DEF vars, Others
<1>3. ASSUME NEW s \in Socket, Connect(s) \/ Announce(s) \/ Farewell(s) \/ Close(s)
      PROVE  OnlineInv'
  <2>1. UNCHANGED <<online, missed, shaken>>
    BY <1>3 DEF Connect, Announce, Farewell, Close
  <2>2. CASE Connect(s)
    BY <1>1, <2>1, <2>2 DEF Connect, Others
  <2>3. CASE Announce(s)
    BY <1>1, <2>1, <2>3 DEF Announce, Others
  <2>4. CASE Farewell(s)
    BY <1>1, <2>1, <2>4 DEF Farewell, Others
  <2>5. CASE Close(s)
    BY <2>1, <2>5 DEF Close, Others
  <2> QED BY <1>3, <2>2, <2>3, <2>4, <2>5
<1>4. ASSUME NEW s \in Socket, SAdd(s) PROVE OnlineInv'
  BY <1>1, <1>4 DEF SAdd, Others
<1>5. ASSUME NEW s \in Socket, Leave(s) \/ LoopError(s) PROVE OnlineInv'
  BY <1>1, <1>5 DEF Leave, LoopError, Others
<1>6. ASSUME NEW s \in Socket, SRem(s) PROVE OnlineInv'
  BY <1>1, <1>6 DEF SRem, Others
<1>7. ASSUME NEW s \in Socket, SetupError(s) PROVE OnlineInv'
  BY <1>1, <1>7 DEF SetupError, Others, Miss
<1>8. ASSUME NEW s \in Socket, TeardownError(s) PROVE OnlineInv'
  BY <1>1, <1>8 DEF TeardownError, Others, Miss
<1>9. ASSUME NEW n \in Node, Listener(n) PROVE OnlineInv'
  <2>1. UNCHANGED <<online, stage, missed, shaken>>
    BY <1>9 DEF Listener, Deliver, ListenerError, Resubscribe, ResubscribeError
  <2> QED BY <2>1 DEF Others
<1>10. ASSUME NEW n \in Node, Crash(n) PROVE OnlineInv'
  <2>1. PICK added \in SUBSET {Owner[s] : s \in {t \in Socket : Host[t] = n /\ stage[t] = "sadd"}},
             removed \in SUBSET {Owner[s] : s \in {t \in Socket : Host[t] = n /\ stage[t] = "srem"}} :
          online' = (online \ removed) \cup added
    BY <1>10 DEF Crash
  <2>2. /\ \A s \in Socket : stage'[s] = IF Host[s] = n THEN "none" ELSE stage[s]
        /\ shaken' = shaken
        /\ missed' = missed \cup {Owner[s] : s \in {t \in Socket : Host[t] = n /\ stage[t] # "none"}}
    BY <1>1, <1>10 DEF Crash
  <2>3. added \subseteq missed' /\ removed \subseteq missed'
    BY <2>1, <2>2
  <2>4. \A u \in online' \ missed' : \E s \in Socket :
          Owner[s] = u /\ stage'[s] \in {"announce", "open", "srem"}
    BY <2>1, <2>2, <2>3
  <2>5. \A t \in Socket : stage'[t] = "srem" =>
          \A s \in Others(t) : stage'[s] \in {"announce", "open"} => s \in shaken'
    BY <2>2 DEF Others
  <2>6. \A s \in Socket :
          stage'[s] \in {"announce", "open"} /\ s \notin shaken' => Owner[s] \in online'
    BY <2>1, <2>2 DEF Others
  <2> QED BY <2>4, <2>5, <2>6 DEF Others
<1> QED BY <1>2, <1>3, <1>4, <1>5, <1>6, <1>7, <1>8, <1>9, <1>10
        DEF Next, Handler, HandlerError

-----------------------------------------------------------------------------
(* What the pages are told: the last event about a user who is gone, for   *)
(* as long as it is on its way to a node, says so.                         *)

LastSaysGone(q, u) ==
  \A i \in 1 .. Len(q) :
    q[i].user = u /\ (\A j \in i + 1 .. Len(q) : q[j].user # u) => ~ q[i].online

RosterInv ==
  /\ \A u \in User \ missed, n \in Node : Gone(u) => LastSaysGone(channel[n], u)
  /\ RosterForgetsGone

LEMMA Appended ==
  ASSUME NEW q \in Seq(Event), NEW event \in Event
  PROVE  /\ \A u : u # event.user /\ LastSaysGone(q, u) => LastSaysGone(Append(q, event), u)
         /\ ~ event.online => LastSaysGone(Append(q, event), event.user)
         /\ \A u : (\A i \in 1 .. Len(Append(q, event)) : Append(q, event)[i].user # u)
                => u # event.user /\ \A i \in 1 .. Len(q) : q[i].user # u
<1> DEFINE r == Append(q, event)
<1>1. /\ Len(q) \in Nat /\ Len(r) = Len(q) + 1 /\ r[Len(q) + 1] = event
      /\ \A i \in 1 .. Len(q) : r[i] = q[i]
  OBVIOUS
<1> HIDE DEF r, Event
<1>2. ASSUME NEW u, u # event.user, LastSaysGone(q, u) PROVE LastSaysGone(r, u)
  <2> SUFFICES ASSUME NEW i \in 1 .. Len(r), r[i].user = u,
                      \A j \in i + 1 .. Len(r) : r[j].user # u
               PROVE  ~ r[i].online
    BY DEF LastSaysGone
  <2>1. i \in 1 .. Len(q) /\ r[i] = q[i]
    BY <1>1, <1>2
  <2>2. \A j \in i + 1 .. Len(q) : q[j].user # u
    BY <1>1, <2>1
  <2> QED BY <1>2, <2>1, <2>2 DEF LastSaysGone
<1>3. ASSUME ~ event.online PROVE LastSaysGone(r, event.user)
  <2> SUFFICES ASSUME NEW i \in 1 .. Len(r), r[i].user = event.user,
                      \A j \in i + 1 .. Len(r) : r[j].user # event.user
               PROVE  ~ r[i].online
    BY DEF LastSaysGone
  <2>1. CASE i = Len(q) + 1
    BY <1>1, <1>3, <2>1
  <2>2. CASE i # Len(q) + 1
    BY <1>1, <2>2
  <2> QED BY <2>1, <2>2
<1>4. ASSUME NEW u, \A i \in 1 .. Len(r) : r[i].user # u
      PROVE  u # event.user /\ \A i \in 1 .. Len(q) : q[i].user # u
  BY <1>1, <1>4
<1> QED BY <1>2, <1>3, <1>4 DEF r

\* An event about others changes nothing for u; one that takes u offline is
\* the last about u wherever it is heard.
LEMMA PublishRoster ==
  ASSUME TypeOK, NEW v \in User, NEW on \in BOOLEAN, Publish(v, on), NEW u \in User
  PROVE  /\ u # v \/ ~ on =>
              \A n \in Node : /\ u # v \/ Hears(n)
                              /\ LastSaysGone(channel[n], u) \/ u = v
                              => LastSaysGone(channel'[n], u)
         /\ \A n \in Node : ~ Hears(n) => channel'[n] = <<>>
         /\ \A s \in Roster :
              u \notin unheard'[s]
                /\ (\A i \in 1 .. Len(channel'[Host[s]]) : channel'[Host[s]][i].user # u)
              => /\ u # v /\ u \notin unheard[s]
                 /\ \A i \in 1 .. Len(channel[Host[s]]) : channel[Host[s]][i].user # u
<1> DEFINE event == [user |-> v, online |-> on]
<1>1. event \in Event /\ event.user = v /\ event.online = on
  BY DEF Event
<1>2. \A n \in Node : /\ channel[n] \in Seq(Event)
                      /\ Hears(n) => channel'[n] = Append(channel[n], event)
                      /\ ~ Hears(n) => channel'[n] = channel[n] /\ channel[n] = <<>>
  BY DEF Publish, TypeOK
<1>3. \A s \in Roster : unheard'[s] = IF Hears(Host[s]) THEN unheard[s] ELSE unheard[s] \cup {v}
  BY DEF Publish, TypeOK
<1> HIDE DEF event, Event
<1>4. ASSUME u # v \/ ~ on, NEW n \in Node, u # v \/ Hears(n),
             LastSaysGone(channel[n], u) \/ u = v
      PROVE  LastSaysGone(channel'[n], u)
  <2>1. CASE Hears(n)
    <3>1. channel[n] \in Seq(Event) /\ channel'[n] = Append(channel[n], event)
      BY <1>2, <2>1
    <3>2. CASE u # v
      BY <1>1, <1>4, <3>1, <3>2, Appended
    <3>3. CASE u = v
      <4>1. LastSaysGone(Append(channel[n], event), event.user)
        BY <1>1, <1>4, <3>1, <3>3, Appended
      <4> QED BY <1>1, <3>1, <3>3, <4>1
    <3> QED BY <3>2, <3>3
  <2>2. CASE ~ Hears(n)
    BY <1>2, <1>4, <2>2
  <2> QED BY <2>1, <2>2
<1>5. ASSUME NEW s \in Roster, u \notin unheard'[s],
             \A i \in 1 .. Len(channel'[Host[s]]) : channel'[Host[s]][i].user # u
      PROVE  /\ u # v /\ u \notin unheard[s]
             /\ \A i \in 1 .. Len(channel[Host[s]]) : channel[Host[s]][i].user # u
  <2>1. Host[s] \in Node
    BY PresenceAssumption
  <2>2. CASE Hears(Host[s])
    <3>1. /\ channel[Host[s]] \in Seq(Event)
          /\ channel'[Host[s]] = Append(channel[Host[s]], event)
      BY <1>2, <2>1, <2>2
    <3>2. \A i \in 1 .. Len(Append(channel[Host[s]], event)) :
            Append(channel[Host[s]], event)[i].user # u
      BY <1>5, <3>1
    <3>3. u # event.user /\ \A i \in 1 .. Len(channel[Host[s]]) : channel[Host[s]][i].user # u
      BY <1>1, <3>1, <3>2, Appended
    <3> QED BY <1>1, <1>3, <1>5, <2>2, <3>3
  <2>3. CASE ~ Hears(Host[s])
    BY <1>2, <1>3, <1>5, <2>1, <2>3
  <2> QED BY <2>2, <2>3
<1> QED BY <1>2, <1>4, <1>5

LEMMA RosterStep == TypeInv /\ RosterInv /\ [Next]_vars => RosterInv'
<1> SUFFICES ASSUME TypeInv, RosterInv, [Next]_vars PROVE RosterInv'
  OBVIOUS
<1> USE DEF handlers, events, history
<1>1. stage \in [Socket -> Stage] /\ Owner \in [Socket -> User] /\ TypeOK
  BY PresenceAssumption DEF TypeInv, TypeOK
\* The handler's next place, if it publishes nothing.
<1>2. ASSUME UNCHANGED <<channel, view, unheard>>,
             \A u \in User \ missed' : Gone(u)' => u \notin missed /\ Gone(u)
      PROVE  RosterInv'
  BY <1>2 DEF RosterInv, RosterForgetsGone, LastSaysGone
\* It publishes, and stays or becomes a connected one's, or is done for good.
<1>3. ASSUME NEW s \in Socket, NEW on \in BOOLEAN, Publish(Owner[s], on), UNCHANGED view,
             \A u \in User \ missed' : Gone(u)' =>
               /\ u \notin missed /\ (u # Owner[s] => Gone(u)) /\ (u = Owner[s] => ~ on)
      PROVE  RosterInv'
  <2> DEFINE v == Owner[s]
  <2>1. v \in User
    BY <1>1
  <2> HIDE DEF v
  <2>2. Publish(v, on)
    BY <1>3 DEF v
  <2>3. ASSUME NEW u \in User \ missed', Gone(u)'
        PROVE  u \in User \ missed /\ (u # v => Gone(u)) /\ (u = v => ~ on)
    BY <1>3, <2>3 DEF v
  <2>4. ASSUME NEW u \in User \ missed', NEW n \in Node, Gone(u)'
        PROVE  LastSaysGone(channel'[n], u)
    <3>1. CASE ~ Hears(n)
      <4>1. channel'[n] = <<>>
        BY <1>1, <2>1, <2>2, <3>1, PublishRoster
      <4> QED BY <4>1 DEF LastSaysGone
    <3>2. CASE Hears(n)
      <4>1. LastSaysGone(channel[n], u) \/ u = v
        BY <2>3, <2>4 DEF RosterInv
      <4> QED BY <1>1, <2>1, <2>2, <2>3, <2>4, <3>2, <4>1, PublishRoster
    <3> QED BY <3>1, <3>2
  <2>5. ASSUME NEW u \in User \ missed', NEW t \in Roster, Gone(u)', u \notin unheard'[t],
               \A i \in 1 .. Len(channel'[Host[t]]) : channel'[Host[t]][i].user # u
        PROVE  u \notin view'[t]
    <3>1. /\ u # v /\ u \notin unheard[t]
          /\ \A i \in 1 .. Len(channel[Host[t]]) : channel[Host[t]][i].user # u
      BY <1>1, <2>1, <2>2, <2>5, PublishRoster
    <3>2. Gone(u) /\ u \in User \ missed
      BY <2>3, <2>5, <3>1
    <3> QED BY <1>3, <3>1, <3>2 DEF RosterInv, RosterForgetsGone
  <2> QED BY <2>4, <2>5 DEF RosterInv, RosterForgetsGone
<1>4. CASE UNCHANGED vars
  BY <1>2, <1>4 DEF vars, Gone
<1>5. ASSUME NEW s \in Socket,
             Connect(s) \/ SAdd(s) \/ Leave(s) \/ SRem(s) \/ Close(s) \/ LoopError(s)
      PROVE  RosterInv'
  <2>1. UNCHANGED <<channel, view, unheard, missed>>
    BY <1>5 DEF Connect, SAdd, Leave, SRem, Close, LoopError
  <2>2. \A t \in Socket : stage'[t] \in {"none", "sadd"} => stage[t] \in {"none", "sadd"}
    BY <1>1, <1>5 DEF Connect, SAdd, Leave, SRem, Close, LoopError, Goto
  <2> QED BY <1>2, <2>1, <2>2 DEF Gone
<1>6. ASSUME NEW s \in Socket, Announce(s) PROVE RosterInv'
  <2>1. Publish(Owner[s], TRUE) /\ UNCHANGED <<view, missed>>
    BY <1>6 DEF Announce
  <2>2. \A t \in Socket : stage'[t] = IF t = s THEN "open" ELSE stage[t]
    BY <1>1, <1>6 DEF Announce, Goto
  <2>3. \A u \in User : Gone(u)' => u # Owner[s] /\ Gone(u)
    BY <2>2 DEF Gone
  <2> QED BY <1>3, <2>1, <2>3
<1>7. ASSUME NEW s \in Socket, Farewell(s) PROVE RosterInv'
  <2>1. Publish(Owner[s], FALSE) /\ UNCHANGED <<view, missed>>
    BY <1>7 DEF Farewell
  <2>2. \A t \in Socket : stage'[t] = IF t = s THEN "none" ELSE stage[t]
    BY <1>1, <1>7 DEF Farewell, Goto
  <2>3. \A u \in User : Gone(u)' /\ u # Owner[s] => Gone(u)
    BY <2>2 DEF Gone
  <2> QED BY <1>3, <2>1, <2>3
<1>8. ASSUME NEW s \in Socket, SetupError(s) \/ TeardownError(s) PROVE RosterInv'
  <2>1. missed' = missed \cup {Owner[s]} /\ UNCHANGED view
    BY <1>8 DEF SetupError, TeardownError, Miss
  <2>2. \A t \in Socket : t # s => stage'[t] = stage[t]
    BY <1>1, <1>8 DEF SetupError, TeardownError, Goto
  <2>3. \A u \in User \ missed' : Gone(u)' => u \notin missed /\ u # Owner[s] /\ Gone(u)
    BY <2>1, <2>2 DEF Gone
  <2>4. \/ UNCHANGED <<channel, unheard>>
        \/ Publish(Owner[s], TRUE) \/ Publish(Owner[s], FALSE)
    BY <1>8 DEF SetupError, TeardownError
  <2> QED BY <1>2, <1>3, <2>1, <2>3, <2>4
\* The channel of a node is lost: its sockets have not heard of what it held.
<1>9. ASSUME NEW n \in Node, channel' = [channel EXCEPT ![n] = <<>>], UNCHANGED view,
             \A s \in Roster : unheard'[s] = IF Host[s] = n
               THEN unheard[s] \cup {channel[n][i].user : i \in 1 .. Len(channel[n])}
               ELSE unheard[s],
             \A u \in User \ missed' : Gone(u)' => u \notin missed /\ Gone(u)
      PROVE  RosterInv'
  <2>1. \A m \in Node : channel'[m] = IF m = n THEN <<>> ELSE channel[m]
    BY <1>1, <1>9 DEF TypeOK
  <2>2. ASSUME NEW u \in User \ missed', NEW m \in Node, Gone(u)'
        PROVE  LastSaysGone(channel'[m], u)
    BY <1>9, <2>1, <2>2 DEF RosterInv, LastSaysGone
  <2>3. ASSUME NEW u \in User \ missed', NEW t \in Roster, Gone(u)', u \notin unheard'[t],
               \A i \in 1 .. Len(channel'[Host[t]]) : channel'[Host[t]][i].user # u
        PROVE  u \notin view'[t]
    <3>1. Host[t] \in Node
      BY PresenceAssumption
    <3>2. /\ u \notin unheard[t]
          /\ \A i \in 1 .. Len(channel[Host[t]]) : channel[Host[t]][i].user # u
      <4>1. CASE Host[t] = n
        <5>1. /\ u \notin unheard[t]
              /\ u \notin {channel[n][i].user : i \in 1 .. Len(channel[n])}
          BY <1>9, <2>3, <4>1
        <5> QED BY <4>1, <5>1
      <4>2. CASE Host[t] # n
        <5>1. unheard'[t] = unheard[t] /\ channel'[Host[t]] = channel[Host[t]]
          BY <1>9, <2>1, <3>1, <4>2
        <5> QED BY <2>3, <5>1
      <4> QED BY <4>1, <4>2
    <3> QED BY <1>9, <2>3, <3>2 DEF RosterInv, RosterForgetsGone
  <2> QED BY <2>2, <2>3 DEF RosterInv, RosterForgetsGone
<1>10. ASSUME NEW n \in Node, ListenerError(n) PROVE RosterInv'
  <2>1. \A s \in Roster : unheard'[s] = IF Host[s] = n
          THEN unheard[s] \cup {channel[n][i].user : i \in 1 .. Len(channel[n])}
          ELSE unheard[s]
    BY <1>10 DEF ListenerError
  <2> QED BY <1>9, <1>10, <2>1 DEF ListenerError, Gone
<1>11. ASSUME NEW n \in Node, Crash(n) PROVE RosterInv'
  <2>1. \A s \in Roster : unheard'[s] = IF Host[s] = n
          THEN unheard[s] \cup {channel[n][i].user : i \in 1 .. Len(channel[n])}
          ELSE unheard[s]
    BY <1>11, PresenceAssumption DEF Crash
  <2>2. /\ \A t \in Socket : stage'[t] = IF Host[t] = n THEN "none" ELSE stage[t]
        /\ missed' = missed \cup {Owner[t] : t \in {x \in Socket : Host[x] = n /\ stage[x] # "none"}}
    BY <1>11 DEF Crash
  <2>3. \A u \in User \ missed' : Gone(u)' => u \notin missed /\ Gone(u)
    BY <2>2 DEF Gone
  <2>4. channel' = [channel EXCEPT ![n] = <<>>] /\ UNCHANGED view
    BY <1>11 DEF Crash
  <2> QED BY <1>9, <2>1, <2>3, <2>4
<1>12. ASSUME NEW n \in Node, Resubscribe(n) \/ ResubscribeError(n) PROVE RosterInv'
  BY <1>2, <1>12 DEF Resubscribe, ResubscribeError, Gone
\* The first event goes; if it was the last about its user, it took them off
\* the views it reached.
<1>13. ASSUME NEW n \in Node, Deliver(n) PROVE RosterInv'
  <2> DEFINE q == channel[n]
             event == Head(q)
  <2>1. /\ q \in Seq(Event) /\ q # <<>> /\ Len(q) \in Nat
        /\ event = q[1] /\ 1 \in 1 .. Len(q) /\ Len(Tail(q)) = Len(q) - 1
        /\ \A i \in 1 .. Len(q) - 1 : Tail(q)[i] = q[i + 1]
    <3>1. q \in Seq(Event) /\ q # <<>>
      BY <1>1, <1>13 DEF Deliver, TypeOK
    <3> QED BY <3>1, QueueType
  <2>2. /\ \A m \in Node : channel'[m] = IF m = n THEN Tail(q) ELSE channel[m]
        /\ UNCHANGED <<stage, missed>>
    BY <1>1, <1>13 DEF Deliver, TypeOK
  <2>3. \A s \in Roster :
          \/ /\ unheard'[s] = unheard[s] \ {event.user}
             /\ view'[s] = IF event.online THEN view[s] \cup {event.user}
                                           ELSE view[s] \ {event.user}
             /\ Host[s] = n
          \/ /\ unheard'[s] = IF Host[s] = n THEN unheard[s] \cup {event.user} ELSE unheard[s]
             /\ view'[s] = view[s]
    BY <1>13 DEF Deliver
  <2>4. ASSUME NEW u \in User \ missed', NEW m \in Node, Gone(u)'
        PROVE  LastSaysGone(channel'[m], u)
    <3>1. LastSaysGone(channel[m], u)
      BY <2>2, <2>4 DEF RosterInv, Gone
    <3>2. CASE m # n
      BY <2>2, <3>1, <3>2
    <3>3. CASE m = n
      <4> SUFFICES ASSUME NEW i \in 1 .. Len(q) - 1, Tail(q)[i].user = u,
                          \A j \in i + 1 .. Len(q) - 1 : Tail(q)[j].user # u
                   PROVE  ~ Tail(q)[i].online
        BY <2>1, <2>2, <3>3 DEF LastSaysGone
      <4> HIDE DEF event
      <4>1. i + 1 \in 1 .. Len(q) /\ Tail(q)[i] = q[i + 1]
        BY <2>1
      <4>2. ASSUME NEW j \in i + 1 + 1 .. Len(q) PROVE q[j].user # u
        <5>1. j - 1 \in i + 1 .. Len(q) - 1 /\ j - 1 \in 1 .. Len(q) - 1 /\ j - 1 + 1 = j
          BY <2>1
        <5> QED BY <2>1, <5>1
      <4> HIDE DEF q
      <4> QED BY <3>1, <3>3, <4>1, <4>2 DEF LastSaysGone, q
    <3> QED BY <3>2, <3>3
  <2>5. ASSUME NEW u \in User \ missed', NEW t \in Roster, Gone(u)', u \notin unheard'[t],
               \A i \in 1 .. Len(channel'[Host[t]]) : channel'[Host[t]][i].user # u
        PROVE  u \notin view'[t]
    <3>1. Gone(u) /\ u \in User \ missed /\ Host[t] \in Node
      BY <2>2, <2>5, PresenceAssumption DEF Gone
    <3>2. CASE Host[t] # n
      <4>1. channel'[Host[t]] = channel[Host[t]] /\ unheard'[t] = unheard[t] /\ view'[t] = view[t]
        BY <2>2, <2>3, <3>1, <3>2
      <4> QED BY <2>5, <3>1, <4>1 DEF RosterInv, RosterForgetsGone
    <3>3. CASE Host[t] = n
      <4>1. ASSUME NEW j \in 2 .. Len(q) PROVE q[j].user # u
        <5>1. j - 1 \in 1 .. Len(q) - 1 /\ j - 1 + 1 = j
          BY <2>1
        <5>2. Tail(q)[j - 1].user # u
          BY <2>1, <2>2, <2>5, <3>3, <5>1
        <5> QED BY <2>1, <5>1, <5>2
      <4>2. CASE event.user = u
        <5>1. LastSaysGone(q, u)
          BY <3>1, <3>3 DEF RosterInv
        <5>2. ~ event.online
          <6>1. \A j \in 1 + 1 .. Len(q) : q[j].user # u
            BY <4>1
          <6> QED BY <2>1, <4>2, <5>1, <6>1 DEF LastSaysGone
        <5> QED BY <2>3, <2>5, <3>3, <4>2, <5>2
      <4>3. CASE event.user # u
        <5>1. \A i \in 1 .. Len(q) : q[i].user # u
          BY <2>1, <4>1, <4>3
        <5>2. u \notin unheard[t]
          BY <2>3, <2>5, <3>3, <4>3
        <5>3. u \notin view[t]
          BY <3>1, <3>3, <5>1, <5>2 DEF RosterInv, RosterForgetsGone
        <5> QED BY <2>3, <4>3, <5>3
      <4> QED BY <4>2, <4>3
    <3> QED BY <3>2, <3>3
  <2> QED BY <2>4, <2>5 DEF RosterInv, RosterForgetsGone
<1> QED BY <1>4, <1>5, <1>6, <1>7, <1>8, <1>10, <1>11, <1>12, <1>13
        DEF Next, Handler, HandlerError, Listener

-----------------------------------------------------------------------------
PresenceInv == TypeInv /\ OnlineInv /\ RosterInv

LEMMA PresenceInit == Init => PresenceInv
<1> SUFFICES ASSUME Init PROVE PresenceInv
  OBVIOUS
<1>1. OnlineInv
  BY DEF Init, OnlineInv, ConnectedMeansOnline
<1>2. RosterInv
  BY DEF Init, RosterInv, RosterForgetsGone, LastSaysGone
<1> QED BY <1>1, <1>2, InitType DEF PresenceInv

LEMMA PresenceNext == PresenceInv /\ [Next]_vars => PresenceInv'
BY NextType, OnlineStep, RosterStep DEF PresenceInv

\* The variables of Presence keep their types.
THEOREM PresenceTypeCorrect == Spec => []TypeOK
<1>1. PresenceInv => TypeOK
  BY DEF PresenceInv, TypeInv
<1> QED BY <1>1, PresenceInit, PresenceNext, PTL DEF Spec

\* A node's register holds the sockets whose handlers are at work, and no
\* others but those that failed too early.
THEOREM RegisterStaysExact == Spec => []RegisterIsExact
<1>1. PresenceInv => RegisterIsExact
  BY DEF PresenceInv, TypeInv
<1> QED BY <1>1, PresenceInit, PresenceNext, PTL DEF Spec

\* Whatever nodes and sockets there are, nobody is left in the set.
THEOREM NobodyLingers == Spec => []GoneMeansOffline
<1>1. PresenceInv => GoneMeansOffline
  BY DEF PresenceInv, OnlineInv, GoneMeansOffline, Gone
<1> QED BY <1>1, PresenceInit, PresenceNext, PTL DEF Spec

\* The set is only ever short of users another of whose sockets closes.
THEOREM ConnectedStaysOnline == Spec => []ConnectedMeansOnline
<1>1. PresenceInv => ConnectedMeansOnline
  BY DEF PresenceInv, OnlineInv
<1> QED BY <1>1, PresenceInit, PresenceNext, PTL DEF Spec

\* A user comes back only when the handler of the socket before has ended.
OneAtATime ==
  \A s, t \in Socket :
    Owner[s] = Owner[t] /\ stage[s] # "none" /\ stage[t] # "none" => s = t

Steady == \A s \in shaken : stage[s] \in {"none", "sadd"}

LEMMA SteadyStep == TypeInv /\ Steady /\ OneAtATime /\ [Next]_vars => Steady'
<1> SUFFICES ASSUME TypeInv, Steady, OneAtATime, [Next]_vars PROVE Steady'
  OBVIOUS
<1> USE PresenceAssumption DEF Steady, handlers, events, history, Goto
<1>1. stage \in [Socket -> Stage] /\ shaken \subseteq Socket
  BY DEF TypeInv, TypeOK
<1>2. ASSUME NEW s \in Socket, stage[s] # "none", NEW t \in Others(s)
      PROVE  t \in Socket \ {s} /\ stage[t] = "none"
  BY <1>2 DEF Others, OneAtATime
<1>3. CASE UNCHANGED vars
  BY <1>3 DEF vars
<1>4. ASSUME NEW s \in Socket, Connect(s) \/ Announce(s) \/ SRem(s) \/ Farewell(s)
                               \/ Close(s) \/ SetupError(s) \/ TeardownError(s)
      PROVE  Steady'
  BY <1>1, <1>4 DEF Connect, Announce, SRem, Farewell, Close, SetupError, TeardownError
<1>5. ASSUME NEW s \in Socket, SAdd(s) PROVE Steady'
  <2>1. shaken' = shaken \ {s} /\ \A t \in Socket \ {s} : stage'[t] = stage[t]
    BY <1>1, <1>2, <1>5 DEF SAdd
  <2> QED BY <1>1, <2>1
<1>6. ASSUME NEW s \in Socket, Leave(s) \/ LoopError(s) PROVE Steady'
  <2>1. /\ stage[s] = "open" /\ shaken' = shaken \cup Others(s)
        /\ \A t \in Socket \ {s} : stage'[t] = stage[t]
    BY <1>1, <1>6 DEF Leave, LoopError
  <2> QED BY <1>1, <1>2, <2>1
<1>7. ASSUME NEW n \in Node, Listener(n) \/ Crash(n) PROVE Steady'
  <2>1. shaken' = shaken /\ \A s \in Socket : stage'[s] \in {stage[s], "none"}
    BY <1>1, <1>7
    DEF Listener, Deliver, ListenerError, Resubscribe, ResubscribeError, Crash
  <2> QED BY <1>1, <2>1
<1> QED BY <1>3, <1>4, <1>5, <1>6, <1>7 DEF Next, Handler, HandlerError

\* With one WebSocket at a time per user the set misses nobody, whatever
\* command fails and whatever node crashes: a user whose handler is at work
\* is in it.  Two sockets of one user are the only cause of a gap.
THEOREM OneSocketIsOnline ==
  Spec /\ []OneAtATime =>
    [](\A s \in Socket : stage[s] \in {"announce", "open"} => Owner[s] \in online)
<1>1. Init => Steady
  BY DEF Init, Steady
<1>2. PresenceInv => TypeInv
  BY DEF PresenceInv
<1>3. Steady /\ ConnectedMeansOnline =>
        \A s \in Socket : stage[s] \in {"announce", "open"} => Owner[s] \in online
  BY DEF Steady, ConnectedMeansOnline
<1> QED BY <1>1, <1>2, <1>3, SteadyStep, ConnectedStaysOnline,
           PresenceInit, PresenceNext, PTL DEF Spec

\* No page goes on showing a user who is gone, once told the last event.
THEOREM PagesForget == Spec => []RosterForgetsGone
<1>1. PresenceInv => RosterForgetsGone
  BY DEF PresenceInv, RosterInv
<1> QED BY <1>1, PresenceInit, PresenceNext, PTL DEF Spec
=============================================================================
