-------------------------- MODULE SessionsProofs --------------------------
(* Proofs about Sessions, for every set of tabs and calls, every life of   *)
(* the tokens and any number of failing requests.                          *)
EXTENDS Sessions, TLAPS

-----------------------------------------------------------------------------
(* Type correctness.  A call that is answered carries a pair; a refresh    *)
(* carries one from the start, a login from when it is minted.             *)

TypeInv ==
  /\ TypeOK
  /\ \A k \in Call :
       /\ kind[k] = "login" => stage[k] \in {"mint", "store", "issued", "failed"}
       /\ stage[k] = "mint" /\ kind[k] # "login" => token[k] # None

LEMMA InitType == Init => TypeInv
<1> SUFFICES ASSUME Init PROVE TypeInv
  OBVIOUS
<1>1. 0 \in Pair /\ 0 \in 0 .. MaxErrors
  BY SessionsAssumption DEF Pair
<1> QED BY <1>1, SessionsAssumption DEF Init, TypeInv, TypeOK, Stage, Kind

LEMMA UserType ==
  ASSUME TypeInv, NEW c \in Tab, NEW k \in Call, User(c, k)
  PROVE  TypeInv'
<1> USE SessionsAssumption
    DEF TypeInv, TypeOK, Stage, Kind, Start, Goto, Carry, Disturb,
        server, browser, calls, causes, history
<1>1. CASE SignIn(c, k)
  BY <1>1 DEF SignIn
<1>2. CASE Browse(c, k)
  BY <1>2 DEF Browse
<1>3. CASE Logout(c, k)
  BY <1>3 DEF Logout
<1>4. CASE Reload(c, k)
  <2>1. pair' \in [Tab -> Pair \cup {None}]
    BY <1>4 DEF Reload
  <2>2. CASE stored = None /\ UNCHANGED <<stage, kind, token>>
    BY <1>4, <2>1, <2>2 DEF Reload
  <2>3. CASE /\ stored # None /\ stage[k] = "free"
             /\ Goto(k, "sent") /\ Carry(k, stored)
             /\ kind' = [kind EXCEPT ![k] = "boot"]
    <3>1. tab' \in [Call -> Tab \cup {None}]
      BY <1>4, <2>3 DEF Reload
    <3>2. \A j \in Call \ {k} : tab[j] = None => tab'[j] = None
      BY <1>4, <2>3 DEF Reload
    <3>3. disturbed' \in BOOLEAN /\ overlapped' \in BOOLEAN
      BY <1>4 DEF Reload
    <3> QED BY <1>4, <2>1, <2>3, <3>1, <3>2, <3>3 DEF Reload
  <2> QED BY <1>4, <2>2, <2>3 DEF Reload
<1> QED BY <1>1, <1>2, <1>3, <1>4 DEF User

LEMMA ServerType ==
  ASSUME TypeInv, NEW k \in Call, Server(k)
  PROVE  TypeInv'
<1> USE SessionsAssumption
    DEF TypeInv, TypeOK, Stage, Kind, Goto, Carry, Disturb,
        server, browser, calls, causes, history
<1>1. CASE Answer(k)
  BY <1>1 DEF Answer
<1>2. CASE Check(k)
  BY <1>2 DEF Check
<1>3. CASE Mint(k)
  BY <1>3 DEF Mint, Pair
<1>4. CASE Store(k)
  BY <1>4 DEF Store, SetKey
<1> QED BY <1>1, <1>2, <1>3, <1>4 DEF Server

LEMMA BrowserType ==
  ASSUME TypeInv, NEW k \in Call, Browser(k)
  PROVE  TypeInv'
<1> USE SessionsAssumption
    DEF TypeInv, TypeOK, Stage, Kind, Goto, Carry, Disturb, Save, End,
        server, browser, calls, causes, history
<1>1. CASE Denied(k)
  BY <1>1 DEF Denied
<1>2. CASE Issued(k)
  BY <1>2 DEF Issued
<1>3. CASE Refused(k)
  BY <1>3 DEF Refused, LogoutInstead
<1>4. CASE Answered(k)
  BY <1>4 DEF Answered
<1>5. CASE Failed(k)
  BY <1>5 DEF Failed, LogoutInstead
<1>6. CASE Discard(k)
  BY <1>6 DEF Discard
<1> QED BY <1>1, <1>2, <1>3, <1>4, <1>5, <1>6 DEF Browser

LEMMA FailType ==
  ASSUME TypeInv, NEW k \in Call, Fail(k)
  PROVE  TypeInv'
<1> USE SessionsAssumption
    DEF TypeInv, TypeOK, Stage, Kind, Goto, Disturb, browser
<1>1. errors' \in 0 .. MaxErrors /\ disturbed' \in BOOLEAN
      /\ UNCHANGED <<now, pair, stored, kind, tab, token, late, overlapped>>
  BY DEF Fail
<1>2. CASE /\ stage[k] \in {"sent", "resent"} /\ Goto(k, "failed")
           /\ UNCHANGED <<cached, ended>>
  BY <1>1, <1>2
<1>3. CASE /\ stage[k] \in {"check", "mint", "store", "issued"}
           /\ Goto(k, IF kind[k] = "login" THEN "failed" ELSE "refused")
           /\ \/ UNCHANGED <<cached, ended>>
              \/ stage[k] = "store" /\ SetKey(k)
  <2>1. cached' \in Pair \cup {None} /\ ended' \in BOOLEAN
    BY <1>3 DEF SetKey
  <2> QED BY <1>1, <1>3, <2>1
<1> QED BY <1>2, <1>3 DEF Fail

LEMMA TickType ==
  ASSUME TypeInv, Tick
  PROVE  TypeInv'
BY SessionsAssumption
DEF Tick, TypeInv, TypeOK, Pair, browser, calls, causes, history

LEMMA StutterType ==
  ASSUME TypeInv, UNCHANGED vars
  PROVE  TypeInv'
BY DEF TypeInv, TypeOK, vars, server, browser, calls, causes, history

LEMMA NextType == TypeInv /\ [Next]_vars => TypeInv'
BY UserType, ServerType, BrowserType, FailType, TickType, StutterType DEF Next

LEMMA TypeInvariant == Spec => []TypeInv
BY InitType, NextType, PTL DEF Spec

\* The type invariant holds for any tabs, calls, lives and failures.
THEOREM TypeCorrect == Spec => []TypeOK
<1>1. TypeInv => TypeOK
  BY DEF TypeInv
<1> QED BY <1>1, TypeInvariant, PTL
-----------------------------------------------------------------------------
(* A logout holds.  While it does, Redis holds no token, so no refresh     *)
(* passes its check; what is past it is a login, which ends the logout.    *)

EndInv ==
  ended /\ ~ late =>
    cached = None /\ \A k \in Call : Pending(k) => kind[k] = "login"

LEMMA InitEnd == Init => EndInv
BY DEF Init, EndInv

LEMMA UserEnd ==
  ASSUME TypeInv, EndInv, NEW c \in Tab, NEW k \in Call, User(c, k)
  PROVE  EndInv'
<1> USE DEF EndInv, Pending, Start, Goto, TypeInv, TypeOK,
            server, browser, calls, causes, history
<1>1. CASE SignIn(c, k)
  BY <1>1 DEF SignIn
<1>2. CASE Browse(c, k)
  BY <1>2 DEF Browse
<1>3. CASE Logout(c, k)
  BY <1>3 DEF Logout
<1>4. CASE Reload(c, k)
  BY <1>4 DEF Reload
<1> QED BY <1>1, <1>2, <1>3, <1>4 DEF User

LEMMA ServerEnd ==
  ASSUME TypeInv, EndInv, NEW k \in Call, Server(k)
  PROVE  EndInv'
<1> USE DEF EndInv, Pending, Goto, TypeInv, TypeOK,
            server, browser, calls, causes, history
<1>1. CASE Answer(k)
  <2>1. stage[k] \in {"sent", "resent"} /\ UNCHANGED kind
        /\ \A j \in Call : Pending(j)' => Pending(j)
    BY <1>1 DEF Answer
  <2>2. CASE UNCHANGED <<cached, ended, late>>
    BY <2>1, <2>2
  <2>3. CASE cached' = None /\ late' = \E j \in Call : Pending(j)
    BY <2>1, <2>3
  <2> QED BY <1>1, <2>2, <2>3 DEF Answer
<1>2. CASE Check(k)
  BY <1>2 DEF Check, Stage
<1>3. CASE Mint(k)
  BY <1>3 DEF Mint
<1>4. CASE Store(k)
  BY <1>4 DEF Store, SetKey
<1> QED BY <1>1, <1>2, <1>3, <1>4 DEF Server

LEMMA BrowserEnd ==
  ASSUME TypeInv, EndInv, NEW k \in Call, Browser(k)
  PROVE  EndInv'
<1> USE DEF EndInv, Pending, Goto, End, TypeInv, TypeOK,
            server, browser, calls, causes, history
<1>1. CASE Denied(k)
  BY <1>1 DEF Denied
<1>2. CASE Issued(k)
  BY <1>2 DEF Issued
<1>3. CASE Refused(k)
  BY <1>3 DEF Refused, LogoutInstead
<1>4. CASE Answered(k)
  BY <1>4 DEF Answered
<1>5. CASE Failed(k)
  BY <1>5 DEF Failed, LogoutInstead
<1>6. CASE Discard(k)
  BY <1>6 DEF Discard
<1> QED BY <1>1, <1>2, <1>3, <1>4, <1>5, <1>6 DEF Browser

LEMMA FailEnd ==
  ASSUME TypeInv, EndInv, NEW k \in Call, Fail(k)
  PROVE  EndInv'
<1> USE DEF EndInv, Pending, Goto, TypeInv, TypeOK, browser
<1>1. UNCHANGED <<kind, late>> /\ \A j \in Call : Pending(j)' => Pending(j)
  BY DEF Fail
<1>2. CASE UNCHANGED <<cached, ended>>
  BY <1>1, <1>2
<1>3. CASE stage[k] = "store" /\ SetKey(k)
  BY <1>1, <1>3 DEF SetKey
<1> QED BY <1>2, <1>3 DEF Fail

LEMMA NextEnd == TypeInv /\ EndInv /\ [Next]_vars => EndInv'
<1>1. ASSUME EndInv, UNCHANGED <<cached, calls, ended, late>> PROVE EndInv'
  BY <1>1 DEF EndInv, Pending, calls
<1>2. ASSUME EndInv, Tick \/ UNCHANGED vars PROVE EndInv'
  BY <1>1, <1>2 DEF Tick, vars, server, history
<1> QED BY <1>2, UserEnd, ServerEnd, BrowserEnd, FailEnd DEF Next

\* After a logout Redis holds no token until the next sign-in, unless a
\* refresh was past its check when the logout came.
THEOREM LogoutIsFinal == Spec => []LogoutHolds
<1>1. EndInv => LogoutHolds
  BY DEF EndInv, LogoutHolds
<1> QED BY <1>1, TypeInvariant, InitEnd, NextEnd, PTL DEF Spec
-----------------------------------------------------------------------------
(* A refresh is refused for a cause.  While nothing has disturbed a clean  *)
(* sign-in there is one session at most, in one tab; a login has the       *)
(* browser for itself; and one refresh at a time moves Redis and the tab   *)
(* from one pair to the next, together.                                    *)

Quiet == ~ disturbed /\ ~ overlapped

\* Only one tab has a pair, and it is the pair in localStorage.
OneSession == \A c, d \in Tab : pair[c] # None /\ pair[d] # None => c = d

StoredInv == stored # None => \E c \in Tab : pair[c] = stored

\* A call that is under way belongs to the session, and has not failed.
LiveCalls ==
  \A k \in Call : stage[k] # "free" =>
    /\ stage[k] \notin {"refused", "failed"} /\ kind[k] # "logout"
    /\ tab[k] # None
    /\ kind[k] # "login" => pair[tab[k]] # None

LoneLogin ==
  \A k \in Call : kind[k] = "login" =>
    /\ \A c \in Tab : pair[c] = None
    /\ \A j \in Call \ {k} : stage[j] = "free"

OneRefresh == \A j, k \in Call : Refreshing(j) /\ Refreshing(k) => j = k

\* Redis holds the pair of the tab, or the one that is on its way to it.
Current ==
  /\ \A k \in Call :
       /\ stage[k] = "check" => token[k] = pair[tab[k]]
       /\ stage[k] = "issued" => cached = token[k]
  /\ \A c \in Tab :
       pair[c] # None /\ (\A k \in Call : stage[k] # "issued") => cached = pair[c]

QuietInv ==
  Quiet => OneSession /\ LiveCalls /\ LoneLogin /\ OneRefresh /\ Current

LEMMA InitQuiet == Init => StoredInv /\ QuietInv
BY DEF Init, StoredInv, QuietInv, OneSession, LiveCalls, LoneLogin, OneRefresh,
       Current, Refreshing

LEMMA NextStored == TypeInv /\ StoredInv /\ [Next]_vars => StoredInv'
<1> SUFFICES ASSUME TypeInv, StoredInv, [Next]_vars PROVE StoredInv'
  OBVIOUS
<1> USE DEF StoredInv
<1>1. ASSUME UNCHANGED browser PROVE StoredInv'
  BY <1>1 DEF browser
<1>2. ASSUME NEW c \in Tab, NEW p, Save(c, p) PROVE StoredInv'
  BY <1>2 DEF Save, TypeInv, TypeOK
<1>3. ASSUME NEW c \in Tab, NEW k \in Call, User(c, k) PROVE StoredInv'
  <2>1. CASE Reload(c, k)
    BY <2>1 DEF Reload, TypeInv, TypeOK
  <2>2. CASE SignIn(c, k) \/ Browse(c, k) \/ Logout(c, k)
    BY <1>1, <2>2 DEF SignIn, Browse, Logout
  <2> QED BY <1>3, <2>1, <2>2 DEF User
<1>4. ASSUME NEW k \in Call, Server(k) \/ Fail(k) PROVE StoredInv'
  BY <1>1, <1>4 DEF Server, Answer, Check, Mint, Store, Fail, browser
<1>5. ASSUME NEW k \in Call, Browser(k) PROVE StoredInv'
  <2>1. tab[k] # None => tab[k] \in Tab
    BY DEF TypeInv, TypeOK
  <2>2. \/ UNCHANGED browser
        \/ tab[k] # None /\ \E p \in {token[k], None} : Save(tab[k], p)
    BY <1>5 DEF Browser, Denied, Issued, Refused, Answered, Failed, Discard,
                LogoutInstead
  <2> QED BY <1>1, <1>2, <2>1, <2>2
<1>6. CASE Tick \/ UNCHANGED vars
  BY <1>1, <1>6 DEF Tick, vars
<1> QED BY <1>3, <1>4, <1>5, <1>6 DEF Next

\* Only a clean sign-in makes a disturbed session quiet again.
LEMMA QuietBefore ==
  ASSUME TypeInv, [Next]_vars, Quiet',
         \A c \in Tab, k \in Call : ~ SignIn(c, k)
  PROVE  Quiet
<1> USE DEF Quiet, TypeInv, TypeOK, Disturb, causes, history
<1>1. ASSUME NEW c \in Tab, NEW k \in Call, User(c, k) PROVE Quiet
  BY <1>1 DEF User, Browse, Logout, Reload
<1>2. ASSUME NEW k \in Call, Server(k) PROVE Quiet
  BY <1>2 DEF Server, Answer, Check, Mint, Store
<1>3. ASSUME NEW k \in Call, Browser(k) PROVE Quiet
  BY <1>3 DEF Browser, Denied, Issued, Refused, Answered, Failed, Discard
<1>4. ASSUME NEW k \in Call, Fail(k) PROVE Quiet
  BY <1>4 DEF Fail
<1>5. CASE Tick \/ UNCHANGED vars
  BY <1>5 DEF Tick, vars
<1> QED BY <1>1, <1>2, <1>3, <1>4, <1>5 DEF Next

LEMMA SignInQuiet ==
  ASSUME TypeInv, NEW c \in Tab, NEW k \in Call, SignIn(c, k), Quiet'
  PROVE  QuietInv'
<1>1. Clean /\ UNCHANGED <<cached, pair>>
  BY DEF SignIn, Quiet, server, browser
<1>2. /\ stage' = [stage EXCEPT ![k] = "mint"] /\ tab' = [tab EXCEPT ![k] = c]
      /\ kind' = [kind EXCEPT ![k] = "login"]
  BY DEF SignIn, Start, Goto
<1>3. \A j \in Call : j # k => stage'[j] = "free" /\ kind'[j] # "login"
  BY <1>1, <1>2 DEF Clean, TypeInv, TypeOK
<1>4. stage'[k] = "mint" /\ kind'[k] = "login" /\ tab'[k] = c
  BY <1>2 DEF TypeInv, TypeOK
<1> QED BY <1>1, <1>3, <1>4, SessionsAssumption
    DEF Clean, QuietInv, OneSession, LiveCalls, LoneLogin, OneRefresh, Current,
        Refreshing

LEMMA UserQuiet ==
  ASSUME TypeInv, StoredInv, QuietInv, Quiet,
         NEW c \in Tab, NEW k \in Call, User(c, k), ~ SignIn(c, k), Quiet'
  PROVE  QuietInv'
<1> USE DEF QuietInv, OneSession, LiveCalls, LoneLogin, OneRefresh, Current,
            Refreshing, Start, Goto, TypeInv, TypeOK, server, browser
<1>1. CASE Browse(c, k)
  <2>1. /\ pair[c] # None /\ stage[k] = "free" /\ UNCHANGED <<cached, pair>>
        /\ stage' = [stage EXCEPT ![k] = "sent"] /\ tab' = [tab EXCEPT ![k] = c]
        /\ kind' = [kind EXCEPT ![k] = "page"]
        /\ token' = [token EXCEPT ![k] = pair[c]]
    BY <1>1 DEF Browse, Carry
  <2>2. \A j \in Call : kind[j] # "login"
    BY <2>1
  <2> QED BY <2>1, <2>2, SessionsAssumption
<1>2. CASE Logout(c, k)
  BY <1>2 DEF Logout, Disturb, Quiet
<1>3. CASE Reload(c, k)
  <2>1. /\ \A j \in Call : tab[j] # c
        /\ \A d \in Tab \ {c} : pair[d] = None
    BY <1>3 DEF Reload, Disturb, Quiet
  <2>2. pair' = [pair EXCEPT ![c] = stored] /\ UNCHANGED cached
    BY <1>3 DEF Reload
  <2>3. CASE stored = None
    <3>1. UNCHANGED <<stage, kind, token>> /\ \A j \in Call : tab'[j] = tab[j]
      BY <1>3, <2>1, <2>3 DEF Reload
    <3>2. \A j \in Call : stage[j] # "free" => kind[j] = "login"
      BY <2>1
    <3> QED BY <2>1, <2>2, <2>3, <3>1, <3>2
  <2>4. CASE stored # None
    <3>1. pair[c] = stored /\ pair' = pair
      BY <2>1, <2>2, <2>4 DEF StoredInv
    <3>2. /\ stage[k] = "free" /\ stage' = [stage EXCEPT ![k] = "sent"]
          /\ kind' = [kind EXCEPT ![k] = "boot"]
          /\ token' = [token EXCEPT ![k] = stored]
      BY <1>3, <2>4 DEF Reload, Carry
    <3>3. \A j \in Call : tab'[j] = IF j = k THEN c ELSE tab[j]
      BY <1>3, <2>1, <2>4 DEF Reload
    <3> QED BY <2>2, <2>4, <3>1, <3>2, <3>3, SessionsAssumption
  <2> QED BY <2>3, <2>4
<1> QED BY <1>1, <1>2, <1>3 DEF User

LEMMA ServerQuiet ==
  ASSUME TypeInv, QuietInv, Quiet, NEW k \in Call, Server(k), Quiet'
  PROVE  QuietInv'
<1> USE DEF QuietInv, OneSession, LiveCalls, LoneLogin, OneRefresh, Current,
            Refreshing, Goto, TypeInv, TypeOK, server, browser
<1>1. CASE Answer(k)
  <2>1. PICK s \in {"answered", "denied"} : stage' = [stage EXCEPT ![k] = s]
    BY <1>1 DEF Answer, Disturb, Quiet
  <2>2. /\ stage[k] \in {"sent", "resent"}
        /\ UNCHANGED <<cached, pair, kind, tab, token>>
    BY <1>1 DEF Answer
  <2> QED BY <2>1, <2>2
<1>2. CASE Check(k)
  BY <1>2 DEF Check, Disturb, Quiet
<1>3. CASE Mint(k)
  BY <1>3 DEF Mint, Carry
<1>4. CASE Store(k)
  BY <1>4 DEF Store, SetKey
<1> QED BY <1>1, <1>2, <1>3, <1>4 DEF Server

LEMMA BrowserQuiet ==
  ASSUME TypeInv, QuietInv, Quiet, NEW k \in Call, Browser(k), Quiet'
  PROVE  QuietInv'
<1> USE DEF QuietInv, OneSession, LiveCalls, LoneLogin, OneRefresh, Current,
            Refreshing, Goto, End, Carry, TypeInv, TypeOK, Quiet, server, browser
<1>1. CASE Denied(k)
  <2>1. /\ stage[k] = "denied" /\ pair[tab[k]] # None /\ tab[k] \in Tab
        /\ stage' = [stage EXCEPT ![k] = "check"]
        /\ token' = [token EXCEPT ![k] = pair[tab[k]]]
        /\ UNCHANGED <<cached, pair, kind, tab>>
    BY <1>1 DEF Denied
  <2>2. \A j \in Call : ~ Refreshing(j)
    BY <1>1, <2>1 DEF Denied
  <2> QED BY <2>1, <2>2
<1>2. CASE Issued(k)
  BY <1>2 DEF Issued, Save
<1>3. CASE Refused(k) \/ Failed(k) \/ Discard(k)
  BY <1>3 DEF Refused, Failed, Discard
<1>4. CASE Answered(k)
  BY <1>4 DEF Answered
<1> QED BY <1>1, <1>2, <1>3, <1>4 DEF Browser

LEMMA NextQuiet == TypeInv /\ StoredInv /\ QuietInv /\ [Next]_vars => QuietInv'
<1> SUFFICES ASSUME TypeInv, StoredInv, QuietInv, [Next]_vars, Quiet'
             PROVE  QuietInv'
  BY DEF QuietInv
<1>1. ASSUME NEW c \in Tab, NEW k \in Call, SignIn(c, k) PROVE QuietInv'
  BY <1>1, SignInQuiet
<1>2. CASE \A c \in Tab, k \in Call : ~ SignIn(c, k)
  <2>1. Quiet
    BY <1>2, QuietBefore
  <2>2. ASSUME NEW k \in Call, Fail(k) PROVE FALSE
    BY <2>2 DEF Fail, Disturb, Quiet
  <2>3. CASE Tick \/ UNCHANGED vars
    BY <2>1, <2>3
    DEF Tick, QuietInv, OneSession, LiveCalls, LoneLogin, OneRefresh, Current,
        Refreshing, vars, server, browser, calls
  <2> QED BY <1>2, <2>1, <2>2, <2>3, UserQuiet, ServerQuiet, BrowserQuiet DEF Next
<1> QED BY <1>1, <1>2

\* Rotation is transparent but for the causes the property lists, with any
\* number of tabs and calls.
THEOREM RefusalsHaveACause == Spec => []RefusedForCause
<1>1. QuietInv => RefusedForCause
  BY DEF QuietInv, LiveCalls, Quiet, RefusedForCause
<1> QED BY <1>1, TypeInvariant, InitQuiet, NextStored, NextQuiet, PTL DEF Spec

\* Only a second refresh under way makes two of them overlap.
LEMMA NoOverlap ==
  ASSUME TypeInv, OneRefresh, OneRefresh', ~ overlapped, [Next]_vars
  PROVE  ~ overlapped'
<1>1. ASSUME NEW c \in Tab, NEW k \in Call, User(c, k) PROVE ~ overlapped'
  BY <1>1 DEF User, SignIn, Browse, Logout, Reload, Disturb, history, causes
<1>2. ASSUME NEW k \in Call, Denied(k) PROVE ~ overlapped'
  <2> SUFFICES ASSUME NEW j \in Call, Refreshing(j), stage'[k] = "check" PROVE FALSE
    BY <1>2 DEF Denied, Goto, TypeInv, TypeOK, causes
  <2>1. stage[k] = "denied" /\ kind[k] # "login" /\ kind' = kind /\ Goto(k, stage'[k])
    BY <1>2 DEF Denied, Goto, TypeInv, TypeOK
  <2>2. j # k /\ stage'[j] = stage[j]
    BY <2>1 DEF Refreshing, Goto, TypeInv, TypeOK
  <2>3. Refreshing(j)' /\ Refreshing(k)'
    BY <2>1, <2>2 DEF Refreshing
  <2> QED BY <2>2, <2>3 DEF OneRefresh
<1>3. ASSUME NEW k \in Call, Browser(k), ~ Denied(k) PROVE ~ overlapped'
  BY <1>3 DEF Browser, Issued, Refused, Answered, Failed, Discard, history, causes
<1>4. ASSUME NEW k \in Call, Server(k) \/ Fail(k) PROVE ~ overlapped'
  BY <1>4 DEF Server, Answer, Check, Mint, Store, Fail, Disturb, history, causes
<1>5. CASE Tick \/ UNCHANGED vars
  BY <1>5 DEF Tick, vars, history, causes
<1> QED BY <1>1, <1>2, <1>3, <1>4, <1>5 DEF Next

\* A page that refreshes once at a time is what the comment in app.js
\* promises, whatever number of calls it makes: no refresh is refused from a
\* clean sign-in on, but for the causes of TransparentRotation.
THEOREM OneRefreshIsTransparent == Spec /\ []OneRefresh => []TransparentRotation
<1>1. Init => ~ overlapped
  BY DEF Init
<1>2. TypeInv /\ OneRefresh /\ OneRefresh' /\ ~ overlapped /\ [Next]_vars => ~ overlapped'
  BY NoOverlap
<1>3. RefusedForCause /\ ~ overlapped => TransparentRotation
  BY DEF RefusedForCause, TransparentRotation
<1> QED BY <1>1, <1>2, <1>3, TypeInvariant, RefusalsHaveACause, PTL DEF Spec
=============================================================================
