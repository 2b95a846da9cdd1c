------------------------------ MODULE Sessions ------------------------------
(***************************************************************************)
(* The session of one user: the one refresh token Redis holds for the      *)
(* user, the login, logout and refresh handlers of the server, and the     *)
(* tabs of a browser, each with its copy of the token pair and its calls   *)
(* of apiFetch, which answer a 401 by refreshing and trying again.         *)
(*                                                                         *)
(* Abstractions.  An access and a refresh token minted together are a      *)
(* pair, named by the second it was minted in: the claims hold the user    *)
(* and an expiry in whole seconds and nothing else, so two pairs minted in *)
(* the same second are equal.  A call keeps the pair it carries: the one   *)
(* whose access or refresh token it presents, or the one it was issued.    *)
(* The user exists, is active and types the right password; a request that *)
(* is turned down for another reason is among the failures of Fail.        *)
(***************************************************************************)
EXTENDS Integers

CONSTANTS
  Tab,          \* tabs of one browser
  Call,         \* calls a tab can have under way: apiFetch, or the sign-in form
  None,         \* no pair, no tab
  AccessLife,   \* seconds an access token is valid
  RefreshLife,  \* seconds a refresh token is valid
  MaxTime,      \* bound on the clock
  MaxErrors     \* bound on requests that fail

ASSUME SessionsAssumption ==
  /\ None \notin Nat /\ None \notin Tab
  /\ AccessLife \in Nat /\ RefreshLife \in Nat
  /\ MaxTime \in Nat /\ MaxErrors \in Nat

VARIABLES
  now,     \* the server's clock
  cached,  \* refresh_token:{user_id}
  pair,    \* state.token and state.refreshToken of each tab
  stored,  \* accessToken and refreshToken in localStorage
  stage,   \* where each call is
  kind,    \* what each call is for
  tab,     \* the tab each call returns to; None once that page is gone
  token,   \* the pair each call carries
  ended,   \* history: the last logout came after the last login
  late,    \* history: refreshes had passed their check at that logout
  disturbed,  \* history: another sign-in, a logout, a reload amid calls or next
              \* to another tab, a failed request or an expired token has come
              \* since the last clean sign-in
  overlapped, \* history: and two overlapping refreshes
  errors

server  == <<now, cached>>
browser == <<pair, stored>>
calls   == <<stage, kind, tab, token>>
causes  == <<disturbed, overlapped>>
history == <<ended, late, causes>>
vars    == <<server, browser, calls, history, errors>>

Pair == 0 .. MaxTime
Stage == {"free", "sent", "denied", "check", "mint", "store", "issued",
          "refused", "resent", "answered", "failed"}
Kind == {"page", "boot", "logout", "login"}

Init ==
  /\ now = 0 /\ cached = None
  /\ pair = [c \in Tab |-> None] /\ stored = None
  /\ stage = [k \in Call |-> "free"] /\ kind = [k \in Call |-> "page"]
  /\ tab = [k \in Call |-> None] /\ token = [k \in Call |-> None]
  /\ ended = FALSE /\ late = FALSE /\ errors = 0
  /\ disturbed = FALSE /\ overlapped = FALSE
-----------------------------------------------------------------------------
(* What the actions are made of.                                           *)

Goto(k, next) == stage' = [stage EXCEPT ![k] = next]

Carry(k, p) == token' = [token EXCEPT ![k] = p]

Start(k, what, c, first, p) ==
  /\ stage[k] = "free" /\ Goto(k, first) /\ Carry(k, p)
  /\ kind' = [kind EXCEPT ![k] = what]
  /\ tab' = [tab EXCEPT ![k] = c]

End(k) ==
  /\ Goto(k, "free") /\ Carry(k, None)
  /\ kind' = [kind EXCEPT ![k] = "page"]
  /\ tab' = [tab EXCEPT ![k] = None]

Save(c, p) == pair' = [pair EXCEPT ![c] = p] /\ stored' = p

Disturb == disturbed' = TRUE /\ UNCHANGED overlapped

\* A refresh or a login past its check, with its token not stored yet
Pending(k) == stage[k] \in {"mint", "store"}

Refreshing(k) ==
  kind[k] # "login" /\ stage[k] \in {"check", "mint", "store", "issued"}

Valid(p, life) == now < p + life
-----------------------------------------------------------------------------
(* What the user does.                                                     *)

\* Nothing is left of an earlier session in the browser.
Clean == (\A c \in Tab : pair[c] = None) /\ \A k \in Call : stage[k] = "free"

\* handleSignIn, from the portal; the password is found to be right.
SignIn(c, k) ==
  /\ pair[c] = None
  /\ Start(k, "login", c, "mint", None)
  /\ disturbed' = ~ Clean /\ overlapped' = (overlapped /\ ~ Clean)
  /\ UNCHANGED <<server, browser, ended, late, errors>>

\* Anything on the dashboard that calls apiFetch, the pollers included.
Browse(c, k) ==
  /\ pair[c] # None
  /\ Start(k, "page", c, "sent", pair[c])
  /\ UNCHANGED <<server, browser, history, errors>>

\* handleLogout, from its button.
Logout(c, k) ==
  /\ pair[c] # None
  /\ Start(k, "logout", c, "sent", pair[c])
  /\ Disturb
  /\ UNCHANGED <<server, browser, ended, late, errors>>

\* The page is loaded: the tab takes the pair from localStorage, its calls
\* return to nobody.
Reload(c, k) ==
  LET orphaned == {j \in Call : tab[j] = c}
      others   == {d \in Tab \ {c} : pair[d] # None}
      left     == [j \in Call |-> IF j \in orphaned THEN None ELSE tab[j]]
  IN
  /\ pair' = [pair EXCEPT ![c] = stored]
  /\ \/ /\ stored = None /\ tab' = left
        /\ UNCHANGED <<stage, kind, token>>
     \/ /\ stored # None /\ stage[k] = "free"
        /\ Goto(k, "sent") /\ Carry(k, stored)
        /\ kind' = [kind EXCEPT ![k] = "boot"]
        /\ tab' = [left EXCEPT ![k] = c]
  /\ IF orphaned = {} /\ others = {} THEN UNCHANGED causes ELSE Disturb
  /\ UNCHANGED <<server, stored, ended, late, errors>>
-----------------------------------------------------------------------------
(* The server.                                                             *)

\* get_current_user, then the endpoint: logout deletes the key.
Answer(k) ==
  /\ stage[k] \in {"sent", "resent"}
  /\ \/ /\ Valid(token[k], AccessLife) /\ Goto(k, "answered")
        /\ IF kind[k] = "logout"
           THEN /\ cached' = None /\ ended' = TRUE
                /\ late' = \E j \in Call : Pending(j)
           ELSE UNCHANGED <<cached, ended, late>>
        /\ UNCHANGED causes
     \/ /\ ~ Valid(token[k], AccessLife) /\ UNCHANGED <<cached, ended, late>>
        /\ \/ stage[k] = "sent" /\ Goto(k, "denied") /\ UNCHANGED causes
           \/ stage[k] = "resent" /\ Goto(k, "failed") /\ Disturb
  /\ UNCHANGED <<now, browser, kind, tab, token, errors>>

\* Variant: a token counts as good until it expires.
CheckSignatureOnly(k) ==
  /\ stage[k] = "check"
  /\ Goto(k, IF Valid(token[k], RefreshLife) THEN "mint" ELSE "refused")
  /\ IF Valid(token[k], RefreshLife) THEN UNCHANGED causes ELSE Disturb
  /\ UNCHANGED <<server, browser, kind, tab, token, ended, late, errors>>

\* refresh_session: the token is valid and the cached one.
Check(k) ==
  /\ stage[k] = "check"
  /\ \/ /\ Valid(token[k], RefreshLife) /\ UNCHANGED causes
        /\ Goto(k, IF cached = token[k] THEN "mint" ELSE "refused")
     \/ /\ ~ Valid(token[k], RefreshLife) /\ Disturb
        /\ Goto(k, "refused")
  /\ UNCHANGED <<server, browser, kind, tab, token, ended, late, errors>>

\* After the user was read, in login as in refresh.
Mint(k) ==
  /\ stage[k] = "mint" /\ Goto(k, "store") /\ Carry(k, now)
  /\ UNCHANGED <<server, browser, kind, tab, history, errors>>

\* SETEX.  The key outlives the token it holds.
SetKey(k) ==
  /\ cached' = token[k]
  /\ ended' = (ended /\ kind[k] # "login")

Store(k) ==
  /\ stage[k] = "store" /\ SetKey(k) /\ Goto(k, "issued")
  /\ UNCHANGED <<now, browser, kind, tab, token, late, causes, errors>>

Tick ==
  /\ now < MaxTime /\ now' = now + 1
  /\ UNCHANGED <<cached, browser, calls, history, errors>>
-----------------------------------------------------------------------------
(* The browser.                                                            *)

\* A 401: refresh with the pair the tab has now, if it still has one.
Denied(k) ==
  LET c == tab[k] IN
  /\ stage[k] = "denied" /\ c # None
  /\ \/ /\ pair[c] # None /\ Goto(k, "check") /\ Carry(k, pair[c])
        /\ overlapped' = (overlapped \/ \E j \in Call : Refreshing(j))
        /\ UNCHANGED disturbed
     \/ pair[c] = None /\ Goto(k, "failed") /\ UNCHANGED <<token, causes>>
  /\ UNCHANGED <<server, browser, kind, tab, ended, late, errors>>

\* Variant: the rotated pair is kept in memory only.
IssuedNotStored(k) ==
  /\ stage[k] = "issued" /\ tab[k] # None
  /\ pair' = [pair EXCEPT ![tab[k]] = token[k]]
  /\ stored' = IF kind[k] = "login" THEN token[k] ELSE stored
  /\ IF kind[k] = "login"
     THEN Goto(k, "sent") /\ kind' = [kind EXCEPT ![k] = "boot"]
     ELSE Goto(k, "resent") /\ UNCHANGED kind
  /\ UNCHANGED <<server, tab, token, history, errors>>

\* The new pair arrives: a refresh tries its request again, a sign-in goes
\* on to the first request of bootstrapDashboard.
Issued(k) ==
  /\ stage[k] = "issued" /\ tab[k] # None
  /\ Save(tab[k], token[k])
  /\ IF kind[k] = "login"
     THEN Goto(k, "sent") /\ kind' = [kind EXCEPT ![k] = "boot"]
     ELSE Goto(k, "resent") /\ UNCHANGED kind
  /\ UNCHANGED <<server, tab, token, history, errors>>

\* handleLogout, up to its request, on behalf of a call that ends: with no
\* token there is nothing to send and the session is cleared at once.
LogoutInstead(k, clear) ==
  LET c == tab[k] IN
  \/ /\ pair[c] # None /\ Goto(k, "sent") /\ Carry(k, pair[c])
     /\ kind' = [kind EXCEPT ![k] = "logout"] /\ UNCHANGED tab
     /\ IF clear THEN Save(c, None) ELSE UNCHANGED browser
  \/ pair[c] = None /\ Save(c, None) /\ End(k)

\* Variant: the logout's own call logs out and never clears the session.
RefusedNoClear(k) ==
  /\ stage[k] = "refused" /\ tab[k] # None
  /\ LogoutInstead(k, FALSE)
  /\ UNCHANGED <<server, history, errors>>

\* The refresh failed: apiFetch calls handleLogout and throws; handleLogout,
\* if it was the caller, catches that and clears the session.  The logout
\* that bootstrapDashboard adds when it catches it is a copy of the first
\* and is left out.
Refused(k) ==
  /\ stage[k] = "refused" /\ tab[k] # None
  /\ LogoutInstead(k, kind[k] = "logout")
  /\ UNCHANGED <<server, history, errors>>

\* A 2xx.
Answered(k) ==
  /\ stage[k] = "answered" /\ tab[k] # None /\ End(k)
  /\ IF kind[k] = "logout" THEN Save(tab[k], None) ELSE UNCHANGED browser
  /\ UNCHANGED <<server, history, errors>>

\* Any other response, or none: handleLogout clears the session all the
\* same, bootstrapDashboard logs out, the others report it.
Failed(k) ==
  /\ stage[k] = "failed" /\ tab[k] # None
  /\ \/ kind[k] = "boot" /\ LogoutInstead(k, FALSE)
     \/ kind[k] = "logout" /\ Save(tab[k], None) /\ End(k)
     \/ kind[k] \in {"page", "login"} /\ End(k) /\ UNCHANGED browser
  /\ UNCHANGED <<server, history, errors>>

\* A response to a page that is gone.
Discard(k) ==
  /\ tab[k] = None
  /\ stage[k] \in {"denied", "issued", "refused", "answered", "failed"}
  /\ End(k)
  /\ UNCHANGED <<server, browser, history, errors>>

\* A request or its response is lost, or the server answers 500; SETEX may
\* have been applied.
Fail(k) ==
  /\ errors < MaxErrors /\ errors' = errors + 1 /\ Disturb
  /\ \/ /\ stage[k] \in {"sent", "resent"} /\ Goto(k, "failed")
        /\ UNCHANGED <<cached, ended>>
     \/ /\ stage[k] \in {"check", "mint", "store", "issued"}
        /\ Goto(k, IF kind[k] = "login" THEN "failed" ELSE "refused")
        /\ \/ UNCHANGED <<cached, ended>>
           \/ stage[k] = "store" /\ SetKey(k)
  /\ UNCHANGED <<now, browser, kind, tab, token, late>>
-----------------------------------------------------------------------------
User(c, k) == SignIn(c, k) \/ Browse(c, k) \/ Logout(c, k) \/ Reload(c, k)

Server(k) == Answer(k) \/ Check(k) \/ Mint(k) \/ Store(k)

Browser(k) ==
  \/ Denied(k) \/ Issued(k) \/ Refused(k)
  \/ Answered(k) \/ Failed(k) \/ Discard(k)

Next ==
  \/ \E c \in Tab, k \in Call : User(c, k)
  \/ \E k \in Call : Server(k) \/ Browser(k) \/ Fail(k)
  \/ Tick

Spec == Init /\ [][Next]_vars

\* Every request is answered or fails, and the page handles what arrives.
Fairness == \A k \in Call : WF_vars(Server(k) \/ Browser(k))

FairSpec == Spec /\ Fairness
-----------------------------------------------------------------------------
TypeOK ==
  /\ now \in Pair /\ cached \in Pair \cup {None}
  /\ pair \in [Tab -> Pair \cup {None}] /\ stored \in Pair \cup {None}
  /\ stage \in [Call -> Stage] /\ kind \in [Call -> Kind]
  /\ tab \in [Call -> Tab \cup {None}] /\ token \in [Call -> Pair \cup {None}]
  /\ \A k \in Call :
       /\ stage[k] = "free" => tab[k] = None /\ token[k] = None
       /\ stage[k] \in Stage \ {"free", "mint", "failed"} => token[k] # None
  /\ ended \in BOOLEAN /\ late \in BOOLEAN
  /\ disturbed \in BOOLEAN /\ overlapped \in BOOLEAN
  /\ errors \in 0 .. MaxErrors

\* Rotation is transparent: from a clean sign-in on, no refresh is refused
\* unless the user signed in again, logged out, or reloaded the page amid
\* calls or next to another tab, a request failed, a token expired (the
\* refresh token, or the new access token on its way), or two refreshes
\* overlapped.
RefusedForCause == \A k \in Call : stage[k] = "refused" => disturbed \/ overlapped

\* A logout ends the session for good: until the next sign-in Redis holds no
\* token, unless a refresh had already passed its check at the logout.
LogoutHolds == ended /\ cached # None => late

\* Every call ends, whatever is answered: logging out because a refresh was
\* refused does not refresh and log out for ever.
CallsEnd == \A k \in Call : stage[k] # "free" ~> stage[k] = "free"

\* Comment in app.js: the token rotation is "transparent".  A page that
\* meets an expired access token carries on, if nothing else happened to
\* the session: overlapping refreshes are the page's own doing.
TransparentRotation ==
  \A k \in Call : stage[k] = "refused" => disturbed
=============================================================================
