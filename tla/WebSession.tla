------------------------------ MODULE WebSession ------------------------------
(***************************************************************************)
(* The session of the web client (web/src/lib/api.ts, ws.ts, store.ts,     *)
(* App.tsx, the login and register pages): tabs of one browser that share  *)
(* one bearer token in localStorage.                                       *)
(*                                                                         *)
(* A tab keeps its own copy of the token in its store, sends requests that *)
(* read localStorage when they go out, silently refreshes a token that is  *)
(* about to expire, and holds one websocket.  Everything it awaits may be  *)
(* answered after the tab, or another tab, has moved on.                   *)
(*                                                                         *)
(* The server signs a token with its expiry and nothing else, so a token   *)
(* IS its expiry here; it is valid until the clock reaches it.  Assigning  *)
(* window.location.href unloads the page in the same step: its requests,   *)
(* its socket and its store are gone.  A tab has at most one request of    *)
(* each kind under way.                                                    *)
(***************************************************************************)
EXTENDS Naturals

CONSTANTS Tabs,        \* tabs of the browser
          None,        \* no token
          Life,        \* life of a token (24 h), in units of the clock
          Margin,      \* what must be left not to refresh (30 min)
          MaxClock,    \* bound: the clock
          MaxVisits,   \* bound: pages loaded by the user
          MaxBackups,  \* bound: backups asked for
          MaxSubmits,  \* bound: forms submitted
          MaxFaults    \* bound: calls and connections that fail

ASSUME SessionBounds == /\ Life \in Nat \ {0} /\ Margin \in Nat
                        /\ MaxClock \in Nat /\ MaxVisits \in Nat
                        /\ MaxBackups \in Nat
                        /\ MaxSubmits \in Nat /\ MaxFaults \in Nat

ASSUME NoneIsNoToken == None \notin Nat

VARIABLES
  stored,     \* localStorage wt_bearer, shared by the tabs
  doc,        \* per tab: the store's token, the path, the form's error
  req,        \* per tab and kind: the request under way
  socket,     \* per tab: the hub's websocket
  clock,      \* the time
  hasUsers,   \* server: a user is registered
  used,       \* visits, submits, faults and backups so far
  cause,      \* history: the tab has had a reason to be sent to /login
  signedOut   \* history: logged out, with no refresh under way, and not in since

vars == <<stored, doc, req, socket, clock, hasUsers, used, cause, signedOut>>

-----------------------------------------------------------------------------
PublicPaths == {"/login", "/register"}

Paths == PublicPaths \cup {"/"}

\* The calls of the api object, by what they do to the session: "data" stands
\* for every call that needs a token.  The backup does not go through request.
Kinds == {"data", "status", "login", "register", "backup"}

\* What a page asks for when it mounts.
FirstRequest == [p \in Paths |-> IF p = "/" THEN "data" ELSE "status"]

Valid(token) == token # None /\ clock < token

\* maybeRefresh: less than half an hour is left, or nothing at all.
Due(token) == token # None /\ token <= clock + Margin

NewToken == clock + Life

Idle == [pc |-> "idle", tok |-> None, page |-> "/", seen |-> FALSE,
         behind |-> FALSE]

NoRequests == [k \in Kinds |-> Idle]

\* The server looks at the token of these.
Carried(k, token) == IF k \in {"data", "backup"} THEN token ELSE None

\* request(): refresh first if need be, else read the token and send.
Begin(k, page, token) ==
  [pc |-> IF Due(token) THEN "refresh" ELSE "sent",
   tok |-> IF Due(token) THEN token ELSE Carried(k, token),
   page |-> page, seen |-> hasUsers /\ k \in {"status", "register"},
   behind |-> FALSE]

Mounted(requests, page, token) ==
  LET k == FirstRequest[page]
  IN IF requests[k].pc = "idle"
     THEN [requests EXCEPT ![k] = Begin(k, page, token)] ELSE requests

\* App's effect: without a token in the store only public pages stay.
Guarded(page, token) ==
  IF token = None /\ page \notin PublicPaths THEN "/login" ELSE page

Connecting == [pc |-> "connecting", tok |-> None, behind |-> FALSE]
Waiting == [pc |-> "waiting", tok |-> None, behind |-> FALSE]

Fault == /\ used.faults < MaxFaults
         /\ used' = [used EXCEPT !.faults = @ + 1]

\* Requests and greetings under way when another token is stored.
Overtaken(requests) ==
  [t \in Tabs |-> [requests[t] EXCEPT !["data"].behind =
                                        requests[t]["data"].pc = "sent"]]
OvertakenSockets ==
  [t \in Tabs |-> [socket[t] EXCEPT !.behind = socket[t].pc = "greeting"]]

\* A fresh document: the store is created from localStorage, App and its page
\* mount and ask, the hub opens its socket.
Load(t, page, token) ==
  LET path == Guarded(page, token) IN
  /\ doc' = [doc EXCEPT ![t] = [held |-> token, path |-> path, error |-> FALSE]]
  /\ req' = [req EXCEPT ![t] = Mounted(Mounted(NoRequests, page, token), path, token)]
  /\ socket' = [socket EXCEPT ![t] = Connecting]

\* In-app navigation of t, requests being rs: nothing is aborted.
Navigate(t, page, held, token, rs) ==
  LET path == Guarded(page, held) IN
  /\ doc' = [doc EXCEPT ![t] = [held |-> held, path |-> path, error |-> FALSE]]
  /\ req' = [rs EXCEPT ![t] =
               IF path = doc[t].path THEN @ ELSE Mounted(@, path, token)]

\* The answer to a refused request: forget the token, go to /login.
SentToLogin(t) ==
  /\ stored' = None
  /\ Load(t, "/login", None)
  /\ cause' = [cause EXCEPT ![t] = FALSE]
  /\ UNCHANGED <<clock, hasUsers, used, signedOut>>

\* Any token may be found in storage: of an earlier visit, expired or not.
Init ==
  /\ stored \in {None} \cup 1..Life
  /\ clock = 1
  /\ hasUsers \in BOOLEAN
  /\ doc = [t \in Tabs |-> [held |-> stored, error |-> FALSE,
                            path |-> Guarded("/", stored)]]
  /\ req = [t \in Tabs |-> Mounted(Mounted(NoRequests, "/", stored),
                                   Guarded("/", stored), stored)]
  /\ socket = [t \in Tabs |-> Connecting]
  /\ used = [visits |-> 0, submits |-> 0, faults |-> 0,
             backups |-> 0]
  /\ cause = [t \in Tabs |-> TRUE]
  /\ signedOut = FALSE

-----------------------------------------------------------------------------
\* The user loads, or reloads, a page.
Visit(t, page) ==
  /\ used.visits < MaxVisits
  /\ used' = [used EXCEPT !.visits = @ + 1]
  /\ Load(t, page, stored)
  /\ cause' = [cause EXCEPT ![t] = TRUE]
  /\ UNCHANGED <<stored, clock, hasUsers, signedOut>>

\* A query, a poll or a mutation of a protected page.
DataRequest(t) ==
  /\ doc[t].path \notin PublicPaths
  /\ req[t]["data"].pc = "idle"
  /\ req' = [req EXCEPT ![t]["data"] = Begin("data", "/", stored)]
  /\ UNCHANGED <<stored, doc, socket, clock, hasUsers, used, cause, signedOut>>

\* POST /refresh is answered: the new token goes to localStorage, whatever is
\* there by now, and not to the store; then the request itself goes out.
RefreshOk(t, k) ==
  LET r == req[t][k] IN
  /\ r.pc = "refresh"
  /\ Valid(r.tok)
  /\ stored' = NewToken
  /\ req' = [Overtaken(req) EXCEPT ![t][k] =
               [r EXCEPT !.pc = "sent", !.tok = Carried(k, NewToken), !.behind = FALSE]]
  /\ socket' = OvertakenSockets
  /\ cause' = [u \in Tabs |-> TRUE]
  /\ UNCHANGED <<doc, clock, hasUsers, used, signedOut>>

\* Mutant: the token is read before the refresh is awaited.
RefreshFailsOldToken(t, k) ==
  LET r == req[t][k] IN
  /\ r.pc = "refresh"
  /\ IF Valid(r.tok) THEN Fault ELSE UNCHANGED used
  /\ req' = [req EXCEPT ![t][k] =
               [r EXCEPT !.pc = "sent", !.tok = Carried(k, r.tok), !.behind = FALSE]]
  /\ UNCHANGED <<stored, doc, socket, clock, hasUsers, cause, signedOut>>

\* Refused (the token has expired) or failed: the request goes out with what is
\* in localStorage then.
RefreshFails(t, k) ==
  LET r == req[t][k] IN
  /\ r.pc = "refresh"
  /\ IF Valid(r.tok) THEN Fault ELSE UNCHANGED used
  /\ req' = [req EXCEPT ![t][k] =
               [r EXCEPT !.pc = "sent", !.tok = Carried(k, stored), !.behind = FALSE]]
  /\ UNCHANGED <<stored, doc, socket, clock, hasUsers, cause, signedOut>>

DataOk(t) ==
  /\ req[t]["data"].pc = "sent"
  /\ Valid(req[t]["data"].tok)
  /\ req' = [req EXCEPT ![t]["data"] = Idle]
  /\ UNCHANGED <<stored, doc, socket, clock, hasUsers, used, cause, signedOut>>

\* Mutant: a refused request sends to /login and leaves the token.
DataUnauthorizedKeeps(t) ==
  /\ req[t]["data"].pc = "sent"
  /\ ~Valid(req[t]["data"].tok)
  /\ Load(t, "/login", stored)
  /\ cause' = [cause EXCEPT ![t] = FALSE]
  /\ UNCHANGED <<stored, clock, hasUsers, used, signedOut>>

DataUnauthorized(t) ==
  /\ req[t]["data"].pc = "sent"
  /\ ~Valid(req[t]["data"].tok)
  /\ SentToLogin(t)

\* fetch rejects; the caller shows or swallows the error.
Lost(t, k) ==
  /\ k \in {"data", "status"}
  /\ req[t][k].pc = "sent"
  /\ Fault
  /\ req' = [req EXCEPT ![t][k] = Idle]
  /\ UNCHANGED <<stored, doc, socket, clock, hasUsers, cause, signedOut>>

\* setupStatus: the page that asked sends the user to the other one, wherever
\* the user is by now.  The server answered at some moment since the request.
StatusAnswer(t) ==
  LET r == req[t]["status"]
      rest == [req EXCEPT ![t]["status"] = Idle] IN
  /\ r.pc = "sent"
  /\ \E has \in {r.seen, hasUsers} :
       IF r.page = "/login" /\ ~has
       THEN Navigate(t, "/register", doc[t].held, stored, rest)
       ELSE IF r.page = "/register" /\ has
       THEN Navigate(t, "/login", doc[t].held, stored, rest)
       ELSE req' = rest /\ UNCHANGED doc
  /\ UNCHANGED <<stored, socket, clock, hasUsers, used, cause, signedOut>>

-----------------------------------------------------------------------------
\* The forms.  The button is disabled while the form's request is under way.
Submit(t, k, page) ==
  /\ doc[t].path = page
  /\ req[t][k].pc = "idle"
  /\ used.submits < MaxSubmits
  /\ used' = [used EXCEPT !.submits = @ + 1]
  /\ req' = [req EXCEPT ![t][k] = Begin(k, page, stored)]
  /\ doc' = [doc EXCEPT ![t].error = FALSE]
  /\ cause' = [cause EXCEPT ![t] = TRUE]
  /\ UNCHANGED <<stored, socket, clock, hasUsers, signedOut>>

SubmitLogin(t) == Submit(t, "login", "/login")

SubmitRegister(t) == Submit(t, "register", "/register")

\* setToken(token); navigate("/").
SignedIn(t, k) ==
  /\ stored' = NewToken
  /\ Navigate(t, "/", NewToken, NewToken,
              [Overtaken(req) EXCEPT ![t][k] = Idle])
  /\ socket' = OvertakenSockets
  /\ cause' = [u \in Tabs |-> TRUE]
  /\ signedOut' = FALSE
  /\ UNCHANGED <<clock, used>>

LoginOk(t) ==
  /\ req[t]["login"].pc = "sent"
  /\ hasUsers
  /\ SignedIn(t, "login")
  /\ UNCHANGED hasUsers

\* Wrong user or password: the server says 401, as it does to a bad token.
LoginWrong(t) ==
  /\ req[t]["login"].pc = "sent"
  /\ SentToLogin(t)

\* The other refusals (too many attempts, no connection) are caught by the
\* form, which shows them.
FormError(t, k) ==
  /\ req' = [req EXCEPT ![t][k] = Idle]
  /\ doc' = [doc EXCEPT ![t].error = doc[t].path = req[t][k].page]
  /\ UNCHANGED <<stored, socket, clock, hasUsers, cause, signedOut>>

LoginRefused(t) ==
  /\ req[t]["login"].pc = "sent"
  /\ Fault
  /\ FormError(t, "login")

\* handleSetupRegister looks for users, hashes the password, then stores the
\* user: one who looked early enough registers.
RegisterServed(t) ==
  /\ req[t]["register"].pc = "sent"
  /\ ~req[t]["register"].seen
  /\ hasUsers' = TRUE
  /\ req' = [req EXCEPT ![t]["register"].pc = "served"]
  /\ UNCHANGED <<stored, doc, socket, clock, used, cause, signedOut>>

RegisterOk(t) ==
  /\ req[t]["register"].pc = "served"
  /\ SignedIn(t, "register")
  /\ UNCHANGED hasUsers

RegisterRefused(t) ==
  /\ \/ req[t]["register"].pc = "sent" /\ hasUsers /\ UNCHANGED used
     \/ req[t]["register"].pc \in {"sent", "served"} /\ Fault
  /\ FormError(t, "register")

-----------------------------------------------------------------------------
\* The header of a protected page.
NoRefreshUnderWay == \A u \in Tabs, k \in Kinds : req[u][k].pc # "refresh"

\* Mutant: only the store forgets the token.
LogoutStoreOnly(t) ==
  /\ doc[t].path \notin PublicPaths
  /\ doc[t].held # None
  /\ stored' = stored
  /\ Navigate(t, "/login", None, stored', req)
  /\ signedOut' = NoRefreshUnderWay
  /\ UNCHANGED <<socket, clock, hasUsers, used, cause>>

Logout(t) ==
  /\ doc[t].path \notin PublicPaths
  /\ doc[t].held # None
  /\ stored' = None
  /\ Navigate(t, "/login", None, stored', req)
  /\ signedOut' = NoRefreshUnderWay
  /\ UNCHANGED <<socket, clock, hasUsers, used, cause>>

\* triggerBackup sends the token of the store and does not refresh it.
TriggerBackup(t) ==
  /\ doc[t].path \notin PublicPaths
  /\ doc[t].held # None
  /\ req[t]["backup"].pc \in {"idle", "error"}
  /\ used.backups < MaxBackups
  /\ used' = [used EXCEPT !.backups = @ + 1]
  /\ req' = [req EXCEPT ![t]["backup"] =
               [Begin("backup", "/", doc[t].held) EXCEPT !.pc = "sent"]]
  /\ UNCHANGED <<stored, doc, socket, clock, hasUsers, cause, signedOut>>

\* A refused backup is shown for three seconds and does not end the session.
BackupAnswer(t) ==
  LET r == req[t]["backup"] IN
  /\ r.pc = "sent"
  /\ req' = [req EXCEPT ![t]["backup"] =
               IF Valid(r.tok) THEN Idle ELSE [Idle EXCEPT !.pc = "error"]]
  /\ UNCHANGED <<stored, doc, socket, clock, hasUsers, used, cause, signedOut>>

BackupErrorFades(t) ==
  /\ req[t]["backup"].pc = "error"
  /\ req' = [req EXCEPT ![t]["backup"] = Idle]
  /\ UNCHANGED <<stored, doc, socket, clock, hasUsers, used, cause, signedOut>>

\* Mutant: without a token the socket is given up.
SocketOpensGivesUp(t) ==
  /\ socket[t].pc = "connecting"
  /\ socket' = [socket EXCEPT ![t] =
       IF stored = None THEN [Waiting EXCEPT !.pc = "none"]
       ELSE [pc |-> "greeting", tok |-> stored, behind |-> FALSE]]
  /\ UNCHANGED <<stored, doc, req, clock, hasUsers, used, cause, signedOut>>

-----------------------------------------------------------------------------
\* The websocket.  It reads localStorage when it opens; without a token it
\* closes itself and tries again two seconds later.
SocketOpens(t) ==
  /\ socket[t].pc = "connecting"
  /\ socket' = [socket EXCEPT ![t] =
       IF stored = None THEN Waiting
       ELSE [pc |-> "greeting", tok |-> stored, behind |-> FALSE]]
  /\ UNCHANGED <<stored, doc, req, clock, hasUsers, used, cause, signedOut>>

\* handleWS: the token is checked once, when the connection greets.
SocketAccepted(t) ==
  /\ socket[t].pc = "greeting"
  /\ Valid(socket[t].tok)
  /\ socket' = [socket EXCEPT ![t] = [pc |-> "live", tok |-> None, behind |-> FALSE]]
  /\ UNCHANGED <<stored, doc, req, clock, hasUsers, used, cause, signedOut>>

\* Close code 4001.
SocketRejected(t) ==
  /\ socket[t].pc = "greeting"
  /\ ~Valid(socket[t].tok)
  /\ SentToLogin(t)

\* The connection is lost: network, server restart, missed ping.
SocketDrops(t) ==
  /\ socket[t].pc \in {"connecting", "greeting", "live"}
  /\ Fault
  /\ socket' = [socket EXCEPT ![t] = Waiting]
  /\ UNCHANGED <<stored, doc, req, clock, hasUsers, cause, signedOut>>

Reconnect(t) ==
  /\ socket[t].pc = "waiting"
  /\ socket' = [socket EXCEPT ![t] = Connecting]
  /\ UNCHANGED <<stored, doc, req, clock, hasUsers, used, cause, signedOut>>

Tick ==
  /\ clock < MaxClock
  /\ clock' = clock + 1
  /\ UNCHANGED <<stored, doc, req, socket, hasUsers, used, cause, signedOut>>

-----------------------------------------------------------------------------
User(t) ==
  \/ \E page \in Paths : Visit(t, page)
  \/ DataRequest(t) \/ SubmitLogin(t) \/ SubmitRegister(t)
  \/ Logout(t) \/ TriggerBackup(t)

Answers(t) ==
  \/ \E k \in Kinds : RefreshOk(t, k) \/ RefreshFails(t, k) \/ Lost(t, k)
  \/ DataOk(t) \/ DataUnauthorized(t) \/ StatusAnswer(t)
  \/ LoginOk(t) \/ LoginWrong(t) \/ LoginRefused(t)
  \/ RegisterServed(t) \/ RegisterOk(t) \/ RegisterRefused(t)
  \/ BackupAnswer(t) \/ BackupErrorFades(t)

Socket(t) ==
  \/ SocketOpens(t) \/ SocketAccepted(t) \/ SocketRejected(t)
  \/ SocketDrops(t) \/ Reconnect(t)

Next == \/ \E t \in Tabs : User(t) \/ Answers(t) \/ Socket(t)
        \/ Tick

\* Connections open or fail, greetings are answered and timers fire.
Fairness ==
  \A t \in Tabs : WF_vars(SocketOpens(t) \/ SocketAccepted(t)
                          \/ SocketRejected(t) \/ Reconnect(t))

Spec == Init /\ [][Next]_vars /\ Fairness
=============================================================================
