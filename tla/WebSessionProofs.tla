--------------------------- MODULE WebSessionProofs ---------------------------
(* Proofs about the session of the web client, for any number of tabs. *)
EXTENDS WebSessionProperties, TLAPS

Request == [pc : {"idle", "refresh", "sent", "served", "error"}, tok : Tokens,
            page : Paths, seen : BOOLEAN, behind : BOOLEAN]

Requests == [Kinds -> Request]

Docs == [held : Tokens, path : Paths, error : BOOLEAN]

Sockets == [pc : {"waiting", "connecting", "greeting", "live"},
            tok : Tokens, behind : BOOLEAN]

-----------------------------------------------------------------------------
\* What request() sends first: a refresh only with a token, a call that carries
\* the token in storage.
LEMMA BeginFacts ==
  ASSUME NEW k \in Kinds, NEW page \in Paths, NEW token \in Tokens,
         hasUsers \in BOOLEAN
  PROVE  /\ Begin(k, page, token) \in Request
         /\ token = None => Begin(k, page, token).pc = "sent"
         /\ k = "data" => Begin(k, page, token).tok = token
<1> DEFINE seen == hasUsers /\ k \in {"status", "register"}
           tok == IF Due(token) THEN token ELSE Carried(k, token)
           pc == IF Due(token) THEN "refresh" ELSE "sent"
<1>1. seen \in BOOLEAN
  OBVIOUS
<1>2. tok \in Tokens /\ (k = "data" => tok = token)
  BY DEF Carried, Tokens
<1>3. pc \in {"refresh", "sent"} /\ (token = None => pc = "sent")
  BY DEF Due
<1>4. Begin(k, page, token) = [pc |-> pc, tok |-> tok, page |-> page,
                               seen |-> seen, behind |-> FALSE]
  BY Zenon DEF Begin
<1> HIDE DEF seen, tok, pc
<1> QED
  BY <1>1, <1>2, <1>3, <1>4 DEF Request

\* A page that mounts asks for one thing, if that is not under way.
LEMMA MountedFacts ==
  ASSUME NEW page \in Paths, NEW token \in Tokens, NEW rs \in Requests,
         hasUsers \in BOOLEAN
  PROVE  /\ Mounted(rs, page, token) \in Requests
         /\ \A k \in Kinds :
              \/ Mounted(rs, page, token)[k] = rs[k]
              \/ /\ k = FirstRequest[page]
                 /\ Mounted(rs, page, token)[k] = Begin(k, page, token)
<1>1. FirstRequest[page] \in Kinds
  BY DEF FirstRequest, Kinds
<1>2. Begin(FirstRequest[page], page, token) \in Request
  BY <1>1, BeginFacts
<1> QED
  BY <1>1, <1>2 DEF Mounted, Requests

LEMMA IdleType == Idle \in Request /\ NoRequests \in Requests
  BY DEF Idle, NoRequests, Request, Requests, Tokens, Paths

LEMMA GuardedType ==
  ASSUME NEW page \in Paths, NEW token
  PROVE  Guarded(page, token) \in Paths
  BY DEF Guarded, Paths, PublicPaths

\* A fresh document.
LEMMA LoadFacts ==
  ASSUME NEW t \in Tabs, NEW page \in Paths, NEW token \in Tokens, TypeOK,
         Load(t, page, token)
  PROVE  /\ doc' \in [Tabs -> Docs]
         /\ req' \in [Tabs -> Requests]
         /\ socket' \in [Tabs -> Sockets]
         /\ \A u \in Tabs \ {t} : /\ doc'[u] = doc[u] /\ req'[u] = req[u]
                                  /\ socket'[u] = socket[u]
         /\ socket'[t] = Connecting
         /\ doc'[t].path = Guarded(page, token)
         /\ \A k \in Kinds :
              \/ req'[t][k] = Idle
              \/ req'[t][k] = Begin(k, page, token) /\ k = FirstRequest[page]
              \/ /\ req'[t][k] = Begin(k, Guarded(page, token), token)
                 /\ k = FirstRequest[Guarded(page, token)]
<1> DEFINE path == Guarded(page, token)
           one == Mounted(NoRequests, page, token)
           two == Mounted(one, path, token)
<1>0. hasUsers \in BOOLEAN
  BY DEF TypeOK
<1>1. path \in Paths
  BY GuardedType
<1>2. one \in Requests /\ \A k \in Kinds : \/ one[k] = NoRequests[k]
                                           \/ k = FirstRequest[page] /\ one[k] = Begin(k, page, token)
  BY <1>0, IdleType, MountedFacts
<1>3. two \in Requests /\ \A k \in Kinds : \/ two[k] = one[k]
                                           \/ k = FirstRequest[path] /\ two[k] = Begin(k, path, token)
  <2> HIDE DEF one
  <2> QED BY <1>0, <1>1, <1>2, MountedFacts
<1>4. \A k \in Kinds : NoRequests[k] = Idle
  BY DEF NoRequests
<1>5. req' = [req EXCEPT ![t] = two]
  BY DEF Load
<1>6. req \in [Tabs -> Requests] /\ doc \in [Tabs -> Docs] /\ socket \in [Tabs -> Sockets]
  BY DEF TypeOK, Requests, Request, Docs, Sockets
<1>7. req' \in [Tabs -> Requests] /\ req'[t] = two /\ \A u \in Tabs \ {t} : req'[u] = req[u]
  <2> HIDE DEF two
  <2> QED BY <1>3, <1>5, <1>6
<1>8. /\ doc' \in [Tabs -> Docs] /\ doc'[t].path = path
      /\ \A u \in Tabs \ {t} : doc'[u] = doc[u]
  <2>1. doc' = [doc EXCEPT ![t] = [held |-> token, path |-> path, error |-> FALSE]]
    BY DEF Load
  <2> HIDE DEF path
  <2> QED BY <2>1, <1>1, <1>6 DEF Docs
<1>9. /\ socket' \in [Tabs -> Sockets] /\ socket'[t] = Connecting
      /\ \A u \in Tabs \ {t} : socket'[u] = socket[u]
  <2>1. Connecting \in Sockets
    BY DEF Connecting, Sockets, Tokens
  <2> QED BY <2>1, <1>6 DEF Load
<1> HIDE DEF one, two
<1> QED
  BY <1>2, <1>3, <1>4, <1>7, <1>8, <1>9

\* In-app navigation: the page that opens may ask for one thing.
LEMMA NavigateFacts ==
  ASSUME NEW t \in Tabs, NEW page \in Paths, NEW held \in Tokens,
         NEW token \in Tokens, NEW rs \in [Tabs -> Requests], TypeOK,
         Navigate(t, page, held, token, rs)
  PROVE  /\ doc' \in [Tabs -> Docs]
         /\ req' \in [Tabs -> Requests]
         /\ \A u \in Tabs \ {t} : doc'[u] = doc[u] /\ req'[u] = rs[u]
         /\ doc'[t].path = Guarded(page, held)
         /\ \A k \in Kinds :
              \/ req'[t][k] = rs[t][k]
              \/ /\ k = FirstRequest[Guarded(page, held)]
                 /\ req'[t][k] = Begin(k, Guarded(page, held), token)
<1> DEFINE path == Guarded(page, held)
           new == IF path = doc[t].path THEN rs[t] ELSE Mounted(rs[t], path, token)
<1>1. path \in Paths
  BY GuardedType
<1>2. doc \in [Tabs -> Docs] /\ hasUsers \in BOOLEAN
  BY DEF TypeOK, Docs
<1>3. /\ new \in Requests
      /\ \A k \in Kinds : \/ new[k] = rs[t][k]
                          \/ k = FirstRequest[path] /\ new[k] = Begin(k, path, token)
  <2>1. rs[t] \in Requests
    OBVIOUS
  <2> HIDE DEF path
  <2> QED BY <1>1, <1>2, <2>1, MountedFacts
<1>4. req' = [rs EXCEPT ![t] = new]
  BY DEF Navigate
<1>5. req' \in [Tabs -> Requests] /\ req'[t] = new /\ \A u \in Tabs \ {t} : req'[u] = rs[u]
  <2> HIDE DEF new
  <2> QED BY <1>3, <1>4
<1>6. /\ doc' \in [Tabs -> Docs] /\ doc'[t].path = path
      /\ \A u \in Tabs \ {t} : doc'[u] = doc[u]
  <2>1. doc' = [doc EXCEPT ![t] = [held |-> held, path |-> path, error |-> FALSE]]
    BY DEF Navigate
  <2> HIDE DEF path
  <2> QED BY <2>1, <1>1, <1>2 DEF Docs
<1> HIDE DEF new
<1> QED
  BY <1>3, <1>5, <1>6

\* One request of one tab changes.
LEMMA PutFacts ==
  ASSUME NEW t \in Tabs, NEW k \in Kinds, NEW r \in Request,
         NEW rs \in [Tabs -> Requests]
  PROVE  /\ [rs EXCEPT ![t][k] = r] \in [Tabs -> Requests]
         /\ \A u \in Tabs, j \in Kinds :
              [rs EXCEPT ![t][k] = r][u][j] = IF u = t /\ j = k THEN r ELSE rs[u][j]
  BY DEF Requests

\* A new token marks the requests that went out without it.
LEMMA OvertakenFacts ==
  ASSUME NEW rs \in [Tabs -> Requests]
  PROVE  /\ Overtaken(rs) \in [Tabs -> Requests]
         /\ \A u \in Tabs, j \in Kinds :
              /\ Overtaken(rs)[u][j].pc = rs[u][j].pc
              /\ Overtaken(rs)[u][j].tok = rs[u][j].tok
         /\ \A u \in Tabs : rs[u]["data"].pc = "sent"
                              => Overtaken(rs)[u]["data"].behind
<1>1. ASSUME NEW u \in Tabs
      PROVE  /\ Overtaken(rs)[u] \in Requests
             /\ \A j \in Kinds : /\ Overtaken(rs)[u][j].pc = rs[u][j].pc
                                 /\ Overtaken(rs)[u][j].tok = rs[u][j].tok
             /\ rs[u]["data"].pc = "sent" => Overtaken(rs)[u]["data"].behind
  <2> DEFINE b == rs[u]["data"].pc = "sent"
  <2>1. Overtaken(rs)[u] = [rs[u] EXCEPT !["data"].behind = b]
    BY DEF Overtaken
  <2>2. b \in BOOLEAN /\ "data" \in Kinds /\ rs[u] \in Requests
    BY DEF Kinds
  <2>3. rs[u]["data"].pc = "sent" => b
    OBVIOUS
  <2> HIDE DEF b
  <2> QED
    BY <2>1, <2>2, <2>3 DEF Requests, Request
<1>2. Overtaken(rs) = [u \in Tabs |-> Overtaken(rs)[u]]
  BY DEF Overtaken
<1> QED
  BY <1>1, <1>2

LEMMA OvertakenSocketsFacts ==
  ASSUME socket \in [Tabs -> Sockets]
  PROVE  /\ OvertakenSockets \in [Tabs -> Sockets]
         /\ \A u \in Tabs : /\ OvertakenSockets[u].pc = socket[u].pc
                            /\ socket[u].pc = "greeting" => OvertakenSockets[u].behind
<1>1. ASSUME NEW u \in Tabs
      PROVE  /\ OvertakenSockets[u] \in Sockets
             /\ OvertakenSockets[u].pc = socket[u].pc
             /\ socket[u].pc = "greeting" => OvertakenSockets[u].behind
  <2> DEFINE b == socket[u].pc = "greeting"
  <2>1. OvertakenSockets[u] = [socket[u] EXCEPT !.behind = b]
    BY DEF OvertakenSockets
  <2>2. b \in BOOLEAN
    OBVIOUS
  <2>3. socket[u].pc = "greeting" => b
    OBVIOUS
  <2> HIDE DEF b
  <2> QED
    BY <2>1, <2>2, <2>3 DEF Sockets
<1>2. OvertakenSockets = [u \in Tabs |-> OvertakenSockets[u]]
  BY DEF OvertakenSockets
<1> QED
  BY <1>1, <1>2

-----------------------------------------------------------------------------
(***************************************************************************)
(* The inductive invariant.  That no token comes back after a logout needs *)
(* that no refresh can start without a token (OutInv); that a tab is not   *)
(* sent to /login twice needs that everything the server could refuse is   *)
(* gone once it was (CalmInv); that a valid token is kept needs that what  *)
(* is under way carries the stored token or was overtaken by it            *)
(* (FreshInv).                                                             *)
(***************************************************************************)
OutInv == signedOut => stored = None /\ NoRefreshUnderWay

Calm(t) == /\ stored = None
           /\ doc[t].path \in PublicPaths
           /\ req[t]["data"].pc = "idle" /\ req[t]["login"].pc = "idle"
           /\ socket[t].pc # "greeting"

CalmInv == \A t \in Tabs : ~cause[t] => Calm(t)

Fresh(t) == /\ req[t]["data"].pc = "sent" /\ ~req[t]["data"].behind
                 => stored \in {None, req[t]["data"].tok}
            /\ socket[t].pc = "greeting" /\ ~socket[t].behind
                 => stored \in {None, socket[t].tok}

FreshInv == \A t \in Tabs : Fresh(t)

SessionInv == TypeOK /\ OutInv /\ CalmInv /\ FreshInv

USE DEF Kinds

LEMMA Shapes ==
  TypeOK <=> /\ stored \in Tokens /\ clock \in Nat
             /\ doc \in [Tabs -> Docs] /\ req \in [Tabs -> Requests]
             /\ socket \in [Tabs -> Sockets]
             /\ hasUsers \in BOOLEAN /\ signedOut \in BOOLEAN
             /\ used \in [visits : Nat, submits : Nat, faults : Nat, backups : Nat]
             /\ cause \in [Tabs -> BOOLEAN]
  BY DEF TypeOK, Docs, Requests, Request, Sockets

LEMMA ShapesNext ==
  ASSUME stored' \in Tokens, clock' \in Nat,
         doc' \in [Tabs -> Docs], req' \in [Tabs -> Requests],
         socket' \in [Tabs -> Sockets],
         hasUsers' \in BOOLEAN, signedOut' \in BOOLEAN,
         used' \in [visits : Nat, submits : Nat, faults : Nat, backups : Nat],
         cause' \in [Tabs -> BOOLEAN]
  PROVE  TypeOK'
  BY DEF TypeOK, Docs, Requests, Request, Sockets

LEMMA NewTokenType == TypeOK => NewToken \in Nat /\ NewToken \in Tokens /\ NewToken # None
  BY SessionBounds, NoneIsNoToken DEF TypeOK, NewToken, Tokens

LEMMA FaultType ==
  ASSUME TypeOK, Fault
  PROVE  used' \in [visits : Nat, submits : Nat, faults : Nat, backups : Nat]
  BY DEF TypeOK, Fault

LEMMA FirstRequestKinds ==
  /\ FirstRequest["/"] = "data"
  /\ FirstRequest["/login"] = "status" /\ FirstRequest["/register"] = "status"
  BY DEF FirstRequest, Paths, PublicPaths

LEMMA InitSession == Init => SessionInv
<1> SUFFICES ASSUME Init PROVE SessionInv
  OBVIOUS
<1>1. /\ stored \in Tokens /\ clock = 1 /\ hasUsers \in BOOLEAN
      /\ signedOut = FALSE /\ cause = [t \in Tabs |-> TRUE]
  BY SessionBounds DEF Init, Tokens
<1> DEFINE path == Guarded("/", stored)
           one == Mounted(NoRequests, "/", stored)
           two == Mounted(one, path, stored)
<1>2. path \in Paths /\ "/" \in Paths
  BY GuardedType DEF Paths
<1>3. one \in Requests /\ \A k \in Kinds : \/ one[k] = Idle
                                           \/ one[k] = Begin(k, "/", stored)
  BY <1>1, <1>2, IdleType, MountedFacts DEF NoRequests
<1>4. two \in Requests /\ \A k \in Kinds : \/ two[k] = one[k]
                                           \/ two[k] = Begin(k, path, stored)
  <2> HIDE DEF one, path
  <2> QED BY <1>1, <1>2, <1>3, MountedFacts
<1>5. req = [t \in Tabs |-> two] /\ socket = [t \in Tabs |-> Connecting]
  BY DEF Init
<1>6. doc = [t \in Tabs |-> [held |-> stored, error |-> FALSE, path |-> path]]
  BY DEF Init
<1>7. TypeOK
  <2>1. Connecting \in Sockets
    BY DEF Connecting, Sockets, Tokens
  <2>2. [held |-> stored, error |-> FALSE, path |-> path] \in Docs
    BY <1>1, <1>2 DEF Docs
  <2>3. used \in [visits : Nat, submits : Nat, faults : Nat, backups : Nat]
    BY DEF Init
  <2> HIDE DEF two, path
  <2> QED BY <1>1, <1>4, <1>5, <1>6, <2>1, <2>2, <2>3, Shapes
<1>8. FreshInv
  <2>1. two["data"].pc = "sent" => two["data"].tok = stored
    <3> HIDE DEF one, two, path
    <3>1. Begin("data", "/", stored).tok = stored /\ Begin("data", path, stored).tok = stored
      BY <1>1, <1>2, BeginFacts
    <3>2. Idle.pc = "idle"
      BY DEF Idle
    <3> QED BY <1>3, <1>4, <3>1, <3>2
  <2> HIDE DEF two
  <2> QED BY <1>5, <2>1 DEF FreshInv, Fresh, Connecting
<1> QED
  BY <1>1, <1>7, <1>8 DEF SessionInv, OutInv, CalmInv

-----------------------------------------------------------------------------
Counters == [visits : Nat, submits : Nat, faults : Nat, backups : Nat]

\* A step that changes one request, and perhaps the error a page shows.
LEMMA PutKeeps ==
  ASSUME SessionInv, NEW t \in Tabs, NEW k \in Kinds, NEW r \in Request,
         req' = [req EXCEPT ![t][k] = r],
         UNCHANGED <<stored, socket, clock, signedOut>>,
         hasUsers' \in BOOLEAN, used' \in Counters,
         doc' \in [Tabs -> Docs], \A u \in Tabs : doc'[u].path = doc[u].path,
         cause' \in [Tabs -> BOOLEAN],
         \A u \in Tabs : cause[u] => cause'[u],
         \A u \in Tabs : cause'[u] => cause[u] \/ u = t,
         r.pc = "refresh" => stored # None,
         ~cause'[t] /\ k \in {"data", "login"} => r.pc = "idle",
         k = "data" /\ r.pc = "sent" => stored \in {None, r.tok}
  PROVE  SessionInv'
<1>1. /\ req \in [Tabs -> Requests] /\ stored \in Tokens /\ clock \in Nat
      /\ socket \in [Tabs -> Sockets] /\ signedOut \in BOOLEAN
  BY Shapes DEF SessionInv
<1>2. /\ req' \in [Tabs -> Requests]
      /\ \A u \in Tabs, j \in Kinds :
           req'[u][j] = IF u = t /\ j = k THEN r ELSE req[u][j]
  BY <1>1 DEF Requests
<1>3. TypeOK'
  <2>1. stored' \in Tokens /\ clock' \in Nat /\ socket' \in [Tabs -> Sockets]
    BY <1>1
  <2>2. signedOut' \in BOOLEAN
    BY <1>1
  <2>3. used' \in [visits : Nat, submits : Nat, faults : Nat, backups : Nat]
    BY DEF Counters
  <2> QED
    BY <1>2, <2>1, <2>2, <2>3, ShapesNext
<1>4. OutInv'
  BY <1>2 DEF SessionInv, OutInv, NoRefreshUnderWay
<1>5. CalmInv'
  <2> SUFFICES ASSUME NEW u \in Tabs, ~cause'[u] PROVE Calm(u)'
    BY DEF CalmInv
  <2>1. Calm(u)
    BY DEF SessionInv, CalmInv
  <2> QED
    BY <2>1, <1>2 DEF Calm
<1>6. FreshInv'
  <2> SUFFICES ASSUME NEW u \in Tabs PROVE Fresh(u)'
    BY DEF FreshInv
  <2>1. Fresh(u)
    BY DEF SessionInv, FreshInv
  <2>2. CASE u = t /\ k = "data"
    BY <2>1, <2>2, <1>2 DEF Fresh
  <2>3. CASE ~(u = t /\ k = "data")
    <3>1. req'[u]["data"] = req[u]["data"]
      BY <2>3, <1>2
    <3> QED
      BY <2>1, <3>1 DEF Fresh
  <2> QED
    BY <2>2, <2>3
<1> QED
  BY <1>3, <1>4, <1>5, <1>6 DEF SessionInv

\* A step of one socket: it greets only with the token in storage.
LEMMA SocketKeeps ==
  ASSUME SessionInv, NEW t \in Tabs, NEW s \in Sockets,
         socket' = [socket EXCEPT ![t] = s],
         UNCHANGED <<stored, doc, req, clock, hasUsers, cause, signedOut>>,
         used' \in Counters,
         s.pc = "greeting" => stored # None /\ s.tok = stored
  PROVE  SessionInv'
<1>1. /\ socket \in [Tabs -> Sockets] /\ req \in [Tabs -> Requests]
      /\ stored \in Tokens /\ clock \in Nat /\ doc \in [Tabs -> Docs]
      /\ hasUsers \in BOOLEAN /\ signedOut \in BOOLEAN
      /\ cause \in [Tabs -> BOOLEAN]
  BY Shapes DEF SessionInv
<1>2. TypeOK'
  BY <1>1, ShapesNext DEF Counters
<1>3. OutInv'
  BY DEF SessionInv, OutInv, NoRefreshUnderWay
<1>4. CalmInv'
  BY <1>1 DEF SessionInv, CalmInv, Calm
<1>5. FreshInv'
  BY <1>1 DEF SessionInv, FreshInv, Fresh
<1> QED
  BY <1>2, <1>3, <1>4, <1>5 DEF SessionInv

\* A fresh document of one tab: with the token in storage, or, when the server
\* has refused one, with none.
LEMMA LoadKeeps ==
  ASSUME SessionInv, NEW t \in Tabs, NEW page \in Paths, NEW token \in Tokens,
         Load(t, page, token), stored' = token, token \in {stored, None},
         UNCHANGED <<clock, hasUsers, signedOut>>, used' \in Counters,
         NEW b \in BOOLEAN, cause' = [cause EXCEPT ![t] = b],
         b \/ (token = None /\ page = "/login")
  PROVE  SessionInv'
<1>1. /\ TypeOK /\ stored \in Tokens /\ clock \in Nat /\ hasUsers \in BOOLEAN
      /\ signedOut \in BOOLEAN /\ cause \in [Tabs -> BOOLEAN]
  BY Shapes DEF SessionInv
<1> DEFINE path == Guarded(page, token)
<1>2. path \in Paths
  BY GuardedType
<1>3. /\ doc' \in [Tabs -> Docs]
      /\ req' \in [Tabs -> Requests]
      /\ socket' \in [Tabs -> Sockets]
      /\ \A u \in Tabs \ {t} : /\ doc'[u] = doc[u] /\ req'[u] = req[u]
                               /\ socket'[u] = socket[u]
      /\ socket'[t] = Connecting
      /\ doc'[t].path = path
      /\ \A k \in Kinds :
           \/ req'[t][k] = Idle
           \/ req'[t][k] = Begin(k, page, token) /\ k = FirstRequest[page]
           \/ req'[t][k] = Begin(k, path, token) /\ k = FirstRequest[path]
  BY <1>1, LoadFacts
<1> HIDE DEF path
<1>4. TypeOK'
  BY <1>1, <1>3, ShapesNext DEF Counters
<1>5. Idle.pc = "idle" /\ Connecting.pc = "connecting"
  BY DEF Idle, Connecting
<1>6. \A k \in Kinds, p \in Paths :
        /\ token = None => Begin(k, p, token).pc = "sent"
        /\ k = "data" => Begin(k, p, token).tok = token
  BY <1>1, BeginFacts
<1>7. OutInv'
  <2> SUFFICES ASSUME signedOut PROVE stored' = None /\ NoRefreshUnderWay'
    BY DEF OutInv
  <2>1. stored = None /\ NoRefreshUnderWay
    BY DEF SessionInv, OutInv
  <2>2. ASSUME NEW u \in Tabs, NEW k \in Kinds PROVE req'[u][k].pc # "refresh"
    BY <2>1, <1>2, <1>3, <1>5, <1>6 DEF NoRefreshUnderWay
  <2> QED
    BY <2>1, <2>2 DEF NoRefreshUnderWay
<1>8. CalmInv'
  <2> SUFFICES ASSUME NEW u \in Tabs, ~cause'[u] PROVE Calm(u)'
    BY DEF CalmInv
  <2>1. CASE u = t
    <3>1. token = None /\ page = "/login" /\ path = "/login"
      BY <2>1, <1>1 DEF path, Guarded, PublicPaths
    <3>2. FirstRequest[page] = "status" /\ FirstRequest[path] = "status"
      BY <3>1, FirstRequestKinds
    <3> QED
      BY <2>1, <3>1, <3>2, <1>3, <1>5 DEF Calm, PublicPaths
  <2>2. CASE u # t
    <3>1. Calm(u)
      BY <2>2, <1>1 DEF SessionInv, CalmInv
    <3> QED
      BY <2>2, <3>1, <1>3 DEF Calm
  <2> QED
    BY <2>1, <2>2
<1>9. FreshInv'
  <2> SUFFICES ASSUME NEW u \in Tabs PROVE Fresh(u)'
    BY DEF FreshInv
  <2>1. Fresh(u)
    BY DEF SessionInv, FreshInv
  <2>2. CASE u = t
    BY <2>2, <1>2, <1>3, <1>5, <1>6 DEF Fresh
  <2>3. CASE u # t
    BY <2>1, <2>3, <1>3 DEF Fresh
  <2> QED
    BY <2>2, <2>3
<1> QED
  BY <1>4, <1>7, <1>8, <1>9 DEF SessionInv

\* A step to another page, with storage left alone or cleared by a logout.
LEMMA NavigateKeeps ==
  ASSUME SessionInv, NEW t \in Tabs, NEW page \in PublicPaths,
         NEW held \in Tokens, NEW token \in Tokens, NEW rs \in [Tabs -> Requests],
         Navigate(t, page, held, token, rs), stored' = token,
         token \in {stored, None},
         UNCHANGED <<socket, clock, hasUsers, cause, used>>,
         \A u \in Tabs, k \in Kinds : rs[u][k] = req[u][k] \/ (u = t /\ rs[u][k] = Idle),
         signedOut' \in BOOLEAN,
         signedOut' => token = None /\ NoRefreshUnderWay
  PROVE  SessionInv'
<1>1. /\ TypeOK /\ stored \in Tokens /\ clock \in Nat /\ hasUsers \in BOOLEAN
      /\ socket \in [Tabs -> Sockets] /\ cause \in [Tabs -> BOOLEAN]
      /\ used \in Counters
  BY Shapes DEF SessionInv, Counters
<1>2. Guarded(page, held) = page /\ page \in Paths /\ FirstRequest[page] = "status"
  BY FirstRequestKinds DEF Guarded, Paths, PublicPaths
<1>3. /\ doc' \in [Tabs -> Docs]
      /\ req' \in [Tabs -> Requests]
      /\ \A u \in Tabs \ {t} : doc'[u] = doc[u] /\ req'[u] = rs[u]
      /\ doc'[t].path = page
      /\ \A k \in Kinds :
           \/ req'[t][k] = rs[t][k]
           \/ k = "status" /\ req'[t][k] = Begin(k, page, token)
  BY <1>1, <1>2, NavigateFacts
<1>4. TypeOK'
  <2>1. stored' \in Tokens /\ clock' \in Nat /\ socket' \in [Tabs -> Sockets]
        /\ cause' \in [Tabs -> BOOLEAN]
    BY <1>1
  <2>2. hasUsers' \in BOOLEAN /\ used' \in Counters
    BY <1>1
  <2> QED
    BY <1>3, <2>1, <2>2, ShapesNext DEF Counters
<1>5. Idle.pc = "idle"
  BY DEF Idle
<1>6. token = None => \A k \in Kinds : Begin(k, page, token).pc = "sent"
  BY <1>1, <1>2, BeginFacts
<1>7. OutInv'
  <2> SUFFICES ASSUME signedOut' PROVE stored' = None /\ NoRefreshUnderWay'
    BY DEF OutInv
  <2>1. token = None /\ NoRefreshUnderWay
    OBVIOUS
  <2>2. ASSUME NEW u \in Tabs, NEW k \in Kinds PROVE req'[u][k].pc # "refresh"
    <3>1. rs[u][k].pc # "refresh"
      BY <2>1, <1>5 DEF NoRefreshUnderWay
    <3> QED
      BY <2>1, <3>1, <1>3, <1>6
  <2> QED
    BY <2>1, <2>2 DEF NoRefreshUnderWay
<1>8. \A u \in Tabs, k \in {"data", "login"} :
        req'[u][k] = req[u][k] \/ req'[u][k] = Idle
  BY <1>3
<1>9. CalmInv'
  <2> SUFFICES ASSUME NEW u \in Tabs, ~cause'[u] PROVE Calm(u)'
    BY DEF CalmInv
  <2>1. Calm(u)
    BY DEF SessionInv, CalmInv
  <2>2. doc'[u].path \in PublicPaths
    BY <2>1, <1>3 DEF Calm
  <2> QED
    BY <2>1, <2>2, <1>5, <1>8 DEF Calm
<1>10. FreshInv'
  <2> SUFFICES ASSUME NEW u \in Tabs PROVE Fresh(u)'
    BY DEF FreshInv
  <2>1. Fresh(u)
    BY DEF SessionInv, FreshInv
  <2>2. req'[u]["data"] = req[u]["data"] \/ req'[u]["data"] = Idle
    BY <1>8
  <2> QED
    BY <2>1, <2>2, <1>5 DEF Fresh
<1> QED
  BY <1>4, <1>7, <1>9, <1>10 DEF SessionInv

\* A new token is stored: by a form, with the page it opens, or by a refresh.
\* Everything that went out without it is marked, every tab has a cause again.
LEMMA NewTokenKeeps ==
  ASSUME SessionInv, stored' = NewToken, req' \in [Tabs -> Requests],
         doc' \in [Tabs -> Docs], socket' = OvertakenSockets,
         cause' = [u \in Tabs |-> TRUE], UNCHANGED <<clock, used>>,
         hasUsers' \in BOOLEAN, signedOut' \in BOOLEAN, ~signedOut',
         \A u \in Tabs : req'[u]["data"].pc = "sent" /\ ~req'[u]["data"].behind
                           => req'[u]["data"].tok = NewToken
  PROVE  SessionInv'
<1>1. /\ TypeOK /\ clock \in Nat /\ socket \in [Tabs -> Sockets] /\ used \in Counters
  BY Shapes DEF SessionInv, Counters
<1>2. /\ socket' \in [Tabs -> Sockets]
      /\ \A u \in Tabs : socket'[u].pc = "greeting" => socket'[u].behind
  BY <1>1, OvertakenSocketsFacts
<1>3. stored' \in Tokens
  BY <1>1, NewTokenType
<1>4. TypeOK'
  BY <1>1, <1>2, <1>3, ShapesNext DEF Counters
<1>5. OutInv' /\ CalmInv'
  BY DEF OutInv, CalmInv
<1>6. FreshInv'
  BY <1>2 DEF FreshInv, Fresh
<1> QED
  BY <1>4, <1>5, <1>6 DEF SessionInv

LEMMA SignedInKeeps ==
  ASSUME SessionInv, NEW t \in Tabs, NEW k \in {"login", "register"},
         SignedIn(t, k), hasUsers' \in BOOLEAN
  PROVE  SessionInv'
<1> DEFINE rs == [Overtaken(req) EXCEPT ![t][k] = Idle]
<1>1. /\ TypeOK /\ req \in [Tabs -> Requests]
      /\ NewToken \in Tokens /\ NewToken # None
  BY Shapes, NewTokenType DEF SessionInv
<1>2. /\ Overtaken(req) \in [Tabs -> Requests]
      /\ \A u \in Tabs : /\ Overtaken(req)[u]["data"].pc = req[u]["data"].pc
                         /\ req[u]["data"].pc = "sent" => Overtaken(req)[u]["data"].behind
  BY <1>1, OvertakenFacts
<1>3. /\ rs \in [Tabs -> Requests]
      /\ \A u \in Tabs : rs[u]["data"] = Overtaken(req)[u]["data"]
  <2> DEFINE old == Overtaken(req)
  <2>1. old \in [Tabs -> Requests]
    BY <1>2
  <2>2. rs = [old EXCEPT ![t][k] = Idle]
    OBVIOUS
  <2> HIDE DEF old, rs
  <2>3. /\ rs \in [Tabs -> Requests]
        /\ \A u \in Tabs : rs[u]["data"] = old[u]["data"]
    BY <2>1, <2>2, IdleType DEF Requests
  <2> QED
    BY <2>3 DEF old
<1>4. Navigate(t, "/", NewToken, NewToken, rs)
  BY DEF SignedIn
<1>5. Guarded("/", NewToken) = "/" /\ "/" \in Paths
  BY <1>1 DEF Guarded, Paths
<1> HIDE DEF rs
<1>6. /\ doc' \in [Tabs -> Docs]
      /\ req' \in [Tabs -> Requests]
      /\ \A u \in Tabs \ {t} : req'[u] = rs[u]
      /\ \A j \in Kinds : \/ req'[t][j] = rs[t][j]
                          \/ req'[t][j] = Begin(j, "/", NewToken)
  BY <1>1, <1>3, <1>4, <1>5, NavigateFacts
<1>7. Begin("data", "/", NewToken).tok = NewToken
  BY <1>1, <1>5, BeginFacts DEF TypeOK
<1>8. ASSUME NEW u \in Tabs, req'[u]["data"].pc = "sent", ~req'[u]["data"].behind
      PROVE  req'[u]["data"].tok = NewToken
  BY <1>2, <1>3, <1>6, <1>7, <1>8
<1> QED
  BY <1>6, <1>8, NewTokenKeeps DEF SignedIn

LEMMA RefreshOkKeeps ==
  ASSUME SessionInv, NEW t \in Tabs, NEW k \in Kinds, RefreshOk(t, k)
  PROVE  SessionInv'
<1> DEFINE old == Overtaken(req)
           tok == Carried(k, NewToken)
           r == [req[t][k] EXCEPT !.pc = "sent", !.tok = tok, !.behind = FALSE]
<1>1. /\ TypeOK /\ req \in [Tabs -> Requests] /\ doc \in [Tabs -> Docs]
      /\ hasUsers \in BOOLEAN /\ NewToken \in Tokens
  BY Shapes, NewTokenType DEF SessionInv
<1>2. /\ old \in [Tabs -> Requests]
      /\ \A u \in Tabs : /\ old[u]["data"].pc = req[u]["data"].pc
                         /\ req[u]["data"].pc = "sent" => old[u]["data"].behind
  BY <1>1, OvertakenFacts
<1>3. tok \in Tokens /\ (k = "data" => tok = NewToken)
  BY <1>1 DEF Carried, Tokens
<1>4. r \in Request /\ r.tok = tok
  <2>1. req[t][k] \in Request
    BY <1>1 DEF Requests
  <2> HIDE DEF tok
  <2> QED BY <2>1, <1>3 DEF Request
<1>5. req' = [old EXCEPT ![t][k] = r]
  BY DEF RefreshOk
<1> HIDE DEF old, r
<1>6. /\ req' \in [Tabs -> Requests]
      /\ \A u \in Tabs : req'[u]["data"] = IF u = t /\ k = "data" THEN r
                                           ELSE old[u]["data"]
  BY <1>2, <1>4, <1>5 DEF Requests
<1>7. ASSUME NEW u \in Tabs, req'[u]["data"].pc = "sent", ~req'[u]["data"].behind
      PROVE  req'[u]["data"].tok = NewToken
  BY <1>2, <1>3, <1>4, <1>6, <1>7
<1>8. ~signedOut
  BY DEF RefreshOk, SessionInv, OutInv, NoRefreshUnderWay
<1>9. UNCHANGED <<doc, clock, hasUsers, used, signedOut>> /\ stored' = NewToken
      /\ socket' = OvertakenSockets /\ cause' = [u \in Tabs |-> TRUE]
  BY DEF RefreshOk
<1>10. doc' \in [Tabs -> Docs] /\ hasUsers' \in BOOLEAN
  BY <1>1, <1>9
<1>11. signedOut' \in BOOLEAN /\ ~signedOut'
  BY <1>8, <1>9 DEF SessionInv, TypeOK
<1> QED
  BY <1>6, <1>7, <1>9, <1>10, <1>11, NewTokenKeeps

-----------------------------------------------------------------------------
\* A tab that was sent to /login for no new reason has nothing that could be
\* refused.
LEMMA NothingToRefuse ==
  ASSUME SessionInv, NEW t \in Tabs,
         \/ doc[t].path \notin PublicPaths
         \/ req[t]["data"].pc # "idle" \/ req[t]["login"].pc # "idle"
         \/ socket[t].pc = "greeting"
  PROVE  cause[t]
  BY DEF SessionInv, CalmInv, Calm

LEMMA SentToLoginKeeps ==
  ASSUME SessionInv, NEW t \in Tabs, SentToLogin(t)
  PROVE  SessionInv'
<1>1. None \in Tokens /\ "/login" \in Paths
  BY DEF Tokens, Paths, PublicPaths
<1>2. used' \in Counters
  BY DEF SentToLogin, SessionInv, TypeOK, Counters
<1> QED
  BY <1>1, <1>2, LoadKeeps DEF SentToLogin

LEMMA UserKeeps ==
  ASSUME SessionInv, NEW t \in Tabs, User(t)
  PROVE  SessionInv'
<1>1. /\ TypeOK /\ stored \in Tokens /\ hasUsers \in BOOLEAN /\ doc \in [Tabs -> Docs]
      /\ req \in [Tabs -> Requests] /\ used \in Counters
      /\ cause \in [Tabs -> BOOLEAN] /\ signedOut \in BOOLEAN
  BY Shapes DEF SessionInv, Counters
<1>2. ASSUME NEW page \in Paths, Visit(t, page) PROVE SessionInv'
  <2>1. used' \in Counters
    BY <1>1, <1>2 DEF Visit, Counters
  <2> QED
    BY <1>1, <1>2, <2>1, LoadKeeps DEF Visit
<1>3. CASE DataRequest(t)
  <2> DEFINE r == Begin("data", "/", stored)
  <2>1. r \in Request /\ r.tok = stored /\ (stored = None => r.pc = "sent")
    BY <1>1, BeginFacts DEF Paths
  <2>2. req' = [req EXCEPT ![t]["data"] = r] /\ cause[t]
    BY <1>3, NothingToRefuse DEF DataRequest
  <2> HIDE DEF r
  <2> QED
    BY <1>1, <1>3, <2>1, <2>2, PutKeeps DEF DataRequest
<1>4. ASSUME NEW k \in {"login", "register"}, NEW page \in Paths, Submit(t, k, page)
      PROVE  SessionInv'
  <2> DEFINE r == Begin(k, page, stored)
  <2>1. r \in Request /\ (stored = None => r.pc = "sent")
    BY <1>1, BeginFacts
  <2>2. req' = [req EXCEPT ![t][k] = r]
    BY <1>4 DEF Submit
  <2>3. used' \in Counters
    BY <1>1, <1>4 DEF Submit, Counters
  <2>4. /\ doc' \in [Tabs -> Docs]
        /\ \A u \in Tabs : doc'[u].path = doc[u].path
    BY <1>1, <1>4 DEF Submit, Docs
  <2>5. /\ cause' \in [Tabs -> BOOLEAN] /\ cause'[t]
        /\ \A u \in Tabs : u # t => cause'[u] = cause[u]
    BY <1>1, <1>4 DEF Submit
  <2> HIDE DEF r
  <2> QED
    BY ZenonT(30), <1>1, <1>4, <2>1, <2>2, <2>3, <2>4, <2>5, PutKeeps DEF Submit
<1>5. CASE SubmitLogin(t) \/ SubmitRegister(t)
  BY <1>4, <1>5 DEF SubmitLogin, SubmitRegister, Paths, PublicPaths
<1>6. CASE Logout(t)
  <2>1. None \in Tokens /\ "/login" \in PublicPaths
    BY DEF Tokens, PublicPaths
  <2>2. signedOut' \in BOOLEAN /\ (signedOut' => NoRefreshUnderWay)
    BY <1>6 DEF Logout, NoRefreshUnderWay
  <2>3. Navigate(t, "/login", None, None, req) /\ stored' = None
    BY <1>6 DEF Logout
  <2> QED
    BY <1>1, <1>6, <2>1, <2>2, <2>3, NavigateKeeps DEF Logout
<1>7. CASE TriggerBackup(t)
  <2> DEFINE r == [Begin("backup", "/", doc[t].held) EXCEPT !.pc = "sent"]
  <2>1. Begin("backup", "/", doc[t].held) \in Request
    BY <1>1, BeginFacts DEF Docs, Paths
  <2>2. r \in Request /\ r.pc = "sent"
    BY <2>1 DEF Request
  <2>3. req' = [req EXCEPT ![t]["backup"] = r] /\ cause[t]
    BY <1>7, NothingToRefuse DEF TriggerBackup
  <2>4. used' \in Counters
    BY <1>1, <1>7 DEF TriggerBackup, Counters
  <2> HIDE DEF r
  <2> QED
    BY <1>1, <1>7, <2>2, <2>3, <2>4, PutKeeps DEF TriggerBackup
<1> QED
  BY <1>2, <1>3, <1>5, <1>6, <1>7 DEF User

\* A form whose request has failed.
LEMMA FormErrorKeeps ==
  ASSUME SessionInv, NEW t \in Tabs, NEW k \in Kinds, FormError(t, k),
         used' \in Counters
  PROVE  SessionInv'
<1>1. /\ TypeOK /\ stored \in Tokens /\ hasUsers \in BOOLEAN /\ doc \in [Tabs -> Docs]
      /\ req \in [Tabs -> Requests] /\ cause \in [Tabs -> BOOLEAN]
  BY Shapes DEF SessionInv
<1> DEFINE b == doc[t].path = req[t][k].page
<1>2. doc' = [doc EXCEPT ![t].error = b] /\ b \in BOOLEAN
  BY DEF FormError
<1> HIDE DEF b
<1>3. doc' \in [Tabs -> Docs] /\ \A u \in Tabs : doc'[u].path = doc[u].path
  BY <1>1, <1>2 DEF Docs
<1>4. Idle \in Request /\ Idle.pc = "idle"
  BY IdleType DEF Idle
<1>5. req' = [req EXCEPT ![t][k] = Idle]
  BY DEF FormError
<1> QED
  BY <1>1, <1>3, <1>4, <1>5, PutKeeps DEF FormError

LEMMA AnswersKeep ==
  ASSUME SessionInv, NEW t \in Tabs, Answers(t)
  PROVE  SessionInv'
<1>1. /\ TypeOK /\ stored \in Tokens /\ hasUsers \in BOOLEAN /\ doc \in [Tabs -> Docs]
      /\ req \in [Tabs -> Requests] /\ used \in Counters
      /\ cause \in [Tabs -> BOOLEAN] /\ signedOut \in BOOLEAN
  BY Shapes DEF SessionInv, Counters
<1>2. Idle \in Request /\ Idle.pc = "idle"
  BY IdleType DEF Idle
<1>3. Fault => used' \in Counters
  BY <1>1, FaultType DEF Counters
<1>4. ASSUME NEW k \in Kinds, RefreshFails(t, k) PROVE SessionInv'
  <2> DEFINE tok == Carried(k, stored)
             r == [req[t][k] EXCEPT !.pc = "sent", !.tok = tok, !.behind = FALSE]
  <2>1. tok \in Tokens /\ (k = "data" => tok = stored)
    BY <1>1 DEF Carried, Tokens
  <2>2. r \in Request /\ r.pc = "sent" /\ r.tok = tok
    <3>1. req[t][k] \in Request
      BY <1>1 DEF Requests
    <3> HIDE DEF tok
    <3> QED BY <2>1, <3>1 DEF Request
  <2>3. req' = [req EXCEPT ![t][k] = r] /\ req[t][k].pc = "refresh"
    BY <1>4 DEF RefreshFails
  <2>4. used' \in Counters
    BY <1>1, <1>3, <1>4 DEF RefreshFails
  <2>5. k \in {"data", "login"} => cause[t]
    BY <2>3, NothingToRefuse
  <2> HIDE DEF r, tok
  <2> QED
    BY ZenonT(30), <1>1, <1>4, <2>1, <2>2, <2>3, <2>4, <2>5, PutKeeps DEF RefreshFails
<1>5. ASSUME NEW k \in Kinds, Lost(t, k) PROVE SessionInv'
  BY <1>1, <1>2, <1>3, <1>5, PutKeeps DEF Lost
<1>6. CASE DataOk(t)
  BY <1>1, <1>2, <1>6, PutKeeps DEF DataOk
<1>7. CASE DataUnauthorized(t) \/ LoginWrong(t)
  BY <1>7, SentToLoginKeeps DEF DataUnauthorized, LoginWrong
<1>8. CASE StatusAnswer(t)
  <2> DEFINE rest == [req EXCEPT ![t]["status"] = Idle]
  <2>1. /\ rest \in [Tabs -> Requests]
        /\ \A u \in Tabs, k \in Kinds :
             rest[u][k] = req[u][k] \/ (u = t /\ rest[u][k] = Idle)
    BY <1>1, <1>2 DEF Requests
  <2>2. CASE \E page \in PublicPaths : Navigate(t, page, doc[t].held, stored, rest)
    <3>1. PICK page \in PublicPaths : Navigate(t, page, doc[t].held, stored, rest)
      BY <2>2
    <3>2. doc[t].held \in Tokens
      BY <1>1 DEF Docs
    <3>3. signedOut' \in BOOLEAN /\ (signedOut' => stored = None /\ NoRefreshUnderWay)
      BY <1>1, <1>8 DEF StatusAnswer, SessionInv, OutInv
    <3> HIDE DEF rest
    <3> QED
      BY <1>1, <1>8, <2>1, <3>1, <3>2, <3>3, NavigateKeeps DEF StatusAnswer
  <2>3. CASE req' = rest /\ UNCHANGED doc
    BY <1>1, <1>2, <1>8, <2>3, PutKeeps DEF StatusAnswer
  <2> QED
    BY <1>8, <2>2, <2>3 DEF StatusAnswer, PublicPaths
<1>9. CASE LoginOk(t) \/ RegisterOk(t)
  BY <1>1, <1>9, SignedInKeeps DEF LoginOk, RegisterOk
<1>10. CASE LoginRefused(t)
  BY <1>3, <1>10, FormErrorKeeps DEF LoginRefused
<1>11. CASE RegisterServed(t)
  <2> DEFINE r == [req[t]["register"] EXCEPT !.pc = "served"]
  <2>1. r \in Request /\ r.pc = "served"
    BY SMTT(30), <1>1 DEF Requests, Request
  <2>2. req' = [req EXCEPT ![t]["register"] = r]
    BY <1>11 DEF RegisterServed
  <2> HIDE DEF r
  <2> QED
    BY <1>1, <1>11, <2>1, <2>2, PutKeeps DEF RegisterServed
<1>12. CASE RegisterRefused(t)
  BY <1>1, <1>3, <1>12, FormErrorKeeps DEF RegisterRefused
<1>13. CASE BackupAnswer(t)
  <2> DEFINE r == IF Valid(req[t]["backup"].tok) THEN Idle ELSE [Idle EXCEPT !.pc = "error"]
  <2>1. r \in Request /\ r.pc \in {"idle", "error"}
    BY <1>2 DEF Idle, Request
  <2>2. req' = [req EXCEPT ![t]["backup"] = r]
    BY <1>13 DEF BackupAnswer
  <2> HIDE DEF r
  <2> QED
    BY <1>1, <1>13, <2>1, <2>2, PutKeeps DEF BackupAnswer
<1>14. CASE BackupErrorFades(t)
  BY <1>1, <1>2, <1>14, PutKeeps DEF BackupErrorFades
<1> QED
  BY <1>4, <1>5, <1>6, <1>7, <1>8, <1>9, <1>10, <1>11, <1>12, <1>13, <1>14,
     RefreshOkKeeps DEF Answers

LEMMA SocketStepKeeps ==
  ASSUME SessionInv, NEW t \in Tabs, Socket(t)
  PROVE  SessionInv'
<1>1. /\ TypeOK /\ stored \in Tokens /\ used \in Counters
      /\ socket \in [Tabs -> Sockets]
  BY Shapes DEF SessionInv, Counters
<1>2. /\ Waiting \in Sockets /\ Waiting.pc = "waiting"
      /\ Connecting \in Sockets /\ Connecting.pc = "connecting"
  BY DEF Waiting, Connecting, Sockets, Tokens
<1>3. CASE SocketOpens(t)
  <2> DEFINE s == IF stored = None THEN Waiting
                  ELSE [pc |-> "greeting", tok |-> stored, behind |-> FALSE]
  <2>1. s \in Sockets /\ (s.pc = "greeting" => stored # None /\ s.tok = stored)
    BY <1>1, <1>2 DEF Sockets
  <2>2. socket' = [socket EXCEPT ![t] = s]
    BY <1>3 DEF SocketOpens
  <2> HIDE DEF s
  <2> QED
    BY <1>1, <1>3, <2>1, <2>2, SocketKeeps DEF SocketOpens
<1>4. CASE SocketAccepted(t)
  <2> DEFINE s == [pc |-> "live", tok |-> None, behind |-> FALSE]
  <2>1. s \in Sockets /\ s.pc = "live"
    BY DEF Sockets, Tokens
  <2>2. socket' = [socket EXCEPT ![t] = s]
    BY <1>4 DEF SocketAccepted
  <2> HIDE DEF s
  <2> QED
    BY <1>1, <1>4, <2>1, <2>2, SocketKeeps DEF SocketAccepted
<1>5. CASE SocketRejected(t)
  BY <1>5, SentToLoginKeeps DEF SocketRejected
<1>6. CASE SocketDrops(t)
  <2>1. used' \in Counters
    BY <1>1, <1>6, FaultType DEF SocketDrops, Counters
  <2> QED
    BY <1>2, <1>6, <2>1, SocketKeeps DEF SocketDrops
<1>7. CASE Reconnect(t)
  BY <1>1, <1>2, <1>7, SocketKeeps DEF Reconnect
<1> QED
  BY <1>3, <1>4, <1>5, <1>6, <1>7 DEF Socket

LEMMA NextSession == SessionInv /\ [Next]_vars => SessionInv'
<1> SUFFICES ASSUME SessionInv, [Next]_vars PROVE SessionInv'
  OBVIOUS
<1>1. ASSUME NEW t \in Tabs, User(t) \/ Answers(t) \/ Socket(t) PROVE SessionInv'
  BY <1>1, UserKeeps, AnswersKeep, SocketStepKeeps
<1>2. CASE Tick \/ UNCHANGED vars
  <2>1. UNCHANGED <<stored, doc, req, socket, hasUsers, used, cause, signedOut>>
    BY <1>2 DEF Tick, vars
  <2>2. clock' \in Nat
    BY <1>2 DEF Tick, vars, SessionInv, TypeOK
  <2>3. TypeOK'
    BY <2>1, <2>2 DEF SessionInv, TypeOK
  <2> QED
    BY <2>1, <2>3 DEF SessionInv, OutInv, NoRefreshUnderWay, CalmInv, Calm,
                      FreshInv, Fresh
<1> QED
  BY <1>1, <1>2 DEF Next

LEMMA SpecSession == Spec => []SessionInv
  BY InitSession, NextSession, PTL DEF Spec

-----------------------------------------------------------------------------
\* Every reachable state of the session has its types.
THEOREM SessionTypeOK == Spec => []TypeOK
  BY SpecSession, PTL DEF SessionInv

\* For any number of tabs, and whatever they have under way: after a logout
\* with no refresh under way no token is stored again until somebody logs in
\* (AppHeader.tsx, setToken(null); api.ts, maybeRefresh).
THEOREM SessionSignedOutStays == Spec => []SignedOutStays
<1>1. SessionInv => SignedOutStays
  BY DEF SessionInv, OutInv, SignedOutStays
<1> QED
  BY <1>1, SpecSession, PTL

\* For any number of tabs: no tab is sent to /login a second time without a new
\* reason (api.ts, the 401 of request; ws.ts, close code 4001).
THEOREM SessionNoReloadLoop == Spec => NoReloadLoop
<1>1. SessionInv /\ [Next]_vars =>
        [\A t \in Tabs : DataUnauthorized(t) \/ LoginWrong(t) \/ SocketRejected(t)
                           => cause[t]]_vars
  <2> SUFFICES ASSUME SessionInv, NEW t \in Tabs,
                      DataUnauthorized(t) \/ LoginWrong(t) \/ SocketRejected(t)
               PROVE  cause[t]
    OBVIOUS
  <2> QED
    BY NothingToRefuse DEF DataUnauthorized, LoginWrong, SocketRejected
<1> QED
  BY <1>1, SpecSession, PTL DEF Spec, NoReloadLoop

\* For any number of tabs: a valid token is thrown away only by a logout, by a
\* form that was refused, or by the refusal of what went out before that token
\* was stored.
THEOREM SessionValidTokenKept == Spec => ValidTokenKept
<1> DEFINE Allowed == Valid(stored) /\ stored' = None =>
             \E t \in Tabs : \/ Logout(t) \/ LoginWrong(t)
                             \/ DataUnauthorized(t) /\ req[t]["data"].behind
                             \/ SocketRejected(t) /\ socket[t].behind
<1>1. SessionInv /\ [Next]_vars => [Allowed]_vars
  <2> SUFFICES ASSUME SessionInv, Next, Valid(stored), stored' = None
               PROVE  \E t \in Tabs :
                        \/ Logout(t) \/ LoginWrong(t)
                        \/ DataUnauthorized(t) /\ req[t]["data"].behind
                        \/ SocketRejected(t) /\ socket[t].behind
    BY DEF Valid
  <2>1. stored # None /\ stored' # stored /\ NewToken # None
    BY NewTokenType DEF Valid, SessionInv
  <2>2. PICK t \in Tabs : User(t) \/ Answers(t) \/ Socket(t)
    BY <2>1 DEF Next, Tick
  <2>3. CASE User(t)
    <3>1. Logout(t)
      BY <2>1, <2>3 DEF User, Visit, DataRequest, SubmitLogin, SubmitRegister,
                        Submit, TriggerBackup
    <3> QED BY <3>1
  <2>4. CASE Answers(t)
    <3>1. DataUnauthorized(t) \/ LoginWrong(t)
      BY <2>1, <2>4 DEF Answers, RefreshOk, RefreshFails, Lost, DataOk,
           StatusAnswer, LoginOk, LoginRefused, RegisterServed, RegisterOk,
           RegisterRefused, BackupAnswer, BackupErrorFades, SignedIn, FormError
    <3>2. ASSUME DataUnauthorized(t) PROVE req[t]["data"].behind
      <4>1. Fresh(t)
        BY DEF SessionInv, FreshInv
      <4> QED
        BY <2>1, <3>2, <4>1 DEF DataUnauthorized, Fresh
    <3> QED
      BY <3>1, <3>2
  <2>5. CASE Socket(t)
    <3>1. SocketRejected(t)
      BY <2>1, <2>5 DEF Socket, SocketOpens, SocketAccepted, SocketDrops, Reconnect
    <3>2. Fresh(t)
      BY DEF SessionInv, FreshInv
    <3>3. socket[t].behind
      BY <2>1, <3>1, <3>2 DEF SocketRejected, Fresh
    <3> QED
      BY <3>1, <3>3
  <2> QED
    BY <2>2, <2>3, <2>4, <2>5
<1> QED
  BY <1>1, SpecSession, PTL DEF Spec, ValidTokenKept
=============================================================================
