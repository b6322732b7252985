---------------------------------- MODULE Demo ----------------------------------
(***************************************************************************)
(* The demo (demo/src): copies of the web client's pages over a server     *)
(* that is a few objects in the same page (lib/api.ts, lib/mockData.ts)    *)
(* and over two simulators in place of the socket (lib/ws.ts).             *)
(*                                                                         *)
(* A request is a delay; what it reads or writes, it reads or writes as    *)
(* the delay ends, and its handlers run before anything else.  No request  *)
(* is lost.  An answer holds the server's own objects, so that a later     *)
(* write may show through what a query has cached; the query library       *)
(* copies some of them.                                                    *)
(*                                                                         *)
(* The sidebar and the chat are infinite queries: pages asked for one by   *)
(* one, by number or before a time, all again in a refetch, the next one   *)
(* at a button, which cancels a refetch.  Of a contact's timeline only the *)
(* number of entries that came after the generated ones is kept, of its    *)
(* chat the messages' times.                                               *)
(***************************************************************************)
EXTENDS Naturals, FiniteSets, SequencesExt

CONSTANTS Accs,      \* ACCOUNTS
          First,     \* ACCOUNTS[0]
          Ids,       \* contact ids
          None,      \* nothing cached, nothing open
          BarSize,   \* PAGE_SIZE of the sidebar
          ChatSize,  \* messages of a page of the chat
          Backlogs,  \* numbers of messages a chat may have at first
          MaxPages,  \* bound: pages of the sidebar
          MaxActs    \* bound: writes of the user and firings of the simulators

\* What the constants are.
DemoBounds ==
  /\ Ids \subseteq Nat \ {0} /\ IsFiniteSet(Ids)
  /\ First \in Accs
  /\ None \notin Nat \cup Accs \cup [on : BOOLEAN, n : Nat]
  /\ \A S \in SUBSET Ids : None \notin [S -> BOOLEAN]
  /\ BarSize \in Nat \ {0} /\ ChatSize \in Nat \ {0} /\ Backlogs \subseteq Nat
  /\ MaxPages \in Nat /\ MaxActs \in Nat

VARIABLES
  server,   \* contacts; entries added; messages
  armed,    \* simulators whose timer runs
  cache,    \* the queries
  store,    \* the zustand store
  route,    \* the page, and the account and contact in its path
  requests, \* writes whose delay runs
  left      \* writes and firings left

vars == <<server, armed, cache, store, route, requests, left>>

-----------------------------------------------------------------------------
Keys == Accs \X Ids

Put(f, i, v) == [j \in DOMAIN f \cup {i} |-> IF j = i THEN v ELSE f[j]]
Without(f, i) == Restrict(f, DOMAIN f \ {i})
PutAll(f, g) == [j \in DOMAIN f \cup DOMAIN g |-> IF j \in DOMAIN g THEN g[j] ELSE f[j]]

\* nextContactId: over all accounts, so that the greatest id, deleted, comes back.
NextContactId ==
  LET all == (UNION {DOMAIN server.contacts[a] : a \in Accs}) \cup {0}
  IN 1 + CHOOSE i \in all : \A j \in all : j <= i

\* A query with one answer, the timeline's.
Cold    == [data |-> None, busy |-> FALSE]
Busy(q) == [q EXCEPT !.busy = TRUE]
Arrived(q, data) == [q EXCEPT !.data = data, !.busy = FALSE]

\* invalidateQueries: what is on the page is asked for again.
Invalidated(q, active) == IF active THEN Busy(q) ELSE q

\* An infinite query: its pages; its fetch, of all of them or of the next, and what
\* a fetch of all has so far; and (history) whether it has missed a change, which is
\* so once a refetch is cancelled for the next page, or once a change comes between
\* two pages of a fetch that nothing on the page restarts.
NoPages == [pages |-> <<>>, kind |-> "idle", built |-> <<>>, cut |-> FALSE]

All(q)   == [q EXCEPT !.kind = "all", !.built = <<>>, !.cut = FALSE]
Asked(q) == IF q.kind = "idle" THEN All(q) ELSE q
Ended(q, pages) == [q EXCEPT !.pages = pages, !.kind = "idle", !.built = <<>>]

\* fetchNextPage; without a parameter for it the query resolves with what it has.
Further(q, param) == [q EXCEPT !.kind = IF param THEN "next" ELSE "idle", !.built = <<>>,
                               !.cut = @ \/ q.kind = "all"]

\* invalidateQueries: a first load goes on, as does what nothing on the page uses.
Again(q, active) ==
  IF active /\ q.pages # <<>> THEN All(q)
  ELSE [q EXCEPT !.cut = @ \/ (~active /\ (q.kind = "next" \/ q.built # <<>>))]

\* The pages before the one that is read.
Had(q) == IF q.kind = "next" THEN q.pages ELSE q.built

\* It arrives.  A refetch reads as many pages as there were, one at the least, and
\* none after one that has no next.
Given(q, page, more) ==
  LET had == Append(Had(q), page)
  IN IF q.kind = "all" /\ Len(had) < Len(q.pages) /\ more
     THEN [q EXCEPT !.built = had] ELSE Ended(q, had)

InAccount(a) == route.acc = a
OpenContact(k) == route.page = "contact" /\ <<route.acc, route.cid>> = k
OpenChat(k)    == route.page = "messages" /\ <<route.acc, route.cid>> = k

\* The contact a row of the sidebar, or the page's header, shows.
ShownContact(c, queried) == IF c \in DOMAIN store.contacts THEN store.contacts[c] ELSE queried

\* A page of the sidebar: slices of an array in the order of the ids.
Rank(all, c) == Cardinality({d \in DOMAIN all : d <= c})

ListPage(a, i) ==
  LET all == server.contacts[a]
  IN [contacts |-> Restrict(all, {c \in DOMAIN all : (i - 1) * BarSize < Rank(all, c)
                                                     /\ Rank(all, c) <= i * BarSize}),
      total |-> Cardinality(DOMAIN all)]

\* getNextPageParam, and the condition of the button for more.
HasNext(pages) ==
  Cardinality(UNION {{i} \X DOMAIN pages[i].contacts : i \in DOMAIN pages}) < pages[1].total

\* The contacts of the pages; of two the later.
Listed(pages) ==
  [c \in UNION {DOMAIN pages[i].contacts : i \in DOMAIN pages} |->
     LET holds == {i \in DOMAIN pages : c \in DOMAIN pages[i].contacts}
     IN pages[CHOOSE i \in holds : \A j \in holds : j <= i].contacts[c]]

\* The first ChatSize of the messages asked for: the newest, of one second those
\* that were stored first.
Newest(times, asked) ==
  LET Ahead(i) == {j \in asked : times[j] > times[i] \/ (times[j] = times[i] /\ j < i)}
  IN {i \in asked : Cardinality(Ahead(i)) < ChatSize}

\* Those of the page after these: all, or those before the oldest of the last page.
Before(times, pages) ==
  IF pages = <<>> THEN DOMAIN times
  ELSE {i \in DOMAIN times : \A j \in Last(pages) : times[i] < times[j]}

\* NOW(), in seconds.
Times(times) == IF times = <<>> THEN {1} ELSE {Last(times), Last(times) + 1}

\* addWsEntry, setLastPresence, pruneWsEntries.
AddEntry(s, k, n) == [s EXCEPT !.ws[k] = @ \cup {n}]

\* Mutant: an older presence replaces a later one.
SetLastAlways(s, k, n) == [s EXCEPT !.last[k] = n]

SetLast(s, k, n) ==
  IF s.last[k] # None /\ s.last[k] >= n THEN s ELSE [s EXCEPT !.last[k] = n]

Prune(s, k, n) == [s EXCEPT !.ws[k] = @ \ (1..n)]

\* upsertContact and upsertContacts; a list that has missed a change, or was cached,
\* puts there what may be stale (history).
Upsert(s, c, on) == [s EXCEPT !.contacts = Put(@, c, on), !.stale = @ \ {c}]
UpsertAll(s, pages, cut) ==
  LET f == Listed(pages)
  IN [s EXCEPT !.contacts = PutAll(@, f),
               !.stale = IF cut THEN @ \cup DOMAIN f ELSE @ \ DOMAIN f]

\* The effects of the contact page on its timeline.
Effects(s, k, tl) == Prune(SetLast(Upsert(s, k[2], tl.on), k, tl.n), k, tl.n)

Act == left > 0 /\ left' = left - 1

Nothing == [i \in {} |-> TRUE]

\* What getAllContacts holds at first: some contacts of every account, all tracked.
Start == {f \in [Accs -> {[c \in S |-> TRUE] : S \in SUBSET Ids \ {{}}}] :
            \A a, b \in Accs : a # b => DOMAIN f[a] \cap DOMAIN f[b] = {}}

Init ==
  /\ \E first \in Start, chats \in [Keys -> {[i \in 1..n |-> i] : n \in Backlogs}] :
       server = [contacts |-> first, entries |-> [k \in Keys |-> 0], messages |-> chats]
  /\ armed = {"presence", "message"}
  /\ cache = [list |-> [a \in Accs |-> NoPages],
              timeline |-> [k \in Keys |-> Cold], chat |-> [k \in Keys |-> NoPages]]
  /\ store = [contacts |-> Nothing, stale |-> {},
              ws |-> [k \in Keys |-> {}], last |-> [k \in Keys |-> None]]
  /\ route = [page |-> "none", acc |-> None, cid |-> None]
  /\ requests = {}
  /\ left = MaxActs

-----------------------------------------------------------------------------
\* The simulators, each a timer that its own firing sets again.

\* firePresence, of any account there ever was; App's listener gets the event.
\* Without contacts the timer is not set again.
FirePresence(a) ==
  /\ "presence" \in armed /\ Act
  /\ IF server.contacts[a] = Nothing
     THEN armed' = armed \ {"presence"} /\ UNCHANGED <<server, cache, store>>
     ELSE \E c \in DOMAIN server.contacts[a] :
            LET k == <<a, c>>
                n == server.entries[k] + 1
            IN /\ server' = [server EXCEPT !.entries[k] = n]
               /\ store' = SetLast(AddEntry(store, k, n), k, n)
               /\ cache' = [cache EXCEPT !.list[a] = Again(@, InAccount(a)),
                                         !.timeline[k] = Invalidated(@, OpenContact(k))]
               /\ UNCHANGED armed
  /\ UNCHANGED <<route, requests>>

\* fireMessage, of the first account.
FireMessage ==
  /\ "message" \in armed /\ Act
  /\ IF server.contacts[First] = Nothing
     THEN armed' = armed \ {"message"} /\ UNCHANGED <<server, cache>>
     ELSE \E c \in DOMAIN server.contacts[First] :
            LET k == <<First, c>>
            IN /\ \E t \in Times(server.messages[k]) :
                    server' = [server EXCEPT !.messages[k] = Append(@, t)]
               /\ cache' = [cache EXCEPT !.list[First] = Again(@, InAccount(First)),
                                         !.timeline[k] = Invalidated(@, OpenContact(k)),
                                         !.chat[k] = Again(@, OpenChat(k))]
               /\ UNCHANGED armed
  /\ UNCHANGED <<store, route, requests>>

-----------------------------------------------------------------------------
\* Routes.  A page that is opened runs its effects on what is cached and asks.

\* To the accounts.
Leave ==
  /\ route.page # "none"
  /\ route' = [page |-> "none", acc |-> None, cid |-> None]
  /\ requests' = {[r EXCEPT !.own = FALSE] : r \in requests}
  /\ UNCHANGED <<server, armed, cache, store, left>>

\* A row of the accounts page.
ToAccount(a) ==
  /\ route.page = "none"
  /\ route' = [page |-> "account", acc |-> a, cid |-> None]
  /\ cache' = [cache EXCEPT !.list[a] = Asked(@)]
  /\ store' = UpsertAll(store, cache.list[a].pages, TRUE)
  /\ UNCHANGED <<server, armed, requests, left>>

\* A row of the sidebar, or back from the messages.  Between two contacts the page stays
\* mounted, and a write under way gets the handlers of the contact now open.
ToContact(c) ==
  /\ route.page \in {"account", "contact", "messages"}
  /\ c \in DOMAIN Listed(cache.list[route.acc].pages) \/ c = route.cid
  /\ ~OpenContact(<<route.acc, c>>)
  /\ LET k == <<route.acc, c>>
         cached == cache.timeline[k].data
     IN /\ cache' = [cache EXCEPT !.timeline[k] = Busy(@)]
        /\ store' = IF cached = None THEN store ELSE Effects(store, k, cached)
        /\ requests' = {[r EXCEPT !.cid = IF r.own /\ r.op \in {"toggle", "delete"}
                                          THEN c ELSE @] : r \in requests}
  /\ route' = [route EXCEPT !.page = "contact", !.cid = c]
  /\ UNCHANGED <<server, armed, left>>

\* The link to the messages, on a page that has its timeline.
ToMessages ==
  /\ route.page = "contact"
  /\ LET k == <<route.acc, route.cid>>
     IN /\ cache.timeline[k].data # None
        /\ cache' = [cache EXCEPT !.chat[k] = Asked(@)]
  /\ route' = [route EXCEPT !.page = "messages"]
  /\ requests' = {[r EXCEPT !.own = @ /\ r.op = "create"] : r \in requests}
  /\ UNCHANGED <<server, armed, store, left>>

\* The polls of the sidebar and of the contact page.
Poll ==
  /\ \/ /\ route.acc # None
        /\ cache' = [cache EXCEPT !.list[route.acc] = Asked(@)]
     \/ /\ route.page = "contact"
        /\ cache' = [cache EXCEPT !.timeline[<<route.acc, route.cid>>] = Busy(@)]
  /\ UNCHANGED <<server, armed, store, route, requests, left>>

\* The button for more contacts.
More(a) ==
  /\ InAccount(a)
  /\ LET q == cache.list[a]
     IN /\ q.pages # <<>> /\ HasNext(q.pages) /\ q.kind # "next" /\ Len(q.pages) < MaxPages
        /\ cache' = [cache EXCEPT !.list[a] = Further(q, TRUE)]
  /\ UNCHANGED <<server, armed, store, route, requests, left>>

\* The button for older messages, if the last page is full; if not, the effect after a
\* history_sync asks for a page all the same, with no parameter for it.
LoadOlder(k) ==
  /\ OpenChat(k)
  /\ LET q == cache.chat[k]
     IN /\ q.pages # <<>> /\ Last(q.pages) # {} /\ q.kind # "next"
        /\ cache' = [cache EXCEPT
                       !.chat[k] = Further(q, Cardinality(Last(q.pages)) = ChatSize)]
  /\ UNCHANGED <<server, armed, store, route, requests, left>>

-----------------------------------------------------------------------------
\* The queries' answers, a page each.

\* The effect puts what is new in the store.
ListContacts(a) ==
  /\ cache.list[a].kind # "idle"
  /\ LET q == cache.list[a]
         page == ListPage(a, Len(Had(q)) + 1)
         p == Given(q, page, HasNext(Append(Had(q), page)))
     IN /\ cache' = [cache EXCEPT !.list[a] = p]
        /\ store' = IF InAccount(a) /\ p.pages # q.pages
                    THEN UpsertAll(store, p.pages, p.cut) ELSE store
  /\ UNCHANGED <<server, armed, route, requests, left>>

\* No such contact: the query fails and keeps what it had.
Timeline(k) ==
  /\ cache.timeline[k].busy
  /\ IF k[2] \in DOMAIN server.contacts[k[1]]
     THEN LET tl == [on |-> server.contacts[k[1]][k[2]], n |-> server.entries[k]]
          IN /\ cache' = [cache EXCEPT !.timeline[k] = Arrived(@, tl)]
             /\ store' = IF OpenContact(k) /\ tl # cache.timeline[k].data
                         THEN Effects(store, k, tl) ELSE store
     ELSE cache' = [cache EXCEPT !.timeline[k].busy = FALSE] /\ UNCHANGED store
  /\ UNCHANGED <<server, armed, route, requests, left>>

\* After a page that is not full, another only for allowExtraPageRef.
Messages(k) ==
  /\ cache.chat[k].kind # "idle"
  /\ LET q == cache.chat[k]
         page == Newest(server.messages[k], Before(server.messages[k], Had(q)))
     IN \E extra \in BOOLEAN :
          cache' = [cache EXCEPT !.chat[k] =
            Given(q, page, page # {} /\ (Cardinality(page) = ChatSize \/ extra))]
  /\ UNCHANGED <<server, armed, store, route, requests, left>>

-----------------------------------------------------------------------------
\* The user's writes.  own is true while the component that wrote is mounted, and
\* cid is what its handlers have; a button is off while its own write is pending.

Request(op, c, on) ==
  /\ Act
  /\ requests' = requests \cup {[n |-> left, op |-> op, acc |-> route.acc,
                                 id |-> c, cid |-> c, on |-> on, own |-> TRUE]}
  /\ UNCHANGED <<server, armed, cache, store, route>>

NoneOf(op) == \A r \in requests : ~(r.own /\ r.op = op)

AskCreate == route.acc # None /\ NoneOf("create") /\ Request("create", None, TRUE)

AskContact ==
  /\ route.page = "contact"
  /\ LET tl == cache.timeline[<<route.acc, route.cid>>].data
     IN /\ tl # None
        /\ \/ NoneOf("toggle") /\ Request("toggle", route.cid, ~ShownContact(route.cid, tl.on))
           \/ NoneOf("delete") /\ Request("delete", route.cid, FALSE)

AskSend == route.page = "messages" /\ NoneOf("send") /\ Request("send", route.cid, TRUE)

-----------------------------------------------------------------------------
\* The writes' ends: what the server does, then onSuccess.

Ends(r, op) == r.op = op /\ requests' = requests \ {r} /\ UNCHANGED <<armed, left>>

\* Pages after a write to a contact of the server's: those that hold the same object.
Through(pages, same, c, on) ==
  [i \in DOMAIN pages |-> IF i \in same /\ c \in DOMAIN pages[i].contacts
                          THEN [pages[i] EXCEPT !.contacts[c] = on] ELSE pages[i]]

\* Mutant: the list is not asked for again.
CreateContactQuietly(r) ==
  /\ Ends(r, "create")
  /\ LET id == NextContactId
     IN /\ id \in Ids
        /\ server' = [server EXCEPT !.contacts[r.acc] = Put(@, id, TRUE)]
        /\ store' = Upsert(store, id, TRUE)
  /\ UNCHANGED <<cache, route>>

\* The store's presence, and the timeline and chat, of the last contact of that id
\* are now this one's.
CreateContact(r) ==
  /\ Ends(r, "create")
  /\ LET id == NextContactId
     IN /\ id \in Ids
        /\ server' = [server EXCEPT !.contacts[r.acc] = Put(@, id, TRUE)]
        /\ store' = Upsert(store, id, TRUE)
        /\ cache' = [cache EXCEPT !.list[r.acc] = Again(@, InAccount(r.acc))]
  /\ UNCHANGED route

UpdateContact(r) ==
  /\ Ends(r, "toggle")
  /\ IF r.id \in DOMAIN server.contacts[r.acc]
     THEN LET k == <<r.acc, r.id>>
              q == cache.list[r.acc]
              tl == cache.timeline[k].data
          IN /\ server' = [server EXCEPT !.contacts[r.acc][r.id] = r.on]
             /\ store' = Upsert(store, r.id, r.on)
             /\ \E same \in SUBSET DOMAIN q.pages, sameBuilt \in SUBSET DOMAIN q.built,
                   seen \in {tl} \cup IF tl # None THEN {[tl EXCEPT !.on = r.on]} ELSE {} :
                  cache' = [cache EXCEPT
                    !.list[r.acc] = Again([q EXCEPT
                       !.pages = Through(@, same, r.id, r.on),
                       !.built = Through(@, sameBuilt, r.id, r.on)], InAccount(r.acc)),
                    !.timeline[k].data = seen]
     ELSE UNCHANGED <<server, store, cache>>
  /\ UNCHANGED route

\* It navigates to a path that no route matches.
DeleteContact(r) ==
  /\ Ends(r, "delete")
  /\ server' = [server EXCEPT !.contacts[r.acc] = Without(@, r.id)]
  /\ store' = [store EXCEPT !.contacts = Without(@, r.cid)]
  /\ cache' = [cache EXCEPT !.list[r.acc] = Again(@, InAccount(r.acc))]
  /\ route' = [page |-> "none", acc |-> None, cid |-> None]

SendMessage(r) ==
  /\ Ends(r, "send")
  /\ LET k == <<r.acc, r.id>>
     IN /\ \E t \in Times(server.messages[k]) :
             server' = [server EXCEPT !.messages[k] = Append(@, t)]
        /\ cache' = [cache EXCEPT !.chat[k] = Again(@, OpenChat(k))]
  /\ UNCHANGED <<store, route>>

-----------------------------------------------------------------------------
Next ==
  \/ \E a \in Accs : FirePresence(a) \/ ToAccount(a) \/ ListContacts(a) \/ More(a)
  \/ FireMessage \/ Leave \/ ToMessages \/ Poll
  \/ \E c \in Ids : ToContact(c)
  \/ \E k \in Keys : Timeline(k) \/ Messages(k) \/ LoadOlder(k)
  \/ AskCreate \/ AskContact \/ AskSend
  \/ \E r \in requests : \/ CreateContact(r) \/ UpdateContact(r)
                         \/ DeleteContact(r) \/ SendMessage(r)

Spec == Init /\ [][Next]_vars

-----------------------------------------------------------------------------
\* A query that has answered; an infinite one that has, and has missed nothing.
Settled(q)  == q.data # None /\ ~q.busy
UpToDate(q) == q.pages # <<>> /\ q.kind = "idle" /\ ~q.cut

Distinct(times) == \A i, j \in DOMAIN times : i < j => times[i] < times[j]

\* A page whose query has answered shows what the server has: the sidebar the first
\* contacts of the account, as many pages of them as it has, each once, with its
\* tracking, and how many there are; the open contact's page its tracking and the whole
\* of its timeline; the chat the newest messages, as many pages of them as it has, each
\* once.  Writes under way, the order of requests, pages left before they were answered,
\* and cached objects that change make no difference.  A button for more or for older
\* that cancels a refetch does, until the next; and messages of one second at the edge
\* of a page.
PagesShowServer ==
  /\ \A a \in Accs : InAccount(a) /\ UpToDate(cache.list[a]) =>
       LET all == server.contacts[a]
           pages == cache.list[a].pages
       IN /\ \A c \in Ids : (\E i \in DOMAIN pages : c \in DOMAIN pages[i].contacts) <=>
                             c \in DOMAIN all /\ Rank(all, c) <= Len(pages) * BarSize
          /\ \A i, j \in DOMAIN pages :
               i # j => DOMAIN pages[i].contacts \cap DOMAIN pages[j].contacts = {}
          /\ \A i \in DOMAIN pages :
               /\ \A c \in DOMAIN pages[i].contacts : pages[i].contacts[c] = all[c]
               /\ pages[i].total = Cardinality(DOMAIN all)
  /\ \A k \in Keys : OpenContact(k) /\ Settled(cache.timeline[k])
                     /\ k[2] \in DOMAIN server.contacts[k[1]] =>
       /\ k[2] \notin store.stale =>
            ShownContact(k[2], cache.timeline[k].data.on) = server.contacts[k[1]][k[2]]
       /\ 1..cache.timeline[k].data.n \cup store.ws[k] = 1..server.entries[k]
  /\ \A k \in Keys : OpenChat(k) /\ UpToDate(cache.chat[k]) /\ Distinct(server.messages[k]) =>
       LET n == Len(server.messages[k])
           pages == cache.chat[k].pages
       IN /\ UNION ToSet(pages) = {i \in 1..n : n - i < Len(pages) * ChatSize}
          /\ \A i, j \in DOMAIN pages : i # j => pages[i] \cap pages[j] = {}

\* The dot of a contact, once it says anything, says the latest: every event that
\* is stored is heard, and what a page had cached never takes it back.
DotIsLatest == \A k \in Keys : store.last[k] # None => store.last[k] = server.entries[k]
=============================================================================
