--------------------------------- MODULE Live ---------------------------------
(***************************************************************************)
(* From a stored presence row to what a dashboard shows: the websocket hub *)
(* (internal/api/ws.go), App's listener (web/src/App.tsx), the store       *)
(* (web/src/lib/store.ts) and the page of a contact (ContactDetail.tsx).   *)
(*                                                                         *)
(* The page merges two sources: the timeline query, refetched every 30 s   *)
(* and whenever an event of the contact arrives, and the entries that came *)
(* over the websocket and that the query does not have yet.  The sidebar   *)
(* shows a third: the last presence kept in the store.  Live events are    *)
(* lost when the connection is down or its buffer is full, and overtake,   *)
(* or are overtaken by, the answers of the query.                          *)
(*                                                                         *)
(* One dashboard.  A connection the network has dropped stays registered   *)
(* with the hub until its reads time out, so the dashboard may have two.   *)
(***************************************************************************)
EXTENDS PresenceRows, FiniteSets

CONSTANTS Contacts, Conns,
          Buffer,     \* wsClientBuffer: events a connection can hold back
          MaxRows,    \* bound: presence rows stored
          MaxClock,   \* bound: the clock
          MaxOpens,   \* bound: pages opened
          MaxFaults   \* bound: connections dropped and requests that fail

ASSUME LiveBounds == /\ Buffer \in Nat /\ MaxRows \in Nat /\ MaxClock \in Nat
                     /\ MaxOpens \in Nat /\ MaxFaults \in Nat

ASSUME LiveNone == None \notin Contacts \cup Conns

VARIABLES
  rows,      \* presence_events: per contact, in rowid order
  pending,   \* rows stored and not yet broadcast
  clients,   \* Hub.clients
  leaving,   \* connections deleted from the hub, their channel still open
  closed,    \* connections whose channel is closed
  send,      \* per connection: the events in its channel
  conn,      \* the dashboard's connection, or None
  entries,   \* store: wsEntries per contact
  last,      \* store: lastPresence per contact
  timeline,  \* query cache: loaded, and the rows of the last answer
  fetch,     \* query: where its request is, and what the server answered
  failed,    \* query: contacts whose last request ended in an error
  open,      \* the contact whose page is shown, or None
  clock,
  used,      \* rows, pages opened and faults so far
  received   \* history: events delivered to the dashboard

hubVars == <<clients, leaving, closed, send, conn>>
webVars == <<entries, last, timeline, fetch, failed, open, received>>
vars == <<rows, pending, hubVars, webVars, clock, used>>

-----------------------------------------------------------------------------
Entry == [at : Nat \ {0}, state : States]

EntriesOf(s) == {s[i] : i \in DOMAIN s}

\* What filter leaves of s: the entries that are not in gone, in their order.
Without(s, gone) ==
  LET kept == {i \in DOMAIN s : s[i] \notin gone}
      Place(i) == Cardinality({j \in kept : j <= i})
  IN [n \in 1..Cardinality(kept) |-> s[CHOOSE i \in kept : Place(i) = n]]

\* ORDER BY observed_at, then the last one: the latest, of a tie the last.
LatestOf(s) == s[CHOOSE i \in DOMAIN s : IsLatest(s, i)]

\* Sorted by time, newest first, then the first one: of a tie the first.
FirstOfLatest(s) ==
  s[CHOOSE i \in DOMAIN s : \A j \in DOMAIN s :
       s[j].at < s[i].at \/ (s[j].at = s[i].at /\ i <= j)]

NotLoaded == [loaded |-> FALSE, rows |-> <<>>]
NoFetch == [pc |-> "none", rows |-> <<>>]
Asked == [pc |-> "asked", rows |-> <<>>]
NoLast == [state |-> "none", at |-> 0]

\* allEntries: the answer, then the live entries it does not have.
AllEntries(c) ==
  timeline[c].rows \o Without(entries[c], EntriesOf(timeline[c].rows))

\* Neither "loading" nor an error: an error hides also what the cache still has.
PageShows(c) == timeline[c].loaded /\ c \notin failed

Shown(c) == IF PageShows(c) THEN AllEntries(c) ELSE <<>>

\* A request starts: without data the query forgets its error.
Started(c) == IF timeline[c].loaded THEN failed ELSE failed \ {c}

\* Mutant: the event that comes later is the later one.
SetLastArrival(l, e) == e

\* The badge, from the last of the sorted entries.
Header(c) == IF AllEntries(c) = <<>> THEN NoLast ELSE LatestOf(AllEntries(c))

\* setLastPresence: what is not strictly later is ignored.
SetLast(l, e) == IF l.at >= e.at THEN l ELSE e

\* Mutant: the answer replaces the live entries.
PruneAll(s, answer) == <<>>

\* addWsEntry.
AddEntry(s, e) == IF e \in EntriesOf(s) THEN s ELSE Append(s, e)

\* pruneWsEntries: drop what the answer has.
Prune(s, answer) == Without(s, EntriesOf(answer))

\* ContactDetail's effects on new data of c.
Effects(c, answer) ==
  /\ last' = [last EXCEPT ![c] =
                IF answer = <<>> THEN @ ELSE SetLast(@, FirstOfLatest(answer))]
  /\ entries' = [entries EXCEPT ![c] = Prune(@, answer)]

Fault == /\ used.faults < MaxFaults
         /\ used' = [used EXCEPT !.faults = @ + 1]

Init ==
  /\ rows = [c \in Contacts |-> <<>>]
  /\ pending = {}
  /\ clients = {} /\ leaving = {} /\ closed = {}
  /\ send = [k \in Conns |-> <<>>]
  /\ conn = None
  /\ entries = [c \in Contacts |-> <<>>]
  /\ last = [c \in Contacts |-> NoLast]
  /\ timeline = [c \in Contacts |-> NotLoaded]
  /\ fetch = [c \in Contacts |-> NoFetch]
  /\ failed = {}
  /\ open = None
  /\ clock = 1
  /\ used = [rows |-> 0, opens |-> 0, faults |-> 0]
  /\ received = [c \in Contacts |-> {}]

-----------------------------------------------------------------------------
\* The server.

\* A handler or a timer callback stores a row; it may have taken the time
\* before another process stored a later row.
InsertPresence(c) ==
  /\ used.rows < MaxRows
  /\ used' = [used EXCEPT !.rows = @ + 1]
  /\ \E state \in States, at \in {clock - 1, clock} \ {0} :
       LET e == [state |-> state, at |-> at] IN
       /\ e \notin EntriesOf(rows[c])
       /\ rows' = [rows EXCEPT ![c] = Append(@, e)]
       /\ pending' = pending \cup {[contact |-> c, entry |-> e]}
  /\ UNCHANGED <<hubVars, webVars, clock>>

\* Hub.Broadcast, under the read lock: every client gets the event, or loses it
\* when its channel is full.
Broadcast(p) ==
  /\ p \in pending
  /\ pending' = pending \ {p}
  /\ send' = [k \in Conns |-> IF k \in clients /\ Len(send[k]) < Buffer
                             THEN Append(send[k], p) ELSE send[k]]
  /\ UNCHANGED <<rows, clients, leaving, closed, conn, webVars, clock, used>>

\* handleWS: the dashboard connects, greets and is added.
HubAdd(k) ==
  /\ conn = None
  /\ k \notin clients \cup leaving \cup closed
  /\ clients' = clients \cup {k}
  /\ conn' = k
  /\ UNCHANGED <<rows, pending, send, closed, leaving, webVars, clock, used>>

\* Mutant: the channel is closed first.
HubRemoveClosing(k) ==
  /\ conn # k
  /\ k \in clients
  /\ closed' = closed \cup {k}
  /\ leaving' = leaving \cup {k}
  /\ UNCHANGED <<rows, pending, send, clients, conn, webVars, clock, used>>

\* The network drops the connection, with what is in its channel; the hub does
\* not know yet.
Drop ==
  /\ conn # None
  /\ Fault
  /\ conn' = None
  /\ send' = [send EXCEPT ![conn] = <<>>]
  /\ UNCHANGED <<rows, pending, clients, closed, leaving, webVars, clock>>

\* readPump ends: remove deletes the client under the lock ...
HubRemove(k) ==
  /\ conn # k
  /\ k \in clients
  /\ clients' = clients \ {k}
  /\ leaving' = leaving \cup {k}
  /\ UNCHANGED <<rows, pending, send, closed, conn, webVars, clock, used>>

\* ... and closes its channel after it has released it.
HubClose(k) ==
  /\ k \in leaving
  /\ leaving' = leaving \ {k}
  /\ closed' = closed \cup {k}
  /\ UNCHANGED <<rows, pending, send, clients, conn, webVars, clock, used>>

Tick ==
  /\ clock < MaxClock
  /\ clock' = clock + 1
  /\ UNCHANGED <<rows, pending, hubVars, webVars, used>>

-----------------------------------------------------------------------------
\* The dashboard.

\* invalidateQueries(["timeline", ...]): the query of the open page starts
\* again, unless its first answer is still awaited; that of a closed page is
\* only stale.
Invalidated(c) ==
  IF open = c /\ (timeline[c].loaded \/ fetch[c].pc = "none")
  THEN [fetch EXCEPT ![c] = Asked] ELSE fetch

\* App's listener on a presence event.
Deliver ==
  /\ conn # None
  /\ send[conn] # <<>>
  /\ LET c == Head(send[conn]).contact
         e == Head(send[conn]).entry
     IN /\ entries' = [entries EXCEPT ![c] = AddEntry(@, e)]
        /\ last' = [last EXCEPT ![c] = SetLast(@, e)]
        /\ fetch' = Invalidated(c)
        /\ failed' = IF open = c THEN Started(c) ELSE failed
        /\ received' = [received EXCEPT ![c] = @ \cup {e}]
  /\ send' = [send EXCEPT ![conn] = Tail(@)]
  /\ UNCHANGED <<rows, pending, clients, closed, leaving, conn, timeline, open,
                 clock, used>>

\* The page mounts: effects on what is cached, and a request.
Open(c) ==
  /\ open # c
  /\ used.opens < MaxOpens
  /\ used' = [used EXCEPT !.opens = @ + 1]
  /\ open' = c
  /\ Effects(c, timeline[c].rows)
  /\ fetch' = IF fetch[c].pc = "none" THEN [fetch EXCEPT ![c] = Asked] ELSE fetch
  /\ failed' = Started(c)
  /\ UNCHANGED <<rows, pending, hubVars, timeline, received, clock>>

\* Mutant: only a dashboard without a connection polls.
PollDisconnected(c) ==
  /\ open = c /\ conn = None
  /\ fetch[c].pc = "none"
  /\ fetch' = [fetch EXCEPT ![c] = Asked]
  /\ failed' = Started(c)
  /\ UNCHANGED <<rows, pending, hubVars, entries, last, timeline, open, received,
                 clock, used>>

\* The user leaves; a request under way goes on.
Leave ==
  /\ open # None
  /\ open' = None
  /\ UNCHANGED <<rows, pending, hubVars, entries, last, timeline, fetch, failed,
                 received, clock, used>>

\* refetchInterval of the open page, connected or not.
Poll(c) ==
  /\ open = c
  /\ fetch[c].pc = "none"
  /\ fetch' = [fetch EXCEPT ![c] = Asked]
  /\ failed' = Started(c)
  /\ UNCHANGED <<rows, pending, hubVars, entries, last, timeline, open, received,
                 clock, used>>

\* handleTimeline reads all the contact's rows.
Serve(c) ==
  /\ fetch[c].pc = "asked"
  /\ fetch' = [fetch EXCEPT ![c] = [pc |-> "served", rows |-> rows[c]]]
  /\ UNCHANGED <<rows, pending, hubVars, entries, last, timeline, failed, open,
                 received, clock, used>>

\* The answer arrives.  Equal data keep their identity and run no effect, and
\* neither does a page that is no longer there.
Answer(c) ==
  /\ fetch[c].pc = "served"
  /\ timeline' = [timeline EXCEPT ![c] = [loaded |-> TRUE, rows |-> fetch[c].rows]]
  /\ IF open = c /\ timeline'[c] # timeline[c] THEN Effects(c, fetch[c].rows)
                                               ELSE UNCHANGED <<entries, last>>
  /\ fetch' = [fetch EXCEPT ![c] = NoFetch]
  /\ failed' = failed \ {c}
  /\ UNCHANGED <<rows, pending, hubVars, open, received, clock, used>>

\* It is sent again (retry: 1), or given up: the data stay in the cache, and the
\* page shows the error in their place.
Fails(c) ==
  /\ fetch[c].pc # "none"
  /\ Fault
  /\ \/ fetch' = [fetch EXCEPT ![c] = Asked] /\ UNCHANGED failed
     \/ fetch' = [fetch EXCEPT ![c] = NoFetch] /\ failed' = failed \cup {c}
  /\ UNCHANGED <<rows, pending, hubVars, entries, last, timeline, open, received,
                 clock>>

\* Five minutes after the page was left the cache forgets the query.
Collect(c) ==
  /\ open # c
  /\ fetch[c].pc = "none"
  /\ timeline[c].loaded \/ c \in failed
  /\ timeline' = [timeline EXCEPT ![c] = NotLoaded]
  /\ failed' = failed \ {c}
  /\ UNCHANGED <<rows, pending, hubVars, entries, last, fetch, open, received,
                 clock, used>>

-----------------------------------------------------------------------------
Next ==
  \/ \E c \in Contacts : InsertPresence(c)
  \/ \E p \in pending : Broadcast(p)
  \/ \E k \in Conns : HubAdd(k) \/ HubRemove(k) \/ HubClose(k)
  \/ Drop \/ Tick \/ Deliver \/ Leave
  \/ \E c \in Contacts : \/ Open(c) \/ Poll(c) \/ Serve(c) \/ Answer(c)
                         \/ Fails(c) \/ Collect(c)

\* The interval fires and requests are answered.
Fairness == \A c \in Contacts : WF_vars(Poll(c)) /\ WF_vars(Serve(c))
                               /\ WF_vars(Answer(c))

Spec == Init /\ [][Next]_vars /\ Fairness
=============================================================================
