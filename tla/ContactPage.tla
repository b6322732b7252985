------------------------------ MODULE ContactPage ------------------------------
(***************************************************************************)
(* The page of a contact beside the list (web/src/pages/ContactDetail.tsx, *)
(* AppSidebar.tsx, ContactSidebarItem.tsx): whether a contact is tracked,  *)
(* as the table, the list's query, the timeline's query and the store have *)
(* it.                                                                     *)
(*                                                                         *)
(* Header and list show the store's contact before their own query's.      *)
(* Effects copy a query's contact into the store when it changes, or when  *)
(* another contact is opened; a write's answer goes there directly.        *)
(*                                                                         *)
(* Opening another contact renders the same component again, and a pending *)
(* mutation is given the new render's handlers.  The list is one page.     *)
(***************************************************************************)
EXTENDS Naturals, FiniteSets, Functions

CONSTANTS Ids,          \* contacts
          None,         \* no data
          MaxWrites,    \* bound: PATCH and DELETE requests
          MaxLapses     \* bound: changes by others, events, and requests that fail

\* What the constants are.
PageBounds ==
  /\ None \notin BOOLEAN \cup Ids
  /\ \A S \in SUBSET Ids : None \notin [S -> BOOLEAN]
  /\ MaxWrites \in Nat /\ MaxLapses \in Nat

VARIABLES
  contacts, \* the table: for each of its contacts, whether it is tracked
  list,     \* the list's query
  timeline, \* the timeline query of each contact
  store,    \* the store's contacts
  route,    \* the contact whose page is open, if any
  writes,   \* requests under way
  raced,    \* history: contacts changed by others while being written here
  left      \* writes and lapses left

vars == <<contacts, list, timeline, store, route, writes, raced, left>>

-----------------------------------------------------------------------------
Partial == UNION {[S -> BOOLEAN] : S \in SUBSET Ids}
Nothing == [c \in {} |-> FALSE]
Without(f, c) == Restrict(f, DOMAIN f \ {c})
Upsert(f, c, on) == [d \in DOMAIN f \cup {c} |-> IF d = c THEN on ELSE f[d]]
UpsertAll(f, g) == [d \in DOMAIN f \cup DOMAIN g |-> IF d \in DOMAIN g THEN g[d] ELSE f[d]]

\* A query's data, its request, and (history) whether the table has changed
\* since each was read.
NotAsked == [data |-> None, fresh |-> FALSE, pc |-> "idle", got |-> None, gotFresh |-> FALSE]
Ask(q)   == [q EXCEPT !.pc = "asked", !.got = None, !.gotFresh = FALSE]
Asked(q) == IF q.pc = "idle" THEN Ask(q) ELSE q

\* invalidateQueries of a query that is in use.
Invalidated(q) == IF q.data = None /\ q.pc # "idle" THEN q ELSE Ask(q)

Served(q, data) == [q EXCEPT !.pc = "answered", !.got = data, !.gotFresh = TRUE]
Arrived(q) == [NotAsked EXCEPT !.data = q.got, !.fresh = q.gotFresh]
Outdated(q) == [q EXCEPT !.fresh = FALSE, !.gotFresh = FALSE]

Open(c) == route.open = c

\* What the header shows: the store's contact, else the timeline's.
Header(c) == IF c \in DOMAIN store THEN store[c] ELSE timeline[c].data

OutdatedFor(S) ==
  /\ list' = Outdated(list)
  /\ timeline' = [c \in Ids |-> IF c \in S THEN Outdated(timeline[c]) ELSE timeline[c]]

Spend(what) == left[what] > 0 /\ left' = [left EXCEPT ![what] = @ - 1]

Init ==
  /\ contacts \in Partial
  /\ list = Ask(NotAsked)
  /\ timeline = [c \in Ids |-> NotAsked]
  /\ store = Nothing
  /\ route = [open |-> None, last |-> None]
  /\ writes = {}
  /\ raced = {}
  /\ left = [writes |-> MaxWrites, lapses |-> MaxLapses]

-----------------------------------------------------------------------------
\* Routes.

\* A pending mutation of this component gets the handlers of the new render.
Rerendered(c) == {[w EXCEPT !.cid = IF w.own THEN c ELSE @] : w \in writes}

\* A contact of the list is clicked: the effect on tl.data.contact runs with what
\* the cache has of it, and its timeline is asked for.
Visit(c) ==
  /\ list.data # None /\ c \in DOMAIN list.data
  /\ ~Open(c)
  /\ route' = [open |-> c, last |-> c]
  /\ store' = IF timeline[c].data = None THEN store ELSE Upsert(store, c, timeline[c].data)
  /\ timeline' = [timeline EXCEPT ![c] = Asked(@)]
  /\ writes' = Rerendered(c)
  /\ UNCHANGED <<contacts, list, raced, left>>

Unmounted == {[w EXCEPT !.own = FALSE] : w \in writes}

\* To the messages, or another account's pages and back.
Leave ==
  /\ route.open # None
  /\ route' = [route EXCEPT !.open = None]
  /\ writes' = Unmounted
  /\ UNCHANGED <<contacts, list, timeline, store, raced, left>>

-----------------------------------------------------------------------------
\* The queries.

\* The polls, every 30 seconds.
PollList ==
  /\ list.pc = "idle"
  /\ list' = Ask(list)
  /\ UNCHANGED <<contacts, timeline, store, route, writes, raced, left>>

PollTimeline(c) ==
  /\ Open(c) /\ timeline[c].pc = "idle"
  /\ timeline' = [timeline EXCEPT ![c] = Ask(@)]
  /\ UNCHANGED <<contacts, list, store, route, writes, raced, left>>

ServeList ==
  /\ list.pc = "asked"
  /\ list' = Served(list, contacts)
  /\ UNCHANGED <<contacts, timeline, store, route, writes, raced, left>>

\* The effect on allContacts.
ListArrives ==
  /\ list.pc = "answered"
  /\ list' = Arrived(list)
  /\ store' = IF list.got # list.data THEN UpsertAll(store, list.got) ELSE store
  /\ UNCHANGED <<contacts, timeline, route, writes, raced, left>>

ServeTimeline(c) ==
  /\ timeline[c].pc = "asked"
  /\ c \in DOMAIN contacts
  /\ timeline' = [timeline EXCEPT ![c] = Served(@, contacts[c])]
  /\ UNCHANGED <<contacts, list, store, route, writes, raced, left>>

\* Mutant: the store keeps the contact it has.
TimelineArrivesLate(c) ==
  /\ timeline[c].pc = "answered"
  /\ timeline' = [timeline EXCEPT ![c] = Arrived(@)]
  /\ store' = IF Open(c) /\ c \notin DOMAIN store THEN Upsert(store, c, timeline[c].got) ELSE store
  /\ UNCHANGED <<contacts, list, route, writes, raced, left>>

\* The effect on tl.data.contact.
TimelineArrives(c) ==
  /\ timeline[c].pc = "answered"
  /\ timeline' = [timeline EXCEPT ![c] = Arrived(@)]
  /\ store' = IF Open(c) /\ timeline[c].got # timeline[c].data
              THEN Upsert(store, c, timeline[c].got) ELSE store
  /\ UNCHANGED <<contacts, list, route, writes, raced, left>>

\* No such contact.
TimelineNotFound(c) ==
  /\ timeline[c].pc = "asked"
  /\ c \notin DOMAIN contacts
  /\ timeline' = [timeline EXCEPT ![c].pc = "idle"]
  /\ UNCHANGED <<contacts, list, store, route, writes, raced, left>>

QueryFails(c) ==
  /\ Spend("lapses")
  /\ \/ /\ list.pc # "idle"
        /\ list' = [list EXCEPT !.pc = "idle", !.got = None, !.gotFresh = FALSE]
        /\ UNCHANGED timeline
     \/ /\ timeline[c].pc # "idle"
        /\ timeline' = [timeline EXCEPT ![c].pc = "idle", ![c].got = None, ![c].gotFresh = FALSE]
        /\ UNCHANGED list
  /\ UNCHANGED <<contacts, store, route, writes, raced>>

-----------------------------------------------------------------------------
\* The buttons.

Own(op) == {w \in writes : w.own /\ w.op = op}

Request(c, op, value) ==
  /\ Open(c)
  /\ Header(c) # None
  /\ Own(op) = {}
  /\ Spend("writes")
  /\ raced' = IF \E w \in writes : w.id = c THEN raced \cup {c} ELSE raced
  /\ writes' = writes \cup {[n |-> left.writes, id |-> c, cid |-> c, op |-> op, own |-> TRUE,
                             value |-> value, pc |-> "sent", reply |-> None]}
  /\ UNCHANGED <<contacts, list, timeline, store, route>>

Toggle(c) == Request(c, "toggle", ~Header(c))
Delete(c) == Request(c, "delete", None)

At(w, pc, reply) == (writes \ {w}) \cup {[w EXCEPT !.pc = pc, !.reply = reply]}

\* handlePatchContact: UpdateContact, which may touch no row, then GetContact.
Update(w) ==
  /\ w \in writes /\ w.op = "toggle" /\ w.pc = "sent"
  /\ contacts' = IF w.id \in DOMAIN contacts THEN [contacts EXCEPT ![w.id] = w.value] ELSE contacts
  /\ OutdatedFor({w.id})
  /\ writes' = At(w, "updated", None)
  /\ UNCHANGED <<store, route, raced, left>>

Get(w) ==
  /\ w \in writes /\ w.pc = "updated"
  /\ writes' = IF w.id \in DOMAIN contacts THEN At(w, "replied", contacts[w.id]) ELSE writes \ {w}
  /\ UNCHANGED <<contacts, list, timeline, store, route, raced, left>>

ServeDelete(w) ==
  /\ w \in writes /\ w.op = "delete" /\ w.pc = "sent"
  /\ contacts' = Without(contacts, w.id)
  /\ OutdatedFor({w.id})
  /\ writes' = At(w, "replied", None)
  /\ UNCHANGED <<store, route, raced, left>>

\* onSuccess of toggleTracking.
ToggleSucceeds(w) ==
  /\ w \in writes /\ w.op = "toggle" /\ w.pc = "replied"
  /\ store' = Upsert(store, w.id, w.reply)
  /\ list' = Invalidated(list)
  /\ writes' = writes \ {w}
  /\ UNCHANGED <<contacts, timeline, route, raced, left>>

\* onSuccess of deleteContactMutation, with the contact last rendered; it navigates
\* to a path that matches no route.
DeleteSucceeds(w) ==
  /\ w \in writes /\ w.op = "delete" /\ w.pc = "replied"
  /\ store' = Without(store, w.cid)
  /\ list' = Invalidated(list)
  /\ route' = [route EXCEPT !.open = None]
  /\ writes' = {[v EXCEPT !.own = FALSE] : v \in writes \ {w}}
  /\ UNCHANGED <<contacts, timeline, raced, left>>

\* No answer, whatever the server did.
WriteFails(w) ==
  /\ w \in writes
  /\ Spend("lapses")
  /\ writes' = writes \ {w}
  /\ raced' = raced \cup {w.id}
  /\ UNCHANGED <<contacts, list, timeline, store, route>>

-----------------------------------------------------------------------------
\* Others.

\* This page wrote the contact and a query has not read it back.
Pending(c) ==
  \/ \E w \in writes : w.id = c
  \/ c \in DOMAIN store /\ list.data # None /\ c \in DOMAIN list.data /\ store[c] # list.data[c]

\* Another browser pauses, resumes or deletes a contact.
Elsewhere(c) ==
  /\ c \in DOMAIN contacts
  /\ Spend("lapses")
  /\ contacts' \in {[contacts EXCEPT ![c] = ~@], Without(contacts, c)}
  /\ raced' = IF Pending(c) THEN raced \cup {c} ELSE raced
  /\ OutdatedFor({c})
  /\ UNCHANGED <<store, route, writes>>

\* A presence event of the contact reaches App.tsx.
Event(c) ==
  /\ c \in DOMAIN contacts
  /\ Spend("lapses")
  /\ list' = Invalidated(list)
  /\ timeline' = IF Open(c) THEN [timeline EXCEPT ![c] = Invalidated(@)] ELSE timeline
  /\ UNCHANGED <<contacts, store, route, writes, raced>>

Next ==
  \/ Leave \/ PollList \/ ServeList \/ ListArrives
  \/ \E c \in Ids : \/ Visit(c) \/ PollTimeline(c) \/ ServeTimeline(c) \/ TimelineArrives(c)
                    \/ TimelineNotFound(c) \/ QueryFails(c)
                    \/ Toggle(c) \/ Delete(c) \/ Elsewhere(c) \/ Event(c)
  \/ \E w \in writes : \/ Update(w) \/ Get(w) \/ ServeDelete(w)
                       \/ ToggleSucceeds(w) \/ DeleteSucceeds(w) \/ WriteFails(w)

Spec == Init /\ [][Next]_vars

-----------------------------------------------------------------------------
\* Header and list agree with the server about the open contact once both queries
\* have read it as it is, unless it was changed by two at once.
OpenIsServer ==
  \A c \in DOMAIN contacts :
    (/\ Open(c) /\ writes = {} /\ c \notin raced
     /\ list.fresh /\ list.pc = "idle"
     /\ timeline[c].fresh /\ timeline[c].pc = "idle")
    => Header(c) = contacts[c]
=============================================================================
