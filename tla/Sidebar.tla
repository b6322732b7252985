-------------------------------- MODULE Sidebar --------------------------------
(***************************************************************************)
(* The list of contacts (web/src/components/layout/AppSidebar.tsx): an     *)
(* infinite query over pages that the server cuts out of a list whose      *)
(* order changes when a contact is added, deleted, paused or resumed.      *)
(*                                                                         *)
(* Pages are asked for by number, one at a time.  The server counts the    *)
(* contacts and reads the page in two statements.  A fetch is cancelled by *)
(* an invalidation and by the button for more; the list is asked for again *)
(* every 30 seconds.                                                       *)
(***************************************************************************)
EXTENDS Naturals, FiniteSets, SequencesExt

CONSTANTS Ids,        \* contacts that may exist; a later one has a greater id
          BarSize,    \* 50
          MaxPages,   \* bound: pages in the cache
          MaxChanges, \* bound: changes of the table
          MaxEvents,  \* bound: invalidations
          MaxFaults   \* bound: requests that fail

ASSUME SidebarBounds ==
  /\ Ids \subseteq Nat /\ IsFiniteSet(Ids)
  /\ BarSize \in Nat \ {0}
  /\ MaxPages \in Nat \ {0} /\ MaxChanges \in Nat /\ MaxEvents \in Nat /\ MaxFaults \in Nat

VARIABLES
  tracked, \* contacts with tracking on
  paused,  \* contacts with tracking off
  pages,   \* the query's pages, each with the total it came with
  fetch,   \* its request
  left    \* changes and faults left

barVars == <<tracked, paused, pages, fetch, left>>

-----------------------------------------------------------------------------
\* ORDER BY tracking_enabled DESC, added_at DESC.
Newest(S) ==
  [k \in 1 .. Cardinality(S) |-> CHOOSE id \in S : Cardinality({other \in S : other > id}) = k - 1]
Order == Newest(tracked) \o Newest(paused)

\* Mutant: pages are counted from 0 by the server.
ListContactsFromZero(n) ==
  LET last == IF (n + 1) * BarSize < Len(Order) THEN (n + 1) * BarSize ELSE Len(Order)
  IN SubSeq(Order, n * BarSize + 1, last)

\* LIMIT BarSize OFFSET (n - 1) * BarSize.
ListContacts(n) ==
  LET first == (n - 1) * BarSize + 1
      last  == IF n * BarSize < Len(Order) THEN n * BarSize ELSE Len(Order)
  IN SubSeq(Order, first, last)

Page == [contacts : Seq(Ids), total : Nat]

Loaded(ps) == FlattenSeq([i \in DOMAIN ps |-> ps[i].contacts])
TotalOf(ps) == IF ps = <<>> THEN 0 ELSE Head(ps).total

\* getNextPageParam, and the condition of the footer with its button.
HasNext(ps) == Len(Loaded(ps)) < TotalOf(ps)

NoFetch == [pc |-> "idle", kind |-> "all", page |-> 1, total |-> 0,
            built |-> <<>>, want |-> 1]

\* All pages the cache has, from the first.
All == [NoFetch EXCEPT !.pc = "count", !.want = IF pages = <<>> THEN 1 ELSE Len(pages)]

Change == left.changes > 0 /\ left' = [left EXCEPT !.changes = @ - 1]
Fault  == left.faults > 0 /\ left' = [left EXCEPT !.faults = @ - 1]

BarInit ==
  /\ tracked \in SUBSET Ids
  /\ paused \in SUBSET (Ids \ tracked)
  /\ pages = <<>>
  /\ fetch = [NoFetch EXCEPT !.pc = "count"]
  /\ left = [changes |-> MaxChanges, events |-> MaxEvents, faults |-> MaxFaults]

-----------------------------------------------------------------------------
\* The table.  Whoever changed it, this page's mutations among them, the query
\* may be invalidated later, or never.

\* InsertContact: the newest, tracked.
Create(id) ==
  /\ \A c \in tracked \cup paused : c < id
  /\ Change
  /\ tracked' = tracked \cup {id}
  /\ UNCHANGED <<paused, pages, fetch>>

\* SyncWAContacts: the new contacts of the phone, one insert each, untracked.
SyncOne(id) ==
  /\ \A c \in tracked \cup paused : c < id
  /\ Change
  /\ paused' = paused \cup {id}
  /\ UNCHANGED <<tracked, pages, fetch>>

\* UpdateContact.
SetTracking(id) ==
  /\ id \in tracked \cup paused
  /\ Change
  /\ tracked' = IF id \in tracked THEN tracked \ {id} ELSE tracked \cup {id}
  /\ paused' = IF id \in tracked THEN paused \cup {id} ELSE paused \ {id}
  /\ UNCHANGED <<pages, fetch>>

DeleteContact(id) ==
  /\ id \in tracked \cup paused
  /\ Change
  /\ tracked' = tracked \ {id}
  /\ paused' = paused \ {id}
  /\ UNCHANGED <<pages, fetch>>

-----------------------------------------------------------------------------
\* The query.

\* The poll; while a fetch is under way it joins it.
Refetch ==
  /\ fetch.pc = "idle"
  /\ fetch' = All
  /\ UNCHANGED <<tracked, paused, pages, left>>

\* A mutation's onSuccess, or an event in App.tsx; the first load goes on.
Invalidate ==
  /\ pages # <<>>
  /\ left.events > 0
  /\ left' = [left EXCEPT !.events = @ - 1]
  /\ fetch' = All
  /\ UNCHANGED <<tracked, paused, pages>>

\* Mutant: one page too far.
MoreSkips ==
  /\ HasNext(pages)
  /\ ~(fetch.pc # "idle" /\ fetch.kind = "next")
  /\ Len(pages) < MaxPages
  /\ fetch' = [NoFetch EXCEPT !.pc = "count", !.kind = "next", !.page = Len(pages) + 2]
  /\ UNCHANGED <<tracked, paused, pages, left>>

\* The button; a refetch under way is cancelled.
More ==
  /\ HasNext(pages)
  /\ ~(fetch.pc # "idle" /\ fetch.kind = "next")
  /\ Len(pages) < MaxPages
  /\ fetch' = [NoFetch EXCEPT !.pc = "count", !.kind = "next", !.page = Len(pages) + 1]
  /\ UNCHANGED <<tracked, paused, pages, left>>

\* CountContacts, the handler's first statement.
Count ==
  /\ fetch.pc = "count"
  /\ fetch' = [fetch EXCEPT !.pc = "list", !.total = Cardinality(tracked \cup paused)]
  /\ UNCHANGED <<tracked, paused, pages, left>>

\* ListContacts, its second; the page arrives, and the next is asked for.
List ==
  /\ fetch.pc = "list"
  /\ LET page  == [contacts |-> ListContacts(fetch.page), total |-> fetch.total]
         built == Append(fetch.built, page)
     IN IF fetch.kind = "next"
        THEN pages' = Append(pages, page) /\ fetch' = NoFetch
        ELSE IF Len(built) < fetch.want /\ HasNext(built)
        THEN /\ fetch' = [fetch EXCEPT !.pc = "count", !.page = @ + 1, !.built = built]
             /\ UNCHANGED pages
        ELSE pages' = built /\ fetch' = NoFetch
  /\ UNCHANGED <<tracked, paused, left>>

\* The pages stay what they were.
Fail ==
  /\ fetch.pc # "idle"
  /\ Fault
  /\ fetch' = NoFetch
  /\ UNCHANGED <<tracked, paused, pages>>

BarNext ==
  \/ \E id \in Ids : Create(id) \/ SyncOne(id) \/ SetTracking(id) \/ DeleteContact(id)
  \/ Refetch \/ Invalidate \/ More \/ Count \/ List \/ Fail

\* The poll's timer runs and requests are answered.
BarSpec == BarInit /\ [][BarNext]_barVars /\ WF_barVars(Refetch) /\ WF_barVars(Count) /\ WF_barVars(List)

-----------------------------------------------------------------------------
\* The list shows the server's first contacts in its order, whole pages of them,
\* and how many are left.
Exact ==
  LET list == Loaded(pages)
      n    == Cardinality(tracked \cup paused)
  IN  /\ pages # <<>>
      /\ TotalOf(pages) = n
      /\ Len(list) = IF Len(pages) * BarSize < n THEN Len(pages) * BarSize ELSE n
      /\ list = SubSeq(Order, 1, Len(list))

\* As long as nothing changes, more pages continue the list without a repetition or
\* a gap: a table that stays the same keeps an exact list exact.
MoreContinues ==
  [][(Exact /\ fetch.kind = "next" /\ UNCHANGED <<tracked, paused>>) => Exact']_barVars

\* Once contacts stop changing, the list becomes the server's and stays so,
\* whatever the user clicked and however many of its fetches were cancelled.
SidebarCatchesUp == <>[]Exact
=============================================================================
