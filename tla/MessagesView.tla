----------------------------- MODULE MessagesView -----------------------------
(***************************************************************************)
(* The page of a conversation (web/src/pages/Messages.tsx): an infinite    *)
(* query that pages backwards through the stored messages by timestamp,    *)
(* and a button that asks WhatsApp for older ones once the stored ones are *)
(* exhausted.                                                              *)
(*                                                                         *)
(* Asking WhatsApp is a protocol of its own: a POST, a history_sync event  *)
(* of the whole account some time later, a 15-second timer, and a flag in  *)
(* a ref that lets the query take one more page.  Answers of the query are *)
(* cancelled by invalidations and by the user's clicks.                    *)
(*                                                                         *)
(* A page is read when its answer arrives.  React runs the effect on       *)
(* [hasNextPage, isFetchingNextPage] before it handles another event.      *)
(***************************************************************************)
EXTENDS Naturals, FiniteSets, SequencesExt

CONSTANTS LastTime,   \* timestamps of messages are 1..LastTime
          PerSecond,  \* messages that may share a timestamp
          PageSize,   \* 50
          None,       \* no next page
          MaxStored,  \* bound: messages stored at first
          MaxLater,   \* bound: messages stored later, one by one or in a sync
          MaxPosts,   \* bound: times WhatsApp is asked
          MaxFaults   \* bound: requests that fail

ASSUME ViewBounds ==
  /\ LastTime \in Nat /\ PerSecond \in Nat \ {0}
  /\ PageSize \in Nat \ {0} /\ None \notin Nat
  /\ MaxStored \in Nat /\ MaxLater \in Nat /\ MaxPosts \in Nat /\ MaxFaults \in Nat

VARIABLES
  db,      \* messages of the contact
  view,    \* the component: its query, waState and refs
  posts,   \* POST fetch-history under way
  timers,  \* 15-second timers that have not fired
  used     \* messages stored, posts and faults so far

vars == <<db, view, posts, timers, used>>

-----------------------------------------------------------------------------
Message == [at : 1..LastTime, copy : 1..PerSecond]

Batches == {S \in SUBSET Message : Cardinality(S) <= MaxLater}

\* Mutant: the cursor's own second is included.
BeforeOrAt(m, before) == before = 0 \/ m.at <= before

\* A page of the cache: its messages, newest first, and (history) whether the
\* table is still what it was when the page was read.
Page == [msgs : Seq(Message), current : BOOLEAN]

\* timestamp < before, or no bound.
Before(m, before) == before = 0 \/ m.at < before

\* ORDER BY timestamp DESC; of a tie the larger copy.
Newer(m, n) == m.at > n.at \/ (m.at = n.at /\ m.copy > n.copy)

\* Mutant: oldest first.
ListMessagesOldest(before) ==
  LET asked == {m \in db : Before(m, before)}
      size == IF Cardinality(asked) < PageSize THEN Cardinality(asked) ELSE PageSize
      Place(m) == Cardinality({n \in asked : n = m \/ Newer(m, n)})
  IN [i \in 1..size |-> CHOOSE m \in asked : Place(m) = i]

\* ListMessages: the first PageSize in that order.
ListMessages(before) ==
  LET asked == {m \in db : Before(m, before)}
      size == IF Cardinality(asked) < PageSize THEN Cardinality(asked) ELSE PageSize
      Place(m) == Cardinality({n \in asked : n = m \/ Newer(n, m)})
  IN [i \in 1..size |-> CHOOSE m \in asked : Place(m) = i]

\* getNextPageParam.
NextParam(pages, extra) ==
  IF pages = <<>> THEN None
  ELSE LET msgs == Last(pages).msgs IN
       IF msgs = <<>> \/ (Len(msgs) < PageSize /\ ~extra) THEN None
       ELSE Last(msgs).at

HasNext(v) == NextParam(v.pages, v.extra) # None

NoFetch == [pc |-> "idle", param |-> None, built |-> <<>>, want |-> 0, wa |-> FALSE]

\* All pages again, from the newest; the first is always read.
Refetch(v) == [NoFetch EXCEPT !.pc = "all", !.param = 0,
                              !.want = IF v.pages = <<>> THEN 1 ELSE Len(v.pages)]

\* fetchNextPage: the parameter is computed as the fetch starts, and without
\* one the query resolves with what it has.
NextPage(v, wa) == [NoFetch EXCEPT !.pc = "next", !.wa = wa,
                                   !.param = NextParam(v.pages, v.extra)]

\* What fetchNextPage's result says about WhatsApp.
Verdict(pages) == IF Last(pages).msgs # <<>> THEN "open" ELSE "exhausted"

\* What a cancelled or finished fetch for WhatsApp leaves behind.
Resolved(v) == IF v.q.wa THEN [v EXCEPT !.wa = Verdict(v.pages)] ELSE v

\* The effect: one more page once hasNextPage is true because of the ref, which
\* is reset first.
Effect(v) ==
  LET deps == <<HasNext(v), v.q.pc = "next">>
      reset == [v EXCEPT !.extra = FALSE]
  IN IF deps = v.deps THEN v
     ELSE IF v.extra /\ deps = <<TRUE, FALSE>>
     THEN [Resolved(reset) EXCEPT !.q = NextPage(reset, TRUE),
                                  !.deps = <<HasNext(reset), TRUE>>]
     ELSE [v EXCEPT !.deps = deps]

\* invalidateQueries: the first load goes on, anything else is cancelled.
Invalidated(v) ==
  IF v.pages = <<>> THEN v ELSE [Resolved(v) EXCEPT !.q = Refetch(v)]

Outdated(v) == [v EXCEPT !.pages =
                  [i \in DOMAIN v.pages |-> [v.pages[i] EXCEPT !.current = FALSE]],
                         !.q.built =
                  [i \in DOMAIN v.q.built |-> [v.q.built[i] EXCEPT !.current = FALSE]]]

Shown(v) == UNION {ToSet(v.pages[i].msgs) : i \in DOMAIN v.pages}

Fault == /\ used.faults < MaxFaults
         /\ used' = [used EXCEPT !.faults = @ + 1]

FirstView == [pages |-> <<>>, wa |-> "idle", fetching |-> FALSE, extra |-> FALSE,
              deps |-> <<FALSE, FALSE>>,
              q |-> [NoFetch EXCEPT !.pc = "all", !.param = 0, !.want = 1]]

Init ==
  /\ db \in {S \in SUBSET Message : Cardinality(S) <= MaxStored}
  /\ view = FirstView
  /\ posts = 0
  /\ timers = 0
  /\ used = [stored |-> 0, posts |-> 0, faults |-> 0]

-----------------------------------------------------------------------------
\* The server and WhatsApp.

\* A message arrives, or one is sent: stored, broadcast, and the query is
\* invalidated.  Its time is not before that of the others.
LiveMessage(m) ==
  /\ used.stored < MaxLater
  /\ m \notin db
  /\ \A n \in db : n.at <= m.at
  /\ db' = db \cup {m}
  /\ used' = [used EXCEPT !.stored = @ + 1]
  /\ view' = Effect(Invalidated(Outdated(view)))
  /\ UNCHANGED <<posts, timers>>

\* Of its edits, reactions and deletions only the invalidation matters here.
\* Bound: none comes during a refetch, which it would only start again.
MessageEvent ==
  /\ view.q.pc # "all"
  /\ view' = Effect(Invalidated(view))
  /\ UNCHANGED <<db, posts, timers, used>>

\* The listener of the page on history_sync.
SyncHeard(v) == IF v.fetching
                THEN Effect([v EXCEPT !.fetching = FALSE, !.extra = TRUE])
                ELSE v

\* A history batch of the account stores older messages, of this contact or
\* (older empty) of others; the page does not tell whether it asked for it.
HistorySync(older) ==
  /\ older \cap db = {}
  /\ \A m \in older, n \in db : m.at <= n.at
  /\ used.stored + Cardinality(older) <= MaxLater
  /\ used' = [used EXCEPT !.stored = @ + Cardinality(older)]
  /\ db' = db \cup older
  /\ view' = SyncHeard(IF older = {} THEN view ELSE Outdated(view))
  /\ UNCHANGED <<posts, timers>>

-----------------------------------------------------------------------------
\* The query.

\* A page arrives: appended, or the next of all of them; pages end where there
\* is no next parameter.
PageArrives ==
  LET q == view.q
      read == [msgs |-> ListMessages(q.param), current |-> TRUE]
      built == Append(q.built, read)
      next == NextParam(built, view.extra)
  IN /\ q.pc # "idle"
     /\ view' =
          IF q.pc = "next"
          THEN LET done == [view EXCEPT !.pages =
                              IF q.param = None THEN @ ELSE Append(@, read)]
               IN Effect([Resolved(done) EXCEPT !.q = NoFetch])
          ELSE IF Len(built) < q.want /\ next # None
          THEN [view EXCEPT !.q.built = built, !.q.param = next]
          ELSE Effect([view EXCEPT !.pages = built, !.q = NoFetch])
     /\ UNCHANGED <<db, posts, timers, used>>

\* The pages stay what they were.
FetchFails ==
  /\ view.q.pc # "idle"
  /\ view.pages # <<>>
  /\ Fault
  /\ view' = Effect([Resolved(view) EXCEPT !.q = NoFetch])
  /\ UNCHANGED <<db, posts, timers>>

-----------------------------------------------------------------------------
\* The user.

\* handleLoadOlderLocal; a refetch under way is cancelled.
LoadOlderLocal ==
  /\ HasNext(view)
  /\ view.q.pc # "next"
  /\ view' = Effect([view EXCEPT !.q = NextPage(view, FALSE)])
  /\ UNCHANGED <<db, posts, timers, used>>

\* Mutant: the timer is forgotten.
PostAcceptedNoTimer ==
  /\ posts > 0
  /\ posts' = posts - 1
  /\ UNCHANGED <<db, view, timers, used>>

\* handleFetchFromWA; the button is there when no stored page is left.
FetchFromWA ==
  /\ ~HasNext(view)
  /\ Shown(view) # {}
  /\ view.wa \in {"idle", "open"}
  /\ used.posts < MaxPosts
  /\ used' = [used EXCEPT !.posts = @ + 1]
  /\ view' = [view EXCEPT !.wa = "loading", !.fetching = TRUE]
  /\ posts' = posts + 1
  /\ UNCHANGED <<db, timers>>

PostAccepted ==
  /\ posts > 0
  /\ posts' = posts - 1
  /\ timers' = timers + 1
  /\ UNCHANGED <<db, view, used>>

\* Not connected, no local messages, or no network.
PostFails ==
  /\ posts > 0
  /\ Fault
  /\ posts' = posts - 1
  /\ view' = [view EXCEPT !.fetching = FALSE, !.wa = "idle"]
  /\ UNCHANGED <<db, timers>>

\* Fifteen seconds later; no event clears the timer.
TimerFires ==
  /\ timers > 0
  /\ timers' = timers - 1
  /\ view' = IF view.fetching
             THEN [view EXCEPT !.fetching = FALSE, !.wa = "exhausted"] ELSE view
  /\ UNCHANGED <<db, posts, used>>

-----------------------------------------------------------------------------
Next ==
  \/ \E m \in Message : LiveMessage(m)
  \/ \E older \in Batches : HistorySync(older)
  \/ MessageEvent \/ PageArrives \/ FetchFails
  \/ LoadOlderLocal \/ FetchFromWA
  \/ PostAccepted \/ PostFails \/ TimerFires

\* Requests are answered and timers fire.
Fairness == WF_vars(PageArrives) /\ WF_vars(PostAccepted) /\ WF_vars(TimerFires)

Spec == Init /\ [][Next]_vars /\ Fairness
=============================================================================
