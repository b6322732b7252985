-------------------------- MODULE MessagesViewProofs --------------------------
(***************************************************************************)
(* The page of a conversation shows nothing twice, leaves nothing out and  *)
(* never waits for nothing, for any number of messages, any page size and  *)
(* any number of requests and faults.                                      *)
(*                                                                         *)
(* Neither of the first two is inductive: a page is appended at a cursor   *)
(* that was computed from the pages when the fetch began, and in a refetch *)
(* from pages that are not shown yet.  The invariant ViewInv adds          *)
(*   - that the pages under way (q.built) are in order as the shown ones   *)
(*     are, and                                                            *)
(*   - that the cursor of a fetch is the last timestamp of the pages it    *)
(*     will extend: whatever changes those pages starts another fetch.     *)
(* A page is marked when the table changes under it, and then promises     *)
(* nothing more.                                                           *)
(***************************************************************************)
EXTENDS MessagesViewProperties, FiniteSetTheorems, TLAPS

-----------------------------------------------------------------------------
\* The answer of ListMessages.

\* Newer is a strict total order of messages.
LEMMA NewerIsOrder ==
  ASSUME NEW a \in Message, NEW b \in Message
  PROVE  /\ a.at \in Nat /\ a.copy \in Nat
         /\ ~Newer(a, a)
         /\ Newer(a, b) => ~Newer(b, a)
         /\ a # b => Newer(a, b) \/ Newer(b, a)
         /\ \A c \in Message : Newer(a, b) /\ Newer(b, c) => Newer(a, c)
  BY DEF Newer, Message

\* There are finitely many messages.
LEMMA MessageFinite == IsFiniteSet(Message)
<1> DEFINE P == (1..LastTime) \X (1..PerSecond)
           f == [p \in P |-> [at |-> p[1], copy |-> p[2]]]
<1>1. IsFiniteSet(1..LastTime) /\ IsFiniteSet(1..PerSecond)
  BY FS_Interval, ViewBounds
<1>2. IsFiniteSet(P)
  BY <1>1, FS_Product
<1>3. f \in Surjection(P, Message)
  <2>1. f \in [P -> Message]
    BY DEF Message
  <2>2. ASSUME NEW m \in Message PROVE \E p \in P : f[p] = m
    <3>1. <<m.at, m.copy>> \in P /\ f[<<m.at, m.copy>>] = m
      BY DEF Message
    <3> QED
      BY <3>1
  <2> QED
    BY <2>1, <2>2 DEF Surjection
<1> HIDE DEF P, f
<1> QED
  BY <1>2, <1>3, FS_Surjection

\* ListMessages returns stored messages before the bound, newest first, and
\* leaves out no message that is newer than one it returns (queries.go).
LEMMA ListMessagesSorted ==
  ASSUME db \in SUBSET Message, NEW before
  PROVE  /\ ListMessages(before) \in Seq(Message)
         /\ \A i, j \in DOMAIN ListMessages(before) :
               i < j => Newer(ListMessages(before)[i], ListMessages(before)[j])
         /\ \A i \in DOMAIN ListMessages(before) :
               ListMessages(before)[i] \in db /\ Before(ListMessages(before)[i], before)
         /\ \A m \in db, i \in DOMAIN ListMessages(before) :
               Before(m, before) /\ Newer(m, ListMessages(before)[i])
                 => \E j \in DOMAIN ListMessages(before) : ListMessages(before)[j] = m
<1> DEFINE asked == {m \in db : Before(m, before)}
           all == Cardinality(asked)
           size == IF all < PageSize THEN all ELSE PageSize
           Upto(m) == {n \in asked : n = m \/ Newer(n, m)}
           Place(m) == Cardinality(Upto(m))
           place == [m \in asked |-> Place(m)]
           at(i) == CHOOSE m \in asked : Place(m) = i
<1>1. asked \in SUBSET Message /\ asked \subseteq db /\ \A m \in asked : Before(m, before)
  OBVIOUS
<1>2. \A m \in db : Before(m, before) => m \in asked
  OBVIOUS
<1>3. IsFiniteSet(asked) /\ all \in Nat
  <2> HIDE DEF asked
  <2> QED
    BY <1>1, MessageFinite, FS_Subset, FS_CardinalityType
<1> HIDE DEF asked
<1>4. ASSUME NEW m \in asked
      PROVE  Place(m) \in 1..all /\ \A n \in asked : Newer(n, m) => Place(n) < Place(m)
  <2>1. Upto(m) \in SUBSET asked /\ m \in Upto(m)
    OBVIOUS
  <2>2. IsFiniteSet(Upto(m)) /\ Place(m) <= all
    BY <2>1, <1>3, FS_Subset
  <2>3. Place(m) \in Nat
    BY <2>2, FS_CardinalityType
  <2>4. Place(m) # 0
    BY <2>1, <2>2, FS_EmptySet
  <2>5. ASSUME NEW n \in asked, Newer(n, m) PROVE Place(n) < Place(m)
    <3>1. Upto(n) \in SUBSET Upto(m) /\ m \notin Upto(n)
      BY <1>1, <2>5, NewerIsOrder
    <3>2. Upto(n) # Upto(m)
      BY <2>1, <3>1
    <3>3. /\ IsFiniteSet(Upto(n)) /\ Cardinality(Upto(n)) <= Cardinality(Upto(m))
          /\ Cardinality(Upto(m)) # Cardinality(Upto(n))
      <4> HIDE DEF Upto
      <4> QED
        BY <3>1, <3>2, <2>2, FS_Subset
    <3>4. Place(n) \in Nat
      BY <3>3, FS_CardinalityType
    <3> QED
      BY <3>3, <3>4, <2>3
  <2> QED
    BY <1>3, <2>2, <2>3, <2>4, <2>5
<1> HIDE DEF Upto, Place
<1>5. \A m, n \in asked : Place(m) = Place(n) => m = n
  <2> SUFFICES ASSUME NEW m \in asked, NEW n \in asked, Place(m) = Place(n), m # n
               PROVE  FALSE
    OBVIOUS
  <2>1. Newer(m, n) \/ Newer(n, m)
    BY <1>1, NewerIsOrder
  <2> QED
    BY <1>3, <1>4, <2>1
<1>6. \A i \in 1..all : \E m \in asked : Place(m) = i
  <2>1. place \in Injection(asked, 1..all)
    BY <1>4, <1>5 DEF Injection, IsInjective
  <2>2. IsFiniteSet(1..all) /\ Cardinality(1..all) = all
    BY <1>3, FS_Interval
  <2>3. place \in Surjection(asked, 1..all)
    <3> HIDE DEF place
    <3> QED
      BY <2>1, <2>2, FS_Injection
  <2> QED
    BY <2>3 DEF Surjection
<1>7. /\ size \in Nat /\ size <= all
      /\ \A i \in 1..size : i \in 1..all
  BY <1>3, ViewBounds
<1>8. ListMessages(before) = [i \in 1..size |-> at(i)]
  BY DEF ListMessages, asked, Place, Upto
<1>9. \A i \in 1..size : at(i) \in asked /\ Place(at(i)) = i
  BY <1>6, <1>7
<1> HIDE DEF at, size, all
<1>10. ListMessages(before) \in Seq(Message) /\ DOMAIN ListMessages(before) = 1..size
  <2>1. [i \in 1..size |-> at(i)] \in [1..size -> Message]
    BY <1>1, <1>9
  <2> QED
    BY <1>7, <1>8, <2>1
<1>11. ASSUME NEW i \in 1..size, NEW j \in 1..size, i < j PROVE Newer(at(i), at(j))
  <2>1. at(i) \in Message /\ at(j) \in Message
    BY <1>1, <1>9
  <2>2. ~Newer(at(j), at(i))
    BY <1>4, <1>9, <1>11
  <2>3. at(i) # at(j)
    BY <1>9, <1>11
  <2> QED
    BY <2>1, <2>2, <2>3, NewerIsOrder
<1>12. ASSUME NEW m \in db, Before(m, before), NEW i \in 1..size, Newer(m, at(i))
       PROVE  \E j \in 1..size : at(j) = m
  <2>1. m \in asked
    BY <1>2, <1>12
  <2>2. Place(m) \in 1..all /\ Place(m) < i
    BY <1>4, <1>9, <1>12, <2>1
  <2>3. Place(m) \in 1..size
    BY <1>3, <1>7, <2>2
  <2>4. at(Place(m)) = m
    BY <1>5, <1>9, <2>1, <2>3
  <2> QED
    BY <2>3, <2>4
<1> QED
  BY <1>1, <1>8, <1>9, <1>10, <1>11, <1>12

-----------------------------------------------------------------------------
\* Its pages, read one after the other, are a chain.

\* Newest first.
Sorted(msgs) == \A i, j \in DOMAIN msgs : i < j => Newer(msgs[i], msgs[j])

\* Each page is sorted, and everything on a later page is older.
Descends(pages) ==
  /\ \A i \in DOMAIN pages : Sorted(pages[i].msgs)
  /\ \A i, j \in DOMAIN pages : i < j =>
        \A m \in ToSet(pages[i].msgs), n \in ToSet(pages[j].msgs) : n.at < m.at

\* What is stored and not older than a message of the i-th page is on one of the
\* first i, while these are current.
Gapless(pages, stored) ==
  \A i \in DOMAIN pages :
     /\ \A k \in 1..i : pages[k].current
     /\ \A m, n \in stored : m.at = n.at => m = n
     => \A m \in stored : (\E n \in ToSet(pages[i].msgs) : n.at <= m.at)
                            => \E k \in 1..i : m \in ToSet(pages[k].msgs)

\* The parameter with which the page after these is read.
Follows(pages, param) ==
  IF pages = <<>> THEN param = 0
  ELSE Last(pages).msgs # <<>> /\ param = Last(Last(pages).msgs).at

\* A fetch goes on from the pages it will extend.
Continues(pages, q) ==
  /\ q.pc = "next" /\ q.param # None => pages # <<>> /\ Follows(pages, q.param)
  /\ q.pc = "all" => Follows(q.built, q.param) /\ q.param \in Nat

\* The queries there are.
Query == [pc : {"idle", "all", "next"}, param : Nat \cup {None}, built : Seq(Page),
          want : Nat, wa : BOOLEAN]

\* The views there are.
View == [pages : Seq(Page), wa : {"idle", "loading", "open", "exhausted"},
         fetching : BOOLEAN, extra : BOOLEAN, deps : BOOLEAN \X BOOLEAN, q : Query]

\* A query whose pages are in order and that continues the shown ones.
QueryOK(pages, q, stored) ==
  Descends(q.built) /\ Gapless(q.built, stored) /\ Continues(pages, q)

\* A view in order, with what is stored.
ViewOK(v, stored) ==
  Descends(v.pages) /\ Gapless(v.pages, stored) /\ QueryOK(v.pages, v.q, stored)

\* The inductive invariant: the pages shown, the pages being read and the cursor
\* fit, and a wait is watched.
ViewInv ==
  /\ db \in SUBSET Message
  /\ view \in View
  /\ ViewOK(view, db)
  /\ posts \in Nat /\ timers \in Nat
  /\ view.fetching => posts + timers > 0

\* The elements of a sequence.
LEMMA ToSetIs == ASSUME NEW s PROVE ToSet(s) = {s[i] : i \in DOMAIN s}
  BY DEF ToSet

\* The last element of a sequence.
LEMMA LastIs ==
  ASSUME NEW S, NEW s \in Seq(S), s # <<>>
  PROVE  Len(s) \in DOMAIN s /\ Last(s) = s[Len(s)] /\ Last(s) \in S /\ Last(s) \in ToSet(s)
<1>1. Len(s) \in DOMAIN s
  OBVIOUS
<1> QED
  BY <1>1, ToSetIs DEF Last

\* The cursor, the last message of a page, is its oldest.
LEMMA LastIsOldest ==
  ASSUME NEW s \in Seq(Message), s # <<>>, Sorted(s), NEW m \in ToSet(s)
  PROVE  Last(s).at <= m.at
<1>1. PICK i \in DOMAIN s : m = s[i]
  BY ToSetIs
<1>2. Len(s) \in DOMAIN s /\ Last(s) = s[Len(s)]
  BY LastIs
<1>3. i = Len(s) \/ i < Len(s)
  OBVIOUS
<1>4. s[i] \in Message /\ s[Len(s)] \in Message
  BY <1>2
<1>5. s[i].at \in Nat /\ s[Len(s)].at \in Nat
  BY <1>4, NewerIsOrder
<1> QED
  BY <1>1, <1>2, <1>3, <1>5 DEF Sorted, Newer

\* A page read at the cursor of pages in order continues them: nothing again and
\* nothing left out, even where the cursor's second holds more messages - those
\* are the ones that DistinctTimes excludes.
LEMMA PageAppended ==
  ASSUME db \in SUBSET Message, NEW pages \in Seq(Page), Descends(pages),
         Gapless(pages, db), NEW param \in Nat, Follows(pages, param)
  PROVE  LET more == Append(pages, [msgs |-> ListMessages(param), current |-> TRUE])
         IN more \in Seq(Page) /\ Descends(more) /\ Gapless(more, db)
<1> DEFINE msgs == ListMessages(param)
           read == [msgs |-> msgs, current |-> TRUE]
           more == Append(pages, read)
           last == Len(pages) + 1
<1>1. /\ msgs \in Seq(Message)
      /\ Sorted(msgs)
      /\ \A m \in ToSet(msgs) : m \in db /\ Before(m, param)
      /\ \A m \in db, n \in ToSet(msgs) : Before(m, param) /\ Newer(m, n) => m \in ToSet(msgs)
  <2>1. /\ msgs \in Seq(Message)
        /\ Sorted(msgs)
        /\ \A i \in DOMAIN msgs : msgs[i] \in db /\ Before(msgs[i], param)
        /\ \A m \in db, i \in DOMAIN msgs :
              Before(m, param) /\ Newer(m, msgs[i]) => \E j \in DOMAIN msgs : msgs[j] = m
    BY ListMessagesSorted DEF Sorted
  <2> HIDE DEF msgs
  <2>2. ToSet(msgs) = {msgs[i] : i \in DOMAIN msgs}
    BY ToSetIs
  <2> QED
    BY <2>1, <2>2
<1> HIDE DEF msgs
<1>2. read \in Page /\ read.msgs = msgs /\ read.current = TRUE
  BY <1>1 DEF Page
<1> HIDE DEF read
<1>3. /\ more \in Seq(Page)
      /\ DOMAIN more = 1..last /\ DOMAIN pages = 1..Len(pages) /\ Len(pages) \in Nat
      /\ more[last] = read
      /\ \A i \in DOMAIN pages : more[i] = pages[i] /\ i \in DOMAIN more /\ i < last
      /\ \A i \in DOMAIN more : i = last \/ i \in DOMAIN pages
  BY <1>2
<1> HIDE DEF more, last
<1>4. \A i \in DOMAIN pages : pages[i].msgs \in Seq(Message)
  <2>1. \A i \in DOMAIN pages : pages[i] \in Page
    OBVIOUS
  <2> QED
    BY <2>1 DEF Page
<1>5. \A m \in ToSet(msgs) : m \in Message
  BY <1>1
<1>6. ASSUME pages # <<>>
      PROVE  /\ Len(pages) \in DOMAIN pages /\ Last(pages) = pages[Len(pages)]
             /\ Last(pages).msgs \in Seq(Message) /\ Last(pages).msgs # <<>>
             /\ param = Last(Last(pages).msgs).at
             /\ Last(Last(pages).msgs) \in ToSet(Last(pages).msgs)
             /\ param > 0
  <2>1. Len(pages) \in DOMAIN pages /\ Last(pages) = pages[Len(pages)]
    BY <1>6, LastIs
  <2>2. Last(pages).msgs \in Seq(Message) /\ Last(pages).msgs # <<>>
        /\ param = Last(Last(pages).msgs).at
    BY <1>4, <1>6, <2>1 DEF Follows
  <2>3. Last(Last(pages).msgs) \in ToSet(Last(pages).msgs)
        /\ Last(Last(pages).msgs) \in Message
    BY <2>2, LastIs
  <2>4. param > 0
    BY <2>2, <2>3 DEF Message
  <2> QED
    BY <2>1, <2>2, <2>3, <2>4
<1>7. ASSUME NEW i \in DOMAIN pages, NEW m \in ToSet(pages[i].msgs)
      PROVE  m \in Message /\ param <= m.at
  <2>1. pages # <<>>
    OBVIOUS
  <2>2. m \in Message
    BY <1>4, ToSetIs
  <2>3. CASE i = Len(pages)
    <3>1. Sorted(pages[i].msgs)
      BY DEF Descends
    <3> QED
      BY <1>4, <1>6, <2>1, <2>2, <2>3, <3>1, LastIsOldest
  <2>4. CASE i # Len(pages)
    <3>1. i < Len(pages)
      BY <1>3, <2>4
    <3>2. Last(Last(pages).msgs).at < m.at
      BY <1>6, <2>1, <3>1 DEF Descends
    <3> QED
      BY <1>6, <2>1, <2>2, <3>2 DEF Message
  <2> QED
    BY <2>3, <2>4
<1>8. Descends(more)
  <2>1. ASSUME NEW i \in DOMAIN more PROVE Sorted(more[i].msgs)
    BY <1>1, <1>2, <1>3 DEF Descends
  <2>2. ASSUME NEW i \in DOMAIN more, NEW j \in DOMAIN more, i < j,
               NEW m \in ToSet(more[i].msgs), NEW n \in ToSet(more[j].msgs)
        PROVE  n.at < m.at
    <3>1. i \in DOMAIN pages /\ more[i] = pages[i]
      BY <1>3, <2>2 DEF last
    <3>2. CASE j \in DOMAIN pages
      BY <1>3, <2>2, <3>1, <3>2 DEF Descends
    <3>3. CASE j = last
      <4>1. n \in ToSet(msgs) /\ n \in Message /\ Before(n, param)
        BY <1>1, <1>2, <1>3, <1>5, <2>2, <3>3
      <4>2. m \in Message /\ param <= m.at /\ param > 0
        BY <1>6, <1>7, <2>2, <3>1
      <4> QED
        BY <4>1, <4>2 DEF Before, Message
    <3> QED
      BY <1>3, <3>2, <3>3
  <2> QED
    BY <2>1, <2>2 DEF Descends
<1>9. Gapless(more, db)
  <2> SUFFICES ASSUME NEW i \in DOMAIN more,
                      \A k \in 1..i : more[k].current,
                      \A m, n \in db : m.at = n.at => m = n,
                      NEW m \in db, NEW n \in ToSet(more[i].msgs), n.at <= m.at
               PROVE  \E k \in 1..i : m \in ToSet(more[k].msgs)
    BY DEF Gapless
  <2>1. CASE i \in DOMAIN pages
    <3>1. \A k \in 1..i : k \in DOMAIN pages /\ more[k] = pages[k]
      BY <1>3, <2>1
    <3>2. \A k \in 1..i : pages[k].current
      BY <3>1
    <3>3. i \in 1..i
      BY <1>3, <2>1
    <3>4. \E k \in 1..i : m \in ToSet(pages[k].msgs)
      BY <2>1, <3>1, <3>2, <3>3 DEF Gapless
    <3> QED
      BY <3>1, <3>4
  <2>2. CASE i = last
    <3>1. n \in ToSet(msgs) /\ n \in Message /\ n \in db
      BY <1>1, <1>2, <1>3, <1>5, <2>2
    <3>2. m \in Message /\ last \in 1..i
      BY <1>3, <2>2 DEF last
    <3>3. CASE Before(m, param)
      <4>1. m = n \/ Newer(m, n)
        BY <3>1, <3>2 DEF Newer, Message
      <4>2. m \in ToSet(msgs)
        BY <1>1, <3>1, <3>3, <4>1
      <4> QED
        BY <1>2, <1>3, <3>2, <4>2
    <3>4. CASE ~Before(m, param)
      <4>1. pages # <<>>
        BY <3>4 DEF Before, Follows
      <4> DEFINE l == Len(pages)
                 o == Last(Last(pages).msgs)
      <4>2. l \in DOMAIN pages /\ o \in ToSet(pages[l].msgs) /\ o.at = param
        BY <1>6, <4>1
      <4>3. o.at <= m.at
        BY <3>2, <3>4, <4>2 DEF Before, Message
      <4>4. \A k \in 1..l : k \in 1..i /\ k \in DOMAIN pages /\ more[k] = pages[k]
        BY <1>3, <2>2 DEF last
      <4>5. \A k \in 1..l : pages[k].current
        BY <4>4
      <4> HIDE DEF l, o
      <4>6. \E k \in 1..l : m \in ToSet(pages[k].msgs)
        BY <4>2, <4>3, <4>5 DEF Gapless
      <4> QED
        BY <4>4, <4>6
    <3> QED
      BY <3>3, <3>4
  <2> QED
    BY <1>3, <2>1, <2>2
<1> QED
  BY <1>3, <1>8, <1>9 DEF more, read, msgs

-----------------------------------------------------------------------------
\* The steps of the component.

\* No pages are in order.
LEMMA EmptyPages ==
  ASSUME NEW stored PROVE Descends(<<>>) /\ Gapless(<<>>, stored)
  BY DEF Descends, Gapless

\* getNextPageParam returns the cursor of the pages, or none.
LEMMA NextParamFollows ==
  ASSUME NEW pages \in Seq(Page), NEW extra \in BOOLEAN
  PROVE  /\ NextParam(pages, extra) \in Nat \cup {None}
         /\ NextParam(pages, extra) # None
              => pages # <<>> /\ Follows(pages, NextParam(pages, extra))
<1>1. CASE pages = <<>>
  BY <1>1 DEF NextParam
<1>2. CASE pages # <<>>
  <2> DEFINE msgs == Last(pages).msgs
  <2>1. Last(pages) \in Page
    BY <1>2, LastIs
  <2>2. msgs \in Seq(Message)
    BY <2>1 DEF Page
  <2>3. CASE msgs = <<>> \/ NextParam(pages, extra) = None
    BY <1>2, <2>3 DEF NextParam
  <2>4. CASE msgs # <<>> /\ NextParam(pages, extra) # None
    <3>1. NextParam(pages, extra) = Last(msgs).at
      BY <1>2, <2>4 DEF NextParam
    <3>2. Last(msgs) \in Message
      BY <2>2, <2>4, LastIs
    <3> QED
      BY <1>2, <2>4, <3>1, <3>2 DEF Follows, Message
  <2> QED
    BY <2>3, <2>4
<1> QED
  BY <1>1, <1>2

\* A query with another pc.
LEMMA WithPc ==
  ASSUME NEW q \in Query, NEW pc \in {"idle", "all", "next"}
  PROVE  /\ [q EXCEPT !.pc = pc] \in Query
         /\ [q EXCEPT !.pc = pc].pc = pc
         /\ [q EXCEPT !.pc = pc].param = q.param
         /\ [q EXCEPT !.pc = pc].built = q.built
  BY DEF Query

\* A query with another param.
LEMMA WithParam ==
  ASSUME NEW q \in Query, NEW param \in Nat \cup {None}
  PROVE  /\ [q EXCEPT !.param = param] \in Query
         /\ [q EXCEPT !.param = param].pc = q.pc
         /\ [q EXCEPT !.param = param].param = param
         /\ [q EXCEPT !.param = param].built = q.built
  BY DEF Query

\* A query with another want.
LEMMA WithWant ==
  ASSUME NEW q \in Query, NEW want \in Nat
  PROVE  /\ [q EXCEPT !.want = want] \in Query
         /\ [q EXCEPT !.want = want].pc = q.pc
         /\ [q EXCEPT !.want = want].param = q.param
         /\ [q EXCEPT !.want = want].built = q.built
  BY DEF Query

\* A query with another purpose.
LEMMA WithWa ==
  ASSUME NEW q \in Query, NEW wa \in BOOLEAN
  PROVE  /\ [q EXCEPT !.wa = wa] \in Query
         /\ [q EXCEPT !.wa = wa].pc = q.pc
         /\ [q EXCEPT !.wa = wa].param = q.param
         /\ [q EXCEPT !.wa = wa].built = q.built
  BY DEF Query

\* The queries a step may start.
LEMMA QueryStarts ==
  ASSUME NEW v \in View, NEW wa \in BOOLEAN, NEW stored
  PROVE  /\ NoFetch \in Query /\ Refetch(v) \in Query /\ NextPage(v, wa) \in Query
         /\ QueryOK(v.pages, NoFetch, stored)
         /\ QueryOK(v.pages, Refetch(v), stored)
         /\ QueryOK(v.pages, NextPage(v, wa), stored)
<1>1. v.pages \in Seq(Page) /\ v.extra \in BOOLEAN
  BY DEF View
<1>2. NoFetch = [pc |-> "idle", param |-> None, built |-> <<>>, want |-> 0, wa |-> FALSE]
  BY DEF NoFetch
<1>3. NoFetch \in Query
  BY <1>2 DEF Query
<1>4. /\ Refetch(v).pc = "all" /\ Refetch(v).param = 0 /\ Refetch(v).built = <<>>
      /\ Refetch(v) \in Query
  <2> DEFINE want == IF v.pages = <<>> THEN 1 ELSE Len(v.pages)
             all == [NoFetch EXCEPT !.pc = "all"]
             newest == [all EXCEPT !.param = 0]
             done == [newest EXCEPT !.want = want]
  <2>1. want \in Nat
    BY <1>1
  <2>2. Refetch(v) = done
    BY DEF Refetch
  <2> HIDE DEF want
  <2>3. all \in Query /\ all.pc = "all" /\ all.built = <<>>
    BY <1>2, <1>3, WithPc
  <2> HIDE DEF all
  <2>4. newest \in Query /\ newest.pc = "all" /\ newest.built = <<>> /\ newest.param = 0
    <3>1. 0 \in Nat \cup {None}
      OBVIOUS
    <3> QED
      BY <2>3, <3>1, WithParam, Zenon
  <2> HIDE DEF newest
  <2> QED
    <3>1. done \in Query /\ done.pc = "all" /\ done.built = <<>> /\ done.param = 0
      BY <2>1, <2>4, WithWant
    <3> QED
      BY <2>2, <3>1
<1>5. /\ NextPage(v, wa).pc = "next" /\ NextPage(v, wa).built = <<>>
      /\ NextPage(v, wa).param = NextParam(v.pages, v.extra)
      /\ NextPage(v, wa) \in Query
  <2> DEFINE param == NextParam(v.pages, v.extra)
             next == [NoFetch EXCEPT !.pc = "next"]
             asked == [next EXCEPT !.wa = wa]
             done == [asked EXCEPT !.param = param]
  <2>1. param \in Nat \cup {None}
    BY <1>1, NextParamFollows
  <2>2. NextPage(v, wa) = done
    BY DEF NextPage
  <2> HIDE DEF param
  <2>3. next \in Query /\ next.pc = "next" /\ next.built = <<>>
    BY <1>2, <1>3, WithPc
  <2> HIDE DEF next
  <2>4. asked \in Query /\ asked.pc = "next" /\ asked.built = <<>>
    BY <2>3, WithWa
  <2> HIDE DEF asked
  <2> QED
    <3>1. done \in Query /\ done.pc = "next" /\ done.built = <<>> /\ done.param = param
      BY <2>1, <2>4, WithParam
    <3> QED
      BY <2>2, <3>1 DEF param
<1>6. QueryOK(v.pages, NoFetch, stored)
  BY <1>2, EmptyPages DEF QueryOK, Continues
<1>7. QueryOK(v.pages, Refetch(v), stored)
  BY <1>4, EmptyPages DEF QueryOK, Continues, Follows
<1>8. QueryOK(v.pages, NextPage(v, wa), stored)
  BY <1>1, <1>5, EmptyPages, NextParamFollows DEF QueryOK, Continues
<1> QED
  BY <1>3, <1>4, <1>5, <1>6, <1>7, <1>8

\* Ending a fetch for WhatsApp touches neither pages nor query.
LEMMA ResolvedFacts ==
  ASSUME NEW v \in View
  PROVE  /\ Resolved(v) \in View
         /\ Resolved(v).pages = v.pages /\ Resolved(v).q = v.q
         /\ Resolved(v).fetching = v.fetching /\ Resolved(v).extra = v.extra
<1>1. Verdict(v.pages) \in {"open", "exhausted"}
  BY DEF Verdict
<1> QED
  BY <1>1 DEF Resolved, View

\* The effect keeps the view in order: a fetch that it starts has the cursor of
\* the pages that are shown.
LEMMA EffectFacts ==
  ASSUME NEW v \in View, NEW stored, ViewOK(v, stored)
  PROVE  /\ Effect(v) \in View /\ ViewOK(Effect(v), stored)
         /\ Effect(v).pages = v.pages /\ Effect(v).fetching = v.fetching
<1> DEFINE deps == <<HasNext(v), v.q.pc = "next">>
           reset == [v EXCEPT !.extra = FALSE]
           more == [Resolved(reset) EXCEPT !.q = NextPage(reset, TRUE),
                                           !.deps = <<HasNext(reset), TRUE>>]
           seen == [v EXCEPT !.deps = deps]
<1>1. reset \in View /\ reset.pages = v.pages /\ reset.fetching = v.fetching
  BY DEF View
<1>2. deps \in BOOLEAN \X BOOLEAN /\ <<HasNext(reset), TRUE>> \in BOOLEAN \X BOOLEAN
  BY DEF HasNext
<1> HIDE DEF deps
<1>3. Effect(v) = v \/ Effect(v) = more \/ Effect(v) = seen
  BY DEF Effect, deps
<1> HIDE DEF reset
<1>4. /\ Resolved(reset) \in View /\ Resolved(reset).pages = v.pages
      /\ Resolved(reset).fetching = v.fetching
  BY <1>1, ResolvedFacts
<1>5. NextPage(reset, TRUE) \in Query /\ QueryOK(v.pages, NextPage(reset, TRUE), stored)
  BY <1>1, QueryStarts
<1>6. /\ more \in View /\ more.pages = v.pages /\ more.fetching = v.fetching
      /\ more.q = NextPage(reset, TRUE)
  BY <1>2, <1>4, <1>5 DEF View
<1>7. /\ seen \in View /\ seen.pages = v.pages /\ seen.fetching = v.fetching
      /\ seen.q = v.q
  BY <1>2 DEF View
<1> HIDE DEF more, seen
<1> QED
  BY <1>3, <1>5, <1>6, <1>7 DEF ViewOK

\* An invalidation keeps the view in order: it starts from the newest page.
LEMMA InvalidatedFacts ==
  ASSUME NEW v \in View, NEW stored, ViewOK(v, stored)
  PROVE  /\ Invalidated(v) \in View /\ ViewOK(Invalidated(v), stored)
         /\ Invalidated(v).fetching = v.fetching
<1>1. /\ Resolved(v) \in View /\ Resolved(v).pages = v.pages
      /\ Resolved(v).fetching = v.fetching
  BY ResolvedFacts
<1>2. Refetch(v) \in Query /\ QueryOK(v.pages, Refetch(v), stored)
  BY QueryStarts
<1> DEFINE w == [Resolved(v) EXCEPT !.q = Refetch(v)]
<1>3. w \in View /\ w.pages = v.pages /\ w.q = Refetch(v) /\ w.fetching = v.fetching
  BY <1>1, <1>2 DEF View
<1>4. Invalidated(v) = v \/ Invalidated(v) = w
  BY DEF Invalidated
<1> HIDE DEF w
<1> QED
  BY <1>2, <1>3, <1>4 DEF ViewOK

\* Marking pages as outdated changes no message; what is outdated promises
\* nothing, whatever is stored.
LEMMA MarkedPages ==
  ASSUME NEW pages \in Seq(Page), NEW stored
  PROVE  LET marked == [i \in DOMAIN pages |-> [pages[i] EXCEPT !.current = FALSE]]
         IN /\ marked \in Seq(Page) /\ DOMAIN marked = DOMAIN pages
            /\ \A i \in DOMAIN pages : marked[i].msgs = pages[i].msgs
            /\ Descends(pages) => Descends(marked)
            /\ Gapless(marked, stored)
            /\ \A param : Follows(pages, param) => Follows(marked, param)
            /\ pages # <<>> => marked # <<>>
<1> DEFINE marked == [i \in DOMAIN pages |-> [pages[i] EXCEPT !.current = FALSE]]
<1>1. ASSUME NEW i \in DOMAIN pages
      PROVE  marked[i] \in Page /\ marked[i].msgs = pages[i].msgs /\ ~marked[i].current
  <2>1. pages[i] \in Page
    OBVIOUS
  <2> QED
    BY <2>1 DEF Page
<1>2. marked \in Seq(Page) /\ DOMAIN marked = DOMAIN pages /\ Len(marked) = Len(pages)
  <2>1. DOMAIN pages = 1..Len(pages) /\ Len(pages) \in Nat
    OBVIOUS
  <2>2. marked \in [1..Len(pages) -> Page]
    BY <1>1, <2>1
  <2> QED
    BY <2>1, <2>2
<1> HIDE DEF marked
<1>3. Descends(pages) => Descends(marked)
  BY <1>1, <1>2 DEF Descends
<1>4. Gapless(marked, stored)
  <2>1. \A i \in DOMAIN marked : i \in 1..i /\ ~marked[i].current
    BY <1>1, <1>2
  <2> QED
    BY <2>1 DEF Gapless
<1>5. ASSUME NEW param, Follows(pages, param) PROVE Follows(marked, param)
  <2>1. CASE pages = <<>>
    <3>1. marked = <<>>
      BY <1>2, <2>1
    <3> QED
      BY <1>5, <2>1, <3>1
  <2>2. CASE pages # <<>>
    <3>1. Len(pages) \in DOMAIN pages /\ Last(pages) = pages[Len(pages)]
      BY <2>2, LastIs
    <3>2. marked # <<>>
      BY <1>2, <2>2
    <3>3. Last(marked) = marked[Len(marked)]
      BY <1>2, <3>2, LastIs
    <3>4. Last(marked).msgs = Last(pages).msgs
      BY <1>1, <1>2, <3>1, <3>3
    <3> QED
      BY <1>5, <2>2, <3>2, <3>4 DEF Follows
  <2> QED
    BY <2>1, <2>2
<1>6. pages # <<>> => marked # <<>>
  BY <1>2
<1> QED
  BY <1>1, <1>2, <1>3, <1>4, <1>5, <1>6 DEF marked

\* A view with all its pages marked is in order with any table.
LEMMA OutdatedFacts ==
  ASSUME NEW v \in View, NEW before, ViewOK(v, before), NEW after
  PROVE  /\ Outdated(v) \in View /\ ViewOK(Outdated(v), after)
         /\ Outdated(v).fetching = v.fetching
<1> DEFINE Marked(pages) == [i \in DOMAIN pages |-> [pages[i] EXCEPT !.current = FALSE]]
           w == Outdated(v)
<1>1. v.pages \in Seq(Page) /\ v.q \in Query /\ v.q.built \in Seq(Page)
  BY DEF View, Query
<1>2. /\ Marked(v.pages) \in Seq(Page) /\ Descends(Marked(v.pages))
      /\ Gapless(Marked(v.pages), after)
      /\ \A param : Follows(v.pages, param) => Follows(Marked(v.pages), param)
      /\ v.pages # <<>> => Marked(v.pages) # <<>>
  BY <1>1, MarkedPages DEF ViewOK
<1>3. /\ Marked(v.q.built) \in Seq(Page) /\ Descends(Marked(v.q.built))
      /\ Gapless(Marked(v.q.built), after)
      /\ \A param : Follows(v.q.built, param) => Follows(Marked(v.q.built), param)
  BY <1>1, MarkedPages DEF ViewOK, QueryOK
<1>4. w = [v EXCEPT !.pages = Marked(v.pages), !.q.built = Marked(v.q.built)]
  BY DEF Outdated
<1> HIDE DEF Marked, w
<1>5. /\ w \in View /\ w.pages = Marked(v.pages) /\ w.fetching = v.fetching
      /\ w.q.built = Marked(v.q.built) /\ w.q.pc = v.q.pc /\ w.q.param = v.q.param
  BY <1>1, <1>2, <1>3, <1>4 DEF View, Query
<1>6. Continues(w.pages, w.q)
  BY <1>2, <1>3, <1>5 DEF ViewOK, QueryOK, Continues
<1> QED
  BY <1>2, <1>3, <1>5, <1>6 DEF ViewOK, QueryOK, w

\* A view with another query.
LEMMA WithQuery ==
  ASSUME NEW v \in View, NEW q \in Query
  PROVE  /\ [v EXCEPT !.q = q] \in View
         /\ [v EXCEPT !.q = q].q = q /\ [v EXCEPT !.q = q].pages = v.pages
         /\ [v EXCEPT !.q = q].fetching = v.fetching
  BY DEF View

\* A view with other pages.
LEMMA WithPages ==
  ASSUME NEW v \in View, NEW pages \in Seq(Page)
  PROVE  /\ [v EXCEPT !.pages = pages] \in View
         /\ [v EXCEPT !.pages = pages].pages = pages
         /\ [v EXCEPT !.pages = pages].q = v.q
         /\ [v EXCEPT !.pages = pages].fetching = v.fetching
  BY DEF View

\* At the start nothing is shown and the first page is being read.
LEMMA InitView == Init => ViewInv
<1> SUFFICES ASSUME Init PROVE ViewInv
  OBVIOUS
<1> DEFINE all == [NoFetch EXCEPT !.pc = "all"]
           newest == [all EXCEPT !.param = 0]
           one == 1
           first == [newest EXCEPT !.want = one]
<1>1. NoFetch = [pc |-> "idle", param |-> None, built |-> <<>>, want |-> 0, wa |-> FALSE]
  BY DEF NoFetch
<1>2. NoFetch \in Query
  BY <1>1 DEF Query
<1>3. all \in Query /\ all.pc = "all" /\ all.built = <<>>
  BY <1>1, <1>2, WithPc
<1>4. FirstView = [pages |-> <<>>, wa |-> "idle", fetching |-> FALSE, extra |-> FALSE,
                   deps |-> <<FALSE, FALSE>>, q |-> first]
  BY DEF FirstView
<1> HIDE DEF all
<1>5. newest \in Query /\ newest.pc = "all" /\ newest.built = <<>> /\ newest.param = 0
  <2>1. 0 \in Nat \cup {None}
    OBVIOUS
  <2> QED
    BY <1>3, <2>1, WithParam, Zenon
<1>6. one \in Nat
  OBVIOUS
<1> HIDE DEF newest, one
<1>7. first \in Query /\ first.pc = "all" /\ first.built = <<>> /\ first.param = 0
  BY <1>5, <1>6, WithWant
<1> HIDE DEF first
<1>8. FirstView \in View /\ FirstView.pages = <<>> /\ FirstView.q = first
      /\ FirstView.fetching = FALSE
  <2>1. <<>> \in Seq(Page)
    OBVIOUS
  <2>2. <<FALSE, FALSE>> \in BOOLEAN \X BOOLEAN
    OBVIOUS
  <2> QED
    BY <1>4, <1>7, <2>1, <2>2 DEF View
<1>9. ViewOK(FirstView, db)
  BY <1>7, <1>8, EmptyPages DEF ViewOK, QueryOK, Continues, Follows
<1>10. view = FirstView /\ db \in SUBSET Message /\ posts = 0 /\ timers = 0
  BY DEF Init
<1> QED
  BY <1>8, <1>9, <1>10 DEF ViewInv

\* A message comes in: the pages are outdated and read again.
LEMMA LiveMessageView ==
  ASSUME ViewInv, NEW m \in Message, LiveMessage(m) PROVE ViewInv'
<1> DEFINE marked == Outdated(view)
           again == Invalidated(marked)
           stored == db \cup {m}
<1>1. db' = stored /\ stored \in SUBSET Message /\ posts' = posts /\ timers' = timers
      /\ view' = Effect(again)
  BY DEF LiveMessage, ViewInv
<1> HIDE DEF stored
<1>2. marked \in View /\ ViewOK(marked, stored) /\ marked.fetching = view.fetching
  BY OutdatedFacts DEF ViewInv
<1> HIDE DEF marked
<1>3. again \in View /\ ViewOK(again, stored) /\ again.fetching = view.fetching
  BY <1>2, InvalidatedFacts
<1> HIDE DEF again
<1>4. /\ Effect(again) \in View /\ ViewOK(Effect(again), stored)
      /\ Effect(again).fetching = view.fetching
  BY <1>3, EffectFacts
<1> QED
  BY <1>1, <1>4 DEF ViewInv

\* An edit, a reaction or a deletion: the pages are read again.
LEMMA MessageEventView == ASSUME ViewInv, MessageEvent PROVE ViewInv'
<1> DEFINE again == Invalidated(view)
<1>1. UNCHANGED <<db, posts, timers>> /\ view' = Effect(again)
  BY DEF MessageEvent
<1>2. again \in View /\ ViewOK(again, db) /\ again.fetching = view.fetching
  BY InvalidatedFacts DEF ViewInv
<1> HIDE DEF again
<1>3. Effect(again) \in View /\ ViewOK(Effect(again), db)
      /\ Effect(again).fetching = view.fetching
  BY <1>2, EffectFacts
<1> QED
  BY <1>1, <1>3 DEF ViewInv

\* Hearing of a sync ends the wait and may start the fetch of one page.
LEMMA SyncHeardFacts ==
  ASSUME NEW v \in View, NEW stored, ViewOK(v, stored)
  PROVE  /\ SyncHeard(v) \in View /\ ViewOK(SyncHeard(v), stored)
         /\ SyncHeard(v).fetching => v.fetching
<1> DEFINE heard == [v EXCEPT !.fetching = FALSE, !.extra = TRUE]
<1>1. /\ heard \in View /\ heard.pages = v.pages /\ heard.q = v.q
      /\ heard.fetching = FALSE
  BY DEF View
<1>2. SyncHeard(v) = Effect(heard) \/ SyncHeard(v) = v
  BY DEF SyncHeard
<1> HIDE DEF heard
<1>3. ViewOK(heard, stored)
  BY <1>1 DEF ViewOK
<1>4. /\ Effect(heard) \in View /\ ViewOK(Effect(heard), stored)
      /\ Effect(heard).fetching = FALSE
  BY <1>1, <1>3, EffectFacts
<1> QED
  BY <1>2, <1>4

\* A history batch outdates the pages, if it is about this contact.
LEMMA HistorySyncView ==
  ASSUME ViewInv, NEW older \in Batches, HistorySync(older) PROVE ViewInv'
<1> DEFINE marked == Outdated(view)
           before == IF older = {} THEN view ELSE marked
           stored == db \cup older
<1>1. db' = stored /\ stored \in SUBSET Message /\ posts' = posts /\ timers' = timers
      /\ view' = SyncHeard(before)
  BY DEF HistorySync, ViewInv, Batches
<1>2. before \in View /\ ViewOK(before, stored) /\ before.fetching = view.fetching
  <2>1. CASE older = {}
    <3>1. stored = db
      BY <2>1
    <3> QED
      BY <2>1, <3>1 DEF ViewInv
  <2>2. CASE older # {}
    <3> HIDE DEF stored
    <3>1. marked \in View /\ ViewOK(marked, stored) /\ marked.fetching = view.fetching
      BY OutdatedFacts DEF ViewInv
    <3> HIDE DEF marked
    <3> QED
      BY <2>2, <3>1
  <2> QED
    BY <2>1, <2>2
<1> HIDE DEF before, stored
<1>3. /\ SyncHeard(before) \in View /\ ViewOK(SyncHeard(before), stored)
      /\ SyncHeard(before).fetching => view.fetching
  BY <1>2, SyncHeardFacts
<1> QED
  BY <1>1, <1>3 DEF ViewInv

\* Whatever ends a fetch and leaves the pages in order keeps the view in order.
LEMMA FetchEnded ==
  ASSUME ViewInv, NEW v \in View, Descends(v.pages), Gapless(v.pages, db),
         v.fetching = view.fetching,
         UNCHANGED <<db, posts, timers>>, view' = Effect([v EXCEPT !.q = NoFetch])
  PROVE  ViewInv'
<1> DEFINE w == [v EXCEPT !.q = NoFetch]
<1>1. NoFetch \in Query /\ QueryOK(v.pages, NoFetch, db)
  BY QueryStarts
<1>2. w \in View /\ w.q = NoFetch /\ w.pages = v.pages /\ w.fetching = view.fetching
  BY <1>1, WithQuery
<1>3. view' = Effect(w)
  OBVIOUS
<1> HIDE DEF w
<1>4. ViewOK(w, db)
  BY <1>1, <1>2 DEF ViewOK
<1>5. Effect(w) \in View /\ ViewOK(Effect(w), db) /\ Effect(w).fetching = view.fetching
  BY <1>2, <1>4, EffectFacts
<1> QED
  BY <1>3, <1>5 DEF ViewInv

\* A page arrives.  fetchNextPage appends it to the pages shown, a refetch to
\* those it has built, and these replace the shown ones in one step.
LEMMA PageArrivesView == ASSUME ViewInv, PageArrives PROVE ViewInv'
<1> DEFINE q == view.q
           read == [msgs |-> ListMessages(q.param), current |-> TRUE]
           built == Append(q.built, read)
           next == NextParam(built, view.extra)
<1>1. UNCHANGED <<db, posts, timers>> /\ db \in SUBSET Message /\ view \in View
  BY DEF PageArrives, ViewInv
<1>2. /\ q \in Query /\ view.pages \in Seq(Page) /\ q.built \in Seq(Page)
      /\ view.extra \in BOOLEAN
  BY <1>1 DEF View, Query
<1>3. /\ Descends(view.pages) /\ Gapless(view.pages, db)
      /\ Descends(q.built) /\ Gapless(q.built, db) /\ Continues(view.pages, q)
  BY DEF ViewInv, ViewOK, QueryOK
<1>4. CASE q.pc = "next"
  <2> DEFINE pages == IF q.param = None THEN view.pages ELSE Append(view.pages, read)
             done == [view EXCEPT !.pages = pages]
  <2>1. pages \in Seq(Page) /\ Descends(pages) /\ Gapless(pages, db)
    <3>1. CASE q.param = None
      BY <1>2, <1>3, <3>1
    <3>2. CASE q.param # None
      <4>1. q.param \in Nat /\ Follows(view.pages, q.param)
        BY <1>2, <1>3, <1>4, <3>2 DEF Continues, Query
      <4>2. /\ Append(view.pages, read) \in Seq(Page)
            /\ Descends(Append(view.pages, read)) /\ Gapless(Append(view.pages, read), db)
        BY <1>1, <1>2, <1>3, <4>1, PageAppended
      <4> QED
        BY <3>2, <4>2
    <3> QED
      BY <3>1, <3>2
  <2>2. view' = Effect([Resolved(done) EXCEPT !.q = NoFetch])
    BY <1>4 DEF PageArrives
  <2> HIDE DEF pages
  <2>3. done \in View /\ done.pages = pages /\ done.fetching = view.fetching
    BY <1>1, <2>1, WithPages
  <2> HIDE DEF done
  <2>4. /\ Resolved(done) \in View /\ Resolved(done).pages = pages
        /\ Resolved(done).fetching = view.fetching
    BY <2>3, ResolvedFacts
  <2> QED
    BY <1>1, <2>1, <2>2, <2>4, FetchEnded
<1>5. CASE q.pc # "next"
  <2>1. q.pc = "all"
    BY <1>2, <1>5 DEF PageArrives, Query
  <2>2. q.param \in Nat /\ Follows(q.built, q.param)
    BY <1>3, <2>1 DEF Continues
  <2>3. built \in Seq(Page) /\ Descends(built) /\ Gapless(built, db)
    BY <1>1, <1>2, <1>3, <2>2, PageAppended
  <2>4. CASE Len(built) < q.want /\ next # None
    <3>1. view' = [view EXCEPT !.q.built = built, !.q.param = next]
      BY <1>5, <2>4 DEF PageArrives
    <3> HIDE DEF built
    <3>2. next \in Nat /\ Follows(built, next)
      BY <1>2, <2>3, <2>4, NextParamFollows
    <3> HIDE DEF next
    <3>3. /\ view' \in View /\ view'.pages = view.pages
          /\ view'.fetching = view.fetching
          /\ view'.q.pc = "all" /\ view'.q.built = built /\ view'.q.param = next
      BY <1>1, <1>2, <2>1, <2>3, <3>1, <3>2 DEF View, Query
    <3>4. PICK w : w = view'
      OBVIOUS
    <3>5. ViewOK(w, db)
      BY <1>3, <2>3, <3>2, <3>3, <3>4 DEF ViewOK, QueryOK, Continues
    <3> QED
      BY <1>1, <3>3, <3>4, <3>5 DEF ViewInv
  <2>5. CASE ~(Len(built) < q.want /\ next # None)
    <3>1. view' = Effect([view EXCEPT !.pages = built, !.q = NoFetch])
      BY <1>5, <2>5 DEF PageArrives
    <3> DEFINE done == [view EXCEPT !.pages = built]
    <3>2. view' = Effect([done EXCEPT !.q = NoFetch])
      BY <3>1
    <3> HIDE DEF built
    <3>3. done \in View /\ done.pages = built /\ done.fetching = view.fetching
      BY <1>1, <2>3, WithPages
    <3> HIDE DEF done
    <3> QED
      BY <1>1, <2>3, <3>2, <3>3, FetchEnded
  <2> QED
    BY <2>4, <2>5
<1> QED
  BY <1>4, <1>5

\* A fetch fails, and the pages stay.
LEMMA FetchFailsView == ASSUME ViewInv, FetchFails PROVE ViewInv'
<1>1. /\ UNCHANGED <<db, posts, timers>> /\ view \in View
      /\ view' = Effect([Resolved(view) EXCEPT !.q = NoFetch])
      /\ Descends(view.pages) /\ Gapless(view.pages, db)
  BY DEF FetchFails, ViewInv, ViewOK
<1>2. /\ Resolved(view) \in View /\ Resolved(view).pages = view.pages
      /\ Resolved(view).fetching = view.fetching
  BY <1>1, ResolvedFacts
<1> QED
  BY <1>1, <1>2, FetchEnded

\* The user's click starts a fetch from the pages shown.
LEMMA LoadOlderLocalView == ASSUME ViewInv, LoadOlderLocal PROVE ViewInv'
<1> DEFINE q == NextPage(view, FALSE)
           w == [view EXCEPT !.q = q]
<1>1. /\ UNCHANGED <<db, posts, timers>> /\ view \in View /\ ViewOK(view, db)
      /\ view' = Effect(w)
  BY DEF LoadOlderLocal, ViewInv
<1>2. q \in Query /\ QueryOK(view.pages, q, db)
  BY <1>1, QueryStarts
<1> HIDE DEF q
<1>3. w \in View /\ w.q = q /\ w.pages = view.pages /\ w.fetching = view.fetching
  BY <1>1, <1>2, WithQuery
<1> HIDE DEF w
<1>4. ViewOK(w, db)
  BY <1>1, <1>2, <1>3 DEF ViewOK
<1>5. Effect(w) \in View /\ ViewOK(Effect(w), db) /\ Effect(w).fetching = view.fetching
  BY <1>3, <1>4, EffectFacts
<1> QED
  BY <1>1, <1>5 DEF ViewInv

\* The flags of WhatsApp are no part of the pages.
LEMMA FlagsSet ==
  ASSUME ViewInv, NEW fetching \in BOOLEAN,
         NEW wa \in {"idle", "loading", "open", "exhausted"},
         UNCHANGED db, posts' \in Nat, timers' \in Nat,
         fetching => posts' + timers' > 0,
         view' = [view EXCEPT !.fetching = fetching, !.wa = wa]
  PROVE  ViewInv'
<1> DEFINE w == [view EXCEPT !.fetching = fetching, !.wa = wa]
<1>1. w \in View /\ w.pages = view.pages /\ w.q = view.q /\ w.fetching = fetching
  BY DEF ViewInv, View
<1> HIDE DEF w
<1>2. ViewOK(w, db)
  BY <1>1 DEF ViewInv, ViewOK
<1>3. view' = w
  BY DEF w
<1> QED
  BY <1>1, <1>2, <1>3 DEF ViewInv

\* Every step keeps the invariant.
LEMMA NextView == ASSUME ViewInv, [Next]_vars PROVE ViewInv'
<1>1. posts \in Nat /\ timers \in Nat /\ (view.fetching => posts + timers > 0)
  BY DEF ViewInv
<1>2. CASE UNCHANGED vars
  BY <1>2 DEF vars, ViewInv
<1>3. ASSUME NEW m \in Message, LiveMessage(m) PROVE ViewInv'
  BY <1>3, LiveMessageView
<1>4. ASSUME NEW older \in Batches, HistorySync(older) PROVE ViewInv'
  BY <1>4, HistorySyncView
<1>5. CASE FetchFromWA
  <2>1. /\ UNCHANGED <<db, timers>> /\ posts' = posts + 1
        /\ view' = [view EXCEPT !.fetching = TRUE, !.wa = "loading"]
    BY <1>5 DEF FetchFromWA, ViewInv, View
  <2>2. posts' \in Nat /\ timers' \in Nat /\ posts' + timers' > 0
    BY <1>1, <2>1
  <2> QED
    BY <2>1, <2>2, FlagsSet, Zenon
<1>6. CASE PostAccepted
  <2>1. UNCHANGED <<db, view>> /\ posts' = posts - 1 /\ timers' = timers + 1 /\ posts > 0
    BY <1>6 DEF PostAccepted
  <2> QED
    BY <1>1, <2>1 DEF ViewInv
<1>7. CASE PostFails
  <2>1. /\ UNCHANGED <<db, timers>> /\ posts' = posts - 1 /\ posts > 0
        /\ view' = [view EXCEPT !.fetching = FALSE, !.wa = "idle"]
    BY <1>7 DEF PostFails
  <2>2. posts' \in Nat /\ timers' \in Nat
    BY <1>1, <2>1
  <2> QED
    BY <2>1, <2>2, FlagsSet, Zenon
<1>8. CASE TimerFires
  <2>1. UNCHANGED <<db, posts>> /\ timers' = timers - 1 /\ timers > 0
    BY <1>8 DEF TimerFires
  <2>2. CASE view.fetching
    <3>1. view' = [view EXCEPT !.fetching = FALSE, !.wa = "exhausted"]
      BY <1>8, <2>2 DEF TimerFires
    <3>2. posts' \in Nat /\ timers' \in Nat
      BY <1>1, <2>1
    <3> QED
      BY <2>1, <3>1, <3>2, FlagsSet, Zenon
  <2>3. CASE ~view.fetching
    <3>1. view' = view
      BY <1>8, <2>3 DEF TimerFires
    <3> QED
      BY <1>1, <2>1, <2>3, <3>1 DEF ViewInv
  <2> QED
    BY <2>2, <2>3
<1> QED
  BY <1>2, <1>3, <1>4, <1>5, <1>6, <1>7, <1>8, MessageEventView, PageArrivesView,
     FetchFailsView, LoadOlderLocalView DEF Next

\* The invariant holds in every reachable state.
LEMMA ViewInvariant == Spec => []ViewInv
<1>1. Init => ViewInv
  BY InitView
<1>2. ViewInv /\ [Next]_vars => ViewInv'
  BY NextView
<1> QED
  BY <1>1, <1>2, PTL DEF Spec

-----------------------------------------------------------------------------
\* What the page shows.

\* Pages in order have no message twice: within a page each is newer than the
\* next, and every page is older than the one before.
LEMMA DescendsApart ==
  ASSUME ViewInv PROVE NoDuplicates
<1>1. view.pages \in Seq(Page) /\ Descends(view.pages)
  BY DEF ViewInv, ViewOK, View
<1>2. \A i \in DOMAIN view.pages : view.pages[i].msgs \in Seq(Message)
  <2>1. \A i \in DOMAIN view.pages : view.pages[i] \in Page
    BY <1>1
  <2> QED
    BY <2>1 DEF Page
<1>3. ASSUME NEW i \in DOMAIN view.pages PROVE IsInjective(view.pages[i].msgs)
  <2> DEFINE msgs == view.pages[i].msgs
  <2>1. Sorted(msgs) /\ msgs \in Seq(Message)
    BY <1>1, <1>2 DEF Descends
  <2> HIDE DEF msgs
  <2> SUFFICES ASSUME NEW a \in DOMAIN msgs, NEW b \in DOMAIN msgs, msgs[a] = msgs[b],
                      a # b
               PROVE  FALSE
    BY DEF IsInjective, msgs
  <2>2. a < b \/ b < a
    BY <2>1
  <2>3. msgs[a] \in Message
    BY <2>1
  <2> QED
    BY <2>1, <2>2, <2>3, NewerIsOrder DEF Sorted
<1>4. ASSUME NEW i \in DOMAIN view.pages, NEW j \in DOMAIN view.pages, i # j,
             NEW m \in ToSet(view.pages[i].msgs), m \in ToSet(view.pages[j].msgs)
      PROVE  FALSE
  <2>1. i < j \/ j < i
    BY <1>1, <1>4
  <2>2. m \in Message
    BY <1>2, ToSetIs
  <2>3. m.at < m.at
    BY <1>1, <1>4, <2>1 DEF Descends
  <2> QED
    BY <2>2, <2>3 DEF Message
<1> QED
  BY <1>3, <1>4 DEF NoDuplicates

\* Pages without gaps have no holes.
LEMMA GaplessShown ==
  ASSUME ViewInv PROVE NoHoles
<1>1. view.pages \in Seq(Page) /\ Gapless(view.pages, db)
  BY DEF ViewInv, ViewOK, View
<1>2. SUFFICES ASSUME \A i \in DOMAIN view.pages : view.pages[i].current,
                      DistinctTimes,
                      NEW m \in db, NEW n \in Shown(view), n.at <= m.at
               PROVE  m \in Shown(view)
  BY DEF NoHoles
<1>3. PICK i \in DOMAIN view.pages : n \in ToSet(view.pages[i].msgs)
  BY DEF Shown
<1>4. \A k \in 1..i : k \in DOMAIN view.pages
  BY <1>1
<1>5. \E k \in 1..i : m \in ToSet(view.pages[k].msgs)
  BY <1>1, <1>2, <1>3, <1>4 DEF Gapless, DistinctTimes
<1> QED
  BY <1>4, <1>5 DEF Shown

\* The page of a conversation never shows a message twice, whatever arrives
\* between the reads of its pages (Messages.tsx, msgs).
THEOREM ViewNoDuplicates == Spec => []NoDuplicates
<1>1. ViewInv => NoDuplicates
  BY DescendsApart
<1> QED
  BY <1>1, ViewInvariant, PTL

\* Once no page is outdated, every stored message that is not older than the
\* oldest one shown is shown, as long as no two messages share a second
\* (Messages.tsx, getNextPageParam; queries.go, ListMessages).
THEOREM ViewNoHoles == Spec => []NoHoles
<1>1. ViewInv => NoHoles
  BY GaplessShown
<1> QED
  BY <1>1, ViewInvariant, PTL

\* While the page waits for WhatsApp, its POST is under way or a timer is running
\* (Messages.tsx, handleFetchFromWA).
THEOREM ViewWaitIsWatched == Spec => []WaitIsWatched
<1>1. ViewInv => WaitIsWatched
  BY DEF ViewInv, WaitIsWatched
<1> QED
  BY <1>1, ViewInvariant, PTL
=============================================================================
