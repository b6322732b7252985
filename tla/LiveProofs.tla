------------------------------ MODULE LiveProofs ------------------------------
(***************************************************************************)
(* Three results about the live view, for any number of connections,       *)
(* contacts, rows and faults.                                              *)
(*                                                                         *)
(* 1. Broadcast never sends on a closed channel.  A channel is closed      *)
(*    after its connection was deleted from the hub, in two steps: between *)
(*    them the connection is in "leaving".  Inductive is that a connection *)
(*    is in at most one of the three sets: that no client is closed does   *)
(*    not survive a HubClose by itself, which takes its connection from    *)
(*    "leaving".                                                           *)
(* 2. A page that shows entries shows all it was told live: it goes on     *)
(*    showing them, but for the time it shows an error in their place.     *)
(* 3. The badge of a page is the sidebar's dot.                            *)
(*                                                                         *)
(* 2 and 3 rest on one inductive invariant, LiveInv.  It speaks of what    *)
(* the dashboard knows of a contact: what came live and the presence its   *)
(* store holds.  All of it is stored on the server; a loaded page has it   *)
(* in its answer or in its live entries; and - the part that is easy to    *)
(* get wrong - so has a page whose next answer was read already and is on  *)
(* its way, because an answer only ever grows and the entries are pruned   *)
(* by nothing but an answer that the next one contains.                    *)
(***************************************************************************)
EXTENDS LiveProperties, FiniteSetTheorems, TLAPS

\* A connection is registered, or on its way out, or closed (ws.go, add and
\* remove).
OneStage == /\ clients \cap leaving = {}
            /\ clients \cap closed = {}
            /\ leaving \cap closed = {}

\* At the start no connection is known.
LEMMA InitOneStage == Init => OneStage
  BY DEF Init, OneStage

\* Connecting takes a connection that was never seen, deleting moves it out of
\* the clients, closing out of "leaving"; nothing else touches the three sets.
LEMMA NextOneStage == OneStage /\ [Next]_vars => OneStage'
<1> SUFFICES ASSUME OneStage, [Next]_vars PROVE OneStage'
  OBVIOUS
<1>1. ASSUME NEW k \in Conns, HubAdd(k) PROVE OneStage'
  BY <1>1 DEF OneStage, HubAdd
<1>2. ASSUME NEW k \in Conns, HubRemove(k) PROVE OneStage'
  <2>1. k \notin leaving \cup closed
    BY <1>2 DEF OneStage, HubRemove
  <2> QED
    BY <1>2, <2>1 DEF OneStage, HubRemove
<1>3. ASSUME NEW k \in Conns, HubClose(k) PROVE OneStage'
  <2>1. k \notin clients \cup closed
    BY <1>3 DEF OneStage, HubClose
  <2> QED
    BY <1>3, <2>1 DEF OneStage, HubClose
<1>4. CASE UNCHANGED <<clients, leaving, closed>>
  BY <1>4 DEF OneStage
<1>5. ASSUME NEW c \in Contacts,
             \/ InsertPresence(c) \/ Open(c) \/ Poll(c) \/ Serve(c)
             \/ Answer(c) \/ Fails(c) \/ Collect(c)
      PROVE UNCHANGED <<clients, leaving, closed>>
  BY <1>5 DEF InsertPresence, Open, Poll, Serve, Answer, Fails, Collect, hubVars
<1>6. ASSUME NEW p \in pending, Broadcast(p)
      PROVE UNCHANGED <<clients, leaving, closed>>
  BY <1>6 DEF Broadcast
<1>7. CASE Drop \/ Tick \/ Deliver \/ Leave
  <2>1. UNCHANGED <<clients, leaving, closed>>
    BY <1>7 DEF Drop, Tick, Deliver, Leave, hubVars
  <2> QED
    BY <2>1, <1>4
<1>8. CASE UNCHANGED vars
  BY <1>8, <1>4 DEF vars, hubVars
<1> QED
  BY <1>1, <1>2, <1>3, <1>4, <1>5, <1>6, <1>7, <1>8 DEF Next

\* No event is ever sent on a channel that remove has closed (ws.go, Broadcast
\* and remove): a send on a closed channel would end the server.
THEOREM LiveNoSendOnClosed == Spec => []NoSendOnClosed
<1>1. OneStage => NoSendOnClosed
  BY DEF OneStage, NoSendOnClosed
<1> QED
  BY <1>1, InitOneStage, NextOneStage, PTL DEF Spec

-----------------------------------------------------------------------------
\* What filter returns: the entries that are not in gone, and no other.  The n-th
\* of them exists because the places of the indices kept, each counting those up
\* to it, are a bijection with 1..Cardinality(kept).
LEMMA WithoutIsFilter ==
  ASSUME NEW s \in Seq(Entry), NEW gone
  PROVE  /\ Without(s, gone) \in Seq(Entry)
         /\ EntriesOf(Without(s, gone)) = EntriesOf(s) \ gone
<1> DEFINE kept == {i \in DOMAIN s : s[i] \notin gone}
           Place(i) == Cardinality({j \in kept : j <= i})
           size == Cardinality(kept)
           place == [i \in kept |-> Place(i)]
           at(n) == CHOOSE i \in kept : Place(i) = n
<1>1. IsFiniteSet(kept) /\ kept \subseteq Nat /\ size \in Nat
  <2>1. DOMAIN s = 1..Len(s) /\ Len(s) \in Nat
    OBVIOUS
  <2>2. IsFiniteSet(DOMAIN s)
    BY <2>1, FS_Interval
  <2>3. kept \subseteq DOMAIN s
    OBVIOUS
  <2> HIDE DEF kept
  <2>4. IsFiniteSet(kept) /\ Cardinality(kept) \in Nat
    BY <2>2, <2>3, FS_Subset, FS_CardinalityType
  <2> QED
    BY <2>1, <2>3, <2>4
<1> HIDE DEF kept
<1>2. ASSUME NEW i \in kept
      PROVE  Place(i) \in 1..size /\ \A j \in kept : j < i => Place(j) < Place(i)
  <2> DEFINE Upto(k) == {j \in kept : j <= k}
  <2>1. Upto(i) \in SUBSET kept /\ i \in Upto(i)
    BY <1>1
  <2>2. IsFiniteSet(Upto(i)) /\ Place(i) <= size
    BY <2>1, <1>1, FS_Subset
  <2>3. Place(i) \in Nat
    BY <2>2, FS_CardinalityType
  <2>4. Place(i) # 0
    <3> HIDE DEF Upto
    <3>1. Upto(i) # {}
      BY <2>1
    <3>2. Cardinality(Upto(i)) # 0
      BY <3>1, <2>2, FS_EmptySet
    <3> QED BY <3>2 DEF Upto
  <2>5. ASSUME NEW j \in kept, j < i PROVE Place(j) < Place(i)
    <3>0. \A k \in kept : k \in Nat
      BY <1>1
    <3>1. Upto(j) \in SUBSET Upto(i) /\ i \notin Upto(j) /\ i \in Upto(i)
      <4>1. ~(i <= j) /\ i <= i BY <3>0, <2>5
      <4>2. \A k \in kept : k <= j => k <= i BY <3>0, <2>5
      <4> QED BY <4>1, <4>2
    <3>2. Upto(j) # Upto(i)
      BY <3>1
    <3>3. IsFiniteSet(Upto(j)) /\ Cardinality(Upto(j)) <= Cardinality(Upto(i))
          /\ Cardinality(Upto(i)) # Cardinality(Upto(j))
      <4> HIDE DEF Upto
      <4> QED BY <3>1, <3>2, <2>2, FS_Subset
    <3>4. Place(j) \in Nat
      BY <3>3, FS_CardinalityType
    <3> QED BY <3>3, <3>4, <2>3
  <2> QED
    BY <2>2, <2>3, <2>4, <2>5, <1>1
<1>3. \A n \in 1..size : \E i \in kept : Place(i) = n
  <2>1. place \in [kept -> 1..size]
    BY <1>2
  <2>2. \A i, j \in kept : place[i] = place[j] => i = j
    <3> SUFFICES ASSUME NEW i \in kept, NEW j \in kept, place[i] = place[j], i # j PROVE FALSE
      OBVIOUS
    <3>1. i < j \/ j < i
      BY <1>1
    <3>2. (i < j => place[i] < place[j]) /\ (j < i => place[j] < place[i])
      BY <1>2
    <3>3. place[i] \in Int
      BY <2>1
    <3> QED BY <3>1, <3>2, <3>3
  <2>3. place \in Injection(kept, 1..size)
    BY <2>1, <2>2 DEF Injection, IsInjective
  <2>4. IsFiniteSet(1..size) /\ Cardinality(1..size) = size
    BY <1>1, FS_Interval
  <2>5. place \in Surjection(kept, 1..size)
    <3> HIDE DEF place, size
    <3> QED BY <2>3, <2>4, FS_Injection DEF size
  <2> QED BY <2>5 DEF Surjection
<1>4. Without(s, gone) = [n \in 1..size |-> s[at(n)]]
  BY DEF Without, kept
<1>5. \A n \in 1..size : at(n) \in kept
  BY <1>3
<1>6. \A i \in kept : Place(i) \in 1..size /\ at(Place(i)) = i
  <2> SUFFICES ASSUME NEW i \in kept, NEW j \in kept, Place(i) = Place(j) PROVE i = j
    <3>1. \A i \in kept : Place(i) \in 1..size BY <1>2
    <3> HIDE DEF Place
    <3> QED BY <3>1
  <2>1. i < j \/ j < i \/ i = j BY <1>1
  <2>2. (i < j => Place(i) < Place(j)) /\ (j < i => Place(j) < Place(i)) BY <1>2
  <2>3. Place(i) \in Int BY <1>2
  <2> QED BY <2>1, <2>2, <2>3
<1> HIDE DEF at, Place, size
<1>7. \A i \in kept : i \in DOMAIN s /\ s[i] \in Entry /\ s[i] \notin gone
  BY DEF kept
<1>8. Without(s, gone) \in Seq(Entry)
  <2>1. [n \in 1..size |-> s[at(n)]] \in [1..size -> Entry]
    BY <1>5, <1>7
  <2> QED
    BY <1>1, <1>4, <2>1
<1>9. DOMAIN Without(s, gone) = 1..size
  BY <1>4
<1>10. \A x \in EntriesOf(Without(s, gone)) : x \in EntriesOf(s) \ gone
  BY <1>4, <1>5, <1>7, <1>9 DEF EntriesOf
<1>11. \A x \in EntriesOf(s) \ gone : x \in EntriesOf(Without(s, gone))
  <2> SUFFICES ASSUME NEW i \in DOMAIN s, s[i] \notin gone
               PROVE \E n \in 1..size : Without(s, gone)[n] = s[i]
     BY <1>9 DEF EntriesOf
  <2>1. i \in kept
    BY DEF kept
  <2> QED BY <2>1, <1>6, <1>4
<1> QED
  BY <1>8, <1>10, <1>11

\* A relation "later" on the indices of a sequence that is transitive and
\* irreflexive has a last one: of the finite sets of later indices one is
\* minimal, and it is empty.
LEMMA Extremum ==
  ASSUME NEW s \in Seq(Entry), s # <<>>,
         NEW later \in [DOMAIN s -> SUBSET DOMAIN s],
         \A i \in DOMAIN s : i \notin later[i],
         \A i \in DOMAIN s : \A j \in later[i] : later[j] \subseteq later[i]
  PROVE  \E i \in DOMAIN s : later[i] = {}
<1> DEFINE F == {later[i] : i \in DOMAIN s}
<1>1. IsFiniteSet(DOMAIN s) /\ DOMAIN s # {}
  <2>1. DOMAIN s = 1..Len(s) /\ Len(s) \in Nat /\ Len(s) # 0
    OBVIOUS
  <2>2. IsFiniteSet(1..Len(s))
    BY <2>1, FS_Interval
  <2>3. 1 \in 1..Len(s)
    BY <2>1
  <2> QED
    BY <2>1, <2>2, <2>3
<1>2. F \in SUBSET FiniteSubsetsOf(DOMAIN s) /\ F # {}
  <2>1. F \in SUBSET SUBSET DOMAIN s /\ F # {}
    BY <1>1
  <2> HIDE DEF F
  <2> QED
    BY <1>1, <2>1, FS_FiniteSubsetsOfFinite
<1>3. \E A \in F : \A B \in F : <<B, A>> \notin StrictSubsetOrdering(DOMAIN s)
  <2> HIDE DEF F
  <2> QED
    BY <1>2, FS_StrictSubsetOrderingWellFounded, WFMin
<1>4. PICK i \in DOMAIN s : \A j \in DOMAIN s : ~(later[j] \subseteq later[i] /\ later[j] # later[i])
  <2>1. \A A, B \in F : <<B, A>> \notin StrictSubsetOrdering(DOMAIN s)
                         => ~(B \subseteq A /\ B # A)
    <3> SUFFICES ASSUME NEW A \in F, NEW B \in F, B \subseteq A, B # A
                 PROVE  <<B, A>> \in StrictSubsetOrdering(DOMAIN s)
      OBVIOUS
    <3>1. A \in SUBSET DOMAIN s /\ B \in SUBSET DOMAIN s
      OBVIOUS
    <3> QED
      BY <3>1 DEF StrictSubsetOrdering
  <2>2. PICK A \in F : \A B \in F : ~(B \subseteq A /\ B # A)
    BY <1>3, <2>1
  <2>3. PICK i \in DOMAIN s : A = later[i]
    OBVIOUS
  <2>4. \A j \in DOMAIN s : later[j] \in F
    OBVIOUS
  <2> HIDE DEF F
  <2> QED
    BY <2>2, <2>3, <2>4
<1>5. ASSUME NEW j \in later[i] PROVE FALSE
  <2>1. j \in DOMAIN s
    OBVIOUS
  <2>2. later[j] \subseteq later[i]
    BY <2>1
  <2>3. j \notin later[j]
    BY <2>1
  <2> QED
    BY <1>4, <2>1, <2>2, <2>3
<1> QED
  BY <1>5

\* What the badge is computed from is one of the entries, and none is later.
LEMMA LatestOfIsLatest ==
  ASSUME NEW s \in Seq(Entry), s # <<>>
  PROVE  /\ LatestOf(s) \in EntriesOf(s)
         /\ \A e \in EntriesOf(s) : e.at <= LatestOf(s).at
<1> DEFINE later == [i \in DOMAIN s |->
              {j \in DOMAIN s : s[i].at < s[j].at \/ (s[i].at = s[j].at /\ i < j)}]
<1>1. \A i \in DOMAIN s : i \in Nat /\ s[i].at \in Nat
  <2>1. \A i \in DOMAIN s : i \in Nat /\ s[i] \in Entry
    OBVIOUS
  <2> QED
    BY <2>1 DEF Entry
<1>2. \E i \in DOMAIN s : later[i] = {}
  <2>1. /\ later \in [DOMAIN s -> SUBSET DOMAIN s]
        /\ \A i \in DOMAIN s : i \notin later[i]
    BY <1>1
  <2>2. \A i \in DOMAIN s : \A j \in later[i] : later[j] \subseteq later[i]
    BY <1>1
  <2> HIDE DEF later
  <2> QED
    BY <2>1, <2>2, Extremum
<1>3. \E i \in DOMAIN s : IsLatest(s, i)
  <2>1. PICK i \in DOMAIN s : later[i] = {}
    BY <1>2
  <2>2. \A j \in DOMAIN s : ~(s[i].at < s[j].at) /\ ~(s[i].at = s[j].at /\ i < j)
    BY <2>1
  <2>3. \A j \in DOMAIN s : s[j].at < s[i].at \/ (s[j].at = s[i].at /\ j <= i)
    BY <1>1, <2>2
  <2> QED
    BY <2>3 DEF IsLatest
<1> DEFINE i == CHOOSE j \in DOMAIN s : IsLatest(s, j)
<1>4. i \in DOMAIN s /\ IsLatest(s, i)
  BY <1>3
<1>5. LatestOf(s) = s[i]
  BY DEF LatestOf
<1> HIDE DEF i, later
<1> QED
  BY <1>1, <1>4, <1>5 DEF IsLatest, EntriesOf

\* Likewise the first one of the entries sorted newest first, which an effect
\* hands to the store.
LEMMA FirstOfLatestIsLatest ==
  ASSUME NEW s \in Seq(Entry), s # <<>>
  PROVE  /\ FirstOfLatest(s) \in EntriesOf(s)
         /\ \A e \in EntriesOf(s) : e.at <= FirstOfLatest(s).at
<1> DEFINE later == [i \in DOMAIN s |->
              {j \in DOMAIN s : s[i].at < s[j].at \/ (s[i].at = s[j].at /\ j < i)}]
           First(i) == \A j \in DOMAIN s :
                          s[j].at < s[i].at \/ (s[j].at = s[i].at /\ i <= j)
<1>1. \A i \in DOMAIN s : i \in Nat /\ s[i].at \in Nat
  <2>1. \A i \in DOMAIN s : i \in Nat /\ s[i] \in Entry
    OBVIOUS
  <2> QED
    BY <2>1 DEF Entry
<1>2. \E i \in DOMAIN s : later[i] = {}
  <2>1. /\ later \in [DOMAIN s -> SUBSET DOMAIN s]
        /\ \A i \in DOMAIN s : i \notin later[i]
    BY <1>1
  <2>2. \A i \in DOMAIN s : \A j \in later[i] : later[j] \subseteq later[i]
    BY <1>1
  <2> HIDE DEF later
  <2> QED
    BY <2>1, <2>2, Extremum
<1>3. \E i \in DOMAIN s : First(i)
  <2>1. PICK i \in DOMAIN s : later[i] = {}
    BY <1>2
  <2>2. \A j \in DOMAIN s : ~(s[i].at < s[j].at) /\ ~(s[i].at = s[j].at /\ j < i)
    BY <2>1
  <2> QED
    BY SMTT(30), <1>1, <2>2
<1> DEFINE i == CHOOSE j \in DOMAIN s : First(j)
<1>4. i \in DOMAIN s /\ First(i)
  BY <1>3
<1>5. FirstOfLatest(s) = s[i]
  BY DEF FirstOfLatest
<1> HIDE DEF i, later
<1> QED
  BY <1>1, <1>4, <1>5 DEF EntriesOf

-----------------------------------------------------------------------------
\* An event of a connection's channel.
Event == [contact : Contacts, entry : Entry]
\* What the query cache has of a contact.
Data == [loaded : BOOLEAN, rows : Seq(Entry)]
\* Where the query of a contact is.
Request == [pc : {"none", "asked", "served"}, rows : Seq(Entry)]

\* The types of what the page's data flow through.
LiveType ==
  /\ rows \in [Contacts -> Seq(Entry)]
  /\ pending \subseteq Event
  /\ send \in [Conns -> Seq(Event)]
  /\ conn \in Conns \cup {None}
  /\ entries \in [Contacts -> Seq(Entry)]
  /\ last \in [Contacts -> Entry \cup {NoLast}]
  /\ timeline \in [Contacts -> Data]
  /\ fetch \in [Contacts -> Request]
  /\ open \in Contacts \cup {None}
  /\ clock \in Nat \ {0}
  /\ received \in [Contacts -> SUBSET Entry]

\* What the dashboard knows of c: what came live, and the store's presence.
Known(c) == received[c] \cup ({last[c]} \ {NoLast})

\* The rows of the answer a page shows, and of the one on its way to it.
AnswerOf(c) == EntriesOf(timeline[c].rows)
ServedOf(c) == EntriesOf(fetch[c].rows)

\* An event is of a row that is stored.
EventsStored ==
  /\ \A p \in pending : p.entry \in EntriesOf(rows[p.contact])
  /\ \A k \in Conns : \A p \in EntriesOf(send[k]) : p.entry \in EntriesOf(rows[p.contact])

\* Nothing is known that is not stored.
KnownStored(c) == Known(c) \subseteq EntriesOf(rows[c])

\* An answer is part of what the server has, and the next one contains it.
AnswersGrow(c) ==
  /\ ~timeline[c].loaded => timeline[c].rows = <<>>
  /\ AnswerOf(c) \subseteq EntriesOf(rows[c])
  /\ fetch[c].pc = "served" => /\ AnswerOf(c) \subseteq ServedOf(c)
                               /\ ServedOf(c) \subseteq EntriesOf(rows[c])

\* A loaded page has all that is known; so has one whose answer is on its way.
KnownKept(c) ==
  /\ EntriesOf(entries[c]) \subseteq received[c]
  /\ timeline[c].loaded => Known(c) \subseteq AnswerOf(c) \cup EntriesOf(entries[c])
  /\ fetch[c].pc = "served" => Known(c) \subseteq ServedOf(c) \cup EntriesOf(entries[c])

\* The store's presence is not before anything that came live, nor, on an open
\* page, before a row of the answer.
LastIsLatest(c) ==
  /\ \A e \in received[c] : e.at <= last[c].at
  /\ open = c /\ timeline[c].loaded => \A e \in AnswerOf(c) : e.at <= last[c].at

PageInv(c) == KnownStored(c) /\ AnswersGrow(c) /\ KnownKept(c) /\ LastIsLatest(c)

\* The inductive invariant.
LiveInv == LiveType /\ EventsStored /\ \A c \in Contacts : PageInv(c)

-----------------------------------------------------------------------------
\* Appending adds one entry.
LEMMA EntriesOfAppend ==
  ASSUME NEW S, NEW s \in Seq(S), NEW e \in S
  PROVE  /\ EntriesOf(Append(s, e)) = EntriesOf(s) \cup {e}
         /\ EntriesOf(s) \subseteq S
<1>1. EntriesOf(s) \subseteq S
  BY DEF EntriesOf
<1>2. ASSUME NEW x \in EntriesOf(Append(s, e)) PROVE x \in EntriesOf(s) \cup {e}
  <2>1. PICK i \in DOMAIN Append(s, e) : x = Append(s, e)[i]
    BY DEF EntriesOf
  <2>2. i \in 1..(Len(s) + 1)
    BY <2>1
  <2>3. CASE i = Len(s) + 1
    BY <2>1, <2>3
  <2>4. CASE i \in DOMAIN s
    BY <2>1, <2>4 DEF EntriesOf
  <2> QED
    BY <2>2, <2>3, <2>4
<1>3. EntriesOf(s) \subseteq EntriesOf(Append(s, e))
  <2> SUFFICES ASSUME NEW i \in DOMAIN s PROVE s[i] \in EntriesOf(Append(s, e))
    BY DEF EntriesOf
  <2>1. i \in DOMAIN Append(s, e) /\ Append(s, e)[i] = s[i]
    OBVIOUS
  <2> QED
    BY <2>1 DEF EntriesOf
<1>4. e \in EntriesOf(Append(s, e))
  <2>1. Len(s) + 1 \in DOMAIN Append(s, e) /\ Append(s, e)[Len(s) + 1] = e
    OBVIOUS
  <2> QED
    BY <2>1 DEF EntriesOf
<1> QED
  BY <1>1, <1>2, <1>3, <1>4

\* The entries of two lists put one after the other.
LEMMA EntriesOfConcat ==
  ASSUME NEW S, NEW s \in Seq(S), NEW t \in Seq(S)
  PROVE  EntriesOf(s \o t) = EntriesOf(s) \cup EntriesOf(t)
<1>1. ASSUME NEW i \in DOMAIN (s \o t) PROVE (s \o t)[i] \in EntriesOf(s) \cup EntriesOf(t)
  <2>1. CASE i <= Len(s)
    <3>1. i \in DOMAIN s /\ (s \o t)[i] = s[i]
      BY <2>1
    <3> QED
      BY <3>1 DEF EntriesOf
  <2>2. CASE i > Len(s)
    <3>1. i - Len(s) \in DOMAIN t /\ (s \o t)[i] = t[i - Len(s)]
      BY <2>2
    <3> QED
      BY <3>1 DEF EntriesOf
  <2> QED
    BY <2>1, <2>2
<1>2. ASSUME NEW i \in DOMAIN s PROVE s[i] \in EntriesOf(s \o t)
  <2>1. i \in DOMAIN (s \o t) /\ (s \o t)[i] = s[i]
    OBVIOUS
  <2> QED
    BY <2>1 DEF EntriesOf
<1>3. ASSUME NEW i \in DOMAIN t PROVE t[i] \in EntriesOf(s \o t)
  <2>1. Len(s) + i \in DOMAIN (s \o t) /\ (s \o t)[Len(s) + i] = t[i]
    OBVIOUS
  <2> QED
    BY <2>1 DEF EntriesOf
<1> QED
  BY <1>1, <1>2, <1>3 DEF EntriesOf

\* An empty list has none.
LEMMA EntriesOfEmpty == EntriesOf(<<>>) = {}
  BY DEF EntriesOf

\* The store keeps the later of two, and has one from then on (store.ts,
\* setLastPresence).
LEMMA SetLastKeepsLatest ==
  ASSUME NEW l \in Entry \cup {NoLast}, NEW e \in Entry
  PROVE  /\ SetLast(l, e) \in {l, e} \ {NoLast}
         /\ l.at <= SetLast(l, e).at /\ e.at <= SetLast(l, e).at
  BY DEF SetLast, Entry, NoLast

\* What the two effects do on new data of c: the store's presence is not before
\* any row of the answer, and exactly the rows of the answer leave the live
\* entries (ContactDetail.tsx).
LEMMA EffectsOnData ==
  ASSUME LiveType, NEW c \in Contacts, NEW answer \in Seq(Entry), Effects(c, answer)
  PROVE  /\ last' \in [Contacts -> Entry \cup {NoLast}]
         /\ entries' \in [Contacts -> Seq(Entry)]
         /\ \A d \in Contacts \ {c} : last'[d] = last[d] /\ entries'[d] = entries[d]
         /\ EntriesOf(entries'[c]) = EntriesOf(entries[c]) \ EntriesOf(answer)
         /\ last'[c] = last[c] \/ last'[c] \in EntriesOf(answer)
         /\ last[c].at <= last'[c].at
         /\ \A e \in EntriesOf(answer) : e.at <= last'[c].at
<1>1. /\ Prune(entries[c], answer) \in Seq(Entry)
      /\ EntriesOf(Prune(entries[c], answer)) = EntriesOf(entries[c]) \ EntriesOf(answer)
  BY WithoutIsFilter DEF LiveType, Prune
<1>2. /\ entries' \in [Contacts -> Seq(Entry)]
      /\ \A d \in Contacts \ {c} : entries'[d] = entries[d]
      /\ EntriesOf(entries'[c]) = EntriesOf(entries[c]) \ EntriesOf(answer)
  BY <1>1 DEF LiveType, Effects
<1>3. last[c] \in Entry \cup {NoLast} /\ last[c].at \in Nat
  BY DEF LiveType, Entry, NoLast
<1>4. CASE answer = <<>>
  <2>1. last' = last
    BY <1>4 DEF LiveType, Effects
  <2> QED
    BY <2>1, <1>2, <1>3, <1>4, EntriesOfEmpty DEF LiveType
<1>5. CASE answer # <<>>
  <2> DEFINE f == FirstOfLatest(answer)
  <2>1. f \in EntriesOf(answer) /\ \A e \in EntriesOf(answer) : e.at <= f.at
    BY <1>5, FirstOfLatestIsLatest
  <2>2. EntriesOf(answer) \subseteq Entry
    BY DEF EntriesOf
  <2>3. f \in Entry
    BY <2>1, <2>2
  <2>4. last' = [last EXCEPT ![c] = SetLast(@, f)]
    BY <1>5 DEF LiveType, Effects
  <2> HIDE DEF f
  <2>5. /\ SetLast(last[c], f) \in {last[c], f} \ {NoLast}
        /\ last[c].at <= SetLast(last[c], f).at /\ f.at <= SetLast(last[c], f).at
    BY <1>3, <2>3, SetLastKeepsLatest
  <2>6. \A e \in EntriesOf(answer) : e.at <= SetLast(last[c], f).at
    <3>1. \A e \in EntriesOf(answer) : e.at \in Nat
      BY <2>2 DEF Entry
    <3>2. SetLast(last[c], f).at \in Nat /\ f.at \in Nat
      BY <2>3, <2>5 DEF Entry, NoLast, LiveType
    <3> QED
      BY <3>1, <3>2, <2>1, <2>5
  <2> QED
    BY <1>2, <2>1, <2>3, <2>4, <2>5, <2>6 DEF LiveType
<1> QED
  BY <1>4, <1>5

-----------------------------------------------------------------------------
\* At the start nothing is stored, cached or known.
LEMMA InitLive == Init => LiveInv
<1> SUFFICES ASSUME Init PROVE LiveInv
  OBVIOUS
<1>1. LiveType
  BY DEF Init, LiveType, NotLoaded, NoFetch, Data, Request
<1>2. EventsStored
  BY EntriesOfEmpty DEF Init, EventsStored
<1>3. \A c \in Contacts : PageInv(c)
  BY EntriesOfEmpty
  DEF Init, PageInv, KnownStored, AnswersGrow, KnownKept, LastIsLatest, Known,
      AnswerOf, NotLoaded, NoFetch
<1> QED
  BY <1>1, <1>2, <1>3 DEF LiveInv

\* A stored row adds to the server's rows and to the pending events only.
LEMMA InsertKeeps ==
  ASSUME LiveInv, NEW c \in Contacts, InsertPresence(c)
  PROVE  LiveInv'
<1> USE DEF LiveInv
<1>1. PICK e \in Entry : /\ rows' = [rows EXCEPT ![c] = Append(@, e)]
                         /\ pending' = pending \cup {[contact |-> c, entry |-> e]}
  <2>1. PICK state \in States, at \in {clock - 1, clock} \ {0} :
           /\ rows' = [rows EXCEPT ![c] = Append(@, [state |-> state, at |-> at])]
           /\ pending' = pending \cup
                {[contact |-> c, entry |-> [state |-> state, at |-> at]]}
    BY DEF InsertPresence
  <2>2. at \in Nat \ {0}
    BY DEF LiveType
  <2>3. [state |-> state, at |-> at] \in Entry
    BY <2>2 DEF Entry
  <2> QED
    BY <2>1, <2>3
<1>2. UNCHANGED <<hubVars, webVars, clock>>
  BY DEF InsertPresence
<1>3. LiveType'
  <2>1. rows' \in [Contacts -> Seq(Entry)]
    BY <1>1 DEF LiveType
  <2>2. pending' \subseteq Event
    BY <1>1 DEF LiveType, Event
  <2> QED
    BY <1>2, <2>1, <2>2 DEF LiveType, hubVars, webVars
<1>4. \A d \in Contacts : EntriesOf(rows[d]) \subseteq EntriesOf(rows'[d])
  BY <1>1, EntriesOfAppend DEF LiveType
<1>5. e \in EntriesOf(rows'[c])
  BY <1>1, EntriesOfAppend DEF LiveType
<1>6. EventsStored'
  <2>1. \A p \in pending' : p.entry \in EntriesOf(rows'[p.contact])
    BY <1>1, <1>4, <1>5 DEF EventsStored, LiveType, Event
  <2>2. ASSUME NEW k \in Conns, NEW p \in EntriesOf(send[k])
        PROVE  p.entry \in EntriesOf(rows'[p.contact])
    <3>1. p \in Event
      BY DEF LiveType, EntriesOf
    <3> QED
      BY <3>1, <1>4 DEF EventsStored, Event
  <2> QED
    BY <1>2, <2>1, <2>2 DEF EventsStored, hubVars
<1>7. ASSUME NEW d \in Contacts PROVE PageInv(d)'
  <2>1. KnownStored(d)' /\ AnswersGrow(d)'
    BY <1>2, <1>4 DEF PageInv, KnownStored, AnswersGrow, Known, AnswerOf, ServedOf, webVars
  <2>2. KnownKept(d)' /\ LastIsLatest(d)'
    BY <1>2 DEF PageInv, KnownKept, LastIsLatest, Known, AnswerOf, ServedOf, webVars
  <2> QED
    BY <2>1, <2>2 DEF PageInv
<1> QED
  BY <1>3, <1>6, <1>7

\* A broadcast puts a stored event into channels.
LEMMA BroadcastKeeps ==
  ASSUME LiveInv, NEW p \in pending, Broadcast(p)
  PROVE  LiveInv'
<1> USE DEF LiveInv
<1>1. p \in Event
  BY DEF LiveType
<1>2. ASSUME NEW k \in Conns PROVE send'[k] \in {send[k], Append(send[k], p)}
  BY DEF Broadcast
<1>3. send' \in [Conns -> Seq(Event)]
  <2>1. ASSUME NEW k \in Conns PROVE send'[k] \in Seq(Event)
    <3>1. send[k] \in Seq(Event) /\ Append(send[k], p) \in Seq(Event)
      BY <1>1 DEF LiveType
    <3> QED
      BY <1>2, <3>1
  <2> QED
    BY <2>1 DEF Broadcast
<1>4. LiveType'
  BY <1>3 DEF LiveType, Broadcast, webVars
<1>5. EventsStored'
  <2>1. ASSUME NEW k \in Conns PROVE EntriesOf(send'[k]) \subseteq EntriesOf(send[k]) \cup {p}
    <3>1. send[k] \in Seq(Event)
      BY DEF LiveType
    <3>2. EntriesOf(Append(send[k], p)) = EntriesOf(send[k]) \cup {p}
      BY <1>1, <3>1, EntriesOfAppend
    <3> QED
      BY <1>2, <3>2
  <2> QED
    BY <2>1 DEF EventsStored, Broadcast
<1>6. ASSUME NEW d \in Contacts PROVE PageInv(d)'
  BY DEF Broadcast, webVars, PageInv, KnownStored, AnswersGrow, KnownKept,
         LastIsLatest, Known, AnswerOf, ServedOf
<1> QED
  BY <1>4, <1>5, <1>6

\* Connecting, closing and the clock touch nothing of it; a dropped connection
\* loses the events of its channel.
LEMMA HubKeeps ==
  ASSUME LiveInv, Drop \/ Tick \/ \E k \in Conns : HubAdd(k) \/ HubRemove(k) \/ HubClose(k)
  PROVE  LiveInv'
<1> USE DEF LiveInv
<1>1. UNCHANGED <<rows, pending, webVars>>
  BY DEF Drop, Tick, HubAdd, HubRemove, HubClose
<1>2. /\ send' \in [Conns -> Seq(Event)]
      /\ \A k \in Conns : send'[k] \in {send[k], <<>>}
      /\ conn' \in Conns \cup {None}
      /\ clock' \in Nat \ {0}
  <2>1. CASE Drop
    BY <2>1 DEF Drop, LiveType
  <2>2. CASE Tick
    BY <2>2 DEF Tick, LiveType, hubVars
  <2>3. CASE \E k \in Conns : HubAdd(k) \/ HubRemove(k) \/ HubClose(k)
    BY <2>3 DEF HubAdd, HubRemove, HubClose, LiveType
  <2> QED
    BY <2>1, <2>2, <2>3
<1>3. LiveType'
  BY <1>1, <1>2 DEF LiveType, webVars
<1>4. EventsStored'
  BY <1>1, <1>2, EntriesOfEmpty DEF EventsStored
<1>5. ASSUME NEW d \in Contacts PROVE PageInv(d)'
  BY <1>1 DEF webVars, PageInv, KnownStored, AnswersGrow, KnownKept, LastIsLatest,
              Known, AnswerOf, ServedOf
<1> QED
  BY <1>3, <1>4, <1>5

\* An event comes in: it is known, among the live entries, and not later than
\* the store's presence; a request that was answered already is asked again.
LEMMA DeliverKeeps == LiveInv /\ Deliver => LiveInv'
<1> SUFFICES ASSUME LiveInv, Deliver PROVE LiveInv'
  OBVIOUS
<1> USE DEF LiveInv
<1>1. conn \in Conns /\ send[conn] \in Seq(Event) /\ send[conn] # <<>>
  BY DEF Deliver, LiveType
<1>2. /\ Head(send[conn]) \in Event /\ Head(send[conn]) \in EntriesOf(send[conn])
      /\ Tail(send[conn]) \in Seq(Event)
      /\ EntriesOf(Tail(send[conn])) \subseteq EntriesOf(send[conn])
  <2>1. 1 \in DOMAIN send[conn] /\ Head(send[conn]) = send[conn][1]
    BY <1>1
  <2>2. \A i \in DOMAIN Tail(send[conn]) :
           i + 1 \in DOMAIN send[conn] /\ Tail(send[conn])[i] = send[conn][i + 1]
    BY <1>1
  <2>3. Head(send[conn]) \in Event /\ Tail(send[conn]) \in Seq(Event)
    BY <1>1
  <2> QED
    BY <2>1, <2>2, <2>3 DEF EntriesOf
<1>3. PICK c \in Contacts, e \in Entry :
         /\ e \in EntriesOf(rows[c])
         /\ c = Head(send[conn]).contact
         /\ e = Head(send[conn]).entry
  BY <1>1, <1>2 DEF Event, EventsStored
<1>4. /\ entries' = [entries EXCEPT ![c] = AddEntry(@, e)]
      /\ last' = [last EXCEPT ![c] = SetLast(@, e)]
      /\ fetch' = Invalidated(c)
      /\ received' = [received EXCEPT ![c] = @ \cup {e}]
      /\ send' = [send EXCEPT ![conn] = Tail(@)]
      /\ UNCHANGED <<rows, pending, conn, timeline, open, clock>>
  BY <1>3 DEF Deliver
<1>5. AddEntry(entries[c], e) \in Seq(Entry)
      /\ EntriesOf(AddEntry(entries[c], e)) = EntriesOf(entries[c]) \cup {e}
  BY <1>3, EntriesOfAppend DEF AddEntry, LiveType
<1>6. /\ SetLast(last[c], e) \in {last[c], e} \ {NoLast}
      /\ last[c].at <= SetLast(last[c], e).at /\ e.at <= SetLast(last[c], e).at
  BY <1>3, SetLastKeepsLatest DEF LiveType
<1>7. /\ fetch' \in [Contacts -> Request]
      /\ \A d \in Contacts : fetch'[d] = fetch[d] \/ fetch'[d].pc = "asked"
  BY <1>3, <1>4 DEF Invalidated, Asked, LiveType, Request
<1>8. LiveType'
  BY <1>1, <1>2, <1>3, <1>4, <1>5, <1>6, <1>7 DEF LiveType
<1>9. EventsStored'
  <2>1. \A k \in Conns : EntriesOf(send'[k]) \subseteq EntriesOf(send[k])
    BY <1>1, <1>2, <1>4 DEF LiveType
  <2> QED
    BY <1>4, <2>1 DEF EventsStored
<1>10. ASSUME NEW d \in Contacts, d # c PROVE PageInv(d)'
  BY <1>3, <1>4, <1>7, <1>10
  DEF LiveType, PageInv, KnownStored, AnswersGrow, KnownKept, LastIsLatest, Known,
      AnswerOf, ServedOf
<1>11. PageInv(c)'
  <2>1. Known(c)' \subseteq Known(c) \cup {e}
    BY <1>3, <1>4, <1>6 DEF Known, LiveType
  <2>2. KnownStored(c)' /\ AnswersGrow(c)'
    BY <1>3, <1>4, <1>7, <2>1 DEF PageInv, KnownStored, AnswersGrow, AnswerOf, ServedOf
  <2>3. KnownKept(c)'
    <3>1. EntriesOf(entries'[c]) = EntriesOf(entries[c]) \cup {e}
      BY <1>3, <1>4, <1>5 DEF LiveType
    <3> QED
      BY <1>3, <1>4, <1>7, <2>1, <3>1 DEF PageInv, KnownKept, AnswerOf, ServedOf, LiveType
  <2>4. LastIsLatest(c)'
    <3>1. last'[c] = SetLast(last[c], e) /\ received'[c] = received[c] \cup {e}
      BY <1>3, <1>4 DEF LiveType
    <3>2. last[c].at \in Nat /\ SetLast(last[c], e).at \in Nat /\ e.at \in Nat
      <4>1. last[c] \in Entry \cup {NoLast} /\ SetLast(last[c], e) \in Entry \cup {NoLast}
        BY <1>3, <1>6 DEF LiveType
      <4>2. \A x \in Entry \cup {NoLast} : x.at \in Nat
        BY DEF Entry, NoLast
      <4> QED
        BY <4>1, <4>2
    <3>3. \A x \in received[c] \cup AnswerOf(c) : x.at \in Nat
      <4>1. received[c] \subseteq Entry /\ timeline[c].rows \in Seq(Entry)
        BY <1>3 DEF LiveType, Data
      <4>2. AnswerOf(c) \subseteq Entry
        BY <4>1 DEF AnswerOf, EntriesOf
      <4> QED
        BY <4>1, <4>2 DEF Entry
    <3> QED
      BY <1>4, <1>6, <3>1, <3>2, <3>3 DEF PageInv, LastIsLatest, AnswerOf
  <2> QED
    BY <2>2, <2>3, <2>4 DEF PageInv
<1> QED
  BY <1>8, <1>9, <1>10, <1>11

\* A page opens: the effects run on the cached answer, and the next answer, if it
\* was read already, contains that one.
LEMMA OpenKeeps ==
  ASSUME LiveInv, NEW c \in Contacts, Open(c)
  PROVE  LiveInv'
<1> USE DEF LiveInv
<1>1. timeline[c] \in Data /\ timeline[c].rows \in Seq(Entry)
  BY DEF LiveType, Data
<1>2. /\ last' \in [Contacts -> Entry \cup {NoLast}]
      /\ entries' \in [Contacts -> Seq(Entry)]
      /\ \A d \in Contacts \ {c} : last'[d] = last[d] /\ entries'[d] = entries[d]
      /\ EntriesOf(entries'[c]) = EntriesOf(entries[c]) \ AnswerOf(c)
      /\ last'[c] = last[c] \/ last'[c] \in AnswerOf(c)
      /\ last[c].at <= last'[c].at
      /\ \A e \in AnswerOf(c) : e.at <= last'[c].at
  BY <1>1, EffectsOnData DEF Open, AnswerOf
<1>3. /\ open' = c
      /\ fetch' \in [Contacts -> Request]
      /\ \A d \in Contacts : fetch'[d] = fetch[d] \/ fetch'[d].pc = "asked"
      /\ UNCHANGED <<rows, pending, send, conn, timeline, received, clock>>
  BY DEF Open, hubVars, LiveType, Asked, Request
<1>4. LiveType'
  BY <1>2, <1>3 DEF LiveType
<1>5. EventsStored'
  BY <1>3 DEF EventsStored
<1>6. ASSUME NEW d \in Contacts, d # c PROVE PageInv(d)'
  BY <1>2, <1>3, <1>6
  DEF PageInv, KnownStored, AnswersGrow, KnownKept, LastIsLatest, Known,
      AnswerOf, ServedOf
<1>7. PageInv(c)'
  <2>1. Known(c)' \subseteq Known(c) \cup AnswerOf(c)
    BY <1>2, <1>3 DEF Known
  <2>2. KnownStored(c)' /\ AnswersGrow(c)'
    BY <1>3, <2>1 DEF PageInv, KnownStored, AnswersGrow, AnswerOf, ServedOf
  <2>3. KnownKept(c)'
    BY <1>2, <1>3, <2>1 DEF PageInv, KnownKept, AnswersGrow, AnswerOf, ServedOf
  <2>4. LastIsLatest(c)'
    <3>1. last[c].at \in Nat /\ last'[c].at \in Nat /\ \A e \in received[c] : e.at \in Nat
      BY <1>2 DEF LiveType, Entry, NoLast
    <3> QED
      BY <1>2, <1>3, <3>1 DEF PageInv, LastIsLatest, AnswerOf
  <2> QED
    BY <2>2, <2>3, <2>4 DEF PageInv
<1> QED
  BY <1>4, <1>5, <1>6, <1>7

\* Leaving, polling and a failed request bring no data.
LEMMA FetchKeeps ==
  ASSUME LiveInv, Leave \/ \E c \in Contacts : Poll(c) \/ Fails(c)
  PROVE  LiveInv'
<1> USE DEF LiveInv
<1>1. /\ UNCHANGED <<rows, pending, send, conn, entries, last, timeline, received, clock>>
      /\ open' \in {open, None}
      /\ fetch' \in [Contacts -> Request]
      /\ \A d \in Contacts : fetch'[d] = fetch[d] \/ fetch'[d].pc # "served"
  <2>1. CASE Leave
    BY <2>1 DEF Leave, hubVars, LiveType
  <2>2. ASSUME NEW c \in Contacts, NEW r \in {Asked, NoFetch},
               fetch' = [fetch EXCEPT ![c] = r]
        PROVE  /\ fetch' \in [Contacts -> Request]
               /\ \A d \in Contacts : fetch'[d] = fetch[d] \/ fetch'[d].pc # "served"
    <3>1. Asked \in Request /\ NoFetch \in Request
      BY DEF Asked, NoFetch, Request
    <3>2. r.pc # "served"
      BY DEF Asked, NoFetch
    <3> QED
      BY <2>2, <3>1, <3>2 DEF LiveType
  <2>3. ASSUME NEW c \in Contacts, Poll(c) \/ Fails(c)
        PROVE  /\ \E r \in {Asked, NoFetch} : fetch' = [fetch EXCEPT ![c] = r]
               /\ UNCHANGED <<rows, pending, send, conn, entries, last, timeline, received,
                              clock, open>>
    <3>1. CASE Poll(c)
      BY <3>1 DEF Poll, hubVars
    <3>2. CASE Fails(c)
      BY <3>2 DEF Fails, hubVars
    <3> QED
      BY <2>3, <3>1, <3>2
  <2> QED
    BY <2>1, <2>2, <2>3
<1>2. LiveType'
  BY <1>1 DEF LiveType
<1>3. EventsStored'
  BY <1>1 DEF EventsStored
<1>4. ASSUME NEW d \in Contacts PROVE PageInv(d)'
  <2>1. open' = d => open = d
    BY <1>1, LiveNone
  <2> QED
    BY <1>1, <2>1
    DEF PageInv, KnownStored, AnswersGrow, KnownKept, LastIsLatest, Known,
        AnswerOf, ServedOf
<1> QED
  BY <1>2, <1>3, <1>4

\* The server answers with all its rows, so with all that is known.
LEMMA ServeKeeps ==
  ASSUME LiveInv, NEW c \in Contacts, Serve(c)
  PROVE  LiveInv'
<1> USE DEF LiveInv
<1>1. /\ UNCHANGED <<rows, pending, send, conn, entries, last, timeline, received, clock, open>>
      /\ fetch' \in [Contacts -> Request]
      /\ fetch'[c] = [pc |-> "served", rows |-> rows[c]]
      /\ \A d \in Contacts \ {c} : fetch'[d] = fetch[d]
  BY DEF Serve, hubVars, LiveType, Request
<1>2. LiveType'
  BY <1>1 DEF LiveType
<1>3. EventsStored'
  BY <1>1 DEF EventsStored
<1>4. ASSUME NEW d \in Contacts PROVE PageInv(d)'
  <2>1. CASE d # c
    BY <1>1, <2>1
    DEF PageInv, KnownStored, AnswersGrow, KnownKept, LastIsLatest, Known,
        AnswerOf, ServedOf
  <2>2. CASE d = c
    <3>1. ServedOf(c)' = EntriesOf(rows[c])
      BY <1>1 DEF ServedOf
    <3>2. KnownStored(c)' /\ AnswersGrow(c)'
      BY <1>1, <3>1 DEF PageInv, KnownStored, AnswersGrow, Known, AnswerOf
    <3>3. KnownKept(c)'
      BY ZenonT(30), <1>1, <3>1 DEF PageInv, KnownStored, KnownKept, Known, AnswerOf
    <3>4. LastIsLatest(c)'
      BY <1>1 DEF PageInv, LastIsLatest, AnswerOf
    <3> QED
      BY <2>2, <3>2, <3>3, <3>4 DEF PageInv
  <2> QED
    BY <2>1, <2>2
<1> QED
  BY <1>2, <1>3, <1>4

\* The answer arrives.  With effects, what is pruned is in it; without, either
\* nothing changed or the page is not the open one.
LEMMA AnswerKeeps ==
  ASSUME LiveInv, NEW c \in Contacts, Answer(c)
  PROVE  LiveInv'
<1> USE DEF LiveInv
<1>1. fetch[c] \in Request /\ fetch[c].rows \in Seq(Entry) /\ fetch[c].pc = "served"
  BY DEF LiveType, Request, Answer
<1>2. /\ UNCHANGED <<rows, pending, send, conn, received, clock, open>>
      /\ timeline' \in [Contacts -> Data]
      /\ timeline'[c] = [loaded |-> TRUE, rows |-> fetch[c].rows]
      /\ \A d \in Contacts \ {c} : timeline'[d] = timeline[d] /\ fetch'[d] = fetch[d]
      /\ fetch' \in [Contacts -> Request]
      /\ fetch'[c].pc = "none"
  BY <1>1 DEF Answer, hubVars, LiveType, Data, Request, NoFetch
<1>3. AnswerOf(c)' = ServedOf(c)
  BY <1>2 DEF AnswerOf, ServedOf
<1>4. /\ last' \in [Contacts -> Entry \cup {NoLast}]
      /\ entries' \in [Contacts -> Seq(Entry)]
      /\ \A d \in Contacts \ {c} : last'[d] = last[d] /\ entries'[d] = entries[d]
      /\ \/ UNCHANGED <<entries, last>> /\ (open = c => timeline'[c] = timeline[c])
         \/ /\ EntriesOf(entries'[c]) = EntriesOf(entries[c]) \ ServedOf(c)
            /\ last'[c] = last[c] \/ last'[c] \in ServedOf(c)
            /\ last[c].at <= last'[c].at
            /\ \A e \in ServedOf(c) : e.at <= last'[c].at
  <2>1. CASE Effects(c, fetch[c].rows)
    BY <2>1, <1>1, EffectsOnData DEF ServedOf
  <2>2. CASE UNCHANGED <<entries, last>> /\ (open = c => timeline'[c] = timeline[c])
    BY <2>2 DEF LiveType
  <2> QED
    BY <2>1, <2>2 DEF Answer
<1>5. LiveType'
  BY <1>2, <1>4 DEF LiveType
<1>6. EventsStored'
  BY <1>2 DEF EventsStored
<1>7. ASSUME NEW d \in Contacts, d # c PROVE PageInv(d)'
  BY <1>2, <1>4, <1>7
  DEF PageInv, KnownStored, AnswersGrow, KnownKept, LastIsLatest, Known,
      AnswerOf, ServedOf
<1>8. PageInv(c)'
  <2>1. Known(c)' \subseteq Known(c) \cup ServedOf(c)
    BY <1>2, <1>4 DEF Known
  <2>2. KnownStored(c)' /\ AnswersGrow(c)'
    BY <1>1, <1>2, <1>3, <2>1 DEF PageInv, KnownStored, AnswersGrow
  <2>3. KnownKept(c)'
    <3>1. EntriesOf(entries'[c]) \subseteq EntriesOf(entries[c])
          /\ EntriesOf(entries[c]) \subseteq EntriesOf(entries'[c]) \cup ServedOf(c)
      BY <1>4
    <3> QED
      BY <1>1, <1>2, <1>3, <2>1, <3>1 DEF PageInv, KnownKept
  <2>4. LastIsLatest(c)'
    <3>1. last[c].at \in Nat /\ last'[c].at \in Nat /\ \A e \in received[c] : e.at \in Nat
      BY <1>4 DEF LiveType, Entry, NoLast
    <3>2. \A e \in received'[c] : e.at <= last'[c].at
      BY <1>2, <1>4, <3>1 DEF PageInv, LastIsLatest
    <3>3. CASE UNCHANGED <<entries, last>> /\ (open = c => timeline'[c] = timeline[c])
      BY <1>2, <3>2, <3>3 DEF PageInv, LastIsLatest, AnswerOf
    <3>4. CASE \A e \in ServedOf(c) : e.at <= last'[c].at
      BY <1>3, <3>2, <3>4 DEF LastIsLatest
    <3> QED
      BY <1>4, <3>3, <3>4
  <2> QED
    BY <2>2, <2>3, <2>4 DEF PageInv
<1> QED
  BY <1>5, <1>6, <1>7, <1>8

\* The cache forgets an answer when no request is under way: what was pruned by
\* it is in no list now, and comes back with the next answer.
LEMMA CollectKeeps ==
  ASSUME LiveInv, NEW c \in Contacts, Collect(c)
  PROVE  LiveInv'
<1> USE DEF LiveInv
<1>1. /\ UNCHANGED <<rows, pending, send, conn, entries, last, fetch, received, clock, open>>
      /\ timeline' \in [Contacts -> Data]
      /\ timeline'[c] = NotLoaded
      /\ \A d \in Contacts \ {c} : timeline'[d] = timeline[d]
      /\ fetch[c].pc = "none"
  BY DEF Collect, hubVars, LiveType, Data, NotLoaded
<1>2. LiveType'
  BY <1>1 DEF LiveType
<1>3. EventsStored'
  BY <1>1 DEF EventsStored
<1>4. ASSUME NEW d \in Contacts PROVE PageInv(d)'
  <2>1. CASE d = c
    <3>1. AnswerOf(c)' = {} /\ ~timeline'[c].loaded
      BY <1>1, EntriesOfEmpty DEF AnswerOf, NotLoaded
    <3>2. KnownStored(c)' /\ AnswersGrow(c)'
      BY <1>1, <3>1 DEF PageInv, KnownStored, AnswersGrow, Known, NotLoaded
    <3>3. KnownKept(c)' /\ LastIsLatest(c)'
      BY <1>1, <3>1 DEF PageInv, KnownKept, LastIsLatest
    <3> QED
      BY <2>1, <3>2, <3>3 DEF PageInv
  <2>2. CASE d # c
    BY <1>1, <2>2
    DEF PageInv, KnownStored, AnswersGrow, KnownKept, LastIsLatest, Known,
        AnswerOf, ServedOf
  <2> QED
    BY <2>1, <2>2
<1> QED
  BY <1>2, <1>3, <1>4

\* Every step keeps the invariant.
LEMMA NextLive == LiveInv /\ [Next]_vars => LiveInv'
<1> SUFFICES ASSUME LiveInv, [Next]_vars PROVE LiveInv'
  OBVIOUS
<1>1. CASE UNCHANGED vars
  BY <1>1
  DEF LiveInv, LiveType, EventsStored, PageInv, KnownStored, AnswersGrow, KnownKept,
      LastIsLatest, Known, AnswerOf, ServedOf, vars, hubVars, webVars
<1> QED
  BY <1>1, InsertKeeps, BroadcastKeeps, HubKeeps, DeliverKeeps, OpenKeeps, FetchKeeps,
     ServeKeeps, AnswerKeeps, CollectKeeps
  DEF Next

-----------------------------------------------------------------------------
\* A page has its answer and its live entries.
LEMMA EntriesHasBoth ==
  ASSUME LiveInv, NEW c \in Contacts
  PROVE  /\ AllEntries(c) \in Seq(Entry)
         /\ EntriesOf(AllEntries(c)) = AnswerOf(c) \cup EntriesOf(entries[c])
<1> DEFINE rest == Without(entries[c], AnswerOf(c))
<1>1. timeline[c].rows \in Seq(Entry) /\ entries[c] \in Seq(Entry)
  BY DEF LiveInv, LiveType, Data
<1>2. rest \in Seq(Entry) /\ EntriesOf(rest) = EntriesOf(entries[c]) \ AnswerOf(c)
  BY <1>1, WithoutIsFilter
<1>3. AllEntries(c) = timeline[c].rows \o rest
  BY DEF AllEntries, AnswerOf
<1> HIDE DEF rest
<1>4. AllEntries(c) \in Seq(Entry)
  BY <1>1, <1>2, <1>3
<1>5. EntriesOf(timeline[c].rows \o rest) = EntriesOf(timeline[c].rows) \cup EntriesOf(rest)
  BY <1>1, <1>2, EntriesOfConcat
<1> QED
  BY <1>2, <1>3, <1>4, <1>5 DEF AnswerOf

\* Whatever the page of a contact was told live it goes on showing whenever it
\* shows entries, whatever answers come in and in whatever order, and also after
\* requests that failed: while the last one did, an error stands in place of all
\* entries (store.ts, pruneWsEntries; ContactDetail.tsx, allEntries, tl.error).
THEOREM LiveShownStays == Spec => []ShownStays
<1>1. LiveInv => ShownStays
  BY EntriesHasBoth
  DEF LiveInv, PageInv, KnownKept, Known, ShownStays, Shown, PageShows
<1> QED
  BY <1>1, InitLive, NextLive, PTL DEF Spec

\* The badge of an open page and the contact's dot in the sidebar say the same,
\* unless two rows of the contact fall into one second (ContactDetail.tsx,
\* lastPresence; ContactSidebarItem.tsx).
THEOREM LiveHeaderIsSidebar == Spec => []HeaderIsSidebar
<1>1. LiveInv => HeaderIsSidebar
  <2> SUFFICES ASSUME LiveInv, NEW c \in Contacts, open = c, PageShows(c),
                      DistinctSeconds(c)
               PROVE  Header(c) = last[c]
    BY DEF HeaderIsSidebar
  <2> timeline[c].loaded
    BY DEF PageShows
  <2>1. /\ AllEntries(c) \in Seq(Entry)
        /\ EntriesOf(AllEntries(c)) = AnswerOf(c) \cup EntriesOf(entries[c])
    BY EntriesHasBoth
  <2>2. /\ Known(c) \subseteq EntriesOf(AllEntries(c))
        /\ EntriesOf(AllEntries(c)) \subseteq EntriesOf(rows[c])
        /\ last[c] \in Entry \cup {NoLast}
    BY <2>1 DEF LiveInv, LiveType, PageInv, KnownStored, AnswersGrow, KnownKept, Known
  <2>3. \A e \in EntriesOf(AllEntries(c)) : e \in Entry /\ e.at <= last[c].at
    <3>1. \A e \in EntriesOf(AllEntries(c)) : e \in Entry
      BY <2>1 DEF EntriesOf
    <3> QED
      BY <3>1, <2>1 DEF LiveInv, PageInv, KnownKept, LastIsLatest
  <2>4. CASE AllEntries(c) = <<>>
    BY <2>2, <2>4, EntriesOfEmpty DEF Known, Header
  <2>5. CASE AllEntries(c) # <<>>
    <3> DEFINE l == LatestOf(AllEntries(c))
    <3>1. l \in EntriesOf(AllEntries(c)) /\ \A e \in EntriesOf(AllEntries(c)) : e.at <= l.at
      BY <2>1, <2>5, LatestOfIsLatest
    <3> HIDE DEF l
    <3>2. l.at <= last[c].at /\ l \in Entry
      BY <2>3, <3>1
    <3>3. last[c] # NoLast
      BY <3>2 DEF Entry, NoLast
    <3>4. last[c] \in EntriesOf(AllEntries(c))
      BY <2>2, <3>3 DEF Known
    <3>5. l.at = last[c].at
      BY <2>3, <3>1, <3>2, <3>4 DEF Entry
    <3>6. l = last[c]
      BY <2>2, <3>1, <3>4, <3>5 DEF DistinctSeconds
    <3> QED
      BY <2>5, <3>6 DEF Header, l
  <2> QED
    BY <2>4, <2>5
<1> QED
  BY <1>1, InitLive, NextLive, PTL DEF Spec
=============================================================================
