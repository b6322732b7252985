------------------------------- MODULE Sessions -------------------------------
(* The sessions a page draws out of the rows of a contact: lib/sessions.ts and
   the "recent sessions" of LiveStatusCard.tsx. Rows are records with the fields
   of TimelineEntry that the code reads; time is counted in whole units. *)
EXTENDS Integers, Sequences, SequencesExt, FiniteSetsExt

CONSTANTS
  Null,        \* null
  MergeGap,    \* MERGE_GAP_SEC: a shorter gap does not end a session
  ShownGap,    \* a longer gap is drawn as a block of its own (30 s)
  Recent       \* how many sessions the status card lists (8)

ASSUME GapsAssumption == MergeGap \in Nat /\ ShownGap \in Nat /\ ShownGap <= MergeGap
ASSUME NullAssumption == Null \notin Int

\* The numbers of a finite set in ascending order, and the elements of a
\* sequence at some of its positions.
Ascending(I) ==
  [k \in 1 .. Cardinality(I) |-> CHOOSE x \in I : Cardinality({y \in I : y < x}) = k - 1]
Only(s, I) == LET place == Ascending(I) IN [k \in DOMAIN place |-> s[place[k]]]

OfKind(entries, kinds) == Only(entries, {i \in DOMAIN entries : entries[i].kind \in kinds})

\* A stable sort on the time: an entry goes after all those not later than it.
Place(sorted, e) ==
  InsertAt(sorted, Cardinality({i \in DOMAIN sorted : sorted[i].at <= e.at}) + 1, e)
SortByAt(entries) == FoldLeft(Place, <<>>, entries)

Presence(entries)    == SortByAt(OfKind(entries, {"presence"}))
NonPresence(entries) == SortByAt(OfKind(entries, {"picture", "about"}))

Session(start, end, seen) == [type |-> "session", startAt |-> start, endAt |-> end, lastSeen |-> seen]
Gap(from, to)             == [type |-> "offline-gap", fromAt |-> from, toAt |-> to]
EventBlock(ev)            == [type |-> "event", ev |-> ev]

\* Mutant: a second available row starts the session anew.
PairRestarts(acc, p) ==
  IF p.state = "available"
    THEN [acc EXCEPT !.start = p.at]
  ELSE IF acc.start # Null
    THEN [start |-> Null, off |-> p.at,
          sessions |-> Append(acc.sessions, Session(acc.start, p.at, p.lastSeen))]
  ELSE [acc EXCEPT !.off = p.at]

\* One row: an available one opens a session unless one is open, an
\* unavailable one closes it; either way the latter is when they were last seen off.
Pair(acc, p) ==
  IF p.state = "available"
    THEN [acc EXCEPT !.start = IF @ = Null THEN p.at ELSE @]
  ELSE IF acc.start # Null
    THEN [start |-> Null, off |-> p.at,
          sessions |-> Append(acc.sessions, Session(acc.start, p.at, p.lastSeen))]
  ELSE [acc EXCEPT !.off = p.at]

\* The sessions of the rows, and since when they are off (Null when online).
Paired(entries) ==
  LET acc == FoldLeft(Pair, [start |-> Null, off |-> Null, sessions |-> <<>>], Presence(entries))
  IN  IF acc.start = Null
        THEN acc
        ELSE [acc EXCEPT !.off = Null, !.sessions = Append(@, Session(acc.start, Null, Null))]

\* A session that starts right after the previous one ended continues it.
Merge(merged, s) ==
  LET prev == Last(merged) IN
  IF merged # <<>> /\ prev.endAt # Null /\ s.startAt - prev.endAt <= MergeGap
    THEN [merged EXCEPT ![Len(merged)].endAt = s.endAt,
                        ![Len(merged)].lastSeen = IF s.lastSeen # Null THEN s.lastSeen ELSE @]
    ELSE Append(merged, s)

Merged(sessions) == FoldLeft(Merge, <<>>, sessions)

\* Between two sessions stands the gap, when it is long enough to be drawn.
Space(blocks, s) ==
  IF blocks # <<>> /\ Last(blocks).endAt # Null /\ s.startAt - Last(blocks).endAt > ShownGap
    THEN blocks \o <<Gap(Last(blocks).endAt, s.startAt), s>>
    ELSE Append(blocks, s)

WithGaps(sessions) == FoldLeft(Space, <<>>, sessions)

BlockAt(b) == IF b.type = "session" THEN b.startAt
              ELSE IF b.type = "offline-gap" THEN b.fromAt ELSE b.ev.at

\* Each event goes after the blocks that start no later than it.
Put(acc, ev) ==
  LET later == {i \in DOMAIN acc.rest : BlockAt(acc.rest[i]) > ev.at}
      due   == IF later = {} THEN Len(acc.rest) ELSE Min(later) - 1
  IN  [rest  |-> SubSeq(acc.rest, due + 1, Len(acc.rest)),
       mixed |-> acc.mixed \o SubSeq(acc.rest, 1, due) \o <<EventBlock(ev)>>]

Interleaved(blocks, events) ==
  LET end == FoldLeft(Put, [rest |-> blocks, mixed |-> <<>>], events) IN end.mixed \o end.rest

\* buildBlocks: newest first, and on top how long they have been off by now.
BuildBlocks(entries, now) ==
  LET p      == Paired(entries)
      blocks == Reverse(Interleaved(WithGaps(Merged(p.sessions)), NonPresence(entries)))
  IN  IF p.off # Null /\ now - p.off > ShownGap THEN <<Gap(p.off, now)>> \o blocks ELSE blocks

\* The status card pairs and merges on its own, and keeps the newest ones; it has
\* no use for when a session was last seen.
BuildRecentSessions(entries) ==
  LET own == Paired(entries).sessions
      all == Merged([i \in DOMAIN own |-> [own[i] EXCEPT !.lastSeen = Null]])
  IN  Reverse(SubSeq(all, IF Len(all) > Recent THEN Len(all) - Recent + 1 ELSE 1, Len(all)))

\* The page's header: online when the latest presence row says so ...
IsOnline(entries) ==
  LET p == Presence(entries) IN p # <<>> /\ Last(p).state = "available"

\* ... since the first of the available rows that end the log.
SessionStart(entries) ==
  LET p    == Presence(entries)
      offs == {i \in DOMAIN p : p[i].state # "available"}
  IN  IF ~IsOnline(entries) THEN Null ELSE p[IF offs = {} THEN 1 ELSE Max(offs) + 1].at

\* The status card: for how long they have been on, or when they were last seen.
LiveStatus(entries, now) ==
  LET p == Presence(entries) IN
  [isOnline |-> IsOnline(entries),
   elapsed  |-> IF IsOnline(entries) THEN now - SessionStart(entries) ELSE Null,
   lastSeen |-> IF IsOnline(entries) \/ p = <<>> THEN Null
                ELSE IF Last(p).lastSeen # Null THEN Last(p).lastSeen ELSE Last(p).at,
   recent   |-> BuildRecentSessions(entries)]
=============================================================================
