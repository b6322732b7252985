--------------------------------- MODULE Stats ---------------------------------
(* The log of one contact as it grows, and the pages that read it: the activity
   timeline, which lists the days a page at a time and draws each day on its own
   (ActivityTimeline.tsx, PresenceDaySection.tsx, api/timeline.go), and the
   server's own sums for the activity summary (internal/stats, StatsStrip.tsx). *)
EXTENDS PresenceStats

CONSTANTS
  Kinds,      \* the rows that may come: records [kind, state, seen]
  Zones,      \* the offsets from UTC the browser and the server may have
  Start,      \* the time at which tracking starts
  PageSize,   \* PAGE_SIZE, the days of one page
  MonthDays,  \* the days of a month (30)
  MaxRows, MaxTime, MaxWatch  \* bounds: rows of the log, time since Start, time a page stays open

ASSUME PagesAssumption == PageSize \in Nat \ {0} /\ Start \in Nat
ASSUME ZonesAssumption == Zones \subseteq Int
ASSUME MonthAssumption == MonthDays \in Nat \ {0}
ASSUME KindsAssumption == \A k \in Kinds : k.kind = "presence" => k.state \in {"available", "unavailable"}

VARIABLES
  rows,    \* presence_events, profile_picture_history, about_history in insertion order
  now,     \* the clock
  offset,  \* the zone
  days     \* daysQ: when it was first asked, and the pages it holds; Null when not mounted

vars == <<rows, now, offset, days>>

Clock == [now |-> now, offset |-> offset]

\* PresenceDaysList: the newest days (UTC) with a row before an instant.
PresenceDaysList(before, limit) ==
  LET found == Reverse(Ascending({IsoDay(rows[i].at) : i \in {j \in DOMAIN rows : rows[j].at < before}}))
  IN  SubSeq(found, 1, IF Len(found) < limit THEN Len(found) ELSE limit)

\* Mutant: midnight of the oldest day is taken in the browser's zone.
NextParamLocal(page) ==
  IF Len(page) < PageSize THEN Null ELSE Midnight(Last(page), Clock)

\* getNextPageParam: none after a short page, else midnight of the oldest day.
NextParam(page) == IF Len(page) < PageSize THEN Null ELSE Last(page) * Day

AllDays == IF days = Null THEN <<>> ELSE FlattenSeq(days.pages)

\* Mutant: the day's bounds are those of the browser's zone.
DayRowsLocal(day) ==
  SortByAt(Only(rows, {i \in DOMAIN rows : /\ Midnight(day, Clock) <= rows[i].at
                                           /\ rows[i].at < Midnight(day + 1, Clock)}))

\* TimelineRange of one day, from midnight to midnight UTC, in the order of the times.
DayRows(day) ==
  SortByAt(Only(rows, {i \in DOMAIN rows : day * Day <= rows[i].at /\ rows[i].at < (day + 1) * Day}))

DaySection(day) == BuildBlocks(DayRows(day), now)

\* rangeBounds: how many days before today a range starts.
DaysBack == [today |-> 0, week |-> DaysPerWeek - 1, month |-> MonthDays - 1]

\* The loop of Compute: the time up to a row counts if they were online until then.
Elapse(acc, t) ==
  [acc EXCEPT !.cursor = t, !.spans = IF acc.on THEN Append(@, <<acc.cursor, t>>) ELSE @]
Apply(acc, e) == [Elapse(acc, e.at) EXCEPT !.on = (e.state = "available")]

\* Compute: the seconds online per local day of a range, seeded with the state
\* before it. Rows of the second in which the range ends are left out.
Compute(range) ==
  LET first  == LocalDay(now, Clock) - DaysBack[range]
      begin  == Midnight(first, Clock)
      prior  == {i \in DOMAIN rows : rows[i].kind = "presence" /\ rows[i].at < begin}
      events == SortByAt(Only(rows, {i \in DOMAIN rows : rows[i].kind = "presence"
                                        /\ begin <= rows[i].at /\ rows[i].at < now}))
      seed   == [cursor |-> begin, spans |-> <<>>,
                 on |-> prior # {} /\ rows[Max(prior)].state = "available"]
      spans  == Elapse(FoldLeft(Apply, seed, events), now).spans
      slices == Slices(spans, Day, offset)
  IN  [d \in first .. LocalDay(now, Clock) |-> TimeOf({s \in slices : LocalDay(s[1], Clock) = d})]

\* The activity summary: the days of the chart, their sum and the changes.
StatsStrip(range) ==
  LET begin == Midnight(LocalDay(now, Clock) - DaysBack[range], Clock)
      changes(kind) == Cardinality({i \in DOMAIN rows :
                         rows[i].kind = kind /\ begin <= rows[i].at /\ rows[i].at < now})
  IN  [days |-> Compute(range), onlineSecondsAll |-> SumOver(Compute(range), DOMAIN Compute(range)),
       pictureChanges |-> changes("picture"), aboutChanges |-> changes("about")]

Init == rows = <<>> /\ now = Start /\ offset \in Zones /\ days = Null

\* A row is stored; a row's own time is the time of its insertion.
Record ==
  /\ Len(rows) < MaxRows
  /\ \E k \in Kinds : rows' = Append(rows, [kind |-> k.kind, state |-> k.state, at |-> now,
                                           lastSeen |-> IF k.seen THEN now ELSE Null])
  /\ UNCHANGED <<now, offset, days>>

Tick ==
  /\ now < Start + MaxTime
  /\ days # Null => now < days.before + MaxWatch
  /\ now' = now + 1
  /\ UNCHANGED <<rows, offset, days>>

\* The timeline is mounted and reads its first page.
Mount ==
  /\ days = Null
  /\ days' = [before |-> now, pages |-> <<PresenceDaysList(now, PageSize)>>]
  /\ UNCHANGED <<rows, now, offset>>

\* "Load more days".
LoadMore ==
  /\ days # Null /\ NextParam(Last(days.pages)) # Null
  /\ days' = [days EXCEPT !.pages = Append(@, PresenceDaysList(NextParam(Last(days.pages)), PageSize))]
  /\ UNCHANGED <<rows, now, offset>>

Next == Record \/ Tick \/ Mount \/ LoadMore

Spec == Init /\ [][Next]_vars
=============================================================================
