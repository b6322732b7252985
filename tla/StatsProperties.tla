---------------------------- MODULE StatsProperties ----------------------------
(* What the statistics of a contact must say, against the definition of being
   online: at a moment t, the latest presence row not after t says available. *)
EXTENDS Stats

Demo == INSTANCE DemoStats

OnlineTime ==
  LET p       == Presence(rows)
      seen(t) == {i \in DOMAIN p : p[i].at <= t}
  IN  {t \in Start .. now - 1 : seen(t) # {} /\ p[Max(seen(t))].state = "available"}

Alternating ==
  LET p == Presence(rows) IN \A i \in 2 .. Len(p) : p[i].state # p[i - 1].state

\* A moment belongs to a session if they were online, or came back so soon
\* after that session that the gap does not count.
InSession(p, t) ==
  LET on   == {i \in DOMAIN p : p[i].state = "available" /\ p[i].at <= t}
      off  == {j \in DOMAIN p : j > Max(on) /\ p[j].state = "unavailable"}
      back == {k \in DOMAIN p : k > Min(off) /\ p[k].state = "available"}
  IN  on # {} /\ \/ off = {} \/ p[Min(off)].at > t
                 \/ back # {} /\ p[Min(back)].at - p[Min(off)].at <= MergeGap

Drawn(b, t) ==
  IF b.type = "session" THEN b.startAt <= t /\ (b.endAt = Null \/ t < b.endAt)
  ELSE b.type = "offline-gap" /\ b.fromAt <= t /\ t < b.toAt

SessionsAt(blocks, t) ==
  Cardinality({i \in DOMAIN blocks : blocks[i].type = "session" /\ Drawn(blocks[i], t)})
GapAt(blocks, t) ==
  \E i \in DOMAIN blocks : blocks[i].type = "offline-gap" /\ Drawn(blocks[i], t)

\* Each picture and about change of the rows once, the newest first ...
EventsOnce(blocks, entries) ==
  LET events == Only(blocks, {i \in DOMAIN blocks : blocks[i].type = "event"})
  IN  [i \in DOMAIN events |-> events[i].ev] = Reverse(NonPresence(entries))

\* ... and all blocks in that order, below the gap that lasts until now.
Downwards(blocks) ==
  LET below == IF blocks # <<>> /\ blocks[1].type = "offline-gap" THEN Tail(blocks) ELSE blocks
  IN  \A i \in 2 .. Len(below) : BlockAt(below[i]) <= BlockAt(below[i - 1])

\* The demo draws the whole log as one timeline: every moment online is inside
\* exactly one session and no other moment but the short gaps, no gap is drawn
\* over a session, and each picture and about change once, newest first (demo
\* sessions.ts, buildBlocks; demo Timeline.tsx).
BlocksFaithful ==
  LET p      == Presence(rows)
      blocks == Demo!buildBlocks(rows, now)
  IN  /\ \A t \in Start .. now - 1 :
           /\ SessionsAt(blocks, t) = (IF InSession(p, t) THEN 1 ELSE 0)
           /\ GapAt(blocks, t) => ~InSession(p, t)
      /\ EventsOnce(blocks, rows) /\ Downwards(blocks)

\* The moments of a UTC day, up to now, from its first presence row on.
Begun(p, t)  == \E i \in DOMAIN p : p[i].at <= t
DayMoments(day) == {t \in Start .. now - 1 : IsoDay(t) = day}

\* What a day's section should say of the rows of that day, against the whole log.
SectionFaithful(day) ==
  LET ofDay  == Only(rows, {i \in DOMAIN rows : IsoDay(rows[i].at) = day})
      p      == Presence(ofDay)
      blocks == DaySection(day)
  IN  /\ \A t \in DayMoments(day) :
           /\ Begun(p, t) /\ t \in OnlineTime => SessionsAt(blocks, t) = 1 /\ ~GapAt(blocks, t)
           /\ SessionsAt(blocks, t) \in {0, 1}
           /\ SessionsAt(blocks, t) = 1 => Begun(p, t) /\ InSession(Presence(rows), t)
           /\ GapAt(blocks, t) => Begun(p, t)
      /\ EventsOnce(blocks, ofDay) /\ Downwards(blocks)

\* The web client draws each UTC day from the rows of that day alone. From the
\* day's first presence row on, its section puts every moment online of the day
\* inside exactly one session, none of its sessions over a moment that is in no
\* session of the whole log, and no gap over a moment online. Before that row it
\* draws nothing, so that a session over midnight is missing from the second
\* day; what it draws of moments after its day is not spoken of here. Each
\* picture and about change of the day is listed once, newest first
\* (PresenceDaySection.tsx; web sessions.ts, buildBlocks).
SectionsFaithful == \A day \in {IsoDay(rows[i].at) : i \in DOMAIN rows} : SectionFaithful(day)

\* When no row repeats the state of the one before, the charts add up to the
\* time online, each weekday is that of the local calendar, and each hour that of
\* the local clock where zones differ from UTC by whole hours (presence-stats.ts,
\* distributeToHours, distributeToWeekdays; in both applications).
LocalClock ==
  LET hours == ComputePeakHours(rows, Clock)
      week  == ComputeWeekdayActivity(rows, Clock)
      byDay == BuildDailySeconds(rows, Clock)
      on    == OnlineTime
      count(S) == Cardinality(S)
  IN  Alternating =>
        /\ SumOver(hours, DOMAIN hours) = count(on)
        /\ SumOver(byDay, DOMAIN byDay) = count(on)
        /\ \A d \in DOMAIN week : week[d] = count({t \in on : Weekday(t, Clock) = d})
        /\ offset % Hour = 0 =>
             \A h \in DOMAIN hours : hours[h] = count({t \in on : LocalHour(t, Clock) = h})
        /\ Demo!activityCharts(rows, Clock) = [hourly |-> hours, weekday |-> week]

\* The server's sums per day are right in every zone and whatever the log
\* holds; the browser's heatmap says the same in UTC, each day in the row of its
\* weekday, and the longest pause is the one between two days with a session
\* that has ended (stats.go, Compute; presence-stats.ts, computeHeatmap,
\* computeLongestOfflineStreak; Heatmap.tsx).
DaysAreExact ==
  LET time   == OnlineTime
      on(d)  == Cardinality({t \in time : LocalDay(t, Clock) = d})
      grid   == Heatmap(ComputeHeatmap(rows, Clock))
      active == ActiveDays(rows)
      pauses == {x[2] - x[1] - 1 : x \in {y \in active \X active : y[1] < y[2] /\ \A f \in active : f <= y[1] \/ f >= y[2]}}
      longest == ComputeLongestOfflineStreak(rows, Clock)
  IN  /\ \A range \in DOMAIN DaysBack :
           LET sums == Compute(range) IN \A d \in DOMAIN sums : sums[d] = on(d)
      /\ offset = 0 /\ Alternating =>
           /\ \A week \in DOMAIN grid : \A day \in DOMAIN grid[week] :
                /\ grid[week][day].date % DaysPerWeek = day
                /\ grid[week][day].seconds = on(grid[week][day].date)
           /\ (IF longest = Null THEN 0 ELSE longest) = Max(pauses \cup {0})

\* Page after page the timeline lists the days with a row, newest first, none
\* twice and none left out, and all of them once there is no further page; the
\* days' sections then hold every row older than the first request
\* (ActivityTimeline.tsx, getNextPageParam; queries.go, PresenceDaysList).
DaysListed ==
  days # Null =>
    LET known == {IsoDay(rows[i].at) : i \in {j \in DOMAIN rows : rows[j].at < days.before}}
    IN  /\ \A i \in 2 .. Len(AllDays) : AllDays[i] < AllDays[i - 1]
        /\ ToSet(AllDays) \subseteq known
        /\ \A d \in known \ ToSet(AllDays) :
             NextParam(Last(days.pages)) # Null /\ \A e \in ToSet(AllDays) : d < e
        /\ NextParam(Last(days.pages)) = Null =>
             \A i \in DOMAIN rows : rows[i].at < days.before =>
               Cardinality({d \in ToSet(AllDays) : Contains(DayRows(d), rows[i])}) = 1
=============================================================================
