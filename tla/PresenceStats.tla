----------------------------- MODULE PresenceStats -----------------------------
(* The statistics the browser computes from the rows of a contact:
   lib/presence-stats.ts, and the panel and the heatmap that show them. A clock c
   is [now, offset]: the time (UTC) and the browser's zone, in units of time.
   Days are numbered from the epoch; the ISO date of an instant is its UTC day,
   the hour and the weekday are those of the zone. Daylight saving is left out. *)
EXTENDS Sessions

CONSTANTS
  Hour, HoursPerDay, DaysPerWeek,  \* the calendar (3600 s, 24, 7)
  NightHours,                      \* the hours that count as night (0 to 5)
  Evening, Early,                  \* when a night's gap may start (20, 4)
  SleepGap, SleepNights,           \* how long (3 h) and how many (3) gaps make a pattern
  StreakDays, TrendDays, HeatDays, \* how far back streak, trend and heatmap look
  TrendWeek                        \* the days of either side of the trend (7)

ASSUME CalendarAssumption == {Hour, HoursPerDay, DaysPerWeek, HeatDays} \subseteq Nat \ {0}

Day == Hour * HoursPerDay

IsoDay(t)        == t \div Day
LocalDay(t, c)   == (t + c.offset) \div Day
LocalHour(t, c)  == ((t + c.offset) % Day) \div Hour
Weekday(t, c)    == LocalDay(t, c) % DaysPerWeek
Midnight(day, c) == day * Day - c.offset             \* when the local day starts

\* The ISO date of local midnight, i days before today.
DayKey(i, c) == IsoDay(Midnight(LocalDay(c.now, c) - i, c))

\* An available row starts a session anew, an unavailable one ends it.
Restart(acc, p) ==
  IF p.state = "available" THEN [acc EXCEPT !.onlineAt = p.at]
  ELSE IF acc.onlineAt # Null
    THEN [onlineAt |-> Null, closed |-> Append(acc.closed, <<acc.onlineAt, p.at>>)]
  ELSE acc

Parsed(entries) == FoldLeft(Restart, [onlineAt |-> Null, closed |-> <<>>], Presence(entries))

\* The closed sessions, and with them the open one up to now.
ParseSessions(entries) == Parsed(entries).closed
UpToNow(entries, c) ==
  LET p == Parsed(entries)
  IN  IF p.onlineAt = Null THEN p.closed ELSE Append(p.closed, <<p.onlineAt, c.now>>)

Lengths(spans) == [i \in DOMAIN spans |-> spans[i][2] - spans[i][1]]
Total(spans)   == FoldLeft(+, 0, Lengths(spans))

\* The loops that cut each span wherever the clock, shifted, is at a multiple of step.
Cuts(span, step, shift) ==
  {t \in span[1] .. span[2] - 1 : t = span[1] \/ (t + shift) % step = 0}
Slices(spans, step, shift) ==
  LET end(span, t) == Min({u \in Cuts(span, step, shift) : u > t} \cup {span[2]})
  IN  UNION {{<<t, end(span, t)>> : t \in Cuts(span, step, shift)} : span \in ToSet(spans)}

SumOver(f, keys) == MapThenSumSet(LAMBDA k : f[k], keys)
TimeOf(slices)   == SumOver([s \in slices |-> s[2] - s[1]], slices)

\* Slices end at UTC hours and count in the local hour of their start.
DistributeToHours(spans, c) ==
  LET slices == Slices(spans, Hour, 0)
  IN  [h \in 0 .. HoursPerDay - 1 |-> TimeOf({s \in slices : LocalHour(s[1], c) = h})]

\* Mutant: the slices are cut at UTC midnight.
DistributeToWeekdaysUTC(spans, c) ==
  LET slices == Slices(spans, Day, 0)
  IN  [d \in 0 .. DaysPerWeek - 1 |-> TimeOf({s \in slices : Weekday(s[1], c) = d})]

\* Slices end at local midnight and count on the local weekday of their start.
DistributeToWeekdays(spans, c) ==
  LET slices == Slices(spans, Day, c.offset)
  IN  [d \in 0 .. DaysPerWeek - 1 |-> TimeOf({s \in slices : Weekday(s[1], c) = d})]

\* Slices end at local midnight and count on the ISO date of their start.
BuildDailySeconds(entries, c) ==
  LET slices == Slices(UpToNow(entries, c), Day, c.offset)
  IN  [d \in {IsoDay(s[1]) : s \in slices} |-> TimeOf({s \in slices : IsoDay(s[1]) = d})]

Rounded(n, d) == (2 * n + d) \div (2 * d)                           \* Math.round

ComputePeakHours(entries, c)       == DistributeToHours(UpToNow(entries, c), c)
ComputeWeekdayActivity(entries, c) == DistributeToWeekdays(UpToNow(entries, c), c)

ComputeAvgSessionDuration(entries) ==
  LET closed == ParseSessions(entries)
  IN  IF closed = <<>> THEN Null ELSE Rounded(Total(closed), Len(closed))

ComputeLongestSession(entries) ==
  LET closed == ParseSessions(entries)
  IN  IF closed = <<>> THEN Null ELSE Max(ToSet(Lengths(closed)))

\* The ISO dates on which a session that has ended began.
ActiveDays(entries) == {IsoDay(s[1]) : s \in ToSet(ParseSessions(entries))}

\* Offline: for how long. Online: the days up to today, none of them without a session.
ComputeStreak(entries, c) ==
  LET p      == Presence(entries)
      missed == {i \in 0 .. StreakDays - 1 : DayKey(i, c) \notin ActiveDays(entries)}
  IN  IF p = <<>> THEN Null
      ELSE IF Last(p).state = "unavailable" THEN [online |-> FALSE, days |-> 0, seconds |-> c.now - Last(p).at]
      ELSE [online |-> TRUE, days |-> Min(missed \cup {StreakDays}), seconds |-> 0]

\* The longest run of dates without a session that ends on one with a session;
\* the loop runs over local midnights and looks up their ISO dates.
ComputeLongestOfflineStreak(entries, c) ==
  LET active == ActiveDays(entries)
      key(d) == IsoDay(Midnight(d, c))
      days   == Min(active) .. Max(active)
      gap(d) == LET before == {e \in days : e < d /\ key(e) \in active}
                IN  d - 1 - (IF before = {} THEN Min(active) - 1 ELSE Max(before))
      gaps   == {gap(d) : d \in {e \in days : key(e) \in active}} \cup {0}
  IN  IF active = {} \/ Max(gaps) = 0 THEN Null ELSE Max(gaps)

\* The mean of the days that have any time, and the change between the last two weeks.
ComputeDailyAvgOnline(entries, c) ==
  LET byDay  == BuildDailySeconds(entries, c)
      days   == Ascending(DOMAIN byDay)
      n      == Len(days)
      recent == SumOver(byDay, ToSet(SubSeq(days, n - TrendWeek + 1, n)))
      prev   == SumOver(byDay, ToSet(SubSeq(days, n - 2 * TrendWeek + 1, n - TrendWeek)))
  IN  [avgOnlineSec |-> IF n = 0 THEN Null ELSE Rounded(SumOver(byDay, DOMAIN byDay), n),
       trendPct     |-> IF n < 2 * TrendWeek \/ prev = 0 THEN Null ELSE Rounded((recent - prev) * 100, prev)]

ComputeNightOwlScore(entries, c) ==
  LET buckets == ComputePeakHours(entries, c)
      all     == SumOver(buckets, DOMAIN buckets)
  IN  IF all = 0 THEN Null ELSE Rounded(100 * SumOver(buckets, 0 .. NightHours - 1), all)

\* Whether there is a score: its value, from the deviation of the days, is left out.
ComputeConsistencyScore(entries, c) ==
  LET byDay == BuildDailySeconds(entries, c)
  IN  Cardinality(DOMAIN byDay) >= 3 /\ SumOver(byDay, DOMAIN byDay) > 0

ComputePicChangeFrequency(entries) ==
  LET pics == SortByAt(OfKind(entries, {"picture"}))
  IN  IF Len(pics) < 2 THEN Null ELSE Rounded(Last(pics).at - pics[1].at, Day * (Len(pics) - 1))

ComputeFirstLastSeen(entries) ==
  LET p == Presence(entries)
  IN  IF p = <<>> THEN [firstSeen |-> Null, lastSeen |-> Null]
      ELSE [firstSeen |-> p[1].at, lastSeen |-> Last(p).at]

\* The long gaps that start in the night, when there are enough of them; the
\* window shown is the mean of their ends on the clock, which is left out.
ComputeSleepWindow(entries, c) ==
  LET p    == Presence(entries)
      gaps == {i \in 2 .. Len(p) : p[i - 1].state = "unavailable" /\ p[i].state = "available"}
      nights == {i \in gaps : p[i].at - p[i - 1].at >= SleepGap
                              /\ (LocalHour(p[i - 1].at, c) >= Evening \/ LocalHour(p[i - 1].at, c) <= Early)}
  IN  IF Cardinality(nights) < SleepNights THEN Null ELSE {<<p[i - 1].at, p[i].at>> : i \in nights}

\* The first and the last hour with at least half the time of the busiest.
ComputeOnlinePatternSummary(hourly) ==
  LET peak   == Max({hourly[h] : h \in DOMAIN hourly})
      active == {h \in DOMAIN hourly : 2 * hourly[h] >= peak}
  IN  IF peak = 0 THEN Null ELSE <<Min(active), Max(active)>>

\* Mutant: each cell shows the day before its date.
LastDaysShifted(entries, days, c) ==
  LET byDay == BuildDailySeconds(entries, c) IN
  [k \in 1 .. days |-> LET key == DayKey(days - k, c) IN
     [date |-> key, seconds |-> IF key - 1 \in DOMAIN byDay THEN byDay[key - 1] ELSE 0]]

\* The cells of the last days, oldest first, by the ISO date of local midnight.
LastDays(entries, days, c) ==
  LET byDay == BuildDailySeconds(entries, c) IN
  [k \in 1 .. days |-> LET key == DayKey(days - k, c) IN
     [date |-> key, seconds |-> IF key \in DOMAIN byDay THEN byDay[key] ELSE 0]]

ComputeTrend30Days(entries, c) == LastDays(entries, TrendDays, c)
ComputeHeatmap(entries, c)     == LastDays(entries, HeatDays, c)

\* One line per entry, oldest first.
ExportCSV(entries) == SortByAt(entries)

\* Heatmap.tsx: columns of one week from its first weekday on, the first padded.
Heatmap(cells) ==
  LET pad   == cells[1].date % DaysPerWeek
      row(k) == pad + k - 1
  IN  [week \in 0 .. row(Len(cells)) \div DaysPerWeek |->
        [day \in {row(k) % DaysPerWeek : k \in {j \in DOMAIN cells : row(j) \div DaysPerWeek = week}} |->
           cells[week * DaysPerWeek + day - pad + 1]]]

\* PresencePanel.tsx: nothing without time online; else the cards that have a value.
StatCards(entries, c) ==
  [avgSession     |-> ComputeAvgSessionDuration(entries),
   longestSess    |-> ComputeLongestSession(entries),
   daily          |-> ComputeDailyAvgOnline(entries, c),
   streak         |-> ComputeStreak(entries, c),
   longestOffline |-> ComputeLongestOfflineStreak(entries, c),
   nightOwlPct    |-> ComputeNightOwlScore(entries, c),
   consistency    |-> ComputeConsistencyScore(entries, c),
   picFreqDays    |-> ComputePicChangeFrequency(entries)]

Patterns(entries, c) ==
  [patternSummary |-> ComputeOnlinePatternSummary(ComputePeakHours(entries, c)),
   sleepWindow    |-> ComputeSleepWindow(entries, c),
   tracked        |-> ComputeFirstLastSeen(entries)]

ActivityCharts(entries, c) ==
  [hourly |-> ComputePeakHours(entries, c), weekday |-> ComputeWeekdayActivity(entries, c)]

CalendarCharts(entries, c) ==
  [heatmap |-> Heatmap(ComputeHeatmap(entries, c)), trend |-> ComputeTrend30Days(entries, c)]

\* The pictures kept on disk and the about texts, newest first.
NewestFirst(entries) ==
  LET place(sorted, e) ==
        InsertAt(sorted, Cardinality({i \in DOMAIN sorted : sorted[i].at >= e.at}) + 1, e)
  IN  FoldLeft(place, <<>>, entries)

Histories(entries) ==
  [pictures |-> NewestFirst(SelectSeq(entries, LAMBDA e : e.kind = "picture" /\ e.state = "stored")),
   abouts   |-> NewestFirst(OfKind(entries, {"about"}))]

\* RecentMessages.tsx: the newest ten.
RecentMessages(entries) ==
  LET sent == NewestFirst(OfKind(entries, {"message"}))
  IN  SubSeq(sent, 1, IF Len(sent) < 10 THEN Len(sent) ELSE 10)

\* What else the panel tells of the contact, as far as it comes from the rows.
OtherInfo(entries) ==
  [tracked  |-> ComputeFirstLastSeen(entries),
   pictures |-> Len(Histories(entries).pictures), abouts |-> Len(Histories(entries).abouts)]

PresencePanel(entries, c) ==
  IF SumOver(ComputePeakHours(entries, c), 0 .. HoursPerDay - 1) = 0
    THEN Null
    ELSE [cards |-> StatCards(entries, c), patterns |-> Patterns(entries, c),
          activity |-> ActivityCharts(entries, c), calendar |-> CalendarCharts(entries, c),
          histories |-> Histories(entries), other |-> OtherInfo(entries)]
=============================================================================
