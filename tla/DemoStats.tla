------------------------------- MODULE DemoStats -------------------------------
(* The demo application carries its own copies of sessions.ts, presence-stats.ts,
   LiveStatusCard.tsx and PresencePanel.tsx (demo/src/lib, demo/src/components).
   They differ from the web client's in layout only, except that the
   demo draws the whole log as one list, not day by day (Timeline.tsx). *)
LOCAL INSTANCE Integers
LOCAL INSTANCE Sequences
LOCAL INSTANCE FiniteSets

CONSTANTS Null, MergeGap, ShownGap, Recent, Hour, HoursPerDay, DaysPerWeek, NightHours,
          Evening, Early, SleepGap, SleepNights, StreakDays, TrendDays, HeatDays, TrendWeek

Web == INSTANCE PresenceStats

buildBlocks(entries, now)               == Web!BuildBlocks(entries, now)
buildRecentSessions(entries)            == Web!BuildRecentSessions(entries)
liveStatus(entries, now)                == Web!LiveStatus(entries, now)
parseSessions(entries)                  == Web!ParseSessions(entries)
distributeToHours(spans, c)             == Web!DistributeToHours(spans, c)
distributeToWeekdays(spans, c)          == Web!DistributeToWeekdays(spans, c)
buildDailySeconds(entries, c)           == Web!BuildDailySeconds(entries, c)
computePeakHours(entries, c)            == Web!ComputePeakHours(entries, c)
computeWeekdayActivity(entries, c)      == Web!ComputeWeekdayActivity(entries, c)
computeAvgSessionDuration(entries)      == Web!ComputeAvgSessionDuration(entries)
computeLongestSession(entries)          == Web!ComputeLongestSession(entries)
computeStreak(entries, c)               == Web!ComputeStreak(entries, c)
computeLongestOfflineStreak(entries, c) == Web!ComputeLongestOfflineStreak(entries, c)
computeDailyAvgOnline(entries, c)       == Web!ComputeDailyAvgOnline(entries, c)
computeNightOwlScore(entries, c)        == Web!ComputeNightOwlScore(entries, c)
computeConsistencyScore(entries, c)     == Web!ComputeConsistencyScore(entries, c)
computePicChangeFrequency(entries)      == Web!ComputePicChangeFrequency(entries)
computeFirstLastSeen(entries)           == Web!ComputeFirstLastSeen(entries)
computeSleepWindow(entries, c)          == Web!ComputeSleepWindow(entries, c)
computeOnlinePatternSummary(hourly)     == Web!ComputeOnlinePatternSummary(hourly)
computeTrend30Days(entries, c)          == Web!ComputeTrend30Days(entries, c)
computeHeatmap(entries, c)              == Web!ComputeHeatmap(entries, c)
exportCSV(entries)                      == Web!ExportCSV(entries)

\* The panel: its cards, patterns, charts and histories.
statCards(entries, c) ==
  [avgSession     |-> computeAvgSessionDuration(entries),
   longestSess    |-> computeLongestSession(entries),
   daily          |-> computeDailyAvgOnline(entries, c),
   streak         |-> computeStreak(entries, c),
   longestOffline |-> computeLongestOfflineStreak(entries, c),
   nightOwlPct    |-> computeNightOwlScore(entries, c),
   consistency    |-> computeConsistencyScore(entries, c),
   picFreqDays    |-> computePicChangeFrequency(entries)]
patterns(entries, c)  == [patternSummary |-> computeOnlinePatternSummary(computePeakHours(entries, c)),
                          sleepWindow    |-> computeSleepWindow(entries, c),
                          tracked        |-> computeFirstLastSeen(entries)]
heatmap(cells)        == Web!Heatmap(cells)
activityCharts(entries, c) == [hourly  |-> computePeakHours(entries, c),
                               weekday |-> computeWeekdayActivity(entries, c)]
calendarCharts(entries, c) == [heatmap |-> heatmap(computeHeatmap(entries, c)),
                               trend   |-> computeTrend30Days(entries, c)]
histories(entries)    == Web!Histories(entries)
otherInfo(entries)    == Web!OtherInfo(entries)

presencePanel(entries, c) ==
  IF Web!SumOver(computePeakHours(entries, c), 0 .. HoursPerDay - 1) = 0
    THEN Null
    ELSE [cards |-> statCards(entries, c), patterns |-> patterns(entries, c),
          activity |-> activityCharts(entries, c), calendar |-> calendarCharts(entries, c),
          histories |-> histories(entries), other |-> otherInfo(entries)]

\* Timeline.tsx: the newest ten messages, and the blocks of all other entries.
sessionTimeline(entries, now) ==
  [messages |-> Web!RecentMessages(entries),
   blocks   |-> buildBlocks(SelectSeq(entries, LAMBDA e : e.kind # "message"), now)]
=============================================================================
