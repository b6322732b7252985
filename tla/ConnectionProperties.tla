------------------------- MODULE ConnectionProperties -------------------------
(***************************************************************************)
(* What the connection of an account should follow.                        *)
(***************************************************************************)
EXTENDS Connection

\* Where a caller of Connect and SoftDisconnect can be.
Places == {"off", "wait", "decide", "connect", "dial", "disconnect", "hangup",
           "pause"}

\* A PUT request: idle, or with the schedule it has stored and will apply.
Request == [pc : {"idle", "apply"}, schedule : Schedule]

\* The state of every part has the shape the Go types give it.
LinkTypeOK ==
  /\ stored \in Schedule
  /\ memory \in Schedule
  /\ request \in [Requests -> Request]
  /\ minute \in Minutes
  /\ link \in {"down", "up"}
  /\ autoReconnect \in BOOLEAN /\ redial \in BOOLEAN /\ linked \in BOOLEAN
  /\ connected \in BOOLEAN /\ running \in BOOLEAN /\ want \in BOOLEAN
  /\ pc \in [Callers -> Places]
  /\ failures \in 0 .. MaxFailures
  /\ drops \in 0 .. MaxDrops
  /\ refreshes \in 0 .. MaxRefreshes
  /\ restarts \in 0 .. MaxRestarts
  /\ puts \in 0 .. MaxPuts

\* Minutes passed since start, going round the clock.
Since(start, m) == IF m >= start THEN m - start ELSE m - start + Day

\* Minutes a slot lasts: one that ends where it starts lasts the whole day.
Length(start, end) == IF start = end THEN Day ELSE Since(start, end)

\* A slot is open from its start for as long as it lasts, over midnight or not
\* (tracker.go, slotContains).
SlotsAreWindows ==
  \A slot \in stored.slots :
     SlotContains(slot[1], slot[2], minute)
       <=> Since(slot[1], minute) < Length(slot[1], slot[2])

Forced == memory.force

\* Once "force offline" has reached the tracker and stays, the connection ends
\* up down for good, whatever the refresh loop, the library's own reconnect and
\* a Connect already under way still do (tracker.go, runScheduleLoop).
ForcedGoesOffline == <>[]Forced => <>[](link = "down")

\* With the loops started and nothing in the schedule against it, the connection
\* comes back however often it is lost and whoever took it down: the refresh
\* loop whose Connect failed, a schedule set and cleared, a break without
\* auto-reconnect (tracker.go, applyScheduleNow).
ComesBack ==
  <>[](memory = Always /\ linked /\ pc["schedule"] # "off") => []<>(link = "up")
=============================================================================
