------------------------------ MODULE Connection ------------------------------
(***************************************************************************)
(* Who brings the WhatsApp connection of one account up and down: the      *)
(* start of the program, the schedule loop, the presence refresh loop, the *)
(* library's auto-reconnect, and the schedule that users set through the   *)
(* HTTP API (internal/tracker, internal/wa, internal/api, cmd/tracker).    *)
(*                                                                         *)
(* Connect and SoftDisconnect take no lock: each of their statements is an *)
(* action, and the callers interleave between them.                        *)
(***************************************************************************)
EXTENDS Integers, FiniteSets

CONSTANTS Day,          \* minutes in a day
          Schedules,    \* what users may set: [force, slots]
          Requests,     \* PUT requests that may be in flight at once
          MaxFailures,  \* bound: dials that fail
          MaxDrops,     \* bound: connections that break
          MaxRefreshes, \* bound: presence refreshes, 4 to 6 hours apart
          MaxRestarts,  \* bound: restarts of the program
          MaxPuts       \* bound: schedules set

Minutes == 0 .. Day - 1

Schedule == [force : BOOLEAN, slots : SUBSET (Minutes \X Minutes)]

ASSUME DayAssumption == Day \in Nat \ {0}

ASSUME SchedulesAssumption == Schedules \subseteq Schedule

ASSUME LimitsAssumption == /\ MaxFailures \in Nat
                           /\ MaxDrops \in Nat
                           /\ MaxRefreshes \in Nat
                           /\ MaxRestarts \in Nat
                           /\ MaxPuts \in Nat

VARIABLES
  stored,         \* accounts.force_offline and account_schedule_slots
  request,        \* PUT /schedule requests: idle, or stored and not yet applied
  memory,         \* Tracker.forceOffline, Tracker.scheduleSlots
  minute,         \* minute of the day
  link,           \* the client's socket
  autoReconnect,  \* whatsmeow's EnableAutoReconnect
  redial,         \* the library is reconnecting on its own
  linked,         \* the device has an ID (IsLoggedIn)
  connected,      \* a Connected event waits to be handled
  running,        \* Tracker.running
  pc,             \* where each caller of Connect and SoftDisconnect is
  want,           \* applyScheduleNow's shouldConnect
  failures,       \* dials that have failed
  drops,          \* connections that have broken
  refreshes,      \* presence refreshes so far
  restarts,       \* restarts so far
  puts            \* schedules set so far

linkVars == <<stored, request, memory, minute, link, autoReconnect, redial, linked,
          connected, running, pc, want, failures, drops, refreshes, restarts,
          puts>>

\* ConnectAll at startup, runScheduleLoop, runPresenceRefreshLoop.
Callers == {"main", "schedule", "refresh"}

-----------------------------------------------------------------------------
\* Mutant: a window over midnight is tested like one within the day.
SlotContainsByDay(start, end, m) == m >= start /\ m < end

SlotContains(start, end, m) ==
  IF start < end THEN m >= start /\ m < end ELSE m >= start \/ m < end

\* scheduleAllowsConnect
Allows(s, m) ==
  /\ ~s.force
  /\ s.slots # {} => \E slot \in s.slots : SlotContains(slot[1], slot[2], m)

Always == [force |-> FALSE, slots |-> {}]

NoRequest == [pc |-> "idle", schedule |-> Always]

\* Where the callers are when a process starts: ConnectAll connects every client
\* that is logged in.
AtStart == [p \in Callers |-> IF p = "main" /\ linked THEN "connect" ELSE "off"]

LinkInit ==
  /\ stored = Always
  /\ request = [r \in Requests |-> NoRequest]
  /\ memory = Always
  /\ minute = 0
  /\ link = "down"
  /\ autoReconnect = TRUE
  /\ redial = FALSE
  /\ linked = TRUE
  /\ connected = FALSE
  /\ running = FALSE
  /\ pc = AtStart
  /\ want = FALSE
  /\ failures = 0
  /\ drops = 0
  /\ refreshes = 0
  /\ restarts = 0
  /\ puts = 0

-----------------------------------------------------------------------------
\* PUT /accounts/{id}/schedule: SetAccountSchedule commits one transaction ...
PutStore(r) ==
  /\ request[r] = NoRequest
  /\ puts < MaxPuts
  /\ puts' = puts + 1
  /\ \E s \in Schedules :
        /\ stored' = s
        /\ request' = [request EXCEPT ![r] = [pc |-> "apply", schedule |-> s]]
  /\ UNCHANGED <<memory, minute, link, autoReconnect, redial, linked,
                 connected, running, pc, want, failures, restarts, drops,
                 refreshes>>

\* ... and ApplySchedule then replaces the tracker's copy.
PutApply(r) ==
  /\ request[r].pc = "apply"
  /\ memory' = request[r].schedule
  /\ request' = [request EXCEPT ![r] = NoRequest]
  /\ UNCHANGED <<stored, minute, link, autoReconnect, redial, linked,
                 connected, running, pc, want, failures, restarts, puts, drops,
                 refreshes>>

-----------------------------------------------------------------------------
\* Client.Connect and Client.SoftDisconnect, statement by statement.

\* Where a caller goes once Connect or SoftDisconnect has returned.
Return(p) == IF p = "main" THEN "off" ELSE "wait"

\* The check at the top of Connect, then the flag.
ConnectCheck(p) ==
  /\ pc[p] = "connect"
  /\ \/ /\ link = "up"
        /\ pc' = [pc EXCEPT ![p] = Return(p)]
        /\ UNCHANGED autoReconnect
     \/ /\ link = "down"
        /\ pc' = [pc EXCEPT ![p] = "dial"]
        /\ autoReconnect' = TRUE
  /\ UNCHANGED <<stored, request, memory, minute, link, redial, linked,
                 connected, running, want, failures, restarts, puts, drops,
                 refreshes>>

\* The dial: a linked device logs in, which is announced by a Connected event.
Dial(p) ==
  /\ pc[p] = "dial"
  /\ link' = "up"
  /\ connected' = (connected \/ (link = "down" /\ linked))
  /\ pc' = [pc EXCEPT ![p] = Return(p)]
  /\ UNCHANGED <<stored, request, memory, minute, autoReconnect, redial,
                 linked, running, want, failures, restarts, puts, drops,
                 refreshes>>

\* A failed dial is logged, nothing else.
DialFails(p) ==
  /\ pc[p] = "dial"
  /\ failures < MaxFailures
  /\ failures' = failures + 1
  /\ pc' = [pc EXCEPT ![p] = Return(p)]
  /\ UNCHANGED <<stored, request, memory, minute, link, autoReconnect, redial,
                 linked, connected, running, want, restarts, puts, drops,
                 refreshes>>

SoftDisconnect(p) ==
  /\ pc[p] = "disconnect"
  /\ autoReconnect' = FALSE
  /\ pc' = [pc EXCEPT ![p] = "hangup"]
  /\ UNCHANGED <<stored, request, memory, minute, link, redial, linked,
                 connected, running, want, failures, restarts, puts, drops,
                 refreshes>>

HangUp(p) ==
  /\ pc[p] = "hangup"
  /\ link' = "down"
  /\ pc' = [pc EXCEPT ![p] = IF p = "refresh" THEN "pause" ELSE "wait"]
  /\ UNCHANGED <<stored, request, memory, minute, autoReconnect, redial,
                 linked, connected, running, want, failures, restarts, puts,
                 drops, refreshes>>

-----------------------------------------------------------------------------
\* The loops.

\* runScheduleLoop's tick: applyScheduleNow reads the schedule and the time ...
ScheduleTick ==
  /\ pc["schedule"] = "wait"
  /\ want' = Allows(memory, minute)
  /\ pc' = [pc EXCEPT !["schedule"] = "decide"]
  /\ UNCHANGED <<stored, request, memory, minute, link, autoReconnect, redial,
                 linked, connected, running, failures, restarts, puts, drops,
                 refreshes>>

\* Mutant: the schedule only ever disconnects.
ScheduleOnlyDrops ==
  /\ pc["schedule"] = "decide"
  /\ pc' = [pc EXCEPT !["schedule"] =
              IF ~want /\ link = "up" THEN "disconnect" ELSE "wait"]
  /\ UNCHANGED <<stored, request, memory, minute, link, autoReconnect, redial,
                 linked, connected, running, want, failures, restarts, puts,
                 drops, refreshes>>

\* Mutant: the schedule only ever connects.
ScheduleOnlyRaises ==
  /\ pc["schedule"] = "decide"
  /\ pc' = [pc EXCEPT !["schedule"] =
              IF want /\ link = "down" THEN "connect" ELSE "wait"]
  /\ UNCHANGED <<stored, request, memory, minute, link, autoReconnect, redial,
                 linked, connected, running, want, failures, restarts, puts,
                 drops, refreshes>>

\* ... and compares them with the connection.
ScheduleDecide ==
  /\ pc["schedule"] = "decide"
  /\ pc' = [pc EXCEPT !["schedule"] = CASE want /\ link = "down" -> "connect"
                                        [] ~want /\ link = "up"  -> "disconnect"
                                        [] OTHER                 -> "wait"]
  /\ UNCHANGED <<stored, request, memory, minute, link, autoReconnect, redial,
                 linked, connected, running, want, failures, restarts, puts,
                 drops, refreshes>>

\* runPresenceRefreshLoop's timer, every 4 to 6 hours; it passes over a tracker
\* that is not running or not connected.
RefreshTimer ==
  /\ pc["refresh"] = "wait"
  /\ refreshes < MaxRefreshes
  /\ refreshes' = refreshes + 1
  /\ running
  /\ link = "up"
  /\ pc' = [pc EXCEPT !["refresh"] = "disconnect"]
  /\ UNCHANGED <<stored, request, memory, minute, link, autoReconnect, redial,
                 linked, connected, running, want, failures, restarts, puts,
                 drops>>

\* The 5 to 30 seconds between its SoftDisconnect and its Connect are over.
RefreshResume ==
  /\ pc["refresh"] = "pause"
  /\ pc' = [pc EXCEPT !["refresh"] = "connect"]
  /\ UNCHANGED <<stored, request, memory, minute, link, autoReconnect, redial,
                 linked, connected, running, want, failures, restarts, puts,
                 drops, refreshes>>

\* onConnected: the first one starts the loops, later ones only subscribe again.
OnConnected ==
  /\ connected
  /\ connected' = FALSE
  /\ running' = TRUE
  /\ pc' = IF running THEN pc
           ELSE [pc EXCEPT !["schedule"] = "wait", !["refresh"] = "wait"]
  /\ UNCHANGED <<stored, request, memory, minute, link, autoReconnect, redial,
                 linked, want, failures, restarts, puts, drops, refreshes>>

-----------------------------------------------------------------------------
\* The surroundings: WhatsApp and its library, the clock, the process.

\* The connection breaks; the library reconnects on its own if it may.
Drop ==
  /\ link = "up"
  /\ drops < MaxDrops
  /\ drops' = drops + 1
  /\ link' = "down"
  /\ redial' = (autoReconnect /\ linked)
  /\ UNCHANGED <<stored, request, memory, minute, autoReconnect, linked,
                 connected, running, pc, want, failures, restarts, puts,
                 refreshes>>

Redial ==
  /\ redial
  /\ redial' = FALSE
  /\ link' = "up"
  /\ connected' = (connected \/ (link = "down" /\ linked))
  /\ UNCHANGED <<stored, request, memory, minute, autoReconnect, linked,
                 running, pc, want, failures, restarts, puts, drops,
                 refreshes>>

\* events.LoggedOut: the phone has removed the device; stopWorkers only clears
\* the flag, the loops go on.
OnLoggedOut ==
  /\ linked
  /\ link = "up"
  /\ ~connected
  /\ linked' = FALSE
  /\ link' = "down"
  /\ redial' = FALSE
  /\ running' = FALSE
  /\ UNCHANGED <<stored, request, memory, minute, autoReconnect, connected, pc,
                 want, failures, restarts, puts, drops, refreshes>>

\* A minute passes on the wall clock.
MinutePasses ==
  /\ Day > 1
  /\ minute' = (minute + 1) % Day
  /\ UNCHANGED <<stored, request, memory, link, autoReconnect, redial, linked,
                 connected, running, pc, want, failures, restarts, puts, drops,
                 refreshes>>

\* The process stops, by a signal or a crash, and is started again. The schedule
\* in the database is not read.
Restart ==
  /\ restarts < MaxRestarts
  /\ restarts' = restarts + 1
  /\ request' = [r \in Requests |-> NoRequest]
  /\ memory' = Always
  /\ link' = "down"
  /\ autoReconnect' = TRUE
  /\ redial' = FALSE
  /\ connected' = FALSE
  /\ running' = FALSE
  /\ pc' = AtStart
  /\ want' = FALSE
  /\ UNCHANGED <<stored, minute, linked, failures, puts, drops, refreshes>>

-----------------------------------------------------------------------------
CallerStep(p) ==
  \/ ConnectCheck(p)
  \/ Dial(p) \/ DialFails(p)
  \/ SoftDisconnect(p)
  \/ HangUp(p)

ScheduleLoop == ScheduleTick \/ ScheduleDecide \/ CallerStep("schedule")

LinkNext ==
  \/ \E r \in Requests : PutStore(r) \/ PutApply(r)
  \/ CallerStep("main")
  \/ ScheduleLoop
  \/ RefreshTimer \/ RefreshResume \/ CallerStep("refresh")
  \/ OnConnected \/ OnLoggedOut
  \/ Drop \/ Redial
  \/ MinutePasses
  \/ Restart

LinkSpec == LinkInit /\ [][LinkNext]_linkVars

\* Goroutines that can run do, tickers tick, a Connected event is handled and
\* the library's reconnect succeeds in the end. Nothing makes users, the network
\* or WhatsApp act, nor the refresh timer fire.
LinkFairness ==
  /\ WF_linkVars(CallerStep("main"))
  /\ WF_linkVars(ScheduleLoop)
  /\ WF_linkVars(RefreshResume \/ CallerStep("refresh"))
  /\ WF_linkVars(OnConnected)
  /\ WF_linkVars(Redial)
  /\ \A r \in Requests : WF_linkVars(PutApply(r))

LinkFairSpec == LinkSpec /\ LinkFairness
=============================================================================
