----------------------------- MODULE TrackerProofs -----------------------------
(***************************************************************************)
(* Proofs about the tracker of an account: the presence path and the       *)
(* connection, for any contacts, timers, schedules, requests and bounds.   *)
(*                                                                         *)
(* 1. Presence: type correctness, and what a step does to the rows of a    *)
(*    contact.                                                             *)
(* 2. A contact inferred online always has a way back to offline.  The     *)
(*    inductive invariant CoveredInv adds to InferredCovered the clock     *)
(*    order of rows and callbacks (a callback's row is the latest if       *)
(*    nothing newer is stored), the foreign key, and that each timer in    *)
(*    the map belongs to the contact it is filed under.                    *)
(* 3. The presence path implements the session log.                        *)
(* 4. A dashboard that hears every event shows the latest row.  Inductive  *)
(*    is DashboardInv: a row that the dashboard's store does not reach yet *)
(*    is still in the hands of the process that will broadcast it, and     *)
(*    what is broadcast or shown is a row.                                 *)
(* 5. The connection: type correctness, slots as windows, and a forced     *)
(*    schedule that stays down.                                            *)
(***************************************************************************)
EXTENDS PresenceProperties, ConnectionProperties, TLAPS

\* A handler or a callback that is not idle has a contact and a time.
LEMMA Busy ==
  ASSUME TypeOK
  PROVE  /\ handler.pc # "idle" => handler \in BusyHandler
         /\ \A g \in Callbacks :
               callback[g].pc # "done" => callback[g] \in RunningCallback
  BY DEF TypeOK, Idle, Done

LEMMA HandlerKeepsType ==
  ASSUME TypeOK, HandlerStep PROVE TypeOK'
<1> USE DEF TypeOK
<1>1. handler \in BusyHandler
  BY Busy DEF HandlerStep, CancelInferredOffline, HandlerRead, HandlerReadFails,
     HandlerWrite, HandlerWriteFails, HandlerSend, ScheduleInferredOffline
<1>2. CASE CancelInferredOffline
  <2>1. handler' \in BusyHandler
    BY <1>1, <1>2 DEF CancelInferredOffline, BusyHandler
  <2>2. timer' \in [Timers -> SetTimer \cup {FreeTimer}]
    BY <1>1, <1>2 DEF CancelInferredOffline
  <2>3. inferredOnline' \in [Contacts -> Timers \cup {None}]
    BY <1>1, <1>2 DEF CancelInferredOffline
  <2>4. QED
    BY <1>2, <2>1, <2>2, <2>3 DEF CancelInferredOffline
<1>3. CASE HandlerRead \/ HandlerReadFails
  <2>1. handler' \in BusyHandler \cup {Idle}
    BY <1>1, <1>3 DEF HandlerRead, HandlerReadFails, AfterRead, BusyHandler
  <2>2. faults' \in 0..MaxFaults
    BY <1>3, BoundsAssumption DEF HandlerRead, HandlerReadFails, DbFault
  <2>3. QED
    BY <1>3, <2>1, <2>2 DEF HandlerRead, HandlerReadFails, AfterRead
<1>4. CASE HandlerWrite
  <2>1. handler' \in BusyHandler
    BY <1>1, <1>4 DEF HandlerWrite, BusyHandler
  <2>2. log' \in [Contacts -> Seq(Row)]
    <3> DEFINE row == [state |-> handler.state, seen |-> handler.seen,
                       at |-> handler.at]
    <3>1. row \in Row /\ handler.contact \in Contacts
      BY <1>1 DEF BusyHandler, Row
    <3>2. log' = [log EXCEPT ![handler.contact] = Append(@, row)]
      BY <1>4 DEF HandlerWrite
    <3> HIDE DEF row
    <3>3. QED
      BY <3>1, <3>2
  <2>3. basis' \in [Contacts -> {"none", "inferred", "real", "real+activity"}]
    BY <1>4 DEF HandlerWrite
  <2>4. QED
    BY <1>4, <2>1, <2>2, <2>3 DEF HandlerWrite
<1>5. CASE HandlerWriteFails
  <2>1. handler' \in BusyHandler \cup {Idle}
    BY <1>1, <1>5 DEF HandlerWriteFails, BusyHandler
  <2>2. faults' \in 0..MaxFaults
    BY <1>5, BoundsAssumption DEF HandlerWriteFails, DbFault
  <2>3. QED
    BY <1>5, <2>1, <2>2 DEF HandlerWriteFails
<1>6. CASE HandlerSend
  <2>1. handler' \in BusyHandler \cup {Idle}
    BY <1>1, <1>6 DEF HandlerSend, BusyHandler
  <2>2. shown' \in [Contacts -> [state : States \cup {"none"}, at : Nat]]
    BY <1>1, <1>6 DEF HandlerSend, Broadcast, BusyHandler
  <2>3. QED
    BY <1>6, <2>1, <2>2 DEF HandlerSend
<1>7. CASE ScheduleInferredOffline
  <2>1. clock + Timeout \in Nat
    BY BoundsAssumption
  <2>2. timer' \in [Timers -> SetTimer \cup {FreeTimer}]
    <3>1. [contact |-> handler.contact, armed |-> TRUE, due |-> clock + Timeout]
            \in SetTimer
      BY <1>1, <2>1 DEF BusyHandler, SetTimer
    <3>2. QED
      BY <1>7, <3>1 DEF ScheduleInferredOffline
  <2>3. inferredOnline' \in [Contacts -> Timers \cup {None}]
    BY <1>7 DEF ScheduleInferredOffline
  <2>4. basis' \in [Contacts -> {"none", "inferred", "real", "real+activity"}]
    BY <1>7 DEF ScheduleInferredOffline
  <2>5. QED
    BY <1>7, <2>2, <2>3, <2>4 DEF ScheduleInferredOffline
<1>8. QED
  BY <1>2, <1>3, <1>4, <1>5, <1>6, <1>7 DEF HandlerStep

LEMMA CallbackKeepsType ==
  ASSUME TypeOK, NEW g \in Callbacks, CallbackStep(g) PROVE TypeOK'
<1> USE DEF TypeOK
<1>1. callback[g] \in RunningCallback
  BY Busy DEF CallbackStep, CallbackUnmap, CallbackRead, CallbackFails,
     CallbackWrite, CallbackSend
<1>2. ASSUME NEW r \in RunningCallback \cup {Done},
             callback' = [callback EXCEPT ![g] = r]
      PROVE  callback' \in [Callbacks -> RunningCallback \cup {Done}]
  BY <1>2
<1>3. CASE CallbackUnmap(g)
  <2>1. [callback[g] EXCEPT !.pc = "read", !.at = clock] \in RunningCallback
    BY <1>1 DEF RunningCallback
  <2>2. callback' = [callback EXCEPT ![g] =
                       [callback[g] EXCEPT !.pc = "read", !.at = clock]]
    BY <1>3 DEF CallbackUnmap
  <2>3. timer' \in [Timers -> SetTimer \cup {FreeTimer}]
    BY <1>3 DEF CallbackUnmap
  <2>4. QED
    BY <1>2, <1>3, <2>1, <2>2, <2>3 DEF CallbackUnmap
<1>4. CASE CallbackRead(g)
  <2>1. [callback[g] EXCEPT !.pc = "write"] \in RunningCallback
    BY <1>1 DEF RunningCallback
  <2>2. callback' \in [Callbacks -> RunningCallback \cup {Done}]
    BY <1>2, <1>4, <2>1 DEF CallbackRead
  <2>3. QED
    BY <1>4, <2>2 DEF CallbackRead
<1>5. CASE CallbackFails(g)
  <2>1. faults' \in 0..MaxFaults
    BY <1>5, BoundsAssumption DEF CallbackFails, DbFault
  <2>2. QED
    BY <1>5, <2>1 DEF CallbackFails
<1>6. CASE CallbackWrite(g)
  <2>1. [callback[g] EXCEPT !.pc = "send"] \in RunningCallback
    BY <1>1 DEF RunningCallback
  <2>2. callback' = [callback EXCEPT ![g] = [callback[g] EXCEPT !.pc = "send"]]
    BY <1>6 DEF CallbackWrite
  <2>3. log' \in [Contacts -> Seq(Row)]
    <3> DEFINE row == [state |-> "unavailable", seen |-> None,
                       at |-> callback[g].at]
    <3>1. row \in Row /\ callback[g].contact \in Contacts
      BY <1>1 DEF RunningCallback, Row, States
    <3>2. log' = [log EXCEPT ![callback[g].contact] = Append(@, row)]
      BY <1>6 DEF CallbackWrite
    <3> HIDE DEF row
    <3>3. QED
      BY <3>1, <3>2
  <2>4. QED
    BY <1>2, <1>6, <2>1, <2>2, <2>3 DEF CallbackWrite
<1>7. CASE CallbackSend(g)
  <2>1. shown' \in [Contacts -> [state : States \cup {"none"}, at : Nat]]
    BY <1>1, <1>7 DEF CallbackSend, Broadcast, RunningCallback, States
  <2>2. QED
    BY <1>7, <2>1 DEF CallbackSend
<1>8. QED
  BY <1>3, <1>4, <1>5, <1>6, <1>7 DEF CallbackStep

LEMMA EnvironmentKeepsType ==
  ASSUME TypeOK, Environment PROVE TypeOK'
<1> USE DEF TypeOK
<1>1. ASSUME NEW c \in Contacts, OnPresence(c) \/ OnChatPresence(c) \/ OnMessage(c)
      PROVE  TypeOK'
  <2>1. PICK kind \in {"presence", "typing", "message"}, state \in States,
             seen \in LastSeen \cup {None}, phase \in {"cancel", "read"} :
               Receive(kind, c, state, seen, phase)
    BY <1>1 DEF OnPresence, OnChatPresence, OnMessage, States
  <2>2. handler' \in BusyHandler
    BY <2>1 DEF Receive, BusyHandler
  <2>3. events' \in 0..MaxEvents
    BY <2>1, BoundsAssumption DEF Receive
  <2>4. QED
    BY <2>1, <2>2, <2>3 DEF Receive
<1>2. ASSUME NEW c \in Contacts, DeleteContact(c) PROVE TypeOK'
  <2>1. deletes' \in 0..MaxDeletes
    BY <1>2, BoundsAssumption DEF DeleteContact
  <2>2. QED
    BY <1>2, <2>1 DEF DeleteContact
<1>3. ASSUME NEW c \in Contacts, AddContact(c) PROVE TypeOK'
  BY <1>3 DEF AddContact
<1>4. CASE StopCancel
  BY <1>4 DEF StopCancel
<1>5. CASE StopTimers
  BY <1>5 DEF StopTimers
<1>6. QED
  BY <1>1, <1>2, <1>3, <1>4, <1>5 DEF Environment

LEMMA ExpireKeepsType ==
  ASSUME TypeOK, NEW t \in Timers, Expire(t) PROVE TypeOK'
<1> USE DEF TypeOK
<1>1. timer[t] \in SetTimer
  BY DEF Expire, FreeTimer
<1>2. timer' \in [Timers -> SetTimer \cup {FreeTimer}]
  BY <1>1 DEF Expire, SetTimer
<1>3. callback' \in [Callbacks -> RunningCallback \cup {Done}]
  BY <1>1 DEF Expire, SetTimer, RunningCallback
<1>4. QED
  BY <1>2, <1>3 DEF Expire

LEMMA NextKeepsType == TypeOK /\ [Next]_vars => TypeOK'
<1> SUFFICES ASSUME TypeOK, [Next]_vars PROVE TypeOK'
  OBVIOUS
<1>1. CASE Tick
  BY <1>1 DEF Tick, TypeOK
<1>2. CASE UNCHANGED vars
  BY <1>2 DEF vars, TypeOK
<1>3. QED
  BY <1>1, <1>2, HandlerKeepsType, CallbackKeepsType, EnvironmentKeepsType,
     ExpireKeepsType DEF Next

\* The state keeps the shape the Go types give it; in particular every handler
\* and callback at work holds a contact and every armed timer belongs to one
\* (tracker.go, all handlers).
THEOREM TypeCorrect == Spec => []TypeOK
<1>1. Init => TypeOK
  BY BoundsAssumption DEF Init, TypeOK
<1>2. QED
  BY <1>1, NextKeepsType, PTL DEF Spec

-----------------------------------------------------------------------------
\* The rows of a contact.

\* The latest row is unique: it is the one CHOOSE picks.
LEMMA LatestIs ==
  ASSUME NEW rows \in Seq(Row), NEW i \in DOMAIN rows, IsLatest(rows, i)
  PROVE  LatestPresence(rows) = rows[i]
<1>1. ASSUME NEW j \in DOMAIN rows, IsLatest(rows, j) PROVE j = i
  <2>1. rows[j] \in Row /\ rows[i] \in Row /\ i \in Nat /\ j \in Nat
    OBVIOUS
  <2>2. rows[j].at \in Nat /\ rows[i].at \in Nat
    BY <2>1 DEF Row
  <2>3. QED
    BY <1>1, <2>1, <2>2 DEF IsLatest
<1>2. rows # <<>>
  OBVIOUS
<1>3. (CHOOSE j \in DOMAIN rows : IsLatest(rows, j)) = i
  BY <1>1
<1>4. QED
  BY <1>2, <1>3 DEF LatestPresence

\* What appending a row does to the latest one.
LEMMA LatestAfterAppend ==
  ASSUME NEW rows \in Seq(Row), NEW row \in Row,
         rows # <<>> => \E i \in DOMAIN rows : IsLatest(rows, i)
  PROVE  /\ \E i \in DOMAIN Append(rows, row) : IsLatest(Append(rows, row), i)
         /\ LatestPresence(Append(rows, row)) =
              IF rows = <<>> \/ row.at >= LatestPresence(rows).at
              THEN row ELSE LatestPresence(rows)
<1> DEFINE more == Append(rows, row)
           last == Len(rows) + 1
<1>1. /\ more \in Seq(Row)
      /\ DOMAIN more = 1 .. last
      /\ more[last] = row
      /\ \A j \in DOMAIN rows : more[j] = rows[j]
      /\ DOMAIN rows = 1 .. Len(rows)
      /\ Len(rows) \in Nat
      /\ \A j \in DOMAIN rows : j \in DOMAIN more
  OBVIOUS
<1>2. ASSUME NEW j \in DOMAIN more PROVE j \in Nat /\ more[j].at \in Nat
  <2>1. more[j] \in Row /\ j \in Nat
    BY <1>1
  <2>2. QED
    BY <2>1 DEF Row
<1> HIDE DEF more
<1>3. CASE rows = <<>>
  <2>1. DOMAIN more = {last}
    BY <1>1, <1>3
  <2>2. IsLatest(more, last)
    BY <2>1, <1>2 DEF IsLatest
  <2>3. LatestPresence(more) = row
    BY <1>1, <2>1, <2>2, LatestIs
  <2>4. QED
    BY <1>3, <2>1, <2>2, <2>3 DEF more
<1>4. CASE rows # <<>>
  <2>1. PICK i \in DOMAIN rows : IsLatest(rows, i)
    BY <1>4
  <2>2. LatestPresence(rows) = rows[i]
    BY <2>1, LatestIs
  <2>3. CASE row.at >= rows[i].at
    <3>1. IsLatest(more, last)
      BY SMTT(30), <1>1, <1>2, <2>1, <2>3 DEF IsLatest
    <3>2. LatestPresence(more) = row
      BY <1>1, <3>1, LatestIs
    <3>3. QED
      BY <1>1, <1>4, <2>2, <2>3, <3>1, <3>2 DEF more
  <2>4. CASE ~(row.at >= rows[i].at)
    <3>1. IsLatest(more, i)
      BY SMTT(30), <1>1, <1>2, <2>1, <2>4 DEF IsLatest
    <3>2. LatestPresence(more) = rows[i]
      BY <1>1, <3>1, LatestIs
    <3>3. QED
      BY <1>1, <1>4, <2>2, <2>4, <3>1, <3>2 DEF more
  <2>5. QED
    BY <2>3, <2>4
<1>5. QED
  BY <1>3, <1>4

\* What a step does to the rows of a contact.
LEMMA LogStep ==
  ASSUME TypeOK, Dated, Next, NEW c \in Contacts
  PROVE  \/ log'[c] = log[c]
         \/ log'[c] = <<>>
         \/ /\ contacts' = contacts /\ c \in contacts
            /\ \E row \in Row : row.at <= clock /\ log'[c] = Append(log[c], row)
<1>1. CASE HandlerWrite
  <2> DEFINE row == [state |-> handler.state, seen |-> handler.seen,
                     at |-> handler.at]
  <2>1. handler \in BusyHandler
    BY <1>1, Busy DEF HandlerWrite
  <2>2. row \in Row /\ row.at <= clock
    BY <2>1 DEF BusyHandler, Row, Dated
  <2>3. /\ handler.contact \in contacts /\ contacts' = contacts
        /\ log' = [log EXCEPT ![handler.contact] = Append(@, row)]
    BY <1>1 DEF HandlerWrite
  <2> HIDE DEF row
  <2>4. QED
    BY <2>2, <2>3 DEF TypeOK
<1>2. ASSUME NEW g \in Callbacks, CallbackWrite(g)
      PROVE  \/ log'[c] = log[c]
             \/ /\ contacts' = contacts /\ c \in contacts
                /\ \E row \in Row : row.at <= clock /\ log'[c] = Append(log[c], row)
  <2> DEFINE row == [state |-> "unavailable", seen |-> None, at |-> callback[g].at]
  <2>1. callback[g] \in RunningCallback
    BY <1>2, Busy DEF CallbackWrite
  <2>2. row \in Row /\ row.at <= clock
    BY <2>1 DEF RunningCallback, Row, States, Dated
  <2>3. /\ callback[g].contact \in contacts /\ contacts' = contacts
        /\ log' = [log EXCEPT ![callback[g].contact] = Append(@, row)]
    BY <1>2 DEF CallbackWrite
  <2> HIDE DEF row
  <2>4. QED
    BY <2>2, <2>3 DEF TypeOK
<1>3. ASSUME NEW d \in Contacts, DeleteContact(d)
      PROVE  log'[c] = log[c] \/ log'[c] = <<>>
  BY <1>3 DEF DeleteContact, TypeOK
<1>4. QED
  BY <1>1, <1>2, <1>3
     DEF Next, Environment, HandlerStep, CallbackStep, OnPresence, OnChatPresence,
         OnMessage, Receive, AddContact, StopCancel, StopTimers, Tick, Expire,
         CancelInferredOffline, HandlerRead, HandlerReadFails, AfterRead,
         HandlerWriteFails, HandlerSend, ScheduleInferredOffline, CallbackUnmap,
         CallbackRead, CallbackFails, CallbackSend

\* Nothing is dated in the future: every time is read off the clock.
LEMMA DatedKept == ASSUME TypeOK, Dated, Next PROVE Dated'
<1>1. clock \in Nat /\ clock' \in Nat /\ clock <= clock'
  <2>1. clock' = clock \/ clock' = clock + 1
    BY DEF Next, Environment, HandlerStep, CallbackStep, OnPresence, OnChatPresence,
         OnMessage, Receive, DeleteContact, AddContact, StopCancel, StopTimers, Tick,
         Expire, CancelInferredOffline, HandlerRead, HandlerReadFails, AfterRead,
         HandlerWrite, HandlerWriteFails, HandlerSend, ScheduleInferredOffline,
         CallbackUnmap, CallbackRead, CallbackFails, CallbackWrite, CallbackSend
  <2>2. QED
    BY <2>1 DEF TypeOK
<1>2. ASSUME NEW c \in Contacts, NEW i \in DOMAIN log'[c] PROVE log'[c][i].at <= clock'
  <2>1. log[c] \in Seq(Row)
    BY DEF TypeOK
  <2>2. ASSUME NEW j \in DOMAIN log[c]
        PROVE  log[c][j].at \in Nat /\ log[c][j].at <= clock
    <3>1. log[c][j] \in Row
      BY <2>1
    <3>2. QED
      BY <3>1 DEF Row, Dated
  <2>3. CASE log'[c] = log[c]
    BY <1>1, <2>2, <2>3
  <2>4. CASE log'[c] = <<>>
    BY <2>4
  <2>5. ASSUME NEW row \in Row, row.at <= clock, log'[c] = Append(log[c], row)
        PROVE  log'[c][i].at <= clock'
    <3>1. \/ log'[c][i] = row
          \/ i \in DOMAIN log[c] /\ log'[c][i] = log[c][i]
      BY <2>1, <2>5
    <3>2. row.at \in Nat
      BY DEF Row
    <3>3. QED
      BY <1>1, <2>2, <2>5, <3>1, <3>2
  <2>6. QED
    BY <2>3, <2>4, <2>5, LogStep
<1>3. handler'.at <= clock'
  <2>1. handler.at \in Nat /\ handler.at <= clock
    BY DEF TypeOK, BusyHandler, Idle, Dated
  <2>2. CASE HandlerStep
    <3>1. handler \in BusyHandler
      BY <2>2, Busy DEF HandlerStep, CancelInferredOffline, HandlerRead,
         HandlerReadFails, HandlerWrite, HandlerWriteFails, HandlerSend,
         ScheduleInferredOffline
    <3>2. \/ handler' = [handler EXCEPT !.pc = "read", !.at = clock]
          \/ \E phase \in {"write", "send", "schedule"} :
               handler' = [handler EXCEPT !.pc = phase]
          \/ handler' = Idle
      <4>1. handler.kind \in {"presence", "typing", "message"}
        BY <3>1 DEF BusyHandler
      <4>2. QED
        BY <2>2, <4>1 DEF HandlerStep, CancelInferredOffline, HandlerRead,
           HandlerReadFails, AfterRead, HandlerWrite, HandlerWriteFails, HandlerSend,
           ScheduleInferredOffline
    <3>3. handler'.at \in {handler.at, clock, 0}
      <4>1. [handler EXCEPT !.pc = "read", !.at = clock].at = clock
        BY <3>1 DEF BusyHandler
      <4>2. ASSUME NEW phase PROVE [handler EXCEPT !.pc = phase].at = handler.at
        BY <3>1 DEF BusyHandler
      <4>3. Idle.at = 0
        BY DEF Idle
      <4>4. QED
        BY <3>2, <4>1, <4>2, <4>3
    <3>4. QED
      BY <1>1, <2>1, <3>3
  <2>3. CASE Environment
    BY <1>1, <2>1, <2>3 DEF Environment, OnPresence, OnChatPresence, OnMessage,
       Receive, DeleteContact, AddContact, StopCancel, StopTimers
  <2>4. CASE ~HandlerStep /\ ~Environment
    <3>1. handler' = handler
      BY <2>4 DEF Next, Expire, CallbackStep, CallbackUnmap, CallbackRead,
         CallbackFails, CallbackWrite, CallbackSend, Tick
    <3>2. QED
      BY <1>1, <2>1, <3>1
  <2>5. QED
    BY <2>2, <2>3, <2>4
<1>4. ASSUME NEW g \in Callbacks PROVE callback'[g].at <= clock'
  <2>1. callback[g].at \in Nat /\ callback[g].at <= clock
    BY DEF TypeOK, RunningCallback, Done, Dated
  <2>2. ASSUME NEW t \in Timers, Expire(t) PROVE callback'[g].at \in {callback[g].at, 0}
    BY <2>2 DEF Expire, TypeOK
  <2>3. ASSUME NEW h \in Callbacks, CallbackStep(h)
        PROVE  callback'[g].at \in {callback[g].at, 0, clock}
    <3>1. callback[h] \in RunningCallback
      BY <2>3, Busy DEF CallbackStep, CallbackUnmap, CallbackRead, CallbackFails,
         CallbackWrite, CallbackSend
    <3>2. PICK r : /\ callback' = [callback EXCEPT ![h] = r]
                   /\ r.at \in {callback[h].at, 0, clock}
      <4>1. CASE CallbackUnmap(h)
        <5>1. callback' = [callback EXCEPT ![h] =
                             [callback[h] EXCEPT !.pc = "read", !.at = clock]]
          BY <4>1 DEF CallbackUnmap
        <5>2. [callback[h] EXCEPT !.pc = "read", !.at = clock].at = clock
          BY <3>1 DEF RunningCallback
        <5>3. QED
          BY <5>1, <5>2
      <4>2. ASSUME NEW phase \in {"write", "send"},
                   callback' = [callback EXCEPT ![h] = [callback[h] EXCEPT !.pc = phase]]
            PROVE  \E r : /\ callback' = [callback EXCEPT ![h] = r]
                          /\ r.at = callback[h].at
        <5>1. [callback[h] EXCEPT !.pc = phase].at = callback[h].at
          BY <3>1 DEF RunningCallback
        <5>2. QED
          BY <4>2, <5>1
      <4>3. Done.at = 0
        BY DEF Done
      <4>4. CASE CallbackRead(h) \/ CallbackWrite(h)
        <5>1. \/ callback' = [callback EXCEPT ![h] = Done]
              \/ \E phase \in {"write", "send"} :
                   callback' = [callback EXCEPT ![h] = [callback[h] EXCEPT !.pc = phase]]
          BY <4>4 DEF CallbackRead, CallbackWrite
        <5>2. QED
          BY <4>2, <4>3, <5>1
      <4>5. CASE CallbackFails(h) \/ CallbackSend(h)
        BY <4>3, <4>5 DEF CallbackFails, CallbackSend
      <4>6. QED
        BY <2>3, <4>1, <4>4, <4>5 DEF CallbackStep
    <3>3. QED
      BY <3>2 DEF TypeOK
  <2>4. Environment \/ HandlerStep \/ Tick => callback' = callback
    BY DEF Environment, OnPresence, OnChatPresence, OnMessage, Receive,
       DeleteContact, AddContact, StopCancel, StopTimers, HandlerStep,
       CancelInferredOffline, HandlerRead, HandlerReadFails, AfterRead,
       HandlerWrite, HandlerWriteFails, HandlerSend, ScheduleInferredOffline, Tick
  <2>5. callback'[g].at \in {callback[g].at, 0, clock}
    BY <2>2, <2>3, <2>4 DEF Next
  <2>6. QED
    BY <1>1, <2>1, <2>5
<1>5. QED
  BY <1>2, <1>3, <1>4 DEF Dated

\* A non-empty log has a latest row.
LEMMA HasLatestKept == ASSUME TypeOK, Dated, HasLatest, Next PROVE HasLatest'
<1> SUFFICES ASSUME NEW c \in Contacts, log'[c] # <<>>
             PROVE  \E i \in DOMAIN log'[c] : IsLatest(log'[c], i)
  BY DEF HasLatest
<1>1. log[c] \in Seq(Row)
  BY DEF TypeOK
<1>2. CASE log'[c] = log[c]
  BY <1>2 DEF HasLatest
<1>3. ASSUME NEW row \in Row, log'[c] = Append(log[c], row)
      PROVE  \E i \in DOMAIN log'[c] : IsLatest(log'[c], i)
  <2>1. log[c] # <<>> => \E i \in DOMAIN log[c] : IsLatest(log[c], i)
    BY DEF HasLatest
  <2>2. QED
    BY <1>1, <1>3, <2>1, LatestAfterAppend
<1>4. QED
  BY <1>2, <1>3, LogStep

\* The foreign key: a contact without a row has no presence rows.
LEMMA NoOrphanRowsKept == ASSUME TypeOK, Dated, NoOrphanRows, Next PROVE NoOrphanRows'
<1> SUFFICES ASSUME NEW c \in Contacts, c \notin contacts' PROVE log'[c] = <<>>
  BY DEF NoOrphanRows
<1>1. ASSUME NEW d \in Contacts, DeleteContact(d) PROVE log'[c] = <<>>
  BY <1>1 DEF DeleteContact, NoOrphanRows, TypeOK
<1>2. ASSUME contacts' = contacts PROVE log'[c] = <<>>
  BY <1>2, LogStep DEF NoOrphanRows
<1>3. ASSUME NEW d \in Contacts, AddContact(d) PROVE log'[c] = <<>>
  BY <1>3 DEF AddContact, NoOrphanRows
<1>4. QED
  BY <1>1, <1>2, <1>3
     DEF Next, Environment, HandlerStep, CallbackStep, OnPresence, OnChatPresence,
         OnMessage, Receive, StopCancel, StopTimers, Tick, Expire,
         CancelInferredOffline, HandlerRead, HandlerReadFails, AfterRead,
         HandlerWrite, HandlerWriteFails, HandlerSend, ScheduleInferredOffline,
         CallbackUnmap, CallbackRead, CallbackFails, CallbackWrite, CallbackSend

\* The latest row is not dated in the future.
LEMMA LatestDated ==
  ASSUME TypeOK, Dated, HasLatest, NEW c \in Contacts
  PROVE  Latest(c).at \in Nat /\ clock >= Latest(c).at
<1>1. CASE log[c] = <<>>
  BY <1>1 DEF Latest, LatestPresence, NoRow, TypeOK
<1>2. CASE log[c] # <<>>
  <2>1. log[c] \in Seq(Row)
    BY DEF TypeOK
  <2>2. PICK i \in DOMAIN log[c] : IsLatest(log[c], i)
    BY <1>2 DEF HasLatest
  <2>3. Latest(c) = log[c][i]
    BY <2>1, <2>2, LatestIs DEF Latest
  <2>4. log[c][i] \in Row
    BY <2>1
  <2>5. QED
    BY <2>3, <2>4 DEF Row, Dated, TypeOK
<1>3. QED
  BY <1>1, <1>2

-----------------------------------------------------------------------------
\* A contact inferred online stays covered.

\* t still has somebody who will act on it for c.
LiveTimer(t, c) ==
  /\ timer[t].contact = c
  /\ \/ timer[t].armed
     \/ \E g \in Callbacks : callback[g].pc = "fired" /\ callback[g].contact = c

\* Two contacts never share a timer, so no step takes away another's.
LEMMA MapEntryLiveKept ==
  ASSUME TypeOK, MapEntryLive, Next PROVE MapEntryLive'
<1>0. inferredOnline' \in [Contacts -> Timers \cup {None}]
  <2>1. TypeOK'
    BY NextKeepsType
  <2>2. QED
    BY <2>1 DEF TypeOK
<1> SUFFICES ASSUME NEW c \in Contacts, NEW t \in Timers, inferredOnline'[c] = t
             PROVE  LiveTimer(t, c)'
  BY <1>0 DEF MapEntryLive, LiveTimer
<1>1. t # None
  BY NoneAssumption
<1>2. \A d \in Contacts : inferredOnline[d] # None =>
         /\ inferredOnline[d] \in Timers
         /\ timer[inferredOnline[d]].contact = d
  BY DEF TypeOK, MapEntryLive
<1>3. inferredOnline[c] = t => LiveTimer(t, c)
  BY <1>1 DEF MapEntryLive, LiveTimer
<1>4. ASSUME UNCHANGED <<inferredOnline, timer, callback>> PROVE LiveTimer(t, c)'
  BY <1>3, <1>4 DEF LiveTimer
<1>5. CASE CancelInferredOffline
  <2>1. handler.contact \in Contacts
    BY <1>5, Busy DEF CancelInferredOffline, BusyHandler
  <2>2. c # handler.contact /\ inferredOnline[c] = t /\ callback' = callback
    BY <1>1, <1>5, <2>1 DEF CancelInferredOffline, TypeOK
  <2>3. timer'[t] = timer[t]
    <3>1. inferredOnline[handler.contact] # t
      BY <1>1, <1>2, <2>1, <2>2
    <3>2. QED
      BY <1>5, <3>1 DEF CancelInferredOffline, TypeOK
  <2>4. QED
    BY <1>3, <2>2, <2>3 DEF LiveTimer
<1>6. CASE ScheduleInferredOffline
  <2> DEFINE d == handler.contact
  <2>1. d \in Contacts
    BY <1>6, Busy DEF ScheduleInferredOffline, BusyHandler
  <2>2. callback' = callback
    BY <1>6 DEF ScheduleInferredOffline
  <2>3. PICK u \in Timers :
          /\ timer' = [timer EXCEPT ![u] = [contact |-> d, armed |-> TRUE,
                                            due |-> clock + Timeout]]
          /\ inferredOnline' = [inferredOnline EXCEPT ![d] = u]
          /\ inferredOnline[d] = u \/ timer[u] = FreeTimer
    BY <1>6, <2>1, <1>2 DEF ScheduleInferredOffline, TypeOK
  <2>4. CASE c = d
    BY <2>1, <2>3, <2>4 DEF TypeOK, LiveTimer
  <2>5. CASE c # d
    <3>1. inferredOnline[c] = t
      BY <2>1, <2>3, <2>5 DEF TypeOK
    <3>2. t # u
      BY <1>1, <1>2, <2>1, <2>3, <2>5, <3>1, NoneAssumption DEF FreeTimer
    <3>3. timer'[t] = timer[t]
      BY <2>3, <3>2 DEF TypeOK
    <3>4. QED
      BY <1>3, <2>2, <3>1, <3>3 DEF LiveTimer
  <2>6. QED
    BY <2>4, <2>5
<1>7. ASSUME NEW u \in Timers, Expire(u) PROVE LiveTimer(t, c)'
  <2>1. inferredOnline[c] = t
    BY <1>7 DEF Expire
  <2>2. PICK g \in Callbacks :
          /\ callback[g] = Done
          /\ callback' = [callback EXCEPT ![g] =
               [pc |-> "fired", contact |-> timer[u].contact, at |-> 0]]
    BY <1>7 DEF Expire
  <2>3. CASE t = u
    <3>1. timer[t].contact = c
      BY <1>3, <2>1 DEF LiveTimer
    <3>2. timer'[t].contact = c
      BY <1>7, <2>1, <2>3, <3>1 DEF Expire, TypeOK
    <3>3. callback'[g].pc = "fired" /\ callback'[g].contact = c
      BY <2>2, <2>3, <3>1 DEF TypeOK
    <3>4. QED
      BY <3>2, <3>3 DEF LiveTimer
  <2>4. CASE t # u
    <3>1. timer'[t] = timer[t]
      BY <1>7, <2>4 DEF Expire, TypeOK
    <3>2. \A h \in Callbacks : callback[h].pc = "fired" => callback'[h] = callback[h]
      BY <2>2 DEF TypeOK, Done
    <3>3. QED
      BY <1>3, <2>1, <3>1, <3>2 DEF LiveTimer
  <2>5. QED
    BY <2>3, <2>4
<1>8. ASSUME NEW g \in Callbacks, CallbackUnmap(g) PROVE LiveTimer(t, c)'
  <2> DEFINE d == callback[g].contact
  <2>1. d \in Contacts
    BY <1>8, Busy DEF CallbackUnmap, RunningCallback
  <2>2. c # d /\ inferredOnline[c] = t
    BY <1>1, <1>8, <2>1 DEF CallbackUnmap, TypeOK
  <2>3. timer'[t] = timer[t]
    <3>1. inferredOnline[d] # t
      BY <1>1, <1>2, <2>1, <2>2
    <3>2. QED
      BY <1>8, <3>1 DEF CallbackUnmap, TypeOK
  <2>4. \A h \in Callbacks : callback[h].contact = c => callback'[h] = callback[h]
    BY <1>8, <2>2 DEF CallbackUnmap, TypeOK
  <2>5. QED
    BY <1>3, <2>2, <2>3, <2>4 DEF LiveTimer
<1>9. ASSUME NEW g \in Callbacks,
             CallbackRead(g) \/ CallbackFails(g) \/ CallbackWrite(g) \/ CallbackSend(g)
      PROVE  LiveTimer(t, c)'
  <2>1. inferredOnline' = inferredOnline /\ timer' = timer
    BY <1>9 DEF CallbackRead, CallbackFails, CallbackWrite, CallbackSend
  <2>2. \A h \in Callbacks : callback[h].pc = "fired" => callback'[h] = callback[h]
    BY <1>9 DEF CallbackRead, CallbackFails, CallbackWrite, CallbackSend, TypeOK
  <2>3. QED
    BY <1>3, <2>1, <2>2 DEF LiveTimer
<1>10. CASE StopTimers
  BY <1>1, <1>10 DEF StopTimers
<1>11. QED
  BY <1>4, <1>5, <1>6, <1>7, <1>8, <1>9, <1>10
     DEF Next, Environment, HandlerStep, CallbackStep, OnPresence, OnChatPresence,
         OnMessage, Receive, DeleteContact, AddContact, StopCancel, Tick,
         HandlerRead, HandlerReadFails, AfterRead, HandlerWrite, HandlerWriteFails,
         HandlerSend

\* onPresence cancels before it reads, so it works on a contact whose basis is
\* real, or whose rows are gone.
LEMMA RealBasisKept == ASSUME TypeOK, RealBasis, Next PROVE RealBasis'
<1> SUFFICES ASSUME handler'.kind = "presence", handler'.pc \in {"read", "write", "send"}
             PROVE  basis'[handler'.contact] \in {"real", "none"}
  BY DEF RealBasis
<1>1. CASE CancelInferredOffline
  <2>1. handler \in BusyHandler
    BY <1>1, Busy DEF CancelInferredOffline
  <2>2. [handler EXCEPT !.pc = "read", !.at = clock].contact = handler.contact
    BY <2>1 DEF BusyHandler
  <2>3. QED
    BY <1>1, <2>1, <2>2 DEF CancelInferredOffline, BusyHandler, TypeOK
<1>2. CASE HandlerStep /\ ~CancelInferredOffline
  <2>1. handler \in BusyHandler
    BY <1>2, Busy DEF HandlerStep, CancelInferredOffline, HandlerRead,
       HandlerReadFails, HandlerWrite, HandlerWriteFails, HandlerSend,
       ScheduleInferredOffline
  <2>2. ASSUME NEW phase PROVE /\ [handler EXCEPT !.pc = phase].contact = handler.contact
                            /\ [handler EXCEPT !.pc = phase].kind = handler.kind
    BY <2>1 DEF BusyHandler
  <2>3. Idle.kind = "none"
    BY DEF Idle
  <2>4. handler' # Idle
    BY <2>3
  <2>5. PICK phase \in {"write", "send", "schedule"} : handler' = [handler EXCEPT !.pc = phase]
    <3>1. handler.kind \in {"presence", "typing", "message"}
      BY <2>1 DEF BusyHandler
    <3>2. QED
      BY <1>2, <2>4, <3>1 DEF HandlerStep, HandlerRead, HandlerReadFails, AfterRead,
         HandlerWrite, HandlerWriteFails, HandlerSend, ScheduleInferredOffline
  <2>6. handler'.contact = handler.contact /\ handler.kind = "presence"
    BY <2>2, <2>5
  <2>7. handler.pc \in {"read", "write", "send"} /\ basis' = basis
    BY <1>2, <2>4, <2>6 DEF HandlerStep, HandlerRead, HandlerReadFails, AfterRead,
       HandlerWrite, HandlerWriteFails, HandlerSend, ScheduleInferredOffline
  <2>8. QED
    BY <2>6, <2>7 DEF RealBasis
<1>3. ASSUME NEW c \in Contacts, DeleteContact(c)
      PROVE  basis'[handler'.contact] \in {"real", "none"}
  <2>1. handler.contact \in Contacts
    BY <1>3, Busy DEF DeleteContact, BusyHandler
  <2>2. QED
    BY <1>3, <2>1 DEF DeleteContact, RealBasis, TypeOK
<1>4. ASSUME NEW c \in Contacts, OnPresence(c) \/ OnChatPresence(c) \/ OnMessage(c)
      PROVE  FALSE
  BY <1>4 DEF OnPresence, OnChatPresence, OnMessage, Receive
<1>5. CASE UNCHANGED <<handler, basis>>
  BY <1>5 DEF RealBasis
<1>6. QED
  BY <1>1, <1>2, <1>3, <1>4, <1>5
     DEF Next, Environment, CallbackStep, AddContact, StopCancel, StopTimers, Tick,
         Expire, CallbackUnmap, CallbackRead, CallbackFails, CallbackWrite, CallbackSend

\* Faults and cancellation are for good.
LEMMA FaultsGrow ==
  ASSUME TypeOK, Next PROVE faults' = 0 /\ CtxLive' => faults = 0 /\ CtxLive
<1>1. faults' = faults \/ faults' = faults + 1
  BY DEF Next, Environment, HandlerStep, CallbackStep, OnPresence, OnChatPresence,
     OnMessage, Receive, DeleteContact, AddContact, StopCancel, StopTimers, Tick,
     Expire, CancelInferredOffline, HandlerRead, HandlerReadFails, AfterRead,
     HandlerWrite, HandlerWriteFails, HandlerSend, ScheduleInferredOffline,
     CallbackUnmap, CallbackRead, CallbackFails, CallbackWrite, CallbackSend, DbFault
<1>2. faults \in Nat
  BY BoundsAssumption DEF TypeOK
<1>3. ctx' # "live" \/ ctx' = ctx
  BY DEF Next, Environment, HandlerStep, CallbackStep, OnPresence, OnChatPresence,
     OnMessage, Receive, DeleteContact, AddContact, StopCancel, StopTimers, Tick,
     Expire, CancelInferredOffline, HandlerRead, HandlerReadFails, AfterRead,
     HandlerWrite, HandlerWriteFails, HandlerSend, ScheduleInferredOffline,
     CallbackUnmap, CallbackRead, CallbackFails, CallbackWrite, CallbackSend
<1>4. QED
  BY <1>1, <1>2, <1>3 DEF CtxLive

\* Whatever a step takes away, it leaves somebody to mark the contact offline.
LEMMA InferredCoveredKept ==
  ASSUME TypeOK, Dated, HasLatest, NoOrphanRows, RealBasis, MapEntryLive,
         InferredCovered, Next
  PROVE  InferredCovered'
<1> SUFFICES ASSUME NEW c \in Contacts, basis'[c] = "inferred", Online(c)',
                    CtxLive', faults' = 0
             PROVE  Covered(c)'
  BY DEF InferredCovered
<1>1. CtxLive /\ faults = 0
  BY FaultsGrow
\* No statement fails in this step for a reason of its own.
<1>2. ~DbFault
  BY <1>1 DEF DbFault
<1>3. Online(c) /\ basis[c] = "inferred" => Covered(c)
  BY <1>1 DEF InferredCovered
\* Nothing in reach of the contact changes.
<1>4. ASSUME UNCHANGED <<timer, callback>>, log'[c] = log[c], basis'[c] = basis[c],
             /\ handler.contact = c /\ handler.kind # "presence"
             /\ handler.pc \in {"send", "schedule"}
             => /\ handler'.contact = c /\ handler'.kind # "presence"
                /\ handler'.pc \in {"send", "schedule"}
      PROVE  Covered(c)'
  BY <1>3, <1>4 DEF Covered, Online, Latest
<1>5. ASSUME NEW d \in Contacts, OnPresence(d) \/ OnChatPresence(d) \/ OnMessage(d)
      PROVE  Covered(c)'
  BY <1>4, <1>5 DEF OnPresence, OnChatPresence, OnMessage, Receive
<1>6. CASE CancelInferredOffline
  <2> DEFINE d == handler.contact
  <2>1. d \in Contacts
    BY <1>6, Busy DEF CancelInferredOffline, BusyHandler
  <2>2. c # d
    BY <1>6, <2>1 DEF CancelInferredOffline, TypeOK
  <2>3. log' = log /\ basis'[c] = basis[c] /\ callback' = callback
    BY <1>6, <2>2 DEF CancelInferredOffline, TypeOK
  <2>4. ASSUME NEW t \in Timers, timer[t].contact = c PROVE timer'[t] = timer[t]
    <3>1. inferredOnline[d] # t
      BY <2>1, <2>2, <2>4, NoneAssumption DEF MapEntryLive
    <3>2. QED
      BY <1>6, <3>1 DEF CancelInferredOffline, TypeOK
  <2>5. handler.pc = "cancel"
    BY <1>6 DEF CancelInferredOffline
  <2>6. QED
    BY <1>3, <2>3, <2>4, <2>5 DEF Covered, Online, Latest
<1>7. CASE HandlerRead \/ HandlerReadFails
  BY <1>4, <1>7 DEF HandlerRead, HandlerReadFails, AfterRead
<1>8. CASE HandlerWrite
  <2> DEFINE d == handler.contact
  <2>1. handler \in BusyHandler
    BY <1>8, Busy DEF HandlerWrite
  <2>2. d \in Contacts /\ handler.kind \in {"presence", "typing", "message"}
    BY <2>1 DEF BusyHandler
  <2>3. CASE c # d
    BY <1>4, <1>8, <2>2, <2>3 DEF HandlerWrite, TypeOK
  <2>4. CASE c = d
    <3>1. handler.kind # "presence"
      BY <1>8, <2>2, <2>4 DEF HandlerWrite, RealBasis
    <3>2. [handler EXCEPT !.pc = "send"].pc = "send"
      BY <2>1 DEF BusyHandler
    <3>3. /\ [handler EXCEPT !.pc = "send"].contact = handler.contact
          /\ [handler EXCEPT !.pc = "send"].kind = handler.kind
      BY <2>1 DEF BusyHandler
    <3>4. handler' = [handler EXCEPT !.pc = "send"]
      BY <1>8 DEF HandlerWrite
    <3>5. QED
      BY <2>4, <3>1, <3>2, <3>3, <3>4 DEF Covered
  <2>5. QED
    BY <2>3, <2>4
<1>9. CASE HandlerWriteFails
  BY <1>4, <1>9 DEF HandlerWriteFails
<1>10. CASE HandlerSend
  <2>1. handler \in BusyHandler
    BY <1>10, Busy DEF HandlerSend
  <2>2. /\ [handler EXCEPT !.pc = "schedule"].contact = handler.contact
        /\ [handler EXCEPT !.pc = "schedule"].kind = handler.kind
        /\ [handler EXCEPT !.pc = "schedule"].pc = "schedule"
    BY <2>1 DEF BusyHandler
  <2>3. QED
    BY <1>4, <1>10, <2>2 DEF HandlerSend
<1>11. CASE ScheduleInferredOffline
  <2> DEFINE d == handler.contact
             armed == [contact |-> d, armed |-> TRUE, due |-> clock + Timeout]
  <2>1. d \in Contacts
    BY <1>11, Busy DEF ScheduleInferredOffline, BusyHandler
  <2>2. log' = log /\ callback' = callback
    BY <1>11 DEF ScheduleInferredOffline
  <2>3. PICK u \in Timers : /\ timer' = [timer EXCEPT ![u] = armed]
                            /\ inferredOnline[d] = u \/ timer[u] = FreeTimer
    BY <1>11, <2>1 DEF ScheduleInferredOffline, TypeOK
  <2>4. CASE c = d
    <3>1. timer'[u].armed /\ timer'[u].contact = c
      BY <2>3, <2>4 DEF TypeOK
    <3>2. QED
      BY <3>1 DEF Covered
  <2>5. CASE c # d
    <3>1. timer[u].contact # c
      BY <2>1, <2>3, <2>5, NoneAssumption DEF MapEntryLive, FreeTimer
    <3>2. \A t \in Timers : timer[t].contact = c => timer'[t] = timer[t]
      BY <2>3, <3>1 DEF TypeOK
    <3>3. basis'[c] = basis[c]
      BY <1>11, <2>5 DEF ScheduleInferredOffline, TypeOK
    <3>4. QED
      BY <1>3, <2>2, <2>5, <3>2, <3>3 DEF Covered, Online, Latest
  <2>6. QED
    BY <2>4, <2>5
<1>12. ASSUME NEW u \in Timers, Expire(u) PROVE Covered(c)'
  <2>1. PICK g \in Callbacks :
          /\ callback[g] = Done
          /\ callback' = [callback EXCEPT ![g] =
               [pc |-> "fired", contact |-> timer[u].contact, at |-> 0]]
    BY <1>12 DEF Expire
  <2>2. log' = log /\ basis' = basis /\ handler' = handler
    BY <1>12 DEF Expire
  <2>3. CASE timer[u].contact = c
    <3>1. callback'[g].pc = "fired" /\ callback'[g].contact = c
      BY <2>1, <2>3 DEF TypeOK
    <3>2. QED
      BY <3>1 DEF Covered
  <2>4. CASE timer[u].contact # c
    <3>1. \A t \in Timers : timer[t].contact = c => timer'[t] = timer[t]
      BY <1>12, <2>4 DEF Expire, TypeOK
    <3>2. \A h \in Callbacks : callback[h].contact = c => callback'[h] = callback[h]
      BY <2>1, NoneAssumption DEF TypeOK, Done
    <3>3. QED
      BY <1>3, <2>2, <3>1, <3>2 DEF Covered, Online, Latest
  <2>5. QED
    BY <2>3, <2>4
<1>13. ASSUME NEW g \in Callbacks, CallbackStep(g) PROVE Covered(c)'
  <2> DEFINE d == callback[g].contact
  <2>1. callback[g] \in RunningCallback
    BY <1>13, Busy DEF CallbackStep, CallbackUnmap, CallbackRead, CallbackFails,
       CallbackWrite, CallbackSend
  <2>2. d \in Contacts /\ callback[g].at \in Nat
    BY <2>1 DEF RunningCallback
  <2>3. basis' = basis /\ handler' = handler
    BY <1>13 DEF CallbackStep, CallbackUnmap, CallbackRead, CallbackFails,
       CallbackWrite, CallbackSend
  <2>4. \A h \in Callbacks : h # g => callback'[h] = callback[h]
    BY <1>13 DEF CallbackStep, CallbackUnmap, CallbackRead, CallbackFails,
       CallbackWrite, CallbackSend, TypeOK
  <2>5. \A t \in Timers : timer[t].armed => timer'[t] = timer[t]
    BY <1>13 DEF CallbackStep, CallbackUnmap, CallbackRead, CallbackFails,
       CallbackWrite, CallbackSend, TypeOK
  <2>6. CASE c # d
    <3>1. log'[c] = log[c]
      BY <1>13, <2>6 DEF CallbackStep, CallbackUnmap, CallbackRead, CallbackFails,
         CallbackWrite, CallbackSend, TypeOK
    <3>2. \A h \in Callbacks : callback[h].contact = c => callback'[h] = callback[h]
      BY <2>4, <2>6
    <3>3. QED
      BY <1>3, <2>3, <2>5, <3>1, <3>2 DEF Covered, Online, Latest
  <2>7. CASE c = d /\ CallbackUnmap(g)
    <3>1. /\ [callback[g] EXCEPT !.pc = "read", !.at = clock].pc = "read"
          /\ [callback[g] EXCEPT !.pc = "read", !.at = clock].contact = d
          /\ [callback[g] EXCEPT !.pc = "read", !.at = clock].at = clock
      BY <2>1 DEF RunningCallback
    <3>2. callback'[g] = [callback[g] EXCEPT !.pc = "read", !.at = clock]
      BY <2>7 DEF CallbackUnmap, TypeOK
    <3>3. Latest(c)' = Latest(c)
      BY <2>7 DEF CallbackUnmap, Latest
    <3>4. clock >= Latest(c).at
      BY LatestDated
    <3>5. QED
      BY <2>7, <3>1, <3>2, <3>3, <3>4 DEF Covered
  <2>8. CASE c = d /\ CallbackRead(g)
    <3>1. log' = log /\ timer' = timer
      BY <2>8 DEF CallbackRead
    <3>2. Online(c)
      BY <3>1 DEF Online, Latest
    <3>3. callback'[g] = [callback[g] EXCEPT !.pc = "write"]
      BY <2>8, <3>2 DEF CallbackRead, TypeOK
    <3>4. /\ callback'[g].pc = "write" /\ callback[g].pc = "read"
          /\ callback'[g].contact = c
          /\ callback'[g].at = callback[g].at
      BY <2>1, <2>8, <3>3 DEF RunningCallback, CallbackRead
    <3>5. QED
      BY <1>3, <2>3, <2>4, <3>1, <3>2, <3>4 DEF Covered, Latest
  <2>9. CASE c = d /\ CallbackFails(g)
    <3>1. c \notin contacts /\ log' = log
      BY <1>1, <1>2, <2>9 DEF CallbackFails
    <3>2. log'[c] = <<>>
      BY <3>1 DEF NoOrphanRows
    <3>3. QED
      BY <3>2 DEF Online, Latest, LatestPresence, NoRow
  <2>10. CASE c = d /\ CallbackWrite(g)
    <3> DEFINE row == [state |-> "unavailable", seen |-> None, at |-> callback[g].at]
    <3>1. row \in Row
      BY <2>2 DEF Row, States
    <3>2. log'[c] = Append(log[c], row)
      BY <2>10 DEF CallbackWrite, TypeOK
    <3>3. row.at = callback[g].at /\ row.state = "unavailable"
      OBVIOUS
    <3> HIDE DEF row
    <3>4. LatestPresence(log'[c]) = IF log[c] = <<>> \/ row.at >= Latest(c).at
                                    THEN row ELSE Latest(c)
      <4>1. log[c] \in Seq(Row)
        BY DEF TypeOK
      <4>2. log[c] # <<>> => \E i \in DOMAIN log[c] : IsLatest(log[c], i)
        BY DEF HasLatest
      <4>3. QED
        BY <3>1, <3>2, <4>1, <4>2, LatestAfterAppend DEF Latest
    <3>5. Latest(c)' = Latest(c) /\ ~(callback[g].at >= Latest(c).at)
      BY <3>3, <3>4 DEF Online, Latest
    <3>6. callback[g].pc = "write" /\ timer' = timer
      BY <2>10 DEF CallbackWrite
    <3>7. Online(c)
      BY <3>5 DEF Online
    <3>8. QED
      BY <1>3, <2>3, <2>4, <3>5, <3>6, <3>7 DEF Covered
  <2>11. CASE c = d /\ CallbackSend(g)
    <3>1. log' = log /\ timer' = timer /\ callback[g].pc = "send"
      BY <2>11 DEF CallbackSend
    <3>2. QED
      BY <1>3, <2>3, <2>4, <3>1 DEF Covered, Online, Latest
  <2>12. QED
    BY <1>13, <2>6, <2>7, <2>8, <2>9, <2>10, <2>11 DEF CallbackStep
<1>14. ASSUME NEW d \in Contacts, DeleteContact(d) PROVE Covered(c)'
  <2>1. CASE d = c
    <3>1. log'[c] = <<>>
      BY <1>14, <2>1 DEF DeleteContact, TypeOK
    <3>2. QED
      BY <3>1 DEF Online, Latest, LatestPresence, NoRow
  <2>2. CASE d # c
    BY <1>4, <1>14, <2>2 DEF DeleteContact, TypeOK
  <2>3. QED
    BY <2>1, <2>2
<1>15. ASSUME NEW d \in Contacts, AddContact(d) PROVE Covered(c)'
  BY <1>4, <1>15 DEF AddContact
<1>16. CASE StopCancel \/ StopTimers
  BY <1>16 DEF StopCancel, StopTimers, CtxLive
<1>17. CASE Tick
  BY <1>4, <1>17 DEF Tick
<1>18. QED
  BY <1>5, <1>6, <1>7, <1>8, <1>9, <1>10, <1>11, <1>12, <1>13, <1>14, <1>15, <1>16,
     <1>17 DEF Next, Environment, HandlerStep

\* The strengthened invariant is inductive.
LEMMA CoveredInvKept == CoveredInv /\ [Next]_vars => CoveredInv'
<1> SUFFICES ASSUME CoveredInv, [Next]_vars PROVE CoveredInv'
  OBVIOUS
<1>1. CASE Next
  <2>1. TypeOK'
    BY <1>1, NextKeepsType DEF CoveredInv
  <2>2. QED
    BY <1>1, <2>1, DatedKept, HasLatestKept, NoOrphanRowsKept, RealBasisKept,
       MapEntryLiveKept, InferredCoveredKept DEF CoveredInv
<1>2. CASE UNCHANGED vars
  BY <1>2 DEF vars, CoveredInv, TypeOK, Dated, HasLatest, NoOrphanRows, RealBasis,
     MapEntryLive, InferredCovered, Covered, Online, Latest, CtxLive
<1>3. QED
  BY <1>1, <1>2

LEMMA CoveredInvStarts == Init => CoveredInv
<1> SUFFICES ASSUME Init PROVE CoveredInv
  OBVIOUS
<1>1. TypeOK
  BY BoundsAssumption DEF Init, TypeOK
<1>2. Dated
  BY DEF Init, Dated, Idle, Done
<1>3. HasLatest /\ NoOrphanRows /\ RealBasis /\ MapEntryLive /\ InferredCovered
  BY DEF Init, HasLatest, NoOrphanRows, RealBasis, MapEntryLive, InferredCovered, Idle
<1>4. QED
  BY <1>1, <1>2, <1>3 DEF CoveredInv

\* While the tracker runs and no statement has failed, a contact that is online
\* only because of a message or of typing has somebody left who will mark it
\* offline, however Reset, Stop and the callbacks interleave (tracker.go,
\* scheduleInferredOffline, cancelInferredOffline).
THEOREM InferredStaysCovered == Spec => []InferredCovered
<1>1. CoveredInv => InferredCovered
  BY DEF CoveredInv
<1>2. QED
  BY <1>1, CoveredInvStarts, CoveredInvKept, PTL DEF Spec

\* An entry of the timer map belongs to its contact and is armed, or its own
\* callback is on its way to delete it (tracker.go, inferredOnline).
THEOREM MapEntriesLive == Spec => []MapEntryLive
<1>1. CoveredInv => MapEntryLive
  BY DEF CoveredInv
<1>2. QED
  BY <1>1, CoveredInvStarts, CoveredInvKept, PTL DEF Spec

-----------------------------------------------------------------------------
\* The presence path implements the session log.

\* Between the handler's read and its insert nobody else opens a session.
LEMMA OpensOfflineKept ==
  ASSUME TypeOK, Dated, HasLatest, OpensOffline, Next PROVE OpensOffline'
<1> DEFINE c == handler'.contact
<1> SUFFICES ASSUME handler'.pc = "write", handler'.state = "available",
                    CtxLive', faults' = 0
             PROVE  LatestPresence(log'[c]).state # "available"
  BY DEF OpensOffline, Online, Latest
<1>1. CtxLive /\ faults = 0
  BY FaultsGrow
<1>2. CASE HandlerRead
  <2>1. handler \in BusyHandler
    BY <1>2, Busy DEF HandlerRead
  <2>2. handler' # Idle
    BY DEF Idle
  <2>3. ~Unchanged(Latest(handler.contact)) /\ handler' = [handler EXCEPT !.pc = "write"]
    <3>1. [handler EXCEPT !.pc = "schedule"].pc = "schedule"
      BY <2>1 DEF BusyHandler
    <3>2. QED
      BY <1>2, <2>2, <3>1 DEF HandlerRead, AfterRead
  <2>4. /\ [handler EXCEPT !.pc = "write"].contact = handler.contact
        /\ [handler EXCEPT !.pc = "write"].state = handler.state
    BY <2>1 DEF BusyHandler
  <2>5. Latest(handler.contact).state # "available"
    BY <2>3, <2>4 DEF Unchanged
  <2>6. log' = log
    BY <1>2 DEF HandlerRead, AfterRead
  <2>7. QED
    BY <2>3, <2>4, <2>5, <2>6 DEF Online, Latest
<1>3. CASE HandlerReadFails
  BY <1>1, <1>3 DEF HandlerReadFails, AfterRead, DbFault
<1>4. CASE HandlerStep /\ ~HandlerRead /\ ~HandlerReadFails
  <2>1. handler \in BusyHandler
    BY <1>4, Busy DEF HandlerStep, CancelInferredOffline, HandlerWrite,
       HandlerWriteFails, HandlerSend, ScheduleInferredOffline
  <2>2. ASSUME NEW phase PROVE [handler EXCEPT !.pc = phase].pc = phase
    BY <2>1 DEF BusyHandler
  <2>3. [handler EXCEPT !.pc = "read", !.at = clock].pc = "read"
    BY <2>1 DEF BusyHandler
  <2>4. handler.kind \in {"presence", "typing", "message"}
    BY <2>1 DEF BusyHandler
  <2>5. \/ handler' = [handler EXCEPT !.pc = "read", !.at = clock]
        \/ handler' = Idle
        \/ \E phase \in {"send", "schedule"} : handler' = [handler EXCEPT !.pc = phase]
    BY <1>4, <2>4 DEF HandlerStep, CancelInferredOffline, HandlerWrite,
       HandlerWriteFails, HandlerSend, ScheduleInferredOffline
  <2>6. Idle.pc = "idle"
    BY DEF Idle
  <2>7. QED
    BY <2>2, <2>3, <2>5, <2>6
<1>5. ASSUME NEW d \in Contacts, OnPresence(d) \/ OnChatPresence(d) \/ OnMessage(d)
      PROVE  FALSE
  BY <1>5 DEF OnPresence, OnChatPresence, OnMessage, Receive
<1>6. ASSUME UNCHANGED <<handler, log>> PROVE LatestPresence(log'[c]).state # "available"
  BY <1>1, <1>6 DEF OpensOffline, Online, Latest
<1>7. ASSUME NEW d \in Contacts, DeleteContact(d) PROVE LatestPresence(log'[c]).state # "available"
  <2>1. handler' = handler
    BY <1>7 DEF DeleteContact
  <2>2. c \in Contacts
    BY <2>1, Busy DEF BusyHandler
  <2>3. log'[c] = <<>> \/ log'[c] = log[c]
    BY <1>7, <2>2 DEF DeleteContact, TypeOK
  <2>4. QED
    BY <1>1, <2>1, <2>3 DEF OpensOffline, Online, Latest, LatestPresence, NoRow
<1>8. ASSUME NEW g \in Callbacks, CallbackWrite(g) PROVE LatestPresence(log'[c]).state # "available"
  <2>1. handler' = handler
    BY <1>8 DEF CallbackWrite
  <2>2. c \in Contacts
    BY <2>1, Busy DEF BusyHandler
  <2>3. ~Online(c)
    BY <1>1, <2>1 DEF OpensOffline
  <2>4. callback[g] \in RunningCallback
    BY <1>8, Busy DEF CallbackWrite
  <2> DEFINE row == [state |-> "unavailable", seen |-> None, at |-> callback[g].at]
  <2>5. row \in Row /\ row.state = "unavailable"
    BY <2>4 DEF RunningCallback, Row, States
  <2>6. log'[c] = log[c] \/ log'[c] = Append(log[c], row)
    BY <1>8, <2>2 DEF CallbackWrite, TypeOK
  <2> HIDE DEF row
  <2>7. CASE log'[c] = log[c]
    BY <2>1, <2>3, <2>7 DEF Online, Latest
  <2>8. CASE log'[c] = Append(log[c], row)
    <3>1. log[c] \in Seq(Row)
      BY <2>2 DEF TypeOK
    <3>2. log[c] # <<>> => \E i \in DOMAIN log[c] : IsLatest(log[c], i)
      BY <2>2 DEF HasLatest
    <3>3. LatestPresence(log'[c]) \in {row, LatestPresence(log[c])}
      BY <2>5, <2>8, <3>1, <3>2, LatestAfterAppend
    <3>4. QED
      BY <2>1, <2>3, <2>5, <3>3 DEF Online, Latest
  <2>9. QED
    BY <2>6, <2>7, <2>8
<1>9. QED
  BY <1>2, <1>3, <1>4, <1>5, <1>6, <1>7, <1>8
     DEF Next, Environment, CallbackStep, AddContact, StopCancel, StopTimers, Tick,
         Expire, CallbackUnmap, CallbackRead, CallbackFails, CallbackSend

\* An insert whose row obeys the rule is a step of the session log.
LEMMA RecordStep ==
  ASSUME TypeOK, NEW c \in Contacts, NEW row \in Row,
         row.state = "available" => ~Sessions!Online(c),
         log' = [log EXCEPT ![c] = Append(@, row)]
  PROVE  Sessions!Next
<1> DEFINE i == Len(log[c]) + 1
<1>1. log[c] \in Seq(Row)
  BY DEF TypeOK
<1>2. log'[c] = Append(log[c], row)
  BY DEF TypeOK
<1>3. i \in DOMAIN log'[c] /\ log'[c][i] = row
  BY <1>1, <1>2
<1>4. Sessions!Record(c, row)
  BY DEF Sessions!Record, Sessions!Row, Row, Sessions!States, States
<1>5. QED
  BY <1>3, <1>4 DEF Sessions!Next

\* Every step inserts by the rule, deletes the contact, or leaves the log alone.
LEMMA StepImplements ==
  ASSUME MaxFaults = 0, TypeOK, Dated, OpensOffline, Next
  PROVE  Sessions!Next \/ UNCHANGED log
<1>1. CASE HandlerWrite
  <2> DEFINE c == handler.contact
             row == [state |-> handler.state, seen |-> handler.seen, at |-> handler.at]
  <2>1. handler \in BusyHandler
    BY <1>1, Busy DEF HandlerWrite
  <2>2. row \in Row /\ c \in Contacts
    BY <2>1 DEF BusyHandler, Row
  <2>3. faults = 0
    BY DEF TypeOK
  <2>4. row.state = "available" => ~Sessions!Online(c)
    BY <1>1, <2>3 DEF HandlerWrite, OpensOffline, Online, Latest, Sessions!Online,
       Sessions!LatestPresence, LatestPresence, Sessions!IsLatest, IsLatest,
       Sessions!NoRow, NoRow
  <2>5. log' = [log EXCEPT ![c] = Append(@, row)]
    BY <1>1 DEF HandlerWrite
  <2> HIDE DEF row
  <2>6. QED
    BY <2>2, <2>4, <2>5, RecordStep
<1>2. ASSUME NEW g \in Callbacks, CallbackWrite(g) PROVE Sessions!Next
  <2> DEFINE c == callback[g].contact
             row == [state |-> "unavailable", seen |-> None, at |-> callback[g].at]
  <2>1. callback[g] \in RunningCallback
    BY <1>2, Busy DEF CallbackWrite
  <2>2. row \in Row /\ c \in Contacts /\ row.state # "available"
    BY <2>1 DEF RunningCallback, Row, States
  <2>3. log' = [log EXCEPT ![c] = Append(@, row)]
    BY <1>2 DEF CallbackWrite
  <2> HIDE DEF row
  <2>4. QED
    BY <2>2, <2>3, RecordStep
<1>3. ASSUME NEW c \in Contacts, DeleteContact(c) PROVE Sessions!Next
  BY <1>3 DEF DeleteContact, Sessions!Next, Sessions!Forget
<1>4. QED
  BY <1>1, <1>2, <1>3
     DEF Next, Environment, HandlerStep, CallbackStep, OnPresence, OnChatPresence,
         OnMessage, Receive, AddContact, StopCancel, StopTimers, Tick, Expire,
         CancelInferredOffline, HandlerRead, HandlerReadFails, AfterRead,
         HandlerWriteFails, HandlerSend, ScheduleInferredOffline, CallbackUnmap,
         CallbackRead, CallbackFails, CallbackSend

\* While no database statement fails for a reason of its own, the separate reads
\* and inserts of handler and callbacks implement the atomic session log
\* (tracker.go, onPresence, onChatPresence, onMessage, scheduleInferredOffline).
THEOREM ImplementsLog == ASSUME MaxFaults = 0 PROVE Spec => ImplementsSessionLog
<1> DEFINE Inv == TypeOK /\ Dated /\ HasLatest /\ OpensOffline
<1>1. Init => Inv
  BY CoveredInvStarts DEF CoveredInv, Init, OpensOffline, Idle
<1>2. Inv /\ [Next]_vars => Inv'
  <2> SUFFICES ASSUME Inv, [Next]_vars PROVE Inv'
    OBVIOUS
  <2>1. CASE Next
    <3>1. TypeOK'
      BY <2>1, NextKeepsType
    <3>2. QED
      BY <2>1, <3>1, DatedKept, HasLatestKept, OpensOfflineKept
  <2>2. CASE UNCHANGED vars
    BY <2>2 DEF vars, TypeOK, Dated, HasLatest, OpensOffline, Online, Latest, CtxLive
  <2>3. QED
    BY <2>1, <2>2
<1>3. Init => Sessions!Init
  BY DEF Init, Sessions!Init
<1>4. Inv /\ [Next]_vars => [Sessions!Next]_log
  BY StepImplements DEF vars
<1> HIDE DEF Inv
<1>5. QED
  BY <1>1, <1>2, <1>3, <1>4, PTL DEF Spec, ImplementsSessionLog, Sessions!Spec

-----------------------------------------------------------------------------
\* The dashboard agrees with the database.

\* No time is zero, which is what a dashboard that knows nothing has.
Stamped ==
  /\ clock >= 1
  /\ handler.pc # "idle" => handler.at >= 1
  /\ \A g \in Callbacks : callback[g].pc \in {"read", "write", "send"}
                            => callback[g].at >= 1
  /\ \A c \in Contacts : \A i \in DOMAIN log[c] : log[c][i].at >= 1

\* A row of c says so.
HasRow(c, state, at) ==
  \E i \in DOMAIN log[c] : log[c][i].state = state /\ log[c][i].at = at

\* A process has stored a row of c of that time and is about to broadcast it.
InFlight(c, at) ==
  \/ handler.pc = "send" /\ handler.contact = c /\ handler.at = at
  \/ \E g \in Callbacks :
        callback[g].pc = "send" /\ callback[g].contact = c /\ callback[g].at = at

\* The tracker runs, no statement has failed and no contact was deleted.
Undisturbed == CtxLive /\ faults = 0 /\ deletes = 0

\* What is about to be broadcast is a row.
SendsRows ==
  /\ handler.pc = "send" => HasRow(handler.contact, handler.state, handler.at)
  /\ \A g \in Callbacks : callback[g].pc = "send" =>
        HasRow(callback[g].contact, "unavailable", callback[g].at)

\* What is shown of c is a row, and no row of c is later but those in flight.
ShowsRows(c) ==
  /\ shown[c].at = 0 \/ HasRow(c, shown[c].state, shown[c].at)
  /\ \A i \in DOMAIN log[c] : log[c][i].at <= shown[c].at \/ InFlight(c, log[c][i].at)

\* The inductive invariant.
DashboardInv ==
  /\ deletes = 0 => contacts = Contacts
  /\ Undisturbed => SendsRows /\ \A c \in Contacts : ShowsRows(c)

\* Every time is read off the clock, which starts at 1.
LEMMA StampedKept == ASSUME TypeOK, Dated, Stamped, Next PROVE Stamped'
<1>1. clock \in Nat /\ clock >= 1
  BY DEF TypeOK, Stamped
<1>2. clock' = clock \/ clock' = clock + 1
  BY DEF Next, Environment, HandlerStep, CallbackStep, OnPresence, OnChatPresence,
     OnMessage, Receive, DeleteContact, AddContact, StopCancel, StopTimers, Tick,
     Expire, CancelInferredOffline, HandlerRead, HandlerReadFails, AfterRead,
     HandlerWrite, HandlerWriteFails, HandlerSend, ScheduleInferredOffline,
     CallbackUnmap, CallbackRead, CallbackFails, CallbackWrite, CallbackSend
<1>3. handler'.pc # "idle" => handler'.at >= 1
  <2>1. CASE HandlerStep
    <3>1. handler \in BusyHandler
      BY <2>1, Busy DEF HandlerStep, CancelInferredOffline, HandlerRead,
         HandlerReadFails, HandlerWrite, HandlerWriteFails, HandlerSend,
         ScheduleInferredOffline
    <3>2. handler.pc # "idle"
      BY <3>1 DEF BusyHandler
    <3>3. handler' = Idle \/ handler'.at = clock \/ handler'.at = handler.at
      BY <2>1, <3>1 DEF HandlerStep, CancelInferredOffline, HandlerRead,
         HandlerReadFails, AfterRead, HandlerWrite, HandlerWriteFails, HandlerSend,
         ScheduleInferredOffline, BusyHandler
    <3> QED
      BY <1>1, <3>2, <3>3 DEF Stamped, Idle
  <2>2. CASE Environment
    <3>1. handler' = handler \/ handler'.at = clock
      BY <2>2 DEF Environment, OnPresence, OnChatPresence, OnMessage, Receive,
         DeleteContact, AddContact, StopCancel, StopTimers
    <3> QED
      BY <1>1, <3>1 DEF Stamped
  <2>3. CASE Tick \/ (\E t \in Timers : Expire(t)) \/ \E g \in Callbacks : CallbackStep(g)
    <3>1. handler' = handler
      BY <2>3 DEF Tick, Expire, CallbackStep, CallbackUnmap, CallbackRead,
         CallbackFails, CallbackWrite, CallbackSend
    <3> QED
      BY <3>1 DEF Stamped
  <2> QED
    BY <2>1, <2>2, <2>3 DEF Next
<1>4. ASSUME NEW g \in Callbacks, callback'[g].pc \in {"read", "write", "send"}
      PROVE  callback'[g].at >= 1
  <2>1. CASE callback'[g] = callback[g]
    BY <1>4, <2>1 DEF Stamped
  <2>2. ASSUME NEW h \in Callbacks, CallbackStep(h) PROVE callback'[g].at >= 1
    <3>1. callback[h] \in RunningCallback
      BY <2>2, Busy DEF CallbackStep, CallbackUnmap, CallbackRead, CallbackFails,
         CallbackWrite, CallbackSend
    <3>2. CASE g # h
      <4>1. callback'[g] = callback[g]
        BY <2>2, <3>2 DEF CallbackStep, CallbackUnmap, CallbackRead, CallbackFails,
           CallbackWrite, CallbackSend, TypeOK
      <4> QED
        BY <4>1, <2>1
    <3>3. CASE g = h
      <4>1. \/ callback'[h] = Done
            \/ callback'[h].at = clock
            \/ /\ callback[h].pc \in {"read", "write", "send"}
               /\ callback'[h].at = callback[h].at
        BY <2>2, <3>1 DEF CallbackStep, CallbackUnmap, CallbackRead, CallbackFails,
           CallbackWrite, CallbackSend, TypeOK, RunningCallback
      <4> QED
        BY <1>1, <1>4, <3>3, <4>1 DEF Stamped, Done
    <3> QED
      BY <3>2, <3>3
  <2>3. ASSUME NEW t \in Timers, Expire(t) PROVE callback'[g] = callback[g]
    <3>1. callback'[g] = callback[g] \/ callback'[g].pc = "fired"
      BY <2>3 DEF Expire, TypeOK
    <3> QED
      BY <1>4, <3>1
  <2>4. Environment \/ HandlerStep \/ Tick => callback' = callback
    BY DEF Environment, OnPresence, OnChatPresence, OnMessage, Receive,
       DeleteContact, AddContact, StopCancel, StopTimers, HandlerStep,
       CancelInferredOffline, HandlerRead, HandlerReadFails, AfterRead,
       HandlerWrite, HandlerWriteFails, HandlerSend, ScheduleInferredOffline, Tick
  <2> QED
    BY <2>1, <2>2, <2>3, <2>4 DEF Next
<1>5. ASSUME NEW c \in Contacts, NEW i \in DOMAIN log'[c] PROVE log'[c][i].at >= 1
  <2>1. log[c] \in Seq(Row)
    BY DEF TypeOK
  <2>2. CASE log'[c] = log[c] \/ log'[c] = <<>>
    BY <2>2 DEF Stamped
  <2>3. ASSUME NEW at \in Nat, at >= 1,
               \E row \in Row : row.at = at /\ log'[c] = Append(log[c], row)
        PROVE  log'[c][i].at >= 1
    <3>1. PICK row \in Row : row.at = at /\ log'[c] = Append(log[c], row)
      BY <2>3
    <3>2. log'[c][i] = row \/ (i \in DOMAIN log[c] /\ log'[c][i] = log[c][i])
      BY <2>1, <3>1
    <3> QED
      BY <2>3, <3>1, <3>2 DEF Stamped
  <2>4. CASE HandlerWrite
    <3>1. handler \in BusyHandler /\ handler.at >= 1
      BY <2>4, Busy DEF HandlerWrite, Stamped
    <3> DEFINE row == [state |-> handler.state, seen |-> handler.seen,
                       at |-> handler.at]
    <3>2. row \in Row /\ handler.at \in Nat
      BY <3>1 DEF BusyHandler, Row
    <3>3. log'[c] = log[c] \/ log'[c] = Append(log[c], row)
      BY <2>4 DEF HandlerWrite, TypeOK
    <3>4. row.at = handler.at
      OBVIOUS
    <3> HIDE DEF row
    <3> QED
      BY <2>2, <2>3, <3>1, <3>2, <3>3, <3>4
  <2>5. ASSUME NEW g \in Callbacks, CallbackWrite(g) PROVE log'[c][i].at >= 1
    <3>1. callback[g] \in RunningCallback /\ callback[g].at >= 1
      BY <2>5, Busy DEF CallbackWrite, Stamped
    <3> DEFINE row == [state |-> "unavailable", seen |-> None, at |-> callback[g].at]
    <3>2. row \in Row /\ callback[g].at \in Nat
      BY <3>1 DEF RunningCallback, Row, States
    <3>3. log'[c] = log[c] \/ log'[c] = Append(log[c], row)
      BY <2>5 DEF CallbackWrite, TypeOK
    <3>4. row.at = callback[g].at
      OBVIOUS
    <3> HIDE DEF row
    <3> QED
      BY <2>2, <2>3, <3>1, <3>2, <3>3, <3>4
  <2>6. ASSUME NEW d \in Contacts, DeleteContact(d)
        PROVE  log'[c] = log[c] \/ log'[c] = <<>>
    BY <2>6 DEF DeleteContact, TypeOK
  <2> QED
    BY <2>2, <2>4, <2>5, <2>6
       DEF Next, Environment, HandlerStep, CallbackStep, OnPresence, OnChatPresence,
           OnMessage, Receive, AddContact, StopCancel, StopTimers, Tick, Expire,
           CancelInferredOffline, HandlerRead, HandlerReadFails, AfterRead,
           HandlerWriteFails, HandlerSend, ScheduleInferredOffline, CallbackUnmap,
           CallbackRead, CallbackFails, CallbackSend
<1> QED
  BY <1>1, <1>2, <1>3, <1>4, <1>5 DEF Stamped

\* A deletion is counted, and counts for good.
LEMMA UndisturbedBefore ==
  ASSUME TypeOK, Next, Undisturbed' PROVE Undisturbed /\ deletes' = deletes
<1>1. deletes' = deletes \/ deletes' = deletes + 1
  BY DEF Next, Environment, HandlerStep, CallbackStep, OnPresence, OnChatPresence,
     OnMessage, Receive, DeleteContact, AddContact, StopCancel, StopTimers, Tick,
     Expire, CancelInferredOffline, HandlerRead, HandlerReadFails, AfterRead,
     HandlerWrite, HandlerWriteFails, HandlerSend, ScheduleInferredOffline,
     CallbackUnmap, CallbackRead, CallbackFails, CallbackWrite, CallbackSend
<1>2. deletes \in Nat
  BY BoundsAssumption DEF TypeOK
<1> QED
  BY <1>1, <1>2, FaultsGrow DEF Undisturbed

\* Without a deletion every contact is there.
LEMMA AllContactsThere ==
  ASSUME TypeOK, DashboardInv, Next, deletes' = 0 PROVE contacts' = Contacts
<1>1. ASSUME NEW d \in Contacts, DeleteContact(d) PROVE FALSE
  <2>1. deletes \in Nat
    BY BoundsAssumption DEF TypeOK
  <2> QED
    BY <1>1, <2>1 DEF DeleteContact
<1>2. \/ deletes' = deletes /\ contacts' = contacts
      \/ \E c \in Contacts : AddContact(c) /\ deletes' = deletes
  BY <1>1 DEF Next, Environment, HandlerStep, CallbackStep, OnPresence, OnChatPresence,
     OnMessage, Receive, AddContact, StopCancel, StopTimers, Tick,
     Expire, CancelInferredOffline, HandlerRead, HandlerReadFails, AfterRead,
     HandlerWrite, HandlerWriteFails, HandlerSend, ScheduleInferredOffline,
     CallbackUnmap, CallbackRead, CallbackFails, CallbackWrite, CallbackSend
<1> QED
  BY <1>2 DEF DashboardInv, AddContact

\* A step that stores and broadcasts nothing changes nothing of it.
LEMMA NothingSent ==
  ASSUME SendsRows, \A c \in Contacts : ShowsRows(c),
         UNCHANGED <<log, shown>>,
         handler' = handler \/ (handler.pc # "send" /\ handler'.pc # "send"),
         \A g \in Callbacks : \/ callback'[g] = callback[g]
                              \/ callback[g].pc # "send" /\ callback'[g].pc # "send"
  PROVE  SendsRows' /\ \A c \in Contacts : ShowsRows(c)'
<1>1. SendsRows'
  BY DEF SendsRows, HasRow
<1>2. ASSUME NEW c \in Contacts PROVE ShowsRows(c)'
  <2>1. ASSUME NEW at, InFlight(c, at) PROVE InFlight(c, at)'
    BY <2>1 DEF InFlight
  <2> QED
    BY <2>1 DEF ShowsRows, HasRow
<1> QED
  BY <1>1, <1>2

\* A process stores a row and holds it from then on.
LEMMA RowStored ==
  ASSUME TypeOK, SendsRows, \A c \in Contacts : ShowsRows(c), UNCHANGED shown,
         NEW d \in Contacts, NEW row \in Row, log' = [log EXCEPT ![d] = Append(@, row)],
         \A c \in Contacts, at \in Nat : InFlight(c, at) => InFlight(c, at)',
         InFlight(d, row.at)'
  PROVE  /\ \A c \in Contacts, state \in States, at \in Nat :
                HasRow(c, state, at) => HasRow(c, state, at)'
         /\ HasRow(d, row.state, row.at)'
         /\ \A c \in Contacts : ShowsRows(c)'
<1>1. ASSUME NEW c \in Contacts
      PROVE  /\ log[c] \in Seq(Row)
             /\ c = d => log'[c] = Append(log[c], row)
             /\ c # d => log'[c] = log[c]
  BY DEF TypeOK
<1>2. ASSUME NEW c \in Contacts, NEW state, NEW at, HasRow(c, state, at)
      PROVE  HasRow(c, state, at)'
  <2>1. PICK i \in DOMAIN log[c] : log[c][i].state = state /\ log[c][i].at = at
    BY <1>2 DEF HasRow
  <2>2. i \in DOMAIN log'[c] /\ log'[c][i] = log[c][i]
    BY <1>1
  <2> QED
    BY <2>1, <2>2 DEF HasRow
<1>3. HasRow(d, row.state, row.at)'
  <2>1. Len(log[d]) + 1 \in DOMAIN log'[d] /\ log'[d][Len(log[d]) + 1] = row
    BY <1>1
  <2> QED
    BY <2>1 DEF HasRow
<1>4. ASSUME NEW c \in Contacts PROVE ShowsRows(c)'
  <2>1. (shown[c].at = 0 \/ HasRow(c, shown[c].state, shown[c].at))'
    <3>1. PICK state, at : state = shown[c].state /\ at = shown[c].at
      OBVIOUS
    <3>2. at = 0 \/ HasRow(c, state, at)'
      BY <1>2, <3>1 DEF ShowsRows
    <3> QED
      BY <3>1, <3>2 DEF HasRow
  <2>2. ASSUME NEW i \in DOMAIN log'[c]
        PROVE  (log[c][i].at <= shown[c].at \/ InFlight(c, log[c][i].at))'
    <3>1. \/ i \in DOMAIN log[c] /\ log'[c][i] = log[c][i]
          \/ c = d /\ log'[c][i] = row
      BY <1>1
    <3>2. CASE c = d /\ log'[c][i] = row
      BY <3>2 DEF InFlight
    <3>3. CASE i \in DOMAIN log[c] /\ log'[c][i] = log[c][i]
      <4>1. PICK at \in Nat : at = log[c][i].at
        <5>1. log[c][i] \in Row
          BY <1>1, <3>3
        <5> QED
          BY <5>1 DEF Row
      <4>2. at <= shown[c].at \/ InFlight(c, at)'
        BY <3>3, <4>1 DEF ShowsRows
      <4> QED
        BY <3>3, <4>1, <4>2 DEF InFlight
    <3> QED
      BY <3>1, <3>2, <3>3
  <2> QED
    BY <2>1, <2>2 DEF ShowsRows
<1> QED
  BY <1>2, <1>3, <1>4

\* A broadcast of a row: the store keeps the later one.
LEMMA RowBroadcast ==
  ASSUME TypeOK, \A c \in Contacts : ShowsRows(c), UNCHANGED log,
         NEW d \in Contacts, NEW state \in States, NEW t \in Nat, HasRow(d, state, t),
         Broadcast(d, state, t),
         \A c \in Contacts, at \in Nat :
            InFlight(c, at) => InFlight(c, at)' \/ (c = d /\ at = t)
  PROVE  \A c \in Contacts : ShowsRows(c)'
<1> SUFFICES ASSUME NEW c \in Contacts PROVE ShowsRows(c)'
  OBVIOUS
<1>1. /\ shown[c].at \in Nat /\ shown'[c].at \in Nat
      /\ shown[c].at <= shown'[c].at
      /\ c = d => t <= shown'[c].at
      /\ \/ shown'[c] = shown[c]
         \/ c = d /\ shown'[c].state = state /\ shown'[c].at = t
  BY DEF TypeOK, Broadcast
<1>2. (shown[c].at = 0 \/ HasRow(c, shown[c].state, shown[c].at))'
  <2>1. CASE shown'[c] = shown[c]
    BY <2>1 DEF ShowsRows, HasRow
  <2>2. CASE c = d /\ shown'[c].state = state /\ shown'[c].at = t
    BY <2>2 DEF HasRow
  <2> QED
    BY <1>1, <2>1, <2>2
<1>3. ASSUME NEW i \in DOMAIN log'[c]
      PROVE  (log[c][i].at <= shown[c].at \/ InFlight(c, log[c][i].at))'
  <2>1. log[c] \in Seq(Row) /\ i \in DOMAIN log[c] /\ log'[c][i] = log[c][i]
    BY DEF TypeOK
  <2>2. PICK at \in Nat : at = log[c][i].at
    <3>1. log[c][i] \in Row
      BY <2>1
    <3> QED
      BY <3>1 DEF Row
  <2>3. at <= shown[c].at \/ InFlight(c, at)
    BY <2>1, <2>2 DEF ShowsRows
  <2>4. at <= shown'[c].at \/ InFlight(c, at)'
    BY <1>1, <2>2, <2>3
  <2> QED
    BY <2>1, <2>2, <2>4 DEF InFlight
<1> QED
  BY <1>2, <1>3 DEF ShowsRows

\* One step per kind of process: who stores a row is the one who broadcasts it,
\* and until then nobody forgets it.
LEMMA DashboardKept ==
  ASSUME TypeOK, DashboardInv, Next PROVE DashboardInv'
<1> SUFFICES ASSUME Undisturbed' PROVE SendsRows' /\ \A c \in Contacts : ShowsRows(c)'
  BY AllContactsThere DEF DashboardInv
<1>1. Undisturbed /\ contacts = Contacts /\ SendsRows /\ \A c \in Contacts : ShowsRows(c)
  BY UndisturbedBefore DEF DashboardInv, Undisturbed
<1>2. faults' = 0 /\ faults = 0 /\ deletes' = 0 /\ deletes = 0 /\ ctx = "live"
  BY <1>1 DEF Undisturbed, CtxLive
<1>3. CASE HandlerWrite
  <2>1. handler \in BusyHandler
    BY <1>3, Busy DEF HandlerWrite
  <2> DEFINE d == handler.contact
             row == [state |-> handler.state, seen |-> handler.seen,
                     at |-> handler.at]
  <2>2. /\ d \in Contacts /\ row \in Row /\ handler.state \in States
        /\ row.state = handler.state /\ row.at = handler.at
    BY <2>1 DEF BusyHandler, Row
  <2>3. /\ log' = [log EXCEPT ![d] = Append(@, row)]
        /\ handler' = [handler EXCEPT !.pc = "send"]
        /\ handler.pc = "write"
        /\ UNCHANGED <<shown, callback>>
    BY <1>3 DEF HandlerWrite
  <2>4. PICK e \in Contacts, r \in Row : e = d /\ r = row
    BY <2>2
  <2>5. /\ handler'.pc = "send" /\ handler'.contact = e
        /\ handler'.state = r.state /\ handler'.at = r.at
        /\ log' = [log EXCEPT ![e] = Append(@, r)]
    BY <2>1, <2>2, <2>3, <2>4 DEF BusyHandler
  <2> HIDE DEF d, row
  <2>6. \A c \in Contacts, at \in Nat : InFlight(c, at) => InFlight(c, at)'
    BY <2>3 DEF InFlight
  <2>7. InFlight(e, r.at)'
    BY <2>5 DEF InFlight
  <2>8. /\ \A c \in Contacts, state \in States, at \in Nat :
              HasRow(c, state, at) => HasRow(c, state, at)'
        /\ HasRow(e, r.state, r.at)'
        /\ \A c \in Contacts : ShowsRows(c)'
    BY <1>1, <2>3, <2>5, <2>6, <2>7, RowStored
  <2>9. SendsRows'
    <3>1. ASSUME NEW g \in Callbacks, callback[g].pc = "send"
          PROVE  HasRow(callback[g].contact, "unavailable", callback[g].at)'
      <4>1. callback[g] \in RunningCallback
        BY <3>1, Busy
      <4>2. PICK c \in Contacts, at \in Nat : c = callback[g].contact /\ at = callback[g].at
        BY <4>1 DEF RunningCallback
      <4>3. HasRow(c, "unavailable", at)'
        BY <1>1, <2>8, <3>1, <4>2 DEF SendsRows, States
      <4> QED
        BY <2>3, <4>2, <4>3 DEF HasRow
    <3>2. HasRow(handler.contact, handler.state, handler.at)'
      BY <2>5, <2>8 DEF HasRow
    <3> QED
      BY <2>3, <3>1, <3>2 DEF SendsRows
  <2> QED
    BY <2>8, <2>9
<1>4. ASSUME NEW g \in Callbacks, CallbackWrite(g)
      PROVE  SendsRows' /\ \A c \in Contacts : ShowsRows(c)'
  <2>1. callback[g] \in RunningCallback
    BY <1>4, Busy DEF CallbackWrite
  <2> DEFINE d == callback[g].contact
             row == [state |-> "unavailable", seen |-> None, at |-> callback[g].at]
  <2>2. /\ d \in Contacts /\ row \in Row
        /\ row.state = "unavailable" /\ row.at = callback[g].at
    BY <2>1 DEF RunningCallback, Row, States
  <2>3. /\ log' = [log EXCEPT ![d] = Append(@, row)]
        /\ callback' = [callback EXCEPT ![g].pc = "send"]
        /\ callback[g].pc = "write"
        /\ UNCHANGED <<shown, handler>>
    BY <1>4 DEF CallbackWrite
  <2>4. PICK e \in Contacts, r \in Row : e = d /\ r = row
    BY <2>2
  <2>5. /\ callback'[g].pc = "send" /\ callback'[g].contact = e
        /\ callback'[g].at = r.at /\ r.state = "unavailable"
        /\ log' = [log EXCEPT ![e] = Append(@, r)]
        /\ \A h \in Callbacks \ {g} : callback'[h] = callback[h]
    BY <2>1, <2>2, <2>3, <2>4 DEF RunningCallback, TypeOK
  <2> HIDE DEF d, row
  <2>6. \A c \in Contacts, at \in Nat : InFlight(c, at) => InFlight(c, at)'
    BY <2>3, <2>5 DEF InFlight
  <2>7. InFlight(e, r.at)'
    BY <2>5 DEF InFlight
  <2>8. /\ \A c \in Contacts, state \in States, at \in Nat :
              HasRow(c, state, at) => HasRow(c, state, at)'
        /\ HasRow(e, r.state, r.at)'
        /\ \A c \in Contacts : ShowsRows(c)'
    BY <1>1, <2>3, <2>5, <2>6, <2>7, RowStored
  <2>9. SendsRows'
    <3>1. ASSUME NEW h \in Callbacks, callback'[h].pc = "send"
          PROVE  HasRow(callback[h].contact, "unavailable", callback[h].at)'
      <4>1. CASE h = g
        BY <2>5, <2>8, <4>1 DEF HasRow
      <4>2. CASE h # g
        <5>1. callback[h] \in RunningCallback /\ callback'[h] = callback[h]
          BY <2>5, <3>1, <4>2, Busy
        <5>2. PICK c \in Contacts, at \in Nat :
                 c = callback[h].contact /\ at = callback[h].at
          BY <5>1 DEF RunningCallback
        <5>3. HasRow(c, "unavailable", at)'
          BY <1>1, <2>8, <3>1, <5>1, <5>2 DEF SendsRows, States
        <5> QED
          BY <5>1, <5>2, <5>3 DEF HasRow
      <4> QED
        BY <4>1, <4>2
    <3>2. ASSUME handler.pc = "send"
          PROVE  HasRow(handler.contact, handler.state, handler.at)'
      <4>1. handler \in BusyHandler
        BY <3>2, Busy
      <4>2. PICK c \in Contacts, state \in States, at \in Nat :
               c = handler.contact /\ state = handler.state /\ at = handler.at
        BY <4>1 DEF BusyHandler
      <4>3. HasRow(c, state, at)'
        BY <1>1, <2>8, <3>2, <4>2 DEF SendsRows
      <4> QED
        BY <2>3, <4>2, <4>3 DEF HasRow
    <3> QED
      BY <2>3, <3>1, <3>2 DEF SendsRows
  <2> QED
    BY <2>8, <2>9
<1>5. CASE HandlerSend
  <2>1. handler \in BusyHandler
    BY <1>5, Busy DEF HandlerSend
  <2>2. /\ handler.pc = "send" /\ handler'.pc # "send"
        /\ Broadcast(handler.contact, handler.state, handler.at)
        /\ UNCHANGED <<log, callback>>
    BY <1>5, <2>1 DEF HandlerSend, Idle, BusyHandler
  <2>3. PICK d \in Contacts, state \in States, t \in Nat :
           d = handler.contact /\ state = handler.state /\ t = handler.at
    BY <2>1 DEF BusyHandler
  <2>4. HasRow(d, state, t) /\ Broadcast(d, state, t)
    BY <1>1, <2>2, <2>3 DEF SendsRows
  <2>5. \A c \in Contacts, at \in Nat :
            InFlight(c, at) => InFlight(c, at)' \/ (c = d /\ at = t)
    BY <2>2, <2>3 DEF InFlight
  <2>6. \A c \in Contacts : ShowsRows(c)'
    BY <1>1, <2>2, <2>4, <2>5, RowBroadcast
  <2> QED
    BY <1>1, <2>2, <2>6 DEF SendsRows, HasRow
<1>6. ASSUME NEW g \in Callbacks, CallbackSend(g)
      PROVE  SendsRows' /\ \A c \in Contacts : ShowsRows(c)'
  <2>1. callback[g] \in RunningCallback
    BY <1>6, Busy DEF CallbackSend
  <2>2. /\ callback[g].pc = "send" /\ callback'[g].pc # "send"
        /\ \A h \in Callbacks \ {g} : callback'[h] = callback[h]
        /\ Broadcast(callback[g].contact, "unavailable", callback[g].at)
        /\ UNCHANGED <<log, handler>>
    BY <1>6 DEF CallbackSend, Done, TypeOK
  <2>3. PICK d \in Contacts, state \in States, t \in Nat :
           d = callback[g].contact /\ state = "unavailable" /\ t = callback[g].at
    BY <2>1 DEF RunningCallback, States
  <2>4. HasRow(d, state, t) /\ Broadcast(d, state, t)
    BY <1>1, <2>2, <2>3 DEF SendsRows
  <2>5. \A c \in Contacts, at \in Nat :
            InFlight(c, at) => InFlight(c, at)' \/ (c = d /\ at = t)
    BY <2>2, <2>3 DEF InFlight
  <2>6. \A c \in Contacts : ShowsRows(c)'
    BY <1>1, <2>2, <2>4, <2>5, RowBroadcast
  <2> QED
    BY <1>1, <2>2, <2>6 DEF SendsRows, HasRow
<1>7. CASE /\ UNCHANGED <<log, shown>>
           /\ handler' = handler \/ (handler.pc # "send" /\ handler'.pc # "send")
           /\ \A g \in Callbacks : \/ callback'[g] = callback[g]
                                   \/ callback[g].pc # "send" /\ callback'[g].pc # "send"
  BY <1>1, <1>7, NothingSent
<1>8. CASE CancelInferredOffline \/ HandlerRead \/ HandlerReadFails
           \/ ScheduleInferredOffline
  <2>1. handler \in BusyHandler
    BY <1>8, Busy DEF CancelInferredOffline, HandlerRead, HandlerReadFails,
       ScheduleInferredOffline
  <2>2. UNCHANGED <<log, shown, callback>> /\ handler.pc # "send"
    BY <1>8 DEF CancelInferredOffline, HandlerRead, HandlerReadFails,
       AfterRead, ScheduleInferredOffline
  <2>3. handler'.pc # "send"
    <3>1. CASE CancelInferredOffline
      BY <2>1, <3>1 DEF CancelInferredOffline, BusyHandler
    <3>2. CASE HandlerRead \/ HandlerReadFails
      BY <2>1, <3>2 DEF HandlerRead, HandlerReadFails, AfterRead, Idle, BusyHandler
    <3>3. CASE ScheduleInferredOffline
      BY <3>3 DEF ScheduleInferredOffline, Idle
    <3> QED
      BY <1>8, <3>1, <3>2, <3>3
  <2> QED
    BY <1>7, <2>2, <2>3
<1>9. ~HandlerWriteFails
  <2> SUFFICES ASSUME HandlerWriteFails PROVE FALSE
    OBVIOUS
  <2>1. handler.contact \in contacts
    BY <1>1, Busy DEF HandlerWriteFails, BusyHandler
  <2> QED
    BY <1>2, <2>1 DEF HandlerWriteFails, DbFault, CtxLive
<1>10. ASSUME NEW g \in Callbacks, CallbackUnmap(g) \/ CallbackRead(g) \/ CallbackFails(g)
       PROVE  SendsRows' /\ \A c \in Contacts : ShowsRows(c)'
  <2>1. callback[g] \in RunningCallback
    BY <1>10, Busy DEF CallbackUnmap, CallbackRead, CallbackFails
  <2>2. /\ UNCHANGED <<log, shown, handler>>
        /\ callback[g].pc # "send" /\ callback'[g].pc # "send"
        /\ \A h \in Callbacks \ {g} : callback'[h] = callback[h]
    BY <1>10, <2>1 DEF CallbackUnmap, CallbackRead, CallbackFails, Done, TypeOK,
       RunningCallback
  <2> QED
    BY <1>7, <2>2
<1>11. ASSUME NEW t \in Timers, Expire(t)
       PROVE  SendsRows' /\ \A c \in Contacts : ShowsRows(c)'
  <2>1. /\ UNCHANGED <<log, shown, handler>>
        /\ \A g \in Callbacks : \/ callback'[g] = callback[g]
                                \/ callback[g].pc # "send" /\ callback'[g].pc # "send"
    BY <1>11 DEF Expire, Done, TypeOK
  <2> QED
    BY <1>7, <2>1
<1>12. CASE Environment \/ Tick
  <2>1. ASSUME NEW c \in Contacts PROVE ~DeleteContact(c)
    BY <1>2 DEF DeleteContact
  <2>2. /\ UNCHANGED <<log, shown, callback>>
        /\ handler' = handler \/ (handler.pc # "send" /\ handler'.pc # "send")
    BY <1>12, <2>1 DEF Environment, Tick, OnPresence, OnChatPresence, OnMessage,
       Receive, AddContact, StopCancel, StopTimers
  <2> QED
    BY <1>7, <2>2
<1> QED
  BY <1>3, <1>4, <1>5, <1>6, <1>8, <1>9, <1>10, <1>11, <1>12
     DEF Next, HandlerStep, CallbackStep

\* With nothing in flight the time shown is the latest one, and the row shown the
\* latest row.
LEMMA DashboardAgreement ==
  ASSUME CoveredInv, Stamped, DashboardInv PROVE DashboardAgrees
<1> SUFFICES ASSUME Undisturbed, NEW c \in Contacts, Quiet(c), log[c] # <<>>,
                    DistinctSeconds(c)
             PROVE  shown[c] = [state |-> Latest(c).state, at |-> Latest(c).at]
  BY DEF DashboardAgrees, Undisturbed
<1>1. log[c] \in Seq(Row) /\ shown[c] \in [state : States \cup {"none"}, at : Nat]
  BY DEF CoveredInv, TypeOK
<1>2. PICK k \in DOMAIN log[c] : IsLatest(log[c], k)
  BY DEF CoveredInv, HasLatest
<1>3. Latest(c) = log[c][k]
  BY <1>1, <1>2, LatestIs DEF Latest
<1>4. \A i \in DOMAIN log[c] : log[c][i].at \in Nat /\ log[c][i].at >= 1
  <2>1. \A i \in DOMAIN log[c] : log[c][i] \in Row
    BY <1>1
  <2> QED
    BY <2>1 DEF Stamped, Row
<1>5. \A i \in DOMAIN log[c] : log[c][i].at <= shown[c].at
  BY DEF DashboardInv, ShowsRows, InFlight, Quiet
<1>6. shown[c].at # 0
  BY <1>1, <1>2, <1>4, <1>5
<1>7. PICK i \in DOMAIN log[c] : log[c][i].state = shown[c].state /\ log[c][i].at = shown[c].at
  BY <1>6 DEF DashboardInv, ShowsRows, HasRow
<1>8. log[c][i].at = log[c][k].at
  BY <1>1, <1>2, <1>4, <1>5, <1>7 DEF IsLatest
<1>9. i = k
  BY <1>2, <1>8 DEF DistinctSeconds
<1> QED
  BY <1>1, <1>3, <1>7, <1>9

\* Once no process has anything of a contact in hand, what a dashboard last heard
\* is the contact's latest row, in whatever order handler and callbacks stored and
\* broadcast - unless two rows fall into one second (hub.Broadcast after
\* InsertPresence; setLastPresence in store.ts).
THEOREM DashboardsAgree == Spec => []DashboardAgrees
<1>1. Init => Stamped /\ DashboardInv
  BY DEF Init, Stamped, DashboardInv, Undisturbed, SendsRows, ShowsRows, HasRow, Idle, Done
<1>2. CoveredInv /\ Stamped /\ DashboardInv /\ [Next]_vars => Stamped' /\ DashboardInv'
  <2> SUFFICES ASSUME CoveredInv, Stamped, DashboardInv, [Next]_vars
               PROVE  Stamped' /\ DashboardInv'
    OBVIOUS
  <2>1. CASE Next
    BY <2>1, StampedKept, DashboardKept DEF CoveredInv
  <2>2. CASE UNCHANGED vars
    BY <2>2 DEF vars, Stamped, DashboardInv, Undisturbed, CtxLive, SendsRows,
       ShowsRows, HasRow, InFlight
  <2> QED
    BY <2>1, <2>2
<1>3. CoveredInv /\ Stamped /\ DashboardInv => DashboardAgrees
  BY DashboardAgreement
<1> QED
  BY <1>1, <1>2, <1>3, CoveredInvStarts, CoveredInvKept, PTL DEF Spec

-----------------------------------------------------------------------------
\* The connection.

LEMMA AlwaysIsSchedule == Always \in Schedule /\ NoRequest.schedule \in Schedule
  BY DEF Always, NoRequest, Schedule

LEMMA MinuteAfter ==
  ASSUME NEW m \in Minutes PROVE (m + 1) % Day \in Minutes
  BY DayAssumption DEF Minutes

LEMMA AtStartIsPlace ==
  AtStart \in [Callers -> Places]
  BY DEF AtStart, Places

LEMMA LinkTypeKept == LinkTypeOK /\ [LinkNext]_linkVars => LinkTypeOK'
<1> SUFFICES ASSUME LinkTypeOK, [LinkNext]_linkVars PROVE LinkTypeOK'
  OBVIOUS
<1> USE LimitsAssumption DEF LinkTypeOK, Places, Request
<1>1. ASSUME NEW r \in Requests, PutStore(r) PROVE LinkTypeOK'
  <2>1. PICK s \in Schedules :
          /\ stored' = s
          /\ request' = [request EXCEPT ![r] = [pc |-> "apply", schedule |-> s]]
    BY <1>1 DEF PutStore
  <2>2. s \in Schedule
    BY SchedulesAssumption
  <2>3. request' \in [Requests -> Request]
    BY <2>1, <2>2
  <2>4. QED
    BY <1>1, <2>1, <2>2, <2>3 DEF PutStore
<1>2. ASSUME NEW r \in Requests, PutApply(r) PROVE LinkTypeOK'
  <2>1. request[r].schedule \in Schedule
    OBVIOUS
  <2>2. request' \in [Requests -> Request]
    BY <1>2, AlwaysIsSchedule DEF PutApply, NoRequest
  <2>3. QED
    BY <1>2, <2>1, <2>2 DEF PutApply
<1>3. ASSUME NEW p \in Callers, CallerStep(p) PROVE LinkTypeOK'
  <2>1. CASE ConnectCheck(p)
    BY <2>1 DEF ConnectCheck, Return
  <2>2. CASE Dial(p)
    BY <2>2 DEF Dial, Return
  <2>3. CASE DialFails(p)
    BY <2>3 DEF DialFails, Return
  <2>4. CASE SoftDisconnect(p)
    BY <2>4 DEF SoftDisconnect
  <2>5. CASE HangUp(p)
    BY <2>5 DEF HangUp
  <2>6. QED
    BY <1>3, <2>1, <2>2, <2>3, <2>4, <2>5 DEF CallerStep
<1>4. CASE ScheduleTick
  <2>1. Allows(memory, minute) \in BOOLEAN
    BY DEF Allows
  <2>2. QED
    BY <1>4, <2>1 DEF ScheduleTick
<1>5. CASE ScheduleDecide
  BY <1>5 DEF ScheduleDecide
<1>6. CASE RefreshTimer \/ RefreshResume
  BY <1>6 DEF RefreshTimer, RefreshResume
<1>7. CASE OnConnected \/ OnLoggedOut
  <2>1. CASE OnConnected
    BY <2>1 DEF OnConnected
  <2>2. CASE OnLoggedOut
    BY <2>2 DEF OnLoggedOut
  <2>3. QED
    BY <1>7, <2>1, <2>2
<1>8. CASE Drop \/ Redial
  <2>1. redial' \in BOOLEAN /\ connected' \in BOOLEAN
    BY <1>8, Zenon DEF Drop, Redial
  <2>2. CASE Drop
    BY <2>1, <2>2 DEF Drop
  <2>3. CASE Redial
    BY <2>1, <2>3 DEF Redial
  <2>4. QED
    BY <1>8, <2>2, <2>3
<1>9. CASE MinutePasses
  BY <1>9, MinuteAfter DEF MinutePasses
<1>10. CASE Restart
  <2>1. request' \in [Requests -> Request]
    BY <1>10, AlwaysIsSchedule DEF Restart, NoRequest
  <2>2. /\ autoReconnect' \in BOOLEAN /\ redial' \in BOOLEAN /\ linked' \in BOOLEAN
        /\ connected' \in BOOLEAN /\ running' \in BOOLEAN /\ want' \in BOOLEAN
    BY <1>10, Zenon DEF Restart
  <2>3. /\ memory' \in Schedule /\ link' \in {"down", "up"}
        /\ pc' \in [Callers -> Places]
    BY <1>10, AlwaysIsSchedule, AtStartIsPlace, Zenon DEF Restart
  <2>4. restarts' \in 0 .. MaxRestarts
    BY <1>10 DEF Restart
  <2>5. QED
    BY <1>10, <2>1, <2>2, <2>3, <2>4 DEF Restart
<1>11. CASE UNCHANGED linkVars
  BY <1>11 DEF linkVars
<1>12. QED
  BY <1>1, <1>2, <1>3, <1>4, <1>5, <1>6, <1>7, <1>8, <1>9, <1>10, <1>11
     DEF LinkNext, ScheduleLoop, Callers

\* The tracker always holds a schedule some user set or the one it starts with,
\* and every caller is somewhere in its code (tracker.go, client.go).
THEOREM ConnectionTypeCorrect == LinkSpec => []LinkTypeOK
<1>1. ASSUME LinkInit PROVE LinkTypeOK
  <2>1. request \in [Requests -> Request]
    BY <1>1, AlwaysIsSchedule DEF LinkInit, NoRequest, Request
  <2>2. /\ autoReconnect \in BOOLEAN /\ redial \in BOOLEAN /\ linked \in BOOLEAN
        /\ connected \in BOOLEAN /\ running \in BOOLEAN /\ want \in BOOLEAN
    BY <1>1, Zenon DEF LinkInit
  <2>3. /\ stored \in Schedule /\ memory \in Schedule /\ link \in {"down", "up"}
        /\ pc \in [Callers -> Places]
    BY <1>1, AlwaysIsSchedule, AtStartIsPlace, Zenon DEF LinkInit
  <2>4. /\ minute \in Minutes /\ failures \in 0 .. MaxFailures
        /\ drops \in 0 .. MaxDrops /\ refreshes \in 0 .. MaxRefreshes
        /\ restarts \in 0 .. MaxRestarts /\ puts \in 0 .. MaxPuts
    BY <1>1, LimitsAssumption, DayAssumption DEF LinkInit, Minutes
  <2>5. QED
    BY <2>1, <2>2, <2>3, <2>4 DEF LinkTypeOK
<1>2. QED
  BY <1>1, LinkTypeKept, PTL DEF LinkSpec

\* slotContains tests the window that starts at start and ends before end.
LEMMA SlotIsWindow ==
  ASSUME NEW start \in Minutes, NEW end \in Minutes, NEW m \in Minutes
  PROVE  SlotContains(start, end, m) <=> Since(start, m) < Length(start, end)
  BY DayAssumption DEF Minutes, SlotContains, Since, Length

\* Whatever the schedule, a slot is open from its start for as long as it lasts,
\* over midnight or not (tracker.go, slotContains).
THEOREM SlotsOpenAsWindows == LinkSpec => []SlotsAreWindows
<1>1. LinkTypeOK => SlotsAreWindows
  <2> SUFFICES ASSUME LinkTypeOK, NEW slot \in stored.slots
               PROVE  SlotContains(slot[1], slot[2], minute)
                        <=> Since(slot[1], minute) < Length(slot[1], slot[2])
    BY DEF SlotsAreWindows
  <2>1. slot \in Minutes \X Minutes /\ minute \in Minutes
    BY DEF LinkTypeOK, Schedule
  <2>2. slot[1] \in Minutes /\ slot[2] \in Minutes
    BY <2>1
  <2>3. QED
    BY <2>1, <2>2, SlotIsWindow
<1>2. QED
  BY <1>1, ConnectionTypeCorrect, PTL

\* The connection is down and nobody is on the way to raise it: the library does
\* not redial, no caller is in Connect or in the pause before it, and the
\* schedule loop has not decided to connect.
Resting ==
  /\ link = "down" /\ ~redial
  /\ pc["main"] = "off"
  /\ pc["refresh"] \in {"off", "wait"}
  /\ pc["schedule"] \notin {"connect", "dial"}
  /\ pc["schedule"] = "decide" => ~want

\* While an account is forced offline nothing starts what would raise its
\* connection: once it is down with nobody on the way, it stays so, whatever the
\* timers, the events, the users and the clock do (tracker.go, applyScheduleNow,
\* runPresenceRefreshLoop).
ForcedRests == [][Resting /\ Forced /\ Forced' => Resting']_linkVars

LEMMA RestingKept ==
  ASSUME LinkTypeOK, [LinkNext]_linkVars, Resting, Forced, Forced' PROVE Resting'
<1> USE DEF Resting
<1>1. pc \in [Callers -> Places] /\ Callers = {"main", "schedule", "refresh"}
  BY DEF LinkTypeOK, Callers
<1>2. ASSUME NEW r \in Requests, PutStore(r) \/ PutApply(r) PROVE Resting'
  BY <1>2 DEF PutStore, PutApply
<1>3. ASSUME NEW p \in Callers, CallerStep(p) PROVE Resting'
  <2>1. pc[p] \in {"disconnect", "hangup"} /\ p = "schedule"
    BY <1>1, <1>3
       DEF CallerStep, ConnectCheck, Dial, DialFails, SoftDisconnect, HangUp
  <2>2. SoftDisconnect(p) \/ HangUp(p)
    BY <1>3, <2>1 DEF CallerStep, ConnectCheck, Dial, DialFails
  <2>3. QED
    BY <1>1, <2>1, <2>2 DEF SoftDisconnect, HangUp
<1>4. CASE ScheduleTick
  <2>1. ~Allows(memory, minute)
    BY DEF Allows, Forced
  <2>2. QED
    BY <1>1, <1>4, <2>1 DEF ScheduleTick
<1>5. CASE ScheduleDecide
  BY <1>1, <1>5 DEF ScheduleDecide
<1>6. CASE RefreshTimer \/ RefreshResume
  BY <1>6 DEF RefreshTimer, RefreshResume
<1>7. CASE OnConnected
  BY <1>1, <1>7 DEF OnConnected
<1>8. CASE OnLoggedOut \/ Drop \/ Redial
  BY <1>8 DEF OnLoggedOut, Drop, Redial
<1>9. CASE MinutePasses
  BY <1>9 DEF MinutePasses
<1>10. CASE Restart
  BY <1>10 DEF Restart, Always, Forced
<1>11. CASE UNCHANGED linkVars
  BY <1>11 DEF linkVars
<1>12. QED
  BY <1>2, <1>3, <1>4, <1>5, <1>6, <1>7, <1>8, <1>9, <1>10, <1>11
     DEF LinkNext, ScheduleLoop, Callers

\* For any schedules and any number of requests, a connection at rest of a forced
\* account is not raised (tracker.go, applyScheduleNow, runPresenceRefreshLoop):
\* that it comes to rest in the end is the liveness half of ForcedGoesOffline.
THEOREM ForcedStaysDown == LinkSpec => ForcedRests
<1>1. LinkTypeOK /\ [LinkNext]_linkVars => [Resting /\ Forced /\ Forced' => Resting']_linkVars
  BY RestingKept
<1>2. QED
  BY <1>1, ConnectionTypeCorrect, PTL DEF LinkSpec, ForcedRests
==============================================================================
