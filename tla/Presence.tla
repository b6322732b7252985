------------------------------- MODULE Presence -------------------------------
(***************************************************************************)
(* The presence path of one account's Tracker (internal/tracker).          *)
(*                                                                         *)
(* Three kinds of process write the presence log of a contact:             *)
(*   - the event handler: whatsmeow dispatches the events of one client    *)
(*     one after the other, so there is one handler at a time;             *)
(*   - the callbacks of the inferred-offline timers, each a goroutine of   *)
(*     its own that time.AfterFunc starts when its timer expires;          *)
(*   - Stop, which cancels the tracker's context and clears the timer map. *)
(* The HTTP API deletes and adds contacts under all of them.               *)
(*                                                                         *)
(* What is held under inferredMu is one action, one database statement is  *)
(* one action (SQLite runs on one connection), one hub broadcast is one    *)
(* action; between two of them any other process may step.                 *)
(***************************************************************************)
EXTENDS PresenceRows

CONSTANTS Contacts,    \* contact row ids
          Timers,      \* identities of time.Timer objects
          Callbacks,   \* goroutines that can run timer callbacks at once
          Timeout,     \* inferredOfflineTimeout, in clock units
          MaxEvents,   \* bound: events received
          MaxClock,    \* bound: the clock, except to let an armed timer expire
          MaxFaults,   \* bound: database statements that fail
          MaxDeletes   \* bound: contacts deleted

ASSUME BoundsAssumption == /\ Timeout \in Nat
                           /\ MaxEvents \in Nat
                           /\ MaxClock \in Nat
                           /\ MaxFaults \in Nat
                           /\ MaxDeletes \in Nat

ASSUME NoneAssumption == /\ None \notin Contacts
                         /\ None \notin Timers
                         /\ None \notin LastSeen

VARIABLES
  log,             \* presence_events: per contact, its rows in rowid order
  contacts,        \* the contacts that have a row in the contacts table
  inferredOnline,  \* Tracker.inferredOnline: contact -> its timer, or None
  timer,           \* the time.Timer objects
  handler,         \* the event handler: where it is, with its locals
  callback,        \* the timer callbacks: where each is, with its locals
  ctx,             \* Tracker.ctx, and whether Stop has cleared the timers
  shown,           \* dashboard: last presence per contact (lib/store.ts)
  clock,           \* wall clock, in the units of observed_at
  events,          \* events received so far
  faults,          \* database statements that have failed so far
  deletes,         \* contacts deleted so far
  basis            \* history: what the contact's current state rests on

vars == <<log, contacts, inferredOnline, timer, handler, callback, ctx, shown,
          clock, events, faults, deletes, basis>>

-----------------------------------------------------------------------------
FreeTimer == [contact |-> None, armed |-> FALSE, due |-> 0]

Idle == [pc |-> "idle", kind |-> "none", contact |-> None, state |-> "none",
         seen |-> None, at |-> 0]

Done == [pc |-> "done", contact |-> None, at |-> 0]

Latest(c) == LatestPresence(log[c])

Online(c) == Latest(c).state = "available"

\* A statement can only work while the context is live.
CtxLive == ctx = "live"

DbFault == /\ faults < MaxFaults
           /\ faults' = faults + 1

\* Mutant: the dashboard takes every event as the latest.
BroadcastUnordered(c, state, at) ==
  shown' = [shown EXCEPT ![c] = [state |-> state, at |-> at]]

\* Hub.Broadcast("presence") as a dashboard applies it: setLastPresence keeps
\* what it has unless the event is strictly later.
Broadcast(c, state, at) ==
  shown' = IF shown[c].at >= at THEN shown
           ELSE [shown EXCEPT ![c] = [state |-> state, at |-> at]]

Init ==
  /\ log = [c \in Contacts |-> <<>>]
  /\ contacts = Contacts
  /\ inferredOnline = [c \in Contacts |-> None]
  /\ timer = [t \in Timers |-> FreeTimer]
  /\ handler = Idle
  /\ callback = [g \in Callbacks |-> Done]
  /\ ctx = "live"
  /\ shown = [c \in Contacts |-> [state |-> "none", at |-> 0]]
  /\ clock = 1
  /\ events = 0
  /\ faults = 0
  /\ deletes = 0
  /\ basis = [c \in Contacts |-> "none"]

-----------------------------------------------------------------------------
\* The event handler.

\* The event is looked up by JID or LID; one of an unknown contact, or after
\* the context is cancelled (the lookup fails), is dropped.
Receive(kind, c, state, seen, pc) ==
  /\ handler.pc = "idle"
  /\ events < MaxEvents
  /\ CtxLive
  /\ c \in contacts
  /\ handler' = [pc |-> pc, kind |-> kind, contact |-> c, state |-> state,
                 seen |-> seen, at |-> clock]
  /\ events' = events + 1
  /\ UNCHANGED <<log, contacts, inferredOnline, timer, callback, ctx, shown,
                 clock, faults, basis, deletes>>

\* Mutant: a last-seen time of zero is not recognised as "none sent".
OnPresenceZeroTime(c) ==
  \E state \in States, seen \in LastSeen \cup {0} :
     Receive("presence", c, state, seen, "cancel")

\* events.Presence: the state WhatsApp itself reports.
OnPresence(c) ==
  \E state \in States, seen \in LastSeen \cup {None} :
     Receive("presence", c, state, seen, "cancel")

\* events.ChatPresence, composing, of somebody else.
OnChatPresence(c) == Receive("typing", c, "available", None, "read")

\* events.Message of somebody else, once the message row is stored.
OnMessage(c) == Receive("message", c, "available", None, "read")

\* Mutant: the timer is stopped and its map entry stays.
CancelKeepsEntry ==
  /\ handler.pc = "cancel"
  /\ LET c == handler.contact
         t == inferredOnline[c]
     IN /\ timer' = IF t = None THEN timer ELSE [timer EXCEPT ![t] = FreeTimer]
        /\ basis' = [basis EXCEPT ![c] = "real"]
  /\ handler' = [handler EXCEPT !.pc = "read", !.at = clock]
  /\ UNCHANGED <<log, contacts, inferredOnline, callback, ctx, shown, clock,
                 events, faults, deletes>>

\* cancelInferredOffline, on the way to reading the time.
CancelInferredOffline ==
  /\ handler.pc = "cancel"
  /\ LET c == handler.contact
         t == inferredOnline[c]
     IN /\ timer' = IF t = None THEN timer ELSE [timer EXCEPT ![t] = FreeTimer]
        /\ inferredOnline' = [inferredOnline EXCEPT ![c] = None]
        /\ basis' = [basis EXCEPT ![c] = "real"]
  /\ handler' = [handler EXCEPT !.pc = "read", !.at = clock]
  /\ UNCHANGED <<log, contacts, callback, ctx, shown, clock, events, faults, deletes>>

\* Mutant: last-seen is compared for "available" as well.
UnchangedRow(prev) == prev.state = handler.state /\ prev.seen = handler.seen

\* An unchanged state is not stored again: for "unavailable" an unchanged
\* last-seen is required too, for activity only the state counts.
Unchanged(prev) ==
  /\ prev.state = handler.state
  /\ \/ handler.state = "available"
     \/ prev.seen = handler.seen

AfterRead(prev) ==
  /\ handler' =
       IF ~Unchanged(prev) THEN [handler EXCEPT !.pc = "write"]
       ELSE IF handler.kind = "presence" THEN Idle
       ELSE [handler EXCEPT !.pc = "schedule"]
  /\ UNCHANGED <<log, contacts, inferredOnline, timer, callback, ctx, shown,
                 clock, events, basis, deletes>>

HandlerRead ==
  /\ handler.pc = "read"
  /\ CtxLive
  /\ AfterRead(Latest(handler.contact))
  /\ UNCHANGED faults

\* prev, _ := LatestPresence: an error leaves prev zero and is ignored.
HandlerReadFails ==
  /\ handler.pc = "read"
  /\ \/ ~CtxLive /\ UNCHANGED faults
     \/ DbFault
  /\ AfterRead(NoRow)

HandlerWrite ==
  /\ handler.pc = "write"
  /\ CtxLive
  /\ LET c == handler.contact
         row == [state |-> handler.state, seen |-> handler.seen, at |-> handler.at]
     IN /\ c \in contacts
        /\ log' = [log EXCEPT ![c] = Append(@, row)]
        /\ basis' = IF handler.kind = "presence" THEN basis
                    ELSE [basis EXCEPT ![c] = "inferred"]
  /\ handler' = [handler EXCEPT !.pc = "send"]
  /\ UNCHANGED <<contacts, inferredOnline, timer, callback, ctx, shown, clock,
                 events, faults, deletes>>

\* The insert fails: the context is cancelled, the contact is gone (foreign
\* key) or the database refuses. onPresence gives up, onChatPresence skips the
\* broadcast, onMessage ignores the error.
HandlerWriteFails ==
  /\ handler.pc = "write"
  /\ \/ (~CtxLive \/ handler.contact \notin contacts) /\ UNCHANGED faults
     \/ DbFault
  /\ handler' = CASE handler.kind = "presence" -> Idle
                  [] handler.kind = "typing"   -> [handler EXCEPT !.pc = "schedule"]
                  [] handler.kind = "message"  -> [handler EXCEPT !.pc = "send"]
  /\ UNCHANGED <<log, contacts, inferredOnline, timer, callback, ctx, shown,
                 clock, events, basis, deletes>>

HandlerSend ==
  /\ handler.pc = "send"
  /\ Broadcast(handler.contact, handler.state, handler.at)
  /\ handler' = IF handler.kind = "presence" THEN Idle
                ELSE [handler EXCEPT !.pc = "schedule"]
  /\ UNCHANGED <<log, contacts, inferredOnline, timer, callback, ctx, clock,
                 events, faults, basis, deletes>>

\* Mutant: an existing timer is stopped where it should be reset.
ScheduleStops ==
  /\ handler.pc = "schedule"
  /\ LET c == handler.contact
         t == inferredOnline[c]
     IN IF t # None
        THEN /\ timer' = [timer EXCEPT ![t] = [@ EXCEPT !.armed = FALSE]]
             /\ UNCHANGED inferredOnline
        ELSE \E u \in Timers :
                /\ timer[u] = FreeTimer
                /\ timer' = [timer EXCEPT ![u] = [contact |-> c, armed |-> TRUE,
                                                  due |-> clock + Timeout]]
                /\ inferredOnline' = [inferredOnline EXCEPT ![c] = u]
  /\ handler' = Idle
  /\ UNCHANGED <<log, contacts, callback, ctx, shown, clock, events, faults,
                 deletes, basis>>

\* scheduleInferredOffline: Reset the contact's timer, or start one. Reset
\* re-arms the timer whether or not it has expired already.
ScheduleInferredOffline ==
  /\ handler.pc = "schedule"
  /\ LET c == handler.contact
         armed == [contact |-> c, armed |-> TRUE, due |-> clock + Timeout]
     IN /\ \/ /\ inferredOnline[c] # None
              /\ timer' = [timer EXCEPT ![inferredOnline[c]] = armed]
              /\ UNCHANGED inferredOnline
           \/ /\ inferredOnline[c] = None
              /\ \E t \in Timers :
                    /\ timer[t] = FreeTimer
                    /\ timer' = [timer EXCEPT ![t] = armed]
                    /\ inferredOnline' = [inferredOnline EXCEPT ![c] = t]
        /\ basis' = IF basis[c] = "real" THEN [basis EXCEPT ![c] = "real+activity"]
                    ELSE basis
  /\ handler' = Idle
  /\ UNCHANGED <<log, contacts, callback, ctx, shown, clock, events, faults, deletes>>

-----------------------------------------------------------------------------
\* Timers and their callbacks.

\* A timer expires: its callback becomes a goroutine. A timer that is no longer
\* in the map is garbage from here on.
Expire(t) ==
  /\ timer[t].armed
  /\ timer[t].due <= clock
  /\ \E g \in Callbacks :
        /\ callback[g] = Done
        /\ callback' = [callback EXCEPT ![g] =
                          [pc |-> "fired", contact |-> timer[t].contact, at |-> 0]]
  /\ timer' = [timer EXCEPT ![t] =
                 IF inferredOnline[timer[t].contact] = t
                 THEN [contact |-> timer[t].contact, armed |-> FALSE, due |-> 0]
                 ELSE FreeTimer]
  /\ UNCHANGED <<log, contacts, inferredOnline, handler, ctx, shown, clock,
                 events, faults, basis, deletes>>

\* The callback deletes the contact's map entry, whichever timer it holds by
\* now: one re-armed in the meantime stays armed, out of the map.
CallbackUnmap(g) ==
  /\ callback[g].pc = "fired"
  /\ LET c == callback[g].contact
         t == inferredOnline[c]
     IN /\ inferredOnline' = [inferredOnline EXCEPT ![c] = None]
        /\ timer' = IF t # None /\ ~timer[t].armed
                    THEN [timer EXCEPT ![t] = FreeTimer] ELSE timer
  /\ callback' = [callback EXCEPT ![g].pc = "read", ![g].at = clock]
  /\ UNCHANGED <<log, contacts, handler, ctx, shown, clock, events, faults, basis, deletes>>

CallbackRead(g) ==
  /\ callback[g].pc = "read"
  /\ CtxLive
  /\ callback' = [callback EXCEPT ![g] = IF Online(callback[g].contact)
                                         THEN [@ EXCEPT !.pc = "write"] ELSE Done]
  /\ UNCHANGED <<log, contacts, inferredOnline, timer, handler, ctx, shown, clock,
                 events, faults, basis, deletes>>

\* A failed read leaves prev zero, a failed insert is logged: both end it.
CallbackFails(g) ==
  /\ \/ /\ callback[g].pc \in {"read", "write"}
        /\ \/ ~CtxLive /\ UNCHANGED faults
           \/ DbFault
     \/ /\ callback[g].pc = "write"
        /\ callback[g].contact \notin contacts
        /\ UNCHANGED faults
  /\ callback' = [callback EXCEPT ![g] = Done]
  /\ UNCHANGED <<log, contacts, inferredOnline, timer, handler, ctx, shown, clock,
                 events, basis, deletes>>

CallbackWrite(g) ==
  /\ callback[g].pc = "write"
  /\ CtxLive
  /\ LET c == callback[g].contact
         row == [state |-> "unavailable", seen |-> None, at |-> callback[g].at]
     IN /\ c \in contacts
        /\ log' = [log EXCEPT ![c] = Append(@, row)]
  /\ callback' = [callback EXCEPT ![g].pc = "send"]
  /\ UNCHANGED <<contacts, inferredOnline, timer, handler, ctx, shown, clock,
                 events, faults, basis, deletes>>

CallbackSend(g) ==
  /\ callback[g].pc = "send"
  /\ Broadcast(callback[g].contact, "unavailable", callback[g].at)
  /\ callback' = [callback EXCEPT ![g] = Done]
  /\ UNCHANGED <<log, contacts, inferredOnline, timer, handler, ctx, clock,
                 events, faults, basis, deletes>>

-----------------------------------------------------------------------------
\* The HTTP API, Stop, and time.

\* DELETE /contacts/{id}: the rows of the contact go with it (ON DELETE
\* CASCADE); neither its timer nor a running callback is told.
DeleteContact(c) ==
  /\ c \in contacts
  /\ deletes < MaxDeletes
  /\ deletes' = deletes + 1
  /\ contacts' = contacts \ {c}
  /\ log' = [log EXCEPT ![c] = <<>>]
  /\ basis' = [basis EXCEPT ![c] = "none"]
  /\ UNCHANGED <<inferredOnline, timer, handler, callback, ctx, shown, clock,
                 events, faults>>

\* The id column is INTEGER PRIMARY KEY: the next contact takes a deleted id.
AddContact(c) ==
  /\ c \notin contacts
  /\ contacts' = contacts \cup {c}
  /\ UNCHANGED <<log, inferredOnline, timer, handler, callback, ctx, shown,
                 clock, events, faults, basis, deletes>>

\* Tracker.Stop, first the context and later, once the workers are gone, the map.
StopCancel ==
  /\ ctx = "live"
  /\ ctx' = "cancelled"
  /\ UNCHANGED <<log, contacts, inferredOnline, timer, handler, callback, shown,
                 clock, events, faults, basis, deletes>>

StopTimers ==
  /\ ctx = "cancelled"
  /\ ctx' = "stopped"
  /\ timer' = [t \in Timers |->
                 IF \E c \in Contacts : inferredOnline[c] = t
                 THEN FreeTimer ELSE timer[t]]
  /\ inferredOnline' = [c \in Contacts |-> None]
  /\ UNCHANGED <<log, contacts, handler, callback, shown, clock, events, faults,
                 basis, deletes>>

Tick ==
  /\ \/ clock < MaxClock
     \/ \E t \in Timers : timer[t].armed /\ timer[t].due > clock
  /\ clock' = clock + 1
  /\ UNCHANGED <<log, contacts, inferredOnline, timer, handler, callback, ctx,
                 shown, events, faults, basis, deletes>>

-----------------------------------------------------------------------------
HandlerStep ==
  \/ CancelInferredOffline
  \/ HandlerRead \/ HandlerReadFails
  \/ HandlerWrite \/ HandlerWriteFails
  \/ HandlerSend
  \/ ScheduleInferredOffline

CallbackStep(g) ==
  \/ CallbackUnmap(g)
  \/ CallbackRead(g) \/ CallbackFails(g)
  \/ CallbackWrite(g)
  \/ CallbackSend(g)

Environment ==
  \/ \E c \in Contacts : \/ OnPresence(c) \/ OnChatPresence(c) \/ OnMessage(c)
                         \/ DeleteContact(c) \/ AddContact(c)
  \/ StopCancel \/ StopTimers

Next ==
  \/ Environment
  \/ HandlerStep
  \/ \E t \in Timers : Expire(t)
  \/ \E g \in Callbacks : CallbackStep(g)
  \/ Tick

Spec == Init /\ [][Next]_vars

\* The Go runtime runs every goroutine that can run and fires every timer that
\* is due; nothing makes WhatsApp, the API's users or Stop act.
Fairness ==
  /\ WF_vars(HandlerStep)
  /\ \A t \in Timers : WF_vars(Expire(t))
  /\ \A g \in Callbacks : WF_vars(CallbackStep(g))
  /\ WF_vars(Tick)

FairSpec == Spec /\ Fairness
=============================================================================
