-------------------------- MODULE PresenceProperties --------------------------
(***************************************************************************)
(* What the presence path must and should guarantee.                       *)
(***************************************************************************)
EXTENDS Presence

\* A timer in use, a handler at work, a callback on its way.
SetTimer == [contact : Contacts, armed : BOOLEAN, due : Nat]

BusyHandler ==
  [pc : {"cancel", "read", "write", "send", "schedule"},
   kind : {"presence", "typing", "message"}, contact : Contacts,
   state : States, seen : LastSeen \cup {None}, at : Nat]

RunningCallback == [pc : {"fired", "read", "write", "send"},
                    contact : Contacts, at : Nat]

\* The state of every part has the shape the Go types give it.
TypeOK ==
  /\ log \in [Contacts -> Seq(Row)]
  /\ contacts \in SUBSET Contacts
  /\ inferredOnline \in [Contacts -> Timers \cup {None}]
  /\ timer \in [Timers -> SetTimer \cup {FreeTimer}]
  /\ handler \in BusyHandler \cup {Idle}
  /\ callback \in [Callbacks -> RunningCallback \cup {Done}]
  /\ ctx \in {"live", "cancelled", "stopped"}
  /\ shown \in [Contacts -> [state : States \cup {"none"}, at : Nat]]
  /\ clock \in Nat
  /\ events \in 0..MaxEvents
  /\ faults \in 0..MaxFaults
  /\ deletes \in 0..MaxDeletes
  /\ basis \in [Contacts -> {"none", "inferred", "real", "real+activity"}]

-----------------------------------------------------------------------------
\* Somebody is still going to mark c offline: an armed timer, a callback that
\* has not looked yet or whose row will be the latest one, or the handler on
\* its way to scheduleInferredOffline.
Covered(c) ==
  \/ \E t \in Timers : timer[t].armed /\ timer[t].contact = c
  \/ \E g \in Callbacks :
        /\ callback[g].contact = c
        /\ \/ callback[g].pc = "fired"
           \/ callback[g].pc \in {"read", "write"} /\ callback[g].at >= Latest(c).at
  \/ /\ handler.contact = c
     /\ handler.kind # "presence"
     /\ handler.pc \in {"send", "schedule"}

\* A contact shown online only because of a message or of typing never loses
\* its way back to offline: whatever Reset, Stop and the callbacks' deletes of
\* the map entry do to each other, somebody is left who will end the session
\* (tracker.go, onChatPresence, onMessage, scheduleInferredOffline).
InferredCovered ==
  \A c \in Contacts :
     /\ basis[c] = "inferred" /\ Online(c)
     /\ CtxLive /\ faults = 0
     => Covered(c)

\* An entry of the timer map is never a leftover: its timer is the contact's
\* and is armed, or it has expired and its own callback has yet to delete the
\* entry (tracker.go, inferredOnline under inferredMu).
MapEntryLive ==
  \A c \in Contacts :
     LET t == inferredOnline[c] IN
     t # None => /\ timer[t].contact = c
                 /\ \/ timer[t].armed
                    \/ \E g \in Callbacks : /\ callback[g].pc = "fired"
                                            /\ callback[g].contact = c

\* What an inductive argument for InferredCovered needs besides.

\* Nothing is dated in the future.
Dated ==
  /\ \A c \in Contacts : \A i \in DOMAIN log[c] : log[c][i].at <= clock
  /\ handler.at <= clock
  /\ \A g \in Callbacks : callback[g].at <= clock

\* ORDER BY ... LIMIT 1 has an answer.
HasLatest ==
  \A c \in Contacts : log[c] # <<>> => \E i \in DOMAIN log[c] : IsLatest(log[c], i)

\* Only contacts with a row have presence rows (the foreign key).
NoOrphanRows == \A c \in Contacts \ contacts : log[c] = <<>>

\* While the handler works on a real presence event the contact rests on it.
RealBasis ==
  handler.kind = "presence" /\ handler.pc \in {"read", "write", "send"}
    => basis[handler.contact] \in {"real", "none"}

CoveredInv == /\ TypeOK /\ Dated /\ HasLatest /\ NoOrphanRows /\ RealBasis
              /\ MapEntryLive /\ InferredCovered

\* What the handler has read is still so when it writes: nobody else opens a
\* session.
OpensOffline ==
  /\ handler.pc = "write" /\ handler.state = "available"
  /\ CtxLive /\ faults = 0
  => ~Online(handler.contact)

Sessions == INSTANCE SessionLog WITH log <- log, Contacts <- Contacts,
                                    LastSeen <- LastSeen, None <- None

\* The reads that decide a row and the inserts that store it are separate
\* statements of separate goroutines, yet, while no read fails, they amount to
\* one step of SessionLog: no session is opened on top of an open one
\* (tracker.go, onPresence, onChatPresence, onMessage and the timer callback).
ImplementsSessionLog == Sessions!Spec

\* No process has anything of c in hand.
Quiet(c) == /\ handler.contact # c
            /\ \A g \in Callbacks : callback[g].contact # c

\* No two rows of c were observed in the same second.
DistinctSeconds(c) ==
  \A i, j \in DOMAIN log[c] : log[c][i].at = log[c][j].at => i = j

\* What a dashboard last heard is what the database says, whatever the order in
\* which handler and callbacks insert and broadcast, as long as no two rows of
\* the contact fall into one second (hub.Broadcast after InsertPresence;
\* setLastPresence in store.ts).
DashboardAgrees ==
  CtxLive /\ faults = 0 /\ deletes = 0 =>
    \A c \in Contacts :
       Quiet(c) /\ log[c] # <<>> /\ DistinctSeconds(c)
         => shown[c] = [state |-> Latest(c).state, at |-> Latest(c).at]

\* A contact inferred online is eventually marked offline, or WhatsApp reports
\* its real state (tracker.go, the 2-minute timer).
InferredOnlineExpires ==
  \A c \in Contacts :
     (basis[c] = "inferred" /\ Online(c) /\ CtxLive)
       ~> (basis[c] # "inferred" \/ ~Online(c) \/ ~CtxLive)
=============================================================================
