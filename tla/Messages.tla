------------------------------- MODULE Messages -------------------------------
(***************************************************************************)
(* The messages of one account and the per-contact totals kept beside them *)
(* (tables messages and analytics_daily).                                  *)
(*                                                                         *)
(* Messages arrive from receivers, which run concurrently: the event       *)
(* handler and one goroutine per history sync. Each stores the message in  *)
(* one statement and adds it to the totals in a transaction of its own     *)
(* (internal/db/analytics_write.go). Messages stored before there were     *)
(* totals are added by a command of its own, in chunks                     *)
(* (cmd/analytics-backfill). The HTTP API deletes and adds contacts.       *)
(***************************************************************************)
EXTENDS Integers, FiniteSets

CONSTANTS Contacts,       \* contact row ids
          Sender,         \* the contact each message is from or to
          Legacy,         \* messages stored before the totals were introduced
          Receivers,      \* the event handler and the history syncs
          Runs,           \* processes of the backfill command
          ChunkSize,      \* messages the backfill handles in one transaction
          MaxDeliveries,  \* bound: messages delivered
          MaxFaults,      \* bound: statements and transactions that fail
          MaxCrashes,     \* bound: crashes, of the tracker and of backfills
          MaxDeletes,     \* bound: contacts deleted
          None            \* "no such value"

\* A message is its row id: the backfill walks the table in that order.
Messages == DOMAIN Sender

ASSUME SetsAssumption == /\ Messages \subseteq Nat \ {0}
                         /\ IsFiniteSet(Messages)
                         /\ Sender \in [Messages -> Contacts]
                         /\ Legacy \subseteq Messages
                         /\ IsFiniteSet(Receivers)
                         /\ None \notin Contacts

ASSUME BoundsAssumption == /\ ChunkSize \in Nat \ {0}
                           /\ MaxDeliveries \in Nat
                           /\ MaxFaults \in Nat
                           /\ MaxCrashes \in Nat
                           /\ MaxDeletes \in Nat

VARIABLES
  row,         \* messages: whether a message is stored, for which contact, and
               \* whether its derived columns are filled (word_count)
  contacts,    \* the contacts that have a row
  daily,       \* analytics_daily: messages counted, per contact
  inserted,    \* the tracker's connection has inserted something: a last rowid
  receiver,    \* where each receiver is, with its message and contact
  backfill,    \* where each backfill is, with its last id and its chunk
  done,        \* app_meta.analytics_version = 1
  deliveries,  \* messages delivered so far
  faults,      \* failures so far
  crashes,     \* crashes so far
  deletes,     \* contacts deleted so far
  resent,      \* history: a message was delivered that was stored already
  overlapped,  \* history: a backfill was started beside another
  miscounted   \* history: a backfill failed to count what is left

vars == <<row, contacts, daily, inserted, receiver, backfill, done, deliveries,
          faults, crashes, deletes, resent, overlapped, miscounted>>

-----------------------------------------------------------------------------
Absent == [stored |-> FALSE, contact |-> None, derived |-> FALSE]

Idle == [pc |-> "idle", message |-> 0, contact |-> None]

\* A chunk holds, for each of its messages, the contact that was read with it.
Off == [pc |-> "off", last |-> 0, chunk |-> [m \in {} |-> None]]

Init ==
  /\ row = [m \in Messages |->
              IF m \in Legacy
              THEN [stored |-> TRUE, contact |-> Sender[m], derived |-> FALSE]
              ELSE Absent]
  /\ contacts = Contacts
  /\ daily = [c \in Contacts |-> 0]
  /\ inserted = FALSE
  /\ receiver = [r \in Receivers |-> Idle]
  /\ backfill = [b \in Runs |-> Off]
  /\ done = FALSE
  /\ deliveries = 0
  /\ faults = 0
  /\ crashes = 0
  /\ deletes = 0
  /\ resent = FALSE
  /\ overlapped = FALSE
  /\ miscounted = FALSE

Fault == faults < MaxFaults /\ faults' = faults + 1

-----------------------------------------------------------------------------
\* A receiver stores a message: onMessage, processHistoryMessage.

\* The contact is looked up first; a message without one, or whose lookup fails,
\* is stored all the same.
Receive(r, m) ==
  /\ receiver[r] = Idle
  /\ deliveries < MaxDeliveries
  /\ deliveries' = deliveries + 1
  /\ \E c \in {Sender[m], None} :
        /\ \/ /\ c = IF Sender[m] \in contacts THEN Sender[m] ELSE None
              /\ UNCHANGED faults
           \/ c = None /\ Fault
        /\ receiver' = [receiver EXCEPT ![r] =
                          [pc |-> "insert", message |-> m, contact |-> c]]
  /\ UNCHANGED <<row, contacts, daily, inserted, backfill, done, crashes, deletes,
                 resent, overlapped, miscounted>>

\* Mutant: a message of nobody in the contacts is counted too.
AfterInsertUnlinked(r, isNew) ==
  IF isNew
  THEN [receiver EXCEPT ![r].pc = "count"]
  ELSE [receiver EXCEPT ![r] = Idle]

\* Where a receiver goes with what insertMessageWithDerived returned.
AfterInsert(r, isNew) ==
  IF isNew /\ receiver[r].contact # None
  THEN [receiver EXCEPT ![r].pc = "count"]
  ELSE [receiver EXCEPT ![r] = Idle]

\* Mutant: a message that is new is taken for a duplicate.
InsertTakenForDuplicate(r) ==
  LET m == receiver[r].message IN
  /\ receiver[r].pc = "insert"
  /\ ~row[m].stored
  /\ receiver[r].contact \in contacts \cup {None}
  /\ row' = [row EXCEPT ![m] = [stored |-> TRUE, contact |-> receiver[r].contact,
                                derived |-> TRUE]]
  /\ inserted' = TRUE
  /\ receiver' = AfterInsert(r, FALSE)
  /\ UNCHANGED <<contacts, daily, backfill, done, deliveries, faults, crashes,
                 deletes, resent, overlapped, miscounted>>

\* INSERT OR IGNORE of a message that is new.
Insert(r) ==
  LET m == receiver[r].message IN
  /\ receiver[r].pc = "insert"
  /\ ~row[m].stored
  /\ receiver[r].contact \in contacts \cup {None}
  /\ row' = [row EXCEPT ![m] = [stored |-> TRUE, contact |-> receiver[r].contact,
                                derived |-> TRUE]]
  /\ inserted' = TRUE
  /\ receiver' = AfterInsert(r, TRUE)
  /\ UNCHANGED <<contacts, daily, backfill, done, deliveries, faults, crashes,
                 deletes, resent, overlapped, miscounted>>

\* INSERT OR IGNORE of a message that is stored: ignored. The driver still
\* reports the rowid of the connection's last insert, and zero only if there has
\* been none; the code takes any other than zero for a new row.
InsertIgnored(r) ==
  LET m == receiver[r].message IN
  /\ receiver[r].pc = "insert"
  /\ row[m].stored
  /\ receiver' = AfterInsert(r, inserted)
  /\ resent' = TRUE
  /\ UNCHANGED <<row, contacts, daily, inserted, backfill, done, deliveries,
                 faults, crashes, deletes, overlapped, miscounted>>

\* The insert fails, among others because the contact has been deleted since it
\* was looked up (foreign key): the message is lost.
InsertFails(r) ==
  LET m == receiver[r].message IN
  /\ receiver[r].pc = "insert"
  /\ \/ /\ ~row[m].stored
        /\ receiver[r].contact \notin contacts \cup {None}
        /\ UNCHANGED faults
     \/ Fault
  /\ receiver' = [receiver EXCEPT ![r] = Idle]
  /\ UNCHANGED <<row, contacts, daily, inserted, backfill, done, deliveries,
                 crashes, deletes, resent, overlapped, miscounted>>

\* ApplyMessageAnalyticsTx, committed.
Count(r) ==
  LET c == receiver[r].contact IN
  /\ receiver[r].pc = "count"
  /\ c \in contacts
  /\ daily' = [daily EXCEPT ![c] = @ + 1]
  /\ inserted' = TRUE
  /\ receiver' = [receiver EXCEPT ![r] = Idle]
  /\ UNCHANGED <<row, contacts, backfill, done, deliveries, faults, crashes,
                 deletes, resent, overlapped, miscounted>>

\* Failures of the transaction are logged and nothing else.
CountFails(r) ==
  /\ receiver[r].pc = "count"
  /\ \/ receiver[r].contact \notin contacts /\ UNCHANGED faults
     \/ Fault
  /\ receiver' = [receiver EXCEPT ![r] = Idle]
  /\ UNCHANGED <<row, contacts, daily, inserted, backfill, done, deliveries,
                 crashes, deletes, resent, overlapped, miscounted>>

\* Any other insert through the connection: a presence row, a story.
OtherInsert ==
  /\ ~inserted
  /\ inserted' = TRUE
  /\ UNCHANGED <<row, contacts, daily, receiver, backfill, done, deliveries,
                 faults, crashes, deletes, resent, overlapped, miscounted>>

-----------------------------------------------------------------------------
\* The backfill command.

\* A message whose derived columns are still NULL.
Left(m) == row[m].stored /\ ~row[m].derived

Unprocessed(last) == {m \in Messages : Left(m) /\ m > last}

\* The version is read first; an error reads as "not done".
StartBackfill(b) ==
  /\ backfill[b].pc = "off"
  /\ \/ ~done /\ UNCHANGED faults
     \/ Fault
  /\ backfill' = [backfill EXCEPT ![b] = [Off EXCEPT !.pc = "count"]]
  /\ overlapped' = (overlapped \/ \E a \in Runs : backfill[a].pc # "off")
  /\ UNCHANGED <<row, contacts, daily, inserted, receiver, done, deliveries,
                 crashes, deletes, resent, miscounted>>

\* Then the messages that are left are counted.
CountLeft(b) ==
  /\ backfill[b].pc = "count"
  /\ backfill' = [backfill EXCEPT ![b] = [Off EXCEPT !.pc =
                    IF Unprocessed(0) = {} THEN "mark" ELSE "fetch"]]
  /\ UNCHANGED <<row, contacts, daily, inserted, receiver, done, deliveries,
                 faults, crashes, deletes, resent, overlapped, miscounted>>

\* An error of the count reads as "none left".
CountUnread(b) ==
  /\ backfill[b].pc = "count"
  /\ Fault
  /\ miscounted' = TRUE
  /\ backfill' = [backfill EXCEPT ![b] = [Off EXCEPT !.pc = "mark"]]
  /\ UNCHANGED <<row, contacts, daily, inserted, receiver, done, deliveries,
                 crashes, deletes, resent, overlapped>>

\* ORDER BY id LIMIT chunkSize.
IsChunk(chunk, last) ==
  LET rest == Unprocessed(last) \ chunk IN
  /\ chunk \subseteq Unprocessed(last)
  /\ Cardinality(chunk) <= ChunkSize
  /\ \A m \in chunk, n \in rest : m < n
  /\ rest # {} => Cardinality(chunk) = ChunkSize

FetchChunk(b) ==
  /\ backfill[b].pc = "fetch"
  /\ \E chunk \in SUBSET Messages :
        /\ IsChunk(chunk, backfill[b].last)
        /\ backfill' = [backfill EXCEPT
              ![b].pc = IF chunk = {} THEN "mark" ELSE "process",
              ![b].chunk = [m \in chunk |-> row[m].contact]]
  /\ UNCHANGED <<row, contacts, daily, inserted, receiver, done, deliveries,
                 faults, crashes, deletes, resent, overlapped, miscounted>>

\* The contacts a chunk counts for have to exist (foreign key).
ChunkContacts(chunk) == {chunk[m] : m \in DOMAIN chunk} \ {None}

\* Mutant: a full chunk is taken for the last one.
AfterChunkTooEarly(chunk, last) ==
  [pc |-> IF Cardinality(DOMAIN chunk) <= ChunkSize THEN "mark" ELSE "fetch",
   last |-> last, chunk |-> Off.chunk]

\* A chunk that is not full was the last one.
AfterChunk(chunk, last) ==
  [pc |-> IF Cardinality(DOMAIN chunk) < ChunkSize THEN "mark" ELSE "fetch",
   last |-> last, chunk |-> Off.chunk]

\* The rows and the totals a chunk's transaction leaves.
FilledRows(chunk) ==
  [m \in Messages |-> IF m \in DOMAIN chunk THEN [row[m] EXCEPT !.derived = TRUE]
                      ELSE row[m]]

AddedTotals(chunk) ==
  [c \in Contacts |-> daily[c] + Cardinality({m \in DOMAIN chunk : chunk[m] = c})]

\* Mutant: the totals are committed and the derived columns are not.
ProcessOnlyCounts(b) ==
  LET chunk == backfill[b].chunk IN
  /\ backfill[b].pc = "process"
  /\ ChunkContacts(chunk) \subseteq contacts
  /\ daily' = AddedTotals(chunk)
  /\ \E last \in DOMAIN chunk :
        /\ \A m \in DOMAIN chunk : m <= last
        /\ backfill' = [backfill EXCEPT ![b] = AfterChunk(chunk, last)]
  /\ UNCHANGED <<row, contacts, inserted, receiver, done, deliveries, faults,
                 crashes, deletes, resent, overlapped, miscounted>>

\* processChunk: one transaction fills the columns and adds to the totals.
ProcessChunk(b) ==
  LET chunk == backfill[b].chunk IN
  /\ backfill[b].pc = "process"
  /\ ChunkContacts(chunk) \subseteq contacts
  /\ row' = FilledRows(chunk)
  /\ daily' = AddedTotals(chunk)
  /\ \E last \in DOMAIN chunk :
        /\ \A m \in DOMAIN chunk : m <= last
        /\ backfill' = [backfill EXCEPT ![b] = AfterChunk(chunk, last)]
  /\ UNCHANGED <<contacts, inserted, receiver, done, deliveries, faults,
                 crashes, deletes, resent, overlapped, miscounted>>

\* markDone
MarkDone(b) ==
  /\ backfill[b].pc = "mark"
  /\ done' = TRUE
  /\ backfill' = [backfill EXCEPT ![b] = Off]
  /\ UNCHANGED <<row, contacts, daily, inserted, receiver, deliveries, faults,
                 crashes, deletes, resent, overlapped, miscounted>>

\* Any other error ends the command; a transaction that was open is rolled back.
BackfillFails(b) ==
  /\ \/ /\ backfill[b].pc = "process"
        /\ ~(ChunkContacts(backfill[b].chunk) \subseteq contacts)
        /\ UNCHANGED faults
     \/ backfill[b].pc \in {"fetch", "process", "mark"} /\ Fault
  /\ backfill' = [backfill EXCEPT ![b] = Off]
  /\ UNCHANGED <<row, contacts, daily, inserted, receiver, done, deliveries,
                 crashes, deletes, resent, overlapped, miscounted>>

-----------------------------------------------------------------------------
\* The HTTP API and the processes' crashes.

\* ON DELETE SET NULL for messages, ON DELETE CASCADE for the totals.
DeleteContact(c) ==
  /\ c \in contacts
  /\ deletes < MaxDeletes
  /\ deletes' = deletes + 1
  /\ contacts' = contacts \ {c}
  /\ row' = [m \in Messages |-> IF row[m].contact = c
                                THEN [row[m] EXCEPT !.contact = None] ELSE row[m]]
  /\ daily' = [daily EXCEPT ![c] = 0]
  /\ UNCHANGED <<inserted, receiver, backfill, done, deliveries, faults, crashes,
                 resent, overlapped, miscounted>>

\* A new contact may get the id of a deleted one; the messages stay unlinked.
AddContact(c) ==
  /\ c \in Contacts \ contacts
  /\ contacts' = contacts \cup {c}
  /\ inserted' = TRUE
  /\ UNCHANGED <<row, daily, receiver, backfill, done, deliveries, faults,
                 crashes, deletes, resent, overlapped, miscounted>>

Crash ==
  /\ crashes < MaxCrashes
  /\ crashes' = crashes + 1
  /\ \/ /\ receiver' = [r \in Receivers |-> Idle]
        /\ inserted' = FALSE
        /\ UNCHANGED backfill
     \/ /\ \E b \in Runs : backfill' = [backfill EXCEPT ![b] = Off]
        /\ UNCHANGED <<receiver, inserted>>
  /\ UNCHANGED <<row, contacts, daily, done, deliveries, faults, deletes, resent,
                 overlapped, miscounted>>

-----------------------------------------------------------------------------
Store(r) ==
  \/ \E m \in Messages : Receive(r, m)
  \/ Insert(r) \/ InsertIgnored(r) \/ InsertFails(r)
  \/ Count(r) \/ CountFails(r)

Backfill(b) ==
  \/ StartBackfill(b)
  \/ CountLeft(b) \/ CountUnread(b)
  \/ FetchChunk(b)
  \/ ProcessChunk(b)
  \/ MarkDone(b)
  \/ BackfillFails(b)

Next ==
  \/ \E r \in Receivers : Store(r)
  \/ \E b \in Runs : Backfill(b)
  \/ \E c \in Contacts : DeleteContact(c) \/ AddContact(c)
  \/ OtherInsert
  \/ Crash

Spec == Init /\ [][Next]_vars
=============================================================================
