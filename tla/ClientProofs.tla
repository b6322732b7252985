----------------------------- MODULE ClientProofs -----------------------------
(***************************************************************************)
(* Proofs about what the tracker keeps of its WhatsApp clients, for any    *)
(* clients, messages, contacts and bounds.                                 *)
(*                                                                         *)
(* 1. Messages: type correctness, and a backfill that counts all there is  *)
(*    and nothing twice.                                                   *)
(* 2. Pairing: the clients of an account are its own (ClientsAreTheirs).   *)
(*    RegisterPaired takes whichever client is pending when the callback   *)
(*    of a paired client gets there.  That this is the callback's own      *)
(*    client needs that a client which may still call OnPaired, or has     *)
(*    called it and not yet registered, keeps the slot (Hopes, Callbacks): *)
(*    the cleanup of a QR flow and a failed phone pairing free it only     *)
(*    when their client cannot log in any more (Closing, Phones), and      *)
(*    nobody dials a client that waits for its pairing (Handlers).         *)
(***************************************************************************)
EXTENDS MessagesProperties, Pairing, FiniteSetTheorems, TLAPS

LEMMA IsChunkType ==
  ASSUME NEW S \in SUBSET Messages, NEW f \in [S -> Contacts \cup {None}]
  PROVE  f \in Chunk
  BY DEF Chunk

LEMMA ChunkDomain ==
  ASSUME NEW f \in Chunk
  PROVE  DOMAIN f \subseteq Messages /\ f \in [DOMAIN f -> Contacts \cup {None}]
  BY DEF Chunk

LEMMA OffType == Off.chunk \in Chunk /\ Off.pc = "off" /\ Off.last = 0
<1>1. [m \in {} |-> None] \in [{} -> Contacts \cup {None}]
  OBVIOUS
<1>2. QED
  BY <1>1, IsChunkType DEF Off

LEMMA TypeKept == TypeOK /\ [Next]_vars => TypeOK'
<1> SUFFICES ASSUME TypeOK, [Next]_vars PROVE TypeOK'
  OBVIOUS
<1> USE BoundsAssumption, SetsAssumption
<1>1. ASSUME NEW r \in Receivers, NEW m \in Messages, Receive(r, m) PROVE TypeOK'
  <2>1. Sender[m] \in Contacts
    OBVIOUS
  <2>2. receiver' \in [Receivers -> BusyReceiver \cup {Idle}]
    BY <1>1, <2>1 DEF TypeOK, Receive, BusyReceiver
  <2>3. faults' \in 0 .. MaxFaults
    BY <1>1 DEF TypeOK, Receive, Fault
  <2>4. QED
    BY <1>1, <2>2, <2>3 DEF TypeOK, Receive
<1>2. ASSUME NEW r \in Receivers, Insert(r) PROVE TypeOK'
  <2>1. receiver[r] \in BusyReceiver
    BY <1>2 DEF TypeOK, Insert, Idle
  <2>2. receiver' \in [Receivers -> BusyReceiver \cup {Idle}]
    BY <1>2, <2>1 DEF TypeOK, Insert, AfterInsert, BusyReceiver
  <2>3. row' \in [Messages -> [stored : BOOLEAN, contact : Contacts \cup {None},
                               derived : BOOLEAN]]
    BY <1>2, <2>1 DEF TypeOK, Insert, BusyReceiver
  <2>4. QED
    BY <1>2, <2>2, <2>3 DEF TypeOK, Insert
<1>3. ASSUME NEW r \in Receivers, InsertIgnored(r) PROVE TypeOK'
  <2>1. receiver[r] \in BusyReceiver
    BY <1>3 DEF TypeOK, InsertIgnored, Idle
  <2>2. receiver' \in [Receivers -> BusyReceiver \cup {Idle}]
    BY <1>3, <2>1 DEF TypeOK, InsertIgnored, AfterInsert, BusyReceiver
  <2>3. QED
    BY <1>3, <2>2 DEF TypeOK, InsertIgnored
<1>4. ASSUME NEW r \in Receivers, InsertFails(r) PROVE TypeOK'
  <2>1. receiver' \in [Receivers -> BusyReceiver \cup {Idle}]
    BY <1>4 DEF TypeOK, InsertFails
  <2>2. faults' \in 0 .. MaxFaults
    BY <1>4 DEF TypeOK, InsertFails, Fault
  <2>3. QED
    BY <1>4, <2>1, <2>2 DEF TypeOK, InsertFails
<1>5. ASSUME NEW r \in Receivers, Count(r) PROVE TypeOK'
  <2>1. receiver' \in [Receivers -> BusyReceiver \cup {Idle}]
    BY <1>5 DEF TypeOK, Count
  <2>2. daily' \in [Contacts -> Nat]
    BY <1>5 DEF TypeOK, Count
  <2>3. QED
    BY <1>5, <2>1, <2>2 DEF TypeOK, Count
<1>6. ASSUME NEW r \in Receivers, CountFails(r) PROVE TypeOK'
  <2>1. receiver' \in [Receivers -> BusyReceiver \cup {Idle}]
    BY <1>6 DEF TypeOK, CountFails
  <2>2. faults' \in 0 .. MaxFaults
    BY <1>6 DEF TypeOK, CountFails, Fault
  <2>3. QED
    BY <1>6, <2>1, <2>2 DEF TypeOK, CountFails
<1> DEFINE Process == [pc : {"off", "count", "fetch", "process", "mark"},
                       last : Messages \cup {0}, chunk : Chunk]
<1>7. Off \in Process
  BY OffType DEF Off
<1>8. ASSUME NEW b \in Runs, StartBackfill(b) PROVE TypeOK'
  <2>1. [Off EXCEPT !.pc = "count"] \in Process
    BY <1>7
  <2>2. backfill' \in [Runs -> Process]
    BY <1>8, <2>1 DEF TypeOK, StartBackfill
  <2>3. overlapped' \in BOOLEAN
    BY <1>8, Zenon DEF StartBackfill
  <2>4. faults' \in 0 .. MaxFaults
    BY <1>8 DEF TypeOK, StartBackfill, Fault
  <2>5. QED
    BY <1>8, <2>2, <2>3, <2>4 DEF TypeOK, StartBackfill
<1>9. ASSUME NEW b \in Runs, FetchChunk(b) PROVE TypeOK'
  <2>1. PICK S \in SUBSET Messages :
          backfill' = [backfill EXCEPT
              ![b].pc = IF S = {} THEN "mark" ELSE "process",
              ![b].chunk = [m \in S |-> row[m].contact]]
    BY <1>9 DEF FetchChunk
  <2>2. [m \in S |-> row[m].contact] \in [S -> Contacts \cup {None}]
    BY DEF TypeOK
  <2>3. [m \in S |-> row[m].contact] \in Chunk
    BY <2>2, IsChunkType
  <2>4. (IF S = {} THEN "mark" ELSE "process")
          \in {"off", "count", "fetch", "process", "mark"}
    OBVIOUS
  <2>5. backfill[b] \in Process
    BY DEF TypeOK
  <2>6. [backfill[b] EXCEPT !.pc = IF S = {} THEN "mark" ELSE "process",
                            !.chunk = [m \in S |-> row[m].contact]] \in Process
    BY <2>3, <2>4, <2>5
  <2>7. backfill' \in [Runs -> Process]
    BY <2>1, <2>6 DEF TypeOK
  <2>8. QED
    BY <1>9, <2>7 DEF TypeOK, FetchChunk
<1>10. ASSUME NEW b \in Runs, ProcessChunk(b) PROVE TypeOK'
  <2> DEFINE chunk == backfill[b].chunk
  <2>1. chunk \in Chunk
    BY DEF TypeOK
  <2>2. PICK last \in DOMAIN chunk : backfill' = [backfill EXCEPT ![b] = AfterChunk(chunk, last)]
    BY <1>10 DEF ProcessChunk
  <2>3. AfterChunk(chunk, last) \in Process
    BY <2>1, ChunkDomain, OffType DEF AfterChunk
  <2>4. backfill' \in [Runs -> Process]
    BY <2>2, <2>3 DEF TypeOK
  <2>5. row' \in [Messages -> [stored : BOOLEAN, contact : Contacts \cup {None},
                               derived : BOOLEAN]]
    BY ZenonT(30), <1>10 DEF TypeOK, ProcessChunk, FilledRows
  <2>6. ASSUME NEW c \in Contacts PROVE Cardinality({m \in DOMAIN chunk : chunk[m] = c}) \in Nat
    BY <2>1, ChunkDomain, FS_Subset, FS_CardinalityType
  <2>7. daily' \in [Contacts -> Nat]
    BY <1>10, <2>6 DEF TypeOK, ProcessChunk, AddedTotals
  <2>8. QED
    BY <1>10, <2>4, <2>5, <2>7 DEF TypeOK, ProcessChunk
<1>11. ASSUME NEW b \in Runs, MarkDone(b) PROVE TypeOK'
  <2>1. backfill' \in [Runs -> Process]
    BY <1>11, <1>7 DEF TypeOK, MarkDone
  <2>2. QED
    BY <1>11, <2>1 DEF TypeOK, MarkDone
<1>12. ASSUME NEW b \in Runs, BackfillFails(b) PROVE TypeOK'
  <2>1. backfill' \in [Runs -> Process]
    BY <1>12, <1>7 DEF TypeOK, BackfillFails
  <2>2. faults' \in 0 .. MaxFaults
    BY <1>12 DEF TypeOK, BackfillFails, Fault
  <2>3. QED
    BY <1>12, <2>1, <2>2 DEF TypeOK, BackfillFails
<1>13. ASSUME NEW c \in Contacts, DeleteContact(c) PROVE TypeOK'
  <2>1. row' \in [Messages -> [stored : BOOLEAN, contact : Contacts \cup {None},
                               derived : BOOLEAN]]
    BY <1>13 DEF TypeOK, DeleteContact
  <2>2. daily' \in [Contacts -> Nat]
    BY <1>13 DEF TypeOK, DeleteContact
  <2>3. QED
    BY <1>13, <2>1, <2>2 DEF TypeOK, DeleteContact
<1>14. ASSUME NEW b \in Runs, CountLeft(b) PROVE TypeOK'
  <2>1. \A pc \in {"mark", "fetch"} : [Off EXCEPT !.pc = pc] \in Process
    BY <1>7
  <2>2. backfill' \in [Runs -> Process]
    BY <1>14, <2>1 DEF TypeOK, CountLeft
  <2>3. QED
    BY <1>14, <2>2 DEF TypeOK, CountLeft
<1>15. ASSUME NEW b \in Runs, CountUnread(b) PROVE TypeOK'
  <2>1. [Off EXCEPT !.pc = "mark"] \in Process
    BY <1>7
  <2>2. backfill' \in [Runs -> Process]
    BY <1>15, <2>1 DEF TypeOK, CountUnread
  <2>3. faults' \in 0 .. MaxFaults
    BY <1>15 DEF TypeOK, CountUnread, Fault
  <2>4. miscounted' \in BOOLEAN
    BY <1>15, Zenon DEF CountUnread
  <2>5. QED
    BY <1>15, <2>2, <2>3, <2>4 DEF TypeOK, CountUnread
<1>16. ASSUME NEW c \in Contacts, AddContact(c) PROVE TypeOK'
  BY <1>16 DEF TypeOK, AddContact
<1>17. CASE OtherInsert
  BY <1>17 DEF TypeOK, OtherInsert
<1>18. CASE Crash
  <2>1. backfill' \in [Runs -> Process]
    BY <1>18, <1>7 DEF TypeOK, Crash
  <2>2. receiver' \in [Receivers -> BusyReceiver \cup {Idle}]
    BY <1>18 DEF TypeOK, Crash
  <2>3. inserted' \in BOOLEAN
    BY <1>18, Zenon DEF TypeOK, Crash
  <2>4. QED
    BY <1>18, <2>1, <2>2, <2>3 DEF TypeOK, Crash
<1>19. CASE UNCHANGED vars
  BY <1>19 DEF TypeOK, vars
<1>20. QED
  BY <1>1, <1>2, <1>3, <1>4, <1>5, <1>6, <1>8, <1>9, <1>10, <1>11, <1>12, <1>13,
     <1>16, <1>17, <1>18, <1>19, <1>14, <1>15 DEF Next, Store, Backfill

LEMMA TypeInitially == Init => TypeOK
<1> SUFFICES ASSUME Init PROVE TypeOK
  OBVIOUS
<1>1. row \in [Messages -> [stored : BOOLEAN, contact : Contacts \cup {None},
                            derived : BOOLEAN]]
  BY SetsAssumption DEF Init, Absent
<1>2. receiver \in [Receivers -> BusyReceiver \cup {Idle}]
  BY DEF Init
<1>3. backfill \in [Runs -> [pc : {"off", "count", "fetch", "process", "mark"},
                             last : Messages \cup {0}, chunk : Chunk]]
  BY OffType DEF Init, Off
<1>4. /\ inserted \in BOOLEAN /\ done \in BOOLEAN
      /\ resent \in BOOLEAN /\ overlapped \in BOOLEAN /\ miscounted \in BOOLEAN
  BY Zenon DEF Init
<1>5. /\ contacts \in SUBSET Contacts /\ daily \in [Contacts -> Nat]
      /\ deliveries \in 0 .. MaxDeliveries /\ faults \in 0 .. MaxFaults
      /\ crashes \in 0 .. MaxCrashes /\ deletes \in 0 .. MaxDeletes
  BY BoundsAssumption DEF Init
<1>6. QED
  BY <1>1, <1>2, <1>3, <1>4, <1>5 DEF TypeOK

\* Every receiver, row and backfill keeps the shape the schema and the Go types
\* give it, and a message without a contact is never counted (onMessage,
\* InsertMessageWithAnalytics, analytics-backfill).
THEOREM MessagesTypeCorrect == Spec => []TypeOK
  BY TypeInitially, TypeKept, PTL DEF Spec

-----------------------------------------------------------------------------
\* The backfill.

\* No message becomes unprocessed again: receivers store rows with their derived
\* columns, and nothing clears these.
LEMMA LeftShrinks ==
  ASSUME TypeOK, [Next]_vars, NEW m \in Messages, Left(m)'
  PROVE  Left(m)
<1>1. ASSUME NEW r \in Receivers, Insert(r) PROVE Left(m)
  <2>1. receiver[r].message \in Messages
    BY <1>1 DEF TypeOK, Insert, BusyReceiver, Idle
  <2>2. QED
    BY <1>1, <2>1 DEF TypeOK, Insert, Left
<1>2. ASSUME NEW b \in Runs, ProcessChunk(b) PROVE Left(m)
  BY <1>2 DEF TypeOK, ProcessChunk, FilledRows, Left
<1>3. ASSUME NEW c \in Contacts, DeleteContact(c) PROVE Left(m)
  BY <1>3 DEF TypeOK, DeleteContact, Left
<1>4. ASSUME row' = row PROVE Left(m)
  BY <1>4 DEF Left
<1>5. QED
  BY <1>1, <1>2, <1>3, <1>4
     DEF Next, Store, Receive, InsertIgnored, InsertFails, Count, CountFails,
         OtherInsert, Backfill, StartBackfill, CountLeft, CountUnread, FetchChunk, MarkDone,
         BackfillFails, AddContact, Crash, vars

\* A count that failed is remembered.
LEMMA MiscountRemembered ==
  ASSUME TypeOK, TypeOK', [Next]_vars PROVE ~miscounted' => ~miscounted
<1>1. ASSUME NEW b \in Runs, CountUnread(b) PROVE miscounted' = TRUE
  BY <1>1 DEF CountUnread
<1>2. ASSUME \A b \in Runs : ~CountUnread(b) PROVE miscounted' = miscounted
  <2>1. ASSUME NEW r \in Receivers, Store(r) PROVE miscounted' = miscounted
    BY <2>1, Zenon DEF Store, Receive, Insert, InsertIgnored, InsertFails, Count,
                       CountFails
  <2>2. ASSUME NEW b \in Runs, Backfill(b) PROVE miscounted' = miscounted
    BY <1>2, <2>2, Zenon DEF Backfill, StartBackfill, CountLeft, FetchChunk,
                             ProcessChunk, MarkDone, BackfillFails
  <2>3. ASSUME NEW c \in Contacts, DeleteContact(c) \/ AddContact(c)
        PROVE  miscounted' = miscounted
    BY <2>3, Zenon DEF DeleteContact, AddContact
  <2>4. QED
    BY <2>1, <2>2, <2>3, Zenon DEF Next, OtherInsert, Crash, vars
<1>3. QED
  BY <1>1, <1>2 DEF TypeOK

\* A backfill that starts, or counts what is left, leaves the others alone.
LEMMA StartsAlone ==
  ASSUME TypeOK, NEW b \in Runs, StartBackfill(b) \/ CountLeft(b) \/ CountUnread(b)
  PROVE  /\ \A a \in Runs : a # b => backfill'[a] = backfill[a]
         /\ backfill'[b].pc \in {"count", "fetch", "mark"}
         /\ StartBackfill(b) => backfill'[b].pc = "count"
         /\ ~StartBackfill(b) => backfill[b].pc = "count" /\ backfill'[b].pc # "count"
<1>1. CASE StartBackfill(b)
  BY <1>1 DEF TypeOK, StartBackfill, Off
<1>2. CASE CountLeft(b)
  BY <1>2 DEF TypeOK, CountLeft, StartBackfill, Off
<1>3. CASE CountUnread(b)
  BY <1>3 DEF TypeOK, CountUnread, StartBackfill, Off
<1>4. QED
  BY <1>1, <1>2, <1>3

\* A backfill that a step leaves alone keeps its progress.
LEMMA ProgressKept ==
  ASSUME TypeOK, TypeOK', [Next]_vars, NEW b \in Runs, Progress(b),
         backfill'[b] = backfill[b]
  PROVE  Progress(b)'
<1>1. \A m \in Messages : Left(m)' => Left(m)
  BY LeftShrinks
<1>2. QED
  BY <1>1, MiscountRemembered DEF Progress

LEMMA OffProgress ==
  ASSUME NEW b \in Runs, backfill'[b] = Off PROVE Progress(b)'
  BY OffType DEF Progress

LEMMA BackfillInvKept ==
  TypeOK /\ TypeOK' /\ BackfillInv /\ [Next]_vars => BackfillInv'
<1> SUFFICES ASSUME TypeOK, TypeOK', BackfillInv, [Next]_vars PROVE BackfillInv'
  OBVIOUS
<1>1. \A m \in Messages : Left(m)' => Left(m)
  BY LeftShrinks
<1>2. ASSUME NEW a \in Runs, backfill'[a] = backfill[a] PROVE Progress(a)'
  BY <1>2, ProgressKept DEF BackfillInv
<1>3. ASSUME done' = done PROVE DoneLeavesNothing'
  BY <1>1, <1>3, MiscountRemembered DEF BackfillInv, DoneLeavesNothing
<1>4. ASSUME backfill' = backfill, done' = done PROVE BackfillInv'
  BY <1>2, <1>3, <1>4 DEF BackfillInv
<1>5. ASSUME NEW b \in Runs, StartBackfill(b) PROVE BackfillInv'
  <2>1. backfill'[b].pc = "count"
    BY <1>5 DEF TypeOK, StartBackfill, Off
  <2>2. Progress(b)'
    BY <2>1 DEF Progress
  <2>3. QED
    BY <1>2, <1>3, <1>5, <2>2 DEF TypeOK, BackfillInv, StartBackfill
<1>6. ASSUME NEW b \in Runs, CountUnread(b) PROVE BackfillInv'
  <2>1. backfill'[b].pc = "mark" /\ miscounted' = TRUE
    BY <1>6 DEF TypeOK, CountUnread, Off
  <2>2. Progress(b)'
    BY <2>1 DEF Progress
  <2>3. \A a \in Runs : a # b => backfill'[a] = backfill[a]
    BY <1>6 DEF TypeOK, CountUnread
  <2>4. QED
    BY <1>2, <2>1, <2>2, <2>3 DEF BackfillInv, DoneLeavesNothing
<1>7. ASSUME NEW b \in Runs, CountLeft(b) PROVE BackfillInv'
  <2>1. CASE Unprocessed(0) = {}
    <3>1. \A m \in Messages : ~Left(m)
      BY <2>1, SetsAssumption DEF Unprocessed
    <3>2. backfill'[b].pc = "mark"
      BY <1>7, <2>1 DEF TypeOK, CountLeft, Off
    <3>3. Progress(b)'
      BY <1>1, <3>1, <3>2 DEF Progress
    <3>4. QED
      BY <1>2, <1>3, <1>7, <3>3 DEF TypeOK, BackfillInv, CountLeft
  <2>2. CASE Unprocessed(0) # {}
    <3>1. backfill'[b].pc = "fetch" /\ backfill'[b].last = 0
      BY <1>7, <2>2 DEF TypeOK, CountLeft, Off
    <3>2. Progress(b)'
      BY <3>1, SetsAssumption DEF Progress
    <3>3. QED
      BY <1>2, <1>3, <1>7, <3>2 DEF TypeOK, BackfillInv, CountLeft
  <2>3. QED
    BY <2>1, <2>2
<1>8. ASSUME NEW b \in Runs, FetchChunk(b) PROVE BackfillInv'
  <2> DEFINE last == backfill[b].last
  <2>1. PICK S \in SUBSET Messages :
          /\ IsChunk(S, last)
          /\ backfill' = [backfill EXCEPT
                ![b].pc = IF S = {} THEN "mark" ELSE "process",
                ![b].chunk = [m \in S |-> row[m].contact]]
    BY <1>8 DEF FetchChunk
  <2>2. \A m \in Messages : Left(m) => m \in Unprocessed(last)
    BY <1>8 DEF BackfillInv, Progress, FetchChunk, Unprocessed
  <2>3. /\ \A m \in Messages : Left(m) => m \in S \/ \A n \in S : n < m
        /\ \A m \in Messages : Left(m) /\ m \notin S => Cardinality(S) = ChunkSize
    BY <2>1, <2>2 DEF IsChunk
  <2>4. /\ backfill'[b].last = last
        /\ backfill'[b].pc = IF S = {} THEN "mark" ELSE "process"
        /\ DOMAIN backfill'[b].chunk = S
    BY <2>1 DEF TypeOK
  <2>5. \A m \in Messages : Left(m)' => m \in Unprocessed(last)
    BY <1>1, <2>2
  <2>6. \A m \in Messages : Left(m)' => last < m
    BY <2>5 DEF Unprocessed
  <2>7. CASE S = {}
    <3>1. \A m \in Messages : ~Left(m)
      BY <2>3, <2>1, <2>2, <2>7, FS_EmptySet, BoundsAssumption DEF IsChunk
    <3>2. Progress(b)'
      BY <1>1, <2>4, <2>7, <3>1 DEF Progress
    <3>3. QED
      BY <1>2, <1>3, <1>8, <2>1, <3>2 DEF TypeOK, BackfillInv, FetchChunk
  <2>8. CASE S # {}
    <3>1. Cardinality(S) < ChunkSize => \A m \in Messages : Left(m) => m \in S
      BY <2>3, BoundsAssumption
    <3>2. Progress(b)'
      BY <1>1, <2>3, <2>4, <2>6, <2>8, <3>1 DEF Progress
    <3>3. QED
      BY <1>2, <1>3, <1>8, <2>1, <3>2 DEF TypeOK, BackfillInv, FetchChunk
  <2>9. QED
    BY <2>7, <2>8
<1>9. ASSUME NEW b \in Runs, ProcessChunk(b) PROVE BackfillInv'
  <2> DEFINE chunk == backfill[b].chunk
  <2>1. PICK last \in DOMAIN chunk : backfill' = [backfill EXCEPT ![b] = AfterChunk(chunk, last)]
    BY <1>9 DEF ProcessChunk
  <2>2. backfill'[b] = AfterChunk(chunk, last)
    BY <2>1 DEF TypeOK
  <2>3. \A m \in Messages : Left(m)' => m \notin DOMAIN chunk
    BY <1>9 DEF TypeOK, ProcessChunk, FilledRows, Left
  <2>4. \A m \in Messages : Left(m)' => last < m
    BY <1>1, <1>9, <2>3 DEF BackfillInv, Progress, ProcessChunk
  <2>5. Cardinality(DOMAIN chunk) < ChunkSize => \A m \in Messages : ~Left(m)'
    BY <1>1, <1>9, <2>3 DEF BackfillInv, Progress, ProcessChunk
  <2>6. Progress(b)'
    BY <2>2, <2>4, <2>5 DEF Progress, AfterChunk
  <2>7. QED
    BY <1>2, <1>3, <1>9, <2>1, <2>6 DEF TypeOK, BackfillInv, ProcessChunk
<1>10. ASSUME NEW b \in Runs, MarkDone(b) PROVE BackfillInv'
  <2>1. ~miscounted' => \A m \in Messages : ~Left(m)'
    BY <1>1, <1>10, MiscountRemembered DEF BackfillInv, Progress, MarkDone
  <2>2. Progress(b)'
    BY <1>10, OffProgress DEF TypeOK, MarkDone
  <2>3. QED
    BY <1>2, <1>10, <2>1, <2>2 DEF TypeOK, BackfillInv, DoneLeavesNothing, MarkDone
<1>11. ASSUME NEW b \in Runs, BackfillFails(b) PROVE BackfillInv'
  <2>1. Progress(b)'
    BY <1>11, OffProgress DEF TypeOK, BackfillFails
  <2>2. QED
    BY <1>2, <1>3, <1>11, <2>1 DEF TypeOK, BackfillInv, BackfillFails
<1>12. CASE Crash
  <2>1. \A b \in Runs : backfill'[b] = backfill[b] \/ backfill'[b] = Off
    BY <1>12 DEF TypeOK, Crash
  <2>2. \A b \in Runs : Progress(b)'
    BY <1>2, <2>1, OffProgress
  <2>3. QED
    BY <1>3, <1>12, <2>2 DEF BackfillInv, Crash
<1>13. QED
  BY <1>4, <1>7, <1>8, <1>9, <1>10, <1>11, <1>12, <1>5, <1>6
     DEF Next, Store, Receive, Insert, InsertIgnored, InsertFails, Count, CountFails,
         OtherInsert, Backfill, DeleteContact, AddContact, vars

\* Once a backfill has been marked as done no message is left without its derived
\* columns, whatever runs failed, crashed or overlapped, as long as none failed to
\* count what is left (analytics-backfill).
THEOREM BackfillComplete == Spec => []DoneLeavesNothing
<1>1. Init => BackfillInv
  BY OffType DEF Init, BackfillInv, Progress, DoneLeavesNothing
<1>2. BackfillInv => DoneLeavesNothing
  BY DEF BackfillInv
<1>3. QED
  BY <1>1, <1>2, MessagesTypeCorrect, BackfillInvKept, PTL DEF Spec

-----------------------------------------------------------------------------
\* The totals.

\* A stored message stays stored, and keeps its contact or loses it.
LEMMA ContactKept ==
  ASSUME TypeOK, [Next]_vars, NEW m \in Messages, row[m].stored
  PROVE  row'[m].stored /\ row'[m].contact \in {row[m].contact, None}
<1>1. ASSUME NEW r \in Receivers, Insert(r)
      PROVE  row'[m].stored /\ row'[m].contact \in {row[m].contact, None}
  <2>1. receiver[r].message # m
    BY <1>1 DEF Insert
  <2>2. QED
    BY <1>1, <2>1 DEF TypeOK, Insert
<1>2. ASSUME NEW b \in Runs, ProcessChunk(b)
      PROVE  row'[m].stored /\ row'[m].contact \in {row[m].contact, None}
  BY <1>2 DEF TypeOK, ProcessChunk, FilledRows
<1>3. ASSUME NEW c \in Contacts, DeleteContact(c)
      PROVE  row'[m].stored /\ row'[m].contact \in {row[m].contact, None}
  BY <1>3 DEF TypeOK, DeleteContact
<1>4. ASSUME row' = row
      PROVE  row'[m].stored /\ row'[m].contact \in {row[m].contact, None}
  BY <1>4
<1>5. QED
  BY <1>1, <1>2, <1>3, <1>4
     DEF Next, Store, Receive, InsertIgnored, InsertFails, Count, CountFails,
         OtherInsert, Backfill, StartBackfill, CountLeft, CountUnread, FetchChunk, MarkDone,
         BackfillFails, AddContact, Crash, vars

LEMMA ChunkCurrentKept == TypeOK /\ ChunkCurrent /\ [Next]_vars => ChunkCurrent'
<1> SUFFICES ASSUME TypeOK, ChunkCurrent, [Next]_vars, NEW a \in Runs,
                    backfill'[a].pc = "process", NEW m \in DOMAIN backfill'[a].chunk
             PROVE  row'[m].stored /\ row'[m].contact \in {backfill'[a].chunk[m], None}
  BY DEF ChunkCurrent
<1>1. CASE backfill'[a] = backfill[a]
  <2>1. /\ m \in Messages /\ row[m].stored
        /\ row[m].contact \in {backfill'[a].chunk[m], None}
    BY <1>1, ChunkDomain DEF TypeOK, ChunkCurrent
  <2>2. QED
    BY <2>1, ContactKept
<1>2. ASSUME NEW b \in Runs, FetchChunk(b)
      PROVE  row'[m].stored /\ row'[m].contact \in {backfill'[a].chunk[m], None}
  <2>1. CASE a # b
    BY <1>1, <1>2, <2>1 DEF TypeOK, FetchChunk
  <2>2. CASE a = b
    <3>1. PICK S \in SUBSET Messages :
            /\ S \subseteq Unprocessed(backfill[b].last)
            /\ backfill' = [backfill EXCEPT
                  ![b].pc = IF S = {} THEN "mark" ELSE "process",
                  ![b].chunk = [n \in S |-> row[n].contact]]
      BY <1>2 DEF FetchChunk, IsChunk
    <3>2. backfill'[a].chunk = [n \in S |-> row[n].contact]
      BY <2>2, <3>1 DEF TypeOK
    <3>3. m \in S /\ backfill'[a].chunk[m] = row[m].contact
      BY <3>2
    <3>4. row[m].stored
      BY <3>1, <3>3 DEF Unprocessed, Left
    <3>5. row' = row
      BY <1>2 DEF FetchChunk
    <3>6. QED
      BY <3>3, <3>4, <3>5
  <2>3. QED
    BY <2>1, <2>2
<1>3. ASSUME NEW b \in Runs, StartBackfill(b) \/ CountLeft(b) \/ CountUnread(b)
      PROVE  backfill'[a] = backfill[a]
  BY <1>3, StartsAlone
<1>4. ASSUME NEW b \in Runs, ProcessChunk(b)
      PROVE  backfill'[a] = backfill[a]
  BY <1>4 DEF TypeOK, ProcessChunk, AfterChunk
<1>5. ASSUME NEW b \in Runs, MarkDone(b) \/ BackfillFails(b)
      PROVE  backfill'[a] = backfill[a]
  BY <1>5, OffType DEF TypeOK, MarkDone, BackfillFails
<1>6. ASSUME Crash
      PROVE  backfill'[a] = backfill[a]
  BY <1>6, OffType DEF TypeOK, Crash
<1>7. QED
  BY <1>1, <1>2, <1>3, <1>4, <1>5, <1>6
     DEF Next, Store, Receive, Insert, InsertIgnored, InsertFails, Count, CountFails,
         StartBackfill, CountLeft, CountUnread, OtherInsert, Backfill, DeleteContact,
         AddContact, vars

LEMMA LinkedKept == TypeOK /\ Linked /\ [Next]_vars => Linked'
<1> SUFFICES ASSUME TypeOK, Linked, [Next]_vars, NEW m \in Messages
             PROVE  row'[m].contact \in contacts' \cup {None}
  BY DEF Linked
<1>1. ASSUME NEW r \in Receivers, Insert(r)
      PROVE  row'[m].contact \in contacts' \cup {None}
  <2>1. receiver[r].message \in Messages
    BY <1>1 DEF TypeOK, Insert, BusyReceiver, Idle
  <2>2. QED
    BY <1>1, <2>1 DEF TypeOK, Linked, Insert
<1>2. ASSUME NEW b \in Runs, ProcessChunk(b)
      PROVE  row'[m].contact \in contacts' \cup {None}
  BY <1>2 DEF TypeOK, Linked, ProcessChunk, FilledRows
<1>3. ASSUME NEW c \in Contacts, DeleteContact(c)
      PROVE  row'[m].contact \in contacts' \cup {None}
  BY <1>3 DEF TypeOK, Linked, DeleteContact
<1>4. ASSUME row' = row, contacts \subseteq contacts'
      PROVE  row'[m].contact \in contacts' \cup {None}
  BY <1>4 DEF Linked
<1>5. QED
  BY <1>1, <1>2, <1>3, <1>4
     DEF Next, Store, Receive, InsertIgnored, InsertFails, Count, CountFails,
         OtherInsert, Backfill, StartBackfill, CountLeft, CountUnread, FetchChunk, MarkDone,
         BackfillFails, AddContact, Crash, vars

LEMMA CountsFinite ==
  ASSUME TypeOK, NEW c \in Contacts
  PROVE  /\ IsFiniteSet(Analysed(c)) /\ Cardinality(Analysed(c)) \in Nat
         /\ IsFiniteSet(Counting(c)) /\ Cardinality(Counting(c)) \in Nat
<1>1. Analysed(c) \subseteq Messages /\ Counting(c) \subseteq Receivers
  BY DEF Analysed, Counting
<1>2. QED
  BY <1>1, SetsAssumption, FS_Subset, FS_CardinalityType

\* A step that analyses nothing more of c and gives up no count keeps the balance.
LEMMA BalanceKept ==
  ASSUME TypeOK, TypeOK', NEW c \in Contacts, Balanced(c),
         Analysed(c)' \subseteq Analysed(c),
         Counting(c) \subseteq Counting(c)',
         daily'[c] >= daily[c]
  PROVE  Balanced(c)'
<1>1. /\ IsFiniteSet(Analysed(c)) /\ Cardinality(Analysed(c)) \in Nat
      /\ Cardinality(Counting(c)) \in Nat
  BY CountsFinite
<1>2. /\ IsFiniteSet(Counting(c)') /\ Cardinality(Counting(c)') \in Nat
      /\ Cardinality(Analysed(c)') \in Nat
  <2>1. Analysed(c)' \subseteq Messages /\ Counting(c)' \subseteq Receivers
    BY DEF Analysed, Counting
  <2>2. QED
    BY <2>1, SetsAssumption, FS_Subset, FS_CardinalityType
<1>3. Cardinality(Analysed(c)') <= Cardinality(Analysed(c))
  BY <1>1, FS_Subset
<1>4. Cardinality(Counting(c)) <= Cardinality(Counting(c)')
  BY <1>2, FS_Subset
<1>5. daily[c] \in Nat /\ daily'[c] \in Nat
  BY DEF TypeOK
<1>6. QED
  BY <1>1, <1>2, <1>3, <1>4, <1>5 DEF Balanced

\* Nothing is analysed of a contact that does not exist.
LEMMA NothingAnalysed ==
  ASSUME Linked, NEW c \in Contacts, c \notin contacts
  PROVE  Analysed(c) = {}
  BY SetsAssumption DEF Linked, Analysed

LEMMA BalanceAfterInsert ==
  ASSUME TypeOK, NEW r \in Receivers, Insert(r), NEW c \in Contacts, Balanced(c)
  PROVE  Balanced(c)'
<1> DEFINE m == receiver[r].message
<1>1. m \in Messages /\ receiver[r].contact \in Contacts \cup {None}
  BY DEF TypeOK, Insert, BusyReceiver, Idle
<1>2. daily' = daily /\ daily[c] \in Nat
  BY DEF TypeOK, Insert
<1>3. CASE receiver[r].contact = c
  <2>1. Analysed(c)' = Analysed(c) \cup {m} /\ m \notin Analysed(c)
    BY <1>1, <1>3 DEF TypeOK, Insert, Analysed
  <2>2. Counting(c)' = Counting(c) \cup {r} /\ r \notin Counting(c)
    BY <1>3, SetsAssumption DEF TypeOK, Insert, AfterInsert, Counting
  <2>3. /\ Cardinality(Analysed(c)') = Cardinality(Analysed(c)) + 1
        /\ Cardinality(Counting(c)') = Cardinality(Counting(c)) + 1
    BY <2>1, <2>2, CountsFinite, FS_AddElement
  <2>4. QED
    BY <1>2, <2>3, CountsFinite DEF Balanced
<1>4. CASE receiver[r].contact # c
  <2>1. Analysed(c)' = Analysed(c)
    BY <1>1, <1>4 DEF TypeOK, Insert, Analysed
  <2>2. Counting(c)' = Counting(c)
    BY <1>4 DEF TypeOK, Insert, AfterInsert, Counting, Idle
  <2>3. QED
    BY <1>2, <2>1, <2>2 DEF Balanced
<1>5. QED
  BY <1>3, <1>4

LEMMA BalanceAfterCount ==
  ASSUME TypeOK, NEW r \in Receivers, Count(r), NEW c \in Contacts, Balanced(c)
  PROVE  Balanced(c)'
<1>1. Analysed(c)' = Analysed(c)
  BY DEF Count, Analysed
<1>2. receiver[r].contact \in Contacts
  BY DEF TypeOK, Count, BusyReceiver, Idle
<1>3. CASE receiver[r].contact = c
  <2>1. Counting(c)' = Counting(c) \ {r} /\ r \in Counting(c)
    BY <1>3 DEF TypeOK, Count, Counting, Idle
  <2>2. Cardinality(Counting(c)') = Cardinality(Counting(c)) - 1
    BY <2>1, CountsFinite, FS_RemoveElement
  <2>3. daily'[c] = daily[c] + 1 /\ daily[c] \in Nat
    BY <1>3 DEF TypeOK, Count
  <2>4. QED
    BY <1>1, <2>2, <2>3, CountsFinite DEF Balanced
<1>4. CASE receiver[r].contact # c
  <2>1. Counting(c)' = Counting(c)
    BY <1>4 DEF TypeOK, Count, Counting, Idle
  <2>2. daily'[c] = daily[c]
    BY <1>2, <1>4 DEF TypeOK, Count
  <2>3. QED
    BY <1>1, <2>1, <2>2 DEF Balanced
<1>5. QED
  BY <1>3, <1>4

LEMMA BalanceAfterChunk ==
  ASSUME TypeOK, ChunkCurrent, NEW b \in Runs, ProcessChunk(b),
         NEW c \in Contacts, Balanced(c)
  PROVE  Balanced(c)'
<1> DEFINE chunk == backfill[b].chunk
           added == {m \in DOMAIN chunk : chunk[m] = c}
<1>1. DOMAIN chunk \subseteq Messages
  BY ChunkDomain DEF TypeOK
<1>2. IsFiniteSet(added) /\ Cardinality(added) \in Nat
  BY <1>1, SetsAssumption, FS_Subset, FS_CardinalityType
<1>3. Analysed(c)' \subseteq Analysed(c) \cup added
  <2>1. ASSUME NEW m \in Messages, m \in Analysed(c)', m \notin Analysed(c)
        PROVE  m \in added
    <3>1. m \in DOMAIN chunk /\ row[m].contact = c
      BY <2>1 DEF TypeOK, ProcessChunk, FilledRows, Analysed
    <3>2. row[m].contact \in {chunk[m], None}
      BY <3>1 DEF ChunkCurrent, ProcessChunk
    <3>3. QED
      BY <3>1, <3>2, SetsAssumption
  <2>2. QED
    BY <2>1 DEF Analysed
<1>4. Cardinality(Analysed(c)') <= Cardinality(Analysed(c)) + Cardinality(added)
  <2>1. /\ IsFiniteSet(Analysed(c) \cup added)
        /\ Cardinality(Analysed(c) \cup added)
             = Cardinality(Analysed(c)) + Cardinality(added)
                 - Cardinality(Analysed(c) \cap added)
    BY <1>2, CountsFinite, FS_Union
  <2>2. Cardinality(Analysed(c) \cap added) \in Nat
    BY <1>2, FS_Intersection, FS_CardinalityType, CountsFinite
  <2>3. /\ Cardinality(Analysed(c)') <= Cardinality(Analysed(c) \cup added)
        /\ Cardinality(Analysed(c)') \in Nat
    BY <1>3, <2>1, FS_Subset, FS_CardinalityType
  <2>4. QED
    BY <1>2, <2>1, <2>2, <2>3, CountsFinite
<1>5. IsFiniteSet(Analysed(c)') /\ Cardinality(Analysed(c)') \in Nat
  BY <1>2, <1>3, CountsFinite, FS_Union, FS_Subset, FS_CardinalityType
<1>6. Counting(c)' = Counting(c)
  BY DEF ProcessChunk, Counting
<1>7. daily'[c] = daily[c] + Cardinality(added) /\ daily[c] \in Nat
  BY DEF TypeOK, ProcessChunk, AddedTotals
<1>8. QED
  BY <1>2, <1>4, <1>5, <1>6, <1>7, CountsFinite DEF Balanced

LEMMA NotUndercountedKept ==
  TypeOK /\ TypeOK' /\ CountInv /\ [Next]_vars => NotUndercounted'
<1> SUFFICES ASSUME TypeOK, TypeOK', CountInv, [Next]_vars,
                    faults' = 0, crashes' = 0, NEW c \in Contacts
             PROVE  Balanced(c)'
  BY DEF NotUndercounted
<1>1. faults = 0 /\ crashes = 0 /\ ~Crash /\ ~Fault
  <2>1. ~Fault /\ ~Crash
    BY DEF TypeOK, Fault, Crash
  <2>2. ASSUME NEW r \in Receivers, Store(r)
        PROVE  faults' = faults /\ crashes' = crashes
    BY <2>1, <2>2 DEF Store, Receive, Insert, InsertIgnored, InsertFails, Count, CountFails
  <2>3. ASSUME NEW b \in Runs, Backfill(b)
        PROVE  faults' = faults /\ crashes' = crashes
    BY <2>1, <2>3 DEF Backfill, StartBackfill, CountLeft, CountUnread, FetchChunk, ProcessChunk, MarkDone,
                      BackfillFails
  <2>4. ASSUME NEW d \in Contacts, DeleteContact(d) \/ AddContact(d)
        PROVE  faults' = faults /\ crashes' = crashes
    BY <2>4 DEF DeleteContact, AddContact
  <2>5. QED
    BY <2>1, <2>2, <2>3, <2>4 DEF Next, OtherInsert, vars
<1>2. Balanced(c) /\ Linked /\ ChunkCurrent
  BY <1>1 DEF CountInv, NotUndercounted
<1>3. daily[c] \in Nat
  BY DEF TypeOK
<1>4. ASSUME row' = row, daily' = daily, Counting(c) \subseteq Counting(c)'
      PROVE  Balanced(c)'
  <2>1. Analysed(c)' = Analysed(c)
    BY <1>4 DEF Analysed
  <2>2. QED
    BY <1>2, <1>3, <1>4, <2>1, BalanceKept
<1>5. ASSUME NEW r \in Receivers, NEW m \in Messages, Receive(r, m) PROVE Balanced(c)'
  <2>1. Counting(c) \subseteq Counting(c)'
    BY <1>5 DEF TypeOK, Receive, Counting, Idle
  <2>2. QED
    BY <1>4, <1>5, <2>1 DEF Receive
<1>6. ASSUME NEW r \in Receivers, Insert(r) PROVE Balanced(c)'
  BY <1>2, <1>6, BalanceAfterInsert
<1>7. ASSUME NEW r \in Receivers, InsertIgnored(r) PROVE Balanced(c)'
  <2>1. Counting(c) \subseteq Counting(c)'
    BY <1>7 DEF TypeOK, InsertIgnored, AfterInsert, Counting, Idle
  <2>2. QED
    BY <1>4, <1>7, <2>1 DEF InsertIgnored
<1>8. ASSUME NEW r \in Receivers, InsertFails(r) PROVE Balanced(c)'
  <2>1. Counting(c) \subseteq Counting(c)'
    BY <1>8 DEF TypeOK, InsertFails, Counting, Idle
  <2>2. QED
    BY <1>4, <1>8, <2>1 DEF InsertFails
<1>9. ASSUME NEW r \in Receivers, Count(r) PROVE Balanced(c)'
  BY <1>2, <1>9, BalanceAfterCount
<1>10. ASSUME NEW r \in Receivers, CountFails(r) PROVE Balanced(c)'
  <2>1. receiver[r].contact \notin contacts
    BY <1>1, <1>10 DEF CountFails
  <2>2. CASE receiver[r].contact = c
    <3>1. Analysed(c)' = {}
      BY <1>2, <1>10, <2>1, <2>2, NothingAnalysed DEF CountFails, Analysed
    <3>2. Cardinality(Counting(c)') \in Nat
      <4>1. Counting(c)' \subseteq Receivers
        BY DEF Counting
      <4>2. QED
        BY <4>1, SetsAssumption, FS_Subset, FS_CardinalityType
    <3>3. daily'[c] \in Nat
      BY DEF TypeOK
    <3>4. QED
      BY <3>1, <3>2, <3>3, FS_EmptySet DEF Balanced
  <2>3. CASE receiver[r].contact # c
    <3>1. Counting(c) \subseteq Counting(c)'
      BY <1>10, <2>3 DEF TypeOK, CountFails, Counting
    <3>2. QED
      BY <1>4, <1>10, <3>1 DEF CountFails
  <2>4. QED
    BY <2>2, <2>3
<1>11. ASSUME NEW b \in Runs, ProcessChunk(b) PROVE Balanced(c)'
  BY <1>2, <1>11, BalanceAfterChunk
<1>12. ASSUME NEW d \in Contacts, DeleteContact(d) PROVE Balanced(c)'
  <2>1. Counting(c)' = Counting(c)
    BY <1>12 DEF DeleteContact, Counting
  <2>2. CASE d = c
    <3>1. Analysed(c)' = {}
      BY <1>12, <2>2, SetsAssumption DEF TypeOK, DeleteContact, Analysed
    <3>2. daily'[c] = 0
      BY <1>12, <2>2 DEF TypeOK, DeleteContact
    <3>3. QED
      BY <2>1, <3>1, <3>2, FS_EmptySet, CountsFinite DEF Balanced
  <2>3. CASE d # c
    <3>1. Analysed(c)' \subseteq Analysed(c)
      BY <1>12, SetsAssumption DEF TypeOK, DeleteContact, Analysed
    <3>2. daily'[c] = daily[c]
      BY <1>12, <2>3 DEF TypeOK, DeleteContact
    <3>3. QED
      BY <1>2, <1>3, <2>1, <3>1, <3>2, BalanceKept
  <2>4. QED
    BY <2>2, <2>3
<1>13. ASSUME row' = row, daily' = daily, receiver' = receiver PROVE Balanced(c)'
  BY <1>4, <1>13 DEF Counting
<1>14. QED
  BY <1>1, <1>5, <1>6, <1>7, <1>8, <1>9, <1>10, <1>11, <1>12, <1>13
     DEF Next, Store, OtherInsert, Backfill, StartBackfill, CountLeft, CountUnread, FetchChunk, MarkDone,
         BackfillFails, AddContact, vars

\* As long as no statement fails and nothing crashes, no message with filled
\* columns is missing from its contact's totals, whatever is deleted between the
\* steps of a receiver (InsertMessageWithAnalytics, analytics-backfill).
THEOREM NothingUncounted == Spec => []NotUndercounted
<1>1. Init => CountInv
  <2> SUFFICES ASSUME Init PROVE CountInv
    OBVIOUS
  <2>1. TypeOK
    BY TypeInitially
  <2>2. ChunkCurrent
    BY OffType DEF Init, ChunkCurrent
  <2>3. Linked
    BY SetsAssumption DEF Init, Linked, Absent
  <2>4. ASSUME NEW c \in Contacts PROVE Balanced(c)
    <3>1. Analysed(c) = {}
      BY DEF Init, Analysed, Absent
    <3>2. QED
      BY <2>1, <3>1, FS_EmptySet, CountsFinite DEF Balanced, TypeOK
  <2>5. QED
    BY <2>2, <2>3, <2>4 DEF CountInv, NotUndercounted
<1>2. TypeOK /\ TypeOK' /\ CountInv /\ [Next]_vars => CountInv'
  BY NotUndercountedKept, ChunkCurrentKept, LinkedKept DEF CountInv
<1>3. CountInv => NotUndercounted
  BY DEF CountInv
<1>4. QED
  BY <1>1, <1>2, <1>3, MessagesTypeCorrect, PTL DEF Spec

-----------------------------------------------------------------------------
\* Nothing is counted twice.

LEMMA AloneKept == TypeOK /\ Alone /\ [Next]_vars => Alone'
<1> SUFFICES ASSUME TypeOK, Alone, [Next]_vars PROVE Alone'
  OBVIOUS
<1>1. ASSUME overlapped' = overlapped,
             \A b \in Runs : backfill'[b].pc # "off" => backfill[b].pc # "off"
      PROVE  Alone'
  BY <1>1 DEF Alone
<1>2. ASSUME NEW b \in Runs, StartBackfill(b) PROVE Alone'
  <2>1. ~overlapped' => \A a \in Runs : backfill[a].pc = "off"
    BY <1>2 DEF StartBackfill
  <2>2. \A a \in Runs : a # b => backfill'[a] = backfill[a]
    BY <1>2 DEF TypeOK, StartBackfill
  <2>3. QED
    BY <2>1, <2>2 DEF Alone
<1>3. ASSUME NEW b \in Runs, FetchChunk(b) PROVE Alone'
  <2>1. \A a \in Runs : backfill'[a].pc # "off" => backfill[a].pc # "off"
    BY <1>3 DEF TypeOK, FetchChunk
  <2>2. QED
    BY <1>1, <1>3, <2>1 DEF FetchChunk
<1>4. ASSUME NEW b \in Runs, ProcessChunk(b) PROVE Alone'
  <2>1. \A a \in Runs : backfill'[a].pc # "off" => backfill[a].pc # "off"
    BY <1>4 DEF TypeOK, ProcessChunk, AfterChunk
  <2>2. QED
    BY <1>1, <1>4, <2>1 DEF ProcessChunk
<1>5. ASSUME NEW b \in Runs, MarkDone(b) \/ BackfillFails(b) PROVE Alone'
  <2>1. \A a \in Runs : backfill'[a].pc # "off" => backfill[a].pc # "off"
    BY <1>5, OffType DEF TypeOK, MarkDone, BackfillFails
  <2>2. QED
    BY <1>1, <1>5, <2>1 DEF MarkDone, BackfillFails
<1>6. CASE Crash
  <2>1. \A a \in Runs : backfill'[a].pc # "off" => backfill[a].pc # "off"
    BY <1>6, OffType DEF TypeOK, Crash
  <2>2. QED
    BY <1>1, <1>6, <2>1 DEF Crash
<1>7. ASSUME NEW b \in Runs, CountLeft(b) \/ CountUnread(b) PROVE Alone'
  <2>1. backfill[b].pc = "count"
    BY <1>7 DEF CountLeft, CountUnread
  <2>2. \A a \in Runs : backfill'[a].pc # "off" => backfill[a].pc # "off"
    BY <1>7, <2>1, StartsAlone
  <2>3. QED
    BY <1>1, <1>7, <2>2 DEF CountLeft, CountUnread
<1>8. QED
  BY <1>1, <1>2, <1>3, <1>4, <1>5, <1>6, <1>7
     DEF Next, Store, Receive, Insert, InsertIgnored, InsertFails, Count, CountFails,
         OtherInsert, Backfill, DeleteContact, AddContact, vars

\* Overlaps and deletions are remembered.
LEMMA HistoryGrows ==
  ASSUME TypeOK, [Next]_vars
  PROVE  /\ ~overlapped' => ~overlapped
         /\ ~resent' => ~resent
         /\ deletes' = 0 => deletes = 0 /\ \A c \in Contacts : ~DeleteContact(c)
<1>1. ASSUME NEW r \in Receivers, Store(r)
      PROVE  (~resent' => ~resent) /\ overlapped' = overlapped /\ deletes' = deletes
  <2>1. ASSUME InsertIgnored(r) PROVE resent' = TRUE
    BY <2>1 DEF InsertIgnored
  <2>2. ASSUME ~InsertIgnored(r) PROVE resent' = resent
    BY <1>1, <2>2, Zenon DEF Store, Receive, Insert, InsertFails, Count, CountFails
  <2>3. overlapped' = overlapped
    BY <1>1, Zenon DEF Store, Receive, Insert, InsertIgnored, InsertFails, Count, CountFails
  <2>4. deletes' = deletes
    BY <1>1 DEF Store, Receive, Insert, InsertIgnored, InsertFails, Count, CountFails
  <2>5. ~resent' => ~resent
    BY <2>1, <2>2 DEF TypeOK
  <2>6. QED
    BY <2>3, <2>4, <2>5, Zenon
<1>2. ASSUME NEW b \in Runs, Backfill(b)
      PROVE  (~overlapped' => ~overlapped) /\ resent' = resent /\ deletes' = deletes
  <2>1. ASSUME StartBackfill(b) PROVE ~overlapped' => ~overlapped
    BY <2>1, Zenon DEF StartBackfill
  <2>2. ASSUME ~StartBackfill(b) PROVE overlapped' = overlapped
    BY <1>2, <2>2, Zenon DEF Backfill, CountLeft, CountUnread, FetchChunk, ProcessChunk,
                             MarkDone, BackfillFails
  <2>3. resent' = resent
    BY <1>2, Zenon DEF Backfill, StartBackfill, CountLeft, CountUnread, FetchChunk,
                       ProcessChunk, MarkDone, BackfillFails
  <2>4. deletes' = deletes
    BY <1>2 DEF Backfill, StartBackfill, CountLeft, CountUnread, FetchChunk,
                ProcessChunk, MarkDone, BackfillFails
  <2>5. ~overlapped' => ~overlapped
    BY <2>1, <2>2 DEF TypeOK
  <2>6. QED
    BY <2>3, <2>4, <2>5, Zenon
<1>3. ASSUME NEW c \in Contacts, DeleteContact(c)
      PROVE  deletes' # 0 /\ resent' = resent /\ overlapped' = overlapped
  BY <1>3 DEF TypeOK, DeleteContact
<1>4. ASSUME NEW c \in Contacts, AddContact(c)
      PROVE  deletes' = deletes /\ resent' = resent /\ overlapped' = overlapped
  BY <1>4 DEF AddContact
<1>5. QED
  BY <1>1, <1>2, <1>3, <1>4 DEF Next, OtherInsert, Crash, vars

\* Rows of a chunk that no other backfill and no deletion touches stay as they are.
LEMMA RowKept ==
  ASSUME TypeOK, [Next]_vars, NEW m \in Messages, row[m].stored,
         \A b \in Runs : ~ProcessChunk(b), \A c \in Contacts : ~DeleteContact(c)
  PROVE  row'[m] = row[m]
<1>1. ASSUME NEW r \in Receivers, Insert(r) PROVE row'[m] = row[m]
  <2>1. receiver[r].message # m
    BY <1>1 DEF Insert
  <2>2. QED
    BY <1>1, <2>1 DEF TypeOK, Insert
<1>2. QED
  BY <1>1 DEF Next, Store, Receive, InsertIgnored, InsertFails, Count, CountFails,
         OtherInsert, Backfill, StartBackfill, CountLeft, CountUnread, FetchChunk, MarkDone,
         BackfillFails, AddContact, Crash, vars

LEMMA ChunkFreshKept == TypeOK /\ Alone /\ ChunkFresh /\ [Next]_vars => ChunkFresh'
<1> SUFFICES ASSUME TypeOK, Alone, ChunkFresh, [Next]_vars,
                    ~overlapped', deletes' = 0, NEW a \in Runs,
                    backfill'[a].pc = "process", NEW m \in DOMAIN backfill'[a].chunk
             PROVE  Left(m)' /\ row'[m].contact = backfill'[a].chunk[m]
  BY DEF ChunkFresh
<1>1. ~overlapped /\ deletes = 0 /\ \A c \in Contacts : ~DeleteContact(c)
  BY HistoryGrows
<1>2. ASSUME backfill'[a] = backfill[a], \A b \in Runs : ~ProcessChunk(b)
      PROVE  Left(m)' /\ row'[m].contact = backfill'[a].chunk[m]
  <2>1. m \in Messages /\ Left(m) /\ row[m].contact = backfill[a].chunk[m]
    BY <1>1, <1>2, ChunkDomain DEF TypeOK, ChunkFresh
  <2>2. row'[m] = row[m]
    BY <1>1, <1>2, <2>1, RowKept DEF Left
  <2>3. QED
    BY <1>2, <2>1, <2>2 DEF Left
<1>3. ASSUME NEW b \in Runs, FetchChunk(b), a = b
      PROVE  Left(m)' /\ row'[m].contact = backfill'[a].chunk[m]
  <2>1. PICK S \in SUBSET Messages :
          /\ S \subseteq Unprocessed(backfill[b].last)
          /\ backfill' = [backfill EXCEPT
                ![b].pc = IF S = {} THEN "mark" ELSE "process",
                ![b].chunk = [n \in S |-> row[n].contact]]
    BY <1>3 DEF FetchChunk, IsChunk
  <2>2. backfill'[a].chunk = [n \in S |-> row[n].contact]
    BY <1>3, <2>1 DEF TypeOK
  <2>3. m \in S /\ backfill'[a].chunk[m] = row[m].contact /\ Left(m)
    BY <2>1, <2>2 DEF Unprocessed
  <2>4. row' = row
    BY <1>3 DEF FetchChunk
  <2>5. QED
    BY <2>3, <2>4 DEF Left
<1>4. ASSUME NEW b \in Runs, FetchChunk(b), a # b
      PROVE  backfill'[a] = backfill[a]
  BY <1>4 DEF TypeOK, FetchChunk
<1>5. \A b \in Runs : ~ProcessChunk(b)
  <2> SUFFICES ASSUME NEW b \in Runs, ProcessChunk(b) PROVE FALSE
    OBVIOUS
  <2>1. a # b /\ backfill'[a] = backfill[a]
    BY DEF TypeOK, ProcessChunk, AfterChunk
  <2>2. QED
    BY <1>1, <2>1 DEF Alone, ProcessChunk
<1>6. ASSUME NEW b \in Runs, StartBackfill(b) \/ CountLeft(b) \/ CountUnread(b)
      PROVE  backfill'[a] = backfill[a]
  BY <1>6, StartsAlone
<1>7. ASSUME NEW b \in Runs, MarkDone(b) \/ BackfillFails(b)
      PROVE  backfill'[a] = backfill[a]
  BY <1>7, OffType DEF TypeOK, MarkDone, BackfillFails
<1>8. ASSUME Crash
      PROVE  backfill'[a] = backfill[a]
  BY <1>8, OffType DEF TypeOK, Crash
<1>9. ASSUME NEW r \in Receivers, Store(r)
      PROVE  backfill'[a] = backfill[a]
  BY <1>9 DEF Store, Receive, Insert, InsertIgnored, InsertFails, Count, CountFails
<1>10. QED
  BY <1>1, <1>2, <1>3, <1>4, <1>5, <1>6, <1>7, <1>8, <1>9
     DEF Next, OtherInsert, Backfill, AddContact, vars

\* A step that counts nothing more of c and takes nothing back keeps the totals.
LEMMA OnceKept ==
  ASSUME TypeOK, TypeOK', NEW c \in Contacts, CountedOnce(c),
         Analysed(c) \subseteq Analysed(c)',
         Counting(c)' \subseteq Counting(c),
         daily' = daily
  PROVE  CountedOnce(c)'
<1>1. /\ Cardinality(Analysed(c)) \in Nat
      /\ IsFiniteSet(Counting(c)) /\ Cardinality(Counting(c)) \in Nat
  BY CountsFinite
<1>2. /\ IsFiniteSet(Analysed(c)') /\ Cardinality(Analysed(c)') \in Nat
      /\ Cardinality(Counting(c)') \in Nat
  <2>1. Analysed(c)' \subseteq Messages /\ Counting(c)' \subseteq Receivers
    BY DEF Analysed, Counting
  <2>2. QED
    BY <2>1, SetsAssumption, FS_Subset, FS_CardinalityType
<1>3. Cardinality(Analysed(c)) <= Cardinality(Analysed(c)')
  BY <1>2, FS_Subset
<1>4. Cardinality(Counting(c)') <= Cardinality(Counting(c))
  BY <1>1, FS_Subset
<1>5. daily[c] \in Nat
  BY DEF TypeOK
<1>6. QED
  BY <1>1, <1>2, <1>3, <1>4, <1>5 DEF CountedOnce

LEMMA OnceAfterInsert ==
  ASSUME TypeOK, NEW r \in Receivers, Insert(r), NEW c \in Contacts, CountedOnce(c)
  PROVE  CountedOnce(c)'
<1> DEFINE m == receiver[r].message
<1>1. m \in Messages
  BY DEF TypeOK, Insert, BusyReceiver, Idle
<1>2. daily' = daily /\ daily[c] \in Nat
  BY DEF TypeOK, Insert
<1>3. CASE receiver[r].contact = c
  <2>1. Analysed(c)' = Analysed(c) \cup {m} /\ m \notin Analysed(c)
    BY <1>1, <1>3 DEF TypeOK, Insert, Analysed
  <2>2. Counting(c)' = Counting(c) \cup {r} /\ r \notin Counting(c)
    BY <1>3, SetsAssumption DEF TypeOK, Insert, AfterInsert, Counting
  <2>3. /\ Cardinality(Analysed(c)') = Cardinality(Analysed(c)) + 1
        /\ Cardinality(Counting(c)') = Cardinality(Counting(c)) + 1
    BY <2>1, <2>2, CountsFinite, FS_AddElement
  <2>4. QED
    BY <1>2, <2>3, CountsFinite DEF CountedOnce
<1>4. CASE receiver[r].contact # c
  <2>1. Analysed(c)' = Analysed(c)
    BY <1>1, <1>4 DEF TypeOK, Insert, Analysed
  <2>2. Counting(c)' = Counting(c)
    BY <1>4 DEF TypeOK, Insert, AfterInsert, Counting, Idle
  <2>3. QED
    BY <1>2, <2>1, <2>2 DEF CountedOnce
<1>5. QED
  BY <1>3, <1>4

LEMMA OnceAfterCount ==
  ASSUME TypeOK, NEW r \in Receivers, Count(r), NEW c \in Contacts, CountedOnce(c)
  PROVE  CountedOnce(c)'
<1>1. Analysed(c)' = Analysed(c)
  BY DEF Count, Analysed
<1>2. CASE receiver[r].contact = c
  <2>1. Counting(c)' = Counting(c) \ {r} /\ r \in Counting(c)
    BY <1>2 DEF TypeOK, Count, Counting, Idle
  <2>2. Cardinality(Counting(c)') = Cardinality(Counting(c)) - 1
    BY <2>1, CountsFinite, FS_RemoveElement
  <2>3. daily'[c] = daily[c] + 1 /\ daily[c] \in Nat
    BY <1>2 DEF TypeOK, Count
  <2>4. QED
    BY <1>1, <2>2, <2>3, CountsFinite DEF CountedOnce
<1>3. CASE receiver[r].contact # c
  <2>1. Counting(c)' = Counting(c)
    BY <1>3 DEF TypeOK, Count, Counting, Idle
  <2>2. daily'[c] = daily[c]
    BY <1>3 DEF TypeOK, Count
  <2>3. QED
    BY <1>1, <2>1, <2>2 DEF CountedOnce
<1>4. QED
  BY <1>2, <1>3

\* A fresh chunk turns as many messages of c into analysed ones as it counts.
LEMMA OnceAfterChunk ==
  ASSUME TypeOK, ChunkFresh, ~overlapped, deletes = 0,
         NEW b \in Runs, ProcessChunk(b), NEW c \in Contacts, CountedOnce(c)
  PROVE  CountedOnce(c)'
<1> DEFINE chunk == backfill[b].chunk
           added == {m \in DOMAIN chunk : chunk[m] = c}
<1>1. DOMAIN chunk \subseteq Messages
  BY ChunkDomain DEF TypeOK
<1>2. IsFiniteSet(added) /\ Cardinality(added) \in Nat
  BY <1>1, SetsAssumption, FS_Subset, FS_CardinalityType
<1>3. \A m \in added : Left(m) /\ row[m].contact = c /\ m \in Messages
  BY <1>1 DEF ChunkFresh, ProcessChunk
<1>4. Analysed(c) \cap added = {}
  BY <1>3 DEF Analysed, Left
<1>5. Analysed(c) \cup added \subseteq Analysed(c)'
  BY <1>3 DEF TypeOK, ProcessChunk, FilledRows, Analysed, Left
<1>6. Cardinality(Analysed(c) \cup added) = Cardinality(Analysed(c)) + Cardinality(added)
  <2>1. Cardinality(Analysed(c) \cap added) = 0
    BY <1>4, FS_EmptySet
  <2>2. Cardinality(Analysed(c) \cup added)
          = Cardinality(Analysed(c)) + Cardinality(added)
              - Cardinality(Analysed(c) \cap added)
    BY <1>2, CountsFinite, FS_Union
  <2>3. QED
    BY <1>2, <2>1, <2>2, CountsFinite
<1>7. IsFiniteSet(Analysed(c)') /\ Cardinality(Analysed(c)') \in Nat
  <2>1. Analysed(c)' \subseteq Messages
    BY DEF Analysed
  <2>2. QED
    BY <2>1, SetsAssumption, FS_Subset, FS_CardinalityType
<1>8. Cardinality(Analysed(c)) + Cardinality(added) <= Cardinality(Analysed(c)')
  BY <1>5, <1>6, <1>7, FS_Subset
<1>9. Counting(c)' = Counting(c)
  BY DEF ProcessChunk, Counting
<1>10. daily'[c] = daily[c] + Cardinality(added) /\ daily[c] \in Nat
  BY DEF TypeOK, ProcessChunk, AddedTotals
<1>11. QED
  BY <1>2, <1>7, <1>8, <1>9, <1>10, CountsFinite DEF CountedOnce

LEMMA NotOvercountedKept ==
  TypeOK /\ TypeOK' /\ OnceInv /\ [Next]_vars => NotOvercounted'
<1> SUFFICES ASSUME TypeOK, TypeOK', OnceInv, [Next]_vars,
                    ~resent', ~overlapped', deletes' = 0, NEW c \in Contacts
             PROVE  CountedOnce(c)'
  BY DEF NotOvercounted
<1>1. /\ ~resent /\ ~overlapped /\ deletes = 0
      /\ \A d \in Contacts : ~DeleteContact(d)
  BY HistoryGrows
<1>2. CountedOnce(c) /\ ChunkFresh
  BY <1>1 DEF OnceInv, NotOvercounted
<1>3. ASSUME row' = row, daily' = daily, Counting(c)' \subseteq Counting(c)
      PROVE  CountedOnce(c)'
  <2>1. Analysed(c)' = Analysed(c)
    BY <1>3 DEF Analysed
  <2>2. QED
    BY <1>2, <1>3, <2>1, OnceKept
<1>4. ASSUME NEW r \in Receivers, NEW m \in Messages, Receive(r, m) PROVE CountedOnce(c)'
  <2>1. Counting(c)' \subseteq Counting(c)
    BY <1>4 DEF TypeOK, Receive, Counting
  <2>2. QED
    BY <1>3, <1>4, <2>1 DEF Receive
<1>5. ASSUME NEW r \in Receivers, Insert(r) PROVE CountedOnce(c)'
  BY <1>2, <1>5, OnceAfterInsert
<1>6. ASSUME NEW r \in Receivers PROVE ~InsertIgnored(r)
  BY <1>6 DEF InsertIgnored
<1>7. ASSUME NEW r \in Receivers, InsertFails(r) \/ CountFails(r) PROVE CountedOnce(c)'
  <2>1. Counting(c)' \subseteq Counting(c)
    BY <1>7 DEF TypeOK, InsertFails, CountFails, Counting, Idle
  <2>2. QED
    BY <1>3, <1>7, <2>1 DEF InsertFails, CountFails
<1>8. ASSUME NEW r \in Receivers, Count(r) PROVE CountedOnce(c)'
  BY <1>2, <1>8, OnceAfterCount
<1>9. ASSUME NEW b \in Runs, ProcessChunk(b) PROVE CountedOnce(c)'
  BY <1>1, <1>2, <1>9, OnceAfterChunk
<1>10. CASE Crash
  <2>1. Counting(c)' \subseteq Counting(c)
    BY <1>10 DEF TypeOK, Crash, Counting, Idle
  <2>2. QED
    BY <1>3, <1>10, <2>1 DEF Crash
<1>11. ASSUME row' = row, daily' = daily, receiver' = receiver PROVE CountedOnce(c)'
  BY <1>3, <1>11 DEF Counting
<1>12. QED
  BY <1>1, <1>4, <1>5, <1>6, <1>7, <1>8, <1>9, <1>10, <1>11
     DEF Next, Store, OtherInsert, Backfill, StartBackfill, CountLeft, CountUnread, FetchChunk, MarkDone,
         BackfillFails, AddContact, vars

\* While no message is delivered twice, no contact is deleted and no two backfills
\* overlap, nothing is counted twice, whatever fails or crashes in between
\* (InsertMessageWithAnalytics, analytics-backfill).
THEOREM NothingCountedTwice == Spec => []NotOvercounted
<1>1. Init => OnceInv
  <2> SUFFICES ASSUME Init PROVE OnceInv
    OBVIOUS
  <2>1. TypeOK
    BY TypeInitially
  <2>2. Alone /\ ChunkFresh
    BY OffType DEF Init, Alone, ChunkFresh
  <2>3. ASSUME NEW c \in Contacts PROVE CountedOnce(c)
    <3>1. Counting(c) = {}
      BY DEF Init, Counting, Idle
    <3>2. daily[c] = 0
      BY DEF Init
    <3>3. QED
      BY <2>1, <3>1, <3>2, FS_EmptySet, CountsFinite DEF CountedOnce
  <2>4. QED
    BY <2>2, <2>3 DEF OnceInv, NotOvercounted
<1>2. TypeOK /\ TypeOK' /\ OnceInv /\ [Next]_vars => OnceInv'
  BY NotOvercountedKept, ChunkFreshKept, AloneKept DEF OnceInv
<1>3. OnceInv => NotOvercounted
  BY DEF OnceInv
<1>4. QED
  BY <1>1, <1>2, <1>3, MessagesTypeCorrect, PTL DEF Spec

-----------------------------------------------------------------------------
\* The pairing.

Known == Clients \cup {Nobody}

PairingType ==
  /\ rows \in [Ids -> Known]
  /\ device \in [Clients -> {"unused", "fresh", "linked", "removed"}]
  /\ link \in [Clients -> {"down", "open", "on", "redial", "failed"}]
  /\ handler \in [Clients -> 0 .. MaxId + 1]
  /\ byID \in [Ids -> Known] /\ tracker \in [Ids -> Known]
  /\ flow \in [Clients -> {"off", "live", "ended", "closing"}]
  /\ phone \in [Clients -> {"off", "dialling", "given", "refused"}]
  /\ callback \in [Clients -> [at : {"off", "insert", "failed", "register", "start", "done"},
                               id : 0 .. MaxId]]

\* What is not logged in has called nobody and belongs to nobody.
Early ==
  \A c \in Clients : ~LoggedIn(c) =>
    /\ c \notin connected /\ link[c] \notin {"on", "redial"} /\ callback[c].at = "off"
    /\ \A i \in Ids : byID[i] # c /\ tracker[i] # c

\* No pairing knows of a device that is not created.
Unused ==
  \A c \in Clients : device[c] = "unused" =>
    flow[c] = "off" /\ phone[c] = "off" /\ link[c] # "open" /\ code # c

\* A client is paired by QR code or by phone.
OneWay == \A c \in Clients : flow[c] # "off" => phone[c] = "off"

\* A phone pairing without a code has the slot, or was refused.
Phones ==
  \A c \in Clients :
    /\ phone[c] \in {"dialling", "refused"} => device[c] = "fresh" /\ code # c
    /\ phone[c] = "dialling" => pending = c

\* A callback keeps the slot until it registers, and knows its account's row.
Callbacks ==
  \A c \in Clients :
    /\ callback[c].at # "off" => c \in fired
    /\ callback[c].at \in {"insert", "register"} => pending = c
    /\ callback[c].at \in {"register", "start"} =>
         /\ callback[c].id \in Ids
         /\ callback[c].id \in deleted \/ rows[callback[c].id] = c

\* A cleanup that closes its client has the slot, and the client has not logged in.
Closing ==
  \A c \in Clients : flow[c] = "closing" =>
    pending = c /\ c \notin connected /\ callback[c].at = "off" /\ link[c] # "on"

\* A client that may yet call OnPaired.
Hopeful(c) ==
  /\ handler[c] = PairingHandler /\ c \notin fired
  /\ \/ c \in connected
     \/ link[c] \in {"on", "redial"}
     \/ device[c] = "fresh" /\ link[c] = "open" /\ phone[c] # "refused"

Hopes == \A c \in Clients : Hopeful(c) => pending = c

\* No tracker and no start of the program has a client that waits to be paired.
Handlers ==
  /\ \A c \in Clients, i \in Ids : tracker[i] = c => handler[c] # PairingHandler
  /\ \A c \in Clients : phase # "serving" => handler[c] # PairingHandler
  /\ \A c \in Clients : phase = "loading" => handler[c] = NoHandler /\ callback[c].at = "off"

\* ClientsAreTheirs, of every id that had no other account in this process.
Theirs ==
  \A i \in Ids : i \notin deleted =>
    /\ byID[i] \in {Nobody, rows[i]} /\ tracker[i] \in {Nobody, rows[i]}
    /\ \A c \in Clients : handler[c] = i => rows[i] = c

PairingInv == /\ PairingType /\ Early /\ Unused /\ OneWay /\ Phones /\ Callbacks
              /\ Closing /\ Hopes /\ Handlers /\ Theirs

-----------------------------------------------------------------------------
\* The id of a new row is after every id there is, so no row has it.
LEMMA NextIdFree ==
  ASSUME NextId \in Ids PROVE rows[NextId] = Nobody
<1> DEFINE below == {n \in Ids : \E i \in Ids : n <= i /\ rows[i] # Nobody}
<1> SUFFICES ASSUME rows[NextId] # Nobody PROVE FALSE
  OBVIOUS
<1>1. MaxId \in Nat /\ IsFiniteSet(Ids)
  BY PairBounds, FS_Interval DEF Ids
<1>2. IsFiniteSet(below) /\ Cardinality(below) \in Nat
  BY <1>1, FS_Subset, FS_CardinalityType
<1>3. 1 .. NextId \subseteq below
  BY <1>1 DEF Ids
<1>4. Cardinality(1 .. NextId) = NextId
  BY <1>1, FS_Interval DEF Ids
<1>5. Cardinality(1 .. NextId) <= Cardinality(below)
  BY <1>2, <1>3, FS_Subset
<1> QED
  BY <1>2, <1>4, <1>5 DEF NextId

\* A view of the card goes.
LEMMA ShowTabKeeps ==
  ASSUME PairingInv, ShowTab
  PROVE  PairingInv'
<1> USE DEF PairingInv, ShowTab, LoggedIn, store, wa, mgr, work, bounds
<1>1. PairingType' /\ Early' /\ OneWay' /\ Callbacks' /\ Closing' /\ Hopes' /\ Handlers' /\
   Theirs'
  BY DEF PairingType, Early, OneWay, Callbacks, Closing, Hopes, Hopeful, Handlers, Theirs
<1>2. Unused'
  BY NobodyAssumption DEF Unused
<1>3. Phones'
  BY NobodyAssumption DEF Phones
<1> QED
  BY <1>1, <1>2, <1>3

\* A request is on its way.
LEMMA PressKeeps ==
  ASSUME PairingInv, Press
  PROVE  PairingInv'
<1> USE DEF PairingInv, Press, LoggedIn, store, wa, mgr, work, bounds
<1>1. PairingType' /\ Early' /\ Unused' /\ OneWay' /\ Phones' /\ Callbacks' /\ Closing' /\
   Hopes' /\ Handlers' /\ Theirs'
  BY DEF PairingType, Early, Unused, OneWay, Phones, Callbacks, Closing, Hopes, Hopeful,
     Handlers, Theirs
<1> QED
  BY <1>1

\* The new client takes the free slot, or its dial has failed and it can never log in.
LEMMA StartQRPairingKeeps ==
  ASSUME PairingInv, StartQRPairing
  PROVE  PairingInv'
<1> USE DEF PairingInv, StartQRPairing, LoggedIn, store, wa, Fails, SlotLocked,
   Answered, NewPendingClient, PairingHandler
<1>1. PairingType'
  BY PairBounds DEF PairingType, Known
<1>2. Early'
  BY DEF Early, PairingType
<1>3. Unused'
  BY DEF Unused, PairingType
<1>4. OneWay'
  BY DEF OneWay, Unused, PairingType
<1>5. Phones'
  BY NobodyAssumption DEF Phones, PairingType
<1>6. Callbacks'
  BY NobodyAssumption DEF Callbacks
<1>7. Closing'
  BY DEF Closing, PairingType
<1>8. Hopes'
  BY NobodyAssumption DEF Hopes, Hopeful, Unused, Early, PairingType
<1>9. Handlers'
  BY DEF Handlers, Early, PairingType
<1>10. Theirs'
  BY PairBounds DEF Theirs, PairingType, Ids
<1> QED
  BY <1>1, <1>2, <1>3, <1>4, <1>5, <1>6, <1>7, <1>8, <1>9, <1>10

\* Only a device that waits to be linked is shown.
LEMMA QRCodeKeeps ==
  ASSUME PairingInv, NEW c \in Clients, QRCode(c)
  PROVE  PairingInv'
<1> USE DEF PairingInv, QRCode, LoggedIn, store, wa, mgr, work, bounds
<1>1. PairingType' /\ Early' /\ Unused' /\ OneWay' /\ Callbacks' /\ Closing' /\ Hopes' /\
   Handlers' /\ Theirs'
  BY DEF PairingType, Early, Unused, OneWay, Callbacks, Closing, Hopes, Hopeful,
     Handlers, Theirs
<1>2. Phones'
  BY DEF Phones, OneWay
<1> QED
  BY <1>1, <1>2

\* A socket that closes takes hopes away.
LEMMA FlowEndsKeeps ==
  ASSUME PairingInv, NEW c \in Clients, FlowEnds(c)
  PROVE  PairingInv'
<1> USE DEF PairingInv, FlowEnds, LoggedIn, store, mgr, web, bounds
<1>1. PairingType' /\ OneWay' /\ Phones' /\ Callbacks' /\ Handlers' /\ Theirs'
  BY DEF PairingType, OneWay, Phones, Callbacks, Handlers, Theirs
<1>2. Early'
  BY DEF Early, PairingType
<1>3. Unused'
  BY DEF Unused, PairingType
<1>4. Closing'
  BY DEF Closing, PairingType
<1>5. Hopes'
  BY DEF Hopes, Hopeful, PairingType
<1> QED
  BY <1>1, <1>2, <1>3, <1>4, <1>5

\* The check gives Closing: pending, and not logged in.
LEMMA CleanupChecksKeeps ==
  ASSUME PairingInv, NEW c \in Clients, CleanupChecks(c)
  PROVE  PairingInv'
<1> USE DEF PairingInv, CleanupChecks, LoggedIn, store, wa, mgr, web, bounds,
   SlotLocked
<1>1. PairingType' /\ Early' /\ Unused' /\ OneWay' /\ Phones' /\ Callbacks' /\ Hopes' /\
   Handlers' /\ Theirs'
  BY DEF PairingType, Early, Unused, OneWay, Phones, Callbacks, Hopes, Hopeful, Handlers,
     Theirs
<1>2. Closing'
  BY DEF Closing, Early
<1> QED
  BY <1>1, <1>2

\* The slot is freed and its client, the only hopeful one, is closed.
LEMMA CleanupClosesKeeps ==
  ASSUME PairingInv, NEW c \in Clients, CleanupCloses(c)
  PROVE  PairingInv'
<1> USE DEF PairingInv, CleanupCloses, LoggedIn, store, web, bounds
<1>1. PairingType' /\ Early' /\ Unused' /\ OneWay' /\ Handlers' /\ Theirs'
  BY DEF PairingType, Early, Unused, OneWay, Handlers, Theirs
<1>2. Phones'
  BY DEF Phones, OneWay, Closing
<1>3. Callbacks'
  BY DEF Callbacks, Closing
<1>4. Closing'
  BY DEF Closing, PairingType
<1>5. Hopes'
  BY DEF Hopes, Hopeful, Closing, PairingType
<1> QED
  BY <1>1, <1>2, <1>3, <1>4, <1>5

\* The new client takes the free slot.
LEMMA PairPhoneKeeps ==
  ASSUME PairingInv, PairPhone
  PROVE  PairingInv'
<1> USE DEF PairingInv, PairPhone, LoggedIn, bounds, SlotLocked, Answered,
   NewPendingClient, PairingHandler
<1>1. Closing'
  BY SMTT(30) DEF Closing
<1>2. PairingType'
  BY SMTT(30), PairBounds DEF PairingType, Known
<1>3. Early'
  BY DEF Early, PairingType
<1>4. Unused'
  BY DEF Unused, PairingType
<1>5. OneWay'
  BY DEF OneWay, Unused, PairingType
<1>6. Phones'
  BY NobodyAssumption DEF Phones, Unused, PairingType
<1>7. Callbacks'
  BY NobodyAssumption DEF Callbacks
<1>8. Hopes'
  BY NobodyAssumption DEF Hopes, Hopeful, PairingType
<1>9. Handlers'
  BY DEF Handlers, Early, PairingType
<1>10. Theirs'
  BY PairBounds DEF Theirs, PairingType, Ids
<1> QED
  BY <1>1, <1>2, <1>3, <1>4, <1>5, <1>6, <1>7, <1>8, <1>9, <1>10

\* The client that dials has the slot.
LEMMA PhoneCodeKeeps ==
  ASSUME PairingInv, NEW c \in Clients, PhoneCode(c)
  PROVE  PairingInv'
<1> USE DEF PairingInv, PhoneCode, LoggedIn, store, mgr, bounds
<1>1. PairingType' /\ Early' /\ Unused' /\ OneWay' /\ Callbacks' /\ Closing' /\ Handlers' /\
   Theirs'
  BY DEF PairingType, Early, Unused, OneWay, Callbacks, Closing, Handlers, Theirs
<1>2. Phones'
  BY DEF Phones, PairingType
<1>3. Hopes'
  BY DEF Hopes, Hopeful, Phones
<1> QED
  BY <1>1, <1>2, <1>3

\* The refused client has no code anybody could enter.
LEMMA PhoneFailsKeeps ==
  ASSUME PairingInv, NEW c \in Clients, PhoneFails(c)
  PROVE  PairingInv'
<1> USE DEF PairingInv, PhoneFails, LoggedIn, store, web, Fails, SlotLocked
<1>1. PairingType' /\ OneWay' /\ Closing' /\ Handlers' /\ Theirs'
  BY DEF PairingType, OneWay, Closing, Handlers, Theirs
<1>2. Early'
  BY DEF Early, PairingType
<1>3. Unused'
  BY DEF Unused, PairingType
<1>4. Phones'
  BY DEF Phones, PairingType
<1>5. Callbacks'
  BY DEF Callbacks, Early, Phones
<1>6. Hopes'
  BY DEF Hopes, Hopeful, Phones, Early, PairingType
<1> QED
  BY <1>1, <1>2, <1>3, <1>4, <1>5, <1>6

\* A socket that closes takes hopes away.
LEMMA PhoneClosesKeeps ==
  ASSUME PairingInv, NEW c \in Clients, PhoneCloses(c)
  PROVE  PairingInv'
<1> USE DEF PairingInv, PhoneCloses, LoggedIn, store, mgr, web, bounds
<1>1. PairingType' /\ Early' /\ Unused' /\ OneWay' /\ Phones' /\ Callbacks' /\ Closing' /\
   Handlers' /\ Theirs'
  BY DEF PairingType, Early, Unused, OneWay, Phones, Callbacks, Closing, Handlers, Theirs
<1>2. Hopes'
  BY DEF Hopes, Hopeful, PairingType
<1> QED
  BY <1>1, <1>2

\* The client was hopeful with its socket open and a code; it still is.
LEMMA LinkKeeps ==
  ASSUME PairingInv, NEW c \in Clients, Link(c)
  PROVE  PairingInv'
<1> USE DEF PairingInv, Link, LoggedIn, mgr, work, web, bounds
<1>1. PairingType' /\ Unused' /\ OneWay' /\ Phones' /\ Callbacks' /\ Closing' /\ Handlers' /\
   Theirs'
  BY DEF PairingType, Unused, OneWay, Phones, Callbacks, Closing, Handlers, Theirs
<1>2. Early'
  BY DEF Early, PairingType
<1>3. Hopes'
  BY DEF Hopes, Hopeful, Phones
<1> QED
  BY <1>1, <1>2, <1>3

\* Redialling and logged in are equally hopeful, and no client logs in while it
\* is being closed.
LEMMA LogsInKeeps ==
  ASSUME PairingInv, NEW c \in Clients, LogsIn(c)
  PROVE  PairingInv'
<1> USE DEF PairingInv, LogsIn, LoggedIn, store, mgr, work, web, bounds
<1>1. PairingType' /\ Early' /\ Unused' /\ OneWay' /\ Phones' /\ Callbacks' /\ Closing' /\
   Hopes' /\ Handlers' /\ Theirs'
  BY DEF PairingType, Early, Unused, OneWay, Phones, Callbacks, Closing, Hopes, Hopeful,
     Handlers, Theirs
<1> QED
  BY <1>1

\* Logged in and redialling are equally hopeful.
LEMMA DropsKeeps ==
  ASSUME PairingInv, NEW c \in Clients, Drops(c)
  PROVE  PairingInv'
<1> USE DEF PairingInv, Drops, LoggedIn, store, mgr, work, web
<1>1. PairingType' /\ Early' /\ Unused' /\ OneWay' /\ Phones' /\ Callbacks' /\ Closing' /\
   Hopes' /\ Handlers' /\ Theirs'
  BY DEF PairingType, Early, Unused, OneWay, Phones, Callbacks, Closing, Hopes, Hopeful,
     Handlers, Theirs
<1> QED
  BY <1>1

\* The callback that starts takes over the slot its hopeful client had.
LEMMA DispatchKeeps ==
  ASSUME PairingInv, NEW c \in Clients, Dispatch(c)
  PROVE  PairingInv'
<1> USE DEF PairingInv, Dispatch, LoggedIn, store, web, bounds, PairingHandler
<1>1. Unused' /\ OneWay' /\ Phones' /\ Handlers' /\ Theirs'
  BY DEF Unused, OneWay, Phones, Handlers, Theirs
<1>2. PairingType'
  BY DEF PairingType
<1>3. Early'
  BY DEF Early, PairingType
<1>4. Callbacks'
  BY DEF Callbacks, PairingType, Hopes, Hopeful
<1>5. Closing'
  BY DEF Closing, PairingType
<1>6. Hopes'
  BY DEF Hopes, Hopeful
<1> QED
  BY <1>1, <1>2, <1>3, <1>4, <1>5, <1>6

\* No tracker has a client that waits to be paired.
LEMMA ReconnectsKeeps ==
  ASSUME PairingInv, NEW i \in Ids, Reconnects(i)
  PROVE  PairingInv'
<1> USE DEF PairingInv, Reconnects, LoggedIn, store, mgr, work, web, bounds
<1>1. Early' /\ Unused' /\ OneWay' /\ Phones' /\ Callbacks' /\ Closing' /\ Handlers' /\
   Theirs'
  BY DEF Early, Unused, OneWay, Phones, Callbacks, Closing, Handlers, Theirs
<1>2. PairingType'
  BY DEF PairingType
<1>3. Hopes'
  BY DEF Hopes, Hopeful, Handlers
<1> QED
  BY <1>1, <1>2, <1>3

\* The row goes where none was, so it is the new one of its client alone.
LEMMA InsertAccountKeeps ==
  ASSUME PairingInv, NEW c \in Clients, InsertAccount(c)
  PROVE  PairingInv'
<1> USE DEF PairingInv, InsertAccount, LoggedIn, wa, mgr, web, Fails
<1>1. Unused' /\ OneWay' /\ Phones' /\ Hopes' /\ Handlers'
  BY DEF Unused, OneWay, Phones, Hopes, Hopeful, Handlers
<1>2. PairingType'
  <2>1. CASE /\ NextId \in Ids
             /\ callback' = [callback EXCEPT ![c] = [at |-> "register", id |-> NextId]]
             /\ rows' = [rows EXCEPT ![NextId] = c]
    <3>1. NextId \in 0 .. MaxId
      BY <2>1, PairBounds DEF Ids
    <3> QED
      BY <2>1, <3>1, SMTT(30) DEF PairingType, Known
  <2>2. CASE callback' = [callback EXCEPT ![c].at = "failed"] /\ rows' = rows
    BY <2>2 DEF PairingType, Known
  <2> QED
    BY <2>1, <2>2
<1>3. Early'
  BY ZenonT(30) DEF Early, PairingType
<1>4. Callbacks'
  BY NextIdFree, NobodyAssumption DEF Callbacks, PairingType
<1>5. Closing'
  BY DEF Closing, PairingType
<1>6. Theirs'
  BY NextIdFree, NobodyAssumption DEF Theirs, PairingType
<1> QED
  BY <1>1, <1>2, <1>3, <1>4, <1>5, <1>6

\* The pending client is the one of the callback.
LEMMA RegisterPairedKeeps ==
  ASSUME PairingInv, NEW c \in Clients, RegisterPaired(c)
  PROVE  PairingInv'
<1> USE DEF PairingInv, RegisterPaired, LoggedIn, store, wa, web, bounds, SlotLocked
<1>1. Unused' /\ OneWay' /\ Closing' /\ Handlers'
  BY DEF Unused, OneWay, Closing, Handlers
<1>2. PairingType'
  BY DEF PairingType, Known, Callbacks
<1>3. Early'
  BY DEF Early, Callbacks
<1>4. Phones'
  BY DEF Phones, Early, Callbacks
<1>5. Callbacks'
  BY DEF Callbacks, PairingType
<1>6. Hopes'
  BY DEF Hopes, Hopeful, Callbacks
<1>7. Theirs'
  BY DEF Theirs, Callbacks
<1> QED
  BY <1>1, <1>2, <1>3, <1>4, <1>5, <1>6, <1>7

\* The row of the callback is its client, unless its id had an account before.
LEMMA StartTrackerKeeps ==
  ASSUME PairingInv, NEW c \in Clients, StartTracker(c)
  PROVE  PairingInv'
<1> USE DEF PairingInv, StartTracker, LoggedIn, store, web, bounds
<1>1. Early' /\ Unused' /\ OneWay' /\ Phones' /\ Callbacks' /\ Closing'
  BY DEF Early, Unused, OneWay, Phones, Callbacks, Closing
<1>2. PairingType'
  BY PairBounds DEF PairingType, Known, Callbacks
<1>3. Hopes'
  BY DEF Hopes, Hopeful, Callbacks
<1>4. Handlers'
  BY PairBounds DEF Handlers, PairingType, PairingHandler
<1>5. Theirs'
  BY DEF Theirs, Callbacks
<1> QED
  BY <1>1, <1>2, <1>3, <1>4, <1>5

\* Clients are forgotten and closed.
LEMMA RemoveKeeps ==
  ASSUME PairingInv, NEW i \in Ids, Remove(i)
  PROVE  PairingInv'
<1> USE DEF PairingInv, Remove, LoggedIn, web, Fails
<1>1. OneWay' /\ Callbacks' /\ Handlers' /\ Theirs'
  BY DEF OneWay, Callbacks, Handlers, Theirs
<1>2. PairingType'
  BY DEF PairingType, Known
<1>3. Early'
  BY NobodyAssumption DEF Early, PairingType
<1>4. Unused'
  BY DEF Unused, PairingType
<1>5. Phones'
  BY DEF Phones, Early, PairingType
<1>6. Closing'
  BY DEF Closing, PairingType
<1>7. Hopes'
  BY DEF Hopes, Hopeful, PairingType
<1> QED
  BY <1>1, <1>2, <1>3, <1>4, <1>5, <1>6, <1>7

\* The id of the row that goes is out of the promise.
LEMMA DeleteAccountKeeps ==
  ASSUME PairingInv, NEW i \in Ids, DeleteAccount(i)
  PROVE  PairingInv'
<1> USE DEF PairingInv, DeleteAccount, LoggedIn, wa, mgr, web, Fails
<1>1. Early' /\ Unused' /\ OneWay' /\ Phones' /\ Closing' /\ Hopes' /\ Handlers'
  BY DEF Early, Unused, OneWay, Phones, Closing, Hopes, Hopeful, Handlers
<1>2. PairingType'
  BY DEF PairingType, Known
<1>3. Callbacks'
  BY DEF Callbacks, PairingType
<1>4. Theirs'
  BY DEF Theirs, PairingType
<1> QED
  BY <1>1, <1>2, <1>3, <1>4

\* Nothing is left of clients, and only rows and devices are read.
LEMMA RestartKeeps ==
  ASSUME PairingInv, Restart
  PROVE  PairingInv'
<1> USE DEF PairingInv, Restart, LoggedIn, store, Answered, NoHandler, Fresh,
   NoClient
<1>1. Unused' /\ OneWay' /\ Phones' /\ Callbacks' /\ Closing' /\ Hopes'
  BY DEF Unused, OneWay, Phones, Callbacks, Closing, Hopes, Hopeful
<1>2. PairingType'
  BY PairBounds DEF PairingType, Known
<1>3. Early'
  BY NobodyAssumption DEF Early
<1>4. Handlers'
  BY PairBounds DEF Handlers, PairingHandler
<1>5. Theirs'
  BY DEF Theirs, Ids
<1> QED
  BY <1>1, <1>2, <1>3, <1>4, <1>5

\* Every tracker, client and handler comes from the rows, and no client waits to be paired.
LEMMA LoadKeeps ==
  ASSUME PairingInv, Load
  PROVE  PairingInv'
<1> USE DEF PairingInv, LoggedIn
<1>1. rows' \in [Ids -> Known]
  BY PairBounds DEF Load, Accounts, NoClient, PairingType, Known, Ids
<1>2. \A i \in Ids : byID'[i] # Nobody =>
        byID'[i] = rows'[i] /\ byID'[i] \in Clients /\ device[byID'[i]] = "linked"
  BY <1>1 DEF Load, Known
<1>3. \A c \in Clients :
        handler'[c] = NoHandler \/ (handler'[c] \in Ids /\ byID'[handler'[c]] = c)
  BY DEF Load, Handlers
<1>4. \A c \in Clients : handler'[c] # PairingHandler
  BY <1>3, PairBounds DEF NoHandler, PairingHandler, Ids
<1>5. PairingType'
  <2>1. handler' \in [Clients -> 0 .. MaxId + 1]
    <3>1. handler' = [c \in Clients |-> handler'[c]]
      BY DEF Load
    <3>2. \A c \in Clients : handler'[c] \in 0 .. MaxId + 1
      BY <1>3, PairBounds DEF NoHandler, Ids
    <3> QED
      BY <3>1, <3>2
  <2>2. byID' \in [Ids -> Known] /\ tracker' \in [Ids -> Known]
    BY <1>1 DEF Load, Known
  <2> QED
    BY <1>1, <2>1, <2>2 DEF Load, PairingType, work, web, bounds
<1>6. Early'
  BY NobodyAssumption DEF Load, Early
<1>7. Unused'
  BY DEF Load, Unused, web
<1>8. OneWay'
  BY DEF Load, OneWay
<1>9. Phones'
  BY DEF Load, Phones, web
<1>10. Callbacks'
  BY DEF Load, Callbacks, Handlers
<1>11. Closing'
  BY DEF Load, Closing
<1>12. Hopes'
  BY <1>4 DEF Hopes, Hopeful
<1>13. Handlers'
  BY <1>4 DEF Load, Handlers
<1>14. Theirs'
  <2>1. tracker' = byID'
    BY DEF Load
  <2>2. \A i \in Ids : byID'[i] # Nobody => byID'[i] = rows'[i]
    BY <1>2
  <2>3. \A c \in Clients, i \in Ids : handler'[c] = i => rows'[i] = c
    BY <1>2, <1>3, NobodyAssumption DEF NoHandler, Ids
  <2> QED
    BY <2>1, <2>2, <2>3 DEF Theirs
<1> QED
  BY <1>5, <1>6, <1>7, <1>8, <1>9, <1>10, <1>11, <1>12, <1>13, <1>14

\* No client that waits to be paired is there before the program serves.
LEMMA DialKeeps ==
  ASSUME PairingInv, NEW c \in Clients, Dial(c)
  PROVE  PairingInv'
<1> USE DEF PairingInv, Dial, LoggedIn, store, mgr, work, web, Fails
<1>1. PairingType' /\ OneWay' /\ Phones' /\ Callbacks' /\ Handlers' /\ Theirs'
  BY DEF PairingType, OneWay, Phones, Callbacks, Handlers, Theirs
<1>2. Early'
  BY DEF Early, PairingType
<1>3. Unused'
  BY DEF Unused, PairingType
<1>4. Closing'
  BY DEF Closing, PairingType
<1>5. Hopes'
  BY DEF Hopes, Hopeful, Handlers
<1> QED
  BY <1>1, <1>2, <1>3, <1>4, <1>5

\* No client that waits to be paired is there before the program serves.
LEMMA ServeKeeps ==
  ASSUME PairingInv, Serve
  PROVE  PairingInv'
<1> USE DEF PairingInv, Serve, LoggedIn, store, wa, mgr, web, bounds
<1>1. PairingType' /\ Early' /\ Unused' /\ OneWay' /\ Phones' /\ Callbacks' /\ Closing' /\
   Hopes' /\ Handlers' /\ Theirs'
  BY DEF PairingType, Early, Unused, OneWay, Phones, Callbacks, Closing, Hopes, Hopeful,
     Handlers, Theirs
<1> QED
  BY <1>1

-----------------------------------------------------------------------------
\* Nothing is pending and nobody has a client.
LEMMA PairingInit == PairInit => PairingInv
<1> SUFFICES ASSUME PairInit PROVE PairingInv
  OBVIOUS
<1> USE DEF PairInit, Fresh, NoClient, NoHandler, LoggedIn
<1>1. PairingType /\ Hopes
  BY PairBounds DEF PairingType, Hopes, Hopeful, Known, Ids, PairingHandler
<1>2. Early /\ Unused /\ OneWay /\ Phones /\ Callbacks /\ Closing
  BY NobodyAssumption DEF Early, Unused, OneWay, Phones, Callbacks, Closing, Ids
<1>3. Handlers /\ Theirs
  BY NobodyAssumption, PairBounds DEF Handlers, Theirs, PairingHandler, Ids
<1> QED
  BY <1>1, <1>2, <1>3 DEF PairingInv

\* No step of the program, the browser or the phone breaks it.
LEMMA PairingStep == PairingInv /\ [PairNext]_pairVars => PairingInv'
<1> SUFFICES ASSUME PairingInv, [PairNext]_pairVars PROVE PairingInv'
  OBVIOUS
<1>1. CASE ShowTab \/ Press \/ StartQRPairing \/ PairPhone
  BY <1>1, ShowTabKeeps, PressKeeps, StartQRPairingKeeps, PairPhoneKeeps
<1>2. CASE Restart \/ Load \/ Serve
  BY <1>2, RestartKeeps, LoadKeeps, ServeKeeps
<1>3. ASSUME NEW c \in Clients, Pair(c) PROVE PairingInv'
  BY <1>3, QRCodeKeeps, FlowEndsKeeps, CleanupChecksKeeps, CleanupClosesKeeps,
     PhoneCodeKeeps, PhoneFailsKeeps, PhoneClosesKeeps, LinkKeeps DEF Pair
<1>4. ASSUME NEW c \in Clients, OnPaired(c) PROVE PairingInv'
  BY <1>4, InsertAccountKeeps, RegisterPairedKeeps, StartTrackerKeeps DEF OnPaired
<1>5. ASSUME NEW c \in Clients, LogsIn(c) \/ Drops(c) \/ Dispatch(c) \/ Dial(c)
      PROVE  PairingInv'
  BY <1>5, LogsInKeeps, DropsKeeps, DispatchKeeps, DialKeeps
<1>6. ASSUME NEW i \in Ids, Reconnects(i) \/ Remove(i) \/ DeleteAccount(i)
      PROVE  PairingInv'
  BY <1>6, ReconnectsKeeps, RemoveKeeps, DeleteAccountKeeps
<1>7. CASE UNCHANGED pairVars
  BY <1>7 DEF pairVars, store, wa, mgr, work, web, PairingInv, PairingType, Early, Unused, OneWay,
     Phones, Callbacks, Closing, Hopes, Hopeful, Handlers, Theirs, LoggedIn
<1> QED
  BY <1>1, <1>2, <1>3, <1>4, <1>5, <1>6, <1>7 DEF PairNext

\* Whatever clients, failures, breaks, deletions and restarts there are, the
\* client of an account, the one its tracker asks and the one its tracker hears
\* are the one its row names: the callback that registers it takes its own
\* client out of the slot (internal/wa/manager.go RegisterPaired).
THEOREM PairingClientsAreTheirs == PairSpec => []ClientsAreTheirs
<1>1. PairingInv => ClientsAreTheirs
  BY DEF PairingInv, Theirs, ClientsAreTheirs
<1> QED
  BY <1>1, PairingInit, PairingStep, PTL DEF PairSpec
==============================================================================
