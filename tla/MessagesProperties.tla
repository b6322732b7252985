-------------------------- MODULE MessagesProperties --------------------------
(***************************************************************************)
(* What the totals of a contact's messages should follow.                  *)
(***************************************************************************)
EXTENDS Messages

Chunk == UNION {[S -> Contacts \cup {None}] : S \in SUBSET Messages}

\* A receiver that stores a message, or counts it for its contact.
BusyReceiver ==
  [pc : {"insert"}, message : Messages, contact : Contacts \cup {None}]
    \cup [pc : {"count"}, message : Messages, contact : Contacts]

\* The state of every part has the shape the schema and the Go types give it;
\* only a message with a contact gets as far as being counted.
TypeOK ==
  /\ row \in [Messages -> [stored : BOOLEAN, contact : Contacts \cup {None},
                           derived : BOOLEAN]]
  /\ contacts \in SUBSET Contacts
  /\ daily \in [Contacts -> Nat]
  /\ inserted \in BOOLEAN /\ done \in BOOLEAN
  /\ resent \in BOOLEAN /\ overlapped \in BOOLEAN /\ miscounted \in BOOLEAN
  /\ receiver \in [Receivers -> BusyReceiver \cup {Idle}]
  /\ backfill \in [Runs -> [pc : {"off", "count", "fetch", "process", "mark"},
                            last : Messages \cup {0}, chunk : Chunk]]
  /\ deliveries \in 0 .. MaxDeliveries
  /\ faults \in 0 .. MaxFaults
  /\ crashes \in 0 .. MaxCrashes
  /\ deletes \in 0 .. MaxDeletes

\* Messages of c whose derived columns are filled.
Analysed(c) == {m \in Messages : row[m].stored /\ row[m].contact = c /\ row[m].derived}

\* Receivers on their way to the totals of c.
Counting(c) == {r \in Receivers : receiver[r].pc = "count" /\ receiver[r].contact = c}

\* The totals of c miss no message, but for those a receiver has in hand.
Balanced(c) == Cardinality(Analysed(c)) <= daily[c] + Cardinality(Counting(c))

\* The totals of c hold nothing that is not a message of c, analysed once.
CountedOnce(c) == daily[c] + Cardinality(Counting(c)) <= Cardinality(Analysed(c))

\* No message with filled columns is missing from the totals, but for those a
\* receiver has in hand, as long as no statement fails and nothing crashes:
\* whatever contacts are deleted and added between the lookup, the insert and
\* the transaction, and however many backfills run beside each other
\* (analytics_write.go, InsertMessageWithAnalytics; analytics-backfill).
NotUndercounted == faults = 0 /\ crashes = 0 => \A c \in Contacts : Balanced(c)

\* No message is counted twice while none is delivered twice, no contact is
\* deleted and backfills do not overlap: a backfill or a tracker that fails or
\* crashes at any point can be run again ("Safe to re-run",
\* analytics-backfill/main.go).
NotOvercounted ==
  ~resent /\ ~overlapped /\ deletes = 0 => \A c \in Contacts : CountedOnce(c)

\* Once the backfill is marked as done, and so will never run again, it has left
\* no message out, whatever runs failed, crashed or overlapped before, as long as
\* none failed to count what is left (analytics-backfill/main.go, run, markDone).
DoneLeavesNothing == done /\ ~miscounted => \A m \in Messages : ~Left(m)

\* What inductive arguments need besides: a backfill has left nothing behind
\* itself, its chunk is what comes next, and one that is not full is all there is.
Progress(b) ==
  LET last  == backfill[b].last
      chunk == DOMAIN backfill[b].chunk
  IN /\ backfill[b].pc \in {"fetch", "process"} =>
          \A m \in Messages : Left(m) => last < m
     /\ backfill[b].pc = "process" =>
          /\ \A m \in Messages : Left(m) => m \in chunk \/ \A n \in chunk : n < m
          /\ Cardinality(chunk) < ChunkSize => \A m \in Messages : Left(m) => m \in chunk
     /\ backfill[b].pc = "mark" /\ ~miscounted => \A m \in Messages : ~Left(m)

BackfillInv == (\A b \in Runs : Progress(b)) /\ DoneLeavesNothing

\* A message of a chunk is stored and has the contact read with it, or none by now.
ChunkCurrent ==
  \A b \in Runs :
     backfill[b].pc = "process" =>
       \A m \in DOMAIN backfill[b].chunk :
          /\ row[m].stored
          /\ row[m].contact \in {backfill[b].chunk[m], None}

\* Only contacts that exist have messages (the foreign key).
Linked == \A m \in Messages : row[m].contact \in contacts \cup {None}

CountInv == ChunkCurrent /\ Linked /\ NotUndercounted

\* No two backfills run, unless one was started beside another.
Alone ==
  ~overlapped => \A a, b \in Runs :
                    backfill[a].pc # "off" /\ backfill[b].pc # "off" => a = b

\* A chunk of a backfill that is alone is still unprocessed, and for the same
\* contacts unless one was deleted.
ChunkFresh ==
  ~overlapped /\ deletes = 0 =>
    \A b \in Runs :
       backfill[b].pc = "process" =>
         \A m \in DOMAIN backfill[b].chunk :
            Left(m) /\ row[m].contact = backfill[b].chunk[m]

OnceInv == Alone /\ ChunkFresh /\ NotOvercounted
=============================================================================
