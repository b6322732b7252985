----------------------------- MODULE PresenceRows -----------------------------
(***************************************************************************)
(* Rows of the table presence_events and the query for a contact's latest  *)
(* one (internal/db/queries.go).                                           *)
(***************************************************************************)
EXTENDS Naturals, Sequences

CONSTANTS LastSeen,    \* last-seen timestamps WhatsApp may send
          None         \* "no such value"

States == {"available", "unavailable"}

Row == [state : States, seen : LastSeen \cup {None}, at : Nat]

\* The zero db.PresenceEvent: no row, or the read failed and was ignored.
NoRow == [state |-> "none", seen |-> None, at |-> 0]

\* i is the row ORDER BY observed_at DESC LIMIT 1 returns: the index on
\* (contact_id, observed_at) scanned backwards breaks ties by the larger rowid.
IsLatest(rows, i) ==
  /\ i \in DOMAIN rows
  /\ \A j \in DOMAIN rows :
        \/ rows[j].at < rows[i].at
        \/ rows[j].at = rows[i].at /\ j <= i

LatestPresence(rows) ==
  IF rows = <<>> THEN NoRow ELSE rows[CHOOSE i \in DOMAIN rows : IsLatest(rows, i)]
=============================================================================
