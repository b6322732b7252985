------------------------------ MODULE SessionLog ------------------------------
(***************************************************************************)
(* What the presence log promises its readers (the timeline, the           *)
(* statistics): a contact's rows are only ever appended to, until the      *)
(* contact is deleted, and a session is opened only while the latest row   *)
(* does not say "available" already, the look and the insert being one     *)
(* step. Rows that say "unavailable" may repeat: each may bring another    *)
(* last-seen time.                                                         *)
(***************************************************************************)
EXTENDS PresenceRows

CONSTANT Contacts

VARIABLE log     \* per contact, its rows in rowid order

Online(c) == LatestPresence(log[c]).state = "available"

Init == log = [c \in Contacts |-> <<>>]

Record(c, row) ==
  /\ row \in Row
  /\ row.state = "available" => ~Online(c)
  /\ log' = [log EXCEPT ![c] = Append(@, row)]

Forget(c) == log' = [log EXCEPT ![c] = <<>>]

Next ==
  \E c \in Contacts :
     \/ Forget(c)
     \/ \E i \in DOMAIN log'[c] : Record(c, log'[c][i])

Spec == Init /\ [][Next]_log
=============================================================================
