------------------------------- MODULE MCStats -------------------------------
(* A small calendar for TLC: two hours of two units to a day, three days to a
   week; a zone ahead of UTC, one behind it, and one off by half an hour. *)
EXTENDS StatsProperties

MCKinds == {[kind |-> "presence", state |-> "available", seen |-> FALSE],
            [kind |-> "presence", state |-> "unavailable", seen |-> TRUE],
            [kind |-> "picture", state |-> "stored", seen |-> FALSE]}
MCZones == {0, 2, -1}
=============================================================================
