----------------------------- MODULE MCConnection -----------------------------
(* Small instances of Connection for TLC. *)
EXTENDS ConnectionProperties

\* Always on, forced offline, and a window over midnight.
FewSchedules ==
  {Always, [force |-> TRUE, slots |-> {}],
   [force |-> FALSE, slots |-> {<<Day - 1, 1>>}]}
=============================================================================
