------------------------------ MODULE MCMessages ------------------------------
(* Small instances of Messages for TLC. *)
EXTENDS MessagesProperties, TLC

CONSTANTS c1, c2

\* Three messages of one contact and one of another, in the order of their ids.
FourMessages == (1 :> c1) @@ (2 :> c1) @@ (3 :> c2) @@ (4 :> c1)

\* The event handler and the history syncs do the same; so do the backfills.
Symmetry == Permutations(Receivers) \cup Permutations(Runs)
=============================================================================
