----------------------------- MODULE MCPresence -----------------------------
(* Small instances of Presence for TLC. *)
EXTENDS PresenceProperties, TLC

\* Timers and callback goroutines are interchangeable.
Symmetry == Permutations(Timers) \cup Permutations(Callbacks)
=============================================================================
