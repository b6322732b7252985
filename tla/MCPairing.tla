------------------------------- MODULE MCPairing -------------------------------
(* A small instance of Pairing for TLC: two devices, two accounts. *)
EXTENDS Pairing
=============================================================================
