---------------------------- MODULE MCWebSession ----------------------------
(* One tab for TLC; its socket, its requests and its pages still overtake each
   other. The proofs are about any number of tabs. *)
EXTENDS WebSessionProperties
=============================================================================
