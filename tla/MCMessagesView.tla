--------------------------- MODULE MCMessagesView ---------------------------
(* A small instance of MessagesView for TLC. *)
EXTENDS MessagesViewProperties
=============================================================================
