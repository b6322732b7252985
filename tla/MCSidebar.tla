------------------------------- MODULE MCSidebar -------------------------------
(* The list of contacts with pages of two. *)
EXTENDS Sidebar
=============================================================================
