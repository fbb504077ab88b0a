-------------------------- MODULE MCThreadDeletion --------------------------
(* ThreadDeletion on small instances. *)
EXTENDS ThreadDeletion

CONSTANTS keep, clean, again, user1, user2, e1, e2
=============================================================================
