------------------------- MODULE MCSingleChatQueue -------------------------
(* SingleChatQueue on a small instance. *)
EXTENDS SingleChatQueue

CONSTANTS desktop, web
=============================================================================
