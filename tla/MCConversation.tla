--------------------------- MODULE MCConversation ---------------------------
(* Three turns, of at most six messages, of which two or three are replayed. *)
EXTENDS Conversation
=============================================================================
