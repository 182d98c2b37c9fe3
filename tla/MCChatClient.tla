---------------------------- MODULE MCChatClient ----------------------------
(* Two sessions; one view, or a second one that replaces it.                *)
EXTENDS ChatClient, TLC
CONSTANTS s1, s2, v1, v2
Symmetry == Permutations(Sessions)
=============================================================================
