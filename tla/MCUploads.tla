----------------------------- MODULE MCUploads -----------------------------
(* Two sessions, three files of which one is refused, three messages.       *)
EXTENDS Uploads, TLC
CONSTANTS sA, sB, f1, f2, f3
Symmetry == Permutations(Sessions) \cup Permutations(Files \ Bad)
=============================================================================
