------------------------- MODULE MCCredentialStore -------------------------
(* Three requests, two values, and as many inodes as can be in use at once. *)
EXTENDS CredentialStore, TLC
CONSTANTS q1, q2, q3, v1, v2, i1, i2, i3, i4, i5
Symmetry == Permutations(Requests) \cup Permutations(Inodes) \cup Permutations(Values)
=============================================================================
