--------------------------- MODULE MCSessionRuns ---------------------------
(* Small instances of SessionRuns for TLC. *)
EXTENDS SessionRuns, TLC

CONSTANTS s1, s2, r1, r2, p1, p2, u1, u2

OneOwner  == [s \in Sessions |-> u1]
TwoOwners == [s \in Sessions |-> IF s = s1 THEN u1 ELSE u2]

Symmetry ==
  Permutations(Sessions) \cup Permutations(Pids)
    \cup Permutations(StreamingRuns) \cup Permutations(Runs \ StreamingRuns)
=============================================================================
