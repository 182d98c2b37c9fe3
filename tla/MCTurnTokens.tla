---------------------------- MODULE MCTurnTokens ----------------------------
(* A small instance of TurnTokens for TLC. *)
EXTENDS TurnTokens

CONSTANTS s1, r1, r2, p1, p2, u1

OneOwner == [s \in Sessions |-> u1]
=============================================================================
