---------------------------- MODULE MCTurnStream ----------------------------
(* The CLI names one call itself and another one like the generated         *)
(* "tool-1", and leaves others unnamed.                                     *)
EXTENDS TurnStream
CONSTANT a
=============================================================================
