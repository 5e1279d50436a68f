--------------------------- MODULE MCTurnExecution ---------------------------
(* Small instances of TurnExecution for TLC. *)
EXTENDS TurnExecution, TLC

CONSTANTS a, b, g1, g2
==============================================================================
