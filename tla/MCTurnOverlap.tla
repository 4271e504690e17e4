--------------------------- MODULE MCTurnOverlap ---------------------------
(***************************************************************************)
(* Instances of TurnOverlap for TLC, over the policy of MCAgentGraph.      *)
(***************************************************************************)
EXTENDS TurnOverlap, MCAgentGraph

CONSTANT r3

\* The model answers at once: three turns, and how they begin and end.
MCAnswer == { << >> }
=============================================================================
