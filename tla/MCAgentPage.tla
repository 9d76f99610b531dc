---------------------------- MODULE MCAgentPage ----------------------------
(* A small instance of the cached agent page for TLC: two requests for an   *)
(* agent that others publish, hide and purge.                               *)
EXTENDS AgentPage, TLC

CONSTANTS q1, q2, none

RequestSymmetry == Permutations(Requests)

=============================================================================
