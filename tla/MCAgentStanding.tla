-------------------------- MODULE MCAgentStanding --------------------------
(* Small instances of agent standing: two failures share a shape. *)
EXTENDS AgentStanding, TLC

CONSTANTS g1, k1, k2, k3, k4

\* One agent reports everything.
OneOwner == [k \in Activities |-> g1]
\* k1 and k2 fail alike.
TwoAlike == [k \in Activities |-> IF k \in {k1, k2} THEN "alike" ELSE ToString(k)]

=============================================================================
