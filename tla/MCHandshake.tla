---------------------------- MODULE MCHandshake ----------------------------
(* A small instance of the handshake for TLC: two agents whose short names *)
(* collide, three wallets, two completions.                                  *)
EXTENDS Handshake, TLC

CONSTANTS a1, a2, w1, w2, w3, r1, r2, c1, c2, none, short, long

Collide == [a \in Agents |-> IF a = a1 THEN <<short>> ELSE <<short, long>>]

=============================================================================
