------------------------ MODULE MCTokenAttestation ------------------------
(* A small instance of token attestation for TLC: two signers, and a launch *)
(* by the factory that a rogue contract imitates for the other signer.      *)
EXTENDS TokenAttestation, TLC

CONSTANTS s1, s2, x1, x2, i1, i2, q1, q2, q3, w1, w2, none, factory, rogue

Event(m, n, c) == [emitter |-> m, named |-> n, creator |-> c]
Launches ==
    {[reverted |-> FALSE, events |-> {Event(factory, TRUE, s1), Event(rogue, TRUE, s2),
                                      Event(factory, FALSE, s2)}]}

=============================================================================
