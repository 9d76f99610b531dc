------------------------ MODULE MCVerificationLane ------------------------
(* Small instances of the verification lane for TLC. *)
EXTENDS VerificationLane, TLC

CONSTANTS a1, a2, w1, w2

Symmetric == Permutations({w1, w2})

=============================================================================
