----------------------------- MODULE MCIdempotency -----------------------------
(* Small instances of Idempotency. *)
EXTENDS Idempotency, TLC

CONSTANTS k1, b1, b2

Symmetry == Permutations(Bodies)
=============================================================================
