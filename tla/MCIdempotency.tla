---------------------------- MODULE MCIdempotency ----------------------------
(* Model-checking instance of Idempotency.                                 *)
EXTENDS Idempotency, TLC

Symmetric == Permutations(Requests) \cup Permutations(Keys)
               \cup Permutations(Fingerprints)
=============================================================================
