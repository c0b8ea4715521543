-------------------------- MODULE MCFinalPipeline --------------------------
(* Model-checking instance of FinalPipeline.                               *)
EXTENDS FinalPipeline, TLC

\* Sessions are interchangeable (used by the runs without liveness).
ClientSymmetry == Permutations(Clients)
=============================================================================
