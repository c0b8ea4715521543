-------------------------- MODULE MCTurnLifecycle --------------------------
(* Model-checking instance of TurnLifecycle.                               *)
EXTENDS TurnLifecycle
=============================================================================
