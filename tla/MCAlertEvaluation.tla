-------------------------- MODULE MCAlertEvaluation --------------------------
(* Small instances of AlertEvaluation for TLC. *)
EXTENDS AlertEvaluation
=============================================================================
