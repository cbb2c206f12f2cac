--------------------------- MODULE MCAnalysisStream ---------------------------
(* Model-checking instance of AnalysisStream.                               *)
EXTENDS AnalysisStream, TLC

(* Tasks are interchangeable: only their in-flight records differ.          *)
JobSymmetry == Permutations(Jobs)
=============================================================================
