---------------------------- MODULE Configuration ----------------------------
(***************************************************************************)
(* What users configure and what follows from it: beside Monitoring, the   *)
(* stored history its demand needs and the order its tables are shown in,  *)
(* modules with variables of their own, and what must hold of them.        *)
(***************************************************************************)
EXTENDS Monitoring

(* Enough history.                                                         *)
CONSTANTS Adjustments, Depths, MinBars, Overlap, today, Earlier, Bootstraps, Eod, MaxRetries,
          MaxFaults, MaxEdits, Orphan
VARIABLES demand, prepared, history, lock, worker, faults, edits
Readiness == INSTANCE HistoryReadiness WITH stream <- history

(* The order columns and stocks are shown in.                              *)
CONSTANTS MaxId, MaxPosition
VARIABLES columns, stocks, nextId, last
Layout == INSTANCE TableLayout

-----------------------------------------------------------------------------
(* Properties: those of the two modules.                                   *)

\* TableLayout.EditsShowWhatWasAsked: edits of columns and stocks move what they were
\* asked to move and nothing else, and positions stay distinct.
EditsShowWhatWasAsked == Layout!EditsShowWhatWasAsked
\* HistoryReadiness.CleanRunPrepares: a pipeline run without issues prepares the stock
\* for the demand it collected, whatever the bootstrap messages did.
CleanRunPrepares == Readiness!CleanRunPrepares
=============================================================================
