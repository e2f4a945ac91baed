------------------------- MODULE MCAnalysisControl -------------------------
(* AnalysisControl for TLC: the budgets are set in the configurations. *)
EXTENDS AnalysisControl
=============================================================================
