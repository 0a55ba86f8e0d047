----------------------------- MODULE MCTuiSync -----------------------------
(* Two sessions and two submissions.                                       *)
EXTENDS TuiSync
=============================================================================
