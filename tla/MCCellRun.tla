----------------------------- MODULE MCCellRun -----------------------------
(* The instance of CellRun that TLC checks. *)
EXTENDS CellRun
=============================================================================
