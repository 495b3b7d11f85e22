---------------------------- MODULE MCTraceStore ----------------------------
(* The instance of TraceStore that TLC checks. *)
EXTENDS TraceStore
=============================================================================
