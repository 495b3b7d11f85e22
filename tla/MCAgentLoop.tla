---------------------------- MODULE MCAgentLoop ----------------------------
(* The instance of AgentLoop that TLC checks by itself; the other one, with the *)
(* cell's client and runner, is in MCCellRun.                                  *)
EXTENDS AgentLoop
=============================================================================
