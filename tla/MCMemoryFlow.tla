--------------------------- MODULE MCMemoryFlow ----------------------------
(* Five runs of four cells, one of which ran twice: three of task a and one of *)
(* b; task c has no run.  Three texts: two of them fit together, one fits      *)
(* nowhere.                                                                    *)
EXTENDS MemoryFlow

MCRuns == 1..5
MCCell == <<"a1", "a2", "b1", "b1", "a3">>
MCTaskOf == [a1 |-> "a", a2 |-> "a", a3 |-> "a", b1 |-> "b"]
MCAttemptsOf == <<3, 2, 1, 2, 1>>
MCTextsOf == <<{"short", "long"}, {"long", "huge"}, {"short", "long", "huge"}, {}, {"short", "huge"}>>
MCSizeOf == [short |-> 1, long |-> 2, huge |-> 4]
=============================================================================
