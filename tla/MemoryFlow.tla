----------------------------- MODULE MemoryFlow -----------------------------
(***************************************************************************)
(* From the runs of a corpus to the prompt of a running task: the writer   *)
(* builds the cases, build_bank freezes them, and from then on the cells   *)
(* query them.  (How a bank goes through the file system is in BankStore.) *)
(***************************************************************************)
EXTENDS EpisodeWriter, MemoryView

ASSUME TextsAssumption == SizeOf \in [UNION {TextsOf[r] : r \in Runs} -> Nat \ {0}]
ASSUME TasksAssumption == {Task(r) : r \in Runs} \subseteq Tasks

flowVars == <<writerVars, viewVars>>

FlowInit == WriterInit /\ ViewInit

\* The bank keeps the cases; the builder's own state is gone.
Freeze ==
    /\ build = "built" /\ build' = "frozen"
    /\ bank' = kept
    /\ folded' = [r \in Runs |-> 0] /\ given' = [r \in Runs |-> {}]
    /\ UNCHANGED <<deduped, kept, task, queryVars>>

FlowNext ==
    \/ WriterStep /\ UNCHANGED viewVars
    \/ Freeze
    \/ build = "frozen" /\ ViewStep /\ UNCHANGED writerVars
    \/ build = "failed" /\ UNCHANGED flowVars

FlowSpec == FlowInit /\ [][FlowNext]_flowVars

----------------------------------------------------------------------------

\* Leave one task out: whatever was merged on the way, no case that is handed to
\* a cell was made from any run of that cell's own task.
NoOwnExperience ==
    Loto /\ query = "answered" =>
        \A i \in DOMAIN packed : \A k \in DOMAIN bank[packed[i]].runs :
            Task(bank[packed[i]].runs[k]) # task
=============================================================================
