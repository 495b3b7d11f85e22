--------------------------- MODULE EpisodeWriter ---------------------------
(***************************************************************************)
(* writer.py: one build of the cases of a bank.  The runs collect_runs     *)
(* found are distilled side by side, each attempt by attempt through folds *)
(* of fold_window step notes, and the resulting cases are deduped one      *)
(* after the other against those kept before.                              *)
(*                                                                         *)
(* Runs are numbers in the order of their run_ids.  A completion is a      *)
(* choice; of a text remain the attempts it was made from, for a note, and *)
(* the bytes it may come out as, for a case.                               *)
(***************************************************************************)
EXTENDS Integers, Sequences, FiniteSets

CONSTANTS
    Runs,           \* ok runs under the cells' trace roots
    Cell,           \* their (config_hash, task_id, seed)
    TaskOf,         \* the task of a (config_hash, task_id, seed)
    AttemptsOf,     \* attempts of a run
    FoldWindow,
    TextsOf         \* what a case may read that a run was put into last

ASSUME RunsAssumption ==
    /\ Runs \subseteq Nat /\ IsFiniteSet(Runs)
    /\ DOMAIN TaskOf = {Cell[r] : r \in Runs} /\ DOMAIN Cell = Runs
    /\ AttemptsOf \in [Runs -> Nat \ {0}]
    /\ FoldWindow \in Nat \ {0, 1}
    /\ DOMAIN TextsOf = Runs

VARIABLES
    build,      \* distil, dedupe, built or failed
    folded,     \* folds done of each run
    given,      \* the attempts its summary was made from; none: it is ""
    deduped,    \* runs whose case has been through dedupe
    kept

writerVars == <<build, folded, given, deduped, kept>>

Task(r) == TaskOf[Cell[r]]

\* collect_runs: of a cell that ran twice, the first run_id.
Corpus == {r \in Runs : \A s \in Runs : Cell[s] = Cell[r] => r <= s}

WriterInit ==
    /\ build = "distil"
    /\ folded = [r \in Runs |-> 0]
    /\ given = [r \in Runs |-> {}]
    /\ deduped = {}
    /\ kept = <<>>

----------------------------------------------------------------------------
(* _case_for_run. *)

\* The attempts of fold w; a run's attempts are folded when no window is left.
Window(r, w) == ((w - 1) * FoldWindow + 1)..(w * FoldWindow) \cap 1..AttemptsOf[r]

Folded(r) == folded[r] * FoldWindow >= AttemptsOf[r]

\* Wrong variant: the summary before a dropped one is used again.
OldSummary(r) == given[r]

\* _enforce_cap gave up on the draft: too long twice, or not servable.
Dropped(r) == {}

\* The next fold reads the summary so far, or "(start of episode)"; a dropped
\* step note still has its skeleton line.
Fold(r) ==
    /\ build = "distil" /\ r \in Corpus /\ ~Folded(r)
    /\ folded' = [folded EXCEPT ![r] = @ + 1]
    /\ \E text \in {given[r] \cup Window(r, folded[r] + 1), Dropped(r)} :
          given' = [given EXCEPT ![r] = text]
    /\ UNCHANGED <<build, deduped, kept>>

\* A provider down past the wall, or any other error of a call that is not
\* guarded: the build is given up, and nothing of it is on disk but its nodes.
WriterFails ==
    /\ build \in {"distil", "dedupe"} /\ build' = "failed"
    /\ UNCHANGED <<folded, given, deduped, kept>>

Distilled ==
    /\ build = "distil" /\ \A r \in Corpus : Folded(r)
    /\ build' = "dedupe"
    /\ UNCHANGED <<folded, given, deduped, kept>>

\* A run whose last summary was dropped has no case.
Noted == {r \in Corpus : given[r] # {}}

----------------------------------------------------------------------------
(* _dedupe, over the cases in corpus order. *)

Incoming(r) ==
    /\ build = "dedupe" /\ r \in Noted \ deduped
    /\ \A s \in Noted \ deduped : r <= s

\* The case of a run that was not merged.
CaseOf(r, text) == [task |-> Task(r), runs |-> <<r>>, content |-> text]

\* Whichever the recall finds, of the same task.
Neighbours(r) == {i \in DOMAIN kept : kept[i].task = Task(r)}

\* NO_MERGE, nothing like it kept, or a merge that is out of its bounds.
KeepCase(r, text) ==
    /\ Incoming(r) /\ deduped' = deduped \cup {r}
    /\ kept' = Append(kept, CaseOf(r, text))
    /\ UNCHANGED <<build, folded, given>>

\* Wrong variant: the merged case keeps the provenance of its anchor only.
MergeForgets(r, text) ==
    /\ Incoming(r) /\ deduped' = deduped \cup {r}
    /\ \E i \in Neighbours(r) : kept' = [kept EXCEPT ![i].content = text]
    /\ UNCHANGED <<build, folded, given>>

\* The merged case takes the anchor's place, its task and both provenances.
MergeCase(r, text) ==
    /\ Incoming(r) /\ deduped' = deduped \cup {r}
    /\ \E i \in Neighbours(r) :
          kept' = [kept EXCEPT ![i].content = text, ![i].runs = @ \o <<r>>]
    /\ UNCHANGED <<build, folded, given>>

CasesDone ==
    /\ build = "dedupe" /\ Noted \subseteq deduped /\ build' = "built"
    /\ UNCHANGED <<folded, given, deduped, kept>>

WriterStep ==
    \/ \E r \in Runs : Fold(r)
    \/ \E r \in Runs : \E text \in TextsOf[r] : KeepCase(r, text) \/ MergeCase(r, text)
    \/ Distilled \/ CasesDone \/ WriterFails

----------------------------------------------------------------------------
(* Properties. *)

\* A summary that was dropped takes the attempts before it along, and nothing
\* else: what a note leaves out is a beginning of the run, never its middle or
\* its end.
NoteHasNoHole ==
    \A r \in Corpus : \A a \in given[r] :
        \A b \in 1..AttemptsOf[r] : a <= b /\ b <= folded[r] * FoldWindow => b \in given[r]

\* The runs a case was made from: in dedupe every run that has been through it
\* is in exactly one case, once, and in one of its own task.
EveryRunKept ==
    \A r \in deduped :
        \E i \in DOMAIN kept : \E k \in DOMAIN kept[i].runs :
            /\ kept[i].task = Task(r) /\ kept[i].runs[k] = r
            /\ \A j \in DOMAIN kept : \A l \in DOMAIN kept[j].runs :
                  kept[j].runs[l] = r => j = i /\ l = k
=============================================================================
