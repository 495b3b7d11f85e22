-------------------------- MODULE MemoryFlowProofs --------------------------
(***************************************************************************)
(* From the runs of a corpus to the prompt: what holds of every corpus,    *)
(* every way its cases are merged and every ranking of them.               *)
(***************************************************************************)
EXTENDS MemoryFlow, RecursionLemmas, SequenceTheorems, TLAPS

Texts == UNION {TextsOf[r] : r \in Runs}

Case == [task : Tasks, runs : Seq(Runs), content : Texts]

\* A bank keeps each case with the runs of its own task.
OwnTask(cs) ==
    \A i \in DOMAIN cs : \A k \in DOMAIN cs[i].runs : Task(cs[i].runs[k]) = cs[i].task

\* Each run that went in is in one place.
InOnePlace(cs, runs) ==
    /\ \A i \in DOMAIN cs : \A k \in DOMAIN cs[i].runs : cs[i].runs[k] \in runs
    /\ \A r \in runs : \E i \in DOMAIN cs : \E k \in DOMAIN cs[i].runs : cs[i].runs[k] = r
    /\ \A i, j \in DOMAIN cs : \A k \in DOMAIN cs[i].runs, l \in DOMAIN cs[j].runs :
          cs[i].runs[k] = cs[j].runs[l] => i = j /\ k = l

KeptInv ==
    /\ kept \in Seq(Case) /\ deduped \subseteq Runs
    /\ OwnTask(kept) /\ InOnePlace(kept, deduped)

\* Folds and the attempts they were given.
FoldInv ==
    /\ folded \in [Runs -> Nat]
    /\ given \in [Runs -> SUBSET Nat]
    /\ NoteHasNoHole

\* The cases another task than the running one has.
Others == {c \in DOMAIN bank : Foreign(c)}

Crowded ==
    LET own == {c \in DOMAIN bank : ~Foreign(c)} IN
    own = DOMAIN bank \/ Cardinality(own) >= RerankPool

ViewInv ==
    /\ bank \in Seq(Case) /\ OwnTask(bank)
    /\ query \in {"none", "fuse", "pack", "answered"}
    /\ build # "frozen" => query = "none"
    /\ query = "fuse" => lexical \in SetToAllKPermutations(DOMAIN bank)
                         /\ semantic \in SetToSeqs(DOMAIN bank)
    /\ query \in {"pack", "answered"} =>
          /\ ranked \in Seq(Others) /\ packed \in Seq(Others)
          /\ ranked = <<>> => Crowded
    /\ query = "pack" =>
          /\ pos \in Nat \ {0}
          /\ pos = 1 => packed = <<>> /\ remaining = Budget
          /\ pos > 1 /\ ranked # <<>> /\ Size(ranked[1]) <= Budget => packed # <<>>
    /\ query = "answered" => (packed = <<>> => ranked = <<>>)

----------------------------------------------------------------------------
(* Constants. *)

LEMMA FlowConstants ==
    /\ FoldWindow \in Nat \ {0, 1} /\ AttemptsOf \in [Runs -> Nat \ {0}]
    /\ Budget \in Nat /\ RerankPool \in Nat \ {0} /\ RrfK \in Nat \ {0}
    /\ \A r \in Runs : Task(r) \in Tasks /\ TextsOf[r] \subseteq Texts
    /\ \A text \in Texts : SizeOf[text] \in Nat \ {0}
  BY RunsAssumption, ViewAssumption, TextsAssumption, TasksAssumption DEF Texts

----------------------------------------------------------------------------
(* The folds. *)

LEMMA Distributes ==
    ASSUME NEW a \in Nat, NEW b \in Nat, NEW c \in Nat
    PROVE  (a + b) * c = a * c + b * c
  OBVIOUS

LEMMA FoldKeeps ==
    ASSUME FoldInv, NEW r \in Runs, Fold(r)
    PROVE  FoldInv'
  <1> DEFINE done == folded[r] * FoldWindow
             window == Window(r, folded[r] + 1)
  <1>1. /\ folded[r] \in Nat /\ FoldWindow \in Nat /\ AttemptsOf[r] \in Nat /\ done \in Nat
        /\ given[r] \in SUBSET Nat
    BY FlowConstants DEF FoldInv
  <1>2. PICK text \in {given[r] \cup window, {}} : given' = [given EXCEPT ![r] = text]
    BY DEF Fold, Dropped
  <1>3. folded' = [folded EXCEPT ![r] = @ + 1]
    BY DEF Fold
  <1>4. /\ (folded[r] + 1) * FoldWindow = done + FoldWindow
        /\ ((folded[r] + 1) - 1) * FoldWindow = done
    <2>1. (folded[r] + 1) * FoldWindow = folded[r] * FoldWindow + 1 * FoldWindow
      BY <1>1, Distributes
    <2>2. 1 * FoldWindow = FoldWindow /\ (folded[r] + 1) - 1 = folded[r]
      BY <1>1
    <2>3. QED BY <2>1, <2>2
  <1>5. window = (done + 1)..(done + FoldWindow) \cap 1..AttemptsOf[r]
    BY <1>4 DEF Window
  <1>6. window \subseteq Nat
    BY <1>1, <1>5
  <1>7. folded' \in [Runs -> Nat] /\ given' \in [Runs -> SUBSET Nat]
    BY <1>1, <1>2, <1>3, <1>6 DEF FoldInv
  <1>8. ASSUME NEW s \in Corpus, NEW a \in given'[s], NEW b \in 1..AttemptsOf[s],
               a <= b, b <= folded'[s] * FoldWindow
        PROVE  b \in given'[s]
    <2>1. CASE s # r
      <3>1. s \in Runs
        BY DEF Corpus
      <3>2. given'[s] = given[s] /\ folded'[s] = folded[s]
        BY <1>2, <1>3, <2>1, <3>1 DEF FoldInv
      <3>3. QED BY <1>8, <3>2 DEF FoldInv, NoteHasNoHole
    <2>2. CASE s = r
      <3>1. given'[r] = text /\ folded'[r] = folded[r] + 1
        BY <1>2, <1>3 DEF FoldInv
      <3>2. text = given[r] \cup window /\ a \in given[r] \cup window
        BY <1>2, <1>8, <2>2, <3>1
      <3>3. b <= done + FoldWindow /\ b \in 1..AttemptsOf[r] /\ a <= b /\ a \in Nat
        BY <1>1, <1>4, <1>6, <1>8, <2>2, <3>1, <3>2
      <3>4. CASE b > done
        BY <1>1, <1>5, <2>2, <3>1, <3>2, <3>3, <3>4
      <3>5. CASE b <= done
        <4>1. a \in given[r]
          BY <1>1, <1>5, <3>2, <3>3, <3>5
        <4>2. b \in given[r]
          BY <1>8, <2>2, <3>3, <3>5, <4>1 DEF FoldInv, NoteHasNoHole
        <4>3. QED BY <2>2, <3>1, <3>2, <4>2
      <3>6. QED BY <1>1, <3>3, <3>4, <3>5
    <2>3. QED BY <2>1, <2>2
  <1>9. NoteHasNoHole'
    BY <1>8 DEF NoteHasNoHole, Corpus
  <1>10. QED BY <1>7, <1>9 DEF FoldInv

LEMMA FoldInvKept ==
    ASSUME FoldInv, [FlowNext]_flowVars
    PROVE  FoldInv'
  <1>1. ASSUME UNCHANGED <<folded, given>> PROVE FoldInv'
    BY <1>1 DEF FoldInv, NoteHasNoHole, Corpus
  <1>2. ASSUME NEW r \in Runs, Fold(r) PROVE FoldInv'
    BY <1>2, FoldKeeps
  <1>3. CASE Freeze
    <2>1. folded' = [r \in Runs |-> 0] /\ given' = [r \in Runs |-> {}]
      BY <1>3 DEF Freeze
    <2>2. \A r \in Corpus : given'[r] = {}
      BY <2>1 DEF Corpus
    <2>3. NoteHasNoHole'
      BY <2>2 DEF NoteHasNoHole, Corpus
    <2>4. QED BY <2>1, <2>3 DEF FoldInv
  <1>4. QED
    BY <1>1, <1>2, <1>3
    DEF FlowNext, WriterStep, KeepCase, MergeCase, Distilled, CasesDone, WriterFails,
        flowVars, writerVars

\* What a note leaves out is a beginning of the run, whatever the windows, the
\* lengths of the runs and the drafts that are dropped (writer.py _case_for_run).
THEOREM NotesHaveNoHoles == FlowSpec => []NoteHasNoHole
  <1>1. ASSUME FlowInit PROVE FoldInv
    <2>1. \A r \in Corpus : given[r] = {}
      BY <1>1 DEF FlowInit, WriterInit, Corpus
    <2>2. QED BY <1>1, <2>1 DEF FlowInit, WriterInit, FoldInv, NoteHasNoHole
  <1>2. FoldInv /\ [FlowNext]_flowVars => FoldInv'
    BY FoldInvKept
  <1>3. FoldInv => NoteHasNoHole
    BY DEF FoldInv
  <1>4. QED BY <1>1, <1>2, <1>3, PTL DEF FlowSpec

----------------------------------------------------------------------------
(* Dedupe. *)

\* A case of its own.
LEMMA KeepKeeps ==
    ASSUME KeptInv, NEW r \in Runs, NEW text \in TextsOf[r], KeepCase(r, text)
    PROVE  KeptInv'
  <1> DEFINE c == CaseOf(r, text)
  <1>1. c \in Case /\ c.runs = <<r>> /\ DOMAIN c.runs = {1} /\ c.runs[1] = r /\ c.task = Task(r)
    BY FlowConstants DEF Case, CaseOf
  <1>2. r \notin deduped /\ deduped' = deduped \cup {r} /\ kept' = Append(kept, c)
    BY DEF KeepCase, Incoming
  <1> HIDE DEF c
  <1>3. /\ kept \in Seq(Case) /\ kept' \in Seq(Case)
        /\ Len(kept') \in DOMAIN kept' /\ kept'[Len(kept')] = c
        /\ \A i \in DOMAIN kept : i \in DOMAIN kept' /\ kept'[i] = kept[i] /\ i # Len(kept')
        /\ \A i \in DOMAIN kept' : i = Len(kept') \/ i \in DOMAIN kept
    BY <1>1, <1>2 DEF KeptInv
  <1>4. OwnTask(kept')
    BY <1>1, <1>3 DEF KeptInv, OwnTask
  <1>5. InOnePlace(kept', deduped')
    <2>1. \A i \in DOMAIN kept' : \A k \in DOMAIN kept'[i].runs :
             /\ kept'[i].runs[k] \in deduped'
             /\ kept'[i].runs[k] = r <=> i = Len(kept')
      BY <1>1, <1>2, <1>3 DEF KeptInv, InOnePlace
    <2>2. \A s \in deduped' :
             \E i \in DOMAIN kept' : \E k \in DOMAIN kept'[i].runs : kept'[i].runs[k] = s
      BY <1>1, <1>2, <1>3 DEF KeptInv, InOnePlace
    <2>3. ASSUME NEW i \in DOMAIN kept', NEW j \in DOMAIN kept',
                 NEW k \in DOMAIN kept'[i].runs, NEW l \in DOMAIN kept'[j].runs,
                 kept'[i].runs[k] = kept'[j].runs[l]
          PROVE  i = j /\ k = l
      <3>1. CASE i = Len(kept')
        <4>1. j = Len(kept')
          BY <2>1, <2>3, <3>1
        <4>2. QED BY <1>1, <1>3, <2>3, <3>1, <4>1
      <3>2. CASE i # Len(kept')
        <4>1. j # Len(kept')
          BY <2>1, <2>3, <3>2
        <4>2. QED BY <1>3, <2>3, <3>2, <4>1 DEF KeptInv, InOnePlace
      <3>3. QED BY <3>1, <3>2
    <2>4. QED BY <2>1, <2>2, <2>3 DEF InOnePlace
  <1>6. QED BY <1>2, <1>3, <1>4, <1>5 DEF KeptInv

\* A case that goes into another one of its task.
LEMMA MergeKeeps ==
    ASSUME KeptInv, NEW r \in Runs, NEW text \in TextsOf[r], MergeCase(r, text)
    PROVE  KeptInv'
  <1>1. PICK n \in Neighbours(r) :
            kept' = [kept EXCEPT ![n].content = text, ![n].runs = @ \o <<r>>]
    BY DEF MergeCase
  <1>2. r \notin deduped /\ deduped' = deduped \cup {r}
    BY DEF MergeCase, Incoming
  <1>3. /\ kept \in Seq(Case) /\ n \in DOMAIN kept /\ kept[n].task = Task(r)
        /\ kept[n] \in Case /\ kept[n].runs \in Seq(Runs)
    <2>1. kept \in Seq(Case) /\ n \in DOMAIN kept /\ kept[n].task = Task(r)
      BY <1>1 DEF Neighbours, KeptInv
    <2>2. kept[n] \in Case
      BY <2>1
    <2>3. QED BY <2>1, <2>2 DEF Case
  <1>4. /\ DOMAIN kept' = DOMAIN kept
        /\ \A i \in DOMAIN kept : i # n => kept'[i] = kept[i]
        /\ kept'[n] = [kept[n] EXCEPT !.content = text, !.runs = @ \o <<r>>]
    BY <1>1, <1>3
  <1>5. /\ kept'[n] \in Case /\ kept'[n].task = kept[n].task
        /\ kept'[n].runs = Append(kept[n].runs, r)
    <2>1. text \in Texts
      BY FlowConstants
    <2>2. kept[n].runs \o <<r>> = Append(kept[n].runs, r) /\ Append(kept[n].runs, r) \in Seq(Runs)
      BY <1>3
    <2>3. kept'[n] = [task |-> kept[n].task, runs |-> kept[n].runs \o <<r>>, content |-> text]
      BY <1>3, <1>4 DEF Case
    <2>4. kept[n].task \in Tasks
      BY <1>3 DEF Case
    <2>5. QED BY <2>1, <2>2, <2>3, <2>4 DEF Case
  <1>6. kept' \in Seq(Case)
    <2>1. \A i \in DOMAIN kept : kept[i] \in Case /\ DOMAIN kept = 1..Len(kept) /\ Len(kept) \in Nat
      BY <1>3
    <2>2. \A i \in 1..Len(kept) : kept'[i] \in Case
      BY <1>4, <1>5, <2>1
    <2>3. kept' = [i \in 1..Len(kept) |-> kept'[i]]
      BY <1>1, <1>3, <2>1
    <2>4. kept' \in [1..Len(kept) -> Case]
      BY <2>2, <2>3
    <2>5. QED BY <1>3, <2>1, <2>4
  <1> DEFINE m == Len(kept[n].runs) + 1
  <1>7. /\ DOMAIN kept'[n].runs = DOMAIN kept[n].runs \cup {m} /\ m \notin DOMAIN kept[n].runs
        /\ kept'[n].runs[m] = r
        /\ \A k \in DOMAIN kept[n].runs : kept'[n].runs[k] = kept[n].runs[k]
    BY <1>3, <1>5
  <1> HIDE DEF m
  <1>8. OwnTask(kept')
    <2>1. \A k \in DOMAIN kept'[n].runs : Task(kept'[n].runs[k]) = kept'[n].task
      BY <1>3, <1>5, <1>7 DEF KeptInv, OwnTask
    <2>2. ASSUME NEW i \in DOMAIN kept', i # n
          PROVE  \A k \in DOMAIN kept'[i].runs : Task(kept'[i].runs[k]) = kept'[i].task
      <3>1. i \in DOMAIN kept /\ kept'[i] = kept[i]
        BY <1>4, <2>2
      <3>2. QED BY <3>1 DEF KeptInv, OwnTask
    <2>3. QED BY <2>1, <2>2 DEF OwnTask
  <1>9. InOnePlace(kept', deduped')
    <2>1. ASSUME NEW i \in DOMAIN kept', NEW k \in DOMAIN kept'[i].runs
          PROVE  \/ i = n /\ k = m /\ kept'[i].runs[k] = r
                 \/ /\ i \in DOMAIN kept /\ k \in DOMAIN kept[i].runs
                    /\ kept'[i].runs[k] = kept[i].runs[k]
                    /\ kept[i].runs[k] \in deduped /\ kept[i].runs[k] # r
      <3>1. ASSUME k \in DOMAIN kept[i].runs
            PROVE  kept[i].runs[k] \in deduped /\ kept[i].runs[k] # r
        BY <1>2, <1>4, <3>1 DEF KeptInv, InOnePlace
      <3>2. CASE i = n
        BY <1>4, <1>7, <3>1, <3>2
      <3>3. CASE i # n
        <4>1. kept'[i] = kept[i]
          BY <1>4, <3>3
        <4>2. QED BY <1>4, <3>1, <4>1
      <3>4. QED BY <3>2, <3>3
    <2>2. \A i \in DOMAIN kept' : \A k \in DOMAIN kept'[i].runs : kept'[i].runs[k] \in deduped'
      BY <1>2, <2>1
    <2>3. \A s \in deduped' :
             \E i \in DOMAIN kept' : \E k \in DOMAIN kept'[i].runs : kept'[i].runs[k] = s
      <3>1. ASSUME NEW s \in deduped
            PROVE  \E i \in DOMAIN kept' : \E k \in DOMAIN kept'[i].runs : kept'[i].runs[k] = s
        <4>1. PICK i \in DOMAIN kept : \E k \in DOMAIN kept[i].runs : kept[i].runs[k] = s
          BY DEF KeptInv, InOnePlace
        <4>2. PICK k \in DOMAIN kept[i].runs : kept[i].runs[k] = s
          BY <4>1
        <4>3. k \in DOMAIN kept'[i].runs /\ kept'[i].runs[k] = s
          <5>1. CASE i = n
            BY <1>7, <4>2, <5>1
          <5>2. CASE i # n
            <6>1. kept'[i] = kept[i]
              BY <1>4, <5>2
            <6>2. QED BY <4>2, <6>1
          <5>3. QED BY <5>1, <5>2
        <4>4. QED BY <1>4, <4>3
      <3>2. QED BY <1>2, <1>3, <1>4, <1>7, <3>1
    <2>4. \A i, j \in DOMAIN kept' :
             \A k \in DOMAIN kept'[i].runs, l \in DOMAIN kept'[j].runs :
                kept'[i].runs[k] = kept'[j].runs[l] => i = j /\ k = l
      BY <1>4, <2>1 DEF KeptInv, InOnePlace
    <2>5. QED BY <2>2, <2>3, <2>4 DEF InOnePlace
  <1>10. QED BY <1>2, <1>6, <1>8, <1>9 DEF KeptInv

LEMMA KeptInvKept ==
    ASSUME KeptInv, [FlowNext]_flowVars
    PROVE  KeptInv'
  <1>1. ASSUME UNCHANGED <<deduped, kept>> PROVE KeptInv'
    BY <1>1 DEF KeptInv
  <1>2. QED
    BY <1>1, KeepKeeps, MergeKeeps
    DEF FlowNext, WriterStep, Fold, Distilled, CasesDone, WriterFails, Freeze,
        flowVars, writerVars

LEMMA KeptInvariant == FlowSpec => []KeptInv
  <1>1. ASSUME FlowInit PROVE KeptInv
    BY <1>1 DEF FlowInit, WriterInit, KeptInv, OwnTask, InOnePlace
  <1>2. KeptInv /\ [FlowNext]_flowVars => KeptInv'
    BY KeptInvKept
  <1>3. QED BY <1>1, <1>2, PTL DEF FlowSpec

\* No run is lost in a merge, none is counted twice and none is put under another
\* task (writer.py _dedupe).
THEOREM RunsAreKept == FlowSpec => []EveryRunKept
  <1>1. ASSUME KeptInv PROVE EveryRunKept
    <2>1. ASSUME NEW r \in deduped
          PROVE  \E i \in DOMAIN kept : \E k \in DOMAIN kept[i].runs :
                    /\ kept[i].task = Task(r) /\ kept[i].runs[k] = r
                    /\ \A j \in DOMAIN kept : \A l \in DOMAIN kept[j].runs :
                          kept[j].runs[l] = r => j = i /\ l = k
      <3>1. PICK i \in DOMAIN kept : \E k \in DOMAIN kept[i].runs : kept[i].runs[k] = r
        BY <1>1 DEF KeptInv, InOnePlace
      <3>2. PICK k \in DOMAIN kept[i].runs : kept[i].runs[k] = r
        BY <3>1
      <3>3. kept[i].task = Task(r)
        BY <1>1, <3>2 DEF KeptInv, OwnTask
      <3>4. \A j \in DOMAIN kept : \A l \in DOMAIN kept[j].runs :
                kept[j].runs[l] = r => j = i /\ l = k
        BY <1>1, <3>2 DEF KeptInv, InOnePlace
      <3>5. QED BY <3>2, <3>3, <3>4
    <2>2. QED BY <2>1 DEF EveryRunKept
  <1>2. QED BY <1>1, KeptInvariant, PTL

----------------------------------------------------------------------------
(* The rankings. *)

LEMMA MicroIsInteger ==
    ASSUME NEW a \in Nat, NEW b \in Nat, b > 0
    PROVE  Micro(a, b) \in Int
  BY DEF Micro

LEMMA BankIsFinite ==
    ASSUME bank \in Seq(Case), NEW S \in SUBSET (DOMAIN bank)
    PROVE  IsFiniteSet(S) /\ Cardinality(S) \in Nat
  <1>1. IsFiniteSet(DOMAIN bank)
    <2>1. DOMAIN bank = 1..Len(bank) /\ Len(bank) \in Nat
      OBVIOUS
    <2>2. QED BY <2>1, FS_Interval
  <1>2. IsFiniteSet(S)
    BY <1>1, FS_Subset
  <1>3. QED BY <1>2, FS_CardinalityType

\* A case that is in a ranking has a rank there.
LEMMA RankIsPositive ==
    ASSUME bank \in Seq(Case), NEW list \in SetToAllKPermutations(DOMAIN bank),
           NEW c \in ToSet(list)
    PROVE  RankIn(list, c) \in Nat \ {0}
  <1>1. PICK S \in SUBSET (DOMAIN bank) : list \in SetToSeqs(S)
    BY DEF SetToAllKPermutations
  <1>2. DOMAIN list = 1..Cardinality(S)
    BY <1>1 DEF SetToSeqs
  <1>3. \E i \in DOMAIN list : list[i] = c
    BY DEF ToSet
  <1>4. RankIn(list, c) \in DOMAIN list
    BY <1>3 DEF RankIn
  <1>5. QED BY <1>2, <1>4, BankIsFinite

\* The embedding ranks every case.
LEMMA EveryCaseRanked ==
    ASSUME bank \in Seq(Case), NEW list \in SetToSeqs(DOMAIN bank), NEW c \in DOMAIN bank
    PROVE  c \in ToSet(list) /\ list \in SetToAllKPermutations(DOMAIN bank)
  <1> DEFINE n == Cardinality(DOMAIN bank)
  <1>1. list \in [1..n -> DOMAIN bank] /\ \A i, j \in 1..n : i # j => list[i] # list[j]
    BY DEF SetToSeqs
  <1>2. IsFiniteSet(DOMAIN bank) /\ n \in Nat
    BY BankIsFinite
  <1>3. Cardinality(1..n) = n
    BY <1>2, FS_Interval
  <1>4. list \in Injection(1..n, DOMAIN bank)
    BY <1>1 DEF Injection, IsInjective
  <1>5. list \in Surjection(1..n, DOMAIN bank)
    BY <1>2, <1>3, <1>4, FS_Injection
  <1>6. \E i \in 1..n : list[i] = c
    BY <1>5 DEF Surjection
  <1>7. c \in ToSet(list)
    BY <1>1, <1>6 DEF ToSet
  <1>8. QED BY <1>7 DEF SetToAllKPermutations

LEMMA FusedIsInteger ==
    ASSUME bank \in Seq(Case), lexical \in SetToAllKPermutations(DOMAIN bank),
           semantic \in SetToSeqs(DOMAIN bank), NEW c \in DOMAIN bank
    PROVE  Fused(c) \in Int
  <1> DEFINE l == RrfK + RankIn(lexical, c)
             s == RrfK + RankIn(semantic, c)
  <1>1. s \in Nat /\ s > 0
    <2>1. RankIn(semantic, c) \in Nat \ {0}
      BY EveryCaseRanked, RankIsPositive
    <2>2. QED BY <2>1, FlowConstants
  <1>2. CASE c \in ToSet(lexical)
    <2>1. RankIn(lexical, c) \in Nat \ {0}
      BY <1>2, RankIsPositive
    <2>2. l \in Nat /\ l > 0
      BY <2>1, FlowConstants
    <2>3. l * s \in Nat /\ l * s > 0 /\ l + s \in Nat
      BY <1>1, <2>2
    <2>4. Micro(l + s, l * s) \in Int
      BY <2>3, MicroIsInteger
    <2>5. QED BY <1>2, <2>4 DEF Fused
  <1>3. CASE c \notin ToSet(lexical)
    <2>1. Micro(1, s) \in Int
      BY <1>1, MicroIsInteger
    <2>2. QED BY <1>3, <2>1 DEF Fused
  <1>4. QED BY <1>2, <1>3

\* If the pool holds nothing of another task, the task's own cases fill it: of the
\* others' cases the one with the fewest ahead of it has only own cases ahead.
LEMMA PoolCrowds ==
    ASSUME bank \in Seq(Case), \A c \in DOMAIN bank : Fused(c) \in Int,
           {c \in Pool : Foreign(c)} = {}
    PROVE  Crowded
  <1> DEFINE A(c) == {d \in DOMAIN bank : Fused(d) > Fused(c) \/ (Fused(d) = Fused(c) /\ d < c)}
             own == {c \in DOMAIN bank : ~Foreign(c)}
             sets == {A(c) : c \in Others}
             D == DOMAIN bank
  <1>1. \A c \in D : Cardinality(A(c)) < RerankPool => c \in Pool
    <2> DEFINE score == [c \in D |-> Fused(c)]
               B(c) == {d \in D : score[d] > score[c] \/ (score[d] = score[c] /\ d < c)}
    <2>1. \A c \in D : B(c) = A(c)
      OBVIOUS
    <2>2. Pool = {c \in D : Cardinality(B(c)) < RerankPool}
      BY DEF Pool
    <2> HIDE DEF B, A
    <2>3. QED BY <2>1, <2>2
  <1>2. \A c \in D : A(c) \in SUBSET D
    OBVIOUS
  <1>3. SUFFICES ASSUME Others # {} PROVE Cardinality(own) >= RerankPool
    BY DEF Crowded, Others
  <1>4. /\ \A c \in D : c \in Nat
        /\ \A c, d \in D : d \in A(c) => A(d) \subseteq A(c)
        /\ \A d \in D : d \notin A(d)
    <2>1. \A c \in D : c \in Nat
      OBVIOUS
    <2>2. ASSUME NEW c \in D, NEW d \in A(c), NEW e \in A(d) PROVE e \in A(c)
      <3>1. d \in D /\ e \in D /\ c \in Nat /\ d \in Nat /\ e \in Nat
        BY <2>1, <2>2
      <3>2. Fused(c) \in Int /\ Fused(d) \in Int /\ Fused(e) \in Int
        BY <2>2, <3>1
      <3>3. /\ Fused(d) > Fused(c) \/ (Fused(d) = Fused(c) /\ d < c)
            /\ Fused(e) > Fused(d) \/ (Fused(e) = Fused(d) /\ e < d)
        BY <2>2
      <3>4. Fused(e) > Fused(c) \/ (Fused(e) = Fused(c) /\ e < c)
        BY <3>1, <3>2, <3>3
      <3>5. QED BY <3>1, <3>4
    <2>3. ASSUME NEW d \in D PROVE d \notin A(d)
      <3>1. Fused(d) \in Int /\ d \in Nat
        BY <2>1
      <3>2. QED BY <3>1
    <2> HIDE DEF A
    <2>4. QED BY <2>1, <2>2, <2>3
  <1> HIDE DEF A
  <1>5. IsWellFoundedOn(StrictSubsetOrdering(D), FiniteSubsetsOf(D))
    BY FS_StrictSubsetOrderingWellFounded
  <1>6. sets \subseteq FiniteSubsetsOf(D) /\ sets # {}
    <2>1. \A c \in Others : A(c) \in SUBSET D /\ IsFiniteSet(A(c))
      BY <1>2, BankIsFinite DEF Others
    <2>2. QED BY <1>3, <2>1 DEF FiniteSubsetsOf
  <1>7. PICK x \in sets : \A y \in sets : ~(<<y, x>> \in StrictSubsetOrdering(D))
    BY <1>5, <1>6, WFMin
  <1>8. PICK c \in Others : x = A(c)
    BY <1>7
  <1>9. A(c) \subseteq own
    <2>1. ASSUME NEW d \in A(c), d \in Others PROVE FALSE
      <3>1. c \in D /\ d \in D
        BY <1>8, <2>1 DEF Others
      <3>2. A(d) \subseteq A(c) /\ A(d) # A(c) /\ A(d) \in SUBSET D /\ A(c) \in SUBSET D
        BY <1>2, <1>4, <2>1, <3>1
      <3>3. <<A(d), A(c)>> \in StrictSubsetOrdering(D)
        BY <3>2 DEF StrictSubsetOrdering
      <3>4. A(d) \in sets
        BY <2>1
      <3>5. QED BY <1>7, <1>8, <3>3, <3>4
    <2>2. A(c) \in SUBSET D
      BY <1>2, <1>8 DEF Others
    <2>3. QED BY <2>1, <2>2 DEF Others
  <1>10. Cardinality(A(c)) <= Cardinality(own)
    <2>1. IsFiniteSet(own)
      BY BankIsFinite
    <2>2. QED BY <1>9, <2>1, FS_Subset
  <1>11. ~(Cardinality(A(c)) < RerankPool)
    BY <1>1, <1>8 DEF Others
  <1>12. /\ Cardinality(A(c)) \in Nat /\ Cardinality(own) \in Nat /\ RerankPool \in Nat
    <2>1. c \in D
      BY <1>8 DEF Others
    <2>2. QED BY <1>2, <2>1, BankIsFinite, FlowConstants
  <1> HIDE DEF own
  <1>13. QED BY <1>10, <1>11, <1>12

----------------------------------------------------------------------------
(* The query. *)

LEMMA SizeIsPositive ==
    ASSUME bank \in Seq(Case), NEW c \in DOMAIN bank
    PROVE  Size(c) \in Nat \ {0}
  <1>1. bank[c] \in Case
    OBVIOUS
  <1>2. bank[c].content \in Texts
    BY <1>1 DEF Case
  <1>3. QED BY <1>2, FlowConstants DEF Size

LEMMA RankKeeps ==
    ASSUME ViewInv, Rank, build' = build, build = "frozen"
    PROVE  ViewInv'
  BY DEF ViewInv, Rank, LexicalRankings, SemanticRankings

LEMMA RerankKeeps ==
    ASSUME ViewInv, Rerank, build' = build, build = "frozen"
    PROVE  ViewInv'
  <1> DEFINE P == {c \in Pool : Foreign(c)}
  <1>1. /\ query = "fuse" /\ query' = "pack" /\ bank' = bank /\ task' = task
        /\ ranked' \in SetToSeqs(P)
        /\ pos' = 1 /\ packed' = <<>> /\ remaining' = Budget
    BY DEF Rerank
  <1>2. Others' = Others /\ Crowded' = Crowded
    BY <1>1 DEF Others, Crowded, Foreign
  <1>3. P \in SUBSET Others /\ P \in SUBSET (DOMAIN bank)
    BY DEF Pool, Others
  <1>4. IsFiniteSet(P) /\ Cardinality(P) \in Nat
    BY <1>3, BankIsFinite DEF ViewInv
  <1>5. ranked' \in [1..Cardinality(P) -> P]
    BY <1>1 DEF SetToSeqs
  <1> DEFINE n == Cardinality(P)
  <1> HIDE DEF P
  <1>6. ranked' \in Seq(Others) /\ Len(ranked') = n
    <2>1. ranked' \in [1..n -> Others]
      BY <1>3, <1>5
    <2> HIDE DEF n
    <2>2. n \in Nat
      BY <1>4 DEF n
    <2>3. QED BY <2>1, <2>2
  <1>7. ASSUME ranked' = <<>> PROVE Crowded
    <2>1. Cardinality(P) = 0
      BY <1>6, <1>7
    <2>2. P = {}
      BY <1>4, <2>1, FS_EmptySet
    <2>3. \A c \in DOMAIN bank : Fused(c) \in Int
      BY <1>1, FusedIsInteger DEF ViewInv
    <2>4. QED BY <2>2, <2>3, PoolCrowds DEF ViewInv, P
  <1>8. packed' \in Seq(Others)
    BY <1>1
  <1>9. QED BY <1>1, <1>2, <1>6, <1>7, <1>8 DEF ViewInv

\* The best of the ranking, if it fits into an empty pack, is taken first.
LEMMA PackKeeps ==
    ASSUME ViewInv, Take \/ Skip, build' = build, build = "frozen"
    PROVE  ViewInv'
  <1>1. /\ query = "pack" /\ pos <= Len(ranked) /\ pos' = pos + 1
        /\ UNCHANGED <<bank, task, query, ranked>>
        /\ \/ Fits(ranked[pos]) /\ packed' = Append(packed, ranked[pos])
           \/ ~Fits(ranked[pos]) /\ packed' = packed
    BY DEF Take, Skip
  <1>2. Others' = Others /\ Crowded' = Crowded
    BY <1>1 DEF Others, Crowded, Foreign
  <1>3. /\ ranked \in Seq(Others) /\ packed \in Seq(Others) /\ pos \in Nat \ {0}
        /\ bank \in Seq(Case)
    BY <1>1 DEF ViewInv
  <1>4. pos \in DOMAIN ranked /\ ranked[pos] \in Others
    BY <1>1, <1>3
  <1>5. /\ Append(packed, ranked[pos]) \in Seq(Others)
        /\ Append(packed, ranked[pos]) # <<>>
    BY <1>3, <1>4
  <1>6. packed' \in Seq(Others') /\ ranked' \in Seq(Others')
    BY <1>1, <1>2, <1>3, <1>5
  <1>7. pos' \in Nat \ {0} /\ pos' # 1
    BY <1>1, <1>3
  <1>8. ASSUME Size(ranked[1]) <= Budget PROVE packed' # <<>>
    <2>1. CASE pos = 1
      <3>1. packed = <<>> /\ remaining = Budget
        BY <1>1, <2>1 DEF ViewInv
      <3>2. ~Seen(ranked[1])
        BY <3>1 DEF Seen
      <3>3. Fits(ranked[pos])
        BY <1>8, <2>1, <3>1, <3>2 DEF Fits
      <3>4. QED BY <1>1, <1>5, <3>3
    <2>2. CASE pos # 1
      <3>1. pos > 1 /\ ranked # <<>>
        BY <1>3, <1>4, <2>2
      <3>2. packed # <<>>
        BY <1>1, <1>8, <3>1 DEF ViewInv
      <3>3. QED BY <1>1, <1>5, <3>2
    <2>3. QED BY <2>1, <2>2
  <1>9. Size(ranked[1])' = Size(ranked[1])
    BY <1>1 DEF Size
  <1>10. ranked = <<>> => Crowded
    BY <1>1 DEF ViewInv
  <1>11. QED BY <1>1, <1>2, <1>6, <1>7, <1>8, <1>9, <1>10 DEF ViewInv

LEMMA AnswerKeeps ==
    ASSUME ViewInv, Answer, build' = build, build = "frozen"
    PROVE  ViewInv'
  <1>1. /\ query = "pack" /\ pos > Len(ranked) /\ query' = "answered" /\ packed' = Served
        /\ UNCHANGED <<bank, task, ranked>>
    BY DEF Answer
  <1>2. Others' = Others /\ Crowded' = Crowded
    BY <1>1 DEF Others, Crowded, Foreign
  <1>3. /\ ranked \in Seq(Others) /\ packed \in Seq(Others) /\ pos \in Nat \ {0}
        /\ bank \in Seq(Case) /\ (ranked = <<>> => Crowded)
    BY <1>1 DEF ViewInv
  <1>4. ASSUME ranked # <<>>
        PROVE  Served \in Seq(Others) /\ Served # <<>>
    <2>1. 1 \in DOMAIN ranked /\ ranked[1] \in Others /\ Len(ranked) >= 1
      BY <1>3, <1>4
    <2>2. Size(ranked[1]) \in Nat
      BY <1>3, <2>1, SizeIsPositive DEF Others
    <2>3. CASE Size(ranked[1]) > Budget
      <3>1. Served = <<ranked[1]>>
        BY <1>4, <2>3 DEF Served
      <3>2. QED BY <2>1, <3>1
    <2>4. CASE ~(Size(ranked[1]) > Budget)
      <3>1. Served = packed
        BY <2>4 DEF Served
      <3>2. pos > 1 /\ Size(ranked[1]) <= Budget
        BY <1>1, <1>3, <2>1, <2>2, <2>4, FlowConstants
      <3>3. packed # <<>>
        BY <1>1, <1>4, <3>2 DEF ViewInv
      <3>4. QED BY <1>3, <3>1, <3>3
    <2>5. QED BY <2>3, <2>4
  <1>5. ranked = <<>> => Served = packed
    BY DEF Served
  <1>6. packed' \in Seq(Others') /\ (packed' = <<>> => ranked' = <<>>)
    BY <1>1, <1>2, <1>3, <1>4, <1>5
  <1>7. QED BY <1>1, <1>2, <1>3, <1>6 DEF ViewInv

LEMMA ViewInvKept ==
    ASSUME ViewInv, KeptInv, [FlowNext]_flowVars
    PROVE  ViewInv'
  <1>1. CASE WriterStep /\ UNCHANGED viewVars
    <2>1. build # "frozen"
      BY <1>1 DEF WriterStep, Fold, KeepCase, MergeCase, Incoming, Distilled, CasesDone, WriterFails
    <2>2. QED BY <1>1, <2>1 DEF ViewInv, viewVars, queryVars
  <1>2. CASE Freeze
    <2>1. query = "none" /\ query' = "none" /\ bank' = kept
      BY <1>2 DEF Freeze, ViewInv, queryVars
    <2>2. QED BY <2>1 DEF ViewInv, KeptInv
  <1>3. CASE build = "frozen" /\ ViewStep /\ UNCHANGED writerVars
    <2>1. build' = build
      BY <1>3 DEF writerVars
    <2>2. ASSUME NEW t \in Tasks, Ask(t) PROVE ViewInv'
      BY <1>3, <2>1, <2>2 DEF Ask, ViewInv
    <2>3. QED
      BY <1>3, <2>1, <2>2, RankKeeps, RerankKeeps, PackKeeps, AnswerKeeps DEF ViewStep
  <1>4. CASE UNCHANGED flowVars
    <2>1. /\ UNCHANGED <<build, bank, task, query, lexical, semantic, ranked, pos, packed,
                         remaining>>
      BY <1>4 DEF flowVars, writerVars, viewVars, queryVars
    <2>2. Others' = Others /\ Crowded' = Crowded /\ Size(ranked[1])' = Size(ranked[1])
      BY <2>1 DEF Others, Crowded, Foreign, Size
    <2>3. QED BY <2>1, <2>2 DEF ViewInv
  <1>5. QED BY <1>1, <1>2, <1>3, <1>4 DEF FlowNext

LEMMA ViewInvariant == FlowSpec => []ViewInv
  <1>1. ASSUME FlowInit PROVE ViewInv
    BY <1>1 DEF FlowInit, ViewInit, WriterInit, ViewInv, OwnTask
  <1>2. ViewInv /\ KeptInv /\ [FlowNext]_flowVars => ViewInv'
    BY ViewInvKept
  <1>3. QED BY <1>1, <1>2, KeptInvariant, PTL DEF FlowSpec

\* The leave-one-task-out firewall, through the merges of the writer, the rerank
\* and the packing of the one case over budget (bank.py MemoryView, writer.py).
THEOREM OwnTaskStaysOut == FlowSpec => []NoOwnExperience
  <1>1. ASSUME ViewInv PROVE NoOwnExperience
    <2> SUFFICES ASSUME Loto, query = "answered",
                        NEW i \in DOMAIN packed, NEW k \in DOMAIN bank[packed[i]].runs
                 PROVE  Task(bank[packed[i]].runs[k]) # task
      BY DEF NoOwnExperience
    <2>1. packed \in Seq(Others)
      BY <1>1 DEF ViewInv
    <2>2. packed[i] \in Others
      BY <2>1
    <2>3. packed[i] \in DOMAIN bank /\ bank[packed[i]].task # task
      BY <2>2 DEF Others, Foreign
    <2>4. Task(bank[packed[i]].runs[k]) = bank[packed[i]].task
      BY <1>1, <2>3 DEF ViewInv, OwnTask
    <2>5. QED BY <2>3, <2>4
  <1>2. QED BY <1>1, ViewInvariant, PTL

\* A bank with a case of another task is silent only when the running task's own
\* cases fill the rerank pool, whatever the budget and the rankings (retrievers.py
\* HybridRerankRetriever, bank.py _pack).
THEOREM SilenceIsCrowding == FlowSpec => []SilenceMeansCrowding
  <1>1. ViewInv => SilenceMeansCrowding
    BY DEF ViewInv, SilenceMeansCrowding, Crowded
  <1>2. QED BY <1>1, ViewInvariant, PTL

----------------------------------------------------------------------------
(* The packing. *)

EachOnce(list) == \A i, j \in DOMAIN list : i # j => list[i] # list[j]

\* What is packed follows the ranking.
InOrder ==
    /\ Len(packed) = Cardinality(Chosen)
    /\ \A i \in DOMAIN packed : packed[i] \in ToSet(ranked)
    /\ \A i, j \in DOMAIN packed :
          i < j => RankIn(ranked, packed[i]) < RankIn(ranked, packed[j])

\* S is the greedy selection from the first n places: what it leaves out repeats
\* a better place of it or does not fit beside the better places of it.
Greedy(S, n) ==
    /\ S \subseteq 1..n
    /\ RepeatsNothing(S)
    /\ TokensUpTo(S)[n] <= Budget
    /\ \A d \in (1..n) \ S :
          \/ \E i \in S : i < d /\ bank[ranked[i]].content = bank[ranked[d]].content
          \/ TokensUpTo(S)[d - 1] + Size(ranked[d]) > Budget

PackInv ==
    /\ query \in {"pack", "answered"} => EachOnce(ranked)
    /\ query = "pack" =>
          /\ pos <= Len(ranked) + 1
          /\ InOrder /\ Greedy(Chosen, pos - 1)
          /\ remaining = Budget - TokensUpTo(Chosen)[pos - 1]
    /\ AnswerIsBest

LEMMA TokensRecursion ==
    ASSUME bank \in Seq(Case), ranked \in Seq(Others), NEW S
    PROVE  /\ TokensUpTo(S) \in [0..Len(ranked) -> Nat]
           /\ TokensUpTo(S)[0] = 0
           /\ \A i \in 1..Len(ranked) :
                 TokensUpTo(S)[i]
                    = TokensUpTo(S)[i - 1] + (IF i \in S THEN Size(ranked[i]) ELSE 0)
  <1> DEFINE n == Len(ranked)
             add(i) == IF i \in S THEN Size(ranked[i]) ELSE 0
             step == [p \in (1..n) \X Nat |-> p[2] + add(p[1])]
             F(g) == [i \in 0..n |-> IF i = 0 THEN 0 ELSE g[i - 1] + add(i)]
             f == TokensUpTo(S)
  <1>1. n \in Nat /\ \A i \in 1..n : add(i) \in Nat
    <2>1. \A i \in 1..n : ranked[i] \in DOMAIN bank
      BY DEF Others
    <2>2. QED BY <2>1, SizeIsPositive
  <1> HIDE DEF n, add
  <1>2. step \in [(1..n) \X Nat -> Nat]
    BY <1>1
  <1>3. \A i \in 1..n, b \in Nat : step[<<i, b>>] = b + add(i)
    OBVIOUS
  <1> HIDE DEF step
  <1>4. PICK g : Solves(g, n, Nat, 0, step)
    BY <1>1, <1>2, RecursionExists
  <1>5. /\ g \in [0..n -> Nat] /\ g[0] = 0
        /\ \A i \in 1..n : g[i] = step[<<i, g[i - 1]>>]
    BY <1>4 DEF Solves
  <1>6. ASSUME NEW i \in 1..n PROVE g[i] = g[i - 1] + add(i)
    <2>1. g[i - 1] \in Nat
      BY <1>1, <1>5
    <2>2. QED BY <1>3, <1>5, <2>1
  <1>7. g = F(g)
    BY <1>1, <1>5, <1>6
  <1>8. f = F(f)
    BY <1>7, Zenon DEF TokensUpTo, n, add
  <1> HIDE DEF f
  <1>9. f[0] = 0 /\ \A i \in 1..n : f[i] = f[i - 1] + add(i)
    BY <1>1, <1>8
  <1>10. \A i \in 0..n : f[i] = g[i]
    <2>1. f[0] = g[0] /\ \A i \in 1..n : f[i - 1] = g[i - 1] => f[i] = g[i]
      BY <1>5, <1>6, <1>9
    <2>2. QED BY <1>1, <2>1, RecursionUnique
  <1>11. f \in [0..n -> Nat]
    BY <1>5, <1>8, <1>10
  <1>12. QED BY <1>9, <1>11 DEF f, n, add

LEMMA TokensGrow ==
    ASSUME bank \in Seq(Case), ranked \in Seq(Others), NEW S,
           NEW k \in 0..Len(ranked), NEW i \in 0..k
    PROVE  TokensUpTo(S)[i] <= TokensUpTo(S)[k]
  <1> DEFINE f == TokensUpTo(S)
             T == {m \in 0..k : \A h \in 0..m : f[h] <= f[m]}
  <1>1. /\ f \in [0..Len(ranked) -> Nat]
        /\ \A m \in 1..Len(ranked) : f[m - 1] <= f[m]
    <2>1. \A m \in 1..Len(ranked) : f[m - 1] \in Nat /\ f[m] \in Nat
      BY TokensRecursion
    <2>2. \A m \in 1..Len(ranked) : ranked[m] \in DOMAIN bank
      BY DEF Others
    <2>3. \A m \in 1..Len(ranked) : Size(ranked[m]) \in Nat
      BY <2>2, SizeIsPositive
    <2>4. QED BY <2>1, <2>3, TokensRecursion
  <1> HIDE DEF f
  <1>2. 0 \in T
    BY <1>1
  <1>3. ASSUME NEW m \in 1..k, m - 1 \in T PROVE m \in T
    <2>1. \A h \in 0..(m - 1) : f[h] <= f[m - 1] /\ f[h] \in Nat
      <3>1. \A h \in 0..(m - 1) : f[h] <= f[m - 1]
        BY <1>3
      <3>2. \A h \in 0..(m - 1) : h \in 0..Len(ranked)
        OBVIOUS
      <3>3. QED BY <1>1, <3>1, <3>2
    <2>2. f[m - 1] <= f[m] /\ f[m - 1] \in Nat /\ f[m] \in Nat
      BY <1>1
    <2>3. QED BY <2>1, <2>2
  <1> HIDE DEF T
  <1>4. k \in Nat /\ k \in 0..k
    OBVIOUS
  <1>5. \A m \in 1..k : m - 1 \in T => m \in T
    BY <1>3
  <1>6. 0..k \subseteq T
    BY <1>2, <1>4, <1>5, UpTo
  <1>7. k \in T
    BY <1>4, <1>6
  <1>8. QED BY <1>7 DEF T, f

\* What is selected later does not count before.
LEMMA TokensAgree ==
    ASSUME bank \in Seq(Case), ranked \in Seq(Others), NEW S, NEW T,
           NEW m \in 0..Len(ranked), \A i \in 1..m : i \in S <=> i \in T
    PROVE  TokensUpTo(S)[m] = TokensUpTo(T)[m]
  <1>0. PICK f, g : f = TokensUpTo(S) /\ g = TokensUpTo(T)
    OBVIOUS
  <1>1. f[0] = g[0]
    BY <1>0, TokensRecursion
  <1>2. ASSUME NEW i \in 1..m, f[i - 1] = g[i - 1] PROVE f[i] = g[i]
    <2>1. i \in 1..Len(ranked) /\ (i \in S <=> i \in T)
      OBVIOUS
    <2>2. QED BY <1>0, <1>2, <2>1, TokensRecursion
  <1>3. f[0] = g[0] /\ \A i \in 1..m : f[i - 1] = g[i - 1] => f[i] = g[i]
    BY <1>1, <1>2
  <1>4. m \in Nat /\ m \in 0..m
    OBVIOUS
  <1>5. \A i \in 0..m : f[i] = g[i]
    BY <1>3, <1>4, RecursionUnique
  <1>6. QED BY <1>0, <1>4, <1>5

LEMMA SelectionGrows ==
    ASSUME bank \in Seq(Case), ranked \in Seq(Others),
           NEW n \in 1..Len(ranked), NEW S, Greedy(S, n - 1)
    PROVE  /\ n \notin S
           /\ TokensUpTo(S)[n] = TokensUpTo(S)[n - 1]
           /\ TokensUpTo(S \cup {n})[n] = TokensUpTo(S)[n - 1] + Size(ranked[n])
           /\ \A d \in 0..(n - 1) : TokensUpTo(S \cup {n})[d] = TokensUpTo(S)[d]
  <1>1. S \subseteq 1..(n - 1)
    BY DEF Greedy
  <1>2. n \notin S
    BY <1>1
  <1>3. ASSUME NEW d \in 0..(n - 1) PROVE TokensUpTo(S \cup {n})[d] = TokensUpTo(S)[d]
    <2>1. \A i \in 1..d : i \in S \cup {n} <=> i \in S
      OBVIOUS
    <2>2. d \in 0..Len(ranked)
      OBVIOUS
    <2>3. QED BY <2>1, <2>2, TokensAgree
  <1>4. /\ TokensUpTo(S) \in [0..Len(ranked) -> Nat]
        /\ TokensUpTo(S)[n] = TokensUpTo(S)[n - 1] + 0
    BY <1>2, TokensRecursion
  <1>5. TokensUpTo(S \cup {n})[n] = TokensUpTo(S \cup {n})[n - 1] + Size(ranked[n])
    <2>1. n \in S \cup {n}
      OBVIOUS
    <2>2. QED BY <2>1, TokensRecursion
  <1>6. n - 1 \in 0..(n - 1) /\ n - 1 \in 0..Len(ranked)
    OBVIOUS
  <1>7. QED BY <1>2, <1>3, <1>4, <1>5, <1>6

LEMMA SkipIsGreedy ==
    ASSUME bank \in Seq(Case), ranked \in Seq(Others),
           NEW n \in 1..Len(ranked), NEW S, Greedy(S, n - 1),
           \/ \E i \in S : bank[ranked[i]].content = bank[ranked[n]].content
           \/ TokensUpTo(S)[n - 1] + Size(ranked[n]) > Budget
    PROVE  Greedy(S, n)
  <1>1. TokensUpTo(S)[n] = TokensUpTo(S)[n - 1] /\ n \notin S
    BY SelectionGrows
  <1>2. \A i \in S : i \in 1..(n - 1)
    BY DEF Greedy
  <1>3. S \subseteq 1..n /\ RepeatsNothing(S) /\ TokensUpTo(S)[n] <= Budget
    BY <1>1, <1>2 DEF Greedy
  <1>4. ASSUME NEW d \in (1..n) \ S
        PROVE  \/ \E i \in S : i < d /\ bank[ranked[i]].content = bank[ranked[d]].content
               \/ TokensUpTo(S)[d - 1] + Size(ranked[d]) > Budget
    <2>1. CASE d = n
      <3>1. \A i \in S : i < n
        BY <1>2
      <3>2. QED BY <2>1, <3>1
    <2>2. CASE d # n
      <3>1. d \in (1..(n - 1)) \ S
        BY <2>2
      <3>2. QED BY <3>1 DEF Greedy
    <2>3. QED BY <2>1, <2>2
  <1>5. QED BY <1>3, <1>4 DEF Greedy

LEMMA TakeIsGreedy ==
    ASSUME bank \in Seq(Case), ranked \in Seq(Others),
           NEW n \in 1..Len(ranked), NEW S, Greedy(S, n - 1),
           ~\E i \in S : bank[ranked[i]].content = bank[ranked[n]].content,
           TokensUpTo(S)[n - 1] + Size(ranked[n]) <= Budget
    PROVE  Greedy(S \cup {n}, n)
  <1> DEFINE T == S \cup {n}
  <1>1. /\ TokensUpTo(T)[n] = TokensUpTo(S)[n - 1] + Size(ranked[n])
        /\ \A d \in 0..(n - 1) : TokensUpTo(T)[d] = TokensUpTo(S)[d]
    BY SelectionGrows
  <1>2. S \subseteq 1..(n - 1)
    BY DEF Greedy
  <1>3. T \subseteq 1..n
    BY <1>2
  <1>4. RepeatsNothing(T)
    BY DEF Greedy, RepeatsNothing
  <1>5. TokensUpTo(T)[n] <= Budget
    BY <1>1
  <1>6. ASSUME NEW d \in (1..n) \ T
        PROVE  \/ \E i \in T : i < d /\ bank[ranked[i]].content = bank[ranked[d]].content
               \/ TokensUpTo(T)[d - 1] + Size(ranked[d]) > Budget
    <2>1. d \in (1..(n - 1)) \ S /\ d - 1 \in 0..(n - 1)
      OBVIOUS
    <2>2. TokensUpTo(T)[d - 1] = TokensUpTo(S)[d - 1]
      BY <1>1, <2>1
    <2>3. \/ \E i \in S : i < d /\ bank[ranked[i]].content = bank[ranked[d]].content
          \/ TokensUpTo(S)[d - 1] + Size(ranked[d]) > Budget
      BY <2>1 DEF Greedy
    <2> HIDE DEF T
    <2>4. S \subseteq T
      BY DEF T
    <2>5. QED BY <2>2, <2>3, <2>4
  <1> HIDE DEF T
  <1>7. Greedy(T, n)
    BY <1>3, <1>4, <1>5, <1>6 DEF Greedy
  <1>8. QED BY <1>7 DEF T

\* The greedy selection is preferred: at the best place on which another one
\* differs, it is the greedy one that has the place.
LEMMA GreedyIsPreferred ==
    ASSUME bank \in Seq(Case), ranked \in Seq(Others),
           NEW C, Greedy(C, Len(ranked)),
           NEW S \in SUBSET (DOMAIN ranked), Feasible(S), S # C
    PROVE  Prefers(C, S)
  <1> DEFINE n == Len(ranked)
             D == (C \ S) \cup (S \ C)
  <1>1. n \in Nat /\ C \subseteq 1..n /\ S \subseteq 1..n /\ DOMAIN ranked = 1..n
    BY DEF Greedy
  <1> HIDE DEF n
  <1>2. D \in SUBSET Nat /\ D # {}
    <2>1. C \subseteq Nat /\ S \subseteq Nat
      BY <1>1
    <2>2. D # {}
      OBVIOUS
    <2>3. QED BY <2>1, <2>2
  <1>3. PICK d \in D : \A e \in D : d <= e
    BY <1>2, LeastNat
  <1>4. d \in 1..n /\ d - 1 \in 0..n
    BY <1>1
  <1>5. \A i \in 1..(d - 1) : i \in C <=> i \in S
    <2>1. ASSUME NEW i \in 1..(d - 1), i \in D PROVE FALSE
      <3>1. d <= i
        BY <1>3, <2>1
      <3>2. QED BY <1>4, <3>1
    <2>2. QED BY <2>1
  <1>6. CASE d \in S
    <2>1. d \in (1..n) \ C
      BY <1>4, <1>6
    <2>2. \/ \E i \in C : i < d /\ bank[ranked[i]].content = bank[ranked[d]].content
          \/ TokensUpTo(C)[d - 1] + Size(ranked[d]) > Budget
      BY <2>1 DEF Greedy, n
    <2>3. ~\E i \in C : i < d /\ bank[ranked[i]].content = bank[ranked[d]].content
      <3>1. ASSUME NEW i \in C, i < d, bank[ranked[i]].content = bank[ranked[d]].content
            PROVE  FALSE
        <4>1. i \in S
          BY <1>1, <1>4, <1>5, <3>1
        <4>2. i = d
          <5>1. RepeatsNothing(S)
            BY DEF Feasible
          <5>2. QED BY <1>6, <3>1, <4>1, <5>1 DEF RepeatsNothing
        <4>3. QED BY <1>4, <3>1, <4>2
      <3>2. QED BY <3>1
    <2>4. TokensUpTo(C)[d - 1] = TokensUpTo(S)[d - 1]
      <3>1. d - 1 \in 0..Len(ranked)
        BY <1>4 DEF n
      <3>2. QED BY <1>5, <3>1, TokensAgree
    <2>5. TokensUpTo(S)[d] = TokensUpTo(S)[d - 1] + Size(ranked[d])
      <3>1. d \in 1..Len(ranked)
        BY <1>4 DEF n
      <3>2. QED BY <1>6, <3>1, TokensRecursion
    <2>6. TokensUpTo(S)[d] <= TokensUpTo(S)[n] /\ TokensUpTo(S)[n] <= Budget
      <3>1. d \in 0..n /\ n \in 0..n
        BY <1>1, <1>4
      <3>2. QED BY <3>1, TokensGrow DEF n, Feasible
    <2>7. TokensUpTo(S)[d] \in Nat /\ TokensUpTo(S)[n] \in Nat /\ Budget \in Nat
      <3>1. d \in 0..n /\ n \in 0..n
        BY <1>1, <1>4
      <3>2. QED BY <3>1, TokensRecursion, FlowConstants DEF n
    <2>8. QED BY <2>2, <2>3, <2>4, <2>5, <2>6, <2>7
  <1>7. CASE d \notin S
    <2>1. d \in C \ S
      BY <1>7
    <2>2. \A j \in S \ C : d <= j /\ d # j /\ j \in Nat
      BY <1>1, <1>3, <1>7
    <2>3. \A j \in S \ C : d < j
      BY <1>4, <2>2
    <2>4. QED BY <2>1, <2>3 DEF Prefers
  <1>8. QED BY <1>6, <1>7

Typed == bank \in Seq(Case) /\ ranked \in Seq(Others) /\ EachOnce(ranked)

LEMMA SameRanking ==
    ASSUME bank' = bank, ranked' = ranked, NEW S, NEW n
    PROVE  /\ TokensUpTo(S)' = TokensUpTo(S)
           /\ Greedy(S, n)' <=> Greedy(S, n)
  <1>1. TokensUpTo(S)' = TokensUpTo(S)
    BY DEF TokensUpTo, Size
  <1>2. Greedy(S, n)' <=> Greedy(S, n)
    BY <1>1 DEF Greedy, RepeatsNothing, Size
  <1>3. QED BY <1>1, <1>2

LEMMA PackNumbers ==
    ASSUME Typed, NEW S, NEW k \in 1..Len(ranked)
    PROVE  /\ Size(ranked[k]) \in Nat /\ TokensUpTo(S)[k - 1] \in Nat /\ Budget \in Nat
  <1>1. ranked[k] \in DOMAIN bank /\ k - 1 \in 0..Len(ranked)
    BY DEF Typed, Others
  <1>2. Size(ranked[k]) \in Nat
    BY <1>1, SizeIsPositive DEF Typed
  <1>3. TokensUpTo(S)[k - 1] \in Nat
    <2>1. TokensUpTo(S) \in [0..Len(ranked) -> Nat]
      BY TokensRecursion DEF Typed
    <2>2. QED BY <1>1, <2>1
  <1>4. QED BY <1>2, <1>3, FlowConstants

\* In a ranking that names each case once a case's rank is its place.
LEMMA PlaceIsRank ==
    ASSUME Typed, NEW n \in DOMAIN ranked
    PROVE  RankIn(ranked, ranked[n]) = n
  BY DEF Typed, EachOnce, RankIn

LEMMA NothingPacked ==
    Typed /\ packed = <<>> => InOrder /\ Greedy(Chosen, 0) /\ TokensUpTo(Chosen)[0] = 0
  <1> SUFFICES ASSUME Typed, packed = <<>>
               PROVE  InOrder /\ Greedy(Chosen, 0) /\ TokensUpTo(Chosen)[0] = 0
    OBVIOUS
  <1>1. Chosen = {}
    BY DEF Chosen, ToSet
  <1>2. TokensUpTo(Chosen)[0] = 0 /\ Budget \in Nat
    BY TokensRecursion, FlowConstants DEF Typed
  <1>3. InOrder
    BY <1>1, FS_EmptySet DEF InOrder
  <1>4. Greedy(Chosen, 0)
    BY <1>1, <1>2 DEF Greedy, RepeatsNothing
  <1>5. QED BY <1>2, <1>3, <1>4

LEMMA FirstAlone ==
    ASSUME Typed, ranked # <<>>
    PROVE  /\ Size(ranked[1]) \in Nat
           /\ Feasible({1}) <=> Size(ranked[1]) <= Budget
  <1> DEFINE n == Len(ranked)
             f == TokensUpTo({1})
             T == {i \in 0..n : i = 0 \/ f[i] = Size(ranked[1])}
  <1>1. n \in Nat /\ n >= 1 /\ n \in 0..n /\ ranked[1] \in DOMAIN bank
    BY DEF Typed, Others
  <1>2. Size(ranked[1]) \in Nat
    BY <1>1, SizeIsPositive DEF Typed
  <1>3. /\ f[0] = 0
        /\ \A i \in 1..n : f[i] = f[i - 1] + (IF i = 1 THEN Size(ranked[i]) ELSE 0)
    BY TokensRecursion DEF Typed
  <1> HIDE DEF f, n
  <1>4. ASSUME NEW i \in 1..n, i - 1 \in T PROVE i \in T
    <2>1. CASE i = 1
      <3>1. f[1] = f[0] + Size(ranked[1])
        BY <1>1, <1>3, <2>1
      <3>2. QED BY <1>2, <1>3, <2>1, <3>1
    <2>2. CASE i # 1
      <3>1. f[i - 1] = Size(ranked[1])
        BY <1>1, <1>4, <2>2
      <3>2. f[i] = f[i - 1] + 0
        BY <1>3, <2>2
      <3>3. QED BY <1>2, <3>1, <3>2
    <2>3. QED BY <2>1, <2>2
  <1>5. 0 \in T
    BY <1>1
  <1> HIDE DEF T
  <1>6. \A i \in 1..n : i - 1 \in T => i \in T
    BY <1>4
  <1>7. n \in Nat
    BY <1>1
  <1>8. 0..n \subseteq T
    BY <1>5, <1>6, <1>7, UpTo
  <1>9. n \in T
    BY <1>1, <1>8
  <1>10. f[n] = Size(ranked[1])
    BY <1>1, <1>9 DEF T
  <1>11. RepeatsNothing({1})
    BY DEF RepeatsNothing
  <1>12. QED BY <1>2, <1>10, <1>11 DEF Feasible, f, n

\* The best case alone, when no selection has room for it.
LEMMA AloneIsBest ==
    /\ Typed /\ ranked # <<>> /\ packed = <<ranked[1]>>
    /\ Size(ranked[1]) > Budget
    => AnswerIsBest
  <1> SUFFICES ASSUME Typed, ranked # <<>>, packed = <<ranked[1]>>, Size(ranked[1]) > Budget
               PROVE  AnswerIsBest
    OBVIOUS
  <1>1. 1 \in DOMAIN ranked
    BY DEF Typed
  <1>2. ToSet(packed) = {ranked[1]}
    BY DEF ToSet
  <1>3. Chosen = {1}
    BY <1>1, <1>2 DEF Chosen, Typed, EachOnce
  <1>4. Len(packed) = Cardinality(Chosen) /\ DOMAIN packed = {1}
    <2>1. Cardinality({1}) = 1
      BY FS_Singleton
    <2>2. QED BY <1>3, <2>1
  <1>5. ~Feasible({1})
    BY FirstAlone, FlowConstants
  <1>6. QED BY <1>3, <1>4, <1>5 DEF AnswerIsBest

LEMMA GreedyIsBest ==
    /\ Typed /\ InOrder /\ Greedy(Chosen, Len(ranked))
    /\ ranked # <<>> => Size(ranked[1]) <= Budget
    => AnswerIsBest
  <1> SUFFICES ASSUME Typed, InOrder, Greedy(Chosen, Len(ranked)),
                      ranked # <<>> => Size(ranked[1]) <= Budget
               PROVE  AnswerIsBest
    OBVIOUS
  <1>1. Feasible(Chosen)
    BY DEF Greedy, Feasible
  <1>2. \A S \in SUBSET (DOMAIN ranked) : Feasible(S) /\ S # Chosen => Prefers(Chosen, S)
    BY GreedyIsPreferred DEF Typed
  <1>3. ranked # <<>> => Feasible({1})
    BY FirstAlone
  <1>4. QED BY <1>1, <1>2, <1>3 DEF AnswerIsBest, InOrder

\* The texts seen are those of the selection.
LEMMA SeenIsChosen ==
    ASSUME Typed, InOrder, NEW c
    PROVE  Seen(c) <=> \E i \in Chosen : bank[ranked[i]].content = bank[c].content
  <1>1. ASSUME NEW i \in DOMAIN packed PROVE \E k \in Chosen : ranked[k] = packed[i]
    <2>1. packed[i] \in ToSet(ranked) /\ packed[i] \in ToSet(packed)
      BY DEF InOrder, ToSet
    <2>2. PICK k \in DOMAIN ranked : ranked[k] = packed[i]
      BY <2>1 DEF ToSet
    <2>3. QED BY <2>1, <2>2 DEF Chosen
  <1>2. ASSUME NEW k \in Chosen PROVE \E i \in DOMAIN packed : ranked[k] = packed[i]
    <2>1. ranked[k] \in ToSet(packed)
      BY DEF Chosen
    <2>2. QED BY <2>1 DEF ToSet
  <1>3. QED BY <1>1, <1>2 DEF Seen

LEMMA TakePacks ==
    ASSUME ViewInv, PackInv, Take
    PROVE  PackInv'
  <1>1. /\ query = "pack" /\ query' = "pack" /\ pos <= Len(ranked) /\ Fits(ranked[pos])
        /\ packed' = Append(packed, ranked[pos])
        /\ remaining' = remaining - Size(ranked[pos]) /\ pos' = pos + 1
        /\ ranked' = ranked /\ bank' = bank
    BY DEF Take
  <1>2. /\ Typed /\ InOrder /\ pos \in Nat \ {0} /\ packed \in Seq(Others)
        /\ Greedy(Chosen, pos - 1) /\ remaining = Budget - TokensUpTo(Chosen)[pos - 1]
    BY <1>1 DEF ViewInv, PackInv, Typed
  <1>3. pos \in 1..Len(ranked) /\ pos \in DOMAIN ranked /\ Len(ranked) \in Nat
    BY <1>1, <1>2 DEF Typed
  <1> DEFINE n == Len(packed) + 1
  <1>4. /\ DOMAIN packed' = DOMAIN packed \cup {n} /\ Len(packed') = n /\ packed'[n] = ranked[pos]
        /\ \A i \in DOMAIN packed : packed'[i] = packed[i] /\ i < n
        /\ Len(packed) \in Nat
    BY <1>1, <1>2
  <1> HIDE DEF n
  <1>5. PICK C : C = Chosen
    OBVIOUS
  <1>6. Chosen' = C \cup {pos}
    <2>1. ToSet(packed') = ToSet(packed) \cup {ranked[pos]}
      BY <1>4 DEF ToSet
    <2>2. \A i \in DOMAIN ranked : ranked[i] = ranked[pos] <=> i = pos
      BY <1>2, <1>3 DEF Typed, EachOnce
    <2>3. QED BY <1>1, <1>3, <1>5, <2>1, <2>2 DEF Chosen
  <1>7. /\ pos \notin C /\ C \subseteq 1..(pos - 1) /\ IsFiniteSet(C)
    <2>1. C \subseteq 1..(pos - 1)
      BY <1>2, <1>5 DEF Greedy
    <2>2. IsFiniteSet(1..(pos - 1))
      BY <1>2, FS_Interval
    <2>3. IsFiniteSet(C)
      BY <2>1, <2>2, FS_Subset
    <2>4. pos \notin C
      BY <1>2, <2>1
    <2>5. QED BY <2>1, <2>3, <2>4
  <1>8. Greedy(C \cup {pos}, pos)
        /\ TokensUpTo(C \cup {pos})[pos] = TokensUpTo(C)[pos - 1] + Size(ranked[pos])
    <2>1. ~\E i \in C : bank[ranked[i]].content = bank[ranked[pos]].content
      BY <1>1, <1>2, <1>5, SeenIsChosen DEF Fits
    <2>2. Size(ranked[pos]) \in Nat /\ TokensUpTo(C)[pos - 1] \in Nat /\ Budget \in Nat
      BY <1>2, <1>3, PackNumbers
    <2>3. TokensUpTo(C)[pos - 1] + Size(ranked[pos]) <= Budget
      BY <1>1, <1>2, <1>5, <2>2 DEF Fits
    <2>4. bank \in Seq(Case) /\ ranked \in Seq(Others) /\ Greedy(C, pos - 1)
      BY <1>2, <1>5 DEF Typed
    <2>5. Greedy(C \cup {pos}, pos)
      BY <1>3, <2>1, <2>3, <2>4, TakeIsGreedy
    <2>6. QED BY <1>3, <2>4, <2>5, SelectionGrows
  <1>9. InOrder'
    <2>1. Len(packed') = Cardinality(C \cup {pos})
      <3>1. Cardinality(C \cup {pos}) = Cardinality(C) + 1
        BY <1>7, FS_AddElement
      <3>2. QED BY <1>2, <1>4, <1>5, <3>1 DEF InOrder, n
    <2>2. \A i \in DOMAIN packed' : packed'[i] \in ToSet(ranked)
      BY <1>2, <1>3, <1>4 DEF InOrder, ToSet
    <2>3. ASSUME NEW i \in DOMAIN packed PROVE RankIn(ranked, packed[i]) < pos
      <3>1. packed[i] \in ToSet(packed) /\ packed[i] \in ToSet(ranked)
        BY <1>2 DEF InOrder, ToSet
      <3>2. PICK k \in DOMAIN ranked : ranked[k] = packed[i]
        BY <3>1 DEF ToSet
      <3>3. k \in C
        BY <1>5, <3>1, <3>2 DEF Chosen
      <3>4. RankIn(ranked, packed[i]) = k
        BY <1>2, <3>2, PlaceIsRank
      <3>5. QED BY <1>2, <1>7, <3>3, <3>4
    <2>4. RankIn(ranked, packed'[n]) = pos
      BY <1>2, <1>3, <1>4, PlaceIsRank
    <2>5. ASSUME NEW i \in DOMAIN packed', NEW j \in DOMAIN packed', i < j
          PROVE  RankIn(ranked, packed'[i]) < RankIn(ranked, packed'[j])
      <3>1. i \in DOMAIN packed
        BY <1>2, <1>4, <2>5 DEF n
      <3>2. CASE j = n
        BY <1>4, <2>3, <2>4, <3>1, <3>2
      <3>3. CASE j # n
        <4>1. j \in DOMAIN packed
          BY <1>4, <3>3
        <4>2. packed'[i] = packed[i] /\ packed'[j] = packed[j]
          BY <1>4, <3>1, <4>1
        <4>3. QED BY <1>2, <2>5, <3>1, <4>1, <4>2 DEF InOrder
      <3>4. QED BY <3>2, <3>3
    <2>6. QED BY <1>1, <1>6, <2>1, <2>2, <2>5 DEF InOrder
  <1>10. PICK D, k : D = C \cup {pos} /\ k = pos
    OBVIOUS
  <1>11. Greedy(D, k)' /\ TokensUpTo(D)' = TokensUpTo(D)
    BY <1>1, <1>8, <1>10, SameRanking
  <1>12. D = Chosen' /\ k = pos' - 1
    BY <1>1, <1>2, <1>6, <1>10
  <1>13. Greedy(Chosen, pos - 1)'
    BY <1>11, <1>12
  <1>14. remaining' = Budget - TokensUpTo(D)[k]
    <2>1. remaining = Budget - TokensUpTo(C)[pos - 1]
      BY <1>2, <1>5
    <2>2. Size(ranked[pos]) \in Nat /\ TokensUpTo(C)[pos - 1] \in Nat /\ Budget \in Nat
      BY <1>2, <1>3, PackNumbers
    <2>3. QED BY <1>1, <1>8, <1>10, <2>1, <2>2
  <1>15. (remaining = Budget - TokensUpTo(Chosen)[pos - 1])'
    BY <1>11, <1>12, <1>14
  <1>16. pos' <= Len(ranked') + 1 /\ EachOnce(ranked')
    BY <1>1, <1>2, <1>3 DEF Typed
  <1>17. QED BY <1>1, <1>9, <1>13, <1>15, <1>16 DEF PackInv, AnswerIsBest

LEMMA SkipPacks ==
    ASSUME ViewInv, PackInv, Skip
    PROVE  PackInv'
  <1>1. /\ query = "pack" /\ query' = "pack" /\ pos <= Len(ranked) /\ ~Fits(ranked[pos])
        /\ packed' = packed /\ remaining' = remaining /\ pos' = pos + 1
        /\ ranked' = ranked /\ bank' = bank
    BY DEF Skip
  <1>2. /\ Typed /\ InOrder /\ pos \in Nat \ {0}
        /\ Greedy(Chosen, pos - 1) /\ remaining = Budget - TokensUpTo(Chosen)[pos - 1]
    BY <1>1 DEF ViewInv, PackInv, Typed
  <1>3. PICK C, k : C = Chosen /\ k = pos
    OBVIOUS
  <1>4. /\ k \in 1..Len(ranked) /\ k - 1 \in 0..Len(ranked) /\ Len(ranked) \in Nat
        /\ ranked[k] \in DOMAIN bank
    BY <1>1, <1>2, <1>3 DEF Typed, Others
  <1>5. bank \in Seq(Case) /\ ranked \in Seq(Others) /\ Greedy(C, k - 1)
    BY <1>2, <1>3 DEF Typed
  <1>6. \/ \E i \in C : bank[ranked[i]].content = bank[ranked[k]].content
        \/ TokensUpTo(C)[k - 1] + Size(ranked[k]) > Budget
    <2>1. CASE Seen(ranked[k])
      BY <1>2, <1>3, <2>1, SeenIsChosen
    <2>2. CASE ~(Size(ranked[k]) <= remaining)
      <3>1. Size(ranked[k]) \in Nat /\ TokensUpTo(C)[k - 1] \in Nat /\ Budget \in Nat
        BY <1>2, <1>4, PackNumbers
      <3>2. QED BY <1>2, <1>3, <2>2, <3>1
    <2>3. QED BY <1>1, <1>3, <2>1, <2>2 DEF Fits
  <1>7. Greedy(C, k) /\ TokensUpTo(C)[k] = TokensUpTo(C)[k - 1]
    BY <1>4, <1>5, <1>6, SkipIsGreedy, SelectionGrows
  <1>8. Greedy(C, k)' /\ TokensUpTo(C)' = TokensUpTo(C)
    BY <1>1, <1>7, SameRanking
  <1>9. C = Chosen' /\ k = pos' - 1
    BY <1>1, <1>2, <1>3 DEF Chosen
  <1>10. Greedy(Chosen, pos - 1)'
    BY <1>8, <1>9
  <1>11. (remaining = Budget - TokensUpTo(Chosen)[pos - 1])'
    <2>1. remaining' = Budget - TokensUpTo(C)[k]
      BY <1>1, <1>2, <1>3, <1>7
    <2>2. QED BY <1>8, <1>9, <2>1
  <1>12. InOrder'
    BY <1>1, <1>2 DEF InOrder, Chosen
  <1>13. pos' <= Len(ranked') + 1 /\ EachOnce(ranked')
    BY <1>1, <1>2, <1>4 DEF Typed
  <1>14. QED BY <1>1, <1>10, <1>11, <1>12, <1>13 DEF PackInv, AnswerIsBest

LEMMA RerankPacks ==
    ASSUME ViewInv, ViewInv', Rerank
    PROVE  PackInv'
  <1> DEFINE P == {c \in Pool : Foreign(c)}
  <1>1. /\ query' = "pack" /\ ranked' \in SetToSeqs(P)
        /\ pos' = 1 /\ packed' = <<>> /\ remaining' = Budget
    BY DEF Rerank
  <1>2. DOMAIN ranked' = 1..Cardinality(P) /\ EachOnce(ranked')
    <2> HIDE DEF P
    <2>1. QED BY <1>1 DEF SetToSeqs, EachOnce
  <1>3. Typed'
    BY <1>1, <1>2 DEF Typed, ViewInv
  <1>4. InOrder' /\ Greedy(Chosen, 0)' /\ (TokensUpTo(Chosen)[0] = 0)'
    <2>1. (Typed /\ packed = <<>> =>
              InOrder /\ Greedy(Chosen, 0) /\ TokensUpTo(Chosen)[0] = 0)'
      BY NothingPacked, PTL
    <2>2. QED BY <1>1, <1>3, <2>1
  <1>5. PICK k : k = pos' - 1 /\ k = 0
    BY <1>1
  <1>6. Greedy(Chosen, pos - 1)'
    BY <1>4, <1>5
  <1>7. (remaining = Budget - TokensUpTo(Chosen)[pos - 1])'
    BY <1>1, <1>4, <1>5, FlowConstants
  <1>8. (pos <= Len(ranked) + 1)'
    <2>1. Len(ranked') \in Nat
      BY <1>3 DEF Typed
    <2>2. QED BY <1>1, <2>1
  <1>9. QED BY <1>1, <1>2, <1>4, <1>6, <1>7, <1>8 DEF PackInv, AnswerIsBest

LEMMA AnswerPacks ==
    ASSUME ViewInv, PackInv, Answer
    PROVE  PackInv'
  <1>1. /\ query = "pack" /\ query' = "answered" /\ pos > Len(ranked) /\ packed' = Served
        /\ ranked' = ranked /\ bank' = bank
    BY DEF Answer
  <1>2. /\ Typed /\ InOrder /\ pos \in Nat \ {0} /\ pos <= Len(ranked) + 1
        /\ Greedy(Chosen, pos - 1)
    BY <1>1 DEF ViewInv, PackInv, Typed
  <1>3. PICK n, C : n = Len(ranked) /\ C = Chosen
    OBVIOUS
  <1>4. n \in Nat /\ n = pos - 1 /\ n = Len(ranked')
    BY <1>1, <1>2, <1>3 DEF Typed
  <1>5. Others' = Others
    BY DEF Answer, Others, Foreign
  <1>6. Typed'
    BY <1>1, <1>2, <1>5 DEF Typed
  <1>7. Size(ranked[1])' = Size(ranked[1])
    BY <1>1 DEF Size
  <1>8. ranked # <<>> => Size(ranked[1]) \in Nat
    BY <1>2, FirstAlone
  <1>9. CASE ranked # <<>> /\ Size(ranked[1]) > Budget
    <2>1. packed' = <<ranked[1]>>
      BY <1>1, <1>9 DEF Served
    <2>2. (Typed /\ ranked # <<>> /\ packed = <<ranked[1]>> /\ Size(ranked[1]) > Budget
             => AnswerIsBest)'
      BY AloneIsBest, PTL
    <2>3. AnswerIsBest'
      BY <1>1, <1>6, <1>7, <1>9, <2>1, <2>2
    <2>4. QED BY <1>1, <1>2, <2>3 DEF PackInv, Typed
  <1>10. CASE ~(ranked # <<>> /\ Size(ranked[1]) > Budget)
    <2>1. packed' = packed
      BY <1>1, <1>10 DEF Served
    <2>2. InOrder' /\ C = Chosen'
      BY <1>1, <1>2, <1>3, <2>1 DEF InOrder, Chosen
    <2>3. Greedy(C, n)'
      <3>1. Greedy(C, n)
        BY <1>2, <1>3, <1>4
      <3>2. QED BY <1>1, <3>1, SameRanking
    <2>4. Greedy(Chosen, Len(ranked))'
      BY <1>4, <2>2, <2>3
    <2>5. (ranked # <<>> => Size(ranked[1]) <= Budget)'
      BY <1>1, <1>7, <1>8, <1>10, FlowConstants
    <2>6. (/\ Typed /\ InOrder /\ Greedy(Chosen, Len(ranked))
           /\ ranked # <<>> => Size(ranked[1]) <= Budget
           => AnswerIsBest)'
      BY GreedyIsBest, PTL
    <2>7. AnswerIsBest'
      BY <1>6, <2>2, <2>4, <2>5, <2>6
    <2>8. QED BY <1>1, <1>2, <2>7 DEF PackInv, Typed
  <1>11. QED BY <1>9, <1>10

LEMMA PackInvKept ==
    ASSUME ViewInv, ViewInv', PackInv, [FlowNext]_flowVars
    PROVE  PackInv'
  <1>1. ASSUME query' \in {"none", "fuse"} PROVE PackInv'
    BY <1>1 DEF PackInv, AnswerIsBest
  <1>2. CASE WriterStep /\ UNCHANGED viewVars
    <2>1. build # "frozen"
      BY <1>2 DEF WriterStep, Fold, KeepCase, MergeCase, Incoming, Distilled, CasesDone, WriterFails
    <2>2. query' = "none"
      BY <1>2, <2>1 DEF ViewInv, viewVars, queryVars
    <2>3. QED BY <1>1, <2>2
  <1>3. CASE Freeze
    <2>1. query' = "none"
      BY <1>3 DEF Freeze, ViewInv, queryVars
    <2>2. QED BY <1>1, <2>1
  <1>4. CASE ViewStep
    <2>1. ASSUME NEW t \in Tasks, Ask(t) PROVE PackInv'
      BY <1>1, <2>1 DEF Ask
    <2>2. CASE Rank
      BY <1>1, <2>2 DEF Rank
    <2>3. QED
      BY <1>4, <2>1, <2>2, RerankPacks, TakePacks, SkipPacks, AnswerPacks DEF ViewStep
  <1>5. CASE UNCHANGED flowVars
    <2>1. UNCHANGED <<bank, query, ranked, pos, packed, remaining>>
      BY <1>5 DEF flowVars, viewVars, queryVars
    <2>2. PICK C, k : C = Chosen /\ k = pos - 1
      OBVIOUS
    <2>3. C = Chosen' /\ k = pos' - 1 /\ (InOrder' <=> InOrder)
      BY <2>1, <2>2 DEF InOrder, Chosen
    <2>4. (Greedy(C, k)' <=> Greedy(C, k)) /\ TokensUpTo(C)' = TokensUpTo(C)
      BY <2>1, SameRanking
    <2>5. AnswerIsBest' <=> AnswerIsBest
      BY <2>1 DEF AnswerIsBest, Feasible, RepeatsNothing, TokensUpTo, Size, Chosen
    <2>6. ASSUME query = "pack"
          PROVE  (Greedy(Chosen, pos - 1) /\ remaining = Budget - TokensUpTo(Chosen)[pos - 1])'
      <3>1. Greedy(C, k) /\ remaining = Budget - TokensUpTo(C)[k]
        BY <2>2, <2>6 DEF PackInv
      <3>2. QED BY <2>1, <2>3, <2>4, <3>1
    <2>7. QED BY <2>1, <2>3, <2>5, <2>6 DEF PackInv
  <1>6. QED BY <1>2, <1>3, <1>4, <1>5 DEF FlowNext

\* The greedy pack is the best answer the budget admits: every other selection
\* that fits loses to it on the best place where they differ, and the one case
\* over budget is served alone (bank.py _pack).
THEOREM GreedyAnswersBest == FlowSpec => []AnswerIsBest
  <1>1. ASSUME FlowInit PROVE PackInv
    BY <1>1 DEF FlowInit, ViewInit, PackInv, AnswerIsBest
  <1>2. ViewInv /\ ViewInv' /\ PackInv /\ [FlowNext]_flowVars => PackInv'
    BY PackInvKept
  <1>3. PackInv => AnswerIsBest
    BY DEF PackInv
  <1>4. QED BY <1>1, <1>2, <1>3, ViewInvariant, PTL DEF FlowSpec

----------------------------------------------------------------------------
(* The fusion. *)

\* Two scores a millionth apart stay apart when they are rounded.
LEMMA MicroSeparates ==
    ASSUME NEW a \in Nat, NEW b \in Nat \ {0}, NEW x \in Nat, NEW y \in Nat \ {0},
           (x * 1000000 + y) * b <= (a * 1000000) * y
    PROVE  Micro(x, y) < Micro(a, b)
  <1> DEFINE A == a * 1000000
             X == x * 1000000
             p == Micro(x, y)
             q == Micro(a, b)
  <1>1. A \in Nat /\ X \in Nat /\ (X + y) * b <= A * y
    OBVIOUS
  <1>2. p = (2 * X + y) \div (2 * y) /\ q = (2 * A + b) \div (2 * b)
    BY DEF Micro
  <1> HIDE DEF A, X, p, q
  <1>3. p \in Nat /\ p * (2 * y) <= 2 * X + y
    BY <1>1, <1>2
  <1>4. q \in Nat /\ 2 * A + b < (q + 1) * (2 * b)
    BY <1>1, <1>2
  <1>5. SUFFICES ASSUME q <= p PROVE FALSE
    BY <1>3, <1>4 DEF p, q
  <1>6. 2 * A + b < (p + 1) * (2 * b)
    <2>1. (q + 1) * (2 * b) <= (p + 1) * (2 * b)
      BY <1>3, <1>4, <1>5
    <2>2. QED BY <1>1, <1>3, <1>4, <2>1
  <1>7. (2 * A + b) * y < ((p + 1) * (2 * b)) * y
    BY <1>1, <1>3, <1>6
  <1>8. ((p + 1) * (2 * b)) * y = (p * (2 * y) + 2 * y) * b
    BY <1>3
  <1>9. (p * (2 * y) + 2 * y) * b <= (2 * X + y + 2 * y) * b
    BY <1>1, <1>3
  <1>10. (2 * X + y + 2 * y) * b = 2 * ((X + y) * b) + y * b
    BY <1>1
  <1>11. (2 * A + b) * y = 2 * (A * y) + b * y
    BY <1>1
  <1>12. b * y = y * b
    OBVIOUS
  <1> DEFINE u == (X + y) * b
             v == A * y
             w == b * y
  <1>13. u \in Int /\ v \in Int /\ w \in Int
    BY <1>1
  <1>14. 2 * v + w < 2 * u + w
    BY <1>1, <1>3, <1>7, <1>8, <1>9, <1>10, <1>11, <1>12
  <1>15. u <= v
    BY <1>1
  <1> HIDE DEF u, v, w
  <1>16. QED BY <1>13, <1>14, <1>15

\* One place more is half a millionth at least, up to place 1413.
LEMMA OnePlace ==
    ASSUME NEW s \in Nat \ {0}, s < 1414, NEW t \in Nat, s < t
    PROVE  s * t <= 2000000 * (t - s)
  <1> DEFINE d == t - s
  <1>1. d \in Nat \ {0} /\ t = s + d
    OBVIOUS
  <1> HIDE DEF d
  <1>2. s * t = s * s + s * d
    BY <1>1
  <1>3. s * s <= 1413 * s
    OBVIOUS
  <1>4. s * s + s <= 2000000
    BY <1>3
  <1>5. s * s <= (2000000 - s) * d
    <2>1. (2000000 - s) * 1 <= (2000000 - s) * d
      BY <1>1
    <2>2. QED BY <1>1, <1>4, <2>1
  <1>6. (2000000 - s) * d = 2000000 * d - s * d
    BY <1>1
  <1>7. s * d \in Int /\ s * s \in Int
    BY <1>1
  <1>8. QED BY <1>1, <1>2, <1>5, <1>6, <1>7 DEF d

\* Worse in both rankings: worse by more than the rounding.
LEMMA WorseInBoth ==
    ASSUME NEW l \in Nat \ {0}, NEW s \in Nat \ {0}, l < 1414, s < 1414,
           NEW m \in Nat, NEW t \in Nat, l < m, s < t
    PROVE  Micro(m + t, m * t) < Micro(l + s, l * s)
  <1> DEFINE L == l * m
             S == s * t
  <1>1. /\ L \in Nat /\ S \in Nat /\ l * s \in Nat \ {0} /\ m * t \in Nat \ {0}
        /\ l + s \in Nat /\ m + t \in Nat
    OBVIOUS
  <1>2. L <= 2000000 * (m - l) /\ S <= 2000000 * (t - s)
    BY OnePlace
  <1>3. (m * t) * (l * s) = L * S
    OBVIOUS
  <1>4. (l + s) * (m * t) - (m + t) * (l * s) = L * (t - s) + S * (m - l)
    <2>1. (l + s) * (m * t) = L * t + S * m
      OBVIOUS
    <2>2. (m + t) * (l * s) = L * s + S * l
      OBVIOUS
    <2>3. L * (t - s) = L * t - L * s /\ S * (m - l) = S * m - S * l
      OBVIOUS
    <2> DEFINE x1 == L * t
               x2 == L * s
               x3 == S * m
               x4 == S * l
    <2>4. x1 \in Int /\ x2 \in Int /\ x3 \in Int /\ x4 \in Int
      OBVIOUS
    <2> HIDE DEF x1, x2, x3, x4
    <2>5. (x1 + x3) - (x2 + x4) = (x1 - x2) + (x3 - x4)
      BY <2>4
    <2>6. QED BY <2>1, <2>2, <2>3, <2>5 DEF x1, x2, x3, x4
  <1> HIDE DEF L, S
  <1>5. L * S <= 2000000 * (L * (t - s)) /\ L * S <= 2000000 * (S * (m - l))
    <2>1. L * S <= L * (2000000 * (t - s)) /\ S * L <= S * (2000000 * (m - l))
      BY <1>1, <1>2
    <2>2. /\ L * (2000000 * (t - s)) = 2000000 * (L * (t - s))
          /\ S * (2000000 * (m - l)) = 2000000 * (S * (m - l))
          /\ S * L = L * S
      BY <1>1
    <2>3. QED BY <2>1, <2>2
  <1> DEFINE u == (l + s) * (m * t)
             v == (m + t) * (l * s)
             w == L * S
             y == L * (t - s)
             z == S * (m - l)
  <1>6. u \in Int /\ v \in Int /\ w \in Int /\ y \in Int /\ z \in Int
    BY <1>1
  <1>7. u - v = y + z /\ w <= 2000000 * y /\ w <= 2000000 * z
    BY <1>4, <1>5
  <1> HIDE DEF u, v, w, y, z
  <1>8. 1000000 * v + w <= 1000000 * u
    BY <1>6, <1>7
  <1>9. /\ ((m + t) * 1000000 + m * t) * (l * s) = 1000000 * v + w
        /\ ((l + s) * 1000000) * (m * t) = 1000000 * u
    <2>1. ((m + t) * 1000000 + m * t) * (l * s)
             = 1000000 * ((m + t) * (l * s)) + (m * t) * (l * s)
      BY <1>1
    <2>2. ((l + s) * 1000000) * (m * t) = 1000000 * ((l + s) * (m * t))
      BY <1>1
    <2>3. QED BY <1>3, <2>1, <2>2 DEF u, v, w
  <1>10. QED BY <1>1, <1>8, <1>9, MicroSeparates

\* Absent from one ranking and worse in the other.
LEMMA WorseAndAbsent ==
    ASSUME NEW l \in Nat \ {0}, NEW s \in Nat \ {0}, l < 1414,
           NEW t \in Nat, s < t
    PROVE  Micro(1, t) < Micro(l + s, l * s)
  <1>1. l * s \in Nat \ {0} /\ s * t \in Nat /\ l * t \in Nat /\ t \in Nat \ {0} /\ l + s \in Nat
    OBVIOUS
  <1>2. l * s <= l * t
    OBVIOUS
  <1>3. l * (s * t) <= 1000000 * (s * t)
    BY <1>1
  <1>4. (1 * 1000000 + t) * (l * s) = 1000000 * (l * s) + l * (s * t)
    OBVIOUS
  <1>5. ((l + s) * 1000000) * t = 1000000 * (l * t) + 1000000 * (s * t)
    OBVIOUS
  <1> DEFINE u == l * s
             v == l * t
             w == l * (s * t)
             y == s * t
  <1>6. u \in Int /\ v \in Int /\ w \in Int /\ y \in Int /\ u <= v /\ w <= 1000000 * y
    BY <1>1, <1>2, <1>3
  <1> HIDE DEF u, v, w, y
  <1>7. 1000000 * u + w <= 1000000 * v + 1000000 * y
    BY <1>6
  <1>8. (1 * 1000000 + t) * (l * s) <= ((l + s) * 1000000) * t
    BY <1>4, <1>5, <1>7 DEF u, v, w, y
  <1>9. QED BY <1>1, <1>8, MicroSeparates

\* Where a case stands in a ranking.
LEMMA RankIsPlace ==
    ASSUME bank \in Seq(Case), NEW list \in SetToAllKPermutations(DOMAIN bank),
           NEW c \in ToSet(list)
    PROVE  RankIn(list, c) \in DOMAIN list /\ list[RankIn(list, c)] = c
  BY DEF ToSet, RankIn

\* Fewer are ahead of a case in a ranking than its rank says.
LEMMA AheadInRanking ==
    ASSUME bank \in Seq(Case), NEW list \in SetToAllKPermutations(DOMAIN bank),
           NEW c \in ToSet(list)
    PROVE  LET ahead == {d \in ToSet(list) : RankIn(list, d) < RankIn(list, c)} IN
           /\ IsFiniteSet(ahead) /\ Cardinality(ahead) \in Nat
           /\ Cardinality(ahead) <= RankIn(list, c) - 1
  <1> DEFINE ahead == {d \in ToSet(list) : RankIn(list, d) < RankIn(list, c)}
             r == RankIn(list, c)
             places == {RankIn(list, d) : d \in ahead}
             f == [i \in places |-> list[i]]
  <1>1. \A d \in ToSet(list) :
           RankIn(list, d) \in Nat \ {0} /\ list[RankIn(list, d)] = d
    BY RankIsPositive, RankIsPlace
  <1>2. r \in Nat \ {0}
    BY <1>1
  <1>3. places \subseteq 1..(r - 1)
    <2>1. ASSUME NEW d \in ahead PROVE RankIn(list, d) \in 1..(r - 1)
      BY <1>1, <1>2
    <2>2. QED BY <2>1
  <1>4. IsFiniteSet(1..(r - 1)) /\ Cardinality(1..(r - 1)) = r - 1
    <2>1. 1 \in Int /\ r - 1 \in Int
      BY <1>2
    <2>2. Cardinality(1..(r - 1)) = IF 1 > r - 1 THEN 0 ELSE (r - 1) - 1 + 1
      BY <2>1, FS_Interval
    <2> HIDE DEF r
    <2>3. QED BY <1>2, <2>1, <2>2, FS_Interval
  <1>5. IsFiniteSet(places) /\ Cardinality(places) <= r - 1
    BY <1>3, <1>4, FS_Subset
  <1>6. f \in Surjection(places, ahead)
    <2>1. \A d \in ahead : RankIn(list, d) \in places /\ list[RankIn(list, d)] = d
      BY <1>1
    <2>2. \A i \in places : list[i] \in ahead
      BY <2>1
    <2> HIDE DEF ahead, places
    <2>3. QED BY <2>1, <2>2 DEF Surjection
  <1> HIDE DEF f, places, ahead
  <1>7. IsFiniteSet(ahead) /\ Cardinality(ahead) <= Cardinality(places)
    BY <1>5, <1>6, FS_Surjection
  <1>8. Cardinality(ahead) \in Nat /\ Cardinality(places) \in Nat
    BY <1>5, <1>7, FS_CardinalityType
  <1>9. Cardinality(ahead) <= r - 1
    <2> HIDE DEF r
    <2>1. QED BY <1>2, <1>5, <1>7, <1>8
  <1>10. QED BY <1>7, <1>8, <1>9 DEF ahead

\* rrf_k and rerank_pool are so small that six places tell apart the scores that
\* decide about the pool (the defaults are 60 and 64).
SixPlacesSuffice == RrfK + RerankPool < 1414

LEMMA AheadIsBetter ==
    ASSUME SixPlacesSuffice,
           bank \in Seq(Case), lexical \in SetToAllKPermutations(DOMAIN bank),
           semantic \in SetToSeqs(DOMAIN bank),
           NEW c \in ToSet(lexical), c \in DOMAIN bank,
           RankIn(lexical, c) + RankIn(semantic, c) - 2 < RerankPool,
           NEW d \in DOMAIN bank, d # c, Fused(d) >= Fused(c)
    PROVE  \/ d \in ToSet(lexical) /\ RankIn(lexical, d) < RankIn(lexical, c)
           \/ RankIn(semantic, d) < RankIn(semantic, c)
  <1> DEFINE l == RrfK + RankIn(lexical, c)
             s == RrfK + RankIn(semantic, c)
             m == RrfK + RankIn(lexical, d)
             t == RrfK + RankIn(semantic, d)
  <1>1. /\ semantic \in SetToAllKPermutations(DOMAIN bank)
        /\ c \in ToSet(semantic) /\ d \in ToSet(semantic)
    BY EveryCaseRanked
  <1>2. /\ RankIn(lexical, c) \in Nat \ {0} /\ RankIn(semantic, c) \in Nat \ {0}
        /\ RankIn(semantic, d) \in Nat \ {0}
        /\ d \in ToSet(lexical) => RankIn(lexical, d) \in Nat \ {0}
    BY <1>1, RankIsPositive
  <1>3. /\ RankIn(semantic, c) # RankIn(semantic, d)
        /\ d \in ToSet(lexical) => RankIn(lexical, c) # RankIn(lexical, d)
    BY <1>1, RankIsPlace
  <1>4. SUFFICES ASSUME ~(RankIn(semantic, d) < RankIn(semantic, c)),
                        ~(d \in ToSet(lexical) /\ RankIn(lexical, d) < RankIn(lexical, c))
                 PROVE  FALSE
    OBVIOUS
  <1>5. RrfK \in Nat /\ RerankPool \in Nat /\ RrfK + RerankPool < 1414
    BY FlowConstants DEF SixPlacesSuffice
  <1>6. /\ l \in Nat \ {0} /\ s \in Nat \ {0} /\ t \in Nat
        /\ l < 1414 /\ s < 1414 /\ s < t
    <2>1. RankIn(semantic, c) < RankIn(semantic, d)
      BY <1>2, <1>3, <1>4
    <2>2. RankIn(lexical, c) <= RerankPool /\ RankIn(semantic, c) <= RerankPool
      BY <1>2, <1>5
    <2>3. QED BY <1>2, <1>5, <2>1, <2>2
  <1>7. Fused(c) \in Int /\ Fused(d) \in Int
    BY FusedIsInteger
  <1>8. Fused(c) = Micro(l + s, l * s)
    BY DEF Fused
  <1>9. CASE d \in ToSet(lexical)
    <2>1. m \in Nat /\ l < m
      BY <1>2, <1>3, <1>4, <1>5, <1>9
    <2>2. Fused(d) = Micro(m + t, m * t)
      BY <1>9 DEF Fused
    <2> HIDE DEF l, s, t, m
    <2>3. Micro(m + t, m * t) < Micro(l + s, l * s)
      BY <1>6, <2>1, WorseInBoth
    <2>4. QED BY <1>7, <1>8, <2>2, <2>3
  <1>10. CASE d \notin ToSet(lexical)
    <2>1. Fused(d) = Micro(1, t)
      BY <1>10 DEF Fused
    <2> HIDE DEF l, s, t, m
    <2>2. Micro(1, t) < Micro(l + s, l * s)
      <3>1. l \in Nat \ {0} /\ s \in Nat \ {0} /\ t \in Nat /\ l < 1414 /\ s < t
        BY <1>6
      <3>2. ASSUME NEW a \in Nat \ {0}, NEW b \in Nat \ {0}, NEW e \in Nat, a < 1414, b < e
            PROVE  Micro(1, e) < Micro(a + b, a * b)
        BY <3>2, WorseAndAbsent
      <3>3. QED BY <3>1, <3>2
    <2>3. QED BY <1>7, <1>8, <2>1, <2>2
  <1>11. QED BY <1>9, <1>10

LEMMA AgreedIsInPool ==
    ASSUME SixPlacesSuffice,
           bank \in Seq(Case), lexical \in SetToAllKPermutations(DOMAIN bank),
           semantic \in SetToSeqs(DOMAIN bank), NEW c \in ToSet(lexical),
           RankIn(lexical, c) + RankIn(semantic, c) - 2 < RerankPool
    PROVE  c \in Pool
  <1> DEFINE D == DOMAIN bank
             score == [e \in D |-> Fused(e)]
             ahead == {d \in D : score[d] > score[c] \/ (score[d] = score[c] /\ d < c)}
             inLexical == {d \in ToSet(lexical) : RankIn(lexical, d) < RankIn(lexical, c)}
             inSemantic == {d \in ToSet(semantic) : RankIn(semantic, d) < RankIn(semantic, c)}
  <1>1. c \in D
    <2>1. PICK T \in SUBSET D : lexical \in SetToSeqs(T)
      BY DEF SetToAllKPermutations
    <2>2. ToSet(lexical) \subseteq T
      BY <2>1 DEF SetToSeqs, ToSet
    <2>3. QED BY <2>1, <2>2
  <1>2. /\ semantic \in SetToAllKPermutations(D)
        /\ \A d \in D : d \in ToSet(semantic)
    BY <1>1, EveryCaseRanked
  <1>3. /\ RankIn(lexical, c) \in Nat \ {0} /\ RankIn(semantic, c) \in Nat \ {0}
    BY <1>1, <1>2, RankIsPositive
  <1>4. ahead \subseteq inLexical \cup inSemantic
    <2>1. ASSUME NEW d \in ahead PROVE d \in inLexical \cup inSemantic
      <3>1. d \in D /\ d \in Nat /\ c \in Nat /\ Fused(d) \in Int /\ Fused(c) \in Int
        BY <1>1, FusedIsInteger
      <3>2. Fused(d) > Fused(c) \/ (Fused(d) = Fused(c) /\ d < c)
        BY <1>1
      <3>3. d # c /\ Fused(d) >= Fused(c)
        BY <3>1, <3>2
      <3>4. \/ d \in ToSet(lexical) /\ RankIn(lexical, d) < RankIn(lexical, c)
            \/ RankIn(semantic, d) < RankIn(semantic, c)
        BY <1>1, <3>1, <3>3, AheadIsBetter
      <3>5. QED BY <1>2, <3>1, <3>4
    <2> HIDE DEF ahead, inLexical, inSemantic
    <2>2. QED BY <2>1
  <1>5. /\ IsFiniteSet(inLexical) /\ Cardinality(inLexical) \in Nat
        /\ Cardinality(inLexical) <= RankIn(lexical, c) - 1
    BY AheadInRanking
  <1>6. /\ IsFiniteSet(inSemantic) /\ Cardinality(inSemantic) \in Nat
        /\ Cardinality(inSemantic) <= RankIn(semantic, c) - 1
    BY <1>1, <1>2, AheadInRanking
  <1>7. Pool = {e \in D : Cardinality({d \in D : score[d] > score[e] \/ (score[d] = score[e] /\ d < e)})
                             < RerankPool}
    BY DEF Pool
  <1>8. Cardinality(ahead) < RerankPool => c \in Pool
    <2> HIDE DEF score
    <2>1. QED BY <1>1, <1>7
  <1> HIDE DEF ahead, inLexical, inSemantic, score, D
  <1>9. /\ IsFiniteSet(inLexical \cup inSemantic)
        /\ Cardinality(inLexical \cup inSemantic)
              = Cardinality(inLexical) + Cardinality(inSemantic) - Cardinality(inLexical \cap inSemantic)
    BY <1>5, <1>6, FS_Union
  <1>10. Cardinality(inLexical \cap inSemantic) \in Nat
    <2>1. IsFiniteSet(inLexical \cap inSemantic)
      BY <1>5, FS_Subset
    <2>2. QED BY <2>1, FS_CardinalityType
  <1>11. /\ IsFiniteSet(ahead)
         /\ Cardinality(ahead) <= Cardinality(inLexical \cup inSemantic)
    BY <1>4, <1>9, FS_Subset
  <1>12. Cardinality(ahead) \in Nat /\ RerankPool \in Nat
    BY <1>11, FS_CardinalityType, FlowConstants
  <1>13. Cardinality(ahead) < RerankPool
    BY <1>3, <1>5, <1>6, <1>9, <1>10, <1>11, <1>12
  <1>14. QED BY <1>8, <1>13

\* A case both rankings place high survives the cut to the rerank pool, whatever
\* the bank, as long as rounding the scores cannot tie it with a worse one
\* (retrievers.py HybridRetriever and HybridRerankRetriever).
THEOREM AgreementIsRecalled ==
    ASSUME SixPlacesSuffice
    PROVE  FlowSpec => []AgreedCasesRecalled
  <1>1. ViewInv => AgreedCasesRecalled
    <2> SUFFICES ASSUME ViewInv, query = "fuse", NEW c \in ToSet(lexical),
                        RankIn(lexical, c) + RankIn(semantic, c) - 2 < RerankPool
                 PROVE  c \in Pool
      BY DEF AgreedCasesRecalled
    <2>1. /\ bank \in Seq(Case) /\ lexical \in SetToAllKPermutations(DOMAIN bank)
          /\ semantic \in SetToSeqs(DOMAIN bank)
      BY DEF ViewInv
    <2>2. QED BY <2>1, AgreedIsInPool
  <1>2. QED BY <1>1, ViewInvariant, PTL
=============================================================================
