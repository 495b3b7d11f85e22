----------------------------- MODULE MemoryView -----------------------------
(***************************************************************************)
(* bank.py and retrievers.py: a cell's query to its bank.  Two rankings    *)
(* are fused, the top of the fusion is put in order by the cross-encoder,  *)
(* the running task's own cases are dropped and the rest is packed under   *)
(* the read budget.                                                        *)
(*                                                                         *)
(* A case is its place in the bank, which also stands for its id where     *)
(* ties are broken.  The two rankings and the cross-encoder's order are    *)
(* choices.                                                                *)
(***************************************************************************)
EXTENDS Integers, Sequences, FiniteSets, SequencesExt

CONSTANTS
    Tasks,
    SizeOf,         \* approx_tokens of a content
    Budget,         \* retrieval_tokens
    RerankPool,     \* rerank_pool
    RrfK,           \* rrf_k
    Loto            \* loto: exclude_task_id is set

ASSUME ViewAssumption ==
    /\ Budget \in Nat /\ RerankPool \in Nat \ {0} /\ RrfK \in Nat \ {0}
    /\ Loto \in BOOLEAN

VARIABLES
    bank,       \* the cases
    task,       \* the cell's task
    query,      \* none, or the step of the query under way
    lexical,    \* BM25's ranking
    semantic,   \* the embedding's ranking
    ranked,     \* what is left to pack from
    pos,        \* the next of it
    packed,
    remaining   \* tokens

queryVars == <<query, lexical, semantic, ranked, pos, packed, remaining>>
viewVars == <<bank, task, queryVars>>

ViewInit ==
    /\ bank = <<>> /\ task \in Tasks
    /\ query = "none"
    /\ lexical = <<>> /\ semantic = <<>> /\ ranked = <<>>
    /\ pos = 1 /\ packed = <<>> /\ remaining = 0

----------------------------------------------------------------------------
(* HybridRetriever and HybridRerankRetriever. *)

\* Cases without a common term are not in BM25's ranking.
LexicalRankings == SetToAllKPermutations(DOMAIN bank)

\* Every case is in the embedding's.
SemanticRankings == SetToSeqs(DOMAIN bank)

Rank ==
    /\ query = "none" /\ query' = "fuse"
    /\ lexical' \in LexicalRankings /\ semantic' \in SemanticRankings
    /\ UNCHANGED <<bank, task, ranked, pos, packed, remaining>>

RankIn(list, c) == CHOOSE i \in DOMAIN list : list[i] = c

\* A sum of fractions a/b is kept to six places.
Micro(a, b) == (2 * a * 1000000 + b) \div (2 * b)

\* Wrong variant: a ranking a case is not in counts as if it led it.
AbsentLeads(c) ==
    LET l == RrfK + IF c \in ToSet(lexical) THEN RankIn(lexical, c) ELSE 0
        s == RrfK + RankIn(semantic, c)
    IN Micro(l + s, l * s)

\* score(case) = sum of 1/(rrf_k + rank) over the lists where it appears.
Fused(c) ==
    LET l == RrfK + RankIn(lexical, c)
        s == RrfK + RankIn(semantic, c)
    IN IF c \in ToSet(lexical) THEN Micro(l + s, l * s) ELSE Micro(1, s)

\* The first rerank_pool by fused score, ties by id.
Pool ==
    LET score == [c \in DOMAIN bank |-> Fused(c)]
        Ahead(c) == {d \in DOMAIN bank : score[d] > score[c] \/ (score[d] = score[c] /\ d < c)}
    IN {c \in DOMAIN bank : Cardinality(Ahead(c)) < RerankPool}

\* Wrong variant: nothing is left out.
Everything(c) == TRUE

Foreign(c) == Loto => bank[c].task # task

\* The cross-encoder orders the pool anew; the running task's own cases vanish
\* from that order.
Rerank ==
    /\ query = "fuse" /\ query' = "pack"
    /\ ranked' \in SetToSeqs({c \in Pool : Foreign(c)})
    /\ lexical' = <<>> /\ semantic' = <<>>
    /\ pos' = 1 /\ packed' = <<>> /\ remaining' = Budget
    /\ UNCHANGED <<bank, task>>

----------------------------------------------------------------------------
(* _pack. *)

Size(c) == SizeOf[bank[c].content]

Seen(c) == \E i \in DOMAIN packed : bank[packed[i]].content = bank[c].content

Fits(c) == ~Seen(c) /\ Size(c) <= remaining

Take ==
    /\ query = "pack" /\ pos <= Len(ranked) /\ Fits(ranked[pos])
    /\ packed' = Append(packed, ranked[pos])
    /\ remaining' = remaining - Size(ranked[pos])
    /\ pos' = pos + 1
    /\ UNCHANGED <<bank, task, query, lexical, semantic, ranked>>

\* Wrong variant: the first case that does not fit ends the packing.
Stop ==
    /\ query = "pack" /\ pos <= Len(ranked) /\ ~Fits(ranked[pos])
    /\ pos' = Len(ranked) + 1
    /\ UNCHANGED <<bank, task, query, lexical, semantic, ranked, packed, remaining>>

Skip ==
    /\ query = "pack" /\ pos <= Len(ranked) /\ ~Fits(ranked[pos])
    /\ pos' = pos + 1
    /\ UNCHANGED <<bank, task, query, lexical, semantic, ranked, packed, remaining>>

\* Wrong variant: the best case is packed like any other.
AsPacked == packed

\* A best case that no budget of this size could hold displaces everything.
Served ==
    IF ranked # <<>> /\ Size(ranked[1]) > Budget THEN <<ranked[1]>> ELSE packed

Answer ==
    /\ query = "pack" /\ pos > Len(ranked) /\ query' = "answered"
    /\ packed' = Served
    /\ UNCHANGED <<bank, task, lexical, semantic, ranked, pos, remaining>>

\* The next prompt, of this cell or of another task's.
Ask(t) ==
    /\ query = "answered" /\ query' = "none" /\ task' = t
    /\ ranked' = <<>> /\ pos' = 1 /\ packed' = <<>> /\ remaining' = 0
    /\ UNCHANGED <<bank, lexical, semantic>>

ViewStep == Rank \/ Rerank \/ Take \/ Skip \/ Answer \/ \E t \in Tasks : Ask(t)

----------------------------------------------------------------------------
(* Properties. *)

\* A case that both rankings place high has few cases ahead of it in either:
\* if fewer than the pool holds are, the fusion does not lose it.
AgreedCasesRecalled ==
    query = "fuse" =>
        {c \in ToSet(lexical) : RankIn(lexical, c) + RankIn(semantic, c) - 2 < RerankPool}
            \subseteq Pool

\* The tokens of a selection of places, up to each place of the ranking.
TokensUpTo(S) ==
    LET sum[i \in 0..Len(ranked)] ==
            IF i = 0 THEN 0 ELSE sum[i - 1] + (IF i \in S THEN Size(ranked[i]) ELSE 0)
    IN sum

RepeatsNothing(S) ==
    \A i, j \in S : bank[ranked[i]].content = bank[ranked[j]].content => i = j

Feasible(S) == RepeatsNothing(S) /\ TokensUpTo(S)[Len(ranked)] <= Budget

Chosen == {i \in DOMAIN ranked : ranked[i] \in ToSet(packed)}

Prefers(S, T) == \E i \in S \ T : \A j \in T \ S : i < j

\* Of all selections from the ranking that fit the budget and repeat no text
\* the answer is the one that prefers better ranks, or else the one best case
\* that no selection could hold.
AnswerIsBest ==
    query = "answered" =>
        /\ Len(packed) = Cardinality(Chosen)
        /\ \A i, j \in DOMAIN packed :
              i < j => RankIn(ranked, packed[i]) < RankIn(ranked, packed[j])
        /\ IF ranked # <<>> /\ ~Feasible({1}) THEN Chosen = {1}
           ELSE /\ Feasible(Chosen)
                /\ \A S \in SUBSET (DOMAIN ranked) :
                      Feasible(S) /\ S # Chosen => Prefers(Chosen, S)

\* Memory is silent only if no other task has a case, or if the task's own cases
\* fill the whole pool: the pool is cut before they are dropped.
SilenceMeansCrowding ==
    query = "answered" /\ packed = <<>> =>
        LET own == {c \in DOMAIN bank : ~Foreign(c)} IN
        own = DOMAIN bank \/ Cardinality(own) >= RerankPool
=============================================================================
