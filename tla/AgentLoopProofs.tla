--------------------------- MODULE AgentLoopProofs ---------------------------
(***************************************************************************)
(* What holds of every run of the agent loop, whatever the budget, the     *)
(* policy, the costs of completions and the values of submissions.         *)
(***************************************************************************)
EXTENDS AgentLoop, RecursionLemmas, SequenceTheorems, TLAPS

\* A chain has a best attempt as soon as something scored: what BestAttempt
\* chooses exists.
ScoredIn(s) == {i \in 1..Len(s) : s[i].proxy # None}

Beats(s, i, j) == s[j].proxy < s[i].proxy \/ (s[j].proxy = s[i].proxy /\ i <= j)

HasBest(s) ==
    ScoredIn(s) # {} => \E i \in ScoredIn(s) : \A j \in ScoredIn(s) : Beats(s, i, j)

\* Typed, and there is a best attempt to be chosen whenever one scored.
LoopInv == TypeOK /\ HasBest(attempts)

\* What the loop knows of its budget at each step.
BudgetInv ==
    /\ pc \in {"call", "sleep"} => ~Exhausted(spent)
    /\ Kind = "attempts" /\ pc \in {"call", "sleep", "reply", "execute", "evaluate", "record"}
          => spent.attempts < Limit

\* What an ended run has behind it.
SealInv ==
    /\ pc \in {"start", "head", "call", "sleep"} /\ N = 0 => spent.tokens = 0
    /\ pc \in {"start", "head", "call", "sleep", "reply", "execute", "evaluate", "record"}
          => ~infra
    /\ pc \in {"grade", "seal"} /\ ~infra => Exhausted(spent) /\ N > 0

LEMMA ProxyType ==
    ASSUME NEW s \in Seq(Attempt), NEW i \in ScoredIn(s)
    PROVE  i \in 1..Len(s) /\ s[i].proxy \in Int
  <1>1. i \in 1..Len(s) /\ s[i].proxy # None
    BY DEF ScoredIn
  <1>2. s[i] \in Attempt
    BY <1>1
  <1>3. QED BY <1>1, <1>2 DEF Attempt

LEMMA BestIsAttempt ==
    ASSUME TypeOK, HasBest(attempts)
    PROVE  /\ BestAttempt \in 0..N
           /\ BestAttempt # 0 => attempts[BestAttempt].proxy \in Int
  <1>1. attempts \in Seq(Attempt) /\ N \in Nat /\ Scored = ScoredIn(attempts)
    BY DEF TypeOK, N, Scored, ScoredIn
  <1>2. CASE Scored = {}
    BY <1>1, <1>2 DEF BestAttempt
  <1>3. CASE Scored # {}
    <2>1. \E i \in Scored : \A j \in Scored : Beats(attempts, i, j)
      BY <1>1, <1>3 DEF HasBest
    <2>2. BestAttempt \in ScoredIn(attempts)
      BY <1>1, <1>3, <2>1 DEF BestAttempt, Beats
    <2>3. QED BY <1>1, <2>2, ProxyType DEF N
  <1>4. QED BY <1>2, <1>3

\* A recorded attempt leaves the best one in place, or is the new best.
LEMMA AppendKeepsBest ==
    ASSUME NEW s \in Seq(Attempt), NEW a \in Attempt, HasBest(s)
    PROVE  HasBest(Append(s, a))
  <1> DEFINE t == Append(s, a)
             n == Len(s) + 1
  <1>1. /\ t \in Seq(Attempt) /\ Len(t) = n /\ n \in Nat /\ t[n] = a
        /\ \A i \in 1..Len(s) : i \in 1..n /\ i < n /\ t[i] = s[i]
        /\ \A i \in 1..n : i = n \/ i \in 1..Len(s)
    OBVIOUS
  <1> HIDE DEF t, n
  <1>2. \A i \in ScoredIn(t) : t[i].proxy \in Int /\ i \in Nat /\ i <= n
    BY <1>1, ProxyType
  <1>3. /\ \A i \in ScoredIn(s) : i \in ScoredIn(t) /\ t[i] = s[i] /\ i < n
        /\ \A i \in ScoredIn(t) : i = n \/ (i \in ScoredIn(s) /\ t[i] = s[i])
    BY <1>1 DEF ScoredIn
  <1>4. SUFFICES ASSUME ScoredIn(t) # {}
                 PROVE  \E i \in ScoredIn(t) : \A j \in ScoredIn(t) : Beats(t, i, j)
    BY DEF HasBest, t
  <1>5. CASE ScoredIn(s) = {}
    <2>1. n \in ScoredIn(t) /\ \A j \in ScoredIn(t) : j = n
      BY <1>3, <1>4, <1>5
    <2>2. QED BY <1>2, <2>1 DEF Beats
  <1>6. CASE ScoredIn(s) # {}
    <2>1. PICK i \in ScoredIn(s) : \A j \in ScoredIn(s) : Beats(s, i, j)
      BY <1>6 DEF HasBest
    <2>2. i \in ScoredIn(t) /\ \A j \in ScoredIn(t) : j # n => Beats(t, i, j)
      BY <1>3, <2>1 DEF Beats
    <2>3. CASE n \in ScoredIn(t) /\ t[i].proxy < t[n].proxy
      <3>1. \A j \in ScoredIn(t) : Beats(t, n, j)
        BY <1>2, <2>2, <2>3 DEF Beats
      <3>2. QED BY <2>3, <3>1
    <2>4. CASE n \notin ScoredIn(t) \/ ~(t[i].proxy < t[n].proxy)
      <3>1. \A j \in ScoredIn(t) : Beats(t, i, j)
        BY <1>2, <1>3, <2>1, <2>2, <2>4 DEF Beats
      <3>2. QED BY <2>2, <3>1
    <2>5. QED BY <2>3, <2>4
  <1>7. QED BY <1>5, <1>6

----------------------------------------------------------------------------
(* Types, and the existence of a best attempt. *)

LEMMA BudgetTypes ==
    Limit \in Nat /\ Limit > 0 /\ (\A k \in Costs : k \in Nat /\ k > 0) /\ Costs # {}
    /\ (\A v \in Values : v \in Int) /\ None \notin Int
  BY BudgetAssumption, CostsAssumption, ValuesAssumption

LEMMA AppendTyped ==
    ASSUME NEW S, NEW q \in Seq(S), NEW e \in S
    PROVE  Append(q, e) \in Seq(S) /\ Len(Append(q, e)) = Len(q) + 1
  OBVIOUS

\* What Record and Reject do to the chain.
LEMMA ChainGrows ==
    ASSUME TypeOK, HasBest(attempts), NEW a \in Attempt, attempts' = Append(attempts, a)
    PROVE  /\ attempts' \in Seq(Attempt) /\ HasBest(attempts')
           /\ N \in Nat /\ N' = N + 1
           /\ 0..N \subseteq 0..N'
  <1>1. attempts \in Seq(Attempt) /\ N = Len(attempts) /\ N' = Len(attempts')
    BY DEF TypeOK, N
  <1>2. HasBest(attempts')
    BY <1>1, AppendKeepsBest
  <1>3. N' = N + 1 /\ N \in Nat /\ attempts' \in Seq(Attempt)
    BY <1>1, AppendTyped
  <1>4. QED BY <1>2, <1>3

LEMMA LoopTypeStep ==
    TypeOK /\ HasBest(attempts) /\ [Next]_vars => TypeOK' /\ HasBest(attempts')
  <1> SUFFICES ASSUME TypeOK, HasBest(attempts), [Next]_vars
               PROVE  TypeOK' /\ HasBest(attempts')
    OBVIOUS
  <1>t. /\ attempts \in Seq(Attempt) /\ N = Len(attempts) /\ N \in Nat
        /\ spent \in SpentType /\ trace \in Seq(Event) /\ move \in Moves /\ base \in 0..N
        /\ fb \in Feedback /\ rounds \in 0..RetryWall /\ infra \in BOOLEAN /\ graded \in 0..N
        /\ manifest \in {"none", "running", "ok", "failed"}
    BY DEF TypeOK, N
  <1>f. Failure \in Feedback
    BY DEF Failure, Feedback
  <1>w. RetryWall \in Nat
    BY WallAssumption
  <1>b. BestAttempt \in 0..N /\ (BestAttempt # 0 => attempts[BestAttempt].proxy \in Int)
    BY BestIsAttempt
  <1> USE DEF N, This
  <1>1. CASE Open \/ LoopEnds
    BY <1>1, <1>t DEF Open, LoopEnds, TypeOK
  <1>2. CASE NextMove
    <2>1. ImproveBase \in 0..N /\ DebugBase \in 0..N
      BY <1>t, <1>b DEF ImproveBase, DebugBase
    <2>2. base' \in 0..N /\ move' \in Moves /\ rounds' = 0 /\ pc' = "call"
          /\ UNCHANGED <<spent, attempts, fb, infra, trace, graded, manifest>>
      BY <1>2, <1>t, <2>1 DEF NextMove, Moves
    <2>3. QED BY <1>t, <1>w, <2>2 DEF TypeOK
  <1>3. ASSUME NEW cost \in Costs, CallReturns(cost) PROVE TypeOK' /\ HasBest(attempts')
    <2>1. [type |-> "llm_call", attempt |-> This, move |-> move, base |-> base,
           tokens |-> cost] \in Event
      BY <1>t, BudgetTypes DEF Event
    <2>2. trace' \in Seq(Event)
      BY <1>3, <1>t, <2>1, AppendTyped DEF CallReturns, Emit
    <2>3. spent' \in SpentType
      BY <1>3, <1>t, BudgetTypes DEF CallReturns, SpentType
    <2>4. QED BY <1>3, <1>t, <2>2, <2>3 DEF CallReturns, TypeOK
  <1>4. CASE CallOverflows \/ CallFails
    BY <1>4, <1>t DEF CallOverflows, CallFails, TypeOK
  <1>17. CASE Sleep
    <2>1. rounds' \in 0..RetryWall
      BY <1>17, <1>t, <1>w DEF Sleep
    <2>2. QED BY <1>17, <1>t, <2>1 DEF Sleep, TypeOK
  <1>5. CASE Reject
    <2> DEFINE a == [kind |-> "agent_fixable", proxy |-> None, workspace |-> FALSE,
                     code |-> CarriedCode]
    <2>1. CarriedCode \in Nat
      <3>1. N # 0 => attempts[N] \in Attempt
        BY <1>t
      <3>2. QED BY <3>1 DEF CarriedCode, Tip, Attempt
    <2>2. a \in Attempt
      BY <2>1 DEF Attempt
    <2>3. attempts' = Append(attempts, a)
      BY <1>5 DEF Reject
    <2>4. /\ attempts' \in Seq(Attempt) /\ HasBest(attempts') /\ N' = N + 1
          /\ 0..N \subseteq 0..N'
      BY <2>2, <2>3, ChainGrows
    <2>5. [type |-> "execution_result", attempt |-> This, kind |-> "rejected"] \in Event
      BY <1>t DEF Event
    <2>6. trace' \in Seq(Event)
      BY <1>5, <1>t, <2>5, AppendTyped DEF Reject, Emit
    <2>7. spent' \in SpentType
      BY <1>5, <1>t DEF Reject, SpentType
    <2>8. base' \in 0..N' /\ graded' \in 0..N'
      BY <1>5, <1>t, <2>4 DEF Reject
    <2>9. QED BY <1>5, <1>t, <2>4, <2>6, <2>7, <2>8 DEF Reject, TypeOK
  <1>6. CASE Write
    <2>1. [type |-> "code_written", attempt |-> This, move |-> move,
           parent |-> base, incumbent |-> BestAttempt] \in Event
      BY <1>t, <1>b DEF Event
    <2>2. trace' \in Seq(Event)
      BY <1>6, <1>t, <2>1, AppendTyped DEF Write, Emit
    <2>3. QED BY <1>6, <1>t, <2>2 DEF Write, TypeOK
  <1>7. CASE Execute \/ EvalFails
    BY <1>7, <1>t, <1>f DEF Execute, EvalFails, TypeOK
  <1>8. ASSUME NEW v \in Values, EvalScores(v) PROVE TypeOK' /\ HasBest(attempts')
    <2>1. v \in Int /\ ProxyOf(v) \in Int
      BY BudgetTypes DEF ProxyOf
    <2>2. [type |-> "public_eval", attempt |-> This, value |-> v] \in Event
      BY <1>t, <2>1 DEF Event
    <2>3. trace' \in Seq(Event)
      BY <1>8, <1>t, <2>2, AppendTyped DEF EvalScores, Emit
    <2>4. fb' \in Feedback
      BY <1>8, <2>1 DEF EvalScores, Feedback
    <2>5. QED BY <1>8, <1>t, <2>3, <2>4 DEF EvalScores, TypeOK
  <1>9. CASE Record
    <2>4. spent' \in SpentType
      <3>1. spent' = [spent EXCEPT !.attempts = @ + 1]
        BY <1>9 DEF Record
      <3>2. QED BY <3>1, <1>t DEF SpentType
    <2> DEFINE a == [kind |-> fb.kind, proxy |-> fb.proxy, workspace |-> TRUE, code |-> This]
               r == [type |-> "execution_result", attempt |-> This, kind |-> fb.kind]
               q == [type |-> "score", attempt |-> This, proxy |-> fb.proxy,
                     spent |-> Snapshot]
    <2>1. a \in Attempt
      BY <1>t DEF Attempt, Feedback
    <2>2. attempts' = Append(attempts, a)
      BY <1>9 DEF Record
    <2>3. /\ attempts' \in Seq(Attempt) /\ HasBest(attempts') /\ N' = N + 1
          /\ 0..N \subseteq 0..N'
      BY <2>1, <2>2, ChainGrows
    <2>5. r \in Event /\ q \in Event
      BY <1>t, <2>4 DEF Event, Feedback, Snapshot
    <2>6. trace' = trace \o <<r, q>>
      BY <1>9 DEF Record
    <2>7. trace' \in Seq(Event)
      <3> HIDE DEF r, q
      <3>1. QED BY <1>t, <2>5, <2>6
    <2>8. base' \in 0..N' /\ graded' \in 0..N'
      BY <1>9, <1>t, <2>3 DEF Record
    <2>9. QED BY <1>9, <1>t, <2>3, <2>4, <2>7, <2>8 DEF Record, TypeOK
  <1>10. CASE Grade
    BY <1>10, <1>t, <1>b DEF Grade, TypeOK
  <1>11. CASE Discard
    BY <1>11, <1>t DEF Discard, TypeOK
  <1>12. CASE Seal
    <2> DEFINE e == [type |-> "final_outcome", attempt |-> N, best |-> BestAttempt,
                     proxy |-> IF BestAttempt = 0 THEN None ELSE attempts[BestAttempt].proxy,
                     spent |-> spent]
    <2>1. e \in Event
      BY <1>t, <1>b DEF Event
    <2>2. trace' = Append(trace, e)
      BY <1>12 DEF Seal, Emit
    <2>3. trace' \in Seq(Event)
      BY <1>t, <2>1, <2>2, AppendTyped
    <2>4. QED BY <1>12, <1>t, <2>3 DEF Seal, TypeOK
  <1>13. CASE Raise
    <2>1. spent' \in SpentType
      BY <1>13, <1>t, BudgetTypes DEF Raise, ChargedBy, SpentType
    <2>2. QED BY <1>13, <1>t, <2>1 DEF Raise, TypeOK
  <1>14. CASE Killed
    BY <1>14, <1>t DEF Killed, TypeOK
  <1>15. CASE UNCHANGED vars
    BY <1>15, <1>t DEF vars, TypeOK
  <1>16. QED
    BY <1>1, <1>2, <1>3, <1>4, <1>5, <1>6, <1>7, <1>8, <1>9, <1>10, <1>11, <1>12, <1>13,
       <1>14, <1>15, <1>17 DEF Next, Step

LEMMA LoopTypeInvariant == Spec => []LoopInv
  <1> USE DEF LoopInv
  <1>1. ASSUME Init PROVE TypeOK /\ HasBest(attempts)
    <2>1. attempts = <<>> /\ N = 0 /\ attempts \in Seq(Attempt) /\ trace \in Seq(Event)
      BY <1>1 DEF Init, N
    <2>2. HasBest(attempts)
      BY <2>1 DEF HasBest, ScoredIn, N
    <2>3. fb \in Feedback /\ move \in Moves /\ base \in 0..N /\ graded \in 0..N
      BY <1>1, <2>1 DEF Init, Feedback, Failure, Moves
    <2>4. spent \in SpentType /\ rounds \in 0..RetryWall
      BY <1>1, WallAssumption DEF Init, SpentType
    <2>5. pc = "start" /\ infra = FALSE /\ manifest = "none"
      BY <1>1 DEF Init
    <2>6. TypeOK
      BY <2>1, <2>3, <2>4, <2>5 DEF TypeOK
    <2>7. QED BY <2>2, <2>6
  <1>2. LoopInv /\ [Next]_vars => LoopInv'
    BY LoopTypeStep
  <1>3. Init => LoopInv
    BY <1>1
  <1> USE DEF Spec
  <1> HIDE DEF LoopInv
  <1>4. QED BY <1>2, <1>3, PTL

\* Every run, of any budget: the state is typed, and the branch points and the
\* graded attempt are attempts of the chain.
THEOREM LoopTypeCorrect == Spec => []TypeOK
  <1>1. LoopInv => TypeOK
    BY DEF LoopInv
  <1>2. QED BY <1>1, LoopTypeInvariant, PTL

----------------------------------------------------------------------------
(* The budget. *)

LEMMA BudgetStep ==
    TypeOK /\ OvershootBounded /\ BudgetInv /\ [Next]_vars => OvershootBounded' /\ BudgetInv'
  <1> SUFFICES ASSUME TypeOK, OvershootBounded, BudgetInv, [Next]_vars
               PROVE  OvershootBounded' /\ BudgetInv'
    OBVIOUS
  <1>t. /\ spent \in SpentType /\ spent.tokens \in Nat /\ spent.attempts \in Nat
        /\ attempts \in Seq(Attempt) /\ N = Len(attempts) /\ N \in Nat
        /\ N' = Len(attempts')
    BY DEF TypeOK, N, SpentType
  <1>k. Kind \in {"tokens", "attempts"} /\ Limit \in Nat /\ Limit > 0
        /\ \A k \in Costs : k \in Nat /\ k > 0
    BY BudgetAssumption, BudgetTypes
  <1>o. /\ Kind = "tokens" => \E k \in Costs : spent.tokens < Limit + k
        /\ Kind = "attempts" => spent.attempts <= Limit
        /\ pc # "raised" => spent.attempts = N
    BY DEF OvershootBounded
  \* A step that charges nothing and records nothing keeps the bounds.
  <1>u. ASSUME UNCHANGED <<spent, attempts>>, pc = "raised" => pc' = "raised",
               pc' \in {"call", "sleep"} => ~Exhausted(spent),
               pc' \in {"reply", "execute", "evaluate", "record"} =>
                  pc \in {"reply", "execute", "evaluate", "record"}
        PROVE  OvershootBounded' /\ BudgetInv'
    <2>1. N' = N /\ spent' = spent
      BY <1>u, <1>t
    <2>2. OvershootBounded'
      BY <1>o, <1>u, <2>1 DEF OvershootBounded
    <2>3. BudgetInv'
      BY <1>u, <1>t, <1>k, <2>1 DEF BudgetInv, Exhausted
    <2>4. QED BY <2>2, <2>3
  \* A charge of an attempt, recorded in the chain.
  <1>c. ASSUME spent' = [spent EXCEPT !.attempts = @ + 1], pc \in {"reply", "record"},
               NEW a, attempts' = Append(attempts, a), pc' = "head"
        PROVE  OvershootBounded' /\ BudgetInv'
    <2>1. /\ spent'.tokens = spent.tokens /\ spent'.attempts = spent.attempts + 1
          /\ N' = N + 1
      BY <1>c, <1>t DEF SpentType
    <2>2. Kind = "attempts" => spent.attempts < Limit
      BY <1>c DEF BudgetInv
    <2>3. OvershootBounded'
      BY <1>o, <1>c, <1>t, <1>k, <2>1, <2>2 DEF OvershootBounded
    <2>4. BudgetInv'
      BY <1>c DEF BudgetInv
    <2>5. QED BY <2>3, <2>4
  <1>1. CASE Open \/ LoopEnds
    BY <1>1, <1>u DEF Open, LoopEnds
  <1>2. CASE NextMove
    BY <1>2, <1>u DEF NextMove
  <1>3. ASSUME NEW cost \in Costs, CallReturns(cost) PROVE OvershootBounded' /\ BudgetInv'
    <2>1. /\ pc = "call" /\ pc' = "reply"
          /\ spent' = [spent EXCEPT !.tokens = @ + cost] /\ attempts' = attempts
      BY <1>3 DEF CallReturns
    <2>2. spent'.tokens = spent.tokens + cost /\ spent'.attempts = spent.attempts /\ N' = N
      BY <1>t, <2>1 DEF SpentType
    <2>3. /\ Kind = "tokens" => spent.tokens < Limit
          /\ Kind = "attempts" => spent.attempts < Limit
      BY <1>t, <1>k, <2>1 DEF BudgetInv, Exhausted
    <2>4. Kind = "tokens" => spent'.tokens < Limit + cost
      BY <1>t, <1>k, <2>2, <2>3
    <2>5. OvershootBounded'
      BY <1>o, <2>1, <2>2, <2>4 DEF OvershootBounded
    <2>6. BudgetInv'
      BY <2>1, <2>2, <2>3 DEF BudgetInv
    <2>7. QED BY <2>5, <2>6
  <1>4. CASE CallOverflows \/ CallFails \/ Sleep
    <2>1. pc \in {"call", "sleep"} /\ ~Exhausted(spent) /\ UNCHANGED <<spent, attempts>>
          /\ pc' \in {"call", "sleep", "grade"}
      BY <1>4 DEF CallOverflows, CallFails, Sleep, BudgetInv
    <2>2. QED BY <2>1, <1>u
  <1>5. CASE Reject
    BY <1>5, <1>c DEF Reject
  <1>6. CASE Record
    BY <1>6, <1>c DEF Record
  <1>7. CASE Write \/ Execute \/ EvalFails
    BY <1>7, <1>u DEF Write, Execute, EvalFails
  <1>8. ASSUME NEW v \in Values, EvalScores(v) PROVE OvershootBounded' /\ BudgetInv'
    BY <1>8, <1>u DEF EvalScores
  <1>9. CASE Grade \/ Discard \/ Seal
    BY <1>9, <1>u DEF Grade, Discard, Seal
  <1>10. CASE Raise
    <2>1. pc' = "raised" /\ attempts' = attempts
      BY <1>10 DEF Raise
    <2>2. Kind = "tokens" => \E k \in Costs : spent'.tokens < Limit + k
      <3>1. CASE pc = "call"
        <4>1. Kind = "tokens" => spent.tokens < Limit
          BY <3>1, <1>t, <1>k DEF BudgetInv, Exhausted
        <4>2. spent' = spent \/ \E k \in Costs : spent' = [spent EXCEPT !.tokens = @ + k]
          BY <1>10, <3>1 DEF Raise, ChargedBy
        <4>3. CASE spent' = spent
          BY <4>3, <1>o
        <4>4. ASSUME NEW k \in Costs, spent' = [spent EXCEPT !.tokens = @ + k]
              PROVE  Kind = "tokens" => spent'.tokens < Limit + k
          <5>1. spent'.tokens = spent.tokens + k
            BY <4>4, <1>t DEF SpentType
          <5>2. QED BY <5>1, <4>1, <1>t, <1>k
        <4>5. QED BY <4>2, <4>3, <4>4
      <3>2. CASE pc # "call"
        <4>1. spent' = spent \/ spent' = [spent EXCEPT !.attempts = @ + 1]
          BY <1>10, <3>2 DEF Raise, ChargedBy
        <4>2. spent'.tokens = spent.tokens
          BY <4>1, <1>t DEF SpentType
        <4>3. QED BY <4>2, <1>o
      <3>3. QED BY <3>1, <3>2
    <2>3. Kind = "attempts" => spent'.attempts <= Limit
      <3>1. CASE pc \in {"reply", "record"}
        <4>1. spent' = spent \/ spent' = [spent EXCEPT !.attempts = @ + 1]
          BY <1>10, <3>1 DEF Raise, ChargedBy
        <4>2. spent'.attempts \in {spent.attempts, spent.attempts + 1}
          BY <4>1, <1>t DEF SpentType
        <4>3. Kind = "attempts" => spent.attempts < Limit
          BY <3>1 DEF BudgetInv
        <4>4. QED BY <4>2, <4>3, <1>t, <1>k
      <3>2. CASE pc \notin {"reply", "record"}
        <4>1. spent' = spent \/ \E k \in Costs : spent' = [spent EXCEPT !.tokens = @ + k]
          BY <1>10, <3>2 DEF Raise, ChargedBy
        <4>2. spent'.attempts = spent.attempts
          BY <4>1, <1>t DEF SpentType
        <4>3. QED BY <4>2, <1>o
      <3>3. QED BY <3>1, <3>2
    <2>4. QED BY <2>1, <2>2, <2>3 DEF OvershootBounded, BudgetInv
  <1>11. CASE Killed
    BY <1>11, <1>u DEF Killed
  <1>12. CASE UNCHANGED vars
    <2>1. UNCHANGED <<pc, spent, attempts>>
      BY <1>12 DEF vars
    <2>2. QED BY <2>1, <1>u DEF BudgetInv
  <1>13. QED
    BY <1>1, <1>2, <1>3, <1>4, <1>5, <1>6, <1>7, <1>8, <1>9, <1>10, <1>11, <1>12
    DEF Next, Step

LEMMA BudgetInvariant == Spec => [](TypeOK /\ OvershootBounded /\ BudgetInv)
  <1>1. ASSUME Init PROVE OvershootBounded /\ BudgetInv
    <2>1. pc = "start" /\ spent.tokens = 0 /\ spent.attempts = 0 /\ N = 0
      BY <1>1 DEF Init, N
    <2>2. \E k \in Costs : 0 < Limit + k
      BY BudgetTypes
    <2>3. QED BY <2>1, <2>2, BudgetTypes DEF OvershootBounded, BudgetInv
  <1>2. LoopInv => TypeOK
    BY DEF LoopInv
  <1>3. QED BY <1>1, <1>2, LoopTypeInvariant, BudgetStep, PTL DEF Spec

\* The ladder of spend: whatever a completion costs, a token budget is overshot
\* by less than one completion, an attempts budget never, and no recorded
\* attempt goes uncharged (budget.py, loop.py run_task).
THEOREM BudgetIsKept == Spec => []OvershootBounded
  BY BudgetInvariant, PTL

----------------------------------------------------------------------------
(* How a run ends. *)

SealedInv == SealedWhole /\ SealInv

LEMMA SealStep ==
    LoopInv /\ OvershootBounded /\ SealedInv /\ [Next]_vars => SealedInv'
  <1> SUFFICES ASSUME LoopInv, OvershootBounded, SealedInv, [Next]_vars
               PROVE  SealedWhole' /\ SealInv'
    BY DEF SealedInv
  <1>t. /\ spent \in SpentType /\ spent.tokens \in Nat /\ spent.attempts \in Nat
        /\ attempts \in Seq(Attempt) /\ N = Len(attempts) /\ N \in Nat
        /\ N' = Len(attempts') /\ infra \in BOOLEAN /\ trace \in Seq(Event)
    BY DEF LoopInv, TypeOK, N, SpentType
  <1>i. /\ pc \in {"start", "head", "call", "sleep"} /\ N = 0 => spent.tokens = 0
        /\ pc \in {"start", "head", "call", "sleep", "reply", "execute", "evaluate", "record"}
              => ~infra
        /\ pc \in {"grade", "seal"} /\ ~infra => Exhausted(spent) /\ N > 0
    BY DEF SealedInv, SealInv
  \* Inside the loop, where no infra failure is set yet, nothing is claimed of the end.
  <1>u. ASSUME pc' \in {"head", "call", "sleep", "reply", "execute", "evaluate", "record"},
               ~infra', pc' \in {"head", "call", "sleep"} /\ N' = 0 => spent'.tokens = 0
        PROVE  SealedWhole' /\ SealInv'
    BY <1>u DEF SealedWhole, SealInv
  \* An infra failure leads to the grading.
  <1>f. ASSUME pc' = "grade", infra' PROVE SealedWhole' /\ SealInv'
    BY <1>f DEF SealedWhole, SealInv
  <1>1. CASE Open
    BY <1>1, <1>t, <1>i, <1>u DEF Open, N
  <1>2. CASE LoopEnds
    <2>1. pc = "head" /\ pc' = "grade" /\ UNCHANGED <<spent, attempts, infra>>
          /\ Exhausted(spent) /\ N' = N
      BY <1>2 DEF LoopEnds, N
    <2>2. N > 0
      <3>1. CASE Kind = "tokens"
        <4>1. spent.tokens > 0
          BY <2>1, <3>1, <1>t, BudgetAssumption DEF Exhausted
        <4>2. QED BY <4>1, <2>1, <1>t, <1>i
      <3>2. CASE Kind = "attempts"
        <4>1. spent.attempts > 0
          BY <2>1, <3>2, <1>t, BudgetAssumption DEF Exhausted
        <4>2. QED BY <4>1, <2>1 DEF OvershootBounded
      <3>3. QED BY <3>1, <3>2, BudgetAssumption
    <2>3. Exhausted(spent')
      BY <2>1 DEF Exhausted
    <2>4. QED BY <2>1, <2>2, <2>3 DEF SealedWhole, SealInv
  <1>3. CASE NextMove
    BY <1>3, <1>t, <1>i, <1>u DEF NextMove, N
  <1>4. ASSUME NEW cost \in Costs, CallReturns(cost) PROVE SealedWhole' /\ SealInv'
    BY <1>4, <1>i, <1>u DEF CallReturns
  <1>5. CASE CallOverflows
    BY <1>5, <1>f DEF CallOverflows
  <1>6. CASE CallFails
    <2>1. pc = "call" /\ UNCHANGED <<spent, attempts>> /\ N' = N
      BY <1>6 DEF CallFails, N
    <2>2. CASE pc' = "sleep" /\ UNCHANGED infra
      BY <2>1, <2>2, <1>i, <1>u
    <2>3. CASE pc' = "grade" /\ infra' = TRUE
      BY <2>3, <1>f
    <2>4. QED BY <1>6, <2>2, <2>3 DEF CallFails
  <1>7. CASE Sleep
    BY <1>7, <1>i, <1>u DEF Sleep, N
  <1>8. CASE Reject
    <2>1. N' = N + 1 /\ pc' = "head" /\ ~infra'
      BY <1>8, <1>t, <1>i DEF Reject
    <2>2. QED BY <2>1, <1>t, <1>u
  <1>9. CASE Record
    <2>1. N' = N + 1 /\ pc' = "head" /\ ~infra'
      BY <1>9, <1>t, <1>i DEF Record
    <2>2. QED BY <2>1, <1>t, <1>u
  <1>10. CASE Write \/ Execute
    BY <1>10, <1>i, <1>u DEF Write, Execute
  <1>11. CASE EvalFails
    <2>1. pc = "evaluate"
      BY <1>11 DEF EvalFails
    <2>2. CASE pc' = "record" /\ UNCHANGED infra
      BY <2>1, <2>2, <1>i, <1>u
    <2>3. CASE pc' = "grade" /\ infra' = TRUE
      BY <2>3, <1>f
    <2>4. QED BY <1>11, <2>2, <2>3 DEF EvalFails
  <1>12. ASSUME NEW v \in Values, EvalScores(v) PROVE SealedWhole' /\ SealInv'
    BY <1>12, <1>i, <1>u DEF EvalScores
  <1>13. CASE Grade
    <2>1. pc = "grade" /\ pc' = "seal" /\ (infra => infra') /\ UNCHANGED <<spent, attempts>>
          /\ N' = N
      BY <1>13, <1>t DEF Grade, N
    <2>2. ~infra' => Exhausted(spent') /\ N' > 0
      BY <2>1, <1>i DEF Exhausted
    <2>3. QED BY <2>1, <2>2 DEF SealedWhole, SealInv
  <1>14. CASE Discard
    <2>1. pc' = "done" /\ manifest' = "none" /\ infra' /\ N' = 0 /\ trace' = <<>>
      BY <1>14 DEF Discard, N
    <2>2. QED BY <2>1 DEF SealedWhole, SealInv
  <1>15. CASE Seal
    <2>1. /\ pc = "seal" /\ pc' = "done" /\ UNCHANGED <<spent, attempts, infra>> /\ N' = N
          /\ manifest' = IF infra THEN "failed" ELSE "ok"
      BY <1>15 DEF Seal, N
    <2>2. N > 0 /\ (~infra => Exhausted(spent'))
      BY <1>15, <2>1, <1>t, <1>i DEF Seal, Exhausted
    <2>3. Last(trace').type = "final_outcome"
      <3> DEFINE e == [type |-> "final_outcome", attempt |-> N, best |-> BestAttempt,
                       proxy |-> IF BestAttempt = 0 THEN None ELSE attempts[BestAttempt].proxy,
                       spent |-> spent]
      <3>1. trace' = Append(trace, e) /\ e.type = "final_outcome"
        BY <1>15 DEF Seal, Emit
      <3> HIDE DEF e
      <3>2. Len(trace') = Len(trace) + 1 /\ trace'[Len(trace) + 1] = e
        BY <3>1, <1>t
      <3>3. QED BY <3>1, <3>2 DEF Last
    <2>4. SealedWhole'
      BY <2>1, <2>2, <2>3, <1>t DEF SealedWhole
    <2>5. SealInv'
      BY <2>1 DEF SealInv
    <2>6. QED BY <2>4, <2>5
  <1>16. CASE Raise \/ Killed
    <2>1. pc' \in {"raised", "killed"}
      BY <1>16 DEF Raise, Killed
    <2>2. QED BY <2>1 DEF SealedWhole, SealInv
  <1>17. CASE UNCHANGED vars
    <2>1. /\ UNCHANGED <<pc, spent, attempts, infra, trace, manifest>> /\ N' = N
      BY <1>17 DEF vars, N
    <2>2. SealedWhole'
      BY <2>1 DEF SealedInv, SealedWhole, Exhausted
    <2>3. SealInv'
      BY <2>1 DEF SealedInv, SealInv, Exhausted
    <2>4. QED BY <2>2, <2>3
  <1>18. QED
    BY <1>1, <1>2, <1>3, <1>4, <1>5, <1>6, <1>7, <1>8, <1>9, <1>10, <1>11, <1>12, <1>13,
       <1>14, <1>15, <1>16, <1>17 DEF Next, Step

\* However a run ends short of an exception or a kill, what it leaves is whole: an
\* outcome after at least one attempt, ok only on a spent budget, or nothing at
\* all (loop.py finalise and run_task).
THEOREM SealedRunsAreWhole == Spec => []SealedWhole
  <1>1. ASSUME Init PROVE SealedWhole /\ SealInv
    <2>1. pc = "start" /\ ~infra /\ spent.tokens = 0
      BY <1>1 DEF Init
    <2>2. QED BY <2>1 DEF SealedWhole, SealInv
  <1>2. Init => SealedInv
    BY <1>1 DEF SealedInv
  <1>3. SealedInv => SealedWhole
    BY DEF SealedInv
  <1>4. QED BY <1>2, <1>3, LoopTypeInvariant, BudgetInvariant, SealStep, PTL DEF Spec

----------------------------------------------------------------------------
(* What a reader of the trace computes, event by event. *)

Line == [attempt : Nat, proxy : Int \cup {None}]

\* The event types that a reader tells apart.
LEMMA EventFacts ==
    ASSUME NEW e \in Event
    PROVE  /\ e.type = "score" => e.attempt \in Nat /\ e.proxy \in Int \cup {None}
           /\ e.type = "llm_call" => e.tokens \in Nat /\ e.attempt \in Nat
           /\ e.type = "public_eval" => e.attempt \in Nat /\ e.value \in Int
           /\ e.type = "final_outcome" => e.attempt \in Nat
  BY DEF Event

LEMMA BestAfterTyped ==
    ASSUME NEW b \in Line, NEW e \in Event
    PROVE  BestAfter(b, e) \in Line
  BY EventFacts DEF BestAfter, Line

\* The recursion that best_line is: it starts without a best and goes on with
\* each event.
LEMMA BestLinesRecursion ==
    ASSUME NEW t \in Seq(Event)
    PROVE  /\ BestLines(t) \in [0..Len(t) -> Line]
           /\ BestLines(t)[0] = NoBest
           /\ \A i \in 1..Len(t) : BestLines(t)[i] = BestAfter(BestLines(t)[i - 1], t[i])
  <1> DEFINE n == Len(t)
             step == [p \in (1..n) \X Line |-> BestAfter(p[2], t[p[1]])]
             F(g) == [i \in 0..n |-> IF i = 0 THEN NoBest ELSE BestAfter(g[i - 1], t[i])]
             f == BestLines(t)
  <1>1. n \in Nat /\ NoBest \in Line /\ \A i \in 1..n : t[i] \in Event
    BY DEF NoBest, Line
  <1>2. step \in [(1..n) \X Line -> Line]
    BY <1>1, BestAfterTyped
  <1>3. \A i \in 1..n, b \in Line : step[<<i, b>>] = BestAfter(b, t[i])
    OBVIOUS
  <1> HIDE DEF step, n
  <1>4. PICK g : Solves(g, n, Line, NoBest, step)
    BY <1>1, <1>2, RecursionExists
  <1>5. /\ g \in [0..n -> Line] /\ g[0] = NoBest
        /\ \A i \in 1..n : g[i] = step[<<i, g[i - 1]>>]
    BY <1>4 DEF Solves
  <1>6. ASSUME NEW i \in 1..n PROVE g[i] = BestAfter(g[i - 1], t[i])
    <2>1. g[i - 1] \in Line
      BY <1>1, <1>5
    <2>2. QED BY <1>3, <1>5, <2>1
  <1>7. g = F(g)
    BY <1>1, <1>5, <1>6
  <1>8. f = F(f)
    BY <1>7, Zenon DEF BestLines, n
  <1> HIDE DEF f
  <1>9. f[0] = NoBest /\ \A i \in 1..n : f[i] = BestAfter(f[i - 1], t[i])
    BY <1>1, <1>8
  <1>10. \A i \in 0..n : f[i] = g[i]
    <2>1. f[0] = g[0] /\ \A i \in 1..n : f[i - 1] = g[i - 1] => f[i] = g[i]
      BY <1>5, <1>6, <1>9
    <2>2. QED BY <1>1, <2>1, RecursionUnique
  <1>11. f \in [0..n -> Line]
    BY <1>5, <1>8, <1>10
  <1>12. QED BY <1>9, <1>11 DEF f, n

LEMMA TokensLoggedRecursion ==
    ASSUME NEW t \in Seq(Event)
    PROVE  /\ TokensLogged(t) \in [0..Len(t) -> Nat]
           /\ TokensLogged(t)[0] = 0
           /\ \A i \in 1..Len(t) :
                 TokensLogged(t)[i] = TokensLogged(t)[i - 1] + TokensOf(t[i])
  <1> DEFINE n == Len(t)
             step == [p \in (1..n) \X Nat |-> p[2] + TokensOf(t[p[1]])]
             F(g) == [i \in 0..n |-> IF i = 0 THEN 0 ELSE g[i - 1] + TokensOf(t[i])]
             f == TokensLogged(t)
  <1>1. n \in Nat /\ \A i \in 1..n : TokensOf(t[i]) \in Nat
    <2>1. \A i \in 1..n : t[i] \in Event
      OBVIOUS
    <2>2. QED BY <2>1, EventFacts DEF TokensOf
  <1>2. step \in [(1..n) \X Nat -> Nat]
    BY <1>1
  <1>3. \A i \in 1..n, b \in Nat : step[<<i, b>>] = b + TokensOf(t[i])
    OBVIOUS
  <1> HIDE DEF step, n
  <1>4. PICK g : Solves(g, n, Nat, 0, step)
    BY <1>1, <1>2, RecursionExists
  <1>5. /\ g \in [0..n -> Nat] /\ g[0] = 0
        /\ \A i \in 1..n : g[i] = step[<<i, g[i - 1]>>]
    BY <1>4 DEF Solves
  <1>6. ASSUME NEW i \in 1..n PROVE g[i] = g[i - 1] + TokensOf(t[i])
    <2>1. g[i - 1] \in Nat
      BY <1>1, <1>5
    <2>2. QED BY <1>3, <1>5, <2>1
  <1>7. g = F(g)
    BY <1>1, <1>5, <1>6
  <1>8. f = F(f)
    BY <1>7, Zenon DEF TokensLogged, n
  <1> HIDE DEF f
  <1>9. f[0] = 0 /\ \A i \in 1..n : f[i] = f[i - 1] + TokensOf(t[i])
    BY <1>1, <1>8
  <1>10. \A i \in 0..n : f[i] = g[i]
    <2>1. f[0] = g[0] /\ \A i \in 1..n : f[i - 1] = g[i - 1] => f[i] = g[i]
      BY <1>5, <1>6, <1>9
    <2>2. QED BY <1>1, <2>1, RecursionUnique
  <1>11. f \in [0..n -> Nat]
    BY <1>5, <1>8, <1>10
  <1>12. QED BY <1>9, <1>11 DEF f, n

\* One more event takes the readers one step further.
LEMMA BestGoesOn ==
    ASSUME NEW t \in Seq(Event), NEW e \in Event
    PROVE  LET u == Append(t, e) IN
           BestLines(u)[Len(u)] = BestAfter(BestLines(t)[Len(t)], e)
  <1> DEFINE u == Append(t, e)
             n == Len(t)
             f == BestLines(t)
             g == BestLines(u)
  <1>1. /\ u \in Seq(Event) /\ Len(u) = n + 1 /\ n \in Nat /\ u[n + 1] = e
        /\ \A i \in 1..n : u[i] = t[i]
    OBVIOUS
  <1>2. f[0] = NoBest /\ \A i \in 1..n : f[i] = BestAfter(f[i - 1], t[i])
    BY BestLinesRecursion
  <1>3. g[0] = NoBest /\ \A i \in 1..(n + 1) : g[i] = BestAfter(g[i - 1], u[i])
    BY <1>1, BestLinesRecursion
  <1> HIDE DEF u, n, f, g
  <1>4. \A i \in 0..n : g[i] = f[i]
    <2>1. g[0] = f[0] /\ \A i \in 1..n : g[i - 1] = f[i - 1] => g[i] = f[i]
      <3>1. \A i \in 1..n : i \in 1..(n + 1)
        BY <1>1
      <3>2. QED BY <1>1, <1>2, <1>3, <3>1
    <2>2. n \in Nat
      BY <1>1
    <2>3. QED BY <2>1, <2>2, RecursionUnique
  <1>5. g[n + 1] = BestAfter(f[n], e)
    <2>1. n + 1 \in 1..(n + 1) /\ (n + 1) - 1 = n /\ n \in 0..n
      BY <1>1
    <2>2. QED BY <1>1, <1>3, <1>4, <2>1
  <1>6. QED BY <1>1, <1>5 DEF u, n, f, g

LEMMA TokensGoOn ==
    ASSUME NEW t \in Seq(Event), NEW e \in Event
    PROVE  LET u == Append(t, e) IN
           /\ \A i \in 0..Len(t) : TokensLogged(u)[i] = TokensLogged(t)[i]
           /\ TokensLogged(u)[Len(t) + 1] = TokensLogged(t)[Len(t)] + TokensOf(e)
  <1> DEFINE u == Append(t, e)
             n == Len(t)
             f == TokensLogged(t)
             g == TokensLogged(u)
  <1>1. /\ u \in Seq(Event) /\ Len(u) = n + 1 /\ n \in Nat /\ u[n + 1] = e
        /\ \A i \in 1..n : u[i] = t[i]
    OBVIOUS
  <1>2. f[0] = 0 /\ \A i \in 1..n : f[i] = f[i - 1] + TokensOf(t[i])
    BY TokensLoggedRecursion
  <1>3. g[0] = 0 /\ \A i \in 1..(n + 1) : g[i] = g[i - 1] + TokensOf(u[i])
    BY <1>1, TokensLoggedRecursion
  <1> HIDE DEF u, n, f, g
  <1>4. \A i \in 0..n : g[i] = f[i]
    <2>1. g[0] = f[0] /\ \A i \in 1..n : g[i - 1] = f[i - 1] => g[i] = f[i]
      <3>1. \A i \in 1..n : i \in 1..(n + 1)
        BY <1>1
      <3>2. QED BY <1>1, <1>2, <1>3, <3>1
    <2>2. n \in Nat
      BY <1>1
    <2>3. QED BY <2>1, <2>2, RecursionUnique
  <1>5. g[n + 1] = f[n] + TokensOf(e)
    <2>1. n + 1 \in 1..(n + 1) /\ (n + 1) - 1 = n /\ n \in 0..n
      BY <1>1
    <2>2. QED BY <1>1, <1>3, <1>4, <2>1
  <1>6. QED BY <1>4, <1>5 DEF u, n, f, g

----------------------------------------------------------------------------
(* The spend in the trace. *)

AttemptsLogged(t, n) == {i \in 1..n : t[i].type = "execution_result"}

SpendIn(t, n) ==
    [tokens |-> TokensLogged(t)[n], attempts |-> Cardinality(AttemptsLogged(t, n))]

\* What an event adds to the spend.
ChargeOf(e) == IF e.type = "execution_result" THEN 1 ELSE 0

SnapshotsIn(t) ==
    \A i \in 1..Len(t) : t[i].type \in {"score", "final_outcome"} => t[i].spent = SpendIn(t, i)

\* While the process is alive and has not raised, what it spent is in the trace.
SpendInv ==
    /\ SpendIsLogged
    /\ pc \notin {"raised", "done"} => LoggedSpend(Len(trace)) = spent

LEMMA SpendGoesOn ==
    ASSUME NEW t \in Seq(Event), NEW e \in Event
    PROVE  LET u == Append(t, e) IN
           /\ \A i \in 0..Len(t) : SpendIn(u, i) = SpendIn(t, i)
           /\ SpendIn(u, Len(t) + 1) =
                 [tokens |-> SpendIn(t, Len(t)).tokens + TokensOf(e),
                  attempts |-> SpendIn(t, Len(t)).attempts + ChargeOf(e)]
  <1> DEFINE u == Append(t, e)
             n == Len(t)
  <1>1. /\ u \in Seq(Event) /\ Len(u) = n + 1 /\ n \in Nat /\ u[n + 1] = e
        /\ \A i \in 1..n : u[i] = t[i]
    OBVIOUS
  <1>2. /\ \A i \in 0..n : TokensLogged(u)[i] = TokensLogged(t)[i]
        /\ TokensLogged(u)[n + 1] = TokensLogged(t)[n] + TokensOf(e)
    BY TokensGoOn
  <1> HIDE DEF u, n
  <1>3. ASSUME NEW i \in 0..n PROVE AttemptsLogged(u, i) = AttemptsLogged(t, i)
    <2>1. \A j \in 1..i : u[j] = t[j]
      BY <1>1
    <2>2. QED BY <2>1 DEF AttemptsLogged
  <1>4. Cardinality(AttemptsLogged(u, n + 1)) = Cardinality(AttemptsLogged(t, n)) + ChargeOf(e)
    <2>1. IsFiniteSet(AttemptsLogged(t, n))
      <3>1. IsFiniteSet(1..n) /\ AttemptsLogged(t, n) \subseteq 1..n
        BY <1>1, FS_Interval DEF AttemptsLogged
      <3>2. QED BY <3>1, FS_Subset
    <2>2. n + 1 \notin AttemptsLogged(t, n) /\ 1..(n + 1) = 1..n \cup {n + 1}
      BY <1>1 DEF AttemptsLogged
    <2>3. CASE e.type = "execution_result"
      <3>1. AttemptsLogged(u, n + 1) = AttemptsLogged(t, n) \cup {n + 1}
        BY <1>1, <2>2, <2>3 DEF AttemptsLogged
      <3>2. QED BY <2>1, <2>2, <2>3, <3>1, FS_AddElement DEF ChargeOf
    <2>4. CASE e.type # "execution_result"
      <3>1. AttemptsLogged(u, n + 1) = AttemptsLogged(t, n)
        BY <1>1, <2>2, <2>4 DEF AttemptsLogged
      <3>2. Cardinality(AttemptsLogged(t, n)) \in Nat
        BY <2>1, FS_CardinalityType
      <3>3. QED BY <2>4, <3>1, <3>2 DEF ChargeOf
    <2>5. QED BY <2>3, <2>4
  <1>5. QED BY <1>2, <1>3, <1>4 DEF SpendIn, u, n

LEMMA SnapshotsGoOn ==
    ASSUME NEW t \in Seq(Event), NEW e \in Event, SnapshotsIn(t),
           e.type \in {"score", "final_outcome"} =>
              e.spent = SpendIn(Append(t, e), Len(t) + 1)
    PROVE  SnapshotsIn(Append(t, e))
  <1> DEFINE u == Append(t, e)
             n == Len(t)
  <1>1. /\ Len(u) = n + 1 /\ n \in Nat /\ u[n + 1] = e
        /\ \A i \in 1..n : u[i] = t[i]
    OBVIOUS
  <1>2. \A i \in 1..n : SpendIn(u, i) = SpendIn(t, i)
    <2>1. \A i \in 1..n : i \in 0..n
      BY <1>1
    <2>2. QED BY <2>1, SpendGoesOn
  <1>3. \A i \in 1..(n + 1) : i \in 1..n \/ i = n + 1
    BY <1>1
  <1> HIDE DEF u, n
  <1>4. e.type \in {"score", "final_outcome"} => e.spent = SpendIn(u, n + 1)
    BY DEF u, n
  <1>5. \A i \in 1..n : t[i].type \in {"score", "final_outcome"} => t[i].spent = SpendIn(t, i)
    BY DEF SnapshotsIn, n
  <1>6. ASSUME NEW i \in 1..Len(u), u[i].type \in {"score", "final_outcome"}
        PROVE  u[i].spent = SpendIn(u, i)
    <2>1. CASE i \in 1..n
      BY <1>1, <1>2, <1>5, <1>6, <2>1
    <2>2. CASE i = n + 1
      BY <1>1, <1>4, <1>6, <2>2
    <2>3. QED BY <1>1, <1>3, <2>1, <2>2
  <1>7. QED BY <1>6 DEF SnapshotsIn, u

LEMMA SpendInvReads ==
    SpendInv <=> /\ SnapshotsIn(trace)
                 /\ pc # "raised" /\ trace # <<>> => SpendIn(trace, Len(trace)) = spent
                 /\ pc \notin {"raised", "done"} => SpendIn(trace, Len(trace)) = spent
  BY DEF SpendInv, SpendIsLogged, LoggedSpend, SnapshotsIn, SpendIn, AttemptsLogged

LEMMA SpendStep ==
    TypeOK /\ TypeOK' /\ SpendInv /\ [Next]_vars => SpendInv'
  <1> SUFFICES ASSUME TypeOK, TypeOK', SpendInv, [Next]_vars PROVE SpendInv'
    OBVIOUS
  <1>t. /\ spent \in SpentType /\ trace \in Seq(Event) /\ fb \in Feedback /\ move \in Moves
        /\ base \in Nat /\ N \in Nat /\ N + 1 \in Nat
        /\ spent' \in SpentType /\ trace' \in Seq(Event)
    BY DEF TypeOK, N
  <1>i. /\ SnapshotsIn(trace)
        /\ pc # "raised" /\ trace # <<>> => SpendIn(trace, Len(trace)) = spent
        /\ pc \notin {"raised", "done"} => SpendIn(trace, Len(trace)) = spent
    BY SpendInvReads
  <1>p. SpendInv' <=>
          /\ SnapshotsIn(trace')
          /\ pc' # "raised" /\ trace' # <<>> => SpendIn(trace', Len(trace')) = spent'
          /\ pc' \notin {"raised", "done"} => SpendIn(trace', Len(trace')) = spent'
    BY DEF SpendInv, SpendIsLogged, LoggedSpend, SnapshotsIn, SpendIn, AttemptsLogged
  \* Nothing is logged and nothing charged.
  <1>u. ASSUME UNCHANGED <<spent, trace>>, pc' = pc \/ pc \notin {"raised", "done"}
        PROVE  SpendInv'
    BY <1>u, <1>i, <1>p
  \* One event is logged, and its charge is made.
  <1>e. ASSUME NEW e \in Event, trace' = Append(trace, e), pc \notin {"raised", "done"},
               spent'.tokens = spent.tokens + TokensOf(e),
               spent'.attempts = spent.attempts + ChargeOf(e),
               e.type \in {"score", "final_outcome"} => e.spent = spent'
        PROVE  SpendInv'
    <2>1. SpendIn(trace, Len(trace)) = spent
      BY <1>e, <1>i
    <2>2. Len(trace') = Len(trace) + 1
      BY <1>e, <1>t
    <2>3. SpendIn(trace', Len(trace) + 1) =
            [tokens |-> spent.tokens + TokensOf(e), attempts |-> spent.attempts + ChargeOf(e)]
      BY <1>e, <1>t, <2>1, SpendGoesOn
    <2>4. SpendIn(trace', Len(trace')) = spent'
      BY <1>e, <1>t, <2>2, <2>3 DEF SpentType
    <2>5. SnapshotsIn(trace')
      BY <1>e, <1>i, <1>t, <2>2, <2>4, SnapshotsGoOn
    <2>6. QED BY <1>p, <2>4, <2>5
  <1> USE DEF This
  <1>1. CASE Open \/ LoopEnds \/ NextMove
    BY <1>1, <1>u DEF Open, LoopEnds, NextMove
  <1>2. ASSUME NEW cost \in Costs, CallReturns(cost) PROVE SpendInv'
    <2> DEFINE e == [type |-> "llm_call", attempt |-> This, move |-> move, base |-> base,
                     tokens |-> cost]
    <2>1. e \in Event
      BY <1>t, BudgetTypes DEF Event
    <2>2. TokensOf(e) = cost /\ ChargeOf(e) = 0 /\ e.type = "llm_call"
      BY DEF TokensOf, ChargeOf
    <2>3. pc = "call" /\ spent' = [spent EXCEPT !.tokens = @ + cost] /\ trace' = Append(trace, e)
      BY <1>2 DEF CallReturns, Emit
    <2> HIDE DEF e
    <2>4. spent'.tokens = spent.tokens + cost /\ spent'.attempts = spent.attempts + 0
      BY <1>t, <2>3 DEF SpentType
    <2>5. QED BY <1>e, <2>1, <2>2, <2>3, <2>4
  <1>3. CASE CallOverflows \/ CallFails \/ Sleep
    BY <1>3, <1>u DEF CallOverflows, CallFails, Sleep
  <1>4. CASE Reject
    <2> DEFINE e == [type |-> "execution_result", attempt |-> This, kind |-> "rejected"]
    <2>1. e \in Event
      BY <1>t DEF Event
    <2>2. TokensOf(e) = 0 /\ ChargeOf(e) = 1 /\ e.type = "execution_result"
      BY DEF TokensOf, ChargeOf
    <2>3. pc = "reply" /\ spent' = [spent EXCEPT !.attempts = @ + 1] /\ trace' = Append(trace, e)
      BY <1>4 DEF Reject, Emit
    <2> HIDE DEF e
    <2>4. spent'.tokens = spent.tokens + 0 /\ spent'.attempts = spent.attempts + 1
      BY <1>t, <2>3 DEF SpentType
    <2>5. QED BY <1>e, <2>1, <2>2, <2>3, <2>4
  <1>5. CASE Write
    <2> DEFINE e == [type |-> "code_written", attempt |-> This, move |-> move,
                     parent |-> base, incumbent |-> BestAttempt]
    <2>1. trace' = Append(trace, e) /\ pc = "reply" /\ spent' = spent
      BY <1>5 DEF Write, Emit
    <2>2. e \in Event
      <3>1. e = trace'[Len(trace) + 1] /\ Len(trace) + 1 \in 1..Len(trace')
        BY <1>t, <2>1
      <3>2. QED BY <1>t, <3>1
    <2>3. TokensOf(e) = 0 /\ ChargeOf(e) = 0 /\ e.type = "code_written"
      BY DEF TokensOf, ChargeOf
    <2> HIDE DEF e
    <2>4. spent'.tokens = spent.tokens + 0 /\ spent'.attempts = spent.attempts + 0
      BY <1>t, <2>1 DEF SpentType
    <2>5. QED BY <1>e, <2>1, <2>2, <2>3, <2>4
  <1>6. CASE Execute \/ EvalFails
    BY <1>6, <1>u DEF Execute, EvalFails
  <1>7. ASSUME NEW v \in Values, EvalScores(v) PROVE SpendInv'
    <2> DEFINE e == [type |-> "public_eval", attempt |-> This, value |-> v]
    <2>1. e \in Event
      BY <1>t, BudgetTypes DEF Event
    <2>2. TokensOf(e) = 0 /\ ChargeOf(e) = 0 /\ e.type = "public_eval"
      BY DEF TokensOf, ChargeOf
    <2>3. pc = "evaluate" /\ spent' = spent /\ trace' = Append(trace, e)
      BY <1>7 DEF EvalScores, Emit
    <2> HIDE DEF e
    <2>4. spent'.tokens = spent.tokens + 0 /\ spent'.attempts = spent.attempts + 0
      BY <1>t, <2>3 DEF SpentType
    <2>5. QED BY <1>e, <2>1, <2>2, <2>3, <2>4
  <1>8. CASE Record
    <2> DEFINE r == [type |-> "execution_result", attempt |-> This, kind |-> fb.kind]
               q == [type |-> "score", attempt |-> This, proxy |-> fb.proxy, spent |-> Snapshot]
               u == Append(trace, r)
    <2>1. r \in Event /\ q \in Event
      BY <1>t DEF Event, Feedback, Snapshot
    <2>2. /\ TokensOf(r) = 0 /\ ChargeOf(r) = 1 /\ r.type = "execution_result"
          /\ TokensOf(q) = 0 /\ ChargeOf(q) = 0 /\ q.type = "score" /\ q.spent = spent'
      BY DEF TokensOf, ChargeOf, Snapshot
    <2>3. pc = "record" /\ spent' = [spent EXCEPT !.attempts = @ + 1] /\ trace' = trace \o <<r, q>>
      BY <1>8 DEF Record
    <2> HIDE DEF r, q
    <2>4. u \in Seq(Event) /\ Len(u) = Len(trace) + 1 /\ trace' = Append(u, q)
      BY <1>t, <2>1, <2>3
    <2>5. SpendIn(trace, Len(trace)) = spent
      BY <1>i, <2>3
    <2>6. SpendIn(u, Len(u)) = [tokens |-> spent.tokens + 0, attempts |-> spent.attempts + 1]
      BY <1>t, <2>1, <2>2, <2>4, <2>5, SpendGoesOn
    <2>7. SpendIn(u, Len(u)) = spent'
      BY <1>t, <2>3, <2>6 DEF SpentType
    <2>8. SnapshotsIn(u)
      BY <1>t, <1>i, <2>1, <2>2, SnapshotsGoOn
    <2> HIDE DEF u
    <2>9. Len(trace') = Len(u) + 1
      BY <2>1, <2>4
    <2>10. SpendIn(trace', Len(u) + 1) = [tokens |-> spent'.tokens + 0, attempts |-> spent'.attempts + 0]
      BY <2>1, <2>2, <2>4, <2>7, SpendGoesOn
    <2>11. SpendIn(trace', Len(trace')) = spent'
      BY <1>t, <2>9, <2>10 DEF SpentType
    <2>12. SnapshotsIn(trace')
      BY <2>1, <2>2, <2>4, <2>8, <2>9, <2>11, SnapshotsGoOn
    <2>13. QED BY <1>p, <2>11, <2>12
  <1>9. CASE Grade \/ Killed
    BY <1>9, <1>u DEF Grade, Killed
  <1>10. CASE Discard
    <2>1. trace' = <<>> /\ pc' = "done"
      BY <1>10 DEF Discard
    <2>2. QED BY <1>p, <2>1 DEF SnapshotsIn
  <1>11. CASE Seal
    <2> DEFINE e == [type |-> "final_outcome", attempt |-> N, best |-> BestAttempt,
                     proxy |-> IF BestAttempt = 0 THEN None ELSE attempts[BestAttempt].proxy,
                     spent |-> spent]
    <2>1. trace' = Append(trace, e) /\ pc = "seal" /\ spent' = spent
      BY <1>11 DEF Seal, Emit
    <2>2. e \in Event
      <3>1. e = trace'[Len(trace) + 1] /\ Len(trace) + 1 \in 1..Len(trace')
        BY <1>t, <2>1
      <3>2. QED BY <1>t, <3>1
    <2>3. TokensOf(e) = 0 /\ ChargeOf(e) = 0 /\ e.spent = spent
      BY DEF TokensOf, ChargeOf
    <2> HIDE DEF e
    <2>4. spent'.tokens = spent.tokens + 0 /\ spent'.attempts = spent.attempts + 0
      BY <1>t, <2>1 DEF SpentType
    <2>5. QED BY <1>e, <2>1, <2>2, <2>3, <2>4
  <1>12. CASE Raise
    <2>1. trace' = trace /\ pc' = "raised"
      BY <1>12 DEF Raise
    <2>2. QED BY <1>i, <1>p, <2>1
  <1>13. CASE UNCHANGED vars
    BY <1>13, <1>u DEF vars
  <1>14. QED
    BY <1>1, <1>2, <1>3, <1>4, <1>5, <1>6, <1>7, <1>8, <1>9, <1>10, <1>11, <1>12, <1>13
    DEF Next, Step

\* Whatever the run does and however it ends, its trace adds up to what it spent,
\* and to every snapshot on the way; one charge may be missing after an exception
\* (loop.py call_llm and record_attempt, budget.py snapshot).
THEOREM SpendIsInTheTrace == Spec => []SpendIsLogged
  <1>1. ASSUME Init PROVE SpendInv
    <2>1. trace = <<>> /\ trace \in Seq(Event) /\ Len(trace) = 0
      BY <1>1 DEF Init
    <2>2. AttemptsLogged(trace, 0) = {} /\ TokensLogged(trace)[0] = 0
      <3>1. AttemptsLogged(trace, 0) = {}
        BY DEF AttemptsLogged
      <3>2. TokensLogged(trace)[0] = 0
        BY <2>1, TokensLoggedRecursion
      <3>3. QED BY <3>1, <3>2
    <2>3. SpendIn(trace, Len(trace)) = spent
      BY <1>1, <2>1, <2>2, FS_EmptySet DEF Init, SpendIn
    <2>4. SnapshotsIn(trace)
      BY <2>1 DEF SnapshotsIn
    <2>5. QED BY <2>3, <2>4, SpendInvReads
  <1>2. LoopInv => TypeOK
    BY DEF LoopInv
  <1>3. SpendInv => SpendIsLogged
    BY DEF SpendInv
  <1>4. QED BY <1>1, <1>2, <1>3, LoopTypeInvariant, SpendStep, PTL DEF Spec

----------------------------------------------------------------------------
(* The best attempt, in the chain and in the trace. *)

BestIn(s) ==
    IF ScoredIn(s) = {} THEN 0
    ELSE CHOOSE i \in ScoredIn(s) : \A j \in ScoredIn(s) : Beats(s, i, j)

LineOf(s) ==
    [attempt |-> BestIn(s), proxy |-> IF BestIn(s) = 0 THEN None ELSE s[BestIn(s)].proxy]

\* The two readers agree, and an attempt has a score exactly if it succeeded.
ChainInv ==
    /\ BestLine = LineOf(attempts)
    /\ \A i \in 1..N : attempts[i].kind = "success" <=> attempts[i].proxy # None
    /\ fb.kind = "success" <=> fb.proxy # None

LEMMA BestIsBestIn == BestAttempt = BestIn(attempts) /\ Scored = ScoredIn(attempts)
  BY DEF BestAttempt, BestIn, Scored, ScoredIn, N, Beats

\* An attempt that beats all that scored is the one that is chosen.
LEMMA BestIsUnique ==
    ASSUME NEW s \in Seq(Attempt), NEW i \in ScoredIn(s),
           \A j \in ScoredIn(s) : Beats(s, i, j)
    PROVE  BestIn(s) = i
  <1> DEFINE b == CHOOSE k \in ScoredIn(s) : \A j \in ScoredIn(s) : Beats(s, k, j)
  <1>1. b \in ScoredIn(s) /\ \A j \in ScoredIn(s) : Beats(s, b, j)
    OBVIOUS
  <1>2. BestIn(s) = b
    BY DEF BestIn
  <1> HIDE DEF b
  <1>3. Beats(s, b, i) /\ Beats(s, i, b)
    BY <1>1
  <1>4. b \in Nat /\ i \in Nat /\ s[b].proxy \in Int /\ s[i].proxy \in Int
    BY <1>1, ProxyType
  <1>5. QED BY <1>2, <1>3, <1>4 DEF Beats

LEMMA BestInFacts ==
    ASSUME NEW s \in Seq(Attempt), HasBest(s)
    PROVE  /\ BestIn(s) = 0 <=> ScoredIn(s) = {}
           /\ BestIn(s) # 0 =>
                 /\ BestIn(s) \in ScoredIn(s) /\ BestIn(s) \in 1..Len(s)
                 /\ s[BestIn(s)].proxy \in Int
                 /\ \A j \in ScoredIn(s) : Beats(s, BestIn(s), j)
  <1>1. CASE ScoredIn(s) = {}
    BY <1>1 DEF BestIn
  <1>2. CASE ScoredIn(s) # {}
    <2>1. PICK i \in ScoredIn(s) : \A j \in ScoredIn(s) : Beats(s, i, j)
      BY <1>2 DEF HasBest
    <2>2. BestIn(s) = i
      BY <2>1, BestIsUnique
    <2>3. i \in 1..Len(s) /\ s[i].proxy \in Int
      BY ProxyType
    <2>4. QED BY <1>2, <2>1, <2>2, <2>3
  <1>3. QED BY <1>1, <1>2

\* The best of a chain that grows is what best_line makes of its scores.
LEMMA LineGrows ==
    ASSUME NEW s \in Seq(Attempt), NEW a \in Attempt, HasBest(s)
    PROVE  LineOf(Append(s, a)) =
              IF a.proxy # None /\ (LineOf(s).attempt = 0 \/ a.proxy > LineOf(s).proxy)
              THEN [attempt |-> Len(s) + 1, proxy |-> a.proxy] ELSE LineOf(s)
  <1> DEFINE t == Append(s, a)
             n == Len(s) + 1
  <1>1. /\ t \in Seq(Attempt) /\ Len(t) = n /\ n \in Nat /\ t[n] = a
        /\ \A i \in 1..Len(s) : i \in 1..n /\ i < n /\ t[i] = s[i]
        /\ \A i \in 1..n : i = n \/ i \in 1..Len(s)
        /\ n \in 1..n
    OBVIOUS
  <1>b. HasBest(t)
    BY AppendKeepsBest
  <1> HIDE DEF t, n
  <1>2. \A i \in ScoredIn(t) : t[i].proxy \in Int /\ i \in Nat /\ i <= n
    BY <1>1, ProxyType
  <1>3. /\ \A i \in ScoredIn(s) : i \in ScoredIn(t) /\ t[i] = s[i] /\ i < n
        /\ \A i \in ScoredIn(t) : i = n \/ (i \in ScoredIn(s) /\ t[i] = s[i])
        /\ n \in ScoredIn(t) <=> a.proxy # None
    BY <1>1 DEF ScoredIn
  <1>4. CASE a.proxy # None /\ (BestIn(s) = 0 \/ a.proxy > s[BestIn(s)].proxy)
    <2>1. \A j \in ScoredIn(s) : t[j].proxy < t[n].proxy
      <3> TAKE j \in ScoredIn(s)
      <3>1. BestIn(s) # 0
        BY BestInFacts
      <3>2. /\ BestIn(s) \in ScoredIn(s) /\ s[BestIn(s)].proxy \in Int
            /\ Beats(s, BestIn(s), j)
        BY <3>1, BestInFacts
      <3>3. s[j].proxy \in Int /\ a.proxy \in Int
        BY <1>4, ProxyType DEF Attempt
      <3>4. s[j].proxy <= s[BestIn(s)].proxy
        BY <3>2, <3>3 DEF Beats
      <3>5. QED BY <1>1, <1>3, <1>4, <3>1, <3>2, <3>3, <3>4
    <2>2. n \in ScoredIn(t) /\ \A j \in ScoredIn(t) : Beats(t, n, j)
      BY <1>2, <1>3, <1>4, <2>1 DEF Beats
    <2>3. BestIn(t) = n
      BY <1>1, <2>2, BestIsUnique
    <2>4. n # 0
      BY <1>1 DEF n
    <2>5. QED BY <1>1, <1>4, <2>3, <2>4 DEF LineOf, t, n
  <1>5. CASE a.proxy # None /\ BestIn(s) # 0 /\ ~(a.proxy > s[BestIn(s)].proxy)
    <2>1. /\ BestIn(s) \in ScoredIn(s) /\ s[BestIn(s)].proxy \in Int
          /\ \A j \in ScoredIn(s) : Beats(s, BestIn(s), j)
      BY <1>5, BestInFacts
    <2>2. BestIn(s) \in ScoredIn(t) /\ t[BestIn(s)] = s[BestIn(s)] /\ BestIn(s) < n
      BY <1>3, <2>1
    <2>3. a.proxy \in Int
      BY <1>5 DEF Attempt
    <2>4. \A j \in ScoredIn(t) : Beats(t, BestIn(s), j)
      BY <1>1, <1>2, <1>3, <1>5, <2>1, <2>2, <2>3 DEF Beats
    <2>5. BestIn(t) = BestIn(s)
      BY <1>1, <2>2, <2>4, BestIsUnique
    <2>6. QED BY <1>5, <2>2, <2>5 DEF LineOf, t
  <1>6. CASE a.proxy = None
    <2>1. ScoredIn(t) = ScoredIn(s)
      BY <1>3, <1>6
    <2>2. CASE BestIn(s) = 0
      <3>1. BestIn(t) = 0
        BY <1>1, <1>b, <2>1, <2>2, BestInFacts
      <3>2. QED BY <1>6, <2>2, <3>1 DEF LineOf, t
    <2>3. CASE BestIn(s) # 0
      <3>1. BestIn(s) \in ScoredIn(s) /\ \A j \in ScoredIn(s) : Beats(s, BestIn(s), j)
        BY <2>3, BestInFacts
      <3>2. \A j \in ScoredIn(t) : Beats(t, BestIn(s), j)
        BY <1>3, <2>1, <3>1 DEF Beats
      <3>3. BestIn(t) = BestIn(s) /\ t[BestIn(s)] = s[BestIn(s)]
        BY <1>1, <1>3, <2>1, <3>1, <3>2, BestIsUnique
      <3>4. QED BY <1>6, <2>3, <3>3 DEF LineOf, t
    <2>4. QED BY <2>2, <2>3
  <1>7. QED BY <1>4, <1>5, <1>6 DEF LineOf

----------------------------------------------------------------------------
(* What a step does to the trace and to the chain. *)

LEMMA EventsGrow ==
    ASSUME trace \in Seq(Event), NEW e \in Event, trace' = Append(trace, e)
    PROVE  BestLine' = BestAfter(BestLine, e) /\ ToSet(trace') = ToSet(trace) \cup {e}
  <1>1. BestLine' = BestAfter(BestLine, e)
    BY BestGoesOn DEF BestLine
  <1>2. ToSet(trace') = ToSet(trace) \cup {e}
    <2>1. /\ Len(trace') = Len(trace) + 1 /\ Len(trace) \in Nat /\ trace'[Len(trace) + 1] = e
          /\ DOMAIN trace = 1..Len(trace) /\ DOMAIN trace' = 1..Len(trace')
          /\ \A i \in 1..Len(trace) : trace'[i] = trace[i]
      OBVIOUS
    <2>2. 1..(Len(trace) + 1) = 1..Len(trace) \cup {Len(trace) + 1}
      BY <2>1
    <2>3. QED BY <2>1, <2>2 DEF ToSet
  <1>3. QED BY <1>1, <1>2

\* The chain grows in Reject and in Record, and nowhere else.
LEMMA ChainSteps ==
    ASSUME [Next]_vars
    PROVE  Reject \/ Record \/ attempts' = attempts
  <1>1. QED
    BY DEF Next, Step, Open, LoopEnds, NextMove, CallReturns, CallOverflows, CallFails, Sleep,
       Write, Execute, EvalFails, EvalScores, Grade, Discard, Seal, Raise, Killed, vars

LEMMA LoggedIsEvent ==
    ASSUME trace \in Seq(Event), trace' \in Seq(Event), NEW e, trace' = Append(trace, e)
    PROVE  e \in Event
  <1>1. e = trace'[Len(trace) + 1] /\ Len(trace) + 1 \in 1..Len(trace')
    OBVIOUS
  <1>2. QED BY <1>1

LEMMA CallLogs ==
    ASSUME TypeOK, TypeOK', NEW cost \in Costs, CallReturns(cost)
    PROVE  /\ Events("llm_call")' = Events("llm_call") \cup
                 {[type |-> "llm_call", attempt |-> This, move |-> move,
                   base |-> base, tokens |-> cost]}
           /\ UNCHANGED <<Events("public_eval"), Events("final_outcome"), BestLine>>
  <1> DEFINE e == [type |-> "llm_call", attempt |-> This, move |-> move, base |-> base,
                   tokens |-> cost]
  <1>1. trace' = Append(trace, e) /\ e.type = "llm_call"
    BY DEF CallReturns, Emit
  <1> HIDE DEF e
  <1>2. e \in Event /\ trace \in Seq(Event)
    BY <1>1, LoggedIsEvent DEF TypeOK
  <1>3. BestAfter(BestLine, e) = BestLine
    BY <1>1 DEF BestAfter
  <1>4. QED BY <1>1, <1>2, <1>3, EventsGrow DEF Events, e

LEMMA ReplyLogs ==
    ASSUME TypeOK, TypeOK', Reject \/ Write
    PROVE  UNCHANGED <<Events("llm_call"), Events("public_eval"), Events("final_outcome"),
                       BestLine>>
  <1>1. PICK e : trace' = Append(trace, e) /\ e.type \in {"execution_result", "code_written"}
    <2>1. CASE Reject
      BY <2>1 DEF Reject, Emit
    <2>2. CASE Write
      BY <2>2 DEF Write, Emit
    <2>3. QED BY <2>1, <2>2
  <1>2. e \in Event /\ trace \in Seq(Event)
    BY <1>1, LoggedIsEvent DEF TypeOK
  <1>3. BestAfter(BestLine, e) = BestLine
    BY <1>1 DEF BestAfter
  <1>4. QED BY <1>1, <1>2, <1>3, EventsGrow DEF Events

LEMMA EvalLogs ==
    ASSUME TypeOK, TypeOK', NEW v \in Values, EvalScores(v)
    PROVE  /\ Events("public_eval")' = Events("public_eval") \cup
                 {[type |-> "public_eval", attempt |-> This, value |-> v]}
           /\ UNCHANGED <<Events("llm_call"), Events("final_outcome"), BestLine>>
  <1> DEFINE e == [type |-> "public_eval", attempt |-> This, value |-> v]
  <1>1. trace' = Append(trace, e) /\ e.type = "public_eval"
    BY DEF EvalScores, Emit
  <1> HIDE DEF e
  <1>2. e \in Event /\ trace \in Seq(Event)
    BY <1>1, LoggedIsEvent DEF TypeOK
  <1>3. BestAfter(BestLine, e) = BestLine
    BY <1>1 DEF BestAfter
  <1>4. QED BY <1>1, <1>2, <1>3, EventsGrow DEF Events, e

LEMMA RecordLogs ==
    ASSUME TypeOK, TypeOK', Record
    PROVE  /\ UNCHANGED <<Events("llm_call"), Events("public_eval"), Events("final_outcome")>>
           /\ BestLine' = IF fb.proxy # None
                             /\ (BestLine.attempt = 0 \/ fb.proxy > BestLine.proxy)
                          THEN [attempt |-> This, proxy |-> fb.proxy] ELSE BestLine
  <1>t. trace \in Seq(Event) /\ trace' \in Seq(Event) /\ fb \in Feedback /\ This \in Nat
        /\ spent' \in SpentType
    BY DEF TypeOK, N, This
  <1> DEFINE r == [type |-> "execution_result", attempt |-> This, kind |-> fb.kind]
             q == [type |-> "score", attempt |-> This, proxy |-> fb.proxy, spent |-> Snapshot]
             u == Append(trace, r)
  <1>1. /\ r \in Event /\ q \in Event /\ r.type = "execution_result" /\ q.type = "score"
        /\ q.attempt = This /\ q.proxy = fb.proxy
    BY <1>t DEF Event, Feedback, Snapshot
  <1>2. trace' = trace \o <<r, q>>
    BY DEF Record
  <1> HIDE DEF r, q
  <1>3. u \in Seq(Event) /\ Len(u) = Len(trace) + 1 /\ trace' = Append(u, q)
    BY <1>t, <1>1, <1>2
  <1>4. BestLines(u)[Len(u)] = BestLine
    <2>1. BestLines(u)[Len(u)] = BestAfter(BestLine, r)
      BY <1>t, <1>1, BestGoesOn DEF BestLine
    <2>2. QED BY <1>1, <2>1 DEF BestAfter
  <1>5. BestLine' = BestAfter(BestLine, q)
    <2> HIDE DEF u
    <2>1. BestLines(trace')[Len(trace')] = BestAfter(BestLines(u)[Len(u)], q)
      BY <1>1, <1>3, BestGoesOn
    <2>2. QED BY <1>4, <2>1 DEF BestLine
  <1>6. ToSet(trace') = ToSet(trace) \cup {r, q}
    <2>1. /\ Len(trace) \in Nat /\ Len(trace') = Len(trace) + 2
          /\ trace'[Len(trace) + 1] = r /\ trace'[Len(trace) + 2] = q
          /\ DOMAIN trace = 1..Len(trace) /\ DOMAIN trace' = 1..Len(trace')
          /\ \A i \in 1..Len(trace) : trace'[i] = trace[i]
      BY <1>t, <1>2
    <2>2. 1..(Len(trace) + 2) = 1..Len(trace) \cup {Len(trace) + 1, Len(trace) + 2}
      BY <2>1
    <2>3. QED BY <2>1, <2>2 DEF ToSet
  <1>7. QED BY <1>1, <1>5, <1>6 DEF Events, BestAfter

LEMMA SealLogs ==
    ASSUME TypeOK, TypeOK', Seal
    PROVE  /\ UNCHANGED <<Events("llm_call"), Events("public_eval"), BestLine>>
           /\ \A e \in Events("final_outcome")' :
                 \/ e \in Events("final_outcome")
                 \/ /\ e.attempt = N /\ e.best = BestAttempt
                    /\ e.proxy = IF BestAttempt = 0 THEN None
                                 ELSE attempts[BestAttempt].proxy
  <1> DEFINE e == [type |-> "final_outcome", attempt |-> N, best |-> BestAttempt,
                   proxy |-> IF BestAttempt = 0 THEN None ELSE attempts[BestAttempt].proxy,
                   spent |-> spent]
  <1>1. /\ trace' = Append(trace, e) /\ e.type = "final_outcome" /\ e.attempt = N
        /\ e.best = BestAttempt
        /\ e.proxy = IF BestAttempt = 0 THEN None ELSE attempts[BestAttempt].proxy
    BY DEF Seal, Emit
  <1> HIDE DEF e
  <1>2. e \in Event /\ trace \in Seq(Event)
    BY <1>1, LoggedIsEvent DEF TypeOK
  <1>3. BestAfter(BestLine, e) = BestLine
    BY <1>1 DEF BestAfter
  <1>4. QED BY <1>1, <1>2, <1>3, EventsGrow DEF Events

\* The steps that log nothing.
Silent ==
    \/ Open \/ LoopEnds \/ NextMove \/ CallOverflows \/ CallFails \/ Sleep
    \/ Execute \/ EvalFails \/ Grade \/ Raise \/ Killed \/ UNCHANGED vars

LEMMA NextSplit ==
    ASSUME [Next]_vars
    PROVE  \/ Silent \/ Reject \/ Write \/ Record \/ Discard \/ Seal
           \/ \E cost \in Costs : CallReturns(cost)
           \/ \E v \in Values : EvalScores(v)
  BY DEF Next, Step, Silent

LEMMA SilentStep ==
    ASSUME Silent
    PROVE  /\ UNCHANGED <<trace, attempts>>
           /\ UNCHANGED <<BestLine, Events("llm_call"), Events("public_eval"),
                          Events("final_outcome"), N, This, BestAttempt>>
  <1>1. UNCHANGED <<trace, attempts>>
    BY DEF Silent, Open, LoopEnds, NextMove, CallOverflows, CallFails, Sleep, Execute,
       EvalFails, Grade, Raise, Killed, vars
  <1>2. QED BY <1>1 DEF BestLine, Events, N, This, BestAttempt, Scored

----------------------------------------------------------------------------
(* The loop's choice of the best attempt and best_line's are the same. *)

LEMMA ChainStep ==
    LoopInv /\ LoopInv' /\ ChainInv /\ [Next]_vars => ChainInv'
  <1> SUFFICES ASSUME LoopInv, LoopInv', ChainInv, [Next]_vars PROVE ChainInv'
    OBVIOUS
  <1>t. /\ TypeOK /\ TypeOK' /\ HasBest(attempts)
        /\ attempts \in Seq(Attempt) /\ fb \in Feedback /\ N = Len(attempts) /\ N \in Nat
        /\ N' = Len(attempts')
    BY DEF LoopInv, TypeOK, N
  <1>i. /\ BestLine = LineOf(attempts)
        /\ \A i \in 1..N : attempts[i].kind = "success" <=> attempts[i].proxy # None
        /\ fb.kind = "success" <=> fb.proxy # None
    BY DEF ChainInv
  <1>f. fb'.kind = "success" <=> fb'.proxy # None
    <2>1. CASE Execute \/ EvalFails
      BY <1>i, <2>1 DEF Execute, EvalFails, Failure
    <2>2. ASSUME NEW v \in Values, EvalScores(v) PROVE fb'.kind = "success" /\ fb'.proxy # None
      <3>1. fb' = [kind |-> "success", proxy |-> ProxyOf(v)]
        BY <2>2 DEF EvalScores
      <3>2. ProxyOf(v) \in Int /\ None \notin Int
        BY BudgetTypes DEF ProxyOf
      <3>3. QED BY <3>1, <3>2
    <2>3. CASE fb' = fb
      BY <1>i, <2>3
    <2>4. (\E v \in Values : EvalScores(v)) \/ Execute \/ EvalFails \/ fb' = fb
      BY DEF Next, Step, Open, LoopEnds, NextMove, CallReturns, CallOverflows, CallFails, Sleep,
         Reject, Write, Record, Grade, Discard, Seal, Raise, Killed, vars
    <2>5. QED BY <2>1, <2>2, <2>3, <2>4
  \* The chain stays as it is, and best_line's line with it.
  <1>u. ASSUME UNCHANGED <<attempts, BestLine>> PROVE ChainInv'
    BY <1>f, <1>i, <1>u DEF ChainInv, N
  \* An attempt is recorded.
  <1>a. ASSUME NEW a \in Attempt, attempts' = Append(attempts, a),
               a.kind = "success" <=> a.proxy # None,
               BestLine' = IF a.proxy # None
                              /\ (BestLine.attempt = 0 \/ a.proxy > BestLine.proxy)
                           THEN [attempt |-> This, proxy |-> a.proxy] ELSE BestLine
        PROVE  ChainInv'
    <2>1. BestLine' = LineOf(attempts')
      BY <1>a, <1>i, <1>t, LineGrows DEF This
    <2>2. /\ Len(attempts') = N + 1 /\ attempts'[N + 1] = a
          /\ \A i \in 1..N : attempts'[i] = attempts[i]
      BY <1>a, <1>t
    <2>3. \A i \in 1..N' : i \in 1..N \/ i = N + 1
      BY <1>t, <2>2
    <2>4. \A i \in 1..N' : attempts'[i].kind = "success" <=> attempts'[i].proxy # None
      BY <1>a, <1>i, <2>2, <2>3
    <2>5. QED BY <1>f, <2>1, <2>4 DEF ChainInv
  <1>1. CASE Silent
    BY <1>1, <1>u, SilentStep
  <1>2. ASSUME NEW cost \in Costs, CallReturns(cost) PROVE ChainInv'
    BY <1>2, <1>t, <1>u, CallLogs DEF CallReturns
  <1>3. CASE Reject
    <2> DEFINE a == [kind |-> "agent_fixable", proxy |-> None, workspace |-> FALSE,
                     code |-> CarriedCode]
    <2>1. attempts' = Append(attempts, a) /\ a.kind = "agent_fixable" /\ a.proxy = None
      BY <1>3 DEF Reject
    <2> HIDE DEF a
    <2>2. a \in Attempt
      <3>1. a = attempts'[N + 1] /\ N + 1 \in 1..Len(attempts') /\ attempts' \in Seq(Attempt)
        BY <1>t, <2>1 DEF TypeOK
      <3>2. QED BY <3>1
    <2>3. BestLine' = BestLine
      BY <1>3, <1>t, ReplyLogs
    <2>4. QED BY <1>a, <2>1, <2>2, <2>3
  <1>4. CASE Write
    BY <1>4, <1>t, <1>u, ReplyLogs DEF Write
  <1>5. ASSUME NEW v \in Values, EvalScores(v) PROVE ChainInv'
    BY <1>5, <1>t, <1>u, EvalLogs DEF EvalScores
  <1>6. CASE Record
    <2> DEFINE a == [kind |-> fb.kind, proxy |-> fb.proxy, workspace |-> TRUE, code |-> This]
    <2>1. attempts' = Append(attempts, a) /\ a.kind = fb.kind /\ a.proxy = fb.proxy
      BY <1>6 DEF Record
    <2>2. a \in Attempt
      BY <1>t DEF Attempt, Feedback, This
    <2> HIDE DEF a
    <2>3. QED BY <1>a, <1>6, <1>i, <1>t, <2>1, <2>2, RecordLogs
  <1>7. CASE Discard
    <2>1. trace' = <<>> /\ attempts' = attempts /\ N = 0
      BY <1>7 DEF Discard
    <2>2. trace' \in Seq(Event) /\ Len(trace') = 0
      BY <2>1
    <2>3. BestLine' = NoBest
      <3>1. BestLines(trace')[0] = NoBest
        BY <2>2, BestLinesRecursion
      <3>2. QED BY <2>2, <3>1 DEF BestLine
    <2>4. BestIn(attempts) = 0
      BY <1>t, <2>1 DEF BestIn, ScoredIn
    <2>5. LineOf(attempts) = NoBest
      BY <2>4 DEF LineOf, NoBest
    <2>6. QED BY <1>i, <1>u, <2>1, <2>3, <2>5
  <1>8. CASE Seal
    BY <1>8, <1>t, <1>u, SealLogs DEF Seal
  <1>9. QED BY <1>1, <1>2, <1>3, <1>4, <1>5, <1>6, <1>7, <1>8, NextSplit

LEMMA ChainInvariant == Spec => []ChainInv
  <1>1. ASSUME Init PROVE ChainInv
    <2>1. trace = <<>> /\ attempts = <<>> /\ fb = Failure /\ N = 0
      BY <1>1 DEF Init, N
    <2>2. trace \in Seq(Event) /\ Len(trace) = 0
      BY <2>1
    <2>3. BestLine = NoBest
      BY <2>2, BestLinesRecursion DEF BestLine
    <2>4. BestIn(attempts) = 0
      BY <2>1 DEF BestIn, ScoredIn
    <2>5. LineOf(attempts) = NoBest
      BY <2>4 DEF LineOf, NoBest
    <2>6. QED BY <2>1, <2>3, <2>5 DEF ChainInv, Failure
  <1>2. QED BY <1>1, LoopTypeInvariant, ChainStep, PTL DEF Spec

----------------------------------------------------------------------------
(* Moves, branch points and the code a prompt shows. *)

\* What next_move decided is still so while the completion is awaited, and every
\* logged call made the move that the history shows for its attempt.
MoveInv ==
    /\ pc \in {"call", "sleep"} => move = HistoryMove(This)
    /\ \A e \in Events("llm_call") : e.attempt \in 1..This /\ e.move = HistoryMove(e.attempt)
    /\ pc \in {"call", "sleep", "reply"} /\ move # "draft" =>
          /\ N > 0
          /\ move = "improve" => Tip.kind = "success" /\ base = ImproveBase
          /\ move # "improve" => Tip.kind # "success" /\ base = N

\* The chain only grows at its end: the past keeps its moves.
LEMMA HistoryStays ==
    ASSUME attempts \in Seq(Attempt),
           attempts' = attempts \/ \E a \in Attempt : attempts' = Append(attempts, a)
    PROVE  /\ N \in Nat /\ N' \in Nat /\ N <= N' /\ This = N + 1 /\ This' = N' + 1
           /\ \A i \in 1..N : attempts'[i] = attempts[i]
           /\ \A i \in 1..This : i \in 1..This' /\ HistoryMove(i)' = HistoryMove(i)
  <1>1. N \in Nat /\ N' \in Nat /\ N <= N' /\ \A i \in 1..N : attempts'[i] = attempts[i]
    BY DEF N
  <1>2. This = N + 1 /\ This' = N' + 1
    BY DEF This
  <1>3. \A i \in 1..This : (i = 1 \/ i - 1 \in 1..N) /\ i \in 1..This'
    <2> DEFINE n == N
               m == N'
    <2>1. n \in Nat /\ m \in Nat /\ n <= m
      BY <1>1
    <2> HIDE DEF n, m
    <2>2. \A i \in 1..(n + 1) : (i = 1 \/ i - 1 \in 1..n) /\ i \in 1..(m + 1)
      BY <2>1
    <2>3. QED BY <1>2, <2>2 DEF n, m
  <1>4. ASSUME NEW i \in 1..This PROVE HistoryMove(i)' = HistoryMove(i)
    <2>1. CASE i = 1
      BY <2>1 DEF HistoryMove
    <2>2. CASE i # 1
      <3>1. attempts'[i - 1] = attempts[i - 1]
        BY <1>1, <1>3, <2>2
      <3>2. QED BY <2>2, <3>1 DEF HistoryMove, MoveAfter
    <2>3. QED BY <2>1, <2>2
  <1>5. QED BY <1>1, <1>2, <1>3, <1>4

LEMMA ChainAppends ==
    ASSUME TypeOK, TypeOK', [Next]_vars
    PROVE  attempts' = attempts \/ \E a \in Attempt : attempts' = Append(attempts, a)
  <1>1. attempts \in Seq(Attempt) /\ attempts' \in Seq(Attempt)
    BY DEF TypeOK
  <1>2. ASSUME NEW a, attempts' = Append(attempts, a)
        PROVE  a \in Attempt
    <2>1. a = attempts'[Len(attempts) + 1] /\ Len(attempts) + 1 \in 1..Len(attempts')
      BY <1>1, <1>2
    <2>2. QED BY <1>1, <2>1
  <1>3. QED BY <1>2, ChainSteps DEF Reject, Record

LEMMA MoveStep ==
    TypeOK /\ TypeOK' /\ MoveInv /\ [Next]_vars => MoveInv'
  <1> SUFFICES ASSUME TypeOK, TypeOK', MoveInv, [Next]_vars PROVE MoveInv'
    OBVIOUS
  <1>t. attempts \in Seq(Attempt) /\ N = Len(attempts)
    BY DEF TypeOK, N
  <1>h. /\ N \in Nat /\ N' \in Nat /\ N <= N' /\ This = N + 1 /\ This' = N' + 1
        /\ \A i \in 1..N : attempts'[i] = attempts[i]
        /\ \A i \in 1..This : i \in 1..This' /\ HistoryMove(i)' = HistoryMove(i)
    BY <1>t, ChainAppends, HistoryStays
  \* The calls logged so far keep their moves.
  <1>e. ASSUME UNCHANGED Events("llm_call")
        PROVE  \A e \in Events("llm_call")' :
                  e.attempt \in 1..This' /\ e.move = HistoryMove(e.attempt)'
    <2>1. \A e \in Events("llm_call") :
             e.attempt \in 1..This' /\ e.move = HistoryMove(e.attempt)'
      BY <1>h DEF MoveInv
    <2>2. QED BY <1>e, <2>1
  \* A step that neither moves nor records.
  <1>u. ASSUME UNCHANGED <<attempts, move, base>>, UNCHANGED Events("llm_call"),
               pc' \in {"call", "sleep"} => pc \in {"call", "sleep"},
               pc' = "reply" => pc \in {"call", "sleep", "reply"}
        PROVE  MoveInv'
    <2>1. N' = N /\ This' = This /\ Tip' = Tip /\ ImproveBase' = ImproveBase
          /\ HistoryMove(This)' = HistoryMove(This)
      BY <1>u, <1>h DEF N, This, Tip, ImproveBase, BestAttempt, Scored, HistoryMove
    <2>2. pc' \in {"call", "sleep"} => move' = HistoryMove(This)'
      BY <1>u, <2>1 DEF MoveInv
    <2>3. pc' \in {"call", "sleep", "reply"} /\ move' # "draft" =>
             /\ N' > 0
             /\ move' = "improve" => Tip'.kind = "success" /\ base' = ImproveBase'
             /\ move' # "improve" => Tip'.kind # "success" /\ base' = N'
      BY <1>u, <2>1 DEF MoveInv
    <2>4. QED BY <1>e, <1>u, <2>2, <2>3 DEF MoveInv
  \* A step after which no move is on its way.
  <1>q. ASSUME pc' \notin {"call", "sleep", "reply"}, UNCHANGED Events("llm_call")
        PROVE  MoveInv'
    BY <1>e, <1>q DEF MoveInv
  <1>1. CASE NextMove
    <2>1. /\ pc' = "call" /\ UNCHANGED <<attempts, trace>>
          /\ \/ N = 0 /\ move' = "draft"
             \/ /\ N > 0 /\ Tip.kind = "success" /\ move' = "improve" /\ base' = ImproveBase
             \/ /\ N > 0 /\ Tip.kind # "success" /\ base' = N
                /\ move' = IF Tip.workspace THEN "debug:code" ELSE "debug:formatting"
      BY <1>1 DEF NextMove, DebugBase
    <2>2. N' = N /\ This' = This /\ Tip' = Tip /\ ImproveBase' = ImproveBase
          /\ UNCHANGED Events("llm_call")
      BY <2>1 DEF N, This, Tip, ImproveBase, BestAttempt, Scored, Events
    <2>3. move' = HistoryMove(This)
      <3>1. This - 1 = N /\ (This = 1 <=> N = 0)
        BY <1>h
      <3>2. QED BY <1>h, <2>1, <3>1 DEF HistoryMove, MoveAfter, Tip
    <2>4. move' = HistoryMove(This)'
      <3>1. This \in 1..This
        BY <1>h
      <3>2. HistoryMove(This)' = HistoryMove(This)
        BY <2>1, <2>2 DEF HistoryMove
      <3>3. QED BY <2>3, <3>2
    <2>5. move' # "draft" =>
             /\ N' > 0
             /\ move' = "improve" => Tip'.kind = "success" /\ base' = ImproveBase'
             /\ move' # "improve" => Tip'.kind # "success" /\ base' = N'
      BY <2>1, <2>2
    <2>6. QED BY <1>e, <2>2, <2>4, <2>5 DEF MoveInv
  <1>2. ASSUME NEW cost \in Costs, CallReturns(cost) PROVE MoveInv'
    <2>1. /\ pc = "call" /\ pc' = "reply" /\ UNCHANGED <<attempts, move, base>>
      BY <1>2 DEF CallReturns
    <2>2. PICK e : /\ Events("llm_call")' = Events("llm_call") \cup {e}
                   /\ e.attempt = This /\ e.move = move
      <3> DEFINE r == [type |-> "llm_call", attempt |-> This, move |-> move, base |-> base,
                       tokens |-> cost]
      <3>1. Events("llm_call")' = Events("llm_call") \cup {r}
            /\ r.attempt = This /\ r.move = move
        BY <1>2, CallLogs
      <3> HIDE DEF r
      <3>2. QED BY <3>1
    <2>3. N' = N /\ This' = This /\ Tip' = Tip /\ ImproveBase' = ImproveBase
      BY <2>1 DEF N, This, Tip, ImproveBase, BestAttempt, Scored
    <2>4. This \in 1..This /\ move = HistoryMove(This)
      BY <1>h, <2>1 DEF MoveInv
    <2>5. \A d \in Events("llm_call")' :
             d.attempt \in 1..This' /\ d.move = HistoryMove(d.attempt)'
      <3>1. \A d \in Events("llm_call") \cup {e} :
               d.attempt \in 1..This /\ d.move = HistoryMove(d.attempt)
        BY <2>2, <2>4 DEF MoveInv
      <3>2. QED BY <1>h, <2>2, <3>1
    <2>6. move' # "draft" =>
             /\ N' > 0
             /\ move' = "improve" => Tip'.kind = "success" /\ base' = ImproveBase'
             /\ move' # "improve" => Tip'.kind # "success" /\ base' = N'
      BY <2>1, <2>3 DEF MoveInv
    <2>7. QED BY <2>1, <2>5, <2>6 DEF MoveInv
  <1>3. CASE CallFails \/ Sleep
    <2>1. UNCHANGED <<attempts, move, base, trace>>
          /\ pc \in {"call", "sleep"} /\ pc' # "reply"
      BY <1>3 DEF CallFails, Sleep
    <2>2. UNCHANGED Events("llm_call")
      BY <2>1 DEF Events
    <2>3. QED BY <1>u, <2>1, <2>2
  <1>4. CASE UNCHANGED vars
    BY <1>4, <1>u DEF vars, Events
  <1>5. CASE Silent /\ ~(NextMove \/ CallFails \/ Sleep \/ UNCHANGED vars)
    <2>1. pc' \notin {"call", "sleep", "reply"}
      BY <1>5 DEF Silent, Open, LoopEnds, CallOverflows, Execute, EvalFails, Grade, Raise, Killed
    <2>2. QED BY <1>5, <1>q, <2>1, SilentStep
  <1>6. CASE Reject \/ Write
    BY <1>6, <1>q, ReplyLogs DEF Reject, Write
  <1>7. ASSUME NEW v \in Values, EvalScores(v) PROVE MoveInv'
    BY <1>7, <1>q, EvalLogs DEF EvalScores
  <1>8. CASE Record
    BY <1>8, <1>q, RecordLogs DEF Record
  <1>9. CASE Discard
    <2>1. pc' = "done" /\ trace' = <<>>
      BY <1>9 DEF Discard
    <2>2. Events("llm_call")' = {}
      BY <2>1 DEF Events, ToSet
    <2>3. QED BY <2>1, <2>2 DEF MoveInv
  <1>10. CASE Seal
    BY <1>10, <1>q, SealLogs DEF Seal
  <1>11. QED
    BY <1>1, <1>2, <1>3, <1>4, <1>5, <1>6, <1>7, <1>8, <1>9, <1>10, NextSplit

LEMMA MoveInvariant == Spec => []MoveInv
  <1>1. ASSUME Init PROVE MoveInv
    <2>1. pc = "start" /\ trace = <<>>
      BY <1>1 DEF Init
    <2>2. Events("llm_call") = {}
      BY <2>1 DEF Events, ToSet
    <2>3. QED BY <2>1, <2>2 DEF MoveInv
  <1>2. LoopInv => TypeOK
    BY DEF LoopInv
  <1>3. QED BY <1>1, <1>2, LoopTypeInvariant, MoveStep, PTL DEF Spec

\* A tip that succeeded has scored, so there is a best attempt to improve.
LEMMA ImproveBaseIsBest ==
    ASSUME LoopInv, ChainInv, N > 0, Tip.kind = "success"
    PROVE  /\ ImproveBase = IF Policy = "best" THEN BestLine.attempt ELSE N
           /\ ImproveBase \in 1..N
  <1>1. attempts \in Seq(Attempt) /\ HasBest(attempts) /\ N = Len(attempts) /\ N \in Nat
    BY DEF LoopInv, TypeOK, N
  <1>2. attempts[N].proxy # None
    BY <1>1 DEF ChainInv, Tip
  <1>3. N \in ScoredIn(attempts)
    BY <1>1, <1>2 DEF ScoredIn
  <1>4. BestIn(attempts) # 0 /\ BestIn(attempts) \in 1..N
    BY <1>1, <1>3, BestInFacts
  <1>5. BestAttempt = BestIn(attempts) /\ BestLine.attempt = BestIn(attempts)
    BY BestIsBestIn DEF ChainInv, LineOf
  <1>6. QED BY <1>1, <1>4, <1>5 DEF ImproveBase

\* Whatever the replies and the scores: every attempt branches from where the
\* policy says, and the history shown with the prompt names the moves that were
\* made (loop.py next_move and _history_entries).
THEOREM BranchesFollowPolicy == Spec => []ChainFollowsPolicy
  <1>1. ASSUME LoopInv, ChainInv, MoveInv PROVE ChainFollowsPolicy
    <2>1. ASSUME pc \in {"call", "reply"}, move = "improve"
          PROVE  base = IF Policy = "best" THEN BestLine.attempt ELSE N
      <3>1. N > 0 /\ Tip.kind = "success" /\ base = ImproveBase
        BY <1>1, <2>1 DEF MoveInv
      <3>2. QED BY <1>1, <3>1, ImproveBaseIsBest
    <2>2. ASSUME pc \in {"call", "reply"}, move \in {"debug:code", "debug:formatting"}
          PROVE  base = N /\ attempts[N].proxy = None
      <3>1. N > 0 /\ Tip.kind # "success" /\ base = N
        BY <1>1, <2>2 DEF MoveInv
      <3>2. N \in 1..N
        BY <1>1, <3>1 DEF LoopInv, TypeOK, N
      <3>3. QED BY <1>1, <3>1, <3>2 DEF ChainInv, Tip
    <2>3. QED BY <1>1, <2>1, <2>2 DEF ChainFollowsPolicy, MoveInv
  <1>2. QED BY <1>1, LoopTypeInvariant, ChainInvariant, MoveInvariant, PTL

\* The last of a set of attempts.
LastOf(S) == IF S = {} THEN 0 ELSE CHOOSE i \in S : \A j \in S : j <= i

WrittenUpTo(s, n) == {i \in 1..Len(s) : s[i].workspace /\ i <= n}

\* Every attempt carries the code that was last written in the chain up to it.
CodeInv == \A i \in 1..N : attempts[i].code = LastOf(WrittenUpTo(attempts, i))

LEMMA CodeStep ==
    TypeOK /\ TypeOK' /\ CodeInv /\ [Next]_vars => CodeInv'
  <1> SUFFICES ASSUME TypeOK, TypeOK', CodeInv, [Next]_vars PROVE CodeInv'
    OBVIOUS
  <1>t. attempts \in Seq(Attempt) /\ N = Len(attempts) /\ N' = Len(attempts') /\ N \in Nat
    BY DEF TypeOK, N
  <1>a. ASSUME NEW a, attempts' = Append(attempts, a)
        PROVE  /\ N' = N + 1 /\ attempts'[N + 1] = a
               /\ \A i \in 1..N : attempts'[i] = attempts[i]
               /\ \A i \in 1..N' : i \in 1..N \/ i = N + 1
               /\ \A i \in 1..N : WrittenUpTo(attempts', i) = WrittenUpTo(attempts, i)
               /\ a.workspace =>
                     WrittenUpTo(attempts', N + 1) = WrittenUpTo(attempts, N) \cup {N + 1}
               /\ ~a.workspace => WrittenUpTo(attempts', N + 1) = WrittenUpTo(attempts, N)
    <2>1. /\ N' = N + 1 /\ attempts'[N + 1] = a
          /\ \A i \in 1..N : attempts'[i] = attempts[i] /\ i \in 1..N'
          /\ \A i \in 1..N' : i \in 1..N \/ i = N + 1
          /\ N + 1 \in 1..N'
      BY <1>a, <1>t
    <2>2. \A i \in 1..N : WrittenUpTo(attempts', i) = WrittenUpTo(attempts, i)
      BY <1>t, <2>1 DEF WrittenUpTo
    <2>3. a.workspace => WrittenUpTo(attempts', N + 1) = WrittenUpTo(attempts, N) \cup {N + 1}
      BY <1>t, <2>1 DEF WrittenUpTo
    <2>4. ~a.workspace => WrittenUpTo(attempts', N + 1) = WrittenUpTo(attempts, N)
      BY <1>t, <2>1 DEF WrittenUpTo
    <2>5. QED BY <2>1, <2>2, <2>3, <2>4
  \* It is enough to look at the attempt that is new.
  <1>n. ASSUME NEW a, attempts' = Append(attempts, a),
               a.code = LastOf(WrittenUpTo(attempts', N + 1))
        PROVE  CodeInv'
    <2>1. ASSUME NEW i \in 1..N'
          PROVE  attempts'[i].code = LastOf(WrittenUpTo(attempts', i))
      BY <1>a, <1>n, <2>1 DEF CodeInv
    <2>2. QED BY <2>1 DEF CodeInv
  <1>1. CASE attempts' = attempts
    BY <1>1 DEF CodeInv, N
  <1>2. CASE Reject
    <2> DEFINE a == [kind |-> "agent_fixable", proxy |-> None, workspace |-> FALSE,
                     code |-> CarriedCode]
    <2>1. attempts' = Append(attempts, a) /\ ~a.workspace /\ a.code = CarriedCode
      BY <1>2 DEF Reject
    <2> HIDE DEF a
    <2>2. WrittenUpTo(attempts', N + 1) = WrittenUpTo(attempts, N)
      BY <1>a, <2>1
    <2>3. CarriedCode = LastOf(WrittenUpTo(attempts, N))
      <3>1. CASE N = 0
        <4>1. WrittenUpTo(attempts, N) = {}
          BY <1>t, <3>1 DEF WrittenUpTo
        <4>2. QED BY <3>1, <4>1 DEF CarriedCode, LastOf
      <3>2. CASE N # 0
        <4>1. N \in 1..N
          BY <1>t, <3>2
        <4>2. QED BY <3>2, <4>1 DEF CodeInv, CarriedCode, Tip
      <3>3. QED BY <3>1, <3>2
    <2>4. QED BY <1>n, <2>1, <2>2, <2>3
  <1>3. CASE Record
    <2> DEFINE a == [kind |-> fb.kind, proxy |-> fb.proxy, workspace |-> TRUE, code |-> This]
               W == WrittenUpTo(attempts', N + 1)
    <2>1. attempts' = Append(attempts, a) /\ a.workspace /\ a.code = N + 1
      BY <1>3 DEF Record, This
    <2> HIDE DEF a
    <2>2. W = WrittenUpTo(attempts, N) \cup {N + 1}
      BY <1>a, <2>1
    <2>3. \A i \in W : i \in Nat /\ i <= N + 1
      BY <1>t, <2>2 DEF WrittenUpTo
    <2> HIDE DEF W
    <2>4. LastOf(W) = N + 1
      <3> DEFINE m == CHOOSE i \in W : \A j \in W : j <= i
      <3>1. N + 1 \in W /\ \A j \in W : j <= N + 1
        BY <2>2, <2>3
      <3>2. m \in W /\ \A j \in W : j <= m
        BY <3>1
      <3>3. LastOf(W) = m
        BY <3>1 DEF LastOf
      <3> HIDE DEF m
      <3>4. m \in Nat /\ m <= N + 1 /\ N + 1 <= m
        BY <2>3, <3>1, <3>2
      <3>5. QED BY <1>t, <3>3, <3>4
    <2>5. QED BY <1>n, <2>1, <2>4 DEF W
  <1>4. QED BY <1>1, <1>2, <1>3, ChainSteps

LEMMA CodeInvariant == Spec => []CodeInv
  <1>1. Init => CodeInv
    BY DEF Init, CodeInv, N
  <1>2. LoopInv => TypeOK
    BY DEF LoopInv
  <1>3. QED BY <1>1, <1>2, LoopTypeInvariant, CodeStep, PTL DEF Spec

\* However many replies are rejected in a row, a prompt shows code that exists: the
\* attempt it improves or debugs carries the code that was written last in the
\* chain that leads to it (loop.py _reject and next_prompt).
THEOREM PromptsShowLastCode == Spec => []PromptShowsLastCode
  <1>1. ASSUME LoopInv, ChainInv, MoveInv, CodeInv PROVE PromptShowsLastCode
    <2>1. SUFFICES ASSUME pc \in {"call", "reply"}, move # "draft"
                   PROVE  attempts[base].code =
                            LastOf({i \in 1..N : attempts[i].workspace /\ i <= base})
      BY DEF PromptShowsLastCode, LastOf
    <2>2. /\ N > 0
          /\ move = "improve" => Tip.kind = "success" /\ base = ImproveBase
          /\ move # "improve" => base = N
      BY <1>1, <2>1 DEF MoveInv
    <2>3. base \in 1..N
      <3>1. N \in Nat
        BY <1>1 DEF LoopInv, TypeOK, N
      <3>2. QED BY <1>1, <2>2, <3>1, ImproveBaseIsBest
    <2>4. WrittenUpTo(attempts, base) = {i \in 1..N : attempts[i].workspace /\ i <= base}
      BY DEF WrittenUpTo, N
    <2>5. QED BY <1>1, <2>3, <2>4 DEF CodeInv
  <1>2. QED BY <1>1, LoopTypeInvariant, ChainInvariant, MoveInvariant, CodeInvariant, PTL

----------------------------------------------------------------------------
(* The outcome of a run. *)

\* An evaluation that scored is one event, and becomes the proxy of its attempt,
\* unless the process ends between the two.
EvalInv ==
    /\ \A e \in Events("public_eval") :
          /\ e.attempt \in 1..This /\ e.value \in Int
          /\ e.attempt = This =>
                /\ pc \in {"record", "raised", "killed"}
                /\ pc = "record" => fb.proxy = ProxyOf(e.value)
          /\ e.attempt <= N => attempts[e.attempt].proxy = ProxyOf(e.value)
    /\ \A i \in 1..N : attempts[i].proxy # None =>
          \E e \in Events("public_eval") : e.attempt = i
    /\ pc = "record" /\ fb.proxy # None =>
          \E e \in Events("public_eval") : e.attempt = This

LEMMA EvalStep ==
    TypeOK /\ TypeOK' /\ EvalInv /\ [Next]_vars => EvalInv'
  <1> SUFFICES ASSUME TypeOK, TypeOK', EvalInv, [Next]_vars PROVE EvalInv'
    OBVIOUS
  <1> DEFINE evals == Events("public_eval")
  <1>t. attempts \in Seq(Attempt) /\ N = Len(attempts) /\ N' = Len(attempts') /\ N \in Nat
        /\ This = N + 1 /\ This' = N' + 1
    BY DEF TypeOK, N, This
  <1>1. \A e \in evals :
           /\ e.attempt \in Nat /\ 1 <= e.attempt /\ e.attempt <= N + 1 /\ e.value \in Int
           /\ e.attempt = This =>
                 /\ pc \in {"record", "raised", "killed"}
                 /\ pc = "record" => fb.proxy = ProxyOf(e.value)
           /\ e.attempt <= N => attempts[e.attempt].proxy = ProxyOf(e.value)
    BY <1>t DEF EvalInv
  <1>2. /\ \A i \in 1..N : attempts[i].proxy # None => \E e \in evals : e.attempt = i
        /\ pc = "record" /\ fb.proxy # None => \E e \in evals : e.attempt = This
    BY DEF EvalInv
  <1> HIDE DEF evals
  <1>p. ASSUME \A e \in evals' :
                  /\ e.attempt \in Nat /\ 1 <= e.attempt /\ e.attempt <= N' + 1 /\ e.value \in Int
                  /\ e.attempt = This' =>
                        /\ pc' \in {"record", "raised", "killed"}
                        /\ pc' = "record" => fb'.proxy = ProxyOf(e.value)
                  /\ e.attempt <= N' => attempts'[e.attempt].proxy = ProxyOf(e.value),
               \A i \in 1..N' : attempts'[i].proxy # None => \E e \in evals' : e.attempt = i,
               pc' = "record" /\ fb'.proxy # None => \E e \in evals' : e.attempt = This'
        PROVE  EvalInv'
    <2>1. N' \in Nat
      BY DEF TypeOK, N
    <2>2. \A e \in evals' : e.attempt \in 1..This'
      BY <1>p, <1>t, <2>1
    <2>3. QED BY <1>p, <2>2 DEF EvalInv, evals
  \* A step that neither evaluates nor records.
  <1>u. ASSUME attempts' = attempts, evals' = evals,
               pc \in {"record", "raised", "killed"} =>
                  pc' \in {"raised", "killed"} \/ UNCHANGED <<pc, fb>>,
               pc' = "record" => UNCHANGED <<pc, fb>> \/ fb'.proxy = None
        PROVE  EvalInv'
    <2>1. N' = N /\ This' = This
      BY <1>t, <1>u
    <2>2. QED BY <1>1, <1>2, <1>p, <1>u, <2>1
  \* A recorded attempt takes the evaluation of its own turn along.
  <1>a. ASSUME NEW a, attempts' = Append(attempts, a), evals' = evals, pc' = "head",
               a.proxy # None => pc = "record",
               pc = "record" => a.proxy = fb.proxy,
               pc \notin {"raised", "killed"}
        PROVE  EvalInv'
    <2>1. /\ N' = N + 1 /\ attempts'[N + 1] = a
          /\ \A i \in 1..N : attempts'[i] = attempts[i]
          /\ \A i \in 1..N' : i \in 1..N \/ i = N + 1
      BY <1>a, <1>t
    <2>2. \A e \in evals :
             /\ e.attempt # This' /\ e.attempt <= N' + 1
             /\ e.attempt <= N' => attempts'[e.attempt].proxy = ProxyOf(e.value)
      <3> TAKE e \in evals
      <3>1. CASE e.attempt <= N
        <4>1. e.attempt \in 1..N
          BY <1>1, <1>t, <3>1
        <4>2. attempts[e.attempt].proxy = ProxyOf(e.value)
          BY <1>1, <3>1
        <4>3. QED BY <1>1, <1>t, <2>1, <4>1, <4>2
      <3>2. CASE e.attempt = N + 1
        <4>1. pc = "record" /\ fb.proxy = ProxyOf(e.value)
          BY <1>1, <1>a, <1>t, <3>2
        <4>2. QED BY <1>a, <1>t, <2>1, <3>2, <4>1
      <3>3. QED BY <1>1, <1>t, <3>1, <3>2
    <2>3. \A i \in 1..N' : attempts'[i].proxy # None => \E e \in evals : e.attempt = i
      <3> TAKE i \in 1..N'
      <3>1. CASE i \in 1..N
        BY <1>2, <2>1, <3>1
      <3>2. CASE i = N + 1
        BY <1>2, <1>a, <1>t, <2>1, <3>2
      <3>3. QED BY <2>1, <3>1, <3>2
    <2>4. QED BY <1>1, <1>a, <1>p, <2>2, <2>3
  <1>3. CASE Silent
    <2>1. attempts' = attempts /\ evals' = evals
      BY <1>3, SilentStep DEF evals
    <2>2. pc \in {"record", "raised", "killed"} =>
             pc' \in {"raised", "killed"} \/ UNCHANGED <<pc, fb>>
      BY <1>3 DEF Silent, Open, LoopEnds, NextMove, CallOverflows, CallFails, Sleep, Execute,
         EvalFails, Grade, Raise, Killed, vars
    <2>3. pc' = "record" => UNCHANGED <<pc, fb>> \/ fb'.proxy = None
      BY <1>3 DEF Silent, Open, LoopEnds, NextMove, CallOverflows, CallFails, Sleep, Execute,
         EvalFails, Grade, Raise, Killed, vars, Failure
    <2>4. QED BY <1>u, <2>1, <2>2, <2>3
  <1>4. ASSUME NEW cost \in Costs, CallReturns(cost) PROVE EvalInv'
    BY <1>4, <1>u, CallLogs DEF CallReturns, evals
  <1>5. CASE Write
    BY <1>5, <1>u, ReplyLogs DEF Write, evals
  <1>6. CASE Seal
    BY <1>6, <1>u, SealLogs DEF Seal, evals
  <1>7. CASE Reject
    <2> DEFINE a == [kind |-> "agent_fixable", proxy |-> None, workspace |-> FALSE,
                     code |-> CarriedCode]
    <2>1. attempts' = Append(attempts, a) /\ a.proxy = None /\ pc = "reply" /\ pc' = "head"
      BY <1>7 DEF Reject
    <2> HIDE DEF a
    <2>2. evals' = evals
      BY <1>7, ReplyLogs DEF evals
    <2>3. QED BY <1>a, <2>1, <2>2
  <1>8. CASE Record
    <2> DEFINE a == [kind |-> fb.kind, proxy |-> fb.proxy, workspace |-> TRUE, code |-> This]
    <2>1. /\ attempts' = Append(attempts, a) /\ a.proxy = fb.proxy
          /\ pc = "record" /\ pc' = "head"
      BY <1>8 DEF Record
    <2> HIDE DEF a
    <2>2. evals' = evals
      BY <1>8, RecordLogs DEF evals
    <2>3. QED BY <1>a, <2>1, <2>2
  <1>9. ASSUME NEW v \in Values, EvalScores(v) PROVE EvalInv'
    <2>1. /\ pc = "evaluate" /\ pc' = "record" /\ fb'.proxy = ProxyOf(v) /\ attempts' = attempts
      BY <1>9 DEF EvalScores
    <2>2. PICK d : evals' = evals \cup {d} /\ d.attempt = This /\ d.value = v
      <3> DEFINE r == [type |-> "public_eval", attempt |-> This, value |-> v]
      <3>1. evals' = evals \cup {r} /\ r.attempt = This /\ r.value = v
        BY <1>9, EvalLogs DEF evals
      <3> HIDE DEF r
      <3>2. QED BY <3>1
    <2>3. N' = N /\ This' = This /\ v \in Int
      BY <1>t, <2>1, BudgetTypes
    <2>4. \A e \in evals' :
             /\ e.attempt \in Nat /\ 1 <= e.attempt /\ e.attempt <= N + 1 /\ e.value \in Int
             /\ e.attempt = This => e.value = v
             /\ e.attempt <= N => attempts[e.attempt].proxy = ProxyOf(e.value)
      BY <1>1, <1>t, <2>1, <2>2, <2>3
    <2>5. QED BY <1>2, <1>p, <2>1, <2>2, <2>3, <2>4
  <1>10. CASE Discard
    <2>1. pc' = "done" /\ trace' = <<>> /\ attempts' = attempts /\ N = 0
      BY <1>10 DEF Discard
    <2>2. evals' = {}
      BY <2>1 DEF evals, Events, ToSet
    <2>3. N' = 0
      BY <2>1 DEF N
    <2>4. QED BY <1>p, <2>1, <2>2, <2>3
  <1>11. QED BY <1>3, <1>4, <1>5, <1>6, <1>7, <1>8, <1>9, <1>10, NextSplit

LEMMA EvalInvariant == Spec => []EvalInv
  <1>1. ASSUME Init PROVE EvalInv
    <2>1. trace = <<>> /\ N = 0 /\ pc = "start"
      BY <1>1 DEF Init, N
    <2>2. Events("public_eval") = {}
      BY <2>1 DEF Events, ToSet
    <2>3. QED BY <2>1, <2>2 DEF EvalInv
  <1>2. LoopInv => TypeOK
    BY DEF LoopInv
  <1>3. QED BY <1>1, <1>2, LoopTypeInvariant, EvalStep, PTL DEF Spec

\* Only a sealed run has an outcome, and it is that of the whole chain.
OutcomeInv ==
    /\ pc # "done" => Events("final_outcome") = {}
    /\ pc = "seal" => graded = BestAttempt
    /\ \A e \in Events("final_outcome") :
          /\ e.attempt = N /\ e.best = BestAttempt /\ graded = BestAttempt
          /\ e.proxy = IF BestAttempt = 0 THEN None ELSE attempts[BestAttempt].proxy

LEMMA OutcomeStep ==
    TypeOK /\ TypeOK' /\ OutcomeInv /\ [Next]_vars => OutcomeInv'
  <1> SUFFICES ASSUME TypeOK, TypeOK', OutcomeInv, [Next]_vars PROVE OutcomeInv'
    OBVIOUS
  \* A step that goes on with the run.
  <1>g. ASSUME pc # "done", UNCHANGED Events("final_outcome"),
               pc' = "seal" => graded' = BestAttempt'
        PROVE  OutcomeInv'
    BY <1>g DEF OutcomeInv
  <1>1. CASE UNCHANGED vars
    <2>1. UNCHANGED <<Events("final_outcome"), BestAttempt, N, pc, graded, attempts>>
      BY <1>1, SilentStep DEF Silent, vars
    <2>2. QED BY <2>1 DEF OutcomeInv
  <1>2. CASE Silent /\ ~UNCHANGED vars
    <2>1. pc # "done" /\ UNCHANGED Events("final_outcome") /\ BestAttempt' = BestAttempt
      BY <1>2, SilentStep DEF Silent, Open, LoopEnds, NextMove, CallOverflows, CallFails, Sleep,
         Execute, EvalFails, Grade, Raise, Killed
    <2>2. pc' = "seal" => graded' = BestAttempt
      BY <1>2 DEF Silent, Open, LoopEnds, NextMove, CallOverflows, CallFails, Sleep,
         Execute, EvalFails, Grade, Raise, Killed
    <2>3. QED BY <1>g, <2>1, <2>2
  <1>3. ASSUME NEW cost \in Costs, CallReturns(cost) PROVE OutcomeInv'
    BY <1>3, <1>g, CallLogs DEF CallReturns
  <1>4. CASE Reject \/ Write
    BY <1>4, <1>g, ReplyLogs DEF Reject, Write
  <1>5. ASSUME NEW v \in Values, EvalScores(v) PROVE OutcomeInv'
    BY <1>5, <1>g, EvalLogs DEF EvalScores
  <1>6. CASE Record
    BY <1>6, <1>g, RecordLogs DEF Record
  <1>7. CASE Discard
    <2>1. pc' = "done" /\ trace' = <<>>
      BY <1>7 DEF Discard
    <2>2. Events("final_outcome")' = {}
      BY <2>1 DEF Events, ToSet
    <2>3. QED BY <2>1, <2>2 DEF OutcomeInv
  <1>8. CASE Seal
    <2>1. pc = "seal" /\ pc' = "done" /\ UNCHANGED <<attempts, graded>>
      BY <1>8 DEF Seal
    <2>2. N' = N /\ BestAttempt' = BestAttempt /\ graded = BestAttempt
      <3>1. N' = N /\ BestAttempt' = BestAttempt
        BY <2>1 DEF N, BestAttempt, Scored
      <3>2. QED BY <2>1, <3>1 DEF OutcomeInv
    <2>3. Events("final_outcome") = {}
      BY <2>1 DEF OutcomeInv
    <2>4. \A e \in Events("final_outcome")' :
             /\ e.attempt = N /\ e.best = BestAttempt
             /\ e.proxy = IF BestAttempt = 0 THEN None ELSE attempts[BestAttempt].proxy
      BY <1>8, <2>3, SealLogs
    <2>5. QED BY <2>1, <2>2, <2>4 DEF OutcomeInv
  <1>9. QED BY <1>1, <1>2, <1>3, <1>4, <1>5, <1>6, <1>7, <1>8, NextSplit

LEMMA OutcomeInvariant == Spec => []OutcomeInv
  <1>1. ASSUME Init PROVE OutcomeInv
    <2>1. trace = <<>> /\ pc = "start"
      BY <1>1 DEF Init
    <2>2. Events("final_outcome") = {}
      BY <2>1 DEF Events, ToSet
    <2>3. QED BY <2>1, <2>2 DEF OutcomeInv
  <1>2. LoopInv => TypeOK
    BY DEF LoopInv
  <1>3. QED BY <1>1, <1>2, LoopTypeInvariant, OutcomeStep, PTL DEF Spec

\* However a run goes, the outcome it logs, the attempt it grades and the line the
\* episode writer makes of its trace name the same best attempt with the same
\* score (loop.py finalise and _best_attempt, writer.py best_line).
THEOREM OutcomeIsBestLine == Spec => []FooterAgrees
  <1>1. ASSUME ChainInv, OutcomeInv PROVE FooterAgrees
    <2>1. BestLine = LineOf(attempts) /\ BestAttempt = BestIn(attempts)
      BY <1>1, BestIsBestIn DEF ChainInv
    <2>2. QED BY <1>1, <2>1 DEF FooterAgrees, OutcomeInv, LineOf
  <1>2. QED BY <1>1, ChainInvariant, OutcomeInvariant, PTL

\* For either direction of the problem, the graded attempt has the best official
\* value of all that were evaluated in the run's chain (loop.py apply_public_eval,
\* _best_attempt and finalise).
THEOREM GradedIsOfficialBest == Spec => []GradesOfficialBest
  <1>1. ASSUME LoopInv, EvalInv, OutcomeInv PROVE GradesOfficialBest
    <2> SUFFICES ASSUME NEW e \in Events("final_outcome")
                 PROVE  LET evals == {v \in Events("public_eval") : v.attempt <= e.attempt} IN
                        IF evals = {} THEN graded = 0
                        ELSE \E v \in evals :
                                /\ v.attempt = graded
                                /\ \A w \in evals :
                                      IF HigherBetter THEN w.value <= v.value
                                      ELSE v.value <= w.value
      BY DEF GradesOfficialBest
    <2> DEFINE evals == {v \in Events("public_eval") : v.attempt <= e.attempt}
               b == BestIn(attempts)
    <2>1. e.attempt = N /\ graded = b
      BY <1>1, BestIsBestIn DEF OutcomeInv
    <2>2. /\ attempts \in Seq(Attempt) /\ HasBest(attempts) /\ N = Len(attempts) /\ N \in Nat
          /\ None \notin Int
      BY <1>1, ValuesAssumption DEF LoopInv, TypeOK, N
    <2>3. \A v \in evals :
             /\ v.attempt \in ScoredIn(attempts) /\ v.value \in Int
             /\ attempts[v.attempt].proxy = ProxyOf(v.value)
      <3> TAKE v \in evals
      <3>1. v.attempt \in 1..N /\ v.value \in Int
            /\ attempts[v.attempt].proxy = ProxyOf(v.value)
        BY <1>1, <2>1, <2>2 DEF EvalInv, This
      <3>2. ProxyOf(v.value) \in Int
        BY <3>1 DEF ProxyOf
      <3>3. QED BY <2>2, <3>1, <3>2 DEF ScoredIn
    <2>4. \A i \in ScoredIn(attempts) : \E v \in evals : v.attempt = i
      BY <1>1, <2>1, <2>2 DEF EvalInv, ScoredIn
    <2> HIDE DEF evals, b
    <2>5. CASE evals = {}
      <3>1. b = 0
        BY <2>2, <2>4, <2>5, BestInFacts DEF b
      <3>2. QED BY <2>1, <2>5, <3>1 DEF evals
    <2>6. CASE evals # {}
      <3>1. b # 0
        BY <2>2, <2>3, <2>6, BestInFacts DEF b
      <3>2. b \in ScoredIn(attempts) /\ \A j \in ScoredIn(attempts) : Beats(attempts, b, j)
        BY <2>2, <3>1, BestInFacts DEF b
      <3>3. PICK v \in evals : v.attempt = b
        BY <2>4, <3>2
      <3>4. ASSUME NEW w \in evals
            PROVE  IF HigherBetter THEN w.value <= v.value ELSE v.value <= w.value
        <4>1. Beats(attempts, v.attempt, w.attempt)
          BY <2>3, <3>2, <3>3
        <4>2. /\ w.value \in Int /\ v.value \in Int
              /\ ProxyOf(w.value) < ProxyOf(v.value) \/ ProxyOf(w.value) = ProxyOf(v.value)
          BY <2>3, <4>1 DEF Beats
        <4>3. HigherBetter \in BOOLEAN
          BY PolicyAssumption
        <4>4. QED BY <4>2, <4>3 DEF ProxyOf
      <3>5. QED BY <2>1, <2>6, <3>3, <3>4 DEF evals
    <2>7. QED BY <2>5, <2>6 DEF evals
  <1>2. QED BY <1>1, LoopTypeInvariant, EvalInvariant, OutcomeInvariant, PTL
=============================================================================
