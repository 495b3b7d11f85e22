----------------------------- MODULE AgentLoop -----------------------------
(***************************************************************************)
(* loop.py: one run of run_task, a chain of attempts under a budget.  An   *)
(* attempt is a move, one completion, and either a rejected reply or an    *)
(* execution with its validation and public evaluation.  The trace, which  *)
(* the episode writer and the cost curves are made from, is part of the    *)
(* state; of its events those that carry moves, spend or scores are kept.  *)
(*                                                                         *)
(* A code is named by the attempt that wrote it (0 is none); text, logs,   *)
(* seconds and prompts are left out.  Providers, runners and graders are   *)
(* choices.  Attempts count from 1 here and from 0 in the code.            *)
(***************************************************************************)
EXTENDS Integers, Sequences, FiniteSets, SequencesExt

CONSTANTS
    Kind, Limit,        \* the budget's axis and its limit
    Policy,             \* branch_policy
    HigherBetter,       \* the problem's direction
    Costs,              \* total_tokens of a completion
    Values,             \* official values of a valid submission
    RetryWall,          \* rounds of sleep that fit into llm_retry_wall_s
    None

ASSUME BudgetAssumption == Kind \in {"tokens", "attempts"} /\ Limit \in Nat \ {0}
ASSUME PolicyAssumption == Policy \in {"best", "last"} /\ HigherBetter \in BOOLEAN
ASSUME CostsAssumption == Costs # {} /\ Costs \subseteq Nat \ {0} /\ IsFiniteSet(Costs)
ASSUME ValuesAssumption == Values \subseteq Int /\ None \notin Int
ASSUME WallAssumption == RetryWall \in Nat

VARIABLES
    pc,
    spent,      \* Budget.spent, by axis
    attempts,   \* the chain: kind, proxy, workspace (was code written), code
    move, base, \* next_move: what to do and the attempt it branches from
    fb,         \* the feedback on its way to record_attempt
    rounds,     \* time in call_llm's retry loop, in sleeps
    infra,      \* infra_failure is set
    trace,
    graded,     \* the attempt whose submission was graded held out
    manifest    \* its status; "none" before TraceWriter and after discard

vars == <<pc, spent, attempts, move, base, fb, rounds, infra, trace, graded, manifest>>

Moves == {"draft", "improve", "debug:code", "debug:formatting"}
Feedback == [kind : {"success", "agent_fixable"}, proxy : Int \cup {None}]
Attempt == [kind : {"success", "agent_fixable"}, proxy : Int \cup {None},
            workspace : BOOLEAN, code : Nat]
Failure == [kind |-> "agent_fixable", proxy |-> None]
SpentType == [tokens : Nat, attempts : Nat]

Event ==
    [type : {"llm_call"}, attempt : Nat, move : Moves, base : Nat, tokens : Nat]
    \cup [type : {"code_written"}, attempt : Nat, move : Moves, parent : Nat, incumbent : Nat]
    \cup [type : {"public_eval"}, attempt : Nat, value : Int]
    \cup [type : {"execution_result"}, attempt : Nat,
          kind : {"success", "agent_fixable", "rejected"}]
    \cup [type : {"score"}, attempt : Nat, proxy : Int \cup {None}, spent : SpentType]
    \cup [type : {"final_outcome"}, attempt : Nat, best : Nat, proxy : Int \cup {None},
          spent : SpentType]

Init ==
    /\ pc = "start"
    /\ spent = [tokens |-> 0, attempts |-> 0]
    /\ attempts = <<>>
    /\ move = "draft" /\ base = 0
    /\ fb = Failure
    /\ rounds = 0
    /\ infra = FALSE
    /\ trace = <<>>
    /\ graded = 0
    /\ manifest = "none"

----------------------------------------------------------------------------
(* Budget and selection. *)

\* Wrong variant: one attempt too many.
ExhaustedLate(s) == s[Kind] > Limit

Exhausted(s) == s[Kind] >= Limit

\* Wrong variant: the snapshot is taken before the attempt is charged.
StaleSnapshot == spent

Snapshot == spent'

\* Wrong variant: a rejected reply is not told from a failed execution.
MoveAfterAny(prev) == IF prev.kind = "success" THEN "improve" ELSE "debug:code"

\* _history_entries derives each attempt's move again from the attempt before it.
MoveAfter(prev) ==
    IF prev.kind = "success" THEN "improve"
    ELSE IF prev.workspace THEN "debug:code" ELSE "debug:formatting"

HistoryMove(i) == IF i = 1 THEN "draft" ELSE MoveAfter(attempts[i - 1])

N == Len(attempts)
This == N + 1           \* the attempt under way
Tip == attempts[N]

\* Wrong variant: the code of a rejected turn is lost.
NoCode == 0

\* A rejected reply carries on the code of the attempt before it.
CarriedCode == IF N = 0 THEN 0 ELSE Tip.code

Scored == {i \in 1..N : attempts[i].proxy # None}

\* Wrong variant: the latest of equals.
LatestBest ==
    IF Scored = {} THEN 0
    ELSE CHOOSE i \in Scored : \A j \in Scored :
            attempts[j].proxy < attempts[i].proxy
            \/ (attempts[j].proxy = attempts[i].proxy /\ j <= i)

\* Max proxy, earliest on ties; 0 if nothing scored.
BestAttempt ==
    IF Scored = {} THEN 0
    ELSE CHOOSE i \in Scored : \A j \in Scored :
            attempts[j].proxy < attempts[i].proxy
            \/ (attempts[j].proxy = attempts[i].proxy /\ i <= j)

\* Wrong variant: the policy is not asked.
AlwaysBest == BestAttempt

ImproveBase == IF Policy = "best" /\ BestAttempt # 0 THEN BestAttempt ELSE N

\* Wrong variant: the attempt under way.
DebugsThis == This

DebugBase == N

\* Wrong variant: a value to be minimised is maximised.
RawProxy(v) == v

ProxyOf(v) == IF HigherBetter THEN v ELSE -v

Emit(e) == trace' = Append(trace, e)

----------------------------------------------------------------------------
(* The loop. *)

Open ==
    /\ pc = "start" /\ pc' = "head"
    /\ manifest' = "running"
    /\ UNCHANGED <<spent, attempts, move, base, fb, rounds, infra, trace, graded>>

LoopEnds ==
    /\ pc = "head" /\ Exhausted(spent) /\ pc' = "grade"
    /\ UNCHANGED <<spent, attempts, move, base, fb, rounds, infra, trace, graded, manifest>>

\* next_move, then retrieve and next_prompt, which change nothing here.
NextMove ==
    /\ pc = "head" /\ ~Exhausted(spent) /\ pc' = "call"
    /\ \/ N = 0 /\ move' = "draft" /\ base' = 0
       \/ /\ N > 0 /\ Tip.kind = "success" /\ move' = "improve"
          /\ base' = ImproveBase
       \/ /\ N > 0 /\ Tip.kind # "success" /\ base' = DebugBase
          /\ move' = IF Tip.workspace THEN "debug:code" ELSE "debug:formatting"
    /\ rounds' = 0
    /\ UNCHANGED <<spent, attempts, fb, infra, trace, graded, manifest>>

\* A completion is charged, then logged.
CallReturns(cost) ==
    /\ pc = "call" /\ pc' = "reply"
    /\ spent' = [spent EXCEPT !.tokens = @ + cost]
    /\ Emit([type |-> "llm_call", attempt |-> This, move |-> move, base |-> base,
             tokens |-> cost])
    /\ UNCHANGED <<attempts, move, base, fb, rounds, infra, graded, manifest>>

\* Wrong variant: the loop is left, but not as a failure.
OverflowBreaks ==
    /\ pc = "call" /\ pc' = "grade"
    /\ UNCHANGED <<spent, attempts, move, base, fb, rounds, infra, trace, graded, manifest>>

CallOverflows ==
    /\ pc = "call" /\ pc' = "grade"
    /\ infra' = TRUE
    /\ UNCHANGED <<spent, attempts, move, base, fb, rounds, trace, graded, manifest>>

\* Any other failure is retried until the wall, uncharged.
CallFails ==
    /\ pc = "call"
    /\ \/ rounds < RetryWall /\ pc' = "sleep" /\ UNCHANGED infra
       \/ rounds = RetryWall /\ pc' = "grade" /\ infra' = TRUE
    /\ UNCHANGED <<spent, attempts, move, base, fb, rounds, trace, graded, manifest>>

\* The sleep and the failed call take at least one unit of the wall.
Sleep ==
    /\ pc = "sleep" /\ pc' = "call" /\ rounds' \in (rounds + 1)..RetryWall
    /\ UNCHANGED <<spent, attempts, move, base, fb, infra, trace, graded, manifest>>

\* No code, a malformed tool call or a code over budget: the turn is charged and
\* the code carried on; there is no score event.
Reject ==
    /\ pc = "reply" /\ pc' = "head"
    /\ spent' = [spent EXCEPT !.attempts = @ + 1]
    /\ Emit([type |-> "execution_result", attempt |-> This, kind |-> "rejected"])
    /\ attempts' = Append(attempts,
            [kind |-> "agent_fixable", proxy |-> None, workspace |-> FALSE,
             code |-> CarriedCode])
    /\ UNCHANGED <<move, base, fb, rounds, infra, graded, manifest>>

Write ==
    /\ pc = "reply" /\ pc' = "execute"
    /\ Emit([type |-> "code_written", attempt |-> This, move |-> move,
             parent |-> base, incumbent |-> BestAttempt])
    /\ UNCHANGED <<spent, attempts, move, base, fb, rounds, infra, graded, manifest>>

\* execute, classify and check_submission: any failure is the agent's.
Execute ==
    /\ pc = "execute"
    /\ \/ pc' = "record" /\ fb' = Failure
       \/ pc' = "evaluate" /\ UNCHANGED fb
    /\ UNCHANGED <<spent, attempts, move, base, rounds, infra, trace, graded, manifest>>

EvalScores(v) ==
    /\ pc = "evaluate" /\ pc' = "record"
    /\ fb' = [kind |-> "success", proxy |-> ProxyOf(v)]
    /\ Emit([type |-> "public_eval", attempt |-> This, value |-> v])
    /\ UNCHANGED <<spent, attempts, move, base, rounds, infra, graded, manifest>>

\* An invalid score is the agent's; an infra fault ends the run, and the attempt
\* is neither charged nor recorded.
EvalFails ==
    /\ pc = "evaluate"
    /\ \/ pc' = "record" /\ fb' = Failure /\ UNCHANGED infra
       \/ pc' = "grade" /\ infra' = TRUE /\ UNCHANGED fb
    /\ UNCHANGED <<spent, attempts, move, base, rounds, trace, graded, manifest>>

Record ==
    /\ pc = "record" /\ pc' = "head"
    /\ spent' = [spent EXCEPT !.attempts = @ + 1]
    /\ trace' = trace \o
         <<[type |-> "execution_result", attempt |-> This, kind |-> fb.kind],
           [type |-> "score", attempt |-> This, proxy |-> fb.proxy, spent |-> Snapshot]>>
    /\ attempts' = Append(attempts, [kind |-> fb.kind, proxy |-> fb.proxy,
                                     workspace |-> TRUE, code |-> This])
    /\ UNCHANGED <<move, base, fb, rounds, infra, graded, manifest>>

----------------------------------------------------------------------------
(* finalise, and what ends a run early. *)

\* The best attempt is graded held out; a grader that crashes is infra.
Grade ==
    /\ pc = "grade" /\ pc' = "seal"
    /\ graded' = BestAttempt
    /\ infra' \in IF BestAttempt = 0 THEN {infra} ELSE {infra, TRUE}
    /\ UNCHANGED <<spent, attempts, move, base, fb, rounds, trace, manifest>>

Discard ==
    /\ pc = "seal" /\ infra /\ N = 0 /\ pc' = "done"
    /\ manifest' = "none" /\ trace' = <<>>
    /\ UNCHANGED <<spent, attempts, move, base, fb, rounds, infra, graded>>

Seal ==
    /\ pc = "seal" /\ ~(infra /\ N = 0) /\ pc' = "done"
    /\ manifest' = IF infra THEN "failed" ELSE "ok"
    /\ Emit([type |-> "final_outcome", attempt |-> N, best |-> BestAttempt,
             proxy |-> IF BestAttempt = 0 THEN None ELSE attempts[BestAttempt].proxy,
             spent |-> spent])
    /\ UNCHANGED <<spent, attempts, move, base, fb, rounds, infra, graded>>

\* An exception leaves the with block, which seals the run as failed: retrieval,
\* the file system, the runner or an evaluation raises, or an llm_call cannot be
\* written as JSON.  What the step charges may be charged by then.
ChargedBy(step) ==
    IF step = "call" THEN {[spent EXCEPT !.tokens = @ + k] : k \in Costs}
    ELSE IF step \in {"reply", "record"} THEN {[spent EXCEPT !.attempts = @ + 1]}
    ELSE {}

Raise ==
    /\ pc \in {"call", "reply", "execute", "evaluate", "record", "seal"}
    /\ spent' \in {spent} \cup ChargedBy(pc)
    /\ pc' = "raised" /\ manifest' = "failed"
    /\ UNCHANGED <<attempts, move, base, fb, rounds, infra, trace, graded>>

\* The driver, or somebody else, kills the process: nothing is sealed.
Killed ==
    /\ pc \notin {"start", "done", "raised", "killed"} /\ pc' = "killed"
    /\ UNCHANGED <<spent, attempts, move, base, fb, rounds, infra, trace, graded, manifest>>

----------------------------------------------------------------------------

Finished == pc \in {"done", "raised", "killed"}

Step ==
    \/ Open \/ LoopEnds \/ NextMove
    \/ \E cost \in Costs : CallReturns(cost)
    \/ CallOverflows \/ CallFails \/ Sleep
    \/ Reject \/ Write \/ Execute \/ EvalFails
    \/ \E v \in Values : EvalScores(v)
    \/ Record \/ Grade \/ Discard \/ Seal \/ Raise

Next == Step \/ Killed \/ (Finished /\ UNCHANGED vars)

Spec == Init /\ [][Next]_vars

----------------------------------------------------------------------------
(* What the readers of a trace make of it. *)

Events(type) == {e \in ToSet(trace) : e.type = type}

\* writer.best_line: the first score event above all before it.
NoBest == [attempt |-> 0, proxy |-> None]

BestAfter(best, e) ==
    IF e.type = "score" /\ e.proxy # None /\ (best.attempt = 0 \/ e.proxy > best.proxy)
    THEN [attempt |-> e.attempt, proxy |-> e.proxy] ELSE best

BestLines(t) ==
    LET best[i \in 0..Len(t)] == IF i = 0 THEN NoBest ELSE BestAfter(best[i - 1], t[i])
    IN best

BestLine == BestLines(trace)[Len(trace)]

\* The tokens and the attempts of the first n events, as a reader adds them up.
TokensOf(e) == IF e.type = "llm_call" THEN e.tokens ELSE 0

TokensLogged(t) ==
    LET sum[i \in 0..Len(t)] == IF i = 0 THEN 0 ELSE sum[i - 1] + TokensOf(t[i])
    IN sum

LoggedSpend(n) ==
    [tokens |-> TokensLogged(trace)[n],
     attempts |-> Cardinality({i \in 1..n : trace[i].type = "execution_result"})]

----------------------------------------------------------------------------
(* Properties. *)

TypeOK ==
    /\ pc \in {"start", "head", "call", "sleep", "reply", "execute", "evaluate",
               "record", "grade", "seal", "done", "raised", "killed"}
    /\ spent \in SpentType
    /\ attempts \in Seq(Attempt)
    /\ move \in Moves /\ base \in 0..N
    /\ fb \in Feedback
    /\ rounds \in 0..RetryWall
    /\ infra \in BOOLEAN
    /\ trace \in Seq(Event)
    /\ graded \in 0..N
    /\ manifest \in {"none", "running", "ok", "failed"}

\* Attempts are atomic and the budget is read between them: no attempt starts on
\* a spent budget, so a run overshoots by less than one completion, and an
\* attempts budget is kept exactly; each attempt in the chain was charged once.
OvershootBounded ==
    /\ Kind = "tokens" => \E k \in Costs : spent.tokens < Limit + k
    /\ Kind = "attempts" => spent.attempts <= Limit
    /\ pc # "raised" => spent.attempts = N

\* The trace alone gives the spend, at its end and at every score event: the
\* curve of a run can be read at any smaller budget.  An exception may leave
\* one charge unlogged.
SpendIsLogged ==
    /\ pc # "raised" /\ trace # <<>> => LoggedSpend(Len(trace)) = spent
    /\ \A i \in 1..Len(trace) :
          trace[i].type \in {"score", "final_outcome"} => trace[i].spent = LoggedSpend(i)

\* Every attempt branches from where the policy says, judged by the scores in
\* the trace so far: improve from the best (or the tip), debug from a failed
\* tip, and the move shown in the history is the move that was made.
ChainFollowsPolicy ==
    /\ \A i \in 1..N : \A e \in Events("llm_call") :
          e.attempt = i => e.move = HistoryMove(i)
    /\ pc \in {"call", "reply"} =>
          /\ move = "improve" =>
                base = IF Policy = "best" THEN BestLine.attempt ELSE N
          /\ move \in {"debug:code", "debug:formatting"} =>
                base = N /\ attempts[N].proxy = None

\* The code a prompt shows is the code it talks about: the improved attempt's
\* own, or, when formatting failed, the last code that was written at all.
PromptShowsLastCode ==
    pc \in {"call", "reply"} /\ move # "draft" =>
        attempts[base].code =
            LET written == {i \in 1..N : attempts[i].workspace /\ i <= base}
            IN IF written = {} THEN 0 ELSE CHOOSE i \in written : \A j \in written : j <= i

\* The loop and the episode writer select the best attempt in two ways, from
\* the chain and from the trace: the outcome, the grade and the footer agree.
FooterAgrees ==
    \A e \in Events("final_outcome") :
        e.best = BestLine.attempt /\ e.proxy = BestLine.proxy /\ graded = e.best

\* The attempt that is graded has the best official value, in the problem's own
\* direction, of all attempts that were evaluated and recorded.
GradesOfficialBest ==
    \A e \in Events("final_outcome") :
        LET evals == {v \in Events("public_eval") : v.attempt <= e.attempt} IN
        IF evals = {} THEN graded = 0
        ELSE \E v \in evals :
                /\ v.attempt = graded
                /\ \A w \in evals :
                      IF HigherBetter THEN w.value <= v.value ELSE v.value <= w.value

\* A run that was not ended by an exception is sealed whole: it has an attempt
\* and an outcome, and it is ok exactly when it spent its budget without an
\* infra failure.  A run without attempts leaves nothing behind.
SealedWhole ==
    pc = "done" =>
        IF manifest = "none" THEN infra /\ N = 0 /\ trace = <<>>
        ELSE /\ N > 0 /\ Last(trace).type = "final_outcome"
             /\ manifest = "ok" <=> ~infra
             /\ manifest = "ok" => Exhausted(spent)
=============================================================================
