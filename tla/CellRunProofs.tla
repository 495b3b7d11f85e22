---------------------------- MODULE CellRunProofs ----------------------------
(***************************************************************************)
(* A cell with its client and its runner is a run of the agent loop, so    *)
(* that what AgentLoopProofs proves of the loop holds of the cell; and     *)
(* what the client and the runner promise by themselves.                   *)
(***************************************************************************)
EXTENDS CellRun, AgentLoopProofs

\* What the client has of the reply under way.
Reply == [from : Nat, channel : Channels]

ClientInv ==
    /\ request \in Nat /\ usage \in 0..MaxTokens
    /\ pieces \in Seq(Reply) /\ Len(pieces) <= MaxPieces
    /\ client = "request" => pieces = <<>>
    /\ client \in {"stream", "returned"} => \A i \in DOMAIN pieces : pieces[i].from = request

\* Between two attempts no leader runs, and without its leader nothing does; a
\* cell that has ended inside an attempt has condemned the leader.
RunnerInv ==
    /\ sandbox \in BOOLEAN
    /\ sandbox => /\ ~stray
                  /\ "leader" \notin alive => alive \subseteq doomed
                  /\ run \in {"idle", "returned"} => "leader" \notin alive
                  /\ pc # "execute" => "leader" \notin alive \/ "leader" \in doomed

----------------------------------------------------------------------------
(* The client. *)

LEMMA ClientNumbers ==
    /\ MaxTokens \in Nat /\ MaxPieces \in Nat
    /\ PromptTokens \in Nat /\ PromptTokens > 0
  BY ClientAssumption

LEMMA ClientStepKept ==
    ASSUME ClientInv, ClientStep
    PROVE  ClientInv'
  <1>t. /\ request \in Nat /\ usage \in 0..MaxTokens /\ 0 \in 0..MaxTokens
        /\ pieces \in Seq(Reply) /\ Len(pieces) <= MaxPieces
    BY ClientNumbers DEF ClientInv
  <1>e. <<>> \in Seq(Reply) /\ Len(<<>>) = 0 /\ DOMAIN <<>> = {}
    OBVIOUS
  <1>1. CASE RetryRequest
    BY <1>1, <1>t, <1>e, ClientNumbers DEF RetryRequest, ClientInv
  <1>2. CASE RefusedTransient \/ StreamCut
    <2>1. client' \in {"delay", "raised"} /\ UNCHANGED <<request, pieces, usage>>
      BY <1>2 DEF RefusedTransient, StreamCut, RetryOrRaise
    <2>2. QED BY <2>1, <1>t DEF ClientInv
  <1>3. CASE RefusedForGood
    BY <1>3, <1>t DEF RefusedForGood, ClientInv
  <1>4. CASE StreamOpens
    <2>1. pieces = <<>> /\ client' = "stream" /\ UNCHANGED <<request, pieces, usage>>
      BY <1>4 DEF StreamOpens, ClientInv
    <2>2. QED BY <2>1, <1>t, <1>e DEF ClientInv
  <1>5. ASSUME NEW channel \in Channels, Piece(channel) PROVE ClientInv'
    <2> DEFINE p == [from |-> request, channel |-> channel]
    <2>1. /\ pieces' = Append(pieces, p) /\ Len(pieces) < MaxPieces
          /\ client = "stream" /\ UNCHANGED <<client, request, usage>>
      BY <1>5 DEF Piece
    <2>2. p \in Reply /\ p.from = request
      BY <1>t DEF Reply
    <2>3. /\ pieces' \in Seq(Reply) /\ Len(pieces') = Len(pieces) + 1
          /\ \A i \in DOMAIN pieces' : pieces'[i] = p \/ (i \in DOMAIN pieces /\ pieces'[i] = pieces[i])
      BY <1>t, <2>1, <2>2
    <2>4. \A i \in DOMAIN pieces : pieces[i].from = request
      BY <2>1 DEF ClientInv
    <2>5. \A i \in DOMAIN pieces' : pieces'[i].from = request'
      BY <2>1, <2>2, <2>3, <2>4
    <2>6. Len(pieces') <= MaxPieces
      BY <1>t, <2>1, <2>3, ClientNumbers
    <2>7. QED BY <1>t, <2>1, <2>3, <2>5, <2>6 DEF ClientInv
  <1>6. ASSUME NEW u \in 0..MaxTokens, StreamEnds(u) PROVE ClientInv'
    <2>1. /\ client = "stream" /\ client' = "returned" /\ usage' = u
          /\ UNCHANGED <<request, pieces>>
      BY <1>6 DEF StreamEnds
    <2>2. QED BY <2>1, <1>t DEF ClientInv
  <1>7. ASSUME NEW channels \in SeqOf(Channels, MaxPieces), NEW u \in 0..MaxTokens,
               ToolAnswers(channels, u)
        PROVE  ClientInv'
    <2>1. PICK m \in 0..MaxPieces : channels \in [1..m -> Channels]
      BY <1>7 DEF SeqOf
    <2>2. /\ pieces' = [i \in 1..m |-> [from |-> request, channel |-> channels[i]]]
          /\ client' = "returned" /\ usage' = u /\ request' = request
      BY <1>7, <2>1 DEF ToolAnswers
    <2>3. \A i \in 1..m : [from |-> request, channel |-> channels[i]] \in Reply
      BY <1>t, <2>1 DEF Reply
    <2>4. pieces' \in [1..m -> Reply] /\ m \in Nat
      BY <2>1, <2>2, <2>3, ClientNumbers
    <2>5. pieces' \in Seq(Reply) /\ Len(pieces') = m
      BY <2>4
    <2>6. QED BY <1>t, <2>1, <2>2, <2>5, ClientNumbers DEF ClientInv
  <1>8. QED BY <1>1, <1>2, <1>3, <1>4, <1>5, <1>6, <1>7 DEF ClientStep

\* What a call is charged is a cost of a completion, and never nothing.
LEMMA ReplyHasACost ==
    ASSUME ClientInv
    PROVE  TotalTokens \in Costs
  <1>1. /\ usage \in 0..MaxTokens /\ Len(pieces) \in 0..MaxPieces
        /\ MaxTokens \in Nat /\ MaxPieces \in Nat /\ PromptTokens \in Nat /\ PromptTokens > 0
    BY ClientNumbers DEF ClientInv
  <1>e. Estimated \subseteq 1..Len(pieces) /\ Len(pieces) \in Nat
    BY DEF Estimated, ClientInv
  <1>f. IsFiniteSet(1..Len(pieces)) /\ Cardinality(1..Len(pieces)) = Len(pieces)
    <2>1. \A a, b \in Int : /\ IsFiniteSet(a..b)
                           /\ Cardinality(a..b) = IF a > b THEN 0 ELSE b - a + 1
      BY FS_Interval
    <2>2. QED BY <1>e, <2>1
  <1>g. IsFiniteSet(Estimated) /\ Cardinality(Estimated) <= Cardinality(1..Len(pieces))
    BY <1>e, <1>f, FS_Subset
  <1>h. Cardinality(Estimated) \in Nat
    BY <1>g, FS_CardinalityType
  <1>2. TotalTokens \in ReplyCosts
    BY <1>1, <1>f, <1>g, <1>h DEF TotalTokens, ReplyCosts
  <1>3. QED BY <1>2, CostsOfReplies

----------------------------------------------------------------------------
(* The cell is the loop. *)

LEMMA CellStepIsLoopStep ==
    ASSUME ClientInv, [CellNext]_cellVars
    PROVE  [Next]_vars
  <1>1. CASE LoopOnly
    BY <1>1 DEF LoopOnly, Next, Step
  <1>2. CASE CallStarts
    BY <1>2 DEF CallStarts, Next, Step
  <1>3. CASE CallEnds
    <2>1. CallReturns(TotalTokens) \/ CallOverflows \/ CallFails
      BY <1>3 DEF CallEnds
    <2>2. QED BY <2>1, ReplyHasACost DEF Next, Step
  <1>4. CASE ReplyRead
    BY <1>4 DEF ReplyRead, Next, Step
  <1>5. CASE AttemptEnds
    BY <1>5 DEF AttemptEnds, Next, Step
  <1>6. CASE CellRaises
    BY <1>6 DEF CellRaises, Next, Step
  <1>7. CASE CellKilled
    BY <1>7 DEF CellKilled, Next
  <1>8. CASE UNCHANGED vars
    BY <1>8
  <1>9. CASE CallGoesOn \/ AttemptStarts \/ AttemptGoesOn
    BY <1>8, <1>9 DEF CallGoesOn, AttemptStarts, AttemptGoesOn
  <1>10. QED
    BY <1>1, <1>2, <1>3, <1>4, <1>5, <1>6, <1>7, <1>8, <1>9 DEF CellNext, CellStep, cellVars

LEMMA ClientKept ==
    ASSUME ClientInv, [CellNext]_cellVars
    PROVE  ClientInv'
  <1>0. ASSUME UNCHANGED clientVars PROVE ClientInv'
    BY <1>0 DEF clientVars, ClientInv
  <1>1. ASSUME client' \in {"idle", "request"}, request' \in Nat, pieces' = <<>>, usage' = 0
        PROVE  ClientInv'
    BY <1>1, ClientNumbers DEF ClientInv
  <1>2. CASE CallStarts
    BY <1>1, <1>2 DEF CallStarts, Complete
  <1>3. CASE ReplyRead
    BY <1>1, <1>3 DEF ReplyRead, ClientIdle
  <1>4. CASE CallGoesOn
    BY <1>4, ClientStepKept DEF CallGoesOn
  <1>5. QED
    BY <1>0, <1>2, <1>3, <1>4
    DEF CellNext, CellStep, LoopOnly, CallEnds, AttemptStarts, AttemptGoesOn, AttemptEnds,
        CellRaises, CellKilled, cellVars

LEMMA ClientInvariant == CellSpec => []ClientInv
  <1>1. ASSUME CellInit PROVE ClientInv
    BY <1>1, ClientNumbers DEF CellInit, ClientInit, ClientInv
  <1>2. ClientInv /\ [CellNext]_cellVars => ClientInv'
    BY ClientKept
  <1>3. QED BY <1>1, <1>2, PTL DEF CellSpec

\* With the client's count of tokens and the runner's exit codes in place of its
\* choices the loop is still the loop: every step of the cell is one of its steps
\* or none, and a completion is charged at least one token (llm.py total_tokens).
THEOREM CellImplementsLoop == CellSpec => ImplementsLoop
  <1>1. CellInit => Init
    BY DEF CellInit
  <1>2. ClientInv /\ [CellNext]_cellVars => [Next]_vars
    BY CellStepIsLoopStep
  <1>3. QED BY <1>1, <1>2, ClientInvariant, PTL DEF CellSpec, ImplementsLoop, Spec

\* So a cell keeps its budget, whatever its endpoint answers.
THEOREM CellKeepsBudget == CellSpec => []OvershootBounded
  BY CellImplementsLoop, BudgetIsKept DEF ImplementsLoop

\* And the run it leaves behind is whole.
THEOREM CellSealsWhole == CellSpec => []SealedWhole
  BY CellImplementsLoop, SealedRunsAreWhole DEF ImplementsLoop

\* With a client that retries, refuses and cuts streams, and a runner that leaves
\* strays, a cell's trace still accounts for its spend, its attempts branch and
\* are prompted as the policy says, and its outcome is the best that was scored.
THEOREM CellAccountsAndChooses ==
    CellSpec => [](/\ SpendIsLogged /\ ChainFollowsPolicy /\ PromptShowsLastCode
                   /\ FooterAgrees /\ GradesOfficialBest)
  BY CellImplementsLoop, SpendIsInTheTrace, BranchesFollowPolicy, PromptsShowLastCode,
     OutcomeIsBestLine, GradedIsOfficialBest, PTL DEF ImplementsLoop

\* No text of a stream that was cut reaches the loop (llm.py
\* retry_provider_errors around the whole of a request).
THEOREM RepliesAreWhole == CellSpec => []ReplyIsOneRequest
  <1>1. ClientInv => ReplyIsOneRequest
    BY DEF ClientInv, ReplyIsOneRequest
  <1>2. QED BY <1>1, ClientInvariant, PTL

----------------------------------------------------------------------------
(* The runner. *)

\* A process goes: without its leader what is left of the namespace is doomed.
LEMMA GoneKeeps ==
    ASSUME RunnerInv, NEW p \in Processes, Gone(p), pc' = pc
    PROVE  RunnerInv'
  <1>1. /\ alive' = alive \ {p} /\ sandbox' = sandbox /\ stray' = stray /\ run' = run
        /\ doomed' = IF p = "leader" THEN (doomed \cup Condemned) \ {p} ELSE doomed \ {p}
    BY DEF Gone
  <1>2. CASE ~sandbox
    BY <1>1, <1>2 DEF RunnerInv
  <1>3. CASE sandbox /\ p = "leader"
    BY <1>1, <1>3 DEF RunnerInv, Condemned
  <1>4. CASE sandbox /\ p # "leader"
    BY <1>1, <1>4 DEF RunnerInv
  <1>5. QED BY <1>2, <1>3, <1>4 DEF RunnerInv

LEMMA AgentKeeps ==
    ASSUME RunnerInv, AgentStep \/ KernelStep, pc' = pc
    PROVE  RunnerInv'
  <1>1. ASSUME NEW p \in Processes, Spawns(p) PROVE RunnerInv'
    <2>1. /\ p # "leader" /\ alive' = alive \cup {p} /\ Forking # {}
          /\ UNCHANGED <<sandbox, stray, run, doomed>>
      BY <1>1 DEF Spawns
    <2>2. sandbox => "leader" \in alive
      BY <2>1 DEF Forking, RunnerInv
    <2>3. QED BY <2>1, <2>2 DEF RunnerInv
  <1>2. ASSUME NEW p \in Processes, ClosesPipes(p) PROVE RunnerInv'
    BY <1>2 DEF ClosesPipes, RunnerInv
  <1>3. ASSUME NEW p \in Processes, Exits(p) \/ Dies(p) PROVE RunnerInv'
    BY <1>3, GoneKeeps DEF Exits, Dies
  <1>4. QED BY <1>1, <1>2, <1>3 DEF AgentStep, KernelStep

LEMMA SubmitKeeps ==
    ASSUME RunnerInv, Submit, pc' = "execute"
    PROVE  RunnerInv'
  <1>1. /\ run = "idle" /\ run' = "communicate" /\ alive' = {"leader"} /\ sandbox' = sandbox
        /\ stray' = (stray \/ ~(alive \subseteq doomed))
    BY DEF Submit
  <1>2. sandbox => alive \subseteq doomed /\ ~stray
    BY <1>1 DEF RunnerInv
  <1>3. QED BY <1>1, <1>2 DEF RunnerInv

LEMMA RunnerStepKeeps ==
    ASSUME RunnerInv, RunnerStep, pc = "execute", pc' = "execute"
    PROVE  RunnerInv'
  <1>1. /\ UNCHANGED <<sandbox, stray, alive>> /\ doomed \subseteq doomed'
        /\ run' \in {"idle", "returned"} => "leader" \notin alive
    BY DEF RunnerStep, Communicated, TimesOut, KillGroup, Drained
  <1>2. QED BY <1>1 DEF RunnerInv

LEMMA RunnerKept ==
    ASSUME RunnerInv, [CellNext]_cellVars
    PROVE  RunnerInv'
  <1>1. ASSUME UNCHANGED runnerVars, pc # "execute" PROVE RunnerInv'
    BY <1>1 DEF runnerVars, RunnerInv
  <1>2. CASE LoopOnly
    <2>1. pc # "execute"
      BY <1>2 DEF LoopOnly, Open, LoopEnds, EvalFails, EvalScores, Record, Grade, Discard, Seal
    <2>2. QED BY <1>1, <1>2, <2>1 DEF LoopOnly
  <1>3. CASE CallStarts
    BY <1>1, <1>3 DEF CallStarts, NextMove, Sleep
  <1>4. CASE CallGoesOn
    BY <1>1, <1>4 DEF CallGoesOn
  <1>5. CASE CallEnds
    BY <1>1, <1>5 DEF CallEnds, CallReturns, CallOverflows, CallFails
  <1>6. CASE ReplyRead
    BY <1>1, <1>6 DEF ReplyRead, Reject, Write
  <1>7. CASE AttemptStarts
    BY <1>7, SubmitKeeps DEF AttemptStarts, vars
  <1>8. CASE AttemptGoesOn
    BY <1>8, RunnerStepKeeps DEF AttemptGoesOn, vars
  <1>9. CASE AttemptEnds
    <2>1. run = "returned" /\ UNCHANGED <<sandbox, alive, doomed, stray>>
      BY <1>9 DEF AttemptEnds
    <2>2. QED BY <2>1 DEF RunnerInv
  <1>10. CASE CellRaises \/ CellKilled
    <2>1. /\ UNCHANGED <<sandbox, stray, run, alive>> /\ doomed' = doomed \cup Condemned
      BY <1>10 DEF CellRaises, CellKilled, CallerGone
    <2>2. sandbox => alive \subseteq doomed'
      BY <2>1 DEF Condemned
    <2>3. QED BY <2>1, <2>2 DEF RunnerInv
  <1>11. CASE (KernelStep \/ AgentStep) /\ UNCHANGED <<vars, clientVars>>
    BY <1>11, AgentKeeps DEF vars
  <1>12. CASE UNCHANGED cellVars
    BY <1>12 DEF cellVars, vars, runnerVars, RunnerInv
  <1>13. QED
    BY <1>2, <1>3, <1>4, <1>5, <1>6, <1>7, <1>8, <1>9, <1>10, <1>11, <1>12
    DEF CellNext, CellStep

\* Confined, nothing of an attempt outlives it or its cell: not the worker that a
\* kill of the group reached too late, nor what left the group (runner.py
\* _kill_group, sandbox.py --unshare-all --die-with-parent).
THEOREM ConfinedAttemptsEnd == CellSpec => []NoLeftovers
  <1>1. ASSUME CellInit PROVE RunnerInv
    BY <1>1 DEF CellInit, RunnerInit, RunnerInv
  <1>2. RunnerInv /\ [CellNext]_cellVars => RunnerInv'
    BY RunnerKept
  <1>3. RunnerInv => NoLeftovers
    BY DEF RunnerInv, NoLeftovers
  <1>4. QED BY <1>1, <1>2, <1>3, PTL DEF CellSpec
=============================================================================
