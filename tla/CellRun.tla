------------------------------ MODULE CellRun ------------------------------
(***************************************************************************)
(* A cell's process: the loop of AgentLoop with the client it calls and    *)
(* the runner its attempts run under, in place of the choices AgentLoop    *)
(* makes for them.  One thread: while a call is open the loop waits.  The  *)
(* attempt's own processes and the kernel go on at any time, also after    *)
(* the cell is gone.                                                       *)
(***************************************************************************)
EXTENDS AgentLoop, LlmClient, AttemptRunner

\* What a completion may cost by the client's own count.
ReplyCosts == (1..MaxTokens) \cup (PromptTokens..(PromptTokens + MaxPieces))

ASSUME CostsOfReplies == ReplyCosts \subseteq Costs

cellVars == <<vars, clientVars, runnerVars>>

CellInit == Init /\ ClientInit /\ RunnerInit

\* The steps of the loop that call nobody.
LoopOnly ==
    /\ \/ Open \/ LoopEnds
       \/ EvalFails \/ \E v \in Values : EvalScores(v)
       \/ Record \/ Grade \/ Discard \/ Seal
    /\ UNCHANGED <<clientVars, runnerVars>>

\* call_llm: the first call and each one after a sleep.
CallStarts == (NextMove \/ Sleep) /\ Complete /\ UNCHANGED runnerVars

CallGoesOn == pc = "call" /\ ClientStep /\ UNCHANGED <<vars, runnerVars>>

CallEnds ==
    /\ \/ client = "returned" /\ CallReturns(TotalTokens)
       \/ client = "overflow" /\ CallOverflows
       \/ client = "raised" /\ CallFails
    /\ UNCHANGED <<clientVars, runnerVars>>

\* write_solution finds a solution in the reply, or rejects it.
ReplyRead == (Reject \/ (HasText /\ Write)) /\ ClientIdle /\ UNCHANGED runnerVars

AttemptStarts == pc = "execute" /\ Submit /\ UNCHANGED <<vars, clientVars>>

AttemptGoesOn == pc = "execute" /\ RunnerStep /\ UNCHANGED <<vars, clientVars>>

\* classify: only an exit code of 0 goes on to validation and evaluation.
AttemptEnds ==
    /\ run = "returned" /\ run' = "idle" /\ status' = 0 /\ exit' = 0
    /\ Execute
    /\ pc' = "evaluate" => exit = 0
    /\ UNCHANGED <<clientVars, sandbox, alive, doomed, holders, stray>>

\* Popen raises before there is a process; a charge is that of the reply.
CellRaises ==
    /\ Raise /\ CallerGone /\ UNCHANGED clientVars
    /\ pc = "execute" => run = "idle"
    /\ pc = "call" /\ spent' # spent =>
          client = "returned" /\ spent'.tokens = spent.tokens + TotalTokens

CellKilled == Killed /\ CallerGone /\ UNCHANGED clientVars

CellStep ==
    \/ LoopOnly \/ CallStarts \/ CallGoesOn \/ CallEnds \/ ReplyRead
    \/ AttemptStarts \/ AttemptGoesOn \/ AttemptEnds \/ CellRaises
    \/ KernelStep /\ UNCHANGED <<vars, clientVars>>

CellNext ==
    \/ CellStep \/ CellKilled
    \/ AgentStep /\ UNCHANGED <<vars, clientVars>>
    \/ Finished /\ UNCHANGED cellVars

CellSpec == CellInit /\ [][CellNext]_cellVars

\* The cell, its endpoint and the kernel move on; the attempt's code need not.
FairCellSpec == CellSpec /\ WF_cellVars(CellStep)

----------------------------------------------------------------------------
(* Properties. *)

\* With its real client and runner the cell is the loop that AgentLoop
\* describes: in particular every reply is charged at least one token, without
\* which a tokens budget would never be spent.
ImplementsLoop == Spec

\* However often a stream is cut and retried, the text the loop reads comes
\* from one request, the last.
ReplyIsOneRequest ==
    client = "returned" => \A i \in DOMAIN pieces : pieces[i].from = request

\* Under bwrap nothing of an attempt runs on: when submit has returned, timed out
\* or not, and when the cell itself is killed, whatever is still there is dying,
\* by itself or with its leader.
NoLeftovers ==
    sandbox => /\ ~stray
               /\ pc # "execute" => alive \subseteq doomed \/ "leader" \in doomed

\* A cell that is not killed ends, whatever its attempts do, unless it runs them
\* unconfined and one left its process group with the output pipe in hand: then
\* the second communicate() waits for as long as that process lives.
CellEnds ==
    pc = "head" ~> \/ Finished
                   \/ ~sandbox /\ run = "drain" /\ "escapee" \in holders
=============================================================================
