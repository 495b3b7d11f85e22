----------------------------- MODULE LlmClient -----------------------------
(***************************************************************************)
(* llm.py: VllmClient.complete as its caller sees it.  One request at a    *)
(* time goes to the endpoint; provider weather (429, 5xx, a connection     *)
(* lost, also in the middle of a stream) is retried along a ladder of      *)
(* delays, a context overflow and anything deterministic is raised.        *)
(*                                                                         *)
(* A reply is the sequence of its pieces; a piece is the number of the     *)
(* request that sent it and whether it is content, out-of-band reasoning   *)
(* or the arguments of a tool call.  A piece counts as one token.          *)
(***************************************************************************)
EXTENDS Integers, Sequences, SequencesExt

CONSTANTS
    MaxRetries,     \* rungs of the ladder
    PromptTokens,   \* approx_tokens(system + user)
    MaxPieces,      \* bounds a reply
    MaxTokens       \* bounds what a usage block says

ASSUME ClientAssumption ==
    /\ MaxRetries \in Nat /\ MaxPieces \in Nat /\ MaxTokens \in Nat
    /\ PromptTokens \in Nat \ {0}    \* no prompt is empty

VARIABLES
    useTool,    \* use_tool: the forced submit call
    client,     \* idle, request, stream, delay, or how complete ended
    request,    \* the number of the request of this complete under way
    pieces,     \* parts and reasoning_parts, or the one message of a tool call
    usage       \* prompt_tokens + completion_tokens; 0: none was sent

clientVars == <<useTool, client, request, pieces, usage>>

Channels == {"content", "reasoning", "args"}

ClientInit ==
    /\ useTool \in BOOLEAN
    /\ client = "idle" /\ request = 0 /\ pieces = <<>> /\ usage = 0

\* The reply goes out of scope.
ClientIdle ==
    /\ client' = "idle" /\ request' = 0 /\ pieces' = <<>> /\ usage' = 0
    /\ UNCHANGED useTool

Complete ==
    /\ client' = "request" /\ request' = 1
    /\ pieces' = <<>> /\ usage' = 0
    /\ UNCHANGED useTool

\* retry_provider_errors after weather: the next rung, or the error itself.
RetryOrRaise == client' = IF request <= MaxRetries THEN "delay" ELSE "raised"

\* Wrong variant: what was streamed before a cut is kept for the next request.
KeepsTheCut ==
    /\ client = "delay" /\ client' = "request"
    /\ request' = request + 1
    /\ UNCHANGED <<useTool, pieces, usage>>

\* The ladder calls fn again, and fn starts from empty lists.
RetryRequest ==
    /\ client = "delay" /\ client' = "request"
    /\ request' = request + 1
    /\ pieces' = <<>> /\ usage' = 0
    /\ UNCHANGED useTool

\* The endpoint refuses before it answers anything.
RefusedTransient ==
    /\ client = "request" /\ RetryOrRaise
    /\ UNCHANGED <<useTool, request, pieces, usage>>

RefusedForGood ==
    /\ client = "request" /\ client' \in {"raised", "overflow"}
    /\ UNCHANGED <<useTool, request, pieces, usage>>

StreamOpens ==
    /\ client = "request" /\ ~useTool /\ client' = "stream"
    /\ UNCHANGED <<useTool, request, pieces, usage>>

Piece(channel) ==
    /\ client = "stream" /\ channel # "args" /\ Len(pieces) < MaxPieces
    /\ pieces' = Append(pieces, [from |-> request, channel |-> channel])
    /\ UNCHANGED <<useTool, client, request, usage>>

\* The last chunk carries the usage, if the server sends it at all.
StreamEnds(u) ==
    /\ client = "stream" /\ client' = "returned"
    /\ usage' = u
    /\ UNCHANGED <<useTool, request, pieces>>

StreamCut ==
    /\ client = "stream" /\ RetryOrRaise
    /\ UNCHANGED <<useTool, request, pieces, usage>>

\* The forced tool call is answered in one message.
ToolAnswers(channels, u) ==
    /\ client = "request" /\ useTool /\ client' = "returned"
    /\ Len(channels) <= MaxPieces
    /\ pieces' = [i \in DOMAIN channels |-> [from |-> request, channel |-> channels[i]]]
    /\ usage' = u
    /\ UNCHANGED <<useTool, request>>

\* Wrong variant: a server without usage is taken at its word.
NoFallback == usage

\* What an estimate counts: everything that was received, the reasoning included,
\* but of a tool call's text and arguments only the text when there is any.
Estimated ==
    {i \in DOMAIN pieces : pieces[i].channel = "args" =>
        \A j \in DOMAIN pieces : pieces[j].channel # "content"}

\* total_tokens: the usage block, else estimated from the prompt and the reply.
TotalTokens == IF usage # 0 THEN usage ELSE PromptTokens + Cardinality(Estimated)

\* What write_solution can find a solution in: prose, or decoded arguments.
HasText == \E i \in DOMAIN pieces : pieces[i].channel # "reasoning"

ClientStep ==
    \/ RetryRequest \/ RefusedTransient \/ RefusedForGood
    \/ StreamOpens \/ StreamCut
    \/ \E channel \in Channels : Piece(channel)
    \/ \E u \in 0..MaxTokens : StreamEnds(u)
    \/ \E channels \in SeqOf(Channels, MaxPieces), u \in 0..MaxTokens :
            ToolAnswers(channels, u)
=============================================================================
