# A verification development for arloop

TLA+ models of arloop's grid driver, agent loop with its LLM client and runner, trace
store, model server, and memory from the episode writer to the query, checked with TLC
on small instances, and theorems about them checked by TLAPS for every value of their
constants. `PROJECT.json` maps each definition to the source
lines it stands for and lists runs, mutants, findings, hazards and theorems.

## 1. The system

arloop runs an LLM agent on optimisation problems. A *cell* is one (task, seed) of an
experiment arm; a *run* is one execution of a cell; the traces of finished runs are the
corpus from which a memory bank is distilled, which later runs retrieve from.

| component | state it keeps | operations | talks to | what is hard |
|---|---|---|---|---|
| grid driver `grid/driver.py` | queue, running cells, attempts, results (memory); claim files (disk) | scan the ledger, claim, dispatch, reap, requeue, heartbeat, close | cells as subprocesses; other drivers through claim files and manifests only | several drivers on several boxes, crashes, stale claims, timeouts, signals |
| cell `grid/run_cell.py` | none of its own | build configuration, runner, client, view; run the loop; exit 0 or 3 | all below | may die, be killed, or outlive its driver |
| agent loop `loop.py`, `budget.py`, `feedback.py`, `prompts.py` | chain of attempts, budget, feedback, infra failure | choose a move, call the LLM, write, execute, evaluate, record, finalise | LLM client, runner, evaluator, trace writer, memory view | provider outages, rejected replies, exceptions, selection across many attempts |
| trace store `trace.py` | one directory per run: manifest, raw trace, gzip | open, emit, close, discard, read, scan | loop, ledger scan, episode writer | kills and failing writes between the steps of close |
| model server `memory/model_server.py` | two models, a socket file, idle clock | start, serve, leave; connect and call | operator, cells | check-then-act on the socket file, idle exit against requests |
| LLM client `llm.py` | the pieces of the reply under way | completion, streamed or as one tool call, with bounded retries | vLLM (external) | cuts in mid-stream, missing usage, malformed replies |
| runner, sandbox `runner.py`, `sandbox.py` | the process group of one execution | submit, kill on timeout | bwrap (external) | grandchildren that leave the group or hold pipes; a cell killed in the middle |
| bank, view `memory/bank.py`, `memory/cases.py` | bank directory | build, load, query and pack | retrievers, loop | rebuild against load; leave-one-task-out; packing |
| retrievers `memory/retrievers.py` | index cache, in memory and on disk | rank, fuse, rerank | model server | concurrent index writers; the bounded pool |
| episode writer `memory/writer.py` | node cache | step notes, folds, caps, merges | LLM client, traces | dropped summaries, repeated merges, parallel builders |
| corpus build `grid/build_corpus.py` | none | collect runs, write cases, build the bank | all of the memory part | double runs of a cell |
| configuration, tokens, taxonomy | none | parse, hash, classify text | | |

What makes each correct, in a line:

- *driver*: a live cell is covered by its driver's claim; a finished cell is not run again;
  no cell is lost between drivers; a claim is not leaked; a sweep ends.
- *loop*: the budget is kept; every attempt is charged and logged; moves branch from where the
  policy says; the attempt that is graded is the best one by the problem's own direction; a run
  is sealed whole or discarded.
- *trace store*: a sealed run has its whole trace and stays sealed; an unsealed one can be
  sealed again; no line is lost.
- *model server*: a live server is not evicted, unless it was too slow for a ping; a dead file does
  not block a start; the idle exit leaves no accepted request; calls return.
- *client and runner*: a reply is one request's and costs at least a token; an attempt leaves
  nothing behind; the cell ends.
- *writer and view*: no run is lost, doubled or moved to another task; a task never sees its own
  experience; the answer is the best that fits; good cases are not lost on the way.
- *bank on disk*: readers see whole files; vectors belong to their cases; a manifest stands beside
  the cases of its own build.

## 2. Modules

| module | models |
|---|---|
| `CellLease` | abstract: a cell is leased to one owner, launched by it, finished at most once, and a lease is returned only when nothing of the cell is live |
| `GridDriver` | drivers, claims, manifests, subprocesses; `Lease == INSTANCE CellLease` is the refinement |
| `GridDriverProofs` | theorems about GridDriver |
| `AgentLoop` | `run_task`: the chain, the budget, the trace's events, the manifest's status |
| `AgentLoopProofs` | theorems about AgentLoop |
| `LlmClient` | one `complete` of `VllmClient`: requests, pieces of a stream, the retry ladder, usage |
| `AttemptRunner` | one `submit` of `SubprocessRunner`: the attempt's processes, its pipes, the kill, bwrap's namespace |
| `CellRun` | a cell's process: AgentLoop with LlmClient and AttemptRunner in place of its choices; `ImplementsLoop` is the refinement |
| `CellRunProofs` | theorems about CellRun |
| `TraceStore` | one run directory and the TraceWriters that hold it, one step per file operation |
| `TraceStoreProofs` | theorems about TraceStore |
| `ModelServer` | servers on one socket path, and the clients' calls |
| `ModelServerProofs` | theorems about ModelServer |
| `EpisodeWriter` | `collect_runs`, folds, dropped drafts, dedupe and merges of one build |
| `MemoryView` | one query after the other: fusion, rerank pool, leave-one-task-out, packing |
| `MemoryFlow` | the two composed: a build, the frozen bank, and the cells' queries to it |
| `MemoryFlowProofs` | theorems about MemoryFlow |
| `BankStore` | node, cases, manifest and index as files that builders and cells write and read |
| `BankStoreProofs` | theorems about BankStore |
| `RecursionLemmas` | induction on the naturals with a set for the hypothesis, and what recursive functions on 0..n compute |
| `MC…` | the instances TLC checks, and a documented claim that the code does not keep |

The modules meet at abstractions of each other. GridDriver's `CellOpens`, `CellSealsOk` and
`CellFails` are what AgentLoop's `Open`, `Seal`, `Discard` and `Raise` look like from outside.
AgentLoop's `Seal` is one step where TraceStore has five; AgentLoop's `Raise` in a step that
retrieves covers a client of ModelServer that fails. MemoryFlow's `Freeze` is one step where
BankStore has the files one by one.

**GridDriver.** `holder`/`stale` are the claim files and their age against `claim_stale_s`;
`ended` the statuses in manifests no process will change; `proc` a driver's subprocesses.
`pc` is the next filesystem or process call of a driver, so a step of another driver, of a cell
or of the clock may fall between any two. `_try_claim` is `OpenWins`, `OpenLoses`, `StatSkips`,
`StatStale`, `Steal` over its two passes; `dispatch` goes on with `Check`, `Drop`, `Launch`,
`LaunchFails`; `reap` is `Release`, `Decide`; the `finally` block `CloseKill`, `CloseRelease`,
`Finish`. `Faults` switches on crashes, stalls, exceptions, signals and failing launches.

**AgentLoop.** `pc` goes through the body of `run_task`'s loop. Text is left out: a code is the
number of the attempt that wrote it. The provider, the runner and the evaluator are choices; a
completion costs any element of `Costs`. `trace` keeps the events that carry moves, spend and
scores, with the fields their readers use, `Raise` may fall on any call that can raise, with the
step's charge made or not, and `Killed` anywhere. The time spent in the retry loop is counted in
sleeps: a sleep and the failed call after it take at least one unit of the wall.

**TraceStore.** `raw`, `gz`, `manifest` are the files; `log` is a history variable, the lines
written and not discarded, and `faults` another, what has raised so far: a final unlink that
fails is the one fault after which `close` undoes what it had sealed, and `SealedIsWhole` and
`FinalStays` are about runs without it. `Kill` may tear the line being written. `CloseFaults` names the steps
of `close` that may raise; `__exit__` then closes again. A new writer may take over a directory,
which the class allows unless the run is finalised. (`run_cell` draws a fresh run id for each
process, so a takeover needs a caller that resumes.) Files survive a kill as they were; a power
failure that loses flushed data is not modelled.

**LlmClient.** A reply is a sequence of pieces, each with the request that sent it and its channel;
a piece counts as a token. `RefusedTransient` and `StreamCut` are the errors `is_transient` accepts,
`RefusedForGood` the others and the context overflow. `request` is the rung of the ladder; the delays
and their jitter are left out. `TotalTokens` is the usage block, or the estimate from the prompt and the
reply, where the arguments of a tool call count only if the message has no text (`Estimated`).

**AttemptRunner.** A leader (the shell, or bwrap around it), a worker in its group and an escapee with a
session of its own stand for any number of each. `alive`, `doomed` (a fatal signal is under way) and
`holders` (of a pipe's write end) are what the kernel keeps. `Communicated` and `Drained` are the ends of
the two `communicate` calls; `TimesOut` sends SIGTERM, of which each process may die or not; `KillGroup`
is the SIGKILL. `sandbox` says whether bwrap confines the attempt: then everything is `Condemned` with
the leader, and the leader with the cell. That the kernel and bwrap do this is assumed, from
`--unshare-all --die-with-parent` in `sandbox.py:124`.

**CellRun.** One thread: a call of the loop is open (`pc` is `call` or `execute`) while the client or the
runner takes its steps, and its result is the only one AgentLoop's action may choose. The attempt's
processes move at any time, also after the cell is gone.

**EpisodeWriter.** Of a note remain the attempts it was made from (`given`), of a case its task, its runs
in the order of their provenance and the bytes it may read (`TextsOf`). `Fold` may have its summary
dropped by `_enforce_cap`. Runs are folded side by side; dedupe takes them in corpus order, and the
writer's verdict on a merge is a choice.

**MemoryView.** The rankings of BM25, of the embedding and of the cross-encoder are any orders; the fusion
is computed, rounding to six places included (as a half-up division of integers, where Python rounds a
binary fraction). `Take` and `Skip` walk the ranking, `Answer` makes the over-budget exception, `Ask` is
the next prompt, of this cell or another task's.

**BankStore.** An inode is named by the kind of file and its creator, so that two writers of one temporary
name share one. `OpenTemp` truncates, `WriteTemp` finishes (of two writers of one inode nobody may leave
a whole text), `Replace` renames or fails when the name is gone. `at` and `stage` are a process's next
call. A cell reads manifest, cases and index, and may write the index itself. The settings `serial` (no
two builds overlap), `oneBox` (live processes have different numbers) and `force` are chosen at the
start. All nodes of a build are one.

**ModelServer.** `path` says whose socket the file names. `serve_forever` is taken call by call;
`idle` and `waited` count ticks against the two timeouts, of which only the order matters
(client calls time out after at most 600 s, an idle server after 1800 s). `Heard` is a call that a
server in its accept loop answers; but every call may also come to nothing while one serves, since
`available` turns any exception into no, a timeout or a full backlog included, and `info` and the
later calls raise. A starting server then unlinks the file of a live one (`Ping`, `Unlink`), even when
nothing else starts or leaves; the history variable `missed` holds the servers to which such a ping went, and
the properties about the file excuse them and those whose file they remove in leaving (`Doubted`).
`AcceptFails` is the accept loop left by an OSError, or by a thread that cannot be started, with
whatever is under way; `AcceptsStray` takes the connections of callers that gave up or are not modelled.

## 3. Runs

Every property of a passing run has a mutant: a changed definition, kept in the module as a
"wrong variant" next to the definition, with which TLC finds the property violated.

| run | instance | shows |
|---|---|---|
| `grid_lease` | 2 drivers, 1 cell, 2 attempts, signals and failing launches | `LiveCellClaimed`, `NoCellLost`, `NeverRerun`, refinement of CellLease |
| `grid_faults` | 2 drivers, 1 cell, all faults | `ClaimsAccounted` |
| `grid_ends` | 1 driver, 2 workers, 2 cells, 2 attempts, all faults but stalls, fair | `QueueSound`, `SweepEnds` |
| `loop_tokens` | tokens budget of 4, costs 1 and 2, values 1 and 2, policy best, minimise | `OvershootBounded`, `SpendIsLogged`, `ChainFollowsPolicy`, `PromptShowsLastCode`, `FooterAgrees`, `GradesOfficialBest`, `SealedWhole` |
| `loop_calls` | CellRun: tokens budget of 3, policy last, maximise, wall of 1 sleep, 1 retry, replies of up to 2 pieces and 2 reported tokens, with and without tool call and sandbox, fair | `ReplyIsOneRequest`, `NoLeftovers`, `ChainFollowsPolicy` under the other policy, `CellEnds`, refinement of AgentLoop |
| `trace_seal` | 3 writers, 3 lines, kills and 2 exceptions anywhere, fair | `SealedIsWhole`, `NothingLost`, `FinalStays`, `RunIsSealed` |
| `server_serial` | 3 servers one at a time, one with other models, kills, exits outside starts, pings and calls that fail on a live server, 1 client | `LiveServerKept`, `StartsSucceed`, `WrongModelsNeedExit` |
| `server_races` | 2 servers at any time, kills, failing accepts and calls, 1 client, fair | `AcceptedNotCutOff`, `StartEnds`, `ClientsReturn` |
| `memory_flow` | 5 runs of 4 cells and 2 tasks, 3 tasks that ask, 3 texts, read budget of 3, pool of 3, the real RRF constant | `NoteHasNoHole`, `EveryRunKept`, `NoOwnExperience`, `AgreedCasesRecalled`, `AnswerIsBest`, `SilenceMeansCrowding` |
| `bank_store` | 2 builders, 1 cell, 2 process numbers, every setting | `VectorsFitCases`, `BankIsOneBuild`, `ReadersSeeWhole` |

`grid_lease` and `loop_tokens` also check the type invariants of their modules; those of TraceStore and
ModelServer, and TraceStore's `RunningIsRetryable` and `SeqOrders`, are proved.

*Why the bounds suffice.* Two drivers are enough for every race over one claim except the one of
two thieves, which needs a third driver as the victim and has its own run. One cell is enough
where the property is about one claim; the run about the queue has two, so that something else is
queued or running. `SweepEnds` is about what one driver waits for: another driver can only make it
skip a cell, which `_try_claim` decides in at most two passes. Two attempts per cell reach the requeue and its limit.
In `loop_tokens` a token budget of 4 with costs 1 and 2 gives chains of up to four attempts: an improve after a
failed improve after a rejected reply, ties, and overshoot. Two values with both signs give
every order. Three writers let a torn or abandoned run be taken over and sealed and refused;
three lines let a torn line have a line before it and after it. Three servers
are a dead one, a live one and a third that starts; two are enough for every step of
`server_races`, the three failures of a start included: a socket file that vanishes under the
unlink or under the chmod, and one that appears under the bind.
A budget of 3 in `loop_calls` gives up to three attempts, so that a leftover of one can meet the next; one
retry and one sleep are enough for a cut stream, a raised call and the wall. The actions on the attempt's
processes are alike for every worker and escapee, one of each is enough. In `memory_flow` task a has three
runs, so that a case can be merged twice and three cases of one task can fill the pool; one cell ran
twice; with a window of 2 a run of three attempts has two folds; of the three texts two fit together and
one fits no budget; task c has no case. In `bank_store` two numbers let any two of the three processes
share one or not, and one builder can die, leave its temporary file and be followed by the other.

`AgentLoop` is run with a tokens budget only: that an attempts budget is never overshot is proved
(`BudgetIsKept`), not run.

*Runs that TLC must find violated* check one documented statement each:

| run | statement | the code |
|---|---|---|
| `grid_steal_race` | two drivers judging one claim stale do not both win (`driver.py:114`) | the second rename takes the first one's fresh claim |
| `server_two_starts` | a live server is not evicted (`model_server.py:184`) | one between bind and listen is, with no ping that was slow |

Other places where the code and its documentation differ are part of the models without a run of
their own:

- Exit code 3 is returned whether or not anybody still holds a cell (`ExitOf`).
- `driver.py:51` calls a running manifest under a stale claim a dead run. A cell leads its own session
  and outlives a killed driver, and nobody then touches its claim (`Crash`, `GoStale`).
- `trace.py:261` says that runs in flight are read from the raw file. `read_events` takes the gzip as soon as
  it exists, also while `close` writes it or after a kill there (`ReadEvents`).
- A rejected reply is an attempt without a score event (`Reject`).
- A line torn by a kill hides the lines of a later writer from the readers (`Readable`).
- `model_server.py:184` says that a live server must not be evicted and only a dead file is cleaned up. The
  probe gives up after five seconds and any exception counts as dead, so a slow server, or one with a full
  backlog, loses its file although nobody else starts or leaves (`Ping`; without the `Doubted` of
  `LiveServerKept`, `server_serial` fails so in its second start). When it idles out it removes its
  successor's file, and a connected cell may be answered by other models while the right server lives.
- A leaving server unlinks the path even when it has a successor (`Remove`; `server_serial` has it only
  where the leaving server was evicted before, `server_races` anywhere).
- `llm.py:180` says that a deterministic failure is raised at once, and the client does so; but `call_llm`
  catches it like any other and repeats the call until the wall (`CallFails`).
- `runner.py:66` says that a timeout kills the whole group. A process that left the group lives on when
  there is no sandbox, and if it holds the pipe the second `communicate` waits for it (`Drained`).
- `retrievers.py:134` says that readers of the index see the old or the new one, never a part. The temporary
  name has a process number, which two boxes may share; a reader then finds a torn index, takes it as
  not usable and embeds the bank again, so that its vectors are right nevertheless (`VectorsFitCases`).
- `bank.py:44` says that a bank without a manifest is unfinished. Under `--force` there is the old manifest
  beside the new cases until the second replace (`BankIsOneBuild` names the exception).
- `writer.py:336` keeps the footer out of the cap because it must survive. A merge replaces the whole
  content, footers included (`MergeCase`; the text of a merge is a choice).
- `bank.py:90` drops a task's own cases after the ranking. The pool has been cut before, so a task with as
  many cases as the pool holds may get no answer although others have cases (`SilenceMeansCrowding`).

## 4. Fairness

- `grid_ends`: a started driver goes on running its code (nothing in it blocks but bounded
  waits), and `job_timeout_s` passes for a running cell. Nothing is assumed of the cells. The run
  leaves stalled refreshes out: one driver has nobody to lose a claim to.
- `loop_calls`: the cell's code, its endpoint, the runner and the kernel go on: a request is answered or
  times out, a timeout of `submit` passes, a signal is delivered. Of the attempt's own code nothing is
  assumed: it may run for ever, fork for ever and keep its pipes. `CellEnds` names the one case in which
  the cell then waits: without a sandbox, in the second `communicate`, for a process that has left the
  group and holds a pipe.
- `trace_seal`: the body of the `with` block ends, which `CellEnds` says of it, and the file operations of
  `close` and `discard` return or raise. Kills and exceptions are possible and never required.
- `server_races`: a server's own code goes on, time passes, and a client notices a closed
  connection or its timeout. That a server answers in time, a ping included, is not assumed.

## 5. Proofs

All proofs are by an inductive invariant; the assumptions are the named ASSUMEs on the constants.

**GridDriverProofs** (any drivers, cells, workers, attempts).
- `TypeCorrect`: the bound on attempts needs `QueueSound`, so the two are proved together.
- `QueueIsSound`, under every fault. The invariant adds what the head of the queue is while
  `dispatch` has it, and that a cell in hand is in no other place.
- `ClaimsAreAccounted`, under every fault.
- Under `Calm` (no crash, stall or exception in `Faults`): `LiveCellsAreClaimed`,
  `NeverRunAgain`, `ClaimsImplementLease`. The invariant says that no claim goes stale, that a
  driver that tends a cell holds its claim, and that a live process is in `running` or about to
  be killed. It is not inductive without the first two: a foreign claim could be stolen. `Calm`
  is needed: `grid_steal_race` shows what happens without it, and a cell that outlives its driver is
  not covered by a live claim.
- `CellsAreNotLost`, under `Calm`: `CoverInv` does not count a driver for a cell that it is about to skip for
  somebody else's claim (`FirmlyOwes`), and says why a driver may leave its loop or give a claim up
  (`EndInv`). A driver that skips a cell then hands it to the claim's holder, who tends it.

**AgentLoopProofs** (any budget, costs, values, policy, direction).
- `LoopTypeCorrect`: needs that a chain with a score has a best attempt, the lemma
  `AppendKeepsBest`, since `BestAttempt` is a choice.
- `BudgetIsKept`: the invariant adds that no call is made on a spent budget and that an attempts
  budget has room wherever an attempt is under way.
- `SealedRunsAreWhole`: the invariant adds that the infra flag is only set on the way to the
  grading and that a run that left its loop by itself has spent something and so has an attempt.
- `SpendIsInTheTrace`: `SpendInv` says that the trace adds up to what was spent until the process raises
  or is done. A sum over the trace (`TokensLogged`, a recursive function) is what it was before a step and
  the tokens of the new event, which is `SpendGoesOn`.
- `BranchesFollowPolicy`: `ChainInv` relates the chain and the trace, in two readings of the best attempt:
  the maximum of the chain and the last improvement in a scan of the trace. `BestLines` is that scan; the
  two agree after each step because ties are broken by the earlier attempt in both. `MoveInv` says that what
  `next_move` decided still holds while the call is awaited, and that each logged call has the move the
  history shows; the chain only grows at its end, so the past keeps its moves.
- `PromptsShowLastCode`: in `CodeInv` every attempt carries the code last written up to it; a rejected one
  takes over that of the tip.
- `OutcomeIsBestLine`: `OutcomeInv` says that an outcome is logged once, at the end, about the whole
  chain; the rest is `ChainInv`.
- `GradedIsOfficialBest`: `EvalInv` says that an evaluation in the trace is the proxy of its attempt, sign
  turned for a minimising problem, except in the attempt at which the process was ended.

**CellRunProofs** (any ladder, prompt, reply, budget and process behaviour; `CostsOfReplies` says that what
the client may count is among AgentLoop's `Costs`).
- `CellImplementsLoop`: every step of the cell is one of AgentLoop's or leaves its variables alone. The
  invariant `ClientInv` bounds the usage and the pieces of a reply; it is needed for the charge, which
  is one of the loop's costs only because a prompt is never empty and usage is never negative.
- `CellKeepsBudget`, `CellSealsWhole` and `CellAccountsAndChooses` carry AgentLoop's theorems over, through
  the refinement; the last has the five on spend, branches, prompts, outcome and grade.
- `RepliesAreWhole`: in `ClientInv` a request starts without pieces, and a stream has only its own.
- `ConfinedAttemptsEnd`: `RunnerInv` says that under bwrap whatever is alive without its leader is doomed,
  that no leader is alive between two attempts, and that a cell that has ended inside one has
  condemned the leader.

**MemoryFlowProofs** (any runs, cells, tasks, windows, texts, sizes, budget, pool and RRF constant).
- `NotesHaveNoHoles`: the property is inductive with the types of `folded` and `given`; a window ends where
  the next one begins.
- `RunsAreKept`: `KeptInv` says that each run in `deduped` is at one place of `kept` and that a case's runs
  are of its task.
- `OwnTaskStaysOut`: `ViewInv` carries both over to the frozen bank and says that everything ranked or
  packed is a case of the bank that is `Foreign`.
- `SilenceIsCrowding`: if another task has a case, the one with the fewest cases ahead of it in the fusion
  is outside the pool only if cases of the asking task fill the pool; the proof finds it with the
  library's theorem on well-founded orders of finite sets. `ViewInv` has this for the ranking, and that a
  ranking that is not empty never gives an empty answer: its first case is packed, or is the exception.
- `GreedyAnswersBest`: `PackInv` says of the places walked so far that what the pack leaves out repeats the
  text of a better place in it or does not fit beside the better places in it. Any other selection that
  fits agrees with the pack up to some least place, and there the pack has the case: were it the other one,
  its tokens up to that place would be those the pack had no room for (`TokensAgree`, `TokensGrow`).
- `AgreementIsRecalled`, for `SixPlacesSuffice`, that is `RrfK + RerankPool < 1414`. A case that is behind in
  both rankings then scores lower by a millionth at least and stays lower when both are rounded
  (`WorseInBoth`, `WorseAndAbsent`, `MicroSeparates`), so those ahead in the fusion are ahead in a
  ranking, and there are fewer than the pool holds. The bank may have any size. The code's defaults are 60
  and 64, and every experiment in the repository sets these two. Some bound is needed: with an `rrf_k` of
  ten million every score rounds to nought and the ids decide. This one is close to where rounding begins to
  matter: 1424 and 1425 (`rrf_k` included) are the first neighbours whose scores become equal.

**BankStoreProofs** (any builders, cells and numbers; None and Cut are different and no process).
- `VectorsAreTheirs`: needs that a process has vectors only when it is done (`StageInv`), and that a
  builder's own cases never change, so that an index made of them can be told by its ids.
- `ReadersAreServedWhole`: `NamesInv` says that live processes have different numbers, and `FilesInv` that an
  inode then has one name, that a writer has its own under its name, and that what is in place is whole;
  a text that is in place is not written any more, for the writer's name was given up in the replace.
- `BanksAreOneBuild`: `BuildInv` adds that a builder that meets a manifest is a forced one, that one at its
  manifest has its cases in place, and what a cell has read when no build is forced.

**TraceStoreProofs** (any writers, lines, faults, and any set of steps of `close` that may raise).
`StoreInv` says where the lines are at each step: all in the raw trace until the run is sealed, all
in the gzip from its writing on, and that a sealed run has no writer but one at its last unlink,
unless that unlink failed. `SealedRunHoldsItsTrace`, `RunningRunIsRetryable`, `NoLineIsLost` and
`SealIsFinal` follow from it. `LinesAreOrdered` adds that the present writer's lines are numbered
below its next `seq` and that no line has a later writer.

**ModelServerProofs** (any servers, clients, models and timeouts).
- Whatever overlaps: `ServerTypeCorrect`, and `NoRequestIsCutOff`: a server has been active since
  the callers of what it has taken began to wait, and a client's timeout is the shorter.
- Under `Serial` (no start while a server starts or leaves, no exit while one starts):
  `LiveServerIsKept` and `DeadFilesAreCleared`. The invariant `Owned` says that a server that serves or
  leaves is the one the path names or a doubted one, and that when a start is about to remove the file,
  whoever serves is doubted already: the ping of that start has seen to it. A doubt is never taken
  back. `server_two_starts` shows that `Serial` is needed. `WrongModelsComeLater` adds that a connected
  client once met a server with the right models and that servers never come back.

**RecursionLemmas.** The library's induction theorems take the hypothesis as an operator, which the provers
cannot instantiate. `SetInduction` and `UpTo` state it with a set, from the theorem that a well-founded
order has least elements; `RecursionExists` and `RecursionUnique` do the same for what a recursive
function computes. The sums and scans of AgentLoop and MemoryView are recursive functions for their sake.

**Model-checked only.** Every invariant and every action property that a passing run checks is also a
theorem, of some of them with the hypotheses named above (`Calm`, `Serial`, `SixPlacesSuffice`).
Liveness (`SweepEnds`, `CellEnds`, `RunIsSealed`, `StartEnds`, `ClientsReturn`) is out of the prover's reach
and stays with TLC, as do the two runs that must find a violation.

## 6. Plan

Done: the modules above, their runs, and the theorems of section 5. What could follow, in this order:

1. Theorems with weaker hypotheses: what is left of `LiveCellClaimed` and `NoCellLost` when drivers are
   killed but claims are not stolen from live ones.
2. A composition of AgentLoop and TraceStore in which `Seal` is the five steps of `close`, and one of
   GridDriver with cells that are such runs.
3. `chunk_texts` and the out-of-memory ladder of the model server as functions checked against their
   definitions; the alpha-renaming of `taxonomy.py` against a definition of equal up to renaming.

## 7. Not modelled

Parsing and hashing of configuration, prompt texts, excerpts and error taxonomies, the character
ratio of the token estimates (stateless text functions); BM25, cosine and cross-encoder scores (floating point);
vLLM, bwrap and the benchmark itself (external; their answers are choices); scripts and the
generation of experiment definitions. The schema checks of manifests and events are left out:
what they reject raises, which the models have as an exception. The batches of the model server and its
retries with smaller ones happen inside one answer and change no state that outlives it.
