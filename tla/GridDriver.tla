----------------------------- MODULE GridDriver -----------------------------
(***************************************************************************)
(* grid/driver.py: drivers on different boxes sweep the (task, seed) cells *)
(* of one arm.  They share only the filesystem: one claim file per cell,   *)
(* and the run manifests, which are the ledger.  The cells a driver starts *)
(* lead their own sessions and outlive it.                                 *)
(*                                                                         *)
(* One element of Drivers is one driver process, started at most once.  A  *)
(* step is one call on the shared filesystem or on a subprocess.  A failed *)
(* manifest and a missing one are the same to the driver, so neither is    *)
(* kept.  The heartbeat of all running cells is one step.                  *)
(***************************************************************************)
EXTENDS Naturals, Sequences, FiniteSets, SequencesExt

CONSTANTS
    Drivers, Cells, None,   \* driver processes, (task, seed) pairs, neither
    MaxWorkers, MaxAttempts,
    Faults                  \* which failures may happen, see FaultKinds

\* A driver is killed; a live driver does not touch its claims for
\* claim_stale_s; a filesystem call raises in a driver; SIGTERM or SIGINT
\* reaches a driver; Popen (or opening the cell's log) fails.
FaultKinds == {"crash", "stall", "raise", "signal", "exec"}

ASSUME WorkersAssumption == MaxWorkers \in Nat \ {0}
ASSUME AttemptsAssumption == MaxAttempts \in Nat \ {0}
ASSUME FaultsAssumption == Faults \subseteq FaultKinds
ASSUME NoneAssumption == None \notin Drivers /\ None \notin Cells

VARIABLES
    holder,     \* who created the cell's claim file, or None
    stale,      \* the claim's mtime is older than claim_stale_s
    ended,      \* the statuses in manifests that no process will change
    proc,       \* the state of each driver's subprocess for each cell
    overdue,    \* a driver's cells that run for longer than job_timeout_s
    pc, cur,    \* a driver's next step, and the cell it is about
    pass,       \* the iteration of _try_claim's for loop
    todo,       \* the cells left in the loop over cells being run
    pending, running, attempts, results,
    shutdown,   \* the signal handler has run
    exit        \* how the driver ended

claims == <<holder, stale>>
cells == <<ended, proc, overdue>>
sweep == <<pending, running, attempts, results>>
ends == <<shutdown, exit>>
vars == <<claims, cells, pc, cur, pass, todo, sweep, ends>>

Labels == {"off", "scan", "scanClaim", "top", "reap", "kill", "release",
           "decide", "dispatch", "open", "stat", "steal", "check", "drop",
           "popen", "beat", "close", "unclaim", "over"}

\* A subprocess starts, opens its TraceWriter, seals or discards its run, exits
\* 0 or not, or is killed by its driver; then it waits to be reaped.
Live == {"boot", "run", "sealedOk", "sealedBad"}
Gone == {"exit0", "exit1", "killed"}

TypeOK ==
    /\ holder \in [Cells -> Drivers \cup {None}]
    /\ stale \in [Cells -> BOOLEAN]
    /\ ended \in [Cells -> SUBSET {"ok", "running"}]
    /\ proc \in [Drivers -> [Cells -> Live \cup Gone \cup {"none"}]]
    /\ overdue \in [Drivers -> SUBSET Cells]
    /\ pc \in [Drivers -> Labels]
    /\ cur \in [Drivers -> Cells \cup {None}]
    /\ pass \in [Drivers -> 1..2]
    /\ todo \in [Drivers -> SUBSET Cells]
    /\ pending \in [Drivers -> Seq(Cells)]
    /\ running \in [Drivers -> SUBSET Cells]
    /\ attempts \in [Drivers -> [Cells -> 0..MaxAttempts]]
    /\ results \in [Drivers -> [Cells -> {"none", "ok", "failed", "timeout"}]]
    /\ shutdown \in [Drivers -> BOOLEAN]
    /\ exit \in [Drivers -> {"none", "complete", "incomplete", "failed",
                             "signal", "raised", "crash"}]

Init ==
    /\ holder = [c \in Cells |-> None]
    /\ stale = [c \in Cells |-> FALSE]
    /\ ended \in [Cells -> SUBSET {"ok", "running"}]    \* earlier sweeps
    /\ proc = [d \in Drivers |-> [c \in Cells |-> "none"]]
    /\ overdue = [d \in Drivers |-> {}]
    /\ pc = [d \in Drivers |-> "off"]
    /\ cur = [d \in Drivers |-> None]
    /\ pass = [d \in Drivers |-> 1]
    /\ todo = [d \in Drivers |-> {}]
    /\ pending = [d \in Drivers |-> <<>>]
    /\ running = [d \in Drivers |-> {}]
    /\ attempts = [d \in Drivers |-> [c \in Cells |-> 0]]
    /\ results = [d \in Drivers |-> [c \in Cells |-> "none"]]
    /\ shutdown = [d \in Drivers |-> FALSE]
    /\ exit = [d \in Drivers |-> "none"]

----------------------------------------------------------------------------
(* Claims, ledger, subprocesses. *)

ClaimAlive(c) == holder[c] # None /\ ~stale[c]

\* O_CREAT | O_EXCL succeeds (d is who) or the path is unlinked or renamed away
\* (None is); a removal takes whatever file is there.
SetClaim(c, who) ==
    /\ holder' = [holder EXCEPT ![c] = who]
    /\ stale' = [stale EXCEPT ![c] = FALSE]

LedgerOk(c) == "ok" \in ended[c]

\* Some manifest of the cell says running, whether its process lives or not.
SaysRunning(c) ==
    "running" \in ended[c] \/ \E d \in Drivers : proc[d][c] = "run"

\* Wrong variant: the signal reaches nobody.
KillMisses(d, c, as) == UNCHANGED cells

\* The subprocess dies; an open run leaves its manifest saying running.
KillCell(d, c, as) ==
    /\ proc' = [proc EXCEPT ![d][c] = as]
    /\ ended' = [ended EXCEPT ![c] =
                    IF proc[d][c] = "run" THEN @ \cup {"running"} ELSE @]
    /\ UNCHANGED overdue

Queued(d) == ToSet(pending[d])
Enqueue(d, c) == pending' = [pending EXCEPT ![d] = Append(@, c)]

Goto(d, label) == pc' = [pc EXCEPT ![d] = label]
About(d, c) == cur' = [cur EXCEPT ![d] = c]
TakeTodo(d, c) == c \in todo[d] /\ todo' = [todo EXCEPT ![d] = @ \ {c}]

\* A step inside the driver that decides only where it goes next.
Moves(d, from, to) ==
    /\ pc[d] = from /\ Goto(d, to)
    /\ UNCHANGED <<claims, cells, cur, pass, todo, sweep, ends>>

----------------------------------------------------------------------------
(* Before the loop, the ledger decides which cells are queued. *)

Start(d) ==
    /\ pc[d] = "off" /\ Goto(d, "scan")
    /\ todo' = [todo EXCEPT ![d] = Cells]
    /\ UNCHANGED <<claims, cells, cur, pass, sweep, ends>>

\* Of the manifests of a cell an ok one wins, a running one calls for a look at
\* the claim, and without either the cell is queued.
ScanManifests(d, c) ==
    /\ pc[d] = "scan" /\ TakeTodo(d, c)
    /\ \/ LedgerOk(c) /\ UNCHANGED <<pc, cur, pending>>
       \/ /\ ~LedgerOk(c) /\ SaysRunning(c)
          /\ Goto(d, "scanClaim") /\ About(d, c) /\ UNCHANGED pending
       \/ /\ ~LedgerOk(c) /\ ~SaysRunning(c)
          /\ Enqueue(d, c) /\ UNCHANGED <<pc, cur>>
    /\ UNCHANGED <<claims, cells, pass, running, attempts, results, ends>>

\* Wrong variant: a running manifest is believed without a look at the claim.
ScanBelieves(d) ==
    /\ pc[d] = "scanClaim" /\ Goto(d, "scan") /\ About(d, None)
    /\ UNCHANGED <<claims, cells, pass, todo, sweep, ends>>

\* A running manifest under a live claim is elsewhere, for the whole sweep.
ScanClaim(d) ==
    /\ pc[d] = "scanClaim" /\ Goto(d, "scan") /\ About(d, None)
    /\ IF ClaimAlive(cur[d]) THEN UNCHANGED pending ELSE Enqueue(d, cur[d])
    /\ UNCHANGED <<claims, cells, pass, todo, running, attempts, results, ends>>

ScanDone(d) == todo[d] = {} /\ Moves(d, "scan", "top")

----------------------------------------------------------------------------
(* One turn of the loop: reap, dispatch, heartbeat. *)

LoopEnds(d) ==
    /\ (pending[d] = <<>> /\ running[d] = {}) \/ shutdown[d]
    /\ Moves(d, "top", "close")

LoopTurns(d) ==
    /\ pending[d] # <<>> \/ running[d] # {}
    /\ ~shutdown[d]
    /\ pc[d] = "top" /\ Goto(d, "reap")
    /\ todo' = [todo EXCEPT ![d] = running[d]]
    /\ UNCHANGED <<claims, cells, cur, pass, sweep, ends>>

\* poll() says exited: reap; alive and out of time: kill, although it may still
\* end before the signal; alive: nothing.
Poll(d, c) ==
    /\ pc[d] = "reap" /\ TakeTodo(d, c)
    /\ \/ proc[d][c] \in Gone /\ Goto(d, "release") /\ About(d, c)
       \/ /\ proc[d][c] \in Live /\ c \in overdue[d]
          /\ Goto(d, "kill") /\ About(d, c)
       \/ proc[d][c] \in Live /\ c \notin overdue[d] /\ UNCHANGED <<pc, cur>>
    /\ UNCHANGED <<claims, cells, pass, sweep, ends>>

\* A cell that ended before the signal is called killed all the same.
Kill(d) ==
    /\ pc[d] = "kill" /\ Goto(d, "release")
    /\ KillCell(d, cur[d], "killed")
    /\ UNCHANGED <<claims, cur, pass, todo, sweep, ends>>

\* The claim goes before the requeue decision is taken.
Release(d) ==
    /\ pc[d] = "release" /\ Goto(d, "decide")
    /\ running' = [running EXCEPT ![d] = @ \ {cur[d]}]
    /\ SetClaim(cur[d], None)
    /\ UNCHANGED <<cells, cur, pass, todo, pending, attempts, results, ends>>

\* Wrong variant: off by one.
RetriesOnceMore(d, c) == attempts[d][c] <= MaxAttempts

MayRetry(d, c) == attempts[d][c] < MaxAttempts

CellSucceeded(d, c) == proc[d][c] = "exit0" /\ LedgerOk(c)

Decide(d) ==
    /\ pc[d] = "decide" /\ Goto(d, "reap") /\ About(d, None)
    /\ LET c == cur[d] IN
       /\ \/ /\ ~CellSucceeded(d, c) /\ MayRetry(d, c)
             /\ Enqueue(d, c) /\ UNCHANGED results
          \/ /\ CellSucceeded(d, c) \/ ~MayRetry(d, c)
             /\ results' = [results EXCEPT ![d][c] =
                                IF CellSucceeded(d, c) THEN "ok"
                                ELSE IF proc[d][c] = "killed" THEN "timeout"
                                ELSE "failed"]
             /\ UNCHANGED pending
       /\ proc' = [proc EXCEPT ![d][c] = "none"]
    /\ UNCHANGED <<claims, ended, overdue, pass, todo, running, attempts, ends>>

ReapDone(d) == todo[d] = {} /\ Moves(d, "reap", "dispatch")

MayDispatch(d) == pending[d] # <<>> /\ Cardinality(running[d]) < MaxWorkers

DispatchHead(d) ==
    /\ MayDispatch(d)
    /\ pc[d] = "dispatch" /\ Goto(d, "open") /\ About(d, Head(pending[d]))
    /\ UNCHANGED <<claims, cells, pass, todo, sweep, ends>>

DispatchDone(d) == ~MayDispatch(d) /\ Moves(d, "dispatch", "beat")

\* os.utime on the claim of every running cell that still has one.
Beat(d) ==
    /\ pc[d] = "beat" /\ Goto(d, "top")
    /\ stale' = [c \in Cells |-> stale[c] /\ c \notin running[d]]
    /\ UNCHANGED <<holder, cells, cur, pass, todo, sweep, ends>>

----------------------------------------------------------------------------
(* dispatch and _try_claim, about the cell at the head of the queue. *)

\* Wrong variant: a started or skipped cell stays queued.
PopsNothing(d) ==
    /\ pass' = [pass EXCEPT ![d] = 1]
    /\ Goto(d, "dispatch") /\ About(d, None) /\ UNCHANGED pending

\* STARTED and SKIPPED pop the head of the queue.
PopHead(d) ==
    /\ pending' = [pending EXCEPT ![d] = Tail(@)]
    /\ pass' = [pass EXCEPT ![d] = 1]
    /\ Goto(d, "dispatch") /\ About(d, None)

Skip(d) == PopHead(d) /\ UNCHANGED <<cells, todo, running, attempts, results, ends>>

\* Wrong variant: O_CREAT without O_EXCL.
OpenAnyway(d) ==
    /\ pc[d] = "open" /\ Goto(d, "check") /\ SetClaim(cur[d], d)
    /\ UNCHANGED <<cells, cur, pass, todo, sweep, ends>>

OpenWins(d) ==
    /\ pc[d] = "open" /\ holder[cur[d]] = None /\ Goto(d, "check")
    /\ SetClaim(cur[d], d)
    /\ UNCHANGED <<cells, cur, pass, todo, sweep, ends>>

OpenLoses(d) == Moves(d, "open", "stat") /\ holder[cur[d]] # None

\* A claim that is alive, or has vanished, ends the try.
StatSkips(d) ==
    /\ pc[d] = "stat" /\ (holder[cur[d]] = None \/ ~stale[cur[d]])
    /\ Skip(d) /\ UNCHANGED claims

StatStale(d) ==
    /\ Moves(d, "stat", "steal")
    /\ holder[cur[d]] # None /\ stale[cur[d]]

\* The rename takes whatever is at the path.  After the first pass the claim is
\* tried for again; the second has no pass after it.
Steal(d) ==
    /\ pc[d] = "steal"
    /\ \/ holder[cur[d]] = None /\ Skip(d) /\ UNCHANGED claims
       \/ /\ holder[cur[d]] # None /\ pass[d] = 1
          /\ SetClaim(cur[d], None)
          /\ pass' = [pass EXCEPT ![d] = 2] /\ Goto(d, "open")
          /\ UNCHANGED <<cells, cur, todo, sweep, ends>>
       \/ /\ holder[cur[d]] # None /\ pass[d] = 2
          /\ SetClaim(cur[d], None) /\ Skip(d)

\* Wrong variant: the ledger read before the claim is trusted.
CheckTrustsScan(d) == Moves(d, "check", "popen")

\* The claim is held while the ledger is read again.
Check(d) == Moves(d, "check", IF LedgerOk(cur[d]) THEN "drop" ELSE "popen")

\* Wrong variant: a cell that is already ok keeps its claim.
DropKeepsClaim(d) == pc[d] = "drop" /\ UNCHANGED claims /\ Skip(d)

Drop(d) == pc[d] = "drop" /\ SetClaim(cur[d], None) /\ Skip(d)

\* Wrong variant: attempts are not counted.
NotCounted(d, c) == UNCHANGED attempts

Attempted(d, c) == attempts' = [attempts EXCEPT ![d][c] = @ + 1]

Launch(d) ==
    /\ pc[d] = "popen" /\ PopHead(d)
    /\ proc' = [proc EXCEPT ![d][cur[d]] = "boot"]
    /\ overdue' = [overdue EXCEPT ![d] = @ \ {cur[d]}]
    /\ Attempted(d, cur[d])
    /\ running' = [running EXCEPT ![d] = @ \cup {cur[d]}]
    /\ UNCHANGED <<claims, ended, todo, results, ends>>

\* RETRY_LATER leaves the cell at the head until the next turn.
LaunchFails(d) ==
    /\ "exec" \in Faults
    /\ pc[d] = "popen" /\ SetClaim(cur[d], None) /\ Attempted(d, cur[d])
    /\ \/ /\ attempts[d][cur[d]] + 1 < MaxAttempts
          /\ pass' = [pass EXCEPT ![d] = 1] /\ Goto(d, "beat") /\ About(d, None)
          /\ UNCHANGED <<pending, results>>
       \/ /\ attempts[d][cur[d]] + 1 >= MaxAttempts
          /\ results' = [results EXCEPT ![d][cur[d]] = "failed"]
          /\ PopHead(d)
    /\ UNCHANGED <<cells, todo, running, ends>>

----------------------------------------------------------------------------
(* The end of a driver: the finally block, the summary, the exit code. *)

\* A cell leaves running, its group is killed, and then its claim goes.
CloseKill(d, c) ==
    /\ pc[d] = "close" /\ c \in running[d] /\ Goto(d, "unclaim") /\ About(d, c)
    /\ running' = [running EXCEPT ![d] = @ \ {c}]
    /\ KillCell(d, c, "killed")
    /\ UNCHANGED <<claims, pass, todo, pending, attempts, results, ends>>

CloseRelease(d) ==
    /\ pc[d] = "unclaim" /\ Goto(d, "close") /\ About(d, None)
    /\ SetClaim(cur[d], None)
    /\ UNCHANGED <<cells, pass, todo, sweep, ends>>

\* An exception goes on; run_grid raises SystemExit on a signal; main exits 1
\* for a failed cell, 3 for an incomplete arm, else 0.
ExitOf(d) ==
    IF exit[d] = "raised" THEN "raised"
    ELSE IF shutdown[d] THEN "signal"
    ELSE IF \E c \in Cells : results[d][c] \in {"failed", "timeout"} THEN "failed"
    ELSE IF \E c \in Cells : ~LedgerOk(c) THEN "incomplete"
    ELSE "complete"

Finish(d) ==
    /\ pc[d] = "close" /\ running[d] = {} /\ Goto(d, "over")
    /\ exit' = [exit EXCEPT ![d] = ExitOf(d)]
    /\ UNCHANGED <<claims, cells, cur, pass, todo, sweep, shutdown>>

\* O_CREAT fails with something else than FileExistsError, or the ledger scan
\* under the claim or after a reap raises: only running cells are cleaned up.
Raise(d) ==
    /\ "raise" \in Faults
    /\ pc[d] \in {"open", "check", "decide"} /\ Goto(d, "close") /\ About(d, None)
    /\ exit' = [exit EXCEPT ![d] = "raised"]
    /\ UNCHANGED <<claims, cells, pass, todo, sweep, shutdown>>

----------------------------------------------------------------------------
(* What happens to a driver and around it. *)

\* The handlers are installed from before the loop to the end of the finally
\* block; the head of the loop and the end of run_grid look at the flag.
Signal(d) ==
    /\ "signal" \in Faults
    /\ pc[d] \notin {"off", "scan", "scanClaim", "over"} /\ ~shutdown[d]
    /\ shutdown' = [shutdown EXCEPT ![d] = TRUE]
    /\ UNCHANGED <<claims, cells, pc, cur, pass, todo, sweep, exit>>

Crash(d) ==
    /\ "crash" \in Faults
    /\ pc[d] \notin {"off", "over"} /\ Goto(d, "over") /\ About(d, None)
    /\ exit' = [exit EXCEPT ![d] = "crash"]
    /\ UNCHANGED <<claims, cells, pass, todo, sweep, shutdown>>

TimesOut(d, c) ==
    /\ c \in running[d] \ overdue[d]
    /\ overdue' = [overdue EXCEPT ![d] = @ \cup {c}]
    /\ UNCHANGED <<claims, ended, proc, pc, cur, pass, todo, sweep, ends>>

\* The driver has the cell in hand: its heartbeat, or its next calls, come
\* within claim_stale_s unless it stalls.
Tends(d, c) ==
    /\ pc[d] # "over"
    /\ \/ c \in running[d]
       \/ c = cur[d] /\ pc[d] \in {"check", "drop", "popen", "unclaim"}

GoStale(c) ==
    /\ ClaimAlive(c)
    /\ "stall" \in Faults \/ \A d \in Drivers : ~Tends(d, c)
    /\ stale' = [stale EXCEPT ![c] = TRUE]
    /\ UNCHANGED <<holder, cells, pc, cur, pass, todo, sweep, ends>>

----------------------------------------------------------------------------
(* The subprocess of driver d for cell c: run_cell.main, seen from outside. *)

CellStep(d, c, from, to) ==
    /\ proc[d][c] = from /\ proc' = [proc EXCEPT ![d][c] = to]
    /\ UNCHANGED <<claims, overdue, pc, cur, pass, todo, sweep, ends>>

\* TraceWriter writes a running manifest; or the process exits before that.
CellOpens(d, c) == CellStep(d, c, "boot", "run") /\ UNCHANGED ended
CellAborts(d, c) == CellStep(d, c, "boot", "exit1") /\ UNCHANGED ended

CellSealsOk(d, c) ==
    /\ CellStep(d, c, "run", "sealedOk")
    /\ ended' = [ended EXCEPT ![c] = @ \cup {"ok"}]

\* The manifest is sealed failed, or the run is discarded.
CellFails(d, c) == CellStep(d, c, "run", "sealedBad") /\ UNCHANGED ended

CellExits(d, c) ==
    /\ CellStep(d, c, "sealedOk", "exit0") \/ CellStep(d, c, "sealedBad", "exit1")
    /\ UNCHANGED ended

\* Killed by somebody else than its driver.
CellDies(d, c) ==
    /\ proc[d][c] \in Live /\ KillCell(d, c, "exit1")
    /\ UNCHANGED <<claims, pc, cur, pass, todo, sweep, ends>>

----------------------------------------------------------------------------

\* The steps that the code of a started driver takes by itself.
Code(d) ==
    \/ \E c \in Cells : ScanManifests(d, c) \/ Poll(d, c) \/ CloseKill(d, c)
    \/ ScanClaim(d) \/ ScanDone(d) \/ LoopEnds(d) \/ LoopTurns(d)
    \/ Kill(d) \/ Release(d) \/ Decide(d) \/ ReapDone(d)
    \/ DispatchHead(d) \/ DispatchDone(d) \/ Beat(d)
    \/ OpenWins(d) \/ OpenLoses(d) \/ StatSkips(d) \/ StatStale(d) \/ Steal(d)
    \/ Check(d) \/ Drop(d) \/ Launch(d) \/ LaunchFails(d)
    \/ CloseRelease(d) \/ Finish(d) \/ Raise(d)

Cell(d, c) ==
    \/ CellOpens(d, c) \/ CellAborts(d, c) \/ CellSealsOk(d, c)
    \/ CellFails(d, c) \/ CellExits(d, c) \/ CellDies(d, c)

\* Every driver has ended, and so has every subprocess.
AllOver ==
    /\ \A d \in Drivers : pc[d] = "over" /\ \A c \in Cells : proc[d][c] \notin Live
    /\ UNCHANGED vars

Next ==
    \/ \E d \in Drivers : Start(d) \/ Code(d) \/ Signal(d) \/ Crash(d)
    \/ \E d \in Drivers, c \in Cells : Cell(d, c) \/ TimesOut(d, c)
    \/ \E c \in Cells : GoStale(c)
    \/ AllOver

Spec == Init /\ [][Next]_vars

\* A started driver keeps running its code, and its clock keeps running.
Fairness ==
    /\ \A d \in Drivers : WF_vars(Code(d))
    /\ \A d \in Drivers, c \in Cells : WF_vars(TimesOut(d, c))

FairSpec == Spec /\ Fairness

----------------------------------------------------------------------------
(* Properties. *)

\* Whatever fails: a claim file on disk was created by a driver that still has
\* the cell in hand, unless its creator was killed or left by an exception.  A
\* driver that ends normally or by a signal leaks no claim.
ClaimsAccounted ==
    \A d \in Drivers, c \in Cells :
        holder[c] = d => Tends(d, c) \/ exit[d] \in {"crash", "raised"}

\* Whatever fails: a driver queues a cell at most once, never while it runs or
\* once it has a result, and never with its attempts used up.  Requeues, the
\* retry of a failed dispatch and the pop after it keep the queue straight.
QueueSound ==
    \A d \in Drivers :
        /\ IsInjective(pending[d])
        /\ Queued(d) \cap running[d] = {}
        /\ \A c \in Queued(d) \cup running[d] : results[d][c] = "none"
        /\ \A c \in Queued(d) : attempts[d][c] < MaxAttempts

\* No driver killed, stalled or raising: every live subprocess is covered by
\* the claim of the driver that started it, on disk and alive.  So no cell has
\* two live subprocesses, and a running manifest whose claim is missing or
\* stale is a dead run, which ledger_status relies on.
LiveCellClaimed ==
    \A d \in Drivers, c \in Cells :
        proc[d][c] \in Live => holder[c] = d /\ ~stale[c]

\* No driver killed, stalled or raising: a subprocess is started only for a
\* cell that has no ok manifest, although dispatch read the ledger before.
NeverRerun ==
    [][\A d \in Drivers, c \in Cells :
        proc[d][c] \notin Live /\ proc'[d][c] \in Live => ~LedgerOk(c)]_vars

\* The cell is still on this driver's hands.
Owes(d, c) ==
    /\ pc[d] # "over"
    /\ \/ c \in todo[d] /\ pc[d] \in {"scan", "scanClaim"}
       \/ c \in Queued(d) \cup running[d]
       \/ c = cur[d] /\ pc[d] \in {"scanClaim", "decide"}

\* No driver killed, stalled or raising: once a driver has looked at a cell, the
\* cell is done, or on some driver's hands, or reported failed or timed out, or
\* a driver was told to stop.  Deferring to the holder of a claim never drops a
\* cell between the two.
NoCellLost ==
    \A c \in Cells :
        \/ LedgerOk(c)
        \/ \A d \in Drivers : pc[d] = "off"
        \/ \E d \in Drivers :
              Owes(d, c) \/ results[d][c] \in {"failed", "timeout"} \/ shutdown[d]

\* A driver that was started ends, if its cells do not: job_timeout_s and
\* max_attempts bound what it waits for.
SweepEnds == \A d \in Drivers : pc[d] # "off" ~> pc[d] = "over"

\* Without crashes, stalls and exceptions the claims are the leases of CellLease.
Lease == INSTANCE CellLease WITH
    owner <- holder,
    busy <- {c \in Cells : \E d \in Drivers : proc[d][c] \in Live},
    done <- {c \in Cells : LedgerOk(c)}

ImplementsLease == Lease!Spec
=============================================================================
