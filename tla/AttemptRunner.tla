--------------------------- MODULE AttemptRunner ---------------------------
(***************************************************************************)
(* runner.py and sandbox.py: SubprocessRunner.submit and the processes of  *)
(* the attempt it runs.  The leader (the shell, or bwrap around it) leads  *)
(* a session of its own; a worker stays in its process group, an escapee   *)
(* has called setsid.  Every process inherits the output pipes and may     *)
(* close them.  communicate() needs the leader's status and the end of     *)
(* both pipes.                                                             *)
(*                                                                         *)
(* Under bwrap the processes share a namespace that dies with the leader,  *)
(* and the leader dies with the cell (--unshare-all --die-with-parent); a  *)
(* signal or a dying namespace kills a process some time later.            *)
(***************************************************************************)
EXTENDS Integers, FiniteSets

VARIABLES
    sandbox,    \* the runner confines its attempts
    run,        \* idle, communicate, grace, drain or returned
    alive,      \* processes of the attempt that run
    doomed,     \* those on which SIGKILL, or a fatal SIGTERM, is under way
    holders,    \* those that hold the write end of a pipe
    status,     \* the leader's exit code
    exit,       \* Submission.exit_code
    stray       \* something of an earlier attempt was left to run

runnerVars == <<sandbox, run, alive, doomed, holders, status, exit, stray>>

Processes == {"leader", "worker", "escapee"}
Group == {"leader", "worker"}
TIMEOUT_EXIT == 124

RunnerInit ==
    /\ sandbox \in BOOLEAN
    /\ run = "idle"
    /\ alive = {} /\ doomed = {} /\ holders = {}
    /\ status = 0 /\ exit = 0
    /\ stray = FALSE

\* Popen; an earlier attempt's leftovers are in groups that nobody signals again.
Submit ==
    /\ run = "idle" /\ run' = "communicate"
    /\ alive' = {"leader"} /\ holders' = {"leader"} /\ doomed' = {}
    /\ stray' = (stray \/ ~(alive \subseteq doomed))
    /\ UNCHANGED <<sandbox, status, exit>>

Communicated ==
    /\ run = "communicate" /\ "leader" \notin alive /\ holders = {}
    /\ run' = "returned" /\ exit' = status
    /\ UNCHANGED <<sandbox, stray, alive, doomed, holders, status>>

\* TimeoutExpired: _kill_group sends SIGTERM, which a process may survive.
TimesOut ==
    /\ run = "communicate" /\ run' = "grace"
    /\ \E dying \in SUBSET (Group \cap alive) : doomed' = doomed \cup dying
    /\ UNCHANGED <<sandbox, stray, alive, holders, status, exit>>

\* Wrong variant: proc.kill() instead of killpg.
KillLeader ==
    /\ run = "grace" /\ run' = "drain"
    /\ doomed' = doomed \cup ({"leader"} \cap alive)
    /\ UNCHANGED <<sandbox, stray, alive, holders, status, exit>>

\* The leader is reaped or the grace is over: SIGKILL to what the group still is.
KillGroup ==
    /\ run = "grace" /\ run' = "drain"
    /\ doomed' = doomed \cup (Group \cap alive)
    /\ UNCHANGED <<sandbox, stray, alive, holders, status, exit>>

\* The second communicate() has no timeout.
Drained ==
    /\ run = "drain" /\ "leader" \notin alive /\ holders = {}
    /\ run' = "returned" /\ exit' = TIMEOUT_EXIT
    /\ UNCHANGED <<sandbox, stray, alive, doomed, holders, status>>

RunnerStep == Communicated \/ TimesOut \/ KillGroup \/ Drained

----------------------------------------------------------------------------
(* The attempt's processes and the kernel. *)

\* Wrong variant: the namespace outlives its leader (no --die-with-parent).
NothingMore == {}

\* What dies because its leader, or the cell, is gone.
Condemned == IF sandbox THEN alive ELSE {}

Gone(p) ==
    /\ alive' = alive \ {p} /\ holders' = holders \ {p}
    /\ doomed' = IF p = "leader" THEN (doomed \cup Condemned) \ {p} ELSE doomed \ {p}
    /\ UNCHANGED <<sandbox, stray, run, exit>>

\* Who can still fork into the leader's group or out of it: not a process with a
\* fatal signal pending, but the command behind a dying bwrap.
Forking == {q \in Group \cap alive : q \notin doomed \/ (sandbox /\ q = "leader")}

Spawns(p) ==
    /\ p \in {"worker", "escapee"} \ alive
    /\ alive' = alive \cup {p}
    /\ \E q \in Forking :
          holders' = IF q \in holders THEN holders \cup {p} ELSE holders
    /\ UNCHANGED <<sandbox, stray, run, doomed, status, exit>>

ClosesPipes(p) ==
    /\ p \in holders /\ holders' = holders \ {p}
    /\ UNCHANGED <<sandbox, stray, run, alive, doomed, status, exit>>

Exits(p) ==
    /\ p \in alive /\ Gone(p)
    /\ IF p = "leader" THEN status' \in {0, 1} ELSE UNCHANGED status

Dies(p) ==
    /\ p \in doomed /\ Gone(p)
    /\ status' = IF p = "leader" THEN -9 ELSE status

AgentStep == \E p \in Processes : Spawns(p) \/ ClosesPipes(p) \/ Exits(p)

KernelStep == \E p \in Processes : Dies(p)

\* The process that called submit is gone.
CallerGone ==
    /\ doomed' = doomed \cup Condemned
    /\ UNCHANGED <<sandbox, stray, run, alive, holders, status, exit>>
=============================================================================
