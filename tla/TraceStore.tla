----------------------------- MODULE TraceStore -----------------------------
(***************************************************************************)
(* trace.py: one run directory, its manifest, its raw trace and its gzip,  *)
(* and the TraceWriters that hold it one after the other.  Every step of   *)
(* opening, sealing and discarding is a step here: a kill or a failing     *)
(* write may fall between any two of them.  What is on disk stays there.   *)
(*                                                                         *)
(* A line is the event's writer and seq, and whether it was cut off.       *)
(***************************************************************************)
EXTENDS Naturals, Sequences

CONSTANTS
    MaxAttaches, MaxLines, MaxFaults,   \* bounds of this model
    CloseFaults,    \* the steps of close that may raise
    Kills,          \* whether a writer may be killed
    None

Steps == {"gzip", "gzipping", "manifest", "unlink"}

\* What may raise besides: the body of the with block, a removal by discard.
Raisers == Steps \cup {"body", "rmtree"}

ASSUME BoundsAssumption == MaxAttaches \in Nat /\ MaxLines \in Nat /\ MaxFaults \in Nat
ASSUME FaultsAssumption == CloseFaults \subseteq Steps /\ Kills \in BOOLEAN

VARIABLES
    pc,         \* the writer: idle, attach, open, a step of close, rmtree, or its end
    status,     \* what close will write
    exiting,    \* close was called by __exit__, not by the body
    seq,        \* TraceWriter._seq
    manifest,   \* the status in manifest.json, or None
    raw,        \* the lines of trace.jsonl, or None
    gz,         \* trace.jsonl.gz: its lines and whether it is complete, or None
    log,        \* history: every line written and not discarded
    attaches,
    faults      \* history: what has raised so far, in order

vars == <<pc, status, exiting, seq, manifest, raw, gz, log, attaches, faults>>
disk == <<manifest, raw, gz, log>>

\* No writer holds the directory: none yet, closed, left by an exception, killed.
Nobody == {"idle", "closed", "gone", "killed"}

Line == [writer : 1..MaxAttaches, seq : 0..MaxLines, torn : BOOLEAN]
Gzip == [lines : Seq(Line), whole : BOOLEAN]

ASSUME NoneAssumption ==
    None \notin Seq(Line) \cup Gzip \cup {"running", "ok", "failed"}

Init ==
    /\ pc = "idle" /\ status = "ok" /\ exiting = FALSE /\ seq = 0
    /\ manifest = None /\ raw = None /\ gz = None /\ log = <<>>
    /\ attaches = 0 /\ faults = <<>>

----------------------------------------------------------------------------
(* Opening and writing. *)

\* Wrong variant: whatever the directory holds is taken over.
AttachesToAny == TRUE

\* A finalised run is refused; a running one is taken over.
Attachable == manifest \notin {"ok", "failed"}

Attach ==
    /\ pc \in Nobody /\ attaches < MaxAttaches /\ Attachable
    /\ pc' = "attach" /\ manifest' = "running"
    /\ seq' = 0 /\ attaches' = attaches + 1
    /\ UNCHANGED <<status, exiting, raw, gz, log, faults>>

\* Wrong variant: an existing trace is truncated.
OpenTruncates == <<>>

OpenAppends == IF raw = None THEN <<>> ELSE raw

OpenRaw ==
    /\ pc = "attach" /\ pc' = "open"
    /\ raw' = OpenAppends
    /\ UNCHANGED <<status, exiting, seq, manifest, gz, log, attaches, faults>>

Written(torn) == [writer |-> attaches, seq |-> seq, torn |-> torn]

NextSeq == seq + 1

Emit ==
    /\ pc = "open" /\ Len(log) < MaxLines
    /\ raw' = Append(raw, Written(FALSE)) /\ log' = Append(log, Written(FALSE))
    /\ seq' = NextSeq
    /\ UNCHANGED <<pc, status, exiting, manifest, gz, attaches, faults>>

\* Something raises.
Faults(what) == Len(faults) < MaxFaults /\ faults' = Append(faults, what)

----------------------------------------------------------------------------
(* close: gzip, manifest, unlink. *)

\* finalise closes from the body, as ok or failed; an exception reaches __exit__,
\* which closes as failed.
Close ==
    /\ pc = "open" /\ pc' = "gzip"
    /\ \/ status' \in {"ok", "failed"} /\ exiting' = FALSE /\ UNCHANGED faults
       \/ status' = "failed" /\ exiting' = TRUE /\ Faults("body")
    /\ UNCHANGED <<seq, manifest, raw, gz, log, attaches>>

\* Wrong variant: the manifest is finalised before anything else.
ManifestFirst ==
    /\ pc = "gzip" /\ pc' = "gzipping"
    /\ gz' = [lines |-> <<>>, whole |-> FALSE] /\ manifest' = status
    /\ UNCHANGED <<status, exiting, seq, raw, log, attaches, faults>>

GzipOpens ==
    /\ pc = "gzip" /\ pc' = "gzipping"
    /\ gz' = [lines |-> <<>>, whole |-> FALSE]
    /\ UNCHANGED <<status, exiting, seq, manifest, raw, log, attaches, faults>>

GzipWrites ==
    /\ pc = "gzipping" /\ pc' = "manifest"
    /\ gz' = [lines |-> raw, whole |-> TRUE]
    /\ UNCHANGED <<status, exiting, seq, manifest, raw, log, attaches, faults>>

WriteManifest ==
    /\ pc = "manifest" /\ pc' = "unlink"
    /\ manifest' = status
    /\ UNCHANGED <<status, exiting, seq, raw, gz, log, attaches, faults>>

Unlink ==
    /\ pc = "unlink" /\ pc' = "closed"
    /\ raw' = None
    /\ UNCHANGED <<status, exiting, seq, manifest, gz, log, attaches, faults>>

\* Wrong variant: __exit__ takes a close that raised for a close.
NoSecondTry == "gone"

\* _closed is set last: after a close that raised, __exit__ closes again.
AfterRaise == IF exiting THEN "gone" ELSE "gzip"

CloseRaises ==
    /\ pc \in CloseFaults /\ Faults(pc)
    /\ pc' = AfterRaise /\ exiting' = TRUE /\ status' = "failed"
    /\ UNCHANGED <<seq, disk, attaches>>

----------------------------------------------------------------------------
(* discard, and a kill. *)

\* rmtree takes the files one by one, in the order of the directory.
Discard ==
    /\ pc = "open" /\ pc' = "rmtree"
    /\ UNCHANGED <<status, exiting, seq, manifest, raw, gz, log, attaches, faults>>

Remove ==
    /\ pc = "rmtree"
    /\ \/ manifest # None /\ manifest' = None /\ UNCHANGED <<raw, gz, log>>
       \/ raw # None /\ raw' = None /\ log' = <<>> /\ UNCHANGED <<manifest, gz>>
       \/ gz # None /\ gz' = None /\ UNCHANGED <<manifest, raw, log>>
    /\ UNCHANGED <<pc, status, exiting, seq, attaches, faults>>

\* Its errors are ignored: a file that cannot be removed stays.
Removed ==
    /\ pc = "rmtree" /\ pc' = "closed"
    /\ \/ manifest = None /\ raw = None /\ gz = None /\ UNCHANGED faults
       \/ Faults("rmtree")
    /\ UNCHANGED <<status, exiting, seq, disk, attaches>>

\* A kill may cut the line that is being written.
Kill ==
    /\ Kills /\ pc \notin Nobody /\ pc' = "killed"
    /\ \/ UNCHANGED <<raw, log>>
       \/ /\ pc = "open" /\ Len(log) < MaxLines
          /\ raw' = Append(raw, Written(TRUE)) /\ log' = Append(log, Written(TRUE))
    /\ UNCHANGED <<status, exiting, seq, manifest, gz, attaches, faults>>

----------------------------------------------------------------------------

Step ==
    \/ Attach \/ OpenRaw \/ Emit
    \/ Close \/ GzipOpens \/ GzipWrites \/ WriteManifest \/ Unlink \/ CloseRaises
    \/ Discard \/ Remove \/ Removed \/ Kill

Next == Step \/ (pc \in Nobody /\ UNCHANGED vars)

Spec == Init /\ [][Next]_vars

\* A writer that was opened goes on: the body ends, and its calls return or raise.
FairSpec ==
    /\ Spec
    /\ WF_vars(OpenRaw \/ Close \/ GzipOpens \/ GzipWrites \/ WriteManifest \/ Unlink)
    /\ WF_vars(Remove \/ Removed)

----------------------------------------------------------------------------
(* read_events. *)

\* The lines up to the first that does not parse; what follows a torn line
\* is on that line.
Readable(lines) ==
    LET torn == {i \in 1..Len(lines) : lines[i].torn}
    IN IF torn = {} THEN lines
       ELSE SubSeq(lines, 1, (CHOOSE i \in torn : \A j \in torn : i <= j) - 1)

\* The gzip is preferred whenever it exists; an incomplete one ends in EOFError.
ReadEvents ==
    IF gz # None THEN [lines |-> Readable(gz.lines), raises |-> ~gz.whole]
    ELSE [lines |-> Readable(raw), raises |-> FALSE]

----------------------------------------------------------------------------
(* Properties. *)

TypeOK ==
    /\ pc \in Steps \cup Nobody \cup {"attach", "open", "rmtree"}
    /\ status \in {"ok", "failed"} /\ exiting \in BOOLEAN
    /\ manifest \in {None, "running", "ok", "failed"}
    /\ raw = None \/ raw \in Seq(Line)
    /\ gz = None \/ gz \in Gzip
    /\ log \in Seq(Line) /\ Len(log) <= MaxLines
    /\ attaches \in 0..MaxAttaches
    /\ faults \in Seq(Raisers) /\ Len(faults) <= MaxFaults
    /\ seq \in 0..MaxLines
    /\ pc \in {"open", "gzip", "gzipping", "manifest", "unlink"} => raw # None

\* The last step of close failed at some time.  The run is sealed by then, and
\* the second close, which opens the gzip again, makes it a failed one.
UnlinkFailed == \E i \in 1..Len(faults) : faults[i] = "unlink"

GzipHasLog == gz # None /\ gz.whole /\ gz.lines = log

\* A finalised run holds its whole trace, wherever it was killed or failed: what
\* the manifest announces, the readers of ok runs find in the gzip.
SealedIsWhole ==
    manifest \in {"ok", "failed"} /\ ~UnlinkFailed => GzipHasLog

\* The order of close: a run whose manifest says running can be closed again,
\* for its raw trace has every line that was written.
RunningIsRetryable ==
    manifest = "running" /\ log # <<>> => raw = log

\* No fault, not even a final unlink that fails and a second close that is killed,
\* loses a line: it is in the raw trace or in a complete gzip.
NothingLost == log # <<>> => raw = log \/ GzipHasLog

\* A run once sealed stays as it was sealed: no later writer turns it back, and
\* no second close unless the unlink of the first failed.
FinalStays ==
    [][(manifest \in {"ok", "failed"} /\ ~UnlinkFailed)
        => (manifest' = manifest)]_manifest

\* Within one writer's lines seq tells events apart and follows their order.
SeqOrders ==
    \A i, j \in 1..Len(log) :
        i < j /\ log[i].writer = log[j].writer => log[i].seq < log[j].seq

\* One exception, in the body or in close itself, never leaves a run running
\* unless it is being discarded: close tries again.  A kill does, or a second
\* exception.
RunIsSealed ==
    pc = "open" ~> (manifest # "running" \/ pc \in {"rmtree", "killed"} \/ Len(faults) > 1)
=============================================================================
