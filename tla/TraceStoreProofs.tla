--------------------------- MODULE TraceStoreProofs ---------------------------
(***************************************************************************)
(* What holds of a run directory for any number of writers, lines, faults  *)
(* and kills, whichever steps of close may raise.                          *)
(***************************************************************************)
EXTENDS TraceStore, SequenceTheorems, TLAPS

Final == {"ok", "failed"}

\* Where the lines are at each step of a writer: complete in the raw trace while
\* the run is not sealed, and in the gzip from its writing to the unlink.
Held ==
    /\ pc \in {"attach", "open"} => manifest = "running" /\ attaches > 0
    /\ pc \in {"attach", "open"} => seq <= Len(log)
    /\ pc \in {"open"} \cup Steps => raw = log
    /\ pc \in {"manifest", "unlink"} => GzipHasLog
    /\ pc = "unlink" => manifest \in Final
    /\ pc = "rmtree" => manifest \notin Final
    /\ manifest \notin Final => raw = log \/ (raw = None /\ log = <<>>)
    /\ manifest \in Final => raw = log \/ GzipHasLog

\* A sealed run is nobody's, or its writer is about to remove the raw trace,
\* unless that removal failed once.
Sealed ==
    manifest \in Final /\ ~UnlinkFailed => GzipHasLog /\ pc \in Nobody \cup {"unlink"}

StoreInv == TypeOK /\ Held /\ Sealed

\* The lines of the present writer are numbered below its next seq.
Numbered ==
    \A i \in 1..Len(log) :
        /\ log[i].writer <= attaches
        /\ pc = "attach" => log[i].writer < attaches
        /\ pc = "open" /\ log[i].writer = attaches => log[i].seq < seq

SeqInv == StoreInv /\ Numbered /\ SeqOrders

\* An open trace is not a missing one.
LEMMA LinesAreNotNone ==
    \A s \in Seq(Line) : s # None
  BY NoneAssumption

LEMMA WrittenIsLine ==
    ASSUME StoreInv, pc = "open", Len(log) < MaxLines, NEW torn \in BOOLEAN
    PROVE  Written(torn) \in Line
  BY BoundsAssumption DEF StoreInv, TypeOK, Held, Written, Line

\* What raised is remembered.
LEMMA FaultsAppend ==
    ASSUME TypeOK, NEW what \in Raisers, Faults(what)
    PROVE  /\ faults' \in Seq(Raisers) /\ Len(faults') <= MaxFaults
           /\ what = "unlink" => UnlinkFailed'
           /\ UnlinkFailed => UnlinkFailed'
  <1>1. /\ faults \in Seq(Raisers)
        /\ faults' = Append(faults, what)
        /\ Len(faults) < MaxFaults /\ Len(faults) \in Nat
    BY DEF TypeOK, Faults
  <1>2. /\ Len(faults') = Len(faults) + 1
        /\ faults'[Len(faults) + 1] = what
        /\ \A i \in 1..Len(faults) : faults'[i] = faults[i]
    BY <1>1
  <1>3. faults' \in Seq(Raisers) /\ Len(faults') <= MaxFaults
    BY <1>1, <1>2, BoundsAssumption
  <1>4. what = "unlink" => UnlinkFailed'
    BY <1>1, <1>2 DEF UnlinkFailed
  <1>5. UnlinkFailed => UnlinkFailed'
    BY <1>1, <1>2 DEF UnlinkFailed
  <1>6. QED BY <1>3, <1>4, <1>5

\* The parts of TypeOK: the writer, and what is on disk.
WriterTyped ==
    /\ pc \in Steps \cup Nobody \cup {"attach", "open", "rmtree"}
    /\ status \in {"ok", "failed"} /\ exiting \in BOOLEAN
    /\ seq \in 0..MaxLines /\ attaches \in 0..MaxAttaches
    /\ faults \in Seq(Raisers) /\ Len(faults) <= MaxFaults

DiskTyped ==
    /\ manifest \in {None, "running", "ok", "failed"}
    /\ raw = None \/ raw \in Seq(Line)
    /\ gz = None \/ gz \in Gzip
    /\ log \in Seq(Line) /\ Len(log) <= MaxLines

RawOpen == pc \in {"open", "gzip", "gzipping", "manifest", "unlink"} => raw # None

\* TypeOK is proved part by part.
LEMMA TypeParts == TypeOK <=> WriterTyped /\ DiskTyped /\ RawOpen
  BY DEF TypeOK, WriterTyped, DiskTyped, RawOpen

LEMMA AppendLine ==
    ASSUME NEW s \in Seq(Line), NEW e \in Line
    PROVE  Append(s, e) \in Seq(Line) /\ Len(Append(s, e)) = Len(s) + 1
  OBVIOUS

LEMMA StoreInvInit == Init => StoreInv
  <1> SUFFICES ASSUME Init PROVE StoreInv
    OBVIOUS
  <1>1. WriterTyped
    <2>1. faults \in Seq(Raisers) /\ Len(faults) <= MaxFaults
      BY BoundsAssumption DEF Init
    <2>2. /\ pc \in Steps \cup Nobody \cup {"attach", "open", "rmtree"}
          /\ status \in {"ok", "failed"} /\ exiting \in BOOLEAN
      BY DEF Init, Nobody
    <2>3. seq \in 0..MaxLines /\ attaches \in 0..MaxAttaches
      BY BoundsAssumption DEF Init
    <2>4. QED BY <2>1, <2>2, <2>3 DEF WriterTyped
  <1>2. DiskTyped /\ RawOpen
    BY BoundsAssumption DEF Init, DiskTyped, RawOpen
  <1>3. Held
    BY NoneAssumption DEF Init, Held, Final, Steps
  <1>4. Sealed
    BY NoneAssumption DEF Init, Sealed, Final
  <1>5. QED BY <1>1, <1>2, <1>3, <1>4, TypeParts DEF StoreInv

LEMMA StoreInvNext == StoreInv /\ [Next]_vars => StoreInv'
  <1> SUFFICES ASSUME StoreInv, [Next]_vars PROVE StoreInv'
    OBVIOUS
  <1>0. /\ TypeOK /\ Held /\ Sealed
        /\ WriterTyped /\ DiskTyped /\ RawOpen
        /\ log \in Seq(Line) /\ Len(log) \in Nat
    BY TypeParts DEF StoreInv, DiskTyped
  <1>t. WriterTyped' /\ DiskTyped' /\ RawOpen' /\ Held' /\ Sealed' => StoreInv'
    BY TypeParts DEF StoreInv, WriterTyped, DiskTyped, RawOpen, TypeOK
  <1>1. CASE Attach
    <2>1. WriterTyped'
      BY <1>0, <1>1, BoundsAssumption DEF WriterTyped, Attach
    <2>2. DiskTyped'
      BY <1>0, <1>1 DEF DiskTyped, Attach
    <2>3. RawOpen'
      BY <1>0, <1>1 DEF RawOpen, Steps, Attach
    <2>4. Held'
      BY <1>0, <1>1 DEF Held, Final, GzipHasLog, Steps, Attachable, WriterTyped, Attach
    <2>5. Sealed'
      BY <1>0, <1>1 DEF Sealed, Final, Attach
    <2>6. QED BY <1>t, <2>1, <2>2, <2>3, <2>4, <2>5
  <1>2. CASE OpenRaw
    <2>1. raw' = log /\ log' = log
      BY <1>0, <1>2, LinesAreNotNone DEF OpenRaw, OpenAppends, Held, Final
    <2>2. raw' \in Seq(Line) /\ raw' # None
      BY <1>0, <2>1, LinesAreNotNone
    <2>3. WriterTyped'
      BY <1>0, <1>2, <2>1, <2>2, BoundsAssumption DEF WriterTyped, Nobody, Steps, OpenRaw
    <2>4. DiskTyped'
      BY <1>0, <1>2, <2>1, <2>2 DEF DiskTyped, OpenRaw
    <2>5. RawOpen'
      BY <1>0, <1>2, <2>1, <2>2 DEF RawOpen, Steps, OpenRaw
    <2>6. Held'
      BY <1>0, <1>2, <2>1, <2>2 DEF Held, Final, Steps, WriterTyped, OpenRaw
    <2>7. Sealed'
      BY <1>0, <1>2, <2>1, <2>2 DEF Sealed, Final, GzipHasLog, UnlinkFailed, Nobody, OpenRaw
    <2>8. QED BY <1>t, <2>3, <2>4, <2>5, <2>6, <2>7
  <1>3. CASE Emit
    <2>1. Written(FALSE) \in Line
      BY <1>3, WrittenIsLine DEF Emit
    <2>2. raw = log /\ raw' = log' /\ log' = Append(log, Written(FALSE))
      BY <1>0, <1>3 DEF Emit, Held
    <2>3. log' \in Seq(Line) /\ Len(log') = Len(log) + 1 /\ log' # None
      BY <1>0, <2>1, <2>2, AppendLine, LinesAreNotNone
    <2>4. Len(log') <= MaxLines
      BY <1>0, <2>3, <1>3, BoundsAssumption DEF Emit
    <2>5. WriterTyped'
      BY <1>0, <1>3, <2>1, <2>2, <2>3, <2>4, BoundsAssumption
      DEF WriterTyped, Held, Emit, NextSeq
    <2>6. DiskTyped'
      BY <1>0, <1>3, <2>1, <2>2, <2>3, <2>4 DEF DiskTyped, Emit
    <2>7. RawOpen'
      BY <1>0, <1>3, <2>1, <2>2, <2>3, <2>4 DEF RawOpen, Emit
    <2>8. Held'
      BY <1>0, <1>3, <2>1, <2>2, <2>3, <2>4
      DEF Held, Final, Steps, WriterTyped, Emit, NextSeq
    <2>9. Sealed'
      BY <1>0, <1>3, <2>1, <2>2, <2>3, <2>4 DEF Held, Sealed, Final, Emit
    <2>10. QED BY <1>t, <2>5, <2>6, <2>7, <2>8, <2>9
  <1>4. CASE Close
    <2>1. /\ faults' \in Seq(Raisers) /\ Len(faults') <= MaxFaults
          /\ UnlinkFailed => UnlinkFailed'
      <3>1. CASE UNCHANGED faults
        BY <1>0, <3>1 DEF WriterTyped, UnlinkFailed
      <3>2. CASE Faults("body")
        BY <1>0, <3>2, FaultsAppend DEF Raisers
      <3>3. QED BY <1>4, <3>1, <3>2 DEF Close
    <2>2. WriterTyped'
      BY <1>0, <1>4, <2>1, BoundsAssumption DEF WriterTyped, Nobody, Steps, Close
    <2>3. DiskTyped'
      BY <1>0, <1>4, <2>1 DEF DiskTyped, Close
    <2>4. RawOpen'
      BY <1>0, <1>4, <2>1 DEF RawOpen, Steps, Close
    <2>5. Held'
      BY <1>0, <1>4, <2>1 DEF Held, Final, GzipHasLog, Steps, Close
    <2>6. Sealed'
      BY <1>0, <1>4, <2>1 DEF Held, Sealed, Final, Close
    <2>7. QED BY <1>t, <2>2, <2>3, <2>4, <2>5, <2>6
  <1>5. CASE GzipOpens
    <2>1. raw = log /\ raw' = raw /\ log' = log
      BY <1>0, <1>5 DEF GzipOpens, Held, Steps
    <2>2. gz' \in Gzip
      BY <1>5 DEF GzipOpens, Gzip
    <2>3. WriterTyped'
      BY <1>0, <1>5, <2>1, <2>2, BoundsAssumption DEF WriterTyped, Nobody, Steps, GzipOpens
    <2>4. DiskTyped'
      BY <1>0, <1>5, <2>1, <2>2 DEF DiskTyped, GzipOpens
    <2>5. RawOpen'
      BY <1>0, <1>5, <2>1, <2>2 DEF RawOpen, Steps, GzipOpens
    <2>6. Held'
      BY <1>0, <1>5, <2>1, <2>2 DEF Held, Final, Steps, GzipOpens
    <2>7. Sealed'
      BY <1>0, <1>5, <2>1, <2>2 DEF Sealed, Final, Nobody, UnlinkFailed, GzipOpens
    <2>8. QED BY <1>t, <2>3, <2>4, <2>5, <2>6, <2>7
  <1>6. CASE GzipWrites
    <2>1. raw = log /\ raw' = raw /\ log' = log /\ gz' = [lines |-> raw, whole |-> TRUE]
      BY <1>0, <1>6 DEF GzipWrites, Held, Steps
    <2>2. gz' \in Gzip
      BY <1>0, <2>1 DEF Gzip
    <2>3. GzipHasLog'
      BY <2>1, <2>2, NoneAssumption DEF GzipHasLog
    <2>4. WriterTyped'
      BY <1>0, <1>6, <2>1, <2>2, <2>3, BoundsAssumption
      DEF WriterTyped, Nobody, Steps, GzipWrites
    <2>5. DiskTyped'
      BY <1>0, <1>6, <2>1, <2>2, <2>3 DEF DiskTyped, GzipWrites
    <2>6. RawOpen'
      BY <1>0, <1>6, <2>1, <2>2, <2>3 DEF RawOpen, Steps, GzipWrites
    <2>7. Held'
      BY <1>0, <1>6, <2>1, <2>2, <2>3 DEF Held, Final, Steps, GzipWrites
    <2>8. Sealed'
      BY <1>0, <1>6, <2>1, <2>2, <2>3 DEF Sealed, Final, Nobody, UnlinkFailed, GzipWrites
    <2>9. QED BY <1>t, <2>4, <2>5, <2>6, <2>7, <2>8
  <1>7. CASE WriteManifest
    <2>1. GzipHasLog /\ GzipHasLog'
      BY <1>0, <1>7 DEF WriteManifest, Held, GzipHasLog
    <2>2. WriterTyped'
      BY <1>0, <1>7, <2>1, BoundsAssumption DEF WriterTyped, Nobody, Steps, WriteManifest
    <2>3. DiskTyped'
      BY <1>0, <1>7, <2>1 DEF DiskTyped, WriterTyped, WriteManifest
    <2>4. RawOpen'
      BY <1>0, <1>7, <2>1 DEF RawOpen, Steps, WriteManifest
    <2>5. Held'
      BY <1>0, <1>7, <2>1 DEF Held, Final, Steps, WriterTyped, WriteManifest
    <2>6. Sealed'
      BY <1>0, <1>7, <2>1 DEF Sealed, Final, Nobody, WriteManifest
    <2>7. QED BY <1>t, <2>2, <2>3, <2>4, <2>5, <2>6
  <1>8. CASE Unlink
    <2>1. GzipHasLog /\ GzipHasLog'
      BY <1>0, <1>8 DEF Unlink, Held, GzipHasLog
    <2>2. manifest' \in Final
      BY <1>0, <1>8 DEF Unlink, Held, Final
    <2>3. WriterTyped'
      BY <1>0, <1>8, <2>1, <2>2, BoundsAssumption DEF WriterTyped, Nobody, Steps, Unlink
    <2>4. DiskTyped'
      BY <1>0, <1>8, <2>1, <2>2 DEF DiskTyped, WriterTyped, Unlink
    <2>5. RawOpen'
      BY <1>0, <1>8, <2>1, <2>2 DEF RawOpen, Steps, Unlink
    <2>6. Held'
      BY <1>0, <1>8, <2>1, <2>2 DEF Held, Steps, Unlink
    <2>7. Sealed'
      BY <1>0, <1>8, <2>1, <2>2 DEF Sealed, Final, Nobody, Unlink
    <2>8. QED BY <1>t, <2>3, <2>4, <2>5, <2>6, <2>7
  <1>9. CASE CloseRaises
    <2>1. pc \in Steps /\ pc \in Raisers /\ Faults(pc) /\ pc' \in {"gone", "gzip"}
      BY <1>9, FaultsAssumption DEF CloseRaises, AfterRaise, Raisers
    <2>2. /\ faults' \in Seq(Raisers) /\ Len(faults') <= MaxFaults
          /\ pc = "unlink" => UnlinkFailed'
          /\ UnlinkFailed => UnlinkFailed'
      BY <1>0, <2>1, FaultsAppend
    <2>3. WriterTyped'
      BY <1>0, <1>9, <2>1, <2>2 DEF WriterTyped, Nobody, Steps, CloseRaises
    <2>4. DiskTyped'
      BY <1>0, <1>9, <2>1, <2>2 DEF DiskTyped, CloseRaises, disk
    <2>5. RawOpen'
      BY <1>0, <1>9, <2>1, <2>2 DEF RawOpen, Steps, CloseRaises, disk
    <2>6. Held'
      BY <1>0, <1>9, <2>1, <2>2 DEF Held, Final, GzipHasLog, Steps, CloseRaises, disk
    <2>7. Sealed'
      BY <1>0, <1>9, <2>1, <2>2
      DEF Sealed, Final, GzipHasLog, Nobody, Steps, CloseRaises, disk
    <2>8. QED BY <1>t, <2>3, <2>4, <2>5, <2>6, <2>7
  <1>10. CASE Discard
    <2>1. WriterTyped'
      BY <1>0, <1>10, BoundsAssumption DEF WriterTyped, Nobody, Steps, Discard
    <2>2. DiskTyped'
      BY <1>0, <1>10 DEF DiskTyped, Discard
    <2>3. RawOpen'
      BY <1>0, <1>10 DEF RawOpen, Steps, Discard
    <2>4. Held'
      BY <1>0, <1>10 DEF Held, Final, GzipHasLog, Steps, Discard
    <2>5. Sealed'
      BY <1>0, <1>10 DEF Sealed, Final, GzipHasLog, UnlinkFailed, Nobody, Discard
    <2>6. QED BY <1>t, <2>1, <2>2, <2>3, <2>4, <2>5
  <1>11. CASE Remove
    <2>1. pc' = pc /\ pc = "rmtree" /\ manifest \notin Final
      BY <1>0, <1>11 DEF Remove, Held
    <2>2. manifest' \notin Final
      BY <2>1, <1>11, NoneAssumption DEF Remove, Final
    <2>3. log' \in Seq(Line) /\ Len(log') <= MaxLines
      <3>1. CASE log' = log
        BY <1>0, <3>1 DEF DiskTyped
      <3>2. CASE log' = <<>>
        BY <3>2, BoundsAssumption
      <3>3. QED BY <1>11, <3>1, <3>2 DEF Remove
    <2>4. WriterTyped'
      BY <1>0, <1>11, <2>1, <2>2, <2>3 DEF WriterTyped, Remove
    <2>5. DiskTyped'
      BY <1>0, <1>11, <2>1, <2>2, <2>3 DEF DiskTyped, Remove
    <2>6. RawOpen'
      BY <1>0, <1>11, <2>1, <2>2, <2>3 DEF RawOpen
    <2>7. Held'
      BY <1>0, <1>11, <2>1, <2>2, <2>3 DEF Held, Steps, Remove
    <2>8. Sealed'
      BY <1>0, <1>11, <2>1, <2>2, <2>3 DEF Sealed
    <2>9. QED BY <1>t, <2>4, <2>5, <2>6, <2>7, <2>8
  <1>12. CASE Removed
    <2>1. /\ faults' \in Seq(Raisers) /\ Len(faults') <= MaxFaults
          /\ UnlinkFailed => UnlinkFailed'
      <3>1. CASE UNCHANGED faults
        BY <1>0, <3>1 DEF WriterTyped, UnlinkFailed
      <3>2. CASE Faults("rmtree")
        BY <1>0, <3>2, FaultsAppend DEF Raisers
      <3>3. QED BY <1>12, <3>1, <3>2 DEF Removed
    <2>2. WriterTyped'
      BY <1>0, <1>12, <2>1, BoundsAssumption DEF WriterTyped, Nobody, Steps, Removed
    <2>3. DiskTyped'
      BY <1>0, <1>12, <2>1 DEF DiskTyped, Removed, disk
    <2>4. RawOpen'
      BY <1>0, <1>12, <2>1 DEF RawOpen, Removed
    <2>5. Held'
      BY <1>0, <1>12, <2>1 DEF Held, Final, Steps, Removed, disk
    <2>6. Sealed'
      BY <1>0, <1>12, <2>1 DEF Held, Sealed, Final, Removed, disk
    <2>7. QED BY <1>t, <2>2, <2>3, <2>4, <2>5, <2>6
  <1>13. CASE Kill
    <2>1. pc' = "killed" /\ manifest' = manifest /\ gz' = gz
      BY <1>13 DEF Kill
    <2>2. CASE UNCHANGED <<raw, log>>
      <3>1. WriterTyped' /\ DiskTyped'
        BY <1>0, <1>13, <2>2 DEF WriterTyped, DiskTyped, Nobody, Kill
      <3>2. RawOpen' /\ Held' /\ Sealed'
        BY <1>0, <1>13, <2>1, <2>2
        DEF RawOpen, Held, Sealed, GzipHasLog, UnlinkFailed, Nobody, Steps, Kill
      <3>3. QED BY <1>t, <3>1, <3>2
    <2>3. CASE /\ pc = "open" /\ Len(log) < MaxLines
               /\ raw' = Append(raw, Written(TRUE)) /\ log' = Append(log, Written(TRUE))
      <3>1. Written(TRUE) \in Line
        BY <2>3, WrittenIsLine
      <3>2. raw' = log' /\ log' \in Seq(Line) /\ Len(log') = Len(log) + 1
        BY <1>0, <2>3, <3>1, AppendLine DEF Held
      <3>3. manifest \notin Final
        BY <1>0, <2>3 DEF Held, Final
      <3>4. WriterTyped'
        BY <1>0, <1>13 DEF WriterTyped, Nobody, Kill
      <3>5. Len(log') <= MaxLines
        BY <1>0, <2>3, <3>2, BoundsAssumption
      <3>6. DiskTyped'
        BY <1>0, <2>1, <3>2, <3>5 DEF DiskTyped
      <3>7. RawOpen' /\ Held' /\ Sealed'
        BY <2>1, <3>2, <3>3 DEF RawOpen, Held, Sealed, Steps
      <3>8. QED BY <1>t, <3>4, <3>6, <3>7
    <2>4. QED BY <1>13, <2>2, <2>3 DEF Kill
  <1>14. CASE UNCHANGED vars
    <2>1. WriterTyped' /\ DiskTyped' /\ RawOpen'
      BY <1>0, <1>14 DEF vars, disk, WriterTyped, DiskTyped, RawOpen
    <2>2. Held' /\ Sealed'
      BY <1>0, <1>14 DEF vars, disk, Held, Sealed, GzipHasLog, UnlinkFailed
    <2>3. QED BY <1>t, <2>1, <2>2
  <1>15. QED
    BY <1>1, <1>2, <1>3, <1>4, <1>5, <1>6, <1>7, <1>8, <1>9, <1>10, <1>11, <1>12, <1>13,
       <1>14 DEF Next, Step

\* Every step of a writer keeps the invariant, so it always holds.
THEOREM StoreInvariant == Spec => []StoreInv
  BY StoreInvInit, StoreInvNext, PTL DEF Spec

\* Every reachable state of the run directory is typed.
THEOREM StoreTypeCorrect == Spec => []TypeOK
  BY StoreInvariant, PTL DEF StoreInv

\* A finalised run holds its whole trace: close writes the gzip, then the
\* manifest, then removes the raw file.
THEOREM SealedRunHoldsItsTrace == Spec => []SealedIsWhole
  <1>1. StoreInv => SealedIsWhole
    BY DEF StoreInv, Sealed, SealedIsWhole, Final
  <1>2. QED BY <1>1, StoreInvariant, PTL

\* A running run can be closed again: its raw trace is complete.
THEOREM RunningRunIsRetryable == Spec => []RunningIsRetryable
  <1>1. StoreInv => RunningIsRetryable
    BY DEF StoreInv, Held, RunningIsRetryable, Final
  <1>2. QED BY <1>1, StoreInvariant, PTL

\* No kill and no failing step of close or discard loses a line.
THEOREM NoLineIsLost == Spec => []NothingLost
  <1>1. StoreInv => NothingLost
    BY DEF StoreInv, Held, NothingLost, Final
  <1>2. QED BY <1>1, StoreInvariant, PTL

\* Sealed is final: neither a later writer nor a second close changes the status.
THEOREM SealIsFinal == Spec => FinalStays
  <1>1. StoreInv /\ [Next]_vars
        => [(manifest \in {"ok", "failed"} /\ ~UnlinkFailed)
                => (manifest' = manifest)]_manifest
    BY DEF StoreInv, Sealed, Final, Nobody, Next, Step, vars, disk, Attach, Attachable,
           OpenRaw, Emit, Close, GzipOpens, GzipWrites, WriteManifest, Unlink,
           CloseRaises, Discard, Remove, Removed, Kill
  <1>2. QED BY <1>1, StoreInvariant, PTL DEF Spec, FinalStays

LEMMA LogIsTyped ==
    ASSUME StoreInv, NEW i \in 1..Len(log)
    PROVE  log[i].writer \in Nat /\ log[i].seq \in Nat
  <1>1. log \in Seq(Line)
    BY DEF StoreInv, TypeOK
  <1>2. log[i] \in Line
    BY <1>1
  <1>3. QED BY <1>2, BoundsAssumption DEF Line

\* A line added by the present writer, torn or not, is the highest of its own.
LEMMA NumberedAppend ==
    ASSUME SeqInv, pc = "open", Len(log) < MaxLines, NEW torn \in BOOLEAN,
           log' = Append(log, Written(torn))
    PROVE  /\ \A i \in 1..Len(log') :
                 /\ log'[i].writer <= attaches
                 /\ log'[i].writer = attaches => log'[i].seq < seq + 1
           /\ SeqOrders'
  <1>1. /\ log \in Seq(Line) /\ Written(torn) \in Line /\ Len(log) \in Nat
        /\ Written(torn).writer = attaches /\ Written(torn).seq = seq
        /\ seq \in Nat /\ attaches \in Nat
    BY WrittenIsLine, BoundsAssumption DEF SeqInv, StoreInv, TypeOK, Written
  <1>2. /\ Len(log') = Len(log) + 1
        /\ log'[Len(log) + 1] = Written(torn)
        /\ \A i \in 1..Len(log) : log'[i] = log[i]
    BY <1>1
  <1>3. \A i \in 1..Len(log) :
            /\ log[i].seq \in Nat
            /\ log[i].writer <= attaches
            /\ log[i].writer = attaches => log[i].seq < seq
    BY LogIsTyped DEF SeqInv, Numbered
  <1>4. \A i, j \in 1..Len(log) :
            i < j /\ log[i].writer = log[j].writer => log[i].seq < log[j].seq
    BY DEF SeqInv, SeqOrders
  <1>5. \A i \in 1..Len(log') : i \in 1..Len(log) \/ i = Len(log) + 1
    BY <1>1, <1>2
  <1>6. \A i \in 1..Len(log') :
            /\ log'[i].writer <= attaches
            /\ log'[i].writer = attaches => log'[i].seq < seq + 1
    BY <1>1, <1>2, <1>3, <1>5
  <1>7. ASSUME NEW i \in 1..Len(log'), NEW j \in 1..Len(log'),
               i < j, log'[i].writer = log'[j].writer
        PROVE  log'[i].seq < log'[j].seq
    <2>1. i \in 1..Len(log)
      BY <1>1, <1>2, <1>7
    <2>2. CASE j \in 1..Len(log)
      BY <1>2, <1>4, <1>7, <2>1, <2>2
    <2>3. CASE j = Len(log) + 1
      BY <1>1, <1>2, <1>3, <1>7, <2>1, <2>3
    <2>4. QED BY <1>5, <2>2, <2>3
  <1>8. QED BY <1>6, <1>7 DEF SeqOrders

LEMMA SeqInvNext == SeqInv /\ [Next]_vars => SeqInv'
  <1> SUFFICES ASSUME SeqInv, [Next]_vars PROVE SeqInv'
    OBVIOUS
  <1>1. StoreInv /\ StoreInv'
    BY StoreInvNext DEF SeqInv
  <1>2. CASE Attach
    <2>1. log' = log /\ attaches' = attaches + 1 /\ pc' = "attach"
      BY <1>2 DEF Attach
    <2>2. \A i \in 1..Len(log) : log[i].writer \in Nat /\ log[i].writer <= attaches
      BY <1>1, LogIsTyped DEF SeqInv, Numbered
    <2>3. attaches \in Nat
      BY <1>1 DEF StoreInv, TypeOK
    <2>4. QED BY <1>1, <2>1, <2>2, <2>3 DEF SeqInv, Numbered, SeqOrders
  <1>3. CASE OpenRaw
    <2>1. \A i \in 1..Len(log) : log[i].writer \in Nat /\ log[i].writer < attaches
      BY <1>1, <1>3, LogIsTyped DEF SeqInv, Numbered, OpenRaw
    <2>2. attaches \in Nat
      BY <1>1 DEF StoreInv, TypeOK
    <2>3. QED BY <1>1, <1>3, <2>1, <2>2 DEF SeqInv, Numbered, SeqOrders, OpenRaw
  <1>4. CASE Emit
    <2>1. /\ pc = "open" /\ pc' = "open" /\ Len(log) < MaxLines
          /\ log' = Append(log, Written(FALSE))
          /\ seq' = seq + 1 /\ attaches' = attaches
      BY <1>4 DEF Emit, NextSeq
    <2>2. QED BY <1>1, <2>1, NumberedAppend DEF SeqInv, Numbered
  <1>5. CASE Kill
    <2>1. CASE UNCHANGED <<raw, log>>
      BY <1>1, <1>5, <2>1 DEF SeqInv, Numbered, SeqOrders, Kill
    <2>2. CASE pc = "open" /\ Len(log) < MaxLines /\ log' = Append(log, Written(TRUE))
      <3>1. pc' = "killed" /\ attaches' = attaches
        BY <1>5 DEF Kill
      <3>2. QED BY <1>1, <2>2, <3>1, NumberedAppend DEF SeqInv, Numbered
    <2>3. QED BY <1>5, <2>1, <2>2 DEF Kill
  <1>6. CASE Remove
    <2>1. CASE log' = log
      BY <1>1, <1>6, <2>1 DEF SeqInv, Numbered, SeqOrders, Remove
    <2>2. CASE log' = <<>>
      <3>1. 1..Len(log') = {}
        BY <2>2
      <3>2. QED BY <1>1, <3>1 DEF SeqInv, Numbered, SeqOrders
    <2>3. QED BY <1>6, <2>1, <2>2 DEF Remove
  <1>7. CASE \/ Close \/ GzipOpens \/ GzipWrites \/ WriteManifest \/ Unlink
             \/ CloseRaises \/ Discard \/ Removed
    <2>1. log' = log /\ attaches' = attaches /\ pc' \notin {"attach", "open"}
      BY <1>7 DEF Close, GzipOpens, GzipWrites, WriteManifest, Unlink, CloseRaises,
                  AfterRaise, Discard, Removed, disk
    <2>2. QED BY <1>1, <2>1 DEF SeqInv, Numbered, SeqOrders
  <1>8. CASE UNCHANGED vars
    BY <1>1, <1>8 DEF SeqInv, Numbered, SeqOrders, vars, disk
  <1>9. QED BY <1>2, <1>3, <1>4, <1>5, <1>6, <1>7, <1>8 DEF Next, Step

\* seq tells the lines of one writer apart and orders them, torn lines and
\* directories taken over included.
THEOREM LinesAreOrdered == Spec => []SeqOrders
  <1>1. Init => SeqInv
    BY StoreInvInit DEF Init, SeqInv, Numbered, SeqOrders
  <1>2. Spec => []SeqInv
    BY <1>1, SeqInvNext, PTL DEF Spec
  <1>3. QED BY <1>2, PTL DEF SeqInv

=============================================================================
