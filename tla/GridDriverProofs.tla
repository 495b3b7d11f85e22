-------------------------- MODULE GridDriverProofs --------------------------
(***************************************************************************)
(* What holds of GridDriver for any drivers, cells, workers and attempts.  *)
(***************************************************************************)
EXTENDS GridDriver, SequenceTheorems, TLAPS

----------------------------------------------------------------------------
(* The queue as a set. *)

LEMMA AppendQueue ==
    ASSUME NEW S, NEW s \in Seq(S), NEW x \in S
    PROVE  /\ Append(s, x) \in Seq(S)
           /\ ToSet(Append(s, x)) = ToSet(s) \cup {x}
           /\ IsInjective(s) /\ x \notin ToSet(s) => IsInjective(Append(s, x))
  <1> DEFINE t == Append(s, x)
  <1>1. /\ t \in Seq(S) /\ Len(t) = Len(s) + 1 /\ DOMAIN t = 1..Len(t)
        /\ DOMAIN s = 1..Len(s) /\ Len(s) \in Nat
        /\ \A i \in 1..Len(s) : t[i] = s[i]
        /\ t[Len(s) + 1] = x
    BY AppendProperties, LenProperties
  <1> HIDE DEF t
  <1>2. ToSet(t) = ToSet(s) \cup {x}
    <2>1. ASSUME NEW i \in DOMAIN t PROVE t[i] \in ToSet(s) \cup {x}
      <3>1. i \in 1..Len(s) \/ i = Len(s) + 1
        BY <1>1
      <3>2. QED BY <1>1, <3>1 DEF ToSet
    <2>2. ASSUME NEW i \in DOMAIN s PROVE s[i] \in ToSet(t)
      <3>1. i \in DOMAIN t /\ t[i] = s[i]
        BY <1>1
      <3>2. QED BY <3>1 DEF ToSet
    <2>3. x \in ToSet(t)
      <3>1. Len(s) + 1 \in DOMAIN t
        BY <1>1
      <3>2. QED BY <1>1, <3>1 DEF ToSet
    <2>4. QED BY <2>1, <2>2, <2>3 DEF ToSet
  <1>3. ASSUME IsInjective(s), x \notin ToSet(s) PROVE IsInjective(t)
    <2> SUFFICES ASSUME NEW i \in DOMAIN t, NEW j \in DOMAIN t, t[i] = t[j]
                 PROVE i = j
      BY DEF IsInjective
    <2>1. \A k \in 1..Len(s) : t[k] # x
      BY <1>1, <1>3 DEF ToSet
    <2>2. (i \in 1..Len(s) \/ i = Len(s) + 1) /\ (j \in 1..Len(s) \/ j = Len(s) + 1)
      BY <1>1
    <2>3. CASE i \in 1..Len(s) /\ j \in 1..Len(s)
      BY <1>1, <1>3, <2>3 DEF IsInjective
    <2>4. QED BY <1>1, <2>1, <2>2, <2>3
  <1>4. QED BY <1>1, <1>2, <1>3 DEF t

LEMMA TailQueue ==
    ASSUME NEW S, NEW s \in Seq(S), s # <<>>
    PROVE  /\ Head(s) \in ToSet(s) /\ Head(s) \in S
           /\ Tail(s) \in Seq(S)
           /\ ToSet(Tail(s)) \subseteq ToSet(s)
           /\ IsInjective(s) => /\ ToSet(Tail(s)) = ToSet(s) \ {Head(s)}
                                /\ IsInjective(Tail(s))
  <1> DEFINE t == Tail(s)
  <1>1. /\ t \in Seq(S) /\ Len(t) = Len(s) - 1 /\ DOMAIN t = 1..Len(t)
        /\ DOMAIN s = 1..Len(s) /\ Len(s) \in Nat \ {0} /\ Len(t) \in Nat
        /\ \A i \in 1..Len(t) : t[i] = s[i + 1]
        /\ Head(s) = s[1] /\ s[1] \in S
    BY HeadTailProperties, LenProperties, EmptySeq, ElementOfSeq
  <1> HIDE DEF t
  <1>2. Head(s) \in ToSet(s)
    <2>1. 1 \in DOMAIN s
      BY <1>1
    <2>2. QED BY <1>1, <2>1 DEF ToSet
  <1>3. ToSet(t) \subseteq ToSet(s)
    <2> SUFFICES ASSUME NEW i \in DOMAIN t PROVE t[i] \in ToSet(s)
      BY DEF ToSet
    <2>1. i + 1 \in DOMAIN s /\ t[i] = s[i + 1]
      BY <1>1
    <2>2. QED BY <2>1 DEF ToSet
  <1>4. ASSUME IsInjective(s)
        PROVE ToSet(t) = ToSet(s) \ {Head(s)} /\ IsInjective(t)
    <2>1. ASSUME NEW i \in DOMAIN t PROVE t[i] # Head(s)
      <3>1. i + 1 \in DOMAIN s /\ 1 \in DOMAIN s /\ i + 1 # 1 /\ t[i] = s[i + 1]
        BY <1>1
      <3>2. QED BY <1>1, <1>4, <3>1 DEF IsInjective
    <2>2. ASSUME NEW i \in DOMAIN s, s[i] # Head(s) PROVE s[i] \in ToSet(t)
      <3>1. i - 1 \in DOMAIN t /\ t[i - 1] = s[i]
        BY <1>1, <2>2
      <3>2. QED BY <3>1 DEF ToSet
    <2>3. ToSet(t) = ToSet(s) \ {Head(s)}
      BY <1>3, <2>1, <2>2 DEF ToSet
    <2>4. ASSUME NEW i \in DOMAIN t, NEW j \in DOMAIN t, t[i] = t[j] PROVE i = j
      <3>1. /\ i + 1 \in DOMAIN s /\ t[i] = s[i + 1] /\ i \in Nat
            /\ j + 1 \in DOMAIN s /\ t[j] = s[j + 1] /\ j \in Nat
        BY <1>1
      <3>2. i + 1 = j + 1
        BY <1>4, <2>4, <3>1 DEF IsInjective
      <3>3. QED BY <3>1, <3>2
    <2>5. QED BY <2>3, <2>4 DEF IsInjective
  <1>5. QED BY <1>1, <1>2, <1>3, <1>4 DEF t

----------------------------------------------------------------------------
(* Type correctness and the queue, whatever fails.  The queue is sound only *)
(* together with where each driver is and which cell it is about, so the    *)
(* invariant says that too, driver by driver.                               *)

AtCell == {"scanClaim", "kill", "release", "decide", "open", "stat", "steal",
           "check", "drop", "popen", "unclaim"}
Trying == {"open", "stat", "steal", "check", "drop", "popen"}
Scanning == {"off", "scan", "scanClaim"}

QueueInv(d) ==
    /\ pc[d] \in AtCell => cur[d] \in Cells
    /\ IsInjective(pending[d])
    /\ Queued(d) \cap running[d] = {}
    /\ \A c \in Queued(d) \cup running[d] : results[d][c] = "none"
    /\ \A c \in Queued(d) : attempts[d][c] < MaxAttempts
    /\ pc[d] \in Trying => pending[d] # <<>> /\ cur[d] = Head(pending[d])
    /\ pc[d] \in Scanning =>
          /\ running[d] = {}
          /\ \A c \in Cells : attempts[d][c] = 0 /\ results[d][c] = "none"
    /\ pc[d] = "off" => pending[d] = <<>>
    /\ pc[d] \in {"scan", "scanClaim"} => todo[d] \cap Queued(d) = {}
    /\ pc[d] = "scanClaim" => cur[d] \notin Queued(d) \cup todo[d]
    /\ pc[d] \in {"reap", "kill", "release", "decide"} => todo[d] \subseteq running[d]
    /\ pc[d] \in {"kill", "release"} => cur[d] \in running[d] \ todo[d]
    /\ pc[d] = "decide" =>
          cur[d] \notin running[d] \cup Queued(d) /\ results[d][cur[d]] = "none"
    /\ pc[d] = "unclaim" => cur[d] \notin running[d]

SweepInv == TypeOK /\ \A d \in Drivers : QueueInv(d)

LEMMA SweepInvInit == Init => SweepInv
  <1> SUFFICES ASSUME Init PROVE SweepInv
    OBVIOUS
  <1>1. TypeOK
    BY AttemptsAssumption, EmptySeq DEF Init, TypeOK, Labels, Live, Gone
  <1>2. ASSUME NEW d \in Drivers PROVE QueueInv(d)
    <2>1. IsInjective(pending[d]) /\ Queued(d) = {}
      BY EmptySeq DEF Init, IsInjective, Queued, ToSet
    <2>2. QED
      BY <2>1, AttemptsAssumption DEF Init, QueueInv, AtCell, Trying, Scanning
  <1>3. QED BY <1>1, <1>2 DEF SweepInv

LEMMA TypeStep == SweepInv /\ [Next]_vars => TypeOK'
  <1> SUFFICES ASSUME SweepInv, [Next]_vars PROVE TypeOK'
    OBVIOUS
  <1>t. TypeOK /\ \A d \in Drivers : QueueInv(d)
    BY DEF SweepInv
  <1>holder. holder \in [Cells -> Drivers \cup {None}]
    BY <1>t DEF TypeOK
  <1>stale. stale \in [Cells -> BOOLEAN]
    BY <1>t DEF TypeOK
  <1>ended. ended \in [Cells -> SUBSET {"ok", "running"}]
    BY <1>t DEF TypeOK
  <1>proc. proc \in [Drivers -> [Cells -> Live \cup Gone \cup {"none"}]]
    BY <1>t DEF TypeOK
  <1>overdue. overdue \in [Drivers -> SUBSET Cells]
    BY <1>t DEF TypeOK
  <1>pc. pc \in [Drivers -> Labels]
    BY <1>t DEF TypeOK
  <1>cur. cur \in [Drivers -> Cells \cup {None}]
    BY <1>t DEF TypeOK
  <1>pass. pass \in [Drivers -> 1..2]
    BY <1>t DEF TypeOK
  <1>todo. todo \in [Drivers -> SUBSET Cells]
    BY <1>t DEF TypeOK
  <1>pending. pending \in [Drivers -> Seq(Cells)]
    BY <1>t DEF TypeOK
  <1>running. running \in [Drivers -> SUBSET Cells]
    BY <1>t DEF TypeOK
  <1>attempts. attempts \in [Drivers -> [Cells -> 0..MaxAttempts]]
    BY <1>t DEF TypeOK
  <1>results. results \in [Drivers -> [Cells -> {"none", "ok", "failed", "timeout"}]]
    BY <1>t DEF TypeOK
  <1> USE DEF claims, cells, sweep, ends, Goto, About, TakeTodo, Moves, SetClaim,
              Labels, Live, Gone
  <1>1. ASSUME NEW d \in Drivers, Start(d) PROVE TypeOK'
    BY <1>t, <1>1 DEF Start, TypeOK
  <1>2. ASSUME NEW d \in Drivers, NEW c \in Cells, ScanManifests(d, c) PROVE TypeOK'
    <2>1. c \in Cells => Append(pending[d], c) \in Seq(Cells)
      BY <1>t, AppendQueue DEF TypeOK
    <2>2. pc' \in [Drivers -> Labels]
      BY <1>2, <1>pc DEF ScanManifests, Enqueue
    <2>3. cur' \in [Drivers -> Cells \cup {None}]
      BY <1>2, <1>cur DEF ScanManifests, Enqueue
    <2>4. todo' \in [Drivers -> SUBSET Cells]
      BY <1>2, <1>todo DEF ScanManifests, Enqueue
    <2>5. pending' \in [Drivers -> Seq(Cells)]
      BY <1>2, <1>pending, <2>1 DEF ScanManifests, Enqueue
    <2>6. QED BY <1>t, <1>2, <2>2, <2>3, <2>4, <2>5 DEF ScanManifests, Enqueue, TypeOK
  <1>3. ASSUME NEW d \in Drivers, ScanClaim(d) PROVE TypeOK'
    <2>1. cur[d] \in Cells => Append(pending[d], cur[d]) \in Seq(Cells)
      BY <1>t, AppendQueue DEF TypeOK
    <2>0. cur[d] \in Cells
      BY <1>t, <1>3 DEF ScanClaim, Enqueue, TypeOK, QueueInv, AtCell, Trying
    <2>2. pc' \in [Drivers -> Labels]
      BY <1>3, <1>pc DEF ScanClaim, Enqueue
    <2>3. cur' \in [Drivers -> Cells \cup {None}]
      BY <1>3, <1>cur DEF ScanClaim, Enqueue
    <2>4. pending' \in [Drivers -> Seq(Cells)]
      BY <1>3, <1>pending, <2>1, <2>0 DEF ScanClaim, Enqueue
    <2>5. QED BY <1>t, <1>3, <2>2, <2>3, <2>4 DEF ScanClaim, Enqueue, TypeOK
  <1>4. ASSUME NEW d \in Drivers, ScanDone(d) PROVE TypeOK'
    BY <1>t, <1>4 DEF ScanDone, TypeOK
  <1>5. ASSUME NEW d \in Drivers, LoopEnds(d) PROVE TypeOK'
    BY <1>t, <1>5 DEF LoopEnds, TypeOK
  <1>6. ASSUME NEW d \in Drivers, LoopTurns(d) PROVE TypeOK'
    BY <1>t, <1>6 DEF LoopTurns, TypeOK
  <1>7. ASSUME NEW d \in Drivers, NEW c \in Cells, Poll(d, c) PROVE TypeOK'
    <2>1. pc' \in [Drivers -> Labels]
      BY <1>7, <1>pc DEF Poll
    <2>2. cur' \in [Drivers -> Cells \cup {None}]
      BY <1>7, <1>cur DEF Poll
    <2>3. todo' \in [Drivers -> SUBSET Cells]
      BY <1>7, <1>todo DEF Poll
    <2>4. QED BY <1>t, <1>7, <2>1, <2>2, <2>3 DEF Poll, TypeOK
  <1>8. ASSUME NEW d \in Drivers, Kill(d) PROVE TypeOK'
    BY <1>t, <1>8 DEF Kill, KillCell, TypeOK
  <1>9. ASSUME NEW d \in Drivers, Release(d) PROVE TypeOK'
    BY <1>t, <1>9 DEF Release, TypeOK
  <1>10. ASSUME NEW d \in Drivers, Decide(d) PROVE TypeOK'
    <2>1. cur[d] \in Cells => Append(pending[d], cur[d]) \in Seq(Cells)
      BY <1>t, AppendQueue DEF TypeOK
    <2>0. cur[d] \in Cells
      BY <1>t, <1>10 DEF Decide, Enqueue, CellSucceeded, MayRetry, TypeOK, QueueInv, AtCell, Trying
    <2>2. pc' \in [Drivers -> Labels]
      BY <1>10, <1>pc DEF Decide, Enqueue, CellSucceeded, MayRetry
    <2>3. cur' \in [Drivers -> Cells \cup {None}]
      BY <1>10, <1>cur DEF Decide, Enqueue, CellSucceeded, MayRetry
    <2>4. pending' \in [Drivers -> Seq(Cells)]
      BY <1>10, <1>pending, <2>1, <2>0 DEF Decide, Enqueue, CellSucceeded, MayRetry
    <2>5. results' \in [Drivers -> [Cells -> {"none", "ok", "failed", "timeout"}]]
      BY <1>10, <1>results, <2>0 DEF Decide, Enqueue, CellSucceeded, MayRetry
    <2>6. proc' \in [Drivers -> [Cells -> Live \cup Gone \cup {"none"}]]
      BY <1>10, <1>proc DEF Decide, Enqueue, CellSucceeded, MayRetry
    <2>7. QED BY <1>t, <1>10, <2>2, <2>3, <2>4, <2>5, <2>6 DEF Decide, Enqueue, CellSucceeded, MayRetry, TypeOK
  <1>11. ASSUME NEW d \in Drivers, ReapDone(d) PROVE TypeOK'
    BY <1>t, <1>11 DEF ReapDone, TypeOK
  <1>12. ASSUME NEW d \in Drivers, DispatchHead(d) PROVE TypeOK'
    <2>1. Head(pending[d]) \in Cells
      BY <1>t, <1>12, TailQueue DEF DispatchHead, MayDispatch, TypeOK
    <2>2. QED BY <1>t, <1>12, <2>1 DEF DispatchHead, MayDispatch, TypeOK
  <1>13. ASSUME NEW d \in Drivers, DispatchDone(d) PROVE TypeOK'
    BY <1>t, <1>13 DEF DispatchDone, TypeOK
  <1>14. ASSUME NEW d \in Drivers, Beat(d) PROVE TypeOK'
    BY <1>t, <1>14 DEF Beat, TypeOK
  <1>15. ASSUME NEW d \in Drivers, OpenWins(d) PROVE TypeOK'
    BY <1>t, <1>15 DEF OpenWins, TypeOK
  <1>16. ASSUME NEW d \in Drivers, OpenLoses(d) PROVE TypeOK'
    BY <1>t, <1>16 DEF OpenLoses, TypeOK
  <1>17. ASSUME NEW d \in Drivers, StatSkips(d) PROVE TypeOK'
    <2>1. pending[d] # <<>> => Tail(pending[d]) \in Seq(Cells)
      BY <1>t, TailQueue DEF TypeOK
    <2>2. QED BY <1>t, <1>17, <2>1 DEF StatSkips, Skip, PopHead, TypeOK, QueueInv, AtCell, Trying, Queued
  <1>18. ASSUME NEW d \in Drivers, StatStale(d) PROVE TypeOK'
    BY <1>t, <1>18 DEF StatStale, TypeOK
  <1>19. ASSUME NEW d \in Drivers, Steal(d) PROVE TypeOK'
    <2>1. pending[d] # <<>> => Tail(pending[d]) \in Seq(Cells)
      BY <1>t, TailQueue DEF TypeOK
    <2>0. cur[d] \in Cells /\ pending[d] # <<>>
      BY <1>t, <1>19 DEF Steal, Skip, PopHead, TypeOK, QueueInv, AtCell, Trying
    <2>2. holder' \in [Cells -> Drivers \cup {None}]
      BY <1>19, <1>holder DEF Steal, Skip, PopHead
    <2>3. stale' \in [Cells -> BOOLEAN]
      BY <1>19, <1>stale DEF Steal, Skip, PopHead
    <2>4. pc' \in [Drivers -> Labels]
      BY <1>19, <1>pc DEF Steal, Skip, PopHead
    <2>5. cur' \in [Drivers -> Cells \cup {None}]
      BY <1>19, <1>cur DEF Steal, Skip, PopHead
    <2>6. pass' \in [Drivers -> 1..2]
      BY <1>19, <1>pass DEF Steal, Skip, PopHead
    <2>7. pending' \in [Drivers -> Seq(Cells)]
      BY <1>19, <1>pending, <2>1, <2>0 DEF Steal, Skip, PopHead
    <2>8. QED BY <1>t, <1>19, <2>2, <2>3, <2>4, <2>5, <2>6, <2>7 DEF Steal, Skip, PopHead, TypeOK
  <1>20. ASSUME NEW d \in Drivers, Check(d) PROVE TypeOK'
    BY <1>t, <1>20 DEF Check, TypeOK
  <1>21. ASSUME NEW d \in Drivers, Drop(d) PROVE TypeOK'
    <2>1. pending[d] # <<>> => Tail(pending[d]) \in Seq(Cells)
      BY <1>t, TailQueue DEF TypeOK
    <2>2. QED BY <1>t, <1>21, <2>1 DEF Drop, Skip, PopHead, TypeOK, QueueInv, AtCell, Trying, Queued
  <1>22. ASSUME NEW d \in Drivers, Launch(d) PROVE TypeOK'
    <2>1. pending[d] # <<>> => Tail(pending[d]) \in Seq(Cells) /\ Head(pending[d]) \in Queued(d)
      BY <1>t, TailQueue DEF TypeOK, Queued
    <2>2. cur[d] \in Cells /\ attempts[d][cur[d]] + 1 \in 0..MaxAttempts
      BY <1>t, <1>22, <2>1, AttemptsAssumption DEF Launch, PopHead, Attempted, TypeOK, QueueInv, AtCell, Trying
    <2>3. QED BY <1>t, <1>22, <2>1, <2>2 DEF Launch, PopHead, Attempted, TypeOK, QueueInv, Trying
  <1>23. ASSUME NEW d \in Drivers, LaunchFails(d) PROVE TypeOK'
    <2>1. pending[d] # <<>> => Tail(pending[d]) \in Seq(Cells) /\ Head(pending[d]) \in Queued(d)
      BY <1>t, TailQueue DEF TypeOK, Queued
    <2>2. cur[d] \in Cells /\ attempts[d][cur[d]] + 1 \in 0..MaxAttempts
      BY <1>t, <1>23, <2>1, AttemptsAssumption DEF LaunchFails, PopHead, Attempted, TypeOK, QueueInv, AtCell, Trying
    <2>0. cur[d] \in Cells /\ pending[d] # <<>>
      BY <1>t, <1>23 DEF LaunchFails, PopHead, Attempted, TypeOK, QueueInv, AtCell, Trying
    <2>3. holder' \in [Cells -> Drivers \cup {None}]
      BY <1>23, <1>holder DEF LaunchFails, PopHead, Attempted
    <2>4. stale' \in [Cells -> BOOLEAN]
      BY <1>23, <1>stale DEF LaunchFails, PopHead, Attempted
    <2>5. pc' \in [Drivers -> Labels]
      BY <1>23, <1>pc DEF LaunchFails, PopHead, Attempted
    <2>6. cur' \in [Drivers -> Cells \cup {None}]
      BY <1>23, <1>cur DEF LaunchFails, PopHead, Attempted
    <2>7. pass' \in [Drivers -> 1..2]
      BY <1>23, <1>pass DEF LaunchFails, PopHead, Attempted
    <2>8. pending' \in [Drivers -> Seq(Cells)]
      BY <1>23, <1>pending, <2>1, <2>2, <2>0 DEF LaunchFails, PopHead, Attempted
    <2>9. attempts' \in [Drivers -> [Cells -> 0..MaxAttempts]]
      BY <1>23, <1>attempts, <2>0, <2>2 DEF LaunchFails, PopHead, Attempted
    <2>10. results' \in [Drivers -> [Cells -> {"none", "ok", "failed", "timeout"}]]
      BY <1>23, <1>results, <2>0 DEF LaunchFails, PopHead, Attempted
    <2>11. QED BY <1>t, <1>23, <2>3, <2>4, <2>5, <2>6, <2>7, <2>8, <2>9, <2>10 DEF LaunchFails, PopHead, Attempted, TypeOK
  <1>24. ASSUME NEW d \in Drivers, NEW c \in Cells, CloseKill(d, c) PROVE TypeOK'
    BY <1>t, <1>24 DEF CloseKill, KillCell, TypeOK
  <1>25. ASSUME NEW d \in Drivers, CloseRelease(d) PROVE TypeOK'
    BY <1>t, <1>25 DEF CloseRelease, TypeOK
  <1>26. ASSUME NEW d \in Drivers, Finish(d) PROVE TypeOK'
    BY <1>t, <1>26 DEF Finish, ExitOf, TypeOK
  <1>27. ASSUME NEW d \in Drivers, Raise(d) PROVE TypeOK'
    BY <1>t, <1>27 DEF Raise, TypeOK
  <1>28. ASSUME NEW d \in Drivers, Signal(d) PROVE TypeOK'
    BY <1>t, <1>28 DEF Signal, TypeOK
  <1>29. ASSUME NEW d \in Drivers, Crash(d) PROVE TypeOK'
    BY <1>t, <1>29 DEF Crash, TypeOK
  <1>30. ASSUME NEW d \in Drivers, NEW c \in Cells, TimesOut(d, c) PROVE TypeOK'
    BY <1>t, <1>30 DEF TimesOut, TypeOK
  <1>31. ASSUME NEW c \in Cells, GoStale(c) PROVE TypeOK'
    BY <1>t, <1>31 DEF GoStale, TypeOK
  <1>32. ASSUME NEW d \in Drivers, NEW c \in Cells, CellOpens(d, c) PROVE TypeOK'
    BY <1>t, <1>32 DEF CellOpens, CellStep, TypeOK
  <1>33. ASSUME NEW d \in Drivers, NEW c \in Cells, CellAborts(d, c) PROVE TypeOK'
    BY <1>t, <1>33 DEF CellAborts, CellStep, TypeOK
  <1>34. ASSUME NEW d \in Drivers, NEW c \in Cells, CellSealsOk(d, c) PROVE TypeOK'
    BY <1>t, <1>34 DEF CellSealsOk, CellStep, TypeOK
  <1>35. ASSUME NEW d \in Drivers, NEW c \in Cells, CellFails(d, c) PROVE TypeOK'
    BY <1>t, <1>35 DEF CellFails, CellStep, TypeOK
  <1>36. ASSUME NEW d \in Drivers, NEW c \in Cells, CellExits(d, c) PROVE TypeOK'
    <2>1. proc' \in [Drivers -> [Cells -> Live \cup Gone \cup {"none"}]]
      BY <1>36, <1>proc DEF CellExits, CellStep
    <2>2. QED BY <1>t, <1>36, <2>1 DEF CellExits, CellStep, TypeOK
  <1>37. ASSUME NEW d \in Drivers, NEW c \in Cells, CellDies(d, c) PROVE TypeOK'
    BY <1>t, <1>37 DEF CellDies, KillCell, TypeOK
  <1>38. CASE UNCHANGED vars
    BY <1>t, <1>38 DEF vars, TypeOK
  <1>q. QED
    BY <1>1, <1>2, <1>3, <1>4, <1>5, <1>6, <1>7, <1>8, <1>9, <1>10, <1>11, <1>12, <1>13,
       <1>14, <1>15, <1>16, <1>17, <1>18, <1>19, <1>20, <1>21, <1>22, <1>23, <1>24, <1>25, <1>26,
       <1>27, <1>28, <1>29, <1>30, <1>31, <1>32, <1>33, <1>34, <1>35, <1>36, <1>37, <1>38
    DEF Next, Code, Cell, AllOver

LEMMA ToSetInCells == ASSUME NEW d \in Drivers, pending[d] \in Seq(Cells)
                      PROVE Queued(d) \subseteq Cells
  BY ElementOfSeq, LenProperties DEF Queued, ToSet

LEMMA EmptyQueue == ToSet(<<>>) = {} /\ IsInjective(<<>>)
  BY EmptySeq DEF ToSet, IsInjective

LEMMA Enqueued ==
    ASSUME TypeOK, NEW d \in Drivers, NEW c \in Cells, Enqueue(d, c),
           IsInjective(pending[d]), c \notin Queued(d)
    PROVE  Queued(d)' = Queued(d) \cup {c} /\ IsInjective(pending'[d])
  <1>1. pending[d] \in Seq(Cells) /\ pending'[d] = Append(pending[d], c)
    BY DEF TypeOK, Enqueue
  <1>2. QED BY <1>1, AppendQueue DEF Queued

LEMMA Popped ==
    ASSUME TypeOK, NEW d \in Drivers, PopHead(d),
           IsInjective(pending[d]), pending[d] # <<>>
    PROVE  /\ Queued(d)' = Queued(d) \ {Head(pending[d])}
           /\ Head(pending[d]) \in Queued(d)
           /\ IsInjective(pending'[d])
  <1>1. pending[d] \in Seq(Cells) /\ pending'[d] = Tail(pending[d])
    BY DEF TypeOK, PopHead
  <1>2. QED BY <1>1, TailQueue DEF Queued

LEMMA QueueFrame ==
    ASSUME NEW e \in Drivers, QueueInv(e),
           pc'[e] = pc[e], cur'[e] = cur[e], todo'[e] = todo[e],
           pending'[e] = pending[e], running'[e] = running[e],
           attempts'[e] = attempts[e], results'[e] = results[e]
    PROVE  QueueInv(e)'
  BY DEF QueueInv, Queued

LEMMA QueueStep ==
    ASSUME SweepInv, [Next]_vars, NEW e \in Drivers
    PROVE  QueueInv(e)'
  <1> SUFFICES ASSUME SweepInv, [Next]_vars PROVE QueueInv(e)'
    OBVIOUS
  <1>t. TypeOK /\ \A d \in Drivers : QueueInv(d)
    BY DEF SweepInv
  <1>l. /\ pc \in [Drivers -> Labels] /\ cur \in [Drivers -> Cells \cup {None}]
        /\ todo \in [Drivers -> SUBSET Cells] /\ pending \in [Drivers -> Seq(Cells)]
        /\ running \in [Drivers -> SUBSET Cells]
        /\ attempts \in [Drivers -> [Cells -> 0..MaxAttempts]]
        /\ results \in [Drivers -> [Cells -> {"none", "ok", "failed", "timeout"}]]
    BY <1>t DEF TypeOK
  <1> USE DEF claims, cells, sweep, ends, Goto, About, TakeTodo, Moves, SetClaim
  <1>1. ASSUME NEW d \in Drivers, Start(d) PROVE QueueInv(e)'
    <2>1. CASE e # d
      BY <1>t, <1>l, <1>1, <2>1, QueueFrame DEF Start
    <2>2. CASE e = d
      <3>1. pending[d] = <<>>
        BY <1>t, <1>1 DEF Start, QueueInv
      <3>2. QED
        BY <1>t, <1>l, <1>1, <2>2, <3>1, EmptyQueue DEF Start, Queued, QueueInv, AtCell, Trying, Scanning
    <2>3. QED BY <2>1, <2>2
  <1>2. ASSUME NEW d \in Drivers, NEW c \in Cells, ScanManifests(d, c) PROVE QueueInv(e)'
    <2>1. CASE e # d
      BY <1>t, <1>l, <1>2, <2>1, QueueFrame DEF ScanManifests, Enqueue
    <2>2. CASE e = d /\ UNCHANGED pending
      <3>1. Queued(d)' = Queued(d)
        BY <2>2 DEF Queued
      <3>2. QED BY <1>t, <1>l, <1>2, <2>2, <3>1 DEF ScanManifests, QueueInv, AtCell, Trying, Scanning
    <2>3. CASE e = d /\ Enqueue(d, c)
      <3>1. pc[d] = "scan" /\ c \in todo[d]
        BY <1>2 DEF ScanManifests
      <3>2. Queued(d)' = Queued(d) \cup {c} /\ IsInjective(pending'[d])
        BY <1>t, <3>1, <2>3, Enqueued DEF QueueInv
      <3>3. pc'[d] \in {"scan", "scanClaim"} /\ (pc'[d] = "scan" => UNCHANGED cur)
        BY <1>l, <1>2 DEF ScanManifests
      <3>4. pc' = pc
        BY <1>l, <1>2, <2>3, <3>2 DEF ScanManifests, Enqueue
      <3>5. QED
        BY <1>t, <1>l, <1>2, <2>3, <3>1, <3>2, <3>4, AttemptsAssumption DEF ScanManifests, QueueInv, AtCell, Trying, Scanning
    <2>4. QED BY <1>2, <2>1, <2>2, <2>3 DEF ScanManifests
  <1>3. ASSUME NEW d \in Drivers, ScanClaim(d) PROVE QueueInv(e)'
    <2>1. CASE e # d
      BY <1>t, <1>l, <1>3, <2>1, QueueFrame DEF ScanClaim, Enqueue
    <2>2. CASE e = d /\ UNCHANGED pending
      <3>1. Queued(d)' = Queued(d)
        BY <2>2 DEF Queued
      <3>2. QED BY <1>t, <1>l, <1>3, <2>2, <3>1 DEF ScanClaim, QueueInv, AtCell, Trying, Scanning
    <2>3. CASE e = d /\ Enqueue(d, cur[d])
      <3>1. pc[d] = "scanClaim" /\ cur[d] \in Cells /\ cur[d] \notin Queued(d)
        BY <1>t, <1>3 DEF ScanClaim, QueueInv, AtCell
      <3>2. Queued(d)' = Queued(d) \cup {cur[d]} /\ IsInjective(pending'[d])
        BY <1>t, <3>1, <2>3, Enqueued DEF QueueInv
      <3>3. QED
        BY <1>t, <1>l, <1>3, <2>3, <3>1, <3>2, AttemptsAssumption DEF ScanClaim, QueueInv, AtCell, Trying, Scanning
    <2>4. QED BY <1>3, <2>1, <2>2, <2>3 DEF ScanClaim
  <1>4. ASSUME NEW d \in Drivers, ScanDone(d) PROVE QueueInv(e)'
    <2>1. CASE e # d
      BY <1>t, <1>l, <1>4, <2>1, QueueFrame DEF ScanDone
    <2>2. CASE e = d
      BY <1>t, <1>l, <1>4, <2>2 DEF ScanDone, QueueInv, Queued, AtCell, Trying, Scanning
    <2>3. QED BY <2>1, <2>2
  <1>5. ASSUME NEW d \in Drivers, LoopEnds(d) PROVE QueueInv(e)'
    <2>1. CASE e # d
      BY <1>t, <1>l, <1>5, <2>1, QueueFrame DEF LoopEnds
    <2>2. CASE e = d
      BY <1>t, <1>l, <1>5, <2>2 DEF LoopEnds, QueueInv, Queued, AtCell, Trying, Scanning
    <2>3. QED BY <2>1, <2>2
  <1>6. ASSUME NEW d \in Drivers, LoopTurns(d) PROVE QueueInv(e)'
    <2>1. CASE e # d
      BY <1>t, <1>l, <1>6, <2>1, QueueFrame DEF LoopTurns
    <2>2. CASE e = d
      BY <1>t, <1>l, <1>6, <2>2 DEF LoopTurns, QueueInv, Queued, AtCell, Trying, Scanning
    <2>3. QED BY <2>1, <2>2
  <1>7. ASSUME NEW d \in Drivers, NEW c \in Cells, Poll(d, c) PROVE QueueInv(e)'
    <2>1. CASE e # d
      BY <1>t, <1>l, <1>7, <2>1, QueueFrame DEF Poll
    <2>2. CASE e = d
      BY <1>t, <1>l, <1>7, <2>2 DEF Poll, QueueInv, Queued, AtCell, Trying, Scanning
    <2>3. QED BY <2>1, <2>2
  <1>8. ASSUME NEW d \in Drivers, Kill(d) PROVE QueueInv(e)'
    <2>1. CASE e # d
      BY <1>t, <1>l, <1>8, <2>1, QueueFrame DEF Kill, KillCell
    <2>2. CASE e = d
      BY <1>t, <1>l, <1>8, <2>2 DEF Kill, KillCell, QueueInv, Queued, AtCell, Trying, Scanning
    <2>3. QED BY <2>1, <2>2
  <1>9. ASSUME NEW d \in Drivers, Release(d) PROVE QueueInv(e)'
    <2>1. CASE e # d
      BY <1>t, <1>l, <1>9, <2>1, QueueFrame DEF Release
    <2>2. CASE e = d
      BY <1>t, <1>l, <1>9, <2>2 DEF Release, QueueInv, Queued, AtCell, Trying, Scanning
    <2>3. QED BY <2>1, <2>2
  <1>10. ASSUME NEW d \in Drivers, Decide(d) PROVE QueueInv(e)'
    <2>1. CASE e # d
      BY <1>t, <1>l, <1>10, <2>1, QueueFrame DEF Decide, Enqueue, CellSucceeded, MayRetry
    <2>2. pc[d] = "decide" /\ cur[d] \in Cells /\ cur[d] \notin running[d] \cup Queued(d)
      BY <1>t, <1>10 DEF Decide, QueueInv, AtCell
    <2>3. CASE e = d /\ UNCHANGED pending
      <3>1. Queued(d)' = Queued(d)
        BY <2>3 DEF Queued
      <3>2. \A c \in Cells \ {cur[d]} : results'[d][c] = results[d][c]
        BY <1>l, <1>10 DEF Decide
      <3>3. Queued(d) \subseteq Cells
        BY <1>l, ToSetInCells
      <3>4. QED BY <1>t, <1>l, <1>10, <2>2, <2>3, <3>1, <3>2, <3>3 DEF Decide, QueueInv, AtCell, Trying, Scanning
    <2>4. CASE e = d /\ Enqueue(d, cur[d]) /\ MayRetry(d, cur[d]) /\ UNCHANGED results
      <3>1. Queued(d)' = Queued(d) \cup {cur[d]} /\ IsInjective(pending'[d])
        BY <1>t, <2>2, <2>4, Enqueued DEF QueueInv
      <3>2. QED
        BY <1>t, <1>l, <1>10, <2>2, <2>4, <3>1 DEF Decide, MayRetry, QueueInv, AtCell, Trying, Scanning
    <2>5. QED BY <1>10, <2>1, <2>3, <2>4 DEF Decide
  <1>11. ASSUME NEW d \in Drivers, ReapDone(d) PROVE QueueInv(e)'
    <2>1. CASE e # d
      BY <1>t, <1>l, <1>11, <2>1, QueueFrame DEF ReapDone
    <2>2. CASE e = d
      BY <1>t, <1>l, <1>11, <2>2 DEF ReapDone, QueueInv, Queued, AtCell, Trying, Scanning
    <2>3. QED BY <2>1, <2>2
  <1>12. ASSUME NEW d \in Drivers, DispatchHead(d) PROVE QueueInv(e)'
    <2>1. CASE e # d
      BY <1>t, <1>l, <1>12, <2>1, QueueFrame DEF DispatchHead, MayDispatch
    <2>2. CASE e = d
      BY <1>t, <1>l, <1>12, <2>2 DEF DispatchHead, MayDispatch, QueueInv, Queued, AtCell, Trying, Scanning
    <2>3. QED BY <2>1, <2>2
  <1>13. ASSUME NEW d \in Drivers, DispatchDone(d) PROVE QueueInv(e)'
    <2>1. CASE e # d
      BY <1>t, <1>l, <1>13, <2>1, QueueFrame DEF DispatchDone
    <2>2. CASE e = d
      BY <1>t, <1>l, <1>13, <2>2 DEF DispatchDone, QueueInv, Queued, AtCell, Trying, Scanning
    <2>3. QED BY <2>1, <2>2
  <1>14. ASSUME NEW d \in Drivers, Beat(d) PROVE QueueInv(e)'
    <2>1. CASE e # d
      BY <1>t, <1>l, <1>14, <2>1, QueueFrame DEF Beat
    <2>2. CASE e = d
      BY <1>t, <1>l, <1>14, <2>2 DEF Beat, QueueInv, Queued, AtCell, Trying, Scanning
    <2>3. QED BY <2>1, <2>2
  <1>15. ASSUME NEW d \in Drivers, OpenWins(d) PROVE QueueInv(e)'
    <2>1. CASE e # d
      BY <1>t, <1>l, <1>15, <2>1, QueueFrame DEF OpenWins
    <2>2. CASE e = d
      BY <1>t, <1>l, <1>15, <2>2 DEF OpenWins, QueueInv, Queued, AtCell, Trying, Scanning
    <2>3. QED BY <2>1, <2>2
  <1>16. ASSUME NEW d \in Drivers, OpenLoses(d) PROVE QueueInv(e)'
    <2>1. CASE e # d
      BY <1>t, <1>l, <1>16, <2>1, QueueFrame DEF OpenLoses
    <2>2. CASE e = d
      BY <1>t, <1>l, <1>16, <2>2 DEF OpenLoses, QueueInv, Queued, AtCell, Trying, Scanning
    <2>3. QED BY <2>1, <2>2
  <1>17. ASSUME NEW d \in Drivers, StatSkips(d) PROVE QueueInv(e)'
    <2>1. CASE e # d
      BY <1>t, <1>l, <1>17, <2>1, QueueFrame DEF StatSkips, Skip, PopHead
    <2>2. CASE e = d
      <3>1. PopHead(d) /\ pending[d] # <<>>
        BY <1>t, <1>17 DEF StatSkips, Skip, QueueInv, Trying
      <3>2. Queued(d)' = Queued(d) \ {Head(pending[d])} /\ IsInjective(pending'[d])
        BY <1>t, <3>1, Popped DEF QueueInv
      <3>3. QED
        BY <1>t, <1>l, <1>17, <2>2, <3>2 DEF StatSkips, Skip, PopHead, QueueInv, AtCell, Trying, Scanning
    <2>3. QED BY <2>1, <2>2
  <1>18. ASSUME NEW d \in Drivers, StatStale(d) PROVE QueueInv(e)'
    <2>1. CASE e # d
      BY <1>t, <1>l, <1>18, <2>1, QueueFrame DEF StatStale
    <2>2. CASE e = d
      BY <1>t, <1>l, <1>18, <2>2 DEF StatStale, QueueInv, Queued, AtCell, Trying, Scanning
    <2>3. QED BY <2>1, <2>2
  <1>19. ASSUME NEW d \in Drivers, Steal(d) PROVE QueueInv(e)'
    <2>1. CASE e # d
      BY <1>t, <1>l, <1>19, <2>1, QueueFrame DEF Steal, Skip, PopHead
    <2>2. pending[d] # <<>> /\ pc[d] = "steal"
      BY <1>t, <1>19 DEF Steal, QueueInv, Trying
    <2>3. CASE e = d /\ PopHead(d)
      <3>1. Queued(d)' = Queued(d) \ {Head(pending[d])} /\ IsInjective(pending'[d])
        BY <1>t, <2>2, <2>3, Popped DEF QueueInv
      <3>2. UNCHANGED <<todo, running, attempts, results>>
        BY <1>19 DEF Steal, Skip
      <3>3. QED BY <1>t, <1>l, <2>2, <2>3, <3>1, <3>2 DEF PopHead, QueueInv, AtCell, Trying, Scanning
    <2>4. CASE e = d /\ pc'[d] = "open" /\ UNCHANGED <<cur, todo, sweep>>
      <3>1. Queued(d)' = Queued(d)
        BY <2>4 DEF Queued
      <3>2. QED BY <1>t, <1>l, <2>2, <2>4, <3>1 DEF QueueInv, AtCell, Trying, Scanning
    <2>5. (PopHead(d) \/ (pc'[d] = "open" /\ UNCHANGED <<cur, todo, sweep>>))
      BY <1>l, <1>19 DEF Steal, Skip
    <2>6. QED BY <2>1, <2>3, <2>4, <2>5
  <1>20. ASSUME NEW d \in Drivers, Check(d) PROVE QueueInv(e)'
    <2>1. CASE e # d
      BY <1>t, <1>l, <1>20, <2>1, QueueFrame DEF Check
    <2>2. CASE e = d
      BY <1>t, <1>l, <1>20, <2>2 DEF Check, QueueInv, Queued, AtCell, Trying, Scanning
    <2>3. QED BY <2>1, <2>2
  <1>21. ASSUME NEW d \in Drivers, Drop(d) PROVE QueueInv(e)'
    <2>1. CASE e # d
      BY <1>t, <1>l, <1>21, <2>1, QueueFrame DEF Drop, Skip, PopHead
    <2>2. CASE e = d
      <3>1. PopHead(d) /\ pending[d] # <<>>
        BY <1>t, <1>21 DEF Drop, Skip, QueueInv, Trying
      <3>2. Queued(d)' = Queued(d) \ {Head(pending[d])} /\ IsInjective(pending'[d])
        BY <1>t, <3>1, Popped DEF QueueInv
      <3>3. QED
        BY <1>t, <1>l, <1>21, <2>2, <3>2 DEF Drop, Skip, PopHead, QueueInv, AtCell, Trying, Scanning
    <2>3. QED BY <2>1, <2>2
  <1>22. ASSUME NEW d \in Drivers, Launch(d) PROVE QueueInv(e)'
    <2>1. CASE e # d
      BY <1>t, <1>l, <1>22, <2>1, QueueFrame DEF Launch, PopHead, Attempted
    <2>2. CASE e = d
      <3>1. PopHead(d) /\ pending[d] # <<>> /\ cur[d] = Head(pending[d]) /\ cur[d] \in Cells
        BY <1>t, <1>22 DEF Launch, QueueInv, Trying, AtCell
      <3>2. /\ Queued(d)' = Queued(d) \ {cur[d]} /\ IsInjective(pending'[d])
            /\ cur[d] \in Queued(d)
        BY <1>t, <3>1, Popped DEF QueueInv
      <3>3. \A c \in Cells \ {cur[d]} : attempts'[d][c] = attempts[d][c]
        BY <1>l, <1>22 DEF Launch, Attempted
      <3>4. Queued(d) \subseteq Cells
        BY <1>l, ToSetInCells
      <3>5. running'[d] = running[d] \cup {cur[d]} /\ pc'[d] = "dispatch" /\ results' = results
        BY <1>l, <1>22 DEF Launch, PopHead
      <3>6. QED
        BY <1>t, <3>1, <3>2, <3>3, <3>4, <3>5 , <2>2 DEF QueueInv, AtCell, Trying, Scanning
    <2>3. QED BY <2>1, <2>2
  <1>23. ASSUME NEW d \in Drivers, LaunchFails(d) PROVE QueueInv(e)'
    <2>1. CASE e # d
      BY <1>t, <1>l, <1>23, <2>1, QueueFrame DEF LaunchFails, PopHead, Attempted
    <2>2. /\ pending[d] # <<>> /\ cur[d] = Head(pending[d]) /\ cur[d] \in Cells
          /\ pc[d] = "popen" /\ Queued(d) \subseteq Cells
      BY <1>t, <1>l, <1>23, ToSetInCells DEF LaunchFails, QueueInv, Trying, AtCell
    <2>3. /\ \A c \in Cells \ {cur[d]} : attempts'[d][c] = attempts[d][c]
          /\ attempts'[d][cur[d]] = attempts[d][cur[d]] + 1
      BY <1>l, <1>23, <2>2 DEF LaunchFails, Attempted
    <2>4. CASE e = d /\ PopHead(d)
      <3>1. /\ Queued(d)' = Queued(d) \ {cur[d]} /\ IsInjective(pending'[d])
            /\ cur[d] \in Queued(d)
        BY <1>t, <2>2, <2>4, Popped DEF QueueInv
      <3>2. \A c \in Cells \ {cur[d]} : results'[d][c] = results[d][c]
        BY <1>l, <1>23 DEF LaunchFails
      <3>3. UNCHANGED running /\ pc'[d] = "dispatch"
        BY <1>l, <1>23, <2>4 DEF LaunchFails, PopHead
      <3>4. running[d] \subseteq Cells /\ cur[d] \notin running[d]
        BY <1>t, <1>l, <3>1 DEF QueueInv
      <3>5. QED
        BY <1>t, <2>2, <2>3, <2>4, <3>1, <3>2, <3>3, <3>4 DEF QueueInv, AtCell, Trying, Scanning
    <2>5. CASE /\ e = d /\ pc'[d] = "beat" /\ attempts[d][cur[d]] + 1 < MaxAttempts
               /\ UNCHANGED <<pending, running, results>>
      <3>1. Queued(d)' = Queued(d)
        BY <2>5 DEF Queued
      <3>2. QED BY <1>t, <2>2, <2>3, <2>5, <3>1 DEF QueueInv, AtCell, Trying, Scanning
    <2>6. PopHead(d) \/ /\ pc'[d] = "beat" /\ attempts[d][cur[d]] + 1 < MaxAttempts
                        /\ UNCHANGED <<pending, running, results>>
      BY <1>l, <1>23 DEF LaunchFails
    <2>7. QED BY <2>1, <2>4, <2>5, <2>6
  <1>24. ASSUME NEW d \in Drivers, NEW c \in Cells, CloseKill(d, c) PROVE QueueInv(e)'
    <2>1. CASE e # d
      BY <1>t, <1>l, <1>24, <2>1, QueueFrame DEF CloseKill, KillCell
    <2>2. CASE e = d
      BY <1>t, <1>l, <1>24, <2>2 DEF CloseKill, KillCell, QueueInv, Queued, AtCell, Trying, Scanning
    <2>3. QED BY <2>1, <2>2
  <1>25. ASSUME NEW d \in Drivers, CloseRelease(d) PROVE QueueInv(e)'
    <2>1. CASE e # d
      BY <1>t, <1>l, <1>25, <2>1, QueueFrame DEF CloseRelease
    <2>2. CASE e = d
      BY <1>t, <1>l, <1>25, <2>2 DEF CloseRelease, QueueInv, Queued, AtCell, Trying, Scanning
    <2>3. QED BY <2>1, <2>2
  <1>26. ASSUME NEW d \in Drivers, Finish(d) PROVE QueueInv(e)'
    <2>1. CASE e # d
      BY <1>t, <1>l, <1>26, <2>1, QueueFrame DEF Finish, ExitOf
    <2>2. CASE e = d
      BY <1>t, <1>l, <1>26, <2>2 DEF Finish, ExitOf, QueueInv, Queued, AtCell, Trying, Scanning
    <2>3. QED BY <2>1, <2>2
  <1>27. ASSUME NEW d \in Drivers, Raise(d) PROVE QueueInv(e)'
    <2>1. CASE e # d
      BY <1>t, <1>l, <1>27, <2>1, QueueFrame DEF Raise
    <2>2. CASE e = d
      BY <1>t, <1>l, <1>27, <2>2 DEF Raise, QueueInv, Queued, AtCell, Trying, Scanning
    <2>3. QED BY <2>1, <2>2
  <1>28. ASSUME NEW d \in Drivers, Signal(d) PROVE QueueInv(e)'
    BY <1>t, <1>28, QueueFrame DEF Signal
  <1>29. ASSUME NEW d \in Drivers, Crash(d) PROVE QueueInv(e)'
    <2>1. CASE e # d
      BY <1>t, <1>l, <1>29, <2>1, QueueFrame DEF Crash
    <2>2. CASE e = d
      BY <1>t, <1>l, <1>29, <2>2 DEF Crash, QueueInv, Queued, AtCell, Trying, Scanning
    <2>3. QED BY <2>1, <2>2
  <1>30. ASSUME NEW d \in Drivers, NEW c \in Cells, TimesOut(d, c) PROVE QueueInv(e)'
    BY <1>t, <1>30, QueueFrame DEF TimesOut
  <1>31. ASSUME NEW c \in Cells, GoStale(c) PROVE QueueInv(e)'
    BY <1>t, <1>31, QueueFrame DEF GoStale
  <1>32. ASSUME NEW d \in Drivers, NEW c \in Cells, CellOpens(d, c) PROVE QueueInv(e)'
    BY <1>t, <1>32, QueueFrame DEF CellOpens, CellStep
  <1>33. ASSUME NEW d \in Drivers, NEW c \in Cells, CellAborts(d, c) PROVE QueueInv(e)'
    BY <1>t, <1>33, QueueFrame DEF CellAborts, CellStep
  <1>34. ASSUME NEW d \in Drivers, NEW c \in Cells, CellSealsOk(d, c) PROVE QueueInv(e)'
    BY <1>t, <1>34, QueueFrame DEF CellSealsOk, CellStep
  <1>35. ASSUME NEW d \in Drivers, NEW c \in Cells, CellFails(d, c) PROVE QueueInv(e)'
    BY <1>t, <1>35, QueueFrame DEF CellFails, CellStep
  <1>36. ASSUME NEW d \in Drivers, NEW c \in Cells, CellExits(d, c) PROVE QueueInv(e)'
    BY <1>t, <1>36, QueueFrame DEF CellExits, CellStep
  <1>37. ASSUME NEW d \in Drivers, NEW c \in Cells, CellDies(d, c) PROVE QueueInv(e)'
    BY <1>t, <1>37, QueueFrame DEF CellDies, KillCell
  <1>38. CASE UNCHANGED vars
    BY <1>t, <1>38, QueueFrame DEF vars
  <1>q. QED
    BY <1>1, <1>2, <1>3, <1>4, <1>5, <1>6, <1>7, <1>8, <1>9, <1>10, <1>11, <1>12, <1>13,
       <1>14, <1>15, <1>16, <1>17, <1>18, <1>19, <1>20, <1>21, <1>22, <1>23, <1>24, <1>25, <1>26,
       <1>27, <1>28, <1>29, <1>30, <1>31, <1>32, <1>33, <1>34, <1>35, <1>36, <1>37, <1>38
    DEF Next, Code, Cell, AllOver

LEMMA SweepInvariant == Spec => []SweepInv
  <1>1. SweepInv /\ [Next]_vars => SweepInv'
    BY TypeStep, QueueStep DEF SweepInv
  <1>2. QED BY SweepInvInit, <1>1, PTL DEF Spec

\* Every variable keeps its type, whatever fails: no driver counts more than
\* max_attempts attempts at a cell, although failed launches count as well.
THEOREM TypeCorrect == Spec => []TypeOK
  <1>1. SweepInv => TypeOK
    BY DEF SweepInv
  <1>2. QED BY SweepInvariant, <1>1, PTL

\* The queue of every driver is sound, whatever fails.
THEOREM QueueIsSound == Spec => []QueueSound
  <1>1. SweepInv => QueueSound
    BY DEF SweepInv, QueueInv, QueueSound
  <1>2. QED BY SweepInvariant, <1>1, PTL

----------------------------------------------------------------------------
(* Claims, whatever fails.  A driver that was killed takes no more steps, so *)
(* that it was stays on record.                                              *)

ClaimsInv ==
    /\ ClaimsAccounted
    /\ \A d \in Drivers : exit[d] = "crash" => pc[d] = "over"

LEMMA ClaimsStep == SweepInv /\ ClaimsInv /\ [Next]_vars => ClaimsInv'
  <1> SUFFICES ASSUME SweepInv /\ ClaimsInv, [Next]_vars PROVE ClaimsInv'
    OBVIOUS
  <1>t. TypeOK /\ TypeOK' /\ \A d \in Drivers : QueueInv(d)
    BY TypeStep DEF SweepInv
  <1>i. ClaimsInv
    OBVIOUS
  <1>l. /\ holder \in [Cells -> Drivers \cup {None}] /\ pc \in [Drivers -> Labels]
        /\ cur \in [Drivers -> Cells \cup {None}]
        /\ running \in [Drivers -> SUBSET Cells]
        /\ exit \in [Drivers -> {"none", "complete", "incomplete", "failed",
                                 "signal", "raised", "crash"}]
    BY <1>t DEF TypeOK
  <1> USE DEF claims, cells, sweep, ends, Goto, About, TakeTodo, Moves, SetClaim
  <1>1. ASSUME NEW d \in Drivers, Start(d) PROVE ClaimsInv'
    BY <1>l, <1>i, NoneAssumption, <1>1 DEF Start, ClaimsInv, ClaimsAccounted, Tends
  <1>2. ASSUME NEW d \in Drivers, NEW c \in Cells, ScanManifests(d, c) PROVE ClaimsInv'
    BY <1>l, <1>i, NoneAssumption, <1>2 DEF ScanManifests, Enqueue, ClaimsInv, ClaimsAccounted, Tends
  <1>3. ASSUME NEW d \in Drivers, ScanClaim(d) PROVE ClaimsInv'
    BY <1>l, <1>i, NoneAssumption, <1>3 DEF ScanClaim, Enqueue, ClaimsInv, ClaimsAccounted, Tends
  <1>4. ASSUME NEW d \in Drivers, ScanDone(d) PROVE ClaimsInv'
    BY <1>l, <1>i, NoneAssumption, <1>4 DEF ScanDone, ClaimsInv, ClaimsAccounted, Tends
  <1>5. ASSUME NEW d \in Drivers, LoopEnds(d) PROVE ClaimsInv'
    BY <1>l, <1>i, NoneAssumption, <1>5 DEF LoopEnds, ClaimsInv, ClaimsAccounted, Tends
  <1>6. ASSUME NEW d \in Drivers, LoopTurns(d) PROVE ClaimsInv'
    BY <1>l, <1>i, NoneAssumption, <1>6 DEF LoopTurns, ClaimsInv, ClaimsAccounted, Tends
  <1>7. ASSUME NEW d \in Drivers, NEW c \in Cells, Poll(d, c) PROVE ClaimsInv'
    BY <1>l, <1>i, NoneAssumption, <1>7 DEF Poll, ClaimsInv, ClaimsAccounted, Tends
  <1>8. ASSUME NEW d \in Drivers, Kill(d) PROVE ClaimsInv'
    BY <1>l, <1>i, NoneAssumption, <1>8 DEF Kill, KillCell, ClaimsInv, ClaimsAccounted, Tends
  <1>9. ASSUME NEW d \in Drivers, Release(d) PROVE ClaimsInv'
    BY <1>l, <1>i, NoneAssumption, <1>9 DEF Release, ClaimsInv, ClaimsAccounted, Tends
  <1>10. ASSUME NEW d \in Drivers, Decide(d) PROVE ClaimsInv'
    BY <1>l, <1>i, NoneAssumption, <1>10 DEF Decide, Enqueue, CellSucceeded, MayRetry, ClaimsInv, ClaimsAccounted, Tends
  <1>11. ASSUME NEW d \in Drivers, ReapDone(d) PROVE ClaimsInv'
    BY <1>l, <1>i, NoneAssumption, <1>11 DEF ReapDone, ClaimsInv, ClaimsAccounted, Tends
  <1>12. ASSUME NEW d \in Drivers, DispatchHead(d) PROVE ClaimsInv'
    BY <1>l, <1>i, NoneAssumption, <1>12 DEF DispatchHead, MayDispatch, ClaimsInv, ClaimsAccounted, Tends
  <1>13. ASSUME NEW d \in Drivers, DispatchDone(d) PROVE ClaimsInv'
    BY <1>l, <1>i, NoneAssumption, <1>13 DEF DispatchDone, ClaimsInv, ClaimsAccounted, Tends
  <1>14. ASSUME NEW d \in Drivers, Beat(d) PROVE ClaimsInv'
    BY <1>l, <1>i, NoneAssumption, <1>14 DEF Beat, ClaimsInv, ClaimsAccounted, Tends
  <1>15. ASSUME NEW d \in Drivers, OpenWins(d) PROVE ClaimsInv'
    BY <1>l, <1>i, NoneAssumption, <1>15 DEF OpenWins, ClaimsInv, ClaimsAccounted, Tends
  <1>16. ASSUME NEW d \in Drivers, OpenLoses(d) PROVE ClaimsInv'
    BY <1>l, <1>i, NoneAssumption, <1>16 DEF OpenLoses, ClaimsInv, ClaimsAccounted, Tends
  <1>17. ASSUME NEW d \in Drivers, StatSkips(d) PROVE ClaimsInv'
    BY <1>l, <1>i, NoneAssumption, <1>17 DEF StatSkips, Skip, PopHead, ClaimsInv, ClaimsAccounted, Tends
  <1>18. ASSUME NEW d \in Drivers, StatStale(d) PROVE ClaimsInv'
    BY <1>l, <1>i, NoneAssumption, <1>18 DEF StatStale, ClaimsInv, ClaimsAccounted, Tends
  <1>19. ASSUME NEW d \in Drivers, Steal(d) PROVE ClaimsInv'
    BY <1>l, <1>i, NoneAssumption, <1>19 DEF Steal, Skip, PopHead, ClaimsInv, ClaimsAccounted, Tends
  <1>20. ASSUME NEW d \in Drivers, Check(d) PROVE ClaimsInv'
    BY <1>l, <1>i, NoneAssumption, <1>20 DEF Check, ClaimsInv, ClaimsAccounted, Tends
  <1>21. ASSUME NEW d \in Drivers, Drop(d) PROVE ClaimsInv'
    BY <1>l, <1>i, NoneAssumption, <1>21 DEF Drop, Skip, PopHead, ClaimsInv, ClaimsAccounted, Tends
  <1>22. ASSUME NEW d \in Drivers, Launch(d) PROVE ClaimsInv'
    BY <1>l, <1>i, NoneAssumption, <1>22 DEF Launch, PopHead, Attempted, ClaimsInv, ClaimsAccounted, Tends
  <1>23. ASSUME NEW d \in Drivers, LaunchFails(d) PROVE ClaimsInv'
    BY <1>l, <1>i, NoneAssumption, <1>23 DEF LaunchFails, PopHead, Attempted, ClaimsInv, ClaimsAccounted, Tends
  <1>24. ASSUME NEW d \in Drivers, NEW c \in Cells, CloseKill(d, c) PROVE ClaimsInv'
    BY <1>l, <1>i, NoneAssumption, <1>24 DEF CloseKill, KillCell, ClaimsInv, ClaimsAccounted, Tends
  <1>25. ASSUME NEW d \in Drivers, CloseRelease(d) PROVE ClaimsInv'
    BY <1>l, <1>i, NoneAssumption, <1>25 DEF CloseRelease, ClaimsInv, ClaimsAccounted, Tends
  <1>26. ASSUME NEW d \in Drivers, Finish(d) PROVE ClaimsInv'
    BY <1>l, <1>i, NoneAssumption, <1>26 DEF Finish, ExitOf, ClaimsInv, ClaimsAccounted, Tends
  <1>27. ASSUME NEW d \in Drivers, Raise(d) PROVE ClaimsInv'
    BY <1>l, <1>i, NoneAssumption, <1>27 DEF Raise, ClaimsInv, ClaimsAccounted, Tends
  <1>28. ASSUME NEW d \in Drivers, Signal(d) PROVE ClaimsInv'
    BY <1>l, <1>i, NoneAssumption, <1>28 DEF Signal, ClaimsInv, ClaimsAccounted, Tends
  <1>29. ASSUME NEW d \in Drivers, Crash(d) PROVE ClaimsInv'
    BY <1>l, <1>i, NoneAssumption, <1>29 DEF Crash, ClaimsInv, ClaimsAccounted, Tends
  <1>30. ASSUME NEW d \in Drivers, NEW c \in Cells, TimesOut(d, c) PROVE ClaimsInv'
    BY <1>l, <1>i, NoneAssumption, <1>30 DEF TimesOut, ClaimsInv, ClaimsAccounted, Tends
  <1>31. ASSUME NEW c \in Cells, GoStale(c) PROVE ClaimsInv'
    BY <1>l, <1>i, NoneAssumption, <1>31 DEF GoStale, ClaimsInv, ClaimsAccounted, Tends
  <1>32. ASSUME NEW d \in Drivers, NEW c \in Cells, CellOpens(d, c) PROVE ClaimsInv'
    BY <1>l, <1>i, NoneAssumption, <1>32 DEF CellOpens, CellStep, ClaimsInv, ClaimsAccounted, Tends
  <1>33. ASSUME NEW d \in Drivers, NEW c \in Cells, CellAborts(d, c) PROVE ClaimsInv'
    BY <1>l, <1>i, NoneAssumption, <1>33 DEF CellAborts, CellStep, ClaimsInv, ClaimsAccounted, Tends
  <1>34. ASSUME NEW d \in Drivers, NEW c \in Cells, CellSealsOk(d, c) PROVE ClaimsInv'
    BY <1>l, <1>i, NoneAssumption, <1>34 DEF CellSealsOk, CellStep, ClaimsInv, ClaimsAccounted, Tends
  <1>35. ASSUME NEW d \in Drivers, NEW c \in Cells, CellFails(d, c) PROVE ClaimsInv'
    BY <1>l, <1>i, NoneAssumption, <1>35 DEF CellFails, CellStep, ClaimsInv, ClaimsAccounted, Tends
  <1>36. ASSUME NEW d \in Drivers, NEW c \in Cells, CellExits(d, c) PROVE ClaimsInv'
    BY <1>l, <1>i, NoneAssumption, <1>36 DEF CellExits, CellStep, ClaimsInv, ClaimsAccounted, Tends
  <1>37. ASSUME NEW d \in Drivers, NEW c \in Cells, CellDies(d, c) PROVE ClaimsInv'
    BY <1>l, <1>i, NoneAssumption, <1>37 DEF CellDies, KillCell, ClaimsInv, ClaimsAccounted, Tends
  <1>38. CASE UNCHANGED vars
    BY <1>l, <1>i, NoneAssumption, <1>38 DEF vars, ClaimsInv, ClaimsAccounted, Tends
  <1>q. QED
    BY <1>1, <1>2, <1>3, <1>4, <1>5, <1>6, <1>7, <1>8, <1>9, <1>10, <1>11, <1>12, <1>13,
       <1>14, <1>15, <1>16, <1>17, <1>18, <1>19, <1>20, <1>21, <1>22, <1>23, <1>24, <1>25, <1>26,
       <1>27, <1>28, <1>29, <1>30, <1>31, <1>32, <1>33, <1>34, <1>35, <1>36, <1>37, <1>38
    DEF Next, Code, Cell, AllOver

\* Whatever fails, a claim on disk belongs to a driver that has the cell in
\* hand, or that was killed or left run_grid by an exception.
THEOREM ClaimsAreAccounted == Spec => []ClaimsAccounted
  <1>1. Init => ClaimsInv
    BY NoneAssumption DEF Init, ClaimsInv, ClaimsAccounted
  <1>2. ClaimsInv => ClaimsAccounted
    BY DEF ClaimsInv
  <1>3. QED BY SweepInvariant, ClaimsStep, <1>1, <1>2, PTL DEF Spec

----------------------------------------------------------------------------
(* Mutual exclusion.  While no driver is killed, stalls or raises, no claim *)
(* is ever stale, so none is stolen, and whoever tends a cell holds it.     *)

Calm == Faults \cap {"crash", "stall", "raise"} = {}

LeaseInv ==
    /\ \A c \in Cells : ~stale[c]
    /\ \A d \in Drivers :
          /\ exit[d] \notin {"crash", "raised"}
          /\ pc[d] # "steal"
          /\ pc[d] = "over" => running[d] = {}
          /\ pc[d] \in {"release", "decide"} => proc[d][cur[d]] \notin Live
          /\ pc[d] = "popen" => ~LedgerOk(cur[d])
          /\ \A c \in Cells : Tends(d, c) => holder[c] = d
          /\ \A c \in Cells : proc[d][c] \in Live => c \in running[d]

LEMMA TriedCell ==
    ASSUME TypeOK, NEW d \in Drivers, QueueInv(d), pc[d] \in Trying
    PROVE  cur[d] \in Cells /\ cur[d] \in Queued(d) /\ cur[d] \notin running[d]
  <1>1. pending[d] \in Seq(Cells) /\ pending[d] # <<>> /\ cur[d] = Head(pending[d])
    BY DEF TypeOK, QueueInv
  <1>2. cur[d] \in Queued(d) /\ cur[d] \in Cells
    BY <1>1, TailQueue DEF Queued
  <1>3. QED BY <1>2 DEF QueueInv

LEMMA LeaseStep == Calm /\ SweepInv /\ ClaimsInv /\ LeaseInv /\ [Next]_vars => LeaseInv'
  <1> SUFFICES ASSUME Calm /\ SweepInv /\ ClaimsInv /\ LeaseInv, [Next]_vars PROVE LeaseInv'
    OBVIOUS
  <1>t. TypeOK /\ \A d \in Drivers : QueueInv(d)
    BY DEF SweepInv
  <1>i. LeaseInv /\ Calm
    OBVIOUS
  <1>a. \A d \in Drivers, c \in Cells : holder[c] = d => Tends(d, c)
    BY DEF ClaimsInv, ClaimsAccounted, LeaseInv
  <1>q. \A d \in Drivers :
           /\ pc[d] \in Trying => cur[d] \in Cells /\ cur[d] \notin running[d]
           /\ pc[d] \in {"unclaim", "decide"} => cur[d] \in Cells /\ cur[d] \notin running[d]
           /\ pc[d] \in {"kill", "release"} => cur[d] \in Cells /\ cur[d] \in running[d]
    BY <1>t, TriedCell DEF QueueInv, AtCell
  <1>l. /\ holder \in [Cells -> Drivers \cup {None}] /\ stale \in [Cells -> BOOLEAN]
        /\ pc \in [Drivers -> Labels] /\ cur \in [Drivers -> Cells \cup {None}]
        /\ running \in [Drivers -> SUBSET Cells]
        /\ ended \in [Cells -> SUBSET {"ok", "running"}]
        /\ proc \in [Drivers -> [Cells -> Live \cup Gone \cup {"none"}]]
        /\ exit \in [Drivers -> {"none", "complete", "incomplete", "failed",
                                 "signal", "raised", "crash"}]
    BY <1>t DEF TypeOK
  <1> USE DEF claims, cells, sweep, ends, Goto, About, TakeTodo, Moves, SetClaim,
              Live, Gone, Trying
  <1>1. ASSUME NEW d \in Drivers, Start(d) PROVE LeaseInv'
    BY <1>l, <1>i, <1>q, NoneAssumption, <1>1 DEF Start, LeaseInv, Tends, LedgerOk
  <1>2. ASSUME NEW d \in Drivers, NEW c \in Cells, ScanManifests(d, c) PROVE LeaseInv'
    BY <1>l, <1>i, <1>q, NoneAssumption, <1>2 DEF ScanManifests, Enqueue, LeaseInv, Tends, LedgerOk
  <1>3. ASSUME NEW d \in Drivers, ScanClaim(d) PROVE LeaseInv'
    BY <1>l, <1>i, <1>q, NoneAssumption, <1>3 DEF ScanClaim, Enqueue, LeaseInv, Tends, LedgerOk
  <1>4. ASSUME NEW d \in Drivers, ScanDone(d) PROVE LeaseInv'
    BY <1>l, <1>i, <1>q, NoneAssumption, <1>4 DEF ScanDone, LeaseInv, Tends, LedgerOk
  <1>5. ASSUME NEW d \in Drivers, LoopEnds(d) PROVE LeaseInv'
    BY <1>l, <1>i, <1>q, NoneAssumption, <1>5 DEF LoopEnds, LeaseInv, Tends, LedgerOk
  <1>6. ASSUME NEW d \in Drivers, LoopTurns(d) PROVE LeaseInv'
    BY <1>l, <1>i, <1>q, NoneAssumption, <1>6 DEF LoopTurns, LeaseInv, Tends, LedgerOk
  <1>7. ASSUME NEW d \in Drivers, NEW c \in Cells, Poll(d, c) PROVE LeaseInv'
    BY <1>l, <1>i, <1>q, NoneAssumption, <1>7 DEF Poll, LeaseInv, Tends, LedgerOk
  <1>8. ASSUME NEW d \in Drivers, Kill(d) PROVE LeaseInv'
    BY <1>l, <1>i, <1>q, NoneAssumption, <1>8 DEF Kill, KillCell, LeaseInv, Tends, LedgerOk
  <1>9. ASSUME NEW d \in Drivers, Release(d) PROVE LeaseInv'
    BY <1>l, <1>i, <1>q, NoneAssumption, <1>9 DEF Release, LeaseInv, Tends, LedgerOk
  <1>10. ASSUME NEW d \in Drivers, Decide(d) PROVE LeaseInv'
    BY <1>l, <1>i, <1>q, NoneAssumption, <1>10 DEF Decide, Enqueue, CellSucceeded, MayRetry, LeaseInv, Tends, LedgerOk
  <1>11. ASSUME NEW d \in Drivers, ReapDone(d) PROVE LeaseInv'
    BY <1>l, <1>i, <1>q, NoneAssumption, <1>11 DEF ReapDone, LeaseInv, Tends, LedgerOk
  <1>12. ASSUME NEW d \in Drivers, DispatchHead(d) PROVE LeaseInv'
    BY <1>l, <1>i, <1>q, NoneAssumption, <1>12 DEF DispatchHead, MayDispatch, LeaseInv, Tends, LedgerOk
  <1>13. ASSUME NEW d \in Drivers, DispatchDone(d) PROVE LeaseInv'
    BY <1>l, <1>i, <1>q, NoneAssumption, <1>13 DEF DispatchDone, LeaseInv, Tends, LedgerOk
  <1>14. ASSUME NEW d \in Drivers, Beat(d) PROVE LeaseInv'
    BY <1>l, <1>i, <1>q, NoneAssumption, <1>14 DEF Beat, LeaseInv, Tends, LedgerOk
  <1>15. ASSUME NEW d \in Drivers, OpenWins(d) PROVE LeaseInv'
    BY <1>l, <1>i, <1>q, NoneAssumption, <1>15 DEF OpenWins, LeaseInv, Tends, LedgerOk
  <1>16. ASSUME NEW d \in Drivers, OpenLoses(d) PROVE LeaseInv'
    BY <1>l, <1>i, <1>q, NoneAssumption, <1>16 DEF OpenLoses, LeaseInv, Tends, LedgerOk
  <1>17. ASSUME NEW d \in Drivers, StatSkips(d) PROVE LeaseInv'
    BY <1>l, <1>i, <1>q, NoneAssumption, <1>17 DEF StatSkips, Skip, PopHead, LeaseInv, Tends, LedgerOk
  <1>18. ASSUME NEW d \in Drivers, StatStale(d) PROVE LeaseInv'
    BY <1>l, <1>i, <1>q, NoneAssumption, <1>18 DEF StatStale, LeaseInv, Tends, LedgerOk
  <1>19. ASSUME NEW d \in Drivers, Steal(d) PROVE LeaseInv'
    BY <1>l, <1>i, <1>q, NoneAssumption, <1>19 DEF Steal, Skip, PopHead, LeaseInv, Tends, LedgerOk
  <1>20. ASSUME NEW d \in Drivers, Check(d) PROVE LeaseInv'
    BY <1>l, <1>i, <1>q, NoneAssumption, <1>20 DEF Check, LeaseInv, Tends, LedgerOk
  <1>21. ASSUME NEW d \in Drivers, Drop(d) PROVE LeaseInv'
    BY <1>l, <1>i, <1>q, NoneAssumption, <1>21 DEF Drop, Skip, PopHead, LeaseInv, Tends, LedgerOk
  <1>22. ASSUME NEW d \in Drivers, Launch(d) PROVE LeaseInv'
    BY <1>l, <1>i, <1>q, NoneAssumption, <1>22 DEF Launch, PopHead, Attempted, LeaseInv, Tends, LedgerOk
  <1>23. ASSUME NEW d \in Drivers, LaunchFails(d) PROVE LeaseInv'
    <2>1. /\ pc[d] = "popen" /\ cur[d] \in Cells /\ cur[d] \notin running[d]
          /\ pc' = [pc EXCEPT ![d] = pc'[d]] /\ pc'[d] \in {"beat", "dispatch"}
          /\ cur' = [cur EXCEPT ![d] = None]
          /\ holder' = [holder EXCEPT ![cur[d]] = None]
          /\ stale' = [stale EXCEPT ![cur[d]] = FALSE]
          /\ UNCHANGED <<running, ended, proc, exit>>
      BY <1>l, <1>q, <1>23 DEF LaunchFails, PopHead
    <2>2. QED BY <1>l, <1>i, <2>1, NoneAssumption DEF LeaseInv, Tends, LedgerOk
  <1>24. ASSUME NEW d \in Drivers, NEW c \in Cells, CloseKill(d, c) PROVE LeaseInv'
    BY <1>l, <1>i, <1>q, NoneAssumption, <1>24 DEF CloseKill, KillCell, LeaseInv, Tends, LedgerOk
  <1>25. ASSUME NEW d \in Drivers, CloseRelease(d) PROVE LeaseInv'
    BY <1>l, <1>i, <1>q, NoneAssumption, <1>25 DEF CloseRelease, LeaseInv, Tends, LedgerOk
  <1>26. ASSUME NEW d \in Drivers, Finish(d) PROVE LeaseInv'
    BY <1>l, <1>i, <1>q, NoneAssumption, <1>26 DEF Finish, ExitOf, LeaseInv, Tends, LedgerOk
  <1>27. ASSUME NEW d \in Drivers, Raise(d) PROVE LeaseInv'
    BY <1>i, <1>27 DEF Raise, Calm
  <1>28. ASSUME NEW d \in Drivers, Signal(d) PROVE LeaseInv'
    BY <1>l, <1>i, <1>q, NoneAssumption, <1>28 DEF Signal, LeaseInv, Tends, LedgerOk
  <1>29. ASSUME NEW d \in Drivers, Crash(d) PROVE LeaseInv'
    BY <1>i, <1>29 DEF Crash, Calm
  <1>30. ASSUME NEW d \in Drivers, NEW c \in Cells, TimesOut(d, c) PROVE LeaseInv'
    BY <1>l, <1>i, <1>q, NoneAssumption, <1>30 DEF TimesOut, LeaseInv, Tends, LedgerOk
  <1>31. ASSUME NEW c \in Cells, GoStale(c) PROVE LeaseInv'
    <2>1. holder[c] \in Drivers /\ \A d \in Drivers : ~Tends(d, c)
      BY <1>l, <1>i, <1>31 DEF GoStale, Calm, ClaimAlive
    <2>2. QED BY <1>a, <2>1
  <1>32. ASSUME NEW d \in Drivers, NEW c \in Cells, CellOpens(d, c) PROVE LeaseInv'
    BY <1>l, <1>i, <1>q, NoneAssumption, <1>32 DEF CellOpens, CellStep, LeaseInv, Tends, LedgerOk
  <1>33. ASSUME NEW d \in Drivers, NEW c \in Cells, CellAborts(d, c) PROVE LeaseInv'
    BY <1>l, <1>i, <1>q, NoneAssumption, <1>33 DEF CellAborts, CellStep, LeaseInv, Tends, LedgerOk
  <1>34. ASSUME NEW d \in Drivers, NEW c \in Cells, CellSealsOk(d, c) PROVE LeaseInv'
    BY <1>l, <1>i, <1>q, NoneAssumption, <1>34 DEF CellSealsOk, CellStep, LeaseInv, Tends, LedgerOk
  <1>35. ASSUME NEW d \in Drivers, NEW c \in Cells, CellFails(d, c) PROVE LeaseInv'
    BY <1>l, <1>i, <1>q, NoneAssumption, <1>35 DEF CellFails, CellStep, LeaseInv, Tends, LedgerOk
  <1>36. ASSUME NEW d \in Drivers, NEW c \in Cells, CellExits(d, c) PROVE LeaseInv'
    BY <1>l, <1>i, <1>q, NoneAssumption, <1>36 DEF CellExits, CellStep, LeaseInv, Tends, LedgerOk
  <1>37. ASSUME NEW d \in Drivers, NEW c \in Cells, CellDies(d, c) PROVE LeaseInv'
    BY <1>l, <1>i, <1>q, NoneAssumption, <1>37 DEF CellDies, KillCell, LeaseInv, Tends, LedgerOk
  <1>38. CASE UNCHANGED vars
    BY <1>l, <1>i, <1>q, NoneAssumption, <1>38 DEF vars, LeaseInv, Tends, LedgerOk
  <1> QED
    BY <1>1, <1>2, <1>3, <1>4, <1>5, <1>6, <1>7, <1>8, <1>9, <1>10, <1>11, <1>12, <1>13,
       <1>14, <1>15, <1>16, <1>17, <1>18, <1>19, <1>20, <1>21, <1>22, <1>23, <1>24, <1>25, <1>26,
       <1>27, <1>28, <1>29, <1>30, <1>31, <1>32, <1>33, <1>34, <1>35, <1>36, <1>37, <1>38
    DEF Next, Code, Cell, AllOver

LEMMA LeaseInit == Init => LeaseInv
  BY NoneAssumption DEF Init, LeaseInv, Tends, LedgerOk, Live

LEMMA LeaseInvariant == ASSUME Calm PROVE Spec => [](SweepInv /\ ClaimsInv /\ LeaseInv)
  <1>1. Init => ClaimsInv
    BY NoneAssumption DEF Init, ClaimsInv, ClaimsAccounted
  <1>2. SweepInv /\ ClaimsInv /\ LeaseInv /\ [Next]_vars => LeaseInv'
    BY LeaseStep
  <1>3. QED BY SweepInvariant, ClaimsStep, LeaseInit, <1>1, <1>2, PTL DEF Spec

LEMMA LiveIsClaimed == LeaseInv => LiveCellClaimed
  BY DEF LeaseInv, LiveCellClaimed, Tends

\* Mutual exclusion: as long as no driver is killed, stalls or raises, every
\* live subprocess is covered by the live claim of the driver that started it,
\* so no two drivers ever run a cell at the same time.
THEOREM LiveCellsAreClaimed == ASSUME Calm PROVE Spec => []LiveCellClaimed
  BY LeaseInvariant, LiveIsClaimed, PTL

----------------------------------------------------------------------------
(* Refinement.  Most steps leave the claims, the subprocesses and the     *)
(* ledger alone; each of the others is one step of CellLease, or none.      *)

Quiet == UNCHANGED <<holder, proc, ended>>

Loud ==
    \/ \E d \in Drivers :
          \/ Kill(d) \/ Release(d) \/ Decide(d) \/ OpenWins(d) \/ Drop(d)
          \/ Launch(d) \/ LaunchFails(d) \/ CloseRelease(d)
    \/ \E d \in Drivers, c \in Cells : CloseKill(d, c) \/ Cell(d, c)

LEMMA QuietOrLoud == Calm /\ LeaseInv /\ [Next]_vars => Quiet \/ Loud
  <1> SUFFICES ASSUME Calm /\ LeaseInv, [Next]_vars PROVE Quiet \/ Loud
    OBVIOUS
  <1> USE DEF Quiet, claims, cells, Moves
  <1>1. ASSUME NEW d \in Drivers, Start(d) \/ ScanClaim(d) \/ ScanDone(d) \/ LoopEnds(d)
                 \/ LoopTurns(d) \/ ReapDone(d) \/ DispatchHead(d) \/ DispatchDone(d)
        PROVE  Quiet
    BY <1>1 DEF Start, ScanClaim, ScanDone, LoopEnds, LoopTurns, ReapDone,
                DispatchHead, DispatchDone
  <1>2. ASSUME NEW d \in Drivers, Beat(d) \/ OpenLoses(d) \/ StatSkips(d) \/ StatStale(d)
                 \/ Check(d) \/ Finish(d) \/ Raise(d) \/ Signal(d) \/ Crash(d)
        PROVE  Quiet
    BY <1>2 DEF Beat, OpenLoses, StatSkips, StatStale, Check, Finish, Raise, Signal,
                Crash, Skip
  <1>3. ASSUME NEW d \in Drivers, NEW c \in Cells,
               ScanManifests(d, c) \/ Poll(d, c) \/ TimesOut(d, c)
        PROVE  Quiet
    BY <1>3 DEF ScanManifests, Poll, TimesOut
  <1>4. ASSUME NEW c \in Cells, GoStale(c) PROVE Quiet
    BY <1>4 DEF GoStale
  <1>5. ASSUME NEW d \in Drivers, Steal(d) PROVE FALSE
    BY <1>5 DEF Steal, LeaseInv
  <1>6. CASE UNCHANGED vars
    BY <1>6 DEF vars
  <1>7. QED BY <1>1, <1>2, <1>3, <1>4, <1>5, <1>6 DEF Next, Code, AllOver, Loud

\* What a step needs to know of the cell in hand: a claim of d excludes every
\* live subprocess but d's own running one.
LEMMA Exclusive ==
    ASSUME LeaseInv, NEW c \in Cells, NEW d \in Drivers, holder[c] = d,
           NEW e \in Drivers, proc[e][c] \in Live
    PROVE  e = d /\ c \in running[d]
  <1>1. c \in running[e] /\ pc[e] # "over"
    BY DEF LeaseInv
  <1>2. Tends(e, c)
    BY <1>1 DEF Tends
  <1>3. QED BY <1>1, <1>2 DEF LeaseInv

\* The subprocess of d for c ends, and no manifest becomes or stops being ok.
LEMMA EndOfCell ==
    ASSUME TypeOK, LeaseInv, NEW d \in Drivers, NEW c \in Cells,
           NEW as \in Gone, proc' = [proc EXCEPT ![d][c] = as],
           UNCHANGED holder, \A k \in Cells : LedgerOk(k)' <=> LedgerOk(k)
    PROVE  [Lease!Next]_Lease!vars
  <1>1. proc \in [Drivers -> [Cells -> Live \cup Gone \cup {"none"}]]
    BY DEF TypeOK
  <1>2. as \notin Live
    BY DEF Live, Gone
  <1>3. CASE proc[d][c] \in Live
    <2>1. \A e \in Drivers : proc[e][c] \in Live => e = d
      <3>1. holder[c] = d
        BY <1>3 DEF LeaseInv, Tends
      <3>2. QED BY <3>1, Exclusive
    <2>2. Lease!End(c)
      BY <1>1, <1>2, <1>3, <2>1 DEF Lease!End
    <2>3. QED BY <2>2 DEF Lease!Next
  <1>4. CASE proc[d][c] \notin Live
    BY <1>1, <1>2, <1>4 DEF Lease!vars
  <1>5. QED BY <1>3, <1>4

\* d lets go of its claim on a cell of which nothing runs.
LEMMA ReleaseOfCell ==
    ASSUME TypeOK, LeaseInv, NEW d \in Drivers, NEW c \in Cells, holder[c] = d,
           proc[d][c] \notin Live \/ c \notin running[d],
           holder' = [holder EXCEPT ![c] = None], UNCHANGED <<proc, ended>>
    PROVE  Lease!Next
  <1>1. \A e \in Drivers : proc[e][c] \notin Live
    BY Exclusive
  <1>2. Lease!Release(c)
    BY <1>1, NoneAssumption DEF Lease!Release, LedgerOk
  <1>3. QED BY <1>2 DEF Lease!Next

LEMMA LeaseSimulated ==
    Calm /\ SweepInv /\ LeaseInv /\ [Next]_vars => [Lease!Next]_Lease!vars
  <1> SUFFICES ASSUME Calm /\ SweepInv /\ LeaseInv, [Next]_vars
               PROVE  [Lease!Next]_Lease!vars
    OBVIOUS
  <1>t. TypeOK /\ \A d \in Drivers : QueueInv(d)
    BY DEF SweepInv
  <1>l. /\ holder \in [Cells -> Drivers \cup {None}]
        /\ proc \in [Drivers -> [Cells -> Live \cup Gone \cup {"none"}]]
        /\ ended \in [Cells -> SUBSET {"ok", "running"}]
    BY <1>t DEF TypeOK
  <1>q. \A d \in Drivers :
           /\ pc[d] \in Trying => cur[d] \in Cells /\ cur[d] \notin running[d]
           /\ pc[d] \in {"unclaim", "decide"} => cur[d] \in Cells /\ cur[d] \notin running[d]
           /\ pc[d] \in {"kill", "release"} => cur[d] \in Cells /\ cur[d] \in running[d]
    BY <1>t, TriedCell DEF QueueInv, AtCell
  <1>h. \A d \in Drivers :
           pc[d] \in {"drop", "popen", "unclaim", "release"} => holder[cur[d]] = d
    BY <1>q DEF LeaseInv, Tends, Trying
  <1> USE DEF claims, cells
  <1>1. CASE Quiet
    BY <1>1 DEF Quiet, Lease!vars, LedgerOk
  <1>2. ASSUME NEW d \in Drivers, Kill(d) PROVE [Lease!Next]_Lease!vars
    BY <1>t, <1>l, <1>q, <1>2, EndOfCell DEF Kill, KillCell, Gone, LedgerOk
  <1>3. ASSUME NEW d \in Drivers, Release(d) PROVE Lease!Next
    BY <1>t, <1>q, <1>h, <1>3, ReleaseOfCell DEF Release, SetClaim, LeaseInv
  <1>4. ASSUME NEW d \in Drivers, Decide(d) PROVE UNCHANGED Lease!vars
    <2>1. cur[d] \in Cells /\ proc[d][cur[d]] \notin Live
      BY <1>q, <1>4 DEF Decide, LeaseInv
    <2>2. proc' = [proc EXCEPT ![d][cur[d]] = "none"] /\ UNCHANGED <<holder, ended>>
      BY <1>4 DEF Decide
    <2>3. QED BY <1>l, <2>1, <2>2 DEF Lease!vars, LedgerOk, Live
  <1>5. ASSUME NEW d \in Drivers, OpenWins(d) PROVE Lease!Next
    <2>1. cur[d] \in Cells
      BY <1>q, <1>5 DEF OpenWins, Trying
    <2>2. Lease!Acquire(d, cur[d])
      BY <1>5 DEF OpenWins, SetClaim, Lease!Acquire, LedgerOk
    <2>3. QED BY <2>1, <2>2 DEF Lease!Next
  <1>6. ASSUME NEW d \in Drivers, Drop(d) PROVE Lease!Next
    BY <1>t, <1>q, <1>h, <1>6, ReleaseOfCell DEF Drop, SetClaim, Skip, Trying
  <1>7. ASSUME NEW d \in Drivers, Launch(d) PROVE Lease!Next
    <2>1. PICK x \in Cells : x = cur[d]
      BY <1>q, <1>7 DEF Launch, Trying
    <2>2. holder[x] = d /\ ~LedgerOk(x) /\ \A e \in Drivers : proc[e][x] \notin Live
      BY <1>q, <1>h, <1>7, <2>1, Exclusive DEF Launch, Trying, LeaseInv
    <2>3. proc' = [proc EXCEPT ![d][x] = "boot"] /\ UNCHANGED <<holder, ended>>
      BY <1>7, <2>1 DEF Launch
    <2>4. \A e \in Drivers, c \in Cells :
             proc'[e][c] \in Live <=> proc[e][c] \in Live \/ (e = d /\ c = x)
      BY <1>l, <2>3 DEF Live
    <2>5. {c \in Cells : \E e \in Drivers : proc'[e][c] \in Live}
            = {c \in Cells : \E e \in Drivers : proc[e][c] \in Live} \cup {x}
      BY <2>4
    <2>6. Lease!Launch(x)
      BY <2>2, <2>3, <2>5, NoneAssumption DEF Lease!Launch, LedgerOk
    <2>7. QED BY <2>6 DEF Lease!Next
  <1>8. ASSUME NEW d \in Drivers, LaunchFails(d) PROVE Lease!Next
    BY <1>t, <1>q, <1>h, <1>8, ReleaseOfCell DEF LaunchFails, SetClaim, Trying
  <1>9. ASSUME NEW d \in Drivers, CloseRelease(d) PROVE Lease!Next
    BY <1>t, <1>q, <1>h, <1>9, ReleaseOfCell DEF CloseRelease, SetClaim
  <1>10. ASSUME NEW d \in Drivers, NEW c \in Cells, CloseKill(d, c)
         PROVE  [Lease!Next]_Lease!vars
    BY <1>t, <1>l, <1>10, EndOfCell DEF CloseKill, KillCell, Gone, LedgerOk
  <1>11. ASSUME NEW d \in Drivers, NEW c \in Cells, CellOpens(d, c) \/ CellFails(d, c)
         PROVE  UNCHANGED Lease!vars
    BY <1>l, <1>11 DEF CellOpens, CellFails, CellStep, Lease!vars, LedgerOk, Live
  <1>12. ASSUME NEW d \in Drivers, NEW c \in Cells,
                CellAborts(d, c) \/ CellExits(d, c) \/ CellDies(d, c)
         PROVE  [Lease!Next]_Lease!vars
    <2>1. PICK as \in Gone : proc' = [proc EXCEPT ![d][c] = as]
      BY <1>12 DEF CellAborts, CellExits, CellDies, CellStep, KillCell, Gone
    <2>2. UNCHANGED holder /\ \A k \in Cells : LedgerOk(k)' <=> LedgerOk(k)
      BY <1>l, <1>12 DEF CellAborts, CellExits, CellDies, CellStep, KillCell, LedgerOk
    <2>3. QED BY <1>t, <2>1, <2>2, EndOfCell
  <1>13. ASSUME NEW d \in Drivers, NEW c \in Cells, CellSealsOk(d, c) PROVE Lease!Next
    <2>1. Lease!Finish(c)
      BY <1>l, <1>13 DEF CellSealsOk, CellStep, Lease!Finish, LedgerOk, Live
    <2>2. QED BY <2>1 DEF Lease!Next
  <1>14. QED
    BY QuietOrLoud, <1>1, <1>2, <1>3, <1>4, <1>5, <1>6, <1>7, <1>8, <1>9, <1>10, <1>11,
       <1>12, <1>13
    DEF Loud, Cell

\* As long as no driver is killed, stalls or raises, the claim files implement
\* the leases of CellLease: whatever the order of calls on the filesystem.
THEOREM ClaimsImplementLease == ASSUME Calm PROVE Spec => ImplementsLease
  <1>1. Init => Lease!Init
    <2>1. ASSUME Init PROVE Lease!Init
      BY <2>1 DEF Init, Lease!Init, Live
    <2>2. QED BY <2>1
  <1>2. Calm /\ SweepInv /\ LeaseInv /\ [Next]_vars => [Lease!Next]_Lease!vars
    BY LeaseSimulated
  <1>3. QED BY LeaseInvariant, <1>1, <1>2, PTL DEF Spec, ImplementsLease, Lease!Spec

LEMMA StartsAreFresh ==
    ASSUME SweepInv, LeaseInv, Calm, [Next]_vars,
           NEW d \in Drivers, NEW c \in Cells, proc[d][c] \notin Live, proc'[d][c] \in Live
    PROVE  ~LedgerOk(c)
  <1>t. TypeOK /\ \A e \in Drivers : QueueInv(e)
    BY DEF SweepInv
  <1>l. proc \in [Drivers -> [Cells -> Live \cup Gone \cup {"none"}]]
    BY <1>t DEF TypeOK
  <1>1. ASSUME NEW e \in Drivers, Kill(e) \/ Decide(e) PROVE FALSE
    BY <1>l, <1>1 DEF Kill, Decide, KillCell, Live
  <1>2. ASSUME NEW e \in Drivers, Release(e) \/ OpenWins(e) \/ Drop(e)
                 \/ LaunchFails(e) \/ CloseRelease(e)
        PROVE  FALSE
    BY <1>2 DEF Release, OpenWins, Drop, Skip, LaunchFails, CloseRelease, cells
  <1>3. ASSUME NEW e \in Drivers, Launch(e) PROVE ~LedgerOk(c)
    <2>1. pc[e] = "popen" /\ proc' = [proc EXCEPT ![e][cur[e]] = "boot"]
      BY <1>3 DEF Launch
    <2>2. d = e /\ c = cur[e]
      BY <1>l, <2>1
    <2>3. QED BY <2>1, <2>2 DEF LeaseInv
  <1>4. ASSUME NEW e \in Drivers, NEW k \in Cells, CloseKill(e, k) \/ Cell(e, k)
        PROVE  FALSE
    BY <1>l, <1>4 DEF CloseKill, Cell, CellOpens, CellAborts, CellSealsOk, CellFails,
                      CellExits, CellDies, CellStep, KillCell, Live
  <1>5. QED BY QuietOrLoud, <1>1, <1>2, <1>3, <1>4 DEF Quiet, Loud

\* As long as no driver is killed, stalls or raises, no cell with an ok manifest
\* is started again: the ledger is read once more under the claim, and only the
\* holder of the claim could have finished the cell since.
THEOREM NeverRunAgain == ASSUME Calm PROVE Spec => NeverRerun
  <1>1. SweepInv /\ LeaseInv /\ Calm /\ [Next]_vars =>
          [\A d \in Drivers, c \in Cells :
              proc[d][c] \notin Live /\ proc'[d][c] \in Live => ~LedgerOk(c)]_vars
    BY StartsAreFresh
  <1>2. QED BY LeaseInvariant, <1>1, PTL DEF Spec, NeverRerun

----------------------------------------------------------------------------
(* No cell falls between two drivers.  A driver that is about to skip a cell *)
(* for somebody else's claim does not count for it any more: the holder does. *)

FirmlyOwes(d, c) == Owes(d, c) /\ ~(pc[d] = "stat" /\ cur[d] = c)

Covers(d, c) ==
    FirmlyOwes(d, c) \/ results[d][c] \in {"failed", "timeout"} \/ shutdown[d]

\* Why a driver leaves the loop or lets go of a claim.
EndInv(d) ==
    /\ pc[d] = "unclaim" => shutdown[d]
    /\ pc[d] = "close" => shutdown[d] \/ (pending[d] = <<>> /\ running[d] = {})
    /\ pc[d] = "drop" => LedgerOk(cur[d])

CoverInv ==
    /\ \A d \in Drivers : EndInv(d)
    /\ \A c \in Cells :
          \/ LedgerOk(c)
          \/ \A d \in Drivers : pc[d] = "off"
          \/ \E d \in Drivers : Covers(d, c)

\* A step of one driver: what it no longer covers is done, or somebody else's.
LEMMA CoverFrame ==
    ASSUME CoverInv, NEW d \in Drivers,
           \A e \in Drivers \ {d} :
              /\ pc'[e] = pc[e] /\ cur'[e] = cur[e] /\ todo'[e] = todo[e]
              /\ pending'[e] = pending[e] /\ running'[e] = running[e]
              /\ results'[e] = results[e] /\ shutdown'[e] = shutdown[e],
           \A k : LedgerOk(k) => LedgerOk(k)',
           EndInv(d)',
           \A c \in Cells : pc[d] = "off" \/ Covers(d, c) =>
              Covers(d, c)' \/ LedgerOk(c)' \/ \E e \in Drivers \ {d} : Covers(e, c)
    PROVE  CoverInv'
  <1>1. ASSUME NEW e \in Drivers \ {d} PROVE EndInv(e)'
    BY <1>1 DEF CoverInv, EndInv
  <1>2. ASSUME NEW e \in Drivers \ {d}, NEW c \in Cells, Covers(e, c) PROVE Covers(e, c)'
    BY <1>2 DEF Covers, FirmlyOwes, Owes, Queued
  <1>3. ASSUME NEW c \in Cells
        PROVE  LedgerOk(c)' \/ \E e \in Drivers : Covers(e, c)'
    <2>1. CASE LedgerOk(c)
      BY <2>1
    <2>2. CASE pc[d] = "off" \/ Covers(d, c)
      BY <1>2, <2>2
    <2>3. CASE \E e \in Drivers \ {d} : Covers(e, c)
      BY <1>2, <2>3
    <2>4. QED BY <2>1, <2>2, <2>3 DEF CoverInv
  <1>4. QED BY <1>1, <1>3 DEF CoverInv

\* The holder of a claim covers its cell.
LEMMA HolderCovers ==
    ASSUME SweepInv, ClaimsInv, LeaseInv, CoverInv, NEW c \in Cells, NEW h \in Drivers,
           holder[c] = h
    PROVE  Tends(h, c) /\ Covers(h, c)
  <1>1. Tends(h, c)
    BY DEF ClaimsInv, ClaimsAccounted, LeaseInv
  <1>2. CASE c \in running[h]
    <2>1. pc[h] = "stat" => cur[h] \notin running[h]
      BY TriedCell DEF SweepInv, Trying
    <2>2. QED BY <1>1, <1>2, <2>1 DEF Tends, Covers, FirmlyOwes, Owes
  <1>3. CASE c = cur[h] /\ pc[h] \in {"check", "drop", "popen"}
    <2>1. c \in Queued(h)
      BY <1>3, TriedCell DEF SweepInv, Trying
    <2>2. QED BY <1>1, <1>3, <2>1 DEF Covers, FirmlyOwes, Owes
  <1>4. CASE c = cur[h] /\ pc[h] = "unclaim"
    BY <1>1, <1>4 DEF CoverInv, EndInv, Covers
  <1>5. QED BY <1>1, <1>2, <1>3, <1>4 DEF Tends

LEMMA CoverStep ==
    Calm /\ SweepInv /\ ClaimsInv /\ LeaseInv /\ CoverInv /\ [Next]_vars => CoverInv'
  <1> SUFFICES ASSUME Calm /\ SweepInv /\ ClaimsInv /\ LeaseInv /\ CoverInv, [Next]_vars
               PROVE  CoverInv'
    OBVIOUS
  <1>t. TypeOK /\ \A d \in Drivers : QueueInv(d)
    BY DEF SweepInv
  <1>l. /\ pc \in [Drivers -> Labels] /\ cur \in [Drivers -> Cells \cup {None}]
        /\ todo \in [Drivers -> SUBSET Cells] /\ pending \in [Drivers -> Seq(Cells)]
        /\ running \in [Drivers -> SUBSET Cells]
        /\ results \in [Drivers -> [Cells -> {"none", "ok", "failed", "timeout"}]]
        /\ shutdown \in [Drivers -> BOOLEAN]
        /\ ended \in [Cells -> SUBSET {"ok", "running"}]
    BY <1>t DEF TypeOK
  <1>e. \A d \in Drivers : EndInv(d)
    BY DEF CoverInv
  <1>q. \A d \in Drivers : pc[d] \in Trying =>
           cur[d] \in Cells /\ cur[d] \in Queued(d) /\ cur[d] \notin running[d]
    BY <1>t, TriedCell
  <1> USE DEF claims, cells, sweep, ends, Goto, About, TakeTodo, Moves, SetClaim
  <1> DEFINE Frame(d) ==
               \A e \in Drivers \ {d} :
                  /\ pc'[e] = pc[e] /\ cur'[e] = cur[e] /\ todo'[e] = todo[e]
                  /\ pending'[e] = pending[e] /\ running'[e] = running[e]
                  /\ results'[e] = results[e] /\ shutdown'[e] = shutdown[e]
             Passes(d) ==
               \A c \in Cells : pc[d] = "off" \/ Covers(d, c) =>
                  Covers(d, c)' \/ LedgerOk(c)' \/ \E e \in Drivers \ {d} : Covers(e, c)
  <1>m. ASSUME UNCHANGED ended PROVE \A k : LedgerOk(k) => LedgerOk(k)'
    BY <1>m DEF LedgerOk
  <1>k. ASSUME NEW d \in Drivers, NEW c \in Cells, NEW as, KillCell(d, c, as)
        PROVE  \A k : LedgerOk(k) => LedgerOk(k)'
    BY <1>k, <1>l DEF KillCell, LedgerOk
  <1>f. ASSUME NEW d \in Drivers, Frame(d), \A k : LedgerOk(k) => LedgerOk(k)',
               EndInv(d)', Passes(d)
        PROVE  CoverInv'
    BY <1>f, CoverFrame
  <1>g. ASSUME UNCHANGED <<pc, cur, todo, pending, running, results, shutdown>>,
               \A k : LedgerOk(k) => LedgerOk(k)'
        PROVE  CoverInv'
    BY <1>g DEF CoverInv, EndInv, Covers, FirmlyOwes, Owes, Queued
  <1>1. ASSUME NEW d \in Drivers, Start(d) PROVE CoverInv'
    <2>1. Frame(d)
      BY <1>l, <1>1 DEF Start
    <2>2. \A k : LedgerOk(k) => LedgerOk(k)'
      BY <1>m, <1>1 DEF Start
    <2>3. EndInv(d)'
      BY <1>l, <1>e, <1>1 DEF Start, EndInv, LedgerOk
    <2>4. Passes(d)
      BY <1>l, <1>t, <1>1 DEF Start, Covers, FirmlyOwes, Owes, Queued
    <2>5. QED BY <1>f, <2>1, <2>2, <2>3, <2>4
  <1>2. ASSUME NEW d \in Drivers, NEW c \in Cells, ScanManifests(d, c) PROVE CoverInv'
    <2>1. Frame(d) /\ UNCHANGED <<ended, running, results, shutdown>>
      BY <1>l, <1>2 DEF ScanManifests, Enqueue
    <2>2. \A k : LedgerOk(k) => LedgerOk(k)'
      BY <1>m, <2>1
    <2>3. pc[d] = "scan" /\ pc'[d] \in {"scan", "scanClaim"} /\ todo'[d] = todo[d] \ {c}
      BY <1>l, <1>2 DEF ScanManifests
    <2>4. EndInv(d)'
      BY <2>3 DEF EndInv
    <2>5. \/ LedgerOk(c)
          \/ pc'[d] = "scanClaim" /\ cur'[d] = c
          \/ Queued(d)' = Queued(d) \cup {c}
      <3>1. Enqueue(d, c) => Queued(d)' = Queued(d) \cup {c}
        BY <1>t, <1>l, AppendQueue DEF Enqueue, Queued
      <3>2. QED BY <1>l, <1>2, <3>1 DEF ScanManifests
    <2>6. Queued(d) \subseteq Queued(d)'
      <3>1. Enqueue(d, c) => Queued(d)' = Queued(d) \cup {c}
        BY <1>t, <1>l, AppendQueue DEF Enqueue, Queued
      <3>2. pending' = pending => Queued(d)' = Queued(d)
        BY DEF Queued
      <3>3. QED BY <1>2, <3>1, <3>2 DEF ScanManifests
    <2>7. Passes(d)
      BY <2>1, <2>2, <2>3, <2>5, <2>6 DEF Covers, FirmlyOwes, Owes
    <2>8. QED BY <1>f, <2>1, <2>2, <2>4, <2>7
  <1>3. ASSUME NEW d \in Drivers, ScanClaim(d) PROVE CoverInv'
    <2>1. Frame(d) /\ UNCHANGED <<ended, running, results, shutdown, todo>>
      BY <1>l, <1>3 DEF ScanClaim, Enqueue
    <2>2. \A k : LedgerOk(k) => LedgerOk(k)'
      BY <1>m, <2>1
    <2>3. pc[d] = "scanClaim" /\ pc'[d] = "scan" /\ cur[d] \in Cells /\ running[d] = {}
      BY <1>l, <1>t, <1>3 DEF ScanClaim, QueueInv, AtCell, Scanning
    <2>4. EndInv(d)'
      BY <2>3 DEF EndInv
    <2>5. \/ Queued(d)' = Queued(d) \cup {cur[d]}
          \/ Queued(d)' = Queued(d) /\ \E e \in Drivers \ {d} : Covers(e, cur[d])
      <3>1. CASE ClaimAlive(cur[d])
        <4>1. Queued(d)' = Queued(d)
          BY <1>3, <3>1 DEF ScanClaim, Queued
        <4>2. PICK h \in Drivers : holder[cur[d]] = h
          BY <1>t, <2>3, <3>1 DEF TypeOK, ClaimAlive
        <4>3. Tends(h, cur[d]) /\ Covers(h, cur[d])
          BY <2>3, <4>2, HolderCovers
        <4>4. h # d
          BY <2>3, <4>3 DEF Tends
        <4>5. QED BY <4>1, <4>3, <4>4
      <3>2. CASE ~ClaimAlive(cur[d])
        <4>1. pending'[d] = Append(pending[d], cur[d]) /\ pending[d] \in Seq(Cells)
          BY <1>l, <1>3, <3>2 DEF ScanClaim, Enqueue
        <4>2. QED BY <2>3, <4>1, AppendQueue DEF Queued
      <3>3. QED BY <3>1, <3>2
    <2>6. Passes(d)
      BY <2>1, <2>3, <2>5 DEF Covers, FirmlyOwes, Owes
    <2>7. QED BY <1>f, <2>1, <2>2, <2>4, <2>6
  <1>4. ASSUME NEW d \in Drivers, ScanDone(d) PROVE CoverInv'
    <2>1. Frame(d)
      BY <1>l, <1>4 DEF ScanDone
    <2>2. \A k : LedgerOk(k) => LedgerOk(k)'
      BY <1>m, <1>4 DEF ScanDone
    <2>3. EndInv(d)'
      BY <1>l, <1>e, <1>4 DEF ScanDone, EndInv, LedgerOk
    <2>4. Passes(d)
      BY <1>l, <1>t, <1>4 DEF ScanDone, Covers, FirmlyOwes, Owes, Queued
    <2>5. QED BY <1>f, <2>1, <2>2, <2>3, <2>4
  <1>5. ASSUME NEW d \in Drivers, LoopEnds(d) PROVE CoverInv'
    <2>1. Frame(d)
      BY <1>l, <1>5 DEF LoopEnds
    <2>2. \A k : LedgerOk(k) => LedgerOk(k)'
      BY <1>m, <1>5 DEF LoopEnds
    <2>3. EndInv(d)'
      BY <1>l, <1>e, <1>5 DEF LoopEnds, EndInv, LedgerOk
    <2>4. Passes(d)
      BY <1>l, <1>t, <1>5 DEF LoopEnds, Covers, FirmlyOwes, Owes, Queued
    <2>5. QED BY <1>f, <2>1, <2>2, <2>3, <2>4
  <1>6. ASSUME NEW d \in Drivers, LoopTurns(d) PROVE CoverInv'
    <2>1. Frame(d)
      BY <1>l, <1>6 DEF LoopTurns
    <2>2. \A k : LedgerOk(k) => LedgerOk(k)'
      BY <1>m, <1>6 DEF LoopTurns
    <2>3. EndInv(d)'
      BY <1>l, <1>e, <1>6 DEF LoopTurns, EndInv, LedgerOk
    <2>4. Passes(d)
      BY <1>l, <1>t, <1>6 DEF LoopTurns, Covers, FirmlyOwes, Owes, Queued
    <2>5. QED BY <1>f, <2>1, <2>2, <2>3, <2>4
  <1>7. ASSUME NEW d \in Drivers, NEW c \in Cells, Poll(d, c) PROVE CoverInv'
    <2>1. Frame(d)
      BY <1>l, <1>7 DEF Poll
    <2>2. \A k : LedgerOk(k) => LedgerOk(k)'
      BY <1>m, <1>7 DEF Poll
    <2>3. EndInv(d)'
      BY <1>l, <1>e, <1>7 DEF Poll, EndInv, LedgerOk
    <2>4. Passes(d)
      BY <1>l, <1>t, <1>7 DEF Poll, Covers, FirmlyOwes, Owes, Queued
    <2>5. QED BY <1>f, <2>1, <2>2, <2>3, <2>4
  <1>8. ASSUME NEW d \in Drivers, Kill(d) PROVE CoverInv'
    <2>1. Frame(d)
      BY <1>l, <1>8 DEF Kill, KillCell
    <2>2. \A k : LedgerOk(k) => LedgerOk(k)'
      BY <1>k, <1>8, <1>t DEF Kill, KillCell, QueueInv, AtCell
    <2>3. EndInv(d)'
      BY <1>l, <1>e, <1>8 DEF Kill, KillCell, EndInv, LedgerOk
    <2>4. Passes(d)
      BY <1>l, <1>t, <1>8 DEF Kill, KillCell, Covers, FirmlyOwes, Owes, Queued
    <2>5. QED BY <1>f, <2>1, <2>2, <2>3, <2>4
  <1>9. ASSUME NEW d \in Drivers, Release(d) PROVE CoverInv'
    <2>1. Frame(d)
      BY <1>l, <1>9 DEF Release
    <2>2. \A k : LedgerOk(k) => LedgerOk(k)'
      BY <1>m, <1>9 DEF Release
    <2>3. EndInv(d)'
      BY <1>l, <1>e, <1>9 DEF Release, EndInv, LedgerOk
    <2>4. Passes(d)
      BY <1>l, <1>t, <1>9 DEF Release, Covers, FirmlyOwes, Owes, Queued, QueueInv, AtCell
    <2>5. QED BY <1>f, <2>1, <2>2, <2>3, <2>4
  <1>10. ASSUME NEW d \in Drivers, Decide(d) PROVE CoverInv'
    <2>1. Frame(d) /\ UNCHANGED <<ended, running, shutdown, todo>>
      BY <1>l, <1>10 DEF Decide, Enqueue
    <2>2. \A k : LedgerOk(k) => LedgerOk(k)'
      BY <1>m, <2>1
    <2>3. pc[d] = "decide" /\ pc'[d] = "reap" /\ cur[d] \in Cells
      BY <1>l, <1>t, <1>10 DEF Decide, QueueInv, AtCell
    <2>4. EndInv(d)'
      BY <2>3 DEF EndInv
    <2>5. Enqueue(d, cur[d]) => Queued(d)' = Queued(d) \cup {cur[d]}
      BY <1>l, <2>3, AppendQueue DEF Enqueue, Queued
    <2>6. /\ Queued(d) \subseteq Queued(d)'
          /\ \A c \in Cells : c # cur[d] => results'[d][c] = results[d][c]
          /\ \/ LedgerOk(cur[d])
             \/ results'[d][cur[d]] \in {"failed", "timeout"}
             \/ cur[d] \in Queued(d)' /\ results' = results
      <3>1. CASE ~CellSucceeded(d, cur[d]) /\ MayRetry(d, cur[d])
        BY <1>10, <2>5, <3>1 DEF Decide
      <3>2. CASE CellSucceeded(d, cur[d]) \/ ~MayRetry(d, cur[d])
        <4>1. Queued(d)' = Queued(d)
          BY <1>10, <3>2 DEF Decide, Queued
        <4>2. /\ \A c \in Cells : c # cur[d] => results'[d][c] = results[d][c]
              /\ results'[d][cur[d]] = IF CellSucceeded(d, cur[d]) THEN "ok"
                                       ELSE IF proc[d][cur[d]] = "killed" THEN "timeout"
                                       ELSE "failed"
          BY <1>l, <1>10, <2>3, <3>2 DEF Decide
        <4>3. QED BY <4>1, <4>2 DEF CellSucceeded
      <3>3. QED BY <3>1, <3>2
    <2>7. Passes(d)
      BY <2>1, <2>2, <2>3, <2>6 DEF Covers, FirmlyOwes, Owes
    <2>8. QED BY <1>f, <2>1, <2>2, <2>4, <2>7
  <1>11. ASSUME NEW d \in Drivers, ReapDone(d) PROVE CoverInv'
    <2>1. Frame(d)
      BY <1>l, <1>11 DEF ReapDone
    <2>2. \A k : LedgerOk(k) => LedgerOk(k)'
      BY <1>m, <1>11 DEF ReapDone
    <2>3. EndInv(d)'
      BY <1>l, <1>e, <1>11 DEF ReapDone, EndInv, LedgerOk
    <2>4. Passes(d)
      BY <1>l, <1>t, <1>11 DEF ReapDone, Covers, FirmlyOwes, Owes, Queued
    <2>5. QED BY <1>f, <2>1, <2>2, <2>3, <2>4
  <1>12. ASSUME NEW d \in Drivers, DispatchHead(d) PROVE CoverInv'
    <2>1. Frame(d)
      BY <1>l, <1>12 DEF DispatchHead, MayDispatch
    <2>2. \A k : LedgerOk(k) => LedgerOk(k)'
      BY <1>m, <1>12 DEF DispatchHead, MayDispatch
    <2>3. EndInv(d)'
      BY <1>l, <1>e, <1>12 DEF DispatchHead, MayDispatch, EndInv, LedgerOk
    <2>4. Passes(d)
      BY <1>l, <1>t, <1>12 DEF DispatchHead, MayDispatch, Covers, FirmlyOwes, Owes, Queued
    <2>5. QED BY <1>f, <2>1, <2>2, <2>3, <2>4
  <1>13. ASSUME NEW d \in Drivers, DispatchDone(d) PROVE CoverInv'
    <2>1. Frame(d)
      BY <1>l, <1>13 DEF DispatchDone
    <2>2. \A k : LedgerOk(k) => LedgerOk(k)'
      BY <1>m, <1>13 DEF DispatchDone
    <2>3. EndInv(d)'
      BY <1>l, <1>e, <1>13 DEF DispatchDone, EndInv, LedgerOk
    <2>4. Passes(d)
      BY <1>l, <1>t, <1>13 DEF DispatchDone, Covers, FirmlyOwes, Owes, Queued
    <2>5. QED BY <1>f, <2>1, <2>2, <2>3, <2>4
  <1>14. ASSUME NEW d \in Drivers, Beat(d) PROVE CoverInv'
    <2>1. Frame(d)
      BY <1>l, <1>14 DEF Beat
    <2>2. \A k : LedgerOk(k) => LedgerOk(k)'
      BY <1>m, <1>14 DEF Beat
    <2>3. EndInv(d)'
      BY <1>l, <1>e, <1>14 DEF Beat, EndInv, LedgerOk
    <2>4. Passes(d)
      BY <1>l, <1>t, <1>14 DEF Beat, Covers, FirmlyOwes, Owes, Queued
    <2>5. QED BY <1>f, <2>1, <2>2, <2>3, <2>4
  <1>15. ASSUME NEW d \in Drivers, OpenWins(d) PROVE CoverInv'
    <2>1. Frame(d)
      BY <1>l, <1>15 DEF OpenWins
    <2>2. \A k : LedgerOk(k) => LedgerOk(k)'
      BY <1>m, <1>15 DEF OpenWins
    <2>3. EndInv(d)'
      BY <1>l, <1>e, <1>15 DEF OpenWins, EndInv, LedgerOk
    <2>4. Passes(d)
      BY <1>l, <1>t, <1>15 DEF OpenWins, Covers, FirmlyOwes, Owes, Queued
    <2>5. QED BY <1>f, <2>1, <2>2, <2>3, <2>4
  <1>16. ASSUME NEW d \in Drivers, OpenLoses(d) PROVE CoverInv'
    <2>1. Frame(d) /\ UNCHANGED <<ended, running, results, shutdown, todo, cur, pending>>
      BY <1>l, <1>16 DEF OpenLoses
    <2>2. \A k : LedgerOk(k) => LedgerOk(k)'
      BY <1>m, <2>1
    <2>3. pc[d] = "open" /\ pc'[d] = "stat" /\ cur[d] \in Cells /\ cur[d] \notin running[d]
          /\ holder[cur[d]] # None
      BY <1>l, <1>q, <1>16 DEF OpenLoses, Trying
    <2>4. EndInv(d)'
      BY <2>3 DEF EndInv
    <2>5. \E e \in Drivers \ {d} : Covers(e, cur[d])
      <3>1. PICK h \in Drivers : holder[cur[d]] = h
        BY <1>t, <2>3 DEF TypeOK
      <3>2. Tends(h, cur[d]) /\ Covers(h, cur[d])
        BY <2>3, <3>1, HolderCovers
      <3>3. h # d
        BY <2>3, <3>2 DEF Tends
      <3>4. QED BY <3>2, <3>3
    <2>6. Passes(d)
      BY <2>1, <2>3, <2>5 DEF Covers, FirmlyOwes, Owes, Queued
    <2>7. QED BY <1>f, <2>1, <2>2, <2>4, <2>6
  \* The head of the queue goes; whoever else was owed still is.
  <1>p. ASSUME NEW d \in Drivers, pc[d] \in Trying, PopHead(d),
               UNCHANGED <<running, shutdown, todo>>
        PROVE  /\ results' = results => Frame(d)
               /\ EndInv(d)'
               /\ pc'[d] = "dispatch" /\ cur[d] \in Cells
               /\ Queued(d)' = Queued(d) \ {cur[d]}
    <2>1. pending[d] # <<>> /\ cur[d] = Head(pending[d]) /\ IsInjective(pending[d])
      BY <1>t, <1>p DEF QueueInv
    <2>2. Queued(d)' = Queued(d) \ {cur[d]}
      BY <1>t, <1>p, <2>1, Popped
    <2>3. QED BY <1>l, <1>q, <1>p, <2>2 DEF PopHead, EndInv
  <1>17. ASSUME NEW d \in Drivers, StatSkips(d) PROVE CoverInv'
    <2>1. pc[d] = "stat" /\ PopHead(d) /\ UNCHANGED <<ended, running, results, shutdown, todo>>
      BY <1>17 DEF StatSkips, Skip
    <2>2. Frame(d) /\ EndInv(d)' /\ pc'[d] = "dispatch" /\ Queued(d)' = Queued(d) \ {cur[d]}
      BY <1>p, <2>1 DEF Trying
    <2>3. Passes(d)
      BY <1>q, <2>1, <2>2 DEF Covers, FirmlyOwes, Owes, Trying
    <2>4. QED BY <1>f, <1>m, <2>1, <2>2, <2>3
  <1>18. ASSUME NEW d \in Drivers, StatStale(d) \/ Steal(d) PROVE CoverInv'
    BY <1>l, <1>q, <1>18 DEF StatStale, Steal, LeaseInv, Trying
  <1>19. ASSUME NEW d \in Drivers, Check(d) PROVE CoverInv'
    <2>1. Frame(d)
      BY <1>l, <1>19 DEF Check
    <2>2. \A k : LedgerOk(k) => LedgerOk(k)'
      BY <1>m, <1>19 DEF Check
    <2>3. EndInv(d)'
      BY <1>l, <1>e, <1>19, <1>q DEF Check, EndInv, LedgerOk
    <2>4. Passes(d)
      BY <1>l, <1>t, <1>19 DEF Check, Covers, FirmlyOwes, Owes, Queued
    <2>5. QED BY <1>f, <2>1, <2>2, <2>3, <2>4
  <1>20. ASSUME NEW d \in Drivers, Drop(d) PROVE CoverInv'
    <2>1. pc[d] = "drop" /\ PopHead(d) /\ UNCHANGED <<ended, running, results, shutdown, todo>>
      BY <1>20 DEF Drop, Skip
    <2>2. Frame(d) /\ EndInv(d)' /\ pc'[d] = "dispatch" /\ Queued(d)' = Queued(d) \ {cur[d]}
      BY <1>p, <2>1 DEF Trying
    <2>4. LedgerOk(cur[d])
      BY <1>e, <2>1 DEF EndInv
    <2>5. \A k : LedgerOk(k) => LedgerOk(k)'
      BY <1>m, <2>1
    <2>6. Passes(d)
      BY <1>q, <2>1, <2>2, <2>4, <2>5 DEF Covers, FirmlyOwes, Owes, Trying
    <2>7. QED BY <1>f, <2>2, <2>5, <2>6
  <1>21. ASSUME NEW d \in Drivers, Launch(d) PROVE CoverInv'
    <2>1. pc[d] = "popen" /\ PopHead(d) /\ UNCHANGED <<ended, results, shutdown, todo>>
          /\ running' = [running EXCEPT ![d] = @ \cup {cur[d]}]
      BY <1>21 DEF Launch
    <2>2. pending[d] # <<>> /\ cur[d] = Head(pending[d]) /\ IsInjective(pending[d])
      BY <1>t, <2>1 DEF QueueInv, Trying
    <2>3. Queued(d)' = Queued(d) \ {cur[d]} /\ running'[d] = running[d] \cup {cur[d]}
      BY <1>t, <1>l, <2>1, <2>2, Popped
    <2>4. Frame(d) /\ EndInv(d)' /\ pc'[d] = "dispatch"
      BY <1>l, <2>1 DEF PopHead, EndInv
    <2>5. Passes(d)
      BY <2>1, <2>3, <2>4 DEF Covers, FirmlyOwes, Owes
    <2>6. QED BY <1>f, <1>m, <2>1, <2>4, <2>5
  <1>22. ASSUME NEW d \in Drivers, LaunchFails(d) PROVE CoverInv'
    <2>1. pc[d] = "popen" /\ cur[d] \in Cells /\ UNCHANGED <<ended, running, shutdown, todo>>
      BY <1>q, <1>22 DEF LaunchFails, Trying
    <2>2. CASE UNCHANGED <<pending, results>> /\ pc' = [pc EXCEPT ![d] = "beat"] /\ About(d, None)
      <3>1. Frame(d) /\ EndInv(d)' /\ pc'[d] = "beat"
        BY <1>l, <2>1, <2>2 DEF EndInv
      <3>2. Passes(d)
        BY <2>1, <2>2, <3>1 DEF Covers, FirmlyOwes, Owes, Queued
      <3>3. QED BY <1>f, <1>m, <2>1, <3>1, <3>2
    <2>3. CASE PopHead(d) /\ results' = [results EXCEPT ![d][cur[d]] = "failed"]
      <3>1. EndInv(d)' /\ pc'[d] = "dispatch" /\ Queued(d)' = Queued(d) \ {cur[d]}
        BY <1>p, <2>1, <2>3 DEF Trying
      <3>2. Frame(d)
        BY <1>l, <2>1, <2>3 DEF PopHead
      <3>3. /\ results'[d][cur[d]] = "failed"
            /\ \A c \in Cells : c # cur[d] => results'[d][c] = results[d][c]
        BY <1>l, <2>1, <2>3
      <3>4. Passes(d)
        BY <2>1, <3>1, <3>3 DEF Covers, FirmlyOwes, Owes
      <3>5. QED BY <1>f, <1>m, <2>1, <3>1, <3>2, <3>4
    <2>4. QED BY <1>22, <2>2, <2>3 DEF LaunchFails
  <1>23. ASSUME NEW d \in Drivers, NEW c \in Cells, CloseKill(d, c) PROVE CoverInv'
    <2>1. pc[d] = "close" /\ running[d] # {} /\ UNCHANGED shutdown /\ KillCell(d, c, "killed")
          /\ pc'[d] = "unclaim"
      BY <1>l, <1>23 DEF CloseKill
    <2>2. shutdown[d]
      BY <1>e, <2>1 DEF EndInv
    <2>3. Frame(d)
      BY <1>l, <1>23 DEF CloseKill
    <2>4. Passes(d) /\ EndInv(d)'
      BY <2>1, <2>2 DEF Covers, EndInv
    <2>5. QED BY <1>f, <1>k, <2>1, <2>3, <2>4
  <1>24. ASSUME NEW d \in Drivers, CloseRelease(d) PROVE CoverInv'
    <2>1. pc[d] = "unclaim" /\ pc'[d] = "close" /\ UNCHANGED <<shutdown, ended>>
      BY <1>l, <1>24 DEF CloseRelease
    <2>2. shutdown[d]
      BY <1>e, <2>1 DEF EndInv
    <2>3. Frame(d)
      BY <1>l, <1>24 DEF CloseRelease
    <2>4. Passes(d) /\ EndInv(d)'
      BY <2>1, <2>2 DEF Covers, EndInv
    <2>5. QED BY <1>f, <1>m, <2>1, <2>3, <2>4
  <1>25. ASSUME NEW d \in Drivers, Finish(d) PROVE CoverInv'
    <2>1. pc[d] = "close" /\ pc'[d] = "over"
          /\ UNCHANGED <<shutdown, ended, pending, running, results, todo, cur>>
      BY <1>l, <1>25 DEF Finish
    <2>2. shutdown[d] \/ (Queued(d) = {} /\ running[d] = {})
      BY <1>e, <2>1, EmptyQueue DEF EndInv, Queued
    <2>3. Frame(d)
      BY <1>l, <1>25 DEF Finish
    <2>4. Passes(d) /\ EndInv(d)'
      BY <2>1, <2>2 DEF Covers, FirmlyOwes, Owes, EndInv
    <2>5. QED BY <1>f, <1>m, <2>1, <2>3, <2>4
  <1>26. ASSUME NEW d \in Drivers, Raise(d) \/ Crash(d) PROVE FALSE
    BY <1>26 DEF Raise, Crash, Calm
  <1>27. ASSUME NEW d \in Drivers, Signal(d) PROVE CoverInv'
    <2>1. shutdown'[d] /\ UNCHANGED ended
      BY <1>l, <1>27 DEF Signal
    <2>2. Frame(d)
      BY <1>l, <1>27 DEF Signal
    <2>3. Passes(d)
      BY <2>1 DEF Covers
    <2>4. EndInv(d)'
      BY <1>e, <1>27, <2>1 DEF Signal, EndInv, LedgerOk
    <2>5. QED BY <1>f, <1>m, <2>1, <2>2, <2>3, <2>4
  <1>28. ASSUME NEW d \in Drivers, NEW c \in Cells, Cell(d, c) PROVE CoverInv'
    <2>1. UNCHANGED <<pc, cur, todo, pending, running, results, shutdown>>
      BY <1>28 DEF Cell, CellOpens, CellAborts, CellSealsOk, CellFails, CellExits, CellDies,
         CellStep
    <2>2. \A k : LedgerOk(k) => LedgerOk(k)'
      <3>1. CASE CellSealsOk(d, c)
        BY <1>l, <3>1 DEF CellSealsOk, LedgerOk
      <3>2. CASE CellDies(d, c)
        BY <1>k, <3>2 DEF CellDies
      <3>3. CASE UNCHANGED ended
        BY <1>m, <3>3
      <3>4. QED
        BY <1>28, <3>1, <3>2, <3>3 DEF Cell, CellOpens, CellAborts, CellFails, CellExits
    <2>3. QED BY <1>g, <2>1, <2>2
  <1>29. ASSUME NEW d \in Drivers, NEW c \in Cells, TimesOut(d, c) PROVE CoverInv'
    BY <1>g, <1>m, <1>29 DEF TimesOut
  <1>30. ASSUME NEW c \in Cells, GoStale(c) PROVE CoverInv'
    BY <1>g, <1>m, <1>30 DEF GoStale
  <1>31. CASE UNCHANGED vars
    BY <1>g, <1>m, <1>31 DEF vars
  <1> QED
    BY <1>1, <1>2, <1>3, <1>4, <1>5, <1>6, <1>7, <1>8, <1>9, <1>10, <1>11, <1>12,
       <1>13, <1>14, <1>15, <1>16, <1>17, <1>18, <1>19, <1>20, <1>21, <1>22, <1>23,
       <1>24, <1>25, <1>26, <1>27, <1>28, <1>29, <1>30, <1>31
    DEF Next, Code, AllOver

\* As long as no driver is killed, stalls or raises, a cell that some driver has
\* looked at is done, or on a driver's hands, or reported, or a driver was told to
\* stop: whoever skips a cell for a claim leaves it with the claim's holder
\* (driver.py _try_claim and run_grid).
THEOREM CellsAreNotLost == ASSUME Calm PROVE Spec => []NoCellLost
  <1>1. ASSUME Init PROVE CoverInv
    BY <1>1 DEF Init, CoverInv, EndInv
  <1>2. ASSUME CoverInv PROVE NoCellLost
    BY <1>2 DEF CoverInv, Covers, FirmlyOwes, NoCellLost
  <1>3. Calm /\ SweepInv /\ ClaimsInv /\ LeaseInv /\ CoverInv /\ [Next]_vars => CoverInv'
    BY CoverStep
  <1>4. QED BY LeaseInvariant, <1>1, <1>2, <1>3, PTL DEF Spec
=============================================================================
