--------------------------- MODULE ModelServerProofs ---------------------------
(***************************************************************************)
(* What holds of the servers on one socket path and of their clients, for  *)
(* any number of both and any timeouts: whatever overlaps, and, as long as *)
(* starts and exits do not overlap, what the socket file is for.           *)
(***************************************************************************)
EXTENDS ModelServer, TLAPS

ClientStates == {"off", "info", "ready", "backlog", "accepted", "failed"}
ServerStates == {"off", "serve"} \cup Starting \cup Leaving \cup Ended

\* Where a server may be that has once served.
HasServed == {"serve", "over", "killed"} \cup Leaving

\* A server has been active since the callers of what it has taken began to wait.
Fresh ==
    \A c \in Clients : at[c] = "accepted" =>
        /\ pc[on[c]] \in HasServed
        /\ idle[on[c]] <= waited[c]

ServerInv == TypeOK /\ Fresh

LEMMA ServerInvInit == Init => ServerInv
  BY TimeoutsAssumption, NoneAssumption DEF Init, ServerInv, TypeOK, Fresh

\* A server that answers is one of the servers, and serves.
LEMMA AnswersType ==
    ASSUME TypeOK, NEW s \in Servers \cup {None}, Answers(s)
    PROVE  s \in Servers /\ pc[s] = "serve"
  BY DEF Answers

\* A ping is answered on the clock of the server that answers.
LEMMA HeardType ==
    ASSUME TypeOK, Heard
    PROVE  /\ idle' \in [Servers -> 0..IdleTimeout]
           /\ \A s \in Servers : idle'[s] <= idle[s]
  <1>1. idle \in [Servers -> 0..IdleTimeout] /\ path \in Servers \cup {None}
    BY DEF TypeOK
  <1>2. QED BY <1>1, TimeoutsAssumption DEF Heard, Answers

\* A failing ping says something of servers only.
LEMMA MissedType ==
    ASSUME TypeOK
    PROVE  missed \cup {t \in {path} : Answers(t)} \in SUBSET Servers
  BY AnswersType DEF TypeOK

LEMMA TypeNext == TypeOK /\ [Next]_vars => TypeOK'
  <1> SUFFICES ASSUME TypeOK, [Next]_vars PROVE TypeOK'
    OBVIOUS
  <1> USE TimeoutsAssumption, NoneAssumption DEF TypeOK
  <1>1. ASSUME NEW s \in Servers, Start(s) PROVE TypeOK'
    BY <1>1 DEF Start, To, clients, Starting
  <1>2. ASSUME NEW s \in Servers, Exists(s) PROVE TypeOK'
    BY <1>2 DEF Exists, To, clients, Starting
  <1>3. ASSUME NEW s \in Servers, Ping(s) PROVE TypeOK'
    BY <1>3, HeardType, MissedType DEF Ping, Pinged, To, clients, Starting, Ended
  <1>4. ASSUME NEW s \in Servers, Unlink(s) PROVE TypeOK'
    BY <1>4 DEF Unlink, To, clients, Starting, Ended
  <1>5. ASSUME NEW s \in Servers, Bind(s) PROVE TypeOK'
    BY <1>5 DEF Bind, To, clients, Starting, Ended
  <1>6. ASSUME NEW s \in Servers, Listen(s) PROVE TypeOK'
    BY <1>6 DEF Listen, To, clients, Ended
  <1>7. ASSUME NEW s \in Servers, Idles(s) \/ AcceptFails(s) PROVE TypeOK'
    BY <1>7 DEF Idles, AcceptFails, LeavesLoop, To, clients, Leaving
  <1>8. ASSUME NEW s \in Servers, Close(s) PROVE TypeOK'
    BY <1>8 DEF Close, To, clients, Leaving
  <1>9. ASSUME NEW s \in Servers, Remove(s) PROVE TypeOK'
    BY <1>9 DEF Remove, To, clients, Ended
  <1>10. ASSUME NEW s \in Servers, Kill(s) PROVE TypeOK'
    BY <1>10 DEF Kill, clients, Ended
  <1>11. ASSUME NEW c \in Clients, Available(c) PROVE TypeOK'
    BY <1>11, HeardType DEF Available, Client
  <1>12. ASSUME NEW c \in Clients, Info(c) PROVE TypeOK'
    BY <1>12, HeardType DEF Info, Client
  <1>13. ASSUME NEW c \in Clients, Connect(c) PROVE TypeOK'
    BY <1>13 DEF Connect, Client, Answers
  <1>14. ASSUME NEW c \in Clients, Accept(c) PROVE TypeOK'
    BY <1>14 DEF Accept, Client
  <1>15. ASSUME NEW c \in Clients, Answer(c) PROVE TypeOK'
    BY <1>15 DEF Answer, Client
  <1>16. ASSUME NEW c \in Clients, Lost(c) PROVE TypeOK'
    BY <1>16 DEF Lost, Client
  <1>17. ASSUME NEW c \in Clients, TimesOut(c) PROVE TypeOK'
    BY <1>17 DEF TimesOut, Client
  <1>18. ASSUME NEW s \in Servers, AcceptsStray(s) PROVE TypeOK'
    BY <1>18 DEF AcceptsStray, clients
  <1>19. CASE Tick
    BY <1>19 DEF Tick
  <1>20. CASE UNCHANGED vars
    BY <1>20 DEF vars
  <1>21. QED
    BY <1>1, <1>2, <1>3, <1>4, <1>5, <1>6, <1>7, <1>8, <1>9, <1>10, <1>11, <1>12, <1>13,
       <1>14, <1>15, <1>16, <1>17, <1>18, <1>19, <1>20 DEF Next, ServerStep, ClientStep

LEMMA FreshNext == ServerInv /\ [Next]_vars => Fresh'
  <1> SUFFICES ASSUME ServerInv, [Next]_vars, NEW c \in Clients, at'[c] = "accepted"
               PROVE  pc'[on'[c]] \in HasServed /\ idle'[on'[c]] <= waited'[c]
    BY DEF Fresh
  <1>1. /\ pc \in [Servers -> ServerStates]
        /\ idle \in [Servers -> 0..IdleTimeout]
        /\ at \in [Clients -> ClientStates]
        /\ on \in [Clients -> Servers \cup {None}]
        /\ \A k \in Clients : on[k] # None <=> at[k] \in {"backlog", "accepted"}
        /\ waited \in [Clients -> 0..ClientTimeout]
        /\ path \in Servers \cup {None}
    BY DEF ServerInv, TypeOK, ServerStates, ClientStates
  <1>2. TypeOK /\ Fresh
    BY DEF ServerInv
  \* The request was taken before this step, and its server stays where it is.
  <1>3. ASSUME at[c] = "accepted", on'[c] = on[c], waited'[c] = waited[c],
               \A s \in Servers : idle'[s] <= idle[s] \/ s # on[c],
               idle' \in [Servers -> 0..IdleTimeout],
               pc'[on[c]] = pc[on[c]]
        PROVE  pc'[on'[c]] \in HasServed /\ idle'[on'[c]] <= waited'[c]
    <2>1. on[c] \in Servers /\ pc[on[c]] \in HasServed
          /\ idle[on[c]] <= waited[c] /\ idle[on[c]] \in Nat /\ waited[c] \in Nat
          /\ idle'[on[c]] \in Nat
      BY <1>1, <1>2, <1>3, TimeoutsAssumption DEF Fresh
    <2>2. QED BY <1>3, <2>1
  <1>4. ASSUME NEW s \in Servers,
               Start(s) \/ AcceptsStray(s) \/ Idles(s) \/ AcceptFails(s) \/ Kill(s) \/ ServerStep(s)
        PROVE  pc'[on'[c]] \in HasServed /\ idle'[on'[c]] <= waited'[c]
    <2>1. at' = at /\ on' = on /\ waited' = waited
      BY <1>4 DEF Start, AcceptsStray, Idles, AcceptFails, LeavesLoop, Kill, ServerStep, Exists,
                  Ping, Pinged, Unlink, Bind, Listen, Close, Remove, clients
    <2>2. on[c] \in Servers /\ pc[on[c]] \in HasServed
          /\ idle[on[c]] <= waited[c] /\ idle[on[c]] \in Nat /\ waited[c] \in 0..ClientTimeout
      BY <1>1, <1>2, <2>1, TimeoutsAssumption DEF Fresh
    <2> USE DEF HasServed, Leaving
    <2>3. CASE Start(s)
      <3>1. s # on[c]
        BY <2>2, <2>3 DEF Start, To
      <3>2. idle' \in [Servers -> 0..IdleTimeout] /\ \A t \in Servers : t = s \/ idle'[t] = idle[t]
        BY <1>1, <2>3 DEF Start
      <3>3. pc'[on[c]] = pc[on[c]]
        BY <1>1, <2>2, <2>3, <3>1 DEF Start, To
      <3>4. QED BY <1>1, <2>1, <2>2, <3>1, <3>2, <3>3
    <2>4. CASE AcceptsStray(s)
      <3>1. pc' = pc /\ idle' = [idle EXCEPT ![s] = 0]
        BY <2>4 DEF AcceptsStray
      <3>2. idle'[on[c]] \in {0, idle[on[c]]}
        BY <1>1, <2>2, <3>1
      <3>3. QED BY <2>1, <2>2, <3>1, <3>2
    <2>5. CASE Idles(s) \/ AcceptFails(s) \/ Close(s) \/ Remove(s) \/ Kill(s)
      <3>1. idle' = idle /\ pc'[on[c]] \in {pc[on[c]], "close", "remove", "over", "killed"}
        BY <1>1, <2>2, <2>5 DEF Idles, AcceptFails, LeavesLoop, Close, Remove, Kill, To
      <3>2. QED BY <2>1, <2>2, <3>1
    <2>6. CASE Ping(s)
      <3>1. s # on[c]
        BY <2>2, <2>6 DEF Ping, Pinged, To
      <3>2. pc'[on[c]] = pc[on[c]]
        BY <1>1, <2>2, <2>6, <3>1 DEF Ping, Pinged, To
      <3>3. idle' \in [Servers -> 0..IdleTimeout] /\ \A t \in Servers : idle'[t] <= idle[t]
        <4>1. CASE Heard
          BY <1>2, <4>1, HeardType
        <4>2. CASE UNCHANGED idle
          BY <1>1, <4>2, TimeoutsAssumption
        <4>3. QED BY <2>6, <4>1, <4>2 DEF Ping, Pinged
      <3>4. QED BY <1>3, <2>1, <3>2, <3>3
    <2>7. CASE Exists(s) \/ Unlink(s) \/ Bind(s) \/ Listen(s)
      <3>1. s # on[c] /\ idle' = idle
        BY <2>2, <2>7 DEF Exists, Unlink, Bind, Listen, To
      <3>2. pc'[on[c]] = pc[on[c]]
        BY <1>1, <2>2, <2>7, <3>1 DEF Exists, Unlink, Bind, Listen, To
      <3>3. QED BY <1>1, <2>1, <2>2, <3>1, <3>2
    <2>8. QED BY <1>4, <2>3, <2>4, <2>5, <2>6, <2>7 DEF ServerStep
  <1>5. ASSUME NEW k \in Clients, ClientStep(k)
        PROVE  pc'[on'[c]] \in HasServed /\ idle'[on'[c]] <= waited'[c]
    <2>1. pc' = pc
      BY <1>5 DEF ClientStep, Available, Info, Connect, Accept, Answer, Lost, TimesOut
    <2>2. CASE Accept(k)
      <3>1. CASE k = c
        <4>1. on[c] \in Servers /\ on' = on /\ waited' = waited /\ pc[on[c]] = "serve"
          BY <1>1, <2>2, <3>1 DEF Accept, Client
        <4>2. idle'[on[c]] = 0 /\ waited[c] \in Nat
          BY <1>1, <2>2, <3>1, <4>1, TimeoutsAssumption DEF Accept
        <4>3. QED BY <2>1, <4>1, <4>2 DEF HasServed
      <3>2. CASE k # c
        <4>1. at[c] = "accepted" /\ on' = on /\ waited' = waited
          BY <1>1, <2>2, <3>2 DEF Accept, Client
        <4>2. on[k] \in Servers
          BY <1>1, <2>2 DEF Accept, Client
        <4>3. idle' \in [Servers -> 0..IdleTimeout] /\ \A s \in Servers : idle'[s] <= idle[s]
          BY <1>1, <2>2, <4>2, TimeoutsAssumption DEF Accept
        <4>4. QED BY <1>3, <2>1, <4>1, <4>3
      <3>3. QED BY <3>1, <3>2
    <2>3. CASE Available(k) \/ Info(k)
      <3>1. /\ at[c] = "accepted" /\ on' = on /\ waited' = waited
            /\ Heard \/ UNCHANGED idle
        BY <1>1, <2>3 DEF Available, Info, Client
      <3>2. idle' \in [Servers -> 0..IdleTimeout] /\ \A s \in Servers : idle'[s] <= idle[s]
        <4>1. CASE Heard
          BY <1>2, <4>1, HeardType
        <4>2. CASE UNCHANGED idle
          BY <1>1, <4>2, TimeoutsAssumption
        <4>3. QED BY <3>1, <4>1, <4>2
      <3>3. QED BY <1>3, <2>1, <3>1, <3>2
    <2>4. CASE Connect(k) \/ Answer(k) \/ Lost(k) \/ TimesOut(k)
      <3>1. k # c /\ at[c] = "accepted" /\ on'[c] = on[c] /\ waited'[c] = waited[c] /\ idle' = idle
        BY <1>1, <2>4 DEF Connect, Answer, Lost, TimesOut, Client
      <3>2. \A s \in Servers : idle'[s] <= idle[s]
        BY <1>1, <3>1, TimeoutsAssumption
      <3>3. QED BY <1>1, <1>3, <2>1, <3>1, <3>2
    <2>5. QED BY <1>5, <2>2, <2>3, <2>4 DEF ClientStep
  <1>6. CASE Tick
    <2>1. pc' = pc /\ at' = at /\ on' = on
      BY <1>6 DEF Tick
    <2>2. on[c] \in Servers /\ pc[on[c]] \in HasServed
          /\ idle[on[c]] <= waited[c] /\ idle[on[c]] \in Nat /\ waited[c] \in Nat
      BY <1>1, <1>2, <2>1, TimeoutsAssumption DEF Fresh
    <2>3. waited'[c] = waited[c] + 1 /\ idle'[on[c]] \in {idle[on[c]], idle[on[c]] + 1}
      BY <1>1, <1>6, <2>1, <2>2 DEF Tick
    <2>4. QED BY <2>1, <2>2, <2>3
  <1>7. CASE UNCHANGED vars
    BY <1>2, <1>7 DEF vars, Fresh
  <1>8. QED BY <1>4, <1>5, <1>6, <1>7 DEF Next

\* The invariant that holds whatever overlaps.
THEOREM ServerInvariant == Spec => []ServerInv
  <1>1. ServerInv /\ [Next]_vars => ServerInv'
    BY TypeNext, FreshNext DEF ServerInv
  <1>2. QED BY <1>1, ServerInvInit, PTL DEF Spec

\* Servers, clients and the connections between them are typed.
THEOREM ServerTypeCorrect == Spec => []TypeOK
  BY ServerInvariant, PTL DEF ServerInv

\* However starts, exits and kills interleave, the idle exit never cuts off a
\* request that was taken: the client would have given up before.
THEOREM NoRequestIsCutOff == Spec => AcceptedNotCutOff
  <1> DEFINE NotAccepted(s) == \A c \in Clients : on[c] = s => at[c] # "accepted"
  <1>1. ASSUME ServerInv, NEW s \in Servers, Idles(s) PROVE NotAccepted(s)
    <2>1. SUFFICES ASSUME NEW c \in Clients, on[c] = s, at[c] = "accepted" PROVE FALSE
      OBVIOUS
    <2>2. idle[s] = IdleTimeout /\ idle[s] <= waited[c]
      BY <1>1, <2>1 DEF Idles, ServerInv, Fresh
    <2>3. waited[c] \in 0..ClientTimeout
      BY <1>1 DEF ServerInv, TypeOK
    <2>4. QED BY <2>2, <2>3, TimeoutsAssumption
  <1>2. ServerInv => [\A s \in Servers : Idles(s) => NotAccepted(s)]_vars
    BY <1>1
  <1>3. QED BY <1>2, ServerInvariant, PTL DEF AcceptedNotCutOff

----------------------------------------------------------------------------

Serial == ~StartsOverlap /\ ~ExitsOverlap

Live == {"serve"} \cup Leaving

\* One server starts at a time, and then nobody leaves; a live server without its
\* file is a doubted one, also when the file is about to go.
Owned ==
    /\ \A s \in Servers : pc[s] = "listen" => path = s
    /\ \A s \in Servers : pc[s] \in Live => path = s \/ Doubted(s)
    /\ \A s, t \in Servers : pc[s] \in Starting /\ pc[t] \in Starting => s = t
    /\ \A s, t \in Servers : pc[s] \in Starting => pc[t] \notin Leaving
    /\ \A s \in Servers : pc[s] \in {"ping", "unlink"} => path # None
    /\ \A s \in Servers : pc[s] = "bind" => path = None
    /\ \A s, t \in Servers : pc[s] = "unlink" /\ pc[t] = "serve" => Doubted(t)
    /\ \A s \in Servers : pc[s] # "raised"

Typed ==
    /\ pc \in [Servers -> ServerStates] /\ path \in Servers \cup {None}
    /\ missed \in SUBSET Servers

\* A doubted server stays one.
LEMMA DoubtStays ==
    ASSUME Typed, missed \subseteq missed', \A t \in Servers : pc[t] = "over" => pc'[t] = "over",
           NEW s \in Servers, Doubted(s)
    PROVE  Doubted(s)'
  BY DEF Doubted, Typed

\* What has ended does not go on, and what was missed is not forgotten.
LEMMA EndsAreFinal ==
    ASSUME Typed, [Next]_vars
    PROVE  /\ missed \subseteq missed'
           /\ \A t \in Servers : pc[t] = "over" => pc'[t] = "over"
  <1>1. ASSUME NEW s \in Servers, Start(s) \/ ServerStep(s) \/ Idles(s) \/ AcceptFails(s) \/ Kill(s)
        PROVE  \A t \in Servers : pc[t] = "over" => pc'[t] = "over"
    BY <1>1 DEF Typed, Start, ServerStep, Exists, Ping, Pinged, Unlink, Bind, Listen, Idles,
                AcceptFails, LeavesLoop, Close, Remove, Kill, Starting, Leaving, To
  <1>2. ASSUME NEW s \in Servers, Start(s) \/ ServerStep(s) \/ Idles(s) \/ AcceptFails(s) \/ Kill(s)
        PROVE  missed \subseteq missed'
    BY <1>2 DEF Start, ServerStep, Exists, Ping, Pinged, Unlink, Bind, Listen, Idles,
                AcceptFails, LeavesLoop, Close, Remove, Kill
  <1>3. ASSUME NEW c \in Clients, ClientStep(c) PROVE UNCHANGED <<pc, missed>>
    BY <1>3 DEF ClientStep, Available, Info, Connect, Accept, Answer, Lost, TimesOut
  <1>4. CASE Tick \/ UNCHANGED vars \/ \E s \in Servers : AcceptsStray(s)
    BY <1>4 DEF Tick, vars, AcceptsStray
  <1>5. QED BY <1>1, <1>2, <1>3, <1>4 DEF Next

LEMMA OwnedNext ==
    ASSUME Serial, ServerInv, Owned, [Next]_vars
    PROVE  Owned'
  <1>0. Typed
    BY DEF ServerInv, TypeOK, Typed, ServerStates
  <1>1. \A s \in Servers : Doubted(s) => Doubted(s)'
    BY <1>0, EndsAreFinal, DoubtStays
  <1> USE NoneAssumption DEF Owned, Typed, Starting, Leaving, Live, To
  <1>2. ASSUME NEW s \in Servers, Start(s) PROVE Owned'
    BY Serial, <1>0, <1>1, <1>2 DEF Start, Serial
  <1>3. ASSUME NEW s \in Servers, Exists(s) PROVE Owned'
    BY <1>0, <1>1, <1>3 DEF Exists
  <1>4. ASSUME NEW s \in Servers, Ping(s) PROVE Owned'
    <2>1. CASE To(s, "ping", "refused") /\ UNCHANGED <<path, missed>>
      BY <1>0, <1>1, <2>1
    <2>2. ASSUME pc' = [pc EXCEPT ![s] = "unlink"], pc[s] = "ping", path' = path,
                 missed' = missed \cup {t \in {path} : Answers(t)}
          PROVE  Owned'
      <3>1. \A t \in Servers : pc[t] = "serve" => Doubted(t)'
        <4>1. SUFFICES ASSUME NEW t \in Servers, pc[t] = "serve" PROVE Doubted(t)'
          OBVIOUS
        <4>2. CASE path = t
          BY <2>2, <4>1, <4>2 DEF Answers, Doubted
        <4>3. CASE path # t
          BY <1>1, <4>1, <4>3
        <4>4. QED BY <4>2, <4>3
      <3>2. QED BY <1>0, <1>1, <2>2, <3>1
    <2>3. QED BY <1>4, <2>1, <2>2 DEF Ping, Pinged
  <1>5. ASSUME NEW s \in Servers, Unlink(s) PROVE Owned'
    BY <1>0, <1>1, <1>5 DEF Unlink
  <1>6. ASSUME NEW s \in Servers, Bind(s) PROVE Owned'
    BY <1>0, <1>1, <1>6 DEF Bind
  <1>7. ASSUME NEW s \in Servers, Listen(s) PROVE Owned'
    BY <1>0, <1>1, <1>7 DEF Listen
  <1>8. ASSUME NEW s \in Servers, Idles(s) \/ AcceptFails(s) PROVE Owned'
    BY Serial, <1>0, <1>1, <1>8 DEF Idles, AcceptFails, LeavesLoop, Serial
  <1>9. ASSUME NEW s \in Servers, Close(s) PROVE Owned'
    BY <1>0, <1>1, <1>9 DEF Close
  <1>10. ASSUME NEW s \in Servers, Remove(s) PROVE Owned'
    \* The file was the server's own, or it has been missed or a missed one has left.
    <2>1. pc[s] = "remove" /\ pc' = [pc EXCEPT ![s] = "over"] /\ path' = None /\ missed' = missed
      BY <1>10 DEF Remove
    <2>2. \A t \in Servers \ {s} : pc[t] \in Live => Doubted(t)'
      <3>1. SUFFICES ASSUME NEW t \in Servers \ {s}, pc[t] \in Live PROVE Doubted(t)'
        OBVIOUS
      <3>2. CASE path = s
        BY <1>1, <3>1, <3>2
      <3>3. CASE path # s
        <4>1. s \in missed \/ \E u \in missed : pc[u] = "over"
          BY <2>1, <3>3 DEF Doubted
        <4>2. \E u \in missed' : pc'[u] = "over"
          BY <1>0, <2>1, <4>1
        <4>3. QED BY <4>2 DEF Doubted
      <3>4. QED BY <3>2, <3>3
    <2>3. \A t \in Servers : pc[t] \notin Starting
      BY <2>1
    <2>4. QED BY <1>0, <2>1, <2>2, <2>3
  <1>11. ASSUME NEW s \in Servers, Kill(s) PROVE Owned'
    BY <1>0, <1>1, <1>11 DEF Kill
  <1>12. CASE UNCHANGED <<pc, path, missed>>
    BY <1>1, <1>12
  <1>13. ASSUME NEW c \in Clients, ClientStep(c) PROVE UNCHANGED <<pc, path, missed>>
    BY <1>13 DEF ClientStep, Available, Info, Connect, Accept, Answer, Lost, TimesOut
  <1>14. CASE Tick \/ UNCHANGED vars \/ \E s \in Servers : AcceptsStray(s)
    BY <1>12, <1>14 DEF Tick, vars, AcceptsStray
  <1>15. QED
    BY <1>2, <1>3, <1>4, <1>5, <1>6, <1>7, <1>8, <1>9, <1>10, <1>11,
       <1>12, <1>13, <1>14
    DEF Next, ServerStep

\* What the file says of the servers while starts and exits do not overlap.
THEOREM SerialInvariant == ASSUME Serial PROVE Spec => []Owned
  <1>1. Init => Owned
    BY DEF Init, Owned, Starting, Leaving, Live
  <1>2. ServerInv /\ Owned /\ [Next]_vars => Owned'
    BY Serial, OwnedNext
  <1>3. QED BY <1>1, <1>2, ServerInvariant, PTL DEF Spec

\* Started one at a time and never while one leaves, a live server loses its socket
\* file only to a ping that it does not answer in time, or to the exit of a server
\* that lost its own in this way, whichever are killed.
THEOREM LiveServerIsKept == ASSUME Serial PROVE Spec => []LiveServerKept
  <1>1. Owned => LiveServerKept
    BY DEF Owned, Live, LiveServerKept
  <1>2. QED BY <1>1, Serial, SerialInvariant, PTL

\* In the same setting no start fails on what a dead server left behind.
THEOREM DeadFilesAreCleared == ASSUME Serial PROVE Spec => []StartsSucceed
  <1>1. Owned => StartsSucceed
    BY DEF Owned, StartsSucceed
  <1>2. QED BY <1>1, Serial, SerialInvariant, PTL

----------------------------------------------------------------------------

Left == Leaving \cup {"over", "killed"}

\* A server with the right models has left or may have lost the file, so another
\* may answer.
RightOneLost == \E s \in Servers : ModelsOf[s] = Wanted /\ (pc[s] \in Left \/ Doubted(s))

RightOneServed == \E s \in Servers : ModelsOf[s] = Wanted /\ pc[s] \in {"serve"} \cup Left

\* What connect found out stays true of the past.
Checked ==
    /\ \A c \in Clients : at[c] \in {"ready", "backlog", "accepted"} => RightOneServed
    /\ \A c \in Clients : on[c] # None => ModelsOf[on[c]] = Wanted \/ RightOneLost
    /\ WrongModelsNeedExit

\* A server serves until it leaves, and never comes back; a doubt stays.
LEMMA ServersLeave ==
    ASSUME TypeOK, [Next]_vars
    PROVE  /\ RightOneServed => RightOneServed'
           /\ RightOneLost => RightOneLost'
  <1>1. Typed
    BY DEF TypeOK, Typed, ServerStates
  <1>2. ASSUME NEW s \in Servers
        PROVE  /\ pc[s] \in Left => pc'[s] \in Left
               /\ pc[s] = "serve" => pc'[s] \in {"serve"} \cup Left
    <2>1. ASSUME NEW t \in Servers,
                 Start(t) \/ ServerStep(t) \/ Idles(t) \/ AcceptFails(t) \/ Kill(t)
          PROVE  /\ pc[s] \in Left => pc'[s] \in Left
                 /\ pc[s] = "serve" => pc'[s] \in {"serve"} \cup Left
      BY <1>1, <2>1 DEF Typed, Left, Leaving, Start, ServerStep, Exists, Ping, Pinged, Unlink,
                        Bind, Listen, Idles, AcceptFails, LeavesLoop, Close, Remove, Kill,
                        Starting, To
    <2>2. ASSUME NEW c \in Clients, ClientStep(c) PROVE pc' = pc
      BY <2>2 DEF ClientStep, Available, Info, Connect, Accept, Answer, Lost, TimesOut
    <2>3. CASE Tick \/ UNCHANGED vars \/ \E t \in Servers : AcceptsStray(t)
      BY <2>3 DEF Tick, vars, AcceptsStray
    <2>4. QED BY <2>1, <2>2, <2>3 DEF Next
  <1>3. \A s \in Servers : Doubted(s) => Doubted(s)'
    BY <1>1, EndsAreFinal, DoubtStays
  <1>4. QED BY <1>2, <1>3 DEF RightOneServed, RightOneLost

LEMMA CheckedNext ==
    ASSUME ServerInv, Owned, Checked, [Next]_vars
    PROVE  Checked'
  <1>1. /\ TypeOK
        /\ RightOneServed => RightOneServed'
        /\ RightOneLost => RightOneLost'
    BY ServersLeave DEF ServerInv
  <1>2. WrongModelsNeedExit <=>
            \A c \in Clients : answer[c] \notin {None, Wanted} => RightOneLost
    BY DEF WrongModelsNeedExit, RightOneLost, Left
  <1>3. WrongModelsNeedExit' <=>
            \A c \in Clients : answer'[c] \notin {None, Wanted} => RightOneLost'
    BY DEF WrongModelsNeedExit, RightOneLost, Left
  <1>4. CASE UNCHANGED <<at, on, answer>>
    BY <1>1, <1>2, <1>3, <1>4 DEF Checked
  <1>5. ASSUME NEW c \in Clients, Available(c) \/ Accept(c) \/ Lost(c) \/ TimesOut(c)
        PROVE  Checked'
    BY <1>1, <1>2, <1>3, <1>5, NoneAssumption
    DEF Checked, Available, Accept, Lost, TimesOut, Client, TypeOK
  <1>6. ASSUME NEW c \in Clients, Info(c) PROVE Checked'
    <2>1. at'[c] = "ready" => RightOneServed
      BY <1>1, <1>6 DEF Info, Client, Heard, ModelsMatch, Answers, RightOneServed, TypeOK
    <2>2. on' = on /\ answer' = answer /\ \A k \in Clients : k = c \/ at'[k] = at[k]
      BY <1>1, <1>6 DEF Info, Client, TypeOK
    <2>3. at'[c] \in {"ready", "failed"}
      BY <1>1, <1>6 DEF Info, Client, TypeOK
    <2>4. QED BY <1>1, <1>2, <1>3, <2>1, <2>2, <2>3 DEF Checked
  <1>7. ASSUME NEW c \in Clients, Connect(c) PROVE Checked'
    <2>1. at[c] = "ready" /\ RightOneServed /\ answer' = answer
      BY <1>7 DEF Connect, Client, Checked
    <2>2. \A k \in Clients : at'[k] \in {"ready", "backlog", "accepted"} => RightOneServed
      BY <1>1, <1>7, <2>1 DEF Checked
    <2>3. ASSUME Answers(path)
          PROVE  ModelsOf[path] = Wanted \/ RightOneLost
      BY <2>1, <2>3 DEF Answers, RightOneServed, RightOneLost, Owned, Live
    <2>4. \A k \in Clients : on'[k] # None => ModelsOf[on'[k]] = Wanted \/ RightOneLost
      BY <1>1, <1>7, <2>3 DEF Connect, Client, Checked, TypeOK
    <2>5. QED BY <1>1, <1>2, <1>3, <2>1, <2>2, <2>4 DEF Checked
  <1>8. ASSUME NEW c \in Clients, Answer(c) PROVE Checked'
    <2>1. /\ on[c] # None /\ RightOneServed
          /\ \A k \in Clients : k = c \/ (at'[k] = at[k] /\ on'[k] = on[k] /\ answer'[k] = answer[k])
          /\ on'[c] = None /\ answer'[c] = ModelsOf[on[c]]
      BY <1>1, <1>8, NoneAssumption DEF Answer, Client, Checked, TypeOK
    <2>2. QED BY <1>1, <1>2, <1>3, <2>1 DEF Checked
  <1>9. ASSUME NEW s \in Servers,
               Start(s) \/ ServerStep(s) \/ AcceptsStray(s) \/ Idles(s) \/ AcceptFails(s) \/ Kill(s)
        PROVE  UNCHANGED <<at, on, answer>>
    BY <1>9 DEF Start, ServerStep, Exists, Ping, Pinged, Unlink, Bind, Listen, AcceptsStray, Idles,
                AcceptFails, LeavesLoop, Close, Remove, Kill, clients
  <1>10. CASE Tick \/ UNCHANGED vars
    BY <1>4, <1>10 DEF Tick, vars
  <1>11. QED
    BY <1>4, <1>5, <1>6, <1>7, <1>8, <1>9, <1>10 DEF Next, ClientStep

\* A cell is answered by other models than it connected for only after a server
\* with the right ones has left or lost its file to a ping it did not answer in
\* time: the one check of connect is enough until then.
THEOREM WrongModelsComeLater == ASSUME Serial PROVE Spec => []WrongModelsNeedExit
  <1>1. Init => Checked
    BY DEF Init, Checked, WrongModelsNeedExit
  <1>2. ServerInv /\ Owned /\ Checked /\ [Next]_vars => Checked'
    BY CheckedNext
  <1>3. Checked => WrongModelsNeedExit
    BY DEF Checked
  <1>4. QED
    BY <1>1, <1>2, <1>3, Serial, ServerInvariant, SerialInvariant, PTL DEF Spec

=============================================================================
