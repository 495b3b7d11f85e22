---------------------------- MODULE ModelServer ----------------------------
(***************************************************************************)
(* memory/model_server.py: the servers that an operator starts on a box,   *)
(* one after the other or at once, the socket file they share, and the     *)
(* cells that call whichever server the file names.  serve_forever is      *)
(* taken step by step, from the look at the file to the final unlink.      *)
(*                                                                         *)
(* A server process runs once.  Loading, encoding and the out-of-memory    *)
(* ladder take time and nothing else; requests are not told apart.  Time   *)
(* is counted in ticks, as far as the longer of the two timeouts.          *)
(***************************************************************************)
EXTENDS Naturals

CONSTANTS
    Servers, Clients,
    ModelsOf,           \* the models each server was started with
    Wanted,             \* the models of the arm the cells belong to
    ClientTimeout,      \* the longest a client waits for an answer
    IdleTimeout,        \* idle_timeout_s, in the same unit
    StartsOverlap,      \* a server may be started while another starts
    ExitsOverlap,       \* a server may leave while another starts
    Kills,              \* a server may be killed
    None

ASSUME TimeoutsAssumption ==
    /\ ClientTimeout \in Nat \ {0}
    /\ IdleTimeout \in Nat /\ ClientTimeout < IdleTimeout
ASSUME OverlapAssumption ==
    {StartsOverlap, ExitsOverlap, Kills} \subseteq BOOLEAN
ASSUME NoneAssumption == None \notin Servers

VARIABLES
    pc,         \* where each server is in serve_forever
    path,       \* the server whose socket the file names, or None
    idle,       \* ticks since each server's _last_activity
    at,         \* where each client is
    on,         \* the server a client's connection is to, or None
    waited,     \* ticks each client has waited
    answer,     \* what the last embedding of a client was made with, or None
    missed      \* history: the servers that a ping found serving and got no pong from

vars == <<pc, path, idle, at, on, waited, answer, missed>>
clients == <<at, on, waited, answer>>

Starting == {"exists", "ping", "unlink", "bind", "listen"}
Leaving == {"close", "remove"}
Ended == {"refused", "raised", "over", "killed"}

Init ==
    /\ pc = [s \in Servers |-> "off"] /\ path = None
    /\ idle = [s \in Servers |-> 0]
    /\ at = [c \in Clients |-> "off"] /\ on = [c \in Clients |-> None]
    /\ waited = [c \in Clients |-> 0] /\ answer = [c \in Clients |-> None]
    /\ missed = {}

----------------------------------------------------------------------------
(* serve_forever. *)

\* A connection is taken by a listening socket only: not one that is bound and not
\* listening yet, nor one whose server has left or was killed.
Answers(s) == s # None /\ pc[s] = "serve"

To(s, from, to) == pc[s] = from /\ pc' = [pc EXCEPT ![s] = to]

\* The models are loaded first, on the clock of the idle timeout.
Start(s) ==
    /\ To(s, "off", "exists")
    /\ StartsOverlap \/ \A t \in Servers : pc[t] \notin Starting \cup Leaving
    /\ \E loading \in 0..IdleTimeout : idle' = [idle EXCEPT ![s] = loading]
    /\ UNCHANGED <<path, missed, clients>>

\* Wrong variant: the file is replaced without asking who serves it.
NeverPings(s) ==
    /\ To(s, "exists", IF path = None THEN "bind" ELSE "unlink")
    /\ UNCHANGED <<path, idle, missed, clients>>

Exists(s) ==
    /\ To(s, "exists", IF path = None THEN "bind" ELSE "ping")
    /\ UNCHANGED <<path, idle, missed, clients>>

\* A call that is heard is activity of the server behind the path.
Heard == Answers(path) /\ idle' = [idle EXCEPT ![path] = 0]

\* available takes any exception for no: nobody listens, but also a full backlog,
\* or a pong that does not come within five seconds.
Pinged(s, dead) ==
    /\ \/ Heard /\ To(s, "ping", "refused") /\ UNCHANGED missed
       \/ /\ To(s, "ping", dead) /\ UNCHANGED idle
          /\ missed' = missed \cup {t \in {path} : Answers(t)}
    /\ UNCHANGED <<path, clients>>

\* Wrong variants: a dead file is left to bind; a dead server is waited for.
PingLeavesFile(s) == Pinged(s, "bind")
PingsAgain(s) == Pinged(s, "exists")

Ping(s) == Pinged(s, "unlink")

\* The file may be gone by now, or be another server's.
Unlink(s) ==
    /\ \/ path # None /\ To(s, "unlink", "bind")
       \/ path = None /\ To(s, "unlink", "raised")
    /\ path' = None
    /\ UNCHANGED <<idle, missed, clients>>

Bind(s) ==
    /\ \/ path = None /\ To(s, "bind", "listen") /\ path' = s
       \/ path # None /\ To(s, "bind", "raised") /\ UNCHANGED path
    /\ UNCHANGED <<idle, missed, clients>>

\* chmod looks at the path again, whoever's file it names now.
Listen(s) ==
    /\ \/ path # None /\ To(s, "listen", "serve")
       \/ path = None /\ To(s, "listen", "raised")
    /\ UNCHANGED <<path, idle, missed, clients>>

\* A connection whose caller gave up, or of a program that is no client here, is
\* taken and handled: activity that no client waits for.
AcceptsStray(s) ==
    /\ pc[s] = "serve" /\ idle' = [idle EXCEPT ![s] = 0]
    /\ UNCHANGED <<pc, path, missed, clients>>

LeavesLoop(s) ==
    /\ To(s, "serve", "close")
    /\ ExitsOverlap \/ \A t \in Servers : pc[t] \notin Starting
    /\ UNCHANGED <<path, idle, missed, clients>>

\* The accept poll finds nobody, and nothing was asked for long enough.
Idles(s) == idle[s] = IdleTimeout /\ LeavesLoop(s)

\* accept fails, say for want of file descriptors, whatever is being handled.
AcceptFails(s) == LeavesLoop(s)

Close(s) ==
    /\ To(s, "close", "remove")
    /\ UNCHANGED <<path, idle, missed, clients>>

\* The file is removed whoever it belongs to.
Remove(s) ==
    /\ To(s, "remove", "over")
    /\ path' = None
    /\ UNCHANGED <<idle, missed, clients>>

\* A killed server leaves its socket file.
Kill(s) ==
    /\ Kills /\ pc[s] \in Starting \cup Leaving \cup {"serve"}
    /\ pc' = [pc EXCEPT ![s] = "killed"]
    /\ UNCHANGED <<path, idle, missed, clients>>

----------------------------------------------------------------------------
(* ModelClient: connect, then one connection for each call. *)

Client(c, from, to) == at[c] = from /\ at' = [at EXCEPT ![c] = to]

\* Wrong variant: whichever server answers is taken.
AnyModels(s) == TRUE

ModelsMatch(s) == ModelsOf[s] = Wanted

\* available and info: two calls, each to the server of the moment, and each may
\* fail whoever serves.
Available(c) ==
    /\ \/ Heard /\ Client(c, "off", "info")
       \/ Client(c, "off", "failed") /\ UNCHANGED idle
    /\ UNCHANGED <<pc, path, missed, on, waited, answer>>

Info(c) ==
    /\ \/ Heard /\ Client(c, "info", IF ModelsMatch(path) THEN "ready" ELSE "failed")
       \/ Client(c, "info", "failed") /\ UNCHANGED idle
    /\ UNCHANGED <<pc, path, missed, on, waited, answer>>

\* A connection waits in the backlog until the server accepts it, if the backlog
\* has room for it.
Connect(c) ==
    /\ \/ /\ Answers(path) /\ Client(c, "ready", "backlog")
          /\ on' = [on EXCEPT ![c] = path]
       \/ Client(c, "ready", "failed") /\ UNCHANGED on
    /\ waited' = [waited EXCEPT ![c] = 0]
    /\ UNCHANGED <<pc, path, missed, idle, answer>>

\* Wrong variant: a request does not count as activity.
AcceptsQuietly(c) ==
    /\ Client(c, "backlog", "accepted") /\ pc[on[c]] = "serve"
    /\ UNCHANGED <<pc, path, missed, idle, on, waited, answer>>

\* The request is accepted and handled: both set _last_activity.
Accept(c) ==
    /\ Client(c, "backlog", "accepted") /\ pc[on[c]] = "serve"
    /\ idle' = [idle EXCEPT ![on[c]] = 0]
    /\ UNCHANGED <<pc, path, missed, on, waited, answer>>

\* A server that closed its socket still answers what it accepted, until it exits.
Answer(c) ==
    /\ Client(c, "accepted", "ready") /\ pc[on[c]] \in {"serve"} \cup Leaving
    /\ answer' = [answer EXCEPT ![c] = ModelsOf[on[c]]]
    /\ on' = [on EXCEPT ![c] = None]
    /\ UNCHANGED <<pc, path, missed, idle, waited>>

\* The server is gone; for a connection in its backlog, its socket is.
Lost(c) ==
    /\ \/ Client(c, "accepted", "failed") /\ pc[on[c]] \in Ended
       \/ Client(c, "backlog", "failed") /\ pc[on[c]] \in Ended \cup {"remove"}
    /\ on' = [on EXCEPT ![c] = None]
    /\ UNCHANGED <<pc, path, missed, idle, waited, answer>>

\* Wrong variant: the timeout of a call is never reached.
WaitsOn(c) ==
    /\ \E from \in {"backlog", "accepted"} : Client(c, from, "failed")
    /\ waited[c] > ClientTimeout
    /\ on' = [on EXCEPT ![c] = None]
    /\ UNCHANGED <<pc, path, missed, idle, waited, answer>>

TimesOut(c) ==
    /\ \E from \in {"backlog", "accepted"} : Client(c, from, "failed")
    /\ waited[c] = ClientTimeout
    /\ on' = [on EXCEPT ![c] = None]
    /\ UNCHANGED <<pc, path, missed, idle, waited, answer>>

\* Time passes; a client at its timeout gives up before that.
Tick ==
    LET Waiting == {c \in Clients : at[c] \in {"backlog", "accepted"}} IN
    /\ \A c \in Waiting : waited[c] < ClientTimeout
    /\ waited' = [c \in Clients |-> IF c \in Waiting THEN waited[c] + 1 ELSE waited[c]]
    /\ idle' = [s \in Servers |-> IF pc[s] \in Starting \cup {"serve"} /\ idle[s] < IdleTimeout
                                  THEN idle[s] + 1 ELSE idle[s]]
    /\ UNCHANGED <<pc, path, missed, at, on, answer>>

----------------------------------------------------------------------------

ServerStep(s) ==
    \/ Exists(s) \/ Ping(s) \/ Unlink(s) \/ Bind(s) \/ Listen(s) \/ Close(s) \/ Remove(s)

ClientStep(c) ==
    Available(c) \/ Info(c) \/ Connect(c) \/ Accept(c) \/ Answer(c) \/ Lost(c) \/ TimesOut(c)

Next ==
    \/ \E s \in Servers :
            Start(s) \/ ServerStep(s) \/ AcceptsStray(s) \/ Idles(s) \/ AcceptFails(s) \/ Kill(s)
    \/ \E c \in Clients : ClientStep(c)
    \/ Tick

Spec == Init /\ [][Next]_vars

\* A server's own code goes on, time passes, and a client's socket call returns or
\* times out; that a server answers in time is not assumed.
FairSpec ==
    /\ Spec /\ WF_vars(Tick)
    /\ \A s \in Servers : WF_vars(ServerStep(s))
    /\ \A c \in Clients : WF_vars(Lost(c) \/ TimesOut(c))

----------------------------------------------------------------------------
(* Properties. *)

TypeOK ==
    /\ pc \in [Servers -> {"off", "serve"} \cup Starting \cup Leaving \cup Ended]
    /\ path \in Servers \cup {None}
    /\ idle \in [Servers -> 0..IdleTimeout]
    /\ at \in [Clients -> {"off", "info", "ready", "backlog", "accepted", "failed"}]
    /\ on \in [Clients -> Servers \cup {None}]
    /\ \A c \in Clients : on[c] # None <=> at[c] \in {"backlog", "accepted"}
    /\ waited \in [Clients -> 0..ClientTimeout]
    /\ answer \in [Clients -> {None} \cup {ModelsOf[s] : s \in Servers}]
    /\ missed \in SUBSET Servers

\* A ping of the server came to nothing while it served, or a server of which that
\* is true has left, and removed the file of whoever came after it.
Doubted(s) == s \in missed \/ \E t \in missed : pc[t] = "over"

\* A live server is not evicted, so that there is one at a time and cells reach it,
\* unless it was too slow for a ping: its socket file stays its own until a ping of
\* it comes to nothing, or one that lost its file so removes it in leaving.
LiveServerKept == \A s \in Servers : pc[s] = "serve" => path = s \/ Doubted(s)

\* connect compares the models once, every call goes to the server of the moment:
\* a cell is answered by other models only after a server with the right ones has
\* left or died, or lost its file as above.
WrongModelsNeedExit ==
    \A c \in Clients : answer[c] \notin {None, Wanted} =>
        \E s \in Servers :
            /\ ModelsOf[s] = Wanted
            /\ pc[s] \in Leaving \cup {"over", "killed"} \/ Doubted(s)

\* A dead server's file never keeps the next one from starting.
StartsSucceed == \A s \in Servers : pc[s] # "raised"

\* The idle exit never cuts off a request that was accepted: a client would have
\* given up long before its server is idle.  Only a kill or a failing accept does.
AcceptedNotCutOff ==
    [][\A s \in Servers : Idles(s) => \A c \in Clients : on[c] = s => at[c] # "accepted"]_vars

\* A start comes to an end, whoever else starts, leaves or is killed.
StartEnds == \A s \in Servers : pc[s] = "exists" ~> pc[s] \in {"serve"} \cup Ended

\* No client waits for ever: it is answered, or it fails.
ClientsReturn == \A c \in Clients : at[c] = "backlog" ~> at[c] \in {"ready", "failed"}
=============================================================================
