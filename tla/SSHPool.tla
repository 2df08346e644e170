------------------------------ MODULE SSHPool ------------------------------
(***************************************************************************)
(* The SSH client of internal/ssh/client.go: Run borrows a connection from *)
(* the pool of its host (a buffered channel per "host:port") or dials one, *)
(* runs one command in a session of its own and gives the connection back. *)
(* Any number of goroutines call Run at once; only the look-up of the pool *)
(* is under the mutex.                                                     *)
(*                                                                         *)
(* What the x/crypto/ssh library does with a connection (a handshake, a    *)
(* keepalive, a session, a command) is external: it succeeds, it fails at  *)
(* once when the connection is broken, and it does not return while the    *)
(* peer is silent.                                                         *)
(***************************************************************************)
EXTENDS Naturals, Sequences, FiniteSets

CONSTANTS
    Hosts,     \* pools: "host:port" of the servers
    Runs,      \* calls of Run that may be in progress together
    Conns,     \* connections; a closed one may stand for a new one
    None,      \* no host, no connection
    MaxIdle    \* max_connections_per_host

ASSUME SSHPoolAssumption ==
    /\ MaxIdle \in Nat \ {0} /\ None \notin Hosts \cup Conns
    /\ IsFiniteSet(Runs)

VARIABLES
    conns,     \* the connections
    pools,     \* c.pools: the channel of idle connections of each host
    runs       \* the calls of Run

vars == <<conns, pools, runs>>

-----------------------------------------------------------------------------
(* The user and the key a connection was dialled with are left out: the    *)
(* pool does not look at them.                                             *)

Conn == [state : {"closed", "open", "broken", "silent"}, host : Hosts \cup {None}]

Closed == [state |-> "closed", host |-> None]

Run == [pc : {"idle", "get", "probe", "dial", "handshake", "session", "command", "put"},
        host : Hosts \cup {None}, conn : Conns \cup {None}]

IdleRun == [pc |-> "idle", host |-> None, conn |-> None]

\* The states in which a call owns the connection runs[g].conn.
Holding == {"probe", "handshake", "session", "command", "put"}

Holds(g, c) == runs[g].pc \in Holding /\ runs[g].conn = c

Idle(c) == \E h \in Hosts : \E i \in 1..Len(pools[h]) : pools[h][i] = c

Close(c) == conns' = [conns EXCEPT ![c] = Closed]

Goto(g, pc) == runs' = [runs EXCEPT ![g].pc = pc]

\* The call keeps its host but owns no connection any more.
Redial(g) == runs' = [runs EXCEPT ![g].pc = "dial", ![g].conn = None]

Return(g) == runs' = [runs EXCEPT ![g] = IdleRun]

Answers(c) == conns[c].state \in {"open", "broken"}

-----------------------------------------------------------------------------
Init ==
    /\ conns = [c \in Conns |-> Closed]
    /\ pools = [h \in Hosts |-> <<>>]
    /\ runs = [g \in Runs |-> IdleRun]

\* The network: a connection breaks, or its peer falls silent and may be
\* given up by TCP later.
Break(c) ==
    /\ conns[c].state \in {"open", "silent"}
    /\ conns' = [conns EXCEPT ![c].state = "broken"]
    /\ UNCHANGED <<pools, runs>>

FallSilent(c) ==
    /\ conns[c].state = "open"
    /\ conns' = [conns EXCEPT ![c].state = "silent"]
    /\ UNCHANGED <<pools, runs>>

\* A module calls Run for some server.
Start(g) ==
    /\ runs[g].pc = "idle"
    /\ \E h \in Hosts : runs' = [runs EXCEPT ![g].pc = "get", ![g].host = h]
    /\ UNCHANGED <<conns, pools>>

\* Slip: the pool's key leaves the host out.
TakeIdleOfAny(g) ==
    /\ runs[g].pc = "get"
    /\ \E h \in Hosts :
          IF pools[h] # <<>>
          THEN /\ runs' = [runs EXCEPT ![g].pc = "probe", ![g].conn = Head(pools[h])]
               /\ pools' = [pools EXCEPT ![h] = Tail(@)]
          ELSE Redial(g) /\ UNCHANGED pools
    /\ UNCHANGED conns

\* getConn: an idle connection of the host is taken out of the channel; with
\* none there, dial.
TakeIdle(g) ==
    /\ runs[g].pc = "get"
    /\ LET pool == pools[runs[g].host]
       IN  IF pool # <<>>
           THEN /\ runs' = [runs EXCEPT ![g].pc = "probe", ![g].conn = Head(pool)]
                /\ pools' = [pools EXCEPT ![runs[g].host] = Tail(pool)]
           ELSE Redial(g) /\ UNCHANGED pools
    /\ UNCHANGED conns

\* getConn, keepalive@openssh.com.
ProbeAnswered(g) ==
    /\ runs[g].pc = "probe"
    /\ conns[runs[g].conn].state = "open"
    /\ Goto(g, "session")
    /\ UNCHANGED <<conns, pools>>

\* Slip: the connection that failed the keepalive is not closed.
ProbeFailedNoClose(g) ==
    /\ runs[g].pc = "probe"
    /\ conns[runs[g].conn].state = "broken"
    /\ Redial(g)
    /\ UNCHANGED <<conns, pools>>

\* The rest of the pool is not tried: the next step is to dial.
ProbeFailed(g) ==
    /\ runs[g].pc = "probe"
    /\ conns[runs[g].conn].state = "broken"
    /\ Close(runs[g].conn)
    /\ Redial(g)
    /\ UNCHANGED pools

\* dial: TCP connects, within connect_timeout.
Dial(g) ==
    /\ runs[g].pc = "dial"
    /\ \E c \in Conns :
          /\ conns[c].state = "closed"
          /\ conns' = [conns EXCEPT ![c] = [state |-> "open", host |-> runs[g].host]]
          /\ runs' = [runs EXCEPT ![g].pc = "handshake", ![g].conn = c]
    /\ UNCHANGED pools

\* The key cannot be read, or the host cannot be reached.
DialFailed(g) ==
    /\ runs[g].pc = "dial"
    /\ Return(g)
    /\ UNCHANGED <<conns, pools>>

\* dial, the SSH handshake: connect_timeout does not limit it.
Handshake(g) ==
    /\ runs[g].pc = "handshake"
    /\ conns[runs[g].conn].state = "open"
    /\ Goto(g, "session")
    /\ UNCHANGED <<conns, pools>>

\* The connection breaks in the handshake, or the key is refused.
HandshakeFailed(g) ==
    /\ runs[g].pc = "handshake"
    /\ Answers(runs[g].conn)
    /\ Close(runs[g].conn)
    /\ Return(g)
    /\ UNCHANGED pools

\* Run, NewSession.
OpenSession(g) ==
    /\ runs[g].pc = "session"
    /\ conns[runs[g].conn].state = "open"
    /\ Goto(g, "command")
    /\ UNCHANGED <<conns, pools>>

\* Slip: the connection is closed, and given back as well.
SessionFailedThenPut(g) ==
    /\ runs[g].pc = "session"
    /\ Answers(runs[g].conn)
    /\ Close(runs[g].conn)
    /\ Goto(g, "put")
    /\ UNCHANGED pools

\* NewSession fails, on a broken connection or because the server refuses
\* one more session: the connection is closed.
SessionFailed(g) ==
    /\ runs[g].pc = "session"
    /\ Answers(runs[g].conn)
    /\ Close(runs[g].conn)
    /\ Return(g)
    /\ UNCHANGED pools

\* Run, CombinedOutput: the command ends, or command_timeout closes its
\* session; on a silent connection neither is answered.
EndCommand(g) ==
    /\ runs[g].pc = "command"
    /\ Answers(runs[g].conn)
    /\ Goto(g, "put")
    /\ UNCHANGED <<conns, pools>>

\* Slip: sending to a full channel waits.
PutWaits(g) ==
    /\ runs[g].pc = "put"
    /\ Len(pools[runs[g].host]) < MaxIdle
    /\ pools' = [pools EXCEPT ![runs[g].host] = Append(@, runs[g].conn)]
    /\ Return(g)
    /\ UNCHANGED conns

\* Slip: a full channel drops the connection without closing it.
PutDrops(g) ==
    /\ runs[g].pc = "put"
    /\ IF Len(pools[runs[g].host]) < MaxIdle
       THEN pools' = [pools EXCEPT ![runs[g].host] = Append(@, runs[g].conn)]
       ELSE UNCHANGED pools
    /\ Return(g)
    /\ UNCHANGED conns

\* Slip: the channel has no capacity.
PutUnlimited(g) ==
    /\ runs[g].pc = "put"
    /\ pools' = [pools EXCEPT ![runs[g].host] = Append(@, runs[g].conn)]
    /\ Return(g)
    /\ UNCHANGED conns

\* putConn: back into the channel, or closed when the channel is full; a
\* connection that broke under the command is given back like any other.
Put(g) ==
    /\ runs[g].pc = "put"
    /\ IF Len(pools[runs[g].host]) < MaxIdle
       THEN /\ pools' = [pools EXCEPT ![runs[g].host] = Append(@, runs[g].conn)]
            /\ UNCHANGED conns
       ELSE Close(runs[g].conn) /\ UNCHANGED pools
    /\ Return(g)

RunStep(g) ==
    \/ TakeIdle(g) \/ ProbeAnswered(g) \/ ProbeFailed(g) \/ Dial(g) \/ DialFailed(g)
    \/ Handshake(g) \/ HandshakeFailed(g) \/ OpenSession(g) \/ SessionFailed(g) \/ EndCommand(g) \/ Put(g)

Next ==
    \/ \E c \in Conns : Break(c) \/ FallSilent(c)
    \/ \E g \in Runs : Start(g) \/ RunStep(g)

Spec == Init /\ [][Next]_vars

\* A call that can go on goes on; calls, and trouble, need never come.
FairSpec == Spec /\ \A g \in Runs : WF_vars(RunStep(g))

-----------------------------------------------------------------------------
\* Every variable has its type, no channel holds more than its capacity, and
\* a call knows its host and the connection it owns.
TypeOK ==
    /\ conns \in [Conns -> Conn]
    /\ pools \in [Hosts -> Seq(Conns)]
    /\ runs \in [Runs -> Run]
    /\ \A h \in Hosts : Len(pools[h]) <= MaxIdle
    /\ \A g \in Runs : /\ runs[g].pc # "idle" => runs[g].host \in Hosts
                       /\ runs[g].pc \in Holding => runs[g].conn \in Conns

\* A connection has one owner: it is in the hands of one call, or in one
\* place of one channel, and never both.  (Two calls on one connection would
\* close it under each other.)
OneHolder ==
    /\ \A c \in Conns, g1, g2 \in Runs : Holds(g1, c) /\ Holds(g2, c) => g1 = g2
    /\ \A g \in Runs, c \in Conns : Holds(g, c) => ~Idle(c)
    /\ \A h1, h2 \in Hosts : \A i \in 1..Len(pools[h1]), j \in 1..Len(pools[h2]) :
          pools[h1][i] = pools[h2][j] => h1 = h2 /\ i = j

\* No connection leaks and none is used after it was closed: those that are
\* not closed are exactly those a call or a channel owns.
ClosedIffUnowned ==
    \A c \in Conns : (conns[c].state = "closed") = (~Idle(c) /\ \A g \in Runs : ~Holds(g, c))

\* A command runs on the host it was meant for, also on a connection that
\* other calls used before.
RightHost ==
    /\ \A g \in Runs, c \in Conns : Holds(g, c) => conns[c].host = runs[g].host
    /\ \A h \in Hosts : \A i \in 1..Len(pools[h]) : conns[pools[h][i]].host = h

OpenTo(h) == {c \in Conns : conns[c].state # "closed" /\ conns[c].host = h}

\* Beyond the calls in progress a host never carries more than MaxIdle
\* connections.
OpenBounded ==
    \A h \in Hosts : Cardinality(OpenTo(h)) <=
        MaxIdle + Cardinality({g \in Runs : runs[g].host = h /\ runs[g].pc \in Holding})

\* A call ends unless its own peer falls silent: neither a full channel, nor
\* another call, nor a host that is silent to others can hold it up.
RunEnds ==
    \A g \in Runs :
        (runs[g].pc # "idle") ~>
            (runs[g].pc = "idle" \/ \E c \in Conns : Holds(g, c) /\ conns[c].state = "silent")
=============================================================================
