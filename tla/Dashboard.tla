----------------------------- MODULE Dashboard -----------------------------
(***************************************************************************)
(* /health (internal/modules/system) on top of the SSH client: a goroutine *)
(* per server collects its metrics, one call of Run after the other, and   *)
(* the answer waits for all of them.  The other modules, and the collector *)
(* of alerts, call Run meanwhile.                                          *)
(***************************************************************************)
EXTENDS SSHPool

CONSTANTS
    Worker,    \* the call of Run that the goroutine of a server makes
    Calls      \* how many calls of Run Collect makes

ASSUME DashboardAssumption ==
    /\ Worker \in [Hosts -> Runs] /\ \A h1, h2 \in Hosts : Worker[h1] = Worker[h2] => h1 = h2
    /\ Calls \in Nat \ {0}

VARIABLE health    \* the /health in progress

allVars == <<vars, health>>

-----------------------------------------------------------------------------
\* left: the calls of Collect that have not returned, by server.
NoHealth == [pc |-> "idle", left |-> [h \in Hosts |-> 0]]

DashboardInit == Init /\ health = NoHealth

Collecting(g) == {h \in Hosts : Worker[h] = g /\ health.left[h] > 0}

\* handleHealth.  (Asked while no other call is in progress.)
Ask ==
    /\ health.pc = "idle"
    /\ \A h \in Hosts : runs[Worker[h]].pc = "idle"
    /\ health' = [pc |-> "collect", left |-> [h \in Hosts |-> Calls]]
    /\ UNCHANGED vars

\* Collect makes its next call.
CollectNext(h) ==
    /\ health.left[h] > 0
    /\ runs[Worker[h]].pc = "idle"
    /\ runs' = [runs EXCEPT ![Worker[h]].pc = "get", ![Worker[h]].host = h]
    /\ UNCHANGED <<conns, pools, health>>

\* Slip: a server that cannot be reached is tried again.
CollectedRetries(left, succeeded) == IF ~succeeded /\ left = Calls THEN left ELSE left - 1

\* Collect: when its first call fails there are no others; a later one that
\* fails leaves its numbers at zero.
Collected(left, succeeded) == IF ~succeeded /\ left = Calls THEN 0 ELSE left - 1

\* A call goes on.  Run has succeeded when it gives its connection back and
\* the command neither failed nor ran out of time.
Proceed(g) ==
    /\ RunStep(g)
    /\ IF runs'[g].pc # "idle" \/ Collecting(g) = {} THEN UNCHANGED health
       ELSE \E h \in Collecting(g), succeeded \in BOOLEAN :
               /\ succeeded => runs[g].pc = "put"
               /\ health' = [health EXCEPT !.left[h] = Collected(@, succeeded)]

\* wg.Wait, and the message.
AnswerHealth ==
    /\ health.pc = "collect"
    /\ \A h \in Hosts : health.left[h] = 0
    /\ health' = NoHealth
    /\ UNCHANGED vars

\* Calls of other modules.
CallElsewhere(g) == Collecting(g) = {} /\ Start(g) /\ UNCHANGED health

Trouble(c) == (Break(c) \/ FallSilent(c)) /\ UNCHANGED health

DashboardNext ==
    \/ Ask \/ AnswerHealth
    \/ \E h \in Hosts : CollectNext(h)
    \/ \E g \in Runs : Proceed(g) \/ CallElsewhere(g)
    \/ \E c \in Conns : Trouble(c)

\* What can go on goes on; calls, and trouble, need never come.
DashboardSpec ==
    /\ DashboardInit /\ [][DashboardNext]_allVars
    /\ WF_allVars(AnswerHealth)
    /\ \A h \in Hosts : WF_allVars(CollectNext(h))
    /\ \A g \in Runs : WF_allVars(Proceed(g))

-----------------------------------------------------------------------------
HeldUp(h) ==
    /\ health.left[h] > 0
    /\ \E c \in Conns : Holds(Worker[h], c) /\ conns[c].state = "silent"

\* /health is answered: servers that refuse, break off or run out of time,
\* other calls and full pools cannot hold it up.  Only a server that stays
\* silent can, for as long as it likes, because neither the keepalive nor the
\* handshake nor the opening of a session looks at the 12 seconds of its
\* context.  The comment at system.go:155 says that these keep a hung server
\* from holding up the whole answer; on such a one they do not.
HealthIsAnswered ==
    []<>(health.pc = "idle") \/ <>[](\E h \in Hosts : HeldUp(h))
=============================================================================
