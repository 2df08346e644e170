------------------------------- MODULE Alerts -------------------------------
(***************************************************************************)
(* The alert pipeline of internal/modules/alerts: the collector's tickers  *)
(* start a goroutine per monitored target, each goroutine turns what it    *)
(* measured into findings and puts every finding through maybeAlert        *)
(* (HasActive, then Create, then SendAlert: three round trips, none of     *)
(* them under a lock or in a transaction), and operators acknowledge       *)
(* alerts with a button of the /alerts list or with tgops-ctl.             *)
(*                                                                         *)
(* A goroutine is named by a pair <<round, target>>.  A tick takes a round *)
(* none of whose goroutines is still running, so Rounds is the number of   *)
(* ticks whose goroutines may be in flight together: the collector never   *)
(* waits for the previous round.  A goroutine that waits for a silent      *)
(* server for ever does not count among them.                              *)
(***************************************************************************)
EXTENDS Storage, FiniteSets

CONSTANTS
    Servers,          \* servers polled over SSH
    Endpoints,        \* endpoints polled over HTTP
    Rounds,           \* rounds of checks that may overlap
    Operators,        \* users who press the button of a list of alerts
    Conditions,       \* Conditions[t]: the states target t can be in
    WarningAt,        \* thresholds, in percent (one pair for cpu, ram, disk)
    CriticalAt,
    ChatConfigured,   \* notify.chat_id # 0
    MaxRows,          \* bound: rows ever inserted for a key of each type
    MaxLists,         \* bound: answers to /alerts
    MaxFaults         \* bound: failed calls and restarts

Targets == Servers \cup Endpoints
Types == {"cpu", "ram", "disk", "service_down", "http"}
Keys == Targets \X Types
Severities == {"warning", "critical"}
Percent == 0..100

\* answers: a measurement comes to an end, with numbers or with an error.
Condition == [answers : BOOLEAN, reachable : BOOLEAN, cpu : Percent, ram : Percent, disk : Percent]
Checks == Rounds \X Targets

ASSUME AlertsAssumption ==
    /\ Servers \cap Endpoints = {}
    /\ IsFiniteSet(Rounds)
    /\ Conditions \in [Targets -> SUBSET Condition]
    /\ \A t \in Targets : Conditions[t] # {}
    \* The HTTP client of checkHTTP has a time-out.
    /\ \A t \in Endpoints : \A c \in Conditions[t] : c.answers
    /\ WarningAt \in Nat /\ CriticalAt \in Nat
    /\ ChatConfigured \in BOOLEAN
    /\ MaxRows \in [Types -> Nat] /\ MaxLists \in Nat /\ MaxFaults \in Nat

VARIABLES
    condition,   \* what a measurement of each target would return
    history,     \* versions of the table alerts (see Storage)
    useReplica,  \* db.Replica # nil in the running process
    checks,      \* the goroutines of checkServers and checkHTTP
    announced,   \* alerts whose notification reached the chat
    cards,       \* messages of /alerts that still carry the button
    lists,       \* answers to /alerts so far
    clicks,      \* the goroutine serving each operator's last click
    faults       \* failed calls and restarts so far

vars == <<condition, history, useReplica, checks, announced, cards, lists, clicks, faults>>

-----------------------------------------------------------------------------
(* The table alerts.  A row's id is its position; tgops-ctl's clean-up     *)
(* leaves the position behind, as SERIAL does.  Definitions under the      *)
(* heading "Slip" are plausible mistakes in the definition that follows    *)
(* them; the specification uses none of them.                              *)

Row == [key : Keys, severity : Severities, state : {"active", "acked", "deleted"}, check : Checks]

Table == Primary(history)
Ids == 1..Len(Table)

ActiveIds(table, key) == {i \in 1..Len(table) : table[i].key = key /\ table[i].state = "active"}

\* Bound: the last row of a key is never acknowledged or deleted, so that
\* reaching the bound cannot be taken for a missing alert.
Room(key) == Cardinality({i \in Ids : Table[i].key = key}) < MaxRows[key[2]]

\* Slip: the NOT of the WHERE clause is lost.
HasActiveAcknowledged(table, key) ==
    \E i \in 1..Len(table) : table[i].key = key /\ table[i].state = "acked"

\* Slip: acknowledged rows count too.
HasActiveEver(table, key) == \E i \in 1..Len(table) : table[i].key = key

\* Slip: the type is left out of the WHERE clause.
HasActiveOnTarget(table, key) ==
    \E i \in 1..Len(table) : table[i].key[1] = key[1] /\ table[i].state = "active"

\* pgAlertRepo.HasActive counts the rows not acknowledged, of any severity.
HasActive(table, key) == ActiveIds(table, key) # {}

WithState(table, ids, state) ==
    [i \in 1..Len(table) |-> IF i \in ids THEN [table[i] EXCEPT !.state = state] ELSE table[i]]

-----------------------------------------------------------------------------
(* What a goroutine found: a sequence of findings, in the order the code  *)
(* puts them through maybeAlert.                                          *)

Finding == [type : Types, severity : Severities]

Judge(type, load) ==
    IF load >= CriticalAt THEN <<[type |-> type, severity |-> "critical"]>>
    ELSE IF load >= WarningAt THEN <<[type |-> type, severity |-> "warning"]>>
    ELSE <<>>

\* checkServer: an unreachable server has no other finding.
ServerFindings(c) ==
    IF ~c.reachable
    THEN <<[type |-> "service_down", severity |-> "critical"]>>
    ELSE Judge("cpu", c.cpu) \o Judge("ram", c.ram) \o Judge("disk", c.disk)

\* checkEndpoint: reachable stands for an answer with the expected status.
EndpointFindings(c) ==
    IF c.reachable THEN <<>> ELSE <<[type |-> "http", severity |-> "critical"]>>

Findings(t) ==
    IF t \in Servers THEN ServerFindings(condition[t]) ELSE EndpointFindings(condition[t])

-----------------------------------------------------------------------------
(* A goroutine: where it is in checkServer / checkEndpoint / maybeAlert,  *)
(* the findings it still has to put through maybeAlert, and the row it    *)
(* has just inserted (history: the code keeps the storage.Alert it built).*)

CheckState == [pc : {"idle", "collect", "query", "create", "send"}, todo : Seq(Finding), row : Nat]

At(pc, todo, row) == [pc |-> pc, todo |-> todo, row |-> row]

IdleCheck == At("idle", <<>>, 0)

TargetOf(c) == c[2]
KeyOf(c) == <<TargetOf(c), Head(checks[c].todo).type>>

\* Slip: maybeAlert is called though nothing was found.
ResumeAlways(todo) == At("query", todo, 0)

\* maybeAlert for these findings comes next, or the goroutine ends.
Resume(todo) == IF todo = <<>> THEN IdleCheck ELSE At("query", todo, 0)

\* maybeAlert returns: on to the next finding.
NextFinding(c) == checks' = [checks EXCEPT ![c] = Resume(Tail(@.todo))]

IdleClick == [pc |-> "idle", alert |-> 0, list |-> 0]

-----------------------------------------------------------------------------
Init ==
    /\ condition \in [Targets -> UNION {Conditions[t] : t \in Targets}]
    /\ \A t \in Targets : condition[t] \in Conditions[t]
    /\ history = << <<>> >>
    /\ useReplica \in ConnectOutcomes
    /\ checks = [c \in Checks |-> IdleCheck]
    /\ announced = {}
    /\ cards = {}
    /\ lists = 0
    /\ clicks = [u \in Operators |-> IdleClick]
    /\ faults = 0

\* The world: a target gets better or worse.
Fluctuate(t) ==
    /\ \E c \in Conditions[t] : condition' = [condition EXCEPT ![t] = c]
    /\ UNCHANGED <<history, useReplica, checks, announced, cards, lists, clicks, faults>>

ReplicaCatchesUp ==
    /\ Lagging(history)
    /\ history' = Replay(history)
    /\ UNCHANGED <<condition, useReplica, checks, announced, cards, lists, clicks, faults>>

\* A call that fails is one of at most MaxFaults.
Fault ==
    /\ faults < MaxFaults
    /\ faults' = faults + 1

-----------------------------------------------------------------------------
(* The collector.                                                          *)

\* One ticker fires: checkServers or checkHTTP starts a goroutine per target
\* and returns without waiting for them.  (An error of GetServers, and an
\* empty list of endpoints, start nothing.)
Tick(r, targets) ==
    /\ targets # {}
    /\ \A t \in targets : checks[<<r, t>>].pc = "idle"
    /\ checks' = [c \in Checks |->
                    IF c[1] = r /\ c[2] \in targets THEN At("collect", <<>>, 0) ELSE checks[c]]
    /\ UNCHANGED <<condition, history, useReplica, announced, cards, lists, clicks, faults>>

ServerTick(r) == Tick(r, Servers)
HTTPTick(r) == Tick(r, Endpoints)

\* The measurement, system.Collect over SSH or the GET of the endpoint, comes
\* to its end.  Over SSH it may never do so: the keepalive, the handshake and
\* NewSession wait for a silent server without a deadline.
Collect(c) ==
    /\ checks[c].pc = "collect"
    /\ condition[TargetOf(c)].answers
    /\ checks' = [checks EXCEPT ![c] = Resume(Findings(TargetOf(c)))]
    /\ UNCHANGED <<condition, history, useReplica, announced, cards, lists, clicks, faults>>

\* The goroutine of a silent server that waits for ever: nothing is seen of it
\* again, and a later tick takes its name.
WaitForEver(c) ==
    /\ checks[c].pc = "collect"
    /\ ~condition[TargetOf(c)].answers
    /\ checks' = [checks EXCEPT ![c] = IdleCheck]
    /\ UNCHANGED <<condition, history, useReplica, announced, cards, lists, clicks, faults>>

\* maybeAlert, HasActive: an active alert of this key ends it here.
QueryActive(c) ==
    /\ checks[c].pc = "query"
    /\ IF HasActive(ReadPool(history, useReplica), KeyOf(c))
       THEN NextFinding(c)
       ELSE checks' = [checks EXCEPT ![c] = At("create", @.todo, 0)]
    /\ UNCHANGED <<condition, history, useReplica, announced, cards, lists, clicks, faults>>

InsertAlert(c) ==
    history' = Commit(history, Append(Table, [key |-> KeyOf(c), state |-> "active", check |-> c,
                                              severity |-> Head(checks[c].todo).severity]))

\* Slip: the alert is stored and the goroutine goes on without sending it.
CreateAlertSilently(c) ==
    /\ checks[c].pc = "create"
    /\ Room(KeyOf(c))
    /\ InsertAlert(c)
    /\ NextFinding(c)
    /\ UNCHANGED <<condition, useReplica, announced, cards, lists, clicks, faults>>

\* maybeAlert, Create: the row goes to the primary, whatever it holds by now.
CreateAlert(c) ==
    /\ checks[c].pc = "create"
    /\ Room(KeyOf(c))
    /\ InsertAlert(c)
    /\ checks' = [checks EXCEPT ![c] = At("send", @.todo, Len(Table) + 1)]
    /\ UNCHANGED <<condition, useReplica, announced, cards, lists, clicks, faults>>

\* Bound, not the code: a duplicate past MaxRows is not inserted, so that
\* the bound never holds up a goroutine.
SkipPastBound(c) ==
    /\ checks[c].pc = "create"
    /\ ~Room(KeyOf(c))
    /\ NextFinding(c)
    /\ UNCHANGED <<condition, history, useReplica, announced, cards, lists, clicks, faults>>

\* Manager.SendAlert: without a chat the notification is dropped.
SendAlert(c) ==
    /\ checks[c].pc = "send"
    /\ announced' = IF ChatConfigured THEN announced \cup {checks[c].row} ELSE announced
    /\ NextFinding(c)
    /\ UNCHANGED <<condition, history, useReplica, cards, lists, clicks, faults>>

\* HasActive, Create or Send fails: the error is logged, the finding is
\* done.  The INSERT may have been committed, and the message delivered,
\* though the answer was lost.
FinishFailed(c) ==
    /\ Fault
    /\ \/ checks[c].pc \in {"query", "create"} /\ UNCHANGED <<history, announced>>
       \/ checks[c].pc = "create" /\ Room(KeyOf(c)) /\ InsertAlert(c) /\ UNCHANGED announced
       \/ /\ checks[c].pc = "send" /\ ChatConfigured
          /\ announced' \in {announced, announced \cup {checks[c].row}}
          /\ UNCHANGED history
    /\ NextFinding(c)
    /\ UNCHANGED <<condition, useReplica, cards, lists, clicks>>

-----------------------------------------------------------------------------
(* Operators.                                                              *)

\* Module.Handle, the command /alerts: a message with a button per alert
\* not acknowledged; a message that cannot be sent is skipped.
ListAlerts ==
    LET seen == ReadPool(history, useReplica)
        ids == {i \in 1..Len(seen) : seen[i].state = "active"}
    IN  /\ lists < MaxLists
        /\ lists' = lists + 1
        /\ \/ cards' = cards \cup {[alert |-> i, list |-> lists + 1] : i \in ids} /\ UNCHANGED faults
           \/ \E sent \in SUBSET ids : 
                 /\ sent # ids
                 /\ cards' = cards \cup {[alert |-> i, list |-> lists + 1] : i \in sent}
                 /\ Fault
        /\ UNCHANGED <<condition, history, useReplica, checks, announced, clicks>>

\* An operator presses the button: DispatchCallback starts HandleAck.
Press(u) ==
    /\ clicks[u].pc = "idle"
    /\ \E card \in cards :
          clicks' = [clicks EXCEPT ![u] = [pc |-> "ack", alert |-> card.alert, list |-> card.list]]
    /\ UNCHANGED <<condition, history, useReplica, checks, announced, cards, lists, faults>>

\* Slip: SET acknowledged = NOT acknowledged.
AcknowledgeToggles(u) ==
    /\ clicks[u].pc = "ack"
    /\ LET id == clicks[u].alert
       IN  /\ Room(Table[id].key)
           /\ history' = IF Table[id].state = "deleted" THEN history
                         ELSE Commit(history, WithState(Table, {id}, IF Table[id].state = "acked"
                                                                     THEN "active" ELSE "acked"))
    /\ clicks' = [clicks EXCEPT ![u].pc = "edit"]
    /\ UNCHANGED <<condition, useReplica, checks, announced, cards, lists, faults>>

\* UPDATE ... WHERE id = $3: a row already acknowledged is updated again; a
\* deleted one is not there to update.
MarkAcknowledged(id) ==
    /\ Room(Table[id].key)
    /\ history' = IF Table[id].state = "deleted" THEN history
                  ELSE Commit(history, WithState(Table, {id}, "acked"))

\* HandleAck, Acknowledge.
Acknowledge(u) ==
    /\ clicks[u].pc = "ack"
    /\ MarkAcknowledged(clicks[u].alert)
    /\ clicks' = [clicks EXCEPT ![u].pc = "edit"]
    /\ UNCHANGED <<condition, useReplica, checks, announced, cards, lists, faults>>

\* Slip: no return after the failed UPDATE.
AcknowledgeFailedThenEdit(u) ==
    /\ clicks[u].pc = "ack"
    /\ Fault
    /\ clicks' = [clicks EXCEPT ![u].pc = "edit"]
    /\ UNCHANGED <<condition, history, useReplica, checks, announced, cards, lists>>

\* The UPDATE fails, or its answer is lost: "try again", the button stays.
AcknowledgeFailed(u) ==
    /\ clicks[u].pc = "ack"
    /\ Fault
    /\ UNCHANGED history \/ MarkAcknowledged(clicks[u].alert)
    /\ clicks' = [clicks EXCEPT ![u] = IdleClick]
    /\ UNCHANGED <<condition, useReplica, checks, announced, cards, lists>>

\* HandleAck removes the button; an edit that fails is ignored.
EditCard(u) ==
    /\ clicks[u].pc = "edit"
    /\ \/ cards' = cards \ {[alert |-> clicks[u].alert, list |-> clicks[u].list]} /\ UNCHANGED faults
       \/ UNCHANGED cards /\ Fault
    /\ clicks' = [clicks EXCEPT ![u] = IdleClick]
    /\ UNCHANGED <<condition, history, useReplica, checks, announced, lists>>

\* tgops-ctl alert_ack: one alert, or every alert not yet acknowledged.
CtlAcknowledge ==
    /\ \E ids \in {{i} : i \in Ids} \cup {{i \in Ids : Table[i].state = "active"}} :
          /\ \E i \in ids : Table[i].state = "active"
          /\ \A i \in ids : Table[i].state # "deleted" /\ Room(Table[i].key)
          /\ history' = Commit(history, WithState(Table, ids, "acked"))
    /\ UNCHANGED <<condition, useReplica, checks, announced, cards, lists, clicks, faults>>

\* tgops-ctl alert_cleanup deletes the rows older than some age,
\* acknowledged or not: the rows up to some id.
CtlCleanup ==
    /\ \E n \in Ids :
          /\ Table[n].state # "deleted"
          /\ \A i \in 1..n : Room(Table[i].key)
          /\ history' = Commit(history, WithState(Table, 1..n, "deleted"))
    /\ UNCHANGED <<condition, useReplica, checks, announced, cards, lists, clicks, faults>>

-----------------------------------------------------------------------------
(* The process dies and starts again: every goroutine is gone, nothing is  *)
(* recovered, and Connect may or may not reach the replica this time.      *)
Restart ==
    /\ Fault
    /\ useReplica' \in ConnectOutcomes
    /\ checks' = [c \in Checks |-> IdleCheck]
    /\ clicks' = [u \in Operators |-> IdleClick]
    /\ UNCHANGED <<condition, history, announced, cards, lists>>

CheckStep(c) ==
    \/ Collect(c) \/ WaitForEver(c)
    \/ QueryActive(c) \/ CreateAlert(c) \/ SkipPastBound(c) \/ SendAlert(c)

Next ==
    \/ \E t \in Targets : Fluctuate(t)
    \/ ReplicaCatchesUp
    \/ \E r \in Rounds : ServerTick(r) \/ HTTPTick(r)
    \/ \E c \in Checks : CheckStep(c) \/ FinishFailed(c)
    \/ ListAlerts
    \/ \E u \in Operators : Press(u) \/ Acknowledge(u) \/ AcknowledgeFailed(u) \/ EditCard(u)
    \/ CtlAcknowledge
    \/ CtlCleanup
    \/ Restart

Spec == Init /\ [][Next]_vars

\* The tickers keep ticking, goroutines that can run do run, replication
\* goes on; a call of the database or of Telegram comes to an end, with or
\* without an error.  Nothing is assumed of the world, of operators or of
\* failures: a server need not answer, and then Collect never happens.
Fairness ==
    /\ WF_vars(ReplicaCatchesUp)
    /\ WF_vars(\E r \in Rounds : ServerTick(r))
    /\ WF_vars(\E r \in Rounds : HTTPTick(r))
    /\ \A c \in Checks : WF_vars(CheckStep(c))

FairSpec == Spec /\ Fairness

-----------------------------------------------------------------------------
\* Every variable has its type.
TypeOK ==
    /\ condition \in [Targets -> Condition]
    /\ history \in Seq(Seq(Row)) /\ Len(history) > 0
    /\ useReplica \in ConnectOutcomes
    /\ checks \in [Checks -> CheckState]
    /\ \A c \in Checks : (checks[c].todo = <<>>) = (checks[c].pc \in {"idle", "collect"})
    /\ announced \subseteq Nat
    /\ cards \subseteq [alert : Nat, list : Nat]
    /\ lists \in Nat
    /\ clicks \in [Operators -> [pc : {"idle", "ack", "edit"}, alert : Nat, list : Nat]]
    /\ faults \in Nat

\* Without a replica, deduplication is as good as the rounds are few: a key
\* never has more active alerts than there are rounds whose checks may
\* overlap.  (maybeAlert checks and then inserts without a lock, so two
\* goroutines that both saw no active alert both insert one.)
OverlapBoundsDuplicates ==
    ReplicaConfigured \/ \A k \in Keys : Cardinality(ActiveIds(Table, k)) <= Cardinality(Rounds)

\* Why: a goroutine never adds a second active alert to its own first one,
\* also not while it is between HasActive and Create; and the round of a
\* goroutine and the target of a key name the goroutine.
ChecksOwnTheirRows == \A i \in Ids : Table[i].key[1] = TargetOf(Table[i].check)

OneActivePerCheck ==
    \A i, j \in Ids :
        /\ Table[i].state = "active" /\ Table[j].state = "active"
        /\ Table[i].key = Table[j].key /\ Table[i].check = Table[j].check
        => i = j

NoneActiveBeforeCreate ==
    \A c \in Checks, i \in Ids :
        checks[c].pc = "create" /\ Table[i].state = "active" /\ Table[i].key = KeyOf(c)
        => Table[i].check # c

DedupInv == ChecksOwnTheirRows /\ (ReplicaConfigured \/ (OneActivePerCheck /\ NoneActiveBeforeCreate))

\* The comment of maybeAlert: an alert is created only "if there is no
\* active alert of the same type for the same server".
NoDuplicateAlert == \A k \in Keys : Cardinality(ActiveIds(Table, k)) <= 1

\* The alerts a goroutine stored that nobody was told of, nor is about to be.
Silenced(c) ==
    {i \in Ids : /\ Table[i].check = c /\ i \notin announced
                 /\ ~(checks[c].pc = "send" /\ checks[c].row = i)}

\* An alert nobody was told of mutes its key until somebody acknowledges it.
\* SendAlert ignores a failed Send and nothing is resumed after a restart,
\* but that is the only way to such an alert: each failure makes at most one
\* per goroutine.
SilencedOnlyByFaults == ChatConfigured => \A c \in Checks : Cardinality(Silenced(c)) <= faults

\* The buttons this step removes are those of alerts that are not active.
RemovesIdleButtons == \A card \in cards \ cards' : Table[card.alert].state # "active"

\* HandleAck removes the button of a card only when the alert behind it is no
\* longer active: a failed UPDATE leaves the operator the button.
ButtonOutlivesActiveAlert == [][RemovesIdleButtons]_vars

\* What the ledger sees of the table.
Entries ==
    [i \in Ids |-> [key |-> Table[i].key,
                    state |-> IF Table[i].state = "active" THEN "open" ELSE "closed"]]

Ledger == INSTANCE AlertLedger WITH
            Deduplicates <- ~ReplicaConfigured, MaxOpen <- Cardinality(Rounds),
            ledger <- Entries, told <- announced

\* The pipeline keeps the promise of the ledger, with as many open alerts
\* per key as rounds may overlap.
ImplementsLedger == Ledger!LedgerSpec

\* The measurement behind a key comes to an end, and is at a threshold.
Reaches(key, threshold) ==
    LET c == condition[key[1]]
    IN  /\ c.answers
        /\ CASE key[2] \in {"cpu", "ram", "disk"} ->
                   key[1] \in Servers /\ c.reachable /\ c[key[2]] >= threshold
             [] key[2] = "service_down" -> key[1] \in Servers /\ ~c.reachable
             [] key[2] = "http" -> key[1] \in Endpoints /\ ~c.reachable

\* A fault of a target that persists has an active alert again and again,
\* however often it is acknowledged or cleaned up: deduplication, a lagging
\* replica, failed calls and restarts (finitely many) cannot mute it for good,
\* nor can goroutines that still wait from a time the target was silent.  Only of
\* faults that are measured: nothing is ever raised of a server that stays
\* silent, as its measurement neither returns nor fails.
PersistentFaultIsRaised ==
    \A k \in Keys : <>[]Reaches(k, WarningAt) => []<>(ActiveIds(Table, k) # {})

\* HasActive does not look at the severity, so an active warning hides a
\* critical reading that was measured; it hides it only as long as the warning itself stays.
CriticalHiddenOnlyByWarning ==
    \A k \in Keys :
      <>[]Reaches(k, CriticalAt) =>
        \/ []<>(\E i \in ActiveIds(Table, k) : Table[i].severity = "critical")
        \/ <>[](\E i \in ActiveIds(Table, k) : Table[i].severity = "warning")
=============================================================================
