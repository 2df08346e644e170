---------------------------- MODULE AlertsProofs ----------------------------
(***************************************************************************)
(* What holds of Alerts for every set of targets, every number of rounds   *)
(* and operators, and every bound.                                         *)
(***************************************************************************)
EXTENDS Alerts, StorageProofs, FiniteSetTheorems, TLAPS

-----------------------------------------------------------------------------
(* The table and its history.                                              *)

\* An UPDATE of some rows leaves a table with the same rows otherwise.
LEMMA WithStateType ==
    ASSUME NEW t \in Seq(Row), NEW ids, NEW s \in {"active", "acked", "deleted"}
    PROVE  /\ WithState(t, ids, s) \in Seq(Row)
           /\ Len(WithState(t, ids, s)) = Len(t)
           /\ \A i \in 1..Len(t) :
                 WithState(t, ids, s)[i] = IF i \in ids THEN [t[i] EXCEPT !.state = s] ELSE t[i]
<1>1. ASSUME NEW r \in Row PROVE [r EXCEPT !.state = s] \in Row
    BY DEF Row
<1>2. \A i \in 1..Len(t) : t[i] \in Row
    BY ElementOfSeq
<1>q. QED BY <1>1, <1>2 DEF WithState

\* The primary's version is a sequence of rows.
LEMMA TableType == TypeOK => Table \in Seq(Row)
    BY DEF TypeOK, Table, Primary

-----------------------------------------------------------------------------
(* The findings of a goroutine.                                            *)

LEMMA JudgeType ==
    ASSUME NEW type \in Types, NEW load \in Percent
    PROVE  Judge(type, load) \in Seq(Finding)
<1>1. \A s \in Severities : <<[type |-> type, severity |-> s]>> \in Seq(Finding)
    BY DEF Finding
<1>q. QED BY <1>1 DEF Judge, Severities

LEMMA FindingsType ==
    ASSUME TypeOK, NEW t \in Targets
    PROVE  Findings(t) \in Seq(Finding)
<1> DEFINE c == condition[t]
<1>1. c \in Condition
    BY DEF TypeOK
<1>2. /\ Judge("cpu", c.cpu) \in Seq(Finding)
      /\ Judge("ram", c.ram) \in Seq(Finding)
      /\ Judge("disk", c.disk) \in Seq(Finding)
    BY <1>1, JudgeType DEF Condition, Types
<1>3. Judge("cpu", c.cpu) \o Judge("ram", c.ram) \o Judge("disk", c.disk) \in Seq(Finding)
    <2>1. Judge("cpu", c.cpu) \o Judge("ram", c.ram) \in Seq(Finding)
        BY <1>2, ConcatProperties
    <2>q. QED BY <1>2, <2>1, ConcatProperties
<1>4. /\ <<[type |-> "service_down", severity |-> "critical"]>> \in Seq(Finding)
      /\ <<[type |-> "http", severity |-> "critical"]>> \in Seq(Finding)
      /\ <<>> \in Seq(Finding)
    BY DEF Finding, Types, Severities
<1>q. QED BY <1>3, <1>4 DEF Findings, ServerFindings, EndpointFindings

\* Between two findings a goroutine is idle or about to query the next one.
LEMMA ResumeType ==
    ASSUME NEW todo \in Seq(Finding)
    PROVE  /\ Resume(todo) \in CheckState
           /\ (Resume(todo).todo = <<>>) = (Resume(todo).pc \in {"idle", "collect"})
           /\ Resume(todo).pc \in {"idle", "query"}
    BY DEF Resume, CheckState, IdleCheck, At

\* A goroutine inside maybeAlert has a finding in hand, under a proper key.
LEMMA FindingInHand ==
    ASSUME TypeOK, NEW c \in Checks, checks[c].pc \in {"query", "create", "send"}
    PROVE  /\ checks[c].todo \in Seq(Finding)
           /\ checks[c].todo # <<>>
           /\ Head(checks[c].todo) \in Finding
           /\ Tail(checks[c].todo) \in Seq(Finding)
           /\ KeyOf(c) \in Keys
<1>1. checks[c] \in CheckState /\ checks[c].todo # <<>>
    BY DEF TypeOK
<1>2. checks[c].todo \in Seq(Finding)
    BY <1>1 DEF CheckState
<1>3. Head(checks[c].todo) \in Finding /\ Tail(checks[c].todo) \in Seq(Finding)
    BY <1>1, <1>2, HeadTailProperties
<1>4. TargetOf(c) \in Targets
    BY DEF Checks, TargetOf
<1>q. QED BY <1>1, <1>2, <1>3, <1>4 DEF KeyOf, Keys, Finding

-----------------------------------------------------------------------------
(* Types.                                                                  *)

LEMMA InitTypeOK == Init => TypeOK
<1> SUFFICES ASSUME Init PROVE TypeOK
    OBVIOUS
<1>1. condition \in [Targets -> Condition]
    BY AlertsAssumption DEF Init
<1>2. history \in Seq(Seq(Row)) /\ Len(history) > 0
    BY DEF Init
<1>3. /\ checks \in [Checks -> CheckState]
      /\ \A c \in Checks : (checks[c].todo = <<>>) = (checks[c].pc \in {"idle", "collect"})
    BY DEF Init, CheckState, IdleCheck, At
<1>4. clicks \in [Operators -> [pc : {"idle", "ack", "edit"}, alert : Nat, list : Nat]]
    BY DEF Init, IdleClick
<1>q. QED BY <1>1, <1>2, <1>3, <1>4 DEF Init, TypeOK

\* The part of TypeOK that speaks of the goroutines.
ChecksOK ==
    /\ checks \in [Checks -> CheckState]
    /\ \A c \in Checks : (checks[c].todo = <<>>) = (checks[c].pc \in {"idle", "collect"})

LEMMA NextFindingType ==
    ASSUME TypeOK, NEW c \in Checks, checks[c].pc \in {"query", "create", "send"}, NextFinding(c)
    PROVE  ChecksOK'
<1>1. Resume(Tail(checks[c].todo)) \in CheckState
      /\ (Resume(Tail(checks[c].todo)).todo = <<>>)
            = (Resume(Tail(checks[c].todo)).pc \in {"idle", "collect"})
    BY FindingInHand, ResumeType
<1>q. QED BY <1>1 DEF TypeOK, ChecksOK, NextFinding

\* A goroutine that moves on inside maybeAlert keeps its findings.
LEMMA AdvanceType ==
    ASSUME NEW todo \in Seq(Finding), todo # <<>>, NEW p \in {"query", "create", "send"}, NEW n \in Nat
    PROVE  LET a == At(p, todo, n)
           IN  a \in CheckState /\ (a.todo = <<>>) = (a.pc \in {"idle", "collect"})
<1> DEFINE todos == Seq(Finding)
<1>1. CheckState = [pc : {"idle", "collect", "query", "create", "send"}, todo : todos, row : Nat]
    BY DEF CheckState
<1>2. todo \in todos
    OBVIOUS
<1> HIDE DEF todos
<1>q. QED BY <1>1, <1>2 DEF At

LEMMA CommitTable ==
    ASSUME TypeOK, NEW t \in Seq(Row), history' = Commit(history, t)
    PROVE  history' \in Seq(Seq(Row)) /\ Len(history') > 0 /\ Table' = t
<1>1. history \in Seq(Seq(Row)) /\ Len(history) > 0
    BY DEF TypeOK
<1>2. /\ Commit(history, t) \in Seq(Seq(Row))
      /\ Len(Commit(history, t)) > 0
      /\ Primary(Commit(history, t)) = t
    BY <1>1, CommitType
<1>q. QED BY <1>2 DEF Table

\* The row of a finding, and the table it is inserted into.
NewRow(c) == [key |-> KeyOf(c), state |-> "active", check |-> c,
              severity |-> Head(checks[c].todo).severity]

LEMMA InsertType ==
    ASSUME TypeOK, NEW c \in Checks, checks[c].pc = "create", InsertAlert(c)
    PROVE  /\ NewRow(c) \in Row
           /\ history' \in Seq(Seq(Row)) /\ Len(history') > 0
           /\ Table' = Append(Table, NewRow(c))
<1>1. NewRow(c) \in Row
    BY FindingInHand DEF NewRow, Row, Finding
<1>2. Append(Table, NewRow(c)) \in Seq(Row)
    BY <1>1, TableType
<1>q. QED BY <1>1, <1>2, CommitTable DEF InsertAlert, NewRow

\* UPDATE ... WHERE id = $3 leaves a table alone or closes one alert.
LEMMA MarkType ==
    ASSUME TypeOK, NEW id, MarkAcknowledged(id)
    PROVE  /\ history' \in Seq(Seq(Row)) /\ Len(history') > 0
           /\ Table' = Table \/ Table' = WithState(Table, {id}, "acked")
<1>1. CASE history' = history
    BY <1>1 DEF TypeOK, Table
<1>2. CASE history' = Commit(history, WithState(Table, {id}, "acked"))
    <2>1. WithState(Table, {id}, "acked") \in Seq(Row)
        BY TableType, WithStateType
    <2>q. QED BY <1>2, <2>1, CommitTable
<1>q. QED BY <1>1, <1>2 DEF MarkAcknowledged

LEMMA NextTypeOK == TypeOK /\ [Next]_vars => TypeOK'
<1> SUFFICES ASSUME TypeOK, [Next]_vars PROVE TypeOK'
    OBVIOUS
<1> USE DEF TypeOK
<1>1. ASSUME NEW t \in Targets, Fluctuate(t) PROVE TypeOK'
    <2>1. PICK k \in Conditions[t] : condition' = [condition EXCEPT ![t] = k]
        BY <1>1 DEF Fluctuate
    <2>2. k \in Condition
        BY AlertsAssumption
    <2>q. QED BY <1>1, <2>1, <2>2 DEF Fluctuate
<1>2. ASSUME ReplicaCatchesUp PROVE TypeOK'
    <2>1. Replay(history) \in Seq(Seq(Row)) /\ Len(Replay(history)) > 0
        BY <1>2, ReplayType DEF ReplicaCatchesUp
    <2>q. QED BY <1>2, <2>1 DEF ReplicaCatchesUp
<1>3. ASSUME NEW r \in Rounds, NEW targets, Tick(r, targets) PROVE TypeOK'
    <2> DEFINE next == At("collect", <<>>, 0)
    <2>1. next \in CheckState /\ next.todo = <<>> /\ next.pc = "collect"
        BY DEF CheckState, At
    <2> HIDE DEF next
    <2>2. checks' = [d \in Checks |-> IF d[1] = r /\ d[2] \in targets THEN next ELSE checks[d]]
        BY <1>3 DEF Tick, next
    <2>q. QED BY <1>3, <2>1, <2>2 DEF Tick
<1>4. ASSUME NEW c \in Checks, Collect(c) PROVE TypeOK'
    <2>1. TargetOf(c) \in Targets
        BY DEF Checks, TargetOf
    <2> DEFINE next == Resume(Findings(TargetOf(c)))
    <2>2. next \in CheckState /\ (next.todo = <<>>) = (next.pc \in {"idle", "collect"})
        BY <2>1, FindingsType, ResumeType
    <2>q. QED BY <1>4, <2>2 DEF Collect
<1>4a. ASSUME NEW c \in Checks, WaitForEver(c) PROVE TypeOK'
    BY <1>4a DEF WaitForEver, IdleCheck, CheckState, At
<1>5. ASSUME NEW c \in Checks, QueryActive(c) PROVE TypeOK'
    <2>1. CASE HasActive(ReadPool(history, useReplica), KeyOf(c))
        BY <1>5, <2>1, NextFindingType DEF QueryActive, ChecksOK
    <2>2. CASE ~HasActive(ReadPool(history, useReplica), KeyOf(c))
        <3> DEFINE next == At("create", checks[c].todo, 0)
        <3>1. checks[c].todo \in Seq(Finding) /\ checks[c].todo # <<>>
            BY <1>5, FindingInHand DEF QueryActive
        <3>2. next \in CheckState /\ (next.todo = <<>>) = (next.pc \in {"idle", "collect"})
            BY <3>1, AdvanceType
        <3>3. checks' = [checks EXCEPT ![c] = next]
            BY <1>5, <2>2 DEF QueryActive
        <3> HIDE DEF next
        <3>q. QED BY <1>5, <3>2, <3>3 DEF QueryActive
    <2>q. QED BY <2>1, <2>2
<1>6. ASSUME NEW c \in Checks, CreateAlert(c) PROVE TypeOK'
    <2>1. history' \in Seq(Seq(Row)) /\ Len(history') > 0
        BY <1>6, InsertType DEF CreateAlert
    <2> DEFINE next == At("send", checks[c].todo, Len(Table) + 1)
    <2>2. Len(Table) + 1 \in Nat
        BY TableType
    <2>3. checks[c].todo \in Seq(Finding) /\ checks[c].todo # <<>>
        BY <1>6, FindingInHand DEF CreateAlert
    <2>4. next \in CheckState /\ (next.todo = <<>>) = (next.pc \in {"idle", "collect"})
        BY <2>2, <2>3, AdvanceType
    <2>5. checks' = [checks EXCEPT ![c] = next]
        BY <1>6 DEF CreateAlert
    <2> HIDE DEF next
    <2>6. ChecksOK'
        BY <2>4, <2>5 DEF ChecksOK
    <2>q. QED BY <1>6, <2>1, <2>6 DEF CreateAlert, ChecksOK
<1>7. ASSUME NEW c \in Checks, SkipPastBound(c) PROVE TypeOK'
    BY <1>7, NextFindingType DEF SkipPastBound, ChecksOK
<1>8. ASSUME NEW c \in Checks, SendAlert(c) PROVE TypeOK'
    <2>1. checks[c].row \in Nat
        BY DEF CheckState
    <2>2. ChecksOK'
        BY <1>8, NextFindingType DEF SendAlert
    <2>q. QED BY <1>8, <2>1, <2>2 DEF SendAlert, ChecksOK
<1>9. ASSUME NEW c \in Checks, FinishFailed(c) PROVE TypeOK'
    <2>1. ChecksOK'
        BY <1>9, NextFindingType DEF FinishFailed
    <2>2. history' \in Seq(Seq(Row)) /\ Len(history') > 0
        BY <1>9, InsertType DEF FinishFailed
    <2>3. announced' \subseteq Nat
        <3>1. checks[c].row \in Nat
            BY DEF CheckState
        <3>q. QED BY <1>9, <3>1 DEF FinishFailed
    <2>4. faults' \in Nat
        BY <1>9 DEF FinishFailed, Fault
    <2>q. QED BY <1>9, <2>1, <2>2, <2>3, <2>4 DEF FinishFailed, ChecksOK
<1>10. ASSUME ListAlerts PROVE TypeOK'
    <2>1. \A ids \in SUBSET Nat : {[alert |-> i, list |-> lists + 1] : i \in ids} \subseteq [alert : Nat, list : Nat]
        OBVIOUS
    <2>2. ASSUME NEW version PROVE {i \in 1..Len(version) : version[i].state = "active"} \subseteq Nat
        OBVIOUS
    <2>3. cards' \subseteq [alert : Nat, list : Nat]
        BY <1>10, <2>1, <2>2 DEF ListAlerts
    <2>q. QED BY <1>10, <2>3 DEF ListAlerts, Fault
<1>11. ASSUME NEW u \in Operators, Press(u) PROVE TypeOK'
    BY <1>11 DEF Press
<1>12. ASSUME NEW u \in Operators, Acknowledge(u) PROVE TypeOK'
    BY <1>12, MarkType DEF Acknowledge
<1>13. ASSUME NEW u \in Operators, AcknowledgeFailed(u) \/ EditCard(u) PROVE TypeOK'
    <2>1. IdleClick \in [pc : {"idle", "ack", "edit"}, alert : Nat, list : Nat]
        BY DEF IdleClick
    <2>2. cards' \subseteq cards
        BY <1>13 DEF AcknowledgeFailed, EditCard
    <2>3. faults' \in Nat
        BY <1>13 DEF AcknowledgeFailed, EditCard, Fault
    <2>4. clicks' = [clicks EXCEPT ![u] = IdleClick]
        BY <1>13 DEF AcknowledgeFailed, EditCard
    <2>5. history' \in Seq(Seq(Row)) /\ Len(history') > 0
        BY <1>13, MarkType DEF AcknowledgeFailed, EditCard
    <2>6. UNCHANGED <<condition, useReplica, checks, announced, lists>>
        BY <1>13 DEF AcknowledgeFailed, EditCard
    <2>q. QED BY <2>1, <2>2, <2>3, <2>4, <2>5, <2>6
<1>14. ASSUME CtlAcknowledge PROVE TypeOK'
    <2>1. PICK ids : history' = Commit(history, WithState(Table, ids, "acked"))
        BY <1>14 DEF CtlAcknowledge
    <2>2. WithState(Table, ids, "acked") \in Seq(Row)
        BY TableType, WithStateType
    <2>q. QED BY <1>14, <2>1, <2>2, CommitTable DEF CtlAcknowledge
<1>15. ASSUME CtlCleanup PROVE TypeOK'
    <2>1. PICK n : history' = Commit(history, WithState(Table, 1..n, "deleted"))
        BY <1>15 DEF CtlCleanup
    <2>2. WithState(Table, 1..n, "deleted") \in Seq(Row)
        BY TableType, WithStateType
    <2>q. QED BY <1>15, <2>1, <2>2, CommitTable DEF CtlCleanup
<1>16. ASSUME Restart PROVE TypeOK'
    BY <1>16 DEF Restart, Fault, IdleCheck, IdleClick, CheckState, At
<1>17. CASE UNCHANGED vars
    BY <1>17 DEF vars
<1>q. QED
    BY <1>1, <1>2, <1>3, <1>4, <1>4a, <1>5, <1>6, <1>7, <1>8, <1>9, <1>10, <1>11, <1>12, <1>13,
       <1>14, <1>15, <1>16, <1>17
    DEF Next, CheckStep, ServerTick, HTTPTick

\* Every variable of the alert pipeline has its type, in every instance.
THEOREM TypeCorrect == Spec => []TypeOK
<1>q. QED BY InitTypeOK, NextTypeOK, PTL DEF Spec

-----------------------------------------------------------------------------
(* Deduplication: DedupInv is inductive together with the types.           *)

LEMMA InitDedup == Init => DedupInv
<1> SUFFICES ASSUME Init PROVE DedupInv
    OBVIOUS
<1>1. Table = <<>>
    BY DEF Init, Table, Primary
<1>q. QED BY <1>1 DEF DedupInv, ChecksOwnTheirRows, OneActivePerCheck, NoneActiveBeforeCreate, Ids

\* A step that leaves the table alone and brings no goroutine to Create.
LEMMA SameTable ==
    ASSUME DedupInv, Table' = Table,
           \A c \in Checks : checks'[c].pc = "create" => checks'[c] = checks[c]
    PROVE  DedupInv'
<1>1. Ids' = Ids
    BY DEF Ids
<1>2. \A c \in Checks : checks'[c].pc = "create" => checks[c].pc = "create" /\ KeyOf(c)' = KeyOf(c)
    BY DEF KeyOf
<1>3. ChecksOwnTheirRows => ChecksOwnTheirRows'
    BY <1>1 DEF ChecksOwnTheirRows, TargetOf
<1>4. OneActivePerCheck => OneActivePerCheck'
    BY <1>1 DEF OneActivePerCheck
<1>5. NoneActiveBeforeCreate => NoneActiveBeforeCreate'
    BY <1>1, <1>2 DEF NoneActiveBeforeCreate
<1>q. QED BY <1>3, <1>4, <1>5 DEF DedupInv

\* A step after which every row has the key and the goroutine it had, and is
\* active only if it was.
LEMMA NoNewActive ==
    ASSUME DedupInv, UNCHANGED checks, Ids' = Ids,
           \A i \in Ids : Table'[i].key = Table[i].key,
           \A i \in Ids : Table'[i].check = Table[i].check,
           \A i \in Ids : Table'[i].state = "active" => Table[i].state = "active"
    PROVE  DedupInv'
<1>1. \A c \in Checks : KeyOf(c)' = KeyOf(c)
    BY DEF KeyOf
<1>2. ChecksOwnTheirRows => ChecksOwnTheirRows'
    BY DEF ChecksOwnTheirRows, TargetOf
<1>3. OneActivePerCheck => OneActivePerCheck'
    BY DEF OneActivePerCheck
<1>4. NoneActiveBeforeCreate => NoneActiveBeforeCreate'
    BY <1>1 DEF NoneActiveBeforeCreate
<1>q. QED BY <1>2, <1>3, <1>4 DEF DedupInv

\* An UPDATE that only closes alerts is such a step.
LEMMA ClosingRows ==
    ASSUME TypeOK, DedupInv, NEW ids, NEW s \in {"acked", "deleted"},
           Table' = WithState(Table, ids, s), UNCHANGED checks
    PROVE  DedupInv'
<1>1. Table \in Seq(Row)
    BY TableType
<1>2. /\ Len(Table') = Len(Table)
      /\ \A i \in 1..Len(Table) :
            Table'[i] = IF i \in ids THEN [Table[i] EXCEPT !.state = s] ELSE Table[i]
    BY <1>1, WithStateType
<1>3. Ids' = Ids
    BY <1>2 DEF Ids
<1>4. ASSUME NEW i \in Ids
      PROVE  /\ Table'[i].key = Table[i].key
             /\ Table'[i].check = Table[i].check
             /\ Table'[i].state = "active" => Table[i].state = "active"
    <2>1. Table[i] \in Row /\ i \in 1..Len(Table)
        BY <1>1 DEF Ids
    <2>q. QED BY <1>2, <2>1 DEF Row
<1>q. QED BY <1>3, <1>4, NoNewActive

\* Without a replica HasActive sees what the primary holds.
LEMMA QueryKeepsDedup ==
    ASSUME TypeOK, DedupInv, NEW c \in Checks, QueryActive(c)
    PROVE  DedupInv'
<1>1. Table' = Table
    BY DEF QueryActive, Table
<1>2. CASE HasActive(ReadPool(history, useReplica), KeyOf(c))
    <2>1. checks' = [checks EXCEPT ![c] = Resume(Tail(checks[c].todo))]
        BY <1>2 DEF QueryActive, NextFinding
    <2>2. Resume(Tail(checks[c].todo)).pc \in {"idle", "query"}
        BY DEF Resume, IdleCheck, At
    <2>q. QED BY <1>1, <2>1, <2>2, SameTable DEF TypeOK
<1>3. CASE ~HasActive(ReadPool(history, useReplica), KeyOf(c))
    <2>1. checks' = [checks EXCEPT ![c] = At("create", checks[c].todo, 0)]
        BY <1>3 DEF QueryActive
    <2>2. checks'[c].todo = checks[c].todo /\ \A d \in Checks : d # c => checks'[d] = checks[d]
        BY <2>1 DEF TypeOK, At
    <2>3. \A d \in Checks : KeyOf(d)' = KeyOf(d)
        BY <2>2 DEF KeyOf
    <2>4. Ids' = Ids
        BY <1>1 DEF Ids
    <2>5. ChecksOwnTheirRows'
        BY <1>1, <2>4 DEF DedupInv, ChecksOwnTheirRows, TargetOf
    <2>6. ASSUME ~ReplicaConfigured PROVE OneActivePerCheck' /\ NoneActiveBeforeCreate'
        <3>1. ReadPool(history, useReplica) = Table
            BY <2>6 DEF TypeOK, ConnectOutcomes, ReadPool, Table
        <3>2. \A i \in Ids : ~(Table[i].key = KeyOf(c) /\ Table[i].state = "active")
            BY <1>3, <3>1 DEF HasActive, ActiveIds, Ids
        <3>q. QED BY <1>1, <2>2, <2>3, <2>4, <2>6, <3>2
                 DEF DedupInv, OneActivePerCheck, NoneActiveBeforeCreate
    <2>q. QED BY <2>5, <2>6 DEF DedupInv
<1>q. QED BY <1>2, <1>3

\* The row inserted is the only active one of its key and goroutine.
LEMMA InsertKeepsDedup ==
    ASSUME TypeOK, DedupInv, NEW c \in Checks, checks[c].pc = "create", InsertAlert(c),
           checks'[c].pc # "create", \A d \in Checks : d # c => checks'[d] = checks[d]
    PROVE  DedupInv'
<1> DEFINE row == NewRow(c)
<1>1. row \in Row /\ Table \in Seq(Row) /\ Table' = Append(Table, row)
    BY InsertType, TableType
<1>2. row.key = KeyOf(c) /\ row.state = "active" /\ row.check = c
    BY DEF NewRow
<1> HIDE DEF row
<1>3. Ids' = Ids \cup {Len(Table) + 1} /\ Len(Table) + 1 \notin Ids
    BY <1>1 DEF Ids
<1>4. Table'[Len(Table) + 1] = row /\ \A i \in Ids : Table'[i] = Table[i]
    BY <1>1, AppendProperties DEF Ids
<1>5. \A d \in Checks : d # c => KeyOf(d)' = KeyOf(d)
    BY DEF KeyOf
<1>6. ChecksOwnTheirRows'
    BY <1>2, <1>3, <1>4 DEF DedupInv, ChecksOwnTheirRows, KeyOf, TargetOf
<1>7. ASSUME ~ReplicaConfigured PROVE OneActivePerCheck' /\ NoneActiveBeforeCreate'
    <2>1. OneActivePerCheck'
        BY <1>2, <1>3, <1>4, <1>7 DEF DedupInv, OneActivePerCheck, NoneActiveBeforeCreate
    <2>2. NoneActiveBeforeCreate'
        BY <1>2, <1>3, <1>4, <1>5, <1>7 DEF DedupInv, NoneActiveBeforeCreate
    <2>q. QED BY <2>1, <2>2
<1>q. QED BY <1>6, <1>7 DEF DedupInv

\* UPDATE ... WHERE id = $3 only closes alerts.
LEMMA MarkKeepsDedup ==
    ASSUME TypeOK, DedupInv, NEW id, MarkAcknowledged(id), UNCHANGED checks
    PROVE  DedupInv'
    BY MarkType, SameTable, ClosingRows

LEMMA NextDedup == TypeOK /\ DedupInv /\ [Next]_vars => DedupInv'
<1> SUFFICES ASSUME TypeOK, DedupInv, [Next]_vars PROVE DedupInv'
    OBVIOUS
<1>1. ASSUME NEW c \in Checks, NextFinding(c) PROVE
          \A d \in Checks : checks'[d].pc = "create" => checks'[d] = checks[d]
    BY <1>1 DEF NextFinding, Resume, IdleCheck, At, TypeOK
<1>2. ASSUME UNCHANGED <<history, checks>> PROVE DedupInv'
    BY <1>2, SameTable DEF Table
<1>3. ASSUME ReplicaCatchesUp PROVE DedupInv'
    <2>1. Table' = Table
        BY <1>3, ReplayType DEF ReplicaCatchesUp, Table, TypeOK
    <2>q. QED BY <1>3, <2>1, SameTable DEF ReplicaCatchesUp
<1>4. ASSUME NEW r \in Rounds, NEW targets, Tick(r, targets) PROVE DedupInv'
    <2>1. \A d \in Checks : checks'[d].pc = "create" => checks'[d] = checks[d]
        BY <1>4 DEF Tick, At
    <2>q. QED BY <1>4, <2>1, SameTable DEF Tick, Table
<1>5. ASSUME NEW c \in Checks, Collect(c) \/ WaitForEver(c) PROVE DedupInv'
    <2>1. \A d \in Checks : checks'[d].pc = "create" => checks'[d] = checks[d]
        BY <1>5 DEF Collect, WaitForEver, Resume, IdleCheck, At, TypeOK
    <2>q. QED BY <1>5, <2>1, SameTable DEF Collect, WaitForEver, Table
<1>6. ASSUME NEW c \in Checks, SkipPastBound(c) \/ SendAlert(c) PROVE DedupInv'
    BY <1>1, <1>6, SameTable DEF SkipPastBound, SendAlert, Table
<1>7. ASSUME NEW u \in Operators, Acknowledge(u) \/ AcknowledgeFailed(u) PROVE DedupInv'
    BY <1>2, <1>7, MarkKeepsDedup DEF Acknowledge, AcknowledgeFailed
<1>8. ASSUME CtlAcknowledge PROVE DedupInv'
    <2>1. PICK ids : history' = Commit(history, WithState(Table, ids, "acked"))
        BY <1>8 DEF CtlAcknowledge
    <2>2. WithState(Table, ids, "acked") \in Seq(Row)
        BY TableType, WithStateType
    <2>q. QED BY <1>8, <2>1, <2>2, CommitTable, ClosingRows DEF CtlAcknowledge
<1>9. ASSUME CtlCleanup PROVE DedupInv'
    <2>1. PICK n : history' = Commit(history, WithState(Table, 1..n, "deleted"))
        BY <1>9 DEF CtlCleanup
    <2>2. WithState(Table, 1..n, "deleted") \in Seq(Row)
        BY TableType, WithStateType
    <2>q. QED BY <1>9, <2>1, <2>2, CommitTable, ClosingRows DEF CtlCleanup
<1>10. ASSUME Restart PROVE DedupInv'
    <2>1. \A d \in Checks : checks'[d].pc # "create"
        BY <1>10 DEF Restart, IdleCheck, At
    <2>q. QED BY <1>10, <2>1, SameTable DEF Restart, Table
<1>11. ASSUME NEW t \in Targets, Fluctuate(t) PROVE DedupInv'
    BY <1>2, <1>11 DEF Fluctuate
<1>12. ASSUME ListAlerts PROVE DedupInv'
    BY <1>2, <1>12 DEF ListAlerts
<1>13. ASSUME NEW u \in Operators, Press(u) \/ EditCard(u) PROVE DedupInv'
    BY <1>2, <1>13 DEF Press, EditCard
<1>14. CASE UNCHANGED vars
    BY <1>2, <1>14 DEF vars
<1>15. ASSUME NEW c \in Checks, CreateAlert(c) PROVE DedupInv'
    <2>1. checks'[c].pc = "send" /\ \A d \in Checks : d # c => checks'[d] = checks[d]
        BY <1>15 DEF CreateAlert, At, TypeOK
    <2>q. QED BY <1>15, <2>1, InsertKeepsDedup DEF CreateAlert
<1>16. ASSUME NEW c \in Checks, FinishFailed(c) PROVE DedupInv'
    <2>1. NextFinding(c)
        BY <1>16 DEF FinishFailed
    <2>2. CASE history' = history
        BY <1>1, <2>1, <2>2, SameTable DEF Table
    <2>3. CASE checks[c].pc = "create" /\ InsertAlert(c)
        <3>1. checks'[c].pc \in {"idle", "query"} /\ \A d \in Checks : d # c => checks'[d] = checks[d]
            BY <2>1 DEF NextFinding, Resume, IdleCheck, At, TypeOK
        <3>q. QED BY <2>3, <3>1, InsertKeepsDedup
    <2>q. QED BY <1>16, <2>2, <2>3 DEF FinishFailed
<1>q. QED
    BY QueryKeepsDedup, <1>15, <1>16, <1>3, <1>4, <1>5, <1>6, <1>7, <1>8, <1>9, <1>10,
       <1>11, <1>12, <1>13, <1>14
    DEF Next, CheckStep, ServerTick, HTTPTick

\* Pigeonhole: the rounds of the goroutines behind the active alerts of one
\* key are all different.
LEMMA DedupBounds == TypeOK /\ DedupInv => OverlapBoundsDuplicates
<1> SUFFICES ASSUME TypeOK, DedupInv, ~ReplicaConfigured, NEW k \in Keys
             PROVE  Cardinality(ActiveIds(Table, k)) <= Cardinality(Rounds)
    BY DEF OverlapBoundsDuplicates
<1> DEFINE A == ActiveIds(Table, k)
           round == [i \in A |-> Table[i].check[1]]
<1>1. Table \in Seq(Row)
    BY TableType
<1>2. \A i \in A : i \in Ids /\ Table[i] \in Row /\ Table[i].key = k /\ Table[i].state = "active"
    BY <1>1 DEF ActiveIds, Ids
<1>3. \A i \in A : Table[i].check \in Rounds \X Targets /\ Table[i].check[2] = k[1]
    BY <1>2 DEF Row, Checks, DedupInv, ChecksOwnTheirRows, TargetOf
<1>4. round \in [A -> Rounds]
    BY <1>3
<1>5. ASSUME NEW i \in A, NEW j \in A, round[i] = round[j] PROVE i = j
    <2>1. Table[i].check = Table[j].check
        BY <1>3, <1>5
    <2>q. QED BY <1>2, <2>1 DEF DedupInv, OneActivePerCheck
<1>6. round \in Injection(A, Rounds)
    BY <1>4, <1>5 DEF Injection, IsInjective
<1>q. QED BY <1>6, FS_Injection, AlertsAssumption

\* Without a replica a key never has more active alerts than there are rounds
\* of checks that may overlap: one, if the checks of a round always end
\* before the next tick.
THEOREM DuplicatesBounded == Spec => []OverlapBoundsDuplicates
<1>1. Init => TypeOK /\ DedupInv
    BY InitTypeOK, InitDedup
<1>2. TypeOK /\ DedupInv /\ [Next]_vars => (TypeOK /\ DedupInv)'
    BY NextTypeOK, NextDedup
<1>q. QED BY <1>1, <1>2, DedupBounds, PTL DEF Spec

-----------------------------------------------------------------------------
(* What a step may do to the table, and who does it.                       *)

\* The rows with these ids are acknowledged, or deleted.
CloseRows(ids, s) == history' = Commit(history, WithState(Table, ids, s))

LEMMA StepShape ==
    ASSUME TypeOK, [Next]_vars
    PROVE  \/ UNCHANGED history
           \/ Lagging(history) /\ history' = Replay(history)
           \/ \E c \in Checks : checks[c].pc = "create" /\ InsertAlert(c)
           \/ \E ids : CloseRows(ids, "acked") \/ CloseRows(ids, "deleted")
<1>1. CASE UNCHANGED vars
    BY <1>1 DEF vars
<1>2. ASSUME NEW t \in Targets, Fluctuate(t) PROVE UNCHANGED history
    BY <1>2 DEF Fluctuate
<1>3. CASE ReplicaCatchesUp
    BY <1>3 DEF ReplicaCatchesUp
<1>4. ASSUME NEW r \in Rounds, ServerTick(r) \/ HTTPTick(r) PROVE UNCHANGED history
    BY <1>4 DEF ServerTick, HTTPTick, Tick
<1>5. ASSUME NEW c \in Checks, CheckStep(c) \/ FinishFailed(c)
      PROVE  UNCHANGED history \/ (checks[c].pc = "create" /\ InsertAlert(c))
    BY <1>5 DEF CheckStep, Collect, WaitForEver, QueryActive, CreateAlert, SkipPastBound, SendAlert, FinishFailed
<1>6. CASE ListAlerts
    BY <1>6 DEF ListAlerts
<1>7. ASSUME NEW u \in Operators, Press(u) \/ Acknowledge(u) \/ AcknowledgeFailed(u) \/ EditCard(u)
      PROVE  \/ UNCHANGED history
             \/ \E ids : CloseRows(ids, "acked")
  <2>1. CASE Press(u) \/ EditCard(u)
      BY <2>1 DEF Press, EditCard
  <2>2. ASSUME NEW id, MarkAcknowledged(id) PROVE UNCHANGED history \/ CloseRows({id}, "acked")
      BY <2>2 DEF MarkAcknowledged, CloseRows
  <2>3. UNCHANGED history \/ MarkAcknowledged(clicks[u].alert) \/ Press(u) \/ EditCard(u)
      BY <1>7 DEF Acknowledge, AcknowledgeFailed
  <2>q. QED BY <2>1, <2>2, <2>3
<1>8. ASSUME CtlAcknowledge PROVE \E ids : CloseRows(ids, "acked")
  <2>1. PICK ids : history' = Commit(history, WithState(Table, ids, "acked"))
      BY <1>8 DEF CtlAcknowledge
  <2>2. CloseRows(ids, "acked")
      BY <2>1 DEF CloseRows
  <2>q. QED BY <2>2
<1>9. ASSUME CtlCleanup PROVE \E ids : CloseRows(ids, "deleted")
  <2>1. PICK n : history' = Commit(history, WithState(Table, 1..n, "deleted"))
      BY <1>9 DEF CtlCleanup
  <2>2. CloseRows(1..n, "deleted")
      BY <2>1 DEF CloseRows
  <2>q. QED BY <2>2
<1>10. CASE Restart
    BY <1>10 DEF Restart
<1>q. QED
    BY <1>1, <1>2, <1>3, <1>4, <1>5, <1>6, <1>7, <1>8, <1>9, <1>10 DEF Next

\* A row keeps its key and the goroutine that inserted it, no row is lost,
\* and no alert becomes active again.
RowsKept ==
    /\ Len(Table') \in Nat /\ Len(Table) <= Len(Table')
    /\ \A i \in Ids : /\ Table'[i].key = Table[i].key
                      /\ Table'[i].check = Table[i].check
                      /\ Table'[i].state = "active" => Table[i].state = "active"

LEMMA SameRowsKept == TypeOK /\ Table' = Table => RowsKept
    BY TableType DEF RowsKept

LEMMA InsertRowsKept ==
    ASSUME TypeOK, NEW c \in Checks, checks[c].pc = "create", InsertAlert(c)
    PROVE  /\ RowsKept
           /\ Ids' = Ids \cup {Len(Table) + 1} /\ Len(Table) + 1 \notin Ids
           /\ Len(Table') = Len(Table) + 1
           /\ Table'[Len(Table) + 1] = NewRow(c)
           /\ \A i \in Ids : Table'[i] = Table[i]
<1>1. Table \in Seq(Row) /\ Table' = Append(Table, NewRow(c)) /\ NewRow(c) \in Row /\ Len(Table) \in Nat
    BY InsertType, TableType
<1>2. /\ Len(Table') = Len(Table) + 1
      /\ Table'[Len(Table) + 1] = NewRow(c)
      /\ \A i \in 1..Len(Table) : Table'[i] = Table[i]
    BY <1>1, AppendProperties
<1>q. QED BY <1>1, <1>2 DEF RowsKept, Ids

LEMMA CloseRowsKept ==
    ASSUME TypeOK, NEW ids, NEW s \in {"acked", "deleted"},
           CloseRows(ids, s)
    PROVE  /\ RowsKept
           /\ Table' = WithState(Table, ids, s)
           /\ Len(Table') = Len(Table) /\ Ids' = Ids
           /\ \A i \in Ids : Table'[i] = IF i \in ids THEN [Table[i] EXCEPT !.state = s] ELSE Table[i]
<1>1. Table \in Seq(Row) /\ Len(Table) \in Nat
    BY TableType
<1>2. /\ WithState(Table, ids, s) \in Seq(Row)
      /\ Len(WithState(Table, ids, s)) = Len(Table)
      /\ \A i \in 1..Len(Table) :
            WithState(Table, ids, s)[i] = IF i \in ids THEN [Table[i] EXCEPT !.state = s] ELSE Table[i]
    BY <1>1, WithStateType
<1>3. Table' = WithState(Table, ids, s)
    BY <1>2, CommitTable DEF CloseRows
<1>4. \A i \in Ids : Table[i] \in Row
    BY <1>1, ElementOfSeq DEF Ids
<1>5. ASSUME NEW i \in Ids
      PROVE  /\ Table'[i] = IF i \in ids THEN [Table[i] EXCEPT !.state = s] ELSE Table[i]
             /\ Table'[i].key = Table[i].key
             /\ Table'[i].check = Table[i].check
             /\ Table'[i].state = "active" => Table[i].state = "active"
    BY <1>2, <1>3, <1>4 DEF Row, Ids
<1>6. Len(Table') = Len(Table) /\ Ids' = Ids
    BY <1>2, <1>3 DEF Ids
<1>7. RowsKept
  <2>1. Len(Table') \in Nat /\ Len(Table) <= Len(Table')
      BY <1>1, <1>6
  <2>q. QED BY <1>5, <2>1, Zenon DEF RowsKept
<1>q. QED BY <1>3, <1>5, <1>6, <1>7

LEMMA NextRowsKept ==
    ASSUME TypeOK, [Next]_vars
    PROVE  RowsKept
<1>1. CASE UNCHANGED history
    BY <1>1, SameRowsKept DEF Table
<1>2. CASE Lagging(history) /\ history' = Replay(history)
    BY <1>2, SameRowsKept, ReplayType DEF TypeOK, Table
<1>q. QED BY <1>1, <1>2, InsertRowsKept, CloseRowsKept, StepShape

-----------------------------------------------------------------------------
(* Alerts nobody was told of: SilencedOnlyByFaults is inductive together   *)
(* with the types.                                                         *)

LEMMA SilencedFinite ==
    ASSUME TypeOK, NEW c
    PROVE  IsFiniteSet(Silenced(c)) /\ Cardinality(Silenced(c)) \in Nat
<1>1. PICK n \in Nat : n = Len(Table)
    BY TableType
<1>2. IsFiniteSet(1..n) /\ Silenced(c) \subseteq 1..n
    BY <1>1, FS_Interval DEF Silenced, Ids
<1>q. QED BY <1>2, FS_Subset, FS_CardinalityType

\* A step silences at most one more alert of a goroutine when the rows it
\* adds, and the notification it drops, are those of that alert.
LEMMA SilencedMoves ==
    ASSUME TypeOK, RowsKept, NEW c \in Checks, NEW x,
           announced \subseteq announced',
           \A i \in Ids' \ Ids : \/ i = x
                                 \/ Table'[i].check # c
                                 \/ checks'[c].pc = "send" /\ checks'[c].row = i,
           checks[c].pc = "send" =>
               \/ checks'[c] = checks[c]
               \/ checks[c].row = x
               \/ checks[c].row \in announced'
    PROVE  Silenced(c)' \subseteq Silenced(c) \cup {x}
<1> SUFFICES ASSUME NEW i \in Ids', Table'[i].check = c, i \notin announced',
                    ~(checks'[c].pc = "send" /\ checks'[c].row = i), i # x
             PROVE  i \in Silenced(c)
    BY DEF Silenced
<1>1. i \in Ids
    OBVIOUS
<1>2. Table[i].check = c
    BY <1>1 DEF RowsKept
<1>q. QED BY <1>1, <1>2 DEF Silenced

\* Such an alert takes a fault; x = 0 is no alert.
LEMMA SilencedCount ==
    ASSUME TypeOK, TypeOK', NEW c \in Checks, NEW x,
           Silenced(c)' \subseteq Silenced(c) \cup {x},
           (x = 0 /\ faults <= faults') \/ faults' = faults + 1,
           Cardinality(Silenced(c)) <= faults
    PROVE  Cardinality(Silenced(c)') <= faults'
<1> DEFINE S == Silenced(c)
           T == Silenced(c)'
<1>1. IsFiniteSet(S) /\ Cardinality(S) \in Nat
    BY SilencedFinite
<1>2. faults \in Nat /\ faults' \in Nat
    BY DEF TypeOK
<1>3. CASE x = 0 /\ faults <= faults'
    <2>1. 0 \notin T
        BY DEF Silenced, Ids
    <2>2. T \subseteq S
        BY <1>3, <2>1
    <2>3. Cardinality(T) <= Cardinality(S) /\ Cardinality(T) \in Nat
        BY <1>1, <2>2, FS_Subset, FS_CardinalityType
    <2>q. QED BY <1>1, <1>2, <1>3, <2>3
<1>4. CASE faults' = faults + 1
    <2>1. /\ IsFiniteSet(S \cup {x})
          /\ Cardinality(S \cup {x}) = IF x \in S THEN Cardinality(S) ELSE Cardinality(S) + 1
        BY <1>1, FS_AddElement
    <2>2. Cardinality(T) <= Cardinality(S \cup {x}) /\ Cardinality(T) \in Nat
        BY <2>1, FS_Subset, FS_CardinalityType
    <2> HIDE DEF S, T
    <2>3. Cardinality(T) <= Cardinality(S) + 1
        BY <1>1, <2>1, <2>2
    <2>4. Cardinality(S) <= faults
        BY DEF S
    <2>5. Cardinality(T) <= faults'
        BY <1>1, <1>2, <1>4, <2>2, <2>3, <2>4
    <2>q. QED BY <2>5 DEF T
<1>q. QED BY <1>3, <1>4

\* A step that leaves the table's length, the goroutines that are about to
\* send and the chat alone silences nothing.
LEMMA QuietSilencesNone ==
    ASSUME TypeOK, TypeOK', RowsKept, SilencedOnlyByFaults, Ids' = Ids,
           UNCHANGED announced, faults <= faults',
           \A c \in Checks : checks[c].pc = "send" => checks'[c] = checks[c]
    PROVE  SilencedOnlyByFaults'
<1> SUFFICES ASSUME ChatConfigured, NEW c \in Checks
             PROVE  Cardinality(Silenced(c)') <= faults'
    BY DEF SilencedOnlyByFaults
<1>1. Silenced(c)' \subseteq Silenced(c) \cup {0}
    BY SilencedMoves
<1>2. Cardinality(Silenced(c)) <= faults
    BY DEF SilencedOnlyByFaults
<1>q. QED BY <1>1, <1>2, SilencedCount

LEMMA NextSilenced ==
    ASSUME TypeOK, TypeOK', SilencedOnlyByFaults, [Next]_vars
    PROVE  SilencedOnlyByFaults'
<1>1. RowsKept
    BY NextRowsKept
<1>2. faults \in Nat /\ checks \in [Checks -> CheckState]
    BY DEF TypeOK
<1>3. ASSUME Ids' = Ids, UNCHANGED <<announced, checks>>, faults' = faults \/ Fault
      PROVE  SilencedOnlyByFaults'
  <2>1. faults <= faults'
      BY <1>2, <1>3 DEF Fault
  <2>2. \A c \in Checks : checks[c].pc = "send" => checks'[c] = checks[c]
      BY <1>3
  <2>q. QED BY <1>1, <1>3, <2>1, <2>2, QuietSilencesNone
<1>4. CASE UNCHANGED vars
    BY <1>3, <1>4 DEF vars, Ids, Table
<1>5. ASSUME NEW t \in Targets, Fluctuate(t) PROVE SilencedOnlyByFaults'
    BY <1>3, <1>5 DEF Fluctuate, Ids, Table
<1>6. ASSUME ReplicaCatchesUp PROVE SilencedOnlyByFaults'
  <2>1. Table' = Table
      BY <1>6, ReplayType DEF ReplicaCatchesUp, Table, TypeOK
  <2>q. QED BY <1>3, <1>6, <2>1 DEF ReplicaCatchesUp, Ids
<1>7. ASSUME NEW r \in Rounds, NEW targets, Tick(r, targets) PROVE SilencedOnlyByFaults'
  <2>1. UNCHANGED <<history, announced, faults>> /\ Ids' = Ids
      BY <1>7 DEF Tick, Ids, Table
  <2>2. ASSUME NEW c \in Checks, checks[c].pc = "send" PROVE checks'[c] = checks[c]
    <3>1. ~(c[1] = r /\ c[2] \in targets)
        BY <1>7, <2>2 DEF Tick, Checks
    <3>q. QED BY <1>7, <3>1 DEF Tick
  <2>3. faults <= faults'
      BY <1>2, <2>1
  <2>q. QED BY <1>1, <2>1, <2>2, <2>3, QuietSilencesNone
<1>8. ASSUME NEW c \in Checks, Collect(c) \/ WaitForEver(c) \/ QueryActive(c) \/ SkipPastBound(c)
      PROVE  SilencedOnlyByFaults'
  <2>1. UNCHANGED <<history, announced, faults>> /\ Ids' = Ids
      BY <1>8 DEF Collect, WaitForEver, QueryActive, SkipPastBound, Ids, Table
  <2>2. checks[c].pc # "send"
      BY <1>8 DEF Collect, WaitForEver, QueryActive, SkipPastBound
  <2>3. \A d \in Checks : d # c => checks'[d] = checks[d]
      BY <1>2, <1>8 DEF Collect, WaitForEver, QueryActive, SkipPastBound, NextFinding
  <2>4. faults <= faults'
      BY <1>2, <2>1
  <2>q. QED BY <1>1, <2>1, <2>2, <2>3, <2>4, QuietSilencesNone
<1>9. ASSUME NEW c \in Checks, CreateAlert(c) PROVE SilencedOnlyByFaults'
  <2>1. /\ checks[c].pc = "create" /\ InsertAlert(c)
        /\ checks' = [checks EXCEPT ![c] = At("send", checks[c].todo, Len(Table) + 1)]
        /\ UNCHANGED <<announced, faults>>
      BY <1>9 DEF CreateAlert
  <2>2. /\ Ids' = Ids \cup {Len(Table) + 1}
        /\ Table'[Len(Table) + 1] = NewRow(c)
      BY <2>1, InsertRowsKept
  <2>3. /\ checks'[c].pc = "send" /\ checks'[c].row = Len(Table) + 1
        /\ \A d \in Checks : d # c => checks'[d] = checks[d]
      BY <1>2, <2>1 DEF At
  <2>4. NewRow(c).check = c
      BY DEF NewRow
  <2> SUFFICES ASSUME ChatConfigured, NEW d \in Checks
               PROVE  Cardinality(Silenced(d)') <= faults'
      BY DEF SilencedOnlyByFaults
  <2>5. \A i \in Ids' \ Ids : \/ i = 0
                              \/ Table'[i].check # d
                              \/ checks'[d].pc = "send" /\ checks'[d].row = i
      BY <2>2, <2>3, <2>4
  <2>6. checks[d].pc = "send" => checks'[d] = checks[d]
      BY <2>1, <2>3
  <2>7. Silenced(d)' \subseteq Silenced(d) \cup {0}
      BY <1>1, <2>1, <2>5, <2>6, SilencedMoves
  <2>8. Cardinality(Silenced(d)) <= faults /\ faults <= faults'
      BY <1>2, <2>1 DEF SilencedOnlyByFaults
  <2>q. QED BY <2>7, <2>8, SilencedCount
<1>10. ASSUME NEW c \in Checks, SendAlert(c) PROVE SilencedOnlyByFaults'
  <2>1. /\ checks[c].pc = "send" /\ NextFinding(c)
        /\ announced' = IF ChatConfigured THEN announced \cup {checks[c].row} ELSE announced
        /\ UNCHANGED <<history, faults>> /\ Ids' = Ids
      BY <1>10 DEF SendAlert, Ids, Table
  <2>2. \A d \in Checks : d # c => checks'[d] = checks[d]
      BY <1>2, <2>1 DEF NextFinding
  <2> SUFFICES ASSUME ChatConfigured, NEW d \in Checks
               PROVE  Cardinality(Silenced(d)') <= faults'
      BY DEF SilencedOnlyByFaults
  <2>3. announced \subseteq announced' /\ checks[c].row \in announced'
      BY <2>1
  <2>4. checks[d].pc = "send" => checks'[d] = checks[d] \/ checks[d].row \in announced'
      BY <2>2, <2>3
  <2>5. Silenced(d)' \subseteq Silenced(d) \cup {0}
      BY <1>1, <2>1, <2>3, <2>4, SilencedMoves
  <2>6. Cardinality(Silenced(d)) <= faults /\ faults <= faults'
      BY <1>2, <2>1 DEF SilencedOnlyByFaults
  <2>q. QED BY <2>5, <2>6, SilencedCount
<1>11. ASSUME NEW c \in Checks, FinishFailed(c) PROVE SilencedOnlyByFaults'
  <2>1. /\ faults' = faults + 1 /\ NextFinding(c)
        /\ announced \subseteq announced'
        /\ \/ checks[c].pc = "create" /\ InsertAlert(c)
           \/ UNCHANGED history
      BY <1>11 DEF FinishFailed, Fault
  <2>2. \A d \in Checks : d # c => checks'[d] = checks[d]
      BY <1>2, <2>1 DEF NextFinding
  <2> SUFFICES ASSUME ChatConfigured, NEW d \in Checks
               PROVE  Cardinality(Silenced(d)') <= faults'
      BY DEF SilencedOnlyByFaults
  <2>3. Cardinality(Silenced(d)) <= faults
      BY DEF SilencedOnlyByFaults
  <2>4. CASE checks[c].pc = "create" /\ InsertAlert(c)
    <3>1. PICK x : x = Len(Table) + 1
        OBVIOUS
    <3>2. Ids' = Ids \cup {x}
        BY <2>4, <3>1, InsertRowsKept
    <3>3. checks[d].pc = "send" => checks'[d] = checks[d]
        BY <2>2, <2>4
    <3>4. Silenced(d)' \subseteq Silenced(d) \cup {x}
        BY <1>1, <2>1, <3>2, <3>3, SilencedMoves
    <3>q. QED BY <2>1, <2>3, <3>4, SilencedCount
  <2>5. CASE UNCHANGED history
    <3>1. PICK x : x = checks[d].row
        OBVIOUS
    <3>2. Ids' = Ids
        BY <2>5 DEF Ids, Table
    <3>3. Silenced(d)' \subseteq Silenced(d) \cup {x}
        BY <1>1, <2>1, <3>1, <3>2, SilencedMoves
    <3>q. QED BY <2>1, <2>3, <3>3, SilencedCount
  <2>q. QED BY <2>1, <2>4, <2>5
<1>12. ASSUME ListAlerts PROVE SilencedOnlyByFaults'
    BY <1>3, <1>12 DEF ListAlerts, Ids, Table
<1>13. ASSUME NEW id, history' = history \/ MarkAcknowledged(id) PROVE Ids' = Ids
  <2>1. MarkAcknowledged(id) => history' = history \/ CloseRows({id}, "acked")
      BY DEF MarkAcknowledged, CloseRows
  <2>q. QED BY <1>13, <2>1, CloseRowsKept DEF Ids, Table
<1>14. ASSUME NEW u \in Operators, Press(u) \/ Acknowledge(u) \/ AcknowledgeFailed(u) \/ EditCard(u)
       PROVE  SilencedOnlyByFaults'
  <2>1. /\ UNCHANGED <<announced, checks>>
        /\ faults' = faults \/ Fault
        /\ history' = history \/ MarkAcknowledged(clicks[u].alert)
      BY <1>14 DEF Press, Acknowledge, AcknowledgeFailed, EditCard
  <2>q. QED BY <1>3, <1>13, <2>1
<1>15. ASSUME CtlAcknowledge PROVE SilencedOnlyByFaults'
  <2>1. PICK ids : history' = Commit(history, WithState(Table, ids, "acked"))
      BY <1>15 DEF CtlAcknowledge
  <2>2. Ids' = Ids
      BY <2>1, CloseRowsKept DEF CloseRows
  <2>q. QED BY <1>3, <1>15, <2>2 DEF CtlAcknowledge
<1>16. ASSUME CtlCleanup PROVE SilencedOnlyByFaults'
  <2>1. PICK n : history' = Commit(history, WithState(Table, 1..n, "deleted"))
      BY <1>16 DEF CtlCleanup
  <2>2. CloseRows(1..n, "deleted")
      BY <2>1 DEF CloseRows
  <2>3. Ids' = Ids
      BY <2>2, CloseRowsKept
  <2>q. QED BY <1>3, <1>16, <2>3 DEF CtlCleanup
<1>17. ASSUME Restart PROVE SilencedOnlyByFaults'
  <2>1. UNCHANGED <<history, announced>> /\ faults' = faults + 1 /\ Ids' = Ids
      BY <1>17 DEF Restart, Fault, Ids, Table
  <2> SUFFICES ASSUME ChatConfigured, NEW d \in Checks
               PROVE  Cardinality(Silenced(d)') <= faults'
      BY DEF SilencedOnlyByFaults
  <2>2. PICK x : x = checks[d].row
      OBVIOUS
  <2>3. Silenced(d)' \subseteq Silenced(d) \cup {x}
      BY <1>1, <2>1, <2>2, SilencedMoves
  <2>4. Cardinality(Silenced(d)) <= faults
      BY DEF SilencedOnlyByFaults
  <2>q. QED BY <2>1, <2>3, <2>4, SilencedCount
<1>q. QED
    BY <1>4, <1>5, <1>6, <1>7, <1>8, <1>9, <1>10, <1>11, <1>12, <1>14, <1>15, <1>16, <1>17
    DEF Next, CheckStep, ServerTick, HTTPTick

\* Only a failed call or a restart between the INSERT and the notification
\* leaves an alert nobody was told of, and each leaves at most one per
\* goroutine, whatever checks, clicks and clean-ups run at the same time.
THEOREM SilenceTakesAFault == Spec => []SilencedOnlyByFaults
<1>1. Init => SilencedOnlyByFaults
  <2> SUFFICES ASSUME Init, NEW c \in Checks PROVE Cardinality(Silenced(c)) <= faults
      BY DEF SilencedOnlyByFaults
  <2>1. Silenced(c) = {}
      BY DEF Init, Silenced, Ids, Table, Primary
  <2>q. QED BY <2>1, FS_EmptySet DEF Init
<1>q. QED BY <1>1, TypeCorrect, NextSilenced, PTL DEF Spec

-----------------------------------------------------------------------------
(* What goroutines, cards and clicks point at.                             *)

\* No reader sees more rows than the primary holds; a goroutine that is about
\* to send has a row; a card and a click name a row; and the UPDATE of a
\* click that is about to remove its button has closed the alert for good.
VersionsOK == \A i \in 1..Len(history) : Len(history[i]) <= Len(Table)
SendsOK == \A c \in Checks : checks[c].pc = "send" => checks[c].row \in Ids
CardsOK == \A card \in cards : card.alert \in Ids
ClicksOK ==
    \A u \in Operators : /\ clicks[u].pc # "idle" => clicks[u].alert \in Ids
                         /\ clicks[u].pc = "edit" => Table[clicks[u].alert].state # "active"

PointersInv == VersionsOK /\ SendsOK /\ CardsOK /\ ClicksOK

LEMMA InitPointers == Init => PointersInv
<1> SUFFICES ASSUME Init PROVE PointersInv
    OBVIOUS
<1>1. history = << <<>> >> /\ Table = <<>>
    BY DEF Init, Table, Primary
<1>2. VersionsOK
    BY <1>1 DEF VersionsOK
<1>3. SendsOK /\ CardsOK /\ ClicksOK
    BY DEF Init, SendsOK, CardsOK, ClicksOK, IdleCheck, IdleClick, At
<1>q. QED BY <1>2, <1>3 DEF PointersInv

LEMMA IdsGrow == RowsKept /\ TypeOK => Ids \subseteq Ids'
<1> SUFFICES ASSUME RowsKept, TypeOK PROVE Ids \subseteq Ids'
    OBVIOUS
<1>1. Len(Table) \in Nat /\ Len(Table') \in Nat /\ Len(Table) <= Len(Table')
    BY TableType DEF RowsKept
<1>q. QED BY <1>1 DEF Ids

LEMMA CommitVersionsOK ==
    ASSUME TypeOK, VersionsOK, RowsKept, NEW t \in Seq(Row), history' = Commit(history, t)
    PROVE  VersionsOK'
<1> SUFFICES ASSUME NEW i \in 1..Len(history') PROVE Len(history'[i]) <= Len(Table')
    BY DEF VersionsOK
<1>1. Table' = t /\ Len(Table') \in Nat /\ Len(Table) <= Len(Table') /\ Len(Table) \in Nat
    BY CommitTable, TableType DEF RowsKept
<1>2. history \in Seq(Seq(Row)) /\ Len(history) > 0
    BY DEF TypeOK
<1>3. history'[i] = t \/ (i \in 1..Len(history) /\ history'[i] = history[i])
    BY <1>2, CommitVersions
<1>4. CASE history'[i] = t
    BY <1>1, <1>4
<1>5. CASE i \in 1..Len(history) /\ history'[i] = history[i]
  <2>1. Len(history[i]) <= Len(Table)
      BY <1>5 DEF VersionsOK
  <2>2. Len(history[i]) \in Nat
      BY <1>2, <1>5, ElementOfSeq, LenProperties
  <2>q. QED BY <1>1, <1>5, <2>1, <2>2
<1>q. QED BY <1>3, <1>4, <1>5

LEMMA NextVersions ==
    ASSUME TypeOK, VersionsOK, [Next]_vars
    PROVE  VersionsOK'
<1>1. CASE UNCHANGED history
    BY <1>1 DEF VersionsOK, Table
<1>2. CASE Lagging(history) /\ history' = Replay(history)
  <2>1. /\ Table' = Table
        /\ \A i \in 1..Len(history') : i + 1 \in 1..Len(history) /\ history'[i] = history[i + 1]
      BY <1>2, ReplayType DEF TypeOK, Table
  <2>q. QED BY <2>1 DEF VersionsOK
<1>3. ASSUME NEW c \in Checks, checks[c].pc = "create", InsertAlert(c) PROVE VersionsOK'
  <2>1. NewRow(c) \in Row /\ Table \in Seq(Row)
      BY <1>3, InsertType, TableType
  <2>2. Append(Table, NewRow(c)) \in Seq(Row)
      BY <2>1, AppendProperties
  <2>3. history' = Commit(history, Append(Table, NewRow(c)))
      BY <1>3 DEF InsertAlert, NewRow
  <2>q. QED BY <2>2, <2>3, NextRowsKept, CommitVersionsOK
<1>4. ASSUME NEW ids, NEW s \in {"acked", "deleted"}, CloseRows(ids, s) PROVE VersionsOK'
  <2>1. WithState(Table, ids, s) \in Seq(Row)
      BY TableType, WithStateType
  <2>q. QED BY <1>4, <2>1, NextRowsKept, CommitVersionsOK DEF CloseRows
<1>q. QED BY <1>1, <1>2, <1>3, <1>4, StepShape

LEMMA NextSends ==
    ASSUME TypeOK, SendsOK, [Next]_vars
    PROVE  SendsOK'
<1>1. RowsKept /\ Ids \subseteq Ids'
    BY NextRowsKept, IdsGrow
<1>2. checks \in [Checks -> CheckState]
    BY DEF TypeOK
<1>3. ASSUME \A c \in Checks : checks'[c].pc = "send" => checks'[c] = checks[c]
      PROVE  SendsOK'
    BY <1>1, <1>3 DEF SendsOK
<1>4. CASE UNCHANGED checks
    BY <1>3, <1>4
<1>5. ASSUME NEW r \in Rounds, NEW targets, Tick(r, targets) PROVE SendsOK'
    BY <1>3, <1>5 DEF Tick, At
<1>6. ASSUME NEW c \in Checks, NextFinding(c) PROVE SendsOK'
    BY <1>2, <1>3, <1>6 DEF NextFinding, Resume, IdleCheck, At
<1>7. ASSUME NEW c \in Checks, Collect(c) \/ WaitForEver(c) PROVE SendsOK'
    BY <1>2, <1>3, <1>7 DEF Collect, WaitForEver, Resume, IdleCheck, At
<1>8. ASSUME NEW c \in Checks, QueryActive(c) PROVE SendsOK'
  <2>1. CASE checks' = [checks EXCEPT ![c] = At("create", checks[c].todo, 0)]
      BY <1>2, <1>3, <2>1 DEF At
  <2>q. QED BY <1>6, <1>8, <2>1 DEF QueryActive
<1>9. ASSUME NEW c \in Checks, CreateAlert(c) PROVE SendsOK'
  <2>1. checks' = [checks EXCEPT ![c] = At("send", checks[c].todo, Len(Table) + 1)]
      BY <1>9 DEF CreateAlert
  <2>2. Len(Table) + 1 \in Ids'
      BY <1>9, InsertRowsKept DEF CreateAlert
  <2>3. /\ checks'[c].row = Len(Table) + 1
        /\ \A d \in Checks : d # c => checks'[d] = checks[d]
      BY <1>2, <2>1 DEF At
  <2>q. QED BY <1>1, <2>2, <2>3 DEF SendsOK
<1>10. ASSUME Restart PROVE SendsOK'
    BY <1>10 DEF Restart, SendsOK, IdleCheck, At
<1>11. ASSUME NEW u \in Operators, Press(u) \/ Acknowledge(u) \/ AcknowledgeFailed(u) \/ EditCard(u)
       PROVE  UNCHANGED checks
    BY <1>11 DEF Press, Acknowledge, AcknowledgeFailed, EditCard
<1>12. ASSUME NEW c \in Checks, SkipPastBound(c) \/ SendAlert(c) \/ FinishFailed(c) PROVE NextFinding(c)
    BY <1>12 DEF SkipPastBound, SendAlert, FinishFailed
<1>13. ASSUME (\E t \in Targets : Fluctuate(t)) \/ ReplicaCatchesUp \/ ListAlerts \/ CtlAcknowledge
              \/ CtlCleanup \/ UNCHANGED vars
       PROVE  UNCHANGED checks
    BY <1>13 DEF Fluctuate, ReplicaCatchesUp, ListAlerts, CtlAcknowledge, CtlCleanup, vars
<1>q. QED
    BY <1>4, <1>5, <1>6, <1>7, <1>8, <1>9, <1>10, <1>11, <1>12, <1>13
    DEF Next, CheckStep, ServerTick, HTTPTick

\* A list of alerts names rows its reader was shown.
LEMMA ListedRows ==
    ASSUME TypeOK, VersionsOK, NEW i \in 1..Len(ReadPool(history, useReplica))
    PROVE  i \in Ids
<1>1. history \in Seq(Seq(Row)) /\ Len(history) > 0 /\ useReplica \in ConnectOutcomes
    BY DEF TypeOK
<1>2. useReplica \in BOOLEAN
    BY <1>1 DEF ConnectOutcomes
<1>3. PICK v \in 1..Len(history) : ReadPool(history, useReplica) = history[v]
    BY <1>1, <1>2, ReadPoolType
<1>4. Len(history[v]) <= Len(Table) /\ Len(history[v]) \in Nat /\ Len(Table) \in Nat
    BY <1>1, ElementOfSeq, LenProperties, TableType DEF VersionsOK
<1>q. QED BY <1>3, <1>4 DEF Ids

\* Only HandleAck's edit takes a button away.
LEMMA CardsMove ==
    ASSUME [Next]_vars
    PROVE  \/ UNCHANGED cards
           \/ ListAlerts
           \/ \E u \in Operators :
                 EditCard(u) /\ cards' = cards \ {[alert |-> clicks[u].alert, list |-> clicks[u].list]}
<1>1. ASSUME (\E t \in Targets : Fluctuate(t)) \/ ReplicaCatchesUp \/ CtlAcknowledge \/ CtlCleanup
             \/ Restart \/ UNCHANGED vars
      PROVE  UNCHANGED cards
    BY <1>1 DEF Fluctuate, ReplicaCatchesUp, CtlAcknowledge, CtlCleanup, Restart, vars
<1>2. ASSUME NEW r \in Rounds, ServerTick(r) \/ HTTPTick(r) PROVE UNCHANGED cards
    BY <1>2 DEF ServerTick, HTTPTick, Tick
<1>3. ASSUME NEW c \in Checks, CheckStep(c) \/ FinishFailed(c) PROVE UNCHANGED cards
    BY <1>3 DEF CheckStep, Collect, WaitForEver, QueryActive, CreateAlert, SkipPastBound, SendAlert, FinishFailed
<1>4. ASSUME NEW u \in Operators, Press(u) \/ Acknowledge(u) \/ AcknowledgeFailed(u)
      PROVE  UNCHANGED cards
    BY <1>4 DEF Press, Acknowledge, AcknowledgeFailed
<1>5. ASSUME NEW u \in Operators, EditCard(u)
      PROVE  \/ UNCHANGED cards
             \/ cards' = cards \ {[alert |-> clicks[u].alert, list |-> clicks[u].list]}
    BY <1>5 DEF EditCard
<1>q. QED BY <1>1, <1>2, <1>3, <1>4, <1>5 DEF Next

LEMMA NextCards ==
    ASSUME TypeOK, VersionsOK, CardsOK, [Next]_vars
    PROVE  CardsOK'
<1>1. Ids \subseteq Ids'
    BY NextRowsKept, IdsGrow
<1>2. CASE cards' \subseteq cards
    BY <1>1, <1>2 DEF CardsOK
<1>3. CASE ListAlerts
  <2>1. \A card \in cards' : card \in cards \/ card.alert \in 1..Len(ReadPool(history, useReplica))
      BY <1>3 DEF ListAlerts
  <2>q. QED BY <1>1, <2>1, ListedRows DEF CardsOK
<1>q. QED BY <1>2, <1>3, CardsMove

LEMMA NextClicks ==
    ASSUME TypeOK, CardsOK, ClicksOK, [Next]_vars
    PROVE  ClicksOK'
<1>1. RowsKept /\ Ids \subseteq Ids'
    BY NextRowsKept, IdsGrow
<1>2. clicks \in [Operators -> [pc : {"idle", "ack", "edit"}, alert : Nat, list : Nat]]
    BY DEF TypeOK
<1>3. ASSUME NEW u \in Operators, clicks'[u] = clicks[u]
      PROVE  /\ clicks'[u].pc # "idle" => clicks'[u].alert \in Ids'
             /\ clicks'[u].pc = "edit" => Table'[clicks'[u].alert].state # "active"
  <2>1. clicks[u].pc # "idle" => clicks[u].alert \in Ids
      BY DEF ClicksOK
  <2>2. clicks[u].pc = "edit" => Table[clicks[u].alert].state # "active"
      BY DEF ClicksOK
  <2>q. QED BY <1>1, <1>3, <2>1, <2>2 DEF RowsKept
<1>4. CASE UNCHANGED clicks
    BY <1>3, <1>4 DEF ClicksOK
<1>5. ASSUME NEW u \in Operators, clicks' = [clicks EXCEPT ![u] = IdleClick] PROVE ClicksOK'
  <2>1. clicks'[u].pc = "idle" /\ \A v \in Operators : v # u => clicks'[v] = clicks[v]
      BY <1>2, <1>5 DEF IdleClick
  <2>q. QED BY <1>3, <2>1 DEF ClicksOK
<1>6. ASSUME NEW u \in Operators, Press(u) PROVE ClicksOK'
  <2>1. PICK card \in cards :
            clicks' = [clicks EXCEPT ![u] = [pc |-> "ack", alert |-> card.alert, list |-> card.list]]
      BY <1>6 DEF Press
  <2>2. /\ clicks'[u].pc = "ack" /\ clicks'[u].alert = card.alert
        /\ \A v \in Operators : v # u => clicks'[v] = clicks[v]
      BY <1>2, <2>1
  <2>3. clicks'[u].alert \in Ids'
      BY <1>1, <2>2 DEF CardsOK
  <2>q. QED BY <1>3, <2>2, <2>3 DEF ClicksOK
<1>7. ASSUME NEW u \in Operators, Acknowledge(u) PROVE ClicksOK'
  <2>1. PICK id : id = clicks[u].alert
      OBVIOUS
  <2>2. /\ clicks[u].pc = "ack" /\ MarkAcknowledged(id)
        /\ clicks' = [clicks EXCEPT ![u].pc = "edit"]
      BY <1>7, <2>1 DEF Acknowledge
  <2>3. /\ clicks'[u].alert = id /\ \A v \in Operators : v # u => clicks'[v] = clicks[v]
      BY <1>2, <2>1, <2>2
  <2>4. id \in Ids
      BY <2>1, <2>2 DEF ClicksOK
  <2>5. Table'[id].state # "active"
    <3>1. CASE Table[id].state = "deleted"
      <4>1. Table' = Table
          BY <2>2, <3>1 DEF MarkAcknowledged, Table
      <4>q. QED BY <3>1, <4>1
    <3>2. CASE Table[id].state # "deleted"
      <4>1. CloseRows({id}, "acked")
          BY <2>2, <3>2 DEF MarkAcknowledged, CloseRows
      <4>2. Table'[id] = [Table[id] EXCEPT !.state = "acked"]
          BY <2>4, <4>1, CloseRowsKept
      <4>3. Table[id] \in Row
          BY <2>4, TableType, ElementOfSeq DEF Ids
      <4>q. QED BY <4>2, <4>3 DEF Row
    <3>q. QED BY <3>1, <3>2
  <2>q. QED BY <1>1, <1>3, <2>3, <2>4, <2>5 DEF ClicksOK
<1>8. ASSUME NEW u \in Operators, AcknowledgeFailed(u) \/ EditCard(u) PROVE ClicksOK'
    BY <1>5, <1>8 DEF AcknowledgeFailed, EditCard
<1>9. CASE Restart
    BY <1>9 DEF Restart, ClicksOK, IdleClick
<1>10. ASSUME (\E t \in Targets : Fluctuate(t)) \/ ReplicaCatchesUp \/ ListAlerts \/ CtlAcknowledge
              \/ CtlCleanup \/ UNCHANGED vars
       PROVE  UNCHANGED clicks
    BY <1>10 DEF Fluctuate, ReplicaCatchesUp, ListAlerts, CtlAcknowledge, CtlCleanup, vars
<1>11. ASSUME NEW r \in Rounds, ServerTick(r) \/ HTTPTick(r) PROVE UNCHANGED clicks
    BY <1>11 DEF ServerTick, HTTPTick, Tick
<1>12. ASSUME NEW c \in Checks, CheckStep(c) \/ FinishFailed(c) PROVE UNCHANGED clicks
    BY <1>12 DEF CheckStep, Collect, WaitForEver, QueryActive, CreateAlert, SkipPastBound, SendAlert, FinishFailed
<1>q. QED
    BY <1>4, <1>6, <1>7, <1>8, <1>9, <1>10, <1>11, <1>12 DEF Next

LEMMA PointersAlways == Spec => [](TypeOK /\ PointersInv)
<1>1. Init => TypeOK /\ PointersInv
    BY InitTypeOK, InitPointers
<1>2. (TypeOK /\ PointersInv) /\ [Next]_vars => (TypeOK /\ PointersInv)'
    BY NextTypeOK, NextVersions, NextSends, NextCards, NextClicks DEF PointersInv
<1>q. QED BY <1>1, <1>2, PTL DEF Spec

\* However clicks on different lists, failed UPDATEs, acknowledgements and
\* clean-ups from tgops-ctl interleave, the button of an alert that is still
\* active stays.
THEOREM ButtonsStay == Spec => ButtonOutlivesActiveAlert
<1>1. ASSUME TypeOK, PointersInv, [Next]_vars PROVE RemovesIdleButtons
  <2>1. CASE cards \subseteq cards'
      BY <2>1 DEF RemovesIdleButtons
  <2>2. CASE ListAlerts
      BY <2>2 DEF ListAlerts, RemovesIdleButtons
  <2>3. ASSUME NEW u \in Operators, EditCard(u),
               cards' = cards \ {[alert |-> clicks[u].alert, list |-> clicks[u].list]}
        PROVE  RemovesIdleButtons
    <3>1. Table[clicks[u].alert].state # "active"
        BY <1>1, <2>3 DEF EditCard, PointersInv, ClicksOK
    <3>q. QED BY <2>3, <3>1 DEF RemovesIdleButtons
  <2>q. QED BY <1>1, <2>1, <2>2, <2>3, CardsMove
<1>2. (TypeOK /\ PointersInv) /\ [Next]_vars => [RemovesIdleButtons]_vars
    BY <1>1
<1>q. QED BY <1>2, PointersAlways, PTL DEF Spec, ButtonOutlivesActiveAlert

-----------------------------------------------------------------------------
(* The pipeline implements the ledger of AlertLedger, when reads see the   *)
(* primary.                                                                *)

Entry == [key : Keys, state : {"open", "closed"}]

\* The entry of a row.
EntryOf(row) == [key |-> row.key, state |-> IF row.state = "active" THEN "open" ELSE "closed"]

\* The ledger has an entry per row, open while the row is active.
LEMMA EntriesType ==
    ASSUME TypeOK
    PROVE  /\ Entries \in Seq(Entry) /\ Len(Entries) = Len(Table) /\ Len(Table) \in Nat
           /\ \A i \in Ids : Entries[i] = EntryOf(Table[i])
<1>1. Table \in Seq(Row) /\ Len(Table) \in Nat
    BY TableType
<1>2. \A i \in Ids : Table[i] \in Row
    BY <1>1, ElementOfSeq DEF Ids
<1>3. \A i \in Ids : EntryOf(Table[i]) \in Entry
    BY <1>2 DEF Row, Entry, EntryOf
<1>4. Entries \in [1..Len(Table) -> Entry]
    BY <1>3 DEF Entries, EntryOf, Ids
<1>q. QED BY <1>1, <1>4 DEF Entries, EntryOf, Ids

EntriesOK == Entries \in Seq(Entry) /\ Len(Entries) = Len(Table)

LEMMA EntriesTyped == TypeOK => EntriesOK
    BY EntriesType DEF EntriesOK

LEMMA OpenAreActive ==
    ASSUME TypeOK, NEW k
    PROVE  Ledger!OpenIds(k) = ActiveIds(Table, k)
<1>1. Len(Entries) = Len(Table)
    BY EntriesType
<1>2. ASSUME NEW i \in Ids
      PROVE  Entries[i].key = Table[i].key /\ (Entries[i].state = "open" <=> Table[i].state = "active")
  <2>1. Entries[i] = EntryOf(Table[i])
      BY EntriesType
  <2>2. CASE Table[i].state = "active"
      BY <2>1, <2>2 DEF EntryOf
  <2>3. CASE Table[i].state # "active"
      BY <2>1, <2>3 DEF EntryOf
  <2>q. QED BY <2>2, <2>3
<1>q. QED BY <1>1, <1>2 DEF Ledger!OpenIds, ActiveIds, Ids

\* Without a replica a row is inserted only when fewer alerts of its key are
\* active than rounds may overlap: the invariant of deduplication after the
\* step says so.
LEMMA InsertRaises ==
    ASSUME TypeOK, TypeOK', DedupInv',
           NEW c \in Checks, checks[c].pc = "create", InsertAlert(c), UNCHANGED announced
    PROVE  Ledger!LedgerNext
<1> DEFINE n == Len(Table) + 1
           key == KeyOf(c)
<1>1. /\ Ids' = Ids \cup {n} /\ n \notin Ids /\ Len(Table') = n
      /\ Table'[n] = NewRow(c)
      /\ \A i \in Ids : Table'[i] = Table[i]
    BY InsertRowsKept
<1>2. key \in Keys
    BY FindingInHand
<1>3. NewRow(c).key = key /\ NewRow(c).state = "active"
    BY DEF NewRow
<1>4. ASSUME ~ReplicaConfigured
      PROVE  Cardinality(Ledger!OpenIds(key)) < Cardinality(Rounds)
  <2> DEFINE A == ActiveIds(Table, key)
             B == ActiveIds(Table', key)
  <2>1. Ledger!OpenIds(key) = A
      BY OpenAreActive
  <2>2. B = A \cup {n} /\ n \notin A
      BY <1>1, <1>3 DEF ActiveIds, Ids
  <2>3. IsFiniteSet(A) /\ Cardinality(A) \in Nat
    <3>1. PICK m \in Nat : m = Len(Table)
        BY TableType
    <3>2. IsFiniteSet(1..m) /\ A \subseteq 1..m
        BY <3>1, FS_Interval DEF ActiveIds
    <3>q. QED BY <3>2, FS_Subset, FS_CardinalityType
  <2>4. Cardinality(B) = Cardinality(A) + 1
      BY <2>2, <2>3, FS_AddElement
  <2>5. OverlapBoundsDuplicates'
      BY DedupBounds, PTL
  <2>6. Cardinality(B) <= Cardinality(Rounds)
      BY <1>2, <1>4, <2>5 DEF OverlapBoundsDuplicates
  <2>7. Cardinality(Rounds) \in Nat
      BY AlertsAssumption, FS_CardinalityType
  <2> HIDE DEF A, B
  <2>q. QED BY <2>1, <2>3, <2>4, <2>6, <2>7
<1>5. Entries' = Append(Entries, [key |-> key, state |-> "open"])
  <2>1. /\ Entries \in Seq(Entry) /\ Len(Entries) = Len(Table) /\ Len(Table) \in Nat
        /\ \A i \in Ids : Entries[i] = EntryOf(Table[i])
      BY EntriesType
  <2>2. Entries' = [i \in 1..n |-> EntryOf(Table'[i])]
      BY <1>1 DEF Entries, EntryOf, Ids
  <2>3. \A i \in Ids : Entries'[i] = Entries[i]
      BY <1>1, <2>1, <2>2 DEF Ids
  <2>4. Entries'[n] = [key |-> key, state |-> "open"]
    <3>1. Table'[n].key = key /\ Table'[n].state = "active"
        BY <1>1, <1>3
    <3>2. Entries'[n] = EntryOf(Table'[n])
        BY <2>1, <2>2
    <3>q. QED BY <3>1, <3>2 DEF EntryOf
  <2>5. [key |-> key, state |-> "open"] \in Entry
      BY <1>2 DEF Entry
  <2>6. /\ Append(Entries, [key |-> key, state |-> "open"]) \in Seq(Entry)
        /\ Len(Append(Entries, [key |-> key, state |-> "open"])) = n
        /\ \A i \in Ids : Append(Entries, [key |-> key, state |-> "open"])[i] = Entries[i]
        /\ Append(Entries, [key |-> key, state |-> "open"])[n] = [key |-> key, state |-> "open"]
      BY <2>1, <2>5, AppendProperties DEF Ids
  <2>7. Entries' \in Seq(Entry) /\ Len(Entries') = n
    <3>1. EntriesOK'
        BY EntriesTyped, PTL
    <3>q. QED BY <1>1, <3>1 DEF EntriesOK
  <2>8. \A i \in 1..n : Entries'[i] = Append(Entries, [key |-> key, state |-> "open"])[i]
      BY <1>1, <2>1, <2>3, <2>4, <2>6 DEF Ids
  <2> HIDE DEF n, key
  <2>q. QED BY <2>6, <2>7, <2>8, SeqEqual
<1>6. Ledger!Raise(key)
    BY <1>4, <1>5, Zenon DEF Ledger!Raise, Ledger!Cardinality, Cardinality
<1>q. QED BY <1>2, <1>6 DEF Ledger!LedgerNext

\* Acknowledging and deleting rows close their entries.
LEMMA ClosingCloses ==
    ASSUME TypeOK, NEW ids, NEW s \in {"acked", "deleted"}, CloseRows(ids, s), UNCHANGED announced
    PROVE  Ledger!LedgerNext
<1> DEFINE closed == ids \cap Ids
<1>1. /\ Ids' = Ids
      /\ \A i \in Ids : Table'[i] = IF i \in ids THEN [Table[i] EXCEPT !.state = s] ELSE Table[i]
    BY CloseRowsKept
<1>2. /\ Len(Entries) = Len(Table)
      /\ \A i \in Ids : Entries[i] = EntryOf(Table[i])
    BY EntriesType
<1>3. \A i \in Ids : Table[i] \in Row
    BY TableType, ElementOfSeq DEF Ids
<1>4. ASSUME NEW i \in Ids
      PROVE  EntryOf(Table'[i])
               = IF i \in closed THEN [Entries[i] EXCEPT !.state = "closed"] ELSE Entries[i]
  <2>1. CASE i \in ids
    <3>1. Table'[i].key = Table[i].key /\ Table'[i].state = s
        BY <1>1, <1>3, <2>1 DEF Row
    <3>2. Entries[i] = EntryOf(Table[i])
        BY <1>2
    <3>3. [Entries[i] EXCEPT !.state = "closed"] = [key |-> Table[i].key, state |-> "closed"]
        BY <3>2 DEF EntryOf
    <3>4. EntryOf(Table'[i]) = [key |-> Table[i].key, state |-> "closed"]
        BY <3>1 DEF EntryOf
    <3>q. QED BY <2>1, <3>3, <3>4
  <2>2. CASE i \notin ids
      BY <1>1, <1>2, <2>2
  <2>q. QED BY <2>1, <2>2
<1>5. Entries' = [i \in Ids |-> IF i \in closed THEN [Entries[i] EXCEPT !.state = "closed"] ELSE Entries[i]]
  <2>1. Entries' = [i \in Ids |-> EntryOf(Table'[i])]
      BY <1>1 DEF Entries, EntryOf
  <2> HIDE DEF closed
  <2>q. QED BY <1>4, <2>1
<1>6. Ledger!Close(closed) /\ closed \in SUBSET (1..Len(Entries))
    BY <1>2, <1>5 DEF Ledger!Close, Ids
<1>q. QED BY <1>6 DEF Ledger!LedgerNext

LEMMA SendTells ==
    ASSUME TypeOK, SendsOK, UNCHANGED history, NEW c \in Checks, checks[c].pc = "send",
           announced' = announced \cup {checks[c].row}
    PROVE  Ledger!LedgerNext \/ UNCHANGED Ledger!ledgerVars
<1> DEFINE row == checks[c].row
<1>1. row \in 1..Len(Entries)
    BY EntriesType DEF SendsOK, Ids
<1>2. Entries' = Entries
    BY DEF Entries, Ids, Table
<1>3. CASE row \in announced
    BY <1>2, <1>3 DEF Ledger!ledgerVars
<1>4. CASE row \notin announced
    BY <1>1, <1>2, <1>4 DEF Ledger!Tell, Ledger!LedgerNext
<1>q. QED BY <1>3, <1>4

LEMMA LedgerStep ==
    ASSUME TypeOK, TypeOK', DedupInv', PointersInv, [Next]_vars
    PROVE  [Ledger!LedgerNext]_(Ledger!ledgerVars)
<1> SUFFICES Ledger!LedgerNext \/ UNCHANGED Ledger!ledgerVars
    OBVIOUS
<1>1. ASSUME Table' = Table, UNCHANGED announced PROVE UNCHANGED Ledger!ledgerVars
    BY <1>1 DEF Ledger!ledgerVars, Entries, Ids
<1>2. ASSUME UNCHANGED <<history, announced>> PROVE UNCHANGED Ledger!ledgerVars
    BY <1>1, <1>2 DEF Table
<1>3. CASE ReplicaCatchesUp
  <2>1. Table' = Table
      BY <1>3, ReplayType DEF ReplicaCatchesUp, Table, TypeOK
  <2>q. QED BY <1>1, <1>3, <2>1 DEF ReplicaCatchesUp
<1>4. ASSUME (\E t \in Targets : Fluctuate(t)) \/ ListAlerts \/ Restart \/ UNCHANGED vars
      PROVE  UNCHANGED <<history, announced>>
    BY <1>4 DEF Fluctuate, ListAlerts, Restart, vars
<1>5. ASSUME NEW r \in Rounds, ServerTick(r) \/ HTTPTick(r) PROVE UNCHANGED <<history, announced>>
    BY <1>5 DEF ServerTick, HTTPTick, Tick
<1>6. ASSUME NEW c \in Checks, Collect(c) \/ WaitForEver(c) \/ QueryActive(c) \/ SkipPastBound(c)
      PROVE  UNCHANGED <<history, announced>>
    BY <1>6 DEF Collect, WaitForEver, QueryActive, SkipPastBound
<1>7. ASSUME NEW c \in Checks, CreateAlert(c) PROVE Ledger!LedgerNext
    BY <1>7, InsertRaises DEF CreateAlert
<1>8. ASSUME NEW c \in Checks, SendAlert(c) PROVE Ledger!LedgerNext \/ UNCHANGED Ledger!ledgerVars
  <2>1. /\ checks[c].pc = "send" /\ UNCHANGED history
        /\ announced' = announced \/ announced' = announced \cup {checks[c].row}
      BY <1>8 DEF SendAlert
  <2>q. QED BY <1>2, <2>1, SendTells DEF PointersInv
<1>9. ASSUME NEW c \in Checks, FinishFailed(c)
      PROVE  Ledger!LedgerNext \/ UNCHANGED Ledger!ledgerVars
  <2>1. \/ UNCHANGED <<history, announced>>
        \/ checks[c].pc = "create" /\ InsertAlert(c) /\ UNCHANGED announced
        \/ /\ checks[c].pc = "send" /\ UNCHANGED history
           /\ announced' = announced \/ announced' = announced \cup {checks[c].row}
      BY <1>9 DEF FinishFailed
  <2>q. QED BY <1>2, <2>1, InsertRaises, SendTells DEF PointersInv
<1>10. ASSUME NEW id, history' = history \/ MarkAcknowledged(id), UNCHANGED announced
       PROVE  Ledger!LedgerNext \/ UNCHANGED Ledger!ledgerVars
  <2>1. UNCHANGED history \/ CloseRows({id}, "acked")
      BY <1>10 DEF MarkAcknowledged, CloseRows
  <2>q. QED BY <1>2, <1>10, <2>1, ClosingCloses
<1>11. ASSUME NEW u \in Operators, Press(u) \/ Acknowledge(u) \/ AcknowledgeFailed(u) \/ EditCard(u)
       PROVE  Ledger!LedgerNext \/ UNCHANGED Ledger!ledgerVars
  <2>1. UNCHANGED announced /\ (history' = history \/ MarkAcknowledged(clicks[u].alert))
      BY <1>11 DEF Press, Acknowledge, AcknowledgeFailed, EditCard
  <2>q. QED BY <1>10, <2>1
<1>12. ASSUME CtlAcknowledge PROVE Ledger!LedgerNext
  <2>1. PICK ids : history' = Commit(history, WithState(Table, ids, "acked"))
      BY <1>12 DEF CtlAcknowledge
  <2>2. UNCHANGED announced
      BY <1>12 DEF CtlAcknowledge
  <2>q. QED BY <2>1, <2>2, ClosingCloses DEF CloseRows
<1>13. ASSUME CtlCleanup PROVE Ledger!LedgerNext
  <2>1. PICK n : history' = Commit(history, WithState(Table, 1..n, "deleted"))
      BY <1>13 DEF CtlCleanup
  <2>2. CloseRows(1..n, "deleted") /\ UNCHANGED announced
      BY <1>13, <2>1 DEF CtlCleanup, CloseRows
  <2>q. QED BY <2>2, ClosingCloses
<1>q. QED
    BY <1>2, <1>3, <1>4, <1>5, <1>6, <1>7, <1>8, <1>9, <1>11, <1>12, <1>13 DEF Next, CheckStep

LEMMA LedgerStart == Init => Ledger!LedgerInit
<1> SUFFICES ASSUME Init PROVE Entries = <<>> /\ announced = {}
    BY DEF Ledger!LedgerInit
<1>1. Table = <<>> /\ announced = {}
    BY DEF Init, Table, Primary
<1>2. Ids = {}
    BY <1>1 DEF Ids
<1>q. QED BY <1>1, <1>2 DEF Entries

\* The pipeline keeps the ledger's promise for any number of rounds, operators
\* and failures: where reads see the primary an alert is raised only below the
\* bound of deduplication, and everywhere the chat is told once of each, and
\* no alert is reopened or changes its key.
THEOREM LedgerImplemented == Spec => ImplementsLedger
<1> DEFINE LInv == TypeOK /\ DedupInv /\ PointersInv
<1>1. Init => LInv
    BY InitTypeOK, InitDedup, InitPointers
<1>2. LInv /\ [Next]_vars => LInv'
    BY NextTypeOK, NextDedup, NextVersions, NextSends, NextCards, NextClicks DEF PointersInv
<1>3. LInv /\ LInv' /\ [Next]_vars => [Ledger!LedgerNext]_(Ledger!ledgerVars)
    BY LedgerStep
<1>q. QED BY <1>1, <1>2, <1>3, LedgerStart, PTL DEF Spec, ImplementsLedger, Ledger!LedgerSpec

=============================================================================
