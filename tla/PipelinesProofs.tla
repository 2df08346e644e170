-------------------------- MODULE PipelinesProofs --------------------------
(***************************************************************************)
(* Proofs about Pipelines, for every set of requests, presses and admins,  *)
(* any number of faults, with and without a replica: the invariants of     *)
(* Pipelines, and that it implements DecisionBoard.                        *)
(***************************************************************************)
EXTENDS Pipelines, StorageProofs, FiniteSetTheorems, TLAPS

\* What a reader may be told by a row, whichever version of the table it comes
\* from: the post it names is the event's own, a verdict in it was taken, and
\* any other status is the one the webhook stored.
RowTrue(e, row) ==
    /\ row.message # 0 =>
          /\ row.message \in 1..Len(chat) /\ chat[row.message].event = e
          /\ \E d \in Deliveries : deliveries[d].event = e
    /\ row.status \in Verdicts => Decided(e, row.status, row.by)
    /\ row.status \notin Verdicts =>
          \A d \in Deliveries : deliveries[d].event = e => deliveries[d].status = row.status

VersionTrue(rows) == Len(rows) =< Len(Table) /\ \A e \in 1..Len(rows) : RowTrue(e, rows[e])

HistoryOK == \A i \in 1..Len(history) : VersionTrue(history[i])

\* Only the primary's rows must also tell every decision.
Untouched(e) == Table[e].by = Nobody /\ ~\E v \in Verdicts, u \in Admins : Decided(e, v, u)

TableOK == \A e \in Ids : Table[e].status \notin Verdicts => Untouched(e)

\* A request owns the event it stored, and until it is done the post as well.
DeliveryOK(d) ==
    /\ deliveries[d].status \notin Verdicts
    /\ deliveries[d].pc \in {"new", "create"} => deliveries[d].event = 0
    /\ deliveries[d].pc \in {"send", "save"} => deliveries[d].event # 0
    /\ deliveries[d].event # 0 => deliveries[d].event \in Ids
    /\ deliveries[d].pc = "send" => \A m \in 1..Len(chat) : chat[m].event # deliveries[d].event
    /\ deliveries[d].pc = "save" =>
          deliveries[d].message \in 1..Len(chat) /\ chat[deliveries[d].message].event = deliveries[d].event
    /\ deliveries[d].pc = "done" /\ faults = 0 =>
          deliveries[d].event \in Ids /\ Table[deliveries[d].event].message # 0

OwnEvent ==
    \A d, o \in Deliveries :
        deliveries[d].event # 0 /\ deliveries[d].event = deliveries[o].event => d = o

DeliveriesOK == (\A d \in Deliveries : DeliveryOK(d)) /\ OwnEvent

\* Every row was inserted by a request of its own.
Inserters == {d \in Deliveries : deliveries[d].pc \notin {"new", "create"}}
CountOK == Len(Table) =< Cardinality(Inserters)

\* An event has one post at most.
PostsOK ==
    /\ \A m \in 1..Len(chat) : chat[m].event \in Ids
    /\ \A m, n \in 1..Len(chat) : chat[m].event = chat[n].event => m = n

\* What an edited post may show: see SignedPostShowsADecision.
Stored(e, status) == \E d \in Deliveries : deliveries[d].event = e /\ deliveries[d].status = status
Shown(e, status) ==
    \/ \E u \in Admins : Decided(e, status, u)
    \/ (useReplica \/ faults > 0) /\ Stored(e, status)

SignatureTrue(post) ==
    post.signed # Nobody =>
        (\E v \in Verdicts : Decided(post.event, v, post.signed)) /\ Shown(post.event, post.status)

PressOK(p) ==
    /\ presses[p].pc = "new" => ~presses[p].wrote
    /\ presses[p].pc # "new" =>
          presses[p].user \in Admins /\ \E m \in 1..Len(chat) : chat[m].event = presses[p].event
    /\ presses[p].pc \in {"read", "edit"} => presses[p].wrote
    /\ presses[p].pc = "edit" =>
          /\ presses[p].seen.message \in 1..Len(chat)
          /\ chat[presses[p].seen.message].event = presses[p].event
          /\ Shown(presses[p].event, presses[p].seen.status)

PressesOK == \A p \in Presses : PressOK(p)

BoardInv ==
    /\ TypeOK
    /\ HistoryOK
    /\ TableOK
    /\ DeliveriesOK
    /\ CountOK
    /\ PostsOK
    /\ PressesOK
    /\ SignedPostShowsADecision
    /\ ButtonsLeftOnlyByRace

\* What no step takes back.
Keeps ==
    /\ \A m \in 1..Len(chat) : m \in 1..Len(chat') /\ chat'[m].event = chat[m].event
    /\ \A e \in Ids : e \in Ids' /\ (Table[e].message # 0 => Table'[e].message # 0)
    /\ \A d \in Deliveries :
          \/ deliveries'[d].event = deliveries[d].event
             /\ (deliveries[d].event # 0 => deliveries'[d].status = deliveries[d].status)
          \/ deliveries[d].event = 0 /\ deliveries'[d].event = Len(Table) + 1
    /\ \A p \in Presses :
          /\ presses[p].wrote => presses'[p].wrote
          /\ presses[p].wrote \/ presses[p].pc # "new" =>
                /\ presses'[p].event = presses[p].event
                /\ presses'[p].user = presses[p].user
                /\ presses'[p].verdict = presses[p].verdict
    /\ useReplica' = useReplica \/ faults' > 0
    /\ faults' >= faults

-----------------------------------------------------------------------------
(* Types.                                                                  *)

LEMMA TableType ==
    ASSUME NEW h \in Seq(Seq(Row)), Len(h) > 0
    PROVE  Primary(h) \in Seq(Row) /\ Len(Primary(h)) \in Nat
    BY PrimaryType

LEMMA StateType ==
    ASSUME TypeOK
    PROVE  /\ history \in Seq(Seq(Row)) /\ Len(history) > 0 /\ Len(history) \in Nat
           /\ Table \in Seq(Row) /\ Len(Table) \in Nat
           /\ chat \in Seq(Post) /\ Len(chat) \in Nat
           /\ deliveries \in [Deliveries -> Delivery] /\ presses \in [Presses -> Press]
           /\ faults \in Nat
    BY TableType DEF TypeOK, Table

\* No CI system can report a verdict: only a press stores one.
LEMMA StatusType ==
    ASSUME NEW report \in Reports
    PROVE  StatusOf(report) \in Statuses \ Verdicts
<1>1. report \in Report
    BY PipelinesAssumption
<1>2. report.source \in {"github", "gitlab", "jenkins"}
    BY <1>1 DEF Report
<1>3. GithubStatus(report.status) \in Statuses \ Verdicts
    BY DEF GithubStatus, Statuses, FinalStatuses, Verdicts
<1>4. GitlabStatus(report.status) \in Statuses \ Verdicts
    BY DEF GitlabStatus, Statuses, FinalStatuses, Verdicts
<1>5. JenkinsStatus(report.phase, report.status) \in Statuses \ Verdicts
    BY DEF JenkinsStatus, Statuses, FinalStatuses, Verdicts
<1>q. QED BY <1>2, <1>3, <1>4, <1>5 DEF StatusOf

\* UPDATE of one row of the table.
LEMMA UpdatedTable ==
    ASSUME NEW t \in Seq(Row), NEW e \in 1..Len(t), NEW row \in Row
    PROVE  /\ [t EXCEPT ![e] = row] \in Seq(Row)
           /\ Len([t EXCEPT ![e] = row]) = Len(t)
           /\ \A i \in 1..Len(t) : [t EXCEPT ![e] = row][i] = IF i = e THEN row ELSE t[i]
    BY ExceptSeq

\* One more row, or one more post.
LEMMA Appended ==
    ASSUME NEW S, NEW s \in Seq(S), NEW x \in S
    PROVE  /\ Append(s, x) \in Seq(S) /\ Len(Append(s, x)) = Len(s) + 1
           /\ Append(s, x)[Len(s) + 1] = x
           /\ \A i \in 1..Len(s) : Append(s, x)[i] = s[i] /\ i \in 1..(Len(s) + 1)
           /\ \A i \in 1..(Len(s) + 1) : i \in 1..Len(s) \/ i = Len(s) + 1
    BY AppendProperties

\* An edited post.
LEMMA EditedChat ==
    ASSUME NEW c \in Seq(Post), NEW m \in 1..Len(c), NEW post \in Post
    PROVE  /\ [c EXCEPT ![m] = post] \in Seq(Post)
           /\ Len([c EXCEPT ![m] = post]) = Len(c)
           /\ \A i \in 1..Len(c) : [c EXCEPT ![m] = post][i] = IF i = m THEN post ELSE c[i]
    BY ExceptSeq

-----------------------------------------------------------------------------
(* What stays true because no step takes it back.                          *)

LEMMA DecidedKept ==
    ASSUME Keeps, NEW e, NEW v, NEW u, Decided(e, v, u)
    PROVE  Decided(e, v, u)'
<1>1. PICK p \in Presses : /\ presses[p].wrote /\ presses[p].event = e
                           /\ presses[p].verdict = v /\ presses[p].user = u
    BY DEF Decided
<1>2. /\ presses'[p].wrote /\ presses'[p].event = e
      /\ presses'[p].verdict = v /\ presses'[p].user = u
    BY <1>1 DEF Keeps
<1>q. QED BY <1>2 DEF Decided

LEMMA StoredKept ==
    ASSUME Keeps, NEW e, e # 0, NEW status, Stored(e, status)
    PROVE  Stored(e, status)'
<1>1. PICK d \in Deliveries : deliveries[d].event = e /\ deliveries[d].status = status
    BY DEF Stored
<1>2. deliveries'[d].event = e /\ deliveries'[d].status = status
    BY <1>1 DEF Keeps
<1>q. QED BY <1>2 DEF Stored

LEMMA ShownKept ==
    ASSUME TypeOK, TypeOK', Keeps, NEW e, e # 0, NEW status, Shown(e, status)
    PROVE  Shown(e, status)'
<1>1. CASE \E u \in Admins : Decided(e, status, u)
    BY <1>1, DecidedKept DEF Shown
<1>2. CASE (useReplica \/ faults > 0) /\ Stored(e, status)
    <2>1. Stored(e, status)'
        BY <1>2, StoredKept
    <2>2. useReplica' \/ faults' > 0
        BY <1>2 DEF Keeps, TypeOK
    <2>q. QED BY <2>1, <2>2 DEF Shown
<1>q. QED BY <1>1, <1>2 DEF Shown

LEMMA RowKept ==
    ASSUME TypeOK, Keeps, NEW e \in Ids, NEW row, RowTrue(e, row)
    PROVE  RowTrue(e, row)'
<1>0. e # 0 /\ e # Len(Table) + 1
    BY StateType DEF Ids
<1>1. ASSUME row.message # 0
      PROVE  /\ row.message \in 1..Len(chat') /\ chat'[row.message].event = e
             /\ \E d \in Deliveries : deliveries'[d].event = e
    <2>1. row.message \in 1..Len(chat) /\ chat[row.message].event = e
        BY <1>1 DEF RowTrue
    <2>2. PICK d \in Deliveries : deliveries[d].event = e
        BY <1>1 DEF RowTrue
    <2>3. deliveries'[d].event = e
        BY <1>0, <2>2 DEF Keeps
    <2>q. QED BY <2>1, <2>3 DEF Keeps
<1>2. ASSUME row.status \in Verdicts
      PROVE  Decided(e, row.status, row.by)'
    BY <1>2, DecidedKept DEF RowTrue
<1>3. ASSUME row.status \notin Verdicts, NEW d \in Deliveries, deliveries'[d].event = e
      PROVE  deliveries'[d].status = row.status
    BY <1>0, <1>3 DEF RowTrue, Keeps
<1>q. QED BY <1>1, <1>2, <1>3 DEF RowTrue

-----------------------------------------------------------------------------
(* The parts of the invariant, when a step leaves what they speak of alone. *)

LEMMA VersionKept ==
    ASSUME TypeOK, TypeOK', Keeps, NEW rows \in Seq(Row), VersionTrue(rows)
    PROVE  VersionTrue(rows)'
<1>1. /\ Len(Table) \in Nat /\ Len(Table') \in Nat /\ Len(rows) \in Nat
      /\ Len(rows) =< Len(Table)
      /\ Ids = 1..Len(Table) /\ Ids' = 1..Len(Table')
    BY StateType, TableType DEF TypeOK, Table, Ids, VersionTrue
<1>2. Len(Table) =< Len(Table')
    BY <1>1 DEF Keeps
<1>3. ASSUME NEW e \in 1..Len(rows)
      PROVE  RowTrue(e, rows[e])'
    <2>1. RowTrue(e, rows[e]) /\ e \in Ids
        BY <1>1 DEF VersionTrue
    <2>q. QED BY <2>1, RowKept
<1>q. QED BY <1>1, <1>2, <1>3 DEF VersionTrue

LEMMA HistoryStays ==
    ASSUME TypeOK, TypeOK', HistoryOK, Keeps, UNCHANGED history
    PROVE  HistoryOK'
<1>1. ASSUME NEW i \in 1..Len(history)
      PROVE  VersionTrue(history[i])'
    <2>1. history[i] \in Seq(Row) /\ VersionTrue(history[i])
        BY StateType DEF HistoryOK
    <2>2. PICK rows : rows = history[i]
        OBVIOUS
    <2>3. VersionTrue(rows)'
        BY <2>1, <2>2, VersionKept
    <2>q. QED BY <2>2, <2>3
<1>q. QED BY <1>1 DEF HistoryOK

LEMMA HistoryReplayed ==
    ASSUME TypeOK, TypeOK', HistoryOK, Keeps, Lagging(history), history' = Replay(history)
    PROVE  HistoryOK'
<1>1. ASSUME NEW i \in 1..Len(history')
      PROVE  VersionTrue(history[i])'
    <2>1. i + 1 \in 1..Len(history) /\ history'[i] = history[i + 1]
        BY StateType, ReplayType
    <2>2. history[i + 1] \in Seq(Row) /\ VersionTrue(history[i + 1])
        BY <2>1, StateType DEF HistoryOK
    <2>3. PICK rows : rows = history[i + 1]
        OBVIOUS
    <2>4. VersionTrue(rows)'
        BY <2>2, <2>3, VersionKept
    <2>q. QED BY <2>1, <2>3, <2>4
<1>q. QED BY <1>1 DEF HistoryOK

LEMMA HistoryCommitted ==
    ASSUME TypeOK, TypeOK', HistoryOK, Keeps,
           NEW t \in Seq(Row), history' = Commit(history, t),
           \A e \in 1..Len(t) : RowTrue(e, t[e])'
    PROVE  HistoryOK'
<1>1. Table' = t
    BY StateType, CommitType DEF Table
<1>2. VersionTrue(t)'
    BY <1>1 DEF VersionTrue
<1>3. ASSUME NEW i \in 1..Len(history')
      PROVE  VersionTrue(history[i])'
    <2>1. \/ history'[i] = t
          \/ i \in 1..Len(history) /\ history'[i] = history[i]
        BY StateType, CommitVersions
    <2>2. CASE history'[i] = t
        BY <1>2, <2>2
    <2>3. CASE i \in 1..Len(history) /\ history'[i] = history[i]
        <3>1. history[i] \in Seq(Row) /\ VersionTrue(history[i])
            BY <2>3, StateType DEF HistoryOK
        <3>2. PICK rows : rows = history[i]
            OBVIOUS
        <3>3. VersionTrue(rows)'
            BY <3>1, <3>2, VersionKept
        <3>q. QED BY <2>3, <3>2, <3>3
    <2>q. QED BY <2>1, <2>2, <2>3
<1>q. QED BY <1>3 DEF HistoryOK

\* A press that took place has an event, and so has every signed post.
LEMMA PressedEvent ==
    ASSUME TypeOK, PostsOK, NEW p \in Presses, PressOK(p),
           presses[p].wrote \/ presses[p].pc # "new"
    PROVE  /\ presses[p].pc # "new" /\ presses[p].user \in Admins
           /\ presses[p].event \in Ids /\ presses[p].event # 0
           /\ \E m \in 1..Len(chat) : chat[m].event = presses[p].event
<1>1. presses[p].pc # "new"
    BY DEF PressOK
<1>2. /\ presses[p].user \in Admins
      /\ \E m \in 1..Len(chat) : chat[m].event = presses[p].event
    BY <1>1 DEF PressOK
<1>3. presses[p].event \in Ids
    BY <1>2 DEF PostsOK
<1>q. QED BY <1>1, <1>2, <1>3, StateType DEF Ids

LEMMA PressKept ==
    ASSUME TypeOK, TypeOK', PostsOK, Keeps,
           NEW p \in Presses, PressOK(p), presses'[p] = presses[p]
    PROVE  PressOK(p)'
<1>1. CASE presses[p].pc = "new"
    BY <1>1 DEF PressOK
<1>2. CASE presses[p].pc # "new"
    <2>1. presses[p].user \in Admins /\ presses[p].event # 0
        BY <1>2, PressedEvent
    <2>2. PICK m \in 1..Len(chat) : chat[m].event = presses[p].event
        BY <1>2, PressedEvent
    <2>3. m \in 1..Len(chat') /\ chat'[m].event = presses'[p].event
        BY <2>2 DEF Keeps
    <2>4. ASSUME presses[p].pc = "edit"
          PROVE  /\ presses'[p].seen.message \in 1..Len(chat')
                 /\ chat'[presses'[p].seen.message].event = presses'[p].event
                 /\ Shown(presses[p].event, presses[p].seen.status)'
        <3>1. /\ presses[p].seen.message \in 1..Len(chat)
              /\ chat[presses[p].seen.message].event = presses[p].event
              /\ Shown(presses[p].event, presses[p].seen.status)
            BY <2>4 DEF PressOK
        <3>2. PICK e, status : e = presses[p].event /\ status = presses[p].seen.status
            OBVIOUS
        <3>3. Shown(e, status)'
            BY <2>1, <3>1, <3>2, ShownKept
        <3>q. QED BY <3>1, <3>2, <3>3 DEF Keeps
    <2>q. QED BY <1>2, <2>1, <2>3, <2>4 DEF PressOK
<1>q. QED BY <1>1, <1>2

LEMMA DeliveryKept ==
    ASSUME TypeOK, TypeOK', Keeps,
           NEW d \in Deliveries, DeliveryOK(d), deliveries'[d] = deliveries[d],
           \A m \in 1..Len(chat') :
              \/ m \in 1..Len(chat)
              \/ deliveries[d].event # 0 => chat'[m].event # deliveries[d].event
    PROVE  DeliveryOK(d)'
<1>1. faults' = 0 => faults = 0
    BY DEF TypeOK, Keeps
<1>2. ASSUME deliveries[d].pc = "send", NEW m \in 1..Len(chat')
      PROVE  chat'[m].event # deliveries[d].event
    BY <1>2 DEF DeliveryOK, Keeps
<1>3. ASSUME deliveries[d].event # 0
      PROVE  deliveries[d].event \in Ids'
    BY <1>3 DEF DeliveryOK, Keeps
<1>4. ASSUME deliveries[d].pc = "save"
      PROVE  /\ deliveries[d].message \in 1..Len(chat')
             /\ chat'[deliveries[d].message].event = deliveries[d].event
    BY <1>4 DEF DeliveryOK, Keeps
<1>5. ASSUME deliveries[d].pc = "done", faults' = 0
      PROVE  deliveries[d].event \in Ids' /\ Table'[deliveries[d].event].message # 0
    BY <1>1, <1>5 DEF DeliveryOK, Keeps
<1>q. QED BY <1>2, <1>3, <1>4, <1>5 DEF DeliveryOK

LEMMA SignatureKept ==
    ASSUME TypeOK, TypeOK', Keeps, NEW post, post.event # 0, SignatureTrue(post)
    PROVE  SignatureTrue(post)'
<1>1. ASSUME post.signed # Nobody
      PROVE  /\ (\E v \in Verdicts : Decided(post.event, v, post.signed))'
             /\ Shown(post.event, post.status)'
    <2>1. PICK v \in Verdicts : Decided(post.event, v, post.signed)
        BY <1>1 DEF SignatureTrue
    <2>2. Decided(post.event, v, post.signed)'
        BY <2>1, DecidedKept
    <2>3. Shown(post.event, post.status)'
        BY <1>1, ShownKept DEF SignatureTrue
    <2>q. QED BY <2>2, <2>3
<1>q. QED BY <1>1 DEF SignatureTrue

LEMMA SignaturesStay ==
    ASSUME TypeOK, TypeOK', Keeps, PostsOK, SignedPostShowsADecision,
           \A m \in 1..Len(chat') :
              \/ m \in 1..Len(chat) /\ chat'[m] = chat[m]
              \/ SignatureTrue(chat[m])'
    PROVE  SignedPostShowsADecision'
<1>1. ASSUME NEW m \in 1..Len(chat')
      PROVE  SignatureTrue(chat[m])'
    <2>1. CASE m \in 1..Len(chat) /\ chat'[m] = chat[m]
        <3>1. SignatureTrue(chat[m])
            BY <2>1 DEF SignedPostShowsADecision, SignatureTrue, Shown, Stored
        <3>2. PICK post : post = chat[m]
            OBVIOUS
        <3>3. post.event # 0
            BY <2>1, <3>2, StateType DEF PostsOK, Ids
        <3>4. SignatureTrue(post)'
            BY <3>1, <3>2, <3>3, SignatureKept
        <3>q. QED BY <2>1, <3>2, <3>4
    <2>q. QED BY <2>1
<1>q. QED BY <1>1 DEF SignedPostShowsADecision, SignatureTrue, Shown, Stored

LEMMA TableStays ==
    ASSUME TypeOK, TypeOK', PostsOK, PressesOK, TableOK,
           \A p \in Presses : presses'[p].wrote =>
              /\ presses[p].wrote
              /\ presses'[p].event = presses[p].event
              /\ presses'[p].user = presses[p].user
              /\ presses'[p].verdict = presses[p].verdict,
           \A e \in Ids' :
              \/ e \in Ids /\ Table'[e].status = Table[e].status /\ Table'[e].by = Table[e].by
              \/ e \notin Ids /\ Table'[e].by = Nobody
    PROVE  TableOK'
<1>1. ASSUME NEW e, NEW v, NEW u, Decided(e, v, u)'
      PROVE  Decided(e, v, u) /\ e \in Ids
    <2>1. PICK p \in Presses : /\ presses'[p].wrote /\ presses'[p].event = e
                               /\ presses'[p].verdict = v /\ presses'[p].user = u
        BY <1>1 DEF Decided
    <2>2. /\ presses[p].wrote /\ presses[p].event = e
          /\ presses[p].verdict = v /\ presses[p].user = u
        BY <2>1
    <2>3. e \in Ids
        BY <2>2, PressedEvent DEF PressesOK
    <2>q. QED BY <2>2, <2>3 DEF Decided
<1>2. ASSUME NEW e \in Ids', Table'[e].status \notin Verdicts
      PROVE  Untouched(e)'
    <2>1. Table'[e].by = Nobody /\ ~\E v \in Verdicts, u \in Admins : Decided(e, v, u) /\ e \in Ids
        BY <1>2 DEF TableOK, Untouched
    <2>2. ~\E v \in Verdicts, u \in Admins : Decided(e, v, u)'
        BY <1>1, <2>1
    <2>q. QED BY <2>1, <2>2 DEF Untouched
<1>q. QED BY <1>2 DEF TableOK

LEMMA CountStays ==
    ASSUME TypeOK, TypeOK', CountOK, Len(Table') = Len(Table),
           \A d \in Deliveries : deliveries[d].pc \notin {"new", "create"} =>
              deliveries'[d].pc \notin {"new", "create"}
    PROVE  CountOK'
<1>1. Inserters \subseteq Inserters' /\ IsFiniteSet(Inserters')
    BY PipelinesAssumption, FS_Subset DEF Inserters
<1>2. /\ Cardinality(Inserters) =< Cardinality(Inserters')
      /\ Cardinality(Inserters) \in Nat /\ Cardinality(Inserters') \in Nat
    BY <1>1, FS_Subset, FS_CardinalityType
<1>q. QED BY <1>2, StateType DEF CountOK

LEMMA ButtonsStay ==
    ASSUME TypeOK, TypeOK', Keeps, ButtonsLeftOnlyByRace,
           \A p \in Presses : presses'[p].pc = "done" /\ faults' = 0 =>
              \/ presses'[p] = presses[p]
              \/ presses'[p].seen.message = 0,
           \A m \in 1..Len(chat') : chat'[m].buttons =>
              \/ m \in 1..Len(chat) /\ chat'[m] = chat[m]
              \/ \A p \in Presses : presses'[p].pc = "done" => presses'[p].event # chat'[m].event
    PROVE  ButtonsLeftOnlyByRace'
<1>1. faults' = 0 => faults = 0
    BY DEF TypeOK, Keeps
<1>q. QED BY <1>1 DEF ButtonsLeftOnlyByRace

\* No delivery but the given one is touched.
LEMMA OwnEventStays ==
    ASSUME TypeOK, (\A d \in Deliveries : DeliveryOK(d)), OwnEvent,
           NEW d \in Deliveries,
           \A o \in Deliveries \ {d} : deliveries'[o].event = deliveries[o].event,
           \/ deliveries'[d].event = deliveries[d].event
           \/ deliveries'[d].event = Len(Table) + 1
    PROVE  OwnEvent'
<1>1. \A o \in Deliveries : deliveries[o].event # Len(Table) + 1
    BY StateType DEF DeliveryOK, Ids
<1>q. QED BY <1>1 DEF OwnEvent

-----------------------------------------------------------------------------
(* The replica and the webhook server.                                     *)

LEMMA InitInv == Init => BoardInv
<1> SUFFICES ASSUME Init PROVE BoardInv
    OBVIOUS
<1>2. history = << <<>> >> /\ Len(history) = 1 /\ Table = <<>> /\ Len(Table) = 0 /\ Ids = {}
    BY DEF Init, Table, Primary, Ids
<1>3. chat = <<>> /\ Len(chat) = 0 /\ faults = 0
    BY DEF Init
<1>4. \A d \in Deliveries : deliveries[d] = NewDelivery
    BY DEF Init
<1>5. \A p \in Presses : presses[p] = NewPress
    BY DEF Init
<1>6. Unread \in Row /\ NewPress \in Press /\ NewDelivery \in Delivery
    BY DEF Unread, Row, NewPress, Press, NewDelivery, Delivery, Statuses, Verdicts
<1>7. TypeOK
    <2>1. history \in Seq(Seq(Row)) /\ chat \in Seq(Post)
        BY <1>2, <1>3
    <2>q. QED BY <1>2, <1>3, <1>6, <2>1 DEF Init, TypeOK
<1>8. HistoryOK /\ TableOK
    BY <1>2 DEF HistoryOK, VersionTrue, TableOK
<1>9. DeliveriesOK
    BY <1>4 DEF NewDelivery, DeliveriesOK, DeliveryOK, OwnEvent, Verdicts
<1>10. CountOK
    <2>1. Inserters = {}
        BY <1>4 DEF Inserters, NewDelivery
    <2>q. QED BY <1>2, <2>1, FS_EmptySet DEF CountOK
<1>11. PostsOK /\ SignedPostShowsADecision /\ ButtonsLeftOnlyByRace
    BY <1>3 DEF PostsOK, SignedPostShowsADecision, ButtonsLeftOnlyByRace
<1>12. PressesOK
    BY <1>5 DEF NewPress, PressesOK, PressOK
<1>q. QED BY <1>7, <1>8, <1>9, <1>10, <1>11, <1>12 DEF BoardInv

LEMMA CatchUpInv ==
    ASSUME BoardInv, ReplicaCatchesUp
    PROVE  BoardInv'
<1> USE DEF BoardInv
<1>1. /\ Lagging(history) /\ history' = Replay(history)
      /\ UNCHANGED <<useReplica, chat, deliveries, presses, faults>>
    BY DEF ReplicaCatchesUp
<1>2. Table' = Table /\ Ids' = Ids
    BY <1>1, StateType, ReplayType DEF Table, Ids
<1>3. TypeOK'
    <2>1. history' \in Seq(Seq(Row)) /\ Len(history') > 0
        BY <1>1, StateType, ReplayType
    <2>q. QED BY <1>1, <2>1 DEF TypeOK
<1>4. Keeps
    BY <1>1, <1>2, <1>3 DEF Keeps, TypeOK
<1>5. HistoryOK'
    BY <1>1, <1>3, <1>4, HistoryReplayed
<1>6. TableOK' /\ DeliveriesOK' /\ CountOK' /\ PostsOK'
    BY <1>1, <1>2 DEF TableOK, Untouched, Decided, DeliveriesOK, DeliveryOK, OwnEvent, CountOK, Inserters, PostsOK
<1>7. PressesOK' /\ SignedPostShowsADecision' /\ ButtonsLeftOnlyByRace'
    BY <1>1 DEF PressesOK, PressOK, Shown, Stored, Decided, SignedPostShowsADecision, ButtonsLeftOnlyByRace
<1>q. QED BY <1>3, <1>5, <1>6, <1>7

LEMMA DeliverInv ==
    ASSUME BoardInv, NEW d \in Deliveries, Deliver(d)
    PROVE  BoardInv'
<1> USE DEF BoardInv
<1>1. PICK report \in Reports :
        deliveries' = [deliveries EXCEPT ![d].pc = "create", ![d].status = StatusOf(report)]
    BY DEF Deliver
<1>2. deliveries[d].pc = "new" /\ UNCHANGED <<history, useReplica, chat, presses, faults>>
    BY DEF Deliver
<1>3. deliveries[d] \in Delivery /\ DeliveryOK(d)
    BY StateType DEF DeliveriesOK
<1>4. /\ deliveries' \in [Deliveries -> Delivery]
      /\ deliveries'[d].pc = "create" /\ deliveries'[d].status = StatusOf(report)
      /\ deliveries'[d].event = deliveries[d].event
      /\ \A o \in Deliveries \ {d} : deliveries'[o] = deliveries[o]
    BY <1>1, <1>3, StateType, StatusType DEF Delivery
<1>5. Table' = Table /\ Ids' = Ids
    BY <1>2 DEF Table, Ids
<1>6. TypeOK'
    BY <1>2, <1>4 DEF TypeOK
<1>7. Keeps
    <2>1. deliveries[d].event = 0
        BY <1>2, <1>3 DEF DeliveryOK
    <2>q. QED BY <1>2, <1>4, <1>5, <1>6, <2>1 DEF Keeps, TypeOK
<1>8. HistoryOK'
    BY <1>2, <1>6, <1>7, HistoryStays
<1>9. TableOK'
    BY <1>2, <1>5, <1>6, TableStays
<1>10. DeliveriesOK'
    <2>1. DeliveryOK(d)'
        BY <1>2, <1>3, <1>4, <1>5, StatusType DEF DeliveryOK
    <2>2. ASSUME NEW o \in Deliveries \ {d}
          PROVE  DeliveryOK(o)'
        BY <1>2, <1>4, <1>6, <1>7, DeliveryKept DEF DeliveriesOK
    <2>3. OwnEvent'
        BY <1>4, OwnEventStays DEF DeliveriesOK
    <2>q. QED BY <2>1, <2>2, <2>3 DEF DeliveriesOK
<1>11. CountOK'
    BY <1>2, <1>4, <1>5, <1>6, CountStays
<1>12. PostsOK'
    BY <1>2, <1>5 DEF PostsOK
<1>13. PressesOK'
    BY <1>2, <1>6, <1>7, PressKept DEF PressesOK
<1>14. SignedPostShowsADecision'
    BY <1>2, <1>6, <1>7, SignaturesStay
<1>15. ButtonsLeftOnlyByRace'
    BY <1>2, <1>6, <1>7, ButtonsStay
<1>q. QED BY <1>6, <1>8, <1>9, <1>10, <1>11, <1>12, <1>13, <1>14, <1>15

LEMMA TableTrue ==
    ASSUME TypeOK, HistoryOK
    PROVE  VersionTrue(Table) /\ \A e \in Ids : RowTrue(e, Table[e]) /\ Table[e] \in Row
<1>1. Len(history) \in 1..Len(history) /\ Table = history[Len(history)]
    BY StateType, PrimaryType DEF Table
<1>2. VersionTrue(Table)
    BY <1>1 DEF HistoryOK
<1>3. \A e \in Ids : Table[e] \in Row
    BY StateType DEF Ids
<1>q. QED BY <1>2, <1>3 DEF VersionTrue, Ids

\* The row of a request is committed, whether or not the request learns its id.
LEMMA InsertInv ==
    ASSUME BoardInv, NEW d \in Deliveries, deliveries[d].pc = "create", InsertEvent(d),
           UNCHANGED <<useReplica, chat, presses>>,
           faults' \in Nat, faults' >= faults,
           deliveries' \in [Deliveries -> Delivery],
           \A o \in Deliveries \ {d} : deliveries'[o] = deliveries[o],
           deliveries'[d].status = deliveries[d].status,
           \/ deliveries'[d].pc = "send" /\ deliveries'[d].event = Len(Table) + 1
           \/ deliveries'[d].pc = "done" /\ deliveries'[d].event = deliveries[d].event /\ faults' > 0
    PROVE  BoardInv'
<1> USE DEF BoardInv
<1>1. PICK row : row = [status |-> deliveries[d].status, by |-> Nobody, message |-> 0]
    OBVIOUS
<1>2. /\ DeliveryOK(d) /\ deliveries[d] \in Delivery /\ deliveries[d].event = 0
      /\ row \in Row /\ row.status \notin Verdicts /\ row.message = 0
    BY <1>1, StateType DEF DeliveriesOK, DeliveryOK, Delivery, Row
<1>3. PICK t \in Seq(Row) :
        /\ history' = Commit(history, t)
        /\ Len(t) = Len(Table) + 1 /\ t[Len(Table) + 1] = row
        /\ \A i \in Ids : t[i] = Table[i]
        /\ \A i \in 1..Len(t) : i \in Ids \/ i = Len(Table) + 1
    <2>1. PICK t : t = Append(Table, row)
        OBVIOUS
    <2>2. history' = Commit(history, t)
        BY <1>1, <2>1 DEF InsertEvent
    <2>3. Table \in Seq(Row)
        BY StateType
    <2>4. /\ t \in Seq(Row) /\ Len(t) = Len(Table) + 1 /\ t[Len(Table) + 1] = row
          /\ \A i \in 1..Len(Table) : t[i] = Table[i]
          /\ \A i \in 1..Len(t) : i \in 1..Len(Table) \/ i = Len(Table) + 1
        BY <1>2, <2>1, <2>3, Appended
    <2>q. QED BY <2>2, <2>4 DEF Ids
<1>4. /\ Table' = t /\ history' \in Seq(Seq(Row)) /\ Len(history') > 0
      /\ Ids' = 1..(Len(Table) + 1)
    BY <1>3, StateType, CommitType DEF Table, Ids
<1>5. TypeOK'
    BY <1>4 DEF TypeOK
<1>6. \A i \in Ids : i \in Ids'
    BY <1>4, StateType DEF Ids
<1>7. Keeps
    BY <1>2, <1>3, <1>4, <1>6 DEF Keeps
<1>8. HistoryOK'
    <2>1. ASSUME NEW e \in 1..Len(t)
          PROVE  RowTrue(e, t[e])'
        <3>1. CASE e \in Ids
            BY <1>3, <1>7, <3>1, TableTrue, RowKept
        <3>2. CASE e = Len(Table) + 1
            <4>1. ASSUME NEW o \in Deliveries, deliveries'[o].event = e
                  PROVE  deliveries'[o].status = row.status
                <5>1. e # 0 /\ e \notin Ids
                    BY <3>2, StateType DEF Ids
                <5>2. DeliveryOK(o)
                    BY DEF DeliveriesOK
                <5>3. o = d
                    BY <4>1, <5>1, <5>2 DEF DeliveryOK
                <5>q. QED BY <1>1, <5>3
            <4>q. QED BY <1>2, <1>3, <3>2, <4>1 DEF RowTrue
        <3>q. QED BY <1>3, <3>1, <3>2
    <2>q. QED BY <1>3, <1>5, <1>7, <2>1, HistoryCommitted
<1>9. TableOK'
    <2>1. ASSUME NEW e \in Ids'
          PROVE  \/ e \in Ids /\ Table'[e].status = Table[e].status /\ Table'[e].by = Table[e].by
                 \/ e \notin Ids /\ Table'[e].by = Nobody
        BY <1>1, <1>3, <1>4, StateType DEF Ids
    <2>q. QED BY <1>5, <2>1, TableStays
<1>10. DeliveriesOK'
    <2>0. Len(Table) + 1 \in Ids' /\ Len(Table) + 1 # 0 /\ Len(Table) + 1 \notin Ids
        BY <1>4, StateType DEF Ids
    <2>1. DeliveryOK(d)'
        BY <1>2, <2>0 DEF DeliveryOK, PostsOK
    <2>2. ASSUME NEW o \in Deliveries \ {d}
          PROVE  DeliveryOK(o)'
        BY <1>5, <1>7, DeliveryKept DEF DeliveriesOK
    <2>3. OwnEvent'
        BY OwnEventStays DEF DeliveriesOK
    <2>q. QED BY <2>1, <2>2, <2>3 DEF DeliveriesOK
<1>11. CountOK'
    <2>1. Inserters' = Inserters \cup {d} /\ d \notin Inserters
        BY DEF Inserters
    <2>2. IsFiniteSet(Inserters)
        BY PipelinesAssumption, FS_Subset DEF Inserters
    <2>3. Cardinality(Inserters') = Cardinality(Inserters) + 1 /\ Cardinality(Inserters) \in Nat
        BY <2>1, <2>2, FS_AddElement, FS_CardinalityType
    <2>q. QED BY <1>3, <1>4, <2>3, StateType DEF CountOK
<1>12. PostsOK'
    BY <1>6 DEF PostsOK
<1>13. PressesOK'
    BY <1>5, <1>7, PressKept DEF PressesOK
<1>14. SignedPostShowsADecision'
    BY <1>5, <1>7, SignaturesStay
<1>15. ButtonsLeftOnlyByRace'
    BY <1>5, <1>7, ButtonsStay
<1>q. QED BY <1>5, <1>8, <1>9, <1>10, <1>11, <1>12, <1>13, <1>14, <1>15

\* The post of a request is sent, whether or not the request learns its id.
LEMMA PostInv ==
    ASSUME BoardInv, NEW d \in Deliveries, deliveries[d].pc = "send", PostEvent(d),
           UNCHANGED <<history, useReplica, presses>>,
           faults' \in Nat, faults' >= faults,
           deliveries' \in [Deliveries -> Delivery],
           \A o \in Deliveries \ {d} : deliveries'[o] = deliveries[o],
           deliveries'[d].status = deliveries[d].status,
           deliveries'[d].event = deliveries[d].event,
           \/ deliveries'[d].pc = "save" /\ deliveries'[d].message = Len(chat) + 1
           \/ deliveries'[d].pc = "done" /\ faults' > 0
    PROVE  BoardInv'
<1> USE DEF BoardInv
<1>1. PICK post : post = [event |-> deliveries[d].event, status |-> deliveries[d].status,
                          signed |-> Nobody, buttons |-> deliveries[d].status \in FinalStatuses]
    OBVIOUS
<1>2. /\ DeliveryOK(d) /\ deliveries[d] \in Delivery
      /\ deliveries[d].event # 0 /\ deliveries[d].event \in Ids
      /\ \A m \in 1..Len(chat) : chat[m].event # deliveries[d].event
    BY StateType DEF DeliveriesOK, DeliveryOK
<1>3. post \in Post /\ post.event = deliveries[d].event /\ post.signed = Nobody
    BY <1>1, <1>2 DEF Post, Delivery
<1>4. /\ chat' \in Seq(Post) /\ Len(chat') = Len(chat) + 1 /\ Len(chat) \in Nat
      /\ chat'[Len(chat) + 1] = post
      /\ \A m \in 1..Len(chat) : m \in 1..Len(chat') /\ chat'[m] = chat[m]
      /\ \A m \in 1..Len(chat') : m \in 1..Len(chat) \/ m = Len(chat) + 1
    <2>1. chat' = Append(chat, post)
        BY <1>1 DEF PostEvent
    <2>q. QED BY <1>3, <2>1, StateType, Appended
<1>5. Table' = Table /\ Ids' = Ids
    BY DEF Table, Ids
<1>6. TypeOK'
    BY <1>4 DEF TypeOK
<1>7. Keeps
    BY <1>4, <1>5 DEF Keeps
<1>8. HistoryOK'
    BY <1>6, <1>7, HistoryStays
<1>9. TableOK'
    BY <1>5, <1>6, TableStays
<1>10. DeliveriesOK'
    <2>0. Len(chat) + 1 \in 1..Len(chat')
        BY <1>4
    <2>1. DeliveryOK(d)'
        BY <1>2, <1>3, <1>4, <1>5, <2>0 DEF DeliveryOK
    <2>2. ASSUME NEW o \in Deliveries \ {d}
          PROVE  DeliveryOK(o)'
        <3>1. deliveries[o].event # 0 => deliveries[o].event # deliveries[d].event
            BY <1>2 DEF DeliveriesOK, OwnEvent
        <3>2. \A m \in 1..Len(chat') :
                 \/ m \in 1..Len(chat)
                 \/ deliveries[o].event # 0 => chat'[m].event # deliveries[o].event
            BY <1>3, <1>4, <3>1
        <3>q. QED BY <1>6, <1>7, <3>2, DeliveryKept DEF DeliveriesOK
    <2>3. OwnEvent'
        BY OwnEventStays DEF DeliveriesOK
    <2>q. QED BY <2>1, <2>2, <2>3 DEF DeliveriesOK
<1>11. CountOK'
    BY <1>5, <1>6, CountStays
<1>12. PostsOK'
    BY <1>2, <1>3, <1>4, <1>5 DEF PostsOK
<1>13. PressesOK'
    BY <1>6, <1>7, PressKept DEF PressesOK
<1>14. SignedPostShowsADecision'
    <2>1. \A m \in 1..Len(chat') :
             \/ m \in 1..Len(chat) /\ chat'[m] = chat[m]
             \/ SignatureTrue(chat[m])'
        BY <1>3, <1>4 DEF SignatureTrue
    <2>q. QED BY <1>6, <1>7, <2>1, SignaturesStay
<1>15. ButtonsLeftOnlyByRace'
    <2>1. ASSUME NEW p \in Presses, presses[p].pc = "done"
          PROVE  presses[p].event # deliveries[d].event
        BY <1>2, <2>1, PressedEvent DEF PressesOK
    <2>2. \A m \in 1..Len(chat') :
             \/ m \in 1..Len(chat) /\ chat'[m] = chat[m]
             \/ \A p \in Presses : presses'[p].pc = "done" => presses'[p].event # chat'[m].event
        BY <1>3, <1>4, <2>1
    <2>q. QED BY <1>6, <1>7, <2>2, ButtonsStay
<1>q. QED BY <1>6, <1>8, <1>9, <1>10, <1>11, <1>12, <1>13, <1>14, <1>15

\* A request gives up after a fault.
LEMMA GaveUpInv ==
    ASSUME BoardInv, NEW d \in Deliveries, deliveries[d].pc # "new",
           UNCHANGED <<history, useReplica, chat, presses>>,
           faults' \in Nat, faults' > faults,
           deliveries' = [deliveries EXCEPT ![d].pc = "done"]
    PROVE  BoardInv'
<1> USE DEF BoardInv
<1>1. /\ deliveries' \in [Deliveries -> Delivery]
      /\ deliveries'[d].pc = "done" /\ deliveries'[d].status = deliveries[d].status
      /\ deliveries'[d].event = deliveries[d].event
      /\ \A o \in Deliveries \ {d} : deliveries'[o] = deliveries[o]
    BY StateType DEF Delivery
<1>2. Table' = Table /\ Ids' = Ids /\ faults' > 0 /\ faults' >= faults
    BY StateType DEF Table, Ids
<1>3. TypeOK'
    BY <1>1 DEF TypeOK
<1>4. Keeps
    BY <1>1, <1>2 DEF Keeps
<1>5. HistoryOK'
    BY <1>3, <1>4, HistoryStays
<1>6. TableOK'
    BY <1>2, <1>3, TableStays
<1>7. DeliveriesOK'
    <2>1. DeliveryOK(d)'
        BY <1>1, <1>2 DEF DeliveriesOK, DeliveryOK
    <2>2. ASSUME NEW o \in Deliveries \ {d}
          PROVE  DeliveryOK(o)'
        BY <1>1, <1>3, <1>4, DeliveryKept DEF DeliveriesOK
    <2>3. OwnEvent'
        BY <1>1, OwnEventStays DEF DeliveriesOK
    <2>q. QED BY <2>1, <2>2, <2>3 DEF DeliveriesOK
<1>8. CountOK'
    BY <1>1, <1>2, <1>3, CountStays
<1>9. PostsOK'
    BY <1>2 DEF PostsOK
<1>10. PressesOK'
    BY <1>3, <1>4, PressKept DEF PressesOK
<1>11. SignedPostShowsADecision'
    BY <1>3, <1>4, SignaturesStay
<1>12. ButtonsLeftOnlyByRace'
    BY <1>3, <1>4, ButtonsStay
<1>q. QED BY <1>3, <1>5, <1>6, <1>7, <1>8, <1>9, <1>10, <1>11, <1>12

\* One row of the table is updated.
LEMMA RowUpdated ==
    ASSUME TypeOK, NEW e \in Ids, NEW row \in Row,
           history' = Commit(history, [Table EXCEPT ![e] = row])
    PROVE  \E t \in Seq(Row) :
              /\ history' = Commit(history, t) /\ Table' = t
              /\ history' \in Seq(Seq(Row)) /\ Len(history') > 0
              /\ Len(t) = Len(Table) /\ Ids' = Ids /\ 1..Len(t) = Ids
              /\ \A i \in Ids : t[i] = IF i = e THEN row ELSE Table[i]
<1>1. PICK t : t = [Table EXCEPT ![e] = row]
    OBVIOUS
<1>2. Table \in Seq(Row) /\ e \in 1..Len(Table)
    BY StateType DEF Ids
<1>3. /\ t \in Seq(Row) /\ Len(t) = Len(Table)
      /\ \A i \in 1..Len(Table) : t[i] = IF i = e THEN row ELSE Table[i]
    BY <1>1, <1>2, UpdatedTable
<1>4. history' = Commit(history, t)
    BY <1>1
<1>5. /\ history' \in Seq(Seq(Row)) /\ Len(history') > 0 /\ Table' = t
    BY <1>3, <1>4, StateType, CommitType DEF Table
<1>6. Ids' = Ids /\ 1..Len(t) = Ids
    BY <1>3, <1>5 DEF Ids
<1>q. QED BY <1>3, <1>4, <1>5, <1>6 DEF Ids

LEMMA SavePostInv ==
    ASSUME BoardInv, NEW d \in Deliveries, SavePost(d)
    PROVE  BoardInv'
<1> USE DEF BoardInv
<1>1. /\ deliveries[d].pc = "save"
      /\ deliveries' = [deliveries EXCEPT ![d].pc = "done"]
      /\ UNCHANGED <<useReplica, chat, presses, faults>>
    BY DEF SavePost
<1>2. PICK e, message : e = deliveries[d].event /\ message = deliveries[d].message
    OBVIOUS
<1>3. /\ DeliveryOK(d) /\ deliveries[d] \in Delivery
      /\ e # 0 /\ e \in Ids
      /\ message \in 1..Len(chat) /\ chat[message].event = e /\ message \in Nat /\ message # 0
    BY <1>1, <1>2, StateType DEF DeliveriesOK, DeliveryOK
<1>4. PICK row : row = [Table[e] EXCEPT !.message = message]
    OBVIOUS
<1>5. /\ row \in Row /\ row.message = message
      /\ row.status = Table[e].status /\ row.by = Table[e].by
    BY <1>3, <1>4, TableTrue DEF Row
<1>6. history' = Commit(history, [Table EXCEPT ![e] = row])
    BY <1>2, <1>4 DEF SavePost
<1>7. PICK t \in Seq(Row) :
        /\ history' = Commit(history, t) /\ Table' = t
        /\ history' \in Seq(Seq(Row)) /\ Len(history') > 0
        /\ Len(t) = Len(Table) /\ Ids' = Ids /\ 1..Len(t) = Ids
        /\ \A i \in Ids : t[i] = IF i = e THEN row ELSE Table[i]
    BY <1>3, <1>5, <1>6, RowUpdated
<1>8. /\ deliveries' \in [Deliveries -> Delivery]
      /\ deliveries'[d].pc = "done" /\ deliveries'[d].status = deliveries[d].status
      /\ deliveries'[d].event = deliveries[d].event
      /\ \A o \in Deliveries \ {d} : deliveries'[o] = deliveries[o]
    BY <1>1, StateType DEF Delivery
<1>9. TypeOK'
    BY <1>1, <1>7, <1>8 DEF TypeOK
<1>10. Keeps
    <2>1. \A i \in Ids : i \in Ids' /\ (Table[i].message # 0 => Table'[i].message # 0)
        BY <1>3, <1>5, <1>7
    <2>q. QED BY <1>1, <1>8, <1>9, <2>1 DEF Keeps, TypeOK
<1>11. HistoryOK'
    <2>1. ASSUME NEW i \in Ids
          PROVE  RowTrue(i, t[i])'
        <3>1. RowTrue(i, Table[i])
            BY TableTrue
        <3>2. CASE i # e
            BY <1>7, <1>10, <3>1, <3>2, RowKept
        <3>3. CASE i = e
            <4>1. \E o \in Deliveries : deliveries[o].event = e
                BY <1>2
            <4>2. RowTrue(e, row)
                BY <1>3, <1>5, <3>1, <3>3, <4>1 DEF RowTrue
            <4>3. RowTrue(e, row)'
                BY <1>3, <1>10, <4>2, RowKept
            <4>q. QED BY <1>7, <3>3, <4>3
        <3>q. QED BY <3>2, <3>3
    <2>q. QED BY <1>7, <1>9, <1>10, <2>1, HistoryCommitted
<1>12. TableOK'
    <2>1. \A i \in Ids' :
             i \in Ids /\ Table'[i].status = Table[i].status /\ Table'[i].by = Table[i].by
        BY <1>5, <1>7
    <2>q. QED BY <1>1, <1>9, <2>1, TableStays
<1>13. DeliveriesOK'
    <2>1. DeliveryOK(d)'
        BY <1>2, <1>3, <1>5, <1>7, <1>8 DEF DeliveryOK
    <2>2. ASSUME NEW o \in Deliveries \ {d}
          PROVE  DeliveryOK(o)'
        BY <1>1, <1>8, <1>9, <1>10, DeliveryKept DEF DeliveriesOK
    <2>3. OwnEvent'
        BY <1>8, OwnEventStays DEF DeliveriesOK
    <2>q. QED BY <2>1, <2>2, <2>3 DEF DeliveriesOK
<1>14. CountOK'
    BY <1>7, <1>8, <1>9, CountStays
<1>15. PostsOK'
    BY <1>1, <1>7 DEF PostsOK
<1>16. PressesOK'
    BY <1>1, <1>9, <1>10, PressKept DEF PressesOK
<1>17. SignedPostShowsADecision'
    BY <1>1, <1>9, <1>10, SignaturesStay
<1>18. ButtonsLeftOnlyByRace'
    BY <1>1, <1>9, <1>10, ButtonsStay
<1>q. QED BY <1>9, <1>11, <1>12, <1>13, <1>14, <1>15, <1>16, <1>17, <1>18

LEMMA DeliveryStepInv ==
    ASSUME BoardInv, NEW d \in Deliveries, DeliveryStep(d)
    PROVE  BoardInv'
<1>0. deliveries[d] \in Delivery /\ faults \in Nat /\ deliveries \in [Deliveries -> Delivery]
      /\ Len(Table) + 1 \in Nat /\ Len(chat) + 1 \in Nat
    BY StateType DEF BoardInv
<1>1. CASE Deliver(d)
    BY <1>1, DeliverInv
<1>2. CASE CreateEvent(d)
    <2>1. /\ deliveries' \in [Deliveries -> Delivery]
          /\ deliveries'[d].pc = "send" /\ deliveries'[d].event = Len(Table) + 1
          /\ deliveries'[d].status = deliveries[d].status
          /\ \A o \in Deliveries \ {d} : deliveries'[o] = deliveries[o]
        BY <1>0, <1>2 DEF CreateEvent, Delivery
    <2>2. /\ deliveries[d].pc = "create" /\ InsertEvent(d)
          /\ UNCHANGED <<useReplica, chat, presses>> /\ faults' \in Nat /\ faults' >= faults
        BY <1>0, <1>2 DEF CreateEvent
    <2>q. QED BY <2>1, <2>2, InsertInv
<1>3. CASE SendPost(d)
    <2>1. /\ deliveries' \in [Deliveries -> Delivery]
          /\ deliveries'[d].pc = "save" /\ deliveries'[d].message = Len(chat) + 1
          /\ deliveries'[d].status = deliveries[d].status
          /\ deliveries'[d].event = deliveries[d].event
          /\ \A o \in Deliveries \ {d} : deliveries'[o] = deliveries[o]
        BY <1>0, <1>3 DEF SendPost, Delivery
    <2>2. /\ deliveries[d].pc = "send" /\ PostEvent(d)
          /\ UNCHANGED <<history, useReplica, presses>> /\ faults' \in Nat /\ faults' >= faults
        BY <1>0, <1>3 DEF SendPost
    <2>q. QED BY <2>1, <2>2, PostInv
<1>4. CASE SavePost(d)
    BY <1>4, SavePostInv
<1>5. CASE DeliveryFailed(d)
    <2>1. /\ faults' \in Nat /\ faults' > faults /\ faults' > 0 /\ faults' >= faults
          /\ deliveries[d].pc \in {"create", "send", "save"}
          /\ deliveries' = [deliveries EXCEPT ![d].pc = "done"]
          /\ UNCHANGED <<useReplica, presses>>
        BY <1>0, <1>5 DEF DeliveryFailed, Fault
    <2>2. /\ deliveries' \in [Deliveries -> Delivery]
          /\ deliveries'[d].pc = "done"
          /\ deliveries'[d].status = deliveries[d].status
          /\ deliveries'[d].event = deliveries[d].event
          /\ \A o \in Deliveries \ {d} : deliveries'[o] = deliveries[o]
        BY <1>0, <2>1 DEF Delivery
    <2>3. CASE UNCHANGED <<history, chat>>
        BY <2>1, <2>3, GaveUpInv
    <2>4. CASE deliveries[d].pc = "create" /\ InsertEvent(d) /\ UNCHANGED chat
        BY <2>1, <2>2, <2>4, InsertInv
    <2>5. CASE deliveries[d].pc = "send" /\ PostEvent(d) /\ UNCHANGED history
        BY <2>1, <2>2, <2>5, PostInv
    <2>q. QED BY <1>5, <2>3, <2>4, <2>5 DEF DeliveryFailed
<1>q. QED BY <1>1, <1>2, <1>3, <1>4, <1>5 DEF DeliveryStep

-----------------------------------------------------------------------------
(* Decisions.                                                              *)

LEMMA PressButtonInv ==
    ASSUME BoardInv, NEW p \in Presses, PressButton(p)
    PROVE  BoardInv'
<1> USE DEF BoardInv
<1>1. PICK user \in Admins, m \in 1..Len(chat), verdict \in Verdicts :
        presses' = [presses EXCEPT ![p] = [NewPress EXCEPT !.pc = "update", !.user = user,
                                             !.event = chat[m].event, !.verdict = verdict]]
    BY DEF PressButton
<1>2. /\ presses[p].pc = "new" /\ ~presses[p].wrote
      /\ UNCHANGED <<history, useReplica, chat, deliveries, faults>>
    BY DEF PressButton, PressesOK, PressOK
<1>3. chat[m] \in Post
    BY StateType
<1>4. /\ presses' \in [Presses -> Press]
      /\ presses'[p].pc = "update" /\ presses'[p].user = user
      /\ presses'[p].event = chat[m].event /\ presses'[p].wrote = FALSE
      /\ \A q \in Presses \ {p} : presses'[q] = presses[q]
    <2>1. PICK press : press = [NewPress EXCEPT !.pc = "update", !.user = user,
                                   !.event = chat[m].event, !.verdict = verdict]
        OBVIOUS
    <2>2. /\ press \in Press /\ press.pc = "update" /\ press.user = user
          /\ press.event = chat[m].event /\ press.wrote = FALSE
        BY <1>3, <2>1 DEF NewPress, Press, Unread, Row, Post, Statuses, Verdicts
    <2>q. QED BY <1>1, <2>1, <2>2, StateType
<1>5. Table' = Table /\ Ids' = Ids
    BY <1>2 DEF Table, Ids
<1>6. TypeOK'
    BY <1>2, <1>4 DEF TypeOK
<1>7. Keeps
    BY <1>2, <1>4, <1>5, <1>6 DEF Keeps, TypeOK
<1>8. HistoryOK'
    BY <1>2, <1>6, <1>7, HistoryStays
<1>9. TableOK'
    <2>1. \A q \in Presses : presses'[q].wrote => presses'[q] = presses[q]
        BY <1>4
    <2>q. QED BY <1>2, <1>5, <1>6, <2>1, TableStays
<1>10. DeliveriesOK' /\ CountOK' /\ PostsOK'
    BY <1>2, <1>5 DEF DeliveriesOK, DeliveryOK, OwnEvent, CountOK, Inserters, PostsOK
<1>11. PressesOK'
    <2>1. PressOK(p)'
        BY <1>2, <1>4 DEF PressOK
    <2>2. \A q \in Presses \ {p} : PressOK(q)'
        BY <1>4, <1>6, <1>7, PressKept DEF PressesOK
    <2>q. QED BY <2>1, <2>2 DEF PressesOK
<1>12. SignedPostShowsADecision'
    BY <1>2, <1>6, <1>7, SignaturesStay
<1>13. ButtonsLeftOnlyByRace'
    BY <1>2, <1>4, <1>6, <1>7, ButtonsStay
<1>q. QED BY <1>6, <1>8, <1>9, <1>10, <1>11, <1>12, <1>13

\* The decision is committed, whether or not the press learns that it was.
LEMMA DecisionInv ==
    ASSUME BoardInv, NEW p \in Presses, presses[p].pc = "update", UpdateEvent(p),
           UNCHANGED <<useReplica, chat, deliveries>>,
           faults' \in Nat, faults' >= faults,
           presses' \in [Presses -> Press],
           \A q \in Presses \ {p} : presses'[q] = presses[q],
           presses'[p].wrote, presses'[p].event = presses[p].event,
           presses'[p].user = presses[p].user, presses'[p].verdict = presses[p].verdict,
           presses'[p].pc = "read" \/ (presses'[p].pc = "done" /\ faults' > 0)
    PROVE  BoardInv'
<1> USE DEF BoardInv
<1>1. PICK e, verdict, user : /\ e = presses[p].event /\ verdict = presses[p].verdict
                              /\ user = presses[p].user
    OBVIOUS
<1>2. /\ e \in Ids /\ user \in Admins /\ presses[p] \in Press /\ verdict \in Verdicts
      /\ \E m \in 1..Len(chat) : chat[m].event = e
    BY <1>1, StateType, PressedEvent DEF PressesOK, Press
<1>3. PICK row : row = [Table[e] EXCEPT !.status = verdict, !.by = user]
    OBVIOUS
<1>4. /\ row \in Row /\ row.status = verdict /\ row.by = user
      /\ row.message = Table[e].message
    BY <1>2, <1>3, TableTrue DEF Row, Statuses
<1>5. history' = Commit(history, [Table EXCEPT ![e] = row])
    <2>1. Table \in Seq(Row) /\ e \in DOMAIN Table /\ Table[e] \in Row
        BY <1>2, StateType, TableTrue DEF Ids
    <2>2. [Table EXCEPT ![e].status = verdict, ![e].by = user] = [Table EXCEPT ![e] = row]
        BY <1>3, <2>1
    <2>q. QED BY <1>1, <2>2 DEF UpdateEvent
<1>6. PICK t \in Seq(Row) :
        /\ history' = Commit(history, t) /\ Table' = t
        /\ history' \in Seq(Seq(Row)) /\ Len(history') > 0
        /\ Len(t) = Len(Table) /\ Ids' = Ids /\ 1..Len(t) = Ids
        /\ \A i \in Ids : t[i] = IF i = e THEN row ELSE Table[i]
    BY <1>2, <1>4, <1>5, RowUpdated
<1>7. TypeOK'
    BY <1>6 DEF TypeOK
<1>8. Keeps
    <2>1. \A i \in Ids : i \in Ids' /\ (Table[i].message # 0 => Table'[i].message # 0)
        BY <1>4, <1>6
    <2>q. QED BY <2>1 DEF Keeps
<1>9. Decided(e, verdict, user)'
    BY <1>1 DEF Decided
<1>10. HistoryOK'
    <2>1. ASSUME NEW i \in Ids
          PROVE  RowTrue(i, t[i])'
        <3>1. RowTrue(i, Table[i])
            BY TableTrue
        <3>2. CASE i # e
            BY <1>6, <1>8, <3>1, <3>2, RowKept
        <3>3. CASE i = e
            <4>1. PICK old : old = Table[e]
                OBVIOUS
            <4>2. RowTrue(e, old)'
                BY <1>2, <1>8, <3>1, <3>3, <4>1, RowKept
            <4>3. RowTrue(e, row)'
                BY <1>2, <1>4, <1>9, <4>1, <4>2 DEF RowTrue
            <4>q. QED BY <1>6, <3>3, <4>3
        <3>q. QED BY <3>2, <3>3
    <2>q. QED BY <1>6, <1>7, <1>8, <2>1, HistoryCommitted
<1>11. TableOK'
    <2>1. ASSUME NEW i \in Ids, i # e, NEW v, NEW u, Decided(i, v, u)'
          PROVE  Decided(i, v, u)
        <3>1. PICK q \in Presses : /\ presses'[q].wrote /\ presses'[q].event = i
                                   /\ presses'[q].verdict = v /\ presses'[q].user = u
            BY <2>1 DEF Decided
        <3>2. q # p
            BY <1>1, <2>1, <3>1
        <3>q. QED BY <3>1, <3>2 DEF Decided
    <2>2. ASSUME NEW i \in Ids, t[i].status \notin Verdicts
          PROVE  t[i].by = Nobody /\ ~\E v \in Verdicts, u \in Admins : Decided(i, v, u)'
        <3>1. i # e /\ t[i] = Table[i]
            BY <1>2, <1>4, <1>6, <2>2
        <3>2. Untouched(i)
            BY <2>2, <3>1 DEF TableOK
        <3>q. QED BY <2>1, <3>1, <3>2 DEF Untouched
    <2>q. QED BY <1>6, <2>2 DEF TableOK, Untouched
<1>12. DeliveriesOK'
    <2>1. \A d \in Deliveries : DeliveryOK(d)'
        BY <1>7, <1>8, DeliveryKept DEF DeliveriesOK
    <2>q. QED BY <2>1 DEF DeliveriesOK, OwnEvent
<1>13. CountOK' /\ PostsOK'
    BY <1>6 DEF CountOK, Inserters, PostsOK
<1>14. PressesOK'
    <2>1. PressOK(p)'
        BY <1>1, <1>2 DEF PressOK
    <2>2. \A q \in Presses \ {p} : PressOK(q)'
        BY <1>7, <1>8, PressKept DEF PressesOK
    <2>q. QED BY <2>1, <2>2 DEF PressesOK
<1>15. SignedPostShowsADecision'
    BY <1>7, <1>8, SignaturesStay
<1>16. ButtonsLeftOnlyByRace'
    BY <1>7, <1>8, ButtonsStay
<1>q. QED BY <1>7, <1>10, <1>11, <1>12, <1>13, <1>14, <1>15, <1>16

\* A press gives up after a fault.
LEMMA PressGaveUpInv ==
    ASSUME BoardInv, NEW p \in Presses, presses[p].pc # "new",
           UNCHANGED <<history, useReplica, chat, deliveries>>,
           faults' \in Nat, faults' > faults,
           presses' = [presses EXCEPT ![p].pc = "done"]
    PROVE  BoardInv'
<1> USE DEF BoardInv
<1>1. /\ presses' \in [Presses -> Press]
      /\ presses'[p].pc = "done" /\ presses'[p].wrote = presses[p].wrote
      /\ presses'[p].event = presses[p].event /\ presses'[p].user = presses[p].user
      /\ presses'[p].verdict = presses[p].verdict
      /\ \A q \in Presses \ {p} : presses'[q] = presses[q]
    BY StateType DEF Press
<1>2. Table' = Table /\ Ids' = Ids /\ faults' > 0 /\ faults' >= faults
    BY StateType DEF Table, Ids
<1>3. TypeOK'
    BY <1>1 DEF TypeOK
<1>4. Keeps
    BY <1>1, <1>2 DEF Keeps
<1>5. HistoryOK'
    BY <1>3, <1>4, HistoryStays
<1>6. TableOK'
    BY <1>1, <1>2, <1>3, TableStays
<1>7. DeliveriesOK'
    <2>1. \A d \in Deliveries : DeliveryOK(d)'
        BY <1>3, <1>4, DeliveryKept DEF DeliveriesOK
    <2>q. QED BY <2>1 DEF DeliveriesOK, OwnEvent
<1>8. CountOK' /\ PostsOK'
    BY <1>2 DEF CountOK, Inserters, PostsOK
<1>9. PressesOK'
    <2>1. PressOK(p)'
        BY <1>1 DEF PressesOK, PressOK
    <2>2. \A q \in Presses \ {p} : PressOK(q)'
        BY <1>1, <1>3, <1>4, PressKept DEF PressesOK
    <2>q. QED BY <2>1, <2>2 DEF PressesOK
<1>10. SignedPostShowsADecision'
    BY <1>3, <1>4, SignaturesStay
<1>11. ButtonsLeftOnlyByRace'
    BY <1>2, <1>3, <1>4, ButtonsStay
<1>q. QED BY <1>3, <1>5, <1>6, <1>7, <1>8, <1>9, <1>10, <1>11

\* The row that a press reads back: a version of the event's row, and without
\* a replica one that tells the decision.
LEMMA ReadBack ==
    ASSUME BoardInv, NEW p \in Presses, presses[p].pc = "read",
           NEW rows, rows = ReadPool(history, useReplica),
           NEW e, e = presses[p].event, e \in 1..Len(rows), rows[e].message # 0
    PROVE  /\ rows[e].message \in 1..Len(chat) /\ chat[rows[e].message].event = e
           /\ Shown(e, rows[e].status)
<1> USE DEF BoardInv
<1>1. presses[p].wrote /\ presses[p].user \in Admins /\ presses[p] \in Press
    BY StateType, PressedEvent DEF PressesOK, PressOK
<1>2. useReplica \in BOOLEAN
    BY DEF TypeOK, ConnectOutcomes
<1>3. PICK i \in 1..Len(history) : rows = history[i] /\ (useReplica \/ i = Len(history))
    BY <1>2, StateType, ReadPoolType
<1>4. RowTrue(e, rows[e])
    BY <1>3 DEF HistoryOK, VersionTrue
<1>5. CASE rows[e].status \in Verdicts
    <2>1. PICK q \in Presses : /\ presses[q].wrote /\ presses[q].event = e
                               /\ presses[q].verdict = rows[e].status
                               /\ presses[q].user = rows[e].by
        BY <1>4, <1>5 DEF RowTrue, Decided
    <2>2. rows[e].by \in Admins
        BY <2>1, PressedEvent DEF PressesOK
    <2>q. QED BY <1>4, <1>5, <2>2 DEF RowTrue, Shown
<1>6. CASE rows[e].status \notin Verdicts
    <2>1. Stored(e, rows[e].status)
        BY <1>4, <1>6 DEF RowTrue, Stored
    <2>2. useReplica
        <3>1. SUFFICES ASSUME ~useReplica PROVE FALSE
            OBVIOUS
        <3>2. rows = Table
            BY <1>3, <3>1 DEF Table, Primary
        <3>3. Untouched(e)
            BY <1>6, <3>2 DEF TableOK, Ids
        <3>4. Decided(e, presses[p].verdict, presses[p].user) /\ presses[p].verdict \in Verdicts
            BY <1>1 DEF Decided, Press
        <3>q. QED BY <1>1, <3>3, <3>4 DEF Untouched
    <2>q. QED BY <1>4, <2>1, <2>2 DEF RowTrue, Shown
<1>q. QED BY <1>5, <1>6

LEMMA ReadEventInv ==
    ASSUME BoardInv, NEW p \in Presses, ReadEvent(p)
    PROVE  BoardInv'
<1> USE DEF BoardInv
<1>1. PICK rows, e : rows = ReadPool(history, useReplica) /\ e = presses[p].event
    OBVIOUS
<1>2. PICK pc, seen :
        /\ pc = IF e \in 1..Len(rows) /\ rows[e].message # 0 THEN "edit" ELSE "done"
        /\ seen = IF e \in 1..Len(rows) THEN rows[e] ELSE Unread
    OBVIOUS
<1>3. /\ presses[p].pc = "read" /\ presses' = [presses EXCEPT ![p].pc = pc, ![p].seen = seen]
      /\ UNCHANGED <<history, useReplica, chat, deliveries, faults>>
    BY <1>1, <1>2 DEF ReadEvent
<1>4. seen \in Row
    <2>1. rows \in Seq(Row)
        BY <1>1, StateType, ReadPoolType DEF TypeOK, ConnectOutcomes
    <2>2. Unread \in Row
        BY DEF Unread, Row, Statuses
    <2>q. QED BY <1>2, <2>1, <2>2
<1>5. /\ presses' \in [Presses -> Press]
      /\ presses'[p].pc = pc /\ presses'[p].seen = seen
      /\ presses'[p].wrote = presses[p].wrote
      /\ presses'[p].event = e /\ presses'[p].user = presses[p].user
      /\ presses'[p].verdict = presses[p].verdict
      /\ \A q \in Presses \ {p} : presses'[q] = presses[q]
    BY <1>1, <1>2, <1>3, <1>4, StateType DEF Press
<1>6. Table' = Table /\ Ids' = Ids
    BY <1>3 DEF Table, Ids
<1>7. TypeOK'
    BY <1>3, <1>5 DEF TypeOK
<1>8. Keeps
    BY <1>1, <1>3, <1>5, <1>6, <1>7 DEF Keeps, TypeOK
<1>9. HistoryOK'
    BY <1>3, <1>7, <1>8, HistoryStays
<1>10. TableOK'
    <2>1. \A q \in Presses : /\ presses'[q].wrote = presses[q].wrote
                             /\ presses'[q].event = presses[q].event
                             /\ presses'[q].user = presses[q].user
                             /\ presses'[q].verdict = presses[q].verdict
        BY <1>1, <1>5
    <2>q. QED BY <1>3, <1>6, <1>7, <2>1, TableStays
<1>11. DeliveriesOK' /\ CountOK' /\ PostsOK'
    BY <1>3, <1>6 DEF DeliveriesOK, DeliveryOK, OwnEvent, CountOK, Inserters, PostsOK
<1>12. PressesOK'
    <2>1. /\ presses[p].wrote /\ presses[p].user \in Admins
          /\ e # 0 /\ \E m \in 1..Len(chat) : chat[m].event = e
        BY <1>1, <1>3, PressedEvent DEF PressesOK, PressOK
    <2>2. ASSUME pc = "edit"
          PROVE  /\ seen.message \in 1..Len(chat) /\ chat[seen.message].event = e
                 /\ Shown(e, seen.status)'
        <3>1. e \in 1..Len(rows) /\ rows[e].message # 0 /\ seen = rows[e]
            BY <1>2, <2>2
        <3>2. /\ seen.message \in 1..Len(chat) /\ chat[seen.message].event = e
              /\ Shown(e, seen.status)
            BY <1>1, <1>3, <3>1, ReadBack
        <3>q. QED BY <1>7, <1>8, <2>1, <3>2, ShownKept
    <2>3. PressOK(p)'
        <3>1. pc \in {"edit", "done"}
            BY <1>2
        <3>q. QED BY <1>3, <1>5, <2>1, <2>2, <3>1 DEF PressOK
    <2>4. \A q \in Presses \ {p} : PressOK(q)'
        BY <1>5, <1>7, <1>8, PressKept DEF PressesOK
    <2>q. QED BY <2>3, <2>4 DEF PressesOK
<1>13. SignedPostShowsADecision'
    BY <1>3, <1>7, <1>8, SignaturesStay
<1>14. ButtonsLeftOnlyByRace'
    <2>1. pc = "done" => seen.message = 0
        BY <1>2 DEF Unread
    <2>2. \A q \in Presses : presses'[q].pc = "done" =>
              presses'[q] = presses[q] \/ presses'[q].seen.message = 0
        BY <1>5, <2>1
    <2>q. QED BY <1>3, <1>7, <1>8, <2>2, ButtonsStay
<1>q. QED BY <1>7, <1>9, <1>10, <1>11, <1>12, <1>13, <1>14

\* The post is edited, whether or not the press learns that it was.
LEMMA SettleInv ==
    ASSUME BoardInv, NEW p \in Presses, presses[p].pc = "edit", SettlePost(p),
           UNCHANGED <<history, useReplica, deliveries>>,
           faults' \in Nat, faults' >= faults,
           presses' = [presses EXCEPT ![p].pc = "done"]
    PROVE  BoardInv'
<1> USE DEF BoardInv
<1>1. PICK m, e, post :
        /\ m = presses[p].seen.message /\ e = presses[p].event
        /\ post = [event |-> presses[p].event, status |-> presses[p].seen.status,
                   signed |-> presses[p].user, buttons |-> FALSE]
    OBVIOUS
<1>2. /\ m \in 1..Len(chat) /\ chat[m].event = e /\ e # 0 /\ e \in Ids
      /\ presses[p].wrote /\ presses[p].user \in Admins /\ presses[p] \in Press
      /\ Shown(e, presses[p].seen.status)
    BY <1>1, StateType, PressedEvent DEF PressesOK, PressOK
<1>3. /\ post \in Post /\ post.event = e /\ post.buttons = FALSE
      /\ post.signed = presses[p].user /\ post.status = presses[p].seen.status
    BY <1>1, <1>2 DEF Post, Press, Row
<1>4. /\ chat' \in Seq(Post) /\ Len(chat') = Len(chat)
      /\ \A i \in 1..Len(chat) : chat'[i] = IF i = m THEN post ELSE chat[i]
    <2>1. chat' = [chat EXCEPT ![m] = post]
        BY <1>1 DEF SettlePost
    <2>q. QED BY <1>2, <1>3, <2>1, StateType, EditedChat
<1>5. /\ presses' \in [Presses -> Press]
      /\ presses'[p].pc = "done" /\ presses'[p].wrote = presses[p].wrote
      /\ presses'[p].event = e /\ presses'[p].user = presses[p].user
      /\ presses'[p].verdict = presses[p].verdict
      /\ \A q \in Presses \ {p} : presses'[q] = presses[q]
    BY <1>1, StateType DEF Press
<1>6. Table' = Table /\ Ids' = Ids
    BY DEF Table, Ids
<1>7. TypeOK'
    BY <1>4, <1>5 DEF TypeOK
<1>8. \A i \in 1..Len(chat) : i \in 1..Len(chat') /\ chat'[i].event = chat[i].event
    BY <1>2, <1>3, <1>4
<1>9. Keeps
    BY <1>1, <1>5, <1>6, <1>8 DEF Keeps
<1>10. HistoryOK'
    BY <1>7, <1>9, HistoryStays
<1>11. TableOK'
    <2>1. \A q \in Presses : /\ presses'[q].wrote = presses[q].wrote
                             /\ presses'[q].event = presses[q].event
                             /\ presses'[q].user = presses[q].user
                             /\ presses'[q].verdict = presses[q].verdict
        BY <1>1, <1>5
    <2>q. QED BY <1>6, <1>7, <2>1, TableStays
<1>12. DeliveriesOK'
    <2>1. \A d \in Deliveries : DeliveryOK(d)'
        BY <1>4, <1>7, <1>9, DeliveryKept DEF DeliveriesOK
    <2>q. QED BY <2>1 DEF DeliveriesOK, OwnEvent
<1>13. CountOK' /\ PostsOK'
    BY <1>4, <1>6, <1>8 DEF CountOK, Inserters, PostsOK
<1>14. PressesOK'
    <2>1. PressOK(p)'
        <3>1. m \in 1..Len(chat') /\ chat'[m].event = e
            BY <1>2, <1>8
        <3>q. QED BY <1>2, <1>5, <3>1 DEF PressOK
    <2>2. \A q \in Presses \ {p} : PressOK(q)'
        BY <1>5, <1>7, <1>9, PressKept DEF PressesOK
    <2>q. QED BY <2>1, <2>2 DEF PressesOK
<1>15. SignedPostShowsADecision'
    <2>1. (\E v \in Verdicts : Decided(e, v, post.signed))'
        <3>1. PICK v : v = presses[p].verdict
            OBVIOUS
        <3>2. v \in Verdicts /\ Decided(e, v, presses[p].user)
            BY <1>1, <1>2, <3>1 DEF Decided, Press
        <3>3. Decided(e, v, post.signed)'
            BY <1>3, <1>9, <3>2, DecidedKept
        <3>q. QED BY <3>2, <3>3
    <2>2. Shown(e, post.status)'
        BY <1>2, <1>3, <1>7, <1>9, ShownKept
    <2>3. SignatureTrue(post)'
        BY <1>3, <2>1, <2>2 DEF SignatureTrue
    <2>4. \A i \in 1..Len(chat') :
             \/ i \in 1..Len(chat) /\ chat'[i] = chat[i]
             \/ SignatureTrue(chat[i])'
        BY <1>2, <1>4, <2>3
    <2>q. QED BY <1>7, <1>9, <2>4, SignaturesStay
<1>16. ButtonsLeftOnlyByRace'
    <2>1. ASSUME NEW i \in 1..Len(chat'), NEW q \in Presses, faults' = 0,
                 chat'[i].buttons, presses'[q].event = chat'[i].event, presses'[q].pc = "done"
          PROVE  presses'[q].seen.message = 0
        <3>1. i # m /\ i \in 1..Len(chat) /\ chat'[i] = chat[i] /\ faults = 0
            BY <1>3, <1>4, <2>1 DEF TypeOK
        <3>2. q # p
            BY <1>2, <1>5, <2>1, <3>1 DEF PostsOK
        <3>q. QED BY <1>5, <2>1, <3>1, <3>2 DEF ButtonsLeftOnlyByRace
    <2>q. QED BY <2>1 DEF ButtonsLeftOnlyByRace
<1>q. QED BY <1>7, <1>10, <1>11, <1>12, <1>13, <1>14, <1>15, <1>16

LEMMA PressStepInv ==
    ASSUME BoardInv, NEW p \in Presses, PressStep(p)
    PROVE  BoardInv'
<1>0. /\ presses[p] \in Press /\ faults \in Nat /\ presses \in [Presses -> Press]
      /\ TRUE \in BOOLEAN
    BY StateType DEF BoardInv
<1>1. CASE PressButton(p)
    BY <1>1, PressButtonInv
<1>2. CASE Decide(p)
    <2>1. /\ presses' \in [Presses -> Press]
          /\ presses'[p].pc = "read" /\ presses'[p].wrote
          /\ presses'[p].event = presses[p].event /\ presses'[p].user = presses[p].user
          /\ presses'[p].verdict = presses[p].verdict
          /\ \A q \in Presses \ {p} : presses'[q] = presses[q]
        <3>1. presses' = [presses EXCEPT ![p].pc = "read", ![p].wrote = TRUE]
            BY <1>2 DEF Decide
        <3>q. QED BY <1>0, <3>1 DEF Press
    <2>2. /\ presses[p].pc = "update" /\ UpdateEvent(p)
          /\ UNCHANGED <<useReplica, chat, deliveries>> /\ faults' \in Nat /\ faults' >= faults
        BY <1>0, <1>2 DEF Decide
    <2>q. QED BY <2>1, <2>2, DecisionInv
<1>3. CASE DecideFailed(p)
    <2>1. /\ faults' \in Nat /\ faults' > faults /\ faults' > 0 /\ faults' >= faults
          /\ presses[p].pc = "update" /\ UNCHANGED <<useReplica, chat, deliveries>>
        BY <1>0, <1>3 DEF DecideFailed, Fault
    <2>2. CASE UNCHANGED history /\ presses' = [presses EXCEPT ![p].pc = "done"]
        BY <2>1, <2>2, PressGaveUpInv
    <2>3. CASE UpdateEvent(p) /\ presses' = [presses EXCEPT ![p].pc = "done", ![p].wrote = TRUE]
        <3>1. /\ presses' \in [Presses -> Press]
              /\ presses'[p].pc = "done" /\ presses'[p].wrote
              /\ presses'[p].event = presses[p].event /\ presses'[p].user = presses[p].user
              /\ presses'[p].verdict = presses[p].verdict
              /\ \A q \in Presses \ {p} : presses'[q] = presses[q]
            BY <1>0, <2>3 DEF Press
        <3>q. QED BY <2>1, <2>3, <3>1, DecisionInv
    <2>q. QED BY <1>3, <2>2, <2>3 DEF DecideFailed
<1>4. CASE ReadEvent(p)
    BY <1>4, ReadEventInv
<1>5. CASE EditPost(p)
    <2>1. /\ presses[p].pc = "edit" /\ SettlePost(p)
          /\ UNCHANGED <<history, useReplica, deliveries>> /\ faults' \in Nat /\ faults' >= faults
          /\ presses' = [presses EXCEPT ![p].pc = "done"]
        BY <1>0, <1>5 DEF EditPost
    <2>q. QED BY <2>1, SettleInv
<1>6. CASE PressFailed(p)
    <2>1. /\ faults' \in Nat /\ faults' > faults /\ faults' >= faults
          /\ presses[p].pc # "new" /\ UNCHANGED <<history, useReplica, deliveries>>
          /\ presses' = [presses EXCEPT ![p].pc = "done"]
        BY <1>0, <1>6 DEF PressFailed, Fault
    <2>2. CASE UNCHANGED chat
        BY <2>1, <2>2, PressGaveUpInv
    <2>3. CASE presses[p].pc = "edit" /\ SettlePost(p)
        BY <2>1, <2>3, SettleInv
    <2>q. QED BY <1>6, <2>2, <2>3 DEF PressFailed
<1>q. QED BY <1>1, <1>2, <1>3, <1>4, <1>5, <1>6 DEF PressStep

LEMMA RestartInv ==
    ASSUME BoardInv, Restart
    PROVE  BoardInv'
<1> USE DEF BoardInv
<1>1. /\ faults' \in Nat /\ faults' > 0 /\ faults' >= faults
      /\ useReplica' \in ConnectOutcomes /\ UNCHANGED <<history, chat>>
    BY StateType DEF Restart, Fault
<1>2. /\ deliveries' \in [Deliveries -> Delivery]
      /\ \A d \in Deliveries :
            /\ deliveries'[d].event = deliveries[d].event
            /\ deliveries'[d].status = deliveries[d].status
            /\ deliveries'[d] = deliveries[d] \/ (deliveries[d].pc # "new" /\ deliveries'[d].pc = "done")
    <2>1. deliveries' = [d \in Deliveries |->
             IF deliveries[d].pc = "new" THEN deliveries[d] ELSE [deliveries[d] EXCEPT !.pc = "done"]]
        BY DEF Restart
    <2>2. ASSUME NEW x \in Delivery
          PROVE  /\ [x EXCEPT !.pc = "done"] \in Delivery /\ [x EXCEPT !.pc = "done"].pc = "done"
                 /\ [x EXCEPT !.pc = "done"].event = x.event
                 /\ [x EXCEPT !.pc = "done"].status = x.status
        BY DEF Delivery
    <2>3. ASSUME NEW d \in Deliveries
          PROVE  /\ deliveries'[d] \in Delivery
                 /\ deliveries'[d].event = deliveries[d].event
                 /\ deliveries'[d].status = deliveries[d].status
                 /\ deliveries'[d] = deliveries[d] \/ (deliveries[d].pc # "new" /\ deliveries'[d].pc = "done")
        <3>1. deliveries[d] \in Delivery
            BY StateType
        <3>2. CASE deliveries[d].pc = "new"
            BY <2>1, <3>1, <3>2
        <3>3. CASE deliveries[d].pc # "new"
            <4>1. deliveries'[d] = [deliveries[d] EXCEPT !.pc = "done"]
                BY <2>1, <3>3
            <4>q. QED BY <2>2, <3>1, <3>3, <4>1
        <3>q. QED BY <3>2, <3>3
    <2>q. QED BY <2>1, <2>3
<1>3. /\ presses' \in [Presses -> Press]
      /\ \A p \in Presses :
            /\ presses'[p].event = presses[p].event /\ presses'[p].user = presses[p].user
            /\ presses'[p].verdict = presses[p].verdict /\ presses'[p].wrote = presses[p].wrote
            /\ presses'[p] = presses[p] \/ (presses[p].pc # "new" /\ presses'[p].pc = "done")
    <2>1. presses' = [p \in Presses |->
             IF presses[p].pc = "new" THEN presses[p] ELSE [presses[p] EXCEPT !.pc = "done"]]
        BY DEF Restart
    <2>2. ASSUME NEW x \in Press
          PROVE  /\ [x EXCEPT !.pc = "done"] \in Press /\ [x EXCEPT !.pc = "done"].pc = "done"
                 /\ [x EXCEPT !.pc = "done"].event = x.event /\ [x EXCEPT !.pc = "done"].user = x.user
                 /\ [x EXCEPT !.pc = "done"].verdict = x.verdict
                 /\ [x EXCEPT !.pc = "done"].wrote = x.wrote
        BY DEF Press
    <2>3. ASSUME NEW p \in Presses
          PROVE  /\ presses'[p] \in Press
                 /\ presses'[p].event = presses[p].event /\ presses'[p].user = presses[p].user
                 /\ presses'[p].verdict = presses[p].verdict /\ presses'[p].wrote = presses[p].wrote
                 /\ presses'[p] = presses[p] \/ (presses[p].pc # "new" /\ presses'[p].pc = "done")
        <3>1. presses[p] \in Press
            BY StateType
        <3>2. CASE presses[p].pc = "new"
            BY <2>1, <3>1, <3>2
        <3>3. CASE presses[p].pc # "new"
            <4>1. presses'[p] = [presses[p] EXCEPT !.pc = "done"]
                BY <2>1, <3>3
            <4>q. QED BY <2>2, <3>1, <3>3, <4>1
        <3>q. QED BY <3>2, <3>3
    <2>q. QED BY <2>1, <2>3
<1>4. Table' = Table /\ Ids' = Ids
    BY <1>1 DEF Table, Ids
<1>5. TypeOK'
    BY <1>1, <1>2, <1>3 DEF TypeOK
<1>6. Keeps
    BY <1>1, <1>2, <1>3, <1>4 DEF Keeps
<1>7. HistoryOK'
    BY <1>1, <1>5, <1>6, HistoryStays
<1>8. TableOK'
    BY <1>3, <1>4, <1>5, TableStays
<1>9. DeliveriesOK'
    <2>1. ASSUME NEW d \in Deliveries
          PROVE  DeliveryOK(d)'
        <3>1. CASE deliveries'[d] = deliveries[d]
            BY <1>1, <1>5, <1>6, <3>1, DeliveryKept DEF DeliveriesOK
        <3>2. CASE deliveries'[d].pc = "done"
            BY <1>1, <1>2, <1>4, <3>2 DEF DeliveriesOK, DeliveryOK
        <3>q. QED BY <1>2, <3>1, <3>2
    <2>2. OwnEvent'
        BY <1>2 DEF DeliveriesOK, OwnEvent
    <2>q. QED BY <2>1, <2>2 DEF DeliveriesOK
<1>10. CountOK'
    <2>1. \A d \in Deliveries : deliveries[d].pc \notin {"new", "create"} =>
              deliveries'[d].pc \notin {"new", "create"}
        BY <1>2
    <2>q. QED BY <1>4, <1>5, <2>1, CountStays
<1>11. PostsOK'
    BY <1>1, <1>4 DEF PostsOK
<1>12. PressesOK'
    <2>1. ASSUME NEW p \in Presses
          PROVE  PressOK(p)'
        <3>1. CASE presses'[p] = presses[p]
            BY <1>5, <1>6, <3>1, PressKept DEF PressesOK
        <3>2. CASE presses[p].pc # "new" /\ presses'[p].pc = "done"
            BY <1>1, <1>3, <3>2 DEF PressesOK, PressOK
        <3>q. QED BY <1>3, <3>1, <3>2
    <2>q. QED BY <2>1 DEF PressesOK
<1>13. SignedPostShowsADecision'
    BY <1>1, <1>5, <1>6, SignaturesStay
<1>14. ButtonsLeftOnlyByRace'
    BY <1>1 DEF ButtonsLeftOnlyByRace
<1>q. QED BY <1>5, <1>7, <1>8, <1>9, <1>10, <1>11, <1>12, <1>13, <1>14

LEMMA NextInv == BoardInv /\ [Next]_vars => BoardInv'
<1> SUFFICES ASSUME BoardInv, [Next]_vars PROVE BoardInv'
    OBVIOUS
<1>1. CASE Next
    BY <1>1, CatchUpInv, DeliveryStepInv, PressStepInv, RestartInv DEF Next
<1>2. CASE UNCHANGED vars
    BY <1>2 DEF vars, BoardInv, TypeOK, HistoryOK, VersionTrue, RowTrue, TableOK, Untouched,
        DeliveriesOK, DeliveryOK, OwnEvent, CountOK, Inserters, PostsOK, PressesOK, PressOK,
        Shown, Stored, Decided, Ids, Table, SignedPostShowsADecision, ButtonsLeftOnlyByRace
<1>q. QED BY <1>1, <1>2

LEMMA BoardSafe == Spec => []BoardInv
    BY InitInv, NextInv, PTL DEF Spec

-----------------------------------------------------------------------------
\* Every variable keeps its type: an UPDATE meets an event that has a row, an
\* edit a post that was sent, and no CI system can store a verdict.
THEOREM TypeCorrect == Spec => []TypeOK
<1>1. BoardInv => TypeOK
    BY DEF BoardInv
<1>q. QED BY <1>1, BoardSafe, PTL

\* However many requests and presses cross each other, fail and are cut short
\* by restarts, the row of an event tells a decision that was taken as soon as
\* one was, and who took it (Approve, Reject, UpdateTGMessage).
THEOREM RowsTellDecisions == Spec => []RowTellsADecision
<1>1. BoardInv => RowTellsADecision
    BY TableTrue DEF BoardInv, RowTellsADecision, RowTrue, TableOK, Untouched
<1>q. QED BY <1>1, BoardSafe, PTL

\* The post whose id a row holds is that of its own event, and the row of a
\* request that met no fault holds one (saveAndNotify, Notify).
THEOREM RowsKnowTheirPosts == Spec => []RowKnowsItsPost
<1>1. BoardInv => RowKnowsItsPost
    BY TableTrue DEF BoardInv, RowKnowsItsPost, RowTrue, DeliveriesOK, DeliveryOK
<1>q. QED BY <1>1, BoardSafe, PTL

\* A signed post names somebody who decided on its event and shows a decision
\* on it, or what the webhook stored where a replica is read (NotifyUpdate).
THEOREM SignedPostsShowDecisions == Spec => []SignedPostShowsADecision
<1>1. BoardInv => SignedPostShowsADecision
    BY DEF BoardInv
<1>q. QED BY <1>1, BoardSafe, PTL

\* Buttons outlive a decision only when every press on the event that went
\* through found no post in the row it read (GetByID, NotifyUpdate).
THEOREM ButtonsRemoved == Spec => []ButtonsLeftOnlyByRace
<1>1. BoardInv => ButtonsLeftOnlyByRace
    BY DEF BoardInv
<1>q. QED BY <1>1, BoardSafe, PTL

-----------------------------------------------------------------------------
(* The refinement of DecisionBoard.                                        *)

\* Every event that has a row is an event of the board.
LEMMA EventsOfRows == BoardInv => Ids \subseteq Events
<1> SUFFICES ASSUME BoardInv PROVE Ids \subseteq Events
    OBVIOUS
<1>1. Inserters \subseteq Deliveries /\ IsFiniteSet(Deliveries)
    BY PipelinesAssumption DEF Inserters
<1>2. Cardinality(Inserters) =< Cardinality(Deliveries) /\ Cardinality(Deliveries) \in Nat
      /\ Cardinality(Inserters) \in Nat
    BY <1>1, FS_Subset, FS_CardinalityType
<1>q. QED BY <1>2, StateType DEF BoardInv, CountOK, Ids, Events

\* The verdicts stand as long as the status and the author of every row do,
\* and a row that is new tells none.
LEMMA StandingStays ==
    ASSUME \A e \in Ids : e \in Ids',
           \A e \in Ids' :
              \/ e \in Ids /\ Table'[e].status = Table[e].status /\ Table'[e].by = Table[e].by
              \/ e \notin Ids /\ Table'[e].status \notin Verdicts
    PROVE  Standing' = Standing
<1>1. ASSUME NEW e \in Events
      PROVE  EventVerdict(e)' = EventVerdict(e)
    BY DEF EventVerdict
<1>q. QED BY <1>1 DEF Standing

LEMMA BoardInit == Init => Board!BoardInit
<1> SUFFICES ASSUME Init PROVE Board!BoardInit
    OBVIOUS
<1>1. Len(chat) = 0 /\ Ids = {}
    BY DEF Init, Ids, Table, Primary
<1>2. Posted = {}
    BY <1>1 DEF Posted
<1>3. Standing = [e \in Events |-> NoVerdict]
    BY <1>1 DEF Standing, EventVerdict
<1>q. QED BY <1>2, <1>3 DEF Board!BoardInit

LEMMA InsertStutters ==
    ASSUME BoardInv, NEW d \in Deliveries, DeliveryOK(d), InsertEvent(d), UNCHANGED chat
    PROVE  UNCHANGED Board!boardVars
<1>1. /\ Table \in Seq(Row) /\ Len(Table) \in Nat /\ deliveries[d] \in Delivery
      /\ Len(history) > 0 /\ history \in Seq(Seq(Row))
    BY StateType DEF BoardInv
<1>2. PICK row : row = [status |-> deliveries[d].status, by |-> Nobody, message |-> 0]
    OBVIOUS
<1>3. row \in Row /\ row.status \notin Verdicts
    BY <1>1, <1>2 DEF Row, Delivery, DeliveryOK
<1>4. PICK t : t = Append(Table, row)
    OBVIOUS
<1>5. /\ t \in Seq(Row) /\ Len(t) = Len(Table) + 1 /\ t[Len(Table) + 1] = row
      /\ \A i \in 1..Len(Table) : t[i] = Table[i]
    BY <1>1, <1>3, <1>4, Appended
<1>6. Table' = t
    BY <1>1, <1>2, <1>4, <1>5, CommitType DEF InsertEvent, Table
<1>7. \A e \in Ids : e \in Ids' /\ Table'[e] = Table[e]
    BY <1>1, <1>5, <1>6 DEF Ids
<1>8. \A e \in Ids' : e \in Ids \/ Table'[e].status \notin Verdicts
    BY <1>1, <1>3, <1>5, <1>6 DEF Ids
<1>9. Standing' = Standing
    <2>1. \A e \in Ids' :
             \/ e \in Ids /\ Table'[e].status = Table[e].status /\ Table'[e].by = Table[e].by
             \/ e \notin Ids /\ Table'[e].status \notin Verdicts
        BY <1>7, <1>8
    <2>q. QED BY <1>7, <2>1, StandingStays
<1>q. QED BY <1>9 DEF Posted, Board!boardVars

LEMMA PostImplements ==
    ASSUME BoardInv, NEW d \in Deliveries, deliveries[d].pc = "send", PostEvent(d),
           UNCHANGED history
    PROVE  \E e \in Events, offered \in BOOLEAN : Board!Post(e, offered)
<1>1. PICK e, offered : /\ e = deliveries[d].event
                        /\ offered = (deliveries[d].status \in FinalStatuses)
    OBVIOUS
<1>2. /\ DeliveryOK(d) /\ deliveries[d] \in Delivery /\ e \in Events /\ offered \in BOOLEAN
      /\ \A m \in 1..Len(chat) : chat[m].event # e
    BY <1>1, StateType, EventsOfRows DEF BoardInv, DeliveriesOK, DeliveryOK
<1>3. \A old \in BOOLEAN : <<e, old>> \notin Posted
    BY <1>2 DEF Posted
<1>4. PICK post : post = [event |-> e, status |-> deliveries[d].status,
                          signed |-> Nobody, buttons |-> offered]
    OBVIOUS
<1>5. post \in Post
    BY <1>1, <1>2, <1>4 DEF Post, Delivery
<1>6. /\ Len(chat) \in Nat /\ Len(chat') = Len(chat) + 1 /\ chat'[Len(chat) + 1] = post
      /\ \A m \in 1..Len(chat) : chat'[m] = chat[m]
    BY <1>1, <1>4, <1>5, StateType, Appended DEF BoardInv, PostEvent
<1>7. Posted' = Posted \cup {<<e, offered>>}
    <2>1. ASSUME NEW x \in Posted'
          PROVE  x \in Posted \cup {<<e, offered>>}
        <3>1. PICK m \in 1..Len(chat') : x = <<chat'[m].event, chat'[m].buttons>>
            BY DEF Posted
        <3>2. m \in 1..Len(chat) \/ m = Len(chat) + 1
            BY <1>6
        <3>q. QED BY <1>4, <1>6, <3>1, <3>2 DEF Posted
    <2>2. ASSUME NEW x \in Posted
          PROVE  x \in Posted'
        <3>1. PICK m \in 1..Len(chat) : x = <<chat[m].event, chat[m].buttons>>
            BY DEF Posted
        <3>2. m \in 1..Len(chat') /\ chat'[m] = chat[m]
            BY <1>6
        <3>q. QED BY <3>1, <3>2 DEF Posted
    <2>3. <<e, offered>> \in Posted'
        <3>1. Len(chat) + 1 \in 1..Len(chat')
            BY <1>6
        <3>q. QED BY <1>4, <1>6, <3>1 DEF Posted
    <2>q. QED BY <2>1, <2>2, <2>3
<1>8. Standing' = Standing
    BY DEF Standing, EventVerdict, Ids, Table
<1>9. Board!Post(e, offered)
    BY <1>3, <1>7, <1>8 DEF Board!Post
<1>q. QED BY <1>2, <1>9

LEMMA DecisionImplements ==
    ASSUME BoardInv, NEW p \in Presses, presses[p].pc = "update", UpdateEvent(p), UNCHANGED chat
    PROVE  \E e \in Events, v \in Verdicts \X Admins : Board!Decide(e, v)
<1> USE DEF BoardInv
<1>1. PICK e, verdict, user : /\ e = presses[p].event /\ verdict = presses[p].verdict
                              /\ user = presses[p].user
    OBVIOUS
<1>2. /\ e \in Ids /\ e \in Events /\ user \in Admins /\ verdict \in Verdicts
    BY <1>1, StateType, PressedEvent, EventsOfRows DEF PressesOK, Press
<1>3. \E offered \in BOOLEAN : <<e, offered>> \in Posted
    <2>1. PICK m \in 1..Len(chat) : chat[m].event = e
        BY <1>1, PressedEvent DEF PressesOK
    <2>2. chat[m] \in Post
        BY StateType
    <2>3. chat[m].buttons \in BOOLEAN
        BY <2>2 DEF Post
    <2>q. QED BY <2>1, <2>3 DEF Posted
<1>4. PICK row : row = [Table[e] EXCEPT !.status = verdict, !.by = user]
    OBVIOUS
<1>5. row \in Row /\ row.status = verdict /\ row.by = user
    BY <1>2, <1>4, TableTrue DEF Row, Statuses
<1>6. history' = Commit(history, [Table EXCEPT ![e] = row])
    <2>1. Table \in Seq(Row) /\ e \in DOMAIN Table /\ Table[e] \in Row
        BY <1>2, StateType, TableTrue DEF Ids
    <2>2. [Table EXCEPT ![e].status = verdict, ![e].by = user] = [Table EXCEPT ![e] = row]
        BY <1>4, <2>1
    <2>q. QED BY <1>1, <2>2 DEF UpdateEvent
<1>7. PICK t \in Seq(Row) :
        /\ history' = Commit(history, t) /\ Table' = t
        /\ history' \in Seq(Seq(Row)) /\ Len(history') > 0
        /\ Len(t) = Len(Table) /\ Ids' = Ids /\ 1..Len(t) = Ids
        /\ \A i \in Ids : t[i] = IF i = e THEN row ELSE Table[i]
    BY <1>2, <1>5, <1>6, RowUpdated
<1>8. \A i \in Events : EventVerdict(i)' = IF i = e THEN <<verdict, user>> ELSE EventVerdict(i)
    BY <1>2, <1>5, <1>7 DEF EventVerdict
<1>9. Standing' = [Standing EXCEPT ![e] = <<verdict, user>>]
    BY <1>2, <1>8 DEF Standing
<1>10. Posted' = Posted
    BY DEF Posted
<1>11. Board!Decide(e, <<verdict, user>>)
    BY <1>3, <1>9, <1>10 DEF Board!Decide
<1>q. QED BY <1>2, <1>11

LEMMA SettleImplements ==
    ASSUME BoardInv, NEW p \in Presses, presses[p].pc = "edit", SettlePost(p), UNCHANGED history
    PROVE  \E e \in Events : Board!Settle(e)
<1> USE DEF BoardInv
<1>1. PICK m, e, post :
        /\ m = presses[p].seen.message /\ e = presses[p].event
        /\ post = [event |-> presses[p].event, status |-> presses[p].seen.status,
                   signed |-> presses[p].user, buttons |-> FALSE]
    OBVIOUS
<1>2. /\ m \in 1..Len(chat) /\ chat[m].event = e /\ e \in Ids /\ e \in Events
      /\ presses[p].wrote /\ presses[p].user \in Admins /\ presses[p] \in Press
    BY <1>1, StateType, PressedEvent, EventsOfRows DEF PressesOK, PressOK
<1>3. post \in Post /\ post.event = e /\ post.buttons = FALSE
    BY <1>1, <1>2 DEF Post, Press, Row
<1>4. /\ Len(chat') = Len(chat)
      /\ \A i \in 1..Len(chat) : chat'[i] = IF i = m THEN post ELSE chat[i]
    <2>1. chat' = [chat EXCEPT ![m] = post]
        BY <1>1 DEF SettlePost
    <2>q. QED BY <1>2, <1>3, <2>1, StateType, EditedChat
<1>5. Standing[e] # NoVerdict
    <2>1. Decided(e, presses[p].verdict, presses[p].user) /\ presses[p].verdict \in Verdicts
        BY <1>1, <1>2 DEF Decided, Press
    <2>2. Table[e].status \in Verdicts
        BY <1>2, <2>1 DEF TableOK, Untouched
    <2>3. Decided(e, Table[e].status, Table[e].by)
        BY <1>2, <2>2, TableTrue DEF RowTrue
    <2>4. Table[e].by \in Admins
        BY <2>3, PressedEvent DEF Decided, PressesOK
    <2>q. QED BY <1>2, <2>2, <2>4, PipelinesAssumption DEF Standing, EventVerdict, NoVerdict
<1>6. Posted' = (Posted \ {<<e, TRUE>>}) \cup {<<e, FALSE>>}
    <2>1. ASSUME NEW x \in Posted'
          PROVE  x \in (Posted \ {<<e, TRUE>>}) \cup {<<e, FALSE>>}
        <3>1. PICK i \in 1..Len(chat') : x = <<chat'[i].event, chat'[i].buttons>>
            BY DEF Posted
        <3>2. CASE i = m
            BY <1>2, <1>3, <1>4, <3>1, <3>2
        <3>3. CASE i # m
            <4>1. i \in 1..Len(chat) /\ chat'[i] = chat[i] /\ chat[i].event # e
                BY <1>2, <1>4, <3>3 DEF PostsOK
            <4>q. QED BY <3>1, <4>1 DEF Posted
        <3>q. QED BY <3>2, <3>3
    <2>2. ASSUME NEW x \in Posted, x # <<e, TRUE>>
          PROVE  x \in Posted'
        <3>1. PICK i \in 1..Len(chat) : x = <<chat[i].event, chat[i].buttons>>
            BY DEF Posted
        <3>2. chat[i].buttons \in BOOLEAN
            <4>1. chat[i] \in Post
                BY StateType
            <4>q. QED BY <4>1 DEF Post
        <3>3. CASE i = m
            BY <1>2, <1>3, <1>4, <2>2, <3>1, <3>2, <3>3 DEF Posted
        <3>4. CASE i # m
            BY <1>4, <3>1, <3>4 DEF Posted
        <3>q. QED BY <3>3, <3>4
    <2>3. <<e, FALSE>> \in Posted'
        BY <1>2, <1>3, <1>4 DEF Posted
    <2>q. QED BY <2>1, <2>2, <2>3
<1>7. Standing' = Standing
    BY DEF Standing, EventVerdict, Ids, Table
<1>8. Board!Settle(e)
    BY <1>5, <1>6, <1>7 DEF Board!Settle
<1>q. QED BY <1>2, <1>8

LEMMA SaveStutters ==
    ASSUME BoardInv, NEW d \in Deliveries, SavePost(d)
    PROVE  UNCHANGED Board!boardVars
<1> USE DEF BoardInv
<1>1. PICK e, message : e = deliveries[d].event /\ message = deliveries[d].message
    OBVIOUS
<1>2. deliveries[d] \in Delivery /\ e \in Ids /\ message \in Nat
    BY <1>1, StateType DEF SavePost, DeliveriesOK, DeliveryOK, Delivery
<1>3. PICK row : row = [Table[e] EXCEPT !.message = message]
    OBVIOUS
<1>4. row \in Row /\ row.status = Table[e].status /\ row.by = Table[e].by
    BY <1>2, <1>3, TableTrue DEF Row
<1>5. history' = Commit(history, [Table EXCEPT ![e] = row])
    BY <1>1, <1>3 DEF SavePost
<1>6. PICK t \in Seq(Row) :
        /\ history' = Commit(history, t) /\ Table' = t
        /\ history' \in Seq(Seq(Row)) /\ Len(history') > 0
        /\ Len(t) = Len(Table) /\ Ids' = Ids /\ 1..Len(t) = Ids
        /\ \A i \in Ids : t[i] = IF i = e THEN row ELSE Table[i]
    BY <1>2, <1>4, <1>5, RowUpdated
<1>7. \A i \in Ids' :
         i \in Ids /\ Table'[i].status = Table[i].status /\ Table'[i].by = Table[i].by
    BY <1>4, <1>6
<1>8. Standing' = Standing
    BY <1>6, <1>7, StandingStays
<1>q. QED BY <1>8 DEF SavePost, Posted, Board!boardVars

\* A step that touches neither the table nor the chat is none of the board's.
LEMMA QuietStutters ==
    ASSUME UNCHANGED <<history, chat>>
    PROVE  UNCHANGED Board!boardVars
    BY DEF Board!boardVars, Posted, Standing, EventVerdict, Ids, Table

LEMMA DeliveryImplements ==
    ASSUME BoardInv, NEW d \in Deliveries, DeliveryStep(d)
    PROVE  Board!BoardNext \/ UNCHANGED Board!boardVars
<1>0. DeliveryOK(d)
    BY DEF BoardInv, DeliveriesOK
<1>1. CASE Deliver(d)
    BY <1>1, QuietStutters DEF Deliver
<1>2. CASE CreateEvent(d)
    BY <1>0, <1>2, InsertStutters DEF CreateEvent
<1>3. CASE SendPost(d)
    BY <1>3, PostImplements DEF SendPost, Board!BoardNext
<1>4. CASE SavePost(d)
    BY <1>4, SaveStutters
<1>5. CASE DeliveryFailed(d)
    <2>1. CASE UNCHANGED <<history, chat>>
        BY <2>1, QuietStutters
    <2>2. CASE deliveries[d].pc = "create" /\ InsertEvent(d) /\ UNCHANGED chat
        BY <1>0, <2>2, InsertStutters
    <2>3. CASE deliveries[d].pc = "send" /\ PostEvent(d) /\ UNCHANGED history
        BY <2>3, PostImplements DEF Board!BoardNext
    <2>q. QED BY <1>5, <2>1, <2>2, <2>3 DEF DeliveryFailed
<1>q. QED BY <1>1, <1>2, <1>3, <1>4, <1>5 DEF DeliveryStep

LEMMA PressImplements ==
    ASSUME BoardInv, NEW p \in Presses, PressStep(p)
    PROVE  Board!BoardNext \/ UNCHANGED Board!boardVars
<1>1. CASE PressButton(p)
    BY <1>1, QuietStutters DEF PressButton
<1>2. CASE Decide(p)
    BY <1>2, DecisionImplements DEF Decide, Board!BoardNext
<1>3. CASE DecideFailed(p)
    <2>1. CASE UNCHANGED history
        BY <1>3, <2>1, QuietStutters DEF DecideFailed
    <2>2. CASE UpdateEvent(p)
        BY <1>3, <2>2, DecisionImplements DEF DecideFailed, Board!BoardNext
    <2>q. QED BY <1>3, <2>1, <2>2 DEF DecideFailed
<1>4. CASE ReadEvent(p)
    BY <1>4, QuietStutters DEF ReadEvent
<1>5. CASE EditPost(p)
    BY <1>5, SettleImplements DEF EditPost, Board!BoardNext
<1>6. CASE PressFailed(p)
    <2>1. CASE UNCHANGED chat
        BY <1>6, <2>1, QuietStutters DEF PressFailed
    <2>2. CASE presses[p].pc = "edit" /\ SettlePost(p)
        BY <1>6, <2>2, SettleImplements DEF PressFailed, Board!BoardNext
    <2>q. QED BY <1>6, <2>1, <2>2 DEF PressFailed
<1>q. QED BY <1>1, <1>2, <1>3, <1>4, <1>5, <1>6 DEF PressStep

LEMMA StepImplements == BoardInv /\ [Next]_vars => [Board!BoardNext]_(Board!boardVars)
<1> SUFFICES ASSUME BoardInv, [Next]_vars
             PROVE  Board!BoardNext \/ UNCHANGED Board!boardVars
    OBVIOUS
<1>1. CASE ReplicaCatchesUp
    <2>1. Table' = Table /\ Ids' = Ids
        BY <1>1, StateType, ReplayType DEF BoardInv, ReplicaCatchesUp, Table, Ids
    <2>2. Standing' = Standing
        BY <2>1 DEF Standing, EventVerdict
    <2>q. QED BY <1>1, <2>2 DEF ReplicaCatchesUp, Posted, Board!boardVars
<1>2. ASSUME NEW d \in Deliveries, DeliveryStep(d)
      PROVE  Board!BoardNext \/ UNCHANGED Board!boardVars
    BY <1>2, DeliveryImplements
<1>3. ASSUME NEW p \in Presses, PressStep(p)
      PROVE  Board!BoardNext \/ UNCHANGED Board!boardVars
    BY <1>3, PressImplements
<1>4. CASE Restart
    BY <1>4, QuietStutters DEF Restart
<1>5. CASE UNCHANGED vars
    BY <1>5, QuietStutters DEF vars
<1>q. QED BY <1>1, <1>2, <1>3, <1>4, <1>5 DEF Next

\* The chat keeps its promise: one post per event, settled only after a
\* decision on it was committed and never offered again, and no decision is
\* withdrawn, whatever the requests, the presses and the faults.
THEOREM BoardImplemented == Spec => ImplementsBoard
<1>1. Init => Board!BoardInit
    BY BoardInit
<1>q. QED BY <1>1, StepImplements, BoardSafe, PTL DEF Spec, ImplementsBoard, Board!BoardSpec

=============================================================================
