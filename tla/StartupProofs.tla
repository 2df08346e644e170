--------------------------- MODULE StartupProofs ---------------------------
(***************************************************************************)
(* What holds of Startup for every number of instances, migrations, images *)
(* deployed and faults, with and without a replica.                        *)
(***************************************************************************)
EXTENDS Startup, StorageProofs, WellFoundedInduction, TLAPS

-----------------------------------------------------------------------------
(* The inductive invariant.  What an instance knows, it knows of the         *)
(* primary, where nothing is ever taken back.                              *)

\* The schema is the files 1..k for some k, and the rows say so.
LogOK ==
    /\ \A k \in 1..Len(Now.effects) : Now.effects[k] = k
    /\ Now.recorded = 1..Len(Now.effects)

\* The admin is inserted once, and no reader is shown more than there is.
AdminOK ==
    /\ Now.admins <= 1
    /\ \A k \in 1..Len(db) : db[k].admins <= Now.admins

\* An open transaction that changed the schema is at the next file; one that
\* did not is at a file that is recorded, and will not get past its INSERT.
TransactionOK(p, version) ==
    /\ p.changed => p.pc \in {"insert", "commit"} /\ p.file = Len(version.effects) + 1
    /\ p.pc = "commit" => p.changed
    /\ p.pc = "insert" /\ ~p.changed => p.file \in version.recorded

\* The files an instance left behind are recorded.
ProgressOK(p, version) ==
    /\ p.seen \subseteq version.recorded
    /\ p.pc \in {"down", "look", "track", "read"} => p.file = 0
    /\ p.pc = "next" => 1..p.file \subseteq version.recorded
    /\ p.pc \in {"exec", "insert", "commit"} =>
          p.file \in 1..p.image /\ 1..(p.file - 1) \subseteq version.recorded
    /\ p.pc \in {"count", "create", "serve"} => 1..p.image \subseteq version.recorded
    /\ p.pc = "serve" => version.admins = 1

\* Never two at the next file.
AloneOK == \A i, j \in Instances : procs[i].changed /\ procs[j].changed => i = j

MigrationInv ==
    /\ TypeOK /\ LogOK /\ AdminOK /\ AloneOK
    /\ \A i \in Instances : TransactionOK(procs[i], Now) /\ ProgressOK(procs[i], Now)

-----------------------------------------------------------------------------
(* Operators of the model.                                                 *)

\* A set of natural numbers that is not empty has a least element.
LEMMA MinType ==
    ASSUME NEW S \in SUBSET Nat, S # {}
    PROVE  Min(S) \in S /\ \A y \in S : Min(S) <= y
<1> DEFINE R == OpToRel(<, Nat)
<1>1. IsWellFoundedOn(R, Nat)
    BY NatLessThanWellFounded
<1>2. \A x, y \in Nat : y < x => <<y, x>> \in R
    BY DEF OpToRel
<1> HIDE DEF R
<1>3. PICK x \in S : \A y \in S : <<y, x>> \notin R
    BY <1>1, WFMin
<1>4. ASSUME NEW y \in S PROVE x <= y
    <2>1. x \in Nat /\ y \in Nat /\ ~(y < x)
        BY <1>2, <1>3
    <2>q. QED BY <2>1
<1>q. QED BY <1>3, <1>4 DEF Min

\* What the primary of a database holds.
LEMMA PrimaryDatabase ==
    ASSUME NEW h \in Seq(Database), h # <<>>
    PROVE  /\ Len(h) > 0 /\ Len(h) \in Nat
           /\ Primary(h) \in Database
           /\ Primary(h).effects \in Seq(1..Migrations) /\ Len(Primary(h).effects) \in Nat
           /\ Primary(h).recorded \subseteq 1..Migrations
           /\ Primary(h).admins \in Nat /\ Primary(h).tracked \in BOOLEAN
<1>1. Len(h) > 0 /\ Len(h) \in Nat
    OBVIOUS
<1>2. Primary(h) \in Database
    BY <1>1, PrimaryType
<1>q. QED BY <1>1, <1>2 DEF Database

LEMMA NowType ==
    ASSUME TypeOK
    PROVE  /\ Len(db) > 0 /\ Len(db) \in Nat
           /\ Now \in Database /\ Now.effects \in Seq(1..Migrations) /\ Len(Now.effects) \in Nat
           /\ Now.recorded \subseteq 1..Migrations /\ Now.admins \in Nat /\ Now.tracked \in BOOLEAN
    BY PrimaryDatabase DEF TypeOK, Now

\* With the log in order, what is in effect is what is recorded.
LEMMA InEffectRecorded ==
    ASSUME TypeOK, LogOK, NEW m
    PROVE  InEffect(m, Now) <=> m \in Now.recorded
<1>1. InEffect(m, Now) => m \in 1..Len(Now.effects)
    BY DEF LogOK, InEffect
<1>2. ASSUME m \in 1..Len(Now.effects) PROVE InEffect(m, Now)
    <2>1. Now.effects[m] = m
        BY <1>2 DEF LogOK
    <2>q. QED BY <1>2, <2>1 DEF InEffect
<1>q. QED BY <1>1, <1>2 DEF LogOK

\* An instance that starts anew is typed and claims nothing.
LEMMA StartedOK ==
    ASSUME NEW image \in 1..Migrations, NEW version
    PROVE  /\ Started(image) \in Process /\ ~Started(image).changed
           /\ TransactionOK(Started(image), version) /\ ProgressOK(Started(image), version)
<1>1. 0 \in 0..Migrations /\ {} \in SUBSET (1..Migrations)
    BY StartupAssumption
<1>2. Started(image) \in Process
    BY <1>1 DEF Started, Process
<1>3. 1..0 = {}
    OBVIOUS
<1>q. QED BY <1>2, <1>3 DEF Started, TransactionOK, ProgressOK

-----------------------------------------------------------------------------
(* The ways a step can touch the invariant.                                *)

LEMMA InitInv == Init => MigrationInv
<1> SUFFICES ASSUME Init PROVE MigrationInv
    OBVIOUS
<1>1. Len(db) = 1 /\ db[1] = Empty /\ Now = Empty
    BY DEF Init, Now, Primary
<1>2. Empty \in Database /\ Len(Empty.effects) = 0 /\ Empty.recorded = {} /\ Empty.admins = 0
    BY DEF Empty, Database
<1>3. \A i \in Instances : \E image \in 1..Migrations : procs[i] = Started(image)
    BY StartupAssumption DEF Init
<1>4. TypeOK
    BY <1>2, <1>3, StartedOK, StartupAssumption DEF Init, TypeOK
<1>5. LogOK /\ AdminOK
    BY <1>1, <1>2 DEF LogOK, AdminOK
<1>6. AloneOK /\ \A i \in Instances : TransactionOK(procs[i], Now) /\ ProgressOK(procs[i], Now)
    BY <1>3, StartedOK DEF AloneOK
<1>q. QED BY <1>4, <1>5, <1>6 DEF MigrationInv

\* An instance takes a step that leaves the log as it is.
LEMMA Kept ==
    ASSUME MigrationInv, NEW i \in Instances, NEW p \in Process,
           procs' = [procs EXCEPT ![i] = p],
           db' \in Seq(Database), db' # <<>>, deploys' \in 0..MaxDeploys, faults' \in 0..MaxFaults,
           Now'.effects = Now.effects, Now'.recorded = Now.recorded, Now'.admins >= Now.admins,
           AdminOK',
           TransactionOK(p, Now'), ProgressOK(p, Now'),
           p.changed => \A j \in Instances \ {i} : ~procs[j].changed
    PROVE  MigrationInv'
<1>1. \A j \in Instances : procs'[j] = IF j = i THEN p ELSE procs[j]
    BY DEF MigrationInv, TypeOK
<1>2. TypeOK'
    BY DEF MigrationInv, TypeOK
<1>3. LogOK'
    BY DEF MigrationInv, LogOK
<1>4. AloneOK'
    BY <1>1 DEF MigrationInv, AloneOK
<1>5. ASSUME NEW j \in Instances, j # i
      PROVE  TransactionOK(procs[j], Now') /\ ProgressOK(procs[j], Now')
    <2>1. Now.admins = 1 => Now'.admins = 1
        <3>1. Now'.admins \in Nat
            BY PrimaryDatabase DEF Now
        <3>q. QED BY <3>1 DEF AdminOK
    <2>q. QED BY <2>1 DEF MigrationInv, TransactionOK, ProgressOK
<1>q. QED BY <1>1, <1>2, <1>3, <1>4, <1>5 DEF MigrationInv

\* The database does not change.
LEMMA Stays ==
    ASSUME MigrationInv, NEW i \in Instances, NEW p \in Process,
           Become(i, p), UNCHANGED db, faults' \in 0..MaxFaults,
           TransactionOK(p, Now), ProgressOK(p, Now),
           p.changed => procs[i].changed \/ \A j \in Instances \ {i} : ~procs[j].changed
    PROVE  MigrationInv'
<1>1. Now' = Now /\ AdminOK'
    BY DEF MigrationInv, AdminOK, Now
<1>2. p.changed => \A j \in Instances \ {i} : ~procs[j].changed
    BY DEF MigrationInv, AloneOK
<1>3. db' \in Seq(Database) /\ db' # <<>> /\ deploys' \in 0..MaxDeploys
    BY DEF MigrationInv, TypeOK, Become
<1>4. /\ Now'.effects = Now.effects /\ Now'.recorded = Now.recorded /\ Now'.admins >= Now.admins
      /\ TransactionOK(p, Now') /\ ProgressOK(p, Now')
    BY <1>1, NowType DEF MigrationInv
<1>5. procs' = [procs EXCEPT ![i] = p]
    BY DEF Become
<1>q. QED BY <1>1, <1>2, <1>3, <1>4, <1>5, Kept

\* The process ends.
LEMMA Ends ==
    ASSUME MigrationInv, NEW i \in Instances, End(i), UNCHANGED db, faults' \in 0..MaxFaults
    PROVE  MigrationInv'
<1>1. procs[i].image \in 1..Migrations
    BY DEF MigrationInv, TypeOK, Process
<1>q. QED BY <1>1, Stays, StartedOK DEF End

\* A statement is committed that is not part of a migration.
LEMMA OtherCommit ==
    ASSUME MigrationInv, NEW v \in Database, db' = Commit(db, v),
           v.admins >= Now.admins, v.admins <= 1
    PROVE  db' \in Seq(Database) /\ db' # <<>> /\ Now' = v /\ AdminOK'
<1>1. db \in Seq(Database) /\ Len(db) > 0
    BY NowType DEF MigrationInv, TypeOK
<1>2. db' \in Seq(Database) /\ Len(db') > 0 /\ Now' = v
    BY <1>1, CommitType DEF Now
<1>3. ASSUME NEW k \in 1..Len(db') PROVE db'[k].admins <= Now'.admins
    <2>1. db'[k] = v \/ (k \in 1..Len(db) /\ db'[k] = db[k])
        BY <1>1, <1>3, CommitVersions
    <2>2. ASSUME k \in 1..Len(db), db'[k] = db[k] PROVE db[k].admins <= v.admins
        <3>1. db[k] \in Database /\ Now \in Database
            BY <1>1, <2>2, NowType, ElementOfSeq DEF MigrationInv
        <3>2. db[k].admins <= Now.admins
            BY <2>2 DEF MigrationInv, AdminOK
        <3>q. QED BY <3>1, <3>2 DEF Database
    <2>3. v.admins \in Nat
        BY DEF Database
    <2>q. QED BY <1>2, <2>1, <2>2, <2>3
<1>q. QED BY <1>2, <1>3 DEF AdminOK

\* The instance whose transaction is open commits it: the next file takes
\* effect and is recorded.
LEMMA Grown ==
    ASSUME MigrationInv, NEW i \in Instances, NEW p \in Process,
           procs[i].pc = "commit", db' = Commit(db, Migrated(procs[i])),
           procs' = [procs EXCEPT ![i] = p], UNCHANGED deploys, faults' \in 0..MaxFaults,
           ~p.changed, p.pc # "commit",
           p = Started(procs[i].image) \/ p = [procs[i] EXCEPT !.pc = "next", !.changed = FALSE]
    PROVE  /\ MigrationInv'
           /\ Now'.effects = Append(Now.effects, Len(Now.effects) + 1)
           /\ Now'.recorded = Now.recorded \cup {Len(Now.effects) + 1}
           /\ Len(Now.effects) < Migrations
<1> DEFINE n == Len(Now.effects) + 1
           v == Migrated(procs[i])
<1>1. /\ procs[i].changed /\ procs[i].file = n
      /\ procs[i].file \in 1..procs[i].image /\ procs[i].image \in 1..Migrations
    BY DEF MigrationInv, TransactionOK, ProgressOK, TypeOK, Process
<1>2. n \in 1..Migrations /\ n \in Nat
    BY <1>1, StartupAssumption
<1>3. /\ v = [Now EXCEPT !.recorded = @ \cup {n}, !.effects = Append(@, n)]
      /\ Now \in Database /\ Now.effects \in Seq(1..Migrations)
    BY <1>1, NowType DEF Migrated, MigrationInv
<1>4. /\ Append(Now.effects, n) \in Seq(1..Migrations) /\ Len(Append(Now.effects, n)) = n
      /\ Append(Now.effects, n)[n] = n
      /\ \A k \in 1..(n - 1) : Append(Now.effects, n)[k] = Now.effects[k]
    BY <1>2, <1>3, AppendProperties
<1> HIDE DEF v
<1>5. /\ v \in Database /\ v.admins = Now.admins
      /\ v.effects = Append(Now.effects, n) /\ v.recorded = Now.recorded \cup {n}
    <2>1. Now.recorded \cup {n} \in SUBSET (1..Migrations)
        BY <1>2, <1>3 DEF Database
    <2>q. QED BY <1>3, <1>4, <2>1 DEF Database
<1>6. db' \in Seq(Database) /\ db' # <<>> /\ Now' = v /\ AdminOK'
    <2>1. v.admins >= Now.admins /\ v.admins <= 1 /\ db' = Commit(db, v)
        BY <1>5, NowType DEF MigrationInv, AdminOK, v
    <2>q. QED BY <1>5, <2>1, OtherCommit
<1>7. \A j \in Instances : procs'[j] = IF j = i THEN p ELSE procs[j]
    BY DEF MigrationInv, TypeOK
<1>8. TypeOK'
    BY <1>6 DEF MigrationInv, TypeOK
<1>9. LogOK'
    <2>1. Now.recorded = 1..(n - 1)
        BY <1>2 DEF MigrationInv, LogOK
    <2>2. Now'.recorded = 1..n
        <3>1. 1..n = (1..(n - 1)) \cup {n}
            BY <1>2
        <3>q. QED BY <1>5, <1>6, <2>1, <3>1
    <2>3. \A k \in 1..n : Now'.effects[k] = k
        BY <1>2, <1>4, <1>5, <1>6 DEF MigrationInv, LogOK
    <2>4. Len(Now'.effects) = n
        BY <1>4, <1>5, <1>6
    <2>q. QED BY <2>2, <2>3, <2>4 DEF LogOK
<1>10. \A j \in Instances : j # i => ~procs[j].changed
    BY <1>1 DEF MigrationInv, AloneOK
<1>11. AloneOK'
    BY <1>7, <1>10 DEF AloneOK
<1>12. ASSUME NEW j \in Instances, j # i
       PROVE  TransactionOK(procs[j], Now') /\ ProgressOK(procs[j], Now')
    BY <1>5, <1>6, <1>10, <1>12 DEF MigrationInv, TransactionOK, ProgressOK
<1>13. TransactionOK(p, Now') /\ ProgressOK(p, Now')
    <2>1. CASE p = Started(procs[i].image)
        BY <1>1, <2>1, StartedOK
    <2>2. CASE p = [procs[i] EXCEPT !.pc = "next", !.changed = FALSE]
        <3>1. /\ p.pc = "next" /\ ~p.changed /\ p.seen = procs[i].seen /\ p.file = n
            BY <1>1, <2>2 DEF MigrationInv, TypeOK, Process
        <3>2. p.seen \subseteq Now'.recorded
            BY <1>5, <1>6, <3>1 DEF MigrationInv, ProgressOK
        <3>3. Now'.recorded = 1..n
            BY <1>4, <1>5, <1>6, <1>9 DEF LogOK
        <3>q. QED BY <3>1, <3>2, <3>3 DEF TransactionOK, ProgressOK
    <2>q. QED BY <2>1, <2>2
<1>14. MigrationInv'
    BY <1>6, <1>7, <1>8, <1>9, <1>11, <1>12, <1>13 DEF MigrationInv
<1>q. QED BY <1>2, <1>5, <1>6, <1>14, StartupAssumption

-----------------------------------------------------------------------------
(* The steps.                                                              *)

\* Where an instance may stand, and that a fault is counted.
LEMMA ProcType ==
    ASSUME MigrationInv, NEW i \in Instances
    PROVE  /\ procs[i] \in Process /\ procs[i].image \in 1..Migrations
           /\ procs[i].file \in 0..Migrations /\ procs[i].changed \in BOOLEAN
           /\ procs[i].seen \subseteq 1..Migrations
           /\ TransactionOK(procs[i], Now) /\ ProgressOK(procs[i], Now)
    BY DEF MigrationInv, TypeOK, Process

LEMMA FaultType ==
    ASSUME MigrationInv
    PROVE  (Fault \/ UNCHANGED faults) => faults' \in 0..MaxFaults
    BY StartupAssumption DEF MigrationInv, TypeOK, Fault

LEMMA StartInv ==
    ASSUME MigrationInv, NEW i \in Instances, Start(i)
    PROVE  MigrationInv'
<1>1. PICK useReplica \in ConnectOutcomes :
          Become(i, [procs[i] EXCEPT !.pc = "look", !.useReplica = useReplica])
    BY DEF Start
<1> DEFINE p == [procs[i] EXCEPT !.pc = "look", !.useReplica = useReplica]
<1>2. useReplica \in BOOLEAN
    BY DEF ConnectOutcomes
<1>3. /\ p \in Process /\ p.pc = "look" /\ p.file = procs[i].file /\ p.seen = procs[i].seen
      /\ p.changed = procs[i].changed
    BY <1>2, ProcType DEF Process
<1> HIDE DEF p
<1>4. TransactionOK(p, Now) /\ ProgressOK(p, Now)
    BY <1>3, ProcType DEF TransactionOK, ProgressOK, Start
<1>5. Become(i, p) /\ UNCHANGED db /\ faults' \in 0..MaxFaults
    BY <1>1, FaultType DEF p, Start
<1>q. QED BY <1>3, <1>4, <1>5, Stays

\* An instance goes on in the same state, at a place where it claims what it
\* claimed before.
LEMMA GoesOn ==
    ASSUME MigrationInv, NEW i \in Instances,
           NEW pc \in {"look", "track", "read", "next", "exec", "insert", "commit", "count", "create", "serve"},
           Goto(i, pc), UNCHANGED <<db, faults>>,
           TransactionOK([procs[i] EXCEPT !.pc = pc], Now), ProgressOK([procs[i] EXCEPT !.pc = pc], Now)
    PROVE  MigrationInv'
<1> DEFINE p == [procs[i] EXCEPT !.pc = pc]
<1>1. p \in Process /\ (p.changed => procs[i].changed)
    BY ProcType DEF Process
<1>2. Become(i, p) /\ UNCHANGED db /\ TransactionOK(p, Now) /\ ProgressOK(p, Now)
    BY DEF Goto
<1> HIDE DEF p
<1>3. faults' \in 0..MaxFaults
    BY FaultType
<1>q. QED BY <1>1, <1>2, <1>3, Stays

\* The fields of an instance that only moved on.
LEMMA MovedOn ==
    ASSUME MigrationInv, NEW i \in Instances, NEW pc
    PROVE  LET p == [procs[i] EXCEPT !.pc = pc]
           IN  /\ p.pc = pc /\ p.image = procs[i].image /\ p.seen = procs[i].seen
               /\ p.file = procs[i].file /\ p.changed = procs[i].changed
    BY ProcType DEF Process

LEMMA LookForTrackingInv ==
    ASSUME MigrationInv, NEW i \in Instances, LookForTracking(i)
    PROVE  MigrationInv'
<1> DEFINE pc == IF Now.tracked THEN "read" ELSE "track"
           p == [procs[i] EXCEPT !.pc = pc]
<1>1. pc \in {"read", "track"} /\ Goto(i, pc) /\ UNCHANGED <<db, faults>> /\ procs[i].pc = "look"
    BY DEF LookForTracking
<1> HIDE DEF pc
<1>2. TransactionOK(p, Now) /\ ProgressOK(p, Now)
    BY <1>1, ProcType, MovedOn DEF TransactionOK, ProgressOK
<1>q. QED BY <1>1, <1>2, GoesOn

LEMMA CreateTrackingInv ==
    ASSUME MigrationInv, NEW i \in Instances, CreateTracking(i)
    PROVE  MigrationInv' /\ Now'.effects = Now.effects /\ Now'.recorded = Now.recorded
<1>1. CASE Now.tracked
    BY <1>1, FaultType, Ends DEF CreateTracking, Now
<1>2. CASE ~Now.tracked
    <2> DEFINE v == [Now EXCEPT !.tracked = TRUE]
               p == [procs[i] EXCEPT !.pc = "read"]
    <2>1. Now \in Database /\ Now.admins \in Nat /\ Now.admins <= 1
        BY NowType DEF MigrationInv, AdminOK
    <2>2. /\ v \in Database /\ v.effects = Now.effects /\ v.recorded = Now.recorded
          /\ v.admins = Now.admins
        BY <2>1 DEF Database
    <2>3. /\ db' = Commit(db, v) /\ procs' = [procs EXCEPT ![i] = p] /\ deploys' = deploys
          /\ procs[i].pc = "track"
        BY <1>2 DEF CreateTracking, Goto, Become
    <2>4. p \in Process
        BY ProcType DEF Process
    <2> HIDE DEF v
    <2>5. db' \in Seq(Database) /\ db' # <<>> /\ Now' = v /\ AdminOK'
        BY <2>1, <2>2, <2>3, OtherCommit
    <2>6. TransactionOK(p, v) /\ ProgressOK(p, v) /\ ~p.changed
        BY <2>2, <2>3, ProcType, MovedOn DEF TransactionOK, ProgressOK
    <2>7. deploys' \in 0..MaxDeploys /\ faults' \in 0..MaxFaults
        BY <2>3, FaultType DEF MigrationInv, TypeOK, CreateTracking
    <2>8. /\ Now'.effects = Now.effects /\ Now'.recorded = Now.recorded /\ Now'.admins >= Now.admins
          /\ TransactionOK(p, Now') /\ ProgressOK(p, Now')
        BY <2>1, <2>2, <2>5, <2>6
    <2>q. QED BY <2>3, <2>4, <2>5, <2>6, <2>7, <2>8, Kept
<1>q. QED BY <1>1, <1>2

LEMMA ReadVersionsInv ==
    ASSUME MigrationInv, NEW i \in Instances, procs[i].pc = "read",
           NEW seen \in SUBSET Now.recorded, ReadVersions(i, seen),
           UNCHANGED db, Fault \/ UNCHANGED faults
    PROVE  MigrationInv'
<1> DEFINE p == [procs[i] EXCEPT !.pc = "next", !.seen = seen]
<1>1. seen \in SUBSET (1..Migrations)
    BY NowType DEF MigrationInv
<1>2. /\ p \in Process /\ p.pc = "next" /\ p.seen = seen /\ p.file = procs[i].file
      /\ p.changed = procs[i].changed
    BY <1>1, ProcType DEF Process
<1>3. Become(i, p) /\ faults' \in 0..MaxFaults
    BY FaultType DEF ReadVersions
<1> HIDE DEF p
<1>4. p.file = 0 /\ ~p.changed
    BY <1>2, ProcType DEF TransactionOK, ProgressOK
<1>5. TransactionOK(p, Now) /\ ProgressOK(p, Now)
    <2>1. 1..0 = {}
        OBVIOUS
    <2>q. QED BY <1>2, <1>4, <2>1 DEF TransactionOK, ProgressOK
<1>q. QED BY <1>2, <1>3, <1>4, <1>5, Stays

\* Also a list that was cut short names recorded files only.
LEMMA ReadInv ==
    ASSUME MigrationInv, NEW i \in Instances, ReadRecorded(i) \/ ReadCutShort(i)
    PROVE  MigrationInv'
<1>1. CASE ReadRecorded(i)
    BY <1>1, ReadVersionsInv DEF ReadRecorded
<1>2. CASE ReadCutShort(i)
    <2>1. PICK last : ReadVersions(i, {m \in Now.recorded : m <= last})
        BY <1>2 DEF ReadCutShort
    <2>2. {m \in Now.recorded : m <= last} \in SUBSET Now.recorded
        OBVIOUS
    <2>q. QED BY <1>2, <2>1, <2>2, ReadVersionsInv DEF ReadCutShort
<1>q. QED BY <1>1, <1>2

\* The files between two that are left to do are recorded: RunMigrations saw
\* their rows.
LEMMA NextFileInv ==
    ASSUME MigrationInv, NEW i \in Instances, NextFile(i)
    PROVE  MigrationInv'
<1> DEFINE todo == Todo(procs[i])
<1>1. /\ procs[i].pc = "next" /\ ~procs[i].changed /\ 1..procs[i].file \subseteq Now.recorded
      /\ procs[i].seen \subseteq Now.recorded
      /\ procs[i].image \in 1..Migrations /\ procs[i].file \in 0..Migrations
    BY ProcType DEF NextFile, TransactionOK, ProgressOK
<1>2. \A m \in 1..procs[i].image : m \notin todo => m \in Now.recorded
    BY <1>1 DEF Todo
<1>3. CASE todo = {}
    <2> DEFINE p == [procs[i] EXCEPT !.pc = "count"]
    <2>1. Goto(i, "count") /\ UNCHANGED <<db, faults>>
        BY <1>3 DEF NextFile
    <2>2. 1..p.image \subseteq Now.recorded
        BY <1>2, <1>3, MovedOn
    <2>3. TransactionOK(p, Now) /\ ProgressOK(p, Now)
        BY <1>1, <2>2, ProcType, MovedOn DEF TransactionOK, ProgressOK
    <2>q. QED BY <2>1, <2>3, GoesOn
<1>4. CASE todo # {}
    <2> DEFINE f == Min(todo)
               p == [procs[i] EXCEPT !.pc = "exec", !.file = f]
    <2>1. todo \in SUBSET Nat
        BY <1>1 DEF Todo
    <2>2. f \in todo /\ \A m \in todo : f <= m
        BY <1>4, <2>1, MinType
    <2>3. Become(i, p) /\ UNCHANGED <<db, faults>>
        BY <1>4 DEF NextFile
    <2> HIDE DEF f
    <2>4. f \in 1..procs[i].image /\ f \in 0..Migrations
        BY <1>1, <2>2, StartupAssumption DEF Todo
    <2>5. /\ p \in Process /\ p.pc = "exec" /\ p.file = f /\ p.image = procs[i].image
          /\ p.seen = procs[i].seen /\ p.changed = procs[i].changed
        BY <2>4, ProcType DEF Process
    <2>6. 1..(f - 1) \subseteq Now.recorded
        <3> SUFFICES ASSUME NEW m \in 1..(f - 1) PROVE m \in Now.recorded
            OBVIOUS
        <3>1. m \in 1..procs[i].image /\ m \notin todo
            BY <1>1, <2>1, <2>2, <2>4
        <3>q. QED BY <1>2, <3>1
    <2> HIDE DEF p
    <2>7. TransactionOK(p, Now) /\ ProgressOK(p, Now)
        BY <1>1, <2>4, <2>5, <2>6 DEF TransactionOK, ProgressOK
    <2>8. faults' \in 0..MaxFaults
        BY <2>3, FaultType
    <2>q. QED BY <1>1, <2>3, <2>5, <2>7, <2>8, Stays
<1>q. QED BY <1>3, <1>4

\* A transaction that changes the schema is at the file after the last one in
\* effect: the files before its own are in effect, its own is not, and the
\* locks keep a second one away.
LEMMA ExecuteInv ==
    ASSUME MigrationInv, NEW i \in Instances, Execute(i)
    PROVE  MigrationInv'
<1> DEFINE m == procs[i].file
<1>1. /\ procs[i].pc = "exec" /\ ~procs[i].changed /\ ~Locked(i) /\ UNCHANGED <<db, faults>>
      /\ m \in 1..procs[i].image /\ m \in 1..Migrations /\ procs[i].image \in 1..Migrations
      /\ 1..(m - 1) \subseteq Now.recorded /\ procs[i].seen \subseteq Now.recorded
      /\ faults' \in 0..MaxFaults
    BY ProcType, FaultType, StartupAssumption DEF Execute, TransactionOK, ProgressOK
<1>2. InEffect(m, Now) <=> m \in Now.recorded
    BY InEffectRecorded DEF MigrationInv
<1>3. CASE ~InEffect(m, Now) /\ Become(i, [procs[i] EXCEPT !.pc = "insert", !.changed = TRUE])
    <2> DEFINE p == [procs[i] EXCEPT !.pc = "insert", !.changed = TRUE]
    <2>1. /\ p \in Process /\ p.pc = "insert" /\ p.changed /\ p.file = m
          /\ p.image = procs[i].image /\ p.seen = procs[i].seen
        BY ProcType DEF Process
    <2>2. m = Len(Now.effects) + 1
        <3>1. Now.recorded = 1..Len(Now.effects) /\ Len(Now.effects) \in Nat
            BY NowType DEF MigrationInv, LogOK
        <3>2. m > Len(Now.effects)
            BY <1>1, <1>2, <1>3, <3>1
        <3>3. m - 1 = 0 \/ m - 1 \in 1..(m - 1)
            BY <1>1, StartupAssumption
        <3>q. QED BY <1>1, <3>1, <3>2, <3>3, StartupAssumption
    <2>3. ASSUME NEW j \in Instances \ {i} PROVE ~procs[j].changed
        <3>1. procs[j].changed => procs[j].pc \in {"insert", "commit"} /\ procs[j].file = m
            BY <2>2, ProcType DEF TransactionOK
        <3>q. QED BY <1>1, <3>1 DEF Locked, InTransaction
    <2> HIDE DEF p
    <2>4. TransactionOK(p, Now) /\ ProgressOK(p, Now)
        BY <1>1, <2>1, <2>2 DEF TransactionOK, ProgressOK
    <2>q. QED BY <1>1, <1>3, <2>1, <2>3, <2>4, Stays DEF p
<1>4. CASE InEffect(m, Now) /\ Goto(i, "insert")
    <2> DEFINE p == [procs[i] EXCEPT !.pc = "insert"]
    <2>1. TransactionOK(p, Now) /\ ProgressOK(p, Now)
        BY <1>1, <1>2, <1>4, MovedOn DEF TransactionOK, ProgressOK
    <2>q. QED BY <1>1, <1>4, <2>1, GoesOn
<1>5. CASE End(i)
    BY <1>1, <1>5, Ends
<1>q. QED BY <1>3, <1>4, <1>5 DEF Execute

LEMMA InsertVersionInv ==
    ASSUME MigrationInv, NEW i \in Instances, InsertVersion(i)
    PROVE  MigrationInv'
<1> DEFINE p == [procs[i] EXCEPT !.pc = "commit"]
<1>1. procs[i].pc = "insert" /\ UNCHANGED <<db, faults>> /\ faults' \in 0..MaxFaults
    BY FaultType DEF InsertVersion
<1>2. CASE procs[i].file \in Now.recorded
    BY <1>1, <1>2, Ends DEF InsertVersion
<1>3. CASE procs[i].file \notin Now.recorded
    <2>1. Goto(i, "commit")
        BY <1>3 DEF InsertVersion
    <2>2. TransactionOK(p, Now) /\ ProgressOK(p, Now)
        BY <1>1, <1>3, ProcType, MovedOn DEF TransactionOK, ProgressOK
    <2>q. QED BY <1>1, <2>1, <2>2, GoesOn
<1>q. QED BY <1>2, <1>3

\* What both outcomes of a COMMIT do: the answer arrives, or it is lost.
LEMMA CommitInv ==
    ASSUME MigrationInv, NEW i \in Instances, CommitMigration(i) \/ CommitLost(i)
    PROVE  /\ MigrationInv'
           /\ Now'.effects = Append(Now.effects, Len(Now.effects) + 1)
           /\ Now'.recorded = Now.recorded \cup {Len(Now.effects) + 1}
           /\ Len(Now.effects) < Migrations
<1>1. /\ procs[i].pc = "commit" /\ db' = Commit(db, Migrated(procs[i]))
      /\ UNCHANGED deploys /\ faults' \in 0..MaxFaults
    BY FaultType DEF CommitMigration, CommitLost, Become, End
<1>2. CASE CommitMigration(i)
    <2> DEFINE p == [procs[i] EXCEPT !.pc = "next", !.changed = FALSE]
    <2>1. p \in Process /\ ~p.changed /\ p.pc # "commit" /\ procs' = [procs EXCEPT ![i] = p]
        BY <1>2, ProcType DEF CommitMigration, Become, Process
    <2>2. p = [procs[i] EXCEPT !.pc = "next", !.changed = FALSE]
        OBVIOUS
    <2> HIDE DEF p
    <2>q. QED BY <1>1, <2>1, <2>2, Grown
<1>3. CASE CommitLost(i)
    <2> DEFINE p == Started(procs[i].image)
    <2>1. p \in Process /\ ~p.changed /\ p.pc # "commit" /\ procs' = [procs EXCEPT ![i] = p]
        BY <1>3, ProcType, StartedOK DEF CommitLost, End, Become, Started
    <2>2. p = Started(procs[i].image)
        OBVIOUS
    <2> HIDE DEF p
    <2>q. QED BY <1>1, <2>1, <2>2, Grown
<1>q. QED BY <1>2, <1>3

\* Also a replica that is behind shows an admin only when there is one.
LEMMA CountInv ==
    ASSUME MigrationInv, NEW i \in Instances, Count(i)
    PROVE  MigrationInv'
<1> DEFINE read == ReadPool(db, procs[i].useReplica)
           pc == IF read.admins = 0 THEN "create" ELSE "serve"
           p == [procs[i] EXCEPT !.pc = pc]
<1>1. procs[i].pc = "count" /\ UNCHANGED <<db, faults>> /\ faults' \in 0..MaxFaults
    BY FaultType DEF Count
<1>2. CASE ~InEffect(1, read)
    BY <1>1, <1>2, Ends DEF Count
<1>3. CASE InEffect(1, read)
    <2>1. Goto(i, pc) /\ pc \in {"create", "serve"}
        BY <1>3 DEF Count
    <2>2. pc = "serve" => Now.admins = 1
        <3>1. procs[i].useReplica \in BOOLEAN /\ db \in Seq(Database) /\ Len(db) > 0
            BY ProcType, NowType DEF Process, MigrationInv, TypeOK
        <3>2. PICK k \in 1..Len(db) : read = db[k]
            BY <3>1, ReadPoolType
        <3>3. read \in Database
            BY <3>1, ReadPoolType
        <3> HIDE DEF read
        <3>4. read.admins \in Nat /\ read.admins <= Now.admins /\ Now.admins <= 1 /\ Now.admins \in Nat
            BY <3>2, <3>3, NowType DEF MigrationInv, AdminOK, Database
        <3>q. QED BY <3>4
    <2> HIDE DEF pc
    <2>3. TransactionOK(p, Now) /\ ProgressOK(p, Now)
        BY <1>1, <2>1, <2>2, ProcType, MovedOn DEF TransactionOK, ProgressOK
    <2>q. QED BY <1>1, <2>1, <2>3, GoesOn
<1>q. QED BY <1>2, <1>3

\* The admin is inserted where there was none.
LEMMA AdminInserted ==
    ASSUME MigrationInv, NEW i \in Instances, NEW p \in Process,
           Now.admins = 0, InsertAdmin, Become(i, p), faults' \in 0..MaxFaults,
           \/ p = Started(procs[i].image)
           \/ procs[i].pc = "create" /\ p = [procs[i] EXCEPT !.pc = "serve"]
    PROVE  /\ MigrationInv'
           /\ Now'.effects = Now.effects /\ Now'.recorded = Now.recorded
<1> DEFINE v == [Now EXCEPT !.admins = @ + 1]
<1>1. Now \in Database
    BY NowType DEF MigrationInv
<1>2. v \in Database /\ v.effects = Now.effects /\ v.recorded = Now.recorded /\ v.admins = 1
    BY <1>1 DEF Database
<1>3. db' = Commit(db, v)
    BY DEF InsertAdmin
<1> HIDE DEF v
<1>4. db' \in Seq(Database) /\ db' # <<>> /\ Now' = v /\ AdminOK'
    BY <1>2, <1>3, OtherCommit
<1>5. TransactionOK(p, v) /\ ProgressOK(p, v) /\ ~p.changed
    <2>1. CASE p = Started(procs[i].image)
        BY <2>1, ProcType, StartedOK
    <2>2. CASE procs[i].pc = "create" /\ p = [procs[i] EXCEPT !.pc = "serve"]
        <3>1. /\ p.pc = "serve" /\ p.image = procs[i].image /\ p.seen = procs[i].seen
              /\ p.file = procs[i].file /\ p.changed = procs[i].changed
            BY <2>2, MovedOn
        <3>q. QED BY <1>2, <2>2, <3>1, ProcType DEF TransactionOK, ProgressOK
    <2>q. QED BY <2>1, <2>2
<1>6. /\ Now'.effects = Now.effects /\ Now'.recorded = Now.recorded /\ Now'.admins >= Now.admins
      /\ TransactionOK(p, Now') /\ ProgressOK(p, Now')
    BY <1>2, <1>4, <1>5
<1>7. procs' = [procs EXCEPT ![i] = p] /\ deploys' \in 0..MaxDeploys
    BY DEF Become, MigrationInv, TypeOK
<1>q. QED BY <1>4, <1>5, <1>6, <1>7, Kept

LEMMA CreateAdminInv ==
    ASSUME MigrationInv, NEW i \in Instances, CreateAdmin(i)
    PROVE  MigrationInv' /\ Now'.effects = Now.effects /\ Now'.recorded = Now.recorded
<1>1. procs[i].pc = "create" /\ faults' \in 0..MaxFaults
    BY FaultType DEF CreateAdmin
<1>2. CASE Now.admins = 0
    <2> DEFINE p == [procs[i] EXCEPT !.pc = "serve"]
    <2>1. p \in Process /\ Become(i, p) /\ InsertAdmin
        BY <1>2, ProcType DEF Process, CreateAdmin, Goto
    <2>2. p = [procs[i] EXCEPT !.pc = "serve"]
        OBVIOUS
    <2> HIDE DEF p
    <2>q. QED BY <1>1, <1>2, <2>1, <2>2, AdminInserted
<1>3. CASE Now.admins # 0
    BY <1>1, <1>3, Ends DEF CreateAdmin, Now
<1>q. QED BY <1>2, <1>3

LEMMA FailsInv ==
    ASSUME MigrationInv, NEW i \in Instances, Fails(i)
    PROVE  MigrationInv' /\ Now'.effects = Now.effects /\ Now'.recorded = Now.recorded
<1>1. End(i) /\ faults' \in 0..MaxFaults
    BY FaultType DEF Fails
<1>2. CASE UNCHANGED db
    BY <1>1, <1>2, Ends DEF Now
<1>3. CASE Now.admins = 0 /\ InsertAdmin
    <2> DEFINE p == Started(procs[i].image)
    <2>1. p \in Process /\ Become(i, p)
        BY <1>1, ProcType, StartedOK DEF End
    <2>2. p = Started(procs[i].image)
        OBVIOUS
    <2> HIDE DEF p
    <2>q. QED BY <1>1, <1>3, <2>1, <2>2, AdminInserted
<1>4. UNCHANGED db \/ (Now.admins = 0 /\ InsertAdmin)
    BY DEF Fails
<1>q. QED BY <1>2, <1>3, <1>4

\* An older image, too, starts with nothing done.
LEMMA DeployInv ==
    ASSUME MigrationInv, NEW i \in Instances, NEW image \in 1..Migrations, Deploy(i, image)
    PROVE  MigrationInv'
<1> DEFINE p == Started(image)
<1>1. p \in Process /\ ~p.changed /\ TransactionOK(p, Now) /\ ProgressOK(p, Now)
    BY StartedOK
<1>2. /\ procs' = [procs EXCEPT ![i] = p] /\ db' = db
      /\ deploys' \in 0..MaxDeploys /\ faults' \in 0..MaxFaults
    BY StartupAssumption DEF Deploy, MigrationInv, TypeOK
<1> HIDE DEF p
<1>3. /\ db' \in Seq(Database) /\ db' # <<>> /\ Now' = Now /\ AdminOK' /\ Now.admins \in Nat
    BY <1>2, NowType DEF MigrationInv, TypeOK, AdminOK, Now
<1>4. /\ Now'.effects = Now.effects /\ Now'.recorded = Now.recorded /\ Now'.admins >= Now.admins
      /\ TransactionOK(p, Now') /\ ProgressOK(p, Now')
    BY <1>1, <1>3
<1>q. QED BY <1>1, <1>2, <1>3, <1>4, Kept

LEMMA ReplicaInv ==
    ASSUME MigrationInv, ReplicaCatchesUp
    PROVE  MigrationInv' /\ Now' = Now
<1>1. db \in Seq(Database) /\ Lagging(db) /\ db' = Replay(db) /\ UNCHANGED <<procs, deploys, faults>>
    BY DEF MigrationInv, TypeOK, ReplicaCatchesUp
<1>2. /\ db' \in Seq(Database) /\ Len(db') > 0 /\ Now' = Now
      /\ \A k \in 1..Len(db') : k + 1 \in 1..Len(db) /\ db'[k] = db[k + 1]
    BY <1>1, ReplayType DEF Now
<1>3. TypeOK' /\ LogOK' /\ AloneOK'
    BY <1>1, <1>2 DEF MigrationInv, TypeOK, LogOK, AloneOK
<1>4. AdminOK'
    BY <1>2 DEF MigrationInv, AdminOK
<1>q. QED BY <1>1, <1>2, <1>3, <1>4 DEF MigrationInv

LEMMA NextInv == MigrationInv /\ [Next]_vars => MigrationInv'
<1> SUFFICES ASSUME MigrationInv, [Next]_vars PROVE MigrationInv'
    OBVIOUS
<1>1. CASE UNCHANGED vars
    BY <1>1 DEF vars, MigrationInv, TypeOK, LogOK, AdminOK, AloneOK, Now
<1>2. CASE ReplicaCatchesUp
    BY <1>2, ReplicaInv
<1>3. ASSUME NEW i \in Instances, Step(i) \/ ReadCutShort(i) \/ CommitLost(i) \/ Fails(i)
      PROVE  MigrationInv'
    BY <1>3, StartInv, LookForTrackingInv, CreateTrackingInv, ReadInv, NextFileInv, ExecuteInv,
       InsertVersionInv, CommitInv, CountInv, CreateAdminInv, FailsInv DEF Step
<1>4. ASSUME NEW i \in Instances, NEW image \in 1..Migrations, Deploy(i, image) PROVE MigrationInv'
    BY <1>4, DeployInv
<1>q. QED BY <1>1, <1>2, <1>3, <1>4 DEF Next

LEMMA MigrationsSafe == Spec => []MigrationInv
    BY InitInv, NextInv, PTL DEF Spec

-----------------------------------------------------------------------------
(* The theorems.                                                           *)

\* Startup keeps its types.  A file number is never past the image, and a
\* transaction never appends one that does not exist.
THEOREM TypeCorrect == Spec => []TypeOK
<1>1. MigrationInv => TypeOK
    BY DEF MigrationInv
<1>q. QED BY <1>1, MigrationsSafe, PTL

LEMMA InvServes == MigrationInv => ServesOnWholeSchema
<1> SUFFICES ASSUME MigrationInv PROVE ServesOnWholeSchema
    OBVIOUS
<1>1. Now.admins <= 1
    BY DEF MigrationInv, AdminOK
<1>2. ASSUME NEW i \in Instances, procs[i].pc = "serve", NEW m \in 1..procs[i].image
      PROVE  InEffect(m, Now) /\ m \in Now.recorded
    BY <1>2, InEffectRecorded DEF MigrationInv, ProgressOK
<1>3. \A i \in Instances : procs[i].pc = "serve" => Now.admins = 1
    BY DEF MigrationInv, ProgressOK
<1>q. QED BY <1>1, <1>2, <1>3 DEF ServesOnWholeSchema

\* However many instances start, are cut off and are replaced: whoever serves
\* does so on the whole schema of its image, with the one admin.
THEOREM WholeSchema == Spec => []ServesOnWholeSchema
    BY InvServes, MigrationsSafe, PTL

\* Every step of every instance is a step of the log, or leaves it alone.
LEMMA StepImplements == MigrationInv /\ [Next]_vars => [Log!Grow]_(Log!logVars)
<1> SUFFICES ASSUME MigrationInv, [Next]_vars
             PROVE  Log!Grow \/ UNCHANGED Log!logVars
    OBVIOUS
<1> USE DEF Log!logVars
<1>1. CASE UNCHANGED vars
    BY <1>1 DEF vars, Now
<1>2. CASE ReplicaCatchesUp
    BY <1>2, ReplicaInv
<1>3. ASSUME NEW i \in Instances, CommitMigration(i) \/ CommitLost(i)
      PROVE  Log!Grow
    BY <1>3, CommitInv DEF Log!Grow
<1>4. ASSUME NEW i \in Instances, CreateTracking(i) \/ CreateAdmin(i) \/ Fails(i)
      PROVE  UNCHANGED Log!logVars
    BY <1>4, CreateTrackingInv, CreateAdminInv, FailsInv
<1>5. ASSUME NEW i \in Instances,
             \/ Start(i) \/ LookForTracking(i) \/ ReadRecorded(i) \/ ReadCutShort(i) \/ NextFile(i)
             \/ Execute(i) \/ InsertVersion(i) \/ Count(i)
             \/ \E image \in 1..Migrations : Deploy(i, image)
      PROVE  UNCHANGED Log!logVars
    <2>1. UNCHANGED db
        BY <1>5 DEF Start, LookForTracking, ReadRecorded, ReadCutShort, NextFile, Execute,
                    InsertVersion, Count, Deploy
    <2>q. QED BY <2>1 DEF Now
<1>q. QED BY <1>1, <1>2, <1>3, <1>4, <1>5 DEF Next, Step

\* RunMigrations, called by any number of instances and cut off anywhere,
\* keeps the promise of the log.
THEOREM LogImplemented == Spec => ImplementsLog
<1>1. Init => Log!LogInit
    BY DEF Init, Log!LogInit, Now, Primary, Empty
<1>q. QED BY <1>1, StepImplements, MigrationsSafe, PTL DEF Spec, ImplementsLog, Log!LogSpec

=============================================================================
