------------------------------ MODULE Startup ------------------------------
(***************************************************************************)
(* From main to a bot that serves: Connect, RunMigrations, bootstrapAdmin  *)
(* (cmd/tgops/main.go, internal/storage/postgres.go), in several processes *)
(* on one database: the container that is replaced by a newer image, and   *)
(* whatever else was started beside it.  Every error is a log.Fatal, and   *)
(* the container starts again.                                             *)
(*                                                                         *)
(* RunMigrations takes no lock.  What keeps two of them apart is           *)
(* PostgreSQL: a migration and the row that records it are one             *)
(* transaction, the second to create a table, a column or that row waits   *)
(* for the first and then fails.  A transaction of a process that ended is *)
(* rolled back.                                                            *)
(***************************************************************************)
EXTENDS Storage, FiniteSetsExt

CONSTANTS
    Instances,     \* processes
    Migrations,    \* how many files the newest image has
    Idempotent,    \* those that say IF NOT EXISTS
    FirstImages,   \* how many files the image of an instance may have at first
    MaxDeploys,    \* bound: images that are deployed
    MaxFaults      \* bound: failed calls, lost answers and crashes

ASSUME StartupAssumption ==
    /\ Migrations \in Nat \ {0}
    /\ Idempotent \subseteq 1..Migrations
    /\ FirstImages \subseteq 1..Migrations
    /\ MaxDeploys \in Nat /\ MaxFaults \in Nat

VARIABLES
    db,        \* versions of the database (see Storage)
    procs,     \* the instances
    deploys,   \* images deployed so far
    faults     \* faults so far

vars == <<db, procs, deploys, faults>>

-----------------------------------------------------------------------------
\* tracked: schema_migrations exists; effects: the migrations whose statements
\* changed the schema, in that order; recorded: the rows of schema_migrations;
\* admins: the users bootstrapAdmin inserted.
Database == [tracked : BOOLEAN, effects : Seq(1..Migrations), recorded : SUBSET (1..Migrations),
             admins : Nat]

Empty == [tracked |-> FALSE, effects |-> <<>>, recorded |-> {}, admins |-> 0]

Now == Primary(db)

InEffect(m, version) == \E k \in 1..Len(version.effects) : version.effects[k] = m

\* image: the files of the image are 1..image; seen: RunMigrations' map
\* applied; file: the one it is at; changed: its transaction changed the
\* schema.
Process == [pc : {"down", "look", "track", "read", "next", "exec", "insert", "commit", "count", "create", "serve"},
            image : 1..Migrations, useReplica : BOOLEAN, seen : SUBSET (1..Migrations),
            file : 0..Migrations, changed : BOOLEAN]

Started(image) == [pc |-> "down", image |-> image, useReplica |-> FALSE, seen |-> {}, file |-> 0,
                   changed |-> FALSE]

Init ==
    /\ db = <<Empty>>
    /\ procs \in [Instances -> {Started(image) : image \in FirstImages}]
    /\ deploys = 0 /\ faults = 0

Fault == faults < MaxFaults /\ faults' = faults + 1

\* The instance goes on; End is log.Fatal, which rolls its transaction back.
Become(i, p) == procs' = [procs EXCEPT ![i] = p] /\ UNCHANGED deploys

Goto(i, pc) == Become(i, [procs[i] EXCEPT !.pc = pc])

End(i) == Become(i, Started(procs[i].image))

InTransaction(j) == procs[j].pc \in {"insert", "commit"}

-----------------------------------------------------------------------------
\* Connect; the container is started again whenever its process ended.
Start(i) ==
    /\ procs[i].pc = "down"
    /\ \E useReplica \in ConnectOutcomes :
          Become(i, [procs[i] EXCEPT !.pc = "look", !.useReplica = useReplica])
    /\ UNCHANGED <<db, faults>>

\* Slip: without IF NOT EXISTS.
LookForTrackingAlways(i) ==
    /\ procs[i].pc = "look"
    /\ Goto(i, "track")
    /\ UNCHANGED <<db, faults>>

\* CREATE TABLE IF NOT EXISTS schema_migrations looks for the table.
LookForTracking(i) ==
    /\ procs[i].pc = "look"
    /\ Goto(i, IF Now.tracked THEN "read" ELSE "track")
    /\ UNCHANGED <<db, faults>>

\* It creates the table it did not find, and fails when somebody else has
\* done so meanwhile.
CreateTracking(i) ==
    /\ procs[i].pc = "track"
    /\ IF Now.tracked THEN End(i) /\ UNCHANGED db
       ELSE Goto(i, "read") /\ db' = Commit(db, [Now EXCEPT !.tracked = TRUE])
    /\ UNCHANGED faults

ReadVersions(i, seen) == Become(i, [procs[i] EXCEPT !.pc = "next", !.seen = seen])

\* SELECT version.
ReadRecorded(i) ==
    /\ procs[i].pc = "read"
    /\ ReadVersions(i, Now.recorded)
    /\ UNCHANGED <<db, faults>>

\* The rows end early: rows.Err is not looked at.
ReadCutShort(i) ==
    /\ procs[i].pc = "read"
    /\ Fault
    /\ \E last \in 0..Migrations : ReadVersions(i, {m \in Now.recorded : m <= last})
    /\ UNCHANGED db

\* Slip: the loop runs one file too far.
TodoOneMore(p) == {m \in 1..(p.image + 1) : m > p.file /\ m \notin p.seen}

\* The files that are left, in the order of their names.
Todo(p) == {m \in 1..p.image : m > p.file /\ m \notin p.seen}

NextFile(i) ==
    /\ procs[i].pc = "next"
    /\ IF Todo(procs[i]) = {} THEN Goto(i, "count")
       ELSE Become(i, [procs[i] EXCEPT !.pc = "exec", !.file = Min(Todo(procs[i]))])
    /\ UNCHANGED <<db, faults>>

\* Another transaction is at the same tables.
Locked(i) ==
    \E j \in Instances \ {i} : InTransaction(j) /\ procs[j].changed /\ procs[j].file = procs[i].file

\* Slip: a migration that fails is logged and left out.
ExecuteOrSkip(i) ==
    /\ procs[i].pc = "exec"
    /\ ~Locked(i)
    /\ IF InEffect(procs[i].file, Now) THEN Goto(i, "next")
       ELSE \/ Become(i, [procs[i] EXCEPT !.pc = "insert", !.changed = TRUE])
            \/ Goto(i, "next")
    /\ UNCHANGED <<db, faults>>

\* Begin, and the file's statements.  They refer to what earlier files made
\* and fail when it is not there; what is there already they leave alone or
\* fail on (also with IF NOT EXISTS, when it came while they waited).
Execute(i) ==
    LET m == procs[i].file
    IN  /\ procs[i].pc = "exec"
        /\ ~Locked(i)
        /\ \/ /\ ~InEffect(m, Now)
              /\ \A k \in 1..(m - 1) : InEffect(k, Now)
              /\ Become(i, [procs[i] EXCEPT !.pc = "insert", !.changed = TRUE])
           \/ InEffect(m, Now) /\ m \in Idempotent /\ Goto(i, "insert")
           \/ InEffect(m, Now) /\ End(i)
           \/ (\E k \in 1..(m - 1) : ~InEffect(k, Now)) /\ End(i)
        /\ UNCHANGED <<db, faults>>

Migrated(p) ==
    [Now EXCEPT !.recorded = @ \cup {p.file},
                !.effects = IF p.changed THEN Append(@, p.file) ELSE @]

\* Slip: the row is not part of the transaction.
InsertVersionAtOnce(i) ==
    /\ procs[i].pc = "insert"
    /\ IF procs[i].file \in Now.recorded THEN End(i) /\ UNCHANGED db
       ELSE /\ Goto(i, "commit")
            /\ db' = Commit(db, [Now EXCEPT !.recorded = @ \cup {procs[i].file}])
    /\ UNCHANGED faults

\* INSERT INTO schema_migrations: the version is the key.
InsertVersion(i) ==
    /\ procs[i].pc = "insert"
    /\ IF procs[i].file \in Now.recorded THEN End(i) ELSE Goto(i, "commit")
    /\ UNCHANGED <<db, faults>>

CommitMigration(i) ==
    /\ procs[i].pc = "commit"
    /\ db' = Commit(db, Migrated(procs[i]))
    /\ Become(i, [procs[i] EXCEPT !.pc = "next", !.changed = FALSE])
    /\ UNCHANGED faults

\* The answer of the COMMIT is lost.
CommitLost(i) ==
    /\ procs[i].pc = "commit"
    /\ Fault
    /\ db' = Commit(db, Migrated(procs[i]))
    /\ End(i)

-----------------------------------------------------------------------------
\* bootstrapAdmin, Count (initial_admin_id is set): from the replica, which may
\* not have the table yet.
Count(i) ==
    LET read == ReadPool(db, procs[i].useReplica)
    IN  /\ procs[i].pc = "count"
        /\ IF ~InEffect(1, read) THEN End(i)
           ELSE Goto(i, IF read.admins = 0 THEN "create" ELSE "serve")
        /\ UNCHANGED <<db, faults>>

InsertAdmin == db' = Commit(db, [Now EXCEPT !.admins = @ + 1])

\* bootstrapAdmin, Create: telegram_id is unique.
CreateAdmin(i) ==
    /\ procs[i].pc = "create"
    /\ IF Now.admins = 0 THEN InsertAdmin /\ Goto(i, "serve")
       ELSE End(i) /\ UNCHANGED db
    /\ UNCHANGED faults

\* A call fails, the process is killed, Telegram does not answer
\* (tgbot.New), or the answer of the INSERT is lost.
Fails(i) ==
    /\ procs[i].pc # "down"
    /\ Fault
    /\ End(i)
    /\ \/ UNCHANGED db
       \/ procs[i].pc = "create" /\ Now.admins = 0 /\ InsertAdmin

\* A newer or an older image replaces the one in use.
Deploy(i, image) ==
    /\ deploys < MaxDeploys
    /\ image # procs[i].image
    /\ deploys' = deploys + 1
    /\ procs' = [procs EXCEPT ![i] = Started(image)]
    /\ UNCHANGED <<db, faults>>

ReplicaCatchesUp ==
    /\ Lagging(db)
    /\ db' = Replay(db)
    /\ UNCHANGED <<procs, deploys, faults>>

-----------------------------------------------------------------------------
Step(i) ==
    \/ Start(i) \/ LookForTracking(i) \/ CreateTracking(i) \/ ReadRecorded(i) \/ NextFile(i)
    \/ Execute(i) \/ InsertVersion(i) \/ CommitMigration(i) \/ Count(i) \/ CreateAdmin(i)

Next ==
    \/ ReplicaCatchesUp
    \/ \E i \in Instances :
          \/ Step(i) \/ ReadCutShort(i) \/ CommitLost(i) \/ Fails(i)
          \/ \E image \in 1..Migrations : Deploy(i, image)

Spec == Init /\ [][Next]_vars

\* Processes go on and are started again, and replication goes on.
FairSpec == Spec /\ WF_vars(ReplicaCatchesUp) /\ \A i \in Instances : WF_vars(Step(i))

-----------------------------------------------------------------------------
\* Every variable has its type.
TypeOK ==
    /\ db \in Seq(Database) /\ db # <<>>
    /\ procs \in [Instances -> Process]
    /\ deploys \in 0..MaxDeploys /\ faults \in 0..MaxFaults

\* The migrations keep the promise of the log, with several instances at it,
\* each cut off anywhere, and with images that have fewer files than the
\* database has seen.
Log == INSTANCE SchemaLog WITH
         Newest <- Migrations, effects <- Now.effects, recorded <- Now.recorded

ImplementsLog == Log!LogSpec

\* An instance serves only when everything its own image needs is in the
\* database, and the admin, whom no two instances insert twice.
ServesOnWholeSchema ==
    /\ Now.admins <= 1
    /\ \A i \in Instances : procs[i].pc = "serve" =>
          /\ \A m \in 1..procs[i].image : InEffect(m, Now) /\ m \in Now.recorded
          /\ Now.admins = 1

\* Every instance comes up again and again: what makes one fail - another one
\* that was first, a replica that is behind, a call that failed - is gone when
\* it starts again.
EveryoneServes == \A i \in Instances : []<>(procs[i].pc = "serve")
=============================================================================
