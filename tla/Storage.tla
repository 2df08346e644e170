------------------------------ MODULE Storage ------------------------------
(***************************************************************************)
(* storage.DB: a primary that takes every write and, when the replica      *)
(* answered the ping in Connect, a replica that serves every read.         *)
(*                                                                         *)
(* A table is kept as the history of its committed versions that a reader  *)
(* may still be shown: the last one is what the primary holds, the first   *)
(* one what the replica has replayed.  Streaming replication replays the   *)
(* commits in order, so it drops versions from the front, one at a time.   *)
(* The operators take the history as an argument: each module that uses a  *)
(* table keeps that table's history in a variable of its own.              *)
(***************************************************************************)
EXTENDS Naturals, Sequences

CONSTANT ReplicaConfigured    \* cfg.Replica.Host # ""

ASSUME ReplicaConfiguredIsBoolean == ReplicaConfigured \in BOOLEAN

Primary(history) == history[Len(history)]

Replica(history) == history[1]

\* The outcomes of Connect: db.Replica stays nil when no replica is
\* configured, and also when the configured one does not answer the ping.
ConnectOutcomes == IF ReplicaConfigured THEN BOOLEAN ELSE {FALSE}

\* DB.ReadPool: useReplica stands for db.Replica # nil.
ReadPool(history, useReplica) ==
    IF useReplica THEN Replica(history) ELSE Primary(history)

\* A statement committed on the primary.  Without a replica nobody can see
\* an older version again.
Commit(history, version) ==
    IF ReplicaConfigured THEN Append(history, version) ELSE <<version>>

\* The replica replays one more commit.
Lagging(history) == Len(history) > 1

Replay(history) == Tail(history)
=============================================================================
