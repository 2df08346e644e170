--------------------------- MODULE StorageProofs ---------------------------
(***************************************************************************)
(* What the operators of Storage do to a history, for any set S of         *)
(* versions.  The proofs about every table rest on it.                     *)
(***************************************************************************)
EXTENDS Storage, SequenceTheorems, TLAPS

\* A history has a version for the primary, and one for the replica.
LEMMA PrimaryType ==
    ASSUME NEW S, NEW h \in Seq(S), Len(h) > 0
    PROVE  /\ Len(h) \in Nat
           /\ Len(h) \in 1..Len(h) /\ Primary(h) = h[Len(h)] /\ Primary(h) \in S
           /\ 1 \in 1..Len(h) /\ Replica(h) = h[1] /\ Replica(h) \in S
    BY DEF Primary, Replica

\* A commit makes the new version the primary's and keeps a history a history.
LEMMA CommitType ==
    ASSUME NEW S, NEW h \in Seq(S), Len(h) > 0, NEW t \in S
    PROVE  /\ Commit(h, t) \in Seq(S)
           /\ Len(Commit(h, t)) > 0
           /\ Primary(Commit(h, t)) = t
<1>1. Append(h, t) \in Seq(S) /\ Len(Append(h, t)) = Len(h) + 1 /\ Append(h, t)[Len(h) + 1] = t
    BY AppendProperties
<1>2. <<t>> \in Seq(S) /\ Len(<<t>>) = 1 /\ <<t>>[1] = t
    OBVIOUS
<1>3. Len(h) \in Nat
    OBVIOUS
<1>q. QED BY <1>1, <1>2, <1>3 DEF Commit, Primary

\* Apart from the new version, a commit shows no reader what no reader could
\* be shown before.
LEMMA CommitVersions ==
    ASSUME NEW S, NEW h \in Seq(S), Len(h) > 0, NEW t \in S,
           NEW i \in 1..Len(Commit(h, t))
    PROVE  \/ i = Len(Commit(h, t)) /\ Commit(h, t)[i] = t
           \/ i \in 1..Len(h) /\ Commit(h, t)[i] = h[i]
<1>1. Len(h) \in Nat
    OBVIOUS
<1>2. CASE ReplicaConfigured
    <2>1. Commit(h, t) = Append(h, t)
        BY <1>2 DEF Commit
    <2>2. /\ Len(Append(h, t)) = Len(h) + 1 /\ Append(h, t)[Len(h) + 1] = t
          /\ \A j \in 1..Len(h) : Append(h, t)[j] = h[j]
        BY AppendProperties
    <2>q. QED BY <1>1, <2>1, <2>2
<1>3. CASE ~ReplicaConfigured
    <2>1. Commit(h, t) = <<t>>
        BY <1>3 DEF Commit
    <2>q. QED BY <2>1
<1>q. QED BY <1>2, <1>3

\* Replay drops a version that is not the primary's, and shows no new one.
LEMMA ReplayType ==
    ASSUME NEW S, NEW h \in Seq(S), Lagging(h)
    PROVE  /\ Replay(h) \in Seq(S)
           /\ Len(Replay(h)) > 0 /\ Len(Replay(h)) = Len(h) - 1
           /\ Primary(Replay(h)) = Primary(h)
           /\ \A i \in 1..Len(Replay(h)) : i + 1 \in 1..Len(h) /\ Replay(h)[i] = h[i + 1]
<1>1. h # <<>> /\ Len(h) \in Nat /\ Len(h) > 1
    BY DEF Lagging
<1>2. /\ Tail(h) \in Seq(S)
      /\ Len(Tail(h)) = Len(h) - 1
      /\ \A i \in 1..Len(Tail(h)) : Tail(h)[i] = h[i + 1]
    BY <1>1, HeadTailProperties
<1>3. Tail(h)[Len(h) - 1] = h[Len(h)]
    BY <1>1, <1>2
<1>q. QED BY <1>1, <1>2, <1>3 DEF Replay, Primary

\* Whichever pool is read, what is read is a version of the history, and the
\* newest one when there is no replica.
LEMMA ReadPoolType ==
    ASSUME NEW S, NEW h \in Seq(S), Len(h) > 0, NEW useReplica \in BOOLEAN
    PROVE  /\ ReadPool(h, useReplica) \in S
           /\ \E i \in 1..Len(h) : ReadPool(h, useReplica) = h[i] /\ (useReplica \/ i = Len(h))
           /\ ~useReplica => ReadPool(h, useReplica) = Primary(h)
    BY PrimaryType DEF ReadPool

=============================================================================
