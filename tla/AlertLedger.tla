---------------------------- MODULE AlertLedger ----------------------------
(***************************************************************************)
(* What the alert pipeline promises, without goroutines, round trips or    *)
(* failures: a ledger of alerts.  An alert is raised under a key, the chat *)
(* may be told of it once it is in the ledger, and it is closed for good.  *)
(* Where it deduplicates, at most MaxOpen alerts of one key are open       *)
(* together: 1 is the deduplication the README speaks of.                  *)
(***************************************************************************)
EXTENDS Naturals, Sequences, FiniteSets

CONSTANTS Keys, Deduplicates, MaxOpen

VARIABLES ledger, told

ledgerVars == <<ledger, told>>

OpenIds(key) == {i \in 1..Len(ledger) : ledger[i].key = key /\ ledger[i].state = "open"}

LedgerInit == ledger = <<>> /\ told = {}

Raise(key) ==
    /\ Deduplicates => Cardinality(OpenIds(key)) < MaxOpen
    /\ ledger' = Append(ledger, [key |-> key, state |-> "open"])
    /\ UNCHANGED told

Tell(i) ==
    /\ i \in 1..Len(ledger) \ told
    /\ told' = told \cup {i}
    /\ UNCHANGED ledger

Close(ids) ==
    /\ ledger' = [i \in 1..Len(ledger) |->
                    IF i \in ids THEN [ledger[i] EXCEPT !.state = "closed"] ELSE ledger[i]]
    /\ UNCHANGED told

LedgerNext ==
    \/ \E key \in Keys : Raise(key)
    \/ \E i \in 1..Len(ledger) : Tell(i)
    \/ \E ids \in SUBSET (1..Len(ledger)) : Close(ids)

LedgerSpec == LedgerInit /\ [][LedgerNext]_ledgerVars
=============================================================================
