----------------------------- MODULE SchemaLog -----------------------------
(***************************************************************************)
(* What RunMigrations promises, whoever calls it and however often it is   *)
(* cut off: the migrations take effect one by one, each once, in the order *)
(* of their files, and are recorded in the same instant.                   *)
(***************************************************************************)
EXTENDS Naturals, Sequences

CONSTANT Newest    \* the last migration there is

VARIABLES effects, recorded

logVars == <<effects, recorded>>

LogInit == effects = <<>> /\ recorded = {}

Grow ==
    /\ Len(effects) < Newest
    /\ effects' = Append(effects, Len(effects) + 1)
    /\ recorded' = recorded \cup {Len(effects) + 1}

LogSpec == LogInit /\ [][Grow]_logVars
=============================================================================
