------------------------------ MODULE AccessMC ------------------------------
(***************************************************************************)
(* Small instances of Access.                                              *)
(***************************************************************************)
EXTENDS Access

\* A server's button under /scan.
ScanInput == [kind |-> "button", minRole |-> "operator", handlerRole |-> "viewer"]

\* /status from the reply menu, /docker, /ansible run, and that button.
CommandsAndScan ==
    {[kind |-> "menu", minRole |-> "viewer", handlerRole |-> "viewer"],
     [kind |-> "command", minRole |-> "operator", handlerRole |-> "viewer"],
     [kind |-> "command", minRole |-> "operator", handlerRole |-> "admin"],
     ScanInput}

\* Also a deploy button, and a text that is no command.
SomeInputs == CommandsAndScan \cup
    {[kind |-> "button", minRole |-> "viewer", handlerRole |-> "admin"],
     [kind |-> "other", minRole |-> "viewer", handlerRole |-> "viewer"]}
=============================================================================
