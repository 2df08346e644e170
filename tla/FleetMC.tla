------------------------------ MODULE FleetMC ------------------------------
(***************************************************************************)
(* Small instances of Answers.  The time-outs are those of the example     *)
(* configuration in tens of seconds.                                       *)
(***************************************************************************)
EXTENDS Answers

CONSTANTS n1, n2, h1, h2, p1, p2

OneConfigured == [n \in Names |-> IF n = n1 THEN h1 ELSE NoHost]

OneInTable == [n \in Names |-> IF n = n2 THEN [host |-> h2, active |-> TRUE] ELSE Absent]

ExampleTimeouts ==
    [check \in Checks |->
        CASE check \in {"status", "top"} -> 100    \* they have none
          [] check = "updates" -> 6
          [] check \in {"versions", "backups", "docker", "logs"} -> 3
          [] check \in {"list", "timers", "ping"} -> 2
          [] check \in {"host", "image"} -> 30]

SomePaths == {<<p1>>, <<p1, p2>>, <<p1, p1>>, <<p1, p2, p1>>}
=============================================================================
