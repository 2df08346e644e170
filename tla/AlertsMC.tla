------------------------------ MODULE AlertsMC ------------------------------
(***************************************************************************)
(* Small instances of Alerts.                                              *)
(***************************************************************************)
EXTENDS Alerts

Fine == [answers |-> TRUE, reachable |-> TRUE, cpu |-> 0, ram |-> 0, disk |-> 0]

\* Two overlapping rounds of checks of one endpoint, which answers or not.
OverlapConditions == [t \in Targets |-> {Fine, [Fine EXCEPT !.reachable = FALSE]}]

Silent == [Fine EXCEPT !.answers = FALSE]

\* A server whose load moves between the thresholds, and which may fall silent;
\* at its worst it gives its goroutine two findings.
LiveConditions ==
    [t \in Targets |->
        {Fine, Silent, [Fine EXCEPT !.cpu = 85], [Fine EXCEPT !.cpu = 95, !.disk = 85]}]

OverlapRows == [type \in Types |-> 3]

LiveRows == [type \in Types |-> IF type = "cpu" THEN 2 ELSE 1]
=============================================================================
