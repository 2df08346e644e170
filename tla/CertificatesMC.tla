--------------------------- MODULE CertificatesMC ---------------------------
(***************************************************************************)
(* A small instance of Certificates: two domains, the windows and the      *)
(* round a day of the example configuration, two steps of the clock a day. *)
(***************************************************************************)
EXTENDS Certificates

TwoDomains == <<"a", "b">>

\* One certificate is about to end, the other in the window of 30 days.
SoonAndLater == {[d \in {"a", "b"} |-> IF d = first THEN 5 ELSE 62] : first \in {"a", "b"}}

ExampleWarnDays == <<30, 14, 7, 1>>
=============================================================================
