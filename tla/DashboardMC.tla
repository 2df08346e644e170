---------------------------- MODULE DashboardMC ----------------------------
(***************************************************************************)
(* A small instance of Dashboard: two servers, one call slot each.         *)
(***************************************************************************)
EXTENDS Dashboard

CONSTANTS h1, h2, g1, g2

OneEach == [h \in Hosts |-> IF h = h1 THEN g1 ELSE g2]
=============================================================================
