---------------------------- MODULE MCDashboard ------------------------------
(* A dashboard that connects up to twice, and another client, for TLC. *)
EXTENDS Dashboard

CONSTANTS c1, c2, c3
=============================================================================
