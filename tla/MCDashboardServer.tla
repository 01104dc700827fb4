------------------------- MODULE MCDashboardServer -------------------------
(* Instances of DashboardServer for TLC. *)
EXTENDS DashboardServer, TLC

\* Descriptors are interchangeable: no action compares them.
Symmetry == Permutations(Fds)
=============================================================================
