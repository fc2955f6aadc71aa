-------------------------- MODULE MCMaintenanceFlow --------------------------
(* A small instance of MaintenanceFlow. *)
EXTENDS MaintenanceFlow, TLC

CONSTANTS q1, q2, i1, i2, i3, r1, s1, s2

Interchangeable == Permutations(Procs) \cup Permutations(Images) \cup Permutations(Staff)

=============================================================================
