------------------------------ MODULE MCPipeline ------------------------------
(* Small instances of Pipeline. *)
EXTENDS Pipeline, TLC

CONSTANTS q1, q2, q3, l1, l2, r1, u1

MCKeys == {"stats"}

\* Both leases and the request are of one unit.
OneUnit == [x \in LeaseIds \cup RequestIds |-> u1]

Interchangeable == Permutations(Procs) \cup Permutations(LeaseIds) \cup Permutations(RequestIds)

=============================================================================
