---------------------------- MODULE MCAccountFlow ----------------------------
(* A small instance of AccountFlow. *)
EXTENDS AccountFlow, TLC

CONSTANTS q1, q2, t1, t2, t3, f1, f2

Interchangeable ==
  Permutations(Procs) \cup Permutations(TokenIds) \cup Permutations(FamilyIds)

=============================================================================
