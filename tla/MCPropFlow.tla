----------------------------- MODULE MCPropFlow -----------------------------
(* Small instances of PropFlow: one property with one unit. *)
EXTENDS PropFlow, TLC

CONSTANTS p1, u1, t1

MCPropertyOf == [u \in UnitIds |-> p1]
MCUnitOf == [l \in LeaseIds |-> u1]
MCWantedUnit == [r \in RequestIds |-> u1]
MCTenantOf == [r \in RequestIds |-> t1]
MCLeaseOf == [r \in RenewalIds |-> CHOOSE l \in LeaseIds : TRUE]

Interchangeable == Permutations(Procs)

=============================================================================
