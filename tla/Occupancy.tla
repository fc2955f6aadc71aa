------------------------------ MODULE Occupancy ------------------------------
(***************************************************************************)
(* What the rental core promises: a unit stands empty or is held by one    *)
(* lease.  A lease takes an empty unit, holds it until the lease ends, and *)
(* never holds it again.                                                   *)
(***************************************************************************)
CONSTANTS
  UnitIds, LeaseIds,
  UnitOf,   \* the unit of each lease
  None

VARIABLES
  holder,   \* the lease that holds each unit, or None
  over      \* the leases that have ended

occupancy == <<holder, over>>

Init ==
  /\ holder = [u \in UnitIds |-> None]
  /\ over = {}

Take(l) ==
  /\ holder[UnitOf[l]] = None
  /\ l \notin over
  /\ holder' = [holder EXCEPT ![UnitOf[l]] = l]
  /\ UNCHANGED over

\* The leases in S end, whether they hold their unit or not.
End(S) ==
  /\ over' = over \cup S
  /\ holder' = [u \in UnitIds |-> IF holder[u] \in S THEN None ELSE holder[u]]

Next == (\E l \in LeaseIds : Take(l)) \/ \E S \in SUBSET LeaseIds : End(S)

Spec == Init /\ [][Next]_occupancy

=============================================================================
