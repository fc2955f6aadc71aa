----------------------------- MODULE Properties -----------------------------
(***************************************************************************)
(* PropertiesService.remove: the soft deletion of a property with its      *)
(* PENDING leases and rental requests.                                     *)
(***************************************************************************)
EXTENDS Database

LeasesOn(p) == {l \in LeaseIds : PropertyOf[UnitOf[l]] = p}
RequestsOn(p) == {r \in RequestIds : PropertyOf[WantedUnit[r]] = p}

\* remove: refuses a property with a RENTED unit; no row is locked.
RemoveCount(q) ==
  /\ pc[q] = "RemoveCount"
  /\ \E p \in PropertyIds \ deleted :
       /\ \A u \in UnitIds : PropertyOf[u] = p => unit[u] # "RENTED"
       /\ Goto(q, "RemoveFindLeases", [NoJob EXCEPT !.id = p])
  /\ UNCHANGED <<today, tables>>

\* remove: SELECT ... FOR UPDATE takes the PENDING leases of its snapshot,
RemoveFindLeases(q) ==
  LET pending == {l \in LeasesOn(job[q].id) : lease[l].status = "PENDING"}
  IN  /\ pc[q] = "RemoveFindLeases"
      /\ Goto(q, "RemoveLockLeases", [job[q] EXCEPT !.rows = pending])
      /\ UNCHANGED <<today, tables>>

\* waits for their locks, and keeps those that are still PENDING.
RemoveLockLeases(q) ==
  LET pending == {l \in job[q].rows : lease[l].status = "PENDING"}
  IN  /\ pc[q] = "RemoveLockLeases"
      /\ job[q].rows \cap HeldLeases = {}
      /\ Goto(q, "RemoveFindRequests", [job[q] EXCEPT !.rows = pending])
      /\ UNCHANGED <<today, tables>>

\* remove: the same for the PENDING rental requests,
RemoveFindRequests(q) ==
  LET pending == {r \in RequestsOn(job[q].id) : request[r].status = "PENDING"}
  IN  /\ pc[q] = "RemoveFindRequests"
      /\ Goto(q, "RemoveCommit", [job[q] EXCEPT !.asked = pending])
      /\ UNCHANGED <<today, tables>>

\* whose locks are the last it waits for before it writes everything.
RemoveCommit(q) ==
  /\ pc[q] = "RemoveCommit"
  /\ job[q].asked \cap HeldRequests = {}
  /\ lease' = [l \in LeaseIds |->
       IF l \in job[q].rows
         THEN [lease[l] EXCEPT !.status = "TERMINATED"] ELSE lease[l]]
  /\ request' = [r \in RequestIds |->
       IF r \in job[q].asked /\ request[r].status = "PENDING"
         THEN [request[r] EXCEPT !.status = "REJECTED"] ELSE request[r]]
  /\ deleted' = deleted \cup {job[q].id}
  /\ Return(q)
  /\ UNCHANGED <<today, unit, renewal>>

=============================================================================
