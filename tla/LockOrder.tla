------------------------------ MODULE LockOrder ------------------------------
(***************************************************************************)
(* What the transactions on the units of a property wait for: the locks    *)
(* they take on rows of units, leases and rental_requests, in the order of *)
(* the code, and the waits of the exclusion constraint on leases.  Here a  *)
(* transaction stops wherever it can wait, and several of them can wait    *)
(* for each other.                                                         *)
(*                                                                         *)
(* Periods are left out: any two leases of a unit may overlap.  So is what *)
(* a handler checks before its transaction, which may have changed by the  *)
(* time it takes its first lock.  The flows of renewal requests that only  *)
(* lock their own row wait for nothing while they hold it.                 *)
(***************************************************************************)
EXTENDS Redis, FiniteSets

CONSTANTS
  Procs,                  \* concurrent HTTP requests
  UnitIds,                \* the units of a property
  LeaseIds, RequestIds,   \* leases of them, rental requests for them
  UnitOf,                 \* the unit that a lease or a request names
  None

ASSUME RowsAssumption ==
  /\ LeaseIds \cap RequestIds = {}
  /\ UnitIds \cap (LeaseIds \cup RequestIds) = {}
  /\ None \notin UnitIds \cup LeaseIds \cup RequestIds

ASSUME UnitOfAssumption == UnitOf \in [LeaseIds \cup RequestIds -> UnitIds]

VARIABLES
  unit,      \* units.status
  deleted,   \* the property is soft-deleted
  lease,     \* leases.status
  request,   \* rental_requests.status
  pc, job

tables == <<unit, deleted, lease, request>>

UnitStatus == {"AVAILABLE", "RENTED", "MAINTENANCE", "GONE"}
LeaseStatus == {"NONE", "PENDING", "ACTIVE", "TERMINATED", "EXPIRED"}
RequestStatus == {"NONE", "PENDING", "CLOSED"}

NoJob ==
  [lease |-> None, request |-> None, unit |-> None, status |-> None,
   rows |-> {}, todo |-> {}, keys |-> {}]

Goto(q, step, j) ==
  /\ pc' = [pc EXCEPT ![q] = step]
  /\ job' = [job EXCEPT ![q] = j]

Return(q) == Goto(q, "idle", NoJob)

\* Wrong form of CommitAndInvalidate: only the searches are dropped.
CommitAndDropSearch(q) == Goto(q, "Invalidate", [NoJob EXCEPT !.keys = {"search"} \cap Keys])

\* After its commit the handler drops what is cached.
CommitAndInvalidate(q) == Goto(q, "Invalidate", [NoJob EXCEPT !.keys = Keys])

Pending(S) == {l \in S : lease[l] = "PENDING"}

PendingRequests == {r \in RequestIds : request[r] = "PENDING"}

-----------------------------------------------------------------------------
(* Who waits for whom. *)

\* The rows transaction q has locked.
Locks(q) ==
  CASE pc[q] \in {"ActivateUnit", "TerminateUnit", "MoveLease", "UpdateLease"} -> {job[q].lease}
    [] pc[q] = "ActivateWrite" -> {job[q].lease, UnitOf[job[q].lease]}
    [] pc[q] = "ApproveUnit" -> {job[q].request}
    [] pc[q] = "InsertLease" -> {job[q].request, UnitOf[job[q].lease]} \ {None}
    [] pc[q] = "DeleteUnit" -> {job[q].unit}
    [] pc[q] \in {"LockLeases", "LockRequests", "Sweep"} -> job[q].rows
    [] OTHER -> {}

\* The leases it has written and not yet committed.
Dirty(q) ==
  CASE pc[q] \in {"ActivateWrite", "TerminateUnit", "InsertLease", "MoveLease", "UpdateLease"} ->
         {job[q].lease}
    [] pc[q] \in {"LockRequests", "Sweep"} -> LeaseIds \cap job[q].rows
    [] OTHER -> {}

\* What a sweep has yet to update of the rows that it found: a lease that is
\* still ACTIVE, and a unit that is still RENTED once its lease is updated.
SweepWants(q) ==
  {l \in LeaseIds \cap job[q].todo : lease[l] = "ACTIVE"}
    \cup {u \in UnitIds \cap job[q].todo :
            unit[u] = "RENTED" /\ \E l \in LeaseIds \cap job[q].rows : UnitOf[l] = u}

\* The rows it locks next.
Wants(q) ==
  CASE pc[q] \in {"ActivateUnit", "TerminateUnit"} -> {UnitOf[job[q].lease]}
    [] pc[q] = "ApproveUnit" -> {UnitOf[job[q].request]}
    [] pc[q] = "UpdateSave" -> {job[q].lease}
    [] pc[q] = "SaveUnit" -> {job[q].unit}
    [] pc[q] = "Sweep" -> SweepWants(q)
    [] pc[q] = "LockLeases" -> Pending(LeaseIds \cap job[q].todo)
    [] pc[q] = "LockRequests" -> PendingRequests
    [] OTHER -> {}

\* The exclusion constraint makes a lease with a new period wait for every
\* other lease of the unit that is being written, and one with an old period
\* only for those with a new one.
WaitsForPeriod(q, p) ==
  /\ \/ pc[q] \in {"InsertLease", "MoveLease", "UpdateLease"}
     \/ pc[q] = "ActivateWrite" /\ pc[p] \in {"MoveLease", "UpdateLease"}
  /\ \E l \in Dirty(p) : UnitOf[l] = UnitOf[job[q].lease]

Blockers(q) ==
  {p \in Procs \ {q} : Wants(q) \cap Locks(p) # {} \/ WaitsForPeriod(q, p)}

\* Wrong form of Free: rows are read without FOR UPDATE.
FreeAlways(q, row) == TRUE

Free(q, row) == \A p \in Procs \ {q} : row \notin Locks(p)

\* Every transaction in S waits for another one in S.
WaitCycle(S) == S # {} /\ \A q \in S : Blockers(q) \cap S # {}

-----------------------------------------------------------------------------
(* LeasesService. *)

\* create: locks the unit...
CreateLease(q) ==
  /\ pc[q] = "idle"
  /\ \E l \in LeaseIds :
       /\ lease[l] = "NONE"
       /\ Free(q, UnitOf[l]) /\ unit[UnitOf[l]] = "AVAILABLE"
       /\ Goto(q, "InsertLease", [NoJob EXCEPT !.lease = l])
  /\ UNCHANGED tables

\* ...and inserts the lease, as the approval of a request does.
InsertLease(q) ==
  /\ pc[q] = "InsertLease"
  /\ Blockers(q) = {}
  /\ lease' = [lease EXCEPT ![job[q].lease] = "PENDING"]
  /\ request' = [r \in RequestIds |-> IF r = job[q].request THEN "CLOSED" ELSE request[r]]
  /\ Return(q)
  /\ UNCHANGED <<unit, deleted>>

\* activate: locks the lease, then the unit, then writes both.
ActivateLease(q) ==
  /\ pc[q] = "idle"
  /\ ~ deleted
  /\ \E l \in Pending(LeaseIds) :
       Free(q, l) /\ Goto(q, "ActivateUnit", [NoJob EXCEPT !.lease = l])
  /\ UNCHANGED tables

ActivateUnit(q) ==
  /\ pc[q] = "ActivateUnit"
  /\ Free(q, UnitOf[job[q].lease])
  /\ unit[UnitOf[job[q].lease]] = "AVAILABLE"
  /\ Goto(q, "ActivateWrite", job[q])
  /\ UNCHANGED tables

\* The index admits one ACTIVE lease of a unit.
ActivateWrite(q) ==
  /\ pc[q] = "ActivateWrite"
  /\ Blockers(q) = {}
  /\ LET u == UnitOf[job[q].lease]
     IN  /\ \A l \in LeaseIds : UnitOf[l] = u => lease[l] # "ACTIVE"
         /\ unit' = [unit EXCEPT ![u] = "RENTED"]
  /\ lease' = [lease EXCEPT ![job[q].lease] = "ACTIVE"]
  /\ CommitAndInvalidate(q)
  /\ UNCHANGED <<deleted, request>>

\* Wrong form of FreesUnit: the unit is updated whatever the lease was.
AlwaysFreesUnit(l) == lease[l] \in {"PENDING", "ACTIVE"}

\* terminate: wasActive.
FreesUnit(l) == lease[l] = "ACTIVE"

\* terminate: writes the lease, and then the unit if the lease was ACTIVE.
TerminateLease(q) ==
  /\ pc[q] = "idle"
  /\ ~ deleted
  /\ \E l \in LeaseIds :
       /\ Free(q, l)
       /\ lease[l] \in {"PENDING", "ACTIVE"}
       /\ IF FreesUnit(l)
            THEN Goto(q, "TerminateUnit", [NoJob EXCEPT !.lease = l]) /\ UNCHANGED lease
            ELSE lease' = [lease EXCEPT ![l] = "TERMINATED"] /\ CommitAndInvalidate(q)
  /\ UNCHANGED <<unit, deleted, request>>

TerminateUnit(q) ==
  /\ pc[q] = "TerminateUnit"
  /\ Free(q, UnitOf[job[q].lease])
  /\ lease' = [lease EXCEPT ![job[q].lease] = "TERMINATED"]
  /\ unit' = [unit EXCEPT ![UnitOf[job[q].lease]] = "AVAILABLE"]
  /\ CommitAndInvalidate(q)
  /\ UNCHANGED <<deleted, request>>

\* renew, and the approval of a renewal: the period of a lease is moved.
MoveBegin(q) ==
  /\ pc[q] = "idle"
  /\ ~ deleted
  /\ \E l \in LeaseIds :
       /\ lease[l] = "ACTIVE" /\ Free(q, l)
       /\ Goto(q, "MoveLease", [NoJob EXCEPT !.lease = l])
  /\ UNCHANGED tables

MoveLease(q) ==
  /\ pc[q] = "MoveLease"
  /\ Blockers(q) = {}
  /\ Return(q)
  /\ UNCHANGED tables

\* update: reads a PENDING lease without a lock...
UpdateRead(q) ==
  /\ pc[q] = "idle"
  /\ ~ deleted
  /\ \E l \in Pending(LeaseIds) : Goto(q, "UpdateSave", [NoJob EXCEPT !.lease = l])
  /\ UNCHANGED tables

\* ...and saves the entity: the row is locked by the UPDATE...
UpdateSave(q) ==
  /\ pc[q] = "UpdateSave"
  /\ Free(q, job[q].lease)
  /\ Goto(q, "UpdateLease", job[q])
  /\ UNCHANGED tables

\* ...which moves the period and, if the lease was not PENDING any more when
\* save compared it with the entity, makes it PENDING again.  No cache is
\* dropped.
UpdateLease(q) ==
  /\ pc[q] = "UpdateLease"
  /\ Blockers(q) = {}
  /\ lease' \in {lease, [lease EXCEPT ![job[q].lease] = "PENDING"]}
  /\ Return(q)
  /\ UNCHANGED <<unit, deleted, request>>

\* LeaseExpirationService.run: one statement finds the overdue leases, any of
\* the ACTIVE ones, and their RENTED units...
SweepFind(q) ==
  /\ pc[q] = "idle"
  /\ \E due \in SUBSET {l \in LeaseIds : lease[l] = "ACTIVE"} :
       /\ due # {}
       /\ LET rented == {u \in UnitIds : unit[u] = "RENTED" /\ \E l \in due : UnitOf[l] = u}
          IN  Goto(q, "Sweep", [NoJob EXCEPT !.todo = due \cup rented])
  /\ UNCHANGED tables

\* ...updates them in any order, each lease before its unit...
SweepRow(q) ==
  /\ pc[q] = "Sweep"
  /\ \E row \in Wants(q) :
       /\ Free(q, row)
       /\ Goto(q, "Sweep", [job[q] EXCEPT !.rows = @ \cup {row}, !.todo = @ \ {row}])
  /\ UNCHANGED tables

\* ...and commits; the cache is dropped if a lease has expired.
SweepCommit(q) ==
  /\ pc[q] = "Sweep"
  /\ Wants(q) = {}
  /\ lease' = [l \in LeaseIds |-> IF l \in job[q].rows THEN "EXPIRED" ELSE lease[l]]
  /\ unit' = [u \in UnitIds |-> IF u \in job[q].rows THEN "AVAILABLE" ELSE unit[u]]
  /\ IF job[q].rows = {} THEN Return(q) ELSE CommitAndInvalidate(q)
  /\ UNCHANGED <<deleted, request>>

-----------------------------------------------------------------------------
(* RentalRequestsService. *)

\* A row that names a unit can be inserted while the unit is updated, not while
\* it is locked FOR UPDATE.
KeyFree(q, u) == \A p \in Procs \ {q} : u \in Locks(p) => pc[p] = "Sweep"

\* Wrong form of UnitReferable: the insert does not look at the unit.
UnitIgnored(q, u) == TRUE

\* The foreign key of an inserted row locks the unit it names.
UnitReferable(q, u) == KeyFree(q, u) /\ unit[u] # "GONE"

RequestRental(q) ==
  /\ pc[q] = "idle"
  /\ \E r \in RequestIds :
       /\ request[r] = "NONE" /\ UnitReferable(q, UnitOf[r])
       /\ request' = [request EXCEPT ![r] = "PENDING"]
  /\ UNCHANGED <<unit, deleted, lease, pc, job>>

\* reject and cancel wait for nothing once they hold the request.
CloseRequest(q) ==
  /\ pc[q] = "idle"
  /\ ~ deleted
  /\ \E r \in PendingRequests : Free(q, r) /\ request' = [request EXCEPT ![r] = "CLOSED"]
  /\ UNCHANGED <<unit, deleted, lease, pc, job>>

\* approve: locks the request, then the unit, then inserts a lease.
ApproveRequest(q) ==
  /\ pc[q] = "idle"
  /\ ~ deleted
  /\ \E r \in PendingRequests :
       Free(q, r) /\ Goto(q, "ApproveUnit", [NoJob EXCEPT !.request = r])
  /\ UNCHANGED tables

ApproveUnit(q) ==
  /\ pc[q] = "ApproveUnit"
  /\ LET u == UnitOf[job[q].request]
     IN  /\ Free(q, u)
         /\ unit[u] = "AVAILABLE"
         /\ \E l \in LeaseIds :
              /\ lease[l] = "NONE" /\ UnitOf[l] = u
              /\ Goto(q, "InsertLease", [job[q] EXCEPT !.lease = l])
  /\ UNCHANGED tables

-----------------------------------------------------------------------------
(* PropertiesService and UnitsService. *)

\* remove of a property: selects its PENDING leases...
RemoveProperty(q) ==
  /\ pc[q] = "idle"
  /\ ~ deleted
  /\ Goto(q, "LockLeases", [NoJob EXCEPT !.todo = Pending(LeaseIds)])
  /\ UNCHANGED tables

\* ...locks them one after the other, in any order...
LockLeases(q) ==
  /\ pc[q] = "LockLeases"
  /\ IF Wants(q) = {}
       THEN Goto(q, "LockRequests", [job[q] EXCEPT !.todo = {}])
       ELSE \E l \in Wants(q) :
              /\ Free(q, l)
              /\ Goto(q, "LockLeases", [job[q] EXCEPT !.rows = @ \cup {l}, !.todo = @ \ {l}])
  /\ UNCHANGED tables

\* ...updates them, and locks the PENDING requests before it commits: at once,
\* since a handler that waits for a request holds nothing else.
LockRequests(q) ==
  /\ pc[q] = "LockRequests"
  /\ Blockers(q) = {}
  /\ lease' = [l \in LeaseIds |-> IF l \in job[q].rows THEN "TERMINATED" ELSE lease[l]]
  /\ request' = [r \in RequestIds |-> IF r \in PendingRequests THEN "CLOSED" ELSE request[r]]
  /\ deleted' = TRUE
  /\ CommitAndInvalidate(q)
  /\ UNCHANGED unit

\* No lease and no rental request was ever inserted for the unit.
NoHistory(u) ==
  /\ \A l \in LeaseIds : UnitOf[l] = u => lease[l] = "NONE"
  /\ \A r \in RequestIds : UnitOf[r] = u => request[r] = "NONE"

\* remove of a unit: locks it, and counts what refers to it...
RemoveUnit(q) ==
  /\ pc[q] = "idle"
  /\ \E u \in UnitIds :
       /\ Free(q, u)
       /\ unit[u] \in {"AVAILABLE", "MAINTENANCE"}
       /\ NoHistory(u)
       /\ Goto(q, "DeleteUnit", [NoJob EXCEPT !.unit = u])
  /\ UNCHANGED tables

\* ...then deletes it.
DeleteUnit(q) ==
  /\ pc[q] = "DeleteUnit"
  /\ unit' = [unit EXCEPT ![job[q].unit] = "GONE"]
  /\ CommitAndInvalidate(q)
  /\ UNCHANGED <<deleted, lease, request>>

\* What update, setStatus and the image handlers save of a unit that had status
\* s when they read it: only the last take a RENTED unit, and keep its status.
SavedStatus(s) == IF s = "RENTED" THEN {"RENTED"} ELSE {"AVAILABLE", "MAINTENANCE"}

\* They read the unit without a lock...
UnitRead(q) ==
  /\ pc[q] = "idle"
  /\ ~ deleted
  /\ \E u \in UnitIds :
       /\ unit[u] # "GONE"
       /\ \E s \in SavedStatus(unit[u]) :
            Goto(q, "SaveUnit", [NoJob EXCEPT !.unit = u, !.status = s])
  /\ UNCHANGED tables

\* ...and write it, whatever it has become.  One that was removed is inserted
\* again, unless save still found it.
SaveUnit(q) ==
  /\ pc[q] = "SaveUnit"
  /\ Free(q, job[q].unit)
  /\ \/ unit' = [unit EXCEPT ![job[q].unit] = job[q].status]
     \/ unit[job[q].unit] = "GONE" /\ UNCHANGED unit
  /\ CommitAndInvalidate(q)
  /\ UNCHANGED <<deleted, lease, request>>

=============================================================================
