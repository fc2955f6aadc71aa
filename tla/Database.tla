------------------------------ MODULE Database ------------------------------
(***************************************************************************)
(* The PostgreSQL tables that the rental handlers share, the row locks the *)
(* handlers hold on them, and the constraints of the database.  Every      *)
(* handler runs as a process: pc[q] names the step it takes next, job[q]   *)
(* holds what it has read and still uses.                                  *)
(*                                                                         *)
(* Columns that no statement of the program ever changes (the unit of a    *)
(* lease, the property of a unit, the tenant of a request...) are          *)
(* constants: an identifier stands for a row that may be inserted later,   *)
(* with status "NONE" until then.                                          *)
(*                                                                         *)
(* A transaction that locks rows and then writes is one step, taken when   *)
(* it gets its last lock, unless another handler can see or be blocked by  *)
(* it between two of its locks: then it is split there, and the locks it   *)
(* holds in between are HeldLeases and HeldRequests.                       *)
(***************************************************************************)
EXTENDS Integers, FiniteSets

CONSTANTS
  Procs,        \* concurrent HTTP requests
  PropertyIds, UnitIds, LeaseIds, RequestIds, RenewalIds,
  Tenants,
  PropertyOf,   \* units.propertyId
  UnitOf,       \* leases.unitId
  WantedUnit,   \* rental_requests.unitId
  TenantOf,     \* rental_requests.tenantId
  LeaseOf,      \* lease_renewal_requests.leaseId
  LastDay,      \* bound of the calendar
  Ops,          \* the operations that clients call
  None          \* a null column or an unused local variable

ASSUME ColumnsAssumption ==
  /\ PropertyOf \in [UnitIds -> PropertyIds]
  /\ UnitOf \in [LeaseIds -> UnitIds]
  /\ WantedUnit \in [RequestIds -> UnitIds]
  /\ TenantOf \in [RequestIds -> Tenants]
  /\ LeaseOf \in [RenewalIds -> LeaseIds]

ASSUME CalendarAssumption == LastDay \in Nat \ {0}

ASSUME NoneAssumption == None \notin LeaseIds

VARIABLES
  today,     \* CURRENT_DATE, and the UTC date of the application
  deleted,   \* the soft-deleted properties
  unit,      \* units.status
  lease,     \* leases: status, startDate, endDate
  request,   \* rental_requests: status, startDate, endDate, leaseId
  renewal,   \* lease_renewal_requests: status, requestedEndDate
  pc, job

tables == <<deleted, unit, lease, request, renewal>>
vars == <<today, tables, pc, job>>

Days == 1 .. LastDay

UnitStatus == {"AVAILABLE", "RENTED", "MAINTENANCE"}
LeaseStatus == {"NONE", "PENDING", "ACTIVE", "EXPIRED", "TERMINATED"}
RequestStatus == {"NONE", "PENDING", "APPROVED", "REJECTED", "CANCELLED"}
RenewalStatus == RequestStatus

LeaseRow == [status : LeaseStatus, start : Nat, end : Nat]
RequestRow ==
  [status : RequestStatus, start : Nat, end : Nat, lease : LeaseIds \cup {None}]
RenewalRow == [status : RenewalStatus, end : Nat]

-----------------------------------------------------------------------------
(* Handlers: where each of them is and what it remembers. *)

NoJob ==
  [id |-> None, status |-> None, start |-> 0, end |-> 0,
   rows |-> {}, asked |-> {}, rented |-> {}, open |-> {}, then |-> None]

\* The handler goes on to the given step, remembering j.
Goto(q, step, j) ==
  /\ pc' = [pc EXCEPT ![q] = step]
  /\ job' = [job EXCEPT ![q] = j]

\* The handler has answered its request.
Return(q) == Goto(q, "idle", NoJob)

\* The leases and rental requests handler q keeps locked while it waits for
\* the next lock of its transaction.
LeasesHeldBy(q) ==
  CASE pc[q] = "ActivateCommit" -> {job[q].id}
    [] pc[q] \in {"RemoveFindRequests", "RemoveCommit"} -> job[q].rows
    [] OTHER -> {}

RequestsHeldBy(q) == IF pc[q] = "ApproveRentalCommit" THEN {job[q].id} ELSE {}

\* Wrong form of HeldLeases and HeldRequests: rows are read without FOR UPDATE.
NothingHeld == {}

HeldLeases == UNION {LeasesHeldBy(q) : q \in Procs}

HeldRequests == UNION {RequestsHeldBy(q) : q \in Procs}

-----------------------------------------------------------------------------
(* Rows and the constraints the database enforces on every write. *)

PropertyLive(u) == PropertyOf[u] \notin deleted

Occupying == {"PENDING", "ACTIVE"}

\* Wrong form of Meets: the last day of a period is left out.
MeetsBeforeEnd(s1, e1, s2, e2) == s1 < e2 /\ s2 < e1

\* daterange(start, end, '[]') && daterange(start, end, '[]')
Meets(s1, e1, s2, e2) == s1 <= e2 /\ s2 <= e1

\* A PENDING or ACTIVE lease of unit u, other than l, meets the days s to e.
Conflict(u, s, e, l) ==
  \E m \in LeaseIds \ {l} :
    /\ UnitOf[m] = u
    /\ lease[m].status \in Occupying
    /\ Meets(lease[m].start, lease[m].end, s, e)

\* Wrong form of LeaseWritable: the unique index on ACTIVE leases is missing.
WritableWithoutIndex(l, r) ==
  /\ r.start < r.end
  /\ r.status \in Occupying => ~ Conflict(UnitOf[l], r.start, r.end, l)

\* The write of row r over lease l violates no constraint of the table.
LeaseWritable(l, r) ==
  /\ r.start < r.end
  /\ r.status \in Occupying => ~ Conflict(UnitOf[l], r.start, r.end, l)
  /\ r.status = "ACTIVE" =>
       ~ \E m \in LeaseIds \ {l} :
           UnitOf[m] = UnitOf[l] /\ lease[m].status = "ACTIVE"

RenewalsOf(S) == {r \in RenewalIds : LeaseOf[r] \in S}

\* Wrong form of CloseRenewals: the request takes the new status of its lease.
CloseRenewalsWithLease(R, status) ==
  renewal' = [r \in RenewalIds |->
    IF r \in R /\ renewal[r].status = "PENDING"
      THEN [renewal[r] EXCEPT !.status = lease'[LeaseOf[r]].status] ELSE renewal[r]]

\* Wrong form of CloseRenewals: decided requests are closed again.
CloseAllRenewals(R, status) ==
  renewal' = [r \in RenewalIds |->
    IF r \in R /\ renewal[r].status # "NONE"
      THEN [renewal[r] EXCEPT !.status = status] ELSE renewal[r]]

\* Closes the renewal requests in R that are PENDING.
CloseRenewals(R, status) ==
  renewal' = [r \in RenewalIds |->
    IF r \in R /\ renewal[r].status = "PENDING"
      THEN [renewal[r] EXCEPT !.status = status] ELSE renewal[r]]

=============================================================================
