--------------------------- MODULE RentalRequests ---------------------------
(***************************************************************************)
(* RentalRequestsService: a tenant asks for a unit; approval turns the     *)
(* request into a PENDING lease.  The unit status never changes here.      *)
(***************************************************************************)
EXTENDS Database

\* The requests of r's tenant for r's unit.
SameAsk(r) ==
  {o \in RequestIds : WantedUnit[o] = WantedUnit[r] /\ TenantOf[o] = TenantOf[r]}

\* The tenant already has a PENDING request for the unit.
DuplicateRequest(r) == \E o \in SameAsk(r) : request[o].status = "PENDING"

\* create: every check reads the tables without a lock, before the transaction.
RequestRentalRead(q) ==
  /\ pc[q] = "RequestRentalRead"
  /\ \E r \in RequestIds, s, e \in Days :
       /\ s < e
       /\ e >= today
       /\ PropertyLive(WantedUnit[r])
       /\ unit[WantedUnit[r]] = "AVAILABLE"
       /\ ~ DuplicateRequest(r)
       /\ ~ Conflict(WantedUnit[r], s, e, None)
       /\ Goto(q, "RequestRental", [NoJob EXCEPT !.id = r, !.start = s, !.end = e])
  /\ UNCHANGED <<today, tables>>

\* create: the insert, with the partial unique index as the only check.
RequestRental(q) ==
  /\ pc[q] = "RequestRental"
  /\ ~ DuplicateRequest(job[q].id)
  /\ \E r \in SameAsk(job[q].id) :
       /\ request[r].status = "NONE"
       /\ request' = [request EXCEPT ![r] =
            [status |-> "PENDING", start |-> job[q].start, end |-> job[q].end,
             lease |-> None]]
  /\ Return(q)
  /\ UNCHANGED <<today, deleted, unit, lease, renewal>>

\* approve: locks the request and checks it and its property.
ApproveRentalLock(q) ==
  /\ pc[q] = "ApproveRentalLock"
  /\ \E r \in RequestIds \ HeldRequests :
       /\ PropertyLive(WantedUnit[r])
       /\ request[r].status = "PENDING"
       /\ request[r].end >= today
       /\ Goto(q, "ApproveRentalCommit", [NoJob EXCEPT !.id = r])
  /\ UNCHANGED <<today, tables>>

\* Wrong form of Approved: the lease is not linked to its request.
ApprovedUnlinked(r, l) == [request[r] EXCEPT !.status = "APPROVED"]

Approved(r, l) == [request[r] EXCEPT !.status = "APPROVED", !.lease = l]

\* approve: locks the unit, inserts the PENDING lease, closes the request.
ApproveRentalCommit(q) ==
  LET r == job[q].id
      row == [status |-> "PENDING", start |-> request[r].start, end |-> request[r].end]
  IN  /\ pc[q] = "ApproveRentalCommit"
      /\ unit[WantedUnit[r]] = "AVAILABLE"
      /\ ~ Conflict(WantedUnit[r], row.start, row.end, None)
      /\ \E l \in LeaseIds :
           /\ lease[l].status = "NONE" /\ UnitOf[l] = WantedUnit[r]
           /\ LeaseWritable(l, row)
           /\ lease' = [lease EXCEPT ![l] = row]
           /\ request' = [request EXCEPT ![r] = Approved(r, l)]
      /\ Return(q)
      /\ UNCHANGED <<today, deleted, unit, renewal>>

\* reject and cancel: under the lock of the request row alone.
CloseRequest(q, step, status) ==
  /\ pc[q] = step
  /\ \E r \in RequestIds \ HeldRequests :
       /\ PropertyLive(WantedUnit[r])
       /\ request[r].status = "PENDING"
       /\ request' = [request EXCEPT ![r].status = status]
  /\ Return(q)
  /\ UNCHANGED <<today, deleted, unit, lease, renewal>>

RejectRental(q) == CloseRequest(q, "RejectRental", "REJECTED")

CancelRental(q) == CloseRequest(q, "CancelRental", "CANCELLED")

=============================================================================
