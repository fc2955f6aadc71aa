------------------------------ MODULE Renewals ------------------------------
(***************************************************************************)
(* LeaseRenewalRequestsService: a tenant asks to extend an ACTIVE lease;   *)
(* the owner approves or rejects, the tenant may withdraw.                 *)
(***************************************************************************)
EXTENDS Leases

PendingRenewal(l) ==
  \E r \in RenewalIds : LeaseOf[r] = l /\ renewal[r].status = "PENDING"

\* create: under the lock of the lease.
RequestRenewal(q) ==
  /\ pc[q] = "RequestRenewal"
  /\ \E r \in RenewalIds, e \in Days :
       LET l == LeaseOf[r]
       IN  /\ renewal[r].status = "NONE"
           /\ l \notin HeldLeases
           /\ PropertyLive(UnitOf[l])
           /\ Extends(l, e)
           /\ ~ PendingRenewal(l)
           /\ renewal' = [renewal EXCEPT ![r] = [status |-> "PENDING", end |-> e]]
  /\ Return(q)
  /\ UNCHANGED <<today, deleted, unit, lease, request>>

\* approve: locks the lease, then the request; the owner may grant another
\* date than the one asked for.
ApproveRenewal(q) ==
  /\ pc[q] = "ApproveRenewal"
  /\ \E r \in RenewalIds, e \in Days :
       /\ LeaseOf[r] \notin HeldLeases
       /\ PropertyLive(UnitOf[LeaseOf[r]])
       /\ renewal[r].status = "PENDING"
       /\ ApplyRenewal(LeaseOf[r], e)
  /\ Return(q)
  /\ UNCHANGED <<today, deleted, unit, request>>

\* reject and cancel: under the lock of the request row alone.
CloseRenewal(q, step, status) ==
  /\ pc[q] = step
  /\ \E r \in RenewalIds :
       /\ PropertyLive(UnitOf[LeaseOf[r]])
       /\ renewal[r].status = "PENDING"
       /\ renewal' = [renewal EXCEPT ![r].status = status]
  /\ Return(q)
  /\ UNCHANGED <<today, deleted, unit, lease, request>>

RejectRenewal(q) == CloseRenewal(q, "RejectRenewal", "REJECTED")

CancelRenewal(q) == CloseRenewal(q, "CancelRenewal", "CANCELLED")

=============================================================================
