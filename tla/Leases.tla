------------------------------- MODULE Leases -------------------------------
(***************************************************************************)
(* LeasesService: direct creation, update, activation, termination and     *)
(* renewal of a lease.  Each handler has already run the sweep when its    *)
(* first step below is taken.                                              *)
(***************************************************************************)
EXTENDS Database

\* create: the unit is read, with its property, before the transaction.
CreateLeaseRead(q) ==
  /\ pc[q] = "CreateLeaseRead"
  /\ \E u \in UnitIds :
       /\ PropertyLive(u)
       /\ Goto(q, "CreateLease", [NoJob EXCEPT !.id = u])
  /\ UNCHANGED <<today, tables>>

\* create: locks the unit, inserts a PENDING lease.  The property is not read
\* again.
CreateLease(q) ==
  /\ pc[q] = "CreateLease"
  /\ unit[job[q].id] = "AVAILABLE"
  /\ \E l \in LeaseIds, s, e \in Days :
       LET row == [status |-> "PENDING", start |-> s, end |-> e]
       IN  /\ lease[l].status = "NONE" /\ UnitOf[l] = job[q].id
           /\ LeaseWritable(l, row)
           /\ lease' = [lease EXCEPT ![l] = row]
  /\ Return(q)
  /\ UNCHANGED <<today, deleted, unit, request, renewal>>

\* update: the lease is read without a lock and kept in memory.
UpdateLeaseRead(q) ==
  /\ pc[q] = "UpdateLeaseRead"
  /\ \E l \in LeaseIds, s, e \in Days :
       /\ lease[l].status = "PENDING" /\ PropertyLive(UnitOf[l])
       /\ s < e
       /\ Goto(q, "UpdateLeaseSave",
            [NoJob EXCEPT !.id = l, !.status = "PENDING", !.start = s, !.end = e])
  /\ UNCHANGED <<today, tables>>

\* update: save() selects the row and writes every column in which the entity
\* in memory differs from it, the status included.  It writes no status if that
\* select came before another handler's change.
UpdateLeaseSave(q) ==
  LET l == job[q].id
  IN  /\ pc[q] = "UpdateLeaseSave"
      /\ l \notin HeldLeases
      /\ \E status \in {job[q].status, lease[l].status} :
           LET row == [status |-> status, start |-> job[q].start, end |-> job[q].end]
           IN  LeaseWritable(l, row) /\ lease' = [lease EXCEPT ![l] = row]
      /\ Return(q)
      /\ UNCHANGED <<today, deleted, unit, request, renewal>>

\* activate: locks the lease and checks it and its property.
ActivateLock(q) ==
  /\ pc[q] = "ActivateLock"
  /\ \E l \in LeaseIds \ HeldLeases :
       /\ lease[l].status = "PENDING"
       /\ PropertyLive(UnitOf[l])
       /\ Goto(q, "ActivateCommit", [NoJob EXCEPT !.id = l])
  /\ UNCHANGED <<today, tables>>

\* activate: locks the unit, then writes both rows.
ActivateCommit(q) ==
  LET l == job[q].id
      row == [lease[l] EXCEPT !.status = "ACTIVE"]
  IN  /\ pc[q] = "ActivateCommit"
      /\ unit[UnitOf[l]] = "AVAILABLE"
      /\ LeaseWritable(l, row)
      /\ lease' = [lease EXCEPT ![l] = row]
      /\ unit' = [unit EXCEPT ![UnitOf[l]] = "RENTED"]
      /\ Return(q)
      /\ UNCHANGED <<today, deleted, request, renewal>>

\* Wrong form of FreesUnit: the unit is freed whatever the lease was.
AlwaysFreesUnit(l) == lease[l].status \in Occupying

\* terminate: wasActive.
FreesUnit(l) == lease[l].status = "ACTIVE"

\* terminate: the unit of an ACTIVE lease becomes AVAILABLE whatever it was.
Terminate(q) ==
  /\ pc[q] = "Terminate"
  /\ \E l \in LeaseIds \ HeldLeases :
       /\ lease[l].status \in Occupying
       /\ PropertyLive(UnitOf[l])
       /\ lease' = [lease EXCEPT ![l].status = "TERMINATED"]
       /\ unit' = IF FreesUnit(l)
                    THEN [unit EXCEPT ![UnitOf[l]] = "AVAILABLE"] ELSE unit
       /\ CloseRenewals(RenewalsOf({l}), "CANCELLED")
  /\ Return(q)
  /\ UNCHANGED <<today, deleted, request>>

\* Wrong form of Extends: the same end date is accepted.
ExtendsOrKeeps(l, end) == lease[l].status = "ACTIVE" /\ end >= lease[l].end

\* The period of an ACTIVE lease may be moved to this end.
Extends(l, end) == lease[l].status = "ACTIVE" /\ end > lease[l].end

\* applyRenewal, in the caller's transaction: the lease l is locked.
ApplyRenewal(l, end) ==
  /\ Extends(l, end)
  /\ LeaseWritable(l, [lease[l] EXCEPT !.end = end])
  /\ lease' = [lease EXCEPT ![l].end = end]
  /\ CloseRenewals(RenewalsOf({l}), "APPROVED")

Renew(q) ==
  /\ pc[q] = "Renew"
  /\ \E l \in LeaseIds \ HeldLeases, e \in Days :
       /\ PropertyLive(UnitOf[l])
       /\ ApplyRenewal(l, e)
  /\ Return(q)
  /\ UNCHANGED <<today, deleted, unit, request>>

=============================================================================
