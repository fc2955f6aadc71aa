------------------------------ MODULE PropFlow ------------------------------
(***************************************************************************)
(* The rental core of PropFlow: every handler that reads or writes units,  *)
(* leases, rental requests and renewal requests, run by concurrent HTTP    *)
(* requests over the shared tables.                                        *)
(***************************************************************************)
EXTENDS LeaseExpiration, Leases, Renewals, RentalRequests, Properties, Units

\* Handlers that run the expiration sweep before anything else.
SweepFirst ==
  {"CreateLeaseRead", "UpdateLeaseRead", "ActivateLock", "Terminate", "Renew",
   "RequestRenewal", "ApproveRenewal", "RequestRentalRead", "ApproveRentalLock"}

NoSweep ==
  {"RejectRenewal", "CancelRenewal", "RejectRental", "CancelRental",
   "RemoveCount", "SetStatusRead", "UpdateUnitRead", "EditImagesRead"}

AllOps == SweepFirst \cup NoSweep

\* Handlers that save a row they read without a lock.
LeaseSavers == {"UpdateLeaseRead"}
UnitSavers == {"SetStatusRead", "UpdateUnitRead", "EditImagesRead"}
StaleSavers == LeaseSavers \cup UnitSavers

LaterSteps ==
  {"Sweep", "CreateLease", "UpdateLeaseSave", "ActivateCommit", "RequestRental",
   "ApproveRentalCommit", "RemoveFindLeases", "RemoveLockLeases",
   "RemoveFindRequests", "RemoveCommit", "SaveUnit"}

Steps == {"idle"} \cup AllOps \cup LaterSteps

-----------------------------------------------------------------------------

Init ==
  /\ today = 1
  /\ deleted = {}
  /\ unit \in [UnitIds -> {"AVAILABLE", "MAINTENANCE"}]
  /\ lease = [l \in LeaseIds |-> [status |-> "NONE", start |-> 0, end |-> 0]]
  /\ request = [r \in RequestIds |->
       [status |-> "NONE", start |-> 0, end |-> 0, lease |-> None]]
  /\ renewal = [r \in RenewalIds |-> [status |-> "NONE", end |-> 0]]
  /\ pc = [q \in Procs |-> "idle"]
  /\ job = [q \in Procs |-> NoJob]

\* Midnight.
Tick ==
  /\ today < LastDay
  /\ today' = today + 1
  /\ UNCHANGED <<tables, pc, job>>

\* What a request that starts with the sweep does after it; one that only reads
\* is done.
AfterSweep == (Ops \cap SweepFirst) \cup {"idle"}

\* A request arrives and its handler starts.  The sweep of a handler that has
\* nothing to expire changes nothing and is left out.
Receive(q) ==
  /\ pc[q] = "idle"
  /\ \E op \in Ops \cap AllOps :
       /\ op \in SweepFirst => Overdue = {}
       /\ Goto(q, op, NoJob)
  /\ UNCHANGED <<today, tables>>

ReceiveAndSweep(q) ==
  /\ pc[q] = "idle"
  /\ Overdue # {}
  /\ \E op \in AfterSweep : SweepBegin(q, op)
  /\ UNCHANGED <<today, tables>>

\* The handler throws (a refusal, a lost connection, a crash): what it has not
\* committed is rolled back and its locks are gone.
Fail(q) ==
  /\ pc[q] # "idle"
  /\ Return(q)
  /\ UNCHANGED <<today, tables>>

LeaseStep(q) ==
  \/ CreateLeaseRead(q) \/ CreateLease(q)
  \/ UpdateLeaseRead(q) \/ UpdateLeaseSave(q)
  \/ ActivateLock(q) \/ ActivateCommit(q)
  \/ Terminate(q) \/ Renew(q)

RenewalStep(q) ==
  RequestRenewal(q) \/ ApproveRenewal(q) \/ RejectRenewal(q) \/ CancelRenewal(q)

RequestStep(q) ==
  \/ RequestRentalRead(q) \/ RequestRental(q)
  \/ ApproveRentalLock(q) \/ ApproveRentalCommit(q)
  \/ RejectRental(q) \/ CancelRental(q)

PropertyStep(q) ==
  \/ RemoveCount(q) \/ RemoveFindLeases(q) \/ RemoveLockLeases(q)
  \/ RemoveFindRequests(q) \/ RemoveCommit(q)

UnitStep(q) ==
  SetStatusRead(q) \/ UpdateUnitRead(q) \/ EditImagesRead(q) \/ SaveUnit(q)

HandlerStep(q) ==
  \/ Receive(q) \/ ReceiveAndSweep(q) \/ SweepCommit(q) \/ Fail(q)
  \/ LeaseStep(q) \/ RenewalStep(q) \/ RequestStep(q)
  \/ PropertyStep(q) \/ UnitStep(q)

Next == Tick \/ \E q \in Procs : HandlerStep(q)

Spec == Init /\ [][Next]_vars

-----------------------------------------------------------------------------
(* Types. *)

\* What a handler remembers when its next step is the given one.
Fits(step, j) ==
  /\ step = "Sweep" => j.then \in AfterSweep
  /\ step \in {"CreateLease", "SaveUnit"} => j.id \in UnitIds
  /\ step = "SaveUnit" => j.status \in UnitStatus
  /\ step \in {"UpdateLeaseSave", "ActivateCommit"} => j.id \in LeaseIds
  /\ step = "UpdateLeaseSave" => j.status = "PENDING"
  /\ step \in {"RequestRental", "ApproveRentalCommit"} => j.id \in RequestIds
  /\ step \in {"RemoveFindLeases", "RemoveLockLeases", "RemoveFindRequests", "RemoveCommit"} =>
       j.id \in PropertyIds

Jobs ==
  [id : {None} \cup UnitIds \cup LeaseIds \cup RequestIds \cup PropertyIds,
   status : {None} \cup LeaseStatus \cup UnitStatus,
   start : Nat, end : Nat, rows : SUBSET LeaseIds, asked : SUBSET RequestIds,
   rented : SUBSET UnitIds, open : SUBSET RenewalIds, then : {None, "idle"} \cup SweepFirst]

TablesOK ==
  /\ today \in Days
  /\ deleted \in SUBSET PropertyIds
  /\ unit \in [UnitIds -> UnitStatus]
  /\ lease \in [LeaseIds -> LeaseRow]
  /\ request \in [RequestIds -> RequestRow]
  /\ renewal \in [RenewalIds -> RenewalRow]

HandlersOK ==
  /\ pc \in [Procs -> Steps]
  /\ job \in [Procs -> Jobs]
  /\ \A q \in Procs : Fits(pc[q], job[q])

\* Every variable has its type, and every handler remembers a row of the table
\* its next step works on.
TypeOK == TablesOK /\ HandlersOK

-----------------------------------------------------------------------------
(* What must hold. *)

\* A unit is RENTED exactly while one of its leases is ACTIVE: activation,
\* termination, the sweep and property removal keep the two tables together
\* though each locks only some of the rows.  (Not with StaleSavers among Ops.)
RentedIffActive ==
  \A u \in UnitIds :
    unit[u] = "RENTED" <=>
      \E l \in LeaseIds : UnitOf[l] = u /\ lease[l].status = "ACTIVE"

\* On no day do two PENDING or ACTIVE leases of a unit run together, and at
\* most one lease of a unit is ACTIVE, whichever handlers race to create,
\* move, renew or activate them.
NoDoubleBooking ==
  \A l, m \in LeaseIds :
    l # m /\ UnitOf[l] = UnitOf[m]
      /\ lease[l].status \in Occupying /\ lease[m].status \in Occupying =>
        /\ ~ (lease[l].status = "ACTIVE" /\ lease[m].status = "ACTIVE")
        /\ \A d \in Days :
             ~ (d \in lease[l].start .. lease[l].end /\ d \in lease[m].start .. lease[m].end)

\* The lease of a PENDING renewal request is ACTIVE and ends before the date
\* the request asks for: termination and renewal close the request with the
\* lease.  Only a sweep may have expired the lease and missed a request made
\* meanwhile.  (Not with LeaseSavers among Ops.)
PendingRenewalsAreOpen ==
  \A r \in RenewalIds :
    renewal[r].status = "PENDING" =>
      /\ lease[LeaseOf[r]].status \in {"ACTIVE", "EXPIRED"}
      /\ renewal[r].end > lease[LeaseOf[r]].end

\* An APPROVED rental request has a lease of its own, for the unit and from
\* the day it asked for, that lasts at least as long.  (Not with
\* LeaseSavers among Ops, which move a PENDING lease.)
ApprovalMakesOneLease ==
  /\ \A r \in RequestIds :
       IF request[r].status = "APPROVED"
         THEN LET l == request[r].lease
              IN  /\ l \in LeaseIds
                  /\ UnitOf[l] = WantedUnit[r] /\ lease[l].status # "NONE"
                  /\ lease[l].start = request[r].start /\ lease[l].end >= request[r].end
         ELSE request[r].lease = None
  /\ \A r, o \in RequestIds :
       request[r].lease # None /\ request[r].lease = request[o].lease => r = o

Closed == {"APPROVED", "REJECTED", "CANCELLED"}

DecisionKept ==
  /\ \A r \in RequestIds : request[r].status \in Closed => request'[r] = request[r]
  /\ \A r \in RenewalIds : renewal[r].status \in Closed => renewal'[r] = renewal[r]

\* A rental or renewal request is decided once: approval, rejection,
\* withdrawal and the removal of the property race for it, and whichever
\* comes second finds it decided.
DecisionsAreFinal == [][DecisionKept]_vars

LeaseTransitions ==
  {<<"NONE", "PENDING">>, <<"PENDING", "ACTIVE">>, <<"PENDING", "TERMINATED">>,
   <<"ACTIVE", "TERMINATED">>, <<"ACTIVE", "EXPIRED">>}

LeaseMoves(l) ==
  /\ lease'[l].status # lease[l].status =>
       <<lease[l].status, lease'[l].status>> \in LeaseTransitions
  /\ lease[l].status = "ACTIVE" =>
       lease'[l].start = lease[l].start /\ lease'[l].end >= lease[l].end
  /\ lease[l].status \in {"EXPIRED", "TERMINATED"} => lease'[l] = lease[l]

\* A lease follows the state machine of its documentation; once ACTIVE its
\* start stays and its end only moves forward, and once over it never changes.
\* (Not with LeaseSavers among Ops.)
LeaseLifecycle == [][\A l \in LeaseIds : LeaseMoves(l)]_vars

EndedWhole(l) ==
  lease[l].status = "ACTIVE" /\ lease'[l].status \in {"EXPIRED", "TERMINATED"} =>
    /\ unit'[UnitOf[l]] # "RENTED"
    /\ lease'[l].status = "TERMINATED" =>
         \A r \in RenewalsOf({l}) : renewal'[r].status # "PENDING"

\* The step that ends an ACTIVE lease also frees its unit and, if it terminates
\* the lease, closes its PENDING renewal request; in particular the removal of
\* a property, which does neither, ends no lease that was activated while it
\* worked.  (Not with StaleSavers among Ops.)
TenancyEndsWhole == [][\A l \in LeaseIds : EndedWhole(l)]_vars

-----------------------------------------------------------------------------
(* The abstract specification of the core. *)

\* The lease that holds a unit: the ACTIVE lease of a unit that is RENTED.
HolderOf(u) ==
  IF unit[u] = "RENTED"
    THEN CHOOSE l \in LeaseIds : UnitOf[l] = u /\ lease[l].status = "ACTIVE"
    ELSE None

EndedLeases == {l \in LeaseIds : lease[l].status \in {"EXPIRED", "TERMINATED"}}

Occupancy == INSTANCE Occupancy
  WITH holder <- [u \in UnitIds |-> HolderOf(u)], over <- EndedLeases

\* The handlers implement Occupancy: the status of the unit, set by activation
\* alone and cleared with the end of the lease, tells which lease has the unit.
\* (Not with StaleSavers among Ops.)
UnitsAreHeld == Occupancy!Spec

-----------------------------------------------------------------------------
(* What the documents say and the code does not do. *)

\* A RENTED unit leaves that status only with the lease that rented it.
OnlyLeaseFlowFreesUnits ==
  [][ \A u \in UnitIds :
        unit[u] = "RENTED" /\ unit'[u] # "RENTED" =>
          \E l \in LeaseIds :
            /\ UnitOf[l] = u
            /\ lease[l].status = "ACTIVE" /\ lease'[l].status # "ACTIVE" ]_vars

\* A property is removed only when no lease on it is ACTIVE.
NoTenantOnRemoval ==
  [][ \A l \in LeaseIds :
        PropertyOf[UnitOf[l]] \in deleted' \ deleted => lease[l].status # "ACTIVE" ]_vars

\* The sweep that expires a lease closes its PENDING renewal request.
ExpiryClosesRenewals ==
  [][ \A l \in LeaseIds :
        lease[l].status = "ACTIVE" /\ lease'[l].status = "EXPIRED" =>
          \A r \in RenewalsOf({l}) : renewal'[r].status # "PENDING" ]_vars

=============================================================================
