--------------------------- MODULE PropFlowProofs ---------------------------
(***************************************************************************)
(* The safety properties of PropFlow, for every instance of its constants. *)
(* Those that fail when a handler saves a row it read without a lock are   *)
(* proved for the operations without such handlers.                        *)
(***************************************************************************)
EXTENDS PropFlowLocks

-----------------------------------------------------------------------------
(* What a step may do to the leases. *)

\* One row is written and the constraints of the table accept it.
WritesOne ==
  \E l \in LeaseIds, row \in LeaseRow :
    LeaseWritable(l, row) /\ lease' = [lease EXCEPT ![l] = row]

\* Some leases end; the others stay as they are.
EndsSome ==
  \A l \in LeaseIds :
    lease'[l] = lease[l] \/ lease'[l].status \in {"EXPIRED", "TERMINATED"}

LEMMA SweepEnds ==
  ASSUME TablesOK, NEW q \in Procs, SweepCommit(q)
  PROVE  EndsSome
  BY DEF TablesOK, SweepCommit, EndsSome, LeaseRow

LEMMA ApplyRenewalWrites ==
  ASSUME TablesOK, NEW l \in LeaseIds, NEW e \in Days, ApplyRenewal(l, e)
  PROVE  WritesOne
<1> DEFINE row == [lease[l] EXCEPT !.end = e]
<1>1. row \in LeaseRow
  BY DaysAreNat DEF TablesOK, LeaseRow
<1>2. LeaseWritable(l, row) /\ lease' = [lease EXCEPT ![l] = row]
  BY DEF ApplyRenewal, TablesOK
<1> QED
  BY <1>1, <1>2 DEF WritesOne

LEMMA LeaseEffect ==
  ASSUME TypeOK, [Next]_vars
  PROVE  WritesOne \/ EndsSome
<1> USE DEF TypeOK
<1>1. ASSUME UNCHANGED lease PROVE EndsSome
  BY <1>1 DEF EndsSome
<1>2. ASSUME NEW q \in Procs, LeaseStep(q) PROVE WritesOne \/ EndsSome
  <2>1. ASSUME CreateLease(q) PROVE WritesOne
    <3>1. PICK l \in LeaseIds, s \in Days, e \in Days :
            LET row == [status |-> "PENDING", start |-> s, end |-> e]
            IN  LeaseWritable(l, row) /\ lease' = [lease EXCEPT ![l] = row]
      BY <2>1 DEF CreateLease
    <3>2. [status |-> "PENDING", start |-> s, end |-> e] \in LeaseRow
      BY DaysAreNat DEF LeaseRow, LeaseStatus
    <3> QED
      BY <3>1, <3>2 DEF WritesOne
  <2>2. ASSUME UpdateLeaseSave(q) PROVE WritesOne
    <3>1. /\ job[q] \in Jobs /\ job[q].id \in LeaseIds /\ job[q].status \in LeaseStatus
          /\ lease[job[q].id].status \in LeaseStatus
      BY <2>2 DEF UpdateLeaseSave, HandlersOK, TablesOK, Fits, LeaseRow, LeaseStatus
    <3>2. PICK status \in LeaseStatus :
            LET row == [status |-> status, start |-> job[q].start, end |-> job[q].end]
            IN  LeaseWritable(job[q].id, row) /\ lease' = [lease EXCEPT ![job[q].id] = row]
      BY <2>2, <3>1 DEF UpdateLeaseSave
    <3>3. [status |-> status, start |-> job[q].start, end |-> job[q].end] \in LeaseRow
      BY <3>1 DEF Jobs, LeaseRow
    <3> QED
      BY <3>1, <3>2, <3>3 DEF WritesOne
  <2>3. ASSUME ActivateCommit(q) PROVE WritesOne
    <3> DEFINE row == [lease[job[q].id] EXCEPT !.status = "ACTIVE"]
    <3>1. job[q].id \in LeaseIds /\ row \in LeaseRow
      BY <2>3 DEF ActivateCommit, HandlersOK, Fits, TablesOK, LeaseRow, LeaseStatus
    <3>2. LeaseWritable(job[q].id, row) /\ lease' = [lease EXCEPT ![job[q].id] = row]
      BY <2>3 DEF ActivateCommit
    <3> QED
      BY <3>1, <3>2 DEF WritesOne
  <2>4. ASSUME Terminate(q) PROVE EndsSome
    BY <2>4 DEF Terminate, EndsSome, TablesOK, LeaseRow
  <2>5. ASSUME Renew(q) PROVE WritesOne
    BY <2>5, ApplyRenewalWrites DEF Renew
  <2> QED
    BY <1>1, <1>2, <2>1, <2>2, <2>3, <2>4, <2>5
       DEF LeaseStep, CreateLeaseRead, UpdateLeaseRead, ActivateLock, tables
<1>3. ASSUME NEW q \in Procs, RenewalStep(q) PROVE WritesOne \/ EndsSome
  <2>1. ASSUME ApproveRenewal(q) PROVE WritesOne
    BY <2>1, ApplyRenewalWrites, ColumnsAssumption DEF ApproveRenewal
  <2> QED
    BY <1>1, <1>3, <2>1
       DEF RenewalStep, RequestRenewal, RejectRenewal, CancelRenewal, CloseRenewal
<1>4. ASSUME NEW q \in Procs, RequestStep(q) PROVE WritesOne \/ EndsSome
  <2>1. ASSUME ApproveRentalCommit(q) PROVE WritesOne
    <3> DEFINE r == job[q].id
               row == [status |-> "PENDING", start |-> request[r].start,
                       end |-> request[r].end]
    <3>1. row \in LeaseRow
      <4>1. r \in RequestIds
        BY <2>1 DEF ApproveRentalCommit, HandlersOK, Fits
      <4> QED
        BY <4>1 DEF TablesOK, RequestRow, LeaseRow, LeaseStatus
    <3>2. \E l \in LeaseIds : LeaseWritable(l, row) /\ lease' = [lease EXCEPT ![l] = row]
      BY <2>1 DEF ApproveRentalCommit
    <3> QED
      BY <3>1, <3>2 DEF WritesOne
  <2> QED
    BY <1>1, <1>4, <2>1
       DEF RequestStep, RequestRentalRead, RequestRental, ApproveRentalLock,
           RejectRental, CancelRental, CloseRequest, tables
<1>5. ASSUME NEW q \in Procs, PropertyStep(q) PROVE WritesOne \/ EndsSome
  <2>1. ASSUME RemoveCommit(q) PROVE EndsSome
    BY <2>1 DEF RemoveCommit, EndsSome, TablesOK, LeaseRow
  <2> QED
    BY <1>1, <1>5, <2>1 DEF PropertyStep, RemoveCount, RemoveFindLeases, RemoveLockLeases,
           RemoveFindRequests, tables
<1>6. ASSUME NEW q \in Procs, UnitStep(q) PROVE UNCHANGED lease
  BY <1>6
     DEF UnitStep, SetStatusRead, UpdateUnitRead, EditImagesRead, ReadUnit, SaveUnit, tables
<1>7. ASSUME NEW q \in Procs, SweepCommit(q) PROVE EndsSome
  BY <1>7, SweepEnds
<1>8. ASSUME NEW q \in Procs, Receive(q) \/ ReceiveAndSweep(q) \/ Fail(q) PROVE UNCHANGED lease
  BY <1>8 DEF Receive, ReceiveAndSweep, Fail, tables
<1>9. ASSUME Tick \/ UNCHANGED vars PROVE UNCHANGED lease
  BY <1>9 DEF Tick, vars, tables
<1> QED
  BY <1>1, <1>2, <1>3, <1>4, <1>5, <1>6, <1>7, <1>8, <1>9 DEF Next, HandlerStep

-----------------------------------------------------------------------------
(* No double booking. *)

\* The inductive form: the periods themselves do not meet.
Disjoint ==
  \A l, m \in LeaseIds :
    l # m /\ UnitOf[l] = UnitOf[m]
      /\ lease[l].status \in Occupying /\ lease[m].status \in Occupying =>
        /\ ~ (lease[l].status = "ACTIVE" /\ lease[m].status = "ACTIVE")
        /\ ~ Meets(lease[l].start, lease[l].end, lease[m].start, lease[m].end)

LEMMA DisjointStep ==
  ASSUME TypeOK, Disjoint, [Next]_vars
  PROVE  Disjoint'
<1>1. CASE EndsSome
  BY <1>1 DEF EndsSome, Disjoint, Occupying
<1>2. CASE WritesOne
  <2>1. PICK l \in LeaseIds, row \in LeaseRow :
          LeaseWritable(l, row) /\ lease' = [lease EXCEPT ![l] = row]
    BY <1>2 DEF WritesOne
  <2>2. lease'[l] = row /\ \A m \in LeaseIds \ {l} : lease'[m] = lease[m]
    BY <2>1 DEF TypeOK, TablesOK
  <2>3. ASSUME NEW m \in LeaseIds \ {l}, UnitOf[m] = UnitOf[l],
               row.status \in Occupying, lease[m].status \in Occupying
        PROVE  /\ ~ (row.status = "ACTIVE" /\ lease[m].status = "ACTIVE")
               /\ ~ Meets(lease[m].start, lease[m].end, row.start, row.end)
    BY <2>1, <2>3 DEF LeaseWritable, Conflict
  <2>4. \A s1, e1, s2, e2 : Meets(s1, e1, s2, e2) = Meets(s2, e2, s1, e1)
    BY DEF Meets
  <2> QED
    BY <2>2, <2>3, <2>4 DEF Disjoint
<1> QED
  BY <1>1, <1>2, LeaseEffect

LEMMA DisjointIsEnough == TypeOK /\ Disjoint => NoDoubleBooking
<1> SUFFICES ASSUME TypeOK, Disjoint,
                    NEW l \in LeaseIds, NEW m \in LeaseIds,
                    l # m, UnitOf[l] = UnitOf[m],
                    lease[l].status \in Occupying, lease[m].status \in Occupying,
                    NEW d \in Days,
                    d \in lease[l].start .. lease[l].end,
                    d \in lease[m].start .. lease[m].end
             PROVE  FALSE
  BY DEF NoDoubleBooking, Disjoint
<1>1. lease[l] \in LeaseRow /\ lease[m] \in LeaseRow /\ d \in Nat
  BY DaysAreNat DEF TypeOK, TablesOK
<1>2. Meets(lease[l].start, lease[l].end, lease[m].start, lease[m].end)
  BY <1>1 DEF Meets, LeaseRow
<1> QED
  BY <1>2 DEF Disjoint

LEMMA DisjointInit == Init => Disjoint
  BY DEF Init, Disjoint, Occupying

LEMMA DisjointAlways == Spec => [](TypeOK /\ Disjoint)
  BY TypeInit, TypeStep, DisjointInit, DisjointStep, PTL DEF Spec

\* Whatever operations clients call, the leases of a unit never run together.
THEOREM NeverDoubleBooked == Spec => []NoDoubleBooking
  BY DisjointAlways, DisjointIsEnough, PTL

-----------------------------------------------------------------------------
(* Operations that clients never call are never at work. *)

NoLeaseSaver == \A q \in Procs : pc[q] \notin {"UpdateLeaseRead", "UpdateLeaseSave"}

NoUnitSaver == \A q \in Procs : pc[q] \notin UnitSavers \cup {"SaveUnit"}

\* Where a step can take a handler.
Reaches(q) ==
  \/ pc'[q] = pc[q] /\ job'[q] = job[q]
  \/ pc'[q] \in Ops \cap AllOps
  \/ pc'[q] \in {"idle"} \cup (LaterSteps \ {"UpdateLeaseSave", "SaveUnit", "Sweep"})
  \/ pc'[q] = "UpdateLeaseSave" /\ pc[q] = "UpdateLeaseRead"
  \/ pc'[q] = "SaveUnit" /\ pc[q] \in UnitSavers
  \/ pc'[q] = "Sweep" /\ ReceiveAndSweep(q)

LEMMA Destination ==
  ASSUME TypeOK, [Next]_vars, NEW q \in Procs
  PROVE  Reaches(q)
<1> DEFINE Good == Reaches(q)
<1> USE DEF Reaches
<1>1. pc \in [Procs -> Steps] /\ job \in [Procs -> Jobs]
  BY DEF TypeOK, HandlersOK
<1>2. ASSUME NEW p \in Procs, Return(p) PROVE Good
  BY <1>1, <1>2 DEF Return, Goto
<1>3. ASSUME UNCHANGED <<pc, job>> PROVE Good
  BY <1>3
<1>4. ASSUME NEW p \in Procs, LeaseStep(p) PROVE Good
  BY <1>1, <1>2, <1>4
     DEF LeaseStep, CreateLeaseRead, CreateLease, UpdateLeaseRead, UpdateLeaseSave,
         ActivateLock, ActivateCommit, Terminate, Renew, Goto, LaterSteps
<1>5. ASSUME NEW p \in Procs, RenewalStep(p) PROVE Good
  BY <1>2, <1>5
     DEF RenewalStep, RequestRenewal, ApproveRenewal, RejectRenewal, CancelRenewal,
         CloseRenewal
<1>6. ASSUME NEW p \in Procs, RequestStep(p) PROVE Good
  BY <1>1, <1>2, <1>6
     DEF RequestStep, RequestRentalRead, RequestRental, ApproveRentalLock,
         ApproveRentalCommit, RejectRental, CancelRental, CloseRequest, Goto, LaterSteps
<1>7. ASSUME NEW p \in Procs, PropertyStep(p) PROVE Good
  BY <1>1, <1>2, <1>7
     DEF PropertyStep, RemoveCount, RemoveFindLeases, RemoveLockLeases,
         RemoveFindRequests, RemoveCommit, Goto, LaterSteps
<1>8. ASSUME NEW p \in Procs, UnitStep(p) PROVE Good
  <2>1. ASSUME NEW step \in UnitSavers, NEW allowed, NEW saved,
               ReadUnit(p, step, allowed, saved)
        PROVE  Good
    BY <1>1, <2>1 DEF ReadUnit, Goto
  <2> QED
    BY <1>2, <1>8, <2>1
       DEF UnitStep, SetStatusRead, UpdateUnitRead, EditImagesRead, SaveUnit, UnitSavers
<1>9. ASSUME NEW p \in Procs, Receive(p) PROVE Good
  BY <1>1, <1>9 DEF Receive, Goto
<1>10. ASSUME NEW p \in Procs, ReceiveAndSweep(p) PROVE Good
  BY <1>1, <1>10 DEF ReceiveAndSweep, SweepBegin, Goto
<1>11. ASSUME NEW p \in Procs, SweepCommit(p) PROVE Good
  <2>1. job[p].then \in AfterSweep
    BY <1>11 DEF TypeOK, HandlersOK, Fits, SweepCommit
  <2> QED
    BY <1>1, <1>11, <2>1 DEF SweepCommit, Goto, AfterSweep, AllOps
<1> QED
  BY <1>2, <1>3, <1>4, <1>5, <1>6, <1>7, <1>8, <1>9, <1>10, <1>11
     DEF Next, HandlerStep, Tick, Fail, vars

LEMMA NoLeaseSaverStep ==
  ASSUME Ops \cap LeaseSavers = {}, TypeOK, NoLeaseSaver, [Next]_vars
  PROVE  NoLeaseSaver'
<1> SUFFICES ASSUME NEW q \in Procs
             PROVE  pc'[q] \notin {"UpdateLeaseRead", "UpdateLeaseSave"}
  BY DEF NoLeaseSaver
<1>1. Reaches(q)
  BY Destination
<1> QED
  BY <1>1
     DEF Reaches, NoLeaseSaver, LeaseSavers, UnitSavers, LaterSteps, AllOps,
         SweepFirst, NoSweep

LEMMA NoUnitSaverStep ==
  ASSUME Ops \cap UnitSavers = {}, TypeOK, NoUnitSaver, [Next]_vars
  PROVE  NoUnitSaver'
<1> SUFFICES ASSUME NEW q \in Procs
             PROVE  pc'[q] \notin UnitSavers \cup {"SaveUnit"}
  BY DEF NoUnitSaver
<1>1. Reaches(q)
  BY Destination
<1> QED
  BY <1>1 DEF Reaches, NoUnitSaver, UnitSavers, LaterSteps, AllOps, SweepFirst, NoSweep

LEMMA NoSaverInit == Init => NoLeaseSaver /\ NoUnitSaver
  BY DEF Init, NoLeaseSaver, NoUnitSaver, UnitSavers

-----------------------------------------------------------------------------
(* The kinds of steps, by what they write to leases, units and renewals. *)

InsertsLease ==
  /\ \E l \in LeaseIds, row \in LeaseRow :
       /\ lease[l].status = "NONE" /\ row.status = "PENDING"
       /\ lease' = [lease EXCEPT ![l] = row]
  /\ UNCHANGED <<unit, renewal>>

RenewsLease ==
  /\ \E l \in LeaseIds, e \in Days : ApplyRenewal(l, e)
  /\ UNCHANGED unit

WritesRenewal ==
  /\ \E q \in Procs :
       \/ RequestRenewal(q)
       \/ \E step, st \in {"REJECTED", "CANCELLED", "RejectRenewal", "CancelRenewal"} :
            st \in Closed /\ CloseRenewal(q, step, st)
  /\ UNCHANGED <<lease, unit>>

LEMMA StepKinds ==
  ASSUME TypeOK, [Next]_vars
  PROVE  \/ UNCHANGED <<lease, unit, renewal>>
         \/ InsertsLease \/ RenewsLease \/ WritesRenewal
         \/ \E q \in Procs :
              \/ SweepCommit(q) \/ UpdateLeaseSave(q) \/ ActivateCommit(q) \/ Terminate(q)
              \/ RemoveCommit(q) \/ SaveUnit(q)
<1> DEFINE Quiet == UNCHANGED <<lease, unit, renewal>>
<1>1. ASSUME NEW q \in Procs, CreateLease(q) PROVE InsertsLease
  <2>1. PICK l \in LeaseIds, s \in Days, e \in Days :
          /\ lease[l].status = "NONE"
          /\ lease' = [lease EXCEPT ![l] = [status |-> "PENDING", start |-> s, end |-> e]]
    BY <1>1 DEF CreateLease
  <2>2. [status |-> "PENDING", start |-> s, end |-> e] \in LeaseRow
    BY DaysAreNat DEF LeaseRow, LeaseStatus
  <2> QED
    BY <1>1, <2>1, <2>2 DEF InsertsLease, CreateLease
<1>2. ASSUME NEW q \in Procs, ApproveRentalCommit(q) PROVE InsertsLease
  <2> DEFINE r == job[q].id
             row == [status |-> "PENDING", start |-> request[r].start,
                     end |-> request[r].end]
  <2>1. r \in RequestIds
    BY <1>2 DEF ApproveRentalCommit, TypeOK, HandlersOK, Fits
  <2>2. row \in LeaseRow /\ row.status = "PENDING"
    BY <2>1 DEF TypeOK, TablesOK, RequestRow, LeaseRow, LeaseStatus
  <2>3. \E l \in LeaseIds : lease[l].status = "NONE" /\ lease' = [lease EXCEPT ![l] = row]
    BY <1>2 DEF ApproveRentalCommit
  <2> HIDE DEF row
  <2> QED
    BY <1>2, <2>2, <2>3 DEF InsertsLease, ApproveRentalCommit
<1>3. ASSUME NEW q \in Procs, Renew(q) \/ ApproveRenewal(q) PROVE RenewsLease
  BY <1>3, ColumnsAssumption DEF Renew, ApproveRenewal, RenewsLease
<1>4. ASSUME NEW q \in Procs, RequestRenewal(q) PROVE WritesRenewal
  BY <1>4 DEF RequestRenewal, WritesRenewal
<1>5. ASSUME NEW q \in Procs, RejectRenewal(q) \/ CancelRenewal(q) PROVE WritesRenewal
  BY <1>5 DEF RejectRenewal, CancelRenewal, CloseRenewal, WritesRenewal, Closed
<1>6. ASSUME NEW q \in Procs,
             \/ CreateLeaseRead(q) \/ UpdateLeaseRead(q) \/ ActivateLock(q)
             \/ RequestRentalRead(q) \/ RequestRental(q) \/ ApproveRentalLock(q)
             \/ RejectRental(q) \/ CancelRental(q)
             \/ RemoveCount(q) \/ RemoveFindLeases(q) \/ RemoveLockLeases(q)
             \/ RemoveFindRequests(q)
             \/ SetStatusRead(q) \/ UpdateUnitRead(q) \/ EditImagesRead(q)
             \/ Receive(q) \/ ReceiveAndSweep(q) \/ Fail(q)
      PROVE  Quiet
  BY <1>6
     DEF CreateLeaseRead, UpdateLeaseRead, ActivateLock, RequestRentalRead,
         RequestRental, ApproveRentalLock, RejectRental, CancelRental, CloseRequest,
         RemoveCount, RemoveFindLeases, RemoveLockLeases, RemoveFindRequests,
         SetStatusRead, UpdateUnitRead, EditImagesRead, ReadUnit, Receive, ReceiveAndSweep, Fail, tables
<1>7. ASSUME Tick \/ UNCHANGED vars PROVE Quiet
  BY <1>7 DEF Tick, vars, tables
<1> QED
  BY <1>1, <1>2, <1>3, <1>4, <1>5, <1>6, <1>7
     DEF Next, HandlerStep, LeaseStep, RenewalStep, RequestStep, PropertyStep, UnitStep

-----------------------------------------------------------------------------
(* Units and leases agree. *)

\* A step that leaves the units and the set of ACTIVE leases as they are.
LEMMA RentedKept ==
  ASSUME RentedIffActive, UNCHANGED unit,
         \A l \in LeaseIds : lease'[l].status = "ACTIVE" <=> lease[l].status = "ACTIVE"
  PROVE  RentedIffActive'
  BY DEF RentedIffActive

\* A sweep has seen the units of its leases RENTED.
SweepsSeeUnits ==
  \A q \in Procs : pc[q] = "Sweep" => \A l \in job[q].rows : UnitOf[l] \in job[q].rented

LEMMA SweepsSeeUnitsStep ==
  ASSUME TypeOK, RentedIffActive, SweepsSeeUnits, [Next]_vars
  PROVE  SweepsSeeUnits'
<1> SUFFICES ASSUME NEW q \in Procs, pc'[q] = "Sweep", NEW l \in job'[q].rows
             PROVE  UnitOf[l] \in job'[q].rented
  BY DEF SweepsSeeUnits
<1>1. Reaches(q)
  BY Destination
<1>2. CASE pc'[q] = pc[q] /\ job'[q] = job[q]
  BY <1>2 DEF SweepsSeeUnits
<1>3. CASE ReceiveAndSweep(q)
  <2>1. /\ job'[q].rows = Overdue
        /\ job'[q].rented = {u \in UnitIds : unit[u] = "RENTED"}
    BY <1>3 DEF ReceiveAndSweep, SweepBegin, Goto, NoJob, TypeOK, HandlersOK
  <2> QED
    BY <2>1, ColumnsAssumption DEF Overdue, RentedIffActive
<1> QED
  BY <1>1, <1>2, <1>3 DEF Reaches, LaterSteps, AllOps, SweepFirst, NoSweep

LEMMA RentedStep ==
  ASSUME TypeOK, LeaseLocksOK, Disjoint, RentedIffActive, SweepsSeeUnits,
         NoLeaseSaver, NoUnitSaver, [Next]_vars
  PROVE  RentedIffActive'
<1> USE DEF TypeOK, TablesOK
<1>1. CASE UNCHANGED <<lease, unit, renewal>>
  BY <1>1, RentedKept
<1>2. CASE InsertsLease
  BY <1>2, RentedKept DEF InsertsLease
<1>3. CASE RenewsLease
  BY <1>3, RentedKept DEF RenewsLease, ApplyRenewal, LeaseRow
<1>4. CASE WritesRenewal
  BY <1>4, RentedKept DEF WritesRenewal
<1>5. CASE \E q \in Procs : SweepCommit(q)
  <2>1. PICK q \in Procs : SweepCommit(q)
    BY <1>5
  <2> DEFINE gone == Expiring(q)
  <2>2. gone \subseteq job[q].rows /\ \A l \in gone : lease[l].status = "ACTIVE"
    BY DEF Expiring
  <2>3. job[q].rows \subseteq LeaseIds /\ \A l \in gone : UnitOf[l] \in job[q].rented
    BY <2>1, <2>2 DEF HandlersOK, Jobs, SweepsSeeUnits, SweepCommit
  <2>4. \A l \in LeaseIds : lease'[l].status = "ACTIVE" <=>
                              lease[l].status = "ACTIVE" /\ l \notin gone
    BY <2>1 DEF SweepCommit, LeaseRow
  <2>5. \A u \in UnitIds : unit'[u] = "RENTED" <=>
          unit[u] = "RENTED" /\ ~ \E l \in gone : UnitOf[l] = u
    BY <2>1, <2>3 DEF SweepCommit
  <2> HIDE DEF gone
  <2>6. \A l, m \in LeaseIds : l \in gone /\ UnitOf[l] = UnitOf[m]
                                 /\ lease[m].status = "ACTIVE" => l = m
    BY <2>2 DEF Disjoint, Occupying
  <2> QED
    BY <2>2, <2>3, <2>4, <2>5, <2>6 DEF RentedIffActive
<1>6. CASE \E q \in Procs : ActivateCommit(q)
  <2>1. PICK q \in Procs : ActivateCommit(q)
    BY <1>6
  <2> DEFINE l == job[q].id
  <2>2. l \in LeaseIds /\ UnitOf[l] \in UnitIds
    BY <2>1, ColumnsAssumption DEF ActivateCommit, HandlersOK, Fits
  <2>3. unit' = [unit EXCEPT ![UnitOf[l]] = "RENTED"] /\ lease'[l].status = "ACTIVE"
    BY <2>1, <2>2 DEF ActivateCommit, LeaseRow
  <2>4. \A m \in LeaseIds \ {l} : lease'[m] = lease[m]
    BY <2>1 DEF ActivateCommit
  <2>5. unit[UnitOf[l]] = "AVAILABLE"
    BY <2>1 DEF ActivateCommit
  <2> HIDE DEF l
  <2>6. lease[l].status # "ACTIVE"
    BY <2>2, <2>5 DEF RentedIffActive
  <2> QED
    BY <2>2, <2>3, <2>4, <2>6 DEF RentedIffActive
<1>7. CASE \E q \in Procs : Terminate(q)
  <2>1. PICK l \in LeaseIds :
          /\ lease' = [lease EXCEPT ![l].status = "TERMINATED"]
          /\ unit' = IF lease[l].status = "ACTIVE"
                       THEN [unit EXCEPT ![UnitOf[l]] = "AVAILABLE"] ELSE unit
    BY <1>7 DEF Terminate, FreesUnit
  <2>2. lease'[l].status = "TERMINATED" /\ \A m \in LeaseIds \ {l} : lease'[m] = lease[m]
    BY <2>1 DEF LeaseRow
  <2>3. CASE lease[l].status # "ACTIVE"
    BY <2>1, <2>2, <2>3, RentedKept
  <2>4. CASE lease[l].status = "ACTIVE"
    <3>1. \A m \in LeaseIds \ {l} : UnitOf[m] = UnitOf[l] => lease[m].status # "ACTIVE"
      BY <2>4 DEF Disjoint, Occupying
    <3>2. unit'[UnitOf[l]] = "AVAILABLE"
          /\ \A u \in UnitIds \ {UnitOf[l]} : unit'[u] = unit[u]
      BY <2>1, <2>4, ColumnsAssumption
    <3> QED
      BY <2>2, <3>1, <3>2 DEF RentedIffActive
  <2> QED
    BY <2>3, <2>4
<1>8. CASE \E q \in Procs : RemoveCommit(q)
  <2>1. PICK q \in Procs : RemoveCommit(q)
    BY <1>8
  <2>2. \A l \in job[q].rows : lease[l].status = "PENDING"
    BY <2>1 DEF RemoveCommit, LeasesHeldBy, LeaseLocksOK
  <2>3. \A l \in LeaseIds : lease'[l].status = "ACTIVE" <=> lease[l].status = "ACTIVE"
    BY <2>1, <2>2 DEF RemoveCommit, LeaseRow
  <2> QED
    BY <2>1, <2>3, RentedKept DEF RemoveCommit
<1>9. ~ \E q \in Procs : UpdateLeaseSave(q) \/ SaveUnit(q)
  BY DEF NoLeaseSaver, NoUnitSaver, UpdateLeaseSave, SaveUnit
<1> QED
  BY <1>1, <1>2, <1>3, <1>4, <1>5, <1>6, <1>7, <1>8, <1>9, StepKinds

LEMMA RentedInit == Init => RentedIffActive
  BY DEF Init, RentedIffActive

\* What the operations without StaleSavers keep.
TenancyInv ==
  /\ LocksInv /\ Disjoint /\ NoLeaseSaver /\ NoUnitSaver
  /\ RentedIffActive /\ SweepsSeeUnits

LEMMA TenancyInvariant ==
  ASSUME Ops \cap StaleSavers = {}
  PROVE  Spec => []TenancyInv
<1> USE DEF TenancyInv
<1>1. Init => TenancyInv
  <2>1. Init => SweepsSeeUnits
    BY DEF Init, SweepsSeeUnits
  <2> QED
    BY <2>1, LocksInit, DisjointInit, NoSaverInit, RentedInit
<1>2. TenancyInv /\ [Next]_vars => TenancyInv'
  <2>1. Ops \cap LeaseSavers = {} /\ Ops \cap UnitSavers = {}
    BY DEF StaleSavers
  <2> SUFFICES ASSUME TenancyInv, [Next]_vars PROVE TenancyInv'
    OBVIOUS
  <2>2. LocksInv'
    BY LocksStep
  <2>3. Disjoint'
    BY DisjointStep DEF LocksInv
  <2>4. NoLeaseSaver' /\ NoUnitSaver'
    BY <2>1, NoLeaseSaverStep, NoUnitSaverStep DEF LocksInv
  <2>5. RentedIffActive'
    BY RentedStep DEF LocksInv
  <2>6. SweepsSeeUnits'
    BY SweepsSeeUnitsStep DEF LocksInv
  <2> QED
    BY <2>2, <2>3, <2>4, <2>5, <2>6
<1> QED
  BY <1>1, <1>2, PTL DEF Spec

\* As long as no handler saves a unit or a lease it read without a lock, a
\* unit is RENTED exactly while one of its leases is ACTIVE.
THEOREM UnitsFollowLeases ==
  ASSUME Ops \cap StaleSavers = {}
  PROVE  Spec => []RentedIffActive
<1>1. TenancyInv => RentedIffActive
  BY DEF TenancyInv
<1> QED
  BY <1>1, TenancyInvariant, PTL

-----------------------------------------------------------------------------
(* Renewal requests and their leases agree. *)

\* Closing the renewal requests in R that are PENDING.
LEMMA CloseRenewalsEffect ==
  ASSUME TablesOK, NEW R, NEW st \in Closed, CloseRenewals(R, st)
  PROVE  \A r \in RenewalIds :
           /\ renewal[r].status \in Closed => renewal'[r] = renewal[r]
           /\ r \in R => renewal'[r].status # "PENDING"
           /\ renewal'[r].status = "PENDING" => renewal'[r] = renewal[r]
<1> SUFFICES ASSUME NEW r \in RenewalIds
             PROVE  /\ renewal[r].status \in Closed => renewal'[r] = renewal[r]
                    /\ r \in R => renewal'[r].status # "PENDING"
                    /\ renewal'[r].status = "PENDING" => renewal'[r] = renewal[r]
  OBVIOUS
<1>1. renewal[r] \in RenewalRow
  BY DEF TablesOK
<1>2. renewal'[r] = IF r \in R /\ renewal[r].status = "PENDING"
                      THEN [renewal[r] EXCEPT !.status = st] ELSE renewal[r]
  BY DEF CloseRenewals
<1> QED
  BY <1>1, <1>2 DEF Closed, RenewalRow

\* A step that writes no renewal request and only leases that have none open.
LEMMA OpenKept ==
  ASSUME PendingRenewalsAreOpen, UNCHANGED renewal,
         \A l \in LeaseIds :
           lease[l].status \in {"ACTIVE", "EXPIRED"} => lease'[l] = lease[l]
  PROVE  PendingRenewalsAreOpen'
  BY ColumnsAssumption DEF PendingRenewalsAreOpen

\* A step that closes the requests of the lease it writes.
LEMMA OpenClosed ==
  ASSUME TablesOK, PendingRenewalsAreOpen, NEW l \in LeaseIds, NEW st \in Closed,
         CloseRenewals(RenewalsOf({l}), st),
         \A m \in LeaseIds \ {l} : lease'[m] = lease[m]
  PROVE  PendingRenewalsAreOpen'
  BY CloseRenewalsEffect, ColumnsAssumption DEF PendingRenewalsAreOpen, RenewalsOf

LEMMA OpenStep ==
  ASSUME TypeOK, LeaseLocksOK, PendingRenewalsAreOpen, NoLeaseSaver, [Next]_vars
  PROVE  PendingRenewalsAreOpen'
<1> USE DEF TypeOK, TablesOK
<1>1. CASE UNCHANGED <<lease, unit, renewal>>
  BY <1>1, OpenKept
<1>2. CASE InsertsLease
  BY <1>2, OpenKept DEF InsertsLease
<1>3. CASE RenewsLease
  <2>1. PICK l \in LeaseIds, e \in Days : ApplyRenewal(l, e)
    BY <1>3 DEF RenewsLease
  <2>2. CloseRenewals(RenewalsOf({l}), "APPROVED") /\ \A m \in LeaseIds \ {l} : lease'[m] = lease[m]
    BY <2>1 DEF ApplyRenewal
  <2> QED
    BY <2>2, OpenClosed DEF Closed
<1>4. CASE WritesRenewal
  <2>1. CASE \E q \in Procs : RequestRenewal(q)
    <3>1. PICK r \in RenewalIds, e \in Days :
            /\ Extends(LeaseOf[r], e)
            /\ renewal' = [renewal EXCEPT ![r] = [status |-> "PENDING", end |-> e]]
      BY <2>1 DEF RequestRenewal
    <3> QED
      BY <1>4, <3>1 DEF WritesRenewal, PendingRenewalsAreOpen, Extends
  <2>2. ASSUME NEW q \in Procs, NEW step, NEW st \in Closed, CloseRenewal(q, step, st)
        PROVE  PendingRenewalsAreOpen'
    <3>1. PICK r \in RenewalIds : renewal' = [renewal EXCEPT ![r].status = st]
      BY <2>2 DEF CloseRenewal
    <3>2. renewal'[r].status # "PENDING" /\ \A o \in RenewalIds \ {r} : renewal'[o] = renewal[o]
      BY <3>1 DEF RenewalRow, Closed
    <3> QED
      BY <1>4, <3>2 DEF WritesRenewal, PendingRenewalsAreOpen
  <2> QED
    BY <1>4, <2>1, <2>2 DEF WritesRenewal
<1>5. CASE \E q \in Procs : SweepCommit(q)
  <2>1. PICK q \in Procs : SweepCommit(q)
    BY <1>5
  <2>2. \A r \in RenewalIds : renewal'[r].status = "PENDING" => renewal'[r] = renewal[r]
    BY <2>1, CloseRenewalsEffect DEF SweepCommit, Closed
  <2>3. \A l \in LeaseIds :
          /\ lease'[l].end = lease[l].end
          /\ lease'[l].status = lease[l].status \/ lease'[l].status = "EXPIRED"
    BY <2>1 DEF SweepCommit, LeaseRow
  <2> QED
    BY <2>2, <2>3, ColumnsAssumption DEF PendingRenewalsAreOpen
<1>6. CASE \E q \in Procs : ActivateCommit(q)
  <2>1. PICK q \in Procs : ActivateCommit(q)
    BY <1>6
  <2> DEFINE l == job[q].id
  <2>2. l \in LeaseIds /\ lease[l].status = "PENDING"
    BY <2>1 DEF ActivateCommit, HandlersOK, Fits, LeaseLocksOK, LeasesHeldBy
  <2>3. UNCHANGED renewal /\ \A m \in LeaseIds \ {l} : lease'[m] = lease[m]
    BY <2>1 DEF ActivateCommit
  <2> HIDE DEF l
  <2> QED
    BY <2>2, <2>3, OpenKept
<1>7. CASE \E q \in Procs : Terminate(q)
  <2>1. PICK l \in LeaseIds :
          /\ lease' = [lease EXCEPT ![l].status = "TERMINATED"]
          /\ CloseRenewals(RenewalsOf({l}), "CANCELLED")
    BY <1>7 DEF Terminate
  <2>2. \A m \in LeaseIds \ {l} : lease'[m] = lease[m]
    BY <2>1
  <2> QED
    BY <2>1, <2>2, OpenClosed DEF Closed
<1>8. CASE \E q \in Procs : RemoveCommit(q)
  <2>1. PICK q \in Procs : RemoveCommit(q)
    BY <1>8
  <2>2. \A l \in job[q].rows : lease[l].status = "PENDING"
    BY <2>1 DEF RemoveCommit, LeasesHeldBy, LeaseLocksOK
  <2>3. UNCHANGED renewal /\ \A l \in LeaseIds : lease[l].status # "PENDING" => lease'[l] = lease[l]
    BY <2>1, <2>2 DEF RemoveCommit
  <2> QED
    BY <2>3, OpenKept
<1>9. CASE \E q \in Procs : SaveUnit(q)
  BY <1>9, OpenKept DEF SaveUnit
<1>10. ~ \E q \in Procs : UpdateLeaseSave(q)
  BY DEF NoLeaseSaver, UpdateLeaseSave
<1> QED
  BY <1>1, <1>2, <1>3, <1>4, <1>5, <1>6, <1>7, <1>8, <1>9, <1>10, StepKinds

LEMMA OpenInit == Init => PendingRenewalsAreOpen
  BY DEF Init, PendingRenewalsAreOpen

\* As long as no handler saves a lease it read without a lock, a PENDING
\* renewal request asks for more than its lease has, and the lease is ACTIVE
\* unless a sweep expired it.
THEOREM RenewalsFollowLeases ==
  ASSUME Ops \cap LeaseSavers = {}
  PROVE  Spec => []PendingRenewalsAreOpen
<1> DEFINE IInv == LocksInv /\ NoLeaseSaver /\ PendingRenewalsAreOpen
<1>1. Init => IInv
  BY LocksInit, NoSaverInit, OpenInit
<1>2. IInv /\ [Next]_vars => IInv'
  BY LocksStep, NoLeaseSaverStep, OpenStep DEF LocksInv
<1>3. IInv => PendingRenewalsAreOpen
  OBVIOUS
<1> QED
  BY <1>1, <1>2, <1>3, PTL DEF Spec

-----------------------------------------------------------------------------
(* What a step may never do. *)

LEMMA LifecycleStep ==
  ASSUME TypeOK, LeaseLocksOK, NoLeaseSaver, [Next]_vars, NEW k \in LeaseIds
  PROVE  LeaseMoves(k)
<1> USE DEF TypeOK, TablesOK
<1>1. ASSUME lease'[k] = lease[k] PROVE LeaseMoves(k)
  <2>1. lease[k] \in LeaseRow
    OBVIOUS
  <2> QED
    BY <1>1, <2>1 DEF LeaseMoves, LeaseRow
<1>2. CASE InsertsLease
  BY <1>1, <1>2 DEF InsertsLease, LeaseMoves, LeaseTransitions
<1>3. CASE RenewsLease
  <2>1. PICK l \in LeaseIds, e \in Days : ApplyRenewal(l, e)
    BY <1>3 DEF RenewsLease
  <2>2. k # l => lease'[k] = lease[k]
    BY <2>1 DEF ApplyRenewal
  <2>3. ASSUME k = l PROVE LeaseMoves(k)
    <3>1. /\ lease[k] \in LeaseRow /\ e \in Nat /\ lease[k].status = "ACTIVE"
          /\ e > lease[k].end /\ lease'[k] = [lease[k] EXCEPT !.end = e]
      BY <2>1, <2>3, DaysAreNat DEF ApplyRenewal, Extends
    <3> QED
      BY <3>1 DEF LeaseMoves, LeaseRow
  <2> QED
    BY <1>1, <2>2, <2>3
<1>4. CASE UNCHANGED lease
  BY <1>1, <1>4
<1>5. CASE \E q \in Procs : SweepCommit(q)
  <2>1. PICK q \in Procs : SweepCommit(q)
    BY <1>5
  <2>2. lease'[k] = IF k \in Expiring(q) THEN [lease[k] EXCEPT !.status = "EXPIRED"] ELSE lease[k]
    BY <2>1 DEF SweepCommit
  <2>3. lease[k] \in LeaseRow /\ (k \in Expiring(q) => lease[k].status = "ACTIVE")
    BY DEF Expiring
  <2> QED
    BY <1>1, <2>2, <2>3 DEF LeaseMoves, LeaseRow, LeaseTransitions
<1>6. CASE \E q \in Procs : ActivateCommit(q)
  <2>1. PICK q \in Procs : ActivateCommit(q)
    BY <1>6
  <2> DEFINE l == job[q].id
  <2>2. l \in LeaseIds /\ lease[l].status = "PENDING"
    BY <2>1 DEF ActivateCommit, HandlersOK, Fits, LeaseLocksOK, LeasesHeldBy
  <2>3. lease' = [lease EXCEPT ![l] = [lease[l] EXCEPT !.status = "ACTIVE"]]
    BY <2>1 DEF ActivateCommit
  <2> HIDE DEF l
  <2> QED
    BY <1>1, <2>2, <2>3 DEF LeaseMoves, LeaseRow, LeaseTransitions
<1>7. CASE \E q \in Procs : Terminate(q)
  <2>1. PICK l \in LeaseIds :
          /\ lease[l].status \in Occupying
          /\ lease' = [lease EXCEPT ![l].status = "TERMINATED"]
    BY <1>7 DEF Terminate
  <2>2. k # l => lease'[k] = lease[k]
    BY <2>1
  <2>3. ASSUME k = l PROVE LeaseMoves(k)
    <3>1. /\ lease[k] \in LeaseRow /\ lease[k].status \in {"PENDING", "ACTIVE"}
          /\ lease'[k] = [lease[k] EXCEPT !.status = "TERMINATED"]
      BY <2>1, <2>3 DEF Occupying
    <3> QED
      BY <3>1 DEF LeaseMoves, LeaseRow, LeaseTransitions
  <2> QED
    BY <1>1, <2>2, <2>3
<1>8. CASE \E q \in Procs : RemoveCommit(q)
  <2>1. PICK q \in Procs : RemoveCommit(q)
    BY <1>8
  <2>2. lease'[k] = IF k \in job[q].rows
                      THEN [lease[k] EXCEPT !.status = "TERMINATED"] ELSE lease[k]
    BY <2>1 DEF RemoveCommit
  <2>3. lease[k] \in LeaseRow /\ (k \in job[q].rows => lease[k].status = "PENDING")
    BY <2>1 DEF RemoveCommit, LeasesHeldBy, LeaseLocksOK
  <2> QED
    BY <1>1, <2>2, <2>3 DEF LeaseMoves, LeaseRow, LeaseTransitions
<1>9. ~ \E q \in Procs : UpdateLeaseSave(q)
  BY DEF NoLeaseSaver, UpdateLeaseSave
<1> QED
  BY <1>2, <1>3, <1>4, <1>5, <1>6, <1>7, <1>8, <1>9, StepKinds DEF WritesRenewal, SaveUnit

\* As long as no handler saves a lease it read without a lock, every lease
\* follows its state machine and an ACTIVE one only ever gets longer.
THEOREM LeasesFollowLifecycle ==
  ASSUME Ops \cap LeaseSavers = {}
  PROVE  Spec => LeaseLifecycle
<1> DEFINE IInv == LocksInv /\ NoLeaseSaver
           Moves == \A l \in LeaseIds : LeaseMoves(l)
<1>1. Init => IInv
  BY LocksInit, NoSaverInit
<1>2. IInv /\ [Next]_vars => IInv'
  BY LocksStep, NoLeaseSaverStep DEF LocksInv
<1>3. IInv /\ [Next]_vars => [Moves]_vars
  BY LifecycleStep DEF LocksInv
<1> QED
  BY <1>1, <1>2, <1>3, PTL DEF Spec, LeaseLifecycle

LEMMA EndedWholeStep ==
  ASSUME TypeOK, LeaseLocksOK, SweepsSeeUnits, [Next]_vars, NEW k \in LeaseIds
  PROVE  EndedWhole(k)
<1> USE DEF TypeOK, TablesOK
<1> SUFFICES ASSUME lease[k].status = "ACTIVE",
                    lease'[k].status \in {"EXPIRED", "TERMINATED"}
             PROVE  /\ unit'[UnitOf[k]] # "RENTED"
                    /\ lease'[k].status = "TERMINATED" =>
                         \A r \in RenewalsOf({k}) : renewal'[r].status # "PENDING"
  BY DEF EndedWhole
<1>1. CASE \E q \in Procs : SweepCommit(q)
  <2>1. PICK q \in Procs : SweepCommit(q)
    BY <1>1
  <2>2. lease'[k] = IF k \in Expiring(q) THEN [lease[k] EXCEPT !.status = "EXPIRED"] ELSE lease[k]
    BY <2>1 DEF SweepCommit
  <2>3. k \in Expiring(q) /\ lease'[k].status = "EXPIRED"
    BY <2>2 DEF LeaseRow
  <2>4. UnitOf[k] \in job[q].rented
    BY <2>1, <2>3 DEF Expiring, SweepsSeeUnits, SweepCommit
  <2>5. unit'[UnitOf[k]] # "RENTED"
    BY <2>1, <2>3, <2>4, ColumnsAssumption DEF SweepCommit
  <2> QED
    BY <2>3, <2>5
<1>2. CASE \E q \in Procs : Terminate(q)
  <2>1. PICK l \in LeaseIds :
          /\ lease' = [lease EXCEPT ![l].status = "TERMINATED"]
          /\ unit' = IF lease[l].status = "ACTIVE"
                       THEN [unit EXCEPT ![UnitOf[l]] = "AVAILABLE"] ELSE unit
          /\ CloseRenewals(RenewalsOf({l}), "CANCELLED")
    BY <1>2 DEF Terminate, FreesUnit
  <2>2. k = l
    BY <2>1
  <2> QED
    BY <2>1, <2>2, CloseRenewalsEffect, ColumnsAssumption DEF Closed, RenewalsOf
<1>3. ~ InsertsLease
  BY DEF InsertsLease
<1>4. ~ RenewsLease
  <2>1. SUFFICES ASSUME NEW l \in LeaseIds, NEW e \in Days, ApplyRenewal(l, e) PROVE FALSE
    BY DEF RenewsLease
  <2>2. lease[l] \in LeaseRow /\ lease'[k] = IF k = l THEN [lease[k] EXCEPT !.end = e] ELSE lease[k]
    BY <2>1 DEF ApplyRenewal
  <2> QED
    BY <2>2 DEF LeaseRow
<1>5. ~ \E q \in Procs : UpdateLeaseSave(q)
  <2>1. SUFFICES ASSUME NEW q \in Procs, UpdateLeaseSave(q) PROVE FALSE
    OBVIOUS
  <2>2. job[q].id \in LeaseIds /\ job[q].status = "PENDING"
    BY <2>1 DEF UpdateLeaseSave, HandlersOK, Fits
  <2> QED
    BY <2>1, <2>2 DEF UpdateLeaseSave
<1>6. ~ \E q \in Procs : ActivateCommit(q)
  <2>1. SUFFICES ASSUME NEW q \in Procs, ActivateCommit(q) PROVE FALSE
    OBVIOUS
  <2> DEFINE l == job[q].id
  <2>2. lease' = [lease EXCEPT ![l] = [lease[l] EXCEPT !.status = "ACTIVE"]]
    BY <2>1 DEF ActivateCommit
  <2>3. lease[k] \in LeaseRow
    OBVIOUS
  <2> HIDE DEF l
  <2> QED
    BY <2>2, <2>3 DEF LeaseRow
<1>7. ~ \E q \in Procs : RemoveCommit(q)
  BY DEF RemoveCommit, LeasesHeldBy, LeaseLocksOK
<1>8. ~ UNCHANGED lease
  OBVIOUS
<1> QED
  BY <1>1, <1>2, <1>3, <1>4, <1>5, <1>6, <1>7, <1>8, StepKinds DEF WritesRenewal, SaveUnit

\* As long as no handler saves a unit or a lease it read without a lock, the
\* step that ends an ACTIVE lease frees its unit and, terminating it, closes
\* its renewal request.
THEOREM TenanciesEndWhole ==
  ASSUME Ops \cap StaleSavers = {}
  PROVE  Spec => TenancyEndsWhole
<1> DEFINE Whole == \A l \in LeaseIds : EndedWhole(l)
<1>1. TenancyInv /\ [Next]_vars => [Whole]_vars
  BY EndedWholeStep DEF TenancyInv, LocksInv
<1> QED
  BY <1>1, TenancyInvariant, PTL DEF Spec, TenancyEndsWhole

LEMMA RenewalDecisionKept ==
  ASSUME TypeOK, [Next]_vars, NEW r \in RenewalIds, renewal[r].status \in Closed
  PROVE  renewal'[r] = renewal[r]
<1> USE DEF TypeOK, TablesOK
<1>1. CASE RenewsLease
  BY <1>1, CloseRenewalsEffect DEF RenewsLease, ApplyRenewal, Closed
<1>2. CASE WritesRenewal
  BY <1>2 DEF WritesRenewal, RequestRenewal, CloseRenewal, Closed
<1>3. CASE \E q \in Procs : SweepCommit(q)
  BY <1>3, CloseRenewalsEffect DEF SweepCommit, Closed
<1>4. CASE \E q \in Procs : Terminate(q)
  BY <1>4, CloseRenewalsEffect DEF Terminate, Closed
<1>5. CASE UNCHANGED renewal
  BY <1>5
<1> QED
  BY <1>1, <1>2, <1>3, <1>4, <1>5, StepKinds
     DEF InsertsLease, UpdateLeaseSave, ActivateCommit, RemoveCommit, SaveUnit

\* The steps that write a rental request write one that is not decided.
LEMMA RequestDecisionKept ==
  ASSUME TypeOK, RequestLocksOK, [Next]_vars,
         NEW r \in RequestIds, request[r].status \in Closed
  PROVE  request'[r] = request[r]
<1> USE DEF TypeOK, TablesOK
<1>1. ASSUME UNCHANGED request PROVE request'[r] = request[r]
  BY <1>1
<1>2. ASSUME NEW q \in Procs, RequestStep(q) PROVE request'[r] = request[r]
  <2>1. ASSUME RequestRental(q) PROVE request'[r] = request[r]
    BY <2>1 DEF RequestRental, SameAsk, Closed
  <2>2. ASSUME ApproveRentalCommit(q) PROVE request'[r] = request[r]
    <3>1. r # job[q].id
      BY <2>2 DEF ApproveRentalCommit, RequestLocksOK, RequestsHeldBy, Closed
    <3> QED
      BY <2>2, <3>1 DEF ApproveRentalCommit
  <2>3. ASSUME NEW step, NEW st, CloseRequest(q, step, st) PROVE request'[r] = request[r]
    BY <2>3 DEF CloseRequest, Closed
  <2> QED
    BY <1>1, <1>2, <2>1, <2>2, <2>3
       DEF RequestStep, RequestRentalRead, ApproveRentalLock, RejectRental, CancelRental,
           tables
<1>3. ASSUME NEW q \in Procs, PropertyStep(q) PROVE request'[r] = request[r]
  <2>1. ASSUME RemoveCommit(q) PROVE request'[r] = request[r]
    BY <2>1 DEF RemoveCommit, Closed
  <2> QED
    BY <1>1, <1>3, <2>1 DEF PropertyStep, RemoveCount, RemoveFindLeases, RemoveLockLeases,
           RemoveFindRequests, tables
<1>4. ASSUME NEW q \in Procs, LeaseStep(q) \/ RenewalStep(q) \/ UnitStep(q)
      PROVE  UNCHANGED request
  BY <1>4
     DEF LeaseStep, CreateLeaseRead, CreateLease, UpdateLeaseRead, UpdateLeaseSave,
         ActivateLock, ActivateCommit, Terminate, Renew,
         RenewalStep, RequestRenewal, ApproveRenewal, RejectRenewal, CancelRenewal,
         CloseRenewal, UnitStep, SetStatusRead, UpdateUnitRead, EditImagesRead, ReadUnit,
         SaveUnit, tables
<1>5. ASSUME NEW q \in Procs, Receive(q) \/ ReceiveAndSweep(q) \/ SweepCommit(q) \/ Fail(q)
      PROVE  UNCHANGED request
  BY <1>5 DEF Receive, ReceiveAndSweep, SweepCommit, Fail, tables
<1>6. ASSUME Tick \/ UNCHANGED vars PROVE UNCHANGED request
  BY <1>6 DEF Tick, vars, tables
<1> QED
  BY <1>1, <1>2, <1>3, <1>4, <1>5, <1>6 DEF Next, HandlerStep

\* Whatever operations clients call, a rental or renewal request that has been
\* decided is never decided again.
THEOREM DecisionsStay == Spec => DecisionsAreFinal
<1>1. LocksInv /\ [Next]_vars => [DecisionKept]_vars
  BY RenewalDecisionKept, RequestDecisionKept DEF LocksInv, DecisionKept
<1> QED
  BY <1>1, LocksHold, PTL DEF Spec, DecisionsAreFinal

-----------------------------------------------------------------------------
(* An approved rental request and its lease. *)

\* A lease stays in the table, keeps its start and never gets shorter.
LEMMA PeriodKept ==
  ASSUME TypeOK, NoLeaseSaver, [Next]_vars, NEW k \in LeaseIds, lease[k].status # "NONE"
  PROVE  /\ lease'[k].status # "NONE"
         /\ lease'[k].start = lease[k].start /\ lease'[k].end >= lease[k].end
<1> DEFINE Kept == /\ lease'[k].status # "NONE"
                   /\ lease'[k].start = lease[k].start /\ lease'[k].end >= lease[k].end
<1>0. lease \in [LeaseIds -> LeaseRow] /\ lease[k] \in LeaseRow
  BY DEF TypeOK, TablesOK
<1>1. ASSUME lease'[k] = lease[k] PROVE Kept
  BY <1>0, <1>1 DEF LeaseRow
<1>2. ASSUME NEW st \in LeaseStatus \ {"NONE"}, lease'[k] = [lease[k] EXCEPT !.status = st]
      PROVE  Kept
  BY <1>0, <1>2 DEF LeaseRow
<1>3. CASE InsertsLease
  BY <1>1, <1>3 DEF InsertsLease
<1>4. CASE RenewsLease
  <2>1. PICK l \in LeaseIds, e \in Days : ApplyRenewal(l, e)
    BY <1>4 DEF RenewsLease
  <2>2. k # l => lease'[k] = lease[k]
    BY <2>1 DEF ApplyRenewal
  <2>3. k = l => lease'[k] = [lease[k] EXCEPT !.end = e] /\ e > lease[k].end /\ e \in Nat
    BY <1>0, <2>1, DaysAreNat DEF ApplyRenewal, Extends
  <2> QED
    BY <1>0, <1>1, <2>2, <2>3 DEF LeaseRow
<1>5. CASE \E q \in Procs : SweepCommit(q)
  <2>1. \/ lease'[k] = lease[k]
        \/ lease'[k] = [lease[k] EXCEPT !.status = "EXPIRED"]
    BY <1>5 DEF SweepCommit
  <2> QED
    BY <1>1, <1>2, <2>1 DEF LeaseStatus
<1>6. CASE \E q \in Procs : ActivateCommit(q)
  <2>1. PICK q \in Procs : lease' = [lease EXCEPT ![job[q].id] =
                                        [lease[job[q].id] EXCEPT !.status = "ACTIVE"]]
    BY <1>6 DEF ActivateCommit
  <2>2. \/ lease'[k] = lease[k]
        \/ lease'[k] = [lease[k] EXCEPT !.status = "ACTIVE"]
    BY <1>0, <2>1
  <2> QED
    BY <1>1, <1>2, <2>2 DEF LeaseStatus
<1>7. CASE \E q \in Procs : Terminate(q)
  <2>1. \/ lease'[k] = lease[k]
        \/ lease'[k] = [lease[k] EXCEPT !.status = "TERMINATED"]
    BY <1>0, <1>7 DEF Terminate
  <2> QED
    BY <1>1, <1>2, <2>1 DEF LeaseStatus
<1>8. CASE \E q \in Procs : RemoveCommit(q)
  <2>1. \/ lease'[k] = lease[k]
        \/ lease'[k] = [lease[k] EXCEPT !.status = "TERMINATED"]
    BY <1>8 DEF RemoveCommit
  <2> QED
    BY <1>1, <1>2, <2>1 DEF LeaseStatus
<1>9. CASE UNCHANGED lease
  BY <1>1, <1>9
<1>10. ~ \E q \in Procs : UpdateLeaseSave(q)
  BY DEF NoLeaseSaver, UpdateLeaseSave
<1> QED
  BY <1>3, <1>4, <1>5, <1>6, <1>7, <1>8, <1>9, <1>10, StepKinds DEF WritesRenewal, SaveUnit

\* What a step may do to the rental requests.
LEMMA RequestEffect ==
  ASSUME TypeOK, RequestLocksOK, [Next]_vars
  PROVE  \/ \A r \in RequestIds :
              \/ request'[r] = request[r]
              \/ /\ request[r].status # "APPROVED" /\ request'[r].status # "APPROVED"
                 /\ request'[r].lease \in {request[r].lease, None}
         \/ \E q \in Procs : ApproveRentalCommit(q)
<1> DEFINE Quiet == \A r \in RequestIds :
             \/ request'[r] = request[r]
             \/ /\ request[r].status # "APPROVED" /\ request'[r].status # "APPROVED"
                /\ request'[r].lease \in {request[r].lease, None}
<1>0. request \in [RequestIds -> RequestRow]
  BY DEF TypeOK, TablesOK
<1>1. ASSUME UNCHANGED request PROVE Quiet
  BY <1>1
<1>2. ASSUME NEW q \in Procs, RequestRental(q) PROVE Quiet
  BY <1>0, <1>2 DEF RequestRental, SameAsk
<1>3. ASSUME NEW q \in Procs, NEW step, NEW st \in {"REJECTED", "CANCELLED"},
             CloseRequest(q, step, st)
      PROVE  Quiet
  BY <1>0, <1>3 DEF CloseRequest, RequestRow
<1>4. ASSUME NEW q \in Procs, RemoveCommit(q) PROVE Quiet
  BY <1>0, <1>4 DEF RemoveCommit, RequestRow
<1>5. ASSUME NEW q \in Procs, LeaseStep(q) \/ RenewalStep(q) \/ UnitStep(q)
      PROVE  UNCHANGED request
  BY <1>5
     DEF LeaseStep, CreateLeaseRead, CreateLease, UpdateLeaseRead, UpdateLeaseSave,
         ActivateLock, ActivateCommit, Terminate, Renew,
         RenewalStep, RequestRenewal, ApproveRenewal, RejectRenewal, CancelRenewal,
         CloseRenewal, UnitStep, SetStatusRead, UpdateUnitRead, EditImagesRead, ReadUnit,
         SaveUnit, tables
<1>6. ASSUME NEW q \in Procs,
             \/ Receive(q) \/ ReceiveAndSweep(q) \/ SweepCommit(q) \/ Fail(q)
             \/ RequestRentalRead(q) \/ ApproveRentalLock(q)
             \/ RemoveCount(q) \/ RemoveFindLeases(q) \/ RemoveLockLeases(q)
             \/ RemoveFindRequests(q)
      PROVE  UNCHANGED request
  BY <1>6
     DEF Receive, ReceiveAndSweep, SweepCommit, Fail, RequestRentalRead, ApproveRentalLock,
         RemoveCount, RemoveFindLeases, RemoveLockLeases, RemoveFindRequests, tables
<1>7. ASSUME Tick \/ UNCHANGED vars PROVE UNCHANGED request
  BY <1>7 DEF Tick, vars, tables
<1> QED
  BY <1>1, <1>2, <1>3, <1>4, <1>5, <1>6, <1>7
     DEF Next, HandlerStep, RequestStep, RejectRental, CancelRental, PropertyStep

LEMMA OneLeaseStep ==
  ASSUME TypeOK, RequestLocksOK, NoLeaseSaver, ApprovalMakesOneLease, [Next]_vars
  PROVE  ApprovalMakesOneLease'
<1> DEFINE Linked(r) ==
             IF request[r].status = "APPROVED"
               THEN LET l == request[r].lease
                    IN  /\ l \in LeaseIds
                        /\ UnitOf[l] = WantedUnit[r] /\ lease[l].status # "NONE"
                        /\ lease[l].start = request[r].start /\ lease[l].end >= request[r].end
               ELSE request[r].lease = None
<1>1. /\ request \in [RequestIds -> RequestRow] /\ lease \in [LeaseIds -> LeaseRow]
      /\ request' \in [RequestIds -> RequestRow] /\ lease' \in [LeaseIds -> LeaseRow]
  BY TypeStep DEF TypeOK, TablesOK
<1>2. ASSUME NEW r \in RequestIds, request'[r] = request[r] PROVE Linked(r)'
  <2>1. Linked(r)
    BY DEF ApprovalMakesOneLease
  <2>2. CASE request[r].status # "APPROVED"
    BY <1>2, <2>1, <2>2
  <2>3. CASE request[r].status = "APPROVED"
    <3> DEFINE l == request[r].lease
    <3>1. l \in LeaseIds /\ UnitOf[l] = WantedUnit[r] /\ lease[l].status # "NONE"
          /\ lease[l].start = request[r].start /\ lease[l].end >= request[r].end
      BY <2>1, <2>3
    <3> HIDE DEF l
    <3>2. /\ lease'[l].status # "NONE" /\ lease'[l].start = lease[l].start
          /\ lease'[l].end >= lease[l].end
      BY <3>1, PeriodKept
    <3>3. lease[l].end \in Nat /\ lease'[l].end \in Nat /\ request[r].end \in Nat
      BY <1>1, <3>1 DEF LeaseRow, RequestRow
    <3>4. lease'[l].end >= request[r].end
      BY <3>1, <3>2, <3>3
    <3> QED
      BY <1>2, <2>3, <3>1, <3>2, <3>4 DEF l
  <2> QED
    BY <2>2, <2>3
<1>3. CASE \A r \in RequestIds :
             \/ request'[r] = request[r]
             \/ /\ request[r].status # "APPROVED" /\ request'[r].status # "APPROVED"
                /\ request'[r].lease \in {request[r].lease, None}
  <2>1. \A r \in RequestIds : request'[r].lease \in {request[r].lease, None}
    BY <1>3
  <2>2. \A r \in RequestIds : Linked(r)'
    BY <1>2, <1>3 DEF ApprovalMakesOneLease
  <2> QED
    BY <2>1, <2>2 DEF ApprovalMakesOneLease
<1>4. CASE \E q \in Procs : ApproveRentalCommit(q)
  <2>1. PICK q \in Procs : ApproveRentalCommit(q)
    BY <1>4
  <2>2. PICK a \in RequestIds : a = job[q].id
    BY <2>1 DEF ApproveRentalCommit, TypeOK, HandlersOK, Fits
  <2> DEFINE row == [status |-> "PENDING", start |-> request[a].start, end |-> request[a].end]
  <2>3. PICK l \in LeaseIds :
          /\ lease[l].status = "NONE" /\ UnitOf[l] = WantedUnit[a]
          /\ lease' = [lease EXCEPT ![l] = row]
          /\ request' = [request EXCEPT ![a] =
                           [request[a] EXCEPT !.status = "APPROVED", !.lease = l]]
    BY <2>1, <2>2 DEF ApproveRentalCommit, Approved
  <2>4. \A r \in RequestIds \ {a} : request'[r] = request[r]
    BY <2>3
  <2>5. /\ lease'[l] = row /\ row.status # "NONE" /\ row.start = request[a].start
        /\ row.end = request[a].end /\ request[a].end \in Nat
        /\ request'[a].status = "APPROVED" /\ request'[a].lease = l
        /\ request'[a].start = request[a].start /\ request'[a].end = request[a].end
    BY <1>1, <2>2, <2>3 DEF RequestRow
  <2> HIDE DEF row
  <2>6. Linked(a)'
    BY <2>3, <2>5
  <2>7. \A r \in RequestIds : request[r].lease # l
    BY <2>3, NoneAssumption DEF ApprovalMakesOneLease
  <2>8. \A r, o \in RequestIds :
          request'[r].lease # None /\ request'[r].lease = request'[o].lease => r = o
    BY <2>4, <2>5, <2>7 DEF ApprovalMakesOneLease
  <2> QED
    BY <1>2, <2>4, <2>6, <2>8 DEF ApprovalMakesOneLease
<1> QED
  BY <1>3, <1>4, RequestEffect

LEMMA OneLeaseInit == Init => ApprovalMakesOneLease
  BY DEF Init, ApprovalMakesOneLease

\* As long as no handler saves a lease it read without a lock, an approved
\* rental request has a lease of its own that honours what was approved.
THEOREM ApprovalsMakeLeases ==
  ASSUME Ops \cap LeaseSavers = {}
  PROVE  Spec => []ApprovalMakesOneLease
<1> DEFINE IInv == LocksInv /\ NoLeaseSaver /\ ApprovalMakesOneLease
<1>1. Init => IInv
  BY LocksInit, NoSaverInit, OneLeaseInit
<1>2. IInv /\ [Next]_vars => IInv'
  BY LocksStep, NoLeaseSaverStep, OneLeaseStep DEF LocksInv
<1>3. IInv => ApprovalMakesOneLease
  OBVIOUS
<1> QED
  BY <1>1, <1>2, <1>3, PTL DEF Spec

-----------------------------------------------------------------------------
(* The handlers implement Occupancy, without those that save a stale row. *)

ActiveLeases == {l \in LeaseIds : lease[l].status = "ACTIVE"}

\* HolderOf reads the holder of a unit off the leases alone.
HoldersOK ==
  /\ \A l \in ActiveLeases : HolderOf(UnitOf[l]) = l
  /\ \A u \in UnitIds : (\A l \in ActiveLeases : UnitOf[l] # u) => HolderOf(u) = None

LEMMA HoldersOfUnits == Disjoint /\ RentedIffActive => HoldersOK
<1> SUFFICES ASSUME Disjoint, RentedIffActive PROVE HoldersOK
  OBVIOUS
<1>1. ASSUME NEW l \in ActiveLeases PROVE HolderOf(UnitOf[l]) = l
  <2>1. l \in LeaseIds /\ lease[l].status = "ACTIVE" /\ UnitOf[l] \in UnitIds
    BY ColumnsAssumption DEF ActiveLeases
  <2>2. unit[UnitOf[l]] = "RENTED"
    BY <2>1 DEF RentedIffActive
  <2>3. \A m \in LeaseIds : UnitOf[m] = UnitOf[l] /\ lease[m].status = "ACTIVE" => m = l
    BY <2>1 DEF Disjoint, Occupying
  <2> QED
    BY <2>1, <2>2, <2>3 DEF HolderOf
<1>2. ASSUME NEW u \in UnitIds, \A l \in ActiveLeases : UnitOf[l] # u
      PROVE  HolderOf(u) = None
  BY <1>2 DEF ActiveLeases, RentedIffActive, HolderOf
<1> QED
  BY <1>1, <1>2 DEF HoldersOK

\* A step that ends the leases in S and activates none empties their units.
LEMMA HoldersLeave ==
  ASSUME HoldersOK, HoldersOK', NEW S \in SUBSET LeaseIds, ActiveLeases' = ActiveLeases \ S
  PROVE  \A u \in UnitIds :
           HolderOf(u)' = IF HolderOf(u) \in S THEN None ELSE HolderOf(u)
<1> SUFFICES ASSUME NEW u \in UnitIds
             PROVE  HolderOf(u)' = IF HolderOf(u) \in S THEN None ELSE HolderOf(u)
  OBVIOUS
<1>1. CASE \A l \in ActiveLeases : UnitOf[l] # u
  BY <1>1, NoneAssumption DEF HoldersOK
<1>2. ASSUME NEW l \in ActiveLeases, UnitOf[l] = u
      PROVE  HolderOf(u)' = IF HolderOf(u) \in S THEN None ELSE HolderOf(u)
  <2>1. HolderOf(u) = l
    BY <1>2 DEF HoldersOK
  <2>2. CASE l \notin S
    BY <1>2, <2>1, <2>2 DEF HoldersOK
  <2>3. CASE l \in S
    <3>1. \A m \in ActiveLeases' : UnitOf[m] # u
      BY <1>2, <2>1, <2>3 DEF HoldersOK
    <3> QED
      BY <2>1, <2>3, <3>1 DEF HoldersOK
  <2> QED
    BY <2>2, <2>3
<1> QED
  BY <1>1, <1>2

\* Leases end, or none does and nothing the abstract specification sees changes.
LEMMA EndsMap ==
  ASSUME HoldersOK, HoldersOK', NEW S \in SUBSET LeaseIds,
         ActiveLeases' = ActiveLeases \ S, EndedLeases' = EndedLeases \cup S
  PROVE  Occupancy!Next
<1>1. Occupancy!End(S)
  BY HoldersLeave DEF Occupancy!End
<1> QED
  BY <1>1 DEF Occupancy!Next

LEMMA StuttersMap ==
  ASSUME HoldersOK, HoldersOK',
         ActiveLeases' = ActiveLeases, EndedLeases' = EndedLeases
  PROVE  UNCHANGED Occupancy!occupancy
<1>1. \A u \in UnitIds :
        HolderOf(u)' = IF HolderOf(u) \in {} THEN None ELSE HolderOf(u)
  <2>1. {} \in SUBSET LeaseIds /\ ActiveLeases' = ActiveLeases \ {}
    OBVIOUS
  <2> QED
    BY <2>1, HoldersLeave
<1> QED
  BY <1>1 DEF Occupancy!occupancy

LEMMA ActivationMaps ==
  ASSUME TypeOK, HoldersOK, HoldersOK', LeaseLocksOK, RentedIffActive,
         NEW q \in Procs, ActivateCommit(q)
  PROVE  Occupancy!Next
<1> USE DEF TypeOK, TablesOK
<1>0. PICK l \in LeaseIds : l = job[q].id
  BY DEF ActivateCommit, HandlersOK, Fits
<1>1. UnitOf[l] \in UnitIds /\ unit[UnitOf[l]] = "AVAILABLE"
  BY <1>0, ColumnsAssumption DEF ActivateCommit
<1>2. lease[l].status = "PENDING"
  BY <1>0 DEF ActivateCommit, LeasesHeldBy, LeaseLocksOK
<1>3. lease'[l].status = "ACTIVE" /\ \A m \in LeaseIds \ {l} : lease'[m] = lease[m]
  BY <1>0 DEF ActivateCommit, LeaseRow
<1>4. ActiveLeases' = ActiveLeases \cup {l} /\ EndedLeases' = EndedLeases
      /\ l \notin EndedLeases
  BY <1>1, <1>2, <1>3 DEF ActiveLeases, EndedLeases
<1>5. \A m \in ActiveLeases : UnitOf[m] # UnitOf[l]
  BY <1>1 DEF RentedIffActive, ActiveLeases
<1>6. HolderOf(UnitOf[l]) = None /\ HolderOf(UnitOf[l])' = l
  BY <1>1, <1>4, <1>5 DEF HoldersOK
<1>7. ASSUME NEW u \in UnitIds, u # UnitOf[l] PROVE HolderOf(u)' = HolderOf(u)
  <2>1. CASE \A m \in ActiveLeases : UnitOf[m] # u
    BY <1>4, <1>7, <2>1 DEF HoldersOK
  <2>2. CASE \E m \in ActiveLeases : UnitOf[m] = u
    BY <1>4, <2>2 DEF HoldersOK
  <2> QED
    BY <2>1, <2>2
<1>8. Occupancy!Take(l)
  BY <1>1, <1>4, <1>6, <1>7 DEF Occupancy!Take
<1> QED
  BY <1>1, <1>8 DEF Occupancy!Next

LEMMA StepMaps ==
  ASSUME TenancyInv, HoldersOK, HoldersOK', [Next]_vars
  PROVE  [Occupancy!Next]_(Occupancy!occupancy)
<1> USE DEF TenancyInv, LocksInv, TypeOK, TablesOK
<1> DEFINE Quiet == ActiveLeases' = ActiveLeases /\ EndedLeases' = EndedLeases
<1>1. CASE UNCHANGED lease
  BY <1>1, StuttersMap DEF ActiveLeases, EndedLeases
<1>2. CASE InsertsLease
  <2>1. Quiet
    BY <1>2 DEF InsertsLease, ActiveLeases, EndedLeases
  <2> QED
    BY <2>1, StuttersMap
<1>3. CASE RenewsLease
  <2>1. Quiet
    BY <1>3 DEF RenewsLease, ApplyRenewal, LeaseRow, ActiveLeases, EndedLeases
  <2> QED
    BY <2>1, StuttersMap
<1>4. CASE \E q \in Procs : SweepCommit(q)
  <2>1. PICK q \in Procs : SweepCommit(q)
    BY <1>4
  <2>2. Expiring(q) \in SUBSET LeaseIds
    BY <2>1 DEF Expiring, HandlersOK, Jobs
  <2>3. \A l \in LeaseIds :
          lease'[l].status = IF l \in Expiring(q) THEN "EXPIRED" ELSE lease[l].status
    BY <2>1 DEF SweepCommit, LeaseRow
  <2>4. \A l \in Expiring(q) : lease[l].status = "ACTIVE"
    BY DEF Expiring
  <2>5. ActiveLeases' = ActiveLeases \ Expiring(q)
        /\ EndedLeases' = EndedLeases \cup Expiring(q)
    BY <2>2, <2>3, <2>4 DEF ActiveLeases, EndedLeases
  <2> QED
    BY <2>2, <2>5, EndsMap
<1>5. CASE \E q \in Procs : Terminate(q)
  <2>1. PICK l \in LeaseIds : lease' = [lease EXCEPT ![l].status = "TERMINATED"]
    BY <1>5 DEF Terminate
  <2>2. \A m \in LeaseIds :
          lease'[m].status = IF m = l THEN "TERMINATED" ELSE lease[m].status
    BY <2>1 DEF LeaseRow
  <2>3. ActiveLeases' = ActiveLeases \ {l} /\ EndedLeases' = EndedLeases \cup {l}
    BY <2>2 DEF ActiveLeases, EndedLeases
  <2>4. {l} \in SUBSET LeaseIds
    OBVIOUS
  <2> QED
    BY <2>3, <2>4, EndsMap
<1>6. CASE \E q \in Procs : RemoveCommit(q)
  <2>1. PICK q \in Procs : RemoveCommit(q)
    BY <1>6
  <2>2. job[q].rows \in SUBSET LeaseIds
    BY DEF HandlersOK, Jobs
  <2>3. \A l \in LeaseIds :
          lease'[l].status = IF l \in job[q].rows THEN "TERMINATED" ELSE lease[l].status
    BY <2>1 DEF RemoveCommit, LeaseRow
  <2>4. \A l \in job[q].rows : lease[l].status = "PENDING"
    BY <2>1 DEF RemoveCommit, LeasesHeldBy, LeaseLocksOK
  <2>5. ActiveLeases' = ActiveLeases \ job[q].rows
        /\ EndedLeases' = EndedLeases \cup job[q].rows
    BY <2>2, <2>3, <2>4 DEF ActiveLeases, EndedLeases
  <2> QED
    BY <2>2, <2>5, EndsMap
<1>7. ~ \E q \in Procs : UpdateLeaseSave(q) \/ SaveUnit(q)
  BY DEF NoLeaseSaver, NoUnitSaver, UpdateLeaseSave, SaveUnit
<1> QED
  BY <1>1, <1>2, <1>3, <1>4, <1>5, <1>6, <1>7, ActivationMaps, StepKinds DEF WritesRenewal

LEMMA InitMaps == Init => Occupancy!Init
  BY DEF Init, Occupancy!Init, HolderOf, EndedLeases

\* As long as no handler saves a unit or a lease it read without a lock, the
\* handlers implement Occupancy: a lease takes an empty unit, keeps it to its
\* end and never takes it again.
THEOREM UnitsImplementOccupancy ==
  ASSUME Ops \cap StaleSavers = {}
  PROVE  Spec => UnitsAreHeld
<1>1. TenancyInv => HoldersOK
  BY HoldersOfUnits DEF TenancyInv
<1>2. TenancyInv /\ HoldersOK /\ HoldersOK' /\ [Next]_vars
        => [Occupancy!Next]_(Occupancy!occupancy)
  BY StepMaps
<1> QED
  BY <1>1, <1>2, InitMaps, TenancyInvariant, PTL DEF Spec, UnitsAreHeld, Occupancy!Spec

=============================================================================
