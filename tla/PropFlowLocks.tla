--------------------------- MODULE PropFlowLocks ---------------------------
(***************************************************************************)
(* Type correctness of PropFlow and its row locks: what the locking        *)
(* handlers may rely on between two steps, and what follows for the        *)
(* removal of a property and for the decision of a request.  Nothing here  *)
(* depends on which operations clients call.                               *)
(***************************************************************************)
EXTENDS PropFlow, TLAPS

\* Every handler starts and ends with nothing to remember.
LEMMA NoJobOK == NoJob \in Jobs /\ \A s \in {"idle"} \cup AllOps : Fits(s, NoJob)
  BY DEF NoJob, Jobs, Fits, AllOps, SweepFirst, NoSweep

\* A handler that goes on remembers what its next step needs.
LEMMA GotoOK ==
  ASSUME HandlersOK, NEW q \in Procs, NEW s \in Steps, NEW j \in Jobs,
         Fits(s, j), Goto(q, s, j)
  PROVE  HandlersOK'
  BY DEF HandlersOK, Goto

LEMMA ReturnOK ==
  ASSUME HandlersOK, NEW q \in Procs, Return(q)
  PROVE  HandlersOK'
  BY GotoOK, NoJobOK DEF Return, Steps

LEMMA StayOK ==
  ASSUME HandlersOK, UNCHANGED <<pc, job>>
  PROVE  HandlersOK'
  BY DEF HandlersOK

LEMMA CloseRenewalsOK ==
  ASSUME TablesOK, NEW S, NEW st \in RenewalStatus, CloseRenewals(S, st)
  PROVE  renewal' \in [RenewalIds -> RenewalRow]
  BY DEF TablesOK, CloseRenewals, RenewalRow

\* What follows a sweep is an operation or nothing, with nothing to remember.
LEMMA AfterSweepOK ==
  ASSUME NEW s \in AfterSweep
  PROVE  s \in Steps /\ s \in {None, "idle"} \cup SweepFirst /\ Fits(s, NoJob)
  BY NoJobOK DEF AfterSweep, Steps, AllOps

LEMMA SweepBeginOK ==
  ASSUME TypeOK, NEW q \in Procs, NEW s \in AfterSweep, SweepBegin(q, s)
  PROVE  HandlersOK'
<1> DEFINE j == [NoJob EXCEPT !.rows = Overdue, !.end = today, !.then = s,
                              !.rented = {u \in UnitIds : unit[u] = "RENTED"},
                              !.open = {r \in RenewalIds : renewal[r].status = "PENDING"}]
<1>1. today \in Nat /\ Overdue \subseteq LeaseIds
  BY CalendarAssumption DEF TypeOK, TablesOK, Days, Overdue
<1>2. j \in Jobs /\ Fits("Sweep", j) /\ "Sweep" \in Steps
  BY <1>1, AfterSweepOK DEF Jobs, NoJob, Fits, Steps, LaterSteps
<1>3. Goto(q, "Sweep", j)
  BY DEF SweepBegin
<1> HIDE DEF j
<1> QED
  BY <1>2, <1>3, GotoOK DEF TypeOK

LEMMA SweepCommitOK ==
  ASSUME TypeOK, NEW q \in Procs, SweepCommit(q)
  PROVE  TypeOK'
<1>1. job[q].then \in AfterSweep
  BY DEF TypeOK, HandlersOK, Fits, SweepCommit
<1>2. HandlersOK'
  BY <1>1, AfterSweepOK, NoJobOK, GotoOK DEF SweepCommit, TypeOK
<1>3. TablesOK'
  BY CloseRenewalsOK
     DEF TypeOK, TablesOK, SweepCommit, LeaseRow, LeaseStatus, UnitStatus, RenewalStatus,
         RequestStatus
<1> QED
  BY <1>2, <1>3 DEF TypeOK

LEMMA DaysAreNat == Days \subseteq Nat /\ 1 \in Days
  BY CalendarAssumption DEF Days

\* One step of each handler keeps the types of the tables and of what the
\* handlers remember.
LEMMA LeaseStepType ==
  ASSUME TypeOK, NEW q \in Procs, LeaseStep(q)
  PROVE  TypeOK'
<1> USE DEF TypeOK
<1>1. ASSUME CreateLeaseRead(q) PROVE TypeOK'
  BY <1>1, GotoOK DEF CreateLeaseRead, tables, TablesOK, NoJob, Jobs, Fits, Steps, LaterSteps
<1>2. ASSUME CreateLease(q) PROVE TypeOK'
  BY <1>2, ReturnOK, DaysAreNat DEF CreateLease, TablesOK, LeaseRow, LeaseStatus
<1>3. ASSUME UpdateLeaseRead(q) PROVE TypeOK'
  BY <1>3, GotoOK, DaysAreNat
     DEF UpdateLeaseRead, tables, TablesOK, NoJob, Jobs, Fits, Steps, LaterSteps, LeaseStatus
<1>4. ASSUME UpdateLeaseSave(q) PROVE TypeOK'
  <2>1. /\ job[q] \in Jobs /\ job[q].id \in LeaseIds /\ job[q].status = "PENDING"
        /\ lease[job[q].id] \in LeaseRow
    BY <1>4 DEF UpdateLeaseSave, HandlersOK, TablesOK, Fits
  <2> QED
    BY <1>4, <2>1, ReturnOK DEF UpdateLeaseSave, TablesOK, LeaseRow, LeaseStatus, Jobs
<1>5. ASSUME ActivateLock(q) PROVE TypeOK'
  BY <1>5, GotoOK DEF ActivateLock, tables, TablesOK, NoJob, Jobs, Fits, Steps, LaterSteps
<1>6. ASSUME ActivateCommit(q) PROVE TypeOK'
  <2>1. job[q].id \in LeaseIds
    BY <1>6 DEF ActivateCommit, HandlersOK, Fits
  <2> QED
    BY <1>6, <2>1, ReturnOK
       DEF ActivateCommit, TablesOK, LeaseRow, LeaseStatus, UnitStatus
<1>7. ASSUME Terminate(q) PROVE TypeOK'
  BY <1>7, ReturnOK, CloseRenewalsOK
     DEF Terminate, TablesOK, LeaseRow, LeaseStatus, UnitStatus, RenewalStatus, RequestStatus
<1>8. ASSUME Renew(q) PROVE TypeOK'
  BY <1>8, ReturnOK, CloseRenewalsOK, DaysAreNat
     DEF Renew, ApplyRenewal, TablesOK, LeaseRow, RenewalStatus, RequestStatus
<1> QED
  BY <1>1, <1>2, <1>3, <1>4, <1>5, <1>6, <1>7, <1>8 DEF LeaseStep

LEMMA RenewalStepType ==
  ASSUME TypeOK, NEW q \in Procs, RenewalStep(q)
  PROVE  TypeOK'
<1> USE DEF TypeOK
<1>1. ASSUME RequestRenewal(q) PROVE TypeOK'
  BY <1>1, ReturnOK, DaysAreNat
     DEF RequestRenewal, TablesOK, RenewalRow, RenewalStatus, RequestStatus
<1>2. ASSUME ApproveRenewal(q) PROVE TypeOK'
  BY <1>2, ReturnOK, CloseRenewalsOK, DaysAreNat, ColumnsAssumption
     DEF ApproveRenewal, ApplyRenewal, TablesOK, LeaseRow, RenewalStatus, RequestStatus
<1>3. ASSUME NEW step, NEW st \in {"REJECTED", "CANCELLED"}, CloseRenewal(q, step, st)
      PROVE  TypeOK'
  BY <1>3, ReturnOK DEF CloseRenewal, TablesOK, RenewalRow, RenewalStatus, RequestStatus
<1> QED
  BY <1>1, <1>2, <1>3 DEF RenewalStep, RejectRenewal, CancelRenewal

LEMMA RequestStepType ==
  ASSUME TypeOK, NEW q \in Procs, RequestStep(q)
  PROVE  TypeOK'
<1> USE DEF TypeOK
<1>1. ASSUME RequestRentalRead(q) PROVE TypeOK'
  BY <1>1, GotoOK, DaysAreNat
     DEF RequestRentalRead, tables, TablesOK, NoJob, Jobs, Fits, Steps, LaterSteps
<1>2. ASSUME RequestRental(q) PROVE TypeOK'
  <2>1. job[q] \in Jobs
    BY DEF HandlersOK
  <2> QED
    BY <1>2, <2>1, ReturnOK
       DEF RequestRental, SameAsk, TablesOK, RequestRow, RequestStatus, Jobs
<1>3. ASSUME ApproveRentalLock(q) PROVE TypeOK'
  BY <1>3, GotoOK
     DEF ApproveRentalLock, tables, TablesOK, NoJob, Jobs, Fits, Steps, LaterSteps
<1>4. ASSUME ApproveRentalCommit(q) PROVE TypeOK'
  <2>1. job[q].id \in RequestIds
    BY <1>4 DEF ApproveRentalCommit, HandlersOK, Fits
  <2>2. request[job[q].id] \in RequestRow
    BY <2>1 DEF TablesOK
  <2>3. PICK l \in LeaseIds :
          /\ lease' = [lease EXCEPT ![l] =
               [status |-> "PENDING", start |-> request[job[q].id].start,
                end |-> request[job[q].id].end]]
          /\ request' = [request EXCEPT ![job[q].id] = Approved(job[q].id, l)]
    BY <1>4 DEF ApproveRentalCommit
  <2>4. lease' \in [LeaseIds -> LeaseRow]
    BY <2>2, <2>3 DEF TablesOK, LeaseRow, LeaseStatus, RequestRow
  <2>5. Approved(job[q].id, l) \in RequestRow
    BY <2>2 DEF Approved, RequestRow, RequestStatus
  <2>6. request' \in [RequestIds -> RequestRow]
    BY <2>1, <2>3, <2>5 DEF TablesOK
  <2> QED
    BY <1>4, <2>4, <2>6, ReturnOK DEF ApproveRentalCommit, TablesOK
<1>5. ASSUME NEW step, NEW st \in {"REJECTED", "CANCELLED"}, CloseRequest(q, step, st)
      PROVE  TypeOK'
  BY <1>5, ReturnOK DEF CloseRequest, TablesOK, RequestRow, RequestStatus
<1> QED
  BY <1>1, <1>2, <1>3, <1>4, <1>5 DEF RequestStep, RejectRental, CancelRental

LEMMA PropertyStepType ==
  ASSUME TypeOK, NEW q \in Procs, PropertyStep(q)
  PROVE  TypeOK'
<1> USE DEF TypeOK
<1>1. ASSUME RemoveCount(q) PROVE TypeOK'
  BY <1>1, GotoOK DEF RemoveCount, tables, TablesOK, NoJob, Jobs, Fits, Steps, LaterSteps
<1>2. ASSUME RemoveLockLeases(q) PROVE TypeOK'
  <2>1. job[q] \in Jobs /\ job[q].id \in PropertyIds
    BY <1>2 DEF RemoveLockLeases, HandlersOK, Fits
  <2> QED
    BY <1>2, <2>1, GotoOK
       DEF RemoveLockLeases, tables, TablesOK, Jobs, Fits, Steps, LaterSteps
<1>3. ASSUME RemoveCommit(q) PROVE TypeOK'
  <2>1. job[q].id \in PropertyIds
    BY <1>3 DEF RemoveCommit, HandlersOK, Fits
  <2> QED
    BY <1>3, <2>1, ReturnOK
       DEF RemoveCommit, TablesOK, LeaseRow, LeaseStatus, RequestRow, RequestStatus
<1>4. ASSUME RemoveFindLeases(q) PROVE TypeOK'
  <2>1. job[q] \in Jobs /\ job[q].id \in PropertyIds
    BY <1>4 DEF RemoveFindLeases, HandlersOK, Fits
  <2> QED
    BY <1>4, <2>1, GotoOK
       DEF RemoveFindLeases, LeasesOn, tables, TablesOK, Jobs, Fits, Steps, LaterSteps
<1>5. ASSUME RemoveFindRequests(q) PROVE TypeOK'
  <2>1. job[q] \in Jobs /\ job[q].id \in PropertyIds
    BY <1>5 DEF RemoveFindRequests, HandlersOK, Fits
  <2> QED
    BY <1>5, <2>1, GotoOK
       DEF RemoveFindRequests, RequestsOn, tables, TablesOK, Jobs, Fits, Steps, LaterSteps
<1> QED
  BY <1>1, <1>2, <1>3, <1>4, <1>5 DEF PropertyStep

LEMMA UnitStepType ==
  ASSUME TypeOK, NEW q \in Procs, UnitStep(q)
  PROVE  TypeOK'
<1> USE DEF TypeOK
<1>1. ASSUME NEW step, NEW allowed \in SUBSET UnitStatus,
             NEW saved \in [UnitStatus -> UnitStatus],
             ReadUnit(q, step, allowed, saved)
      PROVE  TypeOK'
  BY <1>1, GotoOK
     DEF ReadUnit, tables, TablesOK, NoJob, Jobs, Fits, Steps, LaterSteps
<1>2. ASSUME SaveUnit(q) PROVE TypeOK'
  <2>1. job[q].id \in UnitIds /\ job[q].status \in UnitStatus
    BY <1>2 DEF SaveUnit, HandlersOK, Fits
  <2> QED
    BY <1>2, <2>1, ReturnOK DEF SaveUnit, TablesOK
<1>3. AsRead \in [UnitStatus -> UnitStatus] /\ ManualTransitions \in [UnitStatus -> UnitStatus]
  BY DEF AsRead, ManualTransitions, UnitStatus
<1> QED
  BY <1>1, <1>2, <1>3
     DEF UnitStep, SetStatusRead, UpdateUnitRead, EditImagesRead, NotRented

LEMMA TypeStep == TypeOK /\ [Next]_vars => TypeOK'
<1> SUFFICES ASSUME TypeOK, [Next]_vars PROVE TypeOK'
  OBVIOUS
<1> USE DEF TypeOK
<1>1. ASSUME Tick PROVE TypeOK'
  BY <1>1, StayOK, CalendarAssumption DEF Tick, tables, TablesOK, Days
<1>2. ASSUME NEW q \in Procs, ReceiveAndSweep(q) PROVE TypeOK'
  BY <1>2, SweepBeginOK DEF ReceiveAndSweep, tables, TablesOK
<1>3. ASSUME NEW q \in Procs, Receive(q) PROVE TypeOK'
  BY <1>3, GotoOK, NoJobOK DEF Receive, Steps, tables, TablesOK
<1>4. ASSUME NEW q \in Procs, SweepCommit(q) PROVE TypeOK'
  BY <1>4, SweepCommitOK
<1>5. ASSUME NEW q \in Procs, Fail(q) PROVE TypeOK'
  BY <1>5, ReturnOK DEF Fail, tables, TablesOK
<1>6. ASSUME UNCHANGED vars PROVE TypeOK'
  BY <1>6, StayOK DEF vars, tables, TablesOK
<1> QED
  BY <1>1, <1>2, <1>3, <1>4, <1>5, <1>6, LeaseStepType, RenewalStepType,
     RequestStepType, PropertyStepType, UnitStepType DEF Next, HandlerStep

LEMMA TypeInit == Init => TypeOK
  BY NoJobOK, CalendarAssumption
     DEF Init, TypeOK, TablesOK, HandlersOK, Days, LeaseRow, LeaseStatus, RequestRow,
         RequestStatus, RenewalRow, RenewalStatus, UnitStatus, Steps

\* Every table, lock and local variable has its type whatever operations run.
THEOREM TypeCorrect == Spec => []TypeOK
  BY TypeInit, TypeStep, PTL DEF Spec

-----------------------------------------------------------------------------
(* Row locks. *)

\* A lease locked by a waiting handler is PENDING, and only one holds it.
LeaseLocksOK ==
  /\ \A q \in Procs : \A l \in LeasesHeldBy(q) : lease[l].status = "PENDING"
  /\ \A p, q \in Procs : p # q => LeasesHeldBy(p) \cap LeasesHeldBy(q) = {}

\* The same of rental requests.
RequestLocksOK ==
  /\ \A q \in Procs : \A r \in RequestsHeldBy(q) : request[r].status = "PENDING"
  /\ \A p, q \in Procs : p # q => RequestsHeldBy(p) \cap RequestsHeldBy(q) = {}

LocksInv == TypeOK /\ LeaseLocksOK /\ RequestLocksOK

-----------------------------------------------------------------------------

LEMMA HeldAreLeases ==
  ASSUME TypeOK, NEW q \in Procs
  PROVE  LeasesHeldBy(q) \subseteq LeaseIds /\ RequestsHeldBy(q) \subseteq RequestIds
  BY DEF TypeOK, HandlersOK, Fits, Jobs, LeasesHeldBy, RequestsHeldBy

\* A step of q that leaves alone what others have locked, and leaves q itself
\* with no lease locked but rows that are PENDING and were free.
LEMMA LeaseLocksStep ==
  ASSUME TypeOK, LeaseLocksOK, NEW q \in Procs, NEW s, NEW j, Goto(q, s, j),
         \A p \in Procs \ {q} : \A l \in LeasesHeldBy(p) : lease'[l].status = lease[l].status,
         \A l \in LeasesHeldBy(q)' : lease'[l].status = "PENDING" /\ l \notin HeldLeases
  PROVE  LeaseLocksOK'
<1>1. \A p \in Procs \ {q} : LeasesHeldBy(p)' = LeasesHeldBy(p)
  BY DEF TypeOK, HandlersOK, Goto, LeasesHeldBy
<1>2. \A p \in Procs : LeasesHeldBy(p) \subseteq HeldLeases
  BY DEF HeldLeases
<1> QED
  BY <1>1, <1>2 DEF LeaseLocksOK

LEMMA RequestLocksStep ==
  ASSUME TypeOK, RequestLocksOK, NEW q \in Procs, NEW s, NEW j, Goto(q, s, j),
         \A p \in Procs \ {q} : \A r \in RequestsHeldBy(p) : request'[r].status = request[r].status,
         \A r \in RequestsHeldBy(q)' : request'[r].status = "PENDING" /\ r \notin HeldRequests
  PROVE  RequestLocksOK'
<1>1. \A p \in Procs \ {q} : RequestsHeldBy(p)' = RequestsHeldBy(p)
  BY DEF TypeOK, HandlersOK, Goto, RequestsHeldBy
<1>2. \A p \in Procs : RequestsHeldBy(p) \subseteq HeldRequests
  BY DEF HeldRequests
<1> QED
  BY <1>1, <1>2 DEF RequestLocksOK

\* A step after which q holds nothing keeps the locks if it touches no lease
\* that another handler has locked.
LEMMA LeaseLocksReturn ==
  ASSUME TypeOK, LeaseLocksOK, NEW q \in Procs, NEW s, NEW j, Goto(q, s, j),
         s \notin {"ActivateCommit", "RemoveFindRequests", "RemoveCommit"},
         \A p \in Procs \ {q} : \A l \in LeasesHeldBy(p) : lease'[l].status = lease[l].status
  PROVE  LeaseLocksOK'
<1>1. LeasesHeldBy(q)' = {}
  BY DEF TypeOK, HandlersOK, Goto, LeasesHeldBy
<1> QED
  BY <1>1, LeaseLocksStep

LEMMA RequestLocksReturn ==
  ASSUME TypeOK, RequestLocksOK, NEW q \in Procs, NEW s, NEW j, Goto(q, s, j),
         s # "ApproveRentalCommit",
         \A p \in Procs \ {q} : \A r \in RequestsHeldBy(p) : request'[r].status = request[r].status
  PROVE  RequestLocksOK'
<1>1. RequestsHeldBy(q)' = {}
  BY DEF TypeOK, HandlersOK, Goto, RequestsHeldBy
<1> QED
  BY <1>1, RequestLocksStep

-----------------------------------------------------------------------------
(* Every step keeps the locks. *)

\* Rows nobody has locked are not among those a handler holds.
LEMMA NotHeld ==
  /\ \A l : l \notin HeldLeases => \A p \in Procs : l \notin LeasesHeldBy(p)
  /\ \A r : r \notin HeldRequests => \A p \in Procs : r \notin RequestsHeldBy(p)
  BY DEF HeldLeases, HeldRequests

\* The steps of one handler q, by what they write.
LEMMA LeaseStepLocks ==
  ASSUME LocksInv, NEW q \in Procs, LeaseStep(q)
  PROVE  LeaseLocksOK' /\ RequestLocksOK'
<1> USE DEF LocksInv
<1>1. ASSUME CreateLeaseRead(q) PROVE LeaseLocksOK' /\ RequestLocksOK'
  BY <1>1, LeaseLocksReturn, RequestLocksReturn DEF CreateLeaseRead, tables
<1>2. ASSUME CreateLease(q) PROVE LeaseLocksOK' /\ RequestLocksOK'
  <2>1. \A p \in Procs : \A l \in LeasesHeldBy(p) : lease'[l].status = lease[l].status
    BY <1>2, HeldAreLeases DEF CreateLease, LeaseLocksOK, TypeOK, TablesOK
  <2> QED
    BY <1>2, <2>1, LeaseLocksReturn, RequestLocksReturn DEF CreateLease, Return
<1>3. ASSUME UpdateLeaseRead(q) PROVE LeaseLocksOK' /\ RequestLocksOK'
  BY <1>3, LeaseLocksReturn, RequestLocksReturn DEF UpdateLeaseRead, tables
<1>4. ASSUME UpdateLeaseSave(q) PROVE LeaseLocksOK' /\ RequestLocksOK'
  <2>1. \A p \in Procs : \A l \in LeasesHeldBy(p) : lease'[l].status = lease[l].status
    BY <1>4, HeldAreLeases, NotHeld DEF UpdateLeaseSave, TypeOK, TablesOK
  <2> QED
    BY <1>4, <2>1, LeaseLocksReturn, RequestLocksReturn DEF UpdateLeaseSave, Return
<1>5. ASSUME ActivateLock(q) PROVE LeaseLocksOK' /\ RequestLocksOK'
  <2>1. PICK l \in LeaseIds \ HeldLeases :
          /\ lease[l].status = "PENDING"
          /\ Goto(q, "ActivateCommit", [NoJob EXCEPT !.id = l])
    BY <1>5 DEF ActivateLock
  <2>2. LeasesHeldBy(q)' = {l}
    BY <2>1 DEF Goto, LeasesHeldBy, NoJob, TypeOK, HandlersOK
  <2> QED
    BY <1>5, <2>1, <2>2, LeaseLocksStep, RequestLocksReturn DEF ActivateLock, tables
<1>6. ASSUME ActivateCommit(q) PROVE LeaseLocksOK' /\ RequestLocksOK'
  <2>1. LeasesHeldBy(q) = {job[q].id}
    BY <1>6 DEF ActivateCommit, LeasesHeldBy
  <2>2. \A p \in Procs \ {q} : \A l \in LeasesHeldBy(p) : lease'[l].status = lease[l].status
    BY <1>6, <2>1, HeldAreLeases DEF ActivateCommit, LeaseLocksOK, TypeOK, TablesOK
  <2> QED
    BY <1>6, <2>2, LeaseLocksReturn, RequestLocksReturn DEF ActivateCommit, Return
<1>7. ASSUME Terminate(q) PROVE LeaseLocksOK' /\ RequestLocksOK'
  <2>1. \A p \in Procs : \A l \in LeasesHeldBy(p) : lease'[l].status = lease[l].status
    BY <1>7, HeldAreLeases, NotHeld DEF Terminate, TypeOK, TablesOK
  <2> QED
    BY <1>7, <2>1, LeaseLocksReturn, RequestLocksReturn DEF Terminate, Return
<1>8. ASSUME Renew(q) PROVE LeaseLocksOK' /\ RequestLocksOK'
  <2>1. \A p \in Procs : \A l \in LeasesHeldBy(p) : lease'[l].status = lease[l].status
    BY <1>8, HeldAreLeases, NotHeld DEF Renew, ApplyRenewal, TypeOK, TablesOK, LeaseRow
  <2> QED
    BY <1>8, <2>1, LeaseLocksReturn, RequestLocksReturn DEF Renew, Return
<1> QED
  BY <1>1, <1>2, <1>3, <1>4, <1>5, <1>6, <1>7, <1>8 DEF LeaseStep

LEMMA RenewalStepLocks ==
  ASSUME LocksInv, NEW q \in Procs, RenewalStep(q)
  PROVE  LeaseLocksOK' /\ RequestLocksOK'
<1> USE DEF LocksInv
<1>1. ASSUME RequestRenewal(q) PROVE LeaseLocksOK' /\ RequestLocksOK'
  BY <1>1, LeaseLocksReturn, RequestLocksReturn DEF RequestRenewal, Return
<1>2. ASSUME ApproveRenewal(q) PROVE LeaseLocksOK' /\ RequestLocksOK'
  <2>1. \A p \in Procs : \A l \in LeasesHeldBy(p) : lease'[l].status = lease[l].status
    BY <1>2, HeldAreLeases, NotHeld, ColumnsAssumption
       DEF ApproveRenewal, ApplyRenewal, TypeOK, TablesOK, LeaseRow
  <2> QED
    BY <1>2, <2>1, LeaseLocksReturn, RequestLocksReturn DEF ApproveRenewal, Return
<1>3. ASSUME NEW step, NEW st, CloseRenewal(q, step, st)
      PROVE  LeaseLocksOK' /\ RequestLocksOK'
  BY <1>3, LeaseLocksReturn, RequestLocksReturn DEF CloseRenewal, Return
<1> QED
  BY <1>1, <1>2, <1>3 DEF RenewalStep, RejectRenewal, CancelRenewal

LEMMA RequestStepLocks ==
  ASSUME LocksInv, NEW q \in Procs, RequestStep(q)
  PROVE  LeaseLocksOK' /\ RequestLocksOK'
<1> USE DEF LocksInv
<1>1. ASSUME RequestRentalRead(q) PROVE LeaseLocksOK' /\ RequestLocksOK'
  BY <1>1, LeaseLocksReturn, RequestLocksReturn DEF RequestRentalRead, tables
<1>2. ASSUME RequestRental(q) PROVE LeaseLocksOK' /\ RequestLocksOK'
  <2>1. \A p \in Procs : \A r \in RequestsHeldBy(p) : request'[r].status = request[r].status
    BY <1>2, HeldAreLeases DEF RequestRental, RequestLocksOK, TypeOK, TablesOK
  <2> QED
    BY <1>2, <2>1, LeaseLocksReturn, RequestLocksReturn DEF RequestRental, Return
<1>3. ASSUME ApproveRentalLock(q) PROVE LeaseLocksOK' /\ RequestLocksOK'
  <2>1. PICK r \in RequestIds \ HeldRequests :
          /\ request[r].status = "PENDING"
          /\ Goto(q, "ApproveRentalCommit", [NoJob EXCEPT !.id = r])
    BY <1>3 DEF ApproveRentalLock
  <2>2. RequestsHeldBy(q)' = {r}
    BY <2>1 DEF Goto, RequestsHeldBy, NoJob, TypeOK, HandlersOK
  <2> QED
    BY <1>3, <2>1, <2>2, LeaseLocksReturn, RequestLocksStep DEF ApproveRentalLock, tables
<1>4. ASSUME ApproveRentalCommit(q) PROVE LeaseLocksOK' /\ RequestLocksOK'
  <2>1. RequestsHeldBy(q) = {job[q].id}
    BY <1>4 DEF ApproveRentalCommit, RequestsHeldBy
  <2>2. PICK l \in LeaseIds :
          /\ lease[l].status = "NONE"
          /\ \E row : lease' = [lease EXCEPT ![l] = row]
          /\ \E row : request' = [request EXCEPT ![job[q].id] = row]
    BY <1>4 DEF ApproveRentalCommit
  <2>3. \A p \in Procs : \A m \in LeasesHeldBy(p) : lease'[m].status = lease[m].status
    BY <2>2, HeldAreLeases DEF LeaseLocksOK, TypeOK, TablesOK
  <2>4. \A p \in Procs \ {q} : \A r \in RequestsHeldBy(p) : request'[r].status = request[r].status
    BY <2>1, <2>2, HeldAreLeases DEF RequestLocksOK, TypeOK, TablesOK
  <2> QED
    BY <1>4, <2>3, <2>4, LeaseLocksReturn, RequestLocksReturn DEF ApproveRentalCommit, Return
<1>5. ASSUME NEW step, NEW st, CloseRequest(q, step, st)
      PROVE  LeaseLocksOK' /\ RequestLocksOK'
  <2>1. \A p \in Procs : \A r \in RequestsHeldBy(p) : request'[r].status = request[r].status
    BY <1>5, HeldAreLeases, NotHeld DEF CloseRequest, TypeOK, TablesOK
  <2> QED
    BY <1>5, <2>1, LeaseLocksReturn, RequestLocksReturn DEF CloseRequest, Return
<1> QED
  BY <1>1, <1>2, <1>3, <1>4, <1>5 DEF RequestStep, RejectRental, CancelRental

LEMMA PropertyStepLocks ==
  ASSUME LocksInv, NEW q \in Procs, PropertyStep(q)
  PROVE  LeaseLocksOK' /\ RequestLocksOK'
<1> USE DEF LocksInv
<1>1. ASSUME RemoveCount(q) PROVE LeaseLocksOK' /\ RequestLocksOK'
  BY <1>1, LeaseLocksReturn, RequestLocksReturn DEF RemoveCount, tables
<1>2. ASSUME RemoveLockLeases(q) PROVE LeaseLocksOK' /\ RequestLocksOK'
  <2> DEFINE pending == {l \in job[q].rows : lease[l].status = "PENDING"}
  <2>1. LeasesHeldBy(q)' = pending
    BY <1>2 DEF RemoveLockLeases, Goto, LeasesHeldBy, TypeOK, HandlersOK, Jobs
  <2>2. \A l \in pending : lease'[l].status = "PENDING" /\ l \notin HeldLeases
    BY <1>2 DEF RemoveLockLeases, tables
  <2>3. LeaseLocksOK'
    BY <1>2, <2>1, <2>2, LeaseLocksStep DEF RemoveLockLeases, tables
  <2>4. RequestLocksOK'
    BY <1>2, RequestLocksReturn DEF RemoveLockLeases, tables
  <2> QED
    BY <2>3, <2>4
<1>3. ASSUME RemoveCommit(q) PROVE LeaseLocksOK' /\ RequestLocksOK'
  <2>1. LeasesHeldBy(q) = job[q].rows
    BY <1>3 DEF RemoveCommit, LeasesHeldBy
  <2>2. \A p \in Procs \ {q} : \A l \in LeasesHeldBy(p) : lease'[l].status = lease[l].status
    BY <1>3, <2>1, HeldAreLeases DEF RemoveCommit, LeaseLocksOK
  <2>3. \A p \in Procs : \A r \in RequestsHeldBy(p) : request'[r].status = request[r].status
    BY <1>3, HeldAreLeases, NotHeld DEF RemoveCommit, RequestLocksOK
  <2> QED
    BY <1>3, <2>2, <2>3, LeaseLocksReturn, RequestLocksReturn DEF RemoveCommit, Return
<1>4. ASSUME RemoveFindLeases(q) PROVE LeaseLocksOK' /\ RequestLocksOK'
  BY <1>4, LeaseLocksReturn, RequestLocksReturn DEF RemoveFindLeases, tables
<1>5. ASSUME RemoveFindRequests(q) PROVE LeaseLocksOK' /\ RequestLocksOK'
  <2>1. \A p \in Procs : LeasesHeldBy(p)' = LeasesHeldBy(p)
    <3>1. pc \in [Procs -> Steps] /\ job \in [Procs -> Jobs]
      BY DEF TypeOK, HandlersOK
    <3>2. job'[q].rows = job[q].rows
      BY <1>5, <3>1 DEF RemoveFindRequests, Goto, Jobs
    <3>3. LeasesHeldBy(q)' = LeasesHeldBy(q)
      BY <1>5, <3>1, <3>2 DEF RemoveFindRequests, Goto, LeasesHeldBy
    <3>4. ASSUME NEW p \in Procs \ {q} PROVE LeasesHeldBy(p)' = LeasesHeldBy(p)
      BY <1>5, <3>1, <3>4 DEF RemoveFindRequests, Goto, LeasesHeldBy
    <3> QED
      BY <3>3, <3>4
  <2>2. LeaseLocksOK'
    BY <1>5, <2>1 DEF RemoveFindRequests, LeaseLocksOK, tables
  <2>3. RequestLocksOK'
    BY <1>5, RequestLocksReturn DEF RemoveFindRequests, tables
  <2> QED
    BY <2>2, <2>3
<1> QED
  BY <1>1, <1>2, <1>3, <1>4, <1>5 DEF PropertyStep

LEMMA UnitStepLocks ==
  ASSUME LocksInv, NEW q \in Procs, UnitStep(q)
  PROVE  LeaseLocksOK' /\ RequestLocksOK'
<1> USE DEF LocksInv
<1>1. ASSUME NEW step, NEW allowed, NEW saved, ReadUnit(q, step, allowed, saved)
      PROVE  LeaseLocksOK' /\ RequestLocksOK'
  BY <1>1, LeaseLocksReturn, RequestLocksReturn DEF ReadUnit, tables
<1>2. ASSUME SaveUnit(q) PROVE LeaseLocksOK' /\ RequestLocksOK'
  BY <1>2, LeaseLocksReturn, RequestLocksReturn DEF SaveUnit, Return
<1> QED
  BY <1>1, <1>2 DEF UnitStep, SetStatusRead, UpdateUnitRead, EditImagesRead

\* The sweep only touches ACTIVE leases, so none that is locked.
LEMMA SweepSparesHeld ==
  ASSUME LocksInv, NEW q \in Procs, SweepCommit(q)
  PROVE  \A p \in Procs : \A l \in LeasesHeldBy(p) : lease'[l].status = lease[l].status
  BY HeldAreLeases DEF LocksInv, LeaseLocksOK, SweepCommit, Expiring

LEMMA LocksUnchanged ==
  ASSUME LocksInv, UNCHANGED <<pc, job, request>>,
         \A p \in Procs : \A l \in LeasesHeldBy(p) : lease'[l].status = lease[l].status
  PROVE  LeaseLocksOK' /\ RequestLocksOK'
  BY DEF LocksInv, LeaseLocksOK, RequestLocksOK, LeasesHeldBy, RequestsHeldBy

LEMMA LocksStep == LocksInv /\ [Next]_vars => LocksInv'
<1> SUFFICES ASSUME LocksInv, [Next]_vars PROVE LeaseLocksOK' /\ RequestLocksOK'
  BY TypeStep DEF LocksInv
<1>1. ASSUME Tick PROVE LeaseLocksOK' /\ RequestLocksOK'
  BY <1>1, LocksUnchanged DEF Tick, tables
<1>2. ASSUME NEW q \in Procs, ReceiveAndSweep(q) PROVE LeaseLocksOK' /\ RequestLocksOK'
  BY <1>2, LeaseLocksReturn, RequestLocksReturn
     DEF ReceiveAndSweep, SweepBegin, tables, LocksInv
<1>3. ASSUME NEW q \in Procs, Receive(q) PROVE LeaseLocksOK' /\ RequestLocksOK'
  <2>1. PICK op \in AllOps : Goto(q, op, NoJob)
    BY <1>3 DEF Receive
  <2>2. op \notin {"ActivateCommit", "RemoveFindRequests", "RemoveCommit", "ApproveRentalCommit"}
    BY DEF AllOps, SweepFirst, NoSweep
  <2> QED
    BY <1>3, <2>1, <2>2, LeaseLocksReturn, RequestLocksReturn
       DEF Receive, tables, LocksInv
<1>4. ASSUME NEW q \in Procs, SweepCommit(q) PROVE LeaseLocksOK' /\ RequestLocksOK'
  <2>1. job[q].then \in AfterSweep
    BY <1>4 DEF SweepCommit, LocksInv, TypeOK, HandlersOK, Fits
  <2>2. job[q].then \notin {"ActivateCommit", "RemoveFindRequests", "RemoveCommit", "ApproveRentalCommit"}
    BY <2>1 DEF AfterSweep, SweepFirst
  <2> QED
    BY <1>4, <2>2, SweepSparesHeld, LeaseLocksReturn, RequestLocksReturn
       DEF SweepCommit, LocksInv
<1>5. ASSUME NEW q \in Procs, Fail(q) PROVE LeaseLocksOK' /\ RequestLocksOK'
  BY <1>5, LeaseLocksReturn, RequestLocksReturn DEF Fail, Return, tables, LocksInv
<1>6. ASSUME UNCHANGED vars PROVE LeaseLocksOK' /\ RequestLocksOK'
  BY <1>6, LocksUnchanged DEF vars, tables
<1> QED
  BY <1>1, <1>2, <1>3, <1>4, <1>5, <1>6, LeaseStepLocks, RenewalStepLocks,
     RequestStepLocks, PropertyStepLocks, UnitStepLocks DEF Next, HandlerStep

LEMMA LocksInit == Init => LocksInv
<1> SUFFICES ASSUME Init PROVE LeaseLocksOK /\ RequestLocksOK
  BY TypeInit DEF LocksInv
<1>1. \A q \in Procs : LeasesHeldBy(q) = {} /\ RequestsHeldBy(q) = {}
  BY DEF Init, LeasesHeldBy, RequestsHeldBy
<1> QED
  BY <1>1 DEF LeaseLocksOK, RequestLocksOK

\* What a handler has locked is PENDING and locked by nobody else, at every
\* moment between the two locks of activation, approval and removal.
THEOREM LocksHold == Spec => []LocksInv
  BY LocksInit, LocksStep, PTL DEF Spec

=============================================================================
