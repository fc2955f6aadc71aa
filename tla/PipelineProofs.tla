--------------------------- MODULE PipelineProofs ---------------------------
(***************************************************************************)
(* Type correctness and the safety properties of Pipeline, for every       *)
(* instance of its constants: how far its locks protect what a handler has *)
(* read, which waits can form a circle, and which cached answers are stale.*)
(***************************************************************************)
EXTENDS Pipeline, TLAPS

Jobs ==
  [lease : LeaseIds \cup {None}, request : RequestIds \cup {None},
   unit : UnitIds \cup {None}, status : UnitStatus \cup {None},
   rows : SUBSET (LeaseIds \cup UnitIds), todo : SUBSET (LeaseIds \cup UnitIds),
   keys : SUBSET Keys]

Fills == [key : Keys \cup {None}, ref : {Outdated, Current}]

TablesOK ==
  /\ unit \in [UnitIds -> UnitStatus]
  /\ deleted \in BOOLEAN
  /\ lease \in [LeaseIds -> LeaseStatus]
  /\ request \in [RequestIds -> RequestStatus]

HandlersOK == pc \in [Procs -> Steps] /\ job \in [Procs -> Jobs]

CacheOK == redis \in [Keys -> Entry] /\ fill \in [Procs -> Fills]

LocksDisjoint == \A p, q \in Procs : p # q => Locks(p) \cap Locks(q) = {}

LEMMA TypeParts == TypeOK <=> TablesOK /\ HandlersOK /\ CacheOK /\ LocksDisjoint
  BY DEF TypeOK, TablesOK, HandlersOK, CacheOK, LocksDisjoint, Jobs, Fills

OneActiveLease ==
  \A l, m \in LeaseIds :
    lease[l] = "ACTIVE" /\ lease[m] = "ACTIVE" /\ UnitOf[l] = UnitOf[m] => l = m

\* The steps at which a handler works on one lease.
LeaseSteps ==
  {"InsertLease", "ActivateUnit", "ActivateWrite", "TerminateUnit", "MoveLease",
   "UpdateSave", "UpdateLease"}

\* What handler q found when it took its locks is still so.
Holds(q) ==
  /\ pc[q] \in LeaseSteps => job[q].lease \in LeaseIds
  /\ pc[q] \in {"InsertLease", "ActivateWrite"} => unit[UnitOf[job[q].lease]] = "AVAILABLE"
  /\ pc[q] = "InsertLease" => lease[job[q].lease] = "NONE"
  /\ pc[q] \in {"ActivateUnit", "ActivateWrite"} => lease[job[q].lease] = "PENDING"
  /\ pc[q] \in {"TerminateUnit", "MoveLease"} => lease[job[q].lease] = "ACTIVE"
  /\ pc[q] \in {"UpdateSave", "UpdateLease"} => lease[job[q].lease] # "NONE"
  /\ pc[q] \in {"LockLeases", "LockRequests"} =>
       job[q].rows \subseteq LeaseIds /\ \A l \in job[q].rows : lease[l] = "PENDING"
  /\ pc[q] = "Sweep" =>
       /\ \A l \in LeaseIds \cap job[q].rows : lease[l] = "ACTIVE"
       /\ \A u \in UnitIds \cap job[q].rows :
            unit[u] = "RENTED" /\ \E l \in LeaseIds \cap job[q].rows : UnitOf[l] = u
  /\ pc[q] = "ApproveUnit" => job[q].request \in RequestIds
  /\ \A r \in RequestIds \cap Locks(q) : request[r] = "PENDING"
  /\ pc[q] \in {"DeleteUnit", "SaveUnit"} => job[q].unit \in UnitIds
  /\ pc[q] = "DeleteUnit" =>
       unit[job[q].unit] \in {"AVAILABLE", "MAINTENANCE"} /\ NoHistory(job[q].unit)
  /\ pc[q] = "SaveUnit" => job[q].status \in UnitStatus \ {"GONE"}
  /\ pc[q] = "Store" => fill[q].key \in Keys

PipelineInv ==
  TypeOK /\ (\A q \in Procs : Holds(q)) /\ OneActiveLease /\ RemovedUnitsHaveNoHistory

-----------------------------------------------------------------------------
(* Helpers. *)

LEMMA NoJobOK == NoJob \in Jobs
  BY DEF NoJob, Jobs

\* The handler q moves, the others stay where they are and keep their locks.
LEMMA GotoMoves ==
  ASSUME HandlersOK, NEW q \in Procs, NEW step, NEW j, Goto(q, step, j)
  PROVE  /\ pc'[q] = step /\ job'[q] = j
         /\ \A p \in Procs \ {q} :
              pc'[p] = pc[p] /\ job'[p] = job[p] /\ Locks(p)' = Locks(p)
  BY DEF HandlersOK, Goto, Locks

LEMMA GotoOK ==
  ASSUME HandlersOK, NEW q \in Procs, NEW step \in Steps, NEW j \in Jobs, Goto(q, step, j)
  PROVE  HandlersOK'
  BY DEF HandlersOK, Goto

\* Locks stay exclusive if q adds to its own only rows that were free.
LEMMA LocksStep ==
  ASSUME HandlersOK, LocksDisjoint, NEW q \in Procs, NEW step, NEW j, Goto(q, step, j),
         \A row \in Locks(q)' \ Locks(q) : Free(q, row)
  PROVE  LocksDisjoint'
<1>1. \A p \in Procs \ {q} : Locks(p)' = Locks(p) /\ Locks(p) \cap Locks(q)' = {}
  BY GotoMoves DEF LocksDisjoint, Free
<1> QED
  BY <1>1 DEF LocksDisjoint

\* The steps at which a handler holds no lock.
Unlocked == {"idle", "UpdateSave", "SaveUnit", "Invalidate", "Store"}

LEMMA LocksAre ==
  ASSUME NEW q \in Procs
  PROVE  /\ pc[q] \in {"ActivateUnit", "TerminateUnit", "MoveLease", "UpdateLease"} =>
              Locks(q) = {job[q].lease}
         /\ pc[q] = "ActivateWrite" => Locks(q) = {job[q].lease, UnitOf[job[q].lease]}
         /\ pc[q] = "ApproveUnit" => Locks(q) = {job[q].request}
         /\ pc[q] = "InsertLease" =>
              Locks(q) = {job[q].request, UnitOf[job[q].lease]} \ {None}
         /\ pc[q] = "DeleteUnit" => Locks(q) = {job[q].unit}
         /\ pc[q] \in {"LockLeases", "LockRequests", "Sweep"} => Locks(q) = job[q].rows
         /\ pc[q] \in Unlocked => Locks(q) = {}
  BY DEF Locks, Unlocked

\* What q has locked once it has moved.
LEMMA NewLocks ==
  ASSUME HandlersOK, NEW q \in Procs, NEW step, NEW j, Goto(q, step, j)
  PROVE  /\ step \in {"ActivateUnit", "TerminateUnit", "MoveLease", "UpdateLease"} =>
              Locks(q)' = {j.lease}
         /\ step = "ActivateWrite" => Locks(q)' = {j.lease, UnitOf[j.lease]}
         /\ step = "ApproveUnit" => Locks(q)' = {j.request}
         /\ step = "InsertLease" => Locks(q)' = {j.request, UnitOf[j.lease]} \ {None}
         /\ step = "DeleteUnit" => Locks(q)' = {j.unit}
         /\ step \in {"LockLeases", "LockRequests", "Sweep"} => Locks(q)' = j.rows
         /\ step \in Unlocked => Locks(q)' = {}
<1>1. pc'[q] = step /\ job'[q] = j
  BY GotoMoves
<1> QED
  BY <1>1 DEF Locks, Unlocked

\* A handler that goes on without a lock.
LEMMA ReleaseOK ==
  ASSUME HandlersOK, LocksDisjoint, NEW q \in Procs,
         NEW step \in Unlocked, NEW j \in Jobs, Goto(q, step, j)
  PROVE  HandlersOK' /\ LocksDisjoint'
  BY GotoOK, NewLocks, LocksStep DEF Steps, Unlocked

LEMMA ReturnOK ==
  ASSUME HandlersOK, LocksDisjoint, NEW q \in Procs, Return(q)
  PROVE  HandlersOK' /\ LocksDisjoint'
  BY NoJobOK, ReleaseOK DEF Return, Unlocked

LEMMA CommitOK ==
  ASSUME HandlersOK, LocksDisjoint, NEW q \in Procs, CommitAndInvalidate(q)
  PROVE  HandlersOK' /\ LocksDisjoint'
<1>1. [NoJob EXCEPT !.keys = Keys] \in Jobs
  BY DEF NoJob, Jobs
<1> QED
  BY <1>1, ReleaseOK DEF CommitAndInvalidate, Unlocked

LEMMA StayOK ==
  ASSUME HandlersOK, LocksDisjoint, UNCHANGED <<pc, job>>
  PROVE  /\ HandlersOK' /\ LocksDisjoint'
         /\ \A p \in Procs : Locks(p)' = Locks(p)
<1>1. \A p \in Procs : Locks(p)' = Locks(p)
  BY DEF Locks
<1> QED
  BY <1>1 DEF HandlersOK, LocksDisjoint

\* A handler that goes on with one lease locked, which was free.
LEMMA TakeLeaseOK ==
  ASSUME HandlersOK, LocksDisjoint, NEW q \in Procs, NEW l \in LeaseIds, Free(q, l),
         NEW step \in {"ActivateUnit", "TerminateUnit", "MoveLease"},
         Goto(q, step, [NoJob EXCEPT !.lease = l])
  PROVE  /\ HandlersOK' /\ LocksDisjoint'
         /\ pc'[q] = step /\ job'[q].lease = l /\ Locks(q)' = {l}
<1> DEFINE j == [NoJob EXCEPT !.lease = l]
<1>1. j \in Jobs /\ j.lease = l
  BY DEF NoJob, Jobs
<1>2. Goto(q, step, j)
  OBVIOUS
<1> HIDE DEF j
<1>3. Locks(q)' = {l} /\ pc'[q] = step /\ job'[q].lease = l
  BY <1>1, <1>2, NewLocks, GotoMoves
<1>4. LocksDisjoint'
  BY <1>2, <1>3, LocksStep
<1> QED
  BY <1>1, <1>2, <1>3, <1>4, GotoOK DEF Steps

-----------------------------------------------------------------------------
(* A transaction writes only what it has locked. *)

\* A step of q leaves alone the rows that others have locked, and inserts one
\* only while nobody else holds its unit.  No row disappears.
Respects(q) ==
  /\ \A u \in UnitIds : unit'[u] # unit[u] => Free(q, u)
  /\ \A l \in LeaseIds :
       /\ lease'[l] # lease[l] => Free(q, IF lease[l] = "NONE" THEN UnitOf[l] ELSE l)
       /\ lease[l] # "NONE" => lease'[l] # "NONE"
  /\ \A r \in RequestIds :
       request'[r] # request[r] =>
         IF request[r] = "NONE" THEN KeyFree(q, UnitOf[r]) ELSE Free(q, r)

LEMMA OwnLocksFree ==
  ASSUME LocksDisjoint, NEW q \in Procs, NEW row \in Locks(q)
  PROVE  Free(q, row)
  BY DEF LocksDisjoint, Free

LEMMA InsertLeaseRespects ==
  ASSUME PipelineInv, NEW q \in Procs, InsertLease(q)
  PROVE  Respects(q)
<1> DEFINE u == UnitOf[job[q].lease]
<1>1. Holds(q) /\ LocksDisjoint /\ TablesOK /\ HandlersOK
  BY TypeParts DEF PipelineInv
<1>2. {u, job[q].request} \ {None} \subseteq Locks(q)
  BY LocksAre DEF InsertLease
<1>3. job[q].lease \in LeaseIds /\ lease[job[q].lease] = "NONE" /\ u \in UnitIds
  BY <1>1, UnitOfAssumption DEF InsertLease, Holds, LeaseSteps
<1>4. Free(q, u)
  BY <1>1, <1>2, <1>3, OwnLocksFree, RowsAssumption
<1>5. \A l \in LeaseIds :
        /\ l # job[q].lease => lease'[l] = lease[l]
        /\ l = job[q].lease => lease'[l] = "PENDING"
  BY <1>1, <1>3 DEF InsertLease, TablesOK
<1>6. \A r \in RequestIds : request'[r] # request[r] => r = job[q].request
  BY DEF InsertLease
<1>7. job[q].request \in RequestIds =>
        Free(q, job[q].request) /\ request[job[q].request] = "PENDING"
  <2> SUFFICES ASSUME job[q].request \in RequestIds
               PROVE  Free(q, job[q].request) /\ request[job[q].request] = "PENDING"
    OBVIOUS
  <2>1. job[q].request \in Locks(q)
    BY <1>2, RowsAssumption
  <2> QED
    BY <1>1, <2>1, OwnLocksFree DEF Holds
<1>8. UNCHANGED unit
  BY DEF InsertLease
<1> HIDE DEF u
<1>9. Free(q, UnitOf[job[q].lease])
  BY <1>4 DEF u
<1> QED
  BY <1>3, <1>5, <1>6, <1>7, <1>8, <1>9 DEF Respects

\* A handler that writes its lease, and its unit if that is free.
LEMMA WriteRespects ==
  ASSUME TablesOK, NEW q \in Procs, NEW l \in LeaseIds, Free(q, l), lease[l] # "NONE",
         NEW s, s # "NONE", lease' = [lease EXCEPT ![l] = s], UNCHANGED request,
         \A u \in UnitIds : unit'[u] # unit[u] => Free(q, u)
  PROVE  Respects(q)
  BY DEF Respects, TablesOK

\* A handler at its last step has locked its lease.
LEMMA LeaseLocked ==
  ASSUME HandlersOK, LocksDisjoint, NEW q \in Procs, Holds(q),
         pc[q] \in {"ActivateWrite", "TerminateUnit", "UpdateLease"}
  PROVE  /\ job[q].lease \in LeaseIds /\ Free(q, job[q].lease)
         /\ lease[job[q].lease] # "NONE"
         /\ UnitOf[job[q].lease] \in UnitIds
         /\ pc[q] = "ActivateWrite" => Free(q, UnitOf[job[q].lease])
<1>1. job[q].lease \in LeaseIds /\ lease[job[q].lease] # "NONE"
  BY DEF Holds, LeaseSteps
<1>2. job[q].lease \in Locks(q)
      /\ (pc[q] = "ActivateWrite" => UnitOf[job[q].lease] \in Locks(q))
  BY LocksAre
<1> QED
  BY <1>1, <1>2, OwnLocksFree, UnitOfAssumption

LEMMA TransactionRespects ==
  ASSUME PipelineInv, NEW q \in Procs, Transaction(q)
  PROVE  Respects(q)
<1>1. Holds(q) /\ LocksDisjoint /\ TablesOK /\ HandlersOK
  BY TypeParts DEF PipelineInv
<1>2. CASE UNCHANGED tables
  BY <1>2 DEF Respects, tables
<1>3. CASE ActivateWrite(q)
  <2>1. \A u \in UnitIds : unit'[u] # unit[u] => u = UnitOf[job[q].lease]
    BY <1>1, <1>3 DEF ActivateWrite, TablesOK
  <2> QED
    BY <1>1, <1>3, <2>1, LeaseLocked, WriteRespects DEF ActivateWrite
<1>4. CASE TerminateLease(q)
  <2>1. CASE UNCHANGED lease
    BY <1>4, <2>1 DEF TerminateLease, Respects
  <2>2. CASE ~ UNCHANGED lease
    <3>1. PICK l \in LeaseIds :
            Free(q, l) /\ lease[l] \in {"PENDING", "ACTIVE"}
            /\ lease' = [lease EXCEPT ![l] = "TERMINATED"]
      BY <1>4, <2>2 DEF TerminateLease
    <3> QED
      BY <1>1, <1>4, <3>1, WriteRespects DEF TerminateLease
  <2> QED
    BY <2>1, <2>2
<1>5. CASE TerminateUnit(q)
  <2>1. \A u \in UnitIds : unit'[u] # unit[u] => u = UnitOf[job[q].lease]
    BY <1>1, <1>5 DEF TerminateUnit, TablesOK
  <2> QED
    BY <1>1, <1>5, <2>1, LeaseLocked, WriteRespects DEF TerminateUnit
<1>6. CASE UpdateLease(q)
  <2>1. CASE UNCHANGED lease
    BY <1>6, <2>1 DEF UpdateLease, Respects
  <2>2. CASE lease' = [lease EXCEPT ![job[q].lease] = "PENDING"]
    BY <1>1, <1>6, <2>2, LeaseLocked, WriteRespects DEF UpdateLease
  <2> QED
    BY <1>6, <2>1, <2>2 DEF UpdateLease
<1>7. CASE SweepCommit(q)
  <2>1. \A row \in job[q].rows : Free(q, row)
    BY <1>1, <1>7, LocksAre, OwnLocksFree DEF SweepCommit
  <2>2. \A l \in LeaseIds \cap job[q].rows : lease[l] = "ACTIVE"
    BY <1>1, <1>7 DEF SweepCommit, Holds
  <2> QED
    BY <1>7, <2>1, <2>2 DEF SweepCommit, Respects
<1>8. CASE RequestRental(q)
  BY <1>1, <1>8 DEF RequestRental, UnitReferable, Respects, TablesOK
<1>9. CASE CloseRequest(q)
  BY <1>1, <1>9 DEF CloseRequest, PendingRequests, Respects, TablesOK
<1>10. CASE LockRequests(q)
  <2>1. \A r \in PendingRequests : Free(q, r)
    BY <1>10 DEF LockRequests, Blockers, Wants, Free
  <2>2. \A l \in LeaseIds :
          lease'[l] # lease[l] => l \in Locks(q) /\ lease[l] = "PENDING" /\ lease'[l] # "NONE"
    BY <1>1, <1>10, LocksAre DEF LockRequests, Holds
  <2>3. \A r \in RequestIds : request'[r] # request[r] => r \in PendingRequests
    BY <1>10 DEF LockRequests
  <2> QED
    BY <1>1, <1>10, <2>1, <2>2, <2>3, OwnLocksFree
       DEF LockRequests, PendingRequests, Respects
<1>11. CASE DeleteUnit(q)
  <2>1. job[q].unit \in Locks(q)
    BY <1>11, LocksAre DEF DeleteUnit
  <2>2. \A u \in UnitIds : unit'[u] # unit[u] => u = job[q].unit
    BY <1>1, <1>11 DEF DeleteUnit, TablesOK
  <2> QED
    BY <1>1, <1>11, <2>1, <2>2, OwnLocksFree DEF DeleteUnit, Respects
<1>12. CASE SaveUnit(q)
  BY <1>1, <1>12 DEF SaveUnit, Respects, TablesOK
<1>13. CASE InsertLease(q)
  BY <1>13, InsertLeaseRespects
<1> QED
  BY <1>2, <1>3, <1>4, <1>5, <1>6, <1>7, <1>8, <1>9, <1>10, <1>11, <1>12, <1>13
     DEF Transaction, CreateLease, ActivateLease, ActivateUnit, MoveBegin, MoveLease,
         UpdateRead, UpdateSave, SweepFind, SweepRow, ApproveRequest, ApproveUnit,
         RemoveProperty, LockLeases, RemoveUnit, UnitRead

-----------------------------------------------------------------------------
(* A transaction keeps the types and what it found itself. *)

\* A handler that is through relies on nothing.
LEMMA NothingHeld ==
  ASSUME NEW q \in Procs, pc'[q] \in {"idle", "Invalidate"}
  PROVE  Holds(q)'
<1>1. Locks(q)' = {}
  BY DEF Locks
<1> QED
  BY <1>1 DEF Holds, LeaseSteps

LEMMA HandlerReturns ==
  ASSUME HandlersOK, LocksDisjoint, NEW q \in Procs, Return(q) \/ CommitAndInvalidate(q)
  PROVE  HandlersOK' /\ LocksDisjoint' /\ Holds(q)'
<1>1. pc'[q] \in {"idle", "Invalidate"}
  BY GotoMoves DEF Return, CommitAndInvalidate
<1> QED
  BY <1>1, NothingHeld, ReturnOK, CommitOK

Kept(q) == TablesOK' /\ HandlersOK' /\ LocksDisjoint' /\ Holds(q)'

\* A handler goes on with one lease that it has locked.
LEMMA TakeLeaseKept ==
  ASSUME TablesOK, HandlersOK, LocksDisjoint, NEW q \in Procs, NEW l \in LeaseIds, Free(q, l),
         NEW step, UNCHANGED tables,
         \/ step = "ActivateUnit" /\ lease[l] = "PENDING"
         \/ step \in {"TerminateUnit", "MoveLease"} /\ lease[l] = "ACTIVE",
         Goto(q, step, [NoJob EXCEPT !.lease = l])
  PROVE  Kept(q)
<1>1. /\ HandlersOK' /\ LocksDisjoint'
      /\ pc'[q] = step /\ job'[q].lease = l /\ Locks(q)' = {l}
  BY TakeLeaseOK
<1>2. TablesOK' /\ lease' = lease
  BY DEF TablesOK, tables
<1>3. RequestIds \cap Locks(q)' = {}
  BY <1>1, RowsAssumption
<1>4. Holds(q)'
  BY <1>1, <1>2, <1>3 DEF Holds, LeaseSteps
<1> QED
  BY <1>1, <1>2, <1>4 DEF Kept

LEMMA LeaseStepKept ==
  ASSUME TablesOK, HandlersOK, LocksDisjoint, NEW q \in Procs, Holds(q),
         \/ ActivateLease(q) \/ ActivateWrite(q) \/ TerminateLease(q) \/ TerminateUnit(q)
         \/ MoveBegin(q) \/ MoveLease(q)
  PROVE  Kept(q)
<1>1. CASE ActivateLease(q)
  BY <1>1, TakeLeaseKept DEF ActivateLease, Pending
<1>2. CASE ActivateWrite(q)
  BY <1>2, HandlerReturns DEF ActivateWrite, Kept, TablesOK, LeaseStatus, UnitStatus
<1>3. CASE TerminateLease(q)
  <2>1. PICK l \in LeaseIds :
          /\ Free(q, l)
          /\ IF FreesUnit(l)
               THEN Goto(q, "TerminateUnit", [NoJob EXCEPT !.lease = l]) /\ UNCHANGED lease
               ELSE lease' = [lease EXCEPT ![l] = "TERMINATED"] /\ CommitAndInvalidate(q)
    BY <1>3 DEF TerminateLease
  <2>2. CASE FreesUnit(l)
    BY <1>3, <2>1, <2>2, TakeLeaseKept DEF TerminateLease, FreesUnit, tables
  <2>3. CASE ~ FreesUnit(l)
    BY <1>3, <2>1, <2>3, HandlerReturns DEF TerminateLease, Kept, TablesOK, LeaseStatus
  <2> QED
    BY <2>2, <2>3
<1>4. CASE TerminateUnit(q)
  BY <1>4, HandlerReturns DEF TerminateUnit, Kept, TablesOK, LeaseStatus, UnitStatus
<1>5. CASE MoveBegin(q)
  BY <1>5, TakeLeaseKept DEF MoveBegin
<1>6. CASE MoveLease(q)
  BY <1>6, HandlerReturns DEF MoveLease, Kept, TablesOK, tables
<1> QED
  BY <1>1, <1>2, <1>3, <1>4, <1>5, <1>6

\* A handler that has read a row and not locked it.
LEMMA ReadKept ==
  ASSUME TablesOK, HandlersOK, LocksDisjoint, NEW q \in Procs, NEW j \in Jobs,
         NEW step, Goto(q, step, j), UNCHANGED tables,
         \/ /\ step = "UpdateSave"
            /\ j.lease \in LeaseIds /\ lease[j.lease] # "NONE"
         \/ /\ step = "SaveUnit"
            /\ j.unit \in UnitIds /\ j.status \in UnitStatus \ {"GONE"}
  PROVE  Kept(q)
<1>1. step \in Unlocked
  BY DEF Unlocked
<1>2. HandlersOK' /\ LocksDisjoint' /\ pc'[q] = step /\ job'[q] = j /\ Locks(q)' = {}
  BY <1>1, ReleaseOK, GotoMoves, NewLocks
<1>3. TablesOK' /\ Holds(q)'
  BY <1>2 DEF tables, TablesOK, Holds, LeaseSteps
<1> QED
  BY <1>2, <1>3 DEF Kept

LEMMA UpdateKept ==
  ASSUME TablesOK, HandlersOK, LocksDisjoint, NEW q \in Procs, Holds(q),
         UpdateRead(q) \/ UpdateSave(q) \/ UpdateLease(q)
  PROVE  Kept(q)
<1>1. CASE UpdateRead(q)
  <2>1. PICK l \in Pending(LeaseIds) : Goto(q, "UpdateSave", [NoJob EXCEPT !.lease = l])
    BY <1>1 DEF UpdateRead
  <2> DEFINE j == [NoJob EXCEPT !.lease = l]
  <2>2. j \in Jobs /\ j.lease = l /\ l \in LeaseIds /\ lease[l] = "PENDING"
    BY DEF NoJob, Jobs, Pending
  <2>3. Goto(q, "UpdateSave", j)
    BY <2>1
  <2> HIDE DEF j
  <2> QED
    BY <1>1, <2>2, <2>3, ReadKept DEF UpdateRead
<1>2. CASE UpdateSave(q)
  <2>1. /\ pc'[q] = "UpdateLease" /\ job'[q] = job[q] /\ job[q] \in Jobs
        /\ Locks(q)' = {job[q].lease}
    BY <1>2, GotoMoves, NewLocks DEF UpdateSave, HandlersOK
  <2>2. HandlersOK' /\ LocksDisjoint'
    BY <1>2, <2>1, GotoOK, LocksStep DEF UpdateSave, Steps
  <2>3. job[q].lease \in LeaseIds /\ lease[job[q].lease] # "NONE"
    BY <1>2 DEF UpdateSave, Holds, LeaseSteps
  <2>4. RequestIds \cap Locks(q)' = {}
    BY <2>1, <2>3, RowsAssumption
  <2>5. TablesOK' /\ Holds(q)'
    BY <1>2, <2>1, <2>3, <2>4 DEF UpdateSave, tables, TablesOK, Holds, LeaseSteps
  <2> QED
    BY <2>2, <2>5 DEF Kept
<1>3. CASE UpdateLease(q)
  BY <1>3, HandlerReturns DEF UpdateLease, Kept, TablesOK, LeaseStatus
<1> QED
  BY <1>1, <1>2, <1>3

LEMMA SweepKept ==
  ASSUME TablesOK, HandlersOK, LocksDisjoint, NEW q \in Procs, Holds(q),
         SweepFind(q) \/ SweepRow(q) \/ SweepCommit(q)
  PROVE  Kept(q)
\* The rows locked by a sweep that goes on.
<1>1. ASSUME NEW j \in Jobs, Goto(q, "Sweep", j), UNCHANGED tables,
             \A l \in LeaseIds \cap j.rows : lease[l] = "ACTIVE",
             \A u \in UnitIds \cap j.rows :
               unit[u] = "RENTED" /\ \E l \in LeaseIds \cap j.rows : UnitOf[l] = u,
             \A row \in j.rows \ Locks(q) : Free(q, row)
      PROVE  Kept(q)
  <2>1. /\ pc'[q] = "Sweep" /\ job'[q] = j /\ Locks(q)' = j.rows
        /\ j.rows \subseteq LeaseIds \cup UnitIds
    BY <1>1, GotoMoves, NewLocks DEF Jobs
  <2>2. HandlersOK' /\ LocksDisjoint'
    BY <1>1, <2>1, GotoOK, LocksStep DEF Steps
  <2>3. TablesOK' /\ Holds(q)'
    BY <1>1, <2>1, RowsAssumption DEF tables, TablesOK, Holds, LeaseSteps
  <2> QED
    BY <2>2, <2>3 DEF Kept
<1>2. CASE SweepFind(q)
  <2>1. PICK due \in SUBSET {l \in LeaseIds : lease[l] = "ACTIVE"} :
          LET rented == {u \in UnitIds : unit[u] = "RENTED" /\ \E l \in due : UnitOf[l] = u}
          IN  Goto(q, "Sweep", [NoJob EXCEPT !.todo = due \cup rented])
    BY <1>2 DEF SweepFind
  <2> DEFINE rented == {u \in UnitIds : unit[u] = "RENTED" /\ \E l \in due : UnitOf[l] = u}
             j == [NoJob EXCEPT !.todo = due \cup rented]
  <2>2. due \subseteq LeaseIds /\ rented \subseteq UnitIds
    OBVIOUS
  <2>3. Goto(q, "Sweep", j)
    BY <2>1
  <2> HIDE DEF rented
  <2>4. j \in Jobs /\ j.rows = {}
    BY <2>2 DEF NoJob, Jobs
  <2> HIDE DEF j
  <2> QED
    BY <1>1, <1>2, <2>3, <2>4 DEF SweepFind
<1>3. CASE SweepRow(q)
  <2>1. PICK row \in Wants(q) :
          /\ Free(q, row)
          /\ Goto(q, "Sweep", [job[q] EXCEPT !.rows = @ \cup {row}, !.todo = @ \ {row}])
    BY <1>3 DEF SweepRow
  <2> DEFINE j == [job[q] EXCEPT !.rows = @ \cup {row}, !.todo = @ \ {row}]
  <2>2. /\ job[q] \in Jobs /\ Locks(q) = job[q].rows
        /\ \A l \in LeaseIds \cap job[q].rows : lease[l] = "ACTIVE"
        /\ \A u \in UnitIds \cap job[q].rows :
             unit[u] = "RENTED" /\ \E l \in LeaseIds \cap job[q].rows : UnitOf[l] = u
    BY <1>3, LocksAre DEF SweepRow, HandlersOK, Holds
  <2>3. \/ row \in LeaseIds /\ lease[row] = "ACTIVE"
        \/ /\ row \in UnitIds /\ unit[row] = "RENTED"
           /\ \E l \in LeaseIds \cap job[q].rows : UnitOf[l] = row
    BY <1>3 DEF SweepRow, Wants, SweepWants
  <2>4. j \in Jobs /\ j.rows = job[q].rows \cup {row}
    <3>1. row \in LeaseIds \cup UnitIds
      BY <2>3
    <3>2. job[q] \in Jobs
      BY <2>2
    <3> QED
      BY <3>1, <3>2 DEF Jobs
  <2>5. Goto(q, "Sweep", j)
    BY <2>1
  <2> HIDE DEF j
  <2>6. \A l \in LeaseIds \cap j.rows : lease[l] = "ACTIVE"
    BY <2>2, <2>3, <2>4, RowsAssumption
  <2>7. \A u \in UnitIds \cap j.rows :
          unit[u] = "RENTED" /\ \E l \in LeaseIds \cap j.rows : UnitOf[l] = u
    BY <2>2, <2>3, <2>4, RowsAssumption
  <2> QED
    BY <1>1, <1>3, <2>1, <2>2, <2>4, <2>5, <2>6, <2>7 DEF SweepRow
<1>4. CASE SweepCommit(q)
  <2>1. TablesOK'
    BY <1>4 DEF SweepCommit, TablesOK, LeaseStatus, UnitStatus
  <2> QED
    BY <1>4, <2>1, HandlerReturns DEF SweepCommit, Kept
<1> QED
  BY <1>2, <1>3, <1>4

LEMMA InsertLeaseKept ==
  ASSUME TablesOK, HandlersOK, LocksDisjoint, NEW q \in Procs, Holds(q), InsertLease(q)
  PROVE  Kept(q)
<1>1. TablesOK'
  BY DEF InsertLease, TablesOK, LeaseStatus, RequestStatus
<1> QED
  BY <1>1, HandlerReturns DEF InsertLease, Kept

LEMMA ActivateUnitKept ==
  ASSUME TablesOK, HandlersOK, LocksDisjoint, NEW q \in Procs, Holds(q), ActivateUnit(q)
  PROVE  Kept(q)
<1>1. /\ pc'[q] = "ActivateWrite" /\ job'[q] = job[q] /\ job[q] \in Jobs
      /\ Locks(q) = {job[q].lease}
      /\ Locks(q)' = {job[q].lease, UnitOf[job[q].lease]}
  BY GotoMoves, LocksAre, NewLocks DEF ActivateUnit, HandlersOK
<1>2. HandlersOK' /\ LocksDisjoint'
  BY <1>1, GotoOK, LocksStep DEF ActivateUnit, Steps
<1>3. /\ job[q].lease \in LeaseIds /\ lease[job[q].lease] = "PENDING"
      /\ unit[UnitOf[job[q].lease]] = "AVAILABLE"
  BY DEF ActivateUnit, Holds, LeaseSteps
<1>4. RequestIds \cap Locks(q)' = {}
  BY <1>1, <1>3, RowsAssumption, UnitOfAssumption
<1>5. TablesOK' /\ Holds(q)'
  BY <1>1, <1>3, <1>4 DEF ActivateUnit, tables, TablesOK, Holds, LeaseSteps
<1> QED
  BY <1>2, <1>5 DEF Kept

\* The two ways to an insert: from nothing, or from a request that is locked.
LEMMA InsertNext ==
  ASSUME TablesOK, HandlersOK, LocksDisjoint, NEW q \in Procs, NEW l \in LeaseIds,
         NEW r \in RequestIds \cup {None}, NEW j \in Jobs, j.lease = l, j.request = r,
         lease[l] = "NONE", unit[UnitOf[l]] = "AVAILABLE", Free(q, UnitOf[l]),
         UNCHANGED tables,
         r \in RequestIds => r \in Locks(q) /\ request[r] = "PENDING",
         Goto(q, "InsertLease", j)
  PROVE  Kept(q)
<1>1. /\ pc'[q] = "InsertLease" /\ job'[q] = j
      /\ Locks(q)' = {r, UnitOf[l]} \ {None}
  BY GotoMoves, NewLocks
<1>2. HandlersOK' /\ LocksDisjoint'
  BY <1>1, GotoOK, LocksStep DEF Steps
<1>3. RequestIds \cap Locks(q)' \subseteq {r}
  BY <1>1, RowsAssumption, UnitOfAssumption
<1>4. TablesOK' /\ Holds(q)'
  BY <1>1, <1>3 DEF tables, TablesOK, Holds, LeaseSteps
<1> QED
  BY <1>2, <1>4 DEF Kept

LEMMA CreateLeaseKept ==
  ASSUME TablesOK, HandlersOK, LocksDisjoint, NEW q \in Procs, CreateLease(q)
  PROVE  Kept(q)
<1>1. PICK l \in LeaseIds :
        /\ lease[l] = "NONE"
        /\ Free(q, UnitOf[l]) /\ unit[UnitOf[l]] = "AVAILABLE"
        /\ Goto(q, "InsertLease", [NoJob EXCEPT !.lease = l])
  BY DEF CreateLease
<1> DEFINE j == [NoJob EXCEPT !.lease = l]
<1>2. j \in Jobs /\ j.lease = l /\ j.request = None
  BY DEF NoJob, Jobs
<1>3. Goto(q, "InsertLease", j)
  BY <1>1
<1> HIDE DEF j
<1> QED
  BY <1>1, <1>2, <1>3, InsertNext, RowsAssumption DEF CreateLease

LEMMA ApproveKept ==
  ASSUME TablesOK, HandlersOK, LocksDisjoint, NEW q \in Procs, Holds(q),
         ApproveRequest(q) \/ ApproveUnit(q)
  PROVE  Kept(q)
<1>1. CASE ApproveRequest(q)
  <2>1. PICK r \in RequestIds :
          /\ request[r] = "PENDING" /\ Free(q, r)
          /\ Goto(q, "ApproveUnit", [NoJob EXCEPT !.request = r])
    BY <1>1 DEF ApproveRequest, PendingRequests
  <2> DEFINE j == [NoJob EXCEPT !.request = r]
  <2>2. j \in Jobs /\ j.request = r
    BY DEF NoJob, Jobs
  <2>3. Goto(q, "ApproveUnit", j)
    BY <2>1
  <2> HIDE DEF j
  <2>4. pc'[q] = "ApproveUnit" /\ job'[q].request = r /\ Locks(q)' = {r}
    BY <2>2, <2>3, GotoMoves, NewLocks
  <2>5. HandlersOK' /\ LocksDisjoint'
    BY <2>1, <2>2, <2>3, <2>4, GotoOK, LocksStep DEF Steps
  <2>6. TablesOK' /\ Holds(q)'
    BY <1>1, <2>1, <2>4 DEF ApproveRequest, tables, TablesOK, Holds, LeaseSteps
  <2> QED
    BY <2>5, <2>6 DEF Kept
<1>2. CASE ApproveUnit(q)
  <2>1. PICK l \in LeaseIds :
          /\ lease[l] = "NONE"
          /\ Free(q, UnitOf[l]) /\ unit[UnitOf[l]] = "AVAILABLE"
          /\ Goto(q, "InsertLease", [job[q] EXCEPT !.lease = l])
    BY <1>2 DEF ApproveUnit
  <2> DEFINE j == [job[q] EXCEPT !.lease = l]
          r == job[q].request
  <2>2. j \in Jobs /\ j.lease = l /\ j.request = r /\ r \in RequestIds \cup {None}
    BY DEF HandlersOK, Jobs
  <2>3. Goto(q, "InsertLease", j)
    BY <2>1
  <2>4. Locks(q) = {r}
    BY <1>2, LocksAre DEF ApproveUnit
  <2>5. r \in RequestIds => r \in Locks(q) /\ request[r] = "PENDING"
    BY <2>4 DEF Holds
  <2> HIDE DEF j, r
  <2> QED
    BY <1>2, <2>1, <2>2, <2>3, <2>5, InsertNext DEF ApproveUnit
<1> QED
  BY <1>1, <1>2

LEMMA RemovalKept ==
  ASSUME TablesOK, HandlersOK, LocksDisjoint, NEW q \in Procs, Holds(q),
         RemoveProperty(q) \/ LockLeases(q) \/ LockRequests(q)
  PROVE  Kept(q)
\* The rows locked by a removal that goes on.
<1>1. ASSUME NEW step \in {"LockLeases", "LockRequests"}, NEW j \in Jobs, Goto(q, step, j),
             j.rows \subseteq LeaseIds, \A l \in j.rows : lease[l] = "PENDING",
             \A l \in j.rows \ Locks(q) : Free(q, l),
             UNCHANGED tables
      PROVE  Kept(q)
  <2>1. pc'[q] = step /\ job'[q] = j /\ Locks(q)' = j.rows
    BY <1>1, GotoMoves, NewLocks
  <2>2. HandlersOK' /\ LocksDisjoint'
    BY <1>1, <2>1, GotoOK, LocksStep DEF Steps
  <2>3. TablesOK' /\ Holds(q)'
    BY <1>1, <2>1, RowsAssumption DEF tables, TablesOK, Holds, LeaseSteps
  <2> QED
    BY <2>2, <2>3 DEF Kept
<1>2. CASE RemoveProperty(q)
  <2> DEFINE j == [NoJob EXCEPT !.todo = Pending(LeaseIds)]
  <2>1. j \in Jobs /\ j.rows = {}
    BY DEF NoJob, Jobs, Pending
  <2>2. Goto(q, "LockLeases", j) /\ UNCHANGED tables
    BY <1>2 DEF RemoveProperty
  <2> HIDE DEF j
  <2> QED
    BY <1>1, <2>1, <2>2
<1>3. CASE LockLeases(q)
  <2>1. /\ Locks(q) = job[q].rows /\ job[q] \in Jobs
        /\ job[q].rows \subseteq LeaseIds /\ \A l \in job[q].rows : lease[l] = "PENDING"
    BY <1>3, LocksAre DEF LockLeases, HandlersOK, Holds
  <2>2. CASE Goto(q, "LockRequests", [job[q] EXCEPT !.todo = {}])
    <3> DEFINE j == [job[q] EXCEPT !.todo = {}]
    <3>1. j \in Jobs /\ j.rows = job[q].rows
      BY <2>1 DEF Jobs
    <3>2. Goto(q, "LockRequests", j)
      BY <2>2
    <3> HIDE DEF j
    <3> QED
      BY <1>1, <1>3, <2>1, <3>1, <3>2 DEF LockLeases
  <2>3. ASSUME NEW l \in Wants(q), Free(q, l),
               Goto(q, "LockLeases", [job[q] EXCEPT !.rows = @ \cup {l}, !.todo = @ \ {l}])
        PROVE  Kept(q)
    <3> DEFINE j == [job[q] EXCEPT !.rows = @ \cup {l}, !.todo = @ \ {l}]
    <3>1. l \in LeaseIds /\ lease[l] = "PENDING"
      BY <1>3, <2>3 DEF LockLeases, Wants, Pending
    <3>2. j \in Jobs /\ j.rows = job[q].rows \cup {l}
      BY <2>1, <3>1 DEF Jobs
    <3>3. Goto(q, "LockLeases", j)
      BY <2>3
    <3> HIDE DEF j
    <3> QED
      BY <1>1, <1>3, <2>1, <2>3, <3>1, <3>2, <3>3 DEF LockLeases
  <2> QED
    BY <1>3, <2>2, <2>3 DEF LockLeases
<1>4. CASE LockRequests(q)
  BY <1>4, HandlerReturns DEF LockRequests, Kept, TablesOK, LeaseStatus, RequestStatus
<1> QED
  BY <1>2, <1>3, <1>4

LEMMA OtherKept ==
  ASSUME TablesOK, HandlersOK, LocksDisjoint, NEW q \in Procs, Holds(q),
         \/ RequestRental(q) \/ CloseRequest(q)
         \/ RemoveUnit(q) \/ DeleteUnit(q) \/ UnitRead(q) \/ SaveUnit(q)
  PROVE  Kept(q)
<1>1. CASE RequestRental(q) \/ CloseRequest(q)
  <2>1. HandlersOK' /\ LocksDisjoint' /\ Holds(q)'
    BY <1>1, StayOK, NothingHeld DEF RequestRental, CloseRequest
  <2>2. TablesOK'
    BY <1>1 DEF RequestRental, CloseRequest, TablesOK, RequestStatus
  <2> QED
    BY <2>1, <2>2 DEF Kept
<1>2. CASE RemoveUnit(q)
  <2>1. PICK u \in UnitIds :
          /\ Free(q, u) /\ unit[u] \in {"AVAILABLE", "MAINTENANCE"} /\ NoHistory(u)
          /\ Goto(q, "DeleteUnit", [NoJob EXCEPT !.unit = u])
    BY <1>2 DEF RemoveUnit
  <2> DEFINE j == [NoJob EXCEPT !.unit = u]
  <2>2. j \in Jobs /\ j.unit = u
    BY DEF NoJob, Jobs
  <2>3. Goto(q, "DeleteUnit", j)
    BY <2>1
  <2> HIDE DEF j
  <2>4. pc'[q] = "DeleteUnit" /\ job'[q] = j /\ Locks(q)' = {u}
    BY <2>2, <2>3, GotoMoves, NewLocks
  <2>5. HandlersOK' /\ LocksDisjoint'
    BY <2>1, <2>2, <2>3, <2>4, GotoOK, LocksStep DEF Steps
  <2>6. TablesOK' /\ Holds(q)'
    BY <1>2, <2>1, <2>2, <2>4, RowsAssumption
       DEF RemoveUnit, tables, TablesOK, Holds, LeaseSteps, NoHistory
  <2> QED
    BY <2>5, <2>6 DEF Kept
<1>3. CASE DeleteUnit(q)
  BY <1>3, HandlerReturns DEF DeleteUnit, Kept, TablesOK, UnitStatus
<1>4. CASE UnitRead(q)
  <2>1. \E u \in UnitIds : \E t \in SavedStatus(unit[u]) :
          Goto(q, "SaveUnit", [NoJob EXCEPT !.unit = u, !.status = t])
    BY <1>4 DEF UnitRead
  <2>2. PICK u \in UnitIds, t \in UnitStatus \ {"GONE"} :
          Goto(q, "SaveUnit", [NoJob EXCEPT !.unit = u, !.status = t])
    BY <2>1 DEF SavedStatus, UnitStatus
  <2> DEFINE j == [NoJob EXCEPT !.unit = u, !.status = t]
  <2>3. j \in Jobs /\ j.unit = u /\ j.status = t
    BY DEF NoJob, Jobs
  <2>4. Goto(q, "SaveUnit", j)
    BY <2>2
  <2> HIDE DEF j
  <2> QED
    BY <1>4, <2>3, <2>4, ReadKept DEF UnitRead
<1>5. CASE SaveUnit(q)
  <2>1. job[q].status \in UnitStatus
    BY <1>5 DEF SaveUnit, Holds
  <2>2. TablesOK'
    BY <1>5, <2>1 DEF SaveUnit, TablesOK
  <2> QED
    BY <1>5, <2>2, HandlerReturns DEF SaveUnit, Kept
<1> QED
  BY <1>1, <1>2, <1>3, <1>4, <1>5

LEMMA TransactionKept ==
  ASSUME TablesOK, HandlersOK, LocksDisjoint, NEW q \in Procs, Holds(q), Transaction(q)
  PROVE  Kept(q)
  BY LeaseStepKept, UpdateKept, SweepKept, InsertLeaseKept, ActivateUnitKept,
     CreateLeaseKept, ApproveKept, RemovalKept, OtherKept DEF Transaction

-----------------------------------------------------------------------------
(* The invariant. *)

\* What another handler relies on survives a step that respects its locks.
LEMMA OthersHold ==
  ASSUME TablesOK, HandlersOK, NEW q \in Procs, Respects(q),
         NEW p \in Procs \ {q}, Holds(p),
         pc'[p] = pc[p], job'[p] = job[p], Locks(p)' = Locks(p), fill'[p].key = fill[p].key
  PROVE  Holds(p)'
<1>1. \A row \in Locks(p) : ~ Free(q, row)
  BY DEF Free
<1>2. \A u \in UnitIds \cap Locks(p) :
        /\ unit'[u] = unit[u]
        /\ \A l \in LeaseIds : UnitOf[l] = u /\ lease[l] = "NONE" => lease'[l] = "NONE"
  BY <1>1 DEF Respects
<1>3. \A l \in LeaseIds \cap Locks(p) : lease[l] # "NONE" => lease'[l] = lease[l]
  BY <1>1 DEF Respects
<1>4. \A r \in RequestIds \cap Locks(p) : request[r] = "PENDING" => request'[r] = "PENDING"
  BY <1>1 DEF Respects
<1>5. CASE pc[p] \in {"InsertLease", "ActivateWrite"}
  <2>1. /\ job[p].lease \in LeaseIds /\ UnitOf[job[p].lease] \in UnitIds \cap Locks(p)
        /\ pc[p] = "ActivateWrite" => job[p].lease \in Locks(p)
    BY <1>5, LocksAre, RowsAssumption, UnitOfAssumption DEF Holds, LeaseSteps
  <2> QED
    BY <1>2, <1>3, <1>4, <1>5, <2>1 DEF Holds, LeaseSteps
<1>6. CASE pc[p] = "DeleteUnit"
  <2>1. job[p].unit \in UnitIds \cap Locks(p)
    BY <1>6, LocksAre DEF Holds
  <2>2. \A r \in RequestIds :
          UnitOf[r] = job[p].unit /\ request[r] = "NONE" => request'[r] = "NONE"
    BY <1>6, <2>1 DEF Respects, KeyFree
  <2> QED
    BY <1>2, <1>4, <1>6, <2>1, <2>2 DEF Holds, LeaseSteps, NoHistory
<1>7. CASE pc[p] \in {"ActivateUnit", "TerminateUnit", "MoveLease", "UpdateLease"}
  <2>1. job[p].lease \in LeaseIds \cap Locks(p)
    BY <1>7, LocksAre DEF Holds, LeaseSteps
  <2> QED
    BY <1>3, <1>4, <1>7, <2>1 DEF Holds, LeaseSteps
<1>8. CASE pc[p] \in {"LockLeases", "LockRequests", "Sweep"}
  <2>1. Locks(p) = job[p].rows
    BY <1>8, LocksAre
  <2> QED
    BY <1>2, <1>3, <1>4, <1>8, <2>1 DEF Holds, LeaseSteps
<1>9. CASE pc[p] = "UpdateSave"
  BY <1>4, <1>9 DEF Holds, LeaseSteps, Respects
<1>10. CASE pc[p] \in {"idle", "SaveUnit", "Invalidate", "Store", "ApproveUnit"}
  BY <1>4, <1>10 DEF Holds, LeaseSteps
<1> QED
  BY <1>5, <1>6, <1>7, <1>8, <1>9, <1>10 DEF HandlersOK, Steps

\* Only an activation makes a lease ACTIVE, and it looks at the others.
LEMMA ActiveStep ==
  ASSUME PipelineInv, NEW q \in Procs, Transaction(q)
  PROVE  OneActiveLease'
<1>1. Holds(q) /\ TablesOK /\ OneActiveLease
  BY TypeParts DEF PipelineInv
<1>2. CASE ActivateWrite(q)
  BY <1>1, <1>2 DEF ActivateWrite, OneActiveLease, TablesOK
<1>3. CASE \A l \in LeaseIds : lease'[l] = "ACTIVE" => lease[l] = "ACTIVE"
  BY <1>1, <1>3 DEF OneActiveLease
<1>4. CASE UNCHANGED lease
  BY <1>3, <1>4
<1>5. CASE InsertLease(q) \/ TerminateUnit(q) \/ LockRequests(q) \/ SweepCommit(q)
  BY <1>1, <1>3, <1>5
     DEF InsertLease, TerminateUnit, LockRequests, SweepCommit, TablesOK
<1>6. CASE TerminateLease(q) \/ UpdateLease(q)
  BY <1>1, <1>3, <1>6 DEF TerminateLease, UpdateLease, TablesOK
<1> QED
  BY <1>2, <1>4, <1>5, <1>6
     DEF Transaction, CreateLease, ActivateLease, ActivateUnit, MoveBegin, MoveLease,
         UpdateRead, UpdateSave, SweepFind, SweepRow, RequestRental, CloseRequest,
         ApproveRequest, ApproveUnit, RemoveProperty, LockLeases, RemoveUnit, DeleteUnit,
         UnitRead, SaveUnit, tables

\* A row is inserted only for a unit that is there.
LEMMA InsertsLookAtUnits ==
  ASSUME PipelineInv, NEW q \in Procs, Transaction(q)
  PROVE  /\ \A l \in LeaseIds :
              lease[l] = "NONE" /\ lease'[l] # "NONE" => unit[UnitOf[l]] # "GONE"
         /\ \A r \in RequestIds :
              request[r] = "NONE" /\ request'[r] # "NONE" => unit[UnitOf[r]] # "GONE"
<1>1. Holds(q) /\ TablesOK /\ Respects(q)
  BY TypeParts, TransactionRespects DEF PipelineInv
<1>2. CASE InsertLease(q)
  <2>1. job[q].lease \in LeaseIds /\ unit[UnitOf[job[q].lease]] = "AVAILABLE"
    BY <1>1, <1>2 DEF InsertLease, Holds, LeaseSteps
  <2>2. \A l \in LeaseIds : lease'[l] # lease[l] => l = job[q].lease
    BY <1>1, <1>2, <2>1 DEF InsertLease, TablesOK
  <2>3. \A r \in RequestIds : request'[r] # request[r] => request[r] = "PENDING"
    BY <1>1, <1>2, LocksAre, RowsAssumption DEF InsertLease, Holds
  <2> QED
    BY <2>1, <2>2, <2>3
<1>3. CASE UNCHANGED request /\ \A l \in LeaseIds : lease[l] = "NONE" => lease'[l] = "NONE"
  BY <1>3
<1>4. CASE UNCHANGED tables
  BY <1>3, <1>4 DEF tables
<1>5. CASE ActivateWrite(q) \/ TerminateUnit(q)
  <2>1. lease[job[q].lease] # "NONE"
    BY <1>1, <1>5 DEF ActivateWrite, TerminateUnit, Holds
  <2> QED
    BY <1>1, <1>3, <1>5, <2>1 DEF ActivateWrite, TerminateUnit, TablesOK
<1>6. CASE TerminateLease(q)
  BY <1>1, <1>3, <1>6 DEF TerminateLease, TablesOK
<1>7. CASE UpdateLease(q)
  <2>1. lease[job[q].lease] # "NONE"
    BY <1>1, <1>7 DEF UpdateLease, Holds
  <2> QED
    BY <1>1, <1>3, <1>7, <2>1 DEF UpdateLease, TablesOK
<1>8. CASE SweepCommit(q)
  BY <1>1, <1>3, <1>8 DEF SweepCommit, Holds
<1>9. CASE RequestRental(q)
  BY <1>1, <1>9 DEF RequestRental, UnitReferable, TablesOK
<1>10. CASE CloseRequest(q)
  BY <1>1, <1>10 DEF CloseRequest, PendingRequests, TablesOK
<1>11. CASE LockRequests(q)
  BY <1>1, <1>11 DEF LockRequests, Holds, PendingRequests
<1>12. CASE DeleteUnit(q) \/ SaveUnit(q)
  BY <1>3, <1>12 DEF DeleteUnit, SaveUnit
<1> QED
  BY <1>2, <1>4, <1>5, <1>6, <1>7, <1>8, <1>9, <1>10, <1>11, <1>12
     DEF Transaction, CreateLease, ActivateLease, ActivateUnit, MoveBegin, MoveLease,
         UpdateRead, UpdateSave, SweepFind, SweepRow, ApproveRequest, ApproveUnit,
         RemoveProperty, LockLeases, RemoveUnit, UnitRead

\* A unit is removed only by its removal.
LEMMA RemovalStep ==
  ASSUME PipelineInv, NEW q \in Procs, Transaction(q), NEW u \in UnitIds,
         unit'[u] = "GONE", unit[u] # "GONE"
  PROVE  pc[q] = "DeleteUnit" /\ u = job[q].unit /\ UNCHANGED <<lease, request>>
<1>1. Holds(q) /\ TablesOK
  BY TypeParts DEF PipelineInv
<1>2. CASE DeleteUnit(q)
  BY <1>1, <1>2 DEF DeleteUnit, TablesOK
<1>3. ~ SaveUnit(q)
  <2> SUFFICES ASSUME SaveUnit(q) PROVE FALSE
    OBVIOUS
  <2>1. job[q].status # "GONE"
    BY <1>1 DEF SaveUnit, Holds
  <2> QED
    BY <1>1, <2>1 DEF SaveUnit, TablesOK
<1>4. ~ ActivateWrite(q) /\ ~ TerminateUnit(q) /\ ~ SweepCommit(q)
  BY <1>1 DEF ActivateWrite, TerminateUnit, SweepCommit, TablesOK
<1> QED
  BY <1>2, <1>3, <1>4
     DEF Transaction, CreateLease, InsertLease, ActivateLease, ActivateUnit, TerminateLease,
         MoveBegin, MoveLease, UpdateRead, UpdateSave, UpdateLease, SweepFind, SweepRow,
         RequestRental, CloseRequest, ApproveRequest, ApproveUnit, RemoveProperty,
         LockLeases, LockRequests, RemoveUnit, UnitRead, tables

LEMMA HistoryStep ==
  ASSUME PipelineInv, NEW q \in Procs, Transaction(q)
  PROVE  RemovedUnitsHaveNoHistory'
<1>1. Holds(q) /\ RemovedUnitsHaveNoHistory
  BY DEF PipelineInv
<1>2. SUFFICES ASSUME NEW u \in UnitIds, unit'[u] = "GONE" PROVE NoHistory(u)'
  BY DEF RemovedUnitsHaveNoHistory
<1>3. CASE unit[u] = "GONE"
  <2>1. NoHistory(u)
    BY <1>1, <1>3 DEF RemovedUnitsHaveNoHistory
  <2> QED
    BY <1>3, <2>1, InsertsLookAtUnits DEF NoHistory
<1>4. CASE unit[u] # "GONE"
  BY <1>1, <1>2, <1>4, RemovalStep DEF Holds, NoHistory
<1> QED
  BY <1>3, <1>4

LEMMA EntriesOK ==
  /\ Gone \in Entry
  /\ \A ref \in {Outdated, Current, Excused} : Stored(ref, CacheTtl) \in Entry
  /\ \A e \in Entry : Aged(e) \in Entry
  BY ForeverAssumption, CacheTtlAssumption
     DEF Entry, Gone, Stored, Aged, Outdated, Current, Excused

LEMMA AnswersAgeOK ==
  ASSUME CacheOK, NEW q \in Procs, AnswersAge(q)
  PROVE  CacheOK' /\ \A p \in Procs : fill'[p].key = fill[p].key
<1>1. \A ref \in Nat, by \in {Outdated, Unannounced} : Superseded(ref, by) \in Nat
  BY DEF Superseded, Outdated, Unannounced
<1>2. \A ref \in {Outdated, Current} : Superseded(ref, Outdated) \in {Outdated, Current}
  BY DEF Superseded
<1>3. \A k \in Keys : redis'[k] \in Entry
  <2> DEFINE mark == IF pc[q] = "UpdateLease" THEN Unannounced ELSE Outdated
  <2>1. mark \in {Outdated, Unannounced}
    OBVIOUS
  <2>2. \A k \in Keys : redis'[k] = redis[k]
                           \/ redis'[k] = [redis[k] EXCEPT !.ref = Superseded(@, mark)]
    BY DEF AnswersAge
  <2> HIDE DEF mark
  <2>3. \A ref \in Nat : Superseded(ref, mark) \in Nat
    BY <1>1, <2>1
  <2>4. SUFFICES ASSUME NEW k \in Keys PROVE redis'[k] \in Entry
    OBVIOUS
  <2>5. redis[k] \in Entry
    BY DEF CacheOK
  <2>6. [redis[k] EXCEPT !.ref = Superseded(@, mark)] \in Entry
    BY <2>3, <2>5 DEF Entry
  <2> QED
    BY <2>2, <2>5, <2>6
<1>4. \A p \in Procs : fill'[p] \in Fills /\ fill'[p].key = fill[p].key
  BY <1>2 DEF CacheOK, AnswersAge, Fills
<1>5. redis' \in [Keys -> Entry] /\ fill' \in [Procs -> Fills]
  BY <1>3, <1>4 DEF AnswersAge
<1> QED
  BY <1>4, <1>5 DEF CacheOK

OthersStay(q) ==
  \A p \in Procs \ {q} : pc'[p] = pc[p] /\ job'[p] = job[p] /\ Locks(p)' = Locks(p)

LEMMA TransactionMoves ==
  ASSUME HandlersOK, LocksDisjoint, NEW q \in Procs, Transaction(q)
  PROVE  OthersStay(q)
<1>1. CASE UNCHANGED <<pc, job>>
  BY <1>1, StayOK DEF OthersStay
<1>2. ASSUME NEW step, NEW j, Goto(q, step, j) PROVE OthersStay(q)
  BY <1>2, GotoMoves DEF OthersStay
<1> QED
  BY <1>1, <1>2
     DEF Transaction, CreateLease, InsertLease, ActivateLease, ActivateUnit, ActivateWrite,
         TerminateLease, TerminateUnit, MoveBegin, MoveLease, UpdateRead, UpdateSave,
         UpdateLease, SweepFind, SweepRow, SweepCommit, RequestRental, CloseRequest,
         ApproveRequest, ApproveUnit, RemoveProperty, LockLeases, LockRequests, RemoveUnit,
         DeleteUnit, UnitRead, SaveUnit, Return, CommitAndInvalidate

LEMMA TransactionStep ==
  ASSUME PipelineInv, NEW q \in Procs, Transaction(q), AnswersAge(q)
  PROVE  PipelineInv'
<1>1. TablesOK /\ HandlersOK /\ CacheOK /\ LocksDisjoint /\ \A p \in Procs : Holds(p)
  BY TypeParts DEF PipelineInv
<1>2. Kept(q) /\ Respects(q)
  BY <1>1, TransactionKept, TransactionRespects
<1>3. CacheOK' /\ \A p \in Procs : fill'[p].key = fill[p].key
  BY <1>1, AnswersAgeOK
<1>4. OthersStay(q)
  BY <1>1, TransactionMoves
<1>5. \A p \in Procs : Holds(p)'
  BY <1>1, <1>2, <1>3, <1>4, OthersHold DEF Kept, OthersStay
<1>6. TypeOK'
  BY <1>2, <1>3 DEF Kept, TypeOK, TablesOK, HandlersOK, CacheOK, LocksDisjoint, Jobs, Fills
<1> QED
  BY <1>5, <1>6, ActiveStep, HistoryStep DEF PipelineInv

\* The steps outside a transaction write no table.
LEMMA QuietStep ==
  ASSUME PipelineInv, NEW q \in Procs, NEW step \in {"idle", "Invalidate", "Store"},
         NEW j \in Jobs, Goto(q, step, j), UNCHANGED tables, CacheOK',
         \A p \in Procs \ {q} : fill'[p] = fill[p],
         step = "Store" => fill'[q].key \in Keys
  PROVE  PipelineInv'
<1>1. TablesOK /\ HandlersOK /\ LocksDisjoint /\ \A p \in Procs : Holds(p)
  BY TypeParts DEF PipelineInv
<1>2. HandlersOK' /\ LocksDisjoint' /\ pc'[q] = step /\ Locks(q)' = {}
  BY <1>1, ReleaseOK, GotoMoves, NewLocks DEF Unlocked
<1>3. Respects(q) /\ TablesOK'
  BY <1>1 DEF Respects, tables, TablesOK
<1>4. \A p \in Procs \ {q} : Holds(p)'
  BY <1>1, <1>3, GotoMoves, OthersHold
<1>5. Holds(q)'
  BY <1>2 DEF Holds, LeaseSteps
<1>6. TypeOK'
  BY <1>2, <1>3 DEF TypeOK, TablesOK, HandlersOK, CacheOK, LocksDisjoint, Jobs, Fills
<1>7. OneActiveLease' /\ RemovedUnitsHaveNoHistory'
  BY DEF PipelineInv, OneActiveLease, RemovedUnitsHaveNoHistory, NoHistory, tables
<1> QED
  BY <1>4, <1>5, <1>6, <1>7 DEF PipelineInv

LEMMA CacheStep ==
  ASSUME PipelineInv, NEW q \in Procs,
         FillRead(q) \/ FillStore(q) \/ Invalidate(q) \/ Fail(q)
  PROVE  PipelineInv'
<1>1. CacheOK /\ HandlersOK /\ Holds(q)
  BY TypeParts DEF PipelineInv
<1>2. NoFill \in Fills
  BY DEF NoFill, Fills
<1>3. CASE FillRead(q)
  <2>1. PICK k \in Keys : fill' = [fill EXCEPT ![q] = [key |-> k, ref |-> Current]]
    BY <1>3 DEF FillRead
  <2>2. fill'[q].key \in Keys /\ \A p \in Procs \ {q} : fill'[p] = fill[p]
    BY <1>1, <2>1 DEF CacheOK
  <2>3. CacheOK'
    BY <1>1, <1>3, <2>1 DEF FillRead, CacheOK, Fills
  <2> QED
    BY <1>3, <2>2, <2>3, NoJobOK, QuietStep DEF FillRead
<1>4. CASE FillStore(q)
  <2>1. CacheOK'
    BY <1>1, <1>2, <1>4, EntriesOK DEF FillStore, CacheOK
  <2>2. \A p \in Procs \ {q} : fill'[p] = fill[p]
    BY <1>1, <1>4 DEF FillStore, CacheOK
  <2> QED
    BY <1>4, <2>1, <2>2, NoJobOK, QuietStep DEF FillStore, Return
<1>5. CASE Invalidate(q)
  <2>1. PICK k \in job[q].keys :
          /\ redis' = [redis EXCEPT ![k] = Gone]
          /\ IF job[q].keys = {k} THEN Return(q)
               ELSE Goto(q, "Invalidate", [job[q] EXCEPT !.keys = @ \ {k}])
    BY <1>5 DEF Invalidate
  <2>2. CacheOK' /\ fill' = fill
    BY <1>1, <1>5, <2>1, EntriesOK DEF Invalidate, CacheOK
  <2>3. [job[q] EXCEPT !.keys = @ \ {k}] \in Jobs
    BY <1>1 DEF HandlersOK, Jobs
  <2> QED
    BY <1>5, <2>1, <2>2, <2>3, NoJobOK, QuietStep DEF Invalidate, Return
<1>6. CASE Fail(q)
  <2>1. \A k \in Keys : redis'[k] \in Entry
    BY <1>1, <1>6 DEF Fail, CacheOK, Entry, Excused
  <2>2. CacheOK' /\ \A p \in Procs \ {q} : fill'[p] = fill[p]
    BY <1>1, <1>2, <1>6, <2>1 DEF Fail, CacheOK
  <2> QED
    BY <1>6, <2>2, NoJobOK, QuietStep DEF Fail, Return
<1> QED
  BY <1>3, <1>4, <1>5, <1>6

LEMMA PipelineStep ==
  ASSUME PipelineInv, [Next]_vars
  PROVE  PipelineInv'
<1>1. ASSUME UNCHANGED <<tables, pc, job, fill>>, CacheOK' PROVE PipelineInv'
  <2>1. \A p \in Procs : Locks(p)' = Locks(p)
    BY <1>1 DEF Locks
  <2>2. \A p \in Procs : Holds(p)'
    BY <1>1, <2>1 DEF PipelineInv, Holds, LeaseSteps, NoHistory, tables
  <2>3. TypeOK'
    BY <1>1, <2>1 DEF PipelineInv, TypeOK, CacheOK, Fills, tables
  <2> QED
    BY <1>1, <2>2, <2>3
       DEF PipelineInv, OneActiveLease, RemovedUnitsHaveNoHistory, NoHistory, tables
<1>2. CASE Tick
  <2>1. CacheOK'
    BY <1>2, EntriesOK, TypeParts DEF PipelineInv, Tick, CacheOK
  <2> QED
    BY <1>1, <1>2, <2>1 DEF Tick
<1>3. CASE UNCHANGED vars
  BY <1>1, <1>3, TypeParts DEF PipelineInv, CacheOK, vars
<1> QED
  BY <1>2, <1>3, TransactionStep, CacheStep DEF Next, HandlerStep

LEMMA PipelineInit == Init => PipelineInv
<1> SUFFICES ASSUME Init PROVE PipelineInv
  OBVIOUS
<1>1. \A q \in Procs : Locks(q) = {} /\ pc[q] = "idle"
  BY LocksAre DEF Init, Unlocked
<1>2. \A q \in Procs : Holds(q)
  BY <1>1 DEF Holds, LeaseSteps
<1>3. TablesOK /\ HandlersOK
  BY NoJobOK
     DEF Init, TablesOK, HandlersOK, UnitStatus, LeaseStatus, RequestStatus, Steps
<1>4. CacheOK
  BY EntriesOK DEF Init, CacheOK, NoFill, Fills
<1>5. TypeOK
  BY <1>1, <1>3, <1>4, TypeParts DEF LocksDisjoint
<1> QED
  BY <1>2, <1>5 DEF PipelineInv, OneActiveLease, RemovedUnitsHaveNoHistory, Init

LEMMA PipelineInvariant == Spec => []PipelineInv
  BY PipelineInit, PipelineStep, PTL DEF Spec

-----------------------------------------------------------------------------
(* The theorems. *)

\* Every variable keeps its type and no row is ever locked by two handlers,
\* whatever the code waits for before it takes a lock.
THEOREM PipelineTypesCorrect == Spec => []TypeOK
<1>1. PipelineInv => TypeOK
  BY DEF PipelineInv
<1> QED
  BY <1>1, PipelineInvariant, PTL

\* The lock that the removal of a unit takes before it counts what refers to the
\* unit keeps every later insert out, with any number of handlers.
THEOREM RemovalsKeepHistory == Spec => []RemovedUnitsHaveNoHistory
<1>1. PipelineInv => RemovedUnitsHaveNoHistory
  BY DEF PipelineInv
<1> QED
  BY <1>1, PipelineInvariant, PTL

\* What a handler found when it took its locks stays so until it commits: the
\* statuses it checked need no second look, however long it waits in between.
THEOREM FindingsStay == Spec => [](\A q \in Procs : Holds(q))
<1>1. PipelineInv => \A q \in Procs : Holds(q)
  BY DEF PipelineInv
<1> QED
  BY <1>1, PipelineInvariant, PTL

\* No transaction writes a row that another one has locked, or inserts one
\* while another one holds the unit, though several of them check only the
\* lock they take last.
THEOREM LocksAreRespected == Spec => [][\A q \in Procs : Transaction(q) => Respects(q)]_vars
<1>1. PipelineInv => [\A q \in Procs : Transaction(q) => Respects(q)]_vars
  BY TransactionRespects
<1> QED
  BY <1>1, PipelineInvariant, PTL

-----------------------------------------------------------------------------
(* Deadlocks. *)

\* The steps of the handlers that remove a property or move a period.
Movers == {"LockLeases", "LockRequests", "MoveLease", "UpdateLease"}

\* What a handler that is no mover waits for.
LEMMA WaitsAre ==
  ASSUME HandlersOK, NEW q \in Procs, NEW p \in Blockers(q), pc[q] \notin Movers,
         pc[p] \notin Movers
  PROVE  /\ p \in Procs /\ p # q
         /\ \/ /\ pc[q] \in {"ActivateUnit", "TerminateUnit"}
               /\ UnitOf[job[q].lease] \in Locks(p)
            \/ pc[q] = "ApproveUnit" /\ UnitOf[job[q].request] \in Locks(p)
            \/ pc[q] = "SaveUnit" /\ job[q].unit \in Locks(p)
            \/ pc[q] = "UpdateSave" /\ job[q].lease \in Locks(p)
            \/ pc[q] = "Sweep" /\ SweepWants(q) \cap Locks(p) # {}
            \/ /\ pc[q] = "InsertLease"
               /\ \E l \in Dirty(p) : UnitOf[l] = UnitOf[job[q].lease]
<1>1. pc[q] \in Steps /\ p \in Procs \ {q}
  BY DEF HandlersOK, Blockers
<1>2. CASE Wants(q) \cap Locks(p) # {}
  BY <1>1, <1>2 DEF Wants, Movers, Steps
<1>3. CASE WaitsForPeriod(q, p)
  BY <1>1, <1>3 DEF WaitsForPeriod, Movers
<1> QED
  BY <1>2, <1>3 DEF Blockers

LEMMA UnitHolders ==
  ASSUME HandlersOK, NEW p \in Procs, Holds(p), NEW u \in UnitIds, u \in Locks(p),
         pc[p] \notin Movers
  PROVE  pc[p] \in {"InsertLease", "ActivateWrite", "DeleteUnit", "Sweep"}
<1>1. pc[p] \in {"ActivateUnit", "TerminateUnit"} => Locks(p) \subseteq LeaseIds
  BY LocksAre DEF Holds, LeaseSteps
<1>2. pc[p] = "ApproveUnit" => Locks(p) \subseteq RequestIds
  BY LocksAre DEF Holds
<1> QED
  BY <1>1, <1>2, LocksAre, RowsAssumption DEF HandlersOK, Steps, Movers, Unlocked

LEMMA LeaseHolders ==
  ASSUME HandlersOK, NEW p \in Procs, Holds(p), NEW l \in LeaseIds, l \in Locks(p),
         pc[p] \notin Movers
  PROVE  /\ pc[p] \in {"ActivateUnit", "ActivateWrite", "TerminateUnit", "Sweep"}
         /\ lease[l] = "ACTIVE" => pc[p] \in {"TerminateUnit", "Sweep"}
<1>1. pc[p] = "InsertLease" => Locks(p) \subseteq RequestIds \cup UnitIds
  <2> SUFFICES ASSUME pc[p] = "InsertLease" PROVE Locks(p) \subseteq RequestIds \cup UnitIds
    OBVIOUS
  <2>1. Locks(p) = {job[p].request, UnitOf[job[p].lease]} \ {None}
    BY LocksAre
  <2>2. job[p].request \in RequestIds \cup {None} /\ UnitOf[job[p].lease] \in UnitIds
    BY UnitOfAssumption DEF HandlersOK, Jobs, Holds, LeaseSteps
  <2> QED
    BY <2>1, <2>2
<1>2. pc[p] \in {"ApproveUnit", "DeleteUnit"} => Locks(p) \subseteq RequestIds \cup UnitIds
  BY LocksAre DEF Holds
<1>3. pc[p] \in {"ActivateUnit", "ActivateWrite", "TerminateUnit", "Sweep"}
  BY <1>1, <1>2, LocksAre, RowsAssumption DEF HandlersOK, Steps, Movers, Unlocked
<1>4. pc[p] \in {"ActivateUnit", "ActivateWrite"} => lease[l] = "PENDING"
  <2> SUFFICES ASSUME pc[p] \in {"ActivateUnit", "ActivateWrite"} PROVE lease[l] = "PENDING"
    OBVIOUS
  <2>1. job[p].lease \in LeaseIds /\ lease[job[p].lease] = "PENDING"
    BY DEF Holds, LeaseSteps
  <2>2. Locks(p) \subseteq {job[p].lease} \cup UnitIds
    BY <2>1, LocksAre, UnitOfAssumption
  <2> QED
    BY <2>1, <2>2, RowsAssumption
<1> QED
  BY <1>3, <1>4

LEMMA NoOtherCycles ==
  ASSUME PipelineInv, NEW S \in SUBSET Procs, WaitCycle(S),
         \A q \in S : pc[q] \notin Movers,
         \A q \in S : pc[q] = "InsertLease" => ~ Occupied(UnitOf[job[q].lease])
  PROVE  WaitCycle({q \in S : pc[q] = "Sweep"})
<1>1. /\ HandlersOK /\ LocksDisjoint /\ OneActiveLease
      /\ \A q \in Procs : Holds(q)
  BY TypeParts DEF PipelineInv
<1>2. \A q \in S : \E p \in S : p \in Blockers(q)
  BY DEF WaitCycle
\* A handler that inserts a lease would wait for one that ends an ACTIVE lease
\* of the same unit, which is free.
<1>3. ASSUME NEW i \in S, pc[i] = "InsertLease" PROVE FALSE
  <2>1. PICK p \in S : p \in Blockers(i)
    BY <1>2
  <2>2. PICK l \in Dirty(p) : UnitOf[l] = UnitOf[job[i].lease]
    BY <1>1, <1>3, <2>1, WaitsAre
  <2>3. pc[p] \in {"TerminateUnit", "Sweep", "InsertLease"}
    <3>1. pc[p] \in {"ActivateUnit", "TerminateUnit", "ApproveUnit", "SaveUnit", "UpdateSave",
                     "Sweep", "InsertLease"}
      BY <1>1, <1>2, WaitsAre
    <3> QED
      BY <2>2, <3>1 DEF Dirty
  <2>4. /\ job[i].lease \in LeaseIds
        /\ unit[UnitOf[job[i].lease]] = "AVAILABLE"
        /\ UnitOf[job[i].lease] \in UnitIds
    BY <1>1, <1>3, UnitOfAssumption DEF Holds, LeaseSteps
  <2>5. CASE pc[p] = "InsertLease"
    <3>1. p # i
      BY <1>1, <2>1, WaitsAre
    <3>2. UnitOf[l] \in Locks(p) /\ UnitOf[l] \in Locks(i)
      <4>1. l = job[p].lease
        BY <2>2, <2>5 DEF Dirty
      <4> QED
        BY <1>3, <2>2, <2>4, <2>5, <4>1, LocksAre, RowsAssumption
    <3> QED
      BY <1>1, <3>1, <3>2 DEF LocksDisjoint
  <2>6. CASE pc[p] \in {"TerminateUnit", "Sweep"}
    <3>1. l \in LeaseIds /\ lease[l] = "ACTIVE"
      BY <1>1, <2>2, <2>6 DEF Dirty, Holds, LeaseSteps
    <3>2. Occupied(UnitOf[job[i].lease])
      BY <2>2, <2>4, <3>1 DEF Occupied
    <3> QED
      BY <1>3, <3>2
  <2> QED
    BY <2>3, <2>5, <2>6
<1>4. ASSUME NEW q \in S
      PROVE  pc[q] \in {"ActivateUnit", "TerminateUnit", "ApproveUnit", "SaveUnit",
                         "UpdateSave", "Sweep"}
  BY <1>1, <1>2, <1>3, WaitsAre
\* So only sweeps hold a unit...
<1>5. ASSUME NEW p \in S, NEW u \in UnitIds, u \in Locks(p) PROVE pc[p] = "Sweep"
  BY <1>1, <1>4, <1>5, UnitHolders
\* ...and with it its ACTIVE lease, which no termination has locked.
<1>6. ASSUME NEW q \in S, pc[q] = "TerminateUnit" PROVE FALSE
  <2>1. PICK p \in S : p \in Blockers(q)
    BY <1>2
  <2> DEFINE l == job[q].lease
             u == UnitOf[l]
  <2>2. u \in Locks(p) /\ p # q
    BY <1>1, <1>6, <2>1, WaitsAre
  <2>3. l \in LeaseIds /\ lease[l] = "ACTIVE" /\ u \in UnitIds /\ l \in Locks(q)
    BY <1>1, <1>6, LocksAre, UnitOfAssumption DEF Holds, LeaseSteps
  <2>4. pc[p] = "Sweep"
    BY <1>5, <2>2, <2>3
  <2>5. Locks(p) = job[p].rows
    BY <2>4, LocksAre
  <2>6. PICK m \in LeaseIds \cap Locks(p) : UnitOf[m] = u /\ lease[m] = "ACTIVE"
    BY <1>1, <2>2, <2>3, <2>4, <2>5 DEF Holds
  <2>7. m = l
    BY <1>1, <2>3, <2>6 DEF OneActiveLease
  <2> QED
    BY <1>1, <2>2, <2>3, <2>6, <2>7 DEF LocksDisjoint
<1>7. ASSUME NEW q \in S, pc[q] = "Sweep" PROVE \E p \in S : pc[p] = "Sweep" /\ p \in Blockers(q)
  <2>1. PICK p \in S : p \in Blockers(q)
    BY <1>2
  <2>2. PICK row \in SweepWants(q) : row \in Locks(p)
    BY <1>1, <1>7, <2>1, WaitsAre
  <2>3. \/ row \in UnitIds
        \/ row \in LeaseIds /\ lease[row] = "ACTIVE"
    BY <2>2 DEF SweepWants
  <2>4. pc[p] = "Sweep"
    BY <1>1, <1>4, <1>5, <1>6, <2>2, <2>3, LeaseHolders
  <2> QED
    BY <2>1, <2>4
<1>8. \E q \in S : pc[q] = "Sweep"
  \* A handler that waits for a unit waits for a sweep.
  <2>1. ASSUME NEW q \in S, NEW u \in UnitIds, NEW p \in S, u \in Locks(p)
        PROVE  \E s \in S : pc[s] = "Sweep"
    BY <1>5, <2>1
  <2>2. ASSUME NEW q \in S, pc[q] \in {"ActivateUnit", "ApproveUnit", "SaveUnit"}
        PROVE  \E s \in S : pc[s] = "Sweep"
    <3>1. PICK p \in S : p \in Blockers(q)
      BY <1>2
    <3>2. \E u \in UnitIds : u \in Locks(p)
      BY <1>1, <2>2, <3>1, WaitsAre, UnitOfAssumption DEF Holds, LeaseSteps
    <3> QED
      BY <1>5, <3>2
  <2>3. PICK q \in S : TRUE
    BY DEF WaitCycle
  <2>4. CASE pc[q] = "UpdateSave"
    <3>1. PICK p \in S : p \in Blockers(q)
      BY <1>2
    <3>2. job[q].lease \in LeaseIds /\ job[q].lease \in Locks(p)
      BY <1>1, <2>4, <3>1, WaitsAre DEF Holds, LeaseSteps
    <3>3. pc[p] \in {"ActivateUnit", "Sweep"}
      BY <1>1, <1>4, <1>6, <3>2, LeaseHolders
    <3> QED
      BY <2>2, <3>3
  <2> QED
    BY <1>4, <1>6, <2>2, <2>3, <2>4
<1> QED
  BY <1>7, <1>8 DEF WaitCycle

\* However many handlers run at once, those that neither remove the property nor
\* move a period deadlock only if sweeps do so alone, or over a unit that a stale
\* save made look free: some lock the unit first and some last, but one that ends
\* a lease never waits for one that inserts, and a sweep that holds a unit holds
\* its lease.
THEOREM DeadlocksAreKnown == Spec => []WaitCyclesHaveACause
<1>1. PipelineInv => WaitCyclesHaveACause
  BY NoOtherCycles DEF WaitCyclesHaveACause, Movers
<1> QED
  BY <1>1, PipelineInvariant, PTL

-----------------------------------------------------------------------------
(* The cache. *)

Stale(k) == Present(k) /\ redis[k].ref = Outdated

Due(k) == \E q \in Procs : pc[q] = "Invalidate" /\ k \in job[q].keys

\* A transaction that does not go on to the invalidation changes nothing that
\* the cached answers show, unless it is the one of LeasesService.update.
LEMMA OthersChangeNoView ==
  ASSUME PipelineInv, NEW q \in Procs, Transaction(q), ~ CommitAndInvalidate(q),
         ~ UpdateLease(q), NEW k \in Keys
  PROVE  View(k)' = View(k)
<1>1. Holds(q) /\ TablesOK /\ HandlersOK
  BY TypeParts DEF PipelineInv
<1>2. CASE UNCHANGED tables
  BY <1>2 DEF View, tables
<1>3. CASE UNCHANGED <<unit, deleted, lease>>
  BY <1>3 DEF View
<1>4. CASE InsertLease(q)
  <2>1. \A l \in LeaseIds :
          /\ lease'[l] = "ACTIVE" <=> lease[l] = "ACTIVE"
          /\ lease'[l] = "EXPIRED" <=> lease[l] = "EXPIRED"
    BY <1>1, <1>4 DEF InsertLease, Holds, TablesOK
  <2> QED
    BY <1>4, <2>1 DEF InsertLease, View
<1>5. CASE SweepCommit(q)
  <2>1. job[q].rows = {}
    BY <1>5 DEF SweepCommit
  <2>2. UNCHANGED <<unit, lease>>
    BY <1>1, <1>5, <2>1 DEF SweepCommit, TablesOK
  <2> QED
    BY <1>3, <1>5, <2>2 DEF SweepCommit
<1> QED
  BY <1>2, <1>3, <1>4, <1>5
     DEF Transaction, CreateLease, ActivateLease, ActivateUnit, ActivateWrite,
         TerminateLease, TerminateUnit, MoveBegin, MoveLease, UpdateRead, UpdateSave,
         SweepFind, SweepRow, RequestRental, CloseRequest, ApproveRequest, ApproveUnit,
         RemoveProperty, LockLeases, LockRequests, RemoveUnit, DeleteUnit, UnitRead,
         SaveUnit, tables

\* Handlers outside their invalidation are no cause.
LEMMA DueStays ==
  ASSUME HandlersOK, NEW q \in Procs, pc[q] # "Invalidate", NEW k \in Keys, Due(k),
         \A p \in Procs \ {q} : pc'[p] = pc[p] /\ job'[p] = job[p]
  PROVE  Due(k)'
  BY DEF Due

LEMMA TransactionCauses ==
  ASSUME PipelineInv, StaleAnswersHaveACause, NEW q \in Procs, Transaction(q), AnswersAge(q)
  PROVE  StaleAnswersHaveACause'
<1>1. HandlersOK /\ CacheOK /\ LocksDisjoint
  BY TypeParts DEF PipelineInv
<1>2. pc[q] # "Invalidate"
  BY DEF Transaction, CreateLease, InsertLease, ActivateLease, ActivateUnit, ActivateWrite,
         TerminateLease, TerminateUnit, MoveBegin, MoveLease, UpdateRead, UpdateSave,
         UpdateLease, SweepFind, SweepRow, SweepCommit, RequestRental, CloseRequest,
         ApproveRequest, ApproveUnit, RemoveProperty, LockLeases, LockRequests, RemoveUnit,
         DeleteUnit, UnitRead, SaveUnit
<1>3. SUFFICES ASSUME NEW k \in Keys, Stale(k)' PROVE Due(k)'
  BY DEF StaleAnswersHaveACause, Stale, Due
<1>4. CASE CommitAndInvalidate(q)
  <2>1. pc'[q] = "Invalidate" /\ job'[q].keys = Keys
    BY <1>1, <1>4, GotoMoves DEF CommitAndInvalidate, NoJob
  <2> QED
    BY <2>1 DEF Due
<1>5. CASE ~ CommitAndInvalidate(q)
  <2>1. redis'[k].ttl = redis[k].ttl /\ (redis'[k].ref = Outdated => redis[k].ref = Outdated)
    <3>1. CASE UpdateLease(q)
      <4>1. pc[q] = "UpdateLease"
        BY <3>1 DEF UpdateLease
      <4> QED
        BY <1>1, <4>1 DEF AnswersAge, Superseded, CacheOK, Entry, Outdated, Unannounced
    <3>2. CASE ~ UpdateLease(q)
      BY <1>5, <3>2, OthersChangeNoView DEF AnswersAge
    <3> QED
      BY <3>1, <3>2
  <2>2. Due(k)
    BY <1>3, <2>1 DEF Stale, Present, StaleAnswersHaveACause, Due
  <2> QED
    BY <1>1, <1>2, <2>2, TransactionMoves, DueStays DEF OthersStay
<1> QED
  BY <1>4, <1>5

LEMMA CacheCauses ==
  ASSUME PipelineInv, StaleAnswersHaveACause, NEW q \in Procs,
         FillRead(q) \/ FillStore(q) \/ Invalidate(q) \/ Fail(q)
  PROVE  StaleAnswersHaveACause'
<1>1. HandlersOK /\ CacheOK /\ Holds(q)
  BY TypeParts DEF PipelineInv
<1>2. SUFFICES ASSUME NEW k \in Keys, Stale(k)' PROVE Due(k)'
  BY DEF StaleAnswersHaveACause, Stale, Due
<1>3. redis'[k] = redis[k] => Due(k)
  BY <1>2 DEF Stale, Present, StaleAnswersHaveACause, Due
<1>4. CASE FillRead(q)
  BY <1>1, <1>3, <1>4, GotoMoves, DueStays DEF FillRead
<1>5. CASE FillStore(q)
  <2>1. fill[q].key # k
    <3> SUFFICES ASSUME fill[q].key = k PROVE ~ Stale(k)'
      BY <1>2
    <3>1. redis'[k].ref \in {Current, Excused}
      BY <1>1, <1>5 DEF FillStore, CacheOK, Stored
    <3> QED
      BY <3>1 DEF Stale, Outdated, Current, Excused
  <2>2. redis'[k] = redis[k]
    BY <1>1, <1>5, <2>1 DEF FillStore, CacheOK
  <2> QED
    BY <1>1, <1>3, <1>5, <2>2, GotoMoves, DueStays DEF FillStore, Return
<1>6. CASE Invalidate(q)
  <2>1. PICK i \in job[q].keys :
          /\ redis' = [redis EXCEPT ![i] = Gone]
          /\ IF job[q].keys = {i} THEN Return(q)
               ELSE Goto(q, "Invalidate", [job[q] EXCEPT !.keys = @ \ {i}])
    BY <1>6 DEF Invalidate
  <2>2. i # k
    BY <1>1, <1>2, <2>1 DEF CacheOK, Stale, Present, Gone
  <2>3. PICK p \in Procs : pc[p] = "Invalidate" /\ k \in job[p].keys
    BY <1>1, <1>3, <2>1, <2>2 DEF CacheOK, Due
  <2>4. CASE p # q
    BY <1>1, <2>1, <2>3, <2>4, GotoMoves DEF Due, Return
  <2>5. CASE p = q
    <3>1. Goto(q, "Invalidate", [job[q] EXCEPT !.keys = @ \ {i}])
      BY <2>1, <2>2, <2>3, <2>5
    <3>2. pc'[q] = "Invalidate" /\ job'[q].keys = job[q].keys \ {i}
      BY <1>1, <3>1, GotoMoves DEF HandlersOK, Jobs
    <3> QED
      BY <2>2, <2>3, <2>5, <3>2 DEF Due
  <2> QED
    BY <2>4, <2>5
<1>7. CASE Fail(q)
  <2>1. ~ (k \in job[q].keys /\ Stale(k)) /\ redis'[k] = redis[k]
    BY <1>1, <1>2, <1>7 DEF Fail, CacheOK, Stale, Present, Entry, Outdated, Excused
  <2>2. PICK p \in Procs : pc[p] = "Invalidate" /\ k \in job[p].keys
    BY <1>3, <2>1 DEF Due
  <2>3. p # q
    BY <1>2, <2>1, <2>2 DEF Stale, Present
  <2> QED
    BY <1>1, <1>7, <2>2, <2>3, GotoMoves DEF Fail, Return, Due
<1> QED
  BY <1>4, <1>5, <1>6, <1>7

LEMMA CauseStep ==
  ASSUME PipelineInv, StaleAnswersHaveACause, [Next]_vars
  PROVE  StaleAnswersHaveACause'
<1>1. CASE Tick
  <2>1. SUFFICES ASSUME NEW k \in Keys, Stale(k)' PROVE Due(k)'
    BY DEF StaleAnswersHaveACause, Stale, Due
  <2>2. redis[k] \in Entry /\ redis'[k] = Aged(redis[k])
    BY <1>1, TypeParts DEF PipelineInv, CacheOK, Tick
  <2>3. Stale(k)
    BY <2>1, <2>2, ForeverAssumption DEF Stale, Present, Aged, Gone, Entry
  <2> QED
    BY <1>1, <2>3 DEF Tick, Due, Stale, StaleAnswersHaveACause
<1>2. CASE UNCHANGED vars
  BY <1>2 DEF vars, StaleAnswersHaveACause, Present
<1> QED
  BY <1>1, <1>2, TransactionCauses, CacheCauses DEF Next, HandlerStep

\* Every commit that changes what a cached answer shows is followed by the
\* handler that drops it, except that of LeasesService.update; otherwise only a
\* reader slower than the commit or a crash in between leaves the answer to its
\* time to live.
THEOREM StaleAnswersAreExplained == Spec => []StaleAnswersHaveACause
<1>1. Init => StaleAnswersHaveACause
  BY DEF Init, StaleAnswersHaveACause, Present, Gone
<1> QED
  BY <1>1, CauseStep, PipelineInvariant, PTL DEF Spec

=============================================================================
