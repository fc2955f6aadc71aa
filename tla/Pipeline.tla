------------------------------ MODULE Pipeline ------------------------------
(***************************************************************************)
(* A write from its first lock to the cache: the transactions on the units *)
(* of a property, the invalidation that follows their commit, and the      *)
(* readers that fill the cache meanwhile.                                  *)
(***************************************************************************)
EXTENDS ReadCache

vars == <<tables, pc, job, redis, fill>>

Steps ==
  {"idle", "InsertLease", "ActivateUnit", "ActivateWrite", "TerminateUnit",
   "MoveLease", "UpdateSave", "UpdateLease", "Sweep", "ApproveUnit", "LockLeases",
   "LockRequests", "DeleteUnit", "SaveUnit", "Invalidate", "Store"}

Init ==
  /\ unit \in [UnitIds -> {"AVAILABLE", "MAINTENANCE"}]
  /\ deleted = FALSE
  /\ lease = [l \in LeaseIds |-> "NONE"]
  /\ request = [r \in RequestIds |-> "NONE"]
  /\ redis = [k \in Keys |-> Gone]
  /\ fill = [q \in Procs |-> NoFill]
  /\ pc = [q \in Procs |-> "idle"]
  /\ job = [q \in Procs |-> NoJob]

Transaction(q) ==
  \/ CreateLease(q) \/ InsertLease(q)
  \/ ActivateLease(q) \/ ActivateUnit(q) \/ ActivateWrite(q)
  \/ TerminateLease(q) \/ TerminateUnit(q)
  \/ MoveBegin(q) \/ MoveLease(q)
  \/ UpdateRead(q) \/ UpdateSave(q) \/ UpdateLease(q)
  \/ SweepFind(q) \/ SweepRow(q) \/ SweepCommit(q)
  \/ RequestRental(q) \/ CloseRequest(q)
  \/ ApproveRequest(q) \/ ApproveUnit(q)
  \/ RemoveProperty(q) \/ LockLeases(q) \/ LockRequests(q)
  \/ RemoveUnit(q) \/ DeleteUnit(q)
  \/ UnitRead(q) \/ SaveUnit(q)

HandlerStep(q) ==
  \/ Transaction(q) /\ AnswersAge(q)
  \/ FillRead(q) \/ FillStore(q) \/ Invalidate(q) \/ Fail(q)

Next == Tick \/ \E q \in Procs : HandlerStep(q)

Spec == Init /\ [][Next]_vars

\* Every variable has its type, and a row is locked by one handler at a time.
TypeOK ==
  /\ unit \in [UnitIds -> UnitStatus]
  /\ deleted \in BOOLEAN
  /\ lease \in [LeaseIds -> LeaseStatus]
  /\ request \in [RequestIds -> RequestStatus]
  /\ redis \in [Keys -> Entry]
  /\ fill \in [Procs -> [key : Keys \cup {None}, ref : {Outdated, Current}]]
  /\ pc \in [Procs -> Steps]
  /\ job \in [Procs -> [lease : LeaseIds \cup {None}, request : RequestIds \cup {None},
                        unit : UnitIds \cup {None}, status : UnitStatus \cup {None},
                        rows : SUBSET (LeaseIds \cup UnitIds),
                        todo : SUBSET (LeaseIds \cup UnitIds), keys : SUBSET Keys]]
  /\ \A p, q \in Procs : p # q => Locks(p) \cap Locks(q) = {}

-----------------------------------------------------------------------------
(* What must hold. *)

\* A stale save has made unit u look free while a lease of it is ACTIVE.
Occupied(u) == unit[u] # "RENTED" /\ \E l \in LeaseIds : UnitOf[l] = u /\ lease[l] = "ACTIVE"

\* Handlers wait for each other in a circle only if one of them removes the
\* property or moves the period of a lease, or if sweeps alone form one, or if a
\* lease is being created for a unit that a stale save made look free:
\* activation, termination, one sweep, approval and the handlers of a unit never
\* deadlock otherwise, though two of them lock the unit first and three last.
WaitCyclesHaveACause ==
  \A S \in SUBSET Procs :
    WaitCycle(S) =>
      \/ \E q \in S : pc[q] \in {"LockLeases", "LockRequests", "MoveLease", "UpdateLease"}
      \/ WaitCycle({q \in S : pc[q] = "Sweep"})
      \/ \E q \in S : pc[q] = "InsertLease" /\ Occupied(UnitOf[job[q].lease])

\* No lease or rental request ever names a unit that was removed, whatever is
\* inserted while the removal counts the rows that name it.
RemovedUnitsHaveNoHistory == \A u \in UnitIds : unit[u] = "GONE" => NoHistory(u)

\* A cached answer that no longer shows the tables is about to be dropped by
\* the handler that changed them; else it was written by a reader that was
\* slower than the change, or its invalidation was lost, or LeasesService.update
\* has written the status of a lease, and it lasts until its time runs out.
StaleAnswersHaveACause ==
  \A k \in Keys :
    Present(k) /\ redis[k].ref = Outdated =>
      \E q \in Procs : pc[q] = "Invalidate" /\ k \in job[q].keys

=============================================================================
