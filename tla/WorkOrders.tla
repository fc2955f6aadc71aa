------------------------------ MODULE WorkOrders ------------------------------
(***************************************************************************)
(* What maintenance promises about a request: it goes through its stages   *)
(* one after the other, someone is assigned before the work starts, what   *)
(* the tenant shows of the defect may change only until someone is, and    *)
(* what the staff shows of the repair only until the request is closed.    *)
(***************************************************************************)
EXTENDS Integers, Sequences

CONSTANTS RequestIds, Staff, Images, None

VARIABLES
  course,   \* the stages each request has gone through
  worker,   \* the member of the staff assigned to it, or None
  defect,   \* the images of the defect
  repair    \* the images of the repair

orders == <<course, worker, defect, repair>>

Init ==
  /\ course = [r \in RequestIds |-> <<>>]
  /\ worker = [r \in RequestIds |-> None]
  /\ defect = [r \in RequestIds |-> {}]
  /\ repair = [r \in RequestIds |-> {}]

At(r, stage) == course[r] # <<>> /\ course[r][Len(course[r])] = stage

Reach(r, stage) == course' = [course EXCEPT ![r] = Append(@, stage)]

Show(r, S) == defect' = [defect EXCEPT ![r] = S]

Report(r) ==
  /\ course[r] = <<>>
  /\ Reach(r, "OPEN")
  /\ \E S \in SUBSET Images : Show(r, S)
  /\ UNCHANGED <<worker, repair>>

EditDefect(r) ==
  /\ At(r, "OPEN")
  /\ \E S \in SUBSET Images : Show(r, S)
  /\ UNCHANGED <<course, worker, repair>>

Assign(r) ==
  /\ At(r, "OPEN")
  /\ Reach(r, "ASSIGNED")
  /\ \E s \in Staff : worker' = [worker EXCEPT ![r] = s]
  /\ UNCHANGED <<defect, repair>>

Start(r) ==
  /\ At(r, "ASSIGNED")
  /\ Reach(r, "IN_PROGRESS")
  /\ UNCHANGED <<worker, defect, repair>>

Complete(r) ==
  /\ At(r, "IN_PROGRESS")
  /\ Reach(r, "RESOLVED")
  /\ \E S \in SUBSET Images : repair' = [repair EXCEPT ![r] = S]
  /\ UNCHANGED <<worker, defect>>

TrimRepair(r) ==
  /\ At(r, "RESOLVED")
  /\ \E S \in SUBSET repair[r] : repair' = [repair EXCEPT ![r] = S]
  /\ UNCHANGED <<course, worker, defect>>

Close(r) ==
  /\ At(r, "RESOLVED")
  /\ Reach(r, "CLOSED")
  /\ UNCHANGED <<worker, defect, repair>>

Cancel(r) ==
  /\ At(r, "OPEN") \/ At(r, "ASSIGNED")
  /\ Reach(r, "CANCELLED")
  /\ UNCHANGED <<worker, defect, repair>>

Next ==
  \E r \in RequestIds :
    \/ Report(r) \/ EditDefect(r) \/ Assign(r) \/ Start(r)
    \/ Complete(r) \/ TrimRepair(r) \/ Close(r) \/ Cancel(r)

Spec == Init /\ [][Next]_orders

-----------------------------------------------------------------------------
(* What follows from the promise. *)

Stages == {"OPEN", "ASSIGNED", "IN_PROGRESS", "RESOLVED", "CLOSED", "CANCELLED"}

\* The request has gone through the stage.
Went(r, stage) == \E k \in 1 .. Len(course[r]) : course[r][k] = stage

\* Nobody works unassigned: the work on a request starts after it was assigned,
\* which gives it a worker for good, and a repair is shown once it is resolved.
OrdersOK ==
  \A r \in RequestIds :
    /\ Went(r, "ASSIGNED") => worker[r] \in Staff
    /\ Went(r, "IN_PROGRESS") => Went(r, "ASSIGNED")
    /\ repair[r] # {} => Went(r, "RESOLVED")

\* A request goes through no stage twice, and through none after it is closed
\* or cancelled.
CoursesEnd ==
  \A r \in RequestIds : \A j, k \in 1 .. Len(course[r]) :
    j < k => /\ course[r][j] # course[r][k]
             /\ course[r][j] \notin {"CLOSED", "CANCELLED"}

\* What is shown of a defect stays as it is once somebody is assigned, what is
\* shown of a repair once the request is closed.
ShownStays ==
  [][ \A r \in RequestIds :
        /\ Went(r, "ASSIGNED") => defect'[r] = defect[r]
        /\ Went(r, "CLOSED") => repair'[r] = repair[r] ]_orders

=============================================================================
