----------------------------- MODULE Maintenance -----------------------------
(***************************************************************************)
(* MaintenanceService: a tenant reports a defect of the unit, the owner    *)
(* assigns a member of the staff, who starts and completes the work, and   *)
(* the request is closed; or it is cancelled before.  Every transition     *)
(* locks the row of the request, and writes a row of the status history    *)
(* in the same transaction.  Images are uploaded before the transaction    *)
(* and deleted again when it fails.                                        *)
(*                                                                         *)
(* Roles are left out: every operation is asked for by someone who may.    *)
(* So is the check of the staff member that assign makes before its        *)
(* transaction, which does not bind it.                                    *)
(***************************************************************************)
EXTENDS Uploads

CONSTANTS RequestIds, Staff

VARIABLES
  request,       \* maintenance_requests
  history,       \* maintenance_status_history of each request, as committed
  leaseActive,   \* the tenant has an ACTIVE lease of the unit, not yet ended
  propertyLive   \* the property of the unit is not soft-deleted

mvars == <<request, history, leaseActive, propertyLive>>

Status ==
  {"NONE", "OPEN", "ASSIGNED", "IN_PROGRESS", "RESOLVED", "CLOSED", "CANCELLED"}

RequestRow ==
  [status : Status, staff : Staff \cup {None},
   images : SUBSET Images, completion : SUBSET Images]

NoRequest == [status |-> "NONE", staff |-> None, images |-> {}, completion |-> {}]

\* Wrong form of Moves: the work may start before the request is assigned.
MovesUnassigned ==
  [assign   |-> [from |-> {"OPEN"}, to |-> "ASSIGNED"],
   start    |-> [from |-> {"OPEN", "ASSIGNED"}, to |-> "IN_PROGRESS"],
   complete |-> [from |-> {"IN_PROGRESS"}, to |-> "RESOLVED"],
   close    |-> [from |-> {"RESOLVED"}, to |-> "CLOSED"],
   cancel   |-> [from |-> {"OPEN", "ASSIGNED"}, to |-> "CANCELLED"]]

\* The transitions: where each of them starts and where it ends.
Moves ==
  [assign   |-> [from |-> {"OPEN"}, to |-> "ASSIGNED"],
   start    |-> [from |-> {"ASSIGNED"}, to |-> "IN_PROGRESS"],
   complete |-> [from |-> {"IN_PROGRESS"}, to |-> "RESOLVED"],
   close    |-> [from |-> {"RESOLVED"}, to |-> "CLOSED"],
   cancel   |-> [from |-> {"OPEN", "ASSIGNED"}, to |-> "CANCELLED"]]

\* Transitions that look for the property only after they saved the request.
LateLookup == {"start", "complete"}

\* Wrong form of HeldRequests: the row is read without FOR UPDATE.
NoRequestHeld == {}

\* The requests that a transition has locked.
HeldRequests == {job[q].id : q \in {p \in Procs : pc[p] = "Move"}}

\* Wrong form of LeaseHeld: the lease is read without FOR UPDATE.
LeaseNotHeld == FALSE

\* A create that has found the lease keeps its row locked.
LeaseHeld == \E q \in Procs : pc[q] = "CreateCommit"

\* create: uploads the images of the request, if there are any.
CreateUpload(q) ==
  /\ pc[q] = "idle"
  /\ \E S \in Uploadable \cup {{}} :
       /\ Upload(S)
       /\ Goto(q, "CreateLock", [NoJob EXCEPT !.images = S])
  /\ UNCHANGED mvars

\* create: locks the ACTIVE lease of the tenant and looks for the property.
CreateLock(q) ==
  /\ pc[q] = "CreateLock"
  /\ ~ LeaseHeld
  /\ IF leaseActive /\ propertyLive
       THEN Goto(q, "CreateCommit", job[q])
       ELSE Discard(q, job[q].images)
  /\ UNCHANGED <<store, mvars>>

\* Wrong form of AfterCreate: a failed invalidation of the cache throws, and
\* the images are deleted though the request is committed.
AfterCreateThrows(q) == Discard(q, job[q].images)

\* The request is committed; the invalidation of the cache never throws.
AfterCreate(q) == Return(q)

\* create: inserts the request.  When that fails the images are deleted.
CreateCommit(q) ==
  /\ pc[q] = "CreateCommit"
  /\ \/ /\ \E r \in RequestIds :
             /\ request[r].status = "NONE"
             /\ request' = [request EXCEPT ![r] =
                  [NoRequest EXCEPT !.status = "OPEN", !.images = job[q].images]]
        /\ AfterCreate(q)
     \/ Discard(q, job[q].images) /\ UNCHANGED request
  /\ UNCHANGED <<store, history, leaseActive, propertyLive>>

\* complete: uploads the completion images, if there are any.
CompleteUpload(q) ==
  /\ pc[q] = "idle"
  /\ \E S \in Uploadable \cup {{}}, r \in RequestIds :
       /\ request[r].status # "NONE"
       /\ Upload(S)
       /\ Goto(q, "CompleteLock", [NoJob EXCEPT !.images = S, !.id = r])
  /\ UNCHANGED mvars

Allowed(r, op) ==
  /\ request[r].status \in Moves[op].from
  /\ op \notin LateLookup => propertyLive

\* complete: locks the request and checks it.
CompleteLock(q) ==
  LET r == job[q].id
  IN  /\ pc[q] = "CompleteLock"
      /\ r \notin HeldRequests
      /\ IF Allowed(r, "complete")
           THEN Goto(q, "Move", [job[q] EXCEPT !.op = "complete", !.from = request[r].status])
           ELSE Discard(q, job[q].images)
      /\ UNCHANGED <<store, mvars>>

\* assign, start, close and cancel: lock the request and check it.
MoveLock(q) ==
  /\ pc[q] = "idle"
  /\ \E r \in RequestIds \ HeldRequests, op \in DOMAIN Moves \ {"complete"} :
       /\ Allowed(r, op)
       /\ Goto(q, "Move", [NoJob EXCEPT !.id = r, !.op = op, !.from = request[r].status])
  /\ UNCHANGED <<store, mvars>>

\* The row of the history that a transition inserts.
Entry(q) == [from |-> job[q].from, to |-> Moves[job[q].op].to]

\* The row that a transition leaves: assign names the member of the staff,
\* complete links the images S.
MovedRow(row, op, s, S) ==
  [row EXCEPT !.status = Moves[op].to,
              !.staff = IF op = "assign" THEN s ELSE @,
              !.completion = IF op = "complete" THEN S ELSE @]

\* Any transition: writes the request and its history, and commits.  When it
\* fails, complete deletes its images.
Move(q) ==
  LET r == job[q].id
      op == job[q].op
  IN  /\ pc[q] = "Move"
      /\ \/ /\ op \in LateLookup => propertyLive
            /\ \E s \in Staff :
                 request' = [request EXCEPT ![r] = MovedRow(@, op, s, job[q].images)]
            /\ history' = [history EXCEPT ![r] = Append(@, Entry(q))]
            /\ Return(q)
         \/ Discard(q, job[q].images) /\ UNCHANGED <<request, history>>
      /\ UNCHANGED <<store, leaseActive, propertyLive>>

\* The request is OPEN and has room for the images S.
RoomFor(r, S) ==
  /\ request[r].status = "OPEN"
  /\ Cardinality(request[r].images) + Cardinality(S) <= MaxImages

\* addImages: checks the request without a lock and uploads.
AddUpload(q) ==
  /\ pc[q] = "idle"
  /\ propertyLive
  /\ \E r \in RequestIds, S \in Uploadable :
       /\ RoomFor(r, S)
       /\ Upload(S)
       /\ Goto(q, "AddSave", [NoJob EXCEPT !.images = S, !.id = r])
  /\ UNCHANGED mvars

\* Wrong form of StillRoom: only the status is checked again.
StillOpen(r, S) == request[r].status = "OPEN"

\* Wrong form of StillRoom: the check made before the upload is trusted.
RoomBefore(r, S) == Cardinality(request[r].images) + Cardinality(S) <= MaxImages

\* The check is made again under the lock.
StillRoom(r, S) == RoomFor(r, S)

\* addImages: locks the request, checks it again and appends the images.
AddSave(q) ==
  LET r == job[q].id
      S == job[q].images
  IN  /\ pc[q] = "AddSave"
      /\ r \notin HeldRequests
      /\ \/ /\ StillRoom(r, S)
            /\ request' = [request EXCEPT ![r].images = @ \cup S]
            /\ Return(q)
         \/ Discard(q, S) /\ UNCHANGED request
      /\ UNCHANGED <<store, history, leaseActive, propertyLive>>

\* removeImage and removeCompletionImage: look for the request without a lock.
\* A member of the staff must be assigned to remove a completion image.
RemovalFind(q) ==
  /\ pc[q] = "idle"
  /\ propertyLive
  /\ \E r \in RequestIds, step \in {"RemoveImage", "RemoveCompletionImage"} :
       /\ request[r].status # "NONE"
       /\ step = "RemoveCompletionImage" => request[r].staff \in Staff
       /\ Goto(q, step, [NoJob EXCEPT !.id = r])
  /\ UNCHANGED <<store, mvars>>

\* removeImage: locks the request and unlinks an image if it is still OPEN.
RemoveImage(q) ==
  LET r == job[q].id
  IN  /\ pc[q] = "RemoveImage"
      /\ r \notin HeldRequests
      /\ \/ \E i \in request[r].images :
              /\ request[r].status = "OPEN"
              /\ request' = [request EXCEPT ![r].images = @ \ {i}]
              /\ Discard(q, {i})
         \/ Return(q) /\ UNCHANGED request
      /\ UNCHANGED <<store, history, leaseActive, propertyLive>>

\* removeCompletionImage: the same for a RESOLVED request.
RemoveCompletionImage(q) ==
  LET r == job[q].id
  IN  /\ pc[q] = "RemoveCompletionImage"
      /\ r \notin HeldRequests
      /\ \/ \E i \in request[r].completion :
              /\ request[r].status = "RESOLVED"
              /\ request' = [request EXCEPT ![r].completion = @ \ {i}]
              /\ Discard(q, {i})
         \/ Return(q) /\ UNCHANGED request
      /\ UNCHANGED <<store, history, leaseActive, propertyLive>>

MaintenanceStep(q) ==
  \/ CreateUpload(q) \/ CreateLock(q) \/ CreateCommit(q)
  \/ CompleteUpload(q) \/ CompleteLock(q) \/ MoveLock(q) \/ Move(q)
  \/ AddUpload(q) \/ AddSave(q)
  \/ RemovalFind(q) \/ RemoveImage(q) \/ RemoveCompletionImage(q)

\* The lease is terminated or expires; that needs its row.
LeaseEnds ==
  /\ leaseActive /\ ~ LeaseHeld
  /\ leaseActive' = FALSE
  /\ UNCHANGED <<request, history, propertyLive>>

\* The property is soft-deleted; its requests stay as they are.
PropertyRemoved ==
  /\ propertyLive
  /\ propertyLive' = FALSE
  /\ UNCHANGED <<request, history, leaseActive>>

=============================================================================
