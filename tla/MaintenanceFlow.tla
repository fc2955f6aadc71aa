--------------------------- MODULE MaintenanceFlow ---------------------------
(***************************************************************************)
(* Maintenance requests and the image lists of a property or unit, worked  *)
(* on by concurrent HTTP requests over one database and one image store.   *)
(***************************************************************************)
EXTENDS Maintenance, Gallery

vars == <<store, pc, job, mvars, gallery, dropped>>

Init ==
  /\ store = [i \in Images |-> "FRESH"]
  /\ pc = [q \in Procs |-> "idle"]
  /\ job = [q \in Procs |-> NoJob]
  /\ request = [r \in RequestIds |-> NoRequest]
  /\ history = [r \in RequestIds |-> <<>>]
  /\ leaseActive = TRUE
  /\ propertyLive = TRUE
  /\ gallery = {}
  /\ dropped = {}

\* The last step of a handler that discards images.
DeleteImages(q) ==
  /\ pc[q] = "DeleteImages"
  /\ Delete(job[q].images)
  /\ Return(q)
  /\ UNCHANGED <<mvars, gallery, dropped>>

\* The process crashes: what is not committed is rolled back, what was
\* uploaded stays.
Crash(q) ==
  /\ pc[q] # "idle"
  /\ Return(q)
  /\ UNCHANGED <<store, mvars, gallery, dropped>>

Next ==
  \/ \E q \in Procs :
       \/ MaintenanceStep(q) /\ UNCHANGED <<gallery, dropped>>
       \/ GalleryStep(q) /\ UNCHANGED mvars
       \/ DeleteImages(q) \/ Crash(q)
  \/ (LeaseEnds \/ PropertyRemoved) /\ UNCHANGED <<store, pc, job, gallery, dropped>>

Spec == Init /\ [][Next]_vars

-----------------------------------------------------------------------------

Jobs ==
  [images : SUBSET Images, id : RequestIds \cup {None}, from : Status \cup {None},
   op : DOMAIN Moves \cup {None}, list : SUBSET Images]

Fits(step, j) ==
  /\ step \in {"CompleteLock", "Move", "AddSave", "RemoveImage", "RemoveCompletionImage"} =>
       j.id \in RequestIds
  /\ step = "Move" => j.op \in DOMAIN Moves /\ j.from \in Status

\* Every variable has its type, a handler remembers the request and the
\* transition it works on, and a request under way has a member of staff.
TypeOK ==
  /\ store \in [Images -> {"FRESH", "STORED", "DELETED"}]
  /\ request \in [RequestIds -> RequestRow]
  /\ history \in [RequestIds -> Seq([from : Status, to : Status])]
  /\ {leaseActive, propertyLive} \subseteq BOOLEAN
  /\ gallery \in SUBSET Images /\ dropped \in SUBSET Images
  /\ pc \in [Procs -> {"idle", "CreateLock", "CreateCommit", "CompleteLock", "Move",
                       "AddSave", "RemoveImage", "RemoveCompletionImage", "GallerySave",
                       "GalleryUnlink", "RowSave", "DeleteImages"}]
  /\ job \in [Procs -> Jobs]
  /\ \A q \in Procs : Fits(pc[q], job[q])
  /\ \A r \in RequestIds :
       request[r].status \notin {"NONE", "OPEN", "CANCELLED"} => request[r].staff \in Staff

-----------------------------------------------------------------------------
(* What must hold. *)

\* The status history of a request is complete: it starts at OPEN, each entry
\* starts where the one before it ended, and the last one ends at the status
\* of the request, however the transitions race.
HistoryTellsStatus ==
  \A r \in RequestIds :
    LET h == history[r]
    IN  /\ \A k \in 1 .. Len(h) : h[k].from = IF k = 1 THEN "OPEN" ELSE h[k - 1].to
        /\ request[r].status # "NONE" =>
             request[r].status = IF h = <<>> THEN "OPEN" ELSE h[Len(h)].to

\* Every image that a maintenance request names is in the store: the deletions
\* after a failure and after a removal hit only images that no request names,
\* whatever crashes in between.
RequestImagesStored ==
  \A r \in RequestIds : request[r].images \cup request[r].completion \subseteq Stored

\* No list grows beyond its limit, though the limit is first checked before
\* the upload and without a lock.
ImageLimits ==
  /\ Cardinality(gallery) <= MaxImages
  /\ \A r \in RequestIds : Cardinality(request[r].images) <= MaxImages

\* The images of a request are evidence: once it is no longer OPEN they stay
\* as they are, even if an upload began while it was; and completion images
\* change only with or after the completion and before the closing.
ImagesFreeze ==
  [][ \A r \in RequestIds :
        /\ request'[r].images # request[r].images =>
             request[r].status \in {"NONE", "OPEN"} /\ request'[r].status = "OPEN"
        /\ request'[r].completion # request[r].completion =>
             request[r].status \in {"IN_PROGRESS", "RESOLVED"}
               /\ request'[r].status = "RESOLVED" ]_vars

\* A request is created only while the lease of its tenant is ACTIVE: the lease
\* cannot end between the check and the insert.
CreatedUnderLease ==
  [][ \A r \in RequestIds :
        request[r].status = "NONE" /\ request'[r].status # "NONE" => leaseActive ]_vars

\* An image that the list of a property or unit names is missing in the store
\* only if a removeImage took it out of the list and a save of a list read
\* before put it back: no failure, no crash and no clean-up of uploads deletes
\* an image that the list names, whichever handlers work on it at once.
GalleryStored == gallery \subseteq Stored \cup dropped

-----------------------------------------------------------------------------
(* What the handlers promise about a request. *)

\* The stages of a request: created OPEN, then where each entry of its history
\* ends.
CourseOf(r) ==
  IF request[r].status = "NONE" THEN <<>>
  ELSE [k \in 1 .. Len(history[r]) + 1 |-> IF k = 1 THEN "OPEN" ELSE history[r][k - 1].to]

Orders == INSTANCE WorkOrders WITH
  course <- [r \in RequestIds |-> CourseOf(r)],
  worker <- [r \in RequestIds |-> request[r].staff],
  defect <- [r \in RequestIds |-> request[r].images],
  repair <- [r \in RequestIds |-> request[r].completion]

\* The handlers implement WorkOrders: what the history records is a course
\* through the stages, whichever transitions race, and the row agrees with it
\* on who works on the request and on what may still change.
RequestsAreOrders == Orders!Spec

=============================================================================
