------------------------- MODULE MaintenanceProofs -------------------------
(***************************************************************************)
(* The safety properties of MaintenanceFlow, for every instance of its     *)
(* constants.                                                              *)
(***************************************************************************)
EXTENDS MaintenanceFlow, SequenceTheorems, FiniteSetTheorems, TLAPS

Operations == {"assign", "start", "complete", "close", "cancel"}

LEMMA MovesAre ==
  /\ DOMAIN Moves = Operations
  /\ \A op \in Operations :
       /\ Moves[op].from \subseteq Status \ {"NONE"}
       /\ Moves[op].to \in Status \ {"NONE", "OPEN"}
       /\ Moves[op].to \notin {"NONE", "OPEN", "CANCELLED"} =>
            op = "assign" \/ Moves[op].from \cap {"NONE", "OPEN", "CANCELLED"} = {}
  /\ Moves["complete"].from = {"IN_PROGRESS"} /\ Moves["complete"].to = "RESOLVED"
  BY DEF Moves, Operations, Status

-----------------------------------------------------------------------------
(* Types. *)

TablesOK ==
  /\ store \in [Images -> {"FRESH", "STORED", "DELETED"}]
  /\ request \in [RequestIds -> RequestRow]
  /\ history \in [RequestIds -> Seq([from : Status, to : Status])]
  /\ leaseActive \in BOOLEAN /\ propertyLive \in BOOLEAN
  /\ gallery \in SUBSET Images /\ dropped \in SUBSET Images

\* A removal that has found its request and waits for the lock.
Removing == {"RemoveImage", "RemoveCompletionImage"}

AllSteps ==
  {"idle", "CreateLock", "CreateCommit", "CompleteLock", "Move", "AddSave",
   "GallerySave", "GalleryUnlink", "RowSave", "DeleteImages"} \cup Removing

HandlersOK ==
  /\ pc \in [Procs -> AllSteps]
  /\ job \in [Procs -> Jobs]
  /\ \A q \in Procs : Fits(pc[q], job[q])

Typed == TablesOK /\ HandlersOK

\* A transition remembers the status that its request has, which is one it
\* starts from, and no other transition has the request.
MovesOK ==
  \A q \in Procs :
    pc[q] = "Move" =>
      /\ job[q].from = request[job[q].id].status
      /\ job[q].from \in Moves[job[q].op].from
      /\ \A p \in Procs : pc[p] = "Move" /\ job[p].id = job[q].id => p = q

\* A row that is not there has no history and names nothing.
AbsentOK ==
  \A r \in RequestIds :
    request[r].status = "NONE" => request[r] = NoRequest /\ history[r] = <<>>

StaffOK ==
  \A r \in RequestIds :
    request[r].status \notin {"NONE", "OPEN", "CANCELLED"} => request[r].staff \in Staff

\* A create that has found the lease keeps it ACTIVE.
LeaseOK == \A q \in Procs : pc[q] = "CreateCommit" => leaseActive

FlowInv == Typed /\ MovesOK /\ AbsentOK /\ StaffOK /\ LeaseOK

LEMMA NoRowsOK == NoRequest \in RequestRow /\ NoJob \in Jobs
  BY MovesAre DEF NoRequest, RequestRow, Status, NoJob, Jobs

LEMMA GotoMoves ==
  ASSUME HandlersOK, NEW q \in Procs, NEW step, NEW j, Goto(q, step, j)
  PROVE  /\ pc'[q] = step /\ job'[q] = j
         /\ \A p \in Procs \ {q} : pc'[p] = pc[p] /\ job'[p] = job[p]
  BY DEF HandlersOK, Goto

LEMMA GotoOK ==
  ASSUME HandlersOK, NEW q \in Procs, NEW step \in AllSteps, NEW j \in Jobs,
         Fits(step, j), Goto(q, step, j)
  PROVE  HandlersOK'
  BY DEF HandlersOK, Goto

LEMMA ReturnOK ==
  ASSUME HandlersOK, NEW q \in Procs, Return(q)
  PROVE  HandlersOK'
  BY NoRowsOK, GotoOK DEF Return, AllSteps, Fits

\* What a handler remembers when it carries the images S.
LEMMA CarryOK ==
  ASSUME NEW S \in SUBSET Images, NEW r \in RequestIds, NEW L \in SUBSET Images
  PROVE  /\ [NoJob EXCEPT !.images = S] \in Jobs
         /\ [NoJob EXCEPT !.images = S].images = S /\ [NoJob EXCEPT !.images = S].list = {}
         /\ [NoJob EXCEPT !.images = S, !.id = r] \in Jobs
         /\ [NoJob EXCEPT !.images = S, !.id = r].id = r
         /\ [NoJob EXCEPT !.images = S, !.id = r].images = S
         /\ [NoJob EXCEPT !.images = S, !.id = r].list = {}
         /\ [NoJob EXCEPT !.images = S, !.list = L] \in Jobs
         /\ [NoJob EXCEPT !.images = S, !.list = L].images = S
         /\ [NoJob EXCEPT !.images = S, !.list = L].list = L
  BY NoRowsOK DEF NoJob, Jobs

LEMMA DiscardOK ==
  ASSUME HandlersOK, NEW q \in Procs, NEW S \in SUBSET Images, Discard(q, S)
  PROVE  HandlersOK'
<1>1. [NoJob EXCEPT !.images = S] \in Jobs
  BY NoRowsOK DEF Jobs
<1>2. Fits("DeleteImages", [NoJob EXCEPT !.images = S])
  BY DEF Fits
<1> QED
  BY <1>1, <1>2, GotoOK DEF Discard, AllSteps

LEMMA UploadOK ==
  ASSUME TablesOK, NEW S \in Uploadable \cup {{}}, Upload(S)
  PROVE  /\ S \in SUBSET Images /\ store' \in [Images -> {"FRESH", "STORED", "DELETED"}]
         /\ S \subseteq Fresh
  BY DEF Uploadable, Fresh, Upload, TablesOK

\* A transition that locks its request.
LEMMA MoveJobOK ==
  ASSUME TablesOK, NEW j \in Jobs, NEW r \in RequestIds, NEW op \in Operations
  PROVE  LET k == [j EXCEPT !.id = r, !.op = op, !.from = request[r].status]
         IN  /\ k \in Jobs /\ Fits("Move", k)
             /\ k.id = r /\ k.op = op /\ k.from = request[r].status
             /\ k.images = j.images /\ k.list = j.list
  BY MovesAre DEF Jobs, Fits, TablesOK, RequestRow

LEMMA CompleteJobOK ==
  ASSUME TablesOK, NEW j \in Jobs, j.id \in RequestIds
  PROVE  LET k == [j EXCEPT !.op = "complete", !.from = request[j.id].status]
         IN  /\ k \in Jobs /\ Fits("Move", k)
             /\ k.id = j.id /\ k.op = "complete" /\ k.from = request[j.id].status
             /\ k.images = j.images /\ k.list = j.list
  BY MovesAre DEF Jobs, Fits, TablesOK, RequestRow, Operations

LEMMA MovedRowOK ==
  ASSUME NEW row \in RequestRow, NEW op \in Operations, NEW s \in Staff,
         NEW S \in SUBSET Images
  PROVE  LET m == MovedRow(row, op, s, S)
         IN  /\ m \in RequestRow
             /\ m.status = Moves[op].to /\ m.images = row.images
             /\ m.staff = IF op = "assign" THEN s ELSE row.staff
             /\ m.completion = IF op = "complete" THEN S ELSE row.completion
  BY MovesAre DEF MovedRow, RequestRow

\* A transition that commits.
Moved(q) ==
  \E s \in Staff :
    /\ request' = [request EXCEPT ![job[q].id] =
                     MovedRow(request[job[q].id], job[q].op, s, job[q].images)]
    /\ history' = [history EXCEPT ![job[q].id] = Append(history[job[q].id], Entry(q))]

LEMMA MoveEffect ==
  ASSUME Typed, NEW q \in Procs, Move(q)
  PROVE  /\ job[q].id \in RequestIds /\ job[q].op \in Operations
         /\ \/ Moved(q) /\ Return(q)
            \/ Discard(q, job[q].images) /\ UNCHANGED <<request, history>>
         /\ UNCHANGED <<store, leaseActive, propertyLive>>
<1>1. job[q].id \in RequestIds /\ job[q].op \in Operations
  BY MovesAre DEF Move, Typed, HandlersOK, Fits
<1> QED
  BY <1>1 DEF Move, Moved

LEMMA EntryOK ==
  ASSUME Typed, NEW q \in Procs, pc[q] = "Move"
  PROVE  /\ Entry(q) \in [from : Status, to : Status]
         /\ Entry(q).from = job[q].from /\ Entry(q).to = Moves[job[q].op].to
  BY MovesAre DEF Entry, Typed, HandlersOK, Fits

LEMMA MaintenanceStepType ==
  ASSUME Typed, NEW q \in Procs, MaintenanceStep(q), UNCHANGED <<gallery, dropped>>
  PROVE  Typed'
<1> USE DEF Typed
<1>0. /\ job[q] \in Jobs /\ job[q].images \in SUBSET Images /\ Fits(pc[q], job[q])
      /\ UNCHANGED <<gallery, dropped>>
  BY DEF HandlersOK, Jobs
<1>1. CASE CreateUpload(q)
  <2>1. PICK S \in Uploadable \cup {{}} :
          Upload(S) /\ Goto(q, "CreateLock", [NoJob EXCEPT !.images = S])
    BY <1>1 DEF CreateUpload
  <2>2. /\ store' \in [Images -> {"FRESH", "STORED", "DELETED"}]
        /\ [NoJob EXCEPT !.images = S] \in Jobs
    BY <2>1, UploadOK, NoRowsOK DEF Jobs
  <2>3. HandlersOK'
    BY <2>1, <2>2, GotoOK DEF Fits, AllSteps
  <2> QED
    BY <1>0, <1>1, <2>2, <2>3 DEF CreateUpload, mvars, TablesOK
<1>2. CASE CreateLock(q)
  <2>1. Fits("CreateCommit", job[q])
    BY DEF Fits
  <2>2. HandlersOK'
    BY <1>0, <1>2, <2>1, GotoOK, DiscardOK DEF CreateLock, AllSteps
  <2> QED
    BY <1>0, <1>2, <2>2 DEF CreateLock, mvars, TablesOK
<1>3. CASE CreateCommit(q)
  <2>1. [NoRequest EXCEPT !.status = "OPEN", !.images = job[q].images] \in RequestRow
    BY <1>0, NoRowsOK DEF RequestRow, Status
  <2>2. request' \in [RequestIds -> RequestRow]
    BY <1>3, <2>1 DEF CreateCommit, TablesOK
  <2>3. HandlersOK'
    BY <1>0, <1>3, ReturnOK, DiscardOK DEF CreateCommit, AfterCreate
  <2> QED
    BY <1>0, <1>3, <2>2, <2>3 DEF CreateCommit, TablesOK
<1>4. CASE CompleteUpload(q)
  <2>1. PICK S \in Uploadable \cup {{}}, r \in RequestIds :
          Upload(S) /\ Goto(q, "CompleteLock", [NoJob EXCEPT !.images = S, !.id = r])
    BY <1>4 DEF CompleteUpload
  <2>2. /\ store' \in [Images -> {"FRESH", "STORED", "DELETED"}]
        /\ [NoJob EXCEPT !.images = S, !.id = r] \in Jobs
        /\ [NoJob EXCEPT !.images = S, !.id = r].id = r
    BY <2>1, UploadOK, NoRowsOK DEF Jobs
  <2>3. HandlersOK'
    BY <2>1, <2>2, GotoOK DEF Fits, AllSteps
  <2> QED
    BY <1>0, <1>4, <2>2, <2>3 DEF CompleteUpload, mvars, TablesOK
<1>5. CASE CompleteLock(q)
  <2>1. job[q].id \in RequestIds
    BY <1>0, <1>5 DEF CompleteLock, Fits
  <2> DEFINE k == [job[q] EXCEPT !.op = "complete", !.from = request[job[q].id].status]
  <2>2. k \in Jobs /\ Fits("Move", k)
    BY <1>0, <2>1, CompleteJobOK
  <2>3. Goto(q, "Move", k) \/ Discard(q, job[q].images)
    BY <1>5 DEF CompleteLock
  <2> HIDE DEF k
  <2>4. HandlersOK'
    BY <1>0, <2>2, <2>3, GotoOK, DiscardOK DEF AllSteps
  <2> QED
    BY <1>0, <1>5, <2>4 DEF CompleteLock, mvars, TablesOK
<1>6. CASE MoveLock(q)
  <2>1. PICK r \in RequestIds, op \in Operations :
          Goto(q, "Move", [NoJob EXCEPT !.id = r, !.op = op, !.from = request[r].status])
    BY <1>6, MovesAre DEF MoveLock
  <2> DEFINE k == [NoJob EXCEPT !.id = r, !.op = op, !.from = request[r].status]
  <2>2. k \in Jobs /\ Fits("Move", k)
    BY NoRowsOK, MoveJobOK
  <2> HIDE DEF k
  <2>3. HandlersOK'
    BY <2>1, <2>2, GotoOK DEF AllSteps, k
  <2> QED
    BY <1>0, <1>6, <2>3 DEF MoveLock, mvars, TablesOK
<1>7. CASE Move(q)
  <2>1. CASE Moved(q) /\ Return(q)
    <3>1. job[q].id \in RequestIds /\ job[q].op \in Operations
      BY <1>7, MoveEffect
    <3>2. request' \in [RequestIds -> RequestRow]
      BY <1>0, <2>1, <3>1, MovedRowOK DEF Moved, TablesOK
    <3>3. history[job[q].id] \in Seq([from : Status, to : Status])
          /\ Entry(q) \in [from : Status, to : Status]
      BY <1>7, <3>1, EntryOK DEF Move, TablesOK
    <3>4. Append(history[job[q].id], Entry(q)) \in Seq([from : Status, to : Status])
      BY <3>3, AppendProperties
    <3>5. history' \in [RequestIds -> Seq([from : Status, to : Status])]
      BY <2>1, <3>4 DEF Moved, TablesOK
    <3> QED
      BY <1>0, <1>7, <2>1, <3>2, <3>5, MoveEffect, ReturnOK DEF TablesOK
  <2>2. CASE Discard(q, job[q].images) /\ UNCHANGED <<request, history>>
    BY <1>0, <1>7, <2>2, MoveEffect, DiscardOK DEF TablesOK
  <2> QED
    BY <1>7, <2>1, <2>2, MoveEffect
<1>8. CASE AddUpload(q)
  <2>1. PICK S \in Uploadable, r \in RequestIds :
          Upload(S) /\ Goto(q, "AddSave", [NoJob EXCEPT !.images = S, !.id = r])
    BY <1>8 DEF AddUpload
  <2>2. /\ store' \in [Images -> {"FRESH", "STORED", "DELETED"}]
        /\ [NoJob EXCEPT !.images = S, !.id = r] \in Jobs
        /\ [NoJob EXCEPT !.images = S, !.id = r].id = r
    BY <2>1, UploadOK, NoRowsOK DEF Jobs
  <2>3. HandlersOK'
    BY <2>1, <2>2, GotoOK DEF Fits, AllSteps
  <2> QED
    BY <1>0, <1>8, <2>2, <2>3 DEF AddUpload, mvars, TablesOK
<1>9. CASE AddSave(q)
  <2>1. job[q].id \in RequestIds
    BY <1>0, <1>9 DEF AddSave, Fits
  <2>2. [request[job[q].id] EXCEPT !.images = @ \cup job[q].images] \in RequestRow
    BY <1>0, <2>1 DEF TablesOK, RequestRow
  <2>3. request' \in [RequestIds -> RequestRow]
    BY <1>9, <2>2 DEF AddSave, TablesOK
  <2>4. HandlersOK'
    BY <1>0, <1>9, ReturnOK, DiscardOK DEF AddSave
  <2> QED
    BY <1>0, <1>9, <2>3, <2>4 DEF AddSave, TablesOK
<1>10. CASE RemovalFind(q)
  <2>1. PICK r \in RequestIds, step \in Removing : Goto(q, step, [NoJob EXCEPT !.id = r])
    BY <1>10 DEF RemovalFind, Removing
  <2>2. [NoJob EXCEPT !.id = r] \in Jobs /\ [NoJob EXCEPT !.id = r].id = r
    BY NoRowsOK DEF NoJob, Jobs
  <2>3. HandlersOK'
    BY <2>1, <2>2, GotoOK DEF Fits, AllSteps, Removing
  <2> QED
    BY <1>0, <1>10, <2>3 DEF RemovalFind, mvars, TablesOK
<1>11. CASE RemoveImage(q)
  <2>1. CASE Return(q) /\ UNCHANGED request
    BY <1>0, <1>11, <2>1, ReturnOK DEF RemoveImage, TablesOK
  <2>2. CASE \E i \in request[job[q].id].images :
               /\ request' = [request EXCEPT ![job[q].id].images = @ \ {i}]
               /\ Discard(q, {i})
    <3>1. PICK i \in request[job[q].id].images :
            /\ request' = [request EXCEPT ![job[q].id].images = @ \ {i}]
            /\ Discard(q, {i})
      BY <2>2
    <3>2. job[q].id \in RequestIds
      BY <1>0, <1>11 DEF RemoveImage, Fits
    <3>3. request' \in [RequestIds -> RequestRow] /\ {i} \in SUBSET Images
      BY <3>1, <3>2 DEF TablesOK, RequestRow
    <3> QED
      BY <1>0, <1>11, <3>1, <3>3, DiscardOK DEF RemoveImage, TablesOK
  <2> QED
    BY <1>11, <2>1, <2>2 DEF RemoveImage
<1>12. CASE RemoveCompletionImage(q)
  <2>1. CASE Return(q) /\ UNCHANGED request
    BY <1>0, <1>12, <2>1, ReturnOK DEF RemoveCompletionImage, TablesOK
  <2>2. CASE \E i \in request[job[q].id].completion :
               /\ request' = [request EXCEPT ![job[q].id].completion = @ \ {i}]
               /\ Discard(q, {i})
    <3>1. PICK i \in request[job[q].id].completion :
            /\ request' = [request EXCEPT ![job[q].id].completion = @ \ {i}]
            /\ Discard(q, {i})
      BY <2>2
    <3>2. job[q].id \in RequestIds
      BY <1>0, <1>12 DEF RemoveCompletionImage, Fits
    <3>3. request' \in [RequestIds -> RequestRow] /\ {i} \in SUBSET Images
      BY <3>1, <3>2 DEF TablesOK, RequestRow
    <3> QED
      BY <1>0, <1>12, <3>1, <3>3, DiscardOK DEF RemoveCompletionImage, TablesOK
  <2> QED
    BY <1>12, <2>1, <2>2 DEF RemoveCompletionImage
<1> QED
  BY <1>1, <1>2, <1>3, <1>4, <1>5, <1>6, <1>7, <1>8, <1>9, <1>10, <1>11, <1>12
     DEF MaintenanceStep

LEMMA GalleryStepType ==
  ASSUME Typed, NEW q \in Procs, GalleryStep(q), UNCHANGED mvars
  PROVE  Typed'
<1> USE DEF Typed, mvars
<1>0. /\ job[q] \in Jobs /\ job[q].images \in SUBSET Images /\ job[q].list \in SUBSET Images
      /\ UNCHANGED mvars /\ dropped \cup job[q].images \in SUBSET Images
  BY DEF HandlersOK, Jobs, TablesOK
<1>1. CASE GalleryAdd(q)
  <2>1. PICK S \in Uploadable :
          /\ Upload(S)
          /\ Goto(q, "GallerySave", [NoJob EXCEPT !.images = S, !.list = gallery \cup S])
    BY <1>1 DEF GalleryAdd
  <2>2. /\ store' \in [Images -> {"FRESH", "STORED", "DELETED"}]
        /\ [NoJob EXCEPT !.images = S, !.list = gallery \cup S] \in Jobs
    BY <2>1, UploadOK, NoRowsOK DEF Jobs, TablesOK
  <2>3. HandlersOK'
    BY <2>1, <2>2, GotoOK DEF Fits, AllSteps
  <2> QED
    BY <1>0, <1>1, <2>2, <2>3 DEF GalleryAdd, TablesOK
<1>2. CASE GallerySave(q)
  <2>1. HandlersOK'
    BY <1>0, <1>2, ReturnOK, DiscardOK DEF GallerySave
  <2> QED
    BY <1>0, <1>2, <2>1 DEF GallerySave, TablesOK
<1>3. CASE GalleryRemove(q)
  <2>1. PICK i \in Images :
          Goto(q, "GalleryUnlink", [NoJob EXCEPT !.images = {i}, !.list = gallery \ {i}])
    BY <1>3 DEF GalleryRemove, TablesOK
  <2>2. {i} \in SUBSET Images /\ gallery \ {i} \in SUBSET Images
    BY DEF TablesOK
  <2>3. [NoJob EXCEPT !.images = {i}, !.list = gallery \ {i}] \in Jobs
    BY <2>2, NoRowsOK DEF Jobs
  <2>4. HandlersOK'
    BY <2>1, <2>3, GotoOK DEF Fits, AllSteps
  <2> QED
    BY <1>0, <1>3, <2>4 DEF GalleryRemove, TablesOK
<1>4. CASE GalleryUnlink(q)
  <2>1. HandlersOK'
    BY <1>0, <1>4, ReturnOK, DiscardOK DEF GalleryUnlink, AfterUnlink
  <2> QED
    BY <1>0, <1>4, <2>1 DEF GalleryUnlink, TablesOK
<1>5. CASE RowRead(q)
  <2>1. [NoJob EXCEPT !.list = gallery] \in Jobs
    BY NoRowsOK DEF Jobs, TablesOK
  <2>2. HandlersOK'
    BY <1>5, <2>1, GotoOK DEF RowRead, Fits, AllSteps
  <2> QED
    BY <1>0, <1>5, <2>2 DEF RowRead, TablesOK
<1>6. CASE RowSave(q)
  BY <1>0, <1>6, ReturnOK DEF RowSave, TablesOK
<1> QED
  BY <1>1, <1>2, <1>3, <1>4, <1>5, <1>6 DEF GalleryStep

LEMMA TypedStep == Typed /\ [Next]_vars => Typed'
<1> SUFFICES ASSUME Typed, [Next]_vars PROVE Typed'
  OBVIOUS
<1>1. ASSUME NEW q \in Procs, DeleteImages(q) PROVE Typed'
  <2>1. store' \in [Images -> {"FRESH", "STORED", "DELETED"}]
    BY <1>1 DEF DeleteImages, Delete, Typed, TablesOK
  <2> QED
    BY <1>1, <2>1, ReturnOK DEF DeleteImages, Typed, TablesOK, mvars
<1>2. ASSUME NEW q \in Procs, Crash(q) PROVE Typed'
  BY <1>2, ReturnOK DEF Crash, Typed, TablesOK, mvars
<1>3. ASSUME LeaseEnds \/ PropertyRemoved, UNCHANGED <<store, pc, job, gallery, dropped>>
      PROVE  Typed'
  BY <1>3 DEF LeaseEnds, PropertyRemoved, Typed, TablesOK, HandlersOK
<1>4. CASE UNCHANGED vars
  BY <1>4 DEF vars, mvars, Typed, TablesOK, HandlersOK
<1> QED
  BY <1>1, <1>2, <1>3, <1>4, MaintenanceStepType, GalleryStepType DEF Next

-----------------------------------------------------------------------------
(* What a step writes to the requests. *)

Creates(q, r) ==
  /\ request[r].status = "NONE" /\ request'[r].status = "OPEN"
  /\ request'[r].images = job[q].images /\ request'[r].completion = {}
  /\ request'[r].staff = None
  /\ history'[r] = history[r]

Transits(q, r) ==
  /\ job[q].id = r /\ job[q].op \in Operations
  /\ request'[r].status = Moves[job[q].op].to
  /\ request'[r].images = request[r].images
  /\ IF job[q].op = "assign" THEN request'[r].staff \in Staff
                             ELSE request'[r].staff = request[r].staff
  /\ request'[r].completion =
       IF job[q].op = "complete" THEN job[q].images ELSE request[r].completion
  /\ history'[r] = Append(history[r], Entry(q))

Adds(q, r) ==
  /\ job[q].id = r /\ r \notin HeldRequests /\ StillRoom(r, job[q].images)
  /\ request'[r].status = request[r].status /\ request'[r].staff = request[r].staff
  /\ request'[r].completion = request[r].completion
  /\ request'[r].images = request[r].images \cup job[q].images
  /\ history'[r] = history[r]

Unlinks(r, i) ==
  /\ r \notin HeldRequests
  /\ request'[r].status = request[r].status /\ request'[r].staff = request[r].staff
  /\ history'[r] = history[r]
  /\ \/ /\ request[r].status = "OPEN" /\ i \in request[r].images
        /\ request'[r].images = request[r].images \ {i}
        /\ request'[r].completion = request[r].completion
     \/ /\ request[r].status = "RESOLVED" /\ i \in request[r].completion
        /\ request'[r].images = request[r].images
        /\ request'[r].completion = request[r].completion \ {i}

OthersKept(r) ==
  \A o \in RequestIds \ {r} : request'[o] = request[o] /\ history'[o] = history[o]

LEMMA RequestEffect ==
  ASSUME Typed, [Next]_vars
  PROVE  \/ UNCHANGED <<request, history>>
         \/ \E q \in Procs, r \in RequestIds :
              /\ OthersKept(r)
              /\ \/ CreateCommit(q) /\ Return(q) /\ UNCHANGED store /\ Creates(q, r)
                 \/ Move(q) /\ Return(q) /\ UNCHANGED store /\ Transits(q, r)
                 \/ AddSave(q) /\ Return(q) /\ UNCHANGED store /\ Adds(q, r)
                 \/ \E i \in Images :
                      Discard(q, {i}) /\ pc[q] \in Removing /\ UNCHANGED store /\ Unlinks(r, i)
<1> DEFINE Quiet == UNCHANGED <<request, history>>
           Writes(q, r) ==
             /\ OthersKept(r)
             /\ \/ CreateCommit(q) /\ Return(q) /\ UNCHANGED store /\ Creates(q, r)
                \/ Move(q) /\ Return(q) /\ UNCHANGED store /\ Transits(q, r)
                \/ AddSave(q) /\ Return(q) /\ UNCHANGED store /\ Adds(q, r)
                \/ \E i \in Images :
                     Discard(q, {i}) /\ pc[q] \in Removing /\ UNCHANGED store /\ Unlinks(r, i)
<1> USE DEF Typed, TablesOK
<1>1. ASSUME NEW q \in Procs, CreateCommit(q) PROVE Quiet \/ \E r \in RequestIds : Writes(q, r)
  <2>1. CASE Quiet
    BY <2>1
  <2>2. CASE ~ Quiet
    <3>1. PICK r \in RequestIds :
            /\ request[r].status = "NONE"
            /\ request' = [request EXCEPT ![r] =
                 [NoRequest EXCEPT !.status = "OPEN", !.images = job[q].images]]
      BY <1>1, <2>2 DEF CreateCommit
    <3>2. Return(q) /\ UNCHANGED <<store, history>>
      BY <1>1, <2>2 DEF CreateCommit, AfterCreate
    <3>3. Creates(q, r) /\ OthersKept(r)
      BY <3>1, <3>2 DEF Creates, OthersKept, NoRequest
    <3> QED
      BY <1>1, <3>2, <3>3
  <2> QED
    BY <2>1, <2>2
<1>2. ASSUME NEW q \in Procs, Move(q) PROVE Quiet \/ \E r \in RequestIds : Writes(q, r)
  <2>1. CASE Quiet
    BY <2>1
  <2>2. CASE Moved(q) /\ Return(q)
    <3>1. /\ job[q].id \in RequestIds /\ job[q].op \in Operations
          /\ job[q].images \in SUBSET Images
      BY <1>2, MoveEffect DEF HandlersOK, Jobs
    <3>2. PICK r \in RequestIds : r = job[q].id
      BY <3>1
    <3>3. PICK s \in Staff :
            /\ request' = [request EXCEPT ![r] =
                 MovedRow(request[r], job[q].op, s, job[q].images)]
            /\ history' = [history EXCEPT ![r] = Append(history[r], Entry(q))]
      BY <2>2, <3>2 DEF Moved
    <3>4. request'[r] = MovedRow(request[r], job[q].op, s, job[q].images)
          /\ history'[r] = Append(history[r], Entry(q)) /\ request[r] \in RequestRow
      BY <3>3
    <3>5. Transits(q, r)
      <4>1. /\ request'[r].status = Moves[job[q].op].to
            /\ request'[r].images = request[r].images
            /\ request'[r].staff = IF job[q].op = "assign" THEN s ELSE request[r].staff
            /\ request'[r].completion =
                 IF job[q].op = "complete" THEN job[q].images ELSE request[r].completion
        BY <3>1, <3>4, MovedRowOK
      <4> QED
        BY <3>1, <3>2, <3>4, <4>1 DEF Transits
    <3>6. OthersKept(r)
      BY <3>3 DEF OthersKept
    <3> QED
      BY <1>2, <2>2, <3>5, <3>6, MoveEffect
  <2> QED
    BY <1>2, <2>1, <2>2, MoveEffect
<1>3. ASSUME NEW q \in Procs, AddSave(q) PROVE Quiet \/ \E r \in RequestIds : Writes(q, r)
  <2>1. CASE Quiet
    BY <2>1
  <2>2. CASE ~ Quiet
    <3>1. PICK r \in RequestIds : r = job[q].id
      BY <1>3 DEF AddSave, HandlersOK, Fits
    <3>2. /\ r \notin HeldRequests /\ StillRoom(r, job[q].images)
          /\ request' = [request EXCEPT ![r].images = @ \cup job[q].images]
          /\ Return(q) /\ UNCHANGED <<store, history>>
      BY <1>3, <2>2, <3>1 DEF AddSave
    <3>3. request'[r] = [request[r] EXCEPT !.images = request[r].images \cup job[q].images]
          /\ request[r] \in RequestRow
      BY <3>2
    <3>4. Adds(q, r)
      BY <3>1, <3>2, <3>3 DEF Adds, RequestRow
    <3>5. OthersKept(r)
      BY <3>2 DEF OthersKept
    <3> QED
      BY <1>3, <3>2, <3>4, <3>5
  <2> QED
    BY <2>1, <2>2
<1>4. ASSUME NEW q \in Procs, RemoveImage(q)
      PROVE  Quiet \/ \E r \in RequestIds : Writes(q, r)
  <2>1. CASE Quiet
    BY <2>1
  <2>2. CASE ~ Quiet
    <3>1. PICK r \in RequestIds : r = job[q].id
      BY <1>4 DEF RemoveImage, HandlersOK, Fits
    <3>2. PICK i \in Images :
            /\ i \in request[r].images /\ request[r].status = "OPEN"
            /\ request' = [request EXCEPT ![r].images = @ \ {i}]
            /\ Discard(q, {i})
      BY <1>4, <2>2, <3>1 DEF RemoveImage, RequestRow
    <3>3. /\ r \notin HeldRequests /\ UNCHANGED <<store, history>> /\ pc[q] \in Removing
          /\ request'[r] = [request[r] EXCEPT !.images = request[r].images \ {i}]
          /\ request[r] \in RequestRow
      BY <1>4, <3>1, <3>2 DEF RemoveImage, Removing
    <3>4. Unlinks(r, i)
      BY <3>2, <3>3 DEF Unlinks, RequestRow
    <3>5. OthersKept(r)
      BY <3>2, <3>3 DEF OthersKept
    <3> QED
      BY <3>2, <3>3, <3>4, <3>5
  <2> QED
    BY <2>1, <2>2
<1>5. ASSUME NEW q \in Procs, RemoveCompletionImage(q)
      PROVE  Quiet \/ \E r \in RequestIds : Writes(q, r)
  <2>1. CASE Quiet
    BY <2>1
  <2>2. CASE ~ Quiet
    <3>1. PICK r \in RequestIds : r = job[q].id
      BY <1>5 DEF RemoveCompletionImage, HandlersOK, Fits
    <3>2. PICK i \in Images :
            /\ i \in request[r].completion /\ request[r].status = "RESOLVED"
            /\ request' = [request EXCEPT ![r].completion = @ \ {i}]
            /\ Discard(q, {i})
      BY <1>5, <2>2, <3>1 DEF RemoveCompletionImage, RequestRow
    <3>3. /\ r \notin HeldRequests /\ UNCHANGED <<store, history>> /\ pc[q] \in Removing
          /\ request'[r] = [request[r] EXCEPT !.completion = request[r].completion \ {i}]
          /\ request[r] \in RequestRow
      BY <1>5, <3>1, <3>2 DEF RemoveCompletionImage, Removing
    <3>4. Unlinks(r, i)
      BY <3>2, <3>3 DEF Unlinks, RequestRow
    <3>5. OthersKept(r)
      BY <3>2, <3>3 DEF OthersKept
    <3> QED
      BY <3>2, <3>3, <3>4, <3>5
  <2> QED
    BY <2>1, <2>2
<1>6. ASSUME NEW q \in Procs,
             \/ CreateUpload(q) \/ CreateLock(q) \/ CompleteUpload(q) \/ CompleteLock(q)
             \/ MoveLock(q) \/ AddUpload(q) \/ RemovalFind(q)
             \/ DeleteImages(q) \/ Crash(q)
      PROVE  Quiet
  BY <1>6
     DEF CreateUpload, CreateLock, CompleteUpload, CompleteLock, MoveLock, AddUpload,
         RemovalFind, DeleteImages, Crash, mvars
<1>7. ASSUME LeaseEnds \/ PropertyRemoved \/ UNCHANGED mvars \/ UNCHANGED vars PROVE Quiet
  BY <1>7 DEF LeaseEnds, PropertyRemoved, mvars, vars
<1> HIDE DEF Quiet, Writes
<1>8. Quiet \/ \E q \in Procs, r \in RequestIds : Writes(q, r)
  BY <1>1, <1>2, <1>3, <1>4, <1>5, <1>6, <1>7 DEF Next, MaintenanceStep
<1> QED
  BY <1>8 DEF Quiet, Writes

-----------------------------------------------------------------------------
(* The invariant. *)

\* How a handler comes to hold a request.
Takes(q) ==
  /\ UNCHANGED <<request, history>>
  /\ \A p \in Procs \ {q} : pc'[p] = pc[p] /\ job'[p] = job[p]
  /\ job'[q].id \in RequestIds \ HeldRequests /\ job'[q].op \in Operations
  /\ job'[q].from = request[job'[q].id].status
  /\ job'[q].from \in Moves[job'[q].op].from

LEMMA HoldEffect ==
  ASSUME Typed, [Next]_vars, NEW q \in Procs, pc'[q] = "Move"
  PROVE  (pc[q] = "Move" /\ job'[q] = job[q]) \/ Takes(q)
<1> DEFINE Claim == (pc[q] = "Move" /\ job'[q] = job[q]) \/ Takes(q)
<1> USE DEF Typed
<1>1. ASSUME NEW p \in Procs, NEW step, NEW j, Goto(p, step, j), step # "Move" PROVE Claim
  BY <1>1, GotoMoves
<1>2. ASSUME NEW p \in Procs, NEW S, Discard(p, S) \/ Return(p) PROVE Claim
  BY <1>1, <1>2 DEF Discard, Return
<1>3. ASSUME NEW p \in Procs, MaintenanceStep(p) PROVE Claim
  <2>1. ASSUME CreateUpload(p) \/ CompleteUpload(p) \/ AddUpload(p) \/ RemovalFind(p)
        PROVE  Claim
    BY <1>1, <2>1 DEF CreateUpload, CompleteUpload, AddUpload, RemovalFind
  <2>2. ASSUME \/ CreateLock(p) \/ CreateCommit(p) \/ AddSave(p) \/ RemoveImage(p)
               \/ RemoveCompletionImage(p)
        PROVE  Claim
    BY <1>1, <1>2, <2>2
       DEF CreateLock, CreateCommit, AfterCreate, AddSave, RemoveImage, RemoveCompletionImage
  <2>3. ASSUME Move(p) PROVE Claim
    BY <1>2, <2>3, MoveEffect
  <2>4. ASSUME CompleteLock(p) PROVE Claim
    <3>1. PICK r \in RequestIds : r = job[p].id
      BY <2>4 DEF CompleteLock, HandlersOK, Fits
    <3> DEFINE k == [job[p] EXCEPT !.op = "complete", !.from = request[r].status]
    <3>2. r \notin HeldRequests /\ UNCHANGED <<request, history>>
      BY <2>4, <3>1 DEF CompleteLock, mvars
    <3>3. Discard(p, job[p].images) \/ (Goto(p, "Move", k) /\ Allowed(r, "complete"))
      BY <2>4, <3>1 DEF CompleteLock
    <3>4. job[p] \in Jobs
      BY DEF HandlersOK
    <3>5. k.id = r /\ k.op = "complete" /\ k.from = request[r].status
      BY <3>1, <3>4, CompleteJobOK
    <3> HIDE DEF k
    <3>6. CASE Goto(p, "Move", k) /\ Allowed(r, "complete")
      <4>1. /\ pc'[p] = "Move" /\ job'[p] = k
            /\ \A o \in Procs \ {p} : pc'[o] = pc[o] /\ job'[o] = job[o]
        BY <3>6, GotoMoves
      <4> QED
        BY <3>2, <3>5, <3>6, <4>1 DEF Takes, Allowed, Operations
    <3> QED
      BY <1>2, <3>3, <3>6
  <2>5. ASSUME MoveLock(p) PROVE Claim
    <3>1. PICK r \in RequestIds \ HeldRequests, op \in Operations :
            /\ Allowed(r, op)
            /\ Goto(p, "Move", [NoJob EXCEPT !.id = r, !.op = op, !.from = request[r].status])
      BY <2>5, MovesAre DEF MoveLock
    <3> DEFINE k == [NoJob EXCEPT !.id = r, !.op = op, !.from = request[r].status]
    <3>2. k.id = r /\ k.op = op /\ k.from = request[r].status
      BY DEF NoJob
    <3>3. Goto(p, "Move", k)
      BY <3>1
    <3> HIDE DEF k
    <3>4. /\ pc'[p] = "Move" /\ job'[p] = k
          /\ \A o \in Procs \ {p} : pc'[o] = pc[o] /\ job'[o] = job[o]
      BY <3>3, GotoMoves
    <3>5. UNCHANGED <<request, history>>
      BY <2>5 DEF MoveLock, mvars
    <3> QED
      BY <3>1, <3>2, <3>4, <3>5 DEF Takes, Allowed
  <2> QED
    BY <1>3, <2>1, <2>2, <2>3, <2>4, <2>5 DEF MaintenanceStep
<1>4. ASSUME NEW p \in Procs, GalleryStep(p) PROVE Claim
  BY <1>1, <1>2, <1>4
     DEF GalleryStep, GalleryAdd, GallerySave, GalleryRemove, GalleryUnlink, AfterUnlink,
         RowRead, RowSave
<1>5. ASSUME NEW p \in Procs, DeleteImages(p) \/ Crash(p) PROVE Claim
  BY <1>2, <1>5 DEF DeleteImages, Crash
<1>6. ASSUME UNCHANGED <<pc, job>> PROVE Claim
  BY <1>6
<1> HIDE DEF Claim
<1>7. Claim
  BY <1>3, <1>4, <1>5, <1>6 DEF Next, vars
<1> QED
  BY <1>7 DEF Claim

LEMMA HeldKept ==
  ASSUME Typed, [Next]_vars, MovesOK, NEW q \in Procs, pc[q] = "Move", pc'[q] = "Move"
  PROVE  request'[job[q].id] = request[job[q].id]
<1>1. job[q].id \in RequestIds /\ job[q].id \in HeldRequests
  BY DEF Typed, HandlersOK, Fits, HeldRequests
<1>2. CASE UNCHANGED <<request, history>>
  BY <1>2
<1>3. CASE ~ UNCHANGED <<request, history>>
  <2>1. PICK p \in Procs, r \in RequestIds :
          /\ OthersKept(r)
          /\ \/ CreateCommit(p) /\ Return(p) /\ UNCHANGED store /\ Creates(p, r)
             \/ Move(p) /\ Return(p) /\ UNCHANGED store /\ Transits(p, r)
             \/ AddSave(p) /\ Return(p) /\ UNCHANGED store /\ Adds(p, r)
             \/ \E i \in Images :
                  Discard(p, {i}) /\ pc[p] \in Removing /\ UNCHANGED store /\ Unlinks(r, i)
    BY <1>3, RequestEffect
  <2>2. r # job[q].id
    <3>1. CASE Creates(p, r)
      <4>1. request[job[q].id].status # "NONE"
        BY <1>1, MovesAre DEF MovesOK, Typed, HandlersOK, Fits
      <4> QED
        BY <3>1, <4>1 DEF Creates
    <3>2. CASE Move(p) /\ Return(p) /\ Transits(p, r)
      <4>1. pc[p] = "Move" /\ job[p].id = r /\ pc'[p] = "idle"
        BY <3>2, GotoMoves DEF Move, Transits, Return, Typed
      <4> QED
        BY <4>1 DEF MovesOK
    <3>3. CASE Adds(p, r) \/ \E i \in Images : Unlinks(r, i)
      BY <1>1, <3>3 DEF Adds, Unlinks
    <3> QED
      BY <2>1, <3>1, <3>2, <3>3
  <2> QED
    BY <1>1, <2>1, <2>2 DEF OthersKept
<1> QED
  BY <1>2, <1>3

LEMMA MovesStep == Typed /\ MovesOK /\ [Next]_vars => MovesOK'
<1> SUFFICES ASSUME Typed, MovesOK, [Next]_vars, NEW q \in Procs, pc'[q] = "Move"
             PROVE  /\ job'[q].from = request'[job'[q].id].status
                    /\ job'[q].from \in Moves[job'[q].op].from
                    /\ \A p \in Procs : pc'[p] = "Move" /\ job'[p].id = job'[q].id => p = q
  BY DEF MovesOK
<1>1. ASSUME NEW p \in Procs, NEW o \in Procs, p # o, Takes(p), pc'[o] = "Move",
             job'[o].id = job'[p].id
      PROVE  FALSE
  <2>1. pc[o] = "Move" /\ job[o].id = job'[p].id
    BY <1>1 DEF Takes
  <2> QED
    BY <1>1, <2>1 DEF Takes, HeldRequests
<1>2. CASE pc[q] = "Move" /\ job'[q] = job[q]
  <2>1. job'[q].from = request'[job'[q].id].status /\ job'[q].from \in Moves[job'[q].op].from
    BY <1>2, HeldKept DEF MovesOK
  <2>2. ASSUME NEW p \in Procs, pc'[p] = "Move", job'[p].id = job'[q].id PROVE p = q
    <3>1. CASE pc[p] = "Move" /\ job'[p] = job[p]
      BY <1>2, <2>2, <3>1 DEF MovesOK
    <3> QED
      BY <1>1, <2>2, <3>1, HoldEffect
  <2> QED
    BY <2>1, <2>2
<1>3. CASE Takes(q)
  <2>1. job'[q].from = request'[job'[q].id].status /\ job'[q].from \in Moves[job'[q].op].from
    BY <1>3 DEF Takes
  <2>2. ASSUME NEW p \in Procs, pc'[p] = "Move", job'[p].id = job'[q].id PROVE p = q
    BY <1>1, <1>3, <2>2
  <2> QED
    BY <2>1, <2>2
<1> QED
  BY <1>2, <1>3, HoldEffect

\* The lease does not end under a handler that holds it.
LEMMA CreateEffect ==
  ASSUME Typed, [Next]_vars, NEW q \in Procs, pc'[q] = "CreateCommit", leaseActive
  PROVE  leaseActive'
<1> USE DEF Typed
<1>1. ASSUME LeaseEnds, UNCHANGED <<pc, job>> PROVE FALSE
  BY <1>1 DEF LeaseEnds, LeaseHeld
<1>2. ASSUME NEW p \in Procs, MaintenanceStep(p) PROVE UNCHANGED leaseActive
  BY <1>2
     DEF MaintenanceStep, CreateUpload, CreateLock, CreateCommit, CompleteUpload, CompleteLock,
         MoveLock, Move, AddUpload, AddSave, RemovalFind, RemoveImage,
         RemoveCompletionImage, mvars
<1> QED
  BY <1>1, <1>2 DEF Next, DeleteImages, Crash, PropertyRemoved, mvars, vars

\* A handler comes to hold the lease while it is ACTIVE.
LEMMA CreatesUnderLease ==
  ASSUME Typed, [Next]_vars, NEW q \in Procs, pc'[q] = "CreateCommit"
  PROVE  pc[q] = "CreateCommit" \/ leaseActive
<1> DEFINE Claim == pc[q] = "CreateCommit" \/ leaseActive
<1> USE DEF Typed
<1>1. ASSUME NEW p \in Procs, NEW step, NEW j, Goto(p, step, j), step # "CreateCommit"
      PROVE  Claim
  BY <1>1, GotoMoves
<1>2. ASSUME NEW p \in Procs, NEW S, Discard(p, S) \/ Return(p) PROVE Claim
  BY <1>1, <1>2 DEF Discard, Return
<1>3. ASSUME NEW p \in Procs, MaintenanceStep(p) PROVE Claim
  <2>1. CASE \/ CreateUpload(p) \/ CompleteUpload(p) \/ AddUpload(p) \/ MoveLock(p)
             \/ RemovalFind(p)
    BY <1>1, <2>1 DEF CreateUpload, CompleteUpload, AddUpload, MoveLock, RemovalFind
  <2>2. CASE \/ CreateCommit(p) \/ AddSave(p) \/ RemoveImage(p)
             \/ RemoveCompletionImage(p) \/ Move(p)
    BY <1>2, <2>2, MoveEffect
       DEF CreateCommit, AfterCreate, AddSave, RemoveImage, RemoveCompletionImage
  <2>3. CASE CompleteLock(p)
    BY <1>1, <1>2, <2>3 DEF CompleteLock
  <2>4. CASE CreateLock(p)
    BY <1>2, <2>4 DEF CreateLock
  <2> QED
    BY <1>3, <2>1, <2>2, <2>3, <2>4 DEF MaintenanceStep
<1>4. ASSUME NEW p \in Procs, GalleryStep(p) PROVE Claim
  BY <1>1, <1>2, <1>4
     DEF GalleryStep, GalleryAdd, GallerySave, GalleryRemove, GalleryUnlink, AfterUnlink,
         RowRead, RowSave
<1>5. ASSUME NEW p \in Procs, DeleteImages(p) \/ Crash(p) PROVE Claim
  BY <1>2, <1>5 DEF DeleteImages, Crash
<1>6. ASSUME UNCHANGED <<pc, job>> PROVE Claim
  BY <1>6
<1> HIDE DEF Claim
<1>7. Claim
  BY <1>3, <1>4, <1>5, <1>6 DEF Next, vars
<1> QED
  BY <1>7 DEF Claim

LEMMA LeaseStep == Typed /\ LeaseOK /\ [Next]_vars => LeaseOK'
  BY CreateEffect, CreatesUnderLease DEF LeaseOK

\* The possible changes of one request.
LEMMA RowEffect ==
  ASSUME Typed, [Next]_vars, NEW r \in RequestIds
  PROVE  \/ request'[r] = request[r] /\ history'[r] = history[r]
         \/ \E q \in Procs :
              \/ CreateCommit(q) /\ Creates(q, r)
              \/ Move(q) /\ Transits(q, r)
              \/ AddSave(q) /\ Adds(q, r)
              \/ \E i \in Images : Unlinks(r, i)
<1>1. CASE UNCHANGED <<request, history>>
  BY <1>1
<1>2. CASE ~ UNCHANGED <<request, history>>
  <2>1. PICK p \in Procs, o \in RequestIds :
          /\ OthersKept(o)
          /\ \/ CreateCommit(p) /\ Return(p) /\ UNCHANGED store /\ Creates(p, o)
             \/ Move(p) /\ Return(p) /\ UNCHANGED store /\ Transits(p, o)
             \/ AddSave(p) /\ Return(p) /\ UNCHANGED store /\ Adds(p, o)
             \/ \E i \in Images :
                  Discard(p, {i}) /\ pc[p] \in Removing /\ UNCHANGED store /\ Unlinks(o, i)
    BY <1>2, RequestEffect
  <2>2. CASE o = r
    BY <2>1, <2>2
  <2>3. CASE o # r
    BY <2>1, <2>3 DEF OthersKept
  <2> QED
    BY <2>2, <2>3
<1> QED
  BY <1>1, <1>2

LEMMA StatusesOf == Typed => \A r \in RequestIds : request[r].status \in Status
  BY DEF Typed, TablesOK, RequestRow

\* A transition that commits starts where the request is, which is there.
LEMMA TransitFrom ==
  ASSUME Typed, MovesOK, NEW q \in Procs, NEW r \in RequestIds, Move(q), Transits(q, r)
  PROVE  /\ request[r].status = job[q].from /\ job[q].op \in Operations
         /\ request[r].status \in Moves[job[q].op].from
         /\ request[r].status # "NONE" /\ request'[r].status \notin {"NONE", "OPEN"}
<1>1. /\ request[r].status = job[q].from /\ job[q].op \in Operations
      /\ request[r].status \in Moves[job[q].op].from
  BY DEF Move, MovesOK, Transits
<1> QED
  BY <1>1, MovesAre DEF Transits

LEMMA AbsentStep == Typed /\ MovesOK /\ AbsentOK /\ [Next]_vars => AbsentOK'
<1> SUFFICES ASSUME Typed, MovesOK, AbsentOK, [Next]_vars, NEW r \in RequestIds,
                    request'[r].status = "NONE"
             PROVE  request'[r] = NoRequest /\ history'[r] = <<>>
  BY DEF AbsentOK
<1>1. request'[r] = request[r] /\ history'[r] = history[r]
  BY RowEffect, TransitFrom DEF Creates, Adds, StillRoom, RoomFor, Unlinks
<1> QED
  BY <1>1 DEF AbsentOK

LEMMA StaffStep == Typed /\ MovesOK /\ StaffOK /\ [Next]_vars => StaffOK'
<1> SUFFICES ASSUME Typed, MovesOK, StaffOK, [Next]_vars, NEW r \in RequestIds,
                    request'[r].status \notin {"NONE", "OPEN", "CANCELLED"}
             PROVE  request'[r].staff \in Staff
  BY DEF StaffOK
<1>1. ASSUME NEW q \in Procs, Move(q), Transits(q, r) PROVE request'[r].staff \in Staff
  BY <1>1, TransitFrom, MovesAre DEF Transits, StaffOK
<1> QED
  BY <1>1, RowEffect DEF StaffOK, Creates, Adds, StillRoom, RoomFor, Unlinks

LEMMA FlowInitial == Init => FlowInv
<1> SUFFICES ASSUME Init PROVE FlowInv
  OBVIOUS
<1>1. TablesOK
  <2>1. <<>> \in Seq([from : Status, to : Status])
    BY EmptySeq
  <2> QED
    BY <2>1, NoRowsOK DEF Init, TablesOK
<1>2. HandlersOK
  BY NoRowsOK DEF Init, HandlersOK, AllSteps, Fits
<1> QED
  BY <1>1, <1>2
     DEF FlowInv, Typed, Init, MovesOK, AbsentOK, StaffOK, LeaseOK, NoRequest

LEMMA FlowInvariant == Spec => []FlowInv
<1>1. FlowInv /\ [Next]_vars => FlowInv'
  BY TypedStep, MovesStep, AbsentStep, StaffStep, LeaseStep DEF FlowInv
<1> QED
  BY <1>1, FlowInitial, PTL DEF Spec

-----------------------------------------------------------------------------
(* What a reader should know of. *)

\* Types: every variable keeps its type, a handler under way remembers the
\* request and the transition it works on, and work has its member of staff.
THEOREM MaintenanceTypesCorrect == Spec => []TypeOK
<1>1. FlowInv => TypeOK
  BY DEF FlowInv, Typed, TablesOK, HandlersOK, AllSteps, Removing, StaffOK, TypeOK
<1> QED
  BY <1>1, FlowInvariant, PTL

\* A request is created only under an ACTIVE lease: create holds its row
\* from the check to the commit.
THEOREM RequestsNeedLease == Spec => CreatedUnderLease
<1>1. FlowInv /\ [Next]_vars =>
        [ \A r \in RequestIds :
            request[r].status = "NONE" /\ request'[r].status # "NONE" => leaseActive ]_vars
  <2> SUFFICES ASSUME FlowInv, [Next]_vars, NEW r \in RequestIds,
                      request[r].status = "NONE", request'[r].status # "NONE"
               PROVE  leaseActive
    OBVIOUS
  <2>1. PICK q \in Procs : CreateCommit(q)
    BY RowEffect, TransitFrom DEF FlowInv, Adds, StillRoom, RoomFor, Unlinks
  <2> QED
    BY <2>1 DEF CreateCommit, FlowInv, LeaseOK
<1> QED
  BY <1>1, FlowInvariant, PTL DEF Spec, CreatedUnderLease

\* Evidence stays: the images of a request change only while it is OPEN, its
\* completion images only by the completion and until it is closed.
THEOREM EvidenceStays == Spec => ImagesFreeze
<1> DEFINE Frozen ==
      \A r \in RequestIds :
        /\ request'[r].images # request[r].images =>
             request[r].status \in {"NONE", "OPEN"} /\ request'[r].status = "OPEN"
        /\ request'[r].completion # request[r].completion =>
             request[r].status \in {"IN_PROGRESS", "RESOLVED"}
               /\ request'[r].status = "RESOLVED"
<1>1. FlowInv /\ [Next]_vars => [Frozen]_vars
  <2> SUFFICES ASSUME FlowInv, [Next]_vars, NEW r \in RequestIds
               PROVE  /\ request'[r].images # request[r].images =>
                           request[r].status \in {"NONE", "OPEN"}
                             /\ request'[r].status = "OPEN"
                      /\ request'[r].completion # request[r].completion =>
                           request[r].status \in {"IN_PROGRESS", "RESOLVED"}
                             /\ request'[r].status = "RESOLVED"
    OBVIOUS
  <2>1. ASSUME NEW q \in Procs, Creates(q, r)
        PROVE  request[r].completion = {}
    BY <2>1 DEF Creates, FlowInv, AbsentOK, NoRequest
  <2>2. ASSUME NEW q \in Procs, Move(q), Transits(q, r)
        PROVE  /\ request'[r].images = request[r].images
               /\ request'[r].completion # request[r].completion =>
                    request[r].status \in {"IN_PROGRESS", "RESOLVED"}
                      /\ request'[r].status = "RESOLVED"
    BY <2>2, TransitFrom, MovesAre DEF Transits, FlowInv
  <2> QED
    BY <2>1, <2>2, RowEffect
       DEF FlowInv, Creates, Adds, StillRoom, RoomFor, Unlinks
<1> QED
  BY <1>1, FlowInvariant, PTL DEF Spec, ImagesFreeze

LEMMA HistoryStep == FlowInv /\ HistoryTellsStatus /\ [Next]_vars => HistoryTellsStatus'
<1> DEFINE Starts(h, k) == h[k].from = IF k = 1 THEN "OPEN" ELSE h[k - 1].to
           Ends(h) == IF h = <<>> THEN "OPEN" ELSE h[Len(h)].to
           Tells(h, status) ==
             /\ \A k \in 1 .. Len(h) : Starts(h, k)
             /\ status # "NONE" => status = Ends(h)
<1>1. HistoryTellsStatus = \A r \in RequestIds : Tells(history[r], request[r].status)
  BY DEF HistoryTellsStatus
<1>2. HistoryTellsStatus' = \A r \in RequestIds : Tells(history'[r], request'[r].status)
  BY DEF HistoryTellsStatus
<1> SUFFICES ASSUME FlowInv, [Next]_vars, NEW r \in RequestIds,
                    Tells(history[r], request[r].status)
             PROVE  Tells(history'[r], request'[r].status)
  BY <1>1, <1>2
<1> USE DEF FlowInv
<1>3. ASSUME request'[r].status = request[r].status, history'[r] = history[r]
      PROVE  Tells(history'[r], request'[r].status)
  BY <1>3
<1>4. ASSUME NEW q \in Procs, Creates(q, r)
      PROVE  Tells(history'[r], request'[r].status)
  <2>1. history'[r] = <<>> /\ request'[r].status = "OPEN"
    BY <1>4 DEF Creates, AbsentOK
  <2> QED
    BY <2>1
<1>5. ASSUME NEW q \in Procs, Move(q), Transits(q, r)
      PROVE  Tells(history'[r], request'[r].status)
  <2>1. PICK h : h = history[r]
    OBVIOUS
  <2>2. PICK e : e = Entry(q)
    OBVIOUS
  <2>3. PICK g : g = history'[r]
    OBVIOUS
  <2>4. /\ h \in Seq([from : Status, to : Status]) /\ e \in [from : Status, to : Status]
        /\ g = Append(h, e)
    BY <1>5, <2>1, <2>2, <2>3, EntryOK DEF Typed, TablesOK, Transits, Move
  <2>5. /\ Len(h) \in Nat /\ Len(g) = Len(h) + 1 /\ g # <<>>
        /\ \A k \in 1 .. Len(h) : g[k] = h[k]
        /\ g[Len(g)] = e
    BY <2>4, AppendProperties, LenProperties
  <2>6. e.from = Ends(h) /\ e.to = request'[r].status
    BY <1>5, <2>1, <2>2, EntryOK, TransitFrom DEF Transits, Move
  <2>7. ASSUME NEW k \in 1 .. Len(g) PROVE Starts(g, k)
    <3>1. CASE k \in 1 .. Len(h)
      <4>1. Starts(h, k)
        BY <2>1, <3>1
      <4>2. k # 1 => k - 1 \in 1 .. Len(h)
        BY <2>5, <3>1
      <4> QED
        BY <2>5, <3>1, <4>1, <4>2
    <3>2. CASE k = Len(g)
      <4>1. h = <<>> <=> Len(h) = 0
        BY <2>4, EmptySeq
      <4>2. k = 1 <=> h = <<>>
        BY <2>5, <3>2, <4>1
      <4>3. k # 1 => k - 1 = Len(h) /\ Len(h) \in 1 .. Len(h)
        BY <2>5, <3>2, <4>1, <4>2
      <4> QED
        BY <2>5, <2>6, <3>2, <4>2, <4>3
    <3> QED
      BY <2>5, <2>7, <3>1, <3>2
  <2> QED
    BY <2>3, <2>5, <2>6, <2>7
<1> HIDE DEF Tells
<1> QED
  BY <1>3, <1>4, <1>5, RowEffect DEF Adds, Unlinks

\* The history of a request is complete: a chain of entries from OPEN to the
\* status it has, however the transitions race.
THEOREM HistoriesAreComplete == Spec => []HistoryTellsStatus
<1>1. Init => HistoryTellsStatus
  <2>1. Len(<<>>) = 0
    BY EmptySeq
  <2> QED
    BY <2>1 DEF Init, HistoryTellsStatus, NoRequest
<1> QED
  BY <1>1, HistoryStep, FlowInvariant, PTL DEF Spec

-----------------------------------------------------------------------------
(* The requests are work orders. *)

\* The course of a request ends at its status.
LEMMA CourseNow ==
  ASSUME Typed, HistoryTellsStatus, NEW r \in RequestIds, request[r].status # "NONE"
  PROVE  CourseOf(r) # <<>> /\ CourseOf(r)[Len(CourseOf(r))] = request[r].status
<1>1. PICK h \in Seq([from : Status, to : Status]) : h = history[r]
  BY DEF Typed, TablesOK
<1>2. Len(h) \in Nat /\ (h = <<>> <=> Len(h) = 0)
  BY <1>1, LenProperties, EmptySeq
<1>3. CourseOf(r) = [k \in 1 .. Len(h) + 1 |-> IF k = 1 THEN "OPEN" ELSE h[k - 1].to]
  BY <1>1 DEF CourseOf
<1>4. Len(CourseOf(r)) = Len(h) + 1
  BY <1>2, <1>3
<1>5. request[r].status = IF h = <<>> THEN "OPEN" ELSE h[Len(h)].to
  BY <1>1 DEF HistoryTellsStatus
<1> QED
  BY <1>2, <1>3, <1>4, <1>5, EmptySeq

\* A transition appends the stage it reaches.
LEMMA CourseGrows ==
  ASSUME Typed, NEW r \in RequestIds, NEW e \in [from : Status, to : Status],
         request[r].status # "NONE", request'[r].status # "NONE",
         history'[r] = Append(history[r], e)
  PROVE  CourseOf(r)' = Append(CourseOf(r), e.to)
<1>1. PICK h \in Seq([from : Status, to : Status]) : h = history[r]
  BY DEF Typed, TablesOK
<1>2. PICK g : g = Append(h, e)
  OBVIOUS
<1>3. Len(h) \in Nat /\ Len(g) = Len(h) + 1 /\ g[Len(h) + 1] = e
      /\ \A k \in 1 .. Len(h) : g[k] = h[k]
  BY <1>2, AppendProperties, LenProperties
<1> DEFINE c == [k \in 1 .. Len(h) + 1 |-> IF k = 1 THEN "OPEN" ELSE h[k - 1].to]
           d == [k \in 1 .. Len(g) + 1 |-> IF k = 1 THEN "OPEN" ELSE g[k - 1].to]
<1>4. CourseOf(r) = c /\ CourseOf(r)' = d
  BY <1>1, <1>2 DEF CourseOf
<1>5. \A k \in 1 .. Len(h) + 1 : c[k] \in Status
  <2>1. \A k \in 1 .. Len(h) : h[k] \in [from : Status, to : Status]
    BY <1>1, ElementOfSeq
  <2> SUFFICES ASSUME NEW k \in 1 .. Len(h) + 1, k # 1 PROVE h[k - 1].to \in Status
    BY DEF Status
  <2>2. k - 1 \in 1 .. Len(h)
    BY <1>3
  <2> QED
    BY <2>1, <2>2
<1>6. c \in Seq(Status) /\ Len(c) = Len(h) + 1
  BY <1>3, <1>5, IsASeq
<1>7. d[Len(h) + 2] = e.to /\ \A k \in 1 .. Len(h) + 1 : d[k] = c[k]
  <2>1. ASSUME NEW k \in 2 .. Len(h) + 1 PROVE g[k - 1] = h[k - 1]
    <3>1. k - 1 \in 1 .. Len(h)
      BY <1>3
    <3> QED
      BY <1>3, <3>1
  <2> QED
    BY <1>3, <2>1
<1>8. d = Append(c, e.to)
  <2>1. Append(c, e.to) = [k \in 1 .. Len(h) + 2 |-> IF k = Len(h) + 2 THEN e.to ELSE c[k]]
    BY <1>3, <1>6
  <2>2. DOMAIN d = 1 .. Len(h) + 2
    BY <1>3
  <2> HIDE DEF c
  <2>3. ASSUME NEW k \in 1 .. Len(h) + 2 PROVE d[k] = Append(c, e.to)[k]
    <3>1. (k = Len(h) + 2) \/ (k \in 1 .. Len(h) + 1 /\ k # Len(h) + 2)
      BY <1>3
    <3> HIDE DEF d
    <3> QED
      BY <1>7, <2>1, <3>1
  <2> QED
    BY <2>1, <2>2, <2>3
<1> QED
  BY <1>4, <1>8

LEMMA OthersUnseen ==
  ASSUME NEW r \in RequestIds, OthersKept(r)
  PROVE  \A o \in RequestIds \ {r} :
           /\ CourseOf(o)' = CourseOf(o)
           /\ request'[o].staff = request[o].staff
           /\ request'[o].images = request[o].images
           /\ request'[o].completion = request[o].completion
  BY DEF OthersKept, CourseOf

Courses == [r \in RequestIds |-> CourseOf(r)]
Workers == [r \in RequestIds |-> request[r].staff]
Defects == [r \in RequestIds |-> request[r].images]
Repairs == [r \in RequestIds |-> request[r].completion]

LEMMA MappedTo ==
  ASSUME NEW r \in RequestIds, OthersKept(r)
  PROVE  /\ Courses' = [Courses EXCEPT ![r] = CourseOf(r)']
         /\ Workers' = [Workers EXCEPT ![r] = request'[r].staff]
         /\ Defects' = [Defects EXCEPT ![r] = request'[r].images]
         /\ Repairs' = [Repairs EXCEPT ![r] = request'[r].completion]
         /\ Courses[r] = CourseOf(r)
         /\ CourseOf(r)' = CourseOf(r) => UNCHANGED Courses
         /\ request'[r].staff = request[r].staff => UNCHANGED Workers
         /\ request'[r].images = request[r].images => UNCHANGED Defects
         /\ request'[r].completion = request[r].completion => UNCHANGED Repairs
  BY OthersUnseen DEF Courses, Workers, Defects, Repairs

LEMMA AtStatus ==
  ASSUME Typed, HistoryTellsStatus, NEW r \in RequestIds, request[r].status # "NONE"
  PROVE  Orders!At(r, request[r].status)
  BY CourseNow DEF Orders!At

LEMMA CreateMaps ==
  ASSUME FlowInv, NEW q \in Procs, NEW r \in RequestIds, OthersKept(r), Creates(q, r)
  PROVE  Orders!Report(r)
<1>1. job[q].images \in SUBSET Images /\ history[r] = <<>> /\ request[r] = NoRequest
  BY DEF FlowInv, Typed, HandlersOK, Jobs, AbsentOK, Creates
<1>2. CourseOf(r) = <<>> /\ CourseOf(r)' = <<"OPEN">>
  <2>1. CourseOf(r)' = [k \in 1 .. 1 |-> "OPEN"]
    BY <1>1, EmptySeq DEF CourseOf, Creates
  <2> QED
    BY <2>1 DEF CourseOf, Creates
<1>3. CourseOf(r)' = Append(CourseOf(r), "OPEN")
  BY <1>2
<1>4. Orders!Reach(r, "OPEN")
  BY <1>3, MappedTo DEF Orders!Reach, Courses
<1>5. Defects' = [Defects EXCEPT ![r] = job[q].images]
  BY MappedTo DEF Creates
<1>6. request'[r].staff = request[r].staff /\ request'[r].completion = request[r].completion
  BY <1>1 DEF NoRequest, Creates
<1>7. UNCHANGED Workers /\ UNCHANGED Repairs
  BY <1>6, MappedTo
<1> QED
  BY <1>1, <1>2, <1>4, <1>5, <1>7
     DEF Orders!Report, Orders!Show, Workers, Defects, Repairs

LEMMA MoveMaps ==
  ASSUME FlowInv, HistoryTellsStatus, NEW q \in Procs, NEW r \in RequestIds,
         OthersKept(r), Move(q), Transits(q, r)
  PROVE  Orders!Next
<1> DEFINE op == job[q].op
<1>0. Typed /\ MovesOK /\ job[q].images \in SUBSET Images
  BY DEF FlowInv, Typed, HandlersOK, Jobs
<1>1. /\ op \in Operations /\ request[r].status \in Moves[op].from
      /\ request[r].status # "NONE" /\ request'[r].status # "NONE"
  BY <1>0, TransitFrom
<1>2. Entry(q) \in [from : Status, to : Status] /\ Entry(q).to = Moves[op].to
  BY <1>0, EntryOK DEF Move
<1>3. CourseOf(r)' = Append(CourseOf(r), Moves[op].to)
  BY <1>0, <1>1, <1>2, CourseGrows DEF Transits
<1>4. Orders!Reach(r, Moves[op].to)
  BY <1>3, MappedTo DEF Orders!Reach, Courses
<1>5. \E stage \in Moves[op].from : Orders!At(r, stage)
  BY <1>0, <1>1, AtStatus
<1>6. UNCHANGED Defects
  BY MappedTo DEF Transits
<1>7. op # "assign" => UNCHANGED Workers
  BY MappedTo DEF Transits
<1>8. op # "complete" => UNCHANGED Repairs
  BY MappedTo DEF Transits
<1> USE DEF Workers, Defects, Repairs
<1>9. CASE op = "assign"
  <2>1. Orders!At(r, "OPEN") /\ Orders!Reach(r, "ASSIGNED")
    BY <1>4, <1>5, <1>9 DEF Moves
  <2>2. request'[r].staff \in Staff /\ Workers' = [Workers EXCEPT ![r] = request'[r].staff]
    BY <1>9, MappedTo DEF Transits
  <2>3. Orders!Assign(r)
    BY <1>6, <1>8, <1>9, <2>1, <2>2 DEF Orders!Assign
  <2> QED
    BY <2>3 DEF Orders!Next
<1>10. CASE op = "start"
  <2>1. Orders!At(r, "ASSIGNED") /\ Orders!Reach(r, "IN_PROGRESS")
    BY <1>4, <1>5, <1>10 DEF Moves
  <2>2. Orders!Start(r)
    BY <1>6, <1>7, <1>8, <1>10, <2>1 DEF Orders!Start
  <2> QED
    BY <2>2 DEF Orders!Next
<1>11. CASE op = "complete"
  <2>1. Orders!At(r, "IN_PROGRESS") /\ Orders!Reach(r, "RESOLVED")
    BY <1>4, <1>5, <1>11 DEF Moves
  <2>2. Repairs' = [Repairs EXCEPT ![r] = job[q].images]
    <3>1. request'[r].completion = job[q].images
      BY <1>11 DEF Transits
    <3> QED
      BY <3>1, MappedTo
  <2>3. Orders!Complete(r)
    BY <1>0, <1>6, <1>7, <1>11, <2>1, <2>2 DEF Orders!Complete
  <2> QED
    BY <2>3 DEF Orders!Next
<1>12. CASE op = "close"
  <2>1. Orders!At(r, "RESOLVED") /\ Orders!Reach(r, "CLOSED")
    BY <1>4, <1>5, <1>12 DEF Moves
  <2>2. Orders!Close(r)
    BY <1>6, <1>7, <1>8, <1>12, <2>1 DEF Orders!Close
  <2> QED
    BY <2>2 DEF Orders!Next
<1>13. CASE op = "cancel"
  <2>1. (Orders!At(r, "OPEN") \/ Orders!At(r, "ASSIGNED")) /\ Orders!Reach(r, "CANCELLED")
    BY <1>4, <1>5, <1>13 DEF Moves
  <2>2. Orders!Cancel(r)
    BY <1>6, <1>7, <1>8, <1>13, <2>1 DEF Orders!Cancel
  <2> QED
    BY <2>2 DEF Orders!Next
<1> QED
  BY <1>1, <1>9, <1>10, <1>11, <1>12, <1>13 DEF Operations

\* Images are linked to an OPEN request, or unlinked.
LEMMA EditMaps ==
  ASSUME FlowInv, FlowInv', HistoryTellsStatus, NEW r \in RequestIds, OthersKept(r),
         \/ \E q \in Procs : Adds(q, r)
         \/ \E i \in Images : Unlinks(r, i)
  PROVE  Orders!Next
<1>0. Typed
  BY DEF FlowInv
<1>1. /\ request'[r].status = request[r].status /\ request'[r].staff = request[r].staff
      /\ history'[r] = history[r]
  BY DEF Adds, Unlinks
<1>2. UNCHANGED Courses /\ UNCHANGED Workers
  BY <1>1, MappedTo DEF CourseOf
<1> USE DEF Courses, Workers, Defects, Repairs
<1>3. CASE request[r].status = "OPEN" /\ request'[r].completion = request[r].completion
  <2>1. Orders!At(r, "OPEN")
    BY <1>0, <1>3, AtStatus
  <2>2. UNCHANGED Repairs
    BY <1>3, MappedTo
  <2>3. request'[r].images \in SUBSET Images
    BY DEF FlowInv, Typed, TablesOK, RequestRow
  <2>4. Defects' = [Defects EXCEPT ![r] = request'[r].images]
    BY MappedTo
  <2>5. Orders!EditDefect(r)
    BY <1>2, <2>1, <2>2, <2>3, <2>4 DEF Orders!EditDefect, Orders!Show
  <2> QED
    BY <2>5 DEF Orders!Next
<1>4. CASE /\ request[r].status = "RESOLVED" /\ request'[r].images = request[r].images
           /\ request'[r].completion \in SUBSET request[r].completion
  <2>1. Orders!At(r, "RESOLVED")
    BY <1>0, <1>4, AtStatus
  <2>2. UNCHANGED Defects
    BY <1>4, MappedTo
  <2>3. Repairs' = [Repairs EXCEPT ![r] = request'[r].completion]
    BY MappedTo
  <2>4. Orders!TrimRepair(r)
    BY <1>2, <1>4, <2>1, <2>2, <2>3 DEF Orders!TrimRepair
  <2> QED
    BY <2>4 DEF Orders!Next
<1> QED
  BY <1>3, <1>4 DEF Adds, StillRoom, RoomFor, Unlinks

LEMMA OrdersStep ==
  ASSUME FlowInv, FlowInv', HistoryTellsStatus, [Next]_vars
  PROVE  [Orders!Next]_(Orders!orders)
<1>0. Typed
  BY DEF FlowInv
<1>1. CASE UNCHANGED <<request, history>>
  BY <1>1 DEF Orders!orders, CourseOf
<1>2. CASE ~ UNCHANGED <<request, history>>
  <2>1. PICK q \in Procs, r \in RequestIds :
          /\ OthersKept(r)
          /\ \/ CreateCommit(q) /\ Return(q) /\ UNCHANGED store /\ Creates(q, r)
             \/ Move(q) /\ Return(q) /\ UNCHANGED store /\ Transits(q, r)
             \/ AddSave(q) /\ Return(q) /\ UNCHANGED store /\ Adds(q, r)
             \/ \E i \in Images :
                  Discard(q, {i}) /\ pc[q] \in Removing /\ UNCHANGED store /\ Unlinks(r, i)
    BY <1>0, <1>2, RequestEffect
  <2>2. CASE Creates(q, r)
    BY <2>1, <2>2, CreateMaps DEF Orders!Next
  <2>3. CASE Move(q) /\ Transits(q, r)
    BY <2>1, <2>3, MoveMaps
  <2>4. CASE Adds(q, r) \/ \E i \in Images : Unlinks(r, i)
    BY <2>1, <2>4, EditMaps
  <2> QED
    BY <2>1, <2>2, <2>3, <2>4
<1> QED
  BY <1>1, <1>2

\* The handlers implement WorkOrders, for any number of requests and handlers:
\* the recorded history of a request is a course through its stages, and its
\* worker and images change only where that course has come to.
THEOREM RequestsImplementOrders == Spec => RequestsAreOrders
<1>1. Init => Orders!Init
  BY DEF Init, NoRequest, CourseOf, Orders!Init
<1>2. FlowInv /\ FlowInv' /\ HistoryTellsStatus /\ [Next]_vars => [Orders!Next]_(Orders!orders)
  BY OrdersStep
<1> QED
  BY <1>1, <1>2, FlowInvariant, HistoriesAreComplete, PTL
     DEF Spec, RequestsAreOrders, Orders!Spec

Promise == INSTANCE WorkOrdersProofs WITH
  course <- [r \in RequestIds |-> CourseOf(r)],
  worker <- [r \in RequestIds |-> request[r].staff],
  defect <- [r \in RequestIds |-> request[r].images],
  repair <- [r \in RequestIds |-> request[r].completion]

LEMMA OrdersPromise == RequestsAreOrders => Promise!Spec
  BY DEF RequestsAreOrders, Orders!Spec, Promise!Spec, Orders!Init, Promise!Init,
         Orders!Next, Promise!Next, Orders!orders, Promise!orders,
         Orders!Report, Promise!Report, Orders!EditDefect, Promise!EditDefect,
         Orders!Assign, Promise!Assign, Orders!Start, Promise!Start,
         Orders!Complete, Promise!Complete, Orders!TrimRepair, Promise!TrimRepair,
         Orders!Close, Promise!Close, Orders!Cancel, Promise!Cancel,
         Orders!At, Promise!At, Orders!Reach, Promise!Reach, Orders!Show, Promise!Show

\* What WorkOrders promises holds of the handlers: according to the history, no
\* work was started unassigned, and completion images need a resolution.
THEOREM RequestsAreAssigned == Spec => []Orders!OrdersOK
<1>1. Promise!OrdersOK <=> Orders!OrdersOK
  BY DEF Promise!OrdersOK, Orders!OrdersOK, Promise!Went, Orders!Went
<1> QED
  BY <1>1, RequestsImplementOrders, OrdersPromise, Promise!WorkIsAssigned, PTL

\* No request is in a status twice, and none leaves CLOSED or CANCELLED.
THEOREM RequestsOnlyAdvance == Spec => []Orders!CoursesEnd
<1>1. Promise!CoursesEnd <=> Orders!CoursesEnd
  BY DEF Promise!CoursesEnd, Orders!CoursesEnd
<1> QED
  BY <1>1, RequestsImplementOrders, OrdersPromise, Promise!CoursesOnlyAdvance, PTL

\* The images of the defect stay what they were when somebody was assigned, the
\* completion images what they were when the request was closed.
THEOREM RequestsKeepEvidence == Spec => Orders!ShownStays
<1>1. Promise!ShownStays => Orders!ShownStays
  BY DEF Promise!ShownStays, Orders!ShownStays, Promise!orders, Orders!orders,
         Promise!Went, Orders!Went
<1> QED
  BY <1>1, RequestsImplementOrders, OrdersPromise, Promise!EvidenceIsFinal, PTL

-----------------------------------------------------------------------------
(* Who may touch an image: a request, a handler on its way to link it, or the
   gallery with the handlers that edit or delete. *)

Linking == {"CreateLock", "CreateCommit", "CompleteLock", "Move", "AddSave"}

Named(r, i) == i \in request[r].images \/ i \in request[r].completion

Carried(q, i) == i \in job[q].images \/ i \in job[q].list

\* A fresh image is nobody's.
FreshOK ==
  \A i \in Images : store[i] = "FRESH" =>
    /\ i \notin gallery
    /\ \A q \in Procs : ~ Carried(q, i)

\* What a handler is about to link is stored, and its own.
LinkingOK ==
  \A q \in Procs : pc[q] \in Linking =>
    /\ job[q].list = {}
    /\ \A i \in job[q].images :
         /\ store[i] = "STORED" /\ i \notin gallery
         /\ \A p \in Procs \ {q} : ~ Carried(p, i)

\* What a request names is stored, and named once.
NamedOK ==
  \A r \in RequestIds, i \in Images : Named(r, i) =>
    /\ store[i] = "STORED" /\ i \notin gallery
    /\ \A q \in Procs : ~ Carried(q, i)
    /\ \A o \in RequestIds \ {r} : ~ Named(o, i)
    /\ ~ (i \in request[r].images /\ i \in request[r].completion)

OwnersOK == FreshOK /\ LinkingOK /\ NamedOK

Kept(q) == \A p \in Procs \ {q} : pc'[p] = pc[p] /\ job'[p] = job[p]

Brings(q, S) ==
  /\ S \subseteq Fresh /\ Upload(S) /\ UNCHANGED <<request, gallery, dropped>>
  /\ pc[q] = "idle"
  /\ job'[q].images = S /\ Cardinality(S) <= MaxImages
  /\ \/ pc'[q] \in Linking /\ job'[q].list = {}
     \/ /\ pc'[q] = "GallerySave" /\ job'[q].list = gallery \cup S
        /\ Cardinality(gallery) + Cardinality(S) <= MaxImages

Carries(q) ==
  /\ UNCHANGED <<store, request, gallery, dropped>> /\ pc'[q] \in Linking \cup Removing
  /\ \/ job'[q].images = {} /\ job'[q].list = {}
     \/ pc[q] \in Linking /\ job'[q].images = job[q].images /\ job'[q].list = job[q].list

Drops(q) ==
  /\ UNCHANGED <<store, request>> /\ job'[q].list = {}
  /\ \/ pc'[q] = "idle" /\ job'[q].images = {}
     \/ pc'[q] = "DeleteImages" /\ job'[q].images = job[q].images
  /\ \/ /\ UNCHANGED <<gallery, dropped>>
        /\ pc[q] \in Linking \cup {"GallerySave"} \/ pc'[q] = "idle"
     \/ /\ gallery' = job[q].list /\ UNCHANGED dropped
        /\ pc[q] \in {"GallerySave", "RowSave"} /\ pc'[q] = "idle"
     \/ /\ gallery' = job[q].list /\ dropped' = dropped \cup job[q].images
        /\ pc[q] = "GalleryUnlink" /\ pc'[q] = "DeleteImages"

Deletes(q) ==
  /\ UNCHANGED <<request, gallery, dropped>> /\ Delete(job[q].images)
  /\ pc[q] = "DeleteImages" /\ pc'[q] = "idle"
  /\ job'[q].images = {} /\ job'[q].list = {}

Finds(q) ==
  /\ UNCHANGED <<store, request, gallery, dropped>> /\ pc[q] = "idle"
  /\ pc'[q] \in {"GalleryUnlink", "RowSave"}
  /\ job'[q].images \subseteq gallery /\ job'[q].list = gallery \ job'[q].images

Handles(q) ==
  /\ Kept(q)
  /\ \/ \E S \in SUBSET Images : Brings(q, S)
     \/ Carries(q) \/ Drops(q) \/ Deletes(q) \/ Finds(q)

LEMMA DropsOn ==
  ASSUME Typed, NEW q \in Procs, UNCHANGED <<store, request, gallery, dropped>>,
         Return(q) \/ (Discard(q, job[q].images) /\ pc[q] \in Linking \cup {"GallerySave"})
  PROVE  Handles(q)
<1>1. CASE Return(q)
  <2>1. pc'[q] = "idle" /\ job'[q] = NoJob /\ Kept(q)
    BY <1>1, GotoMoves DEF Return, Kept, Typed
  <2> QED
    BY <2>1 DEF Handles, Drops, NoJob
<1>2. CASE Discard(q, job[q].images) /\ pc[q] \in Linking \cup {"GallerySave"}
  <2>1. /\ pc'[q] = "DeleteImages" /\ job'[q] = [NoJob EXCEPT !.images = job[q].images]
        /\ Kept(q)
    BY <1>2, GotoMoves DEF Discard, Kept, Typed
  <2> QED
    BY <1>2, <2>1 DEF Handles, Drops, NoJob
<1> QED
  BY <1>1, <1>2

LEMMA BringsOn ==
  ASSUME Typed, NEW q \in Procs, NEW S \in Uploadable \cup {{}}, NEW step, NEW j \in Jobs,
         Upload(S), UNCHANGED <<request, gallery, dropped>>, pc[q] = "idle",
         Goto(q, step, j),
         j.images = S,
         \/ step \in Linking /\ j.list = {}
         \/ /\ step = "GallerySave" /\ j.list = gallery \cup S
            /\ Cardinality(gallery) + Cardinality(S) <= MaxImages
      PROVE  Handles(q)
<1>1. S \subseteq Fresh /\ S \in SUBSET Images
  BY UploadOK DEF Typed
<1>3. Cardinality(S) <= MaxImages
  <2>1. CASE S = {}
    BY <2>1, FS_EmptySet, MaxImagesAssumption
  <2>2. CASE S # {}
    <3>1. Cardinality(S) \in 1 .. MaxImages
      BY <2>2 DEF Uploadable
    <3> QED
      BY <3>1, MaxImagesAssumption
  <2> QED
    BY <2>1, <2>2
<1>2. pc'[q] = step /\ job'[q] = j /\ Kept(q)
  BY GotoMoves DEF Kept, Typed
<1> QED
  BY <1>1, <1>2, <1>3 DEF Handles, Brings

LEMMA HandlesEffect ==
  ASSUME Typed, [Next]_vars
  PROVE  \/ UNCHANGED <<store, pc, job, request, gallery, dropped>>
         \/ \E q \in Procs : Handles(q)
         \/ UNCHANGED <<gallery, dropped>> /\ ~ UNCHANGED <<request, history>>
<1> DEFINE Claim ==
      \/ UNCHANGED <<store, pc, job, request, gallery, dropped>>
      \/ \E q \in Procs : Handles(q)
      \/ UNCHANGED <<gallery, dropped>> /\ ~ UNCHANGED <<request, history>>
<1>1. ASSUME NEW q \in Procs, MaintenanceStep(q), UNCHANGED <<gallery, dropped>> PROVE Claim
  <2> SUFFICES ASSUME UNCHANGED <<request, history>> PROVE Handles(q)
    BY <1>1
  <2>0. UNCHANGED <<gallery, dropped>> /\ job[q] \in Jobs
    BY <1>1 DEF Typed, HandlersOK
  <2>1. CASE CreateUpload(q)
    <3>1. PICK S \in Uploadable \cup {{}} :
            Upload(S) /\ Goto(q, "CreateLock", [NoJob EXCEPT !.images = S])
      BY <2>1 DEF CreateUpload
    <3>2. /\ [NoJob EXCEPT !.images = S] \in Jobs /\ [NoJob EXCEPT !.images = S].images = S
          /\ [NoJob EXCEPT !.images = S].list = {}
      BY <3>1, UploadOK, CarryOK, NoRowsOK DEF Typed, Jobs, NoJob
    <3> QED
      BY <2>0, <2>1, <3>1, <3>2, BringsOn DEF CreateUpload, mvars, Linking
  <2>2. CASE CompleteUpload(q)
    <3>1. PICK S \in Uploadable \cup {{}}, r \in RequestIds :
            Upload(S) /\ Goto(q, "CompleteLock", [NoJob EXCEPT !.images = S, !.id = r])
      BY <2>2 DEF CompleteUpload
    <3>2. /\ [NoJob EXCEPT !.images = S, !.id = r] \in Jobs
          /\ [NoJob EXCEPT !.images = S, !.id = r].images = S
          /\ [NoJob EXCEPT !.images = S, !.id = r].list = {}
      BY <3>1, UploadOK, NoRowsOK DEF Typed, Jobs, NoJob
    <3> QED
      BY <2>0, <2>2, <3>1, <3>2, BringsOn DEF CompleteUpload, mvars, Linking
  <2>3. CASE AddUpload(q)
    <3>1. PICK S \in Uploadable, r \in RequestIds :
            Upload(S) /\ Goto(q, "AddSave", [NoJob EXCEPT !.images = S, !.id = r])
      BY <2>3 DEF AddUpload
    <3>2. /\ [NoJob EXCEPT !.images = S, !.id = r] \in Jobs
          /\ [NoJob EXCEPT !.images = S, !.id = r].images = S
          /\ [NoJob EXCEPT !.images = S, !.id = r].list = {}
      BY <3>1, UploadOK, NoRowsOK DEF Typed, Jobs, NoJob
    <3> QED
      BY <2>0, <2>3, <3>1, <3>2, BringsOn DEF AddUpload, mvars, Linking
  <2>4. CASE CreateLock(q)
    <3>1. UNCHANGED <<store, request, gallery, dropped>>
      BY <2>0, <2>4 DEF CreateLock, mvars
    <3>2. CASE Goto(q, "CreateCommit", job[q])
      <4>1. pc'[q] = "CreateCommit" /\ job'[q] = job[q] /\ Kept(q) /\ pc[q] = "CreateLock"
        BY <2>4, <3>2, GotoMoves DEF CreateLock, Kept, Typed
      <4> QED
        BY <3>1, <4>1 DEF Handles, Carries, Linking
    <3> QED
      BY <2>4, <3>1, <3>2, DropsOn DEF CreateLock, Linking
  <2>5. CASE CompleteLock(q)
    <3>1. UNCHANGED <<store, request, gallery, dropped>> /\ job[q].id \in RequestIds
      BY <2>0, <2>5 DEF CompleteLock, mvars, Typed, HandlersOK, Fits
    <3> DEFINE k == [job[q] EXCEPT !.op = "complete", !.from = request[job[q].id].status]
    <3>2. k.images = job[q].images /\ k.list = job[q].list
      BY <2>0, <3>1, CompleteJobOK DEF Typed
    <3>3. Goto(q, "Move", k) \/ Discard(q, job[q].images)
      BY <2>5 DEF CompleteLock
    <3> HIDE DEF k
    <3>4. CASE Goto(q, "Move", k)
      <4>1. pc'[q] = "Move" /\ job'[q] = k /\ Kept(q) /\ pc[q] = "CompleteLock"
        BY <2>5, <3>4, GotoMoves DEF CompleteLock, Kept, Typed
      <4> QED
        BY <3>1, <3>2, <4>1 DEF Handles, Carries, Linking
    <3> QED
      BY <2>5, <3>1, <3>3, <3>4, DropsOn DEF CompleteLock, Linking
  <2>6. CASE MoveLock(q)
    <3>1. UNCHANGED <<store, request, gallery, dropped>>
      BY <2>0, <2>6 DEF MoveLock, mvars
    <3>2. PICK r \in RequestIds, op \in Operations :
            Goto(q, "Move", [NoJob EXCEPT !.id = r, !.op = op, !.from = request[r].status])
      BY <2>6, MovesAre DEF MoveLock
    <3>3. /\ pc'[q] = "Move" /\ Kept(q)
          /\ job'[q] = [NoJob EXCEPT !.id = r, !.op = op, !.from = request[r].status]
      BY <3>2, GotoMoves DEF Kept, Typed
    <3> QED
      BY <3>1, <3>3 DEF Handles, Carries, Linking, NoJob
  <2>7. CASE Move(q)
    <3>1. (Return(q) \/ Discard(q, job[q].images)) /\ pc[q] \in Linking
      BY <2>7, MoveEffect DEF Move, Linking
    <3> QED
      BY <2>0, <2>7, <3>1, MoveEffect, DropsOn
  <2>8. CASE CreateCommit(q)
    BY <2>0, <2>8, DropsOn DEF CreateCommit, AfterCreate, Linking
  <2>9. CASE AddSave(q)
    BY <2>0, <2>9, DropsOn DEF AddSave, Linking
  <2>10. CASE RemovalFind(q)
    <3>1. PICK r \in RequestIds, step \in Removing : Goto(q, step, [NoJob EXCEPT !.id = r])
      BY <2>10 DEF RemovalFind, Removing
    <3>2. pc'[q] \in Removing /\ job'[q] = [NoJob EXCEPT !.id = r] /\ Kept(q)
      BY <3>1, GotoMoves DEF Kept, Typed
    <3> QED
      BY <2>0, <2>10, <3>2 DEF RemovalFind, mvars, Handles, Carries, NoJob
  <2>11. CASE RemoveImage(q) \/ RemoveCompletionImage(q)
    <3>1. job[q].id \in RequestIds /\ UNCHANGED store
      BY <2>11 DEF RemoveImage, RemoveCompletionImage, Typed, HandlersOK, Fits
    <3>2. CASE Return(q)
      BY <2>0, <3>1, <3>2, DropsOn
    <3>3. CASE \E i \in Images :
                 \/ /\ i \in request[job[q].id].images
                    /\ request' = [request EXCEPT ![job[q].id].images = @ \ {i}]
                 \/ /\ i \in request[job[q].id].completion
                    /\ request' = [request EXCEPT ![job[q].id].completion = @ \ {i}]
      <4>1. request' # request
        BY <3>1, <3>3 DEF Typed, TablesOK, RequestRow
      <4> QED
        BY <4>1
    <3> QED
      BY <2>11, <3>1, <3>2, <3>3
         DEF RemoveImage, RemoveCompletionImage, Typed, TablesOK, RequestRow
  <2> QED
    BY <1>1, <2>1, <2>2, <2>3, <2>4, <2>5, <2>6, <2>7, <2>8, <2>9, <2>10, <2>11
       DEF MaintenanceStep
<1>2. ASSUME NEW q \in Procs, GalleryStep(q), UNCHANGED mvars PROVE Handles(q)
  <2>0. UNCHANGED request /\ job[q] \in Jobs
    BY <1>2 DEF mvars, Typed, HandlersOK
  <2>1. CASE GalleryAdd(q)
    <3>1. PICK S \in Uploadable :
            /\ Cardinality(gallery) + Cardinality(S) <= MaxImages
            /\ Upload(S)
            /\ Goto(q, "GallerySave", [NoJob EXCEPT !.images = S, !.list = gallery \cup S])
      BY <2>1 DEF GalleryAdd
    <3> DEFINE k == [NoJob EXCEPT !.images = S, !.list = gallery \cup S]
    <3>2. k \in Jobs /\ k.images = S /\ k.list = gallery \cup S
      BY <3>1, UploadOK, NoRowsOK DEF Typed, TablesOK, Jobs, NoJob
    <3>3. Goto(q, "GallerySave", k)
      BY <3>1
    <3> HIDE DEF k
    <3> QED
      BY <2>0, <2>1, <3>1, <3>2, <3>3, BringsOn DEF GalleryAdd
  <2>2. CASE GallerySave(q)
    <3>1. UNCHANGED <<store, dropped>> /\ pc[q] = "GallerySave"
      BY <2>2 DEF GallerySave
    <3>2. CASE gallery' = job[q].list /\ Return(q)
      <4>1. pc'[q] = "idle" /\ job'[q] = NoJob /\ Kept(q)
        BY <3>2, GotoMoves DEF Return, Kept, Typed
      <4> QED
        BY <2>0, <3>1, <3>2, <4>1 DEF Handles, Drops, NoJob
    <3> QED
      BY <2>0, <2>2, <3>1, <3>2, DropsOn DEF GallerySave
  <2>3. CASE GalleryRemove(q)
    <3>1. PICK i \in gallery :
            Goto(q, "GalleryUnlink", [NoJob EXCEPT !.images = {i}, !.list = gallery \ {i}])
      BY <2>3 DEF GalleryRemove
    <3>2. /\ pc'[q] = "GalleryUnlink" /\ Kept(q)
          /\ job'[q] = [NoJob EXCEPT !.images = {i}, !.list = gallery \ {i}]
      BY <3>1, GotoMoves DEF Kept, Typed
    <3>3. job'[q].images = {i} /\ job'[q].list = gallery \ {i}
      BY <3>2 DEF NoJob
    <3> QED
      BY <2>0, <2>3, <3>2, <3>3 DEF GalleryRemove, Handles, Finds
  <2>4. CASE GalleryUnlink(q)
    <3>1. UNCHANGED store /\ pc[q] = "GalleryUnlink"
      BY <2>4 DEF GalleryUnlink
    <3>2. \/ /\ gallery' = job[q].list /\ dropped' = dropped \cup job[q].images
             /\ Discard(q, job[q].images)
          \/ UNCHANGED <<gallery, dropped>> /\ Return(q)
      BY <2>4 DEF GalleryUnlink, AfterUnlink
    <3>3. CASE /\ gallery' = job[q].list /\ dropped' = dropped \cup job[q].images
               /\ Discard(q, job[q].images)
      <4>1. /\ pc'[q] = "DeleteImages" /\ job'[q] = [NoJob EXCEPT !.images = job[q].images]
            /\ Kept(q)
        BY <3>3, GotoMoves DEF Discard, Kept, Typed
      <4> QED
        BY <2>0, <3>1, <3>3, <4>1 DEF Handles, Drops, NoJob
    <3> QED
      BY <2>0, <3>1, <3>2, <3>3, DropsOn
  <2>5. CASE RowRead(q)
    <3>1. /\ pc'[q] = "RowSave" /\ Kept(q)
          /\ job'[q] = [NoJob EXCEPT !.list = gallery]
      BY <2>5, GotoMoves DEF RowRead, Kept, Typed
    <3>2. job'[q].images = {} /\ job'[q].list = gallery
      BY <3>1 DEF NoJob
    <3> QED
      BY <2>0, <2>5, <3>1, <3>2 DEF RowRead, Handles, Finds
  <2>6. CASE RowSave(q)
    <3>1. pc'[q] = "idle" /\ job'[q] = NoJob /\ Kept(q)
      BY <2>6, GotoMoves DEF RowSave, Return, Kept, Typed
    <3> QED
      BY <2>0, <2>6, <3>1 DEF RowSave, Handles, Drops, NoJob
  <2> QED
    BY <1>2, <2>1, <2>2, <2>3, <2>4, <2>5, <2>6 DEF GalleryStep
<1>3. ASSUME NEW q \in Procs, DeleteImages(q) PROVE Handles(q)
  <2>1. pc'[q] = "idle" /\ job'[q] = NoJob /\ Kept(q)
    BY <1>3, GotoMoves DEF DeleteImages, Return, Kept, Typed
  <2> QED
    BY <1>3, <2>1 DEF DeleteImages, Handles, Deletes, NoJob, mvars
<1>4. ASSUME NEW q \in Procs, Crash(q) PROVE Handles(q)
  BY <1>4, DropsOn DEF Crash, mvars
<1>5. CASE UNCHANGED vars
  BY <1>5 DEF vars, mvars
<1>6. ASSUME LeaseEnds \/ PropertyRemoved, UNCHANGED <<store, pc, job, gallery, dropped>>
      PROVE  Claim
  BY <1>6 DEF LeaseEnds, PropertyRemoved
<1> HIDE DEF Claim
<1>7. (\E q \in Procs : Handles(q)) => Claim
  BY DEF Claim
<1>8. Claim
  BY <1>1, <1>2, <1>3, <1>4, <1>5, <1>6, <1>7 DEF Next, Claim
<1> QED
  BY <1>8 DEF Claim

LEMMA JobImages ==
  Typed => \A q \in Procs : job[q].images \in SUBSET Images /\ job[q].list \in SUBSET Images
  BY DEF Typed, HandlersOK, Jobs

LEMMA OwnersHandled ==
  ASSUME Typed, OwnersOK, NEW q \in Procs, Handles(q)
  PROVE  OwnersOK'
<1>0. /\ store \in [Images -> {"FRESH", "STORED", "DELETED"}] /\ gallery \in SUBSET Images
      /\ \A p \in Procs : job[p].images \in SUBSET Images /\ job[p].list \in SUBSET Images
  BY JobImages DEF Typed, TablesOK
<1> USE DEF OwnersOK, FreshOK, LinkingOK, NamedOK, Kept
<1>1. ASSUME NEW S \in SUBSET Images, Kept(q), Brings(q, S) PROVE OwnersOK'
  <2>1. /\ \A i \in S : store[i] = "FRESH" /\ store'[i] = "STORED"
        /\ \A i \in Images \ S : store'[i] = store[i]
    BY <1>1 DEF Brings, Upload, Fresh
  <2>2. FreshOK'
    BY <1>0, <1>1, <2>1 DEF Brings, Carried
  <2>3. LinkingOK'
    <3> SUFFICES ASSUME NEW p \in Procs, pc'[p] \in Linking
                 PROVE  /\ job'[p].list = {}
                        /\ \A i \in job'[p].images :
                             /\ store'[i] = "STORED" /\ i \notin gallery'
                             /\ \A o \in Procs \ {p} : ~ Carried(o, i)'
      BY DEF Carried
    <3>1. CASE p = q
      BY <1>0, <1>1, <2>1, <3>1 DEF Brings, Carried, Linking
    <3>2. CASE p # q
      BY <1>0, <1>1, <2>1, <3>2 DEF Brings, Carried
    <3> QED
      BY <3>1, <3>2
  <2>4. NamedOK'
    BY <1>0, <1>1, <2>1 DEF Brings, Carried, Named
  <2> QED
    BY <2>2, <2>3, <2>4
<1>2. ASSUME Kept(q), Carries(q) PROVE OwnersOK'
  <2>1. FreshOK'
    BY <1>0, <1>2 DEF Carries, Carried, Linking, Removing
  <2>2. LinkingOK'
    BY <1>0, <1>2 DEF Carries, Carried, Linking, Removing
  <2>3. NamedOK'
    BY <1>0, <1>2 DEF Carries, Carried, Linking, Removing, Named
  <2> QED
    BY <2>1, <2>2, <2>3
<1>3. ASSUME Kept(q), Drops(q) PROVE OwnersOK'
  <2>1. FreshOK'
    BY <1>0, <1>3 DEF Drops, Carried
  <2>2. LinkingOK'
    BY <1>0, <1>3 DEF Drops, Carried, Linking
  <2>3. NamedOK'
    BY <1>0, <1>3 DEF Drops, Carried, Named
  <2> QED
    BY <2>1, <2>2, <2>3
<1>4. ASSUME Kept(q), Deletes(q) PROVE OwnersOK'
  <2>1. PICK D \in SUBSET job[q].images :
          store' = [i \in Images |-> IF i \in D THEN "DELETED" ELSE store[i]]
    BY <1>4 DEF Deletes, Delete
  <2>2. /\ \A i \in Images : store'[i] = store[i] \/ (store'[i] = "DELETED" /\ Carried(q, i))
    BY <2>1 DEF Carried
  <2>3. FreshOK'
    BY <1>0, <1>4, <2>2 DEF Deletes, Carried
  <2>4. LinkingOK'
    BY <1>0, <1>4, <2>2 DEF Deletes, Carried, Linking
  <2>5. NamedOK'
    BY <1>0, <1>4, <2>2 DEF Deletes, Carried, Named
  <2> QED
    BY <2>3, <2>4, <2>5
<1>5. ASSUME Kept(q), Finds(q) PROVE OwnersOK'
  <2>1. FreshOK'
    BY <1>0, <1>5 DEF Finds, Carried
  <2>2. LinkingOK'
    BY <1>0, <1>5 DEF Finds, Carried, Linking
  <2>3. NamedOK'
    BY <1>0, <1>5 DEF Finds, Carried, Named
  <2> QED
    BY <2>1, <2>2, <2>3
<1> QED
  BY <1>1, <1>2, <1>3, <1>4, <1>5 DEF Handles

\* A handler that has linked its images lets go of them.
LEMMA OwnersLinked ==
  ASSUME Typed, OwnersOK, NEW q \in Procs, NEW r \in RequestIds, pc[q] \in Linking,
         Return(q), UNCHANGED <<store, gallery>>, OthersKept(r),
         \A i \in request'[r].images : i \in request[r].images \/ i \in job[q].images,
         \A i \in request'[r].completion :
           i \in request[r].completion \/ i \in job[q].images,
         request'[r].images \subseteq request[r].images
           \/ request'[r].completion \subseteq request[r].completion
  PROVE  OwnersOK'
<1>0. /\ store \in [Images -> {"FRESH", "STORED", "DELETED"}] /\ gallery \in SUBSET Images
      /\ \A p \in Procs : job[p].images \in SUBSET Images /\ job[p].list \in SUBSET Images
  BY JobImages DEF Typed, TablesOK
<1>1. /\ pc'[q] = "idle" /\ job'[q].images = {} /\ job'[q].list = {}
      /\ \A p \in Procs \ {q} : pc'[p] = pc[p] /\ job'[p] = job[p]
  BY GotoMoves DEF Return, NoJob, Typed
<1> USE DEF OwnersOK, FreshOK, LinkingOK, NamedOK
<1>2. FreshOK'
  BY <1>0, <1>1 DEF Carried
<1>3. LinkingOK'
  BY <1>0, <1>1 DEF Carried, Linking
<1>4. \A i \in Images : Named(r, i)' => Named(r, i) \/ i \in job[q].images
  BY DEF Named
<1>5. \A o \in RequestIds \ {r}, i \in Images : Named(o, i)' <=> Named(o, i)
  BY DEF Named, OthersKept
<1>6. \A o \in RequestIds, i \in job[q].images : ~ Named(o, i)
  BY <1>0 DEF Carried
<1>7. ASSUME NEW i \in Images, Named(r, i)'
      PROVE  /\ store'[i] = "STORED" /\ i \notin gallery'
             /\ \A p \in Procs : ~ Carried(p, i)'
             /\ \A o \in RequestIds \ {r} : ~ Named(o, i)'
             /\ ~ (i \in request'[r].images /\ i \in request'[r].completion)
  <2>1. CASE Named(r, i)
    <3>1. i \notin job[q].images
      BY <1>6, <2>1
    <3>2. \A p \in Procs : ~ Carried(p, i)'
      BY <1>0, <1>1, <2>1 DEF Carried
    <3>3. ~ (i \in request'[r].images /\ i \in request'[r].completion)
      BY <2>1, <3>1
    <3> QED
      BY <1>5, <2>1, <3>2, <3>3
  <2>2. CASE ~ Named(r, i)
    <3>1. i \in job[q].images
      BY <1>4, <1>7, <2>2
    <3>2. \A p \in Procs : ~ Carried(p, i)'
      BY <1>0, <1>1, <3>1 DEF Carried
    <3>3. ~ (i \in request'[r].images /\ i \in request'[r].completion)
      BY <2>2 DEF Named
    <3>4. \A o \in RequestIds \ {r} : ~ Named(o, i)'
      BY <1>5, <1>6, <3>1
    <3> QED
      BY <3>1, <3>2, <3>3, <3>4
  <2> QED
    BY <2>1, <2>2
<1>8. ASSUME NEW o \in RequestIds \ {r}, NEW i \in Images, Named(o, i)'
      PROVE  /\ store'[i] = "STORED" /\ i \notin gallery'
             /\ \A p \in Procs : ~ Carried(p, i)'
             /\ \A t \in RequestIds \ {o} : ~ Named(t, i)'
             /\ ~ (i \in request'[o].images /\ i \in request'[o].completion)
  <2>1. Named(o, i)
    BY <1>5, <1>8
  <2>2. \A p \in Procs : ~ Carried(p, i)'
    BY <1>0, <1>1, <2>1 DEF Carried
  <2>3. ~ (i \in request'[o].images /\ i \in request'[o].completion)
    BY <2>1 DEF OthersKept
  <2>4. \A t \in RequestIds \ {o} : ~ Named(t, i)'
    BY <1>4, <1>5, <1>6, <2>1
  <2> QED
    BY <2>1, <2>2, <2>3, <2>4
<1>9. NamedOK'
  BY <1>7, <1>8 DEF NamedOK
<1> QED
  BY <1>2, <1>3, <1>9

\* A handler that has unlinked an image deletes it.
LEMMA OwnersUnlinked ==
  ASSUME Typed, OwnersOK, NEW q \in Procs, NEW r \in RequestIds, NEW i \in Images,
         Discard(q, {i}), UNCHANGED <<store, gallery>>, OthersKept(r), Unlinks(r, i)
  PROVE  OwnersOK'
<1>0. /\ store \in [Images -> {"FRESH", "STORED", "DELETED"}] /\ gallery \in SUBSET Images
      /\ \A p \in Procs : job[p].images \in SUBSET Images /\ job[p].list \in SUBSET Images
  BY JobImages DEF Typed, TablesOK
<1>1. /\ pc'[q] = "DeleteImages" /\ job'[q].images = {i} /\ job'[q].list = {}
      /\ \A p \in Procs \ {q} : pc'[p] = pc[p] /\ job'[p] = job[p]
  BY GotoMoves DEF Discard, NoJob, Typed
<1> USE DEF OwnersOK, FreshOK, LinkingOK, NamedOK
<1>2. Named(r, i) /\ \A o \in RequestIds : ~ Named(o, i)'
  BY DEF Unlinks, Named, OthersKept
<1>3. \A o \in RequestIds, k \in Images : Named(o, k)' => Named(o, k) /\ k # i
  <2>1. \A k \in Images : Named(r, k)' => Named(r, k)
    BY DEF Unlinks, Named
  <2>2. \A o \in RequestIds \ {r}, k \in Images : Named(o, k)' => Named(o, k)
    BY DEF OthersKept, Named
  <2> QED
    BY <1>2, <2>1, <2>2
<1>4. \A p \in Procs, k \in Images : Carried(p, k)' => Carried(p, k) \/ (p = q /\ k = i)
  BY <1>1 DEF Carried
<1>5. FreshOK'
  BY <1>2, <1>4
<1>6. LinkingOK'
  BY <1>0, <1>1, <1>2, <1>4 DEF Linking, Carried
<1>7. \A o \in RequestIds, k \in Images :
        Named(o, k)' => ~ (k \in request'[o].images /\ k \in request'[o].completion)
  BY <1>3 DEF Unlinks, OthersKept
<1>8. NamedOK'
  BY <1>3, <1>4, <1>7
<1> QED
  BY <1>5, <1>6, <1>8

LEMMA OwnersStep == FlowInv /\ OwnersOK /\ [Next]_vars => OwnersOK'
<1> SUFFICES ASSUME FlowInv, OwnersOK, [Next]_vars PROVE OwnersOK'
  OBVIOUS
<1>0. Typed
  BY DEF FlowInv
<1>1. CASE UNCHANGED <<store, pc, job, request, gallery>>
  BY <1>1 DEF OwnersOK, FreshOK, LinkingOK, NamedOK, Named, Carried
<1>2. CASE \E q \in Procs : Handles(q)
  BY <1>0, <1>2, OwnersHandled
<1>3. CASE UNCHANGED gallery /\ ~ UNCHANGED <<request, history>>
  <2>1. PICK q \in Procs, r \in RequestIds :
          /\ OthersKept(r)
          /\ \/ CreateCommit(q) /\ Return(q) /\ UNCHANGED store /\ Creates(q, r)
             \/ Move(q) /\ Return(q) /\ UNCHANGED store /\ Transits(q, r)
             \/ AddSave(q) /\ Return(q) /\ UNCHANGED store /\ Adds(q, r)
             \/ \E i \in Images :
                  Discard(q, {i}) /\ pc[q] \in Removing /\ UNCHANGED store /\ Unlinks(r, i)
    BY <1>0, <1>3, RequestEffect
  <2>2. CASE CreateCommit(q) /\ Return(q) /\ UNCHANGED store /\ Creates(q, r)
    BY <1>0, <1>3, <2>1, <2>2, OwnersLinked DEF CreateCommit, Creates, Linking
  <2>3. CASE Move(q) /\ Return(q) /\ UNCHANGED store /\ Transits(q, r)
    BY <1>0, <1>3, <2>1, <2>3, OwnersLinked DEF Move, Transits, Linking
  <2>4. CASE AddSave(q) /\ Return(q) /\ UNCHANGED store /\ Adds(q, r)
    BY <1>0, <1>3, <2>1, <2>4, OwnersLinked DEF AddSave, Adds, Linking
  <2>5. CASE \E i \in Images :
               Discard(q, {i}) /\ pc[q] \in Removing /\ UNCHANGED store /\ Unlinks(r, i)
    BY <1>0, <1>3, <2>1, <2>5, OwnersUnlinked
  <2> QED
    BY <2>1, <2>2, <2>3, <2>4, <2>5
<1> QED
  BY <1>0, <1>1, <1>2, <1>3, HandlesEffect

\* Every image a request names is in the store: whatever fails, crashes or
\* races, the deletions hit only images that no request names.
THEOREM EvidenceIsStored == Spec => []RequestImagesStored
<1>1. Init => OwnersOK
  BY DEF Init, OwnersOK, FreshOK, LinkingOK, NamedOK, Named, Carried, NoRequest, NoJob, Linking
<1>2. FlowInv /\ OwnersOK => RequestImagesStored
  <2> SUFFICES ASSUME FlowInv, OwnersOK, NEW r \in RequestIds
               PROVE  request[r].images \cup request[r].completion \subseteq Stored
    BY DEF RequestImagesStored
  <2>1. request[r].images \in SUBSET Images /\ request[r].completion \in SUBSET Images
    BY DEF FlowInv, Typed, TablesOK, RequestRow
  <2> QED
    BY <2>1 DEF OwnersOK, NamedOK, Named, Stored
<1> QED
  BY <1>1, <1>2, OwnersStep, FlowInvariant, PTL DEF Spec

-----------------------------------------------------------------------------
(* The limits.  A list that waits to be saved is within the limit too, since
   it was computed from the one that was checked; that another handler saves
   in between replaces a list by a list. *)

Within(S) == Cardinality(S) <= MaxImages

\* A handler that has a list of the gallery to save.
Editors == {"GallerySave", "GalleryUnlink", "RowSave"}

LimitsOK ==
  /\ Within(gallery)
  /\ \A r \in RequestIds : Within(request[r].images)
  /\ \A q \in Procs :
       /\ pc[q] \in Linking => Within(job[q].images)
       /\ pc[q] \in Editors => Within(job[q].list)

LEMMA WithinEmpty == Within({})
  BY FS_EmptySet, MaxImagesAssumption DEF Within

LEMMA WithinPart ==
  ASSUME NEW S \in SUBSET Images, NEW T \in SUBSET S, Within(S)
  PROVE  Within(T)
<1>1. IsFiniteSet(S) /\ IsFiniteSet(T)
  BY ImagesAssumption, FS_Subset
<1>2. Cardinality(T) <= Cardinality(S) /\ Cardinality(T) \in Nat /\ Cardinality(S) \in Nat
  BY <1>1, FS_Subset, FS_CardinalityType
<1> QED
  BY <1>2, MaxImagesAssumption DEF Within

LEMMA WithinUnion ==
  ASSUME NEW S \in SUBSET Images, NEW T \in SUBSET Images,
         Cardinality(S) + Cardinality(T) <= MaxImages
  PROVE  Within(S \cup T)
<1>1. IsFiniteSet(S) /\ IsFiniteSet(T) /\ IsFiniteSet(S \cap T)
  BY ImagesAssumption, FS_Subset
<1>2. /\ Cardinality(S \cup T) = Cardinality(S) + Cardinality(T) - Cardinality(S \cap T)
      /\ Cardinality(S) \in Nat /\ Cardinality(T) \in Nat /\ Cardinality(S \cap T) \in Nat
  BY <1>1, FS_Union, FS_CardinalityType
<1> QED
  BY <1>2, MaxImagesAssumption DEF Within

LEMMA LimitsHandled ==
  ASSUME Typed, LimitsOK, NEW q \in Procs, Handles(q)
  PROVE  LimitsOK'
<1>0. /\ gallery \in SUBSET Images
      /\ \A p \in Procs : job[p].images \in SUBSET Images /\ job[p].list \in SUBSET Images
  BY JobImages DEF Typed, TablesOK
<1> SUFFICES /\ Within(gallery)' /\ UNCHANGED request
             /\ pc'[q] \in Linking => Within(job'[q].images)
             /\ pc'[q] \in Editors => Within(job'[q].list)
  BY DEF LimitsOK, Handles, Kept, Within
<1>1. ASSUME NEW S \in SUBSET Images, Brings(q, S)
      PROVE  /\ Within(gallery)' /\ UNCHANGED request
             /\ pc'[q] \in Linking => Within(job'[q].images)
             /\ pc'[q] \in Editors => Within(job'[q].list)
  <2>1. Within(S) /\ UNCHANGED <<gallery, request>>
    BY <1>1 DEF Brings, Within
  <2>2. pc'[q] \notin Linking => Within(gallery \cup S)
    BY <1>0, <1>1, WithinUnion DEF Brings
  <2> QED
    BY <1>1, <2>1, <2>2 DEF Brings, LimitsOK, Within, Linking, Editors
<1>2. ASSUME Carries(q)
      PROVE  /\ Within(gallery)' /\ UNCHANGED request
             /\ pc'[q] \in Linking => Within(job'[q].images)
             /\ pc'[q] \in Editors => Within(job'[q].list)
  BY <1>2, WithinEmpty DEF Carries, LimitsOK, Within, Linking, Removing, Editors
<1>3. ASSUME Drops(q) \/ Deletes(q)
      PROVE  /\ Within(gallery)' /\ UNCHANGED request
             /\ pc'[q] \in Linking => Within(job'[q].images)
             /\ pc'[q] \in Editors => Within(job'[q].list)
  BY <1>3 DEF Drops, Deletes, LimitsOK, Within, Linking, Editors
<1>4. ASSUME Finds(q)
      PROVE  /\ Within(gallery)' /\ UNCHANGED request
             /\ pc'[q] \in Linking => Within(job'[q].images)
             /\ pc'[q] \in Editors => Within(job'[q].list)
  <2>1. job'[q].list \in SUBSET gallery /\ Within(gallery)
    BY <1>4 DEF Finds, LimitsOK
  <2>2. Within(job'[q].list)
    BY <1>0, <2>1, WithinPart
  <2> QED
    BY <1>4, <2>1, <2>2 DEF Finds, Within, Linking, Editors
<1> QED
  BY <1>1, <1>2, <1>3, <1>4 DEF Handles

LEMMA LimitsWritten ==
  ASSUME Typed, LimitsOK, NEW q \in Procs, NEW r \in RequestIds,
         UNCHANGED gallery, OthersKept(r), Kept(q), Within(request'[r].images),
         pc'[q] \in {"idle", "DeleteImages"}
  PROVE  LimitsOK'
  BY DEF LimitsOK, OthersKept, Kept, Within, Linking, Editors

LEMMA LimitsStep == Typed /\ LimitsOK /\ [Next]_vars => LimitsOK'
<1> SUFFICES ASSUME Typed, LimitsOK, [Next]_vars PROVE LimitsOK'
  OBVIOUS
<1>1. CASE UNCHANGED <<store, pc, job, request, gallery, dropped>>
  BY <1>1 DEF LimitsOK, Within
<1>2. CASE \E q \in Procs : Handles(q)
  BY <1>2, LimitsHandled
<1>3. CASE UNCHANGED <<gallery, dropped>> /\ ~ UNCHANGED <<request, history>>
  <2>1. PICK q \in Procs, r \in RequestIds :
          /\ OthersKept(r)
          /\ \/ CreateCommit(q) /\ Return(q) /\ UNCHANGED store /\ Creates(q, r)
             \/ Move(q) /\ Return(q) /\ UNCHANGED store /\ Transits(q, r)
             \/ AddSave(q) /\ Return(q) /\ UNCHANGED store /\ Adds(q, r)
             \/ \E i \in Images :
                  Discard(q, {i}) /\ pc[q] \in Removing /\ UNCHANGED store /\ Unlinks(r, i)
    BY <1>3, RequestEffect
  <2>2. Kept(q) /\ pc'[q] \in {"idle", "DeleteImages"}
    BY <2>1, GotoMoves DEF Kept, Return, Discard, Typed
  <2>3. /\ request[r].images \in SUBSET Images /\ job[q].images \in SUBSET Images
        /\ Within(request[r].images)
    BY JobImages DEF LimitsOK, Typed, TablesOK, RequestRow
  <2>4. Within(request'[r].images)
    <3>1. CASE CreateCommit(q) /\ Creates(q, r)
      BY <3>1 DEF CreateCommit, Creates, LimitsOK, Linking
    <3>2. CASE Transits(q, r)
      BY <2>3, <3>2 DEF Transits
    <3>3. CASE Adds(q, r)
      <4>1. Cardinality(request[r].images) + Cardinality(job[q].images) <= MaxImages
        BY <3>3 DEF Adds, StillRoom, RoomFor
      <4>2. Within(request[r].images \cup job[q].images)
        BY <2>3, <4>1, WithinUnion
      <4> QED
        BY <3>3, <4>2 DEF Adds
    <3>4. ASSUME NEW i \in Images, Unlinks(r, i) PROVE Within(request'[r].images)
      <4>1. request'[r].images \in SUBSET request[r].images
        BY <3>4 DEF Unlinks
      <4> QED
        BY <2>3, <4>1, WithinPart
    <3> QED
      BY <2>1, <3>1, <3>2, <3>3, <3>4
  <2> QED
    BY <1>3, <2>1, <2>2, <2>4, LimitsWritten
<1> QED
  BY <1>1, <1>2, <1>3, HandlesEffect

\* No list of images grows beyond its limit, however the uploads race.
THEOREM ListsAreLimited == Spec => []ImageLimits
<1>1. Init => LimitsOK
  <2> SUFFICES ASSUME Init PROVE LimitsOK
    OBVIOUS
  <2>1. /\ gallery = {} /\ \A q \in Procs : pc[q] = "idle"
        /\ \A r \in RequestIds : request[r].images = {}
    BY DEF Init, NoRequest
  <2> QED
    BY <2>1, WithinEmpty DEF LimitsOK, Linking, Within, Editors
<1>2. Typed /\ LimitsOK => ImageLimits
  BY DEF LimitsOK, Within, ImageLimits
<1>3. FlowInv => Typed
  BY DEF FlowInv
<1> QED
  BY <1>1, <1>2, <1>3, LimitsStep, FlowInvariant, PTL DEF Spec

-----------------------------------------------------------------------------
(* The gallery.  What a list names that was read before, and what the gallery
   names, is stored or was taken out of it by a removeImage; an upload waits
   to be linked and is not deleted while a list names it. *)

Here(i) == store[i] = "STORED" \/ i \in dropped

GalleryOK ==
  /\ \A i \in gallery : Here(i)
  /\ \A q \in Procs : pc[q] \in Editors => \A i \in job[q].list : Here(i)
  /\ \A q \in Procs : pc[q] = "GallerySave" =>
       \A i \in job[q].images :
         /\ store[i] = "STORED" /\ i \notin gallery
         /\ \A p \in Procs \ {q} : ~ Carried(p, i)
  /\ \A q \in Procs : pc[q] = "DeleteImages" =>
       \A i \in job[q].images :
         \/ i \in dropped
         \/ i \notin gallery /\ \A p \in Procs : pc[p] \in Editors => ~ Carried(p, i)

LEMMA GalleryHandled ==
  ASSUME Typed, OwnersOK, GalleryOK, NEW q \in Procs, Handles(q)
  PROVE  GalleryOK'
<1>0. /\ store \in [Images -> {"FRESH", "STORED", "DELETED"}]
      /\ gallery \in SUBSET Images /\ dropped \in SUBSET Images
      /\ \A p \in Procs : job[p].images \in SUBSET Images /\ job[p].list \in SUBSET Images
      /\ \A p \in Procs \ {q} : pc'[p] = pc[p] /\ job'[p] = job[p]
  BY JobImages DEF Typed, TablesOK, Handles, Kept
<1> USE DEF GalleryOK, Editors, Here
<1>1. ASSUME NEW S \in SUBSET Images, Brings(q, S) PROVE GalleryOK'
  <2>1. /\ \A i \in S : /\ store[i] = "FRESH" /\ store'[i] = "STORED" /\ i \notin gallery
                         /\ \A p \in Procs : ~ Carried(p, i)
        /\ \A i \in Images \ S : store'[i] = store[i]
        /\ UNCHANGED <<gallery, dropped>> /\ job'[q].images = S
    BY <1>1 DEF Brings, Upload, Fresh, OwnersOK, FreshOK
  <2>2. \A i \in Images : Here(i) => Here(i)'
    BY <2>1
  <2>3. CASE pc'[q] \in Linking
    BY <1>0, <1>1, <2>1, <2>2, <2>3 DEF Brings, Linking, Carried
  <2>4. CASE pc'[q] = "GallerySave" /\ job'[q].list = gallery \cup S
    <3>1. \A i \in job'[q].list : Here(i)'
      BY <1>0, <2>1, <2>2, <2>4
    <3>2. \A i \in S : \A p \in Procs \ {q} : ~ Carried(p, i)'
      BY <1>0, <2>1 DEF Carried
    <3>3. \A p \in Procs \ {q} : \A i \in job[p].images :
            i \notin gallery => ~ Carried(q, i)'
      BY <1>0, <2>1, <2>4 DEF Carried
    <3>4. \A p, o \in Procs \ {q}, i \in Images : Carried(p, i)' <=> Carried(p, i)
      BY <1>0 DEF Carried
    <3>5. /\ \A i \in gallery' : Here(i)'
          /\ \A p \in Procs : pc'[p] \in Editors => \A i \in job'[p].list : Here(i)'
      BY <1>0, <2>1, <2>2, <3>1
    <3>6. \A p \in Procs : pc'[p] = "GallerySave" =>
            \A i \in job'[p].images :
              /\ store'[i] = "STORED" /\ i \notin gallery'
              /\ \A o \in Procs \ {p} : ~ Carried(o, i)'
      BY <1>0, <2>1, <3>2, <3>3, <3>4
    <3>7. \A p \in Procs : pc'[p] = "DeleteImages" =>
            \A i \in job'[p].images :
              \/ i \in dropped'
              \/ /\ i \notin gallery'
                 /\ \A o \in Procs : pc'[o] \in Editors => ~ Carried(o, i)'
      BY <1>0, <2>1, <2>4, <3>3, <3>4
    <3> QED
      BY <3>5, <3>6, <3>7
  <2> QED
    BY <1>1, <2>3, <2>4 DEF Brings
<1>2. ASSUME Carries(q) PROVE GalleryOK'
  BY <1>0, <1>2 DEF Carries, Linking, Removing, Carried
<1>3. ASSUME Drops(q) PROVE GalleryOK'
  <2>0. /\ UNCHANGED store /\ job'[q].list = {} /\ pc'[q] \in {"idle", "DeleteImages"}
        /\ dropped \subseteq dropped'
        /\ \A p \in Procs \ {q} : pc'[p] = pc[p] /\ job'[p] = job[p]
        /\ \A p \in Procs, i \in Images : Carried(p, i)' => Carried(p, i)
    BY <1>0, <1>3 DEF Drops, Carried
  <2>1. gallery' = gallery \/ (gallery' = job[q].list /\ pc[q] \in Editors)
    BY <1>3 DEF Drops
  <2>2. /\ \A i \in gallery' : Here(i)'
        /\ \A p \in Procs : pc'[p] \in Editors => \A i \in job'[p].list : Here(i)'
    BY <2>0, <2>1
  <2>3. \A p \in Procs : pc'[p] = "GallerySave" =>
          \A i \in job'[p].images :
            /\ store'[i] = "STORED" /\ i \notin gallery'
            /\ \A o \in Procs \ {p} : ~ Carried(o, i)'
    BY <1>0, <2>0, <2>1 DEF Carried
  <2>4. ASSUME NEW p \in Procs \ {q}, pc'[p] = "DeleteImages", NEW i \in job'[p].images
        PROVE  \/ i \in dropped'
               \/ /\ i \notin gallery'
                  /\ \A o \in Procs : pc'[o] \in Editors => ~ Carried(o, i)'
    BY <1>0, <2>0, <2>1, <2>4 DEF Carried
  <2>5. ASSUME pc'[q] = "DeleteImages", NEW i \in job'[q].images
        PROVE  \/ i \in dropped'
               \/ /\ i \notin gallery'
                  /\ \A o \in Procs : pc'[o] \in Editors => ~ Carried(o, i)'
    <3>1. job'[q].images = job[q].images
      BY <1>3, <2>5 DEF Drops
    <3>2. CASE pc[q] = "GalleryUnlink"
      BY <1>3, <2>5, <3>1, <3>2 DEF Drops, Linking
    <3>3. CASE gallery' = gallery /\ pc[q] \in Linking \cup {"GallerySave"}
      <4>1. i \notin gallery /\ \A o \in Procs \ {q} : ~ Carried(o, i)
        BY <2>5, <3>1, <3>3 DEF OwnersOK, LinkingOK
      <4>2. i \in Images
        BY <1>0, <2>5, <3>1
      <4>3. \A o \in Procs : pc'[o] \in Editors => o # q /\ ~ Carried(o, i)'
        BY <2>0, <2>5, <4>1, <4>2
      <4> QED
        BY <3>3, <4>1, <4>3
    <3> QED
      BY <1>3, <2>5, <3>2, <3>3 DEF Drops
  <2> QED
    BY <2>2, <2>3, <2>4, <2>5
<1>4. ASSUME Deletes(q) PROVE GalleryOK'
  <2>1. PICK D \in SUBSET job[q].images :
          store' = [i \in Images |-> IF i \in D THEN "DELETED" ELSE store[i]]
    BY <1>4 DEF Deletes, Delete
  <2>2. /\ \A i \in Images : store'[i] = store[i] \/ i \in job[q].images
        /\ UNCHANGED <<gallery, dropped>> /\ pc[q] = "DeleteImages" /\ pc'[q] = "idle"
        /\ job'[q].images = {} /\ job'[q].list = {}
    BY <1>4, <2>1 DEF Deletes
  <2>3. \A i \in gallery' : Here(i)'
    BY <1>0, <2>2
  <2>4. \A p \in Procs : pc'[p] \in Editors => \A i \in job'[p].list : Here(i)'
    BY <1>0, <2>2 DEF Carried
  <2>5. \A p \in Procs : pc[p] = "GallerySave" =>
          \A i \in job[p].images : store'[i] = "STORED"
    BY <1>0, <2>2 DEF Carried
  <2>6. \A p \in Procs, i \in Images : Carried(p, i)' => Carried(p, i)
    BY <1>0, <2>2 DEF Carried
  <2> QED
    BY <1>0, <2>2, <2>3, <2>4, <2>5, <2>6
<1>5. ASSUME Finds(q) PROVE GalleryOK'
  <2>1. /\ UNCHANGED <<store, gallery, dropped>> /\ pc'[q] \in {"GalleryUnlink", "RowSave"}
        /\ \A i \in Images : Carried(q, i)' => i \in gallery
        /\ job'[q].list \subseteq gallery
    BY <1>5 DEF Finds, Carried
  <2>2. \A p \in Procs \ {q}, i \in Images : Carried(p, i)' <=> Carried(p, i)
    BY <1>0 DEF Carried
  <2> QED
    BY <1>0, <2>1, <2>2
<1> QED
  BY <1>1, <1>2, <1>3, <1>4, <1>5 DEF Handles

\* A request that is written does not touch the gallery.
LEMMA GalleryWritten ==
  ASSUME Typed, OwnersOK, GalleryOK, NEW q \in Procs, NEW S \in SUBSET Images,
         UNCHANGED <<store, gallery, dropped>>, Kept(q),
         job'[q].images = S, job'[q].list = {},
         \/ pc'[q] = "idle" /\ S = {}
         \/ pc'[q] = "DeleteImages" /\ \A i \in S : \E r \in RequestIds : Named(r, i)
  PROVE  GalleryOK'
<1>1. \A i \in S : i \notin gallery /\ \A p \in Procs : ~ Carried(p, i)
  BY DEF OwnersOK, NamedOK
<1> QED
  BY <1>1 DEF GalleryOK, Editors, Here, Kept, Carried

LEMMA GalleryInvStep == FlowInv /\ OwnersOK /\ GalleryOK /\ [Next]_vars => GalleryOK'
<1> SUFFICES ASSUME FlowInv, OwnersOK, GalleryOK, [Next]_vars PROVE GalleryOK'
  OBVIOUS
<1>0. Typed
  BY DEF FlowInv
<1>1. CASE UNCHANGED <<store, pc, job, request, gallery, dropped>>
  BY <1>1 DEF GalleryOK, Here, Carried
<1>2. CASE \E q \in Procs : Handles(q)
  BY <1>0, <1>2, GalleryHandled
<1>3. CASE UNCHANGED <<gallery, dropped>> /\ ~ UNCHANGED <<request, history>>
  <2>1. PICK q \in Procs, r \in RequestIds :
          /\ OthersKept(r)
          /\ \/ CreateCommit(q) /\ Return(q) /\ UNCHANGED store /\ Creates(q, r)
             \/ Move(q) /\ Return(q) /\ UNCHANGED store /\ Transits(q, r)
             \/ AddSave(q) /\ Return(q) /\ UNCHANGED store /\ Adds(q, r)
             \/ \E i \in Images :
                  Discard(q, {i}) /\ pc[q] \in Removing /\ UNCHANGED store /\ Unlinks(r, i)
    BY <1>0, <1>3, RequestEffect
  <2>2. CASE Return(q)
    <3>1. /\ Kept(q) /\ pc'[q] = "idle" /\ job'[q].images = {} /\ job'[q].list = {}
      BY <1>0, <2>2, GotoMoves DEF Kept, Return, NoJob, Typed
    <3> QED
      BY <1>0, <1>3, <2>1, <3>1, GalleryWritten
  <2>3. CASE \E i \in Images :
               Discard(q, {i}) /\ UNCHANGED store /\ Unlinks(r, i)
    <3>1. PICK i \in Images : Discard(q, {i}) /\ UNCHANGED store /\ Unlinks(r, i)
      BY <2>3
    <3>2. /\ Kept(q) /\ pc'[q] = "DeleteImages" /\ job'[q].images = {i} /\ job'[q].list = {}
      BY <1>0, <3>1, GotoMoves DEF Kept, Discard, NoJob, Typed
    <3>3. {i} \in SUBSET Images /\ Named(r, i)
      BY <3>1 DEF Unlinks, Named
    <3> QED
      BY <1>0, <1>3, <3>1, <3>2, <3>3, GalleryWritten
  <2> QED
    BY <2>1, <2>2, <2>3
<1> QED
  BY <1>0, <1>1, <1>2, <1>3, HandlesEffect

\* An image that the list of a property or unit names is missing only if a
\* removeImage took it out and a save of a list read before put it back: no
\* failed save, no crash and no deletion of uploads takes one away, whichever
\* handlers save the row at once.
THEOREM GalleriesAreStored == Spec => []GalleryStored
<1>1. Init => OwnersOK /\ GalleryOK
  BY DEF Init, OwnersOK, FreshOK, LinkingOK, NamedOK, Named, Carried, NoRequest, NoJob,
         Linking, GalleryOK, Editors, Here
<1>2. FlowInv /\ GalleryOK => GalleryStored
  BY DEF FlowInv, Typed, TablesOK, GalleryOK, GalleryStored, Stored, Here
<1> QED
  BY <1>1, <1>2, OwnersStep, GalleryInvStep, FlowInvariant, PTL DEF Spec

=============================================================================
