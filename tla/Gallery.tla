------------------------------- MODULE Gallery -------------------------------
(***************************************************************************)
(* The image list of a property or a unit.  It is a column of the row,     *)
(* which every handler reads without a lock and saves whole, so that a     *)
(* save puts back the list as it was when the row was read.                *)
(***************************************************************************)
EXTENDS Uploads

VARIABLES
  gallery,   \* the images the row names
  dropped    \* no column: the images that a removeImage has taken out of it

\* addImages: reads the list, checks the limit and uploads.
GalleryAdd(q) ==
  /\ pc[q] = "idle"
  /\ \E S \in Uploadable :
       /\ Cardinality(gallery) + Cardinality(S) <= MaxImages
       /\ Upload(S)
       /\ Goto(q, "GallerySave", [NoJob EXCEPT !.images = S, !.list = gallery \cup S])
  /\ UNCHANGED <<gallery, dropped>>

\* addImages: saves the list; when that fails the uploads are deleted.
GallerySave(q) ==
  /\ pc[q] = "GallerySave"
  /\ \/ gallery' = job[q].list /\ Return(q)
     \/ Discard(q, job[q].images) /\ UNCHANGED gallery
  /\ UNCHANGED <<store, dropped>>

\* removeImage: reads the list and finds the image in it.
GalleryRemove(q) ==
  /\ pc[q] = "idle"
  /\ \E i \in gallery :
       Goto(q, "GalleryUnlink", [NoJob EXCEPT !.images = {i}, !.list = gallery \ {i}])
  /\ UNCHANGED <<store, gallery, dropped>>

\* Wrong form of AfterUnlink: the image is deleted though the save failed.
AfterUnlinkAnyway(q, saved) == Discard(q, job[q].images)

\* The image is deleted only once the list without it is saved.
AfterUnlink(q, saved) == IF saved THEN Discard(q, job[q].images) ELSE Return(q)

\* removeImage: saves the list without the image; the save may fail.
GalleryUnlink(q) ==
  /\ pc[q] = "GalleryUnlink"
  /\ \E saved \in BOOLEAN :
       /\ gallery' = IF saved THEN job[q].list ELSE gallery
       /\ dropped' = IF saved THEN dropped \cup job[q].images ELSE dropped
       /\ AfterUnlink(q, saved)
  /\ UNCHANGED store

\* update of a property or a unit, setStatus of a unit: reads the row.
RowRead(q) ==
  /\ pc[q] = "idle"
  /\ Goto(q, "RowSave", [NoJob EXCEPT !.list = gallery])
  /\ UNCHANGED <<store, gallery, dropped>>

\* update, setStatus: saves the row, with the list that was read; it may fail.
RowSave(q) ==
  /\ pc[q] = "RowSave"
  /\ gallery' = job[q].list \/ UNCHANGED gallery
  /\ Return(q)
  /\ UNCHANGED <<store, dropped>>

GalleryStep(q) ==
  \/ GalleryAdd(q) \/ GallerySave(q) \/ GalleryRemove(q) \/ GalleryUnlink(q)
  \/ RowRead(q) \/ RowSave(q)

=============================================================================
