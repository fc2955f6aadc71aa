------------------------------- MODULE Uploads -------------------------------
(***************************************************************************)
(* UploadService and the image store behind it.  The store is outside the  *)
(* database: an upload or a deletion is not undone by a rollback, and each *)
(* deletion may fail without the handler noticing.                         *)
(***************************************************************************)
EXTENDS Integers, FiniteSets, Sequences

CONSTANTS
  Procs,      \* concurrent HTTP requests
  Images,     \* images.publicId
  MaxImages,  \* how many images a row may name
  None

ASSUME MaxImagesAssumption == MaxImages \in Nat \ {0}

ASSUME ImagesAssumption == IsFiniteSet(Images)

VARIABLES
  store,   \* "FRESH" until the image is uploaded, then "STORED", then "DELETED"
  pc, job

Fresh == {i \in Images : store[i] = "FRESH"}

Stored == {i \in Images : store[i] = "STORED"}

\* One to MaxImages files are uploaded.  An upload of which some files fail
\* leaves the others stored, as a crash right after the upload does.
Uploadable == {S \in SUBSET Fresh : Cardinality(S) \in 1 .. MaxImages}

Upload(S) == store' = [i \in Images |-> IF i \in S THEN "STORED" ELSE store[i]]

\* deleteImages: any of the deletions may fail, which is logged and ignored.
Delete(S) ==
  \E D \in SUBSET S :
    store' = [i \in Images |-> IF i \in D THEN "DELETED" ELSE store[i]]

\* What a handler remembers: the images to link or to delete, the row it works
\* on and the status that row had, where it moves it, the list it will save.
NoJob ==
  [images |-> {}, id |-> None, from |-> None, op |-> None, list |-> {}]

Goto(q, step, j) ==
  /\ pc' = [pc EXCEPT ![q] = step]
  /\ job' = [job EXCEPT ![q] = j]

Return(q) == Goto(q, "idle", NoJob)

\* The handler goes on to delete the images it has uploaded or unlinked.
Discard(q, S) == Goto(q, "DeleteImages", [NoJob EXCEPT !.images = S])

=============================================================================
