---------------------------- MODULE CaseDocuments ----------------------------
(***************************************************************************)
(* The photos of one room of an intake case: rows of stored_documents in   *)
(* the database, the bytes and their thumbnail in the object store.        *)
(*                                                                         *)
(* No transaction spans the two. An upload puts the objects first, then    *)
(* inserts the rows in a transaction that locks the room and counts again, *)
(* and takes the objects away when that fails. A deletion marks the rows   *)
(* in a transaction and then deletes the objects it listed, each as a best *)
(* effort. A process may stop between any two steps.                       *)
(***************************************************************************)
EXTENDS Naturals, FiniteSets

CONSTANTS
  Documents,        \* identifiers the uploads draw
  MaxPhotos,        \* accepted photos a room may have (5 in the code)
  None              \* no document

VARIABLES
  room,             \* the row of property_rooms: does it exist, its preferred photo
  rows,             \* stored_documents: "absent", "accepted" or "deleted", and in the room or not
  objects,          \* the object store: <<document, variant>>
  upload,           \* per document: where the request that uploads it is
  removal,          \* the request that deletes the room
  choice,           \* the request that selects the representative photo
  doomed            \* objects whose deletion was decided and not yet tried

vars == <<room, rows, objects, upload, removal, choice, doomed>>

Variants == {"original", "thumbnail"}
ObjectsOf(d) == {d} \X Variants
NoRow == [status |-> "absent", inRoom |-> FALSE]
NoRemoval == [at |-> "idle", listed |-> {}, marked |-> {}]

Init ==
  /\ room = [exists |-> TRUE, preferred |-> None]
  /\ rows = [d \in Documents |-> NoRow]
  /\ objects = {}
  /\ upload = [d \in Documents |-> "idle"]
  /\ removal = NoRemoval
  /\ choice = None
  /\ doomed = {}

\* The count of both checks: accepted photos of the room that are not deleted.
RoomPhotos == {d \in Documents : rows[d].status = "accepted" /\ rows[d].inRoom}

(***************************************************************************)
(* An upload.                                                              *)
(***************************************************************************)

\* The checks before the bytes are read: the room is the case's and has a
\* place left. The bytes, their signature and the scan may still refuse.
checkRoom(d) ==
  /\ upload[d] = "idle"
  /\ room.exists
  /\ Cardinality(RoomPhotos) < MaxPhotos
  /\ upload' = [upload EXCEPT ![d] = "scanned"]
  /\ UNCHANGED <<room, rows, objects, removal, choice, doomed>>

putObject(d) ==
  /\ upload[d] = "scanned"
  /\ objects' = objects \cup {<<d, "original">>}
  /\ upload' = [upload EXCEPT ![d] = "stored"]
  /\ UNCHANGED <<room, rows, removal, choice, doomed>>

createThumbnail(d) ==
  /\ upload[d] = "stored"
  /\ objects' = objects \cup {<<d, "thumbnail">>}
  /\ upload' = [upload EXCEPT ![d] = "thumbnailed"]
  /\ UNCHANGED <<room, rows, removal, choice, doomed>>

\* The image does not decode, or the object store refuses the thumbnail.
thumbnailFails(d) ==
  /\ upload[d] = "stored"
  /\ upload' = [upload EXCEPT ![d] = "failed"]
  /\ UNCHANGED <<room, rows, objects, removal, choice, doomed>>

\* Mutant: the count of the first check is trusted.
InsertAsChecked(d) ==
  /\ upload[d] = "thumbnailed"
  /\ IF room.exists
     THEN /\ rows' = [rows EXCEPT ![d] = [status |-> "accepted", inRoom |-> TRUE]]
          /\ upload' = [upload EXCEPT ![d] = "done"]
     ELSE upload' = [upload EXCEPT ![d] = "failed"] /\ UNCHANGED rows
  /\ UNCHANGED <<room, objects, removal, choice, doomed>>

\* The transaction: lock the room, count, insert both rows. A room that is
\* gone locks nothing and counts nothing; the insert then breaks the foreign
\* key and the transaction rolls back.
insertRows(d) ==
  /\ upload[d] = "thumbnailed"
  /\ IF room.exists /\ Cardinality(RoomPhotos) < MaxPhotos
     THEN /\ rows' = [rows EXCEPT ![d] = [status |-> "accepted", inRoom |-> TRUE]]
          /\ upload' = [upload EXCEPT ![d] = "done"]
     ELSE upload' = [upload EXCEPT ![d] = "failed"] /\ UNCHANGED rows
  /\ UNCHANGED <<room, objects, removal, choice, doomed>>

\* The catch block: both objects are deleted, each as a best effort.
compensate(d) ==
  /\ upload[d] = "failed"
  /\ doomed' = doomed \cup (ObjectsOf(d) \cap objects)
  /\ upload' = [upload EXCEPT ![d] = "done"]
  /\ UNCHANGED <<room, rows, objects, removal, choice>>

\* The request ends: the bytes are refused, the scanner is not there, or the
\* process stops.
UploadStops(d) ==
  /\ upload[d] \notin {"idle", "done"}
  /\ upload' = [upload EXCEPT ![d] = "done"]
  /\ UNCHANGED <<room, rows, objects, removal, choice, doomed>>

(***************************************************************************)
(* The representative photo.                                               *)
(***************************************************************************)

selectRepresentative(d) ==
  /\ choice = None
  /\ d \in RoomPhotos
  /\ room.exists
  /\ choice' = d
  /\ UNCHANGED <<room, rows, objects, upload, removal, doomed>>

\* The update of the room's row. Nothing was locked when the photo was read,
\* and a room that is gone in between fails the request.
setRepresentative ==
  /\ choice # None
  /\ room' = IF room.exists THEN [room EXCEPT !.preferred = choice] ELSE room
  /\ choice' = None
  /\ UNCHANGED <<rows, objects, upload, removal, doomed>>

ChoiceStops ==
  /\ choice # None
  /\ choice' = None
  /\ UNCHANGED <<room, rows, objects, upload, removal, doomed>>

(***************************************************************************)
(* Deletions.                                                              *)
(***************************************************************************)

deletePhoto(d) ==
  /\ d \in RoomPhotos
  /\ rows' = [rows EXCEPT ![d].status = "deleted"]
  /\ room' = IF room.preferred = d THEN [room EXCEPT !.preferred = None] ELSE room
  /\ doomed' = doomed \cup ObjectsOf(d)
  /\ UNCHANGED <<objects, upload, removal, choice>>

\* deleteRoom reads the room and lists its documents, nothing locked.
listRoomDocuments ==
  /\ removal.at = "idle"
  /\ room.exists
  /\ removal' = [at |-> "listed", listed |-> RoomPhotos, marked |-> {}]
  /\ UNCHANGED <<room, rows, objects, upload, choice, doomed>>

\* The updateMany of the same transaction: the rows it finds by now, which
\* it holds until it commits.
markRoomDocuments ==
  /\ removal.at = "listed"
  /\ removal' = [removal EXCEPT !.at = "marked", !.marked = RoomPhotos]
  /\ UNCHANGED <<room, rows, objects, upload, choice, doomed>>

\* The delete of the room's row and the commit. An upload that held the room's
\* lock has inserted its row in between: the foreign key takes that row's
\* room away and leaves it accepted. The objects are those first listed.
deleteRoom ==
  /\ removal.at = "marked"
  /\ rows' = [d \in Documents |->
                [status |-> IF d \in removal.marked THEN "deleted" ELSE rows[d].status,
                 inRoom |-> FALSE]]
  /\ room' = [exists |-> FALSE, preferred |-> None]
  /\ doomed' = doomed \cup UNION {ObjectsOf(d) : d \in removal.listed}
  /\ removal' = NoRemoval
  /\ UNCHANGED <<objects, upload, choice>>

RemovalStops ==
  /\ removal.at # "idle"
  /\ removal' = NoRemoval
  /\ UNCHANGED <<room, rows, objects, upload, choice, doomed>>

\* One object is deleted, or its deletion fails and is forgotten.
deleteObject(o) ==
  /\ o \in doomed
  /\ objects' \in {objects \ {o}, objects}
  /\ doomed' = doomed \ {o}
  /\ UNCHANGED <<room, rows, upload, removal, choice>>

Upload(d) ==
  \/ checkRoom(d) \/ putObject(d) \/ createThumbnail(d) \/ thumbnailFails(d)
  \/ insertRows(d) \/ compensate(d) \/ UploadStops(d)

Next ==
  \/ \E d \in Documents : Upload(d) \/ selectRepresentative(d) \/ deletePhoto(d)
  \/ setRepresentative \/ ChoiceStops
  \/ listRoomDocuments \/ markRoomDocuments \/ deleteRoom \/ RemovalStops
  \/ \E o \in doomed : deleteObject(o)

Spec == Init /\ [][Next]_vars

(***************************************************************************)
(* Properties.                                                             *)
(***************************************************************************)

\* The types of the variables.
TypeOK ==
  /\ room \in [exists : BOOLEAN, preferred : Documents \cup {None}]
  /\ rows \in [Documents -> [status : {"absent", "accepted", "deleted"}, inRoom : BOOLEAN]]
  /\ objects \subseteq Documents \X Variants
  /\ upload \in [Documents ->
       {"idle", "scanned", "stored", "thumbnailed", "failed", "done"}]
  /\ removal \in [at : {"idle", "listed", "marked"}, listed : SUBSET Documents,
                  marked : SUBSET Documents]
  /\ choice \in Documents \cup {None}
  /\ doomed \subseteq Documents \X Variants

\* A room never has more accepted photos than execute allows, however many
\* uploads passed its first count together; and every accepted document still
\* has its bytes and its thumbnail in the object store, whatever uploads,
\* deletions and their compensations overlapped or stopped on the way.
PhotosAreCountedAndStored ==
  /\ Cardinality(RoomPhotos) <= MaxPhotos
  /\ \A d \in Documents : rows[d].status = "accepted" => ObjectsOf(d) \subseteq objects
=============================================================================
