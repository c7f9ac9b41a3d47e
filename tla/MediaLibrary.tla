---------------------------- MODULE MediaLibrary ----------------------------
(***************************************************************************)
(* The images of one document (services/mediaService.ts): the media rows   *)
(* and the rows of document_media that link them to it, each with its      *)
(* deletedAt. Deleting a document's images and restoring them are requests *)
(* of two UPDATEs each, after a SELECT, with no transaction around them.   *)
(*                                                                         *)
(* An image is linked to the document it was generated for and to no other *)
(* (generationsService.create is the only one to insert a link).           *)
(***************************************************************************)
EXTENDS Naturals, FiniteSets

CONSTANTS
  Image,     \* the images generated for the document
  Deleting,  \* requests DELETE /documents/:id/media
  Restoring  \* requests POST /documents/:id/media/restore

VARIABLES
  image,     \* media rows: "unborn", "live", "deleted", "old" (deleted 31 days ago), "none"
  link,      \* document_media rows, likewise
  deletion,  \* where a request stands, and the images it has selected
  restoration,
  removed,   \* history: images deleted by themselves, and not restored since
  torn       \* history: a request has died between its two UPDATEs

libraryVars == <<image, link, deletion, restoration, removed, torn>>

Ages == {"unborn", "none", "live", "deleted", "old"}
NoRequest == [at |-> "none", of |-> {}]
Requests == [at : {"none", "images", "links"}, of : SUBSET Image]

LibraryTypeOK ==
  /\ image \in [Image -> Ages] /\ link \in [Image -> Ages]
  /\ deletion \in [Deleting -> Requests] /\ restoration \in [Restoring -> Requests]
  /\ removed \subseteq Image /\ torn \subseteq Image

LibraryInit ==
  /\ image = [m \in Image |-> "unborn"] /\ link = [m \in Image |-> "unborn"]
  /\ deletion = [d \in Deleting |-> NoRequest]
  /\ restoration = [r \in Restoring |-> NoRequest]
  /\ removed = {} /\ torn = {}

--------------------------------------------------------------------------
(* The statements. *)

Aged(age) == age \in {"deleted", "old"}
Has(row, m) == row[m] \notin {"unborn", "none"}
Restored(row, S, to) == [m \in Image |-> IF m \in S /\ Has(row, m) THEN to ELSE row[m]]
Deleted(row, S) == [m \in Image |-> IF m \in S /\ row[m] = "live" THEN "deleted" ELSE row[m]]

\* getDocumentMedia, and getDeletedDocumentMedia with restoreDocumentMedia's SELECT,
\* which has no limit of age.
DocumentShows == {m \in Image : link[m] = "live" /\ image[m] = "live"}
Restorable == {m \in Image : Aged(link[m])}

--------------------------------------------------------------------------

AddImage(m) ==
  /\ image[m] = "unborn"
  /\ image' = [image EXCEPT ![m] = "live"] /\ link' = [link EXCEPT ![m] = "live"]
  /\ UNCHANGED <<deletion, restoration, removed, torn>>

\* softDeleteDocumentMedia: nothing more if it selects nothing.
BeginDelete(d) ==
  /\ deletion[d].at = "none" /\ DocumentShows # {}
  /\ deletion' = [deletion EXCEPT ![d] = [at |-> "images", of |-> DocumentShows]]
  /\ UNCHANGED <<image, link, restoration, removed, torn>>

DeleteImages(d) ==
  /\ deletion[d].at = "images"
  /\ image' = Deleted(image, deletion[d].of)
  /\ deletion' = [deletion EXCEPT ![d].at = "links"]
  /\ UNCHANGED <<link, restoration, removed, torn>>

\* All of the document's links, selected or not.
DeleteLinks(d) ==
  /\ deletion[d].at = "links"
  /\ link' = Deleted(link, Image)
  /\ deletion' = [deletion EXCEPT ![d] = NoRequest]
  /\ UNCHANGED <<image, restoration, removed, torn>>

BeginRestore(r) ==
  /\ restoration[r].at = "none" /\ Restorable # {}
  /\ restoration' = [restoration EXCEPT ![r] = [at |-> "links", of |-> Restorable]]
  /\ UNCHANGED <<image, link, deletion, removed, torn>>

ImagesFirstMutant(r) ==
  \/ /\ restoration[r].at = "links"
     /\ image' = Restored(image, restoration[r].of, "live")
     /\ removed' = removed \ restoration[r].of
     /\ restoration' = [restoration EXCEPT ![r].at = "images"]
     /\ UNCHANGED <<link, deletion, torn>>
  \/ /\ restoration[r].at = "images"
     /\ link' = Restored(link, restoration[r].of, "live")
     /\ restoration' = [restoration EXCEPT ![r] = NoRequest]
     /\ UNCHANGED <<image, deletion, removed, torn>>

\* The links first, then the images, one that was deleted by itself among them.
RestoreDocumentMedia(r) ==
  \/ /\ restoration[r].at = "links"
     /\ link' = Restored(link, restoration[r].of, "live")
     /\ restoration' = [restoration EXCEPT ![r].at = "images"]
     /\ UNCHANGED <<image, deletion, removed, torn>>
  \/ /\ restoration[r].at = "images"
     /\ image' = Restored(image, restoration[r].of, "live")
     /\ removed' = removed \ restoration[r].of
     /\ restoration' = [restoration EXCEPT ![r] = NoRequest]
     /\ UNCHANGED <<link, deletion, torn>>

RequestDies ==
  /\ \/ \E d \in Deleting : /\ deletion[d].at # "none"
                            /\ deletion' = [deletion EXCEPT ![d] = NoRequest]
                            /\ torn' = IF deletion[d].at = "links" THEN torn \cup deletion[d].of ELSE torn
                            /\ UNCHANGED restoration
     \/ \E r \in Restoring : /\ restoration[r].at # "none"
                             /\ restoration' = [restoration EXCEPT ![r] = NoRequest]
                             /\ torn' = IF restoration[r].at = "images" THEN torn \cup restoration[r].of ELSE torn
                             /\ UNCHANGED deletion
  /\ UNCHANGED <<image, link, removed>>

\* delete, of one image. Its link stays.
DeleteImage(m) ==
  /\ image[m] = "live"
  /\ image' = [image EXCEPT ![m] = "deleted"]
  /\ removed' = removed \cup {m}
  /\ UNCHANGED <<link, deletion, restoration, torn>>

\* 31 days go by; the cleanup deletes what has been deleted for longer, an image
\* with its link.
RetentionPasses(m) ==
  /\ \/ image[m] = "deleted" /\ image' = [image EXCEPT ![m] = "old"] /\ UNCHANGED link
     \/ link[m] = "deleted" /\ link' = [link EXCEPT ![m] = "old"] /\ UNCHANGED image
  /\ UNCHANGED <<deletion, restoration, removed, torn>>

CleanupImages ==
  /\ \E m \in Image : image[m] = "old"
  /\ image' = [m \in Image |-> IF image[m] = "old" THEN "none" ELSE image[m]]
  /\ link' = [m \in Image |-> IF image[m] = "old" THEN "none" ELSE link[m]]
  /\ UNCHANGED <<deletion, restoration, removed, torn>>

CleanupLinks ==
  /\ \E m \in Image : link[m] = "old"
  /\ link' = [m \in Image |-> IF link[m] = "old" THEN "none" ELSE link[m]]
  /\ UNCHANGED <<image, deletion, restoration, removed, torn>>

\* permanentDeleteDocumentMedia, of every linked image, whatever its age.
PermanentDeleteDocumentMedia ==
  /\ \E m \in Image : Has(link, m)
  /\ image' = [m \in Image |-> IF Has(link, m) THEN "none" ELSE image[m]]
  /\ link' = [m \in Image |-> IF Has(link, m) THEN "none" ELSE link[m]]
  /\ UNCHANGED <<deletion, restoration, removed, torn>>

LibraryNext ==
  \/ \E m \in Image : AddImage(m) \/ DeleteImage(m) \/ RetentionPasses(m)
  \/ \E d \in Deleting : BeginDelete(d) \/ DeleteImages(d) \/ DeleteLinks(d)
  \/ \E r \in Restoring : BeginRestore(r) \/ RestoreDocumentMedia(r)
  \/ RequestDies \/ CleanupImages \/ CleanupLinks \/ PermanentDeleteDocumentMedia

LibrarySpec == LibraryInit /\ [][LibraryNext]_libraryVars

--------------------------------------------------------------------------
(* Properties. *)

\* When no request is between its UPDATEs, an image that is linked to the document
\* and that nobody deleted by itself is shown, or can be restored: however deletions
\* and restorations run into one another, they do not leave the row deleted and the
\* link alive, which no restoration finds (one that dies between its UPDATEs does).
ShownOrRestorable ==
  (\A d \in Deleting : deletion[d].at # "links") /\ (\A r \in Restoring : restoration[r].at # "images") =>
    \A m \in Image : Has(image, m) /\ Has(link, m) /\ m \notin removed \cup torn =>
      m \in DocumentShows \cup Restorable
=============================================================================
