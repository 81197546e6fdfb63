------------------------------ MODULE AppImages ------------------------------
(***************************************************************************)
(* An image of the instance that may be replaced and deleted, and of which *)
(* a default comes with the program (service/app_images_service.go,        *)
(* bootstrap/app_images_bootstrap.go).  The type of an image is the        *)
(* extension of its file; a process knows the types from the listing it    *)
(* made when it started.  Markers beside the files tell a deleted image    *)
(* from one that was never there.                                          *)
(*                                                                         *)
(* Every call of the storage is a step, and a process may stop between any *)
(* two.  A second process may start: that it is one too many is noticed    *)
(* only after it has set up the images.                                    *)
(***************************************************************************)
EXTENDS Naturals, FiniteSets

CONSTANTS
  Process,
  Format,        \* file types
  BundledFormat, \* that of the image in the program
  NoFormat,
  MaxUploads

ASSUME BundledFormatAssumption == BundledFormat \in Format /\ NoFormat \notin Format

\* What a file may hold: nothing, the image of an earlier version of the
\* program, that of this version, or an upload.
NoImage == 0
OldBundle == 1
Bundle == 2
FirstUpload == 3

VARIABLES
  imageFiles,    \* contents of the file of each type
  deleted,       \* the marker .deleted/<name>
  inited,        \* the marker .inited of earlier versions
  process,       \* what each process is doing
  imageUploads,  \* how many images were uploaded
  wanted,        \* history: the image that was chosen last
  muddled        \* history: a change or the removal of an old image was cut
                 \* short or overlapped by a start, or a start could not read
                 \* an image

imageVars == <<imageFiles, deleted, inited, process, imageUploads, wanted, muddled>>

Present == {f \in Format : imageFiles[f] # NoImage}
Holds(f, c) == imageFiles[f] = c

Stopped == [at |-> "stopped"]
At(pc, format) == [at |-> pc, format |-> format]

ImagesInit ==
  /\ imageFiles \in [Format -> {NoImage, OldBundle, FirstUpload}]
  /\ \A f, g \in Present : f = g
  /\ deleted = FALSE
  /\ inited \in BOOLEAN
  /\ process = [p \in Process |-> Stopped]
  /\ imageUploads = 0
  /\ wanted = IF \E f \in Format : Holds(f, FirstUpload) THEN FirstUpload
              ELSE IF Present = {} /\ inited THEN NoImage
              ELSE Bundle
  /\ muddled = FALSE

Do(p, q) == process' = [process EXCEPT ![p] = q]
Keeps == UNCHANGED <<imageUploads, wanted, muddled>>

StartsUp == {"listed", "hashed", "marked", "look", "copy", "ready"}
Changes == {"saved", "marking", "removed"}
\* Is another process at one of these?
OtherAt(p, pcs) == \E o \in Process \ {p} : process[o].at \in pcs

-----------------------------------------------------------------------------
(* initApplicationImages.                                                  *)

ListImages(p) ==
  /\ process[p] = Stopped
  /\ Do(p, [at |-> "listed", listed |-> Present])
  /\ muddled' = (muddled \/ OtherAt(p, StartsUp \cup Changes))
  /\ UNCHANGED <<imageFiles, deleted, inited, imageUploads, wanted>>

(* Images of earlier versions are removed; of several files with one name  *)
(* the last in the order of the listing counts.  One that cannot be read   *)
(* is passed over, as if it were not there.                                *)
HashImages(p) ==
  LET q == process[p]
      there == {f \in q.listed : ~Holds(f, NoImage)} IN
  /\ q.at = "listed"
  /\ \E read \in SUBSET there :
       LET current == {f \in read : ~Holds(f, OldBundle)} IN
       /\ imageFiles' = [f \in Format |->
                           IF f \in read \ current THEN NoImage ELSE imageFiles[f]]
       /\ \E f \in (IF current = {} THEN {NoFormat} ELSE current) :
            Do(p, [at |-> "hashed", listed |-> q.listed, format |-> f])
       /\ muddled' = (muddled \/ read # there)
  /\ UNCHANGED <<deleted, inited, imageUploads, wanted>>

WasPresent_Current(q) == q.format # NoFormat  \* mutant: those not removed
WasPresent(q) == q.listed # {}

(* An image that was deleted under the marker of earlier versions stays    *)
(* deleted.                                                                *)
ReplaceMarker(p) ==
  LET q == process[p] IN
  /\ q.at = "hashed"
  /\ deleted' = (deleted \/ (inited /\ ~WasPresent(q)))
  /\ Do(p, At("marked", q.format))
  /\ UNCHANGED <<imageFiles, inited>> /\ Keeps

RemoveMarker(p) ==
  /\ process[p].at = "marked"
  /\ inited' = FALSE
  /\ Do(p, At("look", process[p].format))
  /\ UNCHANGED <<imageFiles, deleted>> /\ Keeps

LookForDeletion(p) ==
  LET q == process[p] IN
  /\ q.at = "look"
  /\ Do(p, At(IF q.format = NoFormat /\ ~deleted THEN "copy" ELSE "ready", q.format))
  /\ UNCHANGED <<imageFiles, deleted, inited>> /\ Keeps

CopyBundled(p) ==
  /\ process[p].at = "copy"
  /\ imageFiles' = [imageFiles EXCEPT ![BundledFormat] = Bundle]
  /\ Do(p, At("ready", BundledFormat))
  /\ UNCHANGED <<deleted, inited>> /\ Keeps

(* The process serves, unless there is one already.                        *)
Serve(p) ==
  /\ process[p].at = "ready"
  /\ ~OtherAt(p, {"up"} \cup Changes)
  /\ Do(p, At("up", process[p].format))
  /\ UNCHANGED <<imageFiles, deleted, inited>> /\ Keeps

-----------------------------------------------------------------------------
(* UpdateImage and DeleteImage, each under the lock of the service.        *)

SaveImage(p, format) ==
  LET q == process[p] IN
  /\ q.at = "up" /\ imageUploads < MaxUploads
  /\ imageUploads' = imageUploads + 1
  /\ imageFiles' = [imageFiles EXCEPT ![format] = FirstUpload + imageUploads + 1]
  /\ Do(p, [at |-> "saved", format |-> format, old |-> q.format])
  /\ muddled' = (muddled \/ OtherAt(p, StartsUp))
  /\ UNCHANGED <<deleted, inited, wanted>>

DeleteOldImage(p) ==
  LET q == process[p] IN
  /\ q.at = "saved"
  /\ imageFiles' = IF q.old \in {NoFormat, q.format} THEN imageFiles
                   ELSE [imageFiles EXCEPT ![q.old] = NoImage]
  /\ Do(p, At("marking", q.format))
  /\ UNCHANGED <<deleted, inited>> /\ Keeps

UnmarkDeleted(p) ==
  /\ process[p].at = "marking"
  /\ deleted' = FALSE
  /\ wanted' = imageFiles[process[p].format]
  /\ Do(p, At("up", process[p].format))
  /\ UNCHANGED <<imageFiles, inited, imageUploads, muddled>>

MarkDeleted(p) ==
  LET q == process[p] IN
  /\ q.at = "up" /\ q.format # NoFormat
  /\ deleted' = TRUE
  /\ Do(p, At("removed", q.format))
  /\ muddled' = (muddled \/ OtherAt(p, StartsUp))
  /\ UNCHANGED <<imageFiles, inited, imageUploads, wanted>>

DeleteImage(p) ==
  LET q == process[p] IN
  /\ q.at = "removed"
  /\ imageFiles' = [imageFiles EXCEPT ![q.format] = NoImage]
  /\ wanted' = NoImage
  /\ Do(p, At("up", NoFormat))
  /\ UNCHANGED <<deleted, inited, imageUploads, muddled>>

(* A call fails and the handler gives up: what was done so far stays.      *)
GiveUp(p) ==
  LET q == process[p] IN
  /\ q.at \in Changes
  /\ Do(p, At("up", IF q.at = "saved" THEN q.old ELSE q.format))
  /\ muddled' = TRUE
  /\ UNCHANGED <<imageFiles, deleted, inited, imageUploads, wanted>>

StopProcess(p) ==
  /\ process[p] # Stopped
  /\ Do(p, Stopped)
  /\ muddled' = (muddled \/ process[p].at \in Changes
                          \/ (process[p].at \in {"hashed", "marked"} /\ inited))
  /\ UNCHANGED <<imageFiles, deleted, inited, imageUploads, wanted>>

ImagesStep ==
  \E p \in Process :
    \/ ListImages(p) \/ HashImages(p) \/ ReplaceMarker(p) \/ RemoveMarker(p)
    \/ LookForDeletion(p) \/ CopyBundled(p) \/ Serve(p)
    \/ \E f \in Format : SaveImage(p, f)
    \/ DeleteOldImage(p) \/ UnmarkDeleted(p) \/ MarkDeleted(p) \/ DeleteImage(p)
    \/ GiveUp(p) \/ StopProcess(p)

ImagesSpec == ImagesInit /\ [][ImagesStep]_imageVars

-----------------------------------------------------------------------------
Shown(q) == IF q.format = NoFormat THEN NoImage ELSE imageFiles[q.format]

(* An image is the one that was chosen last, over restarts and upgrades: a *)
(* deleted one does not come back, an upload is not replaced by a default, *)
(* and the default is that of this version.  Only a change that was cut    *)
(* short, or overlapped by a start, may leave two files to choose from or  *)
(* the marker of an image nobody deleted; and a start that cannot read the *)
(* image sets up the default beside it.                                    *)
ChosenImageShown ==
  \A p \in Process : process[p].at = "up" /\ ~muddled => Shown(process[p]) = wanted
=============================================================================
