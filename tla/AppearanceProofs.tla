-------------------------- MODULE AppearanceProofs --------------------------
(***************************************************************************)
(* Proofs about the parts of Parts that say how an instance and its users  *)
(* appear, for any groups, keys, file types, processes and requests: the   *)
(* images of the instance, and the claims that are told of a user.         *)
(***************************************************************************)
EXTENDS Parts, TLAPS

(* A step of the instance is a step of each part or leaves it alone.       *)
LEMMA StepsShown ==
  ASSUME [Next]_vars
  PROVE  /\ [ImagesStep]_imageVars
         /\ [ClaimsStep]_claimVars
  BY DEF Next, StepAccess, StepAdministration, StepAuthentication, StepClaims, StepKeys,
         StepConfiguration, StepLocation, StepImages, StepPictures, StepSignIns, StepBackup,
         Still, vars

-----------------------------------------------------------------------------
(* The image of the instance (AppImages).                                  *)

AnyFormat == Format \cup {NoFormat}
ProcessStates ==
  {Stopped} \cup [at : {"listed"}, listed : SUBSET Format]
    \cup [at : {"hashed"}, listed : SUBSET Format, format : AnyFormat]
    \cup [at : {"marked", "look", "copy", "ready", "up", "marking", "removed"},
          format : AnyFormat]
    \cup [at : {"saved"}, format : Format, old : AnyFormat]

ImageTypeOK ==
  /\ imageFiles \in [Format -> Nat]
  /\ deleted \in BOOLEAN /\ inited \in BOOLEAN /\ muddled \in BOOLEAN
  /\ process \in [Process -> ProcessStates]
  /\ imageUploads \in Nat

Serves(p) == process[p].at \in {"up"} \cup Changes
Starts(p) == process[p].at \in StartsUp

OneServes == \A p, o \in Process : Serves(p) /\ Serves(o) => p = o
OneStarts ==
  \A p, o \in Process : Starts(p) /\ o # p => process[o].at \in {"stopped", "up"}

(* The one file is the image that was chosen, or there is none because     *)
(* none was chosen or the default is yet to be copied.                     *)
HasImage(f) == Present = {f} /\ imageFiles[f] = wanted /\ wanted > OldBundle /\ ~deleted
HasNone(gone) == Present = {} /\ wanted = IF gone THEN NoImage ELSE Bundle
HasFound(f, gone) == IF f = NoFormat THEN HasNone(gone) ELSE HasImage(f)

(* What each process knows of the files and markers at its stage.          *)
Knows(q) ==
  /\ q.at = "listed" => q.listed = Present
  /\ q.at = "hashed" => /\ HasFound(q.format, deleted \/ (inited /\ q.listed = {}))
                        /\ q.format # NoFormat => q.listed # {}
  /\ q.at \in {"marked", "look"} => HasFound(q.format, deleted)
  /\ q.at = "copy" => HasNone(FALSE) /\ ~deleted
  /\ q.at \in {"ready", "up"} => /\ HasFound(q.format, TRUE)
                                 /\ q.format = NoFormat => deleted
  /\ q.at = "saved" => /\ imageFiles[q.format] > OldBundle
                       /\ Present = {q.format, q.old} \ {NoFormat}
  /\ q.at \in {"marking", "removed"} => Present = {q.format} /\ imageFiles[q.format] > OldBundle
  /\ q.at = "removed" => deleted
  /\ q.at \in {"look", "copy", "ready", "up"} \cup Changes => ~inited

(* What a start finds when nobody is at work.                              *)
AtRest == \A p \in Process : process[p].at \in {"stopped", "listed", "up"}
FilesTell ==
  \/ HasNone(deleted \/ inited)
  \/ \E f \in Format : HasImage(f)
  \/ \E f \in Format :
       Present = {f} /\ imageFiles[f] = OldBundle /\ wanted = Bundle /\ ~deleted

Unmuddled == OneStarts /\ (\A p \in Process : Knows(process[p])) /\ (AtRest => FilesTell)

ImageInv == ImageTypeOK /\ OneServes /\ (~muddled => Unmuddled)

LEMMA ProcessIs ==
  ASSUME ImageTypeOK, NEW p \in Process
  PROVE  /\ process[p] \in ProcessStates
         /\ process[p].at \in {"stopped"} \cup StartsUp \cup {"up"} \cup Changes
         /\ process[p] = Stopped <=> process[p].at = "stopped"
         /\ process[p].at \in {"listed", "hashed"} => process[p].listed \in SUBSET Format
         /\ process[p].at \in {"hashed", "marked", "look", "copy", "ready", "up", "marking",
                               "removed", "saved"} => process[p].format \in AnyFormat
         /\ process[p].at = "saved" => process[p].format \in Format /\ process[p].old \in AnyFormat
<1>1. process[p] \in ProcessStates
  BY DEF ImageTypeOK
<1>2. Stopped.at = "stopped"
  BY DEF Stopped
<1>3. \A q \in ProcessStates \ {Stopped} :
        /\ q.at \in StartsUp \cup {"up"} \cup Changes
        /\ q.at \in {"listed", "hashed"} => q.listed \in SUBSET Format
        /\ q.at \in {"hashed", "marked", "look", "copy", "ready", "up", "marking", "removed",
                     "saved"} => q.format \in AnyFormat
        /\ q.at = "saved" => q.format \in Format /\ q.old \in AnyFormat
  BY DEF ProcessStates, StartsUp, Changes, AnyFormat
<1> QED BY <1>1, <1>2, <1>3 DEF StartsUp, Changes

LEMMA DoIs ==
  ASSUME ImageTypeOK, NEW p \in Process, NEW q \in ProcessStates, Do(p, q)
  PROVE  /\ process' \in [Process -> ProcessStates]
         /\ process'[p] = q
         /\ \A o \in Process \ {p} : process'[o] = process[o]
BY DEF ImageTypeOK, Do

(* Files and markers that stay tell a process what they told it before.    *)
LEMMA KnowledgeStays ==
  ASSUME UNCHANGED <<imageFiles, deleted, inited, wanted>>
  PROVE  /\ Present' = Present
         /\ \A q : Knows(q) => Knows(q)'
         /\ FilesTell => FilesTell'
<1>1. Present' = Present
  BY DEF Present, Holds
<1> QED BY <1>1 DEF Knows, FilesTell, HasFound, HasNone, HasImage

(* One process goes on to another stage; who serves and who starts.        *)
LEMMA StagesFollow ==
  ASSUME ImageInv, NEW p \in Process, NEW q \in ProcessStates, Do(p, q),
         q.at \in {"up"} \cup Changes => Serves(p) \/ \A o \in Process \ {p} : ~Serves(o)
  PROVE  /\ OneServes'
         /\ (/\ OneStarts
             /\ q.at \in StartsUp =>
                  \A o \in Process \ {p} : process[o].at \in {"stopped", "up"}
             /\ q.at \in Changes =>
                  \A o \in Process \ {p} : ~Starts(o)) => OneStarts'
<1>1. /\ process'[p] = q
      /\ \A o \in Process \ {p} : process'[o] = process[o]
  BY DoIs DEF ImageInv
<1>2. OneServes'
  BY <1>1 DEF ImageInv, OneServes, Serves
<1>3. \A o \in Process : process[o].at \in {"stopped"} \cup StartsUp \cup {"up"} \cup Changes
  BY ProcessIs DEF ImageInv
<1>4. q.at \in {"stopped"} \cup StartsUp \cup {"up"} \cup Changes
  BY DEF ProcessStates, Stopped, StartsUp, Changes
<1>5. ASSUME OneStarts,
             q.at \in StartsUp => \A o \in Process \ {p} : process[o].at \in {"stopped", "up"},
             q.at \in Changes => \A o \in Process \ {p} : ~Starts(o)
      PROVE  OneStarts'
  <2> SUFFICES ASSUME NEW r \in Process, NEW o \in Process, Starts(r)', o # r
               PROVE  process'[o].at \in {"stopped", "up"}
    BY DEF OneStarts
  <2>1. CASE r = p
    BY <1>1, <1>5, <2>1 DEF Starts
  <2>2. CASE o = p
    <3>1. r # p /\ process[r].at \in StartsUp /\ Starts(r)
      BY <1>1, <2>2 DEF Starts
    <3>2. q.at \notin StartsUp /\ q.at \notin Changes
      BY <1>5, <3>1 DEF StartsUp
    <3> QED BY <1>1, <1>4, <2>2, <3>2
  <2>3. CASE r # p /\ o # p
    BY <1>1, <1>5, <2>3 DEF Starts, OneStarts
  <2> QED BY <2>1, <2>2, <2>3
<1> QED BY <1>2, <1>5

(* Beside a start only a process that serves can be at work, and beside    *)
(* one that changes an image nobody.                                       *)
LEMMA OthersAre ==
  ASSUME ImageInv, OneStarts, NEW p \in Process, NEW o \in Process \ {p}
  PROVE  /\ Starts(p) => process[o].at \in {"stopped", "up"}
         /\ process[p].at \in Changes => process[o].at = "stopped"
         /\ Serves(p) /\ ~Starts(o) => process[o].at = "stopped"
<1>1. process[o].at \in {"stopped"} \cup StartsUp \cup {"up"} \cup Changes
  BY ProcessIs DEF ImageInv
<1> QED BY <1>1 DEF ImageInv, OneStarts, OneServes, Starts, Serves, StartsUp, Changes

LEMMA IdleKnows == \A q : q.at = "stopped" => Knows(q) /\ Knows(q)'
BY DEF Knows, StartsUp, Changes

(* A process that goes on, on files that stay, keeps what all know.        *)
LEMMA KnownFollows ==
  ASSUME ImageInv, ~muddled, UNCHANGED <<imageFiles, deleted, inited, wanted>>,
         NEW p \in Process, NEW q \in ProcessStates, Do(p, q),
         OneStarts', Knows(q), AtRest' => FilesTell
  PROVE  Unmuddled'
<1>1. /\ process'[p] = q
      /\ \A o \in Process \ {p} : process'[o] = process[o]
  BY DoIs DEF ImageInv
<1>2. \A o \in Process : Knows(process'[o])
  BY <1>1 DEF ImageInv, Unmuddled
<1>3. \A o \in Process : Knows(process[o])'
  <2>1. \A r : Knows(r) => Knows(r)'
    BY KnowledgeStays
  <2> QED BY <1>2, <2>1 DEF Knows, HasFound, HasNone, HasImage, Present, Holds
<1>4. AtRest' => FilesTell'
  BY KnowledgeStays
<1> QED BY <1>3, <1>4 DEF Unmuddled

LEMMA KnowledgeTells ==
  ASSUME NEW q, Knows(q), ~inited, q.format \in AnyFormat,
         q.at \in {"hashed", "marked", "look", "copy", "ready", "up"}
  PROVE  FilesTell
<1>1. \/ HasFound(q.format, deleted)
      \/ HasNone(FALSE) /\ ~deleted
      \/ HasFound(q.format, TRUE) /\ (q.format = NoFormat => deleted)
  BY DEF Knows, HasFound, HasNone
<1>2. CASE q.format = NoFormat \/ (HasNone(FALSE) /\ ~deleted)
  BY <1>1, <1>2 DEF HasFound, HasNone, FilesTell
<1>3. CASE q.format # NoFormat /\ ~(HasNone(FALSE) /\ ~deleted)
  <2>1. HasImage(q.format) /\ q.format \in Format
    BY <1>1, <1>3 DEF HasFound, AnyFormat
  <2> QED BY <2>1 DEF FilesTell
<1> QED BY <1>2, <1>3

LEMMA StopProcessKeeps ==
  ASSUME ImageInv, NEW p \in Process, StopProcess(p)
  PROVE  ImageInv'
<1>1. /\ Do(p, Stopped) /\ UNCHANGED <<imageFiles, deleted, inited, imageUploads, wanted>>
      /\ muddled' = (muddled \/ process[p].at \in Changes
                              \/ (process[p].at \in {"hashed", "marked"} /\ inited))
  BY DEF StopProcess
<1>2. Stopped \in ProcessStates /\ Stopped.at = "stopped"
  BY DEF Stopped, ProcessStates
<1>3. OneServes' /\ (OneStarts => OneStarts')
  BY <1>1, <1>2, StagesFollow DEF StartsUp, Changes
<1>4. ImageTypeOK'
  <2>1. muddled' \in BOOLEAN
    BY <1>1, Zenon DEF ImageInv, ImageTypeOK
  <2> QED BY <1>1, <1>2, <2>1, DoIs DEF ImageInv, ImageTypeOK
<1>5. ASSUME ~muddled' PROVE Unmuddled'
  <2>1. ~muddled /\ Unmuddled /\ process[p].at \notin Changes
        /\ (process[p].at \in {"hashed", "marked"} => ~inited)
    BY <1>1, <1>5 DEF ImageInv
  <2>2. ASSUME AtRest' PROVE FilesTell
    <3>1. CASE process[p].at \in {"stopped", "listed", "up"}
      <4>1. \A o \in Process \ {p} : process'[o] = process[o]
        BY <1>1, <1>2, DoIs DEF ImageInv
      <4> QED BY <2>1, <2>2, <3>1, <4>1 DEF AtRest, Unmuddled
    <3>2. CASE process[p].at \notin {"stopped", "listed", "up"}
      <4>1. process[p].at \in {"hashed", "marked", "look", "copy", "ready"}
        BY <2>1, <3>2, ProcessIs DEF ImageInv, StartsUp
      <4>2. Knows(process[p]) /\ ~inited
        BY <2>1, <4>1 DEF Unmuddled, Knows
      <4>3. process[p].format \in AnyFormat
        BY <4>1, ProcessIs DEF ImageInv
      <4> QED BY <4>1, <4>2, <4>3, KnowledgeTells
    <3> QED BY <3>1, <3>2
  <2>3. OneStarts' /\ Knows(Stopped)
    BY <1>2, <1>3, <2>1, IdleKnows DEF Unmuddled
  <2> QED BY <1>1, <1>2, <2>1, <2>2, <2>3, KnownFollows
<1> QED BY <1>3, <1>4, <1>5 DEF ImageInv

LEMMA GiveUpKeeps ==
  ASSUME ImageInv, NEW p \in Process, GiveUp(p)
  PROVE  ImageInv'
<1> DEFINE f == IF process[p].at = "saved" THEN process[p].old ELSE process[p].format
<1>1. /\ process[p].at \in Changes /\ Do(p, At("up", f)) /\ muddled' = TRUE
      /\ UNCHANGED <<imageFiles, deleted, inited, imageUploads, wanted>>
  BY DEF GiveUp
<1>2. f \in AnyFormat
  BY <1>1, ProcessIs DEF ImageInv, Changes
<1> HIDE DEF f
<1>3. At("up", f) \in ProcessStates /\ At("up", f).at = "up"
  BY <1>2 DEF At, ProcessStates
<1>4. OneServes'
  BY <1>1, <1>3, StagesFollow DEF Serves
<1>5. ImageTypeOK'
  BY <1>1, <1>3, DoIs DEF ImageInv, ImageTypeOK
<1> QED BY <1>1, <1>4, <1>5 DEF ImageInv

LEMMA ListImagesKeeps ==
  ASSUME ImageInv, NEW p \in Process, ListImages(p)
  PROVE  ImageInv'
<1> DEFINE q == [at |-> "listed", listed |-> Present]
<1>1. /\ process[p] = Stopped /\ Do(p, q)
      /\ UNCHANGED <<imageFiles, deleted, inited, imageUploads, wanted>>
      /\ muddled' = (muddled \/ OtherAt(p, StartsUp \cup Changes))
  BY DEF ListImages
<1>2. q \in ProcessStates /\ q.at = "listed" /\ Knows(q)
  <2>1. Present \in SUBSET Format
    BY DEF Present
  <2> QED BY <2>1 DEF ProcessStates, Knows, StartsUp, Changes
<1> HIDE DEF q
<1>3. /\ OneServes'
      /\ (/\ OneStarts
          /\ \A o \in Process \ {p} : process[o].at \in {"stopped", "up"}) => OneStarts'
  BY <1>1, <1>2, StagesFollow DEF Changes
<1>4. ImageTypeOK'
  <2>1. muddled' \in BOOLEAN
    BY <1>1, Zenon DEF ImageInv, ImageTypeOK
  <2> QED BY <1>1, <1>2, <2>1, DoIs DEF ImageInv, ImageTypeOK
<1>5. ASSUME ~muddled' PROVE Unmuddled'
  <2>1. ~muddled /\ Unmuddled /\ ~OtherAt(p, StartsUp \cup Changes)
    BY <1>1, <1>5 DEF ImageInv
  <2>2. \A o \in Process \ {p} : process[o].at \in {"stopped", "up"}
    BY <2>1, ProcessIs DEF OtherAt, ImageInv
  <2>3. FilesTell
    <3>1. process[p].at = "stopped"
      BY <1>1 DEF Stopped
    <3>2. AtRest
      BY <2>2, <3>1 DEF AtRest
    <3> QED BY <2>1, <3>2 DEF Unmuddled
  <2> QED BY <1>1, <1>2, <1>3, <2>1, <2>2, <2>3, KnownFollows DEF Unmuddled
<1> QED BY <1>3, <1>4, <1>5 DEF ImageInv

(* A start goes on: beside it there is at most a process that serves.      *)
LEMMA StartGoesOn ==
  ASSUME ImageInv, ~muddled, NEW p \in Process, Starts(p),
         NEW q \in ProcessStates, Do(p, q), q.at \in (StartsUp \ {"listed"}) \cup {"up"},
         Knows(q)',
         \A o \in Process \ {p} : process[o].at = "up" => Knows(process[o])',
         OneStarts', q.at = "up" => FilesTell'
  PROVE  Unmuddled'
<1>1. /\ process'[p] = q
      /\ \A o \in Process \ {p} : process'[o] = process[o]
  BY DoIs DEF ImageInv
<1>2. \A o \in Process \ {p} : process[o].at \in {"stopped", "up"}
  BY OthersAre DEF ImageInv, Unmuddled
<1>3. Knows(process[p])'
  BY <1>1 DEF Knows, HasFound, HasNone, HasImage
<1>4. ASSUME NEW o \in Process \ {p} PROVE Knows(process[o])'
  <2>1. CASE process[o].at = "up"
    BY <2>1
  <2>2. CASE process[o].at = "stopped"
    BY <1>1, <2>2 DEF Knows, StartsUp, Changes
  <2> QED BY <1>2, <2>1, <2>2
<1>5. AtRest' => FilesTell'
  BY <1>1 DEF AtRest, StartsUp
<1>6. \A o \in Process : Knows(process[o])'
  BY <1>3, <1>4
<1> QED BY <1>5, <1>6 DEF Unmuddled

(* Types and who serves, whatever a step does to files and markers.        *)
LEMMA ImagesBasics ==
  ASSUME ImageInv, NEW p \in Process, NEW q \in ProcessStates, Do(p, q),
         imageFiles' \in [Format -> Nat], deleted' \in BOOLEAN, inited' \in BOOLEAN,
         muddled' \in BOOLEAN, imageUploads' \in Nat,
         q.at \in {"up"} \cup Changes => Serves(p) \/ \A o \in Process \ {p} : ~Serves(o)
  PROVE  ImageTypeOK' /\ OneServes'
BY StagesFollow, DoIs DEF ImageInv, ImageTypeOK

LEMMA MarkersAre ==
  ASSUME ImageInv
  PROVE  deleted \in BOOLEAN /\ inited \in BOOLEAN /\ muddled \in BOOLEAN
         /\ imageFiles \in [Format -> Nat] /\ imageUploads \in Nat
BY DEF ImageInv, ImageTypeOK

LEMMA LookKeeps ==
  ASSUME ImageInv, NEW p \in Process, LookForDeletion(p)
  PROVE  ImageInv'
<1> DEFINE f == process[p].format
           pc == IF f = NoFormat /\ ~deleted THEN "copy" ELSE "ready"
<1>1. /\ process[p].at = "look" /\ Do(p, At(pc, f))
      /\ UNCHANGED <<imageFiles, deleted, inited, imageUploads, wanted, muddled>>
  BY DEF LookForDeletion, Keeps
<1>2. f \in AnyFormat /\ pc \in {"copy", "ready"}
  BY <1>1, ProcessIs DEF ImageInv
<1>3. /\ At(pc, f) \in ProcessStates /\ At(pc, f).at = pc /\ At(pc, f).format = f
  BY <1>2 DEF At, ProcessStates
<1>4. ImageTypeOK' /\ OneServes'
  BY <1>1, <1>2, <1>3, ImagesBasics, MarkersAre DEF Changes
<1>5. ASSUME ~muddled' PROVE Unmuddled'
  <2>1. ~muddled /\ Unmuddled /\ Starts(p)
    BY <1>1, <1>5 DEF ImageInv, Starts, StartsUp
  <2>2. OneStarts'
    BY <1>1, <1>2, <1>3, <2>1, StagesFollow, OthersAre DEF Unmuddled, Changes
  <2>3. Knows(At(pc, f))
    <3>1. HasFound(f, deleted) /\ ~inited
      BY <1>1, <2>1 DEF Unmuddled, Knows
    <3> QED BY <1>2, <1>3, <3>1 DEF Knows, HasFound, HasNone, HasImage, Changes
  <2>4. ~AtRest'
    BY <1>1, <1>2, <1>3, DoIs DEF AtRest, ImageInv
  <2> QED BY <1>1, <1>3, <2>1, <2>2, <2>3, <2>4, KnownFollows
<1> QED BY <1>4, <1>5 DEF ImageInv

LEMMA ServeKeeps ==
  ASSUME ImageInv, NEW p \in Process, Serve(p)
  PROVE  ImageInv'
<1> DEFINE f == process[p].format
<1>1. /\ process[p].at = "ready" /\ Do(p, At("up", f))
      /\ ~OtherAt(p, {"up"} \cup Changes)
      /\ UNCHANGED <<imageFiles, deleted, inited, imageUploads, wanted, muddled>>
  BY DEF Serve, Keeps
<1>2. f \in AnyFormat
  BY <1>1, ProcessIs DEF ImageInv
<1>3. /\ At("up", f) \in ProcessStates /\ At("up", f).at = "up" /\ At("up", f).format = f
  BY <1>2 DEF At, ProcessStates
<1>4. \A o \in Process \ {p} : ~Serves(o)
  BY <1>1 DEF OtherAt, Serves
<1>5. ImageTypeOK' /\ OneServes'
  BY <1>1, <1>3, <1>4, ImagesBasics, MarkersAre
<1>6. ASSUME ~muddled' PROVE Unmuddled'
  <2>1. ~muddled /\ Unmuddled
    BY <1>1, <1>6 DEF ImageInv
  <2>2. OneStarts'
    BY <1>1, <1>3, <1>4, <2>1, StagesFollow DEF Unmuddled, StartsUp, Changes
  <2>3. Knows(At("up", f)) /\ FilesTell
    <3>1. Knows(process[p]) /\ ~inited
      BY <1>1, <2>1 DEF Unmuddled, Knows
    <3>2. Knows(At("up", f))
      BY <1>1, <1>3, <3>1 DEF Knows, Changes
    <3> QED BY <1>1, <1>2, <3>1, <3>2, KnowledgeTells
  <2> QED BY <1>1, <1>3, <2>1, <2>2, <2>3, KnownFollows
<1> QED BY <1>5, <1>6 DEF ImageInv

LEMMA OtherStays ==
  ASSUME NEW o \in Process, process'[o] = process[o], Knows(process[o]),
         UNCHANGED <<imageFiles, deleted, inited, wanted>>
  PROVE  Knows(process[o])'
<1>1. Present' = Present
  BY KnowledgeStays
<1> QED BY <1>1 DEF Knows, HasFound, HasNone, HasImage

LEMMA MarkerKeeps ==
  ASSUME ImageInv, NEW p \in Process, ReplaceMarker(p) \/ RemoveMarker(p)
  PROVE  ImageInv'
<1>0. process[p].format \in AnyFormat
  BY ProcessIs DEF ImageInv, ReplaceMarker, RemoveMarker
<1>1. PICK pc \in {"marked", "look"}, f \in AnyFormat :
        /\ Do(p, At(pc, f)) /\ f = process[p].format
        /\ \/ /\ pc = "marked" /\ process[p].at = "hashed" /\ inited' = inited
              /\ deleted' = (deleted \/ (inited /\ process[p].listed = {}))
           \/ /\ pc = "look" /\ process[p].at = "marked" /\ inited' = FALSE
              /\ deleted' = deleted
  BY <1>0 DEF ReplaceMarker, RemoveMarker, WasPresent
<1>2. /\ UNCHANGED <<imageFiles, imageUploads, wanted, muddled>>
  BY DEF ReplaceMarker, RemoveMarker, Keeps
<1>3. f \in AnyFormat /\ Starts(p)
  BY <1>1, ProcessIs DEF ImageInv, Starts, StartsUp
<1>4. /\ At(pc, f) \in ProcessStates /\ At(pc, f).at = pc /\ At(pc, f).format = f
  BY <1>3 DEF At, ProcessStates
<1>5. deleted' \in BOOLEAN /\ inited' \in BOOLEAN
  BY <1>1, MarkersAre, Zenon
<1>6. ImageTypeOK' /\ OneServes'
  BY <1>1, <1>2, <1>4, <1>5, ImagesBasics, MarkersAre DEF Changes
<1>7. ASSUME ~muddled' PROVE Unmuddled'
  <2>1. ~muddled /\ Unmuddled /\ Knows(process[p])
    BY <1>2, <1>7 DEF ImageInv, Unmuddled
  <2>2. OneStarts'
    BY <1>1, <1>3, <1>4, <2>1, StagesFollow, OthersAre DEF Unmuddled, Changes
  <2>3. Present' = Present
    BY <1>2 DEF Present, Holds
  <2>4. Knows(At(pc, f))'
    <3>1. CASE pc = "marked"
      <4>1. /\ HasFound(f, deleted \/ (inited /\ process[p].listed = {}))
            /\ f # NoFormat => process[p].listed # {}
        BY <1>1, <2>1, <3>1 DEF Knows
      <4>2. deleted' <=> deleted \/ (inited /\ process[p].listed = {})
        BY <1>1, <3>1
      <4>3. HasFound(f, deleted)'
        BY <1>2, <2>3, <4>1, <4>2 DEF HasFound, HasNone, HasImage
      <4> QED BY <1>4, <3>1, <4>3 DEF Knows, Changes, HasFound, HasNone, HasImage
    <3>2. CASE pc = "look"
      <4>1. HasFound(f, deleted) /\ deleted' = deleted /\ ~inited'
        BY <1>1, <2>1, <3>2 DEF Knows
      <4>2. HasFound(f, deleted)'
        BY <1>2, <2>3, <4>1 DEF HasFound, HasNone, HasImage
      <4> QED BY <1>4, <3>2, <4>1, <4>2 DEF Knows, Changes, HasFound, HasNone, HasImage
    <3> QED BY <3>1, <3>2
  <2>5. ASSUME NEW o \in Process \ {p}, process[o].at = "up" PROVE Knows(process[o])'
    <3>1. Knows(process[o]) /\ ~inited
      BY <2>1, <2>5 DEF Unmuddled, Knows
    <3>2. deleted' = deleted /\ inited' = inited
      BY <1>1, <3>1, MarkersAre
    <3>3. process'[o] = process[o]
      BY <1>1, <1>4, DoIs DEF ImageInv
    <3> QED BY <1>2, <3>1, <3>2, <3>3, OtherStays
  <2> QED BY <1>1, <1>3, <1>4, <2>1, <2>2, <2>4, <2>5, StartGoesOn DEF StartsUp
<1> QED BY <1>6, <1>7 DEF ImageInv

LEMMA CopyKeeps ==
  ASSUME ImageInv, NEW p \in Process, CopyBundled(p)
  PROVE  ImageInv'
<1>1. At("ready", BundledFormat) \in ProcessStates
  BY BundledFormatAssumption DEF At, ProcessStates, AnyFormat
<1>2. PICK q \in ProcessStates : q = At("ready", BundledFormat)
  BY <1>1
<1>3. /\ process[p].at = "copy" /\ Do(p, q)
      /\ imageFiles' = [imageFiles EXCEPT ![BundledFormat] = Bundle]
      /\ UNCHANGED <<deleted, inited, imageUploads, wanted, muddled>>
  BY <1>2 DEF CopyBundled, Keeps
<1>4. q.at = "ready" /\ q.format = BundledFormat
  BY <1>2 DEF At
<1>5. imageFiles' \in [Format -> Nat]
  BY <1>3, MarkersAre DEF Bundle
<1>6. ImageTypeOK' /\ OneServes'
  BY <1>3, <1>4, <1>5, ImagesBasics, MarkersAre DEF Changes
<1>7. ASSUME ~muddled' PROVE Unmuddled'
  <2>1. ~muddled /\ Unmuddled /\ Starts(p)
    BY <1>3, <1>7 DEF ImageInv, Starts, StartsUp
  <2>2. Present = {} /\ wanted = Bundle /\ ~deleted /\ ~inited
    BY <1>3, <2>1 DEF Unmuddled, Knows, HasNone
  <2>3. OneStarts'
    BY <1>3, <1>4, <2>1, StagesFollow, OthersAre DEF Unmuddled, Changes
  <2>4. Present' = {BundledFormat} /\ imageFiles'[BundledFormat] = Bundle
    <3>1. \A f \in Format : imageFiles'[f] = IF f = BundledFormat THEN Bundle ELSE imageFiles[f]
      BY <1>3, MarkersAre
    <3> QED BY <2>2, <3>1, BundledFormatAssumption DEF Present, Holds, Bundle, NoImage
  <2>5. Knows(q)'
    <3>1. HasImage(BundledFormat)'
      BY <1>3, <2>2, <2>4 DEF HasImage, Bundle, OldBundle
    <3>2. BundledFormat # NoFormat
      BY BundledFormatAssumption
    <3>3. HasFound(q.format, TRUE)'
      BY <1>4, <3>1, <3>2 DEF HasFound, HasImage, Present, Holds
    <3> QED BY <1>3, <1>4, <2>2, <3>2, <3>3 DEF Knows, Changes
  <2>6. ASSUME NEW o \in Process \ {p}, process[o].at = "up" PROVE Knows(process[o])'
    <3>1. HasFound(process[o].format, TRUE) /\ (process[o].format = NoFormat => deleted)
      BY <2>1, <2>6 DEF Unmuddled, Knows
    <3> QED BY <2>2, <3>1 DEF HasFound, HasImage
  <2> QED BY <1>3, <1>4, <2>1, <2>3, <2>5, <2>6, StartGoesOn DEF StartsUp
<1> QED BY <1>6, <1>7 DEF ImageInv

(* The listing of a start still holds when the files are read: an image of *)
(* an earlier version is removed, any other file stays.                    *)
LEMMA HashedFilesTell ==
  ASSUME ImageInv, ~muddled, NEW l \in SUBSET Format, l = Present, FilesTell,
         NEW C, C = {f \in l : ~Holds(f, OldBundle)},
         imageFiles' = [f \in Format |-> IF f \in l \ C THEN NoImage ELSE imageFiles[f]],
         UNCHANGED <<deleted, inited, wanted>>,
         NEW f \in (IF C = {} THEN {NoFormat} ELSE C)
  PROVE  /\ HasFound(f, deleted \/ (inited /\ l = {}))'
         /\ f # NoFormat => l # {}
         /\ \/ imageFiles' = imageFiles
            \/ \E g \in Format : Present = {g} /\ imageFiles[g] = OldBundle
<1>1. imageFiles \in [Format -> Nat]
  BY MarkersAre
<1>2. \A g \in Format : imageFiles'[g] = IF g \in l \ C THEN NoImage ELSE imageFiles[g]
  BY Zenon
<1>3. f # NoFormat => l # {}
  BY Zenon
<1>4. CASE C = l
  <2>1. imageFiles' = imageFiles
    BY <1>1, <1>4
  <2>2. Present' = Present
    BY <2>1 DEF Present, Holds
  <2>3. CASE HasNone(deleted \/ inited)
    <3>1. l = {} /\ f = NoFormat
      BY <1>4, <2>3 DEF HasNone
    <3> QED BY <1>3, <2>1, <2>2, <2>3, <3>1 DEF HasFound, HasNone
  <2>4. ASSUME NEW g \in Format, HasImage(g) PROVE HasFound(f, deleted \/ (inited /\ l = {}))'
    <3>1. f = g /\ f # NoFormat
      BY <1>4, <2>4, BundledFormatAssumption DEF HasImage
    <3> QED BY <2>1, <2>2, <2>4, <3>1 DEF HasFound, HasImage
  <2>5. ~\E g \in Format : Present = {g} /\ imageFiles[g] = OldBundle
    BY <1>4 DEF Holds
  <2> QED BY <1>3, <2>1, <2>3, <2>4, <2>5 DEF FilesTell
<1>5. CASE C # l
  <2>1. PICK g \in Format : Present = {g} /\ imageFiles[g] = OldBundle /\ wanted = Bundle /\ ~deleted
    <3>1. ~HasNone(deleted \/ inited)
      BY <1>5 DEF HasNone
    <3>2. \A g \in Format : ~HasImage(g)
      <4> SUFFICES ASSUME NEW g \in Format, HasImage(g) PROVE FALSE
        OBVIOUS
      <4>1. ~Holds(g, OldBundle) /\ l = {g}
        BY <1>1 DEF HasImage, Holds, OldBundle
      <4> QED BY <1>5, <4>1
    <3> QED BY <3>1, <3>2 DEF FilesTell
  <2>2. C = {} /\ f = NoFormat /\ l # {}
    BY <2>1 DEF Holds
  <2>3. Present' = {}
    BY <1>2, <2>1, <2>2 DEF Present, Holds
  <2> QED BY <2>1, <2>2, <2>3 DEF HasFound, HasNone
<1> QED BY <1>4, <1>5

LEMMA HashImagesKeeps ==
  ASSUME ImageInv, NEW p \in Process, HashImages(p)
  PROVE  ImageInv'
<1>1. process[p].at = "listed" /\ process[p].listed \in SUBSET Format
  BY ProcessIs DEF ImageInv, HashImages
<1>2. PICK l \in SUBSET Format : l = process[p].listed
  BY <1>1
<1>3. PICK read \in SUBSET l, C \in SUBSET l, f \in AnyFormat :
        /\ f \in (IF C = {} THEN {NoFormat} ELSE C)
        /\ C = {g \in read : ~Holds(g, OldBundle)}
        /\ imageFiles' = [g \in Format |-> IF g \in read \ C THEN NoImage ELSE imageFiles[g]]
        /\ Do(p, [at |-> "hashed", listed |-> l, format |-> f])
        /\ muddled' = (muddled \/ read # {g \in l : ~Holds(g, NoImage)})
  <2>1. PICK read \in SUBSET {g \in l : ~Holds(g, NoImage)} :
          /\ imageFiles' = [g \in Format |-> IF g \in read \ {h \in read : ~Holds(h, OldBundle)}
                                             THEN NoImage ELSE imageFiles[g]]
          /\ \E f \in (IF {h \in read : ~Holds(h, OldBundle)} = {} THEN {NoFormat}
                       ELSE {h \in read : ~Holds(h, OldBundle)}) :
               Do(p, [at |-> "hashed", listed |-> l, format |-> f])
          /\ muddled' = (muddled \/ read # {g \in l : ~Holds(g, NoImage)})
    BY <1>2 DEF HashImages
  <2>2. PICK C : C = {h \in read : ~Holds(h, OldBundle)}
    OBVIOUS
  <2>3. PICK f \in (IF C = {} THEN {NoFormat} ELSE C) :
          Do(p, [at |-> "hashed", listed |-> l, format |-> f])
    BY <2>1, <2>2
  <2>4. read \in SUBSET l /\ C \in SUBSET l /\ f \in AnyFormat
    BY <2>2 DEF AnyFormat
  <2> QED BY <2>1, <2>2, <2>3, <2>4
<1>4. UNCHANGED <<deleted, inited, imageUploads, wanted>>
  BY DEF HashImages
<1>5. PICK q \in ProcessStates : q = [at |-> "hashed", listed |-> l, format |-> f]
  BY DEF ProcessStates
<1>6. Do(p, q) /\ q.at = "hashed" /\ q.listed = l /\ q.format = f
  BY <1>3, <1>5
<1>7. imageFiles' \in [Format -> Nat]
  <2>1. \A g \in Format : (IF g \in read \ C THEN NoImage ELSE imageFiles[g]) \in Nat
    BY MarkersAre DEF NoImage
  <2> QED BY <1>3, <2>1
<1>8. muddled' \in BOOLEAN
  BY <1>3, MarkersAre, Zenon
<1>9. ImageTypeOK' /\ OneServes'
  BY <1>4, <1>6, <1>7, <1>8, ImagesBasics, MarkersAre DEF Changes
<1>10. ASSUME ~muddled' PROVE Unmuddled'
  <2>1. ~muddled /\ Unmuddled /\ Starts(p) /\ read = {g \in l : ~Holds(g, NoImage)}
    BY <1>1, <1>3, <1>10 DEF ImageInv, Starts, StartsUp
  <2>2. l = Present /\ read = l
    <3>1. l = Present
      BY <1>1, <1>2, <2>1 DEF Unmuddled, Knows
    <3> QED BY <2>1, <3>1 DEF Present, Holds
  <2>3. FilesTell
    <3>1. \A o \in Process \ {p} : process[o].at \in {"stopped", "up"}
      BY <2>1, OthersAre DEF Unmuddled
    <3> QED BY <1>1, <2>1, <3>1 DEF AtRest, Unmuddled
  <2>4. /\ HasFound(f, deleted \/ (inited /\ l = {}))'
        /\ f # NoFormat => l # {}
        /\ \/ imageFiles' = imageFiles
           \/ \E g \in Format : Present = {g} /\ imageFiles[g] = OldBundle
    BY <1>3, <1>4, <2>1, <2>2, <2>3, HashedFilesTell
  <2>5. OneStarts'
    BY <1>6, <2>1, StagesFollow, OthersAre DEF Unmuddled, Changes
  <2>6. Knows(q)'
    BY <1>6, <2>4 DEF Knows, Changes, HasFound, HasNone, HasImage
  <2>7. ASSUME NEW o \in Process \ {p}, process[o].at = "up" PROVE Knows(process[o])'
    <3>1. Knows(process[o]) /\ process'[o] = process[o]
      BY <1>6, <2>1, DoIs DEF Unmuddled, ImageInv
    <3>2. ~\E g \in Format : Present = {g} /\ imageFiles[g] = OldBundle
      <4>1. HasFound(process[o].format, TRUE)
        BY <2>7, <3>1 DEF Knows
      <4> QED BY <4>1 DEF HasFound, HasNone, HasImage, OldBundle
    <3>3. imageFiles' = imageFiles
      BY <2>4, <3>2
    <3> QED BY <1>4, <3>1, <3>3, OtherStays
  <2> QED BY <1>6, <2>1, <2>5, <2>6, <2>7, StartGoesOn DEF StartsUp
<1> QED BY <1>9, <1>10 DEF ImageInv

(* A change goes on while nobody else is at work.                          *)
LEMMA ChangeGoesOn ==
  ASSUME ImageInv, ~muddled, NEW p \in Process, Serves(p),
         \A o \in Process \ {p} : ~Starts(o),
         NEW q \in ProcessStates, Do(p, q), q.at \in {"up"} \cup Changes,
         Knows(q)', q.at = "up" => FilesTell'
  PROVE  Unmuddled'
<1>1. /\ process'[p] = q
      /\ \A o \in Process \ {p} : process'[o] = process[o]
  BY DoIs DEF ImageInv
<1>2. \A o \in Process \ {p} : process[o].at = "stopped"
  BY OthersAre DEF ImageInv, Unmuddled
<1>3. OneStarts'
  BY StagesFollow DEF ImageInv, Unmuddled, StartsUp, Changes
<1>4. Knows(process[p])'
  BY <1>1 DEF Knows, HasFound, HasNone, HasImage
<1>5. ASSUME NEW o \in Process \ {p} PROVE Knows(process[o])'
  BY <1>1, <1>2 DEF Knows, StartsUp, Changes
<1>6. \A o \in Process : Knows(process[o])'
  BY <1>4, <1>5
<1>7. AtRest' => FilesTell'
  BY <1>1 DEF AtRest, Changes
<1> QED BY <1>3, <1>6, <1>7 DEF Unmuddled

LEMMA NobodyStarts ==
  ASSUME ImageInv, ~muddled, NEW p \in Process
  PROVE  /\ process[p].at \in Changes => \A o \in Process \ {p} : ~Starts(o)
         /\ ~OtherAt(p, StartsUp) => \A o \in Process \ {p} : ~Starts(o)
BY OthersAre DEF ImageInv, Unmuddled, OtherAt, Starts, StartsUp

LEMMA SaveImageKeeps ==
  ASSUME ImageInv, NEW p \in Process, NEW f \in Format, SaveImage(p, f)
  PROVE  ImageInv'
<1>1. process[p].at = "up" /\ process[p].format \in AnyFormat /\ Serves(p)
  BY ProcessIs DEF ImageInv, SaveImage, Serves
<1>2. PICK old \in AnyFormat : old = process[p].format
  BY <1>1
<1>3. PICK q \in ProcessStates : q = [at |-> "saved", format |-> f, old |-> old]
  BY DEF ProcessStates
<1>4. /\ Do(p, q) /\ q.at = "saved" /\ q.format = f /\ q.old = old
      /\ imageUploads' = imageUploads + 1
      /\ imageFiles' = [imageFiles EXCEPT ![f] = FirstUpload + imageUploads + 1]
      /\ muddled' = (muddled \/ OtherAt(p, StartsUp))
      /\ UNCHANGED <<deleted, inited, wanted>>
  BY <1>2, <1>3 DEF SaveImage
<1>5. imageFiles' \in [Format -> Nat] /\ imageUploads' \in Nat
  BY <1>4, MarkersAre DEF FirstUpload
<1>6. muddled' \in BOOLEAN
  BY <1>4, MarkersAre, Zenon
<1>7. ImageTypeOK' /\ OneServes'
  BY <1>1, <1>4, <1>5, <1>6, ImagesBasics, MarkersAre
<1>8. ASSUME ~muddled' PROVE Unmuddled'
  <2>1. ~muddled /\ Unmuddled /\ ~OtherAt(p, StartsUp)
    BY <1>4, <1>8 DEF ImageInv
  <2>2. HasFound(old, TRUE) /\ ~inited
    BY <1>1, <1>2, <2>1 DEF Unmuddled, Knows
  <2>3. Present = {old} \ {NoFormat}
    BY <2>2 DEF HasFound, HasNone, HasImage
  <2>4. \A g \in Format :
          imageFiles'[g] = IF g = f THEN FirstUpload + imageUploads + 1 ELSE imageFiles[g]
    BY <1>4, MarkersAre
  <2>5. imageFiles'[f] > OldBundle
    BY <2>4, MarkersAre DEF FirstUpload, OldBundle
  <2>6. Present' = {f, old} \ {NoFormat}
    <3>1. imageFiles'[f] # NoImage
      BY <2>5 DEF OldBundle, NoImage
    <3>2. \A g \in Format : g \in Present' <=> g = f \/ g \in Present
      BY <2>4, <3>1 DEF Present, Holds
    <3> QED BY <2>3, <3>2, BundledFormatAssumption DEF Present
  <2>7. Knows(q)'
    BY <1>4, <2>2, <2>5, <2>6 DEF Knows
  <2>8. \A o \in Process \ {p} : ~Starts(o)
    BY <2>1, NobodyStarts
  <2> QED BY <1>1, <1>4, <2>1, <2>7, <2>8, ChangeGoesOn DEF Changes
<1> QED BY <1>7, <1>8 DEF ImageInv

LEMMA DeleteOldKeeps ==
  ASSUME ImageInv, NEW p \in Process, DeleteOldImage(p)
  PROVE  ImageInv'
<1>1. /\ process[p].at = "saved" /\ Serves(p)
      /\ process[p].format \in Format /\ process[p].old \in AnyFormat
  BY ProcessIs DEF ImageInv, DeleteOldImage, Serves, Changes
<1>2. PICK f \in Format, old \in AnyFormat : f = process[p].format /\ old = process[p].old
  BY <1>1
<1>3. PICK q \in ProcessStates : q = At("marking", f)
  BY DEF ProcessStates, At, AnyFormat
<1>4. /\ Do(p, q) /\ q.at = "marking" /\ q.format = f
      /\ imageFiles' = IF old \in {NoFormat, f} THEN imageFiles
                       ELSE [imageFiles EXCEPT ![old] = NoImage]
      /\ UNCHANGED <<deleted, inited, imageUploads, wanted, muddled>>
  BY <1>2, <1>3 DEF DeleteOldImage, Keeps, At
<1>5. imageFiles' \in [Format -> Nat]
  BY <1>4, MarkersAre DEF NoImage
<1>6. ImageTypeOK' /\ OneServes'
  BY <1>1, <1>4, <1>5, ImagesBasics, MarkersAre
<1>7. ASSUME ~muddled' PROVE Unmuddled'
  <2>1. ~muddled /\ Unmuddled
    BY <1>4, <1>7 DEF ImageInv
  <2>2. imageFiles[f] > OldBundle /\ Present = {f, old} \ {NoFormat} /\ ~inited
    BY <1>1, <1>2, <2>1 DEF Unmuddled, Knows, Changes
  <2>3. \A g \in Format :
          imageFiles'[g] = IF g = old /\ g # f THEN NoImage ELSE imageFiles[g]
    BY <1>4, MarkersAre, BundledFormatAssumption DEF AnyFormat
  <2>4. Present' = {f} /\ imageFiles'[f] > OldBundle
    <3>1. \A g \in Format : g \in Present' <=> g \in Present /\ ~(g = old /\ g # f)
      BY <2>3 DEF Present, Holds
    <3> QED BY <2>2, <2>3, <3>1, BundledFormatAssumption DEF Present
  <2>5. Knows(q)'
    BY <1>4, <2>2, <2>4 DEF Knows
  <2> QED BY <1>1, <1>4, <2>1, <2>5, ChangeGoesOn, NobodyStarts DEF Changes
<1> QED BY <1>6, <1>7 DEF ImageInv

LEMMA UnmarkKeeps ==
  ASSUME ImageInv, NEW p \in Process, UnmarkDeleted(p)
  PROVE  ImageInv'
<1>1. process[p].at = "marking" /\ Serves(p) /\ process[p].format \in AnyFormat
  BY ProcessIs DEF ImageInv, UnmarkDeleted, Serves, Changes
<1>2. PICK f \in AnyFormat : f = process[p].format
  BY <1>1
<1>3. PICK q \in ProcessStates : q = At("up", f)
  BY DEF ProcessStates, At
<1>4. /\ Do(p, q) /\ q.at = "up" /\ q.format = f
      /\ deleted' = FALSE /\ wanted' = imageFiles[f]
      /\ UNCHANGED <<imageFiles, inited, imageUploads, muddled>>
  BY <1>2, <1>3 DEF UnmarkDeleted, At
<1>5. ImageTypeOK' /\ OneServes'
  BY <1>1, <1>4, ImagesBasics, MarkersAre
<1>6. ASSUME ~muddled' PROVE Unmuddled'
  <2>1. ~muddled /\ Unmuddled
    BY <1>4, <1>6 DEF ImageInv
  <2>2. Present = {f} /\ imageFiles[f] > OldBundle /\ ~inited
    BY <1>1, <1>2, <2>1 DEF Unmuddled, Knows, Changes
  <2>3. HasImage(f)'
    BY <1>4, <2>2 DEF HasImage, Present, Holds
  <2>4. f \in Format /\ f # NoFormat
    BY <2>2, BundledFormatAssumption DEF Present
  <2>5. Knows(q)' /\ FilesTell'
    <3>1. HasFound(q.format, TRUE)'
      BY <1>4, <2>3, <2>4 DEF HasFound, HasImage, Present, Holds
    <3> QED BY <1>4, <2>2, <2>3, <2>4, <3>1 DEF Knows, FilesTell, Changes
  <2> QED BY <1>1, <1>4, <2>1, <2>5, ChangeGoesOn, NobodyStarts DEF Changes
<1> QED BY <1>5, <1>6 DEF ImageInv

LEMMA MarkDeletedKeeps ==
  ASSUME ImageInv, NEW p \in Process, MarkDeleted(p)
  PROVE  ImageInv'
<1>1. /\ process[p].at = "up" /\ Serves(p)
      /\ process[p].format \in AnyFormat /\ process[p].format # NoFormat
  BY ProcessIs DEF ImageInv, MarkDeleted, Serves
<1>2. PICK f \in AnyFormat : f = process[p].format
  BY <1>1
<1>3. PICK q \in ProcessStates : q = At("removed", f)
  BY DEF ProcessStates, At
<1>4. /\ Do(p, q) /\ q.at = "removed" /\ q.format = f
      /\ deleted' = TRUE /\ muddled' = (muddled \/ OtherAt(p, StartsUp))
      /\ UNCHANGED <<imageFiles, inited, imageUploads, wanted>>
  BY <1>2, <1>3 DEF MarkDeleted, At
<1>5. muddled' \in BOOLEAN
  BY <1>4, MarkersAre, Zenon
<1>6. ImageTypeOK' /\ OneServes'
  BY <1>1, <1>4, <1>5, ImagesBasics, MarkersAre
<1>7. ASSUME ~muddled' PROVE Unmuddled'
  <2>1. ~muddled /\ Unmuddled /\ ~OtherAt(p, StartsUp)
    BY <1>4, <1>7 DEF ImageInv
  <2>2. HasImage(f) /\ ~inited
    BY <1>1, <1>2, <2>1 DEF Unmuddled, Knows, HasFound
  <2>3. Present' = {f} /\ imageFiles'[f] > OldBundle
    BY <1>4, <2>2 DEF HasImage, Present, Holds
  <2>4. Knows(q)'
    BY <1>4, <2>2, <2>3 DEF Knows
  <2> QED BY <1>1, <1>4, <2>1, <2>4, ChangeGoesOn, NobodyStarts DEF Changes
<1> QED BY <1>6, <1>7 DEF ImageInv

LEMMA DeleteImageKeeps ==
  ASSUME ImageInv, NEW p \in Process, DeleteImage(p)
  PROVE  ImageInv'
<1>1. process[p].at = "removed" /\ Serves(p) /\ process[p].format \in AnyFormat
  BY ProcessIs DEF ImageInv, DeleteImage, Serves, Changes
<1>2. PICK f \in AnyFormat : f = process[p].format
  BY <1>1
<1>3. PICK q \in ProcessStates : q = At("up", NoFormat)
  BY DEF ProcessStates, At, AnyFormat
<1>4. /\ Do(p, q) /\ q.at = "up" /\ q.format = NoFormat
      /\ imageFiles' = [imageFiles EXCEPT ![f] = NoImage] /\ wanted' = NoImage
      /\ UNCHANGED <<deleted, inited, imageUploads, muddled>>
  BY <1>2, <1>3 DEF DeleteImage, At
<1>5. imageFiles' \in [Format -> Nat]
  BY <1>4, MarkersAre DEF NoImage
<1>6. ImageTypeOK' /\ OneServes'
  BY <1>1, <1>4, <1>5, ImagesBasics, MarkersAre
<1>7. ASSUME ~muddled' PROVE Unmuddled'
  <2>1. ~muddled /\ Unmuddled
    BY <1>4, <1>7 DEF ImageInv
  <2>2. Present = {f} /\ deleted /\ ~inited
    BY <1>1, <1>2, <2>1 DEF Unmuddled, Knows, Changes
  <2>3. \A g \in Format : imageFiles'[g] = IF g = f THEN NoImage ELSE imageFiles[g]
    BY <1>4, MarkersAre
  <2>4. Present' = {}
    BY <2>2, <2>3 DEF Present, Holds
  <2>5. HasNone(TRUE)' /\ deleted' /\ ~inited'
    BY <1>4, <2>2, <2>4 DEF HasNone
  <2>6. Knows(q)' /\ FilesTell'
    BY <1>4, <2>5 DEF Knows, FilesTell, HasFound, HasNone, Changes
  <2> QED BY <1>1, <1>4, <2>1, <2>6, ChangeGoesOn, NobodyStarts DEF Changes
<1> QED BY <1>6, <1>7 DEF ImageInv

LEMMA ImagesKeep ==
  ASSUME ImageInv, [ImagesStep]_imageVars
  PROVE  ImageInv'
<1>1. CASE UNCHANGED imageVars
  BY <1>1 DEF imageVars, ImageInv, ImageTypeOK, OneServes, Serves, Unmuddled, OneStarts, Starts,
              Knows, AtRest, FilesTell, HasFound, HasNone, HasImage, Present, Holds
<1>2. ASSUME NEW p \in Process,
             \/ ListImages(p) \/ HashImages(p) \/ ReplaceMarker(p) \/ RemoveMarker(p)
             \/ LookForDeletion(p) \/ CopyBundled(p) \/ Serve(p)
      PROVE  ImageInv'
  BY <1>2, ListImagesKeeps, HashImagesKeeps, MarkerKeeps, LookKeeps, CopyKeeps, ServeKeeps
<1>3. ASSUME NEW p \in Process,
             \/ \E f \in Format : SaveImage(p, f)
             \/ DeleteOldImage(p) \/ UnmarkDeleted(p) \/ MarkDeleted(p) \/ DeleteImage(p)
             \/ GiveUp(p) \/ StopProcess(p)
      PROVE  ImageInv'
  BY <1>3, SaveImageKeeps, DeleteOldKeeps, UnmarkKeeps, MarkDeletedKeeps, DeleteImageKeeps,
     GiveUpKeeps, StopProcessKeeps
<1> QED BY <1>1, <1>2, <1>3 DEF ImagesStep

LEMMA ImagesStart ==
  ASSUME ImagesInit
  PROVE  ImageInv
<1>1. /\ imageFiles \in [Format -> {NoImage, OldBundle, FirstUpload}]
      /\ \A f, g \in Present : f = g
      /\ deleted = FALSE /\ inited \in BOOLEAN /\ muddled = FALSE
      /\ process = [p \in Process |-> Stopped] /\ imageUploads = 0
      /\ wanted = IF \E f \in Format : Holds(f, FirstUpload) THEN FirstUpload
                  ELSE IF Present = {} /\ inited THEN NoImage ELSE Bundle
  BY DEF ImagesInit
<1>2. \A p \in Process : process[p] = Stopped /\ process[p].at = "stopped"
  BY <1>1 DEF Stopped
<1>3. ImageTypeOK
  <2>1. imageFiles \in [Format -> Nat]
    BY <1>1 DEF NoImage, OldBundle, FirstUpload
  <2> QED BY <1>1, <2>1 DEF ImageTypeOK, ProcessStates
<1>4. OneServes /\ OneStarts
  BY <1>2 DEF OneServes, OneStarts, Serves, Starts, StartsUp, Changes
<1>5. \A p \in Process : Knows(process[p])
  BY <1>2, IdleKnows
<1>6. FilesTell
  <2>1. CASE Present = {}
    <3>1. \A f \in Format : ~Holds(f, FirstUpload)
      BY <2>1 DEF Present, Holds, FirstUpload, NoImage
    <3>2. wanted = IF inited THEN NoImage ELSE Bundle
      BY <1>1, <2>1, <3>1
    <3> QED BY <1>1, <2>1, <3>2 DEF FilesTell, HasNone
  <2>2. ASSUME NEW f \in Present PROVE FilesTell
    <3>1. Present = {f} /\ f \in Format /\ imageFiles[f] \in {OldBundle, FirstUpload}
      BY <1>1, <2>2 DEF Present, Holds
    <3>2. CASE imageFiles[f] = FirstUpload
      <4>1. HasImage(f)
        BY <1>1, <3>1, <3>2 DEF HasImage, Holds, FirstUpload, OldBundle
      <4> QED BY <3>1, <4>1 DEF FilesTell
    <3>3. CASE imageFiles[f] = OldBundle
      <4>1. \A g \in Format : ~Holds(g, FirstUpload)
        BY <3>1, <3>3 DEF Present, Holds, FirstUpload, OldBundle, NoImage
      <4> QED BY <1>1, <3>1, <3>3, <4>1 DEF FilesTell
    <3> QED BY <3>1, <3>2, <3>3
  <2> QED BY <2>1, <2>2
<1> QED BY <1>3, <1>4, <1>5, <1>6 DEF ImageInv, Unmuddled

(* An image shown is the one that was chosen last, over any number of      *)
(* restarts and upgrades, unless a change was cut short or overlapped by a *)
(* start or a start could not read the image.                              *)
THEOREM ImagesAreAsChosen == Spec => []ChosenImageShown
<1>1. Init => ImageInv
  BY ImagesStart DEF Init
<1>2. ImageInv /\ [Next]_vars => ImageInv'
  BY StepsShown, ImagesKeep
<1>3. ImageInv => ChosenImageShown
  <2> SUFFICES ASSUME ImageInv, NEW p \in Process, process[p].at = "up", ~muddled
               PROVE  Shown(process[p]) = wanted
    BY DEF ChosenImageShown
  <2>1. HasFound(process[p].format, TRUE)
    BY DEF ImageInv, Unmuddled, Knows
  <2> QED BY <2>1 DEF Shown, HasFound, HasNone, HasImage
<1> QED BY <1>1, <1>2, <1>3, PTL DEF Spec

-----------------------------------------------------------------------------
(* What clients are told of a user (Claims).                               *)

ClaimRows == [id : Nat, owner : Owner, key : ClaimKey, value : ClaimValue]
Writes == [id : Nat, owner : Owner, key : ClaimKey, value : ClaimValue, new : BOOLEAN]
OpenEdits ==
  [at : {"open"}, owner : Owner, claims : ClaimSet, deletes : SUBSET Nat,
   writes : SUBSET Writes, alone : BOOLEAN]

ClaimTypeOK ==
  /\ rows \in SUBSET ClaimRows
  /\ groups \in SUBSET UserGroup
  /\ remapping \in ClaimKey \cup {NoClaim}
  /\ edit \in [Edit -> {NoEdit} \cup OpenEdits]
  /\ made \in [rows : Nat, edits : Nat]
  /\ lastChosen \in [Owner -> ClaimSet]

Replaces(e) == edit[e].at = "open"

(* The rows and those that replacements are about to write: an id is given *)
(* once, to a key of an owner.                                             *)
IsOf(id, o, k) ==
  /\ \A r \in rows : r.id = id => r.owner = o /\ r.key = k
  /\ \A e \in Edit : Replaces(e) => \A w \in edit[e].writes : w.id = id => w.owner = o /\ w.key = k
RowsAreOnce ==
  /\ \A r \in rows : IsOf(r.id, r.owner, r.key) /\ r.id <= made.rows
  /\ \A r, s \in rows : r.id = s.id => r = s

WritesAreOnce ==
  \A e \in Edit : Replaces(e) =>
    /\ \A w \in edit[e].writes :
         /\ IsOf(w.id, w.owner, w.key) /\ w.id <= made.rows
         /\ w.owner = edit[e].owner /\ edit[e].claims[w.key] = w.value
    /\ \A v, w \in edit[e].writes : v.key = w.key => v = w

(* What a replacement deletes are rows of its owner.                       *)
DeletesOwn ==
  \A e \in Edit : Replaces(e) =>
    /\ \A i \in edit[e].deletes : i <= made.rows
    /\ \A r \in rows : r.id \in edit[e].deletes => r.owner = edit[e].owner
    /\ \A d \in Edit : Replaces(d) => \A w \in edit[d].writes :
         w.id \in edit[e].deletes => w.owner = edit[e].owner

(* A replacement that none overlaps still sees the rows it began with.     *)
AloneSees ==
  \A e \in Edit : Replaces(e) /\ edit[e].alone =>
    /\ edit[e].deletes = Stale(edit[e].owner, edit[e].claims)
    /\ \A d \in Edit \ {e} : Replaces(d) => edit[d].owner # edit[e].owner
    /\ \A w \in edit[e].writes :
         IF w.new THEN Of(w.owner, w.key) = {}
         ELSE \E r \in Of(w.owner, w.key) : r.id = w.id

(* A key has the one row that was chosen for it last, or none.             *)
KeysTell ==
  \A o \in Owner, k \in ClaimKey : <<o, k>> \notin overlapped =>
    /\ \A r, s \in Of(o, k) : r = s
    /\ \A r \in Of(o, k) : r.value = lastChosen[o][k]
    /\ Of(o, k) = {} => lastChosen[o][k] = NoClaim

ClaimInv ==
  ClaimTypeOK /\ RowsAreOnce /\ WritesAreOnce /\ DeletesOwn /\ AloneSees /\ KeysTell

LEMMA EditIs ==
  ASSUME ClaimTypeOK, NEW e \in Edit
  PROVE  /\ Replaces(e) => edit[e] \in OpenEdits
         /\ ~Replaces(e) => edit[e] = NoEdit
<1>1. edit[e] \in {NoEdit} \cup OpenEdits
  BY DEF ClaimTypeOK
<1> QED BY <1>1 DEF Replaces, NoEdit, OpenEdits

(* A step that writes no row and gives no id keeps what is known of those  *)
(* replacements that hold what they held.                                  *)
LEMMA SameRows ==
  ASSUME ClaimInv, UNCHANGED <<rows, lastChosen, overlapped>>, made'.rows = made.rows,
         NEW D \in SUBSET Edit,
         \A d \in D : /\ Replaces(d)' => Replaces(d)
                      /\ Replaces(d)' => /\ edit'[d].owner = edit[d].owner
                                         /\ edit'[d].claims = edit[d].claims
                                         /\ edit'[d].deletes = edit[d].deletes
                                         /\ edit'[d].writes = edit[d].writes
                                         /\ edit'[d].alone => edit[d].alone,
         \A d \in Edit \ D : Replaces(d)' =>
           /\ edit'[d].writes = {}
           /\ edit'[d].deletes = Stale(edit'[d].owner, edit'[d].claims)
           /\ edit'[d].alone => \A o \in Edit \ {d} : Replaces(o) => edit[o].owner # edit'[d].owner
           /\ \A o \in Edit \ {d} : Replaces(o)' /\ edit'[o].alone => edit'[o].owner # edit'[d].owner,
         \A c, d \in Edit \ D : c = d
  PROVE  RowsAreOnce' /\ WritesAreOnce' /\ DeletesOwn' /\ AloneSees' /\ KeysTell'
<1>1. \A o \in Owner, k \in ClaimKey : Of(o, k)' = Of(o, k)
  BY DEF Of
<1>2. ASSUME NEW i, NEW o, NEW k, IsOf(i, o, k) PROVE IsOf(i, o, k)'
  <2>1. ASSUME NEW d \in Edit, Replaces(d)', NEW w \in edit'[d].writes, w.id = i
        PROVE  w.owner = o /\ w.key = k
    <3>1. d \in D /\ w \in edit[d].writes /\ Replaces(d)
      BY <2>1
    <3> QED BY <1>2, <2>1, <3>1 DEF IsOf
  <2> QED BY <1>2, <2>1 DEF IsOf
<1>3. RowsAreOnce'
  BY <1>2 DEF ClaimInv, RowsAreOnce
<1>4. WritesAreOnce'
  <2> SUFFICES ASSUME NEW d \in Edit, Replaces(d)'
               PROVE  /\ \A w \in edit'[d].writes :
                           /\ IsOf(w.id, w.owner, w.key)' /\ w.id <= made'.rows
                           /\ w.owner = edit'[d].owner /\ edit'[d].claims[w.key] = w.value
                      /\ \A v, w \in edit'[d].writes : v.key = w.key => v = w
    BY DEF WritesAreOnce
  <2>1. CASE d \in D
    BY <1>2, <2>1 DEF ClaimInv, WritesAreOnce
  <2>2. CASE d \notin D
    BY <2>2
  <2> QED BY <2>1, <2>2
<1>5. DeletesOwn'
  <2> SUFFICES ASSUME NEW d \in Edit, Replaces(d)'
               PROVE  /\ \A i \in edit'[d].deletes : i <= made'.rows
                      /\ \A r \in rows' : r.id \in edit'[d].deletes => r.owner = edit'[d].owner
                      /\ \A c \in Edit : Replaces(c)' => \A w \in edit'[c].writes :
                           w.id \in edit'[d].deletes => w.owner = edit'[d].owner
    BY DEF DeletesOwn
  <2>1. CASE d \in D
    <3>1. /\ \A i \in edit[d].deletes : i <= made.rows
          /\ \A r \in rows : r.id \in edit[d].deletes => r.owner = edit[d].owner
          /\ \A c \in Edit : Replaces(c) => \A w \in edit[c].writes :
               w.id \in edit[d].deletes => w.owner = edit[d].owner
      BY <2>1 DEF ClaimInv, DeletesOwn
    <3>2. \A c \in Edit : Replaces(c)' => \A w \in edit'[c].writes :
            w.id \in edit[d].deletes => w.owner = edit[d].owner
      BY <3>1
    <3> QED BY <2>1, <3>1, <3>2
  <2>2. CASE d \notin D
    <3>1. ASSUME NEW i \in edit'[d].deletes
          PROVE  \E r \in rows : r.id = i /\ r.owner = edit'[d].owner
      BY <2>2, <3>1 DEF Stale
    <3>2. \A i \in edit'[d].deletes : i <= made'.rows
      BY <3>1 DEF ClaimInv, RowsAreOnce
    <3>3. \A r \in rows' : r.id \in edit'[d].deletes => r.owner = edit'[d].owner
      BY <3>1 DEF ClaimInv, RowsAreOnce
    <3>4. ASSUME NEW c \in Edit, Replaces(c)', NEW w \in edit'[c].writes,
                 w.id \in edit'[d].deletes
          PROVE  w.owner = edit'[d].owner
      <4>1. PICK r \in rows : r.id = w.id /\ r.owner = edit'[d].owner
        BY <3>1, <3>4
      <4>2. c \in D /\ Replaces(c) /\ w \in edit[c].writes
        BY <3>4
      <4> QED BY <4>1, <4>2 DEF ClaimInv, RowsAreOnce, IsOf
    <3> QED BY <3>2, <3>3, <3>4
  <2> QED BY <2>1, <2>2
<1>6. AloneSees'
  <2> SUFFICES ASSUME NEW d \in Edit, Replaces(d)', edit'[d].alone,
                      NEW p, p = edit'[d].owner, NEW claims, claims = edit'[d].claims
               PROVE  /\ edit'[d].deletes = Stale(p, claims)'
                      /\ \A c \in Edit \ {d} : Replaces(c)' => edit'[c].owner # edit'[d].owner
                      /\ \A w \in edit'[d].writes :
                           IF w.new THEN Of(w.owner, w.key)' = {}
                           ELSE \E r \in Of(w.owner, w.key)' : r.id = w.id
    BY DEF AloneSees, Stale, Of
  <2>1. edit'[d].deletes = Stale(p, claims)
    BY DEF ClaimInv, AloneSees
  <2>2. Stale(p, claims)' = Stale(p, claims)
    BY DEF Stale
  <2>3. ASSUME NEW c \in Edit \ {d}, Replaces(c)' PROVE edit'[c].owner # edit'[d].owner
    <3>1. CASE c \in D /\ d \in D
      BY <2>3, <3>1 DEF ClaimInv, AloneSees
    <3>2. CASE c \in D /\ d \notin D
      BY <2>3, <3>2
    <3>3. CASE c \notin D
      BY <2>3, <3>3
    <3> QED BY <3>1, <3>2, <3>3
  <2>4. \A w \in edit'[d].writes : IF w.new THEN Of(w.owner, w.key) = {}
                                   ELSE \E r \in Of(w.owner, w.key) : r.id = w.id
    BY DEF ClaimInv, AloneSees
  <2>5. \A w : Of(w.owner, w.key)' = Of(w.owner, w.key)
    BY DEF Of
  <2> QED BY <2>1, <2>2, <2>3, <2>4, <2>5
<1>7. KeysTell'
  BY <1>1 DEF ClaimInv, KeysTell
<1> QED BY <1>3, <1>4, <1>5, <1>6, <1>7

LEMMA BeginEditKeeps ==
  ASSUME ClaimInv, NEW e \in Edit, NEW o \in Owner, NEW claims \in ClaimSet,
         BeginEdit(e, o, claims)
  PROVE  ClaimInv'
<1>1. PICK q \in OpenEdits :
        q = [at |-> "open", owner |-> o, claims |-> claims, deletes |-> Stale(o, claims),
             writes |-> {}, alone |-> Overlapping(e, o) = {}]
  <2>1. (Overlapping(e, o) = {}) \in BOOLEAN
    BY Zenon
  <2>2. Stale(o, claims) \in SUBSET Nat
    BY DEF ClaimInv, ClaimTypeOK, ClaimRows, Stale
  <2> QED BY <2>1, <2>2 DEF OpenEdits
<1>2. /\ edit[e] = NoEdit /\ made' = [made EXCEPT !.edits = @ + 1]
      /\ edit' = [d \in Edit |-> IF d = e THEN q
                                 ELSE IF d \in Overlapping(e, o)
                                      THEN [edit[d] EXCEPT !.alone = FALSE] ELSE edit[d]]
      /\ UNCHANGED <<rows, groups, remapping, lastChosen, overlapped>>
  BY <1>1, Zenon DEF BeginEdit
<1>3. made' \in [rows : Nat, edits : Nat] /\ made'.rows = made.rows
  BY <1>2 DEF ClaimInv, ClaimTypeOK
<1>4. edit'[e] = q
  BY <1>2
<1>5. ASSUME NEW d \in Edit \ {e}
      PROVE  /\ edit'[d] \in {NoEdit} \cup OpenEdits
             /\ Replaces(d)' => Replaces(d)
             /\ Replaces(d)' => /\ edit'[d].owner = edit[d].owner
                                /\ edit'[d].claims = edit[d].claims
                                /\ edit'[d].deletes = edit[d].deletes
                                /\ edit'[d].writes = edit[d].writes
                                /\ edit'[d].alone => edit[d].alone /\ edit[d].owner # o
  <2>1. CASE d \in Overlapping(e, o)
    <3>1. edit[d] \in OpenEdits /\ Replaces(d) /\ edit'[d] = [edit[d] EXCEPT !.alone = FALSE]
      BY <1>2, <2>1, EditIs DEF Overlapping, Replaces, ClaimInv
    <3> QED BY <3>1 DEF OpenEdits
  <2>2. CASE d \notin Overlapping(e, o)
    <3>1. edit'[d] = edit[d]
      BY <1>2, <2>2
    <3>2. Replaces(d) => edit[d].owner # o
      BY <2>2 DEF Overlapping, Replaces
    <3> QED BY <3>1, <3>2 DEF Replaces, ClaimInv, ClaimTypeOK
  <2> QED BY <2>1, <2>2
<1>6. /\ q.owner = o /\ q.claims = claims /\ q.deletes = Stale(o, claims) /\ q.writes = {}
      /\ q.alone => \A d \in Edit \ {e} : Replaces(d) => edit[d].owner # o
  <2>1. q.alone => Overlapping(e, o) = {}
    BY <1>1
  <2> QED BY <1>1, <2>1 DEF Overlapping, Replaces
<1>7. ClaimTypeOK'
  <2>1. edit' \in [Edit -> {NoEdit} \cup OpenEdits]
    <3>1. \A d \in Edit : edit'[d] \in {NoEdit} \cup OpenEdits
      BY <1>4, <1>5
    <3>2. edit' = [d \in Edit |-> edit'[d]]
      BY <1>2
    <3> QED BY <3>1, <3>2
  <2> QED BY <1>2, <1>3, <2>1 DEF ClaimInv, ClaimTypeOK
<1>8. RowsAreOnce' /\ WritesAreOnce' /\ DeletesOwn' /\ AloneSees' /\ KeysTell'
  <2>1. PICK D \in SUBSET Edit : D = Edit \ {e}
    OBVIOUS
  <2>2. \A d \in D : /\ Replaces(d)' => Replaces(d)
                     /\ Replaces(d)' => /\ edit'[d].owner = edit[d].owner
                                        /\ edit'[d].claims = edit[d].claims
                                        /\ edit'[d].deletes = edit[d].deletes
                                        /\ edit'[d].writes = edit[d].writes
                                        /\ edit'[d].alone => edit[d].alone
    BY <1>5, <2>1
  <2>3. \A d \in Edit \ D :
          /\ edit'[d].writes = {}
          /\ edit'[d].deletes = Stale(edit'[d].owner, edit'[d].claims)
          /\ edit'[d].alone => \A c \in Edit \ {d} : Replaces(c) => edit[c].owner # edit'[d].owner
          /\ \A c \in Edit \ {d} : Replaces(c)' /\ edit'[c].alone => edit'[c].owner # edit'[d].owner
    BY <1>4, <1>5, <1>6, <2>1
  <2>4. \A c, d \in Edit \ D : c = d
    BY <2>1
  <2> QED BY <1>2, <1>3, <2>2, <2>3, <2>4, SameRows
<1> QED BY <1>7, <1>8 DEF ClaimInv

LEMMA OtherClaimsKeep ==
  ASSUME ClaimInv, (\E e \in Edit : AbortEdit(e)) \/ (\E g \in UserGroup : ChangeMembership(g))
  PROVE  ClaimInv'
<1>1. /\ UNCHANGED <<rows, remapping, made, lastChosen, overlapped>>
      /\ groups' \in SUBSET UserGroup
  BY DEF AbortEdit, ChangeMembership, ClaimInv, ClaimTypeOK
<1>2. \A d \in Edit : edit'[d] = edit[d] \/ edit'[d] = NoEdit
  BY DEF AbortEdit, ChangeMembership, ClaimInv, ClaimTypeOK
<1>3. edit' \in [Edit -> {NoEdit} \cup OpenEdits]
  BY DEF AbortEdit, ChangeMembership, ClaimInv, ClaimTypeOK
<1>4. ClaimTypeOK'
  BY <1>1, <1>3 DEF ClaimInv, ClaimTypeOK
<1>5. \A d \in Edit : Replaces(d)' => edit'[d] = edit[d] /\ Replaces(d)
  BY <1>2 DEF Replaces, NoEdit
<1>6. RowsAreOnce' /\ WritesAreOnce' /\ DeletesOwn' /\ AloneSees' /\ KeysTell'
  BY <1>1, <1>5, SameRows
<1> QED BY <1>4, <1>6 DEF ClaimInv

(* A row is found or a new id given: either way the id is that of the key. *)
LEMMA WriteClaimIs ==
  ASSUME ClaimInv, NEW e \in Edit, NEW k \in ClaimKey, WriteClaim(e, k)
  PROVE  \E w \in Writes :
           /\ Replaces(e) /\ edit[e] \in OpenEdits
           /\ edit' = [edit EXCEPT ![e].writes = @ \cup {w}]
           /\ w.owner = edit[e].owner /\ w.key = k /\ w.value = edit[e].claims[k]
           /\ \A v \in edit[e].writes : v.key # k
           /\ \/ /\ ~w.new /\ made' = made
                 /\ \E r \in Of(w.owner, k) : r.id = w.id /\ r.id \notin edit[e].deletes
              \/ /\ w.new /\ w.id = made.rows + 1
                 /\ made' \in [rows : Nat, edits : Nat] /\ made'.rows = made.rows + 1
                 /\ \A r \in Of(w.owner, k) : r.id \in edit[e].deletes
<1>1. Replaces(e) /\ edit[e] \in OpenEdits
  BY EditIs DEF WriteClaim, Replaces, ClaimInv
<1>2. edit[e].owner \in Owner /\ edit[e].claims \in ClaimSet
  BY <1>1 DEF OpenEdits
<1>3. edit[e].claims[k] \in ClaimValue /\ \A v \in edit[e].writes : v.key # k
  BY <1>2 DEF WriteClaim, Unwritten, ClaimSet
<1>4. ASSUME NEW r \in Of(edit[e].owner, k), r.id \notin edit[e].deletes,
             edit' = [edit EXCEPT ![e].writes = @ \cup
               {[id |-> r.id, owner |-> edit[e].owner, key |-> k,
                 value |-> edit[e].claims[k], new |-> FALSE]}],
             made' = made
      PROVE  \E w \in Writes :
               /\ edit' = [edit EXCEPT ![e].writes = @ \cup {w}]
               /\ w.owner = edit[e].owner /\ w.key = k /\ w.value = edit[e].claims[k]
               /\ ~w.new /\ made' = made
               /\ \E s \in Of(w.owner, k) : s.id = w.id /\ s.id \notin edit[e].deletes
  <2>1. r.id \in Nat
    BY DEF Of, ClaimInv, ClaimTypeOK, ClaimRows
  <2>2. PICK w \in Writes : w = [id |-> r.id, owner |-> edit[e].owner, key |-> k,
                                 value |-> edit[e].claims[k], new |-> FALSE]
    BY <1>2, <1>3, <2>1 DEF Writes
  <2> QED BY <1>4, <2>2
<1>5. ASSUME \A r \in Of(edit[e].owner, k) : r.id \in edit[e].deletes,
             edit' = [edit EXCEPT ![e].writes = @ \cup
               {[id |-> made.rows + 1, owner |-> edit[e].owner, key |-> k,
                 value |-> edit[e].claims[k], new |-> TRUE]}],
             made' = [made EXCEPT !.rows = @ + 1]
      PROVE  \E w \in Writes :
               /\ edit' = [edit EXCEPT ![e].writes = @ \cup {w}]
               /\ w.owner = edit[e].owner /\ w.key = k /\ w.value = edit[e].claims[k]
               /\ w.new /\ w.id = made.rows + 1
               /\ made' \in [rows : Nat, edits : Nat] /\ made'.rows = made.rows + 1
               /\ \A r \in Of(w.owner, k) : r.id \in edit[e].deletes
  <2>1. made.rows \in Nat /\ made' \in [rows : Nat, edits : Nat] /\ made'.rows = made.rows + 1
    BY <1>5 DEF ClaimInv, ClaimTypeOK
  <2>2. PICK w \in Writes : w = [id |-> made.rows + 1, owner |-> edit[e].owner, key |-> k,
                                 value |-> edit[e].claims[k], new |-> TRUE]
    BY <1>2, <1>3, <2>1 DEF Writes
  <2> QED BY <1>5, <2>1, <2>2
<1>6. \/ \E r \in Of(edit[e].owner, k) :
           /\ r.id \notin edit[e].deletes /\ made' = made
           /\ edit' = [edit EXCEPT ![e].writes = @ \cup
               {[id |-> r.id, owner |-> edit[e].owner, key |-> k,
                 value |-> edit[e].claims[k], new |-> FALSE]}]
      \/ /\ \A r \in Of(edit[e].owner, k) : r.id \in edit[e].deletes
         /\ made' = [made EXCEPT !.rows = @ + 1]
         /\ edit' = [edit EXCEPT ![e].writes = @ \cup
               {[id |-> made.rows + 1, owner |-> edit[e].owner, key |-> k,
                 value |-> edit[e].claims[k], new |-> TRUE]}]
  BY DEF WriteClaim
<1> QED BY <1>1, <1>3, <1>4, <1>5, <1>6

LEMMA WriteClaimKeeps ==
  ASSUME ClaimInv, NEW e \in Edit, NEW k \in ClaimKey, WriteClaim(e, k)
  PROVE  ClaimInv'
<1>1. UNCHANGED <<rows, groups, remapping, lastChosen, overlapped>>
  BY DEF WriteClaim
<1>2. PICK w \in Writes :
        /\ Replaces(e) /\ edit[e] \in OpenEdits
        /\ edit' = [edit EXCEPT ![e].writes = @ \cup {w}]
        /\ w.owner = edit[e].owner /\ w.key = k /\ w.value = edit[e].claims[k]
        /\ \A v \in edit[e].writes : v.key # k
        /\ \/ /\ ~w.new /\ made' = made
              /\ \E r \in Of(w.owner, k) : r.id = w.id /\ r.id \notin edit[e].deletes
           \/ /\ w.new /\ w.id = made.rows + 1
              /\ made' \in [rows : Nat, edits : Nat] /\ made'.rows = made.rows + 1
              /\ \A r \in Of(w.owner, k) : r.id \in edit[e].deletes
  BY WriteClaimIs
<1>3. PICK q \in OpenEdits : q = [edit[e] EXCEPT !.writes = @ \cup {w}]
  BY <1>2 DEF OpenEdits
<1>4. /\ q.owner = edit[e].owner /\ q.claims = edit[e].claims /\ q.deletes = edit[e].deletes
      /\ q.alone = edit[e].alone /\ q.writes = edit[e].writes \cup {w} /\ q.at = "open"
  BY <1>2, <1>3 DEF OpenEdits
<1>5. /\ edit' \in [Edit -> {NoEdit} \cup OpenEdits] /\ edit'[e] = q
      /\ \A d \in Edit \ {e} : edit'[d] = edit[d]
  BY <1>2, <1>3 DEF ClaimInv, ClaimTypeOK
<1>6. /\ \A d \in Edit : Replaces(d)' <=> Replaces(d)
      /\ \A d \in Edit : Replaces(d) =>
           /\ edit'[d].owner = edit[d].owner /\ edit'[d].claims = edit[d].claims
           /\ edit'[d].deletes = edit[d].deletes /\ edit'[d].alone = edit[d].alone
           /\ \A v \in edit'[d].writes : v \in edit[d].writes \/ (v = w /\ d = e)
  BY <1>2, <1>4, <1>5 DEF Replaces
<1>7. made.rows \in Nat /\ made'.rows \in Nat /\ made'.rows >= made.rows /\ w.id <= made'.rows
      /\ made' \in [rows : Nat, edits : Nat] /\ w.id \in Nat
  BY <1>2 DEF ClaimInv, ClaimTypeOK, RowsAreOnce, Of, Writes
<1>8. \A i \in Nat : i <= made.rows => i <= made'.rows
  BY <1>7
<1>9. ClaimTypeOK'
  BY <1>1, <1>5, <1>7 DEF ClaimInv, ClaimTypeOK
<1>10. /\ \A r \in rows : r.id \in Nat /\ r.id <= made.rows
       /\ \A d \in Edit : Replaces(d) =>
            /\ edit[d] \in OpenEdits
            /\ \A v \in edit[d].writes : v.id \in Nat /\ v.id <= made.rows
            /\ \A i \in edit[d].deletes : i \in Nat /\ i <= made.rows
  <2>1. \A r \in rows : r.id \in Nat /\ r.id <= made.rows
    BY DEF ClaimInv, ClaimTypeOK, RowsAreOnce, ClaimRows
  <2>2. ASSUME NEW d \in Edit, Replaces(d)
        PROVE  /\ edit[d] \in OpenEdits
               /\ \A v \in edit[d].writes : v.id \in Nat /\ v.id <= made.rows
               /\ \A i \in edit[d].deletes : i \in Nat /\ i <= made.rows
    <3>1. edit[d] \in OpenEdits
      BY <2>2, EditIs DEF ClaimInv
    <3> QED BY <2>2, <3>1 DEF OpenEdits, Writes, ClaimInv, WritesAreOnce, DeletesOwn
  <2> QED BY <2>1, <2>2
<1>11. ASSUME NEW i \in Nat, NEW o, NEW j, IsOf(i, o, j), i <= made.rows
       PROVE  IsOf(i, o, j)'
  <2>1. w.id = i => w.owner = o /\ w.key = j
    <3>1. CASE w.new
      BY <1>2, <1>7, <1>11, <3>1
    <3>2. CASE ~w.new
      BY <1>2, <1>11, <3>2 DEF IsOf, Of
    <3> QED BY <3>1, <3>2
  <2> QED BY <1>1, <1>6, <1>11, <2>1 DEF IsOf
<1>12. IsOf(w.id, w.owner, w.key)'
  <2>1. CASE w.new
    <3>1. /\ \A r \in rows : r.id # w.id
          /\ \A d \in Edit : Replaces(d) => \A v \in edit[d].writes : v.id # w.id
      BY <1>2, <1>7, <1>10, <2>1
    <3> QED BY <1>1, <1>6, <3>1 DEF IsOf
  <2>2. CASE ~w.new
    <3>1. PICK r \in rows : r.id = w.id /\ r.owner = w.owner /\ r.key = k
      BY <1>2, <2>2 DEF Of
    <3>2. IsOf(w.id, w.owner, w.key) /\ w.id <= made.rows
      BY <1>2, <3>1 DEF ClaimInv, RowsAreOnce
    <3> QED BY <1>7, <1>11, <3>2
  <2> QED BY <2>1, <2>2
<1>13. RowsAreOnce'
  BY <1>1, <1>8, <1>10, <1>11 DEF ClaimInv, RowsAreOnce
<1>14. WritesAreOnce'
  <2> SUFFICES ASSUME NEW d \in Edit, Replaces(d)'
               PROVE  /\ \A v \in edit'[d].writes :
                           /\ IsOf(v.id, v.owner, v.key)' /\ v.id <= made'.rows
                           /\ v.owner = edit'[d].owner /\ edit'[d].claims[v.key] = v.value
                      /\ \A u, v \in edit'[d].writes : u.key = v.key => u = v
    BY DEF WritesAreOnce
  <2>1. Replaces(d)
    BY <1>6
  <2>2. \A v \in edit[d].writes :
          /\ IsOf(v.id, v.owner, v.key)' /\ v.id <= made'.rows
          /\ v.owner = edit[d].owner /\ edit[d].claims[v.key] = v.value
    BY <1>8, <1>10, <1>11, <2>1 DEF ClaimInv, WritesAreOnce
  <2>3. \A u, v \in edit[d].writes : u.key = v.key => u = v
    BY <2>1 DEF ClaimInv, WritesAreOnce
  <2> QED BY <1>2, <1>6, <1>7, <1>12, <2>1, <2>2, <2>3
<1>15. DeletesOwn'
  <2> SUFFICES ASSUME NEW d \in Edit, Replaces(d)'
               PROVE  /\ \A i \in edit'[d].deletes : i <= made'.rows
                      /\ \A r \in rows' : r.id \in edit'[d].deletes => r.owner = edit'[d].owner
                      /\ \A c \in Edit : Replaces(c)' => \A v \in edit'[c].writes :
                           v.id \in edit'[d].deletes => v.owner = edit'[d].owner
    BY DEF DeletesOwn
  <2>1. Replaces(d) /\ edit'[d].deletes = edit[d].deletes /\ edit'[d].owner = edit[d].owner
    BY <1>6
  <2>2. /\ \A r \in rows : r.id \in edit[d].deletes => r.owner = edit[d].owner
        /\ \A c \in Edit : Replaces(c) => \A v \in edit[c].writes :
             v.id \in edit[d].deletes => v.owner = edit[d].owner
    BY <2>1 DEF ClaimInv, DeletesOwn
  <2>3. w.id \in edit[d].deletes => w.owner = edit[d].owner
    <3>1. CASE w.new
      BY <1>2, <1>7, <1>10, <2>1, <3>1
    <3>2. CASE ~w.new
      BY <1>2, <2>2, <3>2 DEF Of
    <3> QED BY <3>1, <3>2
  <2> QED BY <1>1, <1>6, <1>8, <1>10, <2>1, <2>2, <2>3
<1>16. AloneSees'
  <2> SUFFICES ASSUME NEW d \in Edit, Replaces(d)', edit'[d].alone
               PROVE  /\ edit'[d].deletes = Stale(edit[d].owner, edit[d].claims)
                      /\ \A c \in Edit \ {d} : Replaces(c)' => edit'[c].owner # edit'[d].owner
                      /\ \A v \in edit'[d].writes :
                           IF v.new THEN Of(v.owner, v.key) = {}
                           ELSE \E r \in Of(v.owner, v.key) : r.id = v.id
    BY <1>1, <1>6 DEF AloneSees, Stale, Of
  <2>1. /\ Replaces(d) /\ edit[d].alone
        /\ edit[d].deletes = Stale(edit[d].owner, edit[d].claims)
        /\ \A c \in Edit \ {d} : Replaces(c) => edit[c].owner # edit[d].owner
        /\ \A v \in edit[d].writes : IF v.new THEN Of(v.owner, v.key) = {}
                                     ELSE \E r \in Of(v.owner, v.key) : r.id = v.id
    BY <1>6 DEF ClaimInv, AloneSees
  <2>2. d = e => IF w.new THEN Of(w.owner, w.key) = {}
                 ELSE \E r \in Of(w.owner, w.key) : r.id = w.id
    <3>1. ASSUME d = e, w.new PROVE Of(w.owner, w.key) = {}
      <4> SUFFICES ASSUME NEW r \in Of(w.owner, w.key) PROVE FALSE
        OBVIOUS
      <4>1. r.id \in edit[d].deletes /\ r \in rows /\ r.key = k
        BY <1>2, <3>1 DEF Of
      <4>2. PICK s \in rows : s.id = r.id /\ edit[d].claims[s.key] = NoClaim
        BY <2>1, <4>1 DEF Stale
      <4>3. s.key = k
        BY <4>1, <4>2 DEF ClaimInv, RowsAreOnce
      <4>4. w.value \in ClaimValue /\ w.value = edit[d].claims[k]
        BY <1>2, <3>1 DEF Writes
      <4> QED BY <4>2, <4>3, <4>4, ClaimAssumption
    <3> QED BY <1>2, <3>1
  <2> QED BY <1>6, <2>1, <2>2
<1>17. KeysTell'
  BY <1>1 DEF ClaimInv, KeysTell, Of
<1> QED BY <1>9, <1>13, <1>14, <1>15, <1>16, <1>17 DEF ClaimInv

(* After the commit there are the rows that it neither deleted nor wrote,  *)
(* and those it wrote.                                                     *)
LEMMA CommitIs ==
  ASSUME ClaimInv, NEW e \in Edit, CommitEdit(e)
  PROVE  /\ Replaces(e) /\ edit[e] \in OpenEdits
         /\ edit' \in [Edit -> {NoEdit} \cup OpenEdits] /\ ~Replaces(e)'
         /\ \A d \in Edit : Replaces(d)' => d # e /\ Replaces(d) /\ edit'[d] = edit[d]
         /\ rows' \in SUBSET ClaimRows
         /\ \A r \in rows' :
              \/ r \in rows /\ r.id \notin edit[e].deletes /\ \A w \in edit[e].writes : w.id # r.id
              \/ \E w \in edit[e].writes :
                   w.id = r.id /\ w.owner = r.owner /\ w.key = r.key /\ w.value = r.value
         /\ \A r \in rows : r \in rows' \/ r.id \in edit[e].deletes
                                        \/ \E w \in edit[e].writes : w.id = r.id
         /\ \A w \in edit[e].writes : (w.new \/ \E r \in rows : r.id = w.id) =>
              \E r \in rows' : r.id = w.id /\ r.owner = w.owner /\ r.key = w.key
<1> DEFINE q == edit[e]
           Written(w) == [id |-> w.id, owner |-> w.owner, key |-> w.key, value |-> w.value]
<1>1. Replaces(e) /\ q \in OpenEdits
  BY EditIs DEF CommitEdit, Replaces, ClaimInv
<1>2. edit' = [edit EXCEPT ![e] = NoEdit]
  BY DEF CommitEdit
<1>3. /\ edit' \in [Edit -> {NoEdit} \cup OpenEdits] /\ ~Replaces(e)'
      /\ \A d \in Edit : Replaces(d)' => d # e /\ Replaces(d) /\ edit'[d] = edit[d]
  BY <1>2 DEF ClaimInv, ClaimTypeOK, Replaces, NoEdit
<1>4. \A w \in q.writes : w \in Writes /\ Written(w) \in ClaimRows
  BY <1>1 DEF OpenEdits, Writes, ClaimRows
<1>5. PICK W \in SUBSET q.writes :
        /\ W = {v \in q.writes : v.new \/ \E r \in rows : r.id = v.id}
        /\ rows' = {r \in rows : r.id \notin q.deletes \cup {w.id : w \in q.writes}}
                     \cup {Written(w) : w \in W}
  BY DEF CommitEdit, RowsWritten
<1>6. rows' \in SUBSET ClaimRows
  BY <1>4, <1>5 DEF ClaimInv, ClaimTypeOK
<1>7. \A r \in rows' :
        \/ r \in rows /\ r.id \notin q.deletes /\ \A w \in q.writes : w.id # r.id
        \/ \E w \in q.writes :
             w.id = r.id /\ w.owner = r.owner /\ w.key = r.key /\ w.value = r.value
  BY <1>5
<1>8. \A r \in rows : r \in rows' \/ r.id \in q.deletes \/ \E w \in q.writes : w.id = r.id
  BY <1>5
<1>9. \A w \in q.writes : (w.new \/ \E r \in rows : r.id = w.id) =>
        \E r \in rows' : r.id = w.id /\ r.owner = w.owner /\ r.key = w.key
  <2> SUFFICES ASSUME NEW w \in q.writes, w.new \/ \E r \in rows : r.id = w.id
               PROVE  \E r \in rows' : r.id = w.id /\ r.owner = w.owner /\ r.key = w.key
    OBVIOUS
  <2>1. Written(w) \in rows'
    BY <1>5
  <2> QED BY <2>1
<1> QED BY <1>1, <1>3, <1>6, <1>7, <1>8, <1>9

(* Whatever is overlapped, the commit leaves the rows of other owners.     *)
LEMMA CommitIsOwn ==
  ASSUME ClaimInv, NEW e \in Edit, CommitEdit(e), NEW o, o # edit[e].owner
  PROVE  \A k : Of(o, k)' = Of(o, k)
<1>1. \A w \in edit[e].writes : w.owner = edit[e].owner /\ IsOf(w.id, w.owner, w.key)
  BY CommitIs DEF ClaimInv, WritesAreOnce
<1>2. \A r \in rows : r.owner = o =>
        r.id \notin edit[e].deletes /\ \A w \in edit[e].writes : w.id # r.id
  BY <1>1, CommitIs DEF ClaimInv, DeletesOwn, IsOf
<1>3. \A r : r \in rows' /\ r.owner = o <=> r \in rows /\ r.owner = o
  BY <1>1, <1>2, CommitIs
<1> QED BY <1>3 DEF Of

(* One that none overlapped leaves its owner the claims it was asked for.  *)
LEMMA CommitTells ==
  ASSUME ClaimInv, NEW e \in Edit, CommitEdit(e), edit[e].alone,
         NEW o \in Owner, o = edit[e].owner, NEW k \in ClaimKey,
         NEW c \in ClaimValue \cup {NoClaim}, c = edit[e].claims[k],
         c = NoClaim \/ \A r, s \in Of(o, k) : r = s
  PROVE  /\ \A r, s \in Of(o, k)' : r = s
         /\ \A r \in Of(o, k)' : r.value = c
         /\ Of(o, k)' = {} => c = NoClaim
<1>1. Replaces(e) /\ edit[e] \in OpenEdits
  BY CommitIs
<1>2. \A w \in edit[e].writes :
        /\ w \in Writes /\ w.owner = o /\ edit[e].claims[w.key] = w.value
        /\ w.value # NoClaim
  BY <1>1, ClaimAssumption DEF OpenEdits, Writes, ClaimInv, WritesAreOnce
<1>3. edit[e].deletes = Stale(o, edit[e].claims)
  BY <1>1 DEF ClaimInv, AloneSees
<1>4. CASE c = NoClaim
  <2>1. \A r \in Of(o, k) : r.id \in edit[e].deletes
    BY <1>3, <1>4 DEF Stale, Of
  <2>2. \A w \in edit[e].writes : w.key # k
    BY <1>2, <1>4
  <2>3. Of(o, k)' = {}
    <3> SUFFICES ASSUME NEW r \in rows', r.owner = o, r.key = k PROVE FALSE
      BY DEF Of
    <3>1. CASE r \in rows /\ r.id \notin edit[e].deletes
      BY <2>1, <3>1 DEF Of
    <3>2. CASE \E w \in edit[e].writes : w.key = r.key
      BY <2>2, <3>2
    <3> QED BY <3>1, <3>2, CommitIs
  <2> QED BY <1>4, <2>3
<1>5. CASE c # NoClaim
  <2>1. PICK w \in edit[e].writes : w.key = k /\ \A v \in edit[e].writes : v.key = k => v = w
    <3>1. \E w \in edit[e].writes : w.key = k
      BY <1>5 DEF CommitEdit, Unwritten
    <3> QED BY <1>1, <3>1 DEF ClaimInv, WritesAreOnce
  <2>2. IF w.new THEN Of(o, k) = {} ELSE \E r \in Of(o, k) : r.id = w.id
    BY <1>1, <1>2, <2>1 DEF ClaimInv, AloneSees
  <2>3. \A r \in Of(o, k) : r.id = w.id
    BY <1>5, <2>2
  <2>4. \A r \in Of(o, k)' : r.id = w.id /\ r.value = c
    <3> SUFFICES ASSUME NEW r \in rows', r.owner = o, r.key = k PROVE r.id = w.id /\ r.value = c
      BY DEF Of
    <3>1. CASE r \in rows /\ \A v \in edit[e].writes : v.id # r.id
      BY <2>3, <3>1 DEF Of
    <3>2. CASE \E v \in edit[e].writes : v.id = r.id /\ v.key = r.key /\ v.value = r.value
      BY <1>2, <2>1, <3>2
    <3> QED BY <3>1, <3>2, CommitIs
  <2>5. \A r \in Of(o, k)' : r = [id |-> w.id, owner |-> o, key |-> k, value |-> c]
    <3>1. \A r \in Of(o, k)' : r \in ClaimRows /\ r.owner = o /\ r.key = k
      BY CommitIs DEF Of
    <3> QED BY <2>4, <3>1 DEF ClaimRows
  <2>6. Of(o, k)' # {}
    <3>1. w.new \/ \E r \in rows : r.id = w.id
      BY <2>2 DEF Of
    <3>2. PICK r \in rows' : r.id = w.id /\ r.owner = w.owner /\ r.key = w.key
      BY <3>1, CommitIs
    <3> QED BY <1>2, <2>1, <3>2 DEF Of
  <2> QED BY <2>4, <2>5, <2>6
<1> QED BY <1>4, <1>5

LEMMA CommitEditKeeps ==
  ASSUME ClaimInv, NEW e \in Edit, CommitEdit(e)
  PROVE  ClaimInv'
<1>1. PICK o \in Owner, claims \in ClaimSet : o = edit[e].owner /\ claims = edit[e].claims
  BY CommitIs DEF OpenEdits
<1>2. /\ UNCHANGED <<groups, remapping, made>>
      /\ lastChosen' = [lastChosen EXCEPT ![o] = claims]
      /\ overlapped' = IF ~edit[e].alone THEN overlapped \cup ({o} \X ClaimKey)
                       ELSE {m \in overlapped : m[1] # o \/ claims[m[2]] # NoClaim}
  BY <1>1 DEF CommitEdit
<1>3. ClaimTypeOK'
  <2>1. lastChosen' \in [Owner -> ClaimSet]
    BY <1>2 DEF ClaimInv, ClaimTypeOK
  <2> QED BY <1>2, <2>1, CommitIs DEF ClaimInv, ClaimTypeOK
<1>4. /\ \A w \in edit[e].writes : IsOf(w.id, w.owner, w.key) /\ w.id <= made.rows
      /\ \A v, w \in edit[e].writes : v.key = w.key => v = w
  BY CommitIs DEF ClaimInv, WritesAreOnce
<1>5. ASSUME NEW i, NEW p, NEW k, IsOf(i, p, k) PROVE IsOf(i, p, k)'
  <2>1. \A r \in rows' : r.id = i => r.owner = p /\ r.key = k
    BY <1>5, CommitIs DEF IsOf
  <2> QED BY <1>5, <2>1, CommitIs DEF IsOf
<1>6. RowsAreOnce'
  <2>1. ASSUME NEW r \in rows' PROVE IsOf(r.id, r.owner, r.key)' /\ r.id <= made'.rows
    <3>1. CASE r \in rows
      BY <1>2, <1>5, <3>1 DEF ClaimInv, RowsAreOnce
    <3>2. CASE \E w \in edit[e].writes : w.id = r.id /\ w.owner = r.owner /\ w.key = r.key
      BY <1>2, <1>4, <1>5, <3>2
    <3> QED BY <3>1, <3>2, CommitIs
  <2>2. ASSUME NEW r \in rows', NEW s \in rows', r.id = s.id PROVE r = s
    <3>1. CASE r \in rows /\ \A w \in edit[e].writes : w.id # r.id
      <4>1. s \in rows
        BY <2>2, <3>1, CommitIs
      <4> QED BY <2>2, <3>1, <4>1 DEF ClaimInv, RowsAreOnce
    <3>2. CASE \E w \in edit[e].writes : w.id = r.id
      <4>1. PICK v \in edit[e].writes : v.id = r.id /\ v.owner = r.owner /\ v.key = r.key
                                        /\ v.value = r.value
        BY <3>2, CommitIs
      <4>2. PICK w \in edit[e].writes : w.id = s.id /\ w.owner = s.owner /\ w.key = s.key
                                        /\ w.value = s.value
        BY <2>2, <3>2, CommitIs
      <4>3. v.key = w.key
        BY <1>4, <2>2, <4>1, <4>2, CommitIs DEF IsOf
      <4>4. r.owner = s.owner /\ r.key = s.key /\ r.value = s.value
        BY <1>4, <4>1, <4>2, <4>3
      <4>5. r \in ClaimRows /\ s \in ClaimRows
        BY CommitIs
      <4> QED BY <2>2, <4>4, <4>5 DEF ClaimRows
    <3> QED BY <3>1, <3>2, CommitIs
  <2> QED BY <2>1, <2>2 DEF RowsAreOnce
<1>7. WritesAreOnce'
  BY <1>2, <1>5, CommitIs DEF ClaimInv, WritesAreOnce
<1>8. DeletesOwn'
  <2> SUFFICES ASSUME NEW d \in Edit, Replaces(d), Replaces(d)', edit'[d] = edit[d]
               PROVE  /\ \A i \in edit[d].deletes : i <= made.rows
                      /\ \A r \in rows' : r.id \in edit[d].deletes => r.owner = edit[d].owner
                      /\ \A c \in Edit : Replaces(c) => \A w \in edit[c].writes :
                           w.id \in edit[d].deletes => w.owner = edit[d].owner
    BY <1>2, CommitIs DEF DeletesOwn
  <2>1. /\ \A i \in edit[d].deletes : i <= made.rows
        /\ \A r \in rows : r.id \in edit[d].deletes => r.owner = edit[d].owner
        /\ \A c \in Edit : Replaces(c) => \A w \in edit[c].writes :
             w.id \in edit[d].deletes => w.owner = edit[d].owner
    BY DEF ClaimInv, DeletesOwn
  <2>2. \A r \in rows' : r.id \in edit[d].deletes => r.owner = edit[d].owner
    BY <2>1, CommitIs
  <2> QED BY <2>1, <2>2
<1>9. AloneSees'
  <2> SUFFICES ASSUME NEW d \in Edit, d # e, Replaces(d), edit'[d] = edit[d], edit[d].alone,
                      NEW p, p = edit[d].owner, NEW wish, wish = edit[d].claims
               PROVE  /\ edit[d].deletes = Stale(p, wish)'
                      /\ \A c \in Edit \ {d} : Replaces(c) => edit[c].owner # p
                      /\ \A w \in edit[d].writes :
                           IF w.new THEN Of(w.owner, w.key)' = {}
                           ELSE \E r \in Of(w.owner, w.key)' : r.id = w.id
    BY CommitIs DEF AloneSees, Stale, Of
  <2>1. /\ edit[d].deletes = Stale(p, wish)
        /\ \A c \in Edit \ {d} : Replaces(c) => edit[c].owner # p
        /\ \A w \in edit[d].writes : IF w.new THEN Of(w.owner, w.key) = {}
                                     ELSE \E r \in Of(w.owner, w.key) : r.id = w.id
    BY DEF ClaimInv, AloneSees
  <2>2. p # edit[e].owner
    BY <2>1, CommitIs
  <2>3. \A k : Of(p, k)' = Of(p, k)
    BY <2>2, CommitIsOwn
  <2>4. Stale(p, wish)' = Stale(p, wish)
    <3>1. \A r : r \in rows' /\ r.owner = p <=> r \in rows /\ r.owner = p
      BY <2>3 DEF Of
    <3> QED BY <3>1 DEF Stale
  <2>5. \A w \in edit[d].writes : w.owner = p
    BY DEF ClaimInv, WritesAreOnce
  <2> QED BY <2>1, <2>3, <2>4, <2>5
<1>10. KeysTell'
  <2> SUFFICES ASSUME NEW p \in Owner, NEW k \in ClaimKey, <<p, k>> \notin overlapped'
               PROVE  /\ \A r, s \in Of(p, k)' : r = s
                      /\ \A r \in Of(p, k)' : r.value = lastChosen'[p][k]
                      /\ Of(p, k)' = {} => lastChosen'[p][k] = NoClaim
    BY DEF KeysTell
  <2>1. CASE p # o
    <3>1. <<p, k>> \notin overlapped /\ lastChosen'[p] = lastChosen[p]
      BY <1>2, <2>1 DEF ClaimInv, ClaimTypeOK
    <3>2. Of(p, k)' = Of(p, k)
      BY <1>1, <2>1, CommitIsOwn
    <3> QED BY <3>1, <3>2 DEF ClaimInv, KeysTell
  <2>2. CASE p = o
    <3>1. edit[e].alone /\ (claims[k] = NoClaim \/ <<o, k>> \notin overlapped)
      BY <1>2, <2>2
    <3>2. lastChosen'[p][k] = claims[k] /\ claims[k] \in ClaimValue \cup {NoClaim}
      BY <1>2, <2>2 DEF ClaimInv, ClaimTypeOK, ClaimSet
    <3>3. claims[k] = NoClaim \/ \A r, s \in Of(o, k) : r = s
      BY <3>1 DEF ClaimInv, KeysTell
    <3>4. PICK c \in ClaimValue \cup {NoClaim} : c = claims[k]
      BY <3>2
    <3>5. /\ \A r, s \in Of(o, k)' : r = s
          /\ \A r \in Of(o, k)' : r.value = c
          /\ Of(o, k)' = {} => c = NoClaim
      BY <1>1, <3>1, <3>3, <3>4, CommitTells
    <3> QED BY <2>2, <3>2, <3>4, <3>5
  <2> QED BY <2>1, <2>2
<1> QED BY <1>3, <1>6, <1>7, <1>8, <1>9, <1>10 DEF ClaimInv

LEMMA ClaimsKeep ==
  ASSUME ClaimInv, [ClaimsStep]_claimVars
  PROVE  ClaimInv'
<1>1. CASE UNCHANGED claimVars
  <2>1. UNCHANGED <<rows, groups, remapping, edit, made, lastChosen, overlapped>>
    BY <1>1 DEF claimVars
  <2>2. ClaimTypeOK'
    BY <2>1 DEF ClaimInv, ClaimTypeOK
  <2>3. \A d \in Edit : Replaces(d)' => Replaces(d) /\ edit'[d] = edit[d]
    BY <2>1 DEF Replaces
  <2>4. RowsAreOnce' /\ WritesAreOnce' /\ DeletesOwn' /\ AloneSees' /\ KeysTell'
    BY <2>1, <2>3, SameRows
  <2> QED BY <2>2, <2>4 DEF ClaimInv
<1>2. CASE ClaimsStep
  BY <1>2, BeginEditKeeps, WriteClaimKeeps, CommitEditKeeps, OtherClaimsKeep DEF ClaimsStep
<1> QED BY <1>1, <1>2

(* A key that no overlap has touched is told of an owner as it was chosen. *)
LEMMA KeysAreTold ==
  ASSUME ClaimInv, NEW o \in Owner, NEW k \in ClaimKey, <<o, k>> \notin overlapped
  PROVE  /\ ValuesOf(o, k) = Chosen(o, k)
         /\ Of(o, k) # {} <=> Chosen(o, k) # {}
<1>1. /\ \A r, s \in Of(o, k) : r = s
      /\ \A r \in Of(o, k) : r.value = lastChosen[o][k]
      /\ Of(o, k) = {} => lastChosen[o][k] = NoClaim
  BY DEF ClaimInv, KeysTell
<1>2. \A r \in Of(o, k) : r.value \in ClaimValue /\ r.value # NoClaim
  BY ClaimAssumption DEF Of, ClaimInv, ClaimTypeOK, ClaimRows
<1> QED BY <1>1, <1>2 DEF ValuesOf, Chosen

(* A claim is told as it was chosen last for the user, else for one of the *)
(* groups, under its own name, unless the record has a claim of that name, *)
(* or as the name of the user; only replacements that overlapped may leave *)
(* it otherwise.                                                           *)
THEOREM ClaimsAreAsChosen == Spec => []ClaimsAsChosen
<1>1. Init => ClaimInv
  <2> SUFFICES ASSUME Init PROVE ClaimInv
    OBVIOUS
  <2>1. ClaimsInit
    BY DEF Init
  <2>2. ClaimTypeOK
    BY <2>1 DEF ClaimsInit, ClaimTypeOK, ClaimSet, NoClaims
  <2>3. \A e \in Edit : ~Replaces(e)
    BY <2>1 DEF ClaimsInit, Replaces, NoEdit
  <2>4. KeysTell
    BY <2>1 DEF ClaimsInit, KeysTell, Of, NoClaims
  <2>5. RowsAreOnce
    BY <2>1 DEF ClaimsInit, RowsAreOnce
  <2> QED BY <2>2, <2>3, <2>4, <2>5 DEF ClaimInv, WritesAreOnce, DeletesOwn, AloneSees
<1>2. ClaimInv /\ [Next]_vars => ClaimInv'
  BY StepsShown, ClaimsKeep
<1>3. ClaimInv => ClaimsAsChosen
  <2> SUFFICES ASSUME ClaimInv, NEW k \in ClaimKey, Clear(k)
               PROVE  /\ ClientClaims(k) = IF k \in FromRecord THEN {Standard} ELSE ChosenClaim(k)
                      /\ remapping = k =>
                           ClientClaims("name") =
                             IF ChosenClaim(k) = {} THEN {Standard} ELSE ChosenClaim(k)
    BY DEF ClaimsAsChosen
  <2>1. \A o \in {"user"} \cup groups :
          ValuesOf(o, k) = Chosen(o, k) /\ (Of(o, k) # {} <=> Chosen(o, k) # {})
    <3>1. {"user"} \cup groups \subseteq Owner
      BY DEF ClaimInv, ClaimTypeOK, Owner
    <3> QED BY <3>1, KeysAreTold DEF Clear
  <2>2. CustomClaim(k) = ChosenClaim(k)
    <3>1. UNION {ValuesOf(g, k) : g \in groups} = UNION {Chosen(g, k) : g \in groups}
      BY <2>1
    <3> QED BY <2>1, <3>1 DEF CustomClaim, ChosenClaim
  <2>3. k # "name" /\ k # NoClaim
    BY ClaimAssumption
  <2> QED BY <2>2, <2>3 DEF ClientClaims, UserClaims, FromRecord
<1> QED BY <1>1, <1>2, <1>3, PTL DEF Spec

=============================================================================
