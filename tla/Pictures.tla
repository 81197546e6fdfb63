------------------------------ MODULE Pictures ------------------------------
(***************************************************************************)
(* Profile pictures and the file storage below them                        *)
(* (service/user_service.go, storage/, job/file_cleanup_job.go).  A file   *)
(* is named after a user id, or after initials for the generated default   *)
(* pictures.  The file system backend writes a temporary file and renames  *)
(* it over the old one; the database backend saves in one statement.  A    *)
(* process may stop between any two steps; what it wrote stays.  S3 saves  *)
(* at once, as the database does.                                          *)
(***************************************************************************)
EXTENDS Naturals, FiniteSets

CONSTANTS
    Person,      \* user ids, which are never used twice
    Initials,    \* what a generated picture is named after
    Worker,      \* requests and jobs that run at the same time
    NoPicture,   \* no file of that name
    MaxSaves     \* bound on the files saved

VARIABLES
    store,       \* "filesystem" or "database"
    people,      \* the users that have a row
    initials,    \* person -> the initials of the name in the row
    pictures,    \* file name -> what it holds, or NoPicture
    temps,       \* temporary files on the disk
    work,        \* worker -> what it is doing
    saves,       \* files saved so far
    leftovers,   \* history: people whose deletion was cut short
    latecomers,  \* history: people whose picture landed after the deletion
    served       \* the last picture handed to a browser

pictureVars == <<store, people, initials, pictures, temps, work, saves,
                 leftovers, latecomers, served>>

FileName == Person \cup Initials
Free == [does |-> "nothing"]

PictureInit ==
    /\ store \in {"filesystem", "database"}
    /\ people = Person
    /\ initials \in [Person -> Initials]
    /\ pictures = [n \in FileName |-> NoPicture]
    /\ temps = {}
    /\ work = [w \in Worker |-> Free]
    /\ saves = 0
    /\ leftovers = {} /\ latecomers = {}
    /\ served = NoPicture

Doing(w, what) == work[w].does = what
Becomes(w, job) == work' = [work EXCEPT ![w] = job]
SaveJob(name) ==
    [does |-> "save", step |-> "create", name |-> name, id |-> saves + 1]

-----------------------------------------------------------------------------
(* storage: Save                                                           *)

MayReplace(name, picture) ==
    /\ pictures' = [pictures EXCEPT ![name] = picture]
    /\ latecomers' =
         latecomers \cup (IF name \in Person \ people THEN {name} ELSE {})

\* The rows of the database backend are upserted with all their data.
SaveInDatabase(w) ==
    /\ Doing(w, "save") /\ store = "database"
    /\ MayReplace(work[w].name,
                  [id |-> work[w].id, name |-> work[w].name, whole |-> TRUE])
    /\ Becomes(w, Free)
    /\ UNCHANGED <<store, people, initials, temps, saves, leftovers, served>>

Created_InPlace(w) ==  \* mutant: the data is written to the file itself
    /\ pictures' = [pictures EXCEPT ![work[w].name] =
                     [id |-> work[w].id, name |-> work[w].name,
                      whole |-> FALSE]]
    /\ temps' = temps \cup {[id |-> work[w].id, name |-> work[w].name,
                             whole |-> FALSE, old |-> FALSE]}
\* What a save has created before its data is written.
Created(w) ==
    /\ temps' = temps \cup {[id |-> work[w].id, name |-> work[w].name,
                             whole |-> FALSE, old |-> FALSE]}
    /\ UNCHANGED pictures

SaveCreate(w) ==
    /\ Doing(w, "save") /\ work[w].step = "create" /\ store = "filesystem"
    /\ Created(w)
    /\ Becomes(w, [work[w] EXCEPT !.step = "write"])
    /\ UNCHANGED <<store, people, initials, saves, leftovers, latecomers,
                   served>>

Mine(w) == {t \in temps : t.id = work[w].id}

SaveWrite(w) ==
    /\ Doing(w, "save") /\ work[w].step = "write"
    /\ temps' = (temps \ Mine(w))
                  \cup {[t EXCEPT !.whole = TRUE] : t \in Mine(w)}
    /\ Becomes(w, [work[w] EXCEPT !.step = "rename"])
    /\ UNCHANGED <<store, people, initials, pictures, saves, leftovers,
                   latecomers, served>>

\* A failed write or close removes the temporary file.
SaveFails(w) ==
    /\ Doing(w, "save") /\ work[w].step = "write"
    /\ temps' = temps \ Mine(w)
    /\ Becomes(w, Free)
    /\ UNCHANGED <<store, people, initials, pictures, saves, leftovers,
                   latecomers, served>>

\* The rename replaces the file at once; it fails when the job that clears
\* temporary files got there first.
SaveRename(w) ==
    /\ Doing(w, "save") /\ work[w].step = "rename"
    /\ \/ \E t \in Mine(w) :
            MayReplace(t.name, [id |-> t.id, name |-> t.name,
                                whole |-> t.whole])
       \/ Mine(w) = {} /\ UNCHANGED <<pictures, latecomers>>
    /\ temps' = temps \ Mine(w)
    /\ Becomes(w, Free)
    /\ UNCHANGED <<store, people, initials, saves, leftovers, served>>

-----------------------------------------------------------------------------
(* user service                                                            *)

\* UpdateProfilePicture, of a request or of the LDAP sync: the user must
\* exist when it is looked up.
UpdateProfilePicture(w, u) ==
    /\ work[w] = Free \/ (Doing(w, "download") /\ work[w].name = u)
    /\ u \in people /\ saves < MaxSaves
    /\ saves' = saves + 1
    /\ Becomes(w, SaveJob(u))
    /\ UNCHANGED <<store, people, initials, pictures, temps, leftovers,
                   latecomers, served>>

\* The LDAP sync, once it has committed; pictures are downloaded first.
SaveDirectoryPicture(w, u) ==
    /\ work[w] = Free /\ u \in people
    /\ Becomes(w, [does |-> "download", name |-> u])
    /\ UNCHANGED <<store, people, initials, pictures, temps, saves, leftovers,
                   latecomers, served>>

ResetProfilePicture(w, u) ==
    /\ work[w] = Free /\ u \in people
    /\ Becomes(w, [does |-> "remove", name |-> u])
    /\ UNCHANGED <<store, people, initials, pictures, temps, saves, leftovers,
                   latecomers, served>>

\* DeleteUser commits the removal of the row and then removes the file.
DeletePerson(w, u) ==
    /\ work[w] = Free /\ u \in people
    /\ people' = people \ {u}
    /\ Becomes(w, [does |-> "remove", name |-> u])
    /\ UNCHANGED <<store, initials, pictures, temps, saves, leftovers,
                   latecomers, served>>

RemovePicture(w) ==
    /\ Doing(w, "remove")
    /\ pictures' = [pictures EXCEPT ![work[w].name] = NoPicture]
    /\ Becomes(w, Free)
    /\ UNCHANGED <<store, people, initials, temps, saves, leftovers, latecomers,
                   served>>

\* The name of a user changes, and with it the default picture.
ChangeName(u, i) ==
    /\ u \in people /\ i # initials[u]
    /\ initials' = [initials EXCEPT ![u] = i]
    /\ UNCHANGED <<store, people, pictures, temps, work, saves, leftovers,
                   latecomers, served>>

\* GetProfilePicture: the user is read, then the files are tried in turn.
GetProfilePicture(w, u) ==
    /\ work[w] = Free /\ u \in people
    /\ Becomes(w, [does |-> "show", step |-> "custom", name |-> u,
                   default |-> initials[u]])
    /\ UNCHANGED <<store, people, initials, pictures, temps, saves, leftovers,
                   latecomers, served>>

OpenCustom(w) ==
    /\ Doing(w, "show") /\ work[w].step = "custom"
    /\ IF pictures[work[w].name] # NoPicture
       THEN served' = pictures[work[w].name] /\ Becomes(w, Free)
       ELSE /\ UNCHANGED served
            /\ \/ Becomes(w, Free)   \* the instance has a default picture
               \/ Becomes(w, [work[w] EXCEPT !.step = "default"])
    /\ UNCHANGED <<store, people, initials, pictures, temps, saves, leftovers,
                   latecomers>>

\* A default that is not cached is generated, handed out, and saved in the
\* background.
OpenDefault(w) ==
    /\ Doing(w, "show") /\ work[w].step = "default"
    /\ LET name == work[w].default
       IN  IF pictures[name] # NoPicture
           THEN /\ served' = pictures[name] /\ Becomes(w, Free)
                /\ UNCHANGED saves
           ELSE /\ saves < MaxSaves /\ saves' = saves + 1
                /\ served' = [id |-> saves + 1, name |-> name, whole |-> TRUE]
                /\ Becomes(w, SaveJob(name))
    /\ UNCHANGED <<store, people, initials, pictures, temps, leftovers,
                   latecomers>>

-----------------------------------------------------------------------------
(* jobs                                                                    *)

\* clearUnusedDefaultProfilePictures reads the users, lists the files, and
\* removes them one by one.
ClearDefaults(w) ==
    /\ work[w] = Free
    /\ Becomes(w, [does |-> "list",
                   inUse |-> {initials[u] : u \in people}])
    /\ UNCHANGED <<store, people, initials, pictures, temps, saves, leftovers,
                   latecomers, served>>

ListDefaults(w) ==
    /\ Doing(w, "list")
    /\ Becomes(w, [does |-> "clear",
                   unused |-> {i \in Initials \ work[w].inUse :
                                 pictures[i] # NoPicture}])
    /\ UNCHANGED <<store, people, initials, pictures, temps, saves, leftovers,
                   latecomers, served>>

ClearDefault(w) ==
    /\ Doing(w, "clear")
    /\ \/ \E i \in work[w].unused :
            /\ pictures' = [pictures EXCEPT ![i] = NoPicture]
            /\ Becomes(w, [work[w] EXCEPT !.unused = @ \ {i}])
       \/ work[w].unused = {} /\ Becomes(w, Free) /\ UNCHANGED pictures
    /\ UNCHANGED <<store, people, initials, temps, saves, leftovers,
                   latecomers, served>>

\* clearOrphanedTempFiles removes what was not written to for ten minutes,
\* even if its writer is only slow.
TempAges ==
    /\ \E t \in temps : ~t.old /\ temps' = (temps \ {t})
                                     \cup {[t EXCEPT !.old = TRUE]}
    /\ UNCHANGED <<store, people, initials, pictures, work, saves, leftovers,
                   latecomers, served>>

ClearOrphanedTempFiles ==
    /\ store = "filesystem"
    /\ \E t \in temps : t.old /\ temps' = temps \ {t}
    /\ UNCHANGED <<store, people, initials, pictures, work, saves, leftovers,
                   latecomers, served>>

\* The process of a worker stops.
WorkerStops(w) ==
    /\ work[w] # Free
    /\ leftovers' = leftovers \cup (IF Doing(w, "remove")
                                    THEN {work[w].name} \ people ELSE {})
    /\ Becomes(w, Free)
    /\ UNCHANGED <<store, people, initials, pictures, temps, saves, latecomers,
                   served>>

PictureNext ==
    \/ \E w \in Worker :
         \/ SaveInDatabase(w) \/ SaveCreate(w) \/ SaveWrite(w)
         \/ SaveFails(w) \/ SaveRename(w) \/ RemovePicture(w)
         \/ OpenCustom(w) \/ OpenDefault(w)
         \/ ClearDefaults(w) \/ ListDefaults(w) \/ ClearDefault(w)
         \/ WorkerStops(w)
         \/ \E u \in Person :
              \/ UpdateProfilePicture(w, u) \/ SaveDirectoryPicture(w, u)
              \/ ResetProfilePicture(w, u)
              \/ DeletePerson(w, u) \/ GetProfilePicture(w, u)
    \/ \E u \in Person, i \in Initials : ChangeName(u, i)
    \/ TempAges \/ ClearOrphanedTempFiles

PictureSpec == PictureInit /\ [][PictureNext]_pictureVars

-----------------------------------------------------------------------------
(* properties                                                              *)

\* Whatever a browser is shown or could be shown is a whole picture of the
\* name it is stored under, whichever writers stopped half-way and whatever
\* the cleaning jobs removed meanwhile; and nobody's picture outlives the
\* account, unless the deletion stopped before it removed the file or an
\* upload that had found the account landed after it was gone.
PicturesFollowUsers ==
    /\ \A n \in FileName :
         pictures[n] # NoPicture => pictures[n].whole /\ pictures[n].name = n
    /\ served # NoPicture => served.whole
    /\ \A u \in Person \ people :
         \/ pictures[u] = NoPicture
         \/ u \in leftovers \cup latecomers
         \/ \E w \in Worker : Doing(w, "remove") /\ work[w].name = u

=============================================================================
