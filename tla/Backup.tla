------------------------------- MODULE Backup -------------------------------
(***************************************************************************)
(* The commands export and import (cmds, service/export_service.go,        *)
(* service/import_service.go) beside an instance that starts, serves and   *)
(* stops.  The data is in three places: the database, the states of the    *)
(* actors, uploaded files.  An export reads one after the other while the  *)
(* instance may serve; an import replaces one after the other, and takes   *)
(* a lease so that no instance joins the cluster meanwhile.                *)
(*                                                                         *)
(* The data tells how often something that works once was used: the actor  *)
(* counts it first, what came of it is in the database afterwards.         *)
(***************************************************************************)
EXTENDS Naturals

CONSTANTS
  Upload,
  MaxUses     \* bound on the uses

VARIABLES
  database,   \* its tables, and the uses they tell of
  actors,     \* the uses that the actors counted
  uploads,    \* uploaded files: of this instance or from the archive
  archive,    \* what the export wrote so far
  export,     \* what the export does next
  import,     \* what the import does next
  lease,      \* exclusive access: free, held, or lost while it was held
  instance,   \* how far an instance has started
  cut         \* history: an import was cut short

backupVars == <<database, actors, uploads, archive, export, import, lease, instance,
                cut>>

Data(n) == [at |-> "data", used |-> n]
Dropped == [at |-> "dropped"]
Bare == [at |-> "bare"]        \* tables without rows
Seeded == [at |-> "seeded"]    \* with the rows that a start makes

EmptyArchive == [used |-> 0, actors |-> 0, files |-> {}]

BackupInit ==
  /\ database = Data(0) /\ actors = 0
  /\ uploads \in [Upload -> {"absent", "own"}]
  /\ archive = EmptyArchive
  /\ export = "idle" /\ import = "idle"
  /\ lease = "free" /\ instance = "down"
  /\ cut = FALSE

Commands == UNCHANGED <<archive, export, import, lease, cut>>

-----------------------------------------------------------------------------
(* Bootstrap.  The instance joins the cluster last.                        *)

NewDatabase ==
  /\ instance = "down"
  /\ instance' = "migrated"
  /\ database' = IF database = Dropped THEN Bare ELSE database
  /\ UNCHANGED <<actors, uploads>> /\ Commands

(* The instance ID and the keys are made where there are none.             *)
SeedDatabase ==
  /\ instance = "migrated"
  /\ IF database = Dropped THEN instance' = "down" /\ UNCHANGED database
     ELSE /\ instance' = "seeded"
          /\ database' = IF database = Bare THEN Seeded ELSE database
  /\ UNCHANGED <<actors, uploads>> /\ Commands

JoinCluster ==
  /\ instance = "seeded"
  /\ instance' = IF lease = "held" THEN "down" ELSE "up"
  /\ UNCHANGED <<database, actors, uploads>> /\ Commands

StopInstance ==
  /\ instance # "down" /\ instance' = "down"
  /\ UNCHANGED <<database, actors, uploads>> /\ Commands

Serving == instance = "up" /\ database.at = "data"

CountUse ==
  /\ Serving /\ actors < MaxUses
  /\ actors' = actors + 1
  /\ UNCHANGED <<database, uploads, instance>> /\ Commands

(* What a counted use leads to is stored; or never is.                     *)
StoreUse ==
  /\ Serving /\ database.used < actors
  /\ database' = Data(database.used + 1)
  /\ UNCHANGED <<actors, uploads, instance>> /\ Commands

ChangeUpload(f) ==
  /\ Serving
  /\ \E u \in {"absent", "own"} : uploads' = [uploads EXCEPT ![f] = u]
  /\ UNCHANGED <<database, actors, instance>> /\ Commands

InstanceStep ==
  \/ NewDatabase \/ SeedDatabase \/ JoinCluster \/ StopInstance
  \/ CountUse \/ StoreUse \/ \E f \in Upload : ChangeUpload(f)

-----------------------------------------------------------------------------
(* ExportToZip: the tables in one snapshot, then the actors, then files.   *)

Kept == UNCHANGED <<database, actors, uploads, import, lease, instance, cut>>

Order_ActorsFirst == <<"actors", "database">>  \* mutant
Order == <<"database", "actors">>

StartExport ==
  /\ export = "idle" /\ export' = Order[1]
  /\ archive' = EmptyArchive
  /\ Kept

Export(part) ==
  /\ export = part
  /\ \/ part = "actors" /\ archive' = [archive EXCEPT !.actors = actors]
     \/ /\ part = "database" /\ database.at = "data"
        /\ archive' = [archive EXCEPT !.used = database.used]
  /\ export' = IF part = Order[1] THEN Order[2] ELSE "files"
  /\ Kept

AddUploads ==
  /\ export = "files" /\ export' = "done"
  /\ archive' = [archive EXCEPT !.files = {f \in Upload : uploads[f] # "absent"}]
  /\ Kept

FailExport ==
  /\ export \notin {"idle", "done"} /\ export' = "idle"
  /\ archive' = EmptyArchive
  /\ Kept

ExportStep ==
  \/ StartExport \/ AddUploads \/ FailExport
  \/ \E part \in {"database", "actors"} : Export(part)

-----------------------------------------------------------------------------
(* runImport.  Every call but the insertion of the rows stops when the     *)
(* lease is lost.                                                          *)

(* acquireExclusiveAccess: an instance that is up is in the way, or, by    *)
(* force, is stopped; one that is starting is not known yet.               *)
AcquireExclusive(force) ==
  /\ import = "idle" /\ export = "done"
  /\ instance = "up" => force
  /\ instance' = IF instance = "up" THEN "down" ELSE instance
  /\ lease' = "held" /\ import' = "actors"
  /\ UNCHANGED <<database, actors, uploads, archive, export, cut>>

LoseLease ==
  /\ lease = "held" /\ lease' = "lost"
  /\ cut' = TRUE
  /\ UNCHANGED <<database, actors, uploads, archive, export, import, instance>>

Importing(step, next) ==
  /\ import = step /\ import' = next
  /\ step # "insert" => lease = "held"
  /\ UNCHANGED <<archive, export, instance>>

RestoreActors ==
  /\ Importing("actors", "drop")
  /\ actors' = archive.actors
  /\ UNCHANGED <<database, uploads, lease, cut>>

DropTables ==
  /\ Importing("drop", "migrate")
  /\ database' = Dropped
  /\ UNCHANGED <<actors, uploads, lease, cut>>

(* "No change" is an error here.                                           *)
MigrateTables ==
  /\ database = Dropped
  /\ Importing("migrate", "insert")
  /\ database' = Bare
  /\ UNCHANGED <<actors, uploads, lease, cut>>

(* One transaction; a row that exists is an error.                         *)
InsertData ==
  /\ database = Bare
  /\ Importing("insert", "files")
  /\ database' = Data(archive.used)
  /\ UNCHANGED <<actors, uploads, lease, cut>>

Left == {f \in archive.files : uploads[f] # "archived"}

(* The file that is there is deleted, then the one of the archive saved.   *)
ImportUpload(f) ==
  /\ f \in Left
  /\ Importing("files", "files")
  /\ uploads' = [uploads EXCEPT ![f] = IF uploads[f] = "own" THEN "absent" ELSE "archived"]
  /\ UNCHANGED <<database, actors, lease, cut>>

FinishImport ==
  /\ Left = {}
  /\ Importing("files", "done")
  /\ lease' = "free"
  /\ UNCHANGED <<database, actors, uploads, cut>>

(* A step fails or the command is stopped; the lease is given back.        *)
FailImport ==
  /\ import \notin {"idle", "done", "failed"} /\ import' = "failed"
  /\ lease' = "free"
  /\ cut' = TRUE
  /\ UNCHANGED <<database, actors, uploads, archive, export, instance>>

ImportStep ==
  \/ \E force \in BOOLEAN : AcquireExclusive(force)
  \/ LoseLease \/ RestoreActors \/ DropTables \/ MigrateTables \/ InsertData
  \/ (\E f \in Upload : ImportUpload(f)) \/ FinishImport \/ FailImport

BackupStep == InstanceStep \/ ExportStep \/ ImportStep

BackupSpec == BackupInit /\ [][BackupStep]_backupVars

-----------------------------------------------------------------------------
(* An instance that is up has all of its data, and what worked once does   *)
(* not work again after a restore: no use that the database tells of is    *)
(* unknown to the actors.  So it is whatever was used while the export     *)
(* ran and whatever started while the import ran, unless the import was    *)
(* cut short or lost its lease.                                            *)
RestoredUsesStayUsed ==
  instance = "up" /\ ~cut => database.at = "data" /\ database.used <= actors
=============================================================================
