-------------------------- MODULE LocationDatabase --------------------------
(***************************************************************************)
(* The database that says where an address is (geolite): a file that is    *)
(* mapped, and replaced by hand or by a download while lookups go on.  The *)
(* start, the watcher of the directory and the periodic refresh load it,   *)
(* each with one stat, one open and one exchange of the mapped database.   *)
(* Age decides when a refresh is due; here it may be at any time.          *)
(***************************************************************************)
EXTENDS Naturals

CONSTANT MaxFiles   \* bound on the files put in place

Loader == {"watcher", "refresher"}
NoFile == 0

VARIABLES
  file,      \* the file in place
  broken,    \* the files that are no databases
  placed,    \* how many files were put in place
  mapped,    \* the contents mapped, and the file whose stat identifies it
  loader,    \* what each loader is doing
  watch,     \* of this process: none yet, set up, or it could not be
  changed,   \* a change was noticed and its load is due
  overtaken  \* history: the mapped database was set by a load that began
             \* before another one ended

locationVars == <<file, broken, placed, mapped, loader, watch, changed, overtaken>>

Unmapped == [db |-> NoFile, file |-> NoFile]
Resting == [at |-> "rest"]
Loading(at, seen, db, alone) == [at |-> at, seen |-> seen, db |-> db, alone |-> alone]
Due == [at |-> "due"]

LocationInit ==
  /\ file \in {NoFile, 1}
  /\ placed = file
  /\ broken \in SUBSET ({file} \ {NoFile})
  /\ mapped = Unmapped
  /\ loader = [l \in Loader |-> IF l = "watcher" THEN Due ELSE Resting]
  /\ watch = "none" /\ changed = FALSE /\ overtaken = FALSE

-----------------------------------------------------------------------------
(* load.                                                                   *)

Unchanged(seen) == mapped # Unmapped /\ mapped.file = seen

(* The stat, and the comparison with the file that is mapped.              *)
Stat(l) ==
  /\ loader[l] = Due
  /\ loader' = [loader EXCEPT ![l] =
                  IF Unchanged(file) THEN Resting ELSE Loading("open", file, NoFile, TRUE)]
  /\ UNCHANGED <<file, broken, placed, mapped, watch, changed, overtaken>>

Exchange(l, m) ==
  /\ mapped' = m
  /\ overtaken' = ~loader[l].alone
  /\ loader' = [k \in Loader |->
                  IF k = l THEN Resting
                  ELSE IF loader[k].at \in {"open", "install"}
                  THEN [loader[k] EXCEPT !.alone = FALSE] ELSE loader[k]]

(* unload: there was no file.                                              *)
Unload(l) ==
  /\ loader[l].at = "open" /\ loader[l].seen = NoFile
  /\ Exchange(l, Unmapped)
  /\ UNCHANGED <<file, broken, placed, watch, changed>>

(* The file in place now, which need not be the one of the stat; if it     *)
(* cannot be read the mapped one stays.                                    *)
OpenFile(l) ==
  /\ loader[l].at = "open" /\ loader[l].seen # NoFile
  /\ loader' = [loader EXCEPT ![l] =
                  IF file = NoFile \/ file \in broken THEN Resting
                  ELSE [@ EXCEPT !.at = "install", !.db = file]]
  /\ UNCHANGED <<file, broken, placed, mapped, watch, changed, overtaken>>

Install(l) ==
  /\ loader[l].at = "install"
  /\ Exchange(l, [db |-> loader[l].db, file |-> loader[l].seen])
  /\ UNCHANGED <<file, broken, placed, watch, changed>>

-----------------------------------------------------------------------------
Noticed == watch = "watching" \/ changed

(* A file is renamed into place, by hand whatever it holds.                *)
PlaceFile(readable) ==
  /\ placed < MaxFiles
  /\ file' = placed + 1 /\ placed' = placed + 1
  /\ broken' = IF readable THEN broken ELSE broken \cup {placed + 1}
  /\ changed' = Noticed
  /\ UNCHANGED <<mapped, loader, watch, overtaken>>

TakeFileAway ==
  /\ file # NoFile
  /\ file' = NoFile
  /\ changed' = Noticed
  /\ UNCHANGED <<broken, placed, mapped, loader, watch, overtaken>>

(* refresh: a download that cannot be read is never put in place; after    *)
(* one that was, the database is loaded.                                   *)
Refresh ==
  /\ watch # "none" \/ loader["watcher"] = Resting
  /\ loader["refresher"] = Resting
  /\ placed < MaxFiles
  /\ file' = placed + 1 /\ placed' = placed + 1
  /\ changed' = Noticed
  /\ loader' = [loader EXCEPT !["refresher"] = Due]
  /\ UNCHANGED <<broken, mapped, watch, overtaken>>

(* The start has loaded the file; the watch is set up, and what came       *)
(* before it is loaded, or there is none until the next start.             *)
AfterWatch_Nothing == Resting  \* mutant: only events are loaded
AfterWatch == Due
SetUpWatch ==
  /\ watch = "none" /\ loader["watcher"] = Resting
  /\ \/ watch' = "watching" /\ loader' = [loader EXCEPT !["watcher"] = AfterWatch]
     \/ watch' = "failed" /\ UNCHANGED loader
  /\ UNCHANGED <<file, broken, placed, mapped, changed, overtaken>>

(* The timer that the last event set.                                      *)
Reload ==
  /\ changed /\ loader["watcher"] = Resting
  /\ changed' = FALSE
  /\ loader' = [loader EXCEPT !["watcher"] = Due]
  /\ UNCHANGED <<file, broken, placed, mapped, watch, overtaken>>

RestartProcess ==
  /\ mapped' = Unmapped
  /\ loader' = [l \in Loader |-> IF l = "watcher" THEN Due ELSE Resting]
  /\ watch' = "none" /\ changed' = FALSE /\ overtaken' = FALSE
  /\ UNCHANGED <<file, broken, placed>>

LocationStep ==
  \/ \E l \in Loader : Stat(l) \/ Unload(l) \/ OpenFile(l) \/ Install(l)
  \/ \E readable \in BOOLEAN : PlaceFile(readable)
  \/ TakeFileAway \/ Refresh \/ SetUpWatch \/ Reload \/ RestartProcess

LocationSpec == LocationInit /\ [][LocationStep]_locationVars

-----------------------------------------------------------------------------
(* "The file is watched, so replacing it takes effect without a restart":  *)
(* when the watch is set up and nothing is left to do, lookups use the     *)
(* file in place, if it can be read, and none if there is none.  Only a    *)
(* load that was overtaken by another one may leave an older database.     *)
WatchedFileIsServed ==
  (/\ watch = "watching" /\ ~changed /\ ~overtaken
   /\ \A l \in Loader : loader[l] = Resting
   /\ file \notin broken)
    => mapped.db = file
=============================================================================
