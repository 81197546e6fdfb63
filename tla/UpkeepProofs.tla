---------------------------- MODULE UpkeepProofs ----------------------------
(***************************************************************************)
(* Proofs about the parts of Parts that keep an instance in order, for any *)
(* clients, users, files, replicas and requests: what is restored from a   *)
(* backup, which settings are in force, how clients are administered, and  *)
(* which database of locations and which profile pictures are served.      *)
(***************************************************************************)
EXTENDS Parts, FiniteSetTheorems, TLAPS

(* A step of the instance is a step of each part or leaves it alone.       *)
LEMMA StepsOfUpkeep ==
  ASSUME [Next]_vars
  PROVE  /\ [BackupStep]_backupVars
         /\ [ConfigStep]_configVars
         /\ [AdminStep]_adminVars
         /\ [LocationStep]_locationVars
         /\ [PictureNext]_pictureVars
  BY DEF Next, StepAccess, StepAdministration, StepAuthentication, StepClaims, StepKeys,
         StepConfiguration, StepLocation, StepImages, StepPictures, StepSignIns, StepBackup,
         Still, vars

-----------------------------------------------------------------------------
(* What was used stays used after a restore (Backup).                      *)

(* The tables have rows that a use may have left.                          *)
HasData(d) == d.at = "data" /\ d.used \in Nat

BackupTypeOK ==
  /\ database \in {Dropped, Bare, Seeded} \/ HasData(database)
  /\ actors \in Nat
  /\ archive \in [used : Nat, actors : Nat, files : SUBSET Upload]
  /\ export \in {"idle", "database", "actors", "files", "done"}
  /\ import \in {"idle", "actors", "drop", "migrate", "insert", "files", "done", "failed"}
  /\ lease \in {"free", "held", "lost"}
  /\ instance \in {"down", "migrated", "seeded", "up"}

(* Before an import nothing is missing, and the export read the database   *)
(* before the actors.                                                      *)
ExportIsConsistent ==
  /\ import = "idle" =>
       /\ ~cut /\ lease = "free"
       /\ HasData(database) /\ database.used <= actors
       /\ export = "actors" => archive.used <= actors
  /\ import # "idle" => export = "done"
  /\ export \in {"files", "done"} => archive.used <= archive.actors

(* An import that goes well keeps instances out until the data is back.    *)
ImportIsExclusive ==
  ~cut /\ import # "idle" =>
    /\ import # "failed"
    /\ lease = IF import = "done" THEN "free" ELSE "held"
    /\ import # "done" => instance # "up"
    /\ import \in {"drop", "migrate", "insert"} => actors = archive.actors
    /\ import \in {"files", "done"} => HasData(database) /\ database.used <= actors

BackupInv == BackupTypeOK /\ ExportIsConsistent /\ ImportIsExclusive

LEMMA InstanceKeeps ==
  ASSUME BackupInv, InstanceStep
  PROVE  BackupInv'
<1> USE DEF BackupInv, BackupTypeOK, ExportIsConsistent, ImportIsExclusive, HasData,
            Commands, Data, Dropped, Bare, Seeded
<1>1. CASE NewDatabase
  BY <1>1 DEF NewDatabase
<1>2. CASE SeedDatabase
  BY <1>2 DEF SeedDatabase
<1>3. CASE JoinCluster
  BY <1>3 DEF JoinCluster
<1>4. CASE StopInstance
  BY <1>4 DEF StopInstance
<1>5. CASE CountUse
  BY <1>5 DEF CountUse, Serving
<1>6. CASE StoreUse
  BY <1>6 DEF StoreUse, Serving
<1>7. ASSUME NEW f \in Upload, ChangeUpload(f) PROVE BackupInv'
  BY <1>7 DEF ChangeUpload
<1> QED BY <1>1, <1>2, <1>3, <1>4, <1>5, <1>6, <1>7 DEF InstanceStep

LEMMA ExportKeeps ==
  ASSUME BackupInv, ExportStep
  PROVE  BackupInv'
<1> USE DEF BackupInv, BackupTypeOK, ExportIsConsistent, ImportIsExclusive, HasData, Kept, Order
<1>1. CASE StartExport
  BY <1>1 DEF StartExport, EmptyArchive
<1>2. CASE AddUploads
  <2>1. archive'.used = archive.used /\ archive'.actors = archive.actors
    BY <1>2 DEF AddUploads
  <2> QED BY <1>2, <2>1 DEF AddUploads
<1>3. CASE FailExport
  BY <1>3 DEF FailExport, EmptyArchive
<1>4. CASE Export("database")
  BY <1>4 DEF Export
<1>5. CASE Export("actors")
  BY <1>5 DEF Export
<1> QED BY <1>1, <1>2, <1>3, <1>4, <1>5 DEF ExportStep

LEMMA ImportKeeps ==
  ASSUME BackupInv, ImportStep
  PROVE  BackupInv'
<1> USE DEF BackupInv, BackupTypeOK, ExportIsConsistent, ImportIsExclusive, HasData,
            Importing, Data, Dropped, Bare, Seeded
<1>1. ASSUME NEW force \in BOOLEAN, AcquireExclusive(force) PROVE BackupInv'
  BY <1>1 DEF AcquireExclusive
<1>2. CASE LoseLease
  BY <1>2 DEF LoseLease
<1>3. CASE RestoreActors
  BY <1>3 DEF RestoreActors
<1>4. CASE DropTables
  BY <1>4 DEF DropTables
<1>5. CASE MigrateTables
  BY <1>5 DEF MigrateTables
<1>6. CASE InsertData
  BY <1>6 DEF InsertData
<1>7. ASSUME NEW f \in Upload, ImportUpload(f) PROVE BackupInv'
  BY <1>7 DEF ImportUpload
<1>8. CASE FinishImport
  BY <1>8 DEF FinishImport
<1>9. CASE FailImport
  BY <1>9 DEF FailImport
<1> QED BY <1>1, <1>2, <1>3, <1>4, <1>5, <1>6, <1>7, <1>8, <1>9 DEF ImportStep

LEMMA BackupKeeps ==
  ASSUME BackupInv, [BackupStep]_backupVars
  PROVE  BackupInv'
<1>1. CASE UNCHANGED backupVars
  BY <1>1 DEF backupVars, BackupInv, BackupTypeOK, ExportIsConsistent, ImportIsExclusive, HasData
<1> QED BY <1>1, InstanceKeeps, ExportKeeps, ImportKeeps DEF BackupStep

(* Unless an import was cut short, an instance that is up has all of its   *)
(* data, and the actors know of every use that the database tells of,      *)
(* whatever was used while the export ran and started while the import ran.*)
THEOREM RestoresForgetNoUse == Spec => []RestoredUsesStayUsed
<1>1. Init => BackupInv
  BY DEF Init, BackupInit, BackupInv, BackupTypeOK, ExportIsConsistent, ImportIsExclusive,
         HasData, Data, EmptyArchive
<1>2. BackupInv /\ [Next]_vars => BackupInv'
  BY StepsOfUpkeep, BackupKeeps
<1>3. BackupInv => RestoredUsesStayUsed
  BY DEF BackupInv, BackupTypeOK, ExportIsConsistent, ImportIsExclusive, HasData,
         RestoredUsesStayUsed
<1> QED BY <1>1, <1>2, <1>3, PTL DEF Spec

-----------------------------------------------------------------------------
(* The settings that were chosen (Configuration).                          *)

Settings == [mode : Choice.mode, plain : Choice.plain]

(* What was chosen can be read off the state, or off the table where there *)
(* is no state yet; no replica is up without a state, and none is up with  *)
(* a state that it still had to upgrade.                                   *)
ConfigInv ==
  /\ legacy \in {NoConfig} \cup Stored
  /\ state \in {NoConfig} \cup Stored
  /\ server \in [Server -> {"down", "read", "up"}]
  /\ chosen \in Settings
  /\ chosen = IF state # NoConfig THEN Meant(state)
              ELSE IF legacy # NoConfig THEN Meant(legacy)
              ELSE Default
  /\ \A s \in Server : server[s] = "up" => state # NoConfig /\ Effective(state) = chosen

LEMMA DecodedIs ==
  ASSUME NEW s \in Stored
  PROVE  /\ Decoded(s) \in Stored
         /\ Decoded(s).plain = s.plain
         /\ Decoded(s).mode = IF s.mode = Unset /\ s.switch # Unset
                              THEN LegacyMode(s.switch) ELSE s.mode
         /\ Effective(s) = [mode |-> Decoded(s).mode, plain |-> s.plain]
<1>1. /\ Decoded(s) \in Stored
      /\ Decoded(s).plain = s.plain
      /\ Decoded(s).mode = IF s.mode = Unset /\ s.switch # Unset
                           THEN LegacyMode(s.switch) ELSE s.mode
  BY DEF Stored, Decoded, LegacyMode, Switch, Unset, Choice
<1> QED BY <1>1 DEF Effective, Setting

LEMMA MeantIs ==
  ASSUME NEW s \in Stored
  PROVE  /\ Meant(s) \in Settings
         /\ Meant(s).mode = OrDefault("mode", Decoded(s).mode)
         /\ Meant(s).plain = OrDefault("plain", s.plain)
BY DecodedIs DEF Meant, Stored, Settings, OrDefault, Default, Choice, Unset

(* A state that was encoded says what it was given.                        *)
LEMMA EncodedIs ==
  ASSUME NEW c \in Settings
  PROVE  /\ Encoded(c.mode, c.plain) \in Stored
         /\ Effective(Encoded(c.mode, c.plain)) = c
         /\ Meant(Encoded(c.mode, c.plain)) = c
<1> DEFINE e == Encoded(c.mode, c.plain)
<1>1. e \in Stored /\ e.mode = c.mode /\ e.plain = c.plain /\ e.switch = Unset
  BY DEF Encoded, Stored, Settings, Choice, Switch, Unset
<1>2. c.mode # Unset /\ c.plain # Unset /\ c = [mode |-> c.mode, plain |-> c.plain]
  BY DEF Settings, Choice, Unset
<1> HIDE DEF e
<1>3. Decoded(e).mode = c.mode /\ Decoded(e).plain = c.plain
  BY <1>1, <1>2, DecodedIs
<1>4. Effective(e) = c
  BY <1>1, <1>2, <1>3, DecodedIs
<1>5. Meant(e) = c
  BY <1>1, <1>2, <1>3 DEF Meant, OrDefault
<1> QED BY <1>1, <1>4, <1>5 DEF e

(* Applying the defaults to what was decoded is what was meant.            *)
LEMMA UpgradeIs ==
  ASSUME NEW s \in Stored
  PROVE  ApplyDefaults(Decoded(s)) = Encoded(Meant(s).mode, Meant(s).plain)
BY DecodedIs, MeantIs DEF ApplyDefaults

(* A replica that starts finds or makes a state that means the same, and   *)
(* that the program uses as it was meant.                                  *)
LEMMA BootstrappedIs ==
  ASSUME ConfigInv
  PROVE  /\ Bootstrapped \in Stored
         /\ Meant(Bootstrapped) = chosen
         /\ Effective(Bootstrapped) = chosen
<1>1. CASE state # NoConfig
  <2>1. state \in Stored /\ chosen = Meant(state) /\ chosen \in Settings
    BY <1>1 DEF ConfigInv
  <2>2. ApplyDefaults(Decoded(state)) = Encoded(chosen.mode, chosen.plain)
    BY <2>1, UpgradeIs
  <2>3. /\ Encoded(chosen.mode, chosen.plain) \in Stored
        /\ Effective(Encoded(chosen.mode, chosen.plain)) = chosen
        /\ Meant(Encoded(chosen.mode, chosen.plain)) = chosen
    BY <2>1, EncodedIs
  <2>4. Effective(Decoded(state)) = Effective(state)
    <3>1. Decoded(state) \in Stored
      BY <2>1, DecodedIs
    <3>2. Decoded(Decoded(state)).mode = Decoded(state).mode
      BY <2>1 DEF Decoded, Stored, LegacyMode, Unset, Switch, Choice
    <3> QED BY <2>1, <3>1, <3>2, DecodedIs
  <2>5. CASE Effective(ApplyDefaults(Decoded(state))) = Effective(Decoded(state))
    BY <1>1, <2>1, <2>2, <2>3, <2>4, <2>5 DEF Bootstrapped
  <2>6. CASE Effective(ApplyDefaults(Decoded(state))) # Effective(Decoded(state))
    BY <1>1, <2>2, <2>3, <2>6 DEF Bootstrapped
  <2> QED BY <2>5, <2>6
<1>2. CASE state = NoConfig /\ legacy # NoConfig
  <2>1. legacy \in Stored /\ chosen = Meant(legacy) /\ chosen \in Settings
    BY <1>2 DEF ConfigInv
  <2>2. FromLegacyConfig(legacy) = Encoded(chosen.mode, chosen.plain)
    BY <2>1, MeantIs, DecodedIs
       DEF FromLegacyConfig, OrDefault, LegacyMode, Unset, Default, Stored, Choice, Switch
  <2> QED BY <1>2, <2>1, <2>2, EncodedIs DEF Bootstrapped
<1>3. CASE state = NoConfig /\ legacy = NoConfig
  <2>1. chosen = Default /\ chosen \in Settings
    BY <1>3 DEF ConfigInv
  <2>2. ApplyDefaults(Encoded(Unset, Unset)) = Encoded(chosen.mode, chosen.plain)
    BY <2>1 DEF ApplyDefaults, Encoded, OrDefault, Unset, Default
  <2> QED BY <1>3, <2>1, <2>2, EncodedIs DEF Bootstrapped
<1> QED BY <1>1, <1>2, <1>3

(* What an administrator sets is what a state then says.                   *)
LEMMA StateFollows ==
  ASSUME ConfigInv, chosen' \in Settings, state' = Encoded(chosen'.mode, chosen'.plain),
         UNCHANGED <<legacy, server>>
  PROVE  ConfigInv'
<1>1. /\ state' \in Stored /\ Effective(state') = chosen' /\ Meant(state') = chosen'
  BY EncodedIs
<1>2. Effective(state)' = Effective(state') /\ Meant(state)' = Meant(state')
  BY DEF Effective, Meant, Decoded
<1> QED BY <1>1, <1>2, NoConfigAssumption DEF ConfigInv

LEMMA ConfigKeeps ==
  ASSUME ConfigInv, [ConfigStep]_configVars
  PROVE  ConfigInv'
<1>1. CASE UNCHANGED configVars
  BY <1>1 DEF configVars, ConfigInv, Effective, Meant, Decoded
<1>2. ASSUME NEW s \in Server, LoadLegacyConfig(s) \/ StopServer(s)
      PROVE  ConfigInv'
  <2>1. /\ UNCHANGED <<legacy, state, chosen>>
        /\ server' \in [Server -> {"down", "read", "up"}]
        /\ \A t \in Server : server'[t] = "up" => server[t] = "up"
    BY <1>2 DEF LoadLegacyConfig, StopServer, Goes, ConfigInv
  <2>2. Effective(state)' = Effective(state) /\ Meant(state)' = Meant(state)
        /\ Meant(legacy)' = Meant(legacy)
    BY <2>1 DEF Effective, Meant, Decoded
  <2> QED BY <2>1, <2>2 DEF ConfigInv
<1>3. ASSUME NEW s \in Server, Bootstrap(s) PROVE ConfigInv'
  <2>1. /\ state' \in Stored /\ Meant(state') = chosen /\ Effective(state') = chosen
    BY <1>3, BootstrappedIs DEF Bootstrap
  <2>2. Effective(state)' = Effective(state') /\ Meant(state)' = Meant(state')
    BY DEF Effective, Meant, Decoded
  <2> QED BY <1>3, <2>1, <2>2, NoConfigAssumption DEF Bootstrap, Goes, ConfigInv
<1>4. ASSUME NEW s \in Server,
             NEW mode \in {Unset} \cup Choice.mode, NEW plain \in {Unset} \cup Choice.plain,
             Replace(s, mode, plain)
      PROVE  ConfigInv'
  <2>1. chosen' = [mode |-> Wish("mode", mode), plain |-> Wish("plain", plain)]
    BY <1>4 DEF Replace
  <2>2. chosen' \in Settings
    BY <2>1 DEF Wish, Default, Settings, Choice, Unset
  <2>3. state' = Encoded(chosen'.mode, chosen'.plain)
    BY <1>4, <2>1 DEF Replace, ApplyDefaults, Encoded, OrDefault, Wish
  <2> QED BY <1>4, <2>2, <2>3, StateFollows DEF Replace
<1>5. ASSUME NEW s \in Server, NEW k \in Setting, NEW value \in {Unset} \cup Choice[k],
             Update(s, k, value)
      PROVE  ConfigInv'
  <2>1. Effective(state) = chosen /\ chosen \in Settings
    BY <1>5 DEF Update, Turn, ConfigInv
  <2>2. chosen' = [chosen EXCEPT ![k] = Wish(k, value)]
    BY <1>5 DEF Update
  <2>3. chosen' \in Settings
    BY <2>1, <2>2 DEF Wish, Default, Settings, Choice, Unset, Setting
  <2>4. state' = Encoded(chosen'.mode, chosen'.plain)
    BY <1>5, <2>1, <2>2 DEF Update, OrDefault, Wish
  <2> QED BY <1>5, <2>3, <2>4, StateFollows DEF Update
<1> QED BY <1>1, <1>2, <1>3, <1>4, <1>5 DEF ConfigStep

(* A replica that is up works with what the administrators chose last, in  *)
(* whatever version, however often replicas start and upgrade.             *)
THEOREM SettingsOutliveVersions == Spec => []ChoicesSurvive
<1>1. Init => ConfigInv
  <2> SUFFICES ASSUME Init PROVE ConfigInv
    OBVIOUS
  <2>1. ConfigInit
    BY DEF Init
  <2>2. Default \in Settings
    BY DEF Default, Settings, Choice
  <2> QED BY <2>1, <2>2, MeantIs DEF ConfigInit, ConfigInv
<1>2. ConfigInv /\ [Next]_vars => ConfigInv'
  BY StepsOfUpkeep, ConfigKeeps
<1>3. ConfigInv => ChoicesSurvive
  BY DEF ConfigInv, ChoicesSurvive
<1> QED BY <1>1, <1>2, <1>3, PTL DEF Spec

-----------------------------------------------------------------------------
(* The administration of one client (ClientAdmin).                         *)

Locking(h) == h.at \in {"open", "replacing"}

(* One handler at a time has the row locked, and has read it as it is.     *)
RowIsLocked ==
  \A r \in Request : Locking(requests[r]) =>
    /\ client # NoClient /\ requests[r].copy = client
    /\ \A q \in Request : Locking(requests[q]) => q = r

SecretsAreCounted ==
  client # NoClient =>
    IsFiniteSet(client.secrets) /\ Cardinality(client.secrets) <= MaxOidcClientSecrets

SecretsOf(c) == IF c = NoClient THEN {} ELSE c.secrets
SecretsRemain == SecretsOf(client) = created \ removed

(* What the row names or a handler is about to name is stored, and nobody  *)
(* is about to delete it, unless two handlers met over the file.           *)
FilesAreThere ==
  /\ LogoHasFile
  /\ \A r \in Request :
       /\ requests[r].at \in {"saved", "replacing"} => requests[r].type \in files \cup raced
       /\ requests[r].at = "leaving" /\ client # NoClient /\ client.image = requests[r].type
            => requests[r].type \in raced

AdminInv == AdminTypeOK /\ RowIsLocked /\ SecretsAreCounted /\ SecretsRemain /\ FilesAreThere

LEMMA HandlerIs ==
  ASSUME NEW h \in Handlers
  PROVE  /\ h.at \in {"ready", "open", "saved", "replacing", "leaving"}
         /\ h.at = "ready" <=> h = Ready
         /\ h.at \in {"open", "replacing"} => h.copy \in ClientRow
         /\ h.at \in {"saved", "replacing", "leaving"} => h.type \in Type
         /\ h.at = "leaving" => h = Leaving(h.type)
<1>1. CASE h = Ready
  BY <1>1 DEF Ready
<1>2. ASSUME NEW c \in ClientRow, h = Open(c) PROVE h.at = "open" /\ h.copy = c
  BY <1>2 DEF Open
<1>3. ASSUME NEW t \in Type, h = Saved(t) PROVE h.at = "saved" /\ h.type = t
  BY <1>3 DEF Saved
<1>4. ASSUME NEW c \in ClientRow, NEW t \in Type, h = Replacing(c, t)
      PROVE  h.at = "replacing" /\ h.copy = c /\ h.type = t
  BY <1>4 DEF Replacing
<1>5. ASSUME NEW t \in Type, h = Leaving(t) PROVE h.at = "leaving" /\ h.type = t
  BY <1>5, ClientAdminAssumption DEF Leaving
<1>6. Ready.at = "ready"
  BY DEF Ready
<1> QED BY <1>1, <1>2, <1>3, <1>4, <1>5, <1>6 DEF Handlers

(* The handlers that a step makes.                                         *)
LEMMA HandlersAre ==
  ASSUME NEW c \in ClientRow, NEW t \in Type
  PROVE  /\ Ready \in Handlers /\ Ready.at = "ready"
         /\ Open(c) \in Handlers /\ Open(c).at = "open" /\ Open(c).copy = c
         /\ Saved(t) \in Handlers /\ Saved(t).at = "saved" /\ Saved(t).type = t
         /\ Replacing(c, t) \in Handlers /\ Replacing(c, t).at = "replacing"
         /\ Replacing(c, t).copy = c /\ Replacing(c, t).type = t
         /\ Leaving(t) \in Handlers /\ Leaving(t).at = "leaving" /\ Leaving(t).type = t
         /\ Leaving(NoType) = Ready
BY ClientAdminAssumption DEF Handlers, Ready, Open, Saved, Replacing, Leaving

LEMMA ReadyIs == Ready \in Handlers /\ Ready.at = "ready"
BY DEF Handlers, Ready

(* What a step of one handler makes of the others.                         *)
LEMMA OneHandlerActs ==
  ASSUME AdminTypeOK, NEW r \in Request, NEW h \in Handlers, To(r, h)
  PROVE  /\ requests' \in [Request -> Handlers]
         /\ requests'[r] = h
         /\ \A q \in Request \ {r} : requests'[q] = requests[q]
BY DEF AdminTypeOK, To

LEMMA RowIsNot == NoClient \notin ClientRow
BY ClientAdminAssumption DEF ClientRow

(* A handler locks the row only when nobody has it locked, and a row that  *)
(* changes is unlocked with it.                                            *)
LEMMA LocksFollow ==
  ASSUME AdminInv, NEW r \in Request, NEW h \in Handlers, To(r, h),
         Locking(h) => client' # NoClient /\ h.copy = client' /\ InTransaction = {},
         client' = client \/ (InTransaction \subseteq {r} /\ ~Locking(h))
  PROVE  RowIsLocked'
<1>1. /\ requests'[r] = h
      /\ \A q \in Request \ {r} : requests'[q] = requests[q]
  BY OneHandlerActs DEF AdminInv
<1>2. \A q \in Request : Locking(requests[q]) <=> q \in InTransaction
  BY DEF InTransaction, Locking
<1> QED BY <1>1, <1>2 DEF RowIsLocked, AdminInv, Locking

(* The one handler that has the row locked.                                *)
LEMMA OneHasIt ==
  ASSUME AdminInv, NEW r \in Request, Locking(requests[r])
  PROVE  /\ InTransaction \subseteq {r}
         /\ client \in ClientRow /\ requests[r].copy = client
BY RowIsNot DEF InTransaction, Locking, AdminInv, RowIsLocked, AdminTypeOK

(* Files: a handler that names no new file and deletes none.               *)
LEMMA FilesFollow ==
  ASSUME AdminInv, NEW r \in Request, NEW h \in Handlers, To(r, h), UNCHANGED <<files, raced>>,
         h.at \in {"saved", "replacing"} => h.type \in files \cup raced,
         client' # NoClient => \/ client'.image = NoType
                               \/ client # NoClient /\ client'.image = client.image,
         client' # NoClient /\ h.at = "leaving" =>
           h.type \in raced \/ client'.image # h.type
  PROVE  FilesAreThere'
<1>1. /\ requests'[r] = h
      /\ \A q \in Request \ {r} : requests'[q] = requests[q]
  BY OneHandlerActs DEF AdminInv
<1>2. LogoHasFile'
  BY DEF AdminInv, FilesAreThere, LogoHasFile
<1>3. ASSUME NEW q \in Request
      PROVE  /\ requests'[q].at \in {"saved", "replacing"} => requests'[q].type \in files' \cup raced'
             /\ requests'[q].at = "leaving" /\ client' # NoClient /\ client'.image = requests'[q].type
                  => requests'[q].type \in raced'
  <2>1. CASE q = r
    BY <2>1, <1>1
  <2>2. CASE q # r
    <3>1. requests[q] \in Handlers /\ requests'[q] = requests[q]
      BY <1>1, <2>2 DEF AdminInv, AdminTypeOK
    <3>2. requests[q].at = "leaving" => requests[q].type # NoType
      BY <3>1, HandlerIs, ClientAdminAssumption
    <3> QED BY <3>1, <3>2 DEF AdminInv, FilesAreThere
  <2> QED BY <2>1, <2>2
<1> QED BY <1>2, <1>3 DEF FilesAreThere

(* A step that leaves the secrets alone.                                   *)
LEMMA SecretsStay ==
  ASSUME AdminInv, UNCHANGED <<created, removed>>,
         client' # NoClient => client # NoClient /\ client'.secrets = client.secrets,
         client' = NoClient => client = NoClient
  PROVE  SecretsAreCounted' /\ SecretsRemain'
BY DEF AdminInv, SecretsAreCounted, SecretsRemain, SecretsOf

LEMMA CreateClientKeeps ==
  ASSUME AdminInv, NEW r \in Request, NEW p \in BOOLEAN, NEW first \in SUBSET Secret,
         CreateClient(r, p, first)
  PROVE  AdminInv'
<1> DEFINE c == [public |-> p, secrets |-> first, image |-> NoType]
<1>1. /\ client = NoClient /\ client' = c /\ first \subseteq Secret \ created
      /\ created' = created \cup first /\ UNCHANGED <<requests, files, removed, raced>>
      /\ \A s, t \in first : s = t
  BY DEF CreateClient
<1>2. c \in ClientRow /\ c.secrets = first /\ c.image = NoType /\ c # NoClient
  BY RowIsNot DEF ClientRow
<1> HIDE DEF c
<1>3. AdminTypeOK'
  BY <1>1, <1>2 DEF AdminInv, AdminTypeOK
<1>4. RowIsLocked'
  BY <1>1 DEF AdminInv, RowIsLocked
<1>5. SecretsAreCounted'
  <2>1. first = {} \/ \E s \in Secret : first = {s}
    BY <1>1
  <2>2. IsFiniteSet(first) /\ (Cardinality(first) = 0 \/ Cardinality(first) = 1)
    <3>1. CASE first = {}
      BY <3>1, FS_EmptySet
    <3>2. ASSUME NEW s \in Secret, first = {s}
          PROVE  IsFiniteSet(first) /\ Cardinality(first) = 1
      BY <3>2, FS_Singleton
    <3> QED BY <2>1, <3>1, <3>2
  <2> QED BY <1>1, <1>2, <2>2, ClientAdminAssumption DEF SecretsAreCounted
<1>6. SecretsRemain'
  BY <1>1, <1>2 DEF AdminInv, AdminTypeOK, SecretsRemain, SecretsOf
<1>7. FilesAreThere'
  <2>1. \A q \in Request : requests[q] \in Handlers
    BY DEF AdminInv, AdminTypeOK
  <2>2. \A q \in Request : requests[q].at = "leaving" => requests[q].type # NoType
    BY <2>1, HandlerIs, ClientAdminAssumption
  <2> QED BY <1>1, <1>2, <2>2 DEF AdminInv, FilesAreThere, LogoHasFile
<1> QED BY <1>3, <1>4, <1>5, <1>6, <1>7 DEF AdminInv

(* Sets of at most n members, one of which comes or goes.                  *)
LEMMA OneMoreOrLess ==
  ASSUME NEW S, NEW x, NEW n \in Nat, IsFiniteSet(S), Cardinality(S) <= n
  PROVE  /\ IsFiniteSet(S \cup {x}) /\ IsFiniteSet(S \ {x})
         /\ Cardinality(S) < n => Cardinality(S \cup {x}) <= n
         /\ Cardinality(S \ {x}) <= n
<1>1. Cardinality(S) \in Nat
  BY FS_CardinalityType
<1>2. /\ IsFiniteSet(S \cup {x})
      /\ Cardinality(S \cup {x}) = Cardinality(S)
         \/ Cardinality(S \cup {x}) = Cardinality(S) + 1
  BY FS_AddElement
<1>3. /\ IsFiniteSet(S \ {x})
      /\ Cardinality(S \ {x}) = Cardinality(S) \/ Cardinality(S \ {x}) = Cardinality(S) - 1
  BY FS_RemoveElement
<1> QED BY <1>1, <1>2, <1>3

LEMMA SecretKeeps ==
  ASSUME AdminInv, NEW r \in Request, NEW s \in Secret,
         CreateClientSecret(r, s) \/ DeleteClientSecret(r, s)
  PROVE  AdminInv'
<1>1. /\ Locking(requests[r]) /\ To(r, Ready) /\ UNCHANGED <<files, raced>>
  BY DEF Locking, CreateClientSecret, DeleteClientSecret
<1>2. InTransaction \subseteq {r} /\ client \in ClientRow /\ requests[r].copy = client
  BY <1>1, OneHasIt
<1>3. client # NoClient /\ IsFiniteSet(client.secrets)
      /\ Cardinality(client.secrets) <= MaxOidcClientSecrets
      /\ client.secrets = created \ removed
  BY <1>2, RowIsNot DEF AdminInv, SecretsAreCounted, SecretsRemain, SecretsOf
<1>4. PICK new \in SUBSET Secret : client' = [client EXCEPT !.secrets = new]
    /\ new = created' \ removed' /\ IsFiniteSet(new) /\ Cardinality(new) <= MaxOidcClientSecrets
    /\ created' \subseteq Secret /\ removed' \subseteq created'
  <2>1. CASE CreateClientSecret(r, s)
    <3>1. /\ client' = [client EXCEPT !.secrets = client.secrets \cup {s}]
          /\ s \notin created /\ created' = created \cup {s} /\ removed' = removed
          /\ Cardinality(client.secrets) < MaxOidcClientSecrets
      BY <2>1, <1>2 DEF CreateClientSecret
    <3>2. client.secrets \cup {s} = created' \ removed'
      BY <3>1, <1>3 DEF AdminInv, AdminTypeOK
    <3>3. IsFiniteSet(client.secrets \cup {s})
          /\ Cardinality(client.secrets \cup {s}) <= MaxOidcClientSecrets
      BY <3>1, <1>3, OneMoreOrLess, ClientAdminAssumption
    <3>4. client.secrets \cup {s} \in SUBSET Secret
      BY <1>2 DEF ClientRow
    <3> QED BY <3>1, <3>2, <3>3, <3>4 DEF AdminInv, AdminTypeOK
  <2>2. CASE DeleteClientSecret(r, s)
    <3>1. /\ client' = [client EXCEPT !.secrets = client.secrets \ {s}]
          /\ s \in client.secrets /\ removed' = removed \cup {s} /\ created' = created
      BY <2>2, <1>2 DEF DeleteClientSecret
    <3>2. client.secrets \ {s} = created' \ removed'
      BY <3>1, <1>3
    <3>3. IsFiniteSet(client.secrets \ {s})
          /\ Cardinality(client.secrets \ {s}) <= MaxOidcClientSecrets
      BY <3>1, <1>3, OneMoreOrLess, ClientAdminAssumption
    <3>4. client.secrets \ {s} \in SUBSET Secret
      BY <1>2 DEF ClientRow
    <3> QED BY <3>1, <3>2, <3>3, <3>4, <1>3 DEF AdminInv, AdminTypeOK
  <2> QED BY <2>1, <2>2
<1>5. client' \in ClientRow /\ client'.secrets = new /\ client'.image = client.image
      /\ client' # NoClient
  BY <1>2, <1>4, RowIsNot DEF ClientRow
<1>6. AdminTypeOK'
  BY <1>1, <1>4, <1>5, ReadyIs, OneHandlerActs DEF AdminInv, AdminTypeOK
<1>7. RowIsLocked'
  BY <1>1, <1>2, ReadyIs, LocksFollow DEF Locking
<1>8. SecretsAreCounted' /\ SecretsRemain'
  BY <1>4, <1>5 DEF SecretsAreCounted, SecretsRemain, SecretsOf
<1>9. FilesAreThere'
  BY <1>1, <1>3, <1>5, ReadyIs, FilesFollow
<1> QED BY <1>6, <1>7, <1>8, <1>9 DEF AdminInv

LEMMA LockKeeps ==
  ASSUME AdminInv, NEW r \in Request, Begin(r) \/ LockLogo(r)
  PROVE  AdminInv'
<1>1. /\ client # NoClient /\ client \in ClientRow /\ InTransaction = {}
      /\ UNCHANGED <<client, files, created, removed, raced>>
  BY DEF Begin, LockLogo, MayRead, AdminInv, AdminTypeOK
<1>2. PICK h \in Handlers :
        /\ To(r, h) /\ Locking(h) /\ h.copy = client
        /\ h.at = "open" \/ (h.at = "replacing" /\ h.type \in files \cup raced)
  <2>1. CASE Begin(r)
    <3>1. Open(client) \in Handlers /\ Open(client).at = "open" /\ Open(client).copy = client
      BY <1>1 DEF Handlers, Open
    <3> QED BY <2>1, <3>1 DEF Begin, Locking
  <2>2. CASE LockLogo(r)
    <3>1. requests[r].at = "saved" /\ requests[r].type \in files \cup raced
      BY <2>2 DEF LockLogo, AdminInv, FilesAreThere
    <3>2. requests[r].type \in Type
      BY <3>1, HandlerIs DEF AdminInv, AdminTypeOK
    <3> QED BY <2>2, <1>1, <3>1, <3>2, HandlersAre DEF LockLogo, Locking
  <2> QED BY <2>1, <2>2
<1>3. AdminTypeOK'
  BY <1>1, <1>2, OneHandlerActs DEF AdminInv, AdminTypeOK
<1>4. RowIsLocked'
  BY <1>1, <1>2, LocksFollow
<1>5. SecretsAreCounted' /\ SecretsRemain'
  BY <1>1, SecretsStay
<1>6. FilesAreThere'
  BY <1>1, <1>2, FilesFollow
<1> QED BY <1>3, <1>4, <1>5, <1>6 DEF AdminInv

LEMMA UpdateClientKeeps ==
  ASSUME AdminInv, NEW r \in Request, NEW p \in BOOLEAN, UpdateClient(r, p)
  PROVE  AdminInv'
<1>1. /\ Locking(requests[r]) /\ To(r, Ready) /\ UNCHANGED <<files, created, removed, raced>>
  BY DEF Locking, UpdateClient
<1>2. InTransaction \subseteq {r} /\ client \in ClientRow /\ requests[r].copy = client
  BY <1>1, OneHasIt
<1>3. client' = [client EXCEPT !.public = p]
  BY <1>2 DEF UpdateClient
<1>4. /\ client' \in ClientRow /\ client' # NoClient /\ client # NoClient
      /\ client'.secrets = client.secrets /\ client'.image = client.image
  BY <1>2, <1>3, RowIsNot DEF ClientRow
<1>5. AdminTypeOK'
  BY <1>1, <1>4, ReadyIs, OneHandlerActs DEF AdminInv, AdminTypeOK
<1>6. RowIsLocked'
  BY <1>1, <1>2, ReadyIs, LocksFollow DEF Locking
<1>7. SecretsAreCounted' /\ SecretsRemain'
  BY <1>1, <1>4, SecretsStay
<1>8. FilesAreThere'
  BY <1>1, <1>4, ReadyIs, FilesFollow
<1> QED BY <1>5, <1>6, <1>7, <1>8 DEF AdminInv

LEMMA LeavingIs ==
  ASSUME NEW t \in Type \cup {NoType}
  PROVE  /\ Leaving(t) \in Handlers
         /\ Leaving(t).at \in {"ready", "leaving"}
         /\ Leaving(t).at = "leaving" => t # NoType /\ Leaving(t).type = t
BY ClientAdminAssumption DEF Leaving, Ready, Handlers

LEMMA DeleteLogoKeeps ==
  ASSUME AdminInv, NEW r \in Request, DeleteClientLogo(r)
  PROVE  AdminInv'
<1>1. /\ Locking(requests[r]) /\ UNCHANGED <<files, created, removed, raced>>
  BY DEF Locking, DeleteClientLogo
<1>2. InTransaction \subseteq {r} /\ client \in ClientRow /\ requests[r].copy = client
  BY <1>1, OneHasIt
<1>3. /\ client' = [client EXCEPT !.image = NoType]
      /\ To(r, Leaving(client.image))
  BY <1>2 DEF DeleteClientLogo
<1>4. /\ client' \in ClientRow /\ client' # NoClient /\ client # NoClient
      /\ client'.secrets = client.secrets /\ client'.image = NoType
      /\ client.image \in Type \cup {NoType}
  BY <1>2, <1>3, RowIsNot DEF ClientRow
<1>5. PICK h \in Handlers : /\ To(r, h) /\ h.at \in {"ready", "leaving"}
                            /\ h.at = "leaving" => h.type # NoType
  BY <1>3, <1>4, LeavingIs
<1>6. AdminTypeOK'
  BY <1>1, <1>4, <1>5, OneHandlerActs DEF AdminInv, AdminTypeOK
<1>7. RowIsLocked'
  BY <1>2, <1>5, LocksFollow DEF Locking
<1>8. SecretsAreCounted' /\ SecretsRemain'
  BY <1>1, <1>4, SecretsStay
<1>9. FilesAreThere'
  BY <1>1, <1>4, <1>5, FilesFollow
<1> QED BY <1>6, <1>7, <1>8, <1>9 DEF AdminInv

LEMMA DeleteClientKeeps ==
  ASSUME AdminInv, NEW r \in Request, DeleteClient(r)
  PROVE  AdminInv'
<1>1. /\ client \in ClientRow /\ client # NoClient /\ client' = NoClient /\ InTransaction = {}
      /\ removed' = removed \cup client.secrets /\ UNCHANGED <<files, created, raced>>
      /\ To(r, Leaving(client.image))
  BY DEF DeleteClient, AdminInv, AdminTypeOK
<1>2. client.image \in Type \cup {NoType} /\ client.secrets = created \ removed
  BY <1>1 DEF ClientRow, AdminInv, SecretsRemain, SecretsOf
<1>3. PICK h \in Handlers : To(r, h) /\ h.at \in {"ready", "leaving"}
  BY <1>1, <1>2, LeavingIs
<1>4. AdminTypeOK'
  BY <1>1, <1>2, <1>3, OneHandlerActs DEF AdminInv, AdminTypeOK
<1>5. RowIsLocked'
  BY <1>1, <1>3, LocksFollow DEF Locking
<1>6. SecretsAreCounted' /\ SecretsRemain'
  BY <1>1, <1>2 DEF SecretsAreCounted, SecretsRemain, SecretsOf
<1>7. FilesAreThere'
  BY <1>1, <1>3, FilesFollow
<1> QED BY <1>4, <1>5, <1>6, <1>7 DEF AdminInv

LEMMA FailKeeps ==
  ASSUME AdminInv, NEW r \in Request, Fail(r)
  PROVE  AdminInv'
<1>1. To(r, Ready) /\ UNCHANGED <<client, files, created, removed, raced>>
  BY DEF Fail
<1>2. AdminTypeOK'
  BY <1>1, ReadyIs, OneHandlerActs DEF AdminInv, AdminTypeOK
<1>3. RowIsLocked'
  BY <1>1, ReadyIs, LocksFollow DEF Locking
<1>4. SecretsAreCounted' /\ SecretsRemain'
  BY <1>1, SecretsStay
<1>5. FilesAreThere'
  BY <1>1, ReadyIs, FilesFollow
<1> QED BY <1>2, <1>3, <1>4, <1>5 DEF AdminInv

LEMMA SaveLogoKeeps ==
  ASSUME AdminInv, NEW r \in Request, NEW t \in Type, SaveLogo(r, t)
  PROVE  AdminInv'
<1>1. /\ To(r, Saved(t)) /\ files' = files \cup {t}
      /\ UNCHANGED <<client, created, removed, raced>>
  BY DEF SaveLogo
<1>2. PICK h \in Handlers : To(r, h) /\ h.at = "saved" /\ h.type = t
  BY <1>1 DEF Handlers, Saved
<1>3. AdminTypeOK'
  BY <1>1, <1>2, OneHandlerActs DEF AdminInv, AdminTypeOK
<1>4. RowIsLocked'
  BY <1>1, <1>2, LocksFollow DEF Locking
<1>5. SecretsAreCounted' /\ SecretsRemain'
  BY <1>1, SecretsStay
<1>6. FilesAreThere'
  <2>1. /\ requests'[r] = h
        /\ \A q \in Request \ {r} : requests'[q] = requests[q]
    BY <1>2, OneHandlerActs DEF AdminInv
  <2> QED BY <1>1, <1>2, <2>1 DEF AdminInv, FilesAreThere, LogoHasFile
<1> QED BY <1>3, <1>4, <1>5, <1>6 DEF AdminInv

(* The file of the logo that was replaced is about to be deleted: it is    *)
(* not the one of the logo that the row names now.                         *)
LEMMA LogoTypeKeeps ==
  ASSUME AdminInv, NEW r \in Request, UpdateClientLogoType(r)
  PROVE  AdminInv'
<1> DEFINE t == requests[r].type
<1>1. /\ Locking(requests[r]) /\ UNCHANGED <<files, created, removed>>
      /\ requests[r].at = "replacing"
      /\ raced' = IF Late(t) THEN raced \cup {t} ELSE raced
  BY DEF Locking, UpdateClientLogoType
<1>2. InTransaction \subseteq {r} /\ client \in ClientRow /\ requests[r].copy = client
  BY <1>1, OneHasIt
<1>3. t \in Type /\ t \in files \cup raced
  BY <1>1, HandlerIs DEF AdminInv, AdminTypeOK, FilesAreThere
<1>4. /\ client' = [client EXCEPT !.image = t]
      /\ To(r, Leaving(ReplacedFile(client, t)))
  BY <1>2 DEF UpdateClientLogoType
<1>5. /\ client' \in ClientRow /\ client' # NoClient /\ client # NoClient
      /\ client'.secrets = client.secrets /\ client'.image = t
      /\ client.image \in Type \cup {NoType}
  BY <1>2, <1>3, <1>4, RowIsNot DEF ClientRow
<1>6. ReplacedFile(client, t) \in Type \cup {NoType} /\ ReplacedFile(client, t) # t
  BY <1>3, <1>5, ClientAdminAssumption DEF ReplacedFile
<1>7. PICK h \in Handlers : /\ To(r, h) /\ h.at \in {"ready", "leaving"}
                            /\ h.at = "leaving" => h.type # t
  BY <1>4, <1>6, LeavingIs
<1>8. /\ requests'[r] = h
      /\ \A q \in Request \ {r} : requests'[q] = requests[q]
  BY <1>7, OneHandlerActs DEF AdminInv
<1>9. AdminTypeOK'
  BY <1>1, <1>3, <1>5, <1>7, OneHandlerActs DEF AdminInv, AdminTypeOK
<1>10. RowIsLocked'
  BY <1>2, <1>7, LocksFollow DEF Locking
<1>11. SecretsAreCounted' /\ SecretsRemain'
  BY <1>1, <1>5, SecretsStay
<1>12. raced \subseteq raced'
  BY <1>1
<1>13. ASSUME NEW q \in Request, requests'[q].at = "leaving", requests'[q].type = t
       PROVE  t \in raced'
  <2>1. q # r /\ requests[q].at = "leaving" /\ requests[q].type = t
    BY <1>7, <1>8, <1>13
  <2>2. requests[q] = Leaving(t)
    BY <2>1, HandlerIs DEF AdminInv, AdminTypeOK
  <2> QED BY <1>1, <2>2 DEF Late
<1> HIDE DEF t
<1>14. FilesAreThere'
  <2>1. LogoHasFile'
    BY <1>1, <1>3, <1>5, <1>12 DEF LogoHasFile
  <2>2. ASSUME NEW q \in Request, requests'[q].at \in {"saved", "replacing"}
        PROVE  requests'[q].type \in files' \cup raced'
    BY <1>1, <1>7, <1>8, <1>12, <2>2 DEF AdminInv, FilesAreThere
  <2> QED BY <1>5, <1>13, <2>1, <2>2 DEF FilesAreThere
<1> QED BY <1>9, <1>10, <1>11, <1>14 DEF AdminInv

(* A file that is deleted late is one that somebody stores again, or the   *)
(* two met when the row came to name it.                                   *)
LEMMA DeleteFileKeeps ==
  ASSUME AdminInv, NEW r \in Request, DeleteFile(r)
  PROVE  AdminInv'
<1> DEFINE t == requests[r].type
<1>1. /\ requests[r].at = "leaving" /\ files' = files \ {t} /\ To(r, Ready)
      /\ raced' = IF Storing(t) THEN raced \cup {t} ELSE raced
      /\ UNCHANGED <<client, created, removed>>
  BY DEF DeleteFile
<1>2. t \in Type
  BY <1>1, HandlerIs DEF AdminInv, AdminTypeOK
<1>3. /\ requests'[r] = Ready
      /\ \A q \in Request \ {r} : requests'[q] = requests[q]
  BY <1>1, ReadyIs, OneHandlerActs DEF AdminInv
<1>4. AdminTypeOK'
  BY <1>1, <1>2, ReadyIs, OneHandlerActs DEF AdminInv, AdminTypeOK
<1>5. RowIsLocked'
  BY <1>1, ReadyIs, LocksFollow DEF Locking
<1>6. SecretsAreCounted' /\ SecretsRemain'
  BY <1>1, SecretsStay
<1>7. LogoHasFile'
  BY <1>1 DEF AdminInv, FilesAreThere, LogoHasFile
<1>8. ASSUME NEW q \in Request
      PROVE  /\ requests'[q].at \in {"saved", "replacing"} => requests'[q].type \in files' \cup raced'
             /\ requests'[q].at = "leaving" /\ client' # NoClient /\ client'.image = requests'[q].type
                  => requests'[q].type \in raced'
  <2>1. CASE q = r
    BY <1>3, <2>1, ReadyIs
  <2>2. CASE q # r
    <3>1. requests'[q] = requests[q]
      BY <1>3, <2>2
    <3>2. ASSUME requests[q].at \in {"saved", "replacing"}, requests[q].type = t
          PROVE  t \in raced'
      BY <1>1, <3>2 DEF Storing
    <3> QED BY <1>1, <3>1, <3>2 DEF AdminInv, FilesAreThere
  <2> QED BY <2>1, <2>2
<1>9. FilesAreThere'
  BY <1>7, <1>8 DEF FilesAreThere
<1> QED BY <1>4, <1>5, <1>6, <1>9 DEF AdminInv

LEMMA AdminKeeps ==
  ASSUME AdminInv, [AdminStep]_adminVars
  PROVE  AdminInv'
<1>1. CASE UNCHANGED adminVars
  BY <1>1 DEF adminVars, AdminInv, AdminTypeOK, RowIsLocked, SecretsAreCounted, SecretsRemain,
              FilesAreThere, LogoHasFile
<1> QED BY <1>1, CreateClientKeeps, SecretKeeps, LockKeeps, UpdateClientKeeps, DeleteLogoKeeps,
           DeleteClientKeeps, FailKeeps, SaveLogoKeeps, LogoTypeKeeps, DeleteFileKeeps
        DEF AdminStep

(* Concurrent handlers of one client do not undo each other's changes: its *)
(* secrets are those created and not taken away and never too many, and    *)
(* the logo that it names is stored unless two handlers met over its file. *)
THEOREM ClientsAreChangedInTurn == Spec => []ChangesAddUp
<1>1. Init => AdminInv
  BY ReadyIs DEF Init, AdminInit, AdminInv, AdminTypeOK, RowIsLocked, SecretsAreCounted,
         SecretsRemain, SecretsOf, FilesAreThere, LogoHasFile, Locking
<1>2. AdminInv /\ [Next]_vars => AdminInv'
  BY StepsOfUpkeep, AdminKeeps
<1>3. AdminInv => ChangesAddUp
  <2> SUFFICES ASSUME AdminInv PROVE ChangesAddUp
    OBVIOUS
  <2>1. CASE client = NoClient
    BY <2>1, FS_EmptySet, ClientAdminAssumption
       DEF AdminInv, SecretsRemain, SecretsOf, FilesAreThere, ChangesAddUp, SecretsAddUp
  <2>2. CASE client # NoClient
    BY <2>2 DEF AdminInv, SecretsRemain, SecretsOf, SecretsAreCounted, FilesAreThere,
                ChangesAddUp, SecretsAddUp
  <2> QED BY <2>1, <2>2
<1> QED BY <1>1, <1>2, <1>3, PTL DEF Spec

-----------------------------------------------------------------------------
(* The database that is watched (LocationDatabase).                        *)

InLoad == [at : {"open", "install"}, seen : Nat, db : Nat, alone : BOOLEAN]
Busy(l) == loader[l].at \in {"open", "install"}

LocationTypeOK ==
  /\ placed \in Nat /\ file \in {NoFile, placed}
  /\ watch \in {"none", "watching", "failed"}
  /\ changed \in BOOLEAN /\ overtaken \in BOOLEAN
  /\ loader \in [Loader -> {Resting, Due} \cup InLoad]
  /\ mapped \in [db : Nat, file : Nat]

(* A file that is mapped was in place when its stat was taken or later, so *)
(* a mapping that has the stat of the file in place has its contents.      *)
MappedIsLater ==
  /\ mapped # Unmapped => /\ mapped.file # NoFile
                          /\ mapped.file <= mapped.db /\ mapped.db <= placed
  /\ \A l \in Loader :
       /\ Busy(l) => loader[l].seen <= placed
       /\ loader[l].at = "install" => /\ loader[l].seen # NoFile
                                      /\ loader[l].seen <= loader[l].db
                                      /\ loader[l].db <= placed

(* What a load is about to map is not what is in place.                    *)
OutOfDate(l) ==
  \/ loader[l].at = "open" /\ loader[l].seen = NoFile /\ file # NoFile
  \/ loader[l].at = "install" /\ loader[l].db # file

(* A load that is out of date and was not overtaken began before the file  *)
(* was put in place, and nothing was mapped since.                         *)
LateLoadsAreTold ==
  \A l \in Loader : OutOfDate(l) /\ loader[l].alone /\ mapped # Unmapped =>
    mapped.file # file

(* Once the watch is set up, the watcher has the file in view unless a     *)
(* change is noticed, and when it rests no load can undo what it did.      *)
WatcherKeepsUp ==
  watch = "watching" /\ ~changed =>
    /\ loader["watcher"].at = "open" => loader["watcher"].seen = file
    /\ loader["watcher"].at = "install" => loader["watcher"].db = file
    /\ loader["watcher"] = Resting /\ file \notin broken =>
         /\ overtaken \/ mapped.db = file
         /\ ~(OutOfDate("refresher") /\ loader["refresher"].alone)

LocationInv == LocationTypeOK /\ MappedIsLater /\ LateLoadsAreTold /\ WatcherKeepsUp

LEMMA LoaderIs ==
  ASSUME LocationTypeOK, NEW l \in Loader
  PROVE  /\ loader[l] \in {Resting, Due} \cup InLoad
         /\ Busy(l) <=> loader[l] \in InLoad
         /\ Resting.at = "rest" /\ Due.at = "due" /\ Due # Resting
         /\ Resting \notin InLoad /\ Due \notin InLoad
<1>1. Resting.at = "rest" /\ Due.at = "due"
  BY DEF Resting, Due
<1>2. \A h \in InLoad : h.at \in {"open", "install"}
  BY DEF InLoad
<1>3. loader[l] \in {Resting, Due} \cup InLoad
  BY DEF LocationTypeOK
<1>4. Due # Resting /\ Resting \notin InLoad /\ Due \notin InLoad
  BY <1>1, <1>2
<1> QED BY <1>1, <1>2, <1>3, <1>4 DEF Busy

LEMMA BusyIs ==
  ASSUME LocationTypeOK, NEW l \in Loader, Busy(l)
  PROVE  /\ loader[l] \in InLoad
         /\ loader[l].seen \in Nat /\ loader[l].db \in Nat /\ loader[l].alone \in BOOLEAN
         /\ loader[l] # Resting /\ loader[l] # Due
BY LoaderIs DEF InLoad

LEMMA StatKeeps ==
  ASSUME LocationInv, NEW l \in Loader, Stat(l)
  PROVE  LocationInv'
<1> DEFINE started == Loading("open", file, NoFile, TRUE)
<1>1. /\ loader[l] = Due
      /\ loader' = [loader EXCEPT ![l] = IF Unchanged(file) THEN Resting ELSE started]
      /\ UNCHANGED <<file, broken, placed, mapped, watch, changed, overtaken>>
  BY DEF Stat
<1>2. LocationTypeOK /\ file \in Nat /\ file <= placed
  BY DEF LocationInv, LocationTypeOK, NoFile
<1>3. /\ started \in InLoad /\ started.at = "open" /\ started.seen = file
      /\ started.alone = TRUE
  BY <1>2 DEF InLoad, Loading, NoFile
<1>4. Resting.at = "rest"
  BY DEF Resting
<1> HIDE DEF started
<1>5. /\ loader'[l] = IF Unchanged(file) THEN Resting ELSE started
      /\ \A k \in Loader \ {l} : loader'[k] = loader[k]
  BY <1>1, <1>2 DEF LocationTypeOK
<1>6. LocationTypeOK'
  BY <1>1, <1>2, <1>3 DEF LocationTypeOK
<1>7. MappedIsLater'
  BY <1>1, <1>2, <1>3, <1>4, <1>5 DEF LocationInv, MappedIsLater, Busy
<1>8. LateLoadsAreTold'
  BY <1>1, <1>3, <1>4, <1>5 DEF LocationInv, LateLoadsAreTold, OutOfDate
<1>9. Unchanged(file) => mapped.db = file /\ mapped.file = file /\ mapped # Unmapped
  BY <1>2 DEF Unchanged, LocationInv, MappedIsLater, LocationTypeOK, NoFile
<1>10. WatcherKeepsUp'
  <2>1. CASE l = "watcher"
    <3>1. loader'["refresher"] = loader["refresher"] /\ started # Resting
      BY <1>3, <1>4, <1>5, <2>1 DEF Loader
    <3> QED BY <1>1, <1>3, <1>4, <1>5, <1>9, <2>1, <3>1
            DEF LocationInv, LateLoadsAreTold, WatcherKeepsUp, OutOfDate, Loader
  <2>2. CASE l = "refresher"
    <3>1. loader'["watcher"] = loader["watcher"]
      BY <1>5, <2>2 DEF Loader
    <3> QED BY <1>1, <1>3, <1>4, <1>5, <2>2, <3>1
            DEF LocationInv, WatcherKeepsUp, OutOfDate, Loader
  <2> QED BY <2>1, <2>2 DEF Loader
<1> QED BY <1>6, <1>7, <1>8, <1>10 DEF LocationInv

(* What is mapped is exchanged: nobody else is alone any more.             *)
LEMMA ExchangeIs ==
  ASSUME LocationInv, NEW l \in Loader, Busy(l), NEW m \in [db : Nat, file : Nat],
         Exchange(l, m), UNCHANGED <<file, broken, placed, watch, changed>>
  PROVE  /\ mapped' = m /\ overtaken' = ~loader[l].alone
         /\ loader'[l] = Resting
         /\ \A k \in Loader \ {l} :
              IF Busy(k) THEN /\ loader'[k] \in InLoad /\ ~loader'[k].alone
                              /\ loader'[k].at = loader[k].at
                              /\ loader'[k].seen = loader[k].seen
                              /\ loader'[k].db = loader[k].db
              ELSE loader'[k] = loader[k]
         /\ LocationTypeOK'
         /\ LateLoadsAreTold'
<1>1. /\ mapped' = m /\ overtaken' = ~loader[l].alone
      /\ loader' = [k \in Loader |->
                     IF k = l THEN Resting
                     ELSE IF loader[k].at \in {"open", "install"}
                     THEN [loader[k] EXCEPT !.alone = FALSE] ELSE loader[k]]
  BY DEF Exchange
<1>2. loader'[l] = Resting
  BY <1>1
<1>3. ASSUME NEW k \in Loader, k # l
      PROVE  IF Busy(k) THEN /\ loader'[k] \in InLoad /\ ~loader'[k].alone
                             /\ loader'[k].at = loader[k].at
                             /\ loader'[k].seen = loader[k].seen
                             /\ loader'[k].db = loader[k].db
             ELSE loader'[k] = loader[k]
  <2>1. CASE Busy(k)
    <3>1. loader'[k] = [loader[k] EXCEPT !.alone = FALSE]
      BY <1>1, <1>3, <2>1 DEF Busy
    <3>2. loader[k] \in InLoad
      BY <2>1, BusyIs DEF LocationInv
    <3> QED BY <2>1, <3>1, <3>2 DEF InLoad
  <2>2. CASE ~Busy(k)
    BY <1>1, <1>3, <2>2 DEF Busy
  <2> QED BY <2>1, <2>2
<1>4. LocationTypeOK'
  <2>1. (~loader[l].alone) \in BOOLEAN
    BY Zenon
  <2>2. \A k \in Loader : loader'[k] \in {Resting, Due} \cup InLoad
    BY <1>2, <1>3, LoaderIs DEF LocationInv
  <2>3. loader' \in [Loader -> {Resting, Due} \cup InLoad]
    BY <1>1, <2>2
  <2> QED BY <1>1, <2>1, <2>3 DEF LocationInv, LocationTypeOK
<1>5. LateLoadsAreTold'
  <2>1. Resting.at = "rest"
    BY DEF Resting
  <2>2. \A k \in Loader : k # l /\ OutOfDate(k)' => Busy(k)
    BY <1>3 DEF OutOfDate, Busy
  <2> QED BY <1>2, <1>3, <2>1, <2>2 DEF LateLoadsAreTold, OutOfDate
<1> QED BY <1>1, <1>2, <1>3, <1>4, <1>5

(* What the exchange of a load leaves: the file in place, if it was in     *)
(* view or if the load was neither out of date nor overtaken.              *)
LEMMA ExchangeServes ==
  ASSUME LocationInv, NEW l \in Loader, Busy(l), NEW m \in [db : Nat, file : Nat],
         Exchange(l, m), UNCHANGED <<file, broken, placed, watch, changed>>,
         m.db = file <=> ~OutOfDate(l),
         l = "watcher" /\ watch = "watching" /\ ~changed => ~OutOfDate(l)
  PROVE  WatcherKeepsUp'
<1>1. /\ mapped' = m /\ overtaken' = ~loader[l].alone /\ loader'[l] = Resting
      /\ LocationTypeOK
  BY ExchangeIs DEF LocationInv
<1>2. Resting.at = "rest"
  BY DEF Resting
<1>3. CASE l = "watcher"
  <2>1. OutOfDate("refresher")' => ~loader'["refresher"].alone
    <3>1. "refresher" \in Loader \ {l}
      BY <1>3 DEF Loader
    <3>2. IF Busy("refresher") THEN ~loader'["refresher"].alone
          ELSE loader'["refresher"] = loader["refresher"]
      BY <3>1, ExchangeIs
    <3> QED BY <3>2 DEF OutOfDate, Busy
  <2> QED BY <1>1, <1>2, <1>3, <2>1 DEF WatcherKeepsUp
<1>4. CASE l = "refresher"
  <2>1. "watcher" \in Loader \ {l}
    BY <1>4 DEF Loader
  <2>2. IF Busy("watcher") THEN /\ loader'["watcher"] \in InLoad
                                /\ loader'["watcher"].at = loader["watcher"].at
                                /\ loader'["watcher"].seen = loader["watcher"].seen
                                /\ loader'["watcher"].db = loader["watcher"].db
        ELSE loader'["watcher"] = loader["watcher"]
    BY <2>1, ExchangeIs
  <2>3. loader'["watcher"] = Resting => loader["watcher"] = Resting
    BY <2>1, <2>2, LoaderIs DEF LocationInv
  <2>4. ~OutOfDate("refresher")'
    BY <1>1, <1>2, <1>4 DEF OutOfDate
  <2>5. /\ loader'["watcher"].at = loader["watcher"].at
        /\ loader["watcher"].at = "open" => loader'["watcher"].seen = loader["watcher"].seen
        /\ loader["watcher"].at = "install" => loader'["watcher"].db = loader["watcher"].db
    BY <2>2 DEF Busy
  <2> QED BY <1>1, <1>4, <2>3, <2>4, <2>5 DEF LocationInv, WatcherKeepsUp
<1> QED BY <1>3, <1>4 DEF Loader

LEMMA ExchangesKeep ==
  ASSUME LocationInv, NEW l \in Loader, Unload(l) \/ Install(l)
  PROVE  LocationInv'
<1>1. PICK m \in [db : Nat, file : Nat] :
        /\ Busy(l) /\ Exchange(l, m) /\ UNCHANGED <<file, broken, placed, watch, changed>>
        /\ m.db = file <=> ~OutOfDate(l)
        /\ m = Unmapped \/ (m.file # NoFile /\ m.file <= m.db /\ m.db <= placed)
        /\ l = "watcher" /\ watch = "watching" /\ ~changed => ~OutOfDate(l)
  <2>1. CASE Unload(l)
    <3>1. Unmapped \in [db : Nat, file : Nat] /\ Unmapped.db = NoFile
      BY DEF Unmapped, NoFile
    <3> QED BY <2>1, <3>1 DEF Unload, Busy, OutOfDate, LocationInv, WatcherKeepsUp
  <2>2. CASE Install(l)
    <3> DEFINE n == [db |-> loader[l].db, file |-> loader[l].seen]
    <3>1. Busy(l) /\ loader[l].at = "install"
      BY <2>2 DEF Install, Busy
    <3>2. n \in [db : Nat, file : Nat] /\ n.db = loader[l].db /\ n.file = loader[l].seen
      BY <3>1, BusyIs DEF LocationInv
    <3>3. n.file # NoFile /\ n.file <= n.db /\ n.db <= placed
      BY <3>1, <3>2 DEF LocationInv, MappedIsLater
    <3>4. Exchange(l, n) /\ UNCHANGED <<file, broken, placed, watch, changed>>
      BY <2>2 DEF Install
    <3> HIDE DEF n
    <3> QED BY <3>1, <3>2, <3>3, <3>4 DEF OutOfDate, LocationInv, WatcherKeepsUp
  <2> QED BY <2>1, <2>2
<1>2. LocationTypeOK' /\ LateLoadsAreTold' /\ mapped' = m /\ loader'[l] = Resting
  BY <1>1, ExchangeIs
<1>3. MappedIsLater'
  <2>1. ASSUME NEW k \in Loader
        PROVE  /\ Busy(k)' => loader'[k].seen <= placed
               /\ loader'[k].at = "install" => /\ loader'[k].seen # NoFile
                                               /\ loader'[k].seen <= loader'[k].db
                                               /\ loader'[k].db <= placed
    <3>1. CASE k = l
      BY <1>2, <3>1 DEF Busy, Resting
    <3>2. CASE k # l
      <4>1. IF Busy(k) THEN /\ loader'[k].at = loader[k].at
                            /\ loader'[k].seen = loader[k].seen
                            /\ loader'[k].db = loader[k].db
            ELSE loader'[k] = loader[k]
        BY <1>1, <3>2, ExchangeIs
      <4> QED BY <4>1 DEF Busy, LocationInv, MappedIsLater
    <3> QED BY <3>1, <3>2
  <2> QED BY <1>1, <1>2, <2>1 DEF MappedIsLater
<1>4. WatcherKeepsUp'
  BY <1>1, ExchangeServes
<1> QED BY <1>2, <1>3, <1>4 DEF LocationInv

LEMMA OpenFileKeeps ==
  ASSUME LocationInv, NEW l \in Loader, OpenFile(l)
  PROVE  LocationInv'
<1> DEFINE opened == [loader[l] EXCEPT !.at = "install", !.db = file]
<1>1. /\ loader[l].at = "open" /\ loader[l].seen # NoFile /\ Busy(l)
      /\ loader' = [loader EXCEPT ![l] =
                     IF file = NoFile \/ file \in broken THEN Resting ELSE opened]
      /\ UNCHANGED <<file, broken, placed, mapped, watch, changed, overtaken>>
  BY DEF OpenFile, Busy
<1>2. LocationTypeOK /\ file \in Nat /\ loader[l] \in InLoad
  BY <1>1, BusyIs DEF LocationInv, LocationTypeOK, NoFile
<1>3. /\ opened \in InLoad /\ opened.at = "install" /\ opened.seen = loader[l].seen
      /\ opened.db = file /\ opened.alone = loader[l].alone
  BY <1>2 DEF InLoad
<1>4. Resting.at = "rest"
  BY DEF Resting
<1> HIDE DEF opened
<1>5. /\ loader'[l] = IF file = NoFile \/ file \in broken THEN Resting ELSE opened
      /\ \A k \in Loader \ {l} : loader'[k] = loader[k]
  BY <1>1, <1>2 DEF LocationTypeOK
<1>6. LocationTypeOK'
  BY <1>1, <1>2, <1>3 DEF LocationTypeOK
<1>7. MappedIsLater'
  <2>1. file # NoFile => file = placed
    BY <1>2 DEF LocationTypeOK
  <2>2. loader[l].seen <= placed
    BY <1>1 DEF LocationInv, MappedIsLater
  <2> QED BY <1>1, <1>2, <1>3, <1>4, <1>5, <2>1, <2>2
          DEF LocationInv, LocationTypeOK, MappedIsLater, Busy
<1>8. LateLoadsAreTold'
  BY <1>1, <1>3, <1>4, <1>5 DEF LocationInv, LateLoadsAreTold, OutOfDate
<1>9. WatcherKeepsUp'
  <2>1. CASE l = "watcher"
    <3>1. opened # Resting
      BY <1>3, <1>4
    <3> QED BY <1>1, <1>3, <1>4, <1>5, <2>1, <3>1
            DEF LocationInv, WatcherKeepsUp, OutOfDate, Loader
  <2>2. CASE l = "refresher"
    <3>1. loader'["watcher"] = loader["watcher"]
      BY <1>5, <2>2 DEF Loader
    <3> QED BY <1>1, <1>3, <1>4, <1>5, <2>2, <3>1
            DEF LocationInv, WatcherKeepsUp, OutOfDate, Loader
  <2> QED BY <2>1, <2>2 DEF Loader
<1> QED BY <1>6, <1>7, <1>8, <1>9 DEF LocationInv

(* A change of the file is noticed once the watch is set up.               *)
LEMMA FileChanges ==
  ASSUME LocationInv, UNCHANGED <<mapped, watch, overtaken>>, changed' = Noticed,
         \/ file' = placed + 1 /\ placed' = placed + 1
         \/ file' = NoFile /\ placed' = placed,
         loader' \in [Loader -> {Resting, Due} \cup InLoad],
         \A l \in Loader : loader'[l] = loader[l] \/ loader'[l] = Due
  PROVE  LocationInv'
<1>1. LocationTypeOK /\ Due.at = "due"
  BY DEF LocationInv, Due
<1>2. LocationTypeOK'
  <2>1. Noticed \in BOOLEAN
    BY <1>1 DEF Noticed, LocationTypeOK
  <2>2. changed' \in BOOLEAN
    BY <2>1, Zenon
  <2>3. placed' \in Nat /\ file' \in {NoFile, placed'}
    BY <1>1 DEF LocationTypeOK
  <2> QED BY <1>1, <2>2, <2>3 DEF LocationTypeOK
<1>3. placed <= placed' /\ placed \in Nat /\ placed' \in Nat
  BY <1>1 DEF LocationTypeOK
<1>4. MappedIsLater'
  <2>1. mapped.db \in Nat
    BY <1>1 DEF LocationTypeOK
  <2>2. ASSUME NEW l \in Loader
        PROVE  /\ Busy(l)' => loader'[l].seen <= placed'
               /\ loader'[l].at = "install" => /\ loader'[l].seen # NoFile
                                               /\ loader'[l].seen <= loader'[l].db
                                               /\ loader'[l].db <= placed'
    <3>1. CASE loader'[l] = Due
      BY <1>1, <3>1 DEF Busy
    <3>2. CASE loader'[l] = loader[l] /\ Busy(l)
      <4>1. loader[l].seen \in Nat /\ loader[l].db \in Nat
        BY <1>1, <3>2, BusyIs
      <4> QED BY <1>3, <3>2, <4>1 DEF LocationInv, MappedIsLater
    <3>3. CASE loader'[l] = loader[l] /\ ~Busy(l)
      BY <3>3 DEF Busy
    <3> QED BY <3>1, <3>2, <3>3
  <2> QED BY <1>3, <2>1, <2>2 DEF LocationInv, MappedIsLater
<1>5. LateLoadsAreTold'
  <2>1. mapped # Unmapped => mapped.file # file'
    BY <1>1, <1>3 DEF LocationInv, MappedIsLater, LocationTypeOK, NoFile
  <2> QED BY <2>1 DEF LateLoadsAreTold
<1>6. WatcherKeepsUp'
  BY DEF WatcherKeepsUp, Noticed
<1> QED BY <1>2, <1>4, <1>5, <1>6 DEF LocationInv

LEMMA WatchKeeps ==
  ASSUME LocationInv, SetUpWatch \/ Reload
  PROVE  LocationInv'
<1>1. /\ loader["watcher"] = Resting
      /\ loader' = [loader EXCEPT !["watcher"] = Due] \/ (watch' # "watching" /\ UNCHANGED loader)
      /\ watch' \in {"watching", "failed"} \/ watch' = watch
      /\ changed' = FALSE \/ changed' = changed
      /\ UNCHANGED <<file, broken, placed, mapped, overtaken>>
  BY DEF SetUpWatch, Reload, AfterWatch
<1>2. LocationTypeOK /\ Due.at = "due" /\ Resting.at = "rest" /\ "watcher" \in Loader
  BY DEF LocationInv, Due, Resting, Loader
<1>3. LocationTypeOK'
  <2>1. loader' \in [Loader -> {Resting, Due} \cup InLoad]
    BY <1>1, <1>2 DEF LocationTypeOK
  <2> QED BY <1>1, <1>2, <2>1 DEF LocationTypeOK
<1>4. \A l \in Loader : loader'[l] = loader[l] \/ loader'[l] = Due
  BY <1>1, <1>2 DEF LocationTypeOK
<1>5. MappedIsLater'
  BY <1>1, <1>2, <1>4 DEF LocationInv, MappedIsLater, Busy
<1>6. LateLoadsAreTold'
  BY <1>1, <1>2, <1>4 DEF LocationInv, LateLoadsAreTold, OutOfDate
<1>7. WatcherKeepsUp'
  <2>1. watch' = "watching" => loader'["watcher"] = Due
    BY <1>1, <1>2 DEF LocationTypeOK
  <2> QED BY <1>2, <2>1 DEF WatcherKeepsUp
<1> QED BY <1>3, <1>5, <1>6, <1>7 DEF LocationInv

(* A process that starts has nothing mapped and its watch is not set up.   *)
LEMMA RestartKeeps ==
  ASSUME LocationInv, RestartProcess
  PROVE  LocationInv'
<1>1. /\ mapped' = Unmapped /\ watch' = "none" /\ changed' = FALSE /\ overtaken' = FALSE
      /\ UNCHANGED <<file, placed>>
      /\ loader' \in [Loader -> {Resting, Due}]
  BY DEF RestartProcess
<1>2. Due.at = "due" /\ Resting.at = "rest"
  BY DEF Due, Resting
<1>3. \A l \in Loader : loader'[l].at \notin {"open", "install"}
  BY <1>1, <1>2
<1>4. LocationTypeOK'
  <2>1. loader' \in [Loader -> {Resting, Due} \cup InLoad]
    BY <1>1
  <2> QED BY <1>1, <2>1 DEF LocationInv, LocationTypeOK, Unmapped, NoFile
<1>5. MappedIsLater' /\ LateLoadsAreTold'
  BY <1>1, <1>3 DEF MappedIsLater, LateLoadsAreTold, OutOfDate, Busy
<1>6. WatcherKeepsUp'
  BY <1>1 DEF WatcherKeepsUp
<1> QED BY <1>4, <1>5, <1>6 DEF LocationInv

LEMMA LocationKeeps ==
  ASSUME LocationInv, [LocationStep]_locationVars
  PROVE  LocationInv'
<1>1. CASE UNCHANGED locationVars
  BY <1>1 DEF locationVars, LocationInv, LocationTypeOK, MappedIsLater, LateLoadsAreTold,
              WatcherKeepsUp, OutOfDate, Busy
<1>2. CASE (\E readable \in BOOLEAN : PlaceFile(readable)) \/ TakeFileAway
  BY <1>2, FileChanges DEF PlaceFile, TakeFileAway, LocationInv, LocationTypeOK
<1>3. CASE Refresh
  <2>1. loader' \in [Loader -> {Resting, Due} \cup InLoad]
        /\ \A l \in Loader : loader'[l] = loader[l] \/ loader'[l] = Due
    BY <1>3 DEF Refresh, LocationInv, LocationTypeOK
  <2> QED BY <1>3, <2>1, FileChanges DEF Refresh
<1> QED BY <1>1, <1>2, <1>3, StatKeeps, ExchangesKeep, OpenFileKeeps, WatchKeeps,
           RestartKeeps
        DEF LocationStep

(* Replacing the file takes effect without a restart: once it is watched   *)
(* and nothing is left to do, lookups use the file in place, unless it     *)
(* cannot be read or the last load was overtaken by another one.           *)
THEOREM WatchedFilesAreServed == Spec => []WatchedFileIsServed
<1>1. Init => LocationInv
  <2> SUFFICES ASSUME Init PROVE LocationInv
    OBVIOUS
  <2>1. /\ file \in {NoFile, placed} /\ placed \in Nat /\ mapped = Unmapped /\ watch = "none"
        /\ changed = FALSE /\ overtaken = FALSE
        /\ loader = [l \in Loader |-> IF l = "watcher" THEN Due ELSE Resting]
    BY DEF Init, LocationInit, NoFile
  <2>2. Due.at = "due" /\ Resting.at = "rest"
    BY DEF Due, Resting
  <2> QED BY <2>1, <2>2 DEF LocationInv, LocationTypeOK, MappedIsLater, LateLoadsAreTold,
             WatcherKeepsUp, OutOfDate, Busy, Unmapped, NoFile
<1>2. LocationInv /\ [Next]_vars => LocationInv'
  BY StepsOfUpkeep, LocationKeeps
<1>3. LocationInv => WatchedFileIsServed
  BY DEF LocationInv, WatcherKeepsUp, WatchedFileIsServed, Loader
<1> QED BY <1>1, <1>2, <1>3, PTL DEF Spec

-----------------------------------------------------------------------------
(* Profile pictures (Pictures).                                            *)

SaveJobs == [does : {"save"}, step : {"create", "write", "rename"}, name : FileName, id : Nat]
OtherJobs ==
  [does : {"download", "remove"}, name : Person]
    \cup [does : {"show"}, step : {"custom", "default"}, name : Person, default : Initials]
    \cup [does : {"list"}, inUse : SUBSET Initials]
    \cup [does : {"clear"}, unused : SUBSET Initials]
Temps == [id : Nat, name : FileName, whole : BOOLEAN, old : BOOLEAN]

PictureTypeOK ==
  /\ people \subseteq Person
  /\ initials \in [Person -> Initials]
  /\ DOMAIN pictures = FileName
  /\ temps \subseteq Temps
  /\ work \in [Worker -> {Free} \cup SaveJobs \cup OtherJobs]
  /\ saves \in Nat

Saving(w) == Doing(w, "save")

(* Every save has a number of its own, so that a temporary file that is    *)
(* about to be renamed is one that its worker has written to the end.      *)
SavesAreApart ==
  \A w \in Worker : Saving(w) =>
    /\ work[w].id <= saves
    /\ \A v \in Worker : Saving(v) /\ work[v].id = work[w].id => v = w
    /\ work[w].step = "rename" => \A t \in Mine(w) : t.whole = TRUE

PicturesAreWhole ==
  /\ \A n \in FileName :
       pictures[n] # NoPicture => pictures[n].whole = TRUE /\ pictures[n].name = n
  /\ served # NoPicture => served.whole = TRUE

(* A picture of nobody is about to be removed, or it is known why it stays.*)
NobodysPicture ==
  \A u \in Person \ people :
    \/ pictures[u] = NoPicture
    \/ u \in leftovers \cup latecomers
    \/ \E w \in Worker : Doing(w, "remove") /\ work[w].name = u

PictureInv == PictureTypeOK /\ SavesAreApart /\ PicturesAreWhole /\ NobodysPicture

LEMMA JobIs ==
  ASSUME PictureTypeOK, NEW w \in Worker
  PROVE  /\ work[w] \in {Free} \cup SaveJobs \cup OtherJobs
         /\ Saving(w) => /\ work[w] \in SaveJobs
                         /\ work[w].name \in FileName /\ work[w].id \in Nat
         /\ Doing(w, "remove") \/ Doing(w, "show") => work[w].name \in Person
         /\ Free.does = "nothing" /\ Free \notin SaveJobs \cup OtherJobs
<1>1. work[w] \in {Free} \cup SaveJobs \cup OtherJobs
  BY DEF PictureTypeOK
<1>2. Free.does = "nothing"
  BY DEF Free
<1>3. /\ \A j \in SaveJobs : j.does = "save" /\ j.name \in FileName /\ j.id \in Nat
      /\ \A j \in OtherJobs : /\ j.does \in {"download", "remove", "show", "list", "clear"}
                              /\ j.does \in {"remove", "show"} => j.name \in Person
  BY DEF SaveJobs, OtherJobs
<1> QED BY <1>1, <1>2, <1>3 DEF Doing, Saving

(* A worker that turns to something else than saving.                      *)
LEMMA SavesStayApart ==
  ASSUME PictureInv, NEW w \in Worker, NEW j \in {Free} \cup OtherJobs, Becomes(w, j),
         \A t \in temps' : t \in temps \/ t.whole = TRUE,
         saves' \in Nat, saves' >= saves
  PROVE  SavesAreApart'
<1>1. /\ \A v \in Worker \ {w} : work'[v] = work[v]
      /\ work'[w] = j
  BY DEF Becomes, PictureInv, PictureTypeOK
<1>2. j.does # "save"
  BY DEF Free, OtherJobs
<1>3. ASSUME NEW v \in Worker, Saving(v)'
      PROVE  v # w /\ Saving(v) /\ work'[v] = work[v] /\ work[v].id \in Nat
             /\ work[v].id <= saves'
  <2>1. v # w /\ Saving(v) /\ work'[v] = work[v]
    BY <1>1, <1>2, <1>3 DEF Saving, Doing
  <2> QED BY <2>1, JobIs DEF PictureInv, PictureTypeOK, SavesAreApart
<1> QED BY <1>1, <1>3 DEF PictureInv, SavesAreApart, Mine

LEMMA IdleIsApart ==
  ASSUME PictureInv, NEW w \in Worker, Becomes(w, Free), UNCHANGED <<temps, saves>>
  PROVE  SavesAreApart'
<1>1. /\ saves' \in Nat /\ saves' >= saves
      /\ \A t \in temps' : t \in temps \/ t.whole = TRUE
  BY DEF PictureInv, PictureTypeOK
<1>2. Free \in {Free} \cup OtherJobs
  OBVIOUS
<1> QED BY <1>1, <1>2, SavesStayApart

(* A worker that begins to save gets a new number.                         *)
LEMMA NewSaveIsApart ==
  ASSUME PictureInv, NEW w \in Worker, NEW n \in FileName,
         Becomes(w, SaveJob(n)), saves' = saves + 1, UNCHANGED temps
  PROVE  SavesAreApart' /\ SaveJob(n) \in SaveJobs
<1>0. SaveJob(n) \in SaveJobs /\ SaveJob(n).id = saves + 1 /\ SaveJob(n).step = "create"
  BY DEF SaveJob, SaveJobs, PictureInv, PictureTypeOK
<1>1. /\ \A v \in Worker \ {w} : work'[v] = work[v]
      /\ work'[w] = SaveJob(n) /\ saves \in Nat
  BY DEF Becomes, PictureInv, PictureTypeOK
<1>3. ASSUME NEW v \in Worker, Saving(v)', v # w
      PROVE  Saving(v) /\ work'[v] = work[v] /\ work[v].id \in Nat /\ work[v].id <= saves
  <2>1. Saving(v) /\ work'[v] = work[v]
    BY <1>1, <1>3 DEF Saving, Doing
  <2> QED BY <2>1, JobIs DEF PictureInv, SavesAreApart
<1> QED BY <1>0, <1>1, <1>3 DEF PictureInv, SavesAreApart, Mine

(* A step that keeps people and removes no picture half-way.               *)
LEMMA NobodysStay ==
  ASSUME PictureInv, NEW w \in Worker, NEW j, Becomes(w, j), ~Doing(w, "remove"),
         people' = people, leftovers' = leftovers, latecomers \subseteq latecomers',
         \A n \in Person \ people : \/ pictures'[n] \in {pictures[n], NoPicture}
                                    \/ n \in latecomers'
  PROVE  NobodysPicture'
<1>1. \A v \in Worker \ {w} : work'[v] = work[v]
  BY DEF Becomes, PictureInv, PictureTypeOK
<1>2. \A v \in Worker : Doing(v, "remove") => Doing(v, "remove")' /\ work'[v] = work[v]
  BY <1>1 DEF Doing
<1> QED BY <1>2 DEF PictureInv, NobodysPicture

(* What is saved: a whole picture of the name it is saved under.           *)
LEMMA ReplacingKeeps ==
  ASSUME PictureInv, NEW w \in Worker, NEW j, Becomes(w, j), ~Doing(w, "remove"),
         NEW n, NEW p, p.whole = TRUE, p.name = n, MayReplace(n, p),
         UNCHANGED <<people, leftovers, served>>
  PROVE  PicturesAreWhole' /\ NobodysPicture' /\ DOMAIN pictures' = FileName
<1>1. /\ DOMAIN pictures' = FileName
      /\ \A m \in FileName : pictures'[m] = IF m = n THEN p ELSE pictures[m]
  BY DEF MayReplace, PictureInv, PictureTypeOK
<1>2. PicturesAreWhole'
  BY <1>1 DEF PictureInv, PicturesAreWhole
<1>3. NobodysPicture'
  <2>1. \A m \in Person \ people : pictures'[m] = pictures[m] \/ m \in latecomers'
    BY <1>1 DEF MayReplace, FileName
  <2>2. latecomers \subseteq latecomers'
    BY DEF MayReplace
  <2> QED BY <2>1, <2>2, NobodysStay
<1> QED BY <1>1, <1>2, <1>3

LEMMA FreeIs == Free \in {Free} \cup SaveJobs \cup OtherJobs
OBVIOUS

LEMMA BecomesIs ==
  ASSUME PictureInv, NEW w \in Worker, NEW j \in {Free} \cup SaveJobs \cup OtherJobs,
         Becomes(w, j)
  PROVE  work' \in [Worker -> {Free} \cup SaveJobs \cup OtherJobs]
BY DEF Becomes, PictureInv, PictureTypeOK

LEMMA SaveInDatabaseKeeps ==
  ASSUME PictureInv, NEW w \in Worker, SaveInDatabase(w)
  PROVE  PictureInv'
<1> DEFINE p == [id |-> work[w].id, name |-> work[w].name, whole |-> TRUE]
<1>1. /\ Saving(w) /\ MayReplace(work[w].name, p) /\ Becomes(w, Free)
      /\ UNCHANGED <<store, people, initials, temps, saves, leftovers, served>>
  BY DEF SaveInDatabase, Saving
<1>2. p.whole = TRUE /\ p.name = work[w].name
  OBVIOUS
<1> HIDE DEF p
<1>3. ~Doing(w, "remove")
  BY <1>1 DEF Doing, Saving
<1>4. PicturesAreWhole' /\ NobodysPicture' /\ DOMAIN pictures' = FileName
  BY <1>1, <1>2, <1>3, ReplacingKeeps
<1>5. PictureTypeOK'
  BY <1>1, <1>4, FreeIs, BecomesIs DEF PictureInv, PictureTypeOK
<1>6. SavesAreApart'
  BY <1>1, IdleIsApart
<1> QED BY <1>4, <1>5, <1>6 DEF PictureInv

(* The steps of a save before the rename: the worker keeps its number, and *)
(* the temporary files of other workers stay as they are.                  *)
LEMMA SaveGoesOn ==
  ASSUME PictureInv, NEW w \in Worker, Saving(w), NEW step \in {"write", "rename"},
         Becomes(w, [work[w] EXCEPT !.step = step]),
         temps' \subseteq Temps,
         \A t \in temps' : t \in temps \/ t.id = work[w].id,
         step = "rename" => \A t \in temps' : t.id = work[w].id => t.whole = TRUE,
         UNCHANGED <<people, initials, pictures, saves, leftovers, latecomers, served>>
  PROVE  PictureInv'
<1>1. /\ work[w] \in SaveJobs /\ ~Doing(w, "remove")
  BY JobIs DEF PictureInv, Saving, Doing
<1>2. PICK j \in SaveJobs : /\ Becomes(w, j) /\ j.does = "save" /\ j.id = work[w].id
                            /\ j.step = step
  <2> DEFINE k == [work[w] EXCEPT !.step = step]
  <2>1. /\ k \in SaveJobs /\ k.does = "save" /\ k.id = work[w].id /\ k.step = step
    BY <1>1 DEF SaveJobs
  <2> QED BY <2>1
<1>3. /\ \A v \in Worker \ {w} : work'[v] = work[v]
      /\ work'[w] = j
  BY <1>2 DEF Becomes, PictureInv, PictureTypeOK
<1>4. PictureTypeOK'
  BY <1>2, BecomesIs DEF PictureInv, PictureTypeOK
<1>5. SavesAreApart'
  <2>1. \A v \in Worker : /\ Saving(v)' <=> Saving(v)
                          /\ Saving(v) => work'[v].id = work[v].id
    BY <1>1, <1>2, <1>3 DEF Saving, Doing
  <2>2. ASSUME NEW v \in Worker, Saving(v)', work'[v].step = "rename",
               NEW t \in temps', t.id = work'[v].id
        PROVE  t.whole = TRUE
    <3>1. CASE v = w
      BY <1>2, <1>3, <2>2, <3>1
    <3>2. CASE v # w
      <4>1. Saving(v) /\ work[v].step = "rename" /\ t.id = work[v].id
        BY <1>3, <2>1, <2>2, <3>2
      <4>2. t.id # work[w].id
        BY <3>2, <4>1 DEF PictureInv, SavesAreApart
      <4> QED BY <2>2, <4>1, <4>2 DEF PictureInv, SavesAreApart, Mine
    <3> QED BY <3>1, <3>2
  <2>3. ASSUME NEW v \in Worker, Saving(v)'
        PROVE  /\ work'[v].id <= saves'
               /\ \A u \in Worker : Saving(u)' /\ work'[u].id = work'[v].id => u = v
    BY <2>1, <2>3 DEF PictureInv, SavesAreApart
  <2> QED BY <2>2, <2>3 DEF SavesAreApart, Mine
<1>6. PicturesAreWhole'
  BY DEF PictureInv, PicturesAreWhole
<1>7. NobodysPicture'
  BY <1>1, <1>2, NobodysStay
<1> QED BY <1>4, <1>5, <1>6, <1>7 DEF PictureInv

LEMMA SaveWritesKeep ==
  ASSUME PictureInv, NEW w \in Worker, SaveCreate(w) \/ SaveWrite(w)
  PROVE  PictureInv'
<1>1. CASE SaveCreate(w)
  <2> DEFINE t == [id |-> work[w].id, name |-> work[w].name, whole |-> FALSE, old |-> FALSE]
  <2>1. /\ Saving(w) /\ temps' = temps \cup {t}
        /\ Becomes(w, [work[w] EXCEPT !.step = "write"])
        /\ UNCHANGED <<people, initials, pictures, saves, leftovers, latecomers, served>>
    BY <1>1 DEF SaveCreate, Created, Saving
  <2>2. t \in Temps /\ t.id = work[w].id
    BY <2>1, JobIs DEF PictureInv, Temps
  <2>3. temps' \subseteq Temps /\ \A q \in temps' : q \in temps \/ q.id = work[w].id
    BY <2>1, <2>2 DEF PictureInv, PictureTypeOK
  <2> HIDE DEF t
  <2> QED BY <2>1, <2>3, SaveGoesOn
<1>2. CASE SaveWrite(w)
  <2>1. /\ Saving(w)
        /\ temps' = (temps \ Mine(w)) \cup {[t EXCEPT !.whole = TRUE] : t \in Mine(w)}
        /\ Becomes(w, [work[w] EXCEPT !.step = "rename"])
        /\ UNCHANGED <<people, initials, pictures, saves, leftovers, latecomers, served>>
    BY <1>2 DEF SaveWrite, Saving
  <2>2. ASSUME NEW q \in temps'
        PROVE  /\ q \in Temps
               /\ q \in temps \/ q.id = work[w].id
               /\ q.id = work[w].id => q.whole = TRUE
    <3>1. CASE q \in temps \ Mine(w)
      BY <3>1 DEF Mine, PictureInv, PictureTypeOK
    <3>2. ASSUME NEW t \in Mine(w), q = [t EXCEPT !.whole = TRUE]
          PROVE  q \in Temps /\ q.id = work[w].id /\ q.whole = TRUE
      <4>1. t \in Temps /\ t.id = work[w].id
        BY DEF Mine, PictureInv, PictureTypeOK
      <4> QED BY <3>2, <4>1 DEF Temps
    <3> QED BY <2>1, <3>1, <3>2
  <2> QED BY <2>1, <2>2, SaveGoesOn
<1> QED BY <1>1, <1>2

LEMMA SaveEndsKeep ==
  ASSUME PictureInv, NEW w \in Worker, SaveFails(w) \/ SaveRename(w)
  PROVE  PictureInv'
<1>1. /\ Saving(w) /\ Becomes(w, Free) /\ temps' = temps \ Mine(w)
      /\ UNCHANGED <<people, initials, saves, leftovers, served>>
  BY DEF SaveFails, SaveRename, Saving
<1>2. ~Doing(w, "remove")
  BY <1>1 DEF Saving, Doing
<1>3. PicturesAreWhole' /\ NobodysPicture' /\ DOMAIN pictures' = FileName
  <2>1. CASE UNCHANGED <<pictures, latecomers>>
    <3>1. NobodysPicture'
      BY <1>1, <1>2, <2>1, NobodysStay
    <3> QED BY <1>1, <2>1, <3>1 DEF PictureInv, PicturesAreWhole, PictureTypeOK
  <2>2. ASSUME NEW t \in Mine(w), work[w].step = "rename",
               MayReplace(t.name, [id |-> t.id, name |-> t.name, whole |-> t.whole])
        PROVE  PicturesAreWhole' /\ NobodysPicture' /\ DOMAIN pictures' = FileName
    <3> DEFINE p == [id |-> t.id, name |-> t.name, whole |-> t.whole]
    <3>1. t.whole = TRUE
      BY <1>1, <2>2 DEF PictureInv, SavesAreApart
    <3>2. p.whole = TRUE /\ p.name = t.name /\ MayReplace(t.name, p)
      BY <2>2, <3>1
    <3> HIDE DEF p
    <3> QED BY <1>1, <1>2, <3>2, ReplacingKeeps
  <2> QED BY <2>1, <2>2 DEF SaveFails, SaveRename
<1>4. PictureTypeOK'
  BY <1>1, <1>3, FreeIs, BecomesIs DEF PictureInv, PictureTypeOK
<1>5. SavesAreApart'
  <2>1. /\ saves' \in Nat /\ saves' >= saves
        /\ \A t \in temps' : t \in temps \/ t.whole = TRUE
    BY <1>1 DEF PictureInv, PictureTypeOK
  <2>2. Free \in {Free} \cup OtherJobs
    OBVIOUS
  <2> QED BY <1>1, <2>1, <2>2, SavesStayApart
<1> QED BY <1>3, <1>4, <1>5 DEF PictureInv

(* A worker turns to something else; pictures may go, or be shown.         *)
LEMMA JobChanges ==
  ASSUME PictureInv, NEW w \in Worker, NEW j \in {Free} \cup OtherJobs, Becomes(w, j),
         ~Doing(w, "remove"),
         UNCHANGED <<people, initials, temps, saves, leftovers, latecomers>>,
         DOMAIN pictures' = FileName,
         \A n \in FileName : pictures'[n] \in {pictures[n], NoPicture},
         served' = served \/ \E n \in FileName : served' = pictures[n]
  PROVE  PictureInv'
<1>1. PictureTypeOK'
  BY BecomesIs DEF PictureInv, PictureTypeOK
<1>2. SavesAreApart'
  <2>1. /\ saves' \in Nat /\ saves' >= saves
        /\ \A t \in temps' : t \in temps \/ t.whole = TRUE
    BY DEF PictureInv, PictureTypeOK
  <2> QED BY <2>1, SavesStayApart
<1>3. PicturesAreWhole'
  BY DEF PictureInv, PicturesAreWhole
<1>4. NobodysPicture'
  <2>1. \A n \in Person \ people : pictures'[n] \in {pictures[n], NoPicture}
    BY DEF FileName
  <2> QED BY <2>1, NobodysStay
<1> QED BY <1>1, <1>2, <1>3, <1>4 DEF PictureInv

LEMMA JobsAre ==
  ASSUME PictureTypeOK, NEW u \in Person
  PROVE  /\ [does |-> "download", name |-> u] \in OtherJobs
         /\ [does |-> "remove", name |-> u] \in OtherJobs
         /\ [does |-> "show", step |-> "custom", name |-> u, default |-> initials[u]]
              \in OtherJobs
<1>1. initials[u] \in Initials
  BY DEF PictureTypeOK
<1> QED BY <1>1 DEF OtherJobs

LEMMA FreeWorkerTurns ==
  ASSUME PictureInv, NEW w \in Worker, work[w] = Free, NEW j \in OtherJobs, Becomes(w, j),
         UNCHANGED <<people, initials, pictures, temps, saves, leftovers, latecomers, served>>
  PROVE  PictureInv'
<1>1. ~Doing(w, "remove")
  BY DEF Doing, Free
<1>2. DOMAIN pictures' = FileName /\ \A n \in FileName : pictures'[n] \in {pictures[n], NoPicture}
  BY DEF PictureInv, PictureTypeOK
<1> QED BY <1>1, <1>2, JobChanges

LEMMA ClearDefaultsKeeps ==
  ASSUME PictureInv, NEW w \in Worker, ClearDefaults(w)
  PROVE  PictureInv'
<1>1. {initials[v] : v \in people} \subseteq Initials
  BY DEF PictureInv, PictureTypeOK
<1>2. PICK j \in OtherJobs : Becomes(w, j)
  BY <1>1 DEF ClearDefaults, OtherJobs
<1> QED BY <1>2, FreeWorkerTurns DEF ClearDefaults

LEMMA FreeWorkerKeeps ==
  ASSUME PictureInv, NEW w \in Worker, NEW u \in Person,
         \/ SaveDirectoryPicture(w, u) \/ ResetProfilePicture(w, u)
         \/ GetProfilePicture(w, u)
  PROVE  PictureInv'
<1>1. /\ work[w] = Free
      /\ UNCHANGED <<people, initials, pictures, temps, saves, leftovers, latecomers, served>>
  BY DEF SaveDirectoryPicture, ResetProfilePicture, GetProfilePicture
<1>2. PICK j \in OtherJobs : Becomes(w, j)
  BY JobsAre DEF SaveDirectoryPicture, ResetProfilePicture, GetProfilePicture, PictureInv
<1> QED BY <1>1, <1>2, FreeWorkerTurns

LEMMA NewSaveKeeps ==
  ASSUME PictureInv, NEW w \in Worker, NEW n \in FileName, ~Doing(w, "remove"),
         Becomes(w, SaveJob(n)), saves' = saves + 1,
         UNCHANGED <<people, initials, pictures, temps, leftovers, latecomers>>,
         served' = served \/ served'.whole = TRUE
  PROVE  PictureInv'
<1>1. SavesAreApart' /\ SaveJob(n) \in SaveJobs
  BY NewSaveIsApart
<1>2. PictureTypeOK'
  BY <1>1, BecomesIs DEF PictureInv, PictureTypeOK
<1>3. PicturesAreWhole'
  BY DEF PictureInv, PicturesAreWhole
<1>4. NobodysPicture'
  BY NobodysStay
<1> QED BY <1>1, <1>2, <1>3, <1>4 DEF PictureInv

LEMMA UpdatePictureKeeps ==
  ASSUME PictureInv, NEW w \in Worker, NEW u \in Person, UpdateProfilePicture(w, u)
  PROVE  PictureInv'
<1>1. ~Doing(w, "remove") /\ u \in FileName
  BY DEF UpdateProfilePicture, Doing, Free, FileName
<1> QED BY <1>1, NewSaveKeeps DEF UpdateProfilePicture

(* The file of a user goes after the row: a worker is at it.               *)
LEMMA DeletePersonKeeps ==
  ASSUME PictureInv, NEW w \in Worker, NEW u \in Person, DeletePerson(w, u)
  PROVE  PictureInv'
<1> DEFINE j == [does |-> "remove", name |-> u]
<1>1. /\ work[w] = Free /\ people' = people \ {u} /\ Becomes(w, j)
      /\ UNCHANGED <<initials, pictures, temps, saves, leftovers, latecomers, served>>
  BY DEF DeletePerson
<1>2. j \in {Free} \cup OtherJobs /\ j.does = "remove" /\ j.name = u
  BY JobsAre DEF PictureInv
<1> HIDE DEF j
<1>3. PictureTypeOK'
  BY <1>1, <1>2, BecomesIs DEF PictureInv, PictureTypeOK
<1>4. SavesAreApart'
  <2>1. /\ saves' \in Nat /\ saves' >= saves
        /\ \A t \in temps' : t \in temps \/ t.whole = TRUE
    BY <1>1 DEF PictureInv, PictureTypeOK
  <2> QED BY <1>1, <1>2, <2>1, SavesStayApart
<1>5. PicturesAreWhole'
  BY <1>1 DEF PictureInv, PicturesAreWhole
<1>6. NobodysPicture'
  <2>1. /\ work'[w] = j
        /\ \A v \in Worker \ {w} : work'[v] = work[v]
    BY <1>1 DEF Becomes, PictureInv, PictureTypeOK
  <2>2. ~Doing(w, "remove")
    BY <1>1 DEF Doing, Free
  <2>3. \A v \in Worker : Doing(v, "remove") => Doing(v, "remove")' /\ work'[v] = work[v]
    BY <2>1, <2>2 DEF Doing
  <2>4. Doing(w, "remove")' /\ work'[w].name = u
    BY <1>2, <2>1 DEF Doing
  <2> QED BY <1>1, <2>3, <2>4 DEF PictureInv, NobodysPicture
<1> QED BY <1>3, <1>4, <1>5, <1>6 DEF PictureInv

LEMMA RemovePictureKeeps ==
  ASSUME PictureInv, NEW w \in Worker, RemovePicture(w)
  PROVE  PictureInv'
<1>1. /\ pictures' = [pictures EXCEPT ![work[w].name] = NoPicture] /\ Becomes(w, Free)
      /\ work[w].name \in FileName
      /\ UNCHANGED <<people, initials, temps, saves, leftovers, latecomers, served>>
  BY JobIs DEF RemovePicture, PictureInv, FileName
<1>2. PictureTypeOK'
  BY <1>1, FreeIs, BecomesIs DEF PictureInv, PictureTypeOK
<1>3. SavesAreApart'
  BY <1>1, IdleIsApart
<1>4. PicturesAreWhole'
  BY <1>1 DEF PictureInv, PictureTypeOK, PicturesAreWhole
<1>5. NobodysPicture'
  <2>1. \A v \in Worker \ {w} : work'[v] = work[v]
    BY <1>1 DEF Becomes, PictureInv, PictureTypeOK
  <2>2. \A u \in Person : pictures'[u] = IF u = work[w].name THEN NoPicture ELSE pictures[u]
    BY <1>1 DEF PictureInv, PictureTypeOK, FileName
  <2> QED BY <1>1, <2>1, <2>2 DEF PictureInv, NobodysPicture, Doing
<1> QED BY <1>2, <1>3, <1>4, <1>5 DEF PictureInv

LEMMA ShowKeeps ==
  ASSUME PictureInv, NEW w \in Worker, OpenCustom(w) \/ OpenDefault(w)
  PROVE  PictureInv'
<1>1. Doing(w, "show") /\ ~Doing(w, "remove") /\ work[w].name \in FileName
  BY JobIs DEF OpenCustom, OpenDefault, Doing, PictureInv, FileName
<1>2. work[w] \in [does : {"show"}, step : {"custom", "default"}, name : Person,
                   default : Initials]
  BY <1>1, JobIs DEF PictureInv, Doing, SaveJobs, OtherJobs, Free
<1>3. work[w].default \in FileName
  BY <1>2 DEF FileName
<1>4. DOMAIN pictures = FileName /\ Free \in {Free} \cup OtherJobs
  BY DEF PictureInv, PictureTypeOK
<1>5. CASE OpenCustom(w)
  <2>1. [work[w] EXCEPT !.step = "default"] \in {Free} \cup OtherJobs
    BY <1>2 DEF OtherJobs
  <2>2. PICK j \in {Free} \cup OtherJobs : Becomes(w, j)
    BY <1>5, <2>1 DEF OpenCustom
  <2>3. served' = served \/ \E n \in FileName : served' = pictures[n]
    BY <1>1, <1>5 DEF OpenCustom
  <2>4. UNCHANGED <<people, initials, pictures, temps, saves, leftovers, latecomers>>
    BY <1>5 DEF OpenCustom
  <2> QED BY <1>1, <1>4, <2>2, <2>3, <2>4, JobChanges
<1>6. CASE OpenDefault(w)
  <2>1. UNCHANGED <<people, initials, pictures, temps, leftovers, latecomers>>
    BY <1>6 DEF OpenDefault
  <2>2. CASE pictures[work[w].default] # NoPicture
    <3>1. served' = pictures[work[w].default] /\ Becomes(w, Free) /\ UNCHANGED saves
      BY <1>6, <2>2 DEF OpenDefault
    <3>2. \E n \in FileName : served' = pictures[n]
      BY <1>3, <3>1
    <3> QED BY <1>1, <1>4, <2>1, <3>1, <3>2, JobChanges
  <2>3. CASE pictures[work[w].default] = NoPicture
    <3>1. /\ saves' = saves + 1 /\ Becomes(w, SaveJob(work[w].default))
          /\ served'.whole = TRUE
      BY <1>6, <2>3 DEF OpenDefault
    <3> QED BY <1>1, <1>3, <2>1, <3>1, NewSaveKeeps
  <2> QED BY <2>2, <2>3
<1> QED BY <1>5, <1>6

LEMMA ClearingKeeps ==
  ASSUME PictureInv, NEW w \in Worker, ListDefaults(w) \/ ClearDefault(w)
  PROVE  PictureInv'
<1>1. /\ ~Doing(w, "remove")
      /\ UNCHANGED <<people, initials, temps, saves, leftovers, latecomers, served>>
      /\ DOMAIN pictures = FileName
  BY DEF ListDefaults, ClearDefault, Doing, PictureInv, PictureTypeOK
<1>2. CASE ListDefaults(w)
  <2>1. PICK j \in OtherJobs : Becomes(w, j)
    BY <1>2 DEF ListDefaults, OtherJobs
  <2> QED BY <1>1, <1>2, <2>1, JobChanges DEF ListDefaults
<1>3. CASE ClearDefault(w)
  <2>1. work[w] \in [does : {"clear"}, unused : SUBSET Initials]
    BY <1>3, JobIs DEF PictureInv, ClearDefault, Doing, SaveJobs, OtherJobs, Free
  <2>2. ASSUME NEW i \in work[w].unused
        PROVE  [work[w] EXCEPT !.unused = @ \ {i}] \in OtherJobs /\ i \in FileName
    BY <2>1 DEF OtherJobs, FileName
  <2>3. PICK j \in {Free} \cup OtherJobs : Becomes(w, j)
    BY <1>3, <2>2 DEF ClearDefault
  <2>4. DOMAIN pictures' = FileName
        /\ \A n \in FileName : pictures'[n] \in {pictures[n], NoPicture}
    BY <1>1, <1>3 DEF ClearDefault
  <2> QED BY <1>1, <2>3, <2>4, JobChanges
<1> QED BY <1>2, <1>3

(* A deletion that is cut short is remembered.                             *)
LEMMA WorkerStopsKeeps ==
  ASSUME PictureInv, NEW w \in Worker, WorkerStops(w)
  PROVE  PictureInv'
<1>1. /\ leftovers' = leftovers \cup (IF Doing(w, "remove") THEN {work[w].name} \ people ELSE {})
      /\ Becomes(w, Free)
      /\ UNCHANGED <<people, initials, pictures, temps, saves, latecomers, served>>
  BY DEF WorkerStops
<1>2. PictureTypeOK'
  BY <1>1, FreeIs, BecomesIs DEF PictureInv, PictureTypeOK
<1>3. SavesAreApart'
  BY <1>1, IdleIsApart
<1>4. PicturesAreWhole'
  BY <1>1 DEF PictureInv, PicturesAreWhole
<1>5. NobodysPicture'
  <2>1. \A v \in Worker \ {w} : work'[v] = work[v]
    BY <1>1 DEF Becomes, PictureInv, PictureTypeOK
  <2>2. \A v \in Worker \ {w} : Doing(v, "remove") => Doing(v, "remove")'
    BY <2>1 DEF Doing
  <2>3. ASSUME NEW u \in Person \ people, NEW v \in Worker, Doing(v, "remove"), work[v].name = u
        PROVE  \/ u \in leftovers'
               \/ \E x \in Worker : Doing(x, "remove")' /\ work'[x].name = u
    <3>1. CASE v = w
      BY <1>1, <2>3, <3>1
    <3>2. CASE v # w
      BY <2>1, <2>2, <2>3, <3>2
    <3> QED BY <3>1, <3>2
  <2> QED BY <1>1, <2>3 DEF PictureInv, NobodysPicture
<1> QED BY <1>2, <1>3, <1>4, <1>5 DEF PictureInv

(* Temporary files age or go; users get other names.                       *)
LEMMA SurroundingsKeep ==
  ASSUME PictureInv,
         \/ TempAges \/ ClearOrphanedTempFiles
         \/ \E u \in Person, i \in Initials : ChangeName(u, i)
  PROVE  PictureInv'
<1>1. /\ UNCHANGED <<people, pictures, work, saves, leftovers, latecomers, served>>
      /\ initials' \in [Person -> Initials]
  BY DEF TempAges, ClearOrphanedTempFiles, ChangeName, PictureInv, PictureTypeOK
<1>2. ASSUME NEW q \in temps'
      PROVE  q \in Temps /\ \E t \in temps : q.id = t.id /\ q.whole = t.whole
  <2>1. CASE q \in temps
    BY <2>1 DEF PictureInv, PictureTypeOK
  <2>2. CASE q \notin temps
    <3>1. PICK t \in temps : temps' = (temps \ {t}) \cup {[t EXCEPT !.old = TRUE]}
      BY <2>2, <1>2 DEF TempAges, ClearOrphanedTempFiles, ChangeName
    <3>2. t \in Temps /\ q = [t EXCEPT !.old = TRUE]
      BY <1>2, <2>2, <3>1 DEF PictureInv, PictureTypeOK
    <3> QED BY <3>2 DEF Temps
  <2> QED BY <2>1, <2>2
<1>3. SavesAreApart'
  BY <1>1, <1>2 DEF PictureInv, SavesAreApart, Mine, Saving, Doing
<1> QED BY <1>1, <1>2, <1>3
        DEF PictureInv, PictureTypeOK, PicturesAreWhole, NobodysPicture, Doing

LEMMA PicturesKeep ==
  ASSUME PictureInv, [PictureNext]_pictureVars
  PROVE  PictureInv'
<1>1. CASE UNCHANGED pictureVars
  BY <1>1 DEF pictureVars, PictureInv, PictureTypeOK, SavesAreApart, PicturesAreWhole,
              NobodysPicture, Doing, Saving, Mine
<1>2. ASSUME NEW w \in Worker,
             \/ SaveInDatabase(w) \/ SaveCreate(w) \/ SaveWrite(w)
             \/ SaveFails(w) \/ SaveRename(w) \/ RemovePicture(w)
             \/ OpenCustom(w) \/ OpenDefault(w)
             \/ ListDefaults(w) \/ ClearDefault(w) \/ WorkerStops(w)
      PROVE  PictureInv'
  BY <1>2, SaveInDatabaseKeeps, SaveWritesKeep, SaveEndsKeep, RemovePictureKeeps, ShowKeeps,
     ClearingKeeps, WorkerStopsKeeps
<1>3. ASSUME NEW w \in Worker, NEW u \in Person,
             \/ UpdateProfilePicture(w, u) \/ SaveDirectoryPicture(w, u)
             \/ ResetProfilePicture(w, u) \/ DeletePerson(w, u) \/ GetProfilePicture(w, u)
      PROVE  PictureInv'
  BY <1>3, FreeWorkerKeeps, UpdatePictureKeeps, DeletePersonKeeps
<1>4. ASSUME NEW w \in Worker, ClearDefaults(w) PROVE PictureInv'
  BY <1>4, ClearDefaultsKeeps
<1> QED BY <1>1, <1>2, <1>3, <1>4, SurroundingsKeep DEF PictureNext

(* Whatever a browser is shown or could be shown is a whole picture of the *)
(* name it is stored under, and nobody's picture outlives the account but  *)
(* for a deletion cut short and an upload that landed late.                *)
THEOREM PicturesAreOfUsers == Spec => []PicturesFollowUsers
<1>1. Init => PictureInv
  <2> SUFFICES ASSUME Init PROVE PictureInv
    OBVIOUS
  <2>1. PictureInit
    BY DEF Init
  <2> QED BY <2>1 DEF PictureInit, PictureInv, PictureTypeOK, SavesAreApart, PicturesAreWhole,
             NobodysPicture, Saving, Doing, Free
<1>2. PictureInv /\ [Next]_vars => PictureInv'
  BY StepsOfUpkeep, PicturesKeep
<1>3. PictureInv => PicturesFollowUsers
  BY DEF PictureInv, PicturesAreWhole, NobodysPicture, PicturesFollowUsers
<1> QED BY <1>1, <1>2, <1>3, PTL DEF Spec

=============================================================================
