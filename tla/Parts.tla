-------------------------------- MODULE Parts --------------------------------
(***************************************************************************)
(* The parts of an instance that share no state with one another.  Each    *)
(* behaviour is about one of them: that part takes its steps, the others   *)
(* stay as they were set up.                                               *)
(***************************************************************************)
EXTENDS ResourceAccess, ClientAdmin, ClientAuth, Claims, Keys, Configuration,
        LocationDatabase, AppImages, Pictures, SignIns, Backup

VARIABLE focus

vars == <<resourceVars, adminVars, authVars, claimVars, keyVars, configVars,
          locationVars, imageVars, pictureVars, signInVars, backupVars, focus>>

Part == {"access", "administration", "authentication", "claims", "keys",
         "configuration", "location", "images", "pictures", "sign-ins",
         "backup"}

(* What a part may be set up as matters only where the part takes steps.   *)
Init ==
  /\ focus \in Part
  /\ ResourceInit
  /\ focus # "access" =>
       published = [c \in Cimd |-> CHOOSE d \in Document : TRUE]
  /\ AdminInit /\ AuthInit
  /\ ClaimsInit /\ (focus # "claims" => remapping = NoClaim)
  /\ KeyInit
  /\ ConfigInit
  /\ focus # "configuration" => legacy = NoConfig /\ state = NoConfig
  /\ LocationInit /\ (focus # "location" => file = NoFile)
  /\ ImagesInit /\ (focus # "images" => Present = {} /\ ~inited)
  /\ PictureInit
  /\ focus # "pictures" =>
       /\ store = "database"
       /\ initials = [p \in Person |-> CHOOSE i \in Initials : TRUE]
  /\ SignInInit
  /\ BackupInit /\ (focus # "backup" => \A f \in Upload : uploads[f] = "own")

Still(part) ==
  /\ part # "access" => UNCHANGED resourceVars
  /\ part # "administration" => UNCHANGED adminVars
  /\ part # "authentication" => UNCHANGED authVars
  /\ part # "claims" => UNCHANGED claimVars
  /\ part # "keys" => UNCHANGED keyVars
  /\ part # "configuration" => UNCHANGED configVars
  /\ part # "location" => UNCHANGED locationVars
  /\ part # "images" => UNCHANGED imageVars
  /\ part # "pictures" => UNCHANGED pictureVars
  /\ part # "sign-ins" => UNCHANGED signInVars
  /\ part # "backup" => UNCHANGED backupVars
  /\ UNCHANGED focus

StepAccess == focus = "access" /\ ResourceStep /\ Still("access")
StepAdministration ==
  focus = "administration" /\ AdminStep /\ Still("administration")
StepAuthentication ==
  focus = "authentication" /\ AuthStep /\ Still("authentication")
StepClaims == focus = "claims" /\ ClaimsStep /\ Still("claims")
StepKeys == focus = "keys" /\ KeyStep /\ Still("keys")
StepConfiguration ==
  focus = "configuration" /\ ConfigStep /\ Still("configuration")
StepLocation == focus = "location" /\ LocationStep /\ Still("location")
StepImages == focus = "images" /\ ImagesStep /\ Still("images")
StepPictures == focus = "pictures" /\ PictureNext /\ Still("pictures")
StepSignIns == focus = "sign-ins" /\ SignInStep /\ Still("sign-ins")
StepBackup == focus = "backup" /\ BackupStep /\ Still("backup")

Next ==
  \/ StepAccess \/ StepAdministration \/ StepAuthentication \/ StepClaims
  \/ StepKeys \/ StepConfiguration \/ StepLocation \/ StepImages
  \/ StepPictures \/ StepSignIns \/ StepBackup

Spec == Init /\ [][Next]_vars
=============================================================================
