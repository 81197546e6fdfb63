---------------------------- MODULE Provisioning ----------------------------
(***************************************************************************)
(* The handlers that change users and groups, the LDAP sync that feeds     *)
(* them, and what follows a change: notices to relying parties and the     *)
(* SCIM sync.                                                              *)
(***************************************************************************)
EXTENDS LdapSync, LogoutNotices, ScimSync

CONSTANTS InitUsers, InitGroups, InitDirectory

ASSUME ProvisioningAssumption ==
  /\ InitUsers \in [User -> Row \cup {NoUser}]
  /\ InitGroups \in [Group -> {NoGroup} \cup SUBSET User]
  /\ \A g \in Group : InitGroups[g] # NoGroup =>
       \A u \in InitGroups[g] : InitUsers[u] # NoUser
  /\ InitDirectory \in Directory

vars == <<follows, accountVars, ldapVars, logoutVars, scimVars>>

Init ==
  /\ follows \in {"client", "provider"}
  /\ users = InitUsers /\ groups = InitGroups
  /\ restricted = TRUE /\ allowed = Groups
  /\ authorized = {} /\ settled = {} /\ drifted = {} /\ after = {} /\ edits = 0
  /\ directory = InitDirectory /\ fetched = {} /\ transaction = Closed
  /\ signedIn = {} /\ jobs = [u \in User |-> 0] /\ missed = {}
  /\ userCopy = [u \in User |-> NoCopy] /\ groupCopy = [g \in Group |-> NoCopy]
  /\ sync = Idle /\ faults = 0

LdapStep ==
  \/ FetchDesiredState
  \/ \E d \in fetched : BeginSync(d)
  \/ \E d \in Directory : Move(d)

LogoutStep ==
  \/ \E n \in after : Dispatch(n)
  \/ \E u \in User : SignIn(u)
  \/ \E u \in User : Deliver(u)
  \/ \E u \in User : Retry(u)
  \/ \E u \in User : GiveUp(u)

CrashProcess ==
  /\ faults < MaxFaults /\ faults' = faults + 1
  /\ Crash
  /\ UNCHANGED <<follows, ldapVars, userCopy, groupCopy, sync>>

Provide == (LoadSnapshot \/ Push) /\ UNCHANGED <<follows, ldapVars, logoutVars>>

FailedSync ==
  /\ faults < MaxFaults /\ faults' = faults + 1
  /\ \E d \in fetched : FailLdapSync(d)
  /\ UNCHANGED <<follows, logoutVars, userCopy, groupCopy, sync>>

FaultStep ==
  /\ \/ \E x \in User \cup Group : FailRequest(x)
     \/ \E u \in User : LoseAnswer(u)
     \/ AbortSync
  /\ UNCHANGED <<follows, ldapVars, logoutVars>>

(* What happens while no LDAP sync is in its transaction.                  *)
Step ==
  \/ Administer /\ UNCHANGED <<follows, ldapVars, logoutVars, scimVars>>
  \/ LdapStep /\ UNCHANGED <<follows, logoutVars, scimVars>>
  \/ LogoutStep /\ UNCHANGED <<follows, ldapVars, scimVars>>
  \/ CrashProcess
  \/ Provide
  \/ FailedSync
  \/ FaultStep

Next ==
  \/ ~transaction.open /\ Step
  \/ SyncTurn /\ UNCHANGED <<follows, logoutVars, scimVars>>

ReadDirectory == fetched = {} /\ fetched' = {directory}
EndLdapSync == \E d \in fetched : fetched' = fetched \ {d}

(* The alarms of both actors come back whatever becomes of a sync: a sync  *)
(* that fails reports no error, which would remove the alarm.              *)
Spec ==
  /\ Init /\ [][Next]_vars
  /\ WF_fetched(ReadDirectory) /\ WF_fetched(EndLdapSync)
  /\ WF_scimVars(Provide)

ProvisioningTypeOK ==
  AccountsTypeOK /\ LdapTypeOK /\ LogoutTypeOK /\ ScimTypeOK

(* Once the directory and the administrators are done, the users and the   *)
(* group the directory manages end up as it says and stay so, whatever was *)
(* changed in the meantime, and whichever reading was applied last.        *)
DirectoryPrevails == <>[]AgreesWithDirectory

(* The provider ends up with the users and groups its client is entitled   *)
(* to, but for those that drifted, after failed requests, lost answers and *)
(* syncs that ended in the middle.                                         *)
ProviderConverges ==
  follows = "provider" => <>[](\A x \in User \cup Group : x \in drifted \/ InStep(x))
=============================================================================
