------------------------------ MODULE ScimSync ------------------------------
(***************************************************************************)
(* The SCIM sync (backend/internal/scimsync) of the client's provider: one *)
(* consistent reading of the database, the provider's resources, then a    *)
(* request per user and per group.  A resource is left alone when its copy *)
(* was written after its last change.  Requests fail, and the sync goes    *)
(* on; the process ends, and it does not.                                  *)
(***************************************************************************)
EXTENDS Accounts

CONSTANTS NoCopy, MaxFaults  \* bound on failed requests and crashes

ASSUME ScimAssumption ==
  /\ NoCopy \notin [name : Name, active : BOOLEAN]
  /\ \A S \in SUBSET User : NoCopy # S
  /\ MaxFaults \in Nat

VARIABLES
  userCopy,   \* the provider's users: name and active
  groupCopy,  \* its groups: the members it knows
  sync,       \* the sync in flight
  faults

scimVars == <<userCopy, groupCopy, sync, faults>>

Payload(u) == [name |-> users[u].name, active |-> users[u].active]

(* usersForClient and groupsForClient.                                     *)
UsersForClient == {u \in Users : InAllowedGroup(u)}
GroupsForClient == {g \in Groups : restricted => g \in allowed}

HasCopy == {u \in User : userCopy[u] # NoCopy}
HasGroupCopy == {g \in Group : groupCopy[g] # NoCopy}

(* A sync in flight: what it has left to write and to delete, and the      *)
(* users of the snapshot the provider does not know yet.                   *)
Idle == [users |-> <<>>, groups |-> <<>>, gone |-> {}, unknown |-> {},
         running |-> FALSE]
Syncing == [users : UNION {[S -> [name : Name, active : BOOLEAN]] : S \in SUBSET User},
            groups : UNION {[S -> SUBSET User] : S \in SUBSET Group},
            gone : SUBSET (User \cup Group), unknown : SUBSET User,
            running : {TRUE}]

\* Mutant: a copy is left alone whatever the times say.
Skips_Always(x, copies) == x \in copies

(* user.LastModified().Before(resource.GetMeta().LastModified).            *)
Skips(x, copies) == x \in copies /\ x \in settled

(* loadSyncSnapshot and the two lists, for the hourly alarm, for the one a *)
(* change sets, or for an administrator.  All that decides what is skipped *)
(* has been read by now.                                                   *)
LoadSnapshot ==
  /\ follows = "provider" /\ sync = Idle
  /\ sync' =
       [users |-> [u \in {v \in UsersForClient : ~Skips(v, HasCopy)} |-> Payload(u)],
        groups |-> [g \in {h \in GroupsForClient : ~Skips(h, HasGroupCopy)} |-> groups[g]],
        gone |-> (HasCopy \ UsersForClient) \cup (HasGroupCopy \ GroupsForClient),
        unknown |-> UsersForClient \ HasCopy, running |-> TRUE]
  /\ UNCHANGED <<accountVars, userCopy, groupCopy, faults>>

\* The provider writes a copy of x, which may be outdated by now.
Written(x, upToDate) ==
  /\ settled' = settled \cup {x}
  /\ drifted' = IF upToDate THEN drifted \ {x} ELSE drifted \cup {x}

WriteUser(u) ==
  /\ u \in DOMAIN sync.users
  /\ userCopy' = [userCopy EXCEPT ![u] = sync.users[u]]
  /\ Written(u, u \in Users /\ Payload(u) = sync.users[u])

(* The sync is done with x, having failed or not, and has yet to create    *)
(* the unknown.                                                            *)
Rest(x, unknown) ==
  [users |-> [u \in DOMAIN sync.users \ {x} |-> sync.users[u]],
   groups |-> [g \in DOMAIN sync.groups \ {x} |-> sync.groups[g]],
   gone |-> sync.gone \ {x}, unknown |-> unknown, running |-> sync.running]

(* syncUser.                                                               *)
PushUser(u) ==
  /\ WriteUser(u)
  /\ sync' = Rest(u, sync.unknown \ {u})
  /\ UNCHANGED <<rows, after, edits, groupCopy, faults>>

(* A user the snapshot does not have; the provider forgets his memberships.*)
DeleteUserCopy(u) ==
  /\ sync.users = <<>> /\ u \in sync.gone \cap User
  /\ userCopy' = [userCopy EXCEPT ![u] = NoCopy]
  /\ groupCopy' = [g \in Group |-> IF groupCopy[g] = NoCopy THEN NoCopy
                                   ELSE groupCopy[g] \ {u}]
  /\ drifted' = drifted \cup {g \in HasGroupCopy : u \in groupCopy[g]}
  /\ sync' = Rest(u, sync.unknown)
  /\ UNCHANGED <<rows, settled, after, edits, faults>>

UsersDone == sync.users = <<>> /\ sync.gone \cap User = {}

(* syncGroup: an error when a member is not known to the provider.         *)
PushGroup(g) ==
  /\ UsersDone /\ g \in DOMAIN sync.groups
  /\ IF sync.groups[g] \cap sync.unknown = {}
     THEN /\ groupCopy' = [groupCopy EXCEPT ![g] = sync.groups[g] \cap HasCopy]
          /\ Written(g, groups[g] = sync.groups[g])
     ELSE UNCHANGED <<settled, drifted, groupCopy>>
  /\ sync' = Rest(g, sync.unknown)
  /\ UNCHANGED <<rows, after, edits, userCopy, faults>>

DeleteGroupCopy(g) ==
  /\ UsersDone /\ sync.groups = <<>> /\ g \in sync.gone \cap Group
  /\ groupCopy' = [groupCopy EXCEPT ![g] = NoCopy]
  /\ sync' = Rest(g, sync.unknown)
  /\ UNCHANGED <<accountVars, userCopy, faults>>

Fault ==
  /\ sync.running
  /\ faults < MaxFaults /\ faults' = faults + 1

(* A request fails and the sync goes on with the next resource.            *)
FailRequest(x) ==
  /\ Fault
  /\ x \in DOMAIN sync.users \cup DOMAIN sync.groups \cup sync.gone
  /\ x \in Group => UsersDone
  /\ sync' = Rest(x, sync.unknown)
  /\ UNCHANGED <<accountVars, userCopy, groupCopy>>

(* The provider wrote the copy, but its answer is lost.                    *)
LoseAnswer(u) ==
  /\ Fault
  /\ WriteUser(u)
  /\ sync' = Rest(u, sync.unknown)
  /\ UNCHANGED <<rows, after, edits, groupCopy>>

FinishSync ==
  /\ sync.running /\ sync.users = <<>> /\ sync.groups = <<>> /\ sync.gone = {}
  /\ sync' = Idle
  /\ UNCHANGED <<accountVars, userCopy, groupCopy, faults>>

(* The process, or the request that asked for the sync, ends.              *)
AbortSync ==
  /\ Fault
  /\ sync' = Idle
  /\ UNCHANGED <<accountVars, userCopy, groupCopy>>

Push ==
  \/ \E u \in User : PushUser(u)
  \/ \E u \in User : DeleteUserCopy(u)
  \/ \E g \in Group : PushGroup(g)
  \/ \E g \in Group : DeleteGroupCopy(g)
  \/ FinishSync

ScimTypeOK ==
  /\ userCopy \in [User -> [name : Name, active : BOOLEAN] \cup {NoCopy}]
  /\ groupCopy \in [Group -> {NoCopy} \cup SUBSET User]
  /\ sync \in Syncing \cup {Idle} /\ faults \in 0..MaxFaults

(* What the next sync would leave alone is what the database says, so that *)
(* every change of a user and of a membership, by whichever handler or     *)
(* sync, made its user or group look changed.  Drifted resources are the   *)
(* exceptions: pushed from a snapshot that a change had overtaken, deleted *)
(* as members with their group left behind, or enabled without a trace.    *)
SkipIsSafe ==
  /\ \A u \in (HasCopy \cap Users \cap settled) \ drifted : userCopy[u] = Payload(u)
  /\ \A g \in (HasGroupCopy \cap Groups \cap settled) \ drifted :
       groupCopy[g] = groups[g]

\* The provider's copy of x is what the client is entitled to.
InStep(x) ==
  IF x \in User
  THEN userCopy[x] = IF x \in UsersForClient THEN Payload(x) ELSE NoCopy
  ELSE groupCopy[x] = IF x \in GroupsForClient THEN groups[x] ELSE NoCopy
=============================================================================
