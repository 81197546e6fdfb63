------------------------------ MODULE Accounts ------------------------------
(***************************************************************************)
(* Users, user groups and the group restriction of one OIDC client         *)
(* (backend/internal/service: UserService, UserGroupService, OidcService), *)
(* as the parts that follow every change of them see them: the directory   *)
(* sync (LdapSync), the notifications of relying parties (LogoutNotices)   *)
(* and the SCIM sync (ScimSync).  The last two read the accounts and not   *)
(* each other: a behaviour follows the client or the provider.             *)
(*                                                                         *)
(* Every handler is one transaction and, after its commit, a call that     *)
(* looks up whom to notify: the commit leaves a notice in `after`, which a *)
(* crash loses.  The call that schedules a SCIM sync only makes sooner     *)
(* what the hourly alarm does anyway.                                      *)
(*                                                                         *)
(* UpdatedAt matters only against the time a provider last wrote its copy: *)
(* `settled` holds the users and groups whose copy is the later of the two.*)
(***************************************************************************)
EXTENDS Naturals, FiniteSets

CONSTANTS
  User, Group, Name,
  Entry,          \* unique identifiers of the directory's users
  NoEntry, NoUser, NoGroup, NoName,
  LdapGroup,      \* the group the directory manages
  DefaultGroups,  \* SignupDefaultUserGroupIDs
  MaxEdits        \* bound on the changes made here and in the directory

ASSUME AccountsAssumption ==
  /\ NoEntry \notin Entry /\ NoName \notin Name
  /\ LdapGroup \in Group /\ DefaultGroups \subseteq Group \ {LdapGroup}
  /\ User \cap Group = {} /\ MaxEdits \in [{"client", "provider"} -> Nat]
  /\ NoUser \notin [name : Name, active : BOOLEAN, entry : Entry \cup {NoEntry}]
  /\ \A S \in SUBSET User : NoGroup # S

VARIABLES
  follows,     \* what a behaviour follows: the client, or the provider
  users,       \* User -> row, NoUser when there is none
  groups,      \* Group -> members, NoGroup when there is none
  restricted,  \* the client admits the members of the allowed groups only
  allowed,     \* its allowed groups
  authorized,  \* users with an authorization of the client
  settled,     \* users and groups older than their copy at the provider
  drifted,     \* history: settled users and groups that may differ from it
  after,       \* what committed handlers still have to do
  edits

rows == <<users, groups, restricted, allowed, authorized>>
accountVars == <<users, groups, restricted, allowed, authorized, settled,
                 drifted, after, edits>>

Row == [name : Name, active : BOOLEAN, entry : Entry \cup {NoEntry}]

(* Whom a committed handler notifies: users resolved in its transaction;   *)
(* users whose clients are all told; users, or with `anyone` everybody,    *)
(* that the group restriction now keeps out.                               *)
Notice == [prepared : SUBSET User, told : SUBSET User, lost : SUBSET User,
           anyone : BOOLEAN]
NoNotice == [prepared |-> {}, told |-> {}, lost |-> {}, anyone |-> FALSE]

Users == {u \in User : users[u] # NoUser}
Groups == {g \in Group : groups[g] # NoGroup}
GroupsOf(u) == {g \in Groups : u \in groups[g]}
Taken(n, u) == \E v \in Users \ {u} : users[v].name = n

(* IsUserGroupAllowedToAuthorize, and an account that is not disabled.     *)
InAllowedGroup(u) == ~restricted \/ GroupsOf(u) \cap allowed # {}
MayUse(u) == u \in Users /\ users[u].active /\ InAllowedGroup(u)

\* The memberships of u become gs, as Association("UserGroups").Replace does.
Replaced(u, gs) ==
  [g \in Group |-> IF groups[g] = NoGroup THEN NoGroup
                   ELSE IF g \in gs THEN groups[g] \cup {u}
                   ELSE groups[g] \ {u}]

(* touchUserGroups: a group is newer than its copy again.                  *)
Touched(gs) == settled \ gs

Notify(notice) ==
  after' = IF follows = "client" /\ notice # NoNotice THEN after \cup {notice}
           ELSE after

Committed(notice) ==
  /\ edits < MaxEdits[follows] /\ edits' = edits + 1
  /\ Notify(notice)
  /\ UNCHANGED drifted

(* applyDefaultGroups: the groups asked for or, when none is, the default  *)
(* ones that still exist.                                                  *)
Joined(gs) == (IF gs = {} THEN DefaultGroups ELSE gs) \cap Groups

CreateUser(u, n, gs) ==
  /\ users[u] = NoUser /\ ~Taken(n, u)
  /\ LET joined == Joined(gs) IN
     /\ users' = [users EXCEPT ![u] =
                    [name |-> n, active |-> TRUE, entry |-> NoEntry]]
     /\ groups' = Replaced(u, joined)
     /\ settled' = Touched(joined) \ {u}
  /\ Committed(NoNotice)
  /\ UNCHANGED <<restricted, allowed, authorized>>

(* UpdateUserInternal for an administrator: of a user of the directory     *)
(* only the locale may change.                                             *)
Updated(u, n, active) ==
  IF users[u].entry # NoEntry THEN users[u]
  ELSE [users[u] EXCEPT !.name = n, !.active = active]

(* UpdateUser.  The time of change moves in either case.                   *)
UpdateUser(u, n, active) ==
  /\ u \in Users
  /\ LET changed == Updated(u, n, active) IN
     /\ ~Taken(changed.name, u)
     /\ users' = [users EXCEPT ![u] = changed]
     /\ Committed([NoNotice EXCEPT !.told =
          IF users[u].active /\ ~changed.active THEN {u} ELSE {}])
  /\ settled' = settled \ {u}
  /\ UNCHANGED <<groups, restricted, allowed, authorized>>

(* DeleteUserInternal: the groups the user leaves are touched, and the     *)
(* authorization goes with the row.                                        *)
DeleteUser(u) ==
  /\ u \in Users
  /\ users[u].active => users[u].entry = NoEntry
  /\ users' = [users EXCEPT ![u] = NoUser]
  /\ groups' = Replaced(u, {})
  /\ authorized' = authorized \ {u}
  /\ settled' = Touched(GroupsOf(u)) \ {u}
  /\ Committed([NoNotice EXCEPT !.prepared = {u} \cap authorized])
  /\ UNCHANGED <<restricted, allowed>>

\* Mutant: only the groups the user joins are touched.
UpdateUserGroups_TouchJoined(u, gs) ==
  /\ u \in Users /\ gs \subseteq Groups
  /\ groups' = Replaced(u, gs)
  /\ settled' = Touched(gs)
  /\ Committed([NoNotice EXCEPT !.lost =
                  IF GroupsOf(u) \subseteq gs THEN {} ELSE {u}])
  /\ UNCHANGED <<users, restricted, allowed, authorized>>

(* UpdateUserGroups: the groups joined and those left are touched; only a  *)
(* group that is left can cost the user access.                            *)
UpdateUserGroups(u, gs) ==
  /\ u \in Users /\ gs \subseteq Groups
  /\ groups' = Replaced(u, gs)
  /\ settled' = Touched(GroupsOf(u) \cup gs)
  /\ Committed([NoNotice EXCEPT !.lost =
                  IF GroupsOf(u) \subseteq gs THEN {} ELSE {u}])
  /\ UNCHANGED <<users, restricted, allowed, authorized>>

CreateGroup(g) ==
  /\ g # LdapGroup /\ groups[g] = NoGroup
  /\ groups' = [groups EXCEPT ![g] = {}]
  /\ settled' = settled \ {g}
  /\ Committed(NoNotice)
  /\ UNCHANGED <<users, restricted, allowed, authorized>>

(* updateInternal: another display name, which the model leaves out; a     *)
(* group of the directory is refused.                                      *)
UpdateGroup(g) ==
  /\ g \in Groups \ {LdapGroup}
  /\ settled' = settled \ {g}
  /\ Committed(NoNotice)
  /\ UNCHANGED rows

(* UserGroupService.Delete: the members are captured before the delete.    *)
DeleteGroup(g) ==
  /\ g \in Groups \ {LdapGroup}
  /\ groups' = [groups EXCEPT ![g] = NoGroup]
  /\ allowed' = allowed \ {g}
  /\ settled' = settled \ {g}
  /\ Committed([NoNotice EXCEPT !.lost = groups[g]])
  /\ UNCHANGED <<users, restricted, authorized>>

(* UpdateUsers, for groups of the directory too.                           *)
UpdateGroupUsers(g, us) ==
  /\ g \in Groups /\ us \subseteq Users
  /\ groups' = [groups EXCEPT ![g] = us]
  /\ settled' = settled \ {g}
  /\ Committed([NoNotice EXCEPT !.lost = groups[g] \ us])
  /\ UNCHANGED <<users, restricted, allowed, authorized>>

(* UpdateAllowedOidcClient, from the side of the group: the group is saved *)
(* with the time of change it had.                                         *)
UpdateAllowedOidcClient(g, isAllowed) ==
  /\ g \in Groups
  /\ allowed' = IF isAllowed THEN allowed \cup {g} ELSE allowed \ {g}
  /\ Committed([NoNotice EXCEPT !.anyone =
                  restricted /\ g \in allowed /\ ~isAllowed])
  /\ UNCHANGED <<users, groups, restricted, authorized, settled>>

\* Mutant: nobody is notified when the allowed groups of a client change.
UpdateAllowedUserGroups_Silent(gs) ==
  /\ gs \subseteq Groups
  /\ allowed' = gs
  /\ Committed(NoNotice)
  /\ UNCHANGED <<users, groups, restricted, authorized, settled>>

(* OidcService.UpdateAllowedUserGroups, from the side of the client.       *)
UpdateAllowedUserGroups(gs) ==
  /\ gs \subseteq Groups
  /\ allowed' = gs
  /\ Committed([NoNotice EXCEPT !.anyone = restricted])
  /\ UNCHANGED <<users, groups, restricted, authorized, settled>>

(* UpdateClient: lifting the restriction clears the allowed groups.        *)
UpdateClient(restrict) ==
  /\ restricted' = restrict
  /\ allowed' = IF restrict THEN allowed ELSE {}
  /\ Committed([NoNotice EXCEPT !.anyone = ~restricted /\ restrict])
  /\ UNCHANGED <<users, groups, authorized, settled>>

(* RevokeAuthorizedClient.                                                 *)
RevokeAuthorizedClient(u) ==
  /\ u \in authorized
  /\ authorized' = authorized \ {u}
  /\ Committed([NoNotice EXCEPT !.prepared = {u}])
  /\ UNCHANGED <<users, groups, restricted, allowed, settled>>

Administer ==
  \/ \E u \in User, n \in Name, gs \in SUBSET Groups : CreateUser(u, n, gs)
  \/ \E u \in User, n \in Name, active \in BOOLEAN : UpdateUser(u, n, active)
  \/ \E u \in User : DeleteUser(u)
  \/ \E u \in User, gs \in SUBSET Groups : UpdateUserGroups(u, gs)
  \/ \E g \in Group : CreateGroup(g)
  \/ \E g \in Group : UpdateGroup(g)
  \/ \E g \in Group : DeleteGroup(g)
  \/ \E g \in Group, us \in SUBSET Users : UpdateGroupUsers(g, us)
  \/ \E g \in Group, a \in BOOLEAN : UpdateAllowedOidcClient(g, a)
  \/ \E gs \in SUBSET Groups : UpdateAllowedUserGroups(gs)
  \/ \E r \in BOOLEAN : UpdateClient(r)
  \/ \E u \in User : RevokeAuthorizedClient(u)

AccountsTypeOK ==
  /\ users \in [User -> Row \cup {NoUser}]
  /\ groups \in [Group -> {NoGroup} \cup SUBSET User]
  /\ restricted \in BOOLEAN /\ allowed \subseteq Groups
  /\ authorized \subseteq Users
  /\ settled \subseteq User \cup Group /\ drifted \subseteq User \cup Group
  /\ after \subseteq Notice
  /\ edits \in 0..MaxEdits[follows]
  /\ \A g \in Groups : groups[g] \subseteq Users
  /\ \A u \in Users : ~Taken(users[u].name, u)
=============================================================================
