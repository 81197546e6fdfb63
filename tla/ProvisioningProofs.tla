------------------------- MODULE ProvisioningProofs -------------------------
(***************************************************************************)
(* Proofs about Provisioning, for any users, groups, names and directory   *)
(* entries, any number of changes, readings and faults, and a database of  *)
(* either kind.                                                            *)
(***************************************************************************)
EXTENDS Provisioning, TLAPS

-----------------------------------------------------------------------------
(* The inductive invariants.                                               *)

(* The types the proofs need.  Members of a group and holders of an        *)
(* authorization are users the database has.                               *)
Typed ==
  /\ users \in [User -> Row \cup {NoUser}]
  /\ groups \in [Group -> {NoGroup} \cup SUBSET User]
  /\ \A g \in Groups : groups[g] \subseteq Users
  /\ restricted \in BOOLEAN /\ authorized \subseteq Users
  /\ directory \in Directory /\ fetched \subseteq Directory
  /\ transaction \in {Closed} \cup Transaction
  /\ jobs \in [User -> Nat]

(* What the loop of the LDAP sync has made of the users so far: it takes   *)
(* nobody away and disables nobody, and whom it changed is on one of its   *)
(* lists.                                                                  *)
LoopKeepsUsers ==
  transaction.open =>
    /\ transaction.entries \subseteq Listed(transaction.reading)
    /\ \A u \in Users :
         /\ transaction.rows[u] # NoUser
         /\ users[u].active => transaction.rows[u].active
    /\ \A u \in User : transaction.rows[u] = users[u]
                         \/ u \in transaction.changed \cup transaction.enabled

(* What a user can be told of by: a job, a notice with his name on it, the *)
(* end of one of the two, a notice about users who are disabled, and one   *)
(* about users who left a group or may all be kept out.                    *)
Named(u) == jobs[u] > 0 \/ u \in missed \/ \E n \in after : u \in n.prepared
Told(u) == Named(u) \/ \E n \in after : u \in n.told
Barred(u) == Told(u) \/ \E n \in after : u \in n.lost \/ n.anyone

(* Each way of losing access leaves a trace that holds until the user is   *)
(* told, whichever other way he loses it by in the meantime: it must not   *)
(* be one the later loss makes void.                                       *)
LossesLeaveTraces ==
  /\ follows = "client" \/ signedIn = {}
  /\ \A u \in signedIn :
       /\ u \in User
       /\ u \notin authorized => Named(u)
       /\ u \in authorized /\ ~users[u].active => Told(u)
       /\ u \in authorized /\ ~InAllowedGroup(u) => Barred(u)

(* The sync in flight has in its groups only users whom the provider knows *)
(* or whom it has yet to create or failed to, and none it deletes.         *)
SnapshotIsWhole ==
  /\ userCopy \in [User -> [name : Name, active : BOOLEAN] \cup {NoCopy}]
  /\ groupCopy \in [Group -> {NoCopy} \cup SUBSET User]
  /\ sync = [users |-> sync.users, groups |-> sync.groups, gone |-> sync.gone,
             unknown |-> sync.unknown, running |-> sync.running]
  /\ \A u \in DOMAIN sync.users : sync.users[u] \in [name : Name, active : BOOLEAN]
  /\ \A g \in DOMAIN sync.groups :
       /\ sync.groups[g] \subseteq HasCopy \cup sync.unknown
       /\ sync.groups[g] \cap sync.gone = {}

ProvisioningInv ==
  /\ Typed /\ LoopKeepsUsers
  /\ LossesLeaveTraces
  /\ SnapshotIsWhole /\ SkipIsSafe

-----------------------------------------------------------------------------
(* Lemmas.                                                                 *)

LEMMA ProvisioningInit == Init => ProvisioningInv
<1> SUFFICES ASSUME Init PROVE ProvisioningInv
  OBVIOUS
<1> USE ProvisioningAssumption DEF Init
<1>1. Typed
  BY DEF Typed, Groups, Users, Closed
<1>2. LoopKeepsUsers /\ LossesLeaveTraces
  BY DEF LoopKeepsUsers, LossesLeaveTraces, Closed
<1>3. SnapshotIsWhole /\ SkipIsSafe
  BY DEF SnapshotIsWhole, SkipIsSafe, Idle
<1> QED BY <1>1, <1>2, <1>3 DEF ProvisioningInv

(* Typed, said of the users and groups one by one.                         *)
LEMMA Kinds ==
  ASSUME Typed
  PROVE  /\ \A u \in Users : u \in User /\ users[u] \in Row
         /\ \A g \in Groups : g \in Group /\ groups[g] \in SUBSET User
         /\ NoUser \notin Row /\ NoGroup \notin SUBSET User
  BY AccountsAssumption DEF Typed, Users, Groups, Row

(* Copies stay right where what is settled afterwards is what was before,  *)
(* and the rest has drifted.                                               *)
LEMMA CopiesKept ==
  ASSUME SnapshotIsWhole, SkipIsSafe, UNCHANGED <<userCopy, groupCopy, sync>>,
         settled' \subseteq settled,
         \A u \in User : u \in settled' \ drifted' =>
           u \notin drifted /\ (users'[u] = users[u] \/ users'[u] = NoUser),
         \A g \in Group : g \in settled' \ drifted' =>
           g \notin drifted /\ (groups'[g] = groups[g] \/ groups'[g] = NoGroup)
  PROVE  SnapshotIsWhole' /\ SkipIsSafe'
<1>1. SnapshotIsWhole'
  BY DEF SnapshotIsWhole, HasCopy
<1>2. SkipIsSafe'
  BY DEF SkipIsSafe, HasCopy, HasGroupCopy, Users, Groups, Payload
<1> QED BY <1>1, <1>2

(* Traces are left where the notices that there are stay, and who loses    *)
(* access by this step is named in one of them.                            *)
LEMMA TracesKept ==
  ASSUME LossesLeaveTraces, UNCHANGED <<follows, signedIn, jobs, missed>>,
         after \subseteq after', authorized' \subseteq authorized,
         \A u \in signedIn : u \in authorized =>
           /\ u \notin authorized' => Named(u)'
           /\ u \in authorized' /\ ~users'[u].active => ~users[u].active \/ Told(u)'
           /\ u \in authorized' /\ ~InAllowedGroup(u)' =>
                ~InAllowedGroup(u) \/ Barred(u)'
  PROVE  LossesLeaveTraces'
<1>1. \A u : /\ Named(u) => Named(u)'
             /\ Told(u) => Told(u)'
             /\ Barred(u) => Barred(u)'
  BY DEF Named, Told, Barred
<1> QED BY <1>1 DEF LossesLeaveTraces

(* A notice of a commit is there afterwards, and those that were.          *)
LEMMA NoticeLeft ==
  ASSUME NEW n, Notify(n)
  PROVE  /\ after \subseteq after'
         /\ follows = "client" => n = NoNotice \/ n \in after'
  BY DEF Notify

(* A commit leaves the traces its notice says.                             *)
LEMMA CommitTells ==
  ASSUME NEW S, NEW b \in BOOLEAN, follows = "client"
  PROVE  /\ Notify([NoNotice EXCEPT !.prepared = S]) =>
              \A u \in S : \E n \in after' : u \in n.prepared
         /\ Notify([NoNotice EXCEPT !.told = S]) =>
              \A u \in S : \E n \in after' : u \in n.told
         /\ Notify([NoNotice EXCEPT !.lost = S]) =>
              \A u \in S : \E n \in after' : u \in n.lost
         /\ Notify([NoNotice EXCEPT !.anyone = b]) =>
              (b => \E n \in after' : n.anyone)
<1> USE DEF Notify, NoNotice
<1>1. Notify([NoNotice EXCEPT !.prepared = S]) =>
        \A u \in S : \E n \in after' : u \in n.prepared
  OBVIOUS
<1>2. Notify([NoNotice EXCEPT !.told = S]) =>
        \A u \in S : \E n \in after' : u \in n.told
  OBVIOUS
<1>3. Notify([NoNotice EXCEPT !.lost = S]) =>
        \A u \in S : \E n \in after' : u \in n.lost
  OBVIOUS
<1>4. Notify([NoNotice EXCEPT !.anyone = b]) => (b => \E n \in after' : n.anyone)
  OBVIOUS
<1> QED BY <1>1, <1>2, <1>3, <1>4

(* What the administrators leave alone.                                    *)
LEMMA LoopRests ==
  ASSUME ~transaction.open, UNCHANGED transaction
  PROVE  LoopKeepsUsers'
  BY DEF LoopKeepsUsers

(* The rows of a user and the members of the groups he joins or leaves.    *)
LEMMA Memberships ==
  ASSUME Typed, NEW u \in User, NEW gs \in SUBSET Group, groups' = Replaced(u, gs)
  PROVE  /\ groups' \in [Group -> {NoGroup} \cup SUBSET User]
         /\ Groups' = Groups
         /\ \A g \in Groups : groups'[g] \subseteq groups[g] \cup {u}
         /\ gs = {} => \A g \in Groups : groups'[g] \subseteq groups[g] \ {u}
         /\ \A v \in User \ {u} : GroupsOf(v)' = GroupsOf(v)
         /\ GroupsOf(u)' = gs \cap Groups
         /\ \A g \in Group \ (gs \cup GroupsOf(u)) : groups'[g] = groups[g]
<1>1. groups' \in [Group -> {NoGroup} \cup SUBSET User]
  BY DEF Replaced, Typed
<1>2. /\ Groups' = Groups
      /\ \A g \in Groups : groups'[g] = IF g \in gs THEN groups[g] \cup {u}
                                        ELSE groups[g] \ {u}
  BY AccountsAssumption DEF Replaced, Typed, Groups
<1>3. \A v \in User \ {u} : GroupsOf(v)' = GroupsOf(v)
  BY <1>2 DEF GroupsOf
<1>4. GroupsOf(u)' = gs \cap Groups
  BY <1>2 DEF GroupsOf
<1>5. \A g \in Group \ (gs \cup GroupsOf(u)) : groups'[g] = groups[g]
  <2> SUFFICES ASSUME NEW g \in Group, g \notin gs, g \notin GroupsOf(u)
               PROVE  groups'[g] = groups[g]
    OBVIOUS
  <2>1. CASE g \in Groups
    <3>1. u \notin groups[g]
      BY <2>1 DEF GroupsOf
    <3> QED BY <2>1, <3>1, <1>2
  <2>2. CASE g \notin Groups
    BY <2>2, <1>2 DEF Groups
  <2> QED BY <2>1, <2>2
<1>6. /\ \A g \in Groups : groups'[g] \subseteq groups[g] \cup {u}
      /\ gs = {} => \A g \in Groups : groups'[g] \subseteq groups[g] \ {u}
  BY <1>2
<1> QED BY <1>1, <1>2, <1>3, <1>4, <1>5, <1>6

(* The steps that change whom the restriction keeps out.                   *)
LEMMA RestrictionStep ==
  ASSUME ProvisioningInv, ~transaction.open,
         UNCHANGED <<follows, ldapVars, logoutVars, scimVars>>,
         UNCHANGED <<users, groups, authorized, settled, drifted>>,
         restricted' \in BOOLEAN,
         NEW b \in BOOLEAN, Notify([NoNotice EXCEPT !.anyone = b]),
         b \/ ~restricted' \/ (restricted /\ \A g \in allowed : g \in Groups => g \in allowed')
  PROVE  ProvisioningInv'
<1> USE DEF ProvisioningInv
<1>1. /\ UNCHANGED <<follows, directory, fetched, transaction, signedIn, jobs, missed>>
      /\ UNCHANGED <<userCopy, groupCopy, sync>>
  BY DEF ldapVars, logoutVars, scimVars
<1>2. LoopKeepsUsers'
  BY <1>1, LoopRests
<1>3. after \subseteq after'
  BY NoticeLeft
<1>4. follows = "client" /\ b => \E m \in after' : m.anyone
  BY CommitTells
<1>5. Users' = Users /\ Groups' = Groups
  BY DEF Users, Groups
<1>6. Typed'
  BY <1>1, <1>5 DEF Typed
<1>7. \A v \in signedIn : ~InAllowedGroup(v)' => ~InAllowedGroup(v) \/ Barred(v)'
  BY <1>1, <1>4, <1>5 DEF InAllowedGroup, GroupsOf, Barred, LossesLeaveTraces
<1>8. LossesLeaveTraces'
  BY <1>1, <1>3, <1>7, TracesKept DEF LossesLeaveTraces
<1>9. SnapshotIsWhole' /\ SkipIsSafe'
  BY <1>1, CopiesKept
<1> QED BY <1>2, <1>6, <1>8, <1>9

(* The steps of the handlers of users and groups.                          *)
LEMMA AdministerStep ==
  ASSUME ProvisioningInv, ~transaction.open, Administer,
         UNCHANGED <<follows, ldapVars, logoutVars, scimVars>>
  PROVE  ProvisioningInv'
<1> USE DEF ProvisioningInv
<1>1. /\ UNCHANGED <<follows, directory, fetched, transaction, signedIn, jobs, missed>>
      /\ UNCHANGED <<userCopy, groupCopy, sync>>
  BY DEF ldapVars, logoutVars, scimVars
<1>2. LoopKeepsUsers'
  BY <1>1, LoopRests
<1>0. Typed /\ NoUser \notin Row /\ NoGroup \notin SUBSET User
  BY Kinds
<1>3. CASE \E u \in User, n \in Name, gs \in SUBSET Groups : CreateUser(u, n, gs)
  <2>1. PICK u \in User, n \in Name, gs \in SUBSET Groups : CreateUser(u, n, gs)
    BY <1>3
  <2> DEFINE joined == Joined(gs)
             row == [name |-> n, active |-> TRUE, entry |-> NoEntry]
  <2>2. /\ users[u] = NoUser
        /\ users' = [users EXCEPT ![u] = row]
        /\ groups' = Replaced(u, joined) /\ settled' = (settled \ joined) \ {u}
        /\ UNCHANGED <<restricted, allowed, authorized, drifted>>
        /\ Notify(NoNotice)
    BY <2>1 DEF CreateUser, Committed, Touched
  <2> HIDE DEF joined
  <2>3. joined \in SUBSET Group /\ after \subseteq after'
    BY <2>2, NoticeLeft DEF Joined, Groups, joined
  <2>4. row \in Row
    BY DEF Row
  <2> HIDE DEF row
  <2>5. Users' = Users \cup {u} /\ u \notin Users
    BY <1>0, <2>2, <2>4 DEF Users, Typed
  <2>6. GroupsOf(u) = {}
    BY <2>5 DEF Typed, GroupsOf
  <2>7. /\ groups' \in [Group -> {NoGroup} \cup SUBSET User] /\ Groups' = Groups
        /\ \A v \in User \ {u} : GroupsOf(v)' = GroupsOf(v)
        /\ \A g \in Group \ joined : groups'[g] = groups[g]
        /\ \A g \in Groups : groups'[g] \subseteq groups[g] \cup {u}
    BY <2>2, <2>3, <2>6, Memberships
  <2>8. Typed'
    BY <1>1, <2>2, <2>4, <2>5, <2>7 DEF Typed
  <2>9. LossesLeaveTraces'
    BY <1>1, <2>2, <2>3, <2>5, <2>7, TracesKept DEF Typed, InAllowedGroup, LossesLeaveTraces
  <2>10. SnapshotIsWhole' /\ SkipIsSafe'
    BY <1>1, <2>2, <2>7, CopiesKept DEF Typed
  <2> QED BY <1>2, <2>8, <2>9, <2>10
<1>4. CASE \E u \in User, n \in Name, active \in BOOLEAN : UpdateUser(u, n, active)
  <2>1. PICK u \in User, n \in Name, active \in BOOLEAN : UpdateUser(u, n, active)
    BY <1>4
  <2> DEFINE row == Updated(u, n, active)
             told == IF users[u].active /\ ~row.active THEN {u} ELSE {}
  <2>2. /\ u \in Users
        /\ users' = [users EXCEPT ![u] = row] /\ settled' = settled \ {u}
        /\ UNCHANGED <<groups, restricted, allowed, authorized, drifted>>
        /\ Notify([NoNotice EXCEPT !.told = told])
    BY <2>1 DEF UpdateUser, Committed
  <2>3. row \in Row
    BY <2>2, Kinds DEF Updated, Row
  <2> HIDE DEF row
  <2>4. Users' = Users /\ Groups' = Groups /\ \A v \in User : GroupsOf(v)' = GroupsOf(v)
    BY <1>0, <2>2, <2>3 DEF Users, Typed, Groups, GroupsOf
  <2>5. /\ after \subseteq after'
        /\ follows = "client" => \A v \in told : \E m \in after' : v \in m.told
    BY <2>2, NoticeLeft, CommitTells
  <2>6. Typed'
    BY <1>1, <2>2, <2>3, <2>4 DEF Typed
  <2>7. \A v \in signedIn : ~users'[v].active => ~users[v].active \/ Told(v)'
    BY <1>1, <2>2, <2>5 DEF Told, Typed, LossesLeaveTraces
  <2>8. LossesLeaveTraces'
    BY <1>1, <2>2, <2>4, <2>5, <2>7, TracesKept DEF InAllowedGroup, LossesLeaveTraces
  <2>9. SnapshotIsWhole' /\ SkipIsSafe'
    BY <1>1, <2>2, CopiesKept DEF Typed
  <2> QED BY <1>2, <2>6, <2>8, <2>9
<1>5. CASE \E u \in User : DeleteUser(u)
  <2>1. PICK u \in User : DeleteUser(u)
    BY <1>5
  <2> DEFINE S == {u} \cap authorized
  <2>2. /\ u \in Users
        /\ users' = [users EXCEPT ![u] = NoUser] /\ groups' = Replaced(u, {})
        /\ authorized' = authorized \ {u} /\ settled' = (settled \ GroupsOf(u)) \ {u}
        /\ UNCHANGED <<restricted, allowed, drifted>>
        /\ Notify([NoNotice EXCEPT !.prepared = S])
    BY <2>1 DEF DeleteUser, Committed, Touched
  <2>3. Users' = Users \ {u}
    BY <2>2 DEF Users, Typed
  <2>4. /\ groups' \in [Group -> {NoGroup} \cup SUBSET User] /\ Groups' = Groups
        /\ \A v \in User \ {u} : GroupsOf(v)' = GroupsOf(v)
        /\ \A g \in Group \ GroupsOf(u) : groups'[g] = groups[g]
        /\ \A g \in Groups : groups'[g] \subseteq groups[g] \ {u}
    BY <2>2, Memberships
  <2>5. /\ after \subseteq after'
        /\ follows = "client" => \A v \in S : \E m \in after' : v \in m.prepared
    BY <2>2, NoticeLeft, CommitTells
  <2>6. Typed'
    BY <1>1, <2>2, <2>3, <2>4 DEF Typed
  <2>7. \A v \in signedIn : v \in authorized /\ v \notin authorized' => Named(v)'
    BY <2>2, <2>5 DEF Named, LossesLeaveTraces
  <2>8. LossesLeaveTraces'
    BY <1>1, <2>2, <2>4, <2>5, <2>7, TracesKept DEF Typed, InAllowedGroup, LossesLeaveTraces
  <2>9. SnapshotIsWhole' /\ SkipIsSafe'
    BY <1>1, <2>2, <2>4, CopiesKept DEF Typed
  <2> QED BY <1>2, <2>6, <2>8, <2>9
<1>6. CASE \E u \in User, gs \in SUBSET Groups : UpdateUserGroups(u, gs)
  <2>1. PICK u \in User, gs \in SUBSET Groups : UpdateUserGroups(u, gs)
    BY <1>6
  <2> DEFINE S == IF GroupsOf(u) \subseteq gs THEN {} ELSE {u}
  <2>2. /\ u \in Users /\ groups' = Replaced(u, gs)
        /\ settled' = settled \ (GroupsOf(u) \cup gs)
        /\ UNCHANGED <<users, restricted, allowed, authorized, drifted>>
        /\ Notify([NoNotice EXCEPT !.lost = S])
    BY <2>1 DEF UpdateUserGroups, Committed, Touched
  <2>3. gs \in SUBSET Group /\ gs \cap Groups = gs /\ Users' = Users
    BY <2>2 DEF Groups, Users
  <2>4. /\ groups' \in [Group -> {NoGroup} \cup SUBSET User] /\ Groups' = Groups
        /\ \A v \in User \ {u} : GroupsOf(v)' = GroupsOf(v)
        /\ GroupsOf(u)' = gs
        /\ \A g \in Group \ (GroupsOf(u) \cup gs) : groups'[g] = groups[g]
        /\ \A g \in Groups : groups'[g] \subseteq groups[g] \cup {u}
    BY <2>2, <2>3, Memberships
  <2>5. /\ after \subseteq after'
        /\ follows = "client" => \A v \in S : \E m \in after' : v \in m.lost
    BY <2>2, NoticeLeft, CommitTells
  <2>6. Typed'
    BY <1>1, <2>2, <2>3, <2>4 DEF Typed
  <2>7. \A v \in signedIn : ~InAllowedGroup(v)' => ~InAllowedGroup(v) \/ Barred(v)'
    <3> SUFFICES ASSUME NEW v \in signedIn, ~InAllowedGroup(v)', InAllowedGroup(v)
                 PROVE  Barred(v)'
      OBVIOUS
    <3>1. v = u /\ ~(GroupsOf(u) \subseteq gs)
      BY <2>2, <2>4 DEF InAllowedGroup, LossesLeaveTraces
    <3> QED BY <1>1, <2>5, <3>1 DEF Barred, LossesLeaveTraces
  <2>8. LossesLeaveTraces'
    BY <1>1, <2>2, <2>5, <2>7, TracesKept DEF LossesLeaveTraces
  <2>9. SnapshotIsWhole' /\ SkipIsSafe'
    BY <1>1, <2>2, <2>4, CopiesKept DEF Typed
  <2> QED BY <1>2, <2>6, <2>8, <2>9
<1>7. CASE \E g \in Group : CreateGroup(g)
  <2>1. PICK g \in Group : CreateGroup(g)
    BY <1>7
  <2>2. /\ groups[g] = NoGroup /\ groups' = [groups EXCEPT ![g] = {}]
        /\ settled' = settled \ {g} /\ Notify(NoNotice)
        /\ UNCHANGED <<users, restricted, allowed, authorized, drifted>>
    BY <2>1 DEF CreateGroup, Committed
  <2>3. Users' = Users /\ Groups' = Groups \cup {g}
    BY <1>0, <2>2 DEF Users, Groups, Typed
  <2>4. \A v \in User : GroupsOf(v)' = GroupsOf(v)
    BY <2>2, <2>3 DEF GroupsOf, Groups, Typed
  <2>5. after \subseteq after'
    BY <2>2, NoticeLeft
  <2>6. Typed'
    BY <1>1, <2>2, <2>3 DEF Typed
  <2>7. LossesLeaveTraces'
    BY <1>1, <2>2, <2>4, <2>5, TracesKept DEF InAllowedGroup, LossesLeaveTraces
  <2>8. SnapshotIsWhole' /\ SkipIsSafe'
    BY <1>1, <2>2, CopiesKept DEF Typed
  <2> QED BY <1>2, <2>6, <2>7, <2>8
<1>8. CASE \E g \in Group : UpdateGroup(g)
  <2>1. PICK g \in Group : UpdateGroup(g)
    BY <1>8
  <2>2. /\ settled' = settled \ {g} /\ Notify(NoNotice)
        /\ UNCHANGED <<users, groups, restricted, allowed, authorized, drifted>>
    BY <2>1 DEF UpdateGroup, Committed, rows
  <2>3. after \subseteq after' /\ Users' = Users /\ Groups' = Groups
    BY <2>2, NoticeLeft DEF Users, Groups
  <2>4. Typed'
    BY <1>1, <2>2, <2>3 DEF Typed
  <2>5. LossesLeaveTraces'
    BY <1>1, <2>2, <2>3, TracesKept DEF InAllowedGroup, GroupsOf, LossesLeaveTraces
  <2>6. SnapshotIsWhole' /\ SkipIsSafe'
    BY <1>1, <2>2, CopiesKept
  <2> QED BY <1>2, <2>4, <2>5, <2>6
<1>9. CASE \E g \in Group : DeleteGroup(g)
  <2>1. PICK g \in Group : DeleteGroup(g)
    BY <1>9
  <2> DEFINE S == groups[g]
  <2>2. /\ groups[g] # NoGroup /\ groups' = [groups EXCEPT ![g] = NoGroup]
        /\ allowed' = allowed \ {g} /\ settled' = settled \ {g}
        /\ UNCHANGED <<users, restricted, authorized, drifted>>
        /\ Notify([NoNotice EXCEPT !.lost = S])
    BY <2>1 DEF DeleteGroup, Committed, Groups
  <2>3. Users' = Users /\ Groups' = Groups \ {g}
    BY <2>2 DEF Users, Groups, Typed
  <2>4. /\ after \subseteq after'
        /\ follows = "client" => \A v \in S : \E m \in after' : v \in m.lost
    BY <2>2, NoticeLeft, CommitTells
  <2>5. Typed'
    BY <1>1, <2>2, <2>3 DEF Typed
  <2>6. \A v \in signedIn : ~InAllowedGroup(v)' => ~InAllowedGroup(v) \/ Barred(v)'
    <3> SUFFICES ASSUME NEW v \in signedIn, ~InAllowedGroup(v)', InAllowedGroup(v)
                 PROVE  Barred(v)'
      OBVIOUS
    <3>1. v \in S
      BY <2>2, <2>3 DEF InAllowedGroup, GroupsOf, Groups, Typed
    <3> QED BY <1>1, <2>4, <3>1 DEF Barred, LossesLeaveTraces
  <2>7. LossesLeaveTraces'
    BY <1>1, <2>2, <2>4, <2>6, TracesKept DEF LossesLeaveTraces
  <2>8. SnapshotIsWhole' /\ SkipIsSafe'
    BY <1>1, <2>2, CopiesKept DEF Typed
  <2> QED BY <1>2, <2>5, <2>7, <2>8
<1>10. CASE \E g \in Group, us \in SUBSET Users : UpdateGroupUsers(g, us)
  <2>1. PICK g \in Group, us \in SUBSET Users : UpdateGroupUsers(g, us)
    BY <1>10
  <2> DEFINE S == groups[g] \ us
  <2>2. /\ groups[g] # NoGroup /\ groups' = [groups EXCEPT ![g] = us]
        /\ settled' = settled \ {g}
        /\ UNCHANGED <<users, restricted, allowed, authorized, drifted>>
        /\ Notify([NoNotice EXCEPT !.lost = S])
    BY <2>1 DEF UpdateGroupUsers, Committed, Groups
  <2>3. us \in SUBSET User /\ us # NoGroup
    BY <1>0 DEF Users
  <2>4. Users' = Users /\ Groups' = Groups
    BY <2>2, <2>3 DEF Users, Groups, Typed
  <2>5. /\ after \subseteq after'
        /\ follows = "client" => \A v \in S : \E m \in after' : v \in m.lost
    BY <2>2, NoticeLeft, CommitTells
  <2>6. Typed'
    BY <1>1, <2>2, <2>3, <2>4 DEF Typed
  <2>7. \A v \in signedIn : ~InAllowedGroup(v)' => ~InAllowedGroup(v) \/ Barred(v)'
    <3> SUFFICES ASSUME NEW v \in signedIn, ~InAllowedGroup(v)', InAllowedGroup(v)
                 PROVE  Barred(v)'
      OBVIOUS
    <3>1. v \in S
      BY <2>2, <2>4 DEF InAllowedGroup, GroupsOf, Groups, Typed
    <3> QED BY <1>1, <2>5, <3>1 DEF Barred, LossesLeaveTraces
  <2>8. LossesLeaveTraces'
    BY <1>1, <2>2, <2>5, <2>7, TracesKept DEF LossesLeaveTraces
  <2>9. SnapshotIsWhole' /\ SkipIsSafe'
    BY <1>1, <2>2, CopiesKept DEF Typed
  <2> QED BY <1>2, <2>6, <2>8, <2>9
<1>11. CASE \E g \in Group, a \in BOOLEAN : UpdateAllowedOidcClient(g, a)
  <2>1. PICK g \in Group, a \in BOOLEAN : UpdateAllowedOidcClient(g, a)
    BY <1>11
  <2> DEFINE b == restricted /\ g \in allowed /\ ~a
  <2>2. UNCHANGED <<users, groups, restricted, authorized, settled, drifted>>
    BY <2>1 DEF UpdateAllowedOidcClient, Committed
  <2>3. allowed' = IF a THEN allowed \cup {g} ELSE allowed \ {g}
    BY <2>1 DEF UpdateAllowedOidcClient
  <2>4. Notify([NoNotice EXCEPT !.anyone = b])
    BY <2>1 DEF UpdateAllowedOidcClient, Committed
  <2>5. restricted' \in BOOLEAN /\ b \in BOOLEAN
    BY <2>2 DEF Typed
  <2>6. b \/ ~restricted' \/ (restricted /\ \A h \in allowed : h \in allowed')
    BY <2>2, <2>3
  <2> HIDE DEF b
  <2> QED BY <2>2, <2>4, <2>5, <2>6, RestrictionStep
<1>12. CASE \E gs \in SUBSET Groups : UpdateAllowedUserGroups(gs)
  <2>1. PICK gs \in SUBSET Groups : UpdateAllowedUserGroups(gs)
    BY <1>12
  <2>2. UNCHANGED <<users, groups, restricted, authorized, settled, drifted>>
    BY <2>1 DEF UpdateAllowedUserGroups, Committed
  <2>3. Notify([NoNotice EXCEPT !.anyone = restricted])
    BY <2>1 DEF UpdateAllowedUserGroups, Committed
  <2>4. restricted' \in BOOLEAN /\ restricted \in BOOLEAN /\ (restricted \/ ~restricted')
    BY <2>2 DEF Typed
  <2> QED BY <2>2, <2>3, <2>4, RestrictionStep
<1>13. CASE \E r \in BOOLEAN : UpdateClient(r)
  <2>1. PICK r \in BOOLEAN : UpdateClient(r)
    BY <1>13
  <2> DEFINE b == ~restricted /\ r
  <2>2. UNCHANGED <<users, groups, authorized, settled, drifted>>
    BY <2>1 DEF UpdateClient, Committed
  <2>3. restricted' = r /\ allowed' = IF r THEN allowed ELSE {}
    BY <2>1 DEF UpdateClient
  <2>4. Notify([NoNotice EXCEPT !.anyone = b])
    BY <2>1 DEF UpdateClient, Committed
  <2>5. restricted' \in BOOLEAN /\ b \in BOOLEAN
    BY <2>3
  <2>6. b \/ ~restricted' \/ (restricted /\ \A h \in allowed : h \in allowed')
    BY <2>3
  <2> HIDE DEF b
  <2> QED BY <2>2, <2>4, <2>5, <2>6, RestrictionStep
<1>14. CASE \E u \in User : RevokeAuthorizedClient(u)
  <2>1. PICK u \in User : RevokeAuthorizedClient(u)
    BY <1>14
  <2>2. /\ authorized' = authorized \ {u}
        /\ UNCHANGED <<users, groups, restricted, allowed, settled, drifted>>
        /\ Notify([NoNotice EXCEPT !.prepared = {u}])
    BY <2>1 DEF RevokeAuthorizedClient, Committed
  <2>3. /\ after \subseteq after'
        /\ follows = "client" => \E m \in after' : u \in m.prepared
    BY <2>2, NoticeLeft, CommitTells
  <2>4. Users' = Users /\ Groups' = Groups
    BY <2>2 DEF Users, Groups
  <2>5. Typed'
    BY <1>1, <2>2, <2>4 DEF Typed
  <2>6. LossesLeaveTraces'
    BY <1>1, <2>2, <2>3, <2>4, TracesKept DEF InAllowedGroup, GroupsOf, Named, LossesLeaveTraces
  <2>7. SnapshotIsWhole' /\ SkipIsSafe'
    BY <1>1, <2>2, CopiesKept
  <2> QED BY <1>2, <2>5, <2>6, <2>7
<1> QED BY <1>3, <1>4, <1>5, <1>6, <1>7, <1>8, <1>9, <1>10, <1>11, <1>12, <1>13, <1>14
       DEF Administer

(* The steps that leave the accounts and what follows them alone.          *)
LEMMA AccountsRest ==
  ASSUME ProvisioningInv,
         UNCHANGED <<follows, users, groups, restricted, allowed, authorized, settled,
                     drifted, signedIn, jobs, missed, userCopy, groupCopy, sync>>,
         after \subseteq after',
         directory' \in Directory, fetched' \subseteq Directory,
         transaction' \in {Closed} \cup Transaction, LoopKeepsUsers'
  PROVE  ProvisioningInv'
<1> USE DEF ProvisioningInv
<1>1. Users' = Users /\ Groups' = Groups
  BY DEF Users, Groups
<1>2. Typed'
  BY <1>1 DEF Typed
<1>3. LossesLeaveTraces'
  BY <1>1, TracesKept DEF InAllowedGroup, GroupsOf
<1>4. SnapshotIsWhole' /\ SkipIsSafe'
  BY CopiesKept
<1> QED BY <1>2, <1>3, <1>4

LEMMA ReadStep ==
  ASSUME ProvisioningInv, ~transaction.open, LdapStep,
         UNCHANGED <<follows, logoutVars, scimVars>>
  PROVE  ProvisioningInv'
<1>1. UNCHANGED <<signedIn, jobs, missed, userCopy, groupCopy, sync>>
  BY DEF logoutVars, scimVars
<1>2. CASE FetchDesiredState
  <2>1. /\ fetched' = fetched \cup {directory}
        /\ UNCHANGED <<accountVars, directory, transaction>>
    BY <1>2 DEF FetchDesiredState
  <2>2. LoopKeepsUsers'
    BY <2>1, LoopRests
  <2> QED BY <1>1, <2>1, <2>2, AccountsRest DEF accountVars, ProvisioningInv, Typed
<1>3. CASE \E d \in fetched : BeginSync(d)
  <2>1. PICK d \in fetched : BeginSync(d)
    BY <1>3
  <2>2. /\ transaction' = [open |-> TRUE, reading |-> d, entries |-> Listed(d),
                           rows |-> users, changed |-> {}, enabled |-> {}]
        /\ UNCHANGED <<accountVars, directory, fetched>>
    BY <2>1 DEF BeginSync
  <2>3. d \in Directory /\ Listed(d) \in SUBSET Entry
    BY DEF ProvisioningInv, Typed, Listed
  <2>4. transaction' \in Transaction
    BY <2>2, <2>3 DEF ProvisioningInv, Typed, Transaction
  <2>5. LoopKeepsUsers'
    BY <2>2 DEF LoopKeepsUsers, Users, accountVars
  <2> QED BY <1>1, <2>2, <2>4, <2>5, AccountsRest DEF accountVars, ProvisioningInv, Typed
<1>4. CASE \E d \in Directory : Move(d)
  <2>1. PICK d \in Directory : Move(d)
    BY <1>4
  <2>2. /\ directory' = d
        /\ UNCHANGED <<users, groups, restricted, allowed, authorized, settled, drifted,
                       fetched, transaction>>
    BY <2>1 DEF Move, rows, Committed
  <2>3. Notify(NoNotice)
    BY <2>1 DEF Move, Committed
  <2>4. after \subseteq after' /\ LoopKeepsUsers'
    BY <2>2, <2>3, NoticeLeft, LoopRests
  <2> QED BY <1>1, <2>2, <2>4, AccountsRest DEF ProvisioningInv, Typed
<1> QED BY <1>2, <1>3, <1>4 DEF LdapStep

(* A turn of the loop: what the directory lists has a name, and of the     *)
(* user it is about the loop remembers that it changed him.                *)
LEMMA TurnStep ==
  ASSUME ProvisioningInv, transaction.open, NEW e \in Entry, ReconcileUser(e),
         UNCHANGED <<follows, logoutVars, scimVars>>
  PROVE  ProvisioningInv'
<1> DEFINE t == transaction
           n == t.reading.names[e]
<1>1. UNCHANGED <<signedIn, jobs, missed, userCopy, groupCopy, sync>>
  BY DEF logoutVars, scimVars
<1>2. PICK u \in User :
        /\ Linked(t.rows, e) # {} \/ t.rows[u] = NoUser
        /\ IF ~Clash(t.rows, n, u)
           THEN transaction' = Reconcile(t, e, u) /\ UNCHANGED fetched
           ELSE IF ~AbortsOnClash
           THEN transaction' = Skip(t, e, u) /\ UNCHANGED fetched
           ELSE transaction' = Closed /\ fetched' = fetched \ {t.reading}
  BY DEF ReconcileUser, Linked
<1>3. e \in t.entries /\ UNCHANGED <<accountVars, directory>>
  BY DEF ReconcileUser
<1>4. t \in Transaction /\ t.rows \in [User -> Row \cup {NoUser}]
  <2>1. transaction # Closed
    BY DEF Closed
  <2>2. t \in Transaction
    BY <2>1 DEF ProvisioningInv, Typed
  <2> QED BY <2>2 DEF Transaction
<1>5. n \in Name
  BY <1>3, <1>4 DEF ProvisioningInv, LoopKeepsUsers, Listed, Transaction, Directory
<1>6. /\ \A v \in Users : /\ t.rows[v] # NoUser
                          /\ users[v].active => t.rows[v].active
      /\ \A v \in User : t.rows[v] = users[v] \/ v \in t.changed \cup t.enabled
      /\ t.entries \subseteq Listed(t.reading)
      /\ NoUser \notin Row
  BY Kinds DEF ProvisioningInv, LoopKeepsUsers
<1>7. CASE transaction' = Reconcile(t, e, u) /\ UNCHANGED fetched
  <2> DEFINE row == [name |-> n, active |-> TRUE, entry |-> e]
  <2>1. row \in Row /\ row.active = TRUE
    BY <1>5 DEF Row
  <2>2. transaction' =
          [open |-> TRUE, reading |-> t.reading, entries |-> t.entries \ {e},
           rows |-> [t.rows EXCEPT ![u] = row], changed |-> t.changed \cup {u},
           enabled |-> t.enabled]
    BY <1>4, <1>7 DEF Reconcile, Transaction
  <2> HIDE DEF row
  <2>3. transaction' \in Transaction
    BY <1>4, <2>1, <2>2 DEF Transaction
  <2>4. LoopKeepsUsers'
    BY <1>3, <1>4, <1>6, <2>1, <2>2 DEF LoopKeepsUsers, Users, accountVars
  <2> QED BY <1>1, <1>3, <1>7, <2>3, <2>4, AccountsRest DEF accountVars, ProvisioningInv, Typed
<1>8. CASE transaction' = Skip(t, e, u) /\ UNCHANGED fetched
  <2>1. CASE t.rows[u] = NoUser
    <3>1. transaction' =
            [open |-> TRUE, reading |-> t.reading, entries |-> t.entries \ {e},
             rows |-> t.rows, changed |-> t.changed, enabled |-> t.enabled]
      BY <1>4, <1>8, <2>1 DEF Skip, Transaction
    <3>2. transaction' \in Transaction
      BY <1>4, <3>1 DEF Transaction
    <3>3. LoopKeepsUsers'
      BY <1>3, <1>6, <3>1 DEF LoopKeepsUsers, Users, accountVars
    <3> QED BY <1>1, <1>3, <1>8, <3>2, <3>3, AccountsRest DEF accountVars, ProvisioningInv, Typed
  <2>2. CASE t.rows[u] # NoUser
    <3> DEFINE row == [t.rows[u] EXCEPT !.active = TRUE]
               more == IF t.rows[u].active THEN t.enabled ELSE t.enabled \cup {u}
    <3>1. t.rows[u] \in Row
      BY <1>4, <2>2
    <3>2. row \in Row /\ row.active = TRUE /\ (t.rows[u].active => row = t.rows[u])
      BY <3>1 DEF Row
    <3>3. transaction' =
            [open |-> TRUE, reading |-> t.reading, entries |-> t.entries \ {e},
             rows |-> [t.rows EXCEPT ![u] = row], changed |-> t.changed, enabled |-> more]
      BY <1>4, <1>8, <2>2 DEF Skip, Transaction
    <3>4. more \in SUBSET User /\ t.enabled \subseteq more
          /\ (~t.rows[u].active => u \in more)
      BY <1>4 DEF Transaction
    <3> HIDE DEF row, more
    <3>5. transaction' \in Transaction
      BY <1>4, <3>2, <3>3, <3>4 DEF Transaction
    <3>6. LoopKeepsUsers'
      BY <1>3, <1>4, <1>6, <3>2, <3>3, <3>4 DEF LoopKeepsUsers, Users, accountVars
    <3> QED BY <1>1, <1>3, <1>8, <3>5, <3>6, AccountsRest DEF accountVars, ProvisioningInv, Typed
  <2> QED BY <2>1, <2>2
<1>9. CASE transaction' = Closed /\ fetched' = fetched \ {t.reading}
  <2>1. LoopKeepsUsers'
    BY <1>9 DEF LoopKeepsUsers, Closed
  <2> QED BY <1>1, <1>3, <1>9, <2>1, AccountsRest DEF accountVars, ProvisioningInv, Typed
<1> QED BY <1>2, <1>7, <1>8, <1>9

(* The commit of an LDAP sync tells of two things at once.                 *)
LEMMA SyncTells ==
  ASSUME NEW P, NEW L,
         Notify([prepared |-> P, told |-> {}, lost |-> L, anyone |-> FALSE])
  PROVE  /\ after \subseteq after'
         /\ follows = "client" =>
              /\ \A u \in P : \E n \in after' : u \in n.prepared
              /\ \A u \in L : \E n \in after' : u \in n.lost
  BY DEF Notify, NoNotice

(* What the transaction makes of the rows: whom the directory no longer    *)
(* has is gone or disabled, and nobody else loses anything.                *)
LEMMA RowsReconciled ==
  ASSUME ProvisioningInv, transaction.open, NEW soft \in BOOLEAN, NEW t, t = transaction,
         NEW gone, gone = Gone(t.reading, soft), NEW off, off = Disabled(t.reading, soft),
         NEW rs, rs = Reconciled(t, soft)
  PROVE  /\ gone \subseteq Users /\ off \subseteq Users
         /\ rs \in [User -> Row \cup {NoUser}]
         /\ \A u \in gone : rs[u] = NoUser
         /\ \A u \in Users \ gone : /\ rs[u] # NoUser
                                    /\ users[u].active /\ u \notin off => rs[u].active
         /\ \A u \in User : u \notin t.changed \cup t.enabled \cup off \cup gone =>
              rs[u] = users[u]
<1>1. t \in Transaction
  BY DEF ProvisioningInv, Typed, Closed
<1>2. /\ t.rows \in [User -> Row \cup {NoUser}] /\ NoUser \notin Row
      /\ \A u \in Users : t.rows[u] # NoUser /\ (users[u].active => t.rows[u].active)
      /\ \A u \in User : t.rows[u] = users[u] \/ u \in t.changed \cup t.enabled
  BY <1>1, Kinds DEF ProvisioningInv, LoopKeepsUsers, Transaction
<1>3. gone \subseteq Users /\ off \subseteq Users /\ Users \subseteq User
  BY DEF Gone, Disabled, Deprovisioned, Users
<1>4. \A u \in User : rs[u] = IF u \in gone THEN NoUser
                              ELSE IF u \in off THEN [t.rows[u] EXCEPT !.active = FALSE]
                              ELSE t.rows[u]
  BY DEF Reconciled
<1>5. \A r \in Row : [r EXCEPT !.active = FALSE] \in Row
  BY DEF Row
<1>6. \A u \in off : t.rows[u] \in Row /\ [t.rows[u] EXCEPT !.active = FALSE] \in Row
  BY <1>2, <1>3, <1>5
<1>7. rs \in [User -> Row \cup {NoUser}]
  <2>1. \A u \in User : rs[u] \in Row \cup {NoUser}
    BY <1>2, <1>4, <1>6
  <2>2. rs = [u \in User |-> rs[u]]
    BY DEF Reconciled
  <2> QED BY <2>1, <2>2
<1>8. \A u \in Users \ gone : rs[u] # NoUser
  <2> SUFFICES ASSUME NEW u \in Users, u \notin gone PROVE rs[u] # NoUser
    OBVIOUS
  <2>1. CASE u \in off
    <3>1. rs[u] = [t.rows[u] EXCEPT !.active = FALSE]
      BY <1>3, <1>4, <2>1
    <3>2. [t.rows[u] EXCEPT !.active = FALSE] \in Row
      BY <1>6, <2>1
    <3> QED BY <1>2, <3>1, <3>2
  <2>2. CASE u \notin off
    BY <1>2, <1>3, <1>4, <2>2
  <2> QED BY <2>1, <2>2
<1>9. \A u \in Users \ gone : users[u].active /\ u \notin off => rs[u].active
  BY <1>2, <1>3, <1>4
<1> QED BY <1>2, <1>3, <1>4, <1>7, <1>8, <1>9

LEMMA CommitStep ==
  ASSUME ProvisioningInv, transaction.open, NEW soft \in BOOLEAN, CommitSync(soft),
         UNCHANGED <<follows, logoutVars, scimVars>>
  PROVE  ProvisioningInv'
<1> DEFINE t == transaction
           d == t.reading
           rs == Reconciled(t, soft)
           gone == Gone(d, soft)
           off == Disabled(d, soft)
           members == IF d.group THEN DesiredMembers(d, rs) ELSE {}
           left == UNION {GroupsOf(u) : u \in gone}
           P == (off \cup gone) \cap authorized
           L == MembersBefore(d, soft) \ members
<1>1. UNCHANGED <<follows, signedIn, jobs, missed, userCopy, groupCopy, sync>>
  BY DEF logoutVars, scimVars
<1>2. /\ users' = rs
      /\ groups' = [g \in Group |->
           IF g = LdapGroup THEN ReconciledGroup(d, rs)
           ELSE IF groups[g] = NoGroup THEN NoGroup ELSE groups[g] \ gone]
      /\ allowed' = IF d.group THEN allowed ELSE allowed \ {LdapGroup}
      /\ authorized' = authorized \ gone
      /\ fetched' = fetched \ {d} /\ transaction' = Closed
      /\ UNCHANGED <<restricted, directory>>
  BY DEF CommitSync
<1>3. /\ settled' = (settled \ (left \cup {LdapGroup})) \ (t.changed \cup off \cup gone)
      /\ drifted' = (drifted \ t.changed) \cup t.enabled
  BY DEF CommitSync, Touched
<1>4. Notify([prepared |-> P, told |-> {}, lost |-> L, anyone |-> FALSE])
  BY DEF CommitSync, DeprovisionNotified
<1>5. /\ after \subseteq after'
      /\ follows = "client" => /\ \A u \in P : \E n \in after' : u \in n.prepared
                               /\ \A u \in L : \E n \in after' : u \in n.lost
  BY <1>4, SyncTells
<1>6. /\ gone \subseteq Users /\ off \subseteq Users
      /\ rs \in [User -> Row \cup {NoUser}]
      /\ \A u \in gone : rs[u] = NoUser
      /\ \A u \in Users \ gone : /\ rs[u] # NoUser
                                 /\ users[u].active /\ u \notin off => rs[u].active
      /\ \A u \in User : u \notin t.changed \cup t.enabled \cup off \cup gone =>
           rs[u] = users[u]
  BY RowsReconciled
<1>7. /\ t \in Transaction /\ t.changed \subseteq User /\ Users \subseteq User
      /\ NoGroup \notin SUBSET User
  <2>1. t \in Transaction
    BY DEF ProvisioningInv, Typed, Closed
  <2> QED BY <2>1, Kinds DEF ProvisioningInv, Transaction, Users
<1> HIDE DEF rs, gone, off
<1>8. /\ Users' = {u \in User : rs[u] # NoUser}
      /\ Users \ gone \subseteq Users' /\ gone \cap Users' = {}
  BY <1>2, <1>6, <1>7 DEF Users
<1>9. /\ members \subseteq Users'
      /\ groups'[LdapGroup] = IF d.group THEN members ELSE NoGroup
      /\ \A g \in Groups : g # LdapGroup => groups'[g] = groups[g] \ gone
      /\ \A g \in Group \ Groups : g # LdapGroup => groups'[g] = NoGroup
  BY <1>2, <1>8, AccountsAssumption DEF DesiredMembers, ReconciledGroup, Groups
<1>10. L = IF groups[LdapGroup] = NoGroup THEN {} ELSE (groups[LdapGroup] \ gone) \ members
  BY DEF MembersBefore, gone
<1> HIDE DEF members, L
<1>11. Typed'
  <2>1. \A g \in Group : groups'[g] \in {NoGroup} \cup SUBSET User
    BY <1>7, <1>8, <1>9, Kinds DEF ProvisioningInv, Groups
  <2>2. groups' \in [Group -> {NoGroup} \cup SUBSET User]
    BY <1>2, <2>1
  <2>3. \A g \in Groups' : groups'[g] \subseteq Users'
    BY <1>8, <1>9 DEF ProvisioningInv, Typed, Groups
  <2> QED BY <1>1, <1>2, <1>6, <1>8, <2>2, <2>3 DEF ProvisioningInv, Typed
<1>12. LoopKeepsUsers'
  BY <1>2 DEF LoopKeepsUsers, Closed
<1>13. LossesLeaveTraces'
  <2>1. \A u \in signedIn : u \in authorized /\ u \notin authorized' => Named(u)'
    BY <1>1, <1>2, <1>5 DEF Named, ProvisioningInv, LossesLeaveTraces, P
  <2>2. \A u \in signedIn : u \in authorized' /\ ~users'[u].active =>
                              ~users[u].active \/ Told(u)'
    BY <1>1, <1>2, <1>5, <1>6 DEF Told, Named, ProvisioningInv, Typed, LossesLeaveTraces
  <2>3. \A u \in signedIn : u \in authorized' /\ ~InAllowedGroup(u)' =>
                              ~InAllowedGroup(u) \/ Barred(u)'
    <3> SUFFICES ASSUME NEW u \in signedIn, u \in authorized', ~InAllowedGroup(u)',
                        InAllowedGroup(u)
                 PROVE  Barred(u)'
      OBVIOUS
    <3>1. u \in User /\ u \notin gone /\ follows = "client"
      BY <1>2 DEF ProvisioningInv, LossesLeaveTraces
    <3>2. restricted /\ \E g \in Groups : u \in groups[g] /\ g \in allowed
      BY <1>2 DEF InAllowedGroup, GroupsOf
    <3>3. \A g \in Groups : g # LdapGroup /\ u \in groups[g] => g \in GroupsOf(u)'
      BY <1>7, <1>9, <3>1, Kinds DEF GroupsOf, Groups, ProvisioningInv
    <3>4. u \in groups[LdapGroup] /\ LdapGroup \in Groups /\ LdapGroup \in allowed
      BY <1>2, <3>2, <3>3 DEF InAllowedGroup
    <3>5. u \notin members
      <4>1. CASE d.group
        <5>1. groups'[LdapGroup] = members /\ members # NoGroup /\ allowed' = allowed
          BY <1>2, <1>7, <1>8, <1>9, <4>1
        <5> QED BY <3>4, <5>1 DEF InAllowedGroup, GroupsOf, Groups
      <4>2. CASE ~d.group
        BY <4>2 DEF members
      <4> QED BY <4>1, <4>2
    <3>6. u \in L
      BY <1>10, <3>1, <3>4, <3>5 DEF Groups
    <3> QED BY <1>5, <3>1, <3>6 DEF Barred
  <2> QED BY <1>1, <1>2, <1>5, <2>1, <2>2, <2>3, TracesKept DEF ProvisioningInv
<1>14. SnapshotIsWhole' /\ SkipIsSafe'
  <2>1. settled' \subseteq settled
    BY <1>3
  <2>2. \A u \in User : u \in settled' \ drifted' => u \notin drifted /\ users'[u] = users[u]
    BY <1>2, <1>3, <1>6
  <2>3. \A g \in Group : g \in settled' \ drifted' =>
          g \notin drifted /\ groups'[g] = groups[g]
    <3> SUFFICES ASSUME NEW g \in Group, g \in settled', g \notin drifted'
                 PROVE  g \notin drifted /\ groups'[g] = groups[g]
      OBVIOUS
    <3>1. g # LdapGroup /\ g \notin left /\ g \notin drifted
      BY <1>3, <1>7, AccountsAssumption
    <3>2. CASE g \in Groups
      <4>1. \A u \in gone : u \notin groups[g]
        BY <3>1, <3>2 DEF GroupsOf
      <4>2. groups[g] \ gone = groups[g]
        BY <4>1
      <4> QED BY <1>9, <3>1, <3>2, <4>2
    <3>3. CASE g \notin Groups
      BY <1>9, <3>1, <3>3 DEF Groups
    <3> QED BY <3>2, <3>3
  <2> QED BY <1>1, <2>1, <2>2, <2>3, CopiesKept DEF ProvisioningInv
<1> QED BY <1>11, <1>12, <1>13, <1>14 DEF ProvisioningInv

(* The steps about notices and sessions.  Each takes away a trace only of  *)
(* users whom it tells, or whom it puts down as missed.                    *)
LEMMA LogoutKept ==
  ASSUME ProvisioningInv, ~transaction.open,
         UNCHANGED <<follows, users, groups, restricted, allowed, settled, drifted>>,
         UNCHANGED <<directory, fetched, transaction, userCopy, groupCopy, sync>>,
         authorized' \subseteq Users, jobs' \in [User -> Nat], LossesLeaveTraces'
  PROVE  ProvisioningInv'
<1> USE DEF ProvisioningInv
<1>1. Typed'
  BY DEF Typed, Users, Groups
<1>2. LoopKeepsUsers'
  BY LoopRests
<1>3. SnapshotIsWhole' /\ SkipIsSafe'
  BY CopiesKept
<1> QED BY <1>1, <1>2, <1>3

LEMMA NoticeStep ==
  ASSUME ProvisioningInv, ~transaction.open,
         \/ LogoutStep /\ UNCHANGED scimVars
         \/ Crash /\ UNCHANGED <<userCopy, groupCopy, sync>>,
         UNCHANGED <<follows, ldapVars>>
  PROVE  ProvisioningInv'
<1>1. /\ UNCHANGED <<follows, directory, fetched, transaction, userCopy, groupCopy, sync>>
      /\ authorized \subseteq Users /\ jobs \in [User -> Nat]
      /\ LossesLeaveTraces
  BY DEF ldapVars, scimVars, ProvisioningInv, Typed
<1>2. CASE \E n \in after : Dispatch(n)
  <2>1. PICK n \in after : Dispatch(n)
    BY <1>2
  <2>2. /\ UNCHANGED <<users, groups, restricted, allowed, authorized>>
        /\ UNCHANGED <<settled, drifted, signedIn, missed>>
        /\ after' = after \ {n}
        /\ jobs' = [u \in User |-> IF u \in Targets(n) THEN deliveryMaxAttempts ELSE jobs[u]]
    BY <2>1 DEF Dispatch, rows
  <2>3. jobs' \in [User -> Nat] /\ \A u \in Targets(n) : u \in User => jobs'[u] > 0
    BY <1>1, <2>2, LogoutAssumption
  <2>4. \A u \in User : jobs[u] > 0 => jobs'[u] > 0
    BY <1>1, <2>2, LogoutAssumption
  <2>5. \A u \in signedIn :
          /\ u \in n.prepared => u \in Targets(n)
          /\ u \in authorized /\ u \in n.told => u \in Targets(n)
          /\ u \in authorized /\ ~InAllowedGroup(u) /\ (u \in n.lost \/ n.anyone) =>
               u \in Targets(n)
    BY DEF Targets, LostGroupAccess, InAllowedGroup
  <2>6. LossesLeaveTraces'
    <3> SUFFICES ASSUME NEW u \in signedIn
                 PROVE  /\ u \in User
                        /\ u \notin authorized => Named(u)'
                        /\ u \in authorized /\ ~users[u].active => Told(u)'
                        /\ u \in authorized /\ ~InAllowedGroup(u) => Barred(u)'
      BY <1>1, <2>2 DEF LossesLeaveTraces, InAllowedGroup, GroupsOf, Groups
    <3>1. /\ u \in User
          /\ u \notin authorized => Named(u)
          /\ u \in authorized /\ ~users[u].active => Told(u)
          /\ u \in authorized /\ ~InAllowedGroup(u) => Barred(u)
      BY <1>1 DEF LossesLeaveTraces
    <3>2. Named(u) => Named(u)'
      BY <2>2, <2>3, <2>4, <2>5, <3>1 DEF Named
    <3>3. u \in authorized /\ Told(u) => Told(u)'
      BY <2>2, <2>3, <2>5, <3>1, <3>2 DEF Told, Named
    <3>4. u \in authorized /\ ~InAllowedGroup(u) /\ Barred(u) => Barred(u)'
      BY <2>2, <2>3, <2>5, <3>1, <3>3 DEF Barred, Told, Named
    <3> QED BY <3>1, <3>2, <3>3, <3>4
  <2> QED BY <1>1, <2>2, <2>3, <2>6, LogoutKept
<1>3. CASE \E u \in User : SignIn(u)
  <2>1. PICK u \in User : SignIn(u)
    BY <1>3
  <2>2. /\ UNCHANGED <<users, groups, restricted, allowed, settled, drifted, after, jobs>>
        /\ authorized' = authorized \cup {u} /\ signedIn' = signedIn \cup {u}
        /\ missed' = missed \ {u} /\ follows = "client"
        /\ u \in Users /\ users[u].active /\ InAllowedGroup(u)
    BY <2>1 DEF SignIn, MayUse
  <2>3. \A v \in User \ {u} : /\ Named(v) => Named(v)'
                              /\ Told(v) => Told(v)'
                              /\ Barred(v) => Barred(v)'
    BY <2>2 DEF Named, Told, Barred
  <2>4. LossesLeaveTraces'
    BY <1>1, <2>2, <2>3 DEF LossesLeaveTraces, InAllowedGroup, GroupsOf, Groups
  <2> QED BY <1>1, <2>2, <2>4, LogoutKept
<1>4. CASE \E u \in User : Deliver(u) \/ GiveUp(u)
  <2>1. PICK u \in User : Deliver(u) \/ GiveUp(u)
    BY <1>4
  <2>2. /\ UNCHANGED <<users, groups, restricted, allowed, authorized, settled, drifted, after>>
        /\ jobs' = [jobs EXCEPT ![u] = 0]
        /\ signedIn' \subseteq signedIn /\ missed \subseteq missed'
        /\ u \notin signedIn' \/ u \in missed'
    BY <2>1 DEF Deliver, GiveUp, accountVars
  <2>3. \A v \in signedIn' : v \in User => /\ Named(v) => Named(v)'
                                           /\ Told(v) => Told(v)'
                                           /\ Barred(v) => Barred(v)'
    BY <1>1, <2>2 DEF Named, Told, Barred
  <2>4. LossesLeaveTraces'
    BY <1>1, <2>2, <2>3 DEF LossesLeaveTraces, InAllowedGroup, GroupsOf, Groups
  <2> QED BY <1>1, <2>2, <2>4, LogoutKept
<1>5. CASE \E u \in User : Retry(u)
  <2>1. PICK u \in User : Retry(u)
    BY <1>5
  <2>2. /\ UNCHANGED <<users, groups, restricted, allowed, authorized, settled, drifted, after>>
        /\ UNCHANGED <<signedIn, missed>>
        /\ jobs[u] > 1 /\ jobs' = [jobs EXCEPT ![u] = @ - 1]
    BY <2>1 DEF Retry, accountVars
  <2>3. jobs' \in [User -> Nat] /\ \A v \in User : jobs[v] > 0 => jobs'[v] > 0
    BY <1>1, <2>2
  <2>4. \A v \in User : /\ Named(v) => Named(v)'
                        /\ Told(v) => Told(v)'
                        /\ Barred(v) => Barred(v)'
    BY <2>2, <2>3 DEF Named, Told, Barred
  <2>5. LossesLeaveTraces'
    BY <1>1, <2>2, <2>4 DEF LossesLeaveTraces, InAllowedGroup, GroupsOf, Groups
  <2> QED BY <1>1, <2>2, <2>3, <2>5, LogoutKept
<1>6. CASE Crash
  <2>1. /\ UNCHANGED <<users, groups, restricted, allowed, authorized>>
        /\ UNCHANGED <<settled, drifted, signedIn, jobs>>
        /\ missed' = missed \cup UNION {Targets(n) : n \in after}
    BY <1>6 DEF Crash, rows
  <2>2. \A n \in after : Targets(n) \subseteq missed'
    BY <2>1
  <2>3. \A u \in signedIn :
          /\ Named(u) => Named(u)'
          /\ u \in authorized /\ Told(u) => Told(u)'
          /\ u \in authorized /\ ~InAllowedGroup(u) /\ Barred(u) => Barred(u)'
    BY <2>1, <2>2 DEF Named, Told, Barred, Targets, LostGroupAccess, InAllowedGroup
  <2>4. LossesLeaveTraces'
    BY <1>1, <2>1, <2>3 DEF LossesLeaveTraces, InAllowedGroup, GroupsOf, Groups
  <2> QED BY <1>1, <2>1, <2>4, LogoutKept
<1> QED BY <1>2, <1>3, <1>4, <1>5, <1>6 DEF LogoutStep

(* What the SCIM sync leaves alone.                                        *)
LEMMA ScimKept ==
  ASSUME ProvisioningInv, UNCHANGED <<follows, ldapVars, logoutVars, rows, after>>,
         SnapshotIsWhole', SkipIsSafe'
  PROVE  ProvisioningInv'
<1> USE DEF ProvisioningInv
<1>1. /\ UNCHANGED <<follows, users, groups, restricted, allowed, authorized>>
      /\ UNCHANGED <<directory, fetched, transaction, signedIn, jobs, missed, after>>
  BY DEF ldapVars, logoutVars, rows
<1>2. Typed'
  BY <1>1 DEF Typed, Users, Groups
<1>3. LoopKeepsUsers'
  BY <1>1 DEF LoopKeepsUsers, Users
<1>4. LossesLeaveTraces'
  BY <1>1, TracesKept DEF InAllowedGroup, GroupsOf, Groups, LossesLeaveTraces
<1> QED BY <1>2, <1>3, <1>4

(* A snapshot stays whole while the sync gets done with its resources: a   *)
(* copy that the sync leaves out of the users yet to create is there, and  *)
(* one that it took away is of nobody in its groups.                       *)
LEMMA RestIsWhole ==
  ASSUME SnapshotIsWhole, NEW x, NEW U, sync' = Rest(x, U),
         userCopy' \in [User -> [name : Name, active : BOOLEAN] \cup {NoCopy}],
         groupCopy' \in [Group -> {NoCopy} \cup SUBSET User],
         \A v \in HasCopy \cup sync.unknown : v \in HasCopy' \cup U \/ v \in sync.gone
  PROVE  SnapshotIsWhole'
<1> DEFINE us == [u \in DOMAIN sync.users \ {x} |-> sync.users[u]]
           gs == [g \in DOMAIN sync.groups \ {x} |-> sync.groups[g]]
<1>1. /\ sync'.users = us /\ sync'.groups = gs
      /\ sync'.gone = sync.gone \ {x} /\ sync'.unknown = U /\ sync'.running = sync.running
      /\ sync' = [users |-> sync'.users, groups |-> sync'.groups, gone |-> sync'.gone,
                  unknown |-> sync'.unknown, running |-> sync'.running]
  BY DEF Rest
<1>2. \A u \in DOMAIN us : us[u] \in [name : Name, active : BOOLEAN]
  BY DEF SnapshotIsWhole
<1>3. \A g \in DOMAIN gs : /\ gs[g] \subseteq HasCopy' \cup U
                           /\ gs[g] \cap (sync.gone \ {x}) = {}
  BY DEF SnapshotIsWhole
<1> QED BY <1>1, <1>2, <1>3 DEF SnapshotIsWhole

(* The steps of the SCIM sync.                                             *)
LEMMA ScimStep ==
  ASSUME ProvisioningInv, Provide \/ FaultStep
  PROVE  ProvisioningInv'
<1> USE DEF ProvisioningInv
<1>0. /\ UNCHANGED <<follows, ldapVars, logoutVars>>
      /\ NoCopy \notin [name : Name, active : BOOLEAN]
      /\ \A S \in SUBSET User : NoCopy # S
  BY ScimAssumption DEF Provide, FaultStep
<1>1. CASE LoadSnapshot
  <2>1. /\ sync' =
           [users |-> [u \in {v \in UsersForClient : ~Skips(v, HasCopy)} |-> Payload(u)],
            groups |-> [g \in {h \in GroupsForClient : ~Skips(h, HasGroupCopy)} |-> groups[g]],
            gone |-> (HasCopy \ UsersForClient) \cup (HasGroupCopy \ GroupsForClient),
            unknown |-> UsersForClient \ HasCopy, running |-> TRUE]
        /\ UNCHANGED <<rows, after, users, groups, settled, drifted, userCopy, groupCopy>>
    BY <1>1 DEF LoadSnapshot, accountVars, rows
  <2>2. \A g \in GroupsForClient : groups[g] \subseteq UsersForClient
    <3> SUFFICES ASSUME NEW g \in GroupsForClient, NEW u \in groups[g]
                 PROVE  u \in UsersForClient
      OBVIOUS
    <3>1. g \in Groups /\ u \in Users /\ (restricted => g \in allowed)
      BY DEF Typed, GroupsForClient
    <3>2. g \in GroupsOf(u)
      BY <3>1 DEF GroupsOf
    <3> QED BY <3>1, <3>2 DEF UsersForClient, InAllowedGroup
  <2>3. \A u \in UsersForClient : Payload(u) \in [name : Name, active : BOOLEAN]
    BY DEF UsersForClient, Payload, Typed, Users, Row
  <2>4. \A g \in GroupsForClient : groups[g] \cap Group = {}
    BY AccountsAssumption, Kinds DEF GroupsForClient
  <2>5. HasGroupCopy \subseteq Group
    BY DEF HasGroupCopy
  <2>6. HasCopy' = HasCopy
    BY <2>1 DEF HasCopy
  <2>7. /\ sync' = [users |-> sync'.users, groups |-> sync'.groups, gone |-> sync'.gone,
                    unknown |-> sync'.unknown, running |-> sync'.running]
        /\ \A u \in DOMAIN sync'.users : sync'.users[u] \in [name : Name, active : BOOLEAN]
    BY <2>1, <2>3
  <2>8. \A g \in DOMAIN sync'.groups :
          /\ sync'.groups[g] \subseteq HasCopy \cup sync'.unknown
          /\ sync'.groups[g] \cap sync'.gone = {}
    BY <2>1, <2>2, <2>4, <2>5
  <2>9. SnapshotIsWhole'
    BY <2>1, <2>6, <2>7, <2>8 DEF SnapshotIsWhole
  <2>10. SkipIsSafe'
    BY <2>1 DEF SkipIsSafe, HasCopy, HasGroupCopy, Users, Groups, Payload
  <2> QED BY <1>0, <2>1, <2>9, <2>10, ScimKept
<1>2. CASE \E u \in User : PushUser(u) \/ LoseAnswer(u)
  <2>1. PICK u \in User : PushUser(u) \/ LoseAnswer(u)
    BY <1>2
  <2>2. /\ u \in DOMAIN sync.users /\ userCopy' = [userCopy EXCEPT ![u] = sync.users[u]]
        /\ settled' = settled \cup {u}
        /\ drifted' = IF u \in Users /\ Payload(u) = sync.users[u]
                      THEN drifted \ {u} ELSE drifted \cup {u}
        /\ UNCHANGED <<rows, users, groups, after, groupCopy>>
    BY <2>1 DEF PushUser, LoseAnswer, WriteUser, Written, rows
  <2>3. /\ sync.users[u] \in [name : Name, active : BOOLEAN]
        /\ userCopy' \in [User -> [name : Name, active : BOOLEAN] \cup {NoCopy}]
        /\ HasCopy' = HasCopy \cup {u}
    BY <1>0, <2>2 DEF SnapshotIsWhole, HasCopy
  <2>4. \A v \in HasCopy \cup sync.unknown : v \in HasCopy' \cup (sync.unknown \ {u})
    BY <2>3
  <2>5. SnapshotIsWhole'
    <3>1. groupCopy' \in [Group -> {NoCopy} \cup SUBSET User]
      BY <2>2 DEF SnapshotIsWhole
    <3>2. CASE PushUser(u)
      <4>1. sync' = Rest(u, sync.unknown \ {u})
        BY <3>2 DEF PushUser
      <4> QED BY <2>3, <2>4, <3>1, <4>1, RestIsWhole
    <3>3. CASE LoseAnswer(u)
      <4>1. sync' = Rest(u, sync.unknown)
        BY <3>3 DEF LoseAnswer
      <4> QED BY <2>3, <2>4, <3>1, <4>1, RestIsWhole
    <3> QED BY <2>1, <3>2, <3>3
  <2>6. u \notin Group
    BY AccountsAssumption
  <2>7. \A v \in (HasCopy \cap Users \cap settled)' \ drifted' : userCopy'[v] = Payload(v)'
    <3> SUFFICES ASSUME NEW v \in (HasCopy \cap Users \cap settled)' \ drifted'
                 PROVE  userCopy'[v] = Payload(v)'
      OBVIOUS
    <3>1. CASE v = u
      BY <2>2, <3>1 DEF Payload, SnapshotIsWhole
    <3>2. CASE v # u
      BY <2>2, <2>3, <3>2 DEF Payload, SkipIsSafe, Users, SnapshotIsWhole
    <3> QED BY <3>1, <3>2
  <2>8. SkipIsSafe'
    BY <2>2, <2>6, <2>7 DEF SkipIsSafe, HasGroupCopy, Groups
  <2> QED BY <1>0, <2>2, <2>5, <2>8, ScimKept
<1>3. CASE \E u \in User : DeleteUserCopy(u)
  <2>1. PICK u \in User : DeleteUserCopy(u)
    BY <1>3
  <2>2. /\ u \in sync.gone /\ userCopy' = [userCopy EXCEPT ![u] = NoCopy]
        /\ groupCopy' = [g \in Group |-> IF groupCopy[g] = NoCopy THEN NoCopy
                                         ELSE groupCopy[g] \ {u}]
        /\ drifted' = drifted \cup {g \in HasGroupCopy : u \in groupCopy[g]}
        /\ sync' = Rest(u, sync.unknown)
        /\ UNCHANGED <<rows, users, groups, after, settled>>
    BY <2>1 DEF DeleteUserCopy, rows
  <2>3. /\ userCopy' \in [User -> [name : Name, active : BOOLEAN] \cup {NoCopy}]
        /\ groupCopy' \in [Group -> {NoCopy} \cup SUBSET User]
        /\ HasCopy' = HasCopy \ {u}
    BY <1>0, <2>2 DEF SnapshotIsWhole, HasCopy
  <2>4. SnapshotIsWhole'
    BY <2>2, <2>3, RestIsWhole
  <2>5. \A g \in HasGroupCopy' : /\ g \in HasGroupCopy
                                 /\ u \in groupCopy[g] \/ groupCopy'[g] = groupCopy[g]
    BY <1>0, <2>2 DEF SnapshotIsWhole, HasGroupCopy
  <2>6. SkipIsSafe'
    BY <1>0, <2>2, <2>3, <2>5 DEF SkipIsSafe, SnapshotIsWhole, Users, Groups, Payload
  <2> QED BY <1>0, <2>2, <2>4, <2>6, ScimKept
<1>4. CASE \E g \in Group : PushGroup(g)
  <2>1. PICK g \in Group : PushGroup(g)
    BY <1>4
  <2>2. /\ g \in DOMAIN sync.groups /\ sync' = Rest(g, sync.unknown)
        /\ \/ /\ sync.groups[g] \cap sync.unknown = {}
              /\ groupCopy' = [groupCopy EXCEPT ![g] = sync.groups[g] \cap HasCopy]
              /\ settled' = settled \cup {g}
              /\ drifted' = IF groups[g] = sync.groups[g]
                            THEN drifted \ {g} ELSE drifted \cup {g}
           \/ UNCHANGED <<settled, drifted, groupCopy>>
        /\ UNCHANGED <<rows, users, groups, after, userCopy>>
    BY <2>1 DEF PushGroup, Written, rows
  <2>3. HasCopy' = HasCopy /\ HasCopy \subseteq User /\ g \notin User
    BY <2>2, AccountsAssumption DEF HasCopy
  <2>4. groupCopy' \in [Group -> {NoCopy} \cup SUBSET User]
    BY <2>2, <2>3 DEF SnapshotIsWhole
  <2>5. SnapshotIsWhole'
    BY <2>2, <2>3, <2>4, RestIsWhole DEF SnapshotIsWhole
  <2>6. sync.groups[g] \cap sync.unknown = {} => sync.groups[g] \cap HasCopy = sync.groups[g]
    BY <2>2 DEF SnapshotIsWhole
  <2>7. \A h \in (HasGroupCopy \cap Groups \cap settled)' \ drifted' :
          groupCopy'[h] = groups'[h]
    BY <2>2, <2>6 DEF SkipIsSafe, SnapshotIsWhole, HasGroupCopy, Groups
  <2>8. SkipIsSafe'
    BY <2>2, <2>3, <2>7 DEF SkipIsSafe, Users, Payload
  <2> QED BY <1>0, <2>2, <2>5, <2>8, ScimKept
<1>5. CASE \E g \in Group : DeleteGroupCopy(g)
  <2>1. PICK g \in Group : DeleteGroupCopy(g)
    BY <1>5
  <2>2. /\ groupCopy' = [groupCopy EXCEPT ![g] = NoCopy] /\ sync' = Rest(g, sync.unknown)
        /\ UNCHANGED <<rows, users, groups, after, settled, drifted, userCopy>>
    BY <2>1 DEF DeleteGroupCopy, accountVars, rows
  <2>3. HasCopy' = HasCopy
    BY <2>2 DEF HasCopy
  <2>4. SnapshotIsWhole'
    BY <2>2, <2>3, RestIsWhole DEF SnapshotIsWhole
  <2>5. SkipIsSafe'
    BY <2>2, <2>3 DEF SkipIsSafe, SnapshotIsWhole, HasGroupCopy, Users, Groups, Payload
  <2> QED BY <1>0, <2>2, <2>4, <2>5, ScimKept
<1>6. CASE \E x \in User \cup Group : FailRequest(x)
  <2>1. PICK x \in User \cup Group : FailRequest(x)
    BY <1>6
  <2>2. /\ sync' = Rest(x, sync.unknown)
        /\ UNCHANGED <<rows, after, users, groups, settled, drifted, userCopy, groupCopy>>
    BY <2>1 DEF FailRequest, accountVars, rows
  <2>3. HasCopy' = HasCopy
    BY <2>2 DEF HasCopy
  <2>4. SnapshotIsWhole'
    BY <2>2, <2>3, RestIsWhole DEF SnapshotIsWhole
  <2>5. SkipIsSafe'
    BY <2>2, <2>3 DEF SkipIsSafe, HasGroupCopy, Users, Groups, Payload
  <2> QED BY <1>0, <2>2, <2>4, <2>5, ScimKept
<1>7. CASE FinishSync \/ AbortSync
  <2>1. /\ sync' = Idle
        /\ UNCHANGED <<rows, after, users, groups, settled, drifted, userCopy, groupCopy>>
    BY <1>7 DEF FinishSync, AbortSync, accountVars, rows
  <2>2. SnapshotIsWhole'
    BY <2>1 DEF SnapshotIsWhole, Idle
  <2>3. SkipIsSafe'
    BY <2>1 DEF SkipIsSafe, HasCopy, HasGroupCopy, Users, Groups, Payload
  <2> QED BY <1>0, <2>1, <2>2, <2>3, ScimKept
<1> QED BY <1>1, <1>2, <1>3, <1>4, <1>5, <1>6, <1>7 DEF Provide, Push, FaultStep

(* Each step of the whole.                                                 *)
LEMMA ProvisioningStep ==
  ASSUME ProvisioningInv, [Next]_vars
  PROVE  ProvisioningInv'
<1>1. CASE ~transaction.open /\ Administer /\ UNCHANGED <<follows, ldapVars, logoutVars, scimVars>>
  BY <1>1, AdministerStep
<1>2. CASE ~transaction.open /\ LdapStep /\ UNCHANGED <<follows, logoutVars, scimVars>>
  BY <1>2, ReadStep
<1>3. CASE ~transaction.open /\ LogoutStep /\ UNCHANGED <<follows, ldapVars, scimVars>>
  BY <1>3, NoticeStep
<1>4. CASE ~transaction.open /\ CrashProcess
  BY <1>4, NoticeStep DEF CrashProcess
<1>5. CASE Provide \/ FaultStep
  BY <1>5, ScimStep
<1>6. CASE ~transaction.open /\ FailedSync
  <2>1. PICK d \in fetched : FailLdapSync(d)
    BY <1>6 DEF FailedSync
  <2>2. /\ UNCHANGED <<follows, users, groups, restricted, allowed, authorized, settled,
                       drifted, after, signedIn, jobs, missed, userCopy, groupCopy, sync>>
        /\ UNCHANGED <<directory, transaction>> /\ fetched' \subseteq fetched
    BY <1>6, <2>1 DEF FailedSync, FailLdapSync, accountVars, logoutVars
  <2>3. LoopKeepsUsers'
    BY <1>6, <2>2, LoopRests
  <2> QED BY <2>2, <2>3, AccountsRest DEF ProvisioningInv, Typed
<1>7. CASE SyncTurn /\ UNCHANGED <<follows, logoutVars, scimVars>>
  <2>1. CASE \E e \in Entry : ReconcileUser(e)
    BY <1>7, <2>1, TurnStep DEF SyncTurn
  <2>2. CASE \E soft \in SoftDelete : CommitSync(soft)
    BY <1>7, <2>2, CommitStep, LdapAssumption DEF SyncTurn
  <2> QED BY <1>7, <2>1, <2>2 DEF SyncTurn
<1>8. CASE UNCHANGED vars
  <2>1. UNCHANGED <<follows, users, groups, restricted, allowed, authorized, settled,
                    drifted, after, signedIn, jobs, missed, userCopy, groupCopy, sync,
                    directory, transaction, fetched>>
    BY <1>8 DEF vars, ldapVars, accountVars, logoutVars, scimVars
  <2>2. LoopKeepsUsers'
    BY <2>1 DEF ProvisioningInv, LoopKeepsUsers, Users
  <2> QED BY <2>1, <2>2, AccountsRest DEF ProvisioningInv, Typed
<1> QED BY <1>1, <1>2, <1>3, <1>4, <1>5, <1>6, <1>7, <1>8 DEF Next, Step

-----------------------------------------------------------------------------
(* The theorems.                                                           *)

(* The invariant, of every handler of users and groups, the LDAP sync, the *)
(* notices to the client and the SCIM sync.                                *)
THEOREM ProvisioningInvariant == Spec => []ProvisioningInv
<1>1. Init => ProvisioningInv
  BY ProvisioningInit
<1>2. ProvisioningInv /\ [Next]_vars => ProvisioningInv'
  BY ProvisioningStep
<1> QED BY <1>1, <1>2, PTL DEF Spec

(* Whoever loses access to a client where he is signed in, by whichever    *)
(* handler or sync, however the changes overlap before notifyClients looks *)
(* up the targets, is about to be told, but for a lost notice.             *)
THEOREM LostAccessIsAnnounced == Spec => []LostAccessIsTold
<1>1. ProvisioningInv => LostAccessIsTold
  <2> SUFFICES ASSUME ProvisioningInv, NEW u \in signedIn,
                      ~(MayUse(u) /\ u \in authorized)
               PROVE  \/ jobs[u] > 0
                      \/ \E n \in after : u \in Targets(n)
                      \/ u \in missed
    BY DEF LostAccessIsTold
  <2>1. /\ u \in User /\ authorized \subseteq Users
        /\ u \notin authorized => Named(u)
        /\ u \in authorized /\ ~users[u].active => Told(u)
        /\ u \in authorized /\ ~InAllowedGroup(u) => Barred(u)
    BY DEF ProvisioningInv, LossesLeaveTraces, Typed
  <2>2. CASE u \notin authorized
    BY <2>1, <2>2 DEF Named, Targets
  <2>3. CASE u \in authorized /\ ~users[u].active
    BY <2>1, <2>3 DEF Named, Told, Targets
  <2>4. CASE u \in authorized /\ ~InAllowedGroup(u)
    BY <2>1, <2>4 DEF Named, Told, Barred, Targets, LostGroupAccess, InAllowedGroup
  <2> QED BY <2>1, <2>2, <2>3, <2>4 DEF MayUse
<1> QED BY <1>1, ProvisioningInvariant, PTL

(* What the SCIM sync leaves alone, for its times say so, is what the      *)
(* database says: every handler and sync that changes a user or the        *)
(* members of a group makes it look changed.                               *)
THEOREM SkipsAreSafe == Spec => []SkipIsSafe
<1>1. ProvisioningInv => SkipIsSafe
  BY DEF ProvisioningInv
<1> QED BY <1>1, ProvisioningInvariant, PTL
=============================================================================
