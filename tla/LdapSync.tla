------------------------------ MODULE LdapSync ------------------------------
(***************************************************************************)
(* The LDAP sync (backend/internal/ldapsync): the directory is read first, *)
(* outside any transaction; one transaction then makes the users and the   *)
(* group it manages what was read.  An administrator may start a sync next *)
(* to the hourly one, so two readings can be in flight.                    *)
(*                                                                         *)
(* The transaction goes through the users one by one, a turn of its loop   *)
(* each, with the rows as it has made them so far.  Nobody sees them before *)
(* it commits, and nothing else happens meanwhile: the turns are steps so  *)
(* that one user can be looked at at a time.                               *)
(*                                                                         *)
(* A user name the directory gives may belong to somebody else.  The sync  *)
(* then skips that user; on a database where the failed statement aborts   *)
(* the transaction it fails as a whole.                                    *)
(***************************************************************************)
EXTENDS Accounts

CONSTANTS
  SoftDelete,     \* values of LdapSoftDeleteUsers: disable rather than delete
  AbortsOnClash,  \* a duplicate name aborts the transaction (Postgres)
  MaxFetched      \* bound on the readings in flight

ASSUME LdapAssumption == 
  /\ SoftDelete \subseteq BOOLEAN /\ AbortsOnClash \in BOOLEAN
  /\ MaxFetched \in Nat

VARIABLES
  directory,  \* what the server holds: names, members of the group, the group
  fetched,    \* readings that wait for their transaction
  transaction \* the transaction under way

ldapVars == <<directory, fetched, transaction>>

Directory ==
  {d \in [names : [Entry -> Name \cup {NoName}], members : SUBSET Entry,
          group : BOOLEAN] :
     \A e \in d.members : d.group /\ d.names[e] # NoName}

Listed(d) == {e \in Entry : d.names[e] # NoName}

(* What a transaction applies, whom it has yet to look at, the rows it has *)
(* made of the users, and those it wrote or only enabled.                  *)
Transaction ==
  [open : {TRUE}, reading : Directory, entries : SUBSET Entry,
   rows : [User -> Row \cup {NoUser}], changed : SUBSET User,
   enabled : SUBSET User]
Closed == [open |-> FALSE]

Move(d) ==
  /\ d # directory
  /\ directory' = d
  /\ Committed(NoNotice)
  /\ UNCHANGED <<rows, settled, fetched, transaction>>

(* The local user of a directory entry, and whether a name is taken.       *)
Linked(rs, e) == {u \in User : rs[u] # NoUser /\ rs[u].entry = e}
Clash(rs, n, u) == \E v \in User \ {u} : rs[v] # NoUser /\ rs[v].name = n

(* fetchDesiredState.                                                      *)
FetchDesiredState ==
  /\ Cardinality(fetched \cup {directory}) <= MaxFetched
  /\ fetched' = fetched \cup {directory}
  /\ UNCHANGED <<accountVars, directory, transaction>>

(* SyncAll, once the directory is read.  The bound on the users must leave *)
(* room for those it may create.                                           *)
BeginSync(d) ==
  /\ d \in fetched
  /\ Cardinality({e \in Listed(d) : Linked(users, e) = {}})
       <= Cardinality(User \ Users)
  /\ transaction' =
       [open |-> TRUE, reading |-> d, entries |-> Listed(d), rows |-> users,
        changed |-> {}, enabled |-> {}]
  /\ UNCHANGED <<accountVars, directory, fetched>>

\* Mutant: a user who is back in the directory stays disabled.
Reconcile_StayDisabled(t, e, u) ==
  LET row == [name |-> t.reading.names[e], entry |-> e,
              active |-> IF t.rows[u] = NoUser THEN TRUE ELSE t.rows[u].active]
  IN [t EXCEPT !.entries = @ \ {e}, !.rows[u] = row, !.changed = @ \cup {u}]

(* CreateUserInternal or, for a user the database has, UpdateUserInternal. *)
Reconcile(t, e, u) ==
  LET row == [name |-> t.reading.names[e], active |-> TRUE, entry |-> e]
  IN [t EXCEPT !.entries = @ \ {e}, !.rows[u] = row, !.changed = @ \cup {u}]

(* The user is skipped, for the name is taken.  A disabled user has been   *)
(* enabled by then, by a statement that leaves the time of change alone.   *)
Skip(t, e, u) ==
  IF t.rows[u] = NoUser THEN [t EXCEPT !.entries = @ \ {e}]
  ELSE [t EXCEPT !.entries = @ \ {e}, !.rows[u].active = TRUE,
                 !.enabled = IF t.rows[u].active THEN @ ELSE @ \cup {u}]

(* One turn of the loop of reconcileUsers, in the order of the reading: it *)
(* takes the user of the entry, or makes a new one.                        *)
ReconcileUser(e) ==
  LET t == transaction IN
  /\ e \in t.entries
  /\ \E u \in IF Linked(t.rows, e) # {} THEN Linked(t.rows, e)
             ELSE {v \in User : t.rows[v] = NoUser} :
       IF ~Clash(t.rows, t.reading.names[e], u)
       THEN transaction' = Reconcile(t, e, u) /\ UNCHANGED fetched
       ELSE IF ~AbortsOnClash
       THEN transaction' = Skip(t, e, u) /\ UNCHANGED fetched
       ELSE transaction' = Closed /\ fetched' = fetched \ {t.reading}
  /\ UNCHANGED <<accountVars, directory>>

(* isDeprovisioned, of the users loaded before the loop.                   *)
Deprovisioned(d) ==
  {u \in Users : users[u].entry # NoEntry /\ users[u].entry \notin Listed(d)}

(* DisableUserInternal and DeleteUserInternal.                             *)
Gone(d, soft) == IF soft THEN {} ELSE Deprovisioned(d)
Disabled(d, soft) ==
  IF soft THEN {u \in Deprovisioned(d) : users[u].active} ELSE {}

(* Users disabled by an earlier sync are not notified again.               *)
DeprovisionNotified(d, soft) == (Disabled(d, soft) \cup Gone(d, soft)) \cap authorized

(* resolveGroupMemberUsername and fetchGroupsFromLDAP: the directory says  *)
(* who is in the group by user name.                                       *)
Username(d, e) == d.names[e]
MemberNames(d) == {Username(d, e) : e \in d.members}

(* reconcileGroups: a name is looked up among the users of the directory   *)
(* the database has now.                                                   *)
DesiredMembers(d, rs) ==
  {u \in User : /\ rs[u] # NoUser /\ rs[u].entry # NoEntry
                /\ rs[u].name \in MemberNames(d)}

ReconciledGroup(d, rs) == IF d.group THEN DesiredMembers(d, rs) ELSE NoGroup

MembersBefore(d, soft) ==
  IF groups[LdapGroup] = NoGroup THEN {} ELSE groups[LdapGroup] \ Gone(d, soft)

(* The rows once those the directory no longer has are deprovisioned.      *)
Reconciled(t, soft) ==
  [u \in User |->
     IF u \in Gone(t.reading, soft) THEN NoUser
     ELSE IF u \in Disabled(t.reading, soft)
     THEN [t.rows[u] EXCEPT !.active = FALSE]
     ELSE t.rows[u]]

(* What SyncAll does after the loop: it deprovisions users, reconciles the *)
(* group and commits.                                                      *)
CommitSync(soft) ==
  LET t == transaction
      d == t.reading
      rs == Reconciled(t, soft)
      members == IF d.group THEN DesiredMembers(d, rs) ELSE {}
      left == UNION {GroupsOf(u) : u \in Gone(d, soft)}
  IN /\ t.entries = {}
     /\ users' = rs
     /\ groups' = [g \in Group |->
          IF g = LdapGroup THEN ReconciledGroup(d, rs)
          ELSE IF groups[g] = NoGroup THEN NoGroup ELSE groups[g] \ Gone(d, soft)]
     /\ allowed' = IF d.group THEN allowed ELSE allowed \ {LdapGroup}
     /\ authorized' = authorized \ Gone(d, soft)
     /\ settled' = Touched(left \cup {LdapGroup})
          \ (t.changed \cup Disabled(d, soft) \cup Gone(d, soft))
     /\ drifted' = (drifted \ t.changed) \cup t.enabled
     /\ Notify([prepared |-> DeprovisionNotified(d, soft), told |-> {},
                lost |-> MembersBefore(d, soft) \ members, anyone |-> FALSE])
     /\ fetched' = fetched \ {d} /\ transaction' = Closed
     /\ UNCHANGED <<restricted, edits, directory>>

SyncTurn ==
  /\ transaction.open
  /\ \/ \E e \in Entry : ReconcileUser(e)
     \/ \E soft \in SoftDelete : CommitSync(soft)

(* A statement fails: the transaction is rolled back, and the next sync    *)
(* reads the directory again.                                              *)
FailLdapSync(d) ==
  /\ d \in fetched /\ fetched' = fetched \ {d}
  /\ UNCHANGED <<accountVars, directory, transaction>>

(* The database is what the directory says.  A user whose name is taken    *)
(* is left as he was.                                                      *)
AgreesWithDirectory ==
  /\ \A u \in Users : users[u].entry # NoEntry /\ users[u].entry \notin Listed(directory)
                        => ~users[u].active
  /\ \A e \in Listed(directory) :
       \/ \E u \in Linked(users, e) : users[u].active /\ users[u].name = directory.names[e]
       \/ \E u \in Users : users[u].name = directory.names[e] /\ users[u].entry # e
  /\ (groups[LdapGroup] # NoGroup) = directory.group
  /\ directory.group =>
       groups[LdapGroup] = DesiredMembers(directory, users)

LdapTypeOK ==
  /\ directory \in Directory
  /\ fetched \subseteq Directory
  /\ transaction \in {Closed} \cup Transaction
=============================================================================
