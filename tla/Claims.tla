------------------------------- MODULE Claims -------------------------------
(***************************************************************************)
(* What clients are told of a user (oidc/claims_service.go): claims of the *)
(* user record, custom claims of the user and of groups, and what a client *)
(* has remapped.  The custom claims of one owner are replaced as a whole   *)
(* (service/custom_claim_service.go) in a transaction of several           *)
(* statements; replacements of one owner may overlap, and the unique       *)
(* constraint of the table does not hold where one of the owners is NULL.  *)
(***************************************************************************)
EXTENDS Naturals, FiniteSets

CONSTANTS
  UserGroup,
  ClaimKey,       \* keys that custom claims may have
  ClaimValue,
  NoClaim,
  Edit,           \* concurrent replacements
  MaxEdits        \* bound on the replacements

\* isReservedClaim: no custom claim may be called "name", like most claims of
\* the record; "picture", which is of the record too, may be a key.
ASSUME ClaimAssumption ==
  NoClaim \notin ClaimValue \cup ClaimKey /\ "name" \notin ClaimKey

Owner == {"user"} \cup UserGroup
Standard == "of the record"   \* what the user record says

VARIABLES
  rows,      \* the table of custom claims
  groups,    \* the groups of the user
  remapping, \* the custom claim that the client's "name" is taken from; claims
             \* that carry the meaning of a token cannot be remapped
  edit,      \* what each replacement has done
  made,      \* counters: rows made, replacements begun
  lastChosen,     \* history: what was chosen last for each owner
  overlapped    \* history: <<owner, key>> for which replacements overlapped

claimVars == <<rows, groups, remapping, edit, made, lastChosen, overlapped>>

NoClaims == [k \in ClaimKey |-> NoClaim]
ClaimSet == [ClaimKey -> ClaimValue \cup {NoClaim}]
NoEdit == [at |-> "none"]

Of(o, k) == {r \in rows : r.owner = o /\ r.key = k}

ClaimsInit ==
  /\ rows = {} /\ groups = {}
  /\ remapping \in ClaimKey \cup {NoClaim}
  /\ edit = [e \in Edit |-> NoEdit]
  /\ made = [rows |-> 0, edits |-> 0]
  /\ lastChosen = [o \in Owner |-> NoClaims]
  /\ overlapped = {}

Overlapping(e, o) == {d \in Edit \ {e} : edit[d].at = "open" /\ edit[d].owner = o}

Stale_None(o, claims) == {}  \* mutant: what is not asked for stays
Stale(o, claims) == {r.id : r \in {s \in rows : s.owner = o /\ claims[s.key] = NoClaim}}

(* The transaction reads what there is and deletes what was not asked for. *)
BeginEdit(e, o, claims) ==
  /\ edit[e] = NoEdit /\ made.edits < MaxEdits
  /\ made' = [made EXCEPT !.edits = @ + 1]
  /\ edit' = [d \in Edit |->
       IF d = e THEN [at |-> "open", owner |-> o, claims |-> claims,
                      deletes |-> Stale(o, claims), writes |-> {},
                      alone |-> Overlapping(e, o) = {}]
       ELSE IF d \in Overlapping(e, o) THEN [edit[d] EXCEPT !.alone = FALSE]
       ELSE edit[d]]
  /\ UNCHANGED <<rows, groups, remapping, lastChosen, overlapped>>

Unwritten(e) ==
  {k \in ClaimKey : edit[e].claims[k] # NoClaim /\ \A w \in edit[e].writes : w.key # k}

(* FirstOrCreate: a row that the transaction sees is changed, or one made. *)
WriteClaim(e, k) ==
  LET q == edit[e]
      found == {r \in Of(q.owner, k) : r.id \notin q.deletes}
      Write(id, new) == edit' = [edit EXCEPT ![e].writes = @ \cup
        {[id |-> id, owner |-> q.owner, key |-> k, value |-> q.claims[k], new |-> new]}] IN
  /\ q.at = "open" /\ k \in Unwritten(e)
  /\ \/ \E r \in found : Write(r.id, FALSE) /\ UNCHANGED made
     \/ /\ found = {}
        /\ Write(made.rows + 1, TRUE)
        /\ made' = [made EXCEPT !.rows = @ + 1]
  /\ UNCHANGED <<rows, groups, remapping, lastChosen, overlapped>>

\* A row that another transaction deleted is not changed.
RowsWritten(q) ==
  {[id |-> w.id, owner |-> w.owner, key |-> w.key, value |-> w.value] :
     w \in {v \in q.writes : v.new \/ \E r \in rows : r.id = v.id}}

CommitEdit(e) ==
  LET q == edit[e] IN
  /\ q.at = "open" /\ Unwritten(e) = {}
  /\ rows' = {r \in rows : r.id \notin q.deletes \cup {w.id : w \in q.writes}}
               \cup RowsWritten(q)
  /\ lastChosen' = [lastChosen EXCEPT ![q.owner] = q.claims]
  /\ overlapped' = IF ~q.alone THEN overlapped \cup ({q.owner} \X ClaimKey)
                ELSE {m \in overlapped : m[1] # q.owner \/ q.claims[m[2]] # NoClaim}
  /\ edit' = [edit EXCEPT ![e] = NoEdit]
  /\ UNCHANGED <<groups, remapping, made>>

(* A reserved or repeated key, or the database refuses a statement.        *)
AbortEdit(e) ==
  /\ edit[e] # NoEdit
  /\ edit' = [edit EXCEPT ![e] = NoEdit]
  /\ UNCHANGED <<rows, groups, remapping, made, lastChosen, overlapped>>

ChangeMembership(g) ==
  /\ groups' = IF g \in groups THEN groups \ {g} ELSE groups \cup {g}
  /\ UNCHANGED <<rows, remapping, edit, made, lastChosen, overlapped>>

ClaimsStep ==
  \/ \E e \in Edit :
       \/ \E o \in Owner, claims \in ClaimSet : BeginEdit(e, o, claims)
       \/ \E k \in ClaimKey : WriteClaim(e, k)
       \/ CommitEdit(e) \/ AbortEdit(e)
  \/ \E g \in UserGroup : ChangeMembership(g)

ClaimsSpec == ClaimsInit /\ [][ClaimsStep]_claimVars

-----------------------------------------------------------------------------
(* GetCustomClaimsForUserWithUserGroups: what a key may be told as, for    *)
(* rows come in any order.                                                 *)
ValuesOf(o, k) == {r.value : r \in Of(o, k)}
CustomClaim(k) ==
  IF Of("user", k) # {} THEN ValuesOf("user", k)
  ELSE UNION {ValuesOf(g, k) : g \in groups}

(* GetUserClaims, for the scope "profile": the claims of the record are    *)
(* written over custom claims of the same name.                            *)
FromRecord == {"name", "picture"}
UserClaims(name) == IF name \in FromRecord THEN {Standard} ELSE CustomClaim(name)

(* GetUserClaimsForClient: a source without a value changes nothing.       *)
ClientClaims(name) ==
  IF name = "name" /\ remapping # NoClaim /\ CustomClaim(remapping) # {}
  THEN CustomClaim(remapping) ELSE UserClaims(name)

-----------------------------------------------------------------------------
Chosen(o, k) == {lastChosen[o][k]} \ {NoClaim}
ChosenClaim(k) ==
  IF Chosen("user", k) # {} THEN Chosen("user", k)
  ELSE UNION {Chosen(g, k) : g \in groups}
Clear(k) == \A o \in {"user"} \cup groups : <<o, k>> \notin overlapped

(* A claim is told as it was last chosen for the user, else for one of the *)
(* groups; one that was taken away is not told any more, under its own     *)
(* name or another.  Only replacements that overlapped may leave a key     *)
(* with no value or with several, until the key is removed.  A custom      *)
(* claim "picture" is accepted and never told under its own name, which is *)
(* the picture of the record; only a remapping tells it.                   *)
ClaimsAsChosen ==
  \A k \in ClaimKey : Clear(k) =>
    /\ ClientClaims(k) = IF k \in FromRecord THEN {Standard} ELSE ChosenClaim(k)
    /\ remapping = k =>
         ClientClaims("name") = IF ChosenClaim(k) = {} THEN {Standard} ELSE ChosenClaim(k)
=============================================================================
