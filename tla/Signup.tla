------------------------------- MODULE Signup -------------------------------
(***************************************************************************)
(* Self-service accounts (backend/internal/usersignup).  A signup token is *)
(* an actor that counts its uses.  A signup consumes one use before the    *)
(* transaction that creates the account, because invoking an actor inside  *)
(* a transaction would deadlock on SQLite, and gives the use back if the   *)
(* transaction fails.  Tokens from before there were actors are frozen in  *)
(* the kv table and turned into actors whenever a server starts.  The very *)
(* first account is an administrator and is created by a setup of its own. *)
(*                                                                         *)
(* One invocation of the actor is one step, and so is the transaction of   *)
(* a signup.  Times are counted in units of the shortest lifetime.         *)
(***************************************************************************)
EXTENDS Integers, FiniteSets, Functions

CONSTANTS
  SignupTokens, Signups,
  Migrated,      \* tokens that are frozen in the kv table
  Limits, SignupLifetimes,
  MaxAccounts, Horizon,   \* bounds
  Absent

ASSUME SignupAssumption ==
  /\ Migrated \subseteq SignupTokens /\ Absent \notin SignupTokens
  /\ Limits \subseteq Nat \ {0} /\ SignupLifetimes \subseteq Nat \ {0}
  /\ MaxAccounts \in Nat /\ Horizon \in Nat
  /\ IsFiniteSet(Signups)
ASSUME AbsentAssumption == Absent \notin [limit : Limits, used : Nat, expiresAt : Nat]

VARIABLES
  uses,     \* SignupTokenState by token, Absent when the actor has no state
  frozen,    \* the kv row: the state of each migrated token
  granted,    \* the limit each token was created with, 0 before
  migrating, \* tokens a starting server has yet to migrate
  signup,      \* signups and initial setups in flight
  time,
  created,   \* history: accounts by the token of their signup, or Absent
  setups,    \* history: initial administrators
  lost,      \* history: uses consumed and never given back, by token
  removed    \* history: tokens an administrator deleted

signupVars == <<uses, frozen, granted, migrating, signup, time, created, setups,
          lost, removed>>

MaxLimit == CHOOSE n \in Limits : \A l \in Limits : l <= n

SignupTokenState == [limit : Limits, used : Nat, expiresAt : Nat]
By == SignupTokens \cup {Absent}

Free == [pc |-> "idle"]
SignupInFlight == [pc : {"consumed", "failed"}, token : By]
Setup == [pc |-> "setup"]

SignupInit ==
  /\ uses = [t \in SignupTokens |-> Absent]
  /\ frozen \in [Migrated -> {s \in [limit : Limits, expiresAt : SignupLifetimes,
                                      used : UNION {0 .. l : l \in Limits}] :
                                s.used <= s.limit}]
  /\ granted = [t \in SignupTokens |-> IF t \in Migrated THEN frozen[t].limit ELSE 0]
  /\ migrating = Migrated
  /\ signup = [p \in Signups |-> Free]
  /\ time = 0
  /\ created = [b \in By |-> 0]
  /\ setups = 0
  /\ lost = [t \in SignupTokens |-> 0]
  /\ removed = {}

-----------------------------------------------------------------------------
(* The actor of a signup token.                                            *)

(* The actor's create: a migration leaves a state that is there alone.     *)
Created(t, state, onlyIfMissing) ==
  IF onlyIfMissing /\ uses[t] # Absent THEN uses
  ELSE [uses EXCEPT ![t] = state]

(* CreateSignupToken, by an administrator.                                 *)
CreateSignupToken(t, limit, ttl) ==
  /\ granted[t] = 0
  /\ granted' = [granted EXCEPT ![t] = limit]
  /\ uses' = Created(t, [limit |-> limit, used |-> 0, expiresAt |-> time + ttl],
                     FALSE)
  /\ UNCHANGED <<frozen, migrating, signup, time, created, setups, lost,
                 removed>>

\* Mutant: an exhausted token is still good.
Usable_Exhausted(t) == uses[t] # Absent /\ uses[t].expiresAt > time

Usable(t) ==
  /\ uses[t] # Absent /\ uses[t].expiresAt > time
  /\ uses[t].used < uses[t].limit

(* setState: a state that has run out is not written.                      *)
Saved(t, s) == IF s.expiresAt > time THEN [uses EXCEPT ![t] = s] ELSE uses

Consumed(t) == Saved(t, [uses[t] EXCEPT !.used = @ + 1])

\* Mutant: a token that is given back is unused.
Released_Reset(t) ==
  IF uses[t] = Absent THEN uses ELSE Saved(t, [uses[t] EXCEPT !.used = 0])

(* release: nothing to give back to a token that is gone or unused.        *)
Released(t) ==
  IF uses[t] = Absent \/ uses[t].used = 0 THEN uses
  ELSE Saved(t, [uses[t] EXCEPT !.used = @ - 1])

(* DeleteSignupToken finds the token by its ID and invokes its actor.      *)
DeleteSignupToken(t) ==
  /\ uses[t] # Absent
  /\ uses' = [uses EXCEPT ![t] = Absent]
  /\ removed' = removed \cup {t}
  /\ UNCHANGED <<frozen, granted, migrating, signup, time, created, setups,
                 lost>>

(* The state of an actor is purged some time after its ttl.                *)
PurgeSignupToken(t) ==
  /\ uses[t] # Absent /\ uses[t].expiresAt <= time
  /\ uses' = [uses EXCEPT ![t] = Absent]
  /\ UNCHANGED <<frozen, granted, migrating, signup, time, created, setups,
                 lost, removed>>

(* A replica starts.  The kv row stays, so every start migrates it again.  *)
Start ==
  /\ migrating' = Migrated
  /\ UNCHANGED <<uses, frozen, granted, signup, time, created, setups, lost,
                 removed>>

(* One round of migrateSignupTokens.                                       *)
Migrate(t) ==
  /\ t \in migrating
  /\ migrating' = migrating \ {t}
  /\ uses' = IF frozen[t].expiresAt > time THEN Created(t, frozen[t], TRUE)
              ELSE uses
  /\ UNCHANGED <<frozen, granted, signup, time, created, setups, lost, removed>>

-----------------------------------------------------------------------------
(* Service.SignUp.                                                         *)

Begin(p, b) == signup' = [signup EXCEPT ![p] = [pc |-> "consumed", token |-> b]]

(* Without a token signups must be open, as an administrator may set at    *)
(* any time.  With a token the setting is not looked at.                   *)
SignUpOpenly(p) ==
  /\ signup[p] = Free
  /\ Begin(p, Absent)
  /\ UNCHANGED <<uses, frozen, granted, migrating, time, created, setups,
                 lost, removed>>

ConsumeToken(p, t) ==
  /\ signup[p] = Free
  /\ Usable(t)
  /\ uses' = Consumed(t)
  /\ Begin(p, t)
  /\ UNCHANGED <<frozen, granted, migrating, time, created, setups, lost,
                 removed>>

(* The token runs out while the actor consumes it: the use is granted and  *)
(* is not written down.                                                    *)
ConsumeExpiringToken(p, t) ==
  /\ signup[p] = Free
  /\ Usable(t) /\ uses[t].expiresAt = time + 1 /\ time < Horizon
  /\ time' = time + 1
  /\ Begin(p, t)
  /\ UNCHANGED <<uses, frozen, granted, migrating, created, setups, lost,
                 removed>>

\* Mutant: the initial setup does not lock the users table.
UsersTableFree_NoLock == TRUE

(* The initial setup holds a lock that excludes every write to users; on   *)
(* SQLite every transaction does.                                          *)
UsersTableFree == \A p \in Signups : signup[p].pc # "setup"

(* Accounts in the users table, for the bound; and whether there are any.  *)
Accounts == setups + FoldFunction(+, 0, created)
NoAccounts == setups = 0 /\ \A b \in By : created[b] = 0

(* createSignedUpUser commits.                                             *)
CreateSignedUpUser(p) ==
  LET q == signup[p] IN
  /\ q.pc = "consumed"
  /\ UsersTableFree /\ Accounts < MaxAccounts
  /\ created' = [created EXCEPT ![q.token] = @ + 1]
  /\ signup' = [signup EXCEPT ![p] = Free]
  /\ UNCHANGED <<uses, frozen, granted, migrating, time, setups, lost,
                 removed>>

(* It is rolled back: the name is taken, the database or the key fails.    *)
FailSignUp(p) ==
  /\ signup[p].pc = "consumed"
  /\ signup' = [signup EXCEPT ![p].pc = "failed"]
  /\ UNCHANGED <<uses, frozen, granted, migrating, time, created, setups,
                 lost, removed>>

ReleaseSignupToken(p) ==
  LET q == signup[p] IN
  /\ q.pc = "failed"
  /\ uses' = IF q.token = Absent THEN uses ELSE Released(q.token)
  /\ signup' = [signup EXCEPT ![p] = Free]
  /\ UNCHANGED <<frozen, granted, migrating, time, created, setups, lost,
                 removed>>

(* The server goes down, or the release fails and is only logged.  Losses  *)
(* are counted for tokens nobody has deleted yet.                          *)
CutShort(p) ==
  LET q == signup[p] IN
  /\ q # Free
  /\ lost' = IF q.pc # "setup" /\ q.token \in SignupTokens \ removed
               THEN [lost EXCEPT ![q.token] = @ + 1] ELSE lost
  /\ signup' = [signup EXCEPT ![p] = Free]
  /\ UNCHANGED <<uses, frozen, granted, migrating, time, created, setups,
                 removed>>

-----------------------------------------------------------------------------
(* SignUpInitialAdmin: the lock is taken, there is no account yet.         *)
BeginInitialSetup(p) ==
  /\ signup[p] = Free
  /\ UsersTableFree
  /\ NoAccounts
  /\ signup' = [signup EXCEPT ![p] = Setup]
  /\ UNCHANGED <<uses, frozen, granted, migrating, time, created, setups,
                 lost, removed>>

CommitInitialSetup(p) ==
  /\ signup[p].pc = "setup"
  /\ setups' = setups + 1
  /\ signup' = [signup EXCEPT ![p] = Free]
  /\ UNCHANGED <<uses, frozen, granted, migrating, time, created, lost,
                 removed>>

Elapse ==
  /\ time < Horizon
  /\ time' = time + 1
  /\ UNCHANGED <<uses, frozen, granted, migrating, signup, created, setups,
                 lost, removed>>

SignupNext ==
  \/ \E t \in SignupTokens, l \in Limits, d \in SignupLifetimes : CreateSignupToken(t, l, d)
  \/ \E t \in SignupTokens : DeleteSignupToken(t)
  \/ \E t \in SignupTokens : PurgeSignupToken(t)
  \/ Start
  \/ \E t \in Migrated : Migrate(t)
  \/ \E p \in Signups : SignUpOpenly(p)
  \/ \E p \in Signups, t \in SignupTokens : ConsumeToken(p, t)
  \/ \E p \in Signups, t \in SignupTokens : ConsumeExpiringToken(p, t)
  \/ \E p \in Signups : CreateSignedUpUser(p)
  \/ \E p \in Signups : FailSignUp(p)
  \/ \E p \in Signups : ReleaseSignupToken(p)
  \/ \E p \in Signups : CutShort(p)
  \/ \E p \in Signups : BeginInitialSetup(p)
  \/ \E p \in Signups : CommitInitialSetup(p)
  \/ Elapse

SignupSpec == SignupInit /\ [][SignupNext]_signupVars

-----------------------------------------------------------------------------
(* Properties.                                                             *)

SignupTypeOK ==
  /\ uses \in [SignupTokens -> {Absent} \cup SignupTokenState]
  /\ frozen \in [Migrated -> SignupTokenState]
  /\ granted \in [SignupTokens -> {0} \cup Limits] /\ migrating \subseteq Migrated
  /\ signup \in [Signups -> {Free, Setup} \cup SignupInFlight]
  /\ time \in 0 .. Horizon
  /\ created \in [By -> Nat]
  /\ setups \in Nat
  /\ lost \in [SignupTokens -> Nat]
  /\ removed \subseteq SignupTokens

UsedBefore(t) == IF t \in Migrated THEN frozen[t].used ELSE 0

InFlight(t) == Cardinality({p \in Signups : signup[p].pc \in {"consumed", "failed"}
                                             /\ signup[p].token = t})

(* A token never opens more accounts than its limit allows, also counting  *)
(* those it opened before it was migrated, however often servers start,    *)
(* signups race or fail, and at the moment it expires.                     *)
LimitHolds ==
  \A t \in SignupTokens \ removed : UsedBefore(t) + created[t] <= granted[t]

(* The counter of a live token adds up: every use is an account, a signup  *)
(* in flight or one that was cut short.  A failed signup gives back its    *)
(* own use and no other, and the migration never turns the counter back.   *)
UsesAddUp ==
  \A t \in SignupTokens \ removed :
    uses[t] # Absent /\ uses[t].expiresAt > time =>
      uses[t].used = UsedBefore(t) + created[t] + InFlight(t) + lost[t]

(* There is one initial administrator, and nobody was there before: two    *)
(* setups, or a setup and a signup, may run at once.                       *)
OneInitialAdmin ==
  /\ setups <= 1
  /\ \A p \in Signups : signup[p].pc = "setup" => NoAccounts

(* migration.go:18 and module.go:91: the migration is done once, on the    *)
(* first startup.  So a token an administrator deleted stays deleted.      *)
DeletedTokenStaysDeleted == \A t \in removed : uses[t] = Absent

(* Nobody gets an account who should not: neither by a token at its limit, *)
(* whose uses add up, nor by a second initial setup.                       *)
AccountsAreEarned == LimitHolds /\ UsesAddUp /\ OneInitialAdmin
=============================================================================
