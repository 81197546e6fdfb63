------------------------------ MODULE Passkeys -------------------------------
(***************************************************************************)
(* Passkey ceremonies and reauthentication tokens (backend/internal/       *)
(* webauthn).  A ceremony is a row with a challenge; whoever completes it  *)
(* deletes the row in the transaction that registers a passkey, signs in   *)
(* or creates a token, and a failure rolls the deletion back.  Renaming a  *)
(* passkey reads the row and saves it, without a lock.                     *)
(***************************************************************************)
EXTENDS Naturals

CONSTANTS
  Person, Passkey, Owner,   \* and whose authenticator each passkey is on
  Ceremony, Worker,
  Timeout,                  \* of a ceremony, in minutes like all that follow
  FreshLogin,               \* age up to which a sign-in proves presence
  ProofLifetime,            \* lifetime of a reauthentication token
  MaxClock

ASSUME PasskeyAssumption ==
  /\ Owner \in [Passkey -> Person]
  /\ {Timeout, FreshLogin, ProofLifetime, MaxClock} \subseteq Nat

VARIABLES
  clock,
  registered,   \* passkeys that have a row
  ceremonies,   \* ceremony -> when its row expires, or why it has none
  renaming,     \* worker -> the row it has read
  barred,       \* disabled users
  lastLogin,    \* person -> when the passkey sign-in of the session was
  tokens,       \* reauthentication tokens
  results,      \* history: what each ceremony yielded, counted
  ages,         \* history: how old a proof of presence was when it was used
  deletions,    \* history: passkeys deleted and not registered again
  revived       \* history: passkeys a stale rename brought back

passkeyVars == <<clock, registered, ceremonies, renaming, barred, lastLogin,
                 tokens, results, ages, deletions, revived>>

Unstarted == [at |-> "unstarted"]
Ended == [at |-> "ended"]
Offered(t) == [at |-> "offered", expires |-> t]
Resting == [at |-> "resting"]
Renames(k, found) == [at |-> "renames", passkey |-> k, found |-> found]
Never == MaxClock + 1

Proof(u, t) == [person |-> u, provedAt |-> t, expires |-> clock + ProofLifetime]

(* BeginRegistration and BeginLogin: the row does not say which.           *)
BeginCeremony(c) ==
  /\ ceremonies[c] = Unstarted
  /\ ceremonies' = [ceremonies EXCEPT ![c] = Offered(clock + Timeout)]
  /\ UNCHANGED <<clock, registered, renaming, barred, lastLogin, tokens,
                 results, ages, deletions, revived>>

Open(c) == ceremonies[c].at = "offered" /\ clock <= ceremonies[c].expires

\* Mutant: the row is looked up and not deleted.
Complete_Keep(c) ==
  /\ results' = [results EXCEPT ![c] = @ + 1]
  /\ UNCHANGED ceremonies

(* The row is deleted; of two requests the second one finds none.          *)
Complete(c) ==
  /\ results' = [results EXCEPT ![c] = @ + 1]
  /\ ceremonies' = [ceremonies EXCEPT ![c] = Ended]

(* VerifyRegistration; the policy on synced passkeys admits k or not.      *)
VerifyRegistration(c, k) ==
  /\ Open(c) /\ Complete(c)
  /\ k \notin registered /\ registered' = registered \cup {k}
  /\ deletions' = deletions \ {k} /\ revived' = revived \ {k}
  /\ UNCHANGED <<clock, renaming, barred, lastLogin, tokens, ages>>

(* VerifyLogin.                                                            *)
VerifyLogin(c, k) ==
  /\ Open(c) /\ Complete(c)
  /\ k \in registered /\ Owner[k] \notin barred
  /\ lastLogin' = [lastLogin EXCEPT ![Owner[k]] = clock]
  /\ UNCHANGED <<clock, registered, renaming, barred, tokens, ages, deletions, revived>>

(* CreateReauthenticationTokenWithWebauthn.                                *)
ReauthenticateWithPasskey(c, k) ==
  /\ Open(c) /\ Complete(c)
  /\ k \in registered
  /\ tokens' = tokens \cup {Proof(Owner[k], clock)}
  /\ UNCHANGED <<clock, registered, renaming, barred, lastLogin, ages, deletions, revived>>

\* Mutant: the age of the sign-in is not looked at.
RecentLogin_Any(u) == lastLogin[u] # Never

RecentLogin(u) == lastLogin[u] # Never /\ clock - lastLogin[u] <= FreshLogin

(* CreateReauthenticationTokenWithAccessToken.                             *)
ReauthenticateWithAccessToken(u) ==
  /\ RecentLogin(u)
  /\ tokens' = tokens \cup {Proof(u, lastLogin[u])}
  /\ UNCHANGED <<clock, registered, ceremonies, renaming, barred, lastLogin,
                 results, ages, deletions, revived>>

(* ConsumeReauthenticationToken.                                           *)
ConsumeReauthenticationToken(p) ==
  /\ p \in tokens /\ p.expires > clock
  /\ tokens' = tokens \ {p}
  /\ ages' = ages \cup {clock - p.provedAt}
  /\ UNCHANGED <<clock, registered, ceremonies, renaming, barred, lastLogin,
                 results, deletions, revived>>

DeleteCredential(k) ==
  /\ k \in registered
  /\ registered' = registered \ {k} /\ deletions' = deletions \cup {k}
  /\ UNCHANGED <<clock, ceremonies, renaming, barred, lastLogin, tokens, results, ages, revived>>

\* Mutant: the row is saved without having been found.
MayRename_Any(k) == TRUE

MayRename(k) == k \in registered

(* UpdateCredential reads the row...                                       *)
BeginRename(w, k) ==
  /\ renaming[w] = Resting /\ MayRename(k)
  /\ renaming' = [renaming EXCEPT ![w] = Renames(k, k \in registered)]
  /\ UNCHANGED <<clock, registered, ceremonies, barred, lastLogin, tokens,
                 results, ages, deletions, revived>>

(* ... and saves it: an update, and an insert when no row was updated.     *)
CommitRename(w) ==
  LET k == renaming[w].passkey IN
  /\ renaming[w].at = "renames"
  /\ registered' = registered \cup {k}
  /\ revived' = IF k \notin registered /\ renaming[w].found THEN revived \cup {k} ELSE revived
  /\ renaming' = [renaming EXCEPT ![w] = Resting]
  /\ UNCHANGED <<clock, ceremonies, barred, lastLogin, tokens, results, ages, deletions>>

RollBackRename(w) ==
  /\ renaming[w].at = "renames"
  /\ renaming' = [renaming EXCEPT ![w] = Resting]
  /\ UNCHANGED <<clock, registered, ceremonies, barred, lastLogin, tokens,
                 results, ages, deletions, revived>>

SwitchUser(u) ==
  /\ barred' = (barred \ {u}) \cup ({u} \ barred)
  /\ UNCHANGED <<clock, registered, ceremonies, renaming, lastLogin, tokens,
                 results, ages, deletions, revived>>

(* cleanupExpiredSessions and cleanupExpiredReauthenticationTokens.        *)
CleanupExpiredSessions ==
  /\ ceremonies' = [c \in Ceremony |->
       IF ceremonies[c].at = "offered" /\ ceremonies[c].expires < clock
       THEN Ended ELSE ceremonies[c]]
  /\ UNCHANGED <<clock, registered, renaming, barred, lastLogin, tokens,
                 results, ages, deletions, revived>>
CleanupExpiredReauthenticationTokens ==
  /\ tokens' = {p \in tokens : p.expires >= clock}
  /\ UNCHANGED <<clock, registered, ceremonies, renaming, barred, lastLogin,
                 results, ages, deletions, revived>>

Minute ==
  /\ clock < MaxClock /\ clock' = clock + 1
  /\ UNCHANGED <<registered, ceremonies, renaming, barred, lastLogin, tokens,
                 results, ages, deletions, revived>>

PasskeyInit ==
  /\ clock = 0 /\ registered = {} /\ barred = {} /\ tokens = {}
  /\ ceremonies = [c \in Ceremony |-> Unstarted]
  /\ renaming = [w \in Worker |-> Resting]
  /\ lastLogin = [u \in Person |-> Never]
  /\ results = [c \in Ceremony |-> 0] /\ ages = {}
  /\ deletions = {} /\ revived = {}

PasskeyStep ==
  \/ \E c \in Ceremony : BeginCeremony(c)
  \/ \E c \in Ceremony, k \in Passkey : VerifyRegistration(c, k)
  \/ \E c \in Ceremony, k \in Passkey : VerifyLogin(c, k)
  \/ \E c \in Ceremony, k \in Passkey : ReauthenticateWithPasskey(c, k)
  \/ \E u \in Person : ReauthenticateWithAccessToken(u)
  \/ \E p \in tokens : ConsumeReauthenticationToken(p)
  \/ \E k \in Passkey : DeleteCredential(k)
  \/ \E w \in Worker, k \in Passkey : BeginRename(w, k)
  \/ \E w \in Worker : CommitRename(w)
  \/ \E w \in Worker : RollBackRename(w)
  \/ \E u \in Person : SwitchUser(u)
  \/ CleanupExpiredSessions
  \/ CleanupExpiredReauthenticationTokens
  \/ Minute

(* A ceremony yields one thing, a passkey, a sign-in or a token, and       *)
(* whoever acts on a reauthentication token touched a passkey no longer    *)
(* ago than a fresh sign-in and the life of a token allow together.        *)
PresenceIsRecent ==
  /\ \A c \in Ceremony : results[c] <= 1
  /\ \A a \in ages : a < FreshLogin + ProofLifetime

(* A deleted passkey is back only when a rename that had read it saved it. *)
OnlyStaleRenamesRevive == registered \cap deletions \subseteq revived

(* What a passkey opens needs the passkey: presence is proved, single and  *)
(* recent, and a deleted passkey is gone but for a stale rename.           *)
PasskeysAreNeeded == PresenceIsRecent /\ OnlyStaleRenamesRevive
=============================================================================
