-------------------------------- MODULE Keys --------------------------------
(***************************************************************************)
(* The keys a cluster signs with: one for the tokens of applications, one  *)
(* for its own sessions, each a row of the kv table that is encrypted with *)
(* a key from the configuration (service/jwt_service.go, utils/jwk).       *)
(*                                                                         *)
(* Several replicas start at once on one database.  A start loads a row or *)
(* generates a key and inserts it, one database call each; between the two *)
(* another replica may do the same.  The commands key-rotate and           *)
(* encryption-key-rotate (cmds) run while replicas are up or starting.     *)
(***************************************************************************)
EXTENDS Naturals, FiniteSets

CONSTANTS
  Replica,
  EncryptionKey,   \* values that ENCRYPTION_KEY may have
  StorageRetries,  \* how often a start reloads a key it could not insert
  Material         \* keys to generate; two more than there are replicas

Kind == {"signing", "session"}

VARIABLES
  stored,     \* the two rows of the kv table
  replica,    \* what each replica is doing
  outdated    \* history: <<replica, kind>> rotated since the replica got it

keyVars == <<stored, replica, outdated>>

Unstored == [material |-> 0]
Row(key, e) == [material |-> key, under |-> e]
Readable(row, e) == row # Unstored /\ row.under = e

Down == [at |-> "down"]
\* The start failed: for which key.
Refused(kind) == [at |-> "refused", kind |-> kind]
Running(held) == [at |-> "running", held |-> held]
\* A start works on one key after the other: it is about to load the row, or
\* (save) to insert the key it generated.
Starting(at, e, held, kind, tries) ==
  [at |-> at, under |-> e, held |-> held, kind |-> kind, tries |-> tries]

Nothing == [k \in Kind |-> 0]
HeldBy(r) ==
  IF replica[r].at \in {"load", "save", "running"} THEN replica[r].held ELSE Nothing

\* The random key that is generated next is one that nobody has.
Fresh(kind) ==
  CHOOSE m \in Material :
    m # stored[kind].material /\ \A r \in Replica : m # HeldBy(r)[kind]

Become(r, q) == replica' = [replica EXCEPT ![r] = q]

\* The replica has the key of this kind: the other one is next.
Holding(q, key) ==
  LET held == [q.held EXCEPT ![q.kind] = key]
  IN  IF q.kind = "signing" THEN Starting("load", q.under, held, "session", 0)
                            ELSE Running(held)

KeyInit ==
  /\ stored = [k \in Kind |-> Unstored]
  /\ replica = [r \in Replica |-> Down]
  /\ outdated = {}

(* NewJwtService, with the encryption key the replica is configured with.  *)
StartReplica(r, e) ==
  /\ replica[r] = Down \/ replica[r].at = "refused"
  /\ Become(r, Starting("load", e, Nothing, "signing", 0))
  /\ outdated' = {o \in outdated : o[1] # r}
  /\ UNCHANGED stored

(* A key that cannot be decrypted: a new signing key is generated, without *)
(* the session key the start fails.                                        *)
MayGenerate(q) == stored[q.kind] = Unstored \/ q.kind = "signing"

LoadKey(r) ==
  LET q == replica[r] IN
  /\ q.at = "load"
  /\ IF Readable(stored[q.kind], q.under)
       THEN Become(r, Holding(q, stored[q.kind].material))
     ELSE IF MayGenerate(q)
       THEN Become(r, [q EXCEPT !.at = "save", !.held[q.kind] = Fresh(q.kind)])
     ELSE Become(r, Refused(q.kind))
  /\ UNCHANGED <<stored, outdated>>

KeyInsertable_Always(kind) == TRUE  \* mutant: an upsert
KeyInsertable(kind) == stored[kind] = Unstored

(* SaveKey inserts unless there is a row; then the key is loaded again.    *)
SaveKey(r) ==
  LET q == replica[r] IN
  /\ q.at = "save"
  /\ \/ /\ KeyInsertable(q.kind)
        /\ stored' = [stored EXCEPT ![q.kind] = Row(q.held[q.kind], q.under)]
        /\ Become(r, Holding(q, q.held[q.kind]))
     \/ /\ ~KeyInsertable(q.kind) /\ UNCHANGED stored
        /\ Become(r, IF q.tries = StorageRetries THEN Refused(q.kind)
                     ELSE Starting("load", q.under, q.held, q.kind, q.tries + 1))
  /\ UNCHANGED outdated

(* What a rotation leaves behind: everybody who got the key before.        *)
Got(r, kind) ==
  \/ replica[r].at = "running"
  \/ replica[r].at \in {"load", "save"} /\ kind = "signing" /\ replica[r].kind = "session"

ReplaceKey(kind, e) == [stored EXCEPT ![kind] = Row(Fresh(kind), e)]

(* key-rotate, under the encryption key of the command.                    *)
RotateKey(kind, e) ==
  /\ stored' = ReplaceKey(kind, e)
  /\ outdated' = outdated \cup {<<r, kind>> : r \in {s \in Replica : Got(s, kind)}}
  /\ UNCHANGED replica

(* encryption-key-rotate: all rows in one transaction, none if one of them *)
(* cannot be read.                                                         *)
RotateEncryption(old, new) ==
  /\ \A k \in Kind : stored[k] # Unstored => Readable(stored[k], old)
  /\ stored' = [k \in Kind |-> IF stored[k] = Unstored THEN Unstored
                               ELSE Row(stored[k].material, new)]
  /\ UNCHANGED <<replica, outdated>>

StopReplica(r) ==
  /\ replica[r] # Down /\ Become(r, Down)
  /\ UNCHANGED <<stored, outdated>>

KeyStep ==
  \/ \E r \in Replica, e \in EncryptionKey : StartReplica(r, e)
  \/ \E r \in Replica : LoadKey(r) \/ SaveKey(r) \/ StopReplica(r)
  \/ \E k \in Kind, e \in EncryptionKey : RotateKey(k, e)
  \/ \E old, new \in EncryptionKey : old # new /\ RotateEncryption(old, new)

KeySpec == KeyInit /\ [][KeyStep]_keyVars

-----------------------------------------------------------------------------
(* Replicas that run sign with the same keys, those in the database, but   *)
(* for a key that was rotated while they were up (key-rotate says that a   *)
(* restart is needed): tokens and sessions of one are accepted by all.     *)
ReplicasAgreeOnKeys ==
  \A r \in Replica : replica[r].at = "running" =>
    \A k \in Kind :
      replica[r].held[k] = stored[k].material \/ <<r, k>> \in outdated
=============================================================================
