----------------------------- MODULE ClientAdmin -----------------------------
(***************************************************************************)
(* Administration of one OIDC client (backend/internal/service,            *)
(* OidcService): its secrets, whether it is public, and its logo.  A       *)
(* handler reads the row under a lock and writes a column of it, or the    *)
(* whole row, when it commits.  Files are stored and deleted outside of    *)
(* the transactions, and the process or a step may fail between the two.   *)
(***************************************************************************)
EXTENDS Naturals, FiniteSets

CONSTANTS
  Secret,                \* IDs of the secrets that may be created
  MaxOidcClientSecrets,
  Type,                  \* file types of logos
  NoType, NoClient,
  Request                \* handlers at work

ASSUME ClientAdminAssumption ==
  /\ MaxOidcClientSecrets \in Nat \ {0} /\ NoType \notin Type
  /\ NoClient \notin [public : BOOLEAN, secrets : SUBSET Secret,
                      image : Type \cup {NoType}]

VARIABLES
  client,    \* the row
  requests,  \* what each handler has read or still has to do
  files,     \* types a file is stored for
  created, removed,  \* history: secrets that were created, and taken away
  raced      \* history: types another handler deleted the file of, late

adminVars == <<client, requests, files, created, removed, raced>>

ClientRow == [public : BOOLEAN, secrets : SUBSET Secret, image : Type \cup {NoType}]

(* Handlers: none; a transaction with the row it read; a file stored and   *)
(* not yet named by the row; a file to delete after the commit.            *)
Ready == [at |-> "ready"]
Open(copy) == [at |-> "open", copy |-> copy]
Saved(t) == [at |-> "saved", type |-> t]
Replacing(copy, t) == [at |-> "replacing", copy |-> copy, type |-> t]
Leaving(t) == IF t = NoType THEN Ready ELSE [at |-> "leaving", type |-> t]

Handlers ==
  {Ready} \cup {Open(c) : c \in ClientRow} \cup {Saved(t) : t \in Type}
    \cup {Replacing(c, t) : c \in ClientRow, t \in Type} \cup {Leaving(t) : t \in Type}

InTransaction == {r \in Request : requests[r].at \in {"open", "replacing"}}

\* Mutant: the row is read without a lock.
MayRead_Unlocked == client # NoClient

(* getClientInternal with forUpdate.                                       *)
MayRead == client # NoClient /\ InTransaction = {}

To(r, handler) == requests' = [requests EXCEPT ![r] = handler]

(* CreateClient, with a first secret for a client that is not public; the  *)
(* logo that may come with it is downloaded afterwards, as in SaveLogo.    *)
CreateClient(r, isPublic, first) ==
  /\ requests[r] = Ready /\ client = NoClient
  /\ first \subseteq Secret \ created
  /\ \A s, t \in first : s = t
  /\ isPublic => first = {}
  /\ client' = [public |-> isPublic, secrets |-> first, image |-> NoType]
  /\ created' = created \cup first
  /\ UNCHANGED <<requests, files, removed, raced>>

Begin(r) ==
  /\ requests[r] = Ready /\ MayRead
  /\ To(r, Open(client))
  /\ UNCHANGED <<client, files, created, removed, raced>>

(* CreateClientSecret: the column of the credentials is written.           *)
CreateClientSecret(r, s) ==
  /\ requests[r].at = "open"
  /\ s \notin created
  /\ LET copy == requests[r].copy IN
     /\ ~copy.public /\ Cardinality(copy.secrets) < MaxOidcClientSecrets
     /\ client' = [client EXCEPT !.secrets = copy.secrets \cup {s}]
  /\ created' = created \cup {s}
  /\ To(r, Ready)
  /\ UNCHANGED <<files, removed, raced>>

(* DeleteClientSecret.                                                     *)
DeleteClientSecret(r, s) ==
  /\ requests[r].at = "open"
  /\ s \in requests[r].copy.secrets
  /\ client' = [client EXCEPT !.secrets = requests[r].copy.secrets \ {s}]
  /\ removed' = removed \cup {s}
  /\ To(r, Ready)
  /\ UNCHANGED <<files, created, raced>>

(* UpdateClient: the whole row is saved; the secrets stay, of a client     *)
(* that becomes public too.                                                *)
UpdateClient(r, isPublic) ==
  /\ requests[r].at = "open"
  /\ client' = [requests[r].copy EXCEPT !.public = isPublic]
  /\ To(r, Ready)
  /\ UNCHANGED <<files, created, removed, raced>>

(* DeleteClient: the files are deleted after the commit.                   *)
DeleteClient(r) ==
  /\ requests[r] = Ready /\ client # NoClient /\ InTransaction = {}
  /\ client' = NoClient
  /\ removed' = removed \cup client.secrets
  /\ To(r, Leaving(client.image))
  /\ UNCHANGED <<files, created, raced>>

(* UpdateClientLogo and downloadAndSaveLogoFromURL store the file before   *)
(* they look at the row.                                                   *)
SaveLogo(r, t) ==
  /\ requests[r] = Ready
  /\ files' = files \cup {t}
  /\ To(r, Saved(t))
  /\ UNCHANGED <<client, created, removed, raced>>

(* updateClientLogoType.                                                   *)
LockLogo(r) ==
  /\ requests[r].at = "saved" /\ MayRead
  /\ To(r, Replacing(client, requests[r].type))
  /\ UNCHANGED <<client, files, created, removed, raced>>

\* Mutant: the file of a logo is deleted although the new one has its type.
ReplacedFile_Always(copy, t) == copy.image

ReplacedFile(copy, t) == IF copy.image = t THEN NoType ELSE copy.image

Late(t) == \E q \in Request : requests[q] = Leaving(t)

UpdateClientLogoType(r) ==
  LET t == requests[r].type IN
  /\ requests[r].at = "replacing"
  /\ client' = [requests[r].copy EXCEPT !.image = t]
  /\ raced' = IF Late(t) THEN raced \cup {t} ELSE raced
  /\ To(r, Leaving(ReplacedFile(requests[r].copy, t)))
  /\ UNCHANGED <<files, created, removed>>

(* deleteClientLogoInternal.                                               *)
DeleteClientLogo(r) ==
  /\ requests[r].at = "open"
  /\ requests[r].copy.image # NoType
  /\ client' = [requests[r].copy EXCEPT !.image = NoType]
  /\ To(r, Leaving(requests[r].copy.image))
  /\ UNCHANGED <<files, created, removed, raced>>

(* The file of the logo that was replaced or taken away goes after the     *)
(* commit; meanwhile another handler may have stored it anew.              *)
Storing(t) == \E q \in Request : requests[q].at \in {"saved", "replacing"} /\ requests[q].type = t
DeleteFile(r) ==
  LET t == requests[r].type IN
  /\ requests[r].at = "leaving"
  /\ files' = files \ {t}
  /\ raced' = IF Storing(t) THEN raced \cup {t} ELSE raced
  /\ To(r, Ready)
  /\ UNCHANGED <<client, created, removed>>

(* A step fails or the process ends: a transaction is rolled back, a file  *)
(* stays.                                                                  *)
Fail(r) ==
  /\ requests[r] # Ready
  /\ To(r, Ready)
  /\ UNCHANGED <<client, files, created, removed, raced>>

AdminInit ==
  /\ client = NoClient /\ requests = [r \in Request |-> Ready]
  /\ files = {} /\ created = {} /\ removed = {} /\ raced = {}

AdminStep == \E r \in Request :
  \/ \E p \in BOOLEAN, first \in SUBSET Secret : CreateClient(r, p, first)
  \/ Begin(r)
  \/ \E s \in Secret : CreateClientSecret(r, s)
  \/ \E s \in Secret : DeleteClientSecret(r, s)
  \/ \E p \in BOOLEAN : UpdateClient(r, p)
  \/ DeleteClient(r)
  \/ \E t \in Type : SaveLogo(r, t)
  \/ LockLogo(r)
  \/ UpdateClientLogoType(r)
  \/ DeleteClientLogo(r)
  \/ DeleteFile(r)
  \/ Fail(r)

AdminTypeOK ==
  /\ client \in ClientRow \cup {NoClient}
  /\ requests \in [Request -> Handlers]
  /\ files \subseteq Type /\ raced \subseteq Type
  /\ created \subseteq Secret /\ removed \subseteq created

(* No change of a client undoes another: its secrets are those created and *)
(* not taken away, however handlers overlap, and never more than allowed.  *)
SecretsAddUp ==
  LET secrets == IF client = NoClient THEN {} ELSE client.secrets IN
  /\ secrets = created \ removed
  /\ Cardinality(secrets) <= MaxOidcClientSecrets

(* Whatever fails between the row and the storage, the logo the row names  *)
(* is stored; only a second handler at work on the same logo breaks this.  *)
LogoHasFile ==
  client # NoClient /\ client.image # NoType => client.image \in files \cup raced

(* Concurrent handlers of one client do not undo each other's changes.     *)
ChangesAddUp == SecretsAddUp /\ LogoHasFile
=============================================================================
