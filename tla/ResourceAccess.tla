--------------------------- MODULE ResourceAccess ---------------------------
(***************************************************************************)
(* Custom APIs, their permissions and what clients may do with them        *)
(* (backend/internal/api), the resolution of a requested resource, clients *)
(* described by a metadata document (CIMD), and what one user consented    *)
(* to (backend/internal/oidc).                                             *)
(*                                                                         *)
(* A client reaches an API by a grant of its own or, when it is a CIMD     *)
(* client and acts for a user, because the API is open to such clients.    *)
(* Five operations of the API service tell who reaches what, each from     *)
(* the tables; the token endpoint asks one of them.                        *)
(***************************************************************************)
EXTENDS Naturals, FiniteSets

CONSTANTS
  Api, Key,
  Client, Cimd,    \* all clients, those with a metadata document
  Terms, Title,    \* what a document says that matters to a user, and its name
  NoDocument, NoKey,
  MaxChanges,      \* bound on administrative changes and on new documents
  MaxOpen          \* bound on authorizations under way at once

Document == [terms : Terms, title : Title]

ASSUME ResourceAssumption ==
  /\ Cimd \subseteq Client /\ NoKey \notin Key
  /\ NoDocument \notin Document /\ MaxChanges \in Nat /\ MaxOpen \in Nat

Subject == {"user", "client"}

Authorization == [client : Client, api : Api, keys : SUBSET Key,
                  terms : SUBSET Terms, passed : BOOLEAN]

VARIABLES
  apis, permissions,   \* API rows and their <<api, key>>
  openApis,            \* allow_cimd_clients
  openPermissions,     \* allowed_for_cimd_clients
  clients,             \* registered clients, cached CIMD clients
  public,
  access,              \* oidc_clients_allowed_apis: <<client, api, subject>>
  granted,             \* oidc_clients_allowed_api_permissions: <<client, permission, subject>>
  asked,               \* history: access that was asked for without a permission
  published,           \* the documents on the clients' servers
  documents,           \* CIMD client -> the document it was stored from
  fetches,             \* documents fetched and not yet stored
  consents,            \* <<client, consent key>> of the user
  authorizations,      \* of the user, under way: the consent screen is open, or passed
  agreed,              \* history: the terms a consent was given under
  superseded,          \* history: consents given under terms no longer stored
  changes

grantVars == <<apis, permissions, openApis, openPermissions, access, granted, asked>>
clientVars == <<clients, public, documents, fetches, published>>
consentVars == <<consents, authorizations, agreed, superseded>>
resourceVars == <<grantVars, clientVars, consentVars, changes>>

PermissionsOf(a) == {p \in permissions : p[1] = a}
KeysIn(ps) == {p[2] : p \in ps}

Change == changes < MaxChanges /\ changes' = changes + 1
Administrate == Change /\ UNCHANGED <<clientVars, consentVars>>

(* The permissions and API rows of a client for one API and subject.       *)
GrantedTo(c, a, s) == {p \in PermissionsOf(a) : <<c, p, s>> \in granted}

(* cimdGrantedAccess.                                                      *)
CimdApis(c) == IF c \in clients \cap Cimd THEN openApis ELSE {}

\* Mutant: the selection kept for a closed API counts.
CimdPermissions_Kept(c) == IF c \in clients \cap Cimd THEN openPermissions ELSE {}

CimdPermissions(c) == {p \in openPermissions : p[1] \in CimdApis(c)}

(***************************************************************************)
(* Who reaches what, operation by operation.                               *)
(***************************************************************************)

(* AllowedScopesForAudience: asked at the authorize and token endpoints.   *)
HasAccess(c, a, s) ==
  \/ <<c, a, s>> \in access
  \/ s = "user" /\ a \in CimdApis(c)
AllowedScopesForAudience(c, a, s) ==
  KeysIn(GrantedTo(c, a, s)
           \cup IF s = "user" THEN CimdPermissions(c) \cap PermissionsOf(a) ELSE {})

(* ClientAPIScopesAndAudiences, which GetClient widens the client with.    *)
ClientScopes(c) ==
  KeysIn({p \in permissions : \E s \in Subject : <<c, p, s>> \in granted}
           \cup CimdPermissions(c))
ClientAudiences(c) ==
  {a \in apis : \E s \in Subject : <<c, a, s>> \in access} \cup CimdApis(c)

(* ListClientAPIs.                                                         *)
ListClientAPIs(c) ==
  {[api |-> a, subjects |-> {s \in Subject : <<c, a, s>> \in access},
    keys |-> [s \in Subject |-> KeysIn(GrantedTo(c, a, s))],
    cimd |-> a \in CimdApis(c),
    cimdKeys |-> KeysIn(CimdPermissions(c) \cap PermissionsOf(a))] :
     a \in {b \in apis : \/ \E s \in Subject : <<c, b, s>> \in access
                         \/ \E s \in Subject : GrantedTo(c, b, s) # {}
                         \/ b \in CimdApis(c)}}

(* ListAPIClients.                                                         *)
Explicit(a) ==
  {c \in clients : \E s \in Subject : <<c, a, s>> \in access \/ GrantedTo(c, a, s) # {}}
ListAPIClients(a) ==
  {[client |-> c, subjects |-> {s \in Subject : <<c, a, s>> \in access},
    keys |-> [s \in Subject |-> KeysIn(GrantedTo(c, a, s))],
    cimd |-> a \in openApis /\ c \in Cimd,
    cimdKeys |-> IF a \in openApis /\ c \in Cimd
                 THEN KeysIn(PermissionsOf(a) \cap openPermissions) ELSE {}] :
     c \in Explicit(a) \cup IF a \in openApis THEN clients \cap Cimd ELSE {}}

ListAssignableClients(a) ==
  {c \in clients : /\ \A s \in Subject : <<c, a, s>> \notin access
                   /\ a \in openApis => c \notin Cimd}
ListAssignableAPIs(c) ==
  {a \in apis : \A s \in Subject : <<c, a, s>> \notin access} \ CimdApis(c)

(***************************************************************************)
(* Administration of APIs; each handler is one transaction, and all that   *)
(* change an API lock its row.                                             *)
(***************************************************************************)
CreateApi(a) ==
  /\ a \notin apis
  /\ apis' = apis \cup {a}
  /\ Administrate
  /\ UNCHANGED <<permissions, openApis, openPermissions, access, granted, asked>>

\* Mutant: access falls with every deleted permission.
AccessWithout_Any(gone) ==
  {r \in access : \A p \in gone : p[1] = r[2] => <<r[1], p, r[3]>> \notin granted}

(* deletePermissions: the grants go with the permissions, and access with  *)
(* the last permission held there for the same subject.                    *)
AccessWithout(gone) ==
  {r \in access :
     \/ \A p \in gone : p[1] = r[2] => <<r[1], p, r[3]>> \notin granted
     \/ GrantedTo(r[1], r[2], r[3]) \ gone # {}}
DeletePermissions(gone) ==
  /\ permissions' = permissions \ gone
  /\ openPermissions' = openPermissions \ gone
  /\ granted' = {g \in granted : g[2] \notin gone}

(* Delete: what refers to the API row goes with it.                        *)
DeleteApi(a) ==
  /\ a \in apis
  /\ DeletePermissions(PermissionsOf(a))
  /\ access' = {r \in AccessWithout(PermissionsOf(a)) : r[2] # a}
  /\ asked' = asked \cap access'
  /\ apis' = apis \ {a} /\ openApis' = openApis \ {a}
  /\ Administrate

(* UpdatePermissions: a key that is kept keeps its row and its grants.     *)
UpdatePermissions(a, keys) ==
  LET gone == {p \in PermissionsOf(a) : p[2] \notin keys} IN
  /\ a \in apis
  /\ permissions' = (permissions \ gone) \cup ({a} \X keys)
  /\ openPermissions' = openPermissions \ gone
  /\ granted' = {g \in granted : g[2] \notin gone}
  /\ access' = AccessWithout(gone)
  /\ asked' = asked \cap access'
  /\ Administrate
  /\ UNCHANGED <<apis, openApis>>

\* intersectIDs: permission IDs of another API are ignored.
OwnPermissions(a, ps) == PermissionsOf(a) \cap ps

(* SetCIMDAccess: the selection is kept while the API is closed.           *)
SetCIMDAccess(a, enabled, ps) ==
  /\ a \in apis
  /\ openApis' = IF enabled THEN openApis \cup {a} ELSE openApis \ {a}
  /\ openPermissions' = (openPermissions \ PermissionsOf(a)) \cup OwnPermissions(a, ps)
  /\ Administrate
  /\ UNCHANGED <<apis, permissions, access, granted, asked>>

(* deleteAPIClientGrants.                                                  *)
OthersAccess(c, a) == {r \in access : ~(r[1] = c /\ r[2] = a)}
OthersGranted(c, a) == {g \in granted : ~(g[1] = c /\ g[2][1] = a)}

(* A permission implies access for its subject.                            *)
Implied(c, a, s, wanted, ps) == s \in wanted \/ OwnPermissions(a, ps[s]) # {}

(* SetAPIClientAccess: nothing is given to a public client as itself.      *)
SetAPIClientAccess(c, a, wanted, ps) ==
  /\ a \in apis /\ c \in clients
  /\ LET subjects == IF c \in public THEN {"user"} ELSE Subject
         given == {s \in subjects : Implied(c, a, s, wanted, ps)} IN
     /\ access' = OthersAccess(c, a) \cup ({c} \X {a} \X given)
     /\ granted' = OthersGranted(c, a) \cup
          UNION {{c} \X OwnPermissions(a, ps[s]) \X {s} : s \in subjects}
     /\ asked' = (asked \cap OthersAccess(c, a))
                   \cup ({c} \X {a} \X (wanted \cap subjects))
  /\ Administrate
  /\ UNCHANGED <<apis, permissions, openApis, openPermissions>>

RemoveAPIClientAccess(c, a) ==
  /\ a \in apis /\ c \in clients
  /\ access' = OthersAccess(c, a) /\ granted' = OthersGranted(c, a)
  /\ asked' = asked \cap access'
  /\ Administrate
  /\ UNCHANGED <<apis, permissions, openApis, openPermissions>>

(***************************************************************************)
(* Clients.                                                                *)
(***************************************************************************)
AddClient(c, isPublic) ==
  /\ c \in Client \ (Cimd \cup clients)
  /\ clients' = clients \cup {c}
  /\ public' = IF isPublic THEN public \cup {c} ELSE public \ {c}
  /\ Change
  /\ UNCHANGED <<grantVars, documents, fetches, published, consentVars>>

(* UpdateClient; the grants of a client that becomes public stay.          *)
ChangeClient(c, isPublic) ==
  /\ c \in clients \ Cimd
  /\ public' = IF isPublic THEN public \cup {c} ELSE public \ {c}
  /\ Change
  /\ UNCHANGED <<grantVars, clients, documents, fetches, published, consentVars>>

NoConsents(c) ==
  /\ consents' = {r \in consents : r[1] # c}
  /\ agreed' = {r \in agreed : r[1] # c}
  /\ superseded' = {r \in superseded : r[1] # c}

(* DeleteClient: grants, consents and open interactions go with the row.   *)
RemoveClient(c) ==
  /\ c \in clients
  /\ clients' = clients \ {c} /\ public' = public \ {c}
  /\ documents' = [documents EXCEPT ![c] = NoDocument]
  /\ access' = {r \in access : r[1] # c} /\ granted' = {g \in granted : g[1] # c}
  /\ asked' = asked \cap access'
  /\ NoConsents(c)
  /\ authorizations' = {x \in authorizations : x.client # c}
  /\ Change
  /\ UNCHANGED <<apis, permissions, openApis, openPermissions, fetches, published>>

(* The client publishes another document.                                  *)
Publish(c, d) ==
  /\ c \in Cimd /\ d # published[c]
  /\ published' = [published EXCEPT ![c] = d]
  /\ Change
  /\ UNCHANGED <<grantVars, clients, public, documents, fetches, consentVars>>

(* ResolveClient for a client that is not cached or whose document has     *)
(* expired, and RefreshMetadataClient: the document is fetched outside any *)
(* transaction, by any number of requests at once.                         *)
FetchDocument(c) ==
  /\ c \in Cimd
  /\ fetches' = fetches \cup {<<c, published[c]>>}
  /\ UNCHANGED <<grantVars, clients, public, documents, published, consentVars, changes>>

\* Mutant: the grant types and redirect URIs of a document are not compared.
TermsChanged_Never(c, d) == FALSE

(* metadataClientChanges, but for the name alone.                          *)
TermsChanged(c, d) == documents[c] # NoDocument /\ documents[c].terms # d.terms

(* StoreCIMDClient.  What users agreed to is deleted when the terms change;*)
(* a consent screen that is open stays open.                               *)
StoreCIMDClient(c, d) ==
  /\ <<c, d>> \in fetches
  /\ fetches' = fetches \ {<<c, d>>}
  /\ documents' = [documents EXCEPT ![c] = d]
  /\ clients' = clients \cup {c} /\ public' = public \cup {c}
  /\ IF TermsChanged(c, d)
     THEN NoConsents(c) /\ UNCHANGED authorizations
     ELSE UNCHANGED consentVars
  /\ UNCHANGED <<grantVars, published, changes>>

(* The fetch, the policy or the transaction fails.                         *)
RejectDocument(c, d) ==
  /\ <<c, d>> \in fetches
  /\ fetches' = fetches \ {<<c, d>>}
  /\ UNCHANGED <<grantVars, clients, public, documents, published, consentVars, changes>>

(***************************************************************************)
(* A user authorizes a client for a resource.                              *)
(***************************************************************************)

(* resolveResource for a user, once the scopes and the audience have       *)
(* passed the checks of the client.                                        *)
Resolves(c, a, keys, s) ==
  /\ keys \subseteq ClientScopes(c) /\ a \in ClientAudiences(c)
  /\ a \in apis /\ HasAccess(c, a, s) /\ keys \subseteq AllowedScopesForAudience(c, a, s)

(* consentKeysForGrant: the keys, qualified by the API, and the API.       *)
ConsentKeys(a, keys) == {a} \X (keys \cup {NoKey})

TermsOf(c) == IF documents[c] = NoDocument THEN {} ELSE {documents[c].terms}

(* The requirements of a request are resolved, under the terms stored now. *)
(* The user is asked unless they agreed before or the client skips consent;*)
(* both are possible whatever is on record, as a request may insist on the *)
(* screen and an administrator may let any client skip it.                 *)
BeginAuthorization(c, a, keys, screen) ==
  /\ c \in clients /\ Resolves(c, a, keys, "user")
  /\ Cardinality(authorizations) < MaxOpen
  /\ authorizations' = authorizations \cup
       {[client |-> c, api |-> a, keys |-> keys, terms |-> TermsOf(c), passed |-> ~screen]}
  /\ UNCHANGED <<grantVars, clientVars, changes, consents, agreed, superseded>>

(* consent: merged with what is on record.  Nothing compares the terms the *)
(* authorization began under with those stored now.                        *)
RecordConsent(x, keys) ==
  LET new == {k \in ConsentKeys(x.api, keys) :
                <<x.client, k>> \in consents => <<x.client, k>> \in superseded} IN
  /\ Resolves(x.client, x.api, keys, "user")
  /\ consents' = consents \cup ({x.client} \X ConsentKeys(x.api, keys))
  /\ agreed' = {r \in agreed : ~(r[1] = x.client /\ r[2] \in new)}
                 \cup ({x.client} \X new \X x.terms)
  /\ superseded' = IF x.terms = TermsOf(x.client)
                   THEN superseded \ ({x.client} \X new)
                   ELSE superseded \cup ({x.client} \X new)
  /\ UNCHANGED <<grantVars, clientVars, changes>>

(* completeConsentStep: only the scopes left selected go on.               *)
CompleteConsentStep(x, approved) ==
  /\ x \in authorizations /\ ~x.passed
  /\ RecordConsent(x, approved)
  /\ authorizations' = (authorizations \ {x})
                          \cup {[x EXCEPT !.keys = approved, !.passed = TRUE]}

(* authorizeAuthenticated records the consent again when nothing more is   *)
(* required: the flags of the interaction count, not the table.            *)
FinishAuthorization(x) ==
  /\ x \in authorizations /\ x.passed
  /\ RecordConsent(x, x.keys)
  /\ authorizations' = authorizations \ {x}

(* The user goes away, or the interaction expires.                         *)
AbandonAuthorization(x) ==
  /\ x \in authorizations
  /\ authorizations' = authorizations \ {x}
  /\ UNCHANGED <<grantVars, clientVars, changes, consents, agreed, superseded>>

ResourceStep ==
  \/ \E a \in Api : CreateApi(a)
  \/ \E a \in Api : DeleteApi(a)
  \/ \E a \in Api, keys \in SUBSET Key : UpdatePermissions(a, keys)
  \/ \E a \in Api, e \in BOOLEAN, ps \in SUBSET permissions : SetCIMDAccess(a, e, ps)
  \/ \E c \in Client, a \in Api, wanted \in SUBSET Subject :
       \E ps \in [Subject -> SUBSET PermissionsOf(a)] : SetAPIClientAccess(c, a, wanted, ps)
  \/ \E c \in Client, a \in Api : RemoveAPIClientAccess(c, a)
  \/ \E c \in Client, p \in BOOLEAN : AddClient(c, p)
  \/ \E c \in Client, p \in BOOLEAN : ChangeClient(c, p)
  \/ \E c \in Client : RemoveClient(c)
  \/ \E c \in Client, d \in Document : Publish(c, d)
  \/ \E c \in Client : FetchDocument(c)
  \/ \E f \in fetches : StoreCIMDClient(f[1], f[2])
  \/ \E f \in fetches : RejectDocument(f[1], f[2])
  \/ \E c \in Client, a \in Api, keys \in SUBSET Key, screen \in BOOLEAN :
       BeginAuthorization(c, a, keys, screen)
  \/ \E x \in authorizations : \E approved \in SUBSET x.keys : CompleteConsentStep(x, approved)
  \/ \E x \in authorizations : FinishAuthorization(x)
  \/ \E x \in authorizations : AbandonAuthorization(x)

ResourceInit ==
  /\ apis = {} /\ permissions = {} /\ openApis = {} /\ openPermissions = {}
  /\ clients = Client \ Cimd /\ public = {}
  /\ access = {} /\ granted = {} /\ asked = {}
  /\ published \in [Cimd -> Document] /\ documents = [c \in Client |-> NoDocument]
  /\ fetches = {} /\ changes = 0
  /\ consents = {} /\ authorizations = {} /\ agreed = {} /\ superseded = {}

ResourceTypeOK ==
  /\ permissions \subseteq apis \X Key
  /\ openApis \subseteq apis /\ openPermissions \subseteq permissions
  /\ clients \subseteq Client /\ public \subseteq clients
  /\ access \subseteq clients \X apis \X Subject
  /\ granted \subseteq clients \X permissions \X Subject
  /\ asked \subseteq access
  /\ published \in [Cimd -> Document] /\ documents \in [Client -> Document \cup {NoDocument}]
  /\ fetches \subseteq Cimd \X Document
  /\ consents \subseteq clients \X (Api \X (Key \cup {NoKey}))
  /\ authorizations \subseteq Authorization
  /\ changes \in 0..MaxChanges

(* Grants and access stay in step through every order of changes: whoever  *)
(* was granted a permission reaches its API, and whoever reaches an API    *)
(* without a permission was given just that, and did not lose the last     *)
(* permission when an administrator removed it from the API.               *)
AccessFollowsGrants ==
  /\ \A g \in granted : <<g[1], g[2][1], g[3]>> \in access
  /\ \A r \in access : GrantedTo(r[1], r[2], r[3]) # {} \/ r \in asked

(* The five operations that tell who reaches an API agree: the page of a   *)
(* client and the page of an API list the same, what they offer to add is  *)
(* the rest, and the endpoints grant what is listed, no less, with scopes  *)
(* and audiences that pass the checks of the client.                       *)
ViewsAgree ==
  \A c \in clients, a \in apis :
    LET entries == {e \in ListClientAPIs(c) : e.api = a} IN
    /\ (entries = {}) <=> a \in ListAssignableAPIs(c)
    /\ (entries = {}) <=> c \in ListAssignableClients(a)
    /\ {<<e.subjects, e.keys, e.cimd, e.cimdKeys>> : e \in entries} =
         {<<e.subjects, e.keys, e.cimd, e.cimdKeys>> :
            e \in {f \in ListAPIClients(a) : f.client = c}}
    /\ \A s \in Subject :
         /\ HasAccess(c, a, s) <=>
              \E e \in entries : s \in e.subjects \/ (s = "user" /\ e.cimd)
         /\ AllowedScopesForAudience(c, a, s) =
              UNION {e.keys[s] \cup IF s = "user" THEN e.cimdKeys ELSE {} : e \in entries}
         /\ HasAccess(c, a, s) => Resolves(c, a, AllowedScopesForAudience(c, a, s), s)

(* What a user consented to for a client with a document was agreed under  *)
(* the terms that are stored now, however fetches, changes of the document *)
(* and consents overlap, with one exception, which is marked exactly: the  *)
(* document was replaced after the authorization began, so that the screen *)
(* the user agreed on (or the check that found no screen was needed) was   *)
(* of the one before.  No consent outlives a document that replaces        *)
(* the terms after it was recorded.                                        *)
ConsentFollowsDocument ==
  /\ \A r \in consents : r[1] \in Cimd => \E t \in Terms : <<r[1], r[2], t>> \in agreed
  /\ \A r \in agreed :
       r[1] \in clients /\ (documents[r[1]].terms = r[3] <=> <<r[1], r[2]>> \notin superseded)

(* Grants, the access they give, and every view of both are the same story *)
(* through every order of changes.                                         *)
AccessIsOneStory == AccessFollowsGrants /\ ViewsAgree
=============================================================================
