# Pocket ID: a verification model

Pocket ID is an OpenID Connect provider whose users sign in with passkeys. Its
backend (`backend/`, Go) is a set of services over one SQL database and a store
of *actors*, small pieces of state with a lifetime that are addressed by a name
and invoked one call at a time. This directory holds TLA+ modules of the parts
of the backend in which the order of steps decides whether the result is right,
the TLC configurations that check them, and proofs that TLAPS checks.

    tlc -workers 2 -config TokenSessions.cfg MCTokenSessions
    tlapm TokenSessionsProofs.tla

Line numbers of the correspondence between definitions and source are in
`PROJECT.json` (`map`); so are the hazards the properties are aimed at.

## 1. The system

| Component | State it keeps | Operations | Hard behaviour |
|---|---|---|---|
| Token store, token endpoint (`internal/oidc/store.go`, `token_handler.go`) | `oauth2_sessions`: codes, access and refresh tokens; consents | authorize, exchange, refresh with rotation and a grace period, revoke, end session, cleanup | a request reads outside the transaction that redeems; reuse, revocation and cleanup run in between |
| Authorization interaction (`authorization_service.go`, `interaction_session_service.go`) | `interaction_sessions` | start, complete a step, switch user, resume, expire | a resumed request decides on a copy of the session; several tabs and users work on one session |
| Device grant (`device_service.go`) | `device_code` and `user_code` rows | create, approve, poll, redeem | two rows that must agree; concurrent approvals and polls |
| Client authentication, pushed requests (`federated_client_auth.go`, `par_handler.go`) | IDs of assertions, pushed sessions | present, claim, sweep | what may be presented once, beside expiry and cleanup |
| APIs and metadata documents (`internal/api`, `oidc/cimd.go`) | APIs, permissions, grants of clients, cached documents, consents | grant, delete, open to CIMD clients, fetch, consent | five views of one access; a consent given on the screen of an older document |
| Client administration (`service/oidc_service.go`) | client rows, secrets, logos | create, update, add and remove secrets, logos, revoke | several handlers write one row; files are outside the transaction |
| Device login (`internal/devicelogin`) | an actor per user code; reauthentication tokens | create, decide, long-poll, exchange | proof, actor and user are touched in three separate calls; short codes are reused |
| One-time access (`internal/onetimeaccess`) | an actor per login code | store, consume, sign in, restore | consume first, compensate after a failure, crash in between |
| Signup (`internal/usersignup`) | an actor per signup token; the users table; a frozen `kv` row | create and delete tokens, sign up, initial administrator, migrate, clean up | use counted outside the transaction that creates the account; migration at every start |
| WebAuthn and reauthentication (`internal/webauthn`) | ceremony sessions, passkeys, reauthentication tokens | register, sign in, reauthenticate, rename, delete | single use; a rename saves a row read without a lock |
| API keys (`internal/apikey`) | rows | create, use, renew, revoke, expiry mail | renewal against revocation and mail |
| Email verification (`internal/emailverification`) | an actor per user; three columns of the user | issue, deliver, discard, consume, restore, cancel | links that overtake each other; a row read without a lock and written back whole |
| Users, groups (`service/user_service.go`, `user_group_service.go`) | rows, profile pictures | create, update, membership, restrictions, delete | every change has followers: notices, syncs, files |
| LDAP sync (`internal/ldapsync`) | the rows it owns | fetch, reconcile, notify | reads outside, writes inside a transaction, notifies after it |
| Back-channel logout (`internal/backchannellogout`) | queued notices | resolve, dispatch, deliver, retry | who is told after which loss of access; lost between commit and dispatch |
| SCIM sync (`internal/scimsync`) | one actor per provider, with a debounced schedule | snapshot, push, retry | changes that arrive while a run is under way; skipping by modification time |
| Custom claims (`custom_claim_service.go`, `oidc/claims_service.go`) | rows of users and groups; remappings | replace, resolve | replacements of several statements that overlap |
| Application configuration (`internal/appconfig`) | a singleton actor; a table of earlier versions | bootstrap, update, replace | versions, migrations, several replicas |
| Keys, instance ID (`service/jwt_service.go`, `utils/jwk`) | encrypted `kv` rows | generate, load, rotate | replicas starting at once; a changed encryption key |
| Images (`app_images_service.go`), storage (`internal/storage`) | files, or rows | save, delete, upgrade, clear | several calls per change, a process that stops between them |
| Audit log, known browsers (`internal/auditlogs`) | rows, a cookie | record, compare, notify, clear | first sign-ins from a place that run beside each other |
| Geolocation (`internal/geolite`) | a file that is mapped | download, watch, load | the file changes during a load |
| Export, import (`export_service.go`, `import_service.go`, `cmds`) | an archive; all of the above | export, lease, drop, restore, insert | three places of data read and written one after the other |
| Mail, outbound HTTP, HTTP layer, utilities, frontend | | | I/O or stateless; failures of theirs appear as failing steps |

Interaction between components: HTTP handlers call services; services run SQL
transactions and invoke actors (never an actor inside a transaction: on SQLite
that would deadlock, which is why signup and login codes consume first and
compensate later); the scheduler runs cleanup jobs and syncs, start-up runs
migrations. An administrator's or a user's edit reaches the token endpoint only
through the rows it reads; it reaches relying parties through notices that are
resolved in its transaction or after it, and a SCIM provider through the times
of change it leaves on the rows. At this commit one instance at a time is
supported: high availability cannot be switched on (`env_config.go:139`), and a
second instance is refused by the cluster it joins (`bootstrap.go:133`). Much of
the code is written for several replicas all the same, and a second one runs up
to that refusal, which comes after it loaded or generated its keys. `Keys`
therefore has replicas that start at once; in `Configuration` and `Signup`
servers start in any order, one after the other or, as the code is written to
allow, together. `AppImages` and `Backup` are about one serving instance, in the
embedded runtime.

What makes each part correct, in a sentence: a credential is redeemed once; a
revoked family stays dead; a request is granted only after the screens it asks
for, to the user who passed them, for scopes they approved; a device is signed
in as whoever approved that very device; a code or a token consumed by a failed
operation is given back unchanged; limits hold; an address is verified only if
somebody vouched for it; whoever loses access is signed out; the directory and
the provider end up saying the same; what was chosen is what is served, over
restarts, upgrades and restores; and what was approved is eventually delivered.

## 2. The modules

`X` is a component, `MCX` its small instances, `XProofs` theorems about it;
`CredentialsProofs` is about `Credentials` and `EmailVerification`,
`DeviceProofs` about `DeviceGrant` and `DeviceLogin`, and `PartsProofs`,
`UpkeepProofs` and `AppearanceProofs` divide the eleven parts of `Parts` between
them.
Modules that interact are composed: `LdapSync`, `LogoutNotices` and `ScimSync`
extend `Accounts`, and `Provisioning` lets them take turns on its users and
groups. Modules that share nothing are put side by side, so that one run
explores each in turn: `Credentials` chooses a `credential`, `Parts` a `focus`,
and only the chosen part takes steps. Components that share a row or a token
each hold the part of it they use (the consents in `TokenSessions`,
`Interaction` and `DeviceGrant`; reauthentication tokens in the last two and in
`DeviceLogin`, where `Passkeys` tells how they come about). There are two
abstract specifications: `TokenSessions` implements `TokenFamily`;
`OneTimeAccess`, `DeviceGrant` and `DeviceLogin` each implement `Admission`.

Conventions. One action is one transaction, one actor invocation, or one read
that later steps rely on; what the code does between two of them (another
request, a crash) may happen between two actions. Requests in flight are
members of a set of workers with a program counter and the values they have
read. Variables marked *history* are not in the code: they remember what
happened for the properties. `None`, `NoRow` and the like are a missing row,
time or user.

A transaction is one step: the default database is SQLite, opened with
`_txlock=immediate`, where write transactions exclude each other. On Postgres
(read committed) they may overlap. There, the redeeming of codes, refresh
tokens, device and user codes, reauthentication tokens and interaction sessions
still excludes a second one, since each is decided by the number of rows that one
conditional statement affects, the edits of a user and the first account lock
what they read, and actors are invoked one call at a time. What is not
protected there and is read and written back whole is split into its read and
its write where it matters: `UpdateUserGroups` in `EmailVerification`, the
renaming of a passkey, the renewal of an API key, the claims of one owner in
`Claims`, and every statement of `ClientAuth`. The steps of one interaction
completed at the same time are not split.

### Authorization

**TokenSessions** — `code`, `access`, `refresh` are the three kinds of
`oauth2_sessions` row. `PresentCode` and `PresentRefreshToken` are fosite's
`NewAccessRequest` up to the store's `GetAuthorizeCodeSession` and
`GetRefreshTokenSession`, with the revocation of the family when the credential
was used before (two store calls for a code: `RevokeReusedCode` is the second);
`ValidateUserAccess` is the handler's check; `RespondCode` and
`RotateRefreshToken` are `NewAccessResponse` in its transaction; then the user's
revocation of a client, logout, the cleanup job, and the clock. One member of
`Tokens` is one token response: an access token and its refresh token.

**TokenFamily** — the life of one authorization: granted, opened by one
exchange, renewed, closed for good. No rows, requests or grace period.

**Admission** — what the ways in have in common where a ticket is got in one
place and presented in another: a ticket is bound to one person, once, and lets
somebody in once, as that person. The ticket is a login code, bound to its user
when it is made (`CodeTicket` of `OneTimeAccess`); a request of a device, bound
by the approval and redeemed by the poll (`GrantTicket` of `DeviceGrant`); a
device that waits to be signed in, bound by the decision of a user (`LoginTicket`
of `DeviceLogin`). No codes, rows, proofs, compensations or expiry: a ticket
may come to nothing at any time.

**Interaction** — `session` is `interaction_sessions`. The four `Complete*`
actions are the branches of `completeInteractionStep`; `RestoreRequest`,
`BindSession` and `Resume` are the two reads and the transaction of a resumed
request, which decides on the copy in `proc`. What a client asks for (`prompt`)
is drawn by each request.

**DeviceGrant** — `device` and `userCode` are the two rows.
`ReadForApproval`/`AcceptDeviceCode` are an approval before and in its
transaction, `PollToken`/`RedeemDeviceCode` a token request.

**ClientAuth** — `jtis` are the stored IDs of client assertions, `pushed` the
sessions of pushed requests, `interactions` what each authorize request carries
on. Every statement is a step, so two requests may read before either writes;
the job deletes what has expired.

**ResourceAccess** — APIs, their permissions and the grants of clients, with
the five operations that tell who reaches what; `documents` are the metadata
documents clients were stored from, `fetches` those fetched and not yet stored,
`consents` what the user agreed to. `authorizations` are those of the user that
are under way: `BeginAuthorization` opens the consent screen, or passes without
one, of the document stored then; `CompleteConsentStep` and
`FinishAuthorization` record the consent, each as the code does, without a look
at the document.

**ClientAdmin** — one client row, its secrets and its logo: handlers that read
it under a lock and write it when they commit, and the files that are stored and
deleted outside of that.

### Credentials and accounts

**DeviceLogin** — `state` is `requestActorState` by user code. `ConsumeProof`,
`Approve` are `Service.Decide`; `PollApproved`, `LoadExchangeUser`, `Consume`,
`SignIn` are `Service.Exchange`, an actor or database call each.

**OneTimeAccess** — `store` is the actor's `TokenState`. `Consume`, `SignIn`,
`FailExchange`, `RestoreToken` are an exchange and its compensation; `Crash`
ends it anywhere. Time is a number, the expiry of each token is compared to it.

**Passkeys** — `ceremonies` are the rows with a challenge, deleted in the
transaction that registers a passkey, signs in or creates a reauthentication
token; `tokens` remember when their user proved presence; a rename reads and
saves.

**ApiKeys** — one key: its row, renewals that have read it, revocation, the
daily job between its list, its mails and its marks, and the user of the static
key. `reached` are the values a run of the job has dealt with, by a mail and a
mark or by passing over a marked row. Runs that send nothing, because mails are
disabled or the user has no address, leave no trace and are left out.

**Signup** — `uses` is `SignupTokenState`, `frozen` the `kv` row that
`Migrate` reads at each `Start`. `ConsumeToken` to `ReleaseSignupToken` are
`Service.SignUp`; `ConsumeExpiringToken` is the token whose lifetime ends
between the check and the save of the actor; `BeginInitialSetup` and
`CommitInitialSetup` are `SignUpInitialAdmin` under its lock.

**EmailVerification** — `row` is the user's address, flag and deadline,
`state` the actor's outstanding link. `LoadUser`, `Issue`, `Deliver`, `Discard`
send one; `ConsumeLink`, `UpdateRow`, `FailUpdate`, `RestoreLink` use one; the
edits of the row and the job that deletes overdue signups are actions beside
them. Settings are parameters of the steps that read them: they may change
between any two steps.

### Provisioning

**Accounts** — users, groups, and the group restriction of one client, changed
by the handlers of users, groups and the client. A commit leaves a notice in
`after`: users whose clients were resolved in the transaction, users all of
whose clients are told, users whose group access is looked up later. `settled`
says whose copy at the provider is newer than the row: it stands for all that
the times of change decide.

**LdapSync** — `FetchDesiredState` reads the directory, `Move` changes it.
`BeginSync`, `ReconcileUser` and `CommitSync` are one transaction that
reconciles with what was read: a turn of its loop for each user, in any order,
with the clash of two names, then the deprovisioned users, the group and the
commit. The turns work on `transaction.rows`, which nobody else sees;
`Provisioning` lets nothing happen between them, so they stay one step to
everybody else, as in the code.

**LogoutNotices** — `Dispatch` resolves a notice and schedules the jobs,
`Deliver`, `Retry`, `GiveUp` are the deliveries, `Crash` loses what was not
dispatched; users sign in again in between.

**ScimSync** — `LoadSnapshot` reads users, groups and the provider's copies and
decides what to push, `Push` writes one resource, requests fail, answers get
lost and a run ends in the middle.

### The instance

**Claims** — replacements of an owner's claims, statement by statement, what a
token says for a scope, and a remapping of a client.

**Keys** — two `kv` rows and replicas that load, generate, insert and retry,
each under the encryption key it was started with; `key-rotate` and
`encryption-key-rotate`.

**Configuration** — the persisted state of the actor, the table of a version
before it, and states in which settings are missing or older; each start
bootstraps, administrators change one setting or all.

**LocationDatabase** — the file, two loaders with a stat, an open and an
exchange each, the watch, and downloads.

**AppImages** — one image that comes with the program and may be replaced and
deleted: the files of each type, both markers, and each storage call of a start,
an upload and a deletion.

**Pictures** — profile pictures, generated default pictures, and the storage
below them: a temporary file that is written and renamed, or one statement; the
jobs that clear unused pictures and orphaned temporary files.

**SignIns** — the record of a sign-in, the comparison with earlier records and
with the browser's cookie, the notice. A passkey sign-in does this in one
transaction, a sign-in with a code in single calls.

**Backup** — an export that reads database, actors and files while the instance
serves, an import that takes a lease, drops, migrates and fills, and an instance
that starts and stops beside both. The data counts how often something that
works once was used: in the actor first, in the database afterwards.

## 3. What is checked

Measured with two workers. Every property also has mutants of the code's
definitions under which its run reports a violation (`mutants`): one for each
part of a property that joins several.

| Run | States | Bounds | Shows |
|---|---|---|---|
| `token_sessions` | 234 K | 1 authorization, 4 token responses, 2 token requests, clock to 2, lifetimes 1, grace 2 | a code is exchanged once (`CodeExchangedOnce`); a revoked family stays dead; the grace period starts once, an access token goes with its refresh token, reuse stays detectable until expiry (`RotationLeavesTraces`); a disabled user's grants run dry; `TokenFamily` is implemented |
| `interaction` | 216 K | 2 users, 2 scopes; a client that asks for consent and account selection, with 1 request in 2 tabs at once; a client that asks for logins, with 2 requests resumed one at a time and one reauthentication token at a time | granted once; every screen a request asks for was passed by the user it is granted to, a reauthentication with a token of their own (`ScreensHonoured`); only approved scopes are granted |
| `interaction_progress` | 980 | 1 request with every screen, 1 user | a persistent user gets the grant |
| `device_grant` | 53 K | 1 request, 2 users, 3 processes, 2 scopes | both codes are used once, as a ticket of `Admission` (`DeviceCodeIsTicket`); tokens follow the approval and the two rows agree; an approved device gets its tokens |
| `device_login` | 14 K | 1 code reused by 2 devices, 2 users, 2 processes, 1 proof a user | a device gets the one session approved for it, and approvals cost proofs (`SessionWasApproved`); it is a ticket of `Admission`, although its code comes back (`WaitingDeviceIsTicket`); an approved device gets a session, unless its request ran out, its user was disabled, or the server failed after consuming the request (`ApprovedDeviceSignsIn`) |
| `credentials` | 902 K | login codes: 2, 2 browsers, 2 exchanges, lifetimes 1 and 2, clock to 2; passkeys: 1 passkey, 3 ceremonies, clock to 4; keys: 3 values, 2 renewals, 3 days; signups: a migrated and a new token, limit 2, lifetime 1, 2 signups, 2 accounts | a login code is a ticket of `Admission` (`LoginCodeIsTicket`) and kept through failures; presence is proved, single and recent, and a deleted passkey stays away but for a stale rename (`PasskeysAreNeeded`); a renewal ends the old value, and the daily job does not pass over the new one (`RenewalIsComplete`); limits hold, uses add up, one initial administrator (`AccountsAreEarned`) |
| `email_verification` | 405 K | 2 addresses, 2 links, 2 processes; stale saves and deletions while no link is out, or links | links are not lost to older ones and cancelled links stop (`LinksKeepTheirWord`), a verified address is proven, only a stale save undoes it |
| `provisioning` | 432 K | a user of the directory and a local one, 2 groups, 2 names, 2 delivery attempts, 2 edits or an edit and a fault | whoever loses access is about to be told; what a sync skips is in step; the directory prevails; the provider converges |
| `parts` | 623 K | see below | the twelve properties of the eleven parts |
| `revoked_client`, `signup_migration`, `email_lost_update` | | | refute what a text of the repository says |

`parts`: 2 APIs with 2 permissions, an ordinary and a metadata client, 2
versions of the document, 4 changes, one authorization at a time
(`AccessIsOneStory`, `ConsentFollowsDocument`); 3 secrets with a limit of 2, 2 types of logo, 2
handlers (`ChangesAddUp`); an assertion and 2 pushed requests, 2 requests at
once, clock to 2, skew 1 (`RequestsComeOnce`); a user and a group, a key of
their own and `picture`, 2 values, 2 editors, 3 edits (`ClaimsAsChosen`);
2 replicas, 2 encryption keys,
1 retry where the code has 3 (`ReplicasAgreeOnKeys`); 2 replicas and every state
an earlier version may have left, 2 changes (`ChoicesSurvive`); 3 files
(`WatchedFileIsServed`); 2 processes, 2 file types, 2 uploads
(`ChosenImageShown`); a user with one set of initials, 2 workers, 2 saves, both
storage back ends (`PicturesFollowUsers`); 2 users, 2 browsers, 2 places, 2
requests (`StrangersAreTold`); 2 files, 2 uses (`RestoredUsesStayUsed`). The
APIs, replicas, processes, workers and requests are the same two values, which
are alike.

Four runs cut behaviours away with a constraint on the step, and each constraint
keeps what the property of its part is about. `interaction` (`Screens`,
`Logins`): the client that asks for consent has one request, whose session is
completed and resumed from two tabs before it expires, with at most two
confirmed consent screens; the client that asks for logins has two requests that
may expire, resumed in turn. `email_verification` (`NoLinks`, `LinksOnly`): a save
of old columns and the deletion of an overdue account meet the sending of the
first link, a link meets other links and edits; all three at once are left to the
proof, and to `email_lost_update`, which has no such constraint. `provisioning`
(`TwoTroubles`): edits and faults share their bound. `parts` (`FewGrants`,
`OneClaim`, `FewOutdated`): once a document is stored, at most one permission exists or only
the metadata client is given access; a replacement of claims sets one and
removes the other (`OneClaim`); and one replica at a time misses a key that was
rotated. The safety theorems of section 4 about these modules have none of
the constraints, nor any of the bounds.

Why these bounds are enough: the races are between *two* requests on *one*
credential, row or file (a third request repeats what the second can do, since
every loser leaves without effect), so two processes and one or two things show
them; where users may replace each other there are two; where a result must be
told from a second one (a retry in the grace period, a new link after an old
one, a reused code) there are two of it, and four token responses cover a code,
a rotation, and two retries of it. Clocks run until a row that is created at
the start has run out, so rows are seen before, at and after their expiry. The end
of a grace period is met by a request that presented a rotated token within it
and is answered later. The
behaviours of `provisioning` follow either the client (who is told) or the
provider (what is pushed): neither of the two reads what the other writes. A
SCIM sync is skipped wrongly after one change and one sync, and needs a second
change only to be overtaken, so two edits suffice; one fault is enough to leave
a run or a notice in the middle, of the change that came before it. Names such as `MaxEdits`, `MaxChanges`,
`MaxSaves` bound only how often something happens. Symmetry is used only in
runs without a liveness property.

Deadlock is checked wherever something can always happen. It is not in
`interaction` and `interaction_progress`, where an interaction may end with its
one request granted, and in `email_verification`, where a user may be deleted
with nothing in flight.

Three runs refute what a text of the repository says:

- `revoked_client`: after "Revoke access", `en.json:523` says, the client is no
  longer able to access the account; a pending authorization code survives the
  revocation and is exchanged afterwards (`oidc_service.go:827` looks for
  usable refresh tokens only).
- `signup_migration`: the migration "on first startup" runs at every start and
  re-creates a migrated token that an administrator has deleted.
- `email_lost_update`: a verified account is no longer deleted for missing its
  deadline, says `user_service.go:674`. `UpdateUserGroups` reads the user without
  a lock and saves all columns, so on Postgres it can undo a verification that
  commits in between and bring the deadline back; `OnlyStaleSavesUnverify` shows
  that nothing else does.

Properties with exceptions say what the code does not prevent, each marked by a
history variable so that nothing else slips through: a rename that revives a
deleted passkey (`revived`), the mark of an older mailing list (`overtaken` in
`ApiKeys`), a notice lost in a crash (`missed`), copies at a provider that
drifted (`drifted`), claims after overlapping replacements (`overlapped`), a
database loaded by an overtaken load (`overtaken` in `LocationDatabase`), images
after a change that was cut short (`muddled`), pictures of deleted users
(`leftovers`, `latecomers`), sign-ins whose history could not be read (`blind`)
or already held a later record from the same place (`crossed`), consents given on
a screen of an earlier document (`superseded`), and restores that were cut short
(`cut`). Section 5 tells how each comes about.

### Fairness

Safety runs use a specification without fairness. The liveness properties
assume:

- `ApprovedDeviceGetsTokens`: a device keeps polling (RFC 8628; the endpoint
  answers `authorization_pending` until then), so `PollToken` is strongly fair:
  processes may be busy with other requests in between. A token request that
  can go through is not aborted forever (strong fairness of `RedeemDeviceCode`),
  and no request stays in flight (weak fairness of the rejections). The
  property assumes that the access is not taken away again.
- `ApprovedDeviceSignsIn`: the waiting page polls again when a long poll ends
  (strong fairness of `PollApproved`). The server finishes requests: one that can
  consume the state is not stopped before that forever (strong fairness of
  `LoadExchangeUser` and `Consume`), one that consumed it signs in or fails (weak
  fairness of `SignIn`), and one that can do neither ends. The request may be
  cut short after it consumed the state (`lost`), and the state may expire
  before (`elapsed`); the property names both. That the request is consumed is
  not enough for it: it asks for the session.
- `InteractionEnds`: a user who does not give up, completes the screen shown,
  fetches a reauthentication token whenever there is none, and resumes. Nothing
  is assumed of the other users, of expiry, or of revocations.
- `DirectoryPrevails` and `ProviderConverges`: the alarms of both syncs come
  back, since a run that fails reports no error to the scheduler (an error
  would remove the alarm), so a sync that is idle starts again and one under
  way ends (weak fairness of `ReadDirectory`, `EndLdapSync` and `Provide`).
  That changes and faults cease is not assumed by fairness but by their bounds.

## 4. What is proved

The theorems hold for every number of requests, tokens, users, clients,
browsers, replicas and concurrent processes, every lifetime, limit, grace period
and clock bound, and without the constraints of section 3. They assume only the
named `ASSUME`s of the modules:

- the shape of the constants: sets of the right kind, numbers that are natural;
- that `Provisioning` begins with users, groups and a directory of their types,
  where every member of a group is a user there is (a foreign key in the code);
- that a value which stands for nothing (`None`, `Nothing`, `NoRow`, `NoUser`,
  `NoConfig`, `NoClaim`, `Absent`, `NoFormat`, ...) is none of the values it stands
  beside;
- what the code fixes: a grace period, a limit of secrets, limits of signup
  tokens, and lifetimes of keys, login codes and signup tokens that are not zero;
  the bundled image has a known format, and no custom claim is called `name`,
  which is reserved (`custom_claim_service.go:22`). Signups are finitely many, since they are counted.

| Theorem | Property | Module |
|---|---|---|
| `TypeCorrect` | `TypeOK` of `TokenSessions` | TokenSessionsProofs |
| `CodeIsSingleUse` | `CodeExchangedOnce` | TokenSessionsProofs |
| `RevocationIsFinal` | `RevokedFamilyStaysDead` | TokenSessionsProofs |
| `TokenFamilyRefinement` | `ImplementsTokenFamily`, a refinement | TokenSessionsProofs |
| `RotationsAreTraced` | `RotationLeavesTraces` | TokenSessionsProofs |
| `DisabledUsersRunDry` | `DisabledUserRunsDry`, an action property | TokenSessionsProofs |
| `InteractionsAreGrantedOnce` | `GrantedOnce` | InteractionProofs |
| `ScreensAreHonoured` | `ScreensHonoured` | InteractionProofs |
| `GrantsAreApproved` | `GrantWithinApproval` | InteractionProofs |
| `CodesAreUsedOnce` | `RedeemedOnce` of `DeviceGrant` | DeviceProofs |
| `DevicesGetWhatWasApproved` | `TokensFollowApproval` | DeviceProofs |
| `DevicesAreSignedInOnce` | `SessionWasApproved` | DeviceProofs |
| `DeviceCodesAreTickets` | `DeviceCodeIsTicket`, a refinement | DeviceProofs |
| `WaitingDevicesAreTickets` | `WaitingDeviceIsTicket`, a refinement | DeviceProofs |
| `AccessTypeCorrect` | `TypeOK` of `OneTimeAccess` | CredentialsProofs |
| `CodeSignsInOnce` | `UsedOnce` of `OneTimeAccess` | CredentialsProofs |
| `LoginCodesAreTickets` | `LoginCodeIsTicket`, a refinement | CredentialsProofs |
| `TokenIsInOnePlace` | `TokenInOnePlace` of `OneTimeAccess` | CredentialsProofs |
| `FailureLosesNothing` | `FailureKeepsToken` | CredentialsProofs |
| `RestoringChangesNothing` | `RestoredAsIssued` of `OneTimeAccess` | CredentialsProofs |
| `PasskeysOpenAlone` | `PasskeysAreNeeded` | CredentialsProofs |
| `OldKeysAreGone` | `RenewalIsComplete` | CredentialsProofs |
| `SignupsAreEarned` | `AccountsAreEarned` | CredentialsProofs |
| `VerifiedAddressesAreProven` | `VerifiedIsProven` | CredentialsProofs |
| `LinksDoAsPromised` | `LinksKeepTheirWord` | CredentialsProofs |
| `OnlySavesOfOldRowsUnverify` | `OnlyStaleSavesUnverify`, an action property | CredentialsProofs |
| `ProvisioningInvariant` | the inductive invariant `ProvisioningInv` | ProvisioningProofs |
| `LostAccessIsAnnounced` | `LostAccessIsTold` | ProvisioningProofs |
| `SkipsAreSafe` | `SkipIsSafe` | ProvisioningProofs |
| `ClientsComeOnce` | `RequestsComeOnce` | PartsProofs |
| `ConsentsKeepTheirTerms` | `ConsentFollowsDocument` | PartsProofs |
| `AccessToldAlike` | `AccessIsOneStory` | PartsProofs |
| `ReplicasSignAlike` | `ReplicasAgreeOnKeys` | PartsProofs |
| `UsersLearnOfStrangers` | `StrangersAreTold` | PartsProofs |
| `RestoresForgetNoUse` | `RestoredUsesStayUsed` | UpkeepProofs |
| `SettingsOutliveVersions` | `ChoicesSurvive` | UpkeepProofs |
| `ClientsAreChangedInTurn` | `ChangesAddUp` | UpkeepProofs |
| `WatchedFilesAreServed` | `WatchedFileIsServed` | UpkeepProofs |
| `PicturesAreOfUsers` | `PicturesFollowUsers` | UpkeepProofs |
| `ImagesAreAsChosen` | `ChosenImageShown` | AppearanceProofs |
| `ClaimsAreAsChosen` | `ClaimsAsChosen` | AppearanceProofs |

Five properties of this table are listed in no run. `RedeemedOnce` and `UsedOnce`
follow from the refinements of `Admission`, which the runs check;
`TokenInOnePlace`, `RestoredAsIssued` and `TypeOK` of `OneTimeAccess` are left to
the proof, which holds for the same module.

Every safety theorem is proved the same way: an inductive invariant holds at the
start, every step keeps it (one lemma or proof step per action), and it implies
the property. Where parts are put side by side, a first lemma
(`StepsOfCredentials`, `StepsOfParts`, `StepsOfUpkeep`, `StepsShown`) says that a
step of the whole is a step of the part or leaves its variables alone; after
that the part is reasoned about by itself. The rest of this section says what
each inductive invariant adds to the property, and why the property needs it.

### Authorization

**Token families** (`FamilyInv`). `CodeExchangedOnce` alone is not inductive: a
second exchange is stopped by the row, so one must know that an active row means
that no token was minted from the code. `FamilyInv` adds that
(`CodesTellExchanges`), that every row belongs to the family in which its token
was minted (`RowsWereMinted`), that only families with tokens are ended
(`RevokedWereExchanged`), and that a request in flight holds a token of the
family it works on (`RequestsHoldOwnTokens`). The last one is the heart of
`RevokedFamilyStaysDead`: a request that read its token before a revocation
finds it unusable in its transaction, because the revocation cleared
`rotated_at` on *every* refresh row of the family, the presented one included,
so nothing can be added to a family that is dead. A step of the cleanup job is
harmless because a deleted row is neither active nor in grace, and an exchanged
code whose row is gone cannot be exchanged at all. The refinement maps a family
to `closed`, `open`, `granted` or `none` by what the history says of it; under
`FamilyInv` every step is a step of `TokenFamily` or leaves it alone.

**What rotations leave** (`TraceInv`, beside `FamilyInv`). A code is not purged
before its time (`CodesLast`), a refresh row keeps its expiry and has a rotation
time, never in the future, only when it is inactive (`RefreshRowsLast`). The row
a token was refreshed from was purged after its time or is inactive, and if its
grace period can still be used, the token came within that period
(`SourcesKept`): that is why a later retry comes within the same period and not
one that began anew. `DisabledUserRunsDry` is about steps: only
`ValidateUserAccess` takes a request past the check, and only a request past it
mints.

**Interaction** (`InteractionInv`). The core is `Passed`: nobody is bound to a
session that still asks for authentication, and every screen a bound session
does not ask for any more was passed by the user it is bound to. It must hold of
the copies that resumed requests decide on as well (`CopiesPassed`), although
the session moves on, since what was passed stays passed. Switching the user
keeps it because it asks for the screens of the new user again. A request is
granted when its session is gone (`SessionsEndInGrants`), and unless the client
skips consent, a consent record holds only what its user approved
(`ConsentsApproved`), so a screen may be skipped on its strength.

**Device grant** (`DeviceInv`). The two rows tell what happened (`RowsTell`):
they name a user exactly when the request was approved, by that user and for no
more scopes than approved, and while the device code is active nothing was
minted. What a request in flight read stays true (`ReadsHold`): an approval
cannot be taken back, so a poll that saw one may rely on it.

**What is presented once** (`AuthInv`). The stored IDs of assertions and the
deleted ones account for every acceptance (`AssertionsCounted`), and one is
deleted only after its assertion has expired. A pushed request is claimed by one
visit, carried by one interaction, or answered, and only where nobody has it can
it still be claimed (`PushedIsInOnePlace`).

**Access and consents** (`AccessInv` of `ResourceAccess`, `ConsentInv`). A grant
gives access, and access comes from a grant or was asked for; under these two
the five views agree (`ViewsFollow`). A client that is described by a document
has one (`CimdHasDocument`), so a store compares with what was agreed to. An authorization
under way of such a client began under exactly one set of terms, and its client
is registered (`BeganUnderTerms`), so a consent it records is under the stored terms or is
marked by the step that records it, and a store that changes the terms clears
every consent, marked or not.

**Client administration** (`AdminInv`). One handler has the row locked, and has
read it as it is (`RowIsLocked`), so a limit that was checked on the copy holds
for the row (`SecretsAreCounted`) and no secret is lost (`SecretsRemain`). A file
that the row names or a handler is about to name is there unless two handlers
met over it (`FilesAreThere`).

### Credentials and accounts

**Login codes** (`AccessInv` of `OneTimeAccess`). A live state, in the store or
held by an exchange, is the one the token was issued with and has not been used
(`HeldAsIssued`, `StoredAsIssued`), and a token is in one place (`OnePlace`). The
compensation is then safe in every order: whoever restores a token is its only
holder, and what is restored still expires when it did. The bounds of the
cardinalities in `UsedOnce` and the holders of `TokenInOnePlace` are derived by
pairs, since a set of one element is easier to preserve than a number.

**Device login** (`LoginInv`). An actor's state is about the device that was
given its code (`StateTellsDecision`), what an exchange saw was approved by its
user and is not pending again (`ExchangeSawApproval`), and the request of a
device is in the actor, with one exchange, in a session or lost (`InOnePlace`).
`ApprovalsCostProofs` needs the decisions that may still come of a proof that
was spent: they and those made are no more than the proofs (`ProofsPaid`).

**Passkeys** (`PasskeyInv`). A ceremony that yielded something is over
(`SpentIsOver`); a proof of presence outlives the touch by the age of a fresh
sign-in and its own lifetime at most (`ProofsAreRecent`); whoever renames has
found the row, so a row that comes back is known by `revived`.

**API keys** (`ApiKeyInv`). Dead values and the one in the row were handed out
(`ValuesAreSpent`), so that a renewal's new value is none of them; a job that
marks has announced the value of the row it listed (`MarkersAnnounced`). A marked
row was therefore announced or marked with an older list (`MarksAreAnnounced`),
which is all that a run may pass over.

**Signup** (`SignupInv`). For a token nobody deleted, the accounts made of it,
the signups in flight and the uses lost stay within the limit, and the counter
of a live token knows them (`TokenAddsUp`); where a migrated token has no state
although its frozen row has not run out, nothing was taken from it, which is why
a migration at a later start gives nothing back. One initial setup is under way, and none with accounts
(`OneSetup`).

**Email verification** (`EmailInv`). A link that is outstanding can be used and
is marked as a change exactly if it is for one (`StateKnown`); one that a
verification holds was followed by the owner of the address (`HeldKnown`), which
stays true while the verification is overtaken; the row a save holds was proven
when it was read and so still is (`RequestKnown`).

**Tickets** (`Admission`). Each refinement maps what the history says of a
ticket: to whom it was bound, as whom it admitted. That a step of the three
modules is `Bind`, `Admit` or nothing needs the inductive invariants above: that
the tokens of a device come after its one approval (`FirstApproval` numbers it),
that the exchange which signs in holds a token nobody has used, and of the user
it was made for. `LoginInv` alone is not enough: user codes are handed out
again, so it must be known that a device whose request is pending, or that has
none yet, was not approved before (`Undecided`).

### Provisioning

**The transaction of an LDAP sync** (`LoopKeepsUsers`). The loop takes nobody
away and disables nobody, and a row it made differs from the database's only
where the user is on the list of those changed or enabled. So the commit tells
whom it has to: it decides on the users it had loaded before the loop
(`Deprovisioned`), and writes rows the loop has made since.

**Lost access** (`LossesLeaveTraces`). `LostAccessIsTold` is not inductive: a
notice about a user who left a group counts for as long as he is authorized and
outside of all groups, and another loss may make it void before it is resolved.
The invariant therefore orders the traces by what they survive. Who is not
authorized any more is named by a job, a prepared notice or its loss (`Named`);
who is authorized and disabled is named or on a list of disabled users (`Told`);
who is authorized and outside of the groups is told or in a notice that looks
group access up (`Barred`). A later loss only asks for a trace of a more lasting
kind, which the commit that causes it leaves; a notice is resolved against the
rows of that moment, so resolving it turns the trace into a job.

**What a sync skips** (`SnapshotIsWhole`). `SkipIsSafe` needs the run in flight:
the members of each group it is to push have a copy, or the run has yet to
create it or failed to (`unknown`), and nobody is among them whom it deletes.
What is settled and has not drifted has the copy the row asks for; every change
of a row takes it out of `settled` or is one of those recorded in `drifted`.

The proofs cover both databases (`AbortsOnClash`), any number of edits, faults
and readings, and delivery attempts without bound.

### The instance

**Keys** (`KeysInv`): a replica that got past a key holds what is stored, or a
key rotated since. **Sign-ins** (`SignInsInv`): a cookie was given to its browser
and a visible record was made (`EvidenceIsKept`), a browser taken for known
was remembered (`KnownWasRemembered`), records are numbered in the order they
were made (`NumbersRunUp`), and a sign-in that has not compared yet knows of every
later record from its place (`LaterAreMarked`), so what it meets unmarked is
earlier. **Export and import** (`BackupInv`): the
export read the database before the actors, so the actors know every use the
database tells of (`ExportIsConsistent`), and an import keeps instances out until
the data is back (`ImportIsExclusive`). **Configuration** (`ConfigInv`): what was
chosen can be read off the state, or off the old table where there is no state;
the work is in `BootstrappedIs`, that a bootstrap leaves what was meant.
**Location database** (`LocationInv`): a mapping with the stat of the file in
place has its contents (`MappedIsLater`); a load that is out of date and was not
overtaken began before the file came and nothing was mapped since
(`LateLoadsAreTold`); the watcher has the file in view (`WatcherKeepsUp`).
**Pictures** (`PictureInv`): saves have files of their own (`SavesAreApart`), so
what is renamed is whole; a picture of nobody is about to be removed or it is
known why it stays (`NobodysPicture`). **Images** (`ImageInv`): one process
serves, and unless something was muddled, one starts at a time, each stage of a
start and of a change knows what the files are (`Knows`), and files at rest are
what a start can read (`FilesTell`). **Claims** (`ClaimInv`): a row belongs to
one key of one owner for good (`RowsAreOnce`, `WritesAreOnce`, `DeletesOwn`), a
replacement that none overlaps still sees what it began with (`AloneSees`), and a
key that no overlap touched has the row chosen last (`KeysTell`).

### Only model-checked

Liveness under fairness is out of the prover's reach, and so is `ENABLED`:
`ApprovedDeviceGetsTokens`, `ApprovedDeviceSignsIn`, `InteractionEnds`,
`DirectoryPrevails` and `ProviderConverges` are checked on their instances.
Every invariant, action property and refinement that the passing runs check is
proved.

## 5. What is not modelled

Left out of the modelled components, and why:

- parsing, validation, redirects, token formats and cryptography: the
  properties do not depend on them. PKCE and OpenID rows live and die with
  their code;
- rate limits and long polling: a refused or waiting call changes nothing;
- who may ask for a mail, its text and its audit entry. A mail that fails,
  arrives, or does both is in `EmailVerification`;
- creating, listing and searching of rows, where one statement does it all;
- statement-level interleaving on Postgres, but for the places of section 2;
- LDAP users and administrators in `EmailVerification`: they skip the
  verification;
- a duplicate name on Postgres aborts the whole transaction of an LDAP sync;
  `AbortsOnClash` of `LdapSync` chooses between the two databases, and the run
  takes SQLite's way, in which the other users are still reconciled.

Mail and outbound HTTP, the HTTP layer, the utilities and the frontend are not
modelled: they keep no state but for the rate limiter, and their failures are
steps of the modules that call them.

Observations that have no run of their own, met while reading:

*Authorization.* A resumed authorization consumes a reauthentication token even
when other screens are still open, and the step is then asked for again
(`authorization_service.go:355`); `InteractionEnds` shows that this does not go
on forever. The reuse of a code revokes access and refresh tokens in two store
calls (`store.go:335`). A consent is keyed by the audience of an API, so it
survives that the API is deleted and created again. A client that becomes public
keeps the permissions it was granted for itself. "Every detected change except
the display name invalidates what the user agreed to" (`store.go:202`), but only
what was agreed to before: a consent screen that is open when a metadata document
is replaced shows the old one, and `completeConsentStep`
(`authorization_service.go:682`) records the consent for the new terms, which the
user never saw; so does an authorization that needed no screen and is finished
after the replacement (`superseded` in `ResourceAccess`).

*Accounts.* An email change that is cancelled while its verification is under
way comes back if the verification's update fails, because the link is restored
(`emailverification/service.go:113`); `CancelledLinkStopsWorking` excludes links
that were held. An account that verifies itself after the cleanup job has listed
it is still deleted (`usersignup/cleanup_job.go:102`). A signup token is
honoured although signups are disabled (`usersignup/service.go:58`). A renamed
passkey that was deleted in between comes back, as does the mark of a key that
was renewed while the expiry job was at work: the expiry of the new value is then
not announced.

*Provisioning.* A group that is admitted again after a sync that deleted some of
its members at the provider and failed keeps the gap until it changes. A user
enabled again by the directory is not touched, so the copy stays disabled
(`drifted`). Two users of the directory that swap their names end up with the
members of a group resolved to each other. Turning group restriction on or off
does not schedule a sync; the hourly alarm makes up for it. What was changed
between a snapshot and its push is older than the copy and is skipped
(`scimsync/service.go:508`). Times are whole seconds on SQLite, so a change in
the second of a push may be taken for an older one.

*Keys and configuration.* A signing key that cannot be decrypted is replaced,
says `jwt_service.go:139`, but the fresh key is inserted only if there is no
row, so the start fails after its retries. A replica that still runs with an
older encryption key, or `key-rotate` under it, writes rows that the new
configuration cannot read. A replica that loaded its keys before an import and
joins afterwards signs with the old ones.

*Files.* An upgrade of the default image that stops in the middle leaves the
marker of a deleted image; one that cannot be read gets the default set up
beside it. The picture of a deleted user stays if the deletion stops before it
removes the file, or if an upload that found the user is saved later. Temporary
files of crashed saves stay until the job runs. A load of the location database
that is overtaken by another one leaves the older database.

*Sign-ins.* Two sign-ins with a code from the same new place that run beside
each other each see the record of the other, and nobody is told (`crossed`):
"only earlier successful sign-ins", says the comment at `signin.go:42`, but the
query counts every other record. Nobody is told
either when earlier records cannot be counted. A sign-in with a login code goes
on when it cannot be recorded.

*Import.* Rows are inserted although the command was cancelled; a process that
stops between the reset of the schema and the insertion leaves an empty
instance; an instance that starts meanwhile seeds rows that make the insertion
fail. Only files contained in the archive are replaced, although the command
warns that all data is erased.

*Claims.* Replacements of one owner's claims that overlap may leave a key twice,
since the unique constraint does not hold where a column is NULL, until the key
is removed. A custom claim `picture` is accepted, since it is not a reserved name
(`custom_claim_service.go:23`), and never told under its name: the record of the
user overwrites it (`oidc/claims_service.go:170`). Names that only the library
of the ID token reserves are not modelled.

## 6. Plan

The order is by how much goes wrong when it goes wrong.

1. *Done*: tokens, interaction, device grant, device login, login codes,
   signup, email verification; client authentication, resource access, client
   administration; passkeys and API keys; accounts with LDAP, logout notices and
   SCIM; claims, keys, configuration, images, pictures, sign-ins, location
   database, export and import; two abstract specifications with four
   implementations; proofs of every safety property of these modules.
2. Abstract specifications: a counted resource for `Signup`.
3. The token store on Postgres, statement by statement.
