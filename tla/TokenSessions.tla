--------------------------- MODULE TokenSessions ---------------------------
(***************************************************************************)
(* The oauth2_sessions table of Pocket ID (backend/internal/oidc/store.go) *)
(* and the token endpoint that works on it (token_handler.go): the rows of *)
(* authorization codes, access tokens and refresh tokens, from the grant   *)
(* of a code to the end of the token family it started.                    *)
(*                                                                         *)
(* A token request has two halves.  fosite's NewAccessRequest reads the    *)
(* presented credential outside any transaction; the handler then checks   *)
(* the user; NewAccessResponse redeems the credential and writes the new   *)
(* rows inside one Store.Transaction.  What the first half read may be     *)
(* stale in the second, and any other request, revocation or cleanup may   *)
(* run in between.  A transaction is one step: the database is SQLite with *)
(* "_txlock=immediate", where write transactions exclude each other.       *)
(*                                                                         *)
(* One token response mints an access token and, if the client has the     *)
(* refresh_token grant, the refresh token paired with it: both are known   *)
(* by one member of Tokens.  Request IDs (Requests) name token families.   *)
(***************************************************************************)
EXTENDS Naturals, FiniteSets

CONSTANTS
  Requests,       \* request IDs: one per authorization, shared by its tokens
  Tokens,         \* identities of token responses
  Procs,          \* token requests the server handles at the same time
  Users, Clients,
  UserOf,         \* UserOf[r], ClientOf[r]: the grant's subject and client
  ClientOf,
  RefreshClients, \* clients whose GetGrantTypes has refresh_token
  Grace,          \* refreshTokenGracePeriod
  CodeLife, AccessLife, RefreshLife,
  MaxTime,        \* bound on the clock
  None            \* no row, no time, no credential

ASSUME ConstantsAssumption ==
  /\ UserOf \in [Requests -> Users]
  /\ ClientOf \in [Requests -> Clients]
  /\ RefreshClients \subseteq Clients
  /\ Grace \in Nat \ {0}
  /\ CodeLife \in Nat /\ AccessLife \in Nat
  /\ RefreshLife \in Nat /\ MaxTime \in Nat
  /\ None \notin Nat
  /\ None \notin Requests
  /\ None \notin Tokens
  /\ None \notin [active : BOOLEAN, exp : Nat]
  /\ None \notin [req : Requests, exp : Nat]
  /\ None \notin [req : Requests, active : BOOLEAN,
                  rotatedAt : Nat \cup {None}, exp : Nat]
  /\ None \notin [req : Requests, from : Tokens \cup {None}, at : Nat]

VARIABLES
  now,        \* the clock
  code,       \* kind authorization_code, keyed by the request ID
  access,     \* kind access_token
  refresh,    \* kind refresh_token
  consents,   \* user_authorized_oidc_clients: user and client pairs
  disabled,   \* users an administrator disabled
  proc,       \* what each token request in flight is about to do
  grantedAt,  \* history: when the code of a request was granted
  mint,       \* history: which credential each token was minted from, when
  revoked     \* history: families a reuse or a revocation has ended

rows == <<code, access, refresh>>
vars == <<now, code, access, refresh, consents, disabled, proc,
          grantedAt, mint, revoked>>

Time == Nat
CodeRow == [active : BOOLEAN, exp : Time]
AccessRow == [req : Requests, exp : Time]
RefreshRow == [req : Requests, active : BOOLEAN,
               rotatedAt : Time \cup {None}, exp : Time]
MintRecord == [req : Requests, from : Tokens \cup {None}, at : Time]

Idle == [pc |-> "idle", req |-> None, tok |-> None]
ProcState ==
  {Idle} \cup [pc : {"validate", "respond", "revoke"},
               req : Requests, tok : Tokens \cup {None}]

Owner(r) == <<UserOf[r], ClientOf[r]>>

Init ==
  /\ now = 0
  /\ code = [r \in Requests |-> None]
  /\ access = [t \in Tokens |-> None]
  /\ refresh = [t \in Tokens |-> None]
  /\ consents = {}
  /\ disabled = {}
  /\ proc = [p \in Procs |-> Idle]
  /\ grantedAt = [r \in Requests |-> None]
  /\ mint = [t \in Tokens |-> None]
  /\ revoked = {}

-----------------------------------------------------------------------------
(* The store.                                                              *)

Live(row) == row # None /\ now <= row.exp

(* A refresh row that the store still accepts: active, or rotated less     *)
(* than the grace period ago.                                              *)
InGrace(row) == row.rotatedAt # None /\ now < row.rotatedAt + Grace
Usable(t) == refresh[t] # None /\ (refresh[t].active \/ InGrace(refresh[t]))

TokensOf(r) == {t \in Tokens : refresh[t] # None /\ refresh[t].req = r}
UsableFamilies == {r \in Requests : \E t \in TokensOf(r) : Usable(t)}

CreateAuthorizeCodeSession(r) ==
  code' = [code EXCEPT ![r] = [active |-> TRUE, exp |-> now + CodeLife]]

\* Mutant: the update is not conditional on the code being active.
InvalidateAuthorizeCodeSession_Unconditional(r) ==
  /\ code[r] # None
  /\ code' = [code EXCEPT ![r].active = FALSE]

InvalidateAuthorizeCodeSession(r) ==
  /\ code[r] # None /\ code[r].active
  /\ code' = [code EXCEPT ![r].active = FALSE]

(* A refresh row made inactive, with the given rotation time.              *)
Deactivated(row, rotatedAt) ==
  [req |-> row.req, active |-> FALSE, rotatedAt |-> rotatedAt,
   exp |-> row.exp]

\* Mutant: every rotation restarts the grace period.
Rotated_RestartsGrace(t) == Deactivated(refresh[t], now)

(* The presented row after RotateRefreshToken: the first rotation starts   *)
(* the grace period, later ones keep its start.                            *)
Rotated(t) ==
  Deactivated(refresh[t], IF refresh[t].rotatedAt = None
                          THEN now ELSE refresh[t].rotatedAt)

\* Mutant: the access token paired with the rotated one is left alone.
AccessAfterRotation_Kept(t) == access

(* The access rows after RotateRefreshToken: only the paired one is gone.  *)
AccessAfterRotation(t) == [access EXCEPT ![t] = None]

(* The rows of the families in S after revokeRequestIDs (or after          *)
(* RevokeRefreshToken and RevokeAccessToken): refresh rows inactive and    *)
(* out of their grace period, access rows deleted.                         *)

\* Mutant: the rotation time survives a revocation.
RevokedRefresh_KeepsGrace(S) ==
  [t \in Tokens |-> IF refresh[t] # None /\ refresh[t].req \in S
                    THEN Deactivated(refresh[t], refresh[t].rotatedAt)
                    ELSE refresh[t]]

RevokedRefresh(S) ==
  [t \in Tokens |-> IF refresh[t] # None /\ refresh[t].req \in S
                    THEN Deactivated(refresh[t], None)
                    ELSE refresh[t]]

RevokedAccess(S) ==
  [t \in Tokens |-> IF access[t] # None /\ access[t].req \in S
                    THEN None ELSE access[t]]

RevokeFamilies(S) ==
  /\ refresh' = RevokedRefresh(S)
  /\ access' = RevokedAccess(S)

NewAccessRow(r) == [req |-> r, exp |-> now + AccessLife]

\* Mutant: the session carries no expiry for the refresh token.
NewRefreshRow_NoExpiry(r) ==
  [req |-> r, active |-> TRUE, rotatedAt |-> None, exp |-> None]

NewRefreshRow(r) ==
  [req |-> r, active |-> TRUE, rotatedAt |-> None, exp |-> now + RefreshLife]

-----------------------------------------------------------------------------
(* Granting a code: the authorization flow stores the consent and the code *)
(* of a fresh request ID in one transaction.                               *)
Authorize(r) ==
  /\ grantedAt[r] = None
  /\ UserOf[r] \notin disabled
  /\ CreateAuthorizeCodeSession(r)
  /\ consents' = consents \cup {Owner(r)}
  /\ grantedAt' = [grantedAt EXCEPT ![r] = now]
  /\ UNCHANGED <<now, access, refresh, disabled, proc, mint, revoked>>

(* NewAccessRequest for grant_type=authorization_code.  An active code is  *)
(* read and checked for expiry; presenting an invalidated one makes fosite *)
(* revoke the tokens of its request ID, one store call after the other.    *)
PresentCode(p, r) ==
  /\ proc[p] = Idle
  /\ code[r] # None
  /\ \/ /\ code[r].active /\ Live(code[r])
        /\ proc' = [proc EXCEPT ![p] = [pc |-> "validate", req |-> r,
                                        tok |-> None]]
        /\ UNCHANGED access
     \/ /\ ~code[r].active
        /\ access' = RevokedAccess({r})
        /\ proc' = [proc EXCEPT ![p] = [pc |-> "revoke", req |-> r,
                                        tok |-> None]]
  /\ UNCHANGED <<now, code, refresh, consents, disabled, grantedAt, mint,
                 revoked>>

(* The second store call for a reused code, RevokeRefreshToken.            *)
RevokeReusedCode(p) ==
  /\ proc[p].pc = "revoke"
  /\ refresh' = RevokedRefresh({proc[p].req})
  /\ revoked' = revoked \cup {proc[p].req}
  /\ proc' = [proc EXCEPT ![p] = Idle]
  /\ UNCHANGED <<now, code, access, consents, disabled, grantedAt, mint>>

(* NewAccessRequest for grant_type=refresh_token: GetRefreshTokenSession   *)
(* accepts a usable row; an inactive one is a reuse, on which fosite       *)
(* revokes the family in one transaction, before it looks at the expiry.   *)
PresentRefreshToken(p, t) ==
  /\ proc[p] = Idle
  /\ refresh[t] # None
  /\ \/ /\ Usable(t) /\ Live(refresh[t])
        /\ proc' = [proc EXCEPT ![p] = [pc |-> "validate",
                                        req |-> refresh[t].req, tok |-> t]]
        /\ UNCHANGED <<access, refresh, revoked>>
     \/ /\ ~Usable(t)
        /\ RevokeFamilies({refresh[t].req})
        /\ revoked' = revoked \cup {refresh[t].req}
        /\ UNCHANGED proc
  /\ UNCHANGED <<now, code, consents, disabled, grantedAt, mint>>

\* Mutant: the resource owner is not checked again.
ValidateUserAccess_Skipped(p) ==
  /\ proc[p].pc = "validate"
  /\ proc' = [proc EXCEPT ![p].pc = "respond"]
  /\ UNCHANGED <<now, rows, consents, disabled, grantedAt, mint, revoked>>

(* The handler re-checks the resource owner, still outside a transaction.  *)
ValidateUserAccess(p) ==
  /\ proc[p].pc = "validate"
  /\ proc' = [proc EXCEPT ![p] = IF UserOf[@.req] \in disabled
                                 THEN Idle ELSE [@ EXCEPT !.pc = "respond"]]
  /\ UNCHANGED <<now, rows, consents, disabled, grantedAt, mint, revoked>>

(* The new rows of a token response, written under the unused name n.      *)
Mint(n, r, from) ==
  mint' = [mint EXCEPT ![n] = [req |-> r, from |-> from, at |-> now]]

(* NewAccessResponse of the code grant: InvalidateAuthorizeCodeSession,    *)
(* CreateAccessTokenSession and CreateRefreshTokenSession in a transaction *)
RespondCode(p, n) ==
  LET r == proc[p].req IN
  /\ proc[p].pc = "respond" /\ proc[p].tok = None
  /\ mint[n] = None
  /\ InvalidateAuthorizeCodeSession(r)
  /\ access' = [access EXCEPT ![n] = NewAccessRow(r)]
  /\ refresh' = IF ClientOf[r] \in RefreshClients
                THEN [refresh EXCEPT ![n] = NewRefreshRow(r)] ELSE refresh
  /\ Mint(n, r, None)
  /\ proc' = [proc EXCEPT ![p] = Idle]
  /\ UNCHANGED <<now, consents, disabled, grantedAt, revoked>>

(* NewAccessResponse of the refresh grant: RotateRefreshToken's            *)
(* conditional update, the delete of the access token paired with the      *)
(* presented one, and the new pair, in one transaction.                    *)
RotateRefreshToken(p, n) ==
  LET r == proc[p].req
      t == proc[p].tok IN
  /\ proc[p].pc = "respond" /\ t # None
  /\ mint[n] = None
  /\ Usable(t)
  /\ refresh' = [refresh EXCEPT ![t] = Rotated(t), ![n] = NewRefreshRow(r)]
  /\ access' = [AccessAfterRotation(t) EXCEPT ![n] = NewAccessRow(r)]
  /\ Mint(n, r, t)
  /\ proc' = [proc EXCEPT ![p] = Idle]
  /\ UNCHANGED <<now, code, consents, disabled, grantedAt, revoked>>

(* A request ends without effect: its transaction found no row to redeem   *)
(* and rolled back, the client went away (the context is cancelled), or    *)
(* the process stopped.                                                    *)
Abandon(p) ==
  /\ proc[p] # Idle
  /\ proc' = [proc EXCEPT ![p] = Idle]
  /\ UNCHANGED <<now, rows, consents, disabled, grantedAt, mint, revoked>>

-----------------------------------------------------------------------------
(* OidcService.RevokeAuthorizedClient: delete the consent and revoke the   *)
(* families RevokeUserClientSessions finds through their usable refresh    *)
(* tokens.  The history marks every family of the owner that holds a       *)
(* token, found or not: none of them may be extended afterwards.           *)
RevokeAuthorizedClient(o) ==
  LET found == {r \in UsableFamilies : Owner(r) = o}
      started == {r \in Requests : Owner(r) = o /\ TokensOf(r) # {}} IN
  /\ o \in consents
  /\ consents' = consents \ {o}
  /\ RevokeFamilies(found)
  /\ revoked' = revoked \cup started
  /\ UNCHANGED <<now, code, disabled, proc, grantedAt, mint>>

(* endSession with an ID token of family r as the hint.  The row must be   *)
(* usable and carry the hint's jti; whether a refreshed session still      *)
(* carries it is fosite's choice, and if no row matches nothing changes.   *)
EndSession(r) ==
  /\ Owner(r) \in consents
  /\ r \in UsableFamilies
  /\ RevokeFamilies({r})
  /\ revoked' = revoked \cup {r}
  /\ UNCHANGED <<now, code, consents, disabled, proc, grantedAt, mint>>

(* An administrator disables or enables a user.                            *)
SetDisabled(u) ==
  /\ disabled' = IF u \in disabled THEN disabled \ {u} ELSE disabled \cup {u}
  /\ UNCHANGED <<now, rows, consents, proc, grantedAt, mint, revoked>>

\* Mutant: invalidated rows are deleted before they expire.
Purged_Invalidated(table) ==
  [k \in DOMAIN table |->
     IF table[k] # None /\ Live(table[k])
        /\ ("active" \in DOMAIN table[k] => table[k].active)
     THEN table[k] ELSE None]

(* cleanupExpiredOAuth2Sessions: every row past its expiry, whether active *)
(* or not, and no other.                                                   *)
Purged(table) ==
  [k \in DOMAIN table |-> IF table[k] = None \/ Live(table[k])
                          THEN table[k] ELSE None]

CleanupExpiredOAuth2Sessions ==
  /\ code' = Purged(code)
  /\ access' = Purged(access)
  /\ refresh' = Purged(refresh)
  /\ UNCHANGED <<now, consents, disabled, proc, grantedAt, mint, revoked>>

Tick ==
  /\ now < MaxTime
  /\ now' = now + 1
  /\ UNCHANGED <<rows, consents, disabled, proc, grantedAt, mint, revoked>>

-----------------------------------------------------------------------------
Next ==
  \/ \E r \in Requests : Authorize(r)
  \/ \E p \in Procs, r \in Requests : PresentCode(p, r)
  \/ \E p \in Procs : RevokeReusedCode(p)
  \/ \E p \in Procs, t \in Tokens : PresentRefreshToken(p, t)
  \/ \E p \in Procs : ValidateUserAccess(p)
  \/ \E p \in Procs, n \in Tokens : RespondCode(p, n)
  \/ \E p \in Procs, n \in Tokens : RotateRefreshToken(p, n)
  \/ \E p \in Procs : Abandon(p)
  \/ \E o \in Users \X Clients : RevokeAuthorizedClient(o)
  \/ \E r \in Requests : EndSession(r)
  \/ \E u \in Users : SetDisabled(u)
  \/ CleanupExpiredOAuth2Sessions
  \/ Tick

Spec == Init /\ [][Next]_vars

-----------------------------------------------------------------------------
(* Properties.                                                             *)

TypeOK ==
  /\ now \in Time
  /\ code \in [Requests -> CodeRow \cup {None}]
  /\ access \in [Tokens -> AccessRow \cup {None}]
  /\ refresh \in [Tokens -> RefreshRow \cup {None}]
  /\ consents \subseteq Users \X Clients
  /\ disabled \subseteq Users
  /\ proc \in [Procs -> ProcState]
  /\ grantedAt \in [Requests -> Time \cup {None}]
  /\ mint \in [Tokens -> MintRecord \cup {None}]
  /\ revoked \subseteq Requests

Minted(t) == mint[t] # None
FromCode(t, r) == Minted(t) /\ mint[t].from = None /\ mint[t].req = r
FromToken(t, s) == Minted(t) /\ mint[t].from = s /\ s # None

(* An authorization code is exchanged for tokens at most once, however     *)
(* many requests read it as active before the first of them redeemed it    *)
(* (InvalidateAuthorizeCodeSession's conditional update).                  *)
CodeExchangedOnce ==
  \A r \in Requests, t1, t2 \in Tokens :
    FromCode(t1, r) /\ FromCode(t2, r) => t1 = t2

(* Once a reuse, a logout or the user's revocation has ended a family, no  *)
(* refresh token of it is accepted again: neither an ancestor still in its *)
(* grace period, nor one that a request in flight rotates afterwards.      *)
RevokedFamilyStaysDead ==
  \A r \in revoked : \A t \in TokensOf(r) : ~Usable(t)

(* The grace period is started once: two token responses minted from the   *)
(* same refresh token are less than Grace apart, however the retries       *)
(* interleave (RotateRefreshToken's COALESCE on rotated_at).               *)
GraceNeverExtended ==
  \A s, t1, t2 \in Tokens :
    FromToken(t1, s) /\ FromToken(t2, s) => mint[t2].at < mint[t1].at + Grace

(* An access token outlives the refresh token paired with it only when its *)
(* family was ended: rotation deletes exactly the paired access token, and *)
(* concurrent refreshes keep theirs.                                       *)
AccessFollowsRefresh ==
  \A t \in Tokens :
    access[t] # None /\ refresh[t] # None
      => refresh[t].active \/ refresh[t].req \in revoked

(* A redeemed code and a rotated refresh token stay in the table until     *)
(* their own expiry, so that presenting them again is found out (the       *)
(* cleanup job deletes by expiry only).                                    *)
ReuseIsDetectable ==
  \A t \in Tokens : Minted(t) =>
    IF mint[t].from = None
    THEN now <= grantedAt[mint[t].req] + CodeLife
           => code[mint[t].req] # None /\ ~code[mint[t].req].active
    ELSE now <= mint[mint[t].from].at + RefreshLife
           => refresh[mint[t].from] # None /\ ~refresh[mint[t].from].active

(* What rotations leave behind: a grace period that was started once, the  *)
(* access tokens of refresh tokens that are still active, and rows by      *)
(* which a reuse is noticed.                                               *)
RotationLeavesTraces ==
  GraceNeverExtended /\ AccessFollowsRefresh /\ ReuseIsDetectable

(* A disabled user's grants run dry: when no request of the user is past   *)
(* the check of ValidateUserAccess, no token is minted for the user, and   *)
(* none comes past it, until the user is enabled again.                    *)
Quiet(u) ==
  /\ u \in disabled
  /\ \A p \in Procs : proc[p].pc = "respond" => UserOf[proc[p].req] # u

DisabledUserRunsDry ==
  [][\A u \in Users : Quiet(u) /\ u \in disabled' =>
       /\ Quiet(u)'
       /\ \A t \in Tokens : mint'[t] # mint[t] => UserOf[mint'[t].req] # u]_vars

(* After the user revokes a client's access, no access token of the two is *)
(* live until the user authorizes the client again.                        *)
RevokedClientHasNoAccess ==
  \A t \in Tokens :
    Live(access[t]) => Owner(access[t].req) \in consents

-----------------------------------------------------------------------------
(* The inductive invariant behind CodeExchangedOnce and                    *)
(* RevokedFamilyStaysDead.                                                 *)

Exchanged(r) == \E t \in Tokens : FromCode(t, r)

(* Token rows belong to the family they were minted in, and a family with  *)
(* tokens has had its code exchanged.                                      *)
RowsWereMinted ==
  \A t \in Tokens :
    /\ access[t] # None => Minted(t) /\ mint[t].req = access[t].req
    /\ refresh[t] # None => Minted(t) /\ mint[t].req = refresh[t].req
    /\ Minted(t) => Exchanged(mint[t].req)

(* A code is inactive exactly when it was exchanged, as long as its row is *)
(* there, and its request ID was granted once.                             *)
CodesTellExchanges ==
  \A r \in Requests :
    /\ code[r] # None => grantedAt[r] # None /\ (~code[r].active <=> Exchanged(r))
    /\ Exchanged(r) => grantedAt[r] # None

(* Only families with tokens are ended.                                    *)
RevokedWereExchanged == \A r \in revoked : Exchanged(r)

(* A request in flight holds a token of the family it works on.            *)
RequestsHoldOwnTokens ==
  \A p \in Procs : proc[p] # Idle =>
    /\ proc[p].tok # None => /\ Minted(proc[p].tok)
                             /\ mint[proc[p].tok].req = proc[p].req
    /\ proc[p].pc = "revoke" => Exchanged(proc[p].req)

FamilyInv ==
  /\ RowsWereMinted
  /\ CodesTellExchanges
  /\ RevokedWereExchanged
  /\ RequestsHoldOwnTokens
  /\ CodeExchangedOnce
  /\ RevokedFamilyStaysDead

-----------------------------------------------------------------------------
(* What a family promises, independently of rows, grace and requests.      *)
FamilyState ==
  [r \in Requests |->
     IF r \in revoked THEN "closed"
     ELSE IF Exchanged(r) THEN "open"
     ELSE IF grantedAt[r] # None THEN "granted" ELSE "none"]

FamilyTokens ==
  [r \in Requests |-> {t \in Tokens : Minted(t) /\ mint[t].req = r}]

Family == INSTANCE TokenFamily WITH state <- FamilyState, issued <- FamilyTokens

(* The token endpoint and the revocations implement TokenFamily: a family  *)
(* is opened by one exchange, grows only while open, and once closed never *)
(* opens or grows again.                                                   *)
ImplementsTokenFamily == Family!Spec
=============================================================================
