---------------------------- MODULE DeviceGrant ----------------------------
(***************************************************************************)
(* The device authorization grant of RFC 8628                              *)
(* (backend/internal/oidc/device_service.go and the device sessions of     *)
(* store.go).  A device asks for a pair of codes, users who know the user  *)
(* code approve the request from their browsers, and the device polls the  *)
(* token endpoint until its code is redeemed.                              *)
(*                                                                         *)
(* An approval works on a request it read before its transaction; a token  *)
(* request works on a device session it read before fosite invalidates     *)
(* the code and mints.  Either may meanwhile be overtaken by another.      *)
(* Grants, scopes and claims that neither depend on the order of steps     *)
(* nor on the user's choice are left out.                                  *)
(***************************************************************************)
EXTENDS Naturals, FiniteSets

CONSTANTS
  Requests,     \* device authorizations, each with a device and a user code
  Users, Procs, \* users; concurrent approvals and token requests
  Scopes, OpenID,
  RequiresReauthentication,  \* the client's setting
  None

ASSUME DeviceAssumption ==
  /\ OpenID \in Scopes
  /\ RequiresReauthentication \in BOOLEAN
  /\ None \notin Users /\ None \notin Requests

VARIABLES
  device,     \* device_code rows of oauth2_sessions, by request
  userCode,   \* user_code rows
  expired,    \* requests whose codes have run out
  consents,   \* scopes each user has consented to for the client
  proofs,     \* users with an unconsumed reauthentication token
  blocked,    \* users who are disabled or lost access to the client
  proc,       \* approvals and token requests in flight
  accepts,    \* history: the approvals that succeeded, numbered
  tokens      \* history: the token sets minted, numbered

vars == <<device, userCode, expired, consents, proofs, blocked, proc,
          accepts, tokens>>

(* request_data after an acceptance: whose session it is, for what scopes. *)
Row == [active : BOOLEAN, user : {None} \cup Users, scopes : SUBSET Scopes]
Fresh == [active |-> TRUE, user |-> None, scopes |-> Scopes]

ASSUME NoRowAssumption == None \notin Row

Idle == [pc |-> "idle"]
Approval == [pc : {"approve"}, req : Requests, user : Users,
             scopes : SUBSET Scopes, agreed : SUBSET Scopes]
Poll == [pc : {"poll"}, req : Requests, user : Users, scopes : SUBSET Scopes]

Grant(u, S) == [user |-> u, scopes |-> S]

Init ==
  /\ device = [r \in Requests |-> None]
  /\ userCode = [r \in Requests |-> None]
  /\ expired = {}
  /\ consents = [u \in Users |-> {}]
  /\ proofs = {}
  /\ blocked = {}
  /\ proc = [p \in Procs |-> Idle]
  /\ accepts = [r \in Requests |-> {}]
  /\ tokens = [r \in Requests |-> {}]

Unused(row) == row # None /\ row.active /\ row.user = None

-----------------------------------------------------------------------------
(* createDeviceAuthorization: both rows, for every requested scope.        *)
CreateDeviceAuthorization(r) ==
  /\ device[r] = None /\ r \notin expired
  /\ device' = [device EXCEPT ![r] = Fresh]
  /\ userCode' = [userCode EXCEPT ![r] = Fresh]
  /\ UNCHANGED <<expired, consents, proofs, blocked, proc, accepts, tokens>>

(* narrowDeviceRequestScopes: openid cannot be deselected.                 *)
Narrowed(S, chosen) == S \cap (chosen \cup {OpenID})

(* acceptDeviceCode up to its transaction: the request is read, unused and *)
(* not expired, the user is allowed to use the client, the copy narrowed.  *)
ReadForApproval(p, u, r, chosen) ==
  /\ proc[p] = Idle
  /\ Unused(userCode[r]) /\ r \notin expired
  /\ u \notin blocked
  /\ proc' = [proc EXCEPT ![p] =
       [pc |-> "approve", req |-> r, user |-> u,
        scopes |-> Narrowed(userCode[r].scopes, chosen),
        agreed |-> Scopes \cap (chosen \cup {OpenID})]]
  /\ UNCHANGED <<device, userCode, expired, consents, proofs, blocked,
                 accepts, tokens>>

\* Mutant: the claim trusts the request that was read before.
Claims_Stale(r) == userCode[r] # None /\ device[r] # None

(* AcceptDeviceCodeSessionByUserCodeSignature succeeds: the stored user    *)
(* code is still unused, and the paired device code is active.             *)
Claims(r) == Unused(userCode[r]) /\ device[r] # None /\ device[r].active

\* Mutant: the user is stored, the scopes of the device's request stay.
Accepted_AllScopes(row, u, S) == [row EXCEPT !.user = u]

Accepted(row, u, S) == [row EXCEPT !.user = u, !.scopes = S]

\* Mutant: only the user code learns of the acceptance.
AcceptRows_UserCodeOnly(r, u, S) ==
  /\ userCode' = [userCode EXCEPT ![r] =
                    [Accepted(@, u, S) EXCEPT !.active = FALSE]]
  /\ UNCHANGED device

AcceptRows(r, u, S) ==
  /\ userCode' = [userCode EXCEPT ![r] =
                    [Accepted(@, u, S) EXCEPT !.active = FALSE]]
  /\ device' = [device EXCEPT ![r] = Accepted(@, u, S)]

(* The transaction of acceptDeviceCode.                                    *)
AcceptDeviceCode(p) ==
  LET q == proc[p] IN
  /\ q.pc = "approve"
  /\ RequiresReauthentication => q.user \in proofs
  /\ Claims(q.req)
  /\ AcceptRows(q.req, q.user, q.scopes)
  /\ proofs' = IF RequiresReauthentication THEN proofs \ {q.user} ELSE proofs
  /\ consents' = [consents EXCEPT ![q.user] = @ \cup q.scopes]
  /\ accepts' = [accepts EXCEPT ![q.req] =
                   @ \cup {<<Cardinality(@) + 1, Grant(q.user, q.agreed)>>}]
  /\ proc' = [proc EXCEPT ![p] = Idle]
  /\ UNCHANGED <<expired, blocked, tokens>>

(* The transaction fails, for want of a token or of the claim, or for an   *)
(* error on the way, and takes everything back.                            *)
RejectApproval(p) ==
  /\ proc[p].pc = "approve"
  /\ proc' = [proc EXCEPT ![p] = Idle]
  /\ UNCHANGED <<device, userCode, expired, consents, proofs, blocked,
                 accepts, tokens>>

-----------------------------------------------------------------------------
(* The token endpoint.                                                     *)

(* GetDeviceCodeSession as fosite uses it: an accepted, unexpired code.    *)
PollToken(p, r) ==
  /\ proc[p] = Idle
  /\ device[r] # None /\ device[r].active /\ r \notin expired
  /\ device[r].user # None
  /\ proc' = [proc EXCEPT ![p] = [pc |-> "poll", req |-> r,
                user |-> device[r].user, scopes |-> device[r].scopes]]
  /\ UNCHANGED <<device, userCode, expired, consents, proofs, blocked,
                 accepts, tokens>>

\* Mutant: the code is invalidated whether or not it is still active.
Redeemable_Always(r) == device[r] # None

\* Mutant: both rows must be affected, although accepting ends the user code.
Redeemable_BothActive(r) ==
  /\ device[r] # None /\ device[r].active
  /\ userCode[r] # None /\ userCode[r].active

(* InvalidateDeviceCodeSession affects a row: one of the two is active.    *)
Redeemable(r) ==
  /\ device[r] # None
  /\ device[r].active \/ (userCode[r] # None /\ userCode[r].active)

Deactivated(row) == IF row = None THEN None ELSE [row EXCEPT !.active = FALSE]

(* ValidateUserAccess, then the transaction that mints the tokens from the *)
(* session the token request read.                                         *)
RedeemDeviceCode(p) ==
  LET q == proc[p] IN
  /\ q.pc = "poll"
  /\ q.user \notin blocked
  /\ Redeemable(q.req)
  /\ device' = [device EXCEPT ![q.req] = Deactivated(@)]
  /\ userCode' = [userCode EXCEPT ![q.req] = Deactivated(@)]
  /\ tokens' = [tokens EXCEPT ![q.req] =
                  @ \cup {<<Cardinality(@) + 1, Grant(q.user, q.scopes)>>}]
  /\ proc' = [proc EXCEPT ![p] = Idle]
  /\ UNCHANGED <<expired, consents, proofs, blocked, accepts>>

RejectPoll(p) ==
  /\ proc[p].pc = "poll"
  /\ proc' = [proc EXCEPT ![p] = Idle]
  /\ UNCHANGED <<device, userCode, expired, consents, proofs, blocked,
                 accepts, tokens>>

-----------------------------------------------------------------------------
(* The surroundings.                                                       *)

ExpireCodes(r) ==
  /\ device[r] # None /\ r \notin expired
  /\ expired' = expired \cup {r}
  /\ UNCHANGED <<device, userCode, consents, proofs, blocked, proc, accepts,
                 tokens>>

(* One statement deletes every expired row of oauth2_sessions.             *)
CleanupExpiredOAuth2Sessions ==
  /\ \E r \in expired : device[r] # None
  /\ device' = [r \in Requests |-> IF r \in expired THEN None ELSE device[r]]
  /\ userCode' = [r \in Requests |-> IF r \in expired THEN None ELSE userCode[r]]
  /\ UNCHANGED <<expired, consents, proofs, blocked, proc, accepts, tokens>>

CreateReauthenticationToken(u) ==
  /\ RequiresReauthentication /\ u \notin proofs
  /\ proofs' = proofs \cup {u}
  /\ UNCHANGED <<device, userCode, expired, consents, blocked, proc, accepts,
                 tokens>>

ToggleAccess(u) ==
  /\ blocked' = (blocked \ {u}) \cup ({u} \ blocked)
  /\ UNCHANGED <<device, userCode, expired, consents, proofs, proc, accepts,
                 tokens>>

Next ==
  \/ \E r \in Requests : CreateDeviceAuthorization(r) \/ ExpireCodes(r)
  \/ \E p \in Procs, u \in Users, r \in Requests, chosen \in SUBSET Scopes :
       ReadForApproval(p, u, r, chosen)
  \/ \E p \in Procs, r \in Requests : PollToken(p, r)
  \/ \E p \in Procs : AcceptDeviceCode(p)
  \/ \E p \in Procs : RejectApproval(p)
  \/ \E p \in Procs : RedeemDeviceCode(p)
  \/ \E p \in Procs : RejectPoll(p)
  \/ CleanupExpiredOAuth2Sessions
  \/ \E u \in Users : CreateReauthenticationToken(u)
  \/ \E u \in Users : ToggleAccess(u)

Spec == Init /\ [][Next]_vars

(* A device keeps polling until it gets its tokens (RFC 8628), and no      *)
(* request stays in flight forever.                                        *)
FairSpec ==
  /\ Spec
  /\ \A r \in Requests : SF_vars(\E p \in Procs : PollToken(p, r))
  /\ \A p \in Procs :
       /\ SF_vars(RedeemDeviceCode(p))
       /\ WF_vars(RejectApproval(p) \/ RejectPoll(p))

-----------------------------------------------------------------------------
(* Properties.                                                             *)

TypeOK ==
  /\ device \in [Requests -> {None} \cup Row]
  /\ userCode \in [Requests -> {None} \cup Row]
  /\ expired \subseteq Requests
  /\ consents \in [Users -> SUBSET Scopes]
  /\ proofs \subseteq Users
  /\ blocked \subseteq Users
  /\ proc \in [Procs -> {Idle} \cup Approval \cup Poll]
  /\ accepts \in [Requests -> SUBSET (Nat \X [user : Users, scopes : SUBSET Scopes])]
  /\ tokens \in [Requests -> SUBSET (Nat \X [user : Users, scopes : SUBSET Scopes])]

(* A user code is approved once: of the users who read it unused, one      *)
(* binds the device, and nobody rebinds it afterwards.                     *)
ApprovedOnce == \A r \in Requests : Cardinality(accepts[r]) <= 1

(* Of the polls of a device that read its code accepted one redeems it.    *)
DeviceCodeRedeemedOnce == \A r \in Requests : Cardinality(tokens[r]) <= 1

(* Each of the two codes is used once, although users approve and devices  *)
(* poll concurrently.  DeviceCodeIsTicket below says it of every step.     *)
RedeemedOnce == ApprovedOnce /\ DeviceCodeRedeemedOnce

(* The tokens a device gets are for a user who approved this very device,  *)
(* with scopes left selected on the screen (openid counts as selected).    *)
TokensWereApproved ==
  \A r \in Requests : \A t \in tokens[r] : \E a \in accepts[r] :
    t[2].user = a[2].user /\ t[2].scopes \subseteq a[2].scopes

(* The two rows of an authorization tell the same story: the device code   *)
(* is bound to a user exactly when the user code is used up by that user.  *)
CodesAgree ==
  \A r \in Requests :
    /\ (device[r] = None) = (userCode[r] = None)
    /\ device[r] # None =>
         /\ device[r].user = userCode[r].user
         /\ device[r].scopes = userCode[r].scopes
         /\ userCode[r].active = (userCode[r].user = None)

(* From the screen of the user over both rows to the tokens of the device  *)
(* it is one approval: of one user, for the scopes left selected.          *)
TokensFollowApproval == TokensWereApproved /\ CodesAgree

(* An approved device gets its tokens, unless the codes expire first, if   *)
(* nobody takes the access of its user away again.                         *)
ApprovedDeviceGetsTokens ==
  \A r \in Requests :
    (accepts[r] # {} /\ [](blocked = {})) ~> (tokens[r] # {} \/ r \in expired)

(* Who approved a request, and as whom its device got tokens.              *)
Approvers == [r \in Requests |-> {<<a[1], a[2].user>> : a \in accepts[r]}]
Receivers == [r \in Requests |-> {<<t[1], t[2].user>> : t \in tokens[r]}]

GrantTicket == INSTANCE Admission
  WITH Tickets <- Requests, Persons <- Users, bound <- Approvers, admitted <- Receivers

(* From the codes to the tokens, a device request is a ticket: bound by    *)
(* the one approval that gets through, before it admits, and never again.  *)
DeviceCodeIsTicket == GrantTicket!AdmissionSpec
=============================================================================
