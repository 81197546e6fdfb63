---------------------------- MODULE DeviceProofs ----------------------------
(***************************************************************************)
(* Proofs about the two ways a device is let in from another one:          *)
(* DeviceGrant, for any number of device requests, users and concurrent    *)
(* approvals and polls and any scopes, and DeviceLogin, for any number of  *)
(* user codes, waiting devices, users, decisions and exchanges.            *)
(***************************************************************************)
EXTENDS DeviceGrant, DeviceLogin, FiniteSetTheorems, TLAPS

(* Finite sets that gain or lose a member.                                 *)
LEMMA OneMore ==
  ASSUME NEW S, IsFiniteSet(S), NEW x
  PROVE  /\ IsFiniteSet(S \cup {x})
         /\ Cardinality(S \cup {x}) <= Cardinality(S) + 1
<1>1. Cardinality(S) \in Nat
  BY FS_CardinalityType
<1>2. /\ IsFiniteSet(S \cup {x})
      /\ Cardinality(S \cup {x}) = IF x \in S THEN Cardinality(S) ELSE Cardinality(S) + 1
  BY FS_AddElement
<1> QED BY <1>1, <1>2

LEMMA OneLess ==
  ASSUME NEW S, IsFiniteSet(S), NEW x \in S
  PROVE  /\ IsFiniteSet(S \ {x})
         /\ Cardinality(S \ {x}) + 1 = Cardinality(S)
<1>1. Cardinality(S) \in Nat /\ Cardinality(S \ {x}) \in Nat
  BY FS_CardinalityType, FS_RemoveElement
<1> QED BY <1>1, FS_RemoveElement

(* A set whose members are all the same has at most one.                   *)
LEMMA OneMember ==
  ASSUME NEW S, \A a, b \in S : a = b
  PROVE  Cardinality(S) \in {0, 1} /\ (S = {} <=> Cardinality(S) = 0)
<1>1. CASE S = {}
  BY <1>1, FS_EmptySet
<1>2. CASE S # {}
  <2>1. PICK a \in S : S = {a}
    BY <1>2
  <2>2. Cardinality({a}) = 1
    BY FS_Singleton
  <2> QED BY <2>1, <2>2
<1> QED BY <1>1, <1>2

-----------------------------------------------------------------------------
(* The device grant of the OIDC provider.                                  *)

AtMostOne(S) == \A a, b \in S : a = b

(* What happened to a request, as its rows tell it: it was approved        *)
(* exactly when the rows name a user, by that user and for at least the    *)
(* scopes on the rows, and while the device code is active nothing was     *)
(* minted.  Of a request that has no rows and did not expire nothing is    *)
(* known: it has not been made.                                            *)
RowsTell(r) ==
  /\ device[r] = None /\ r \notin expired => accepts[r] = {} /\ tokens[r] = {}
  /\ device[r] # None =>
       /\ device[r].user = None => accepts[r] = {} /\ device[r].active
       /\ device[r].user # None =>
            \E a \in accepts[r] :
              a[2].user = device[r].user /\ device[r].scopes \subseteq a[2].scopes
       /\ device[r].active => tokens[r] = {}

(* What a request in flight read was so when it read it and binds it: an   *)
(* approval narrows to what its user agreed to, and a poll saw an approval *)
(* that cannot be taken back.                                              *)
ReadsHold(p) ==
  LET q == proc[p] IN
  /\ q.pc = "approve" => q.scopes \subseteq q.agreed
  /\ q.pc = "poll" =>
       /\ device[q.req] # None => device[q.req].user # None
       /\ \E a \in accepts[q.req] : a[2].user = q.user /\ q.scopes \subseteq a[2].scopes

(* An inductive invariant that implies the properties of DeviceGrant.      *)
DeviceInv ==
  /\ TypeOK
  /\ CodesAgree
  /\ \A r \in Requests : RowsTell(r) /\ AtMostOne(accepts[r]) /\ AtMostOne(tokens[r])
  /\ TokensWereApproved
  /\ \A p \in Procs : ReadsHold(p)

(* The steps that touch neither rows nor histories: they may add a request *)
(* in flight that reads what is there.                                     *)
LEMMA RowsStay ==
  ASSUME DeviceInv, TypeOK', UNCHANGED <<device, userCode, accepts, tokens>>,
         expired \subseteq expired', \A p \in Procs : ReadsHold(p)'
  PROVE  DeviceInv'
  BY DEF DeviceInv, CodesAgree, RowsTell, TokensWereApproved, AtMostOne

(* A request in flight that ends leaves the others as they were.           *)
LEMMA RequestEnds ==
  ASSUME DeviceInv, NEW p \in Procs, proc' = [proc EXCEPT ![p] = Idle],
         UNCHANGED <<device, userCode, expired, consents, proofs, blocked,
                     accepts, tokens>>
  PROVE  DeviceInv'
<1>1. TypeOK'
  BY DEF DeviceInv, TypeOK
<1>2. \A s \in Procs : ReadsHold(s)'
  BY DEF DeviceInv, TypeOK, ReadsHold, Idle
<1> QED BY <1>1, <1>2, RowsStay

(* DeviceInv holds when nothing has been requested.                        *)
LEMMA DeviceInit == Init => DeviceInv
<1> SUFFICES ASSUME Init PROVE DeviceInv
  OBVIOUS
<1> USE DEF Init
<1>1. TypeOK
  BY DEF TypeOK
<1>2. CodesAgree /\ TokensWereApproved
  BY DEF CodesAgree, TokensWereApproved
<1>3. \A r \in Requests : RowsTell(r) /\ AtMostOne(accepts[r]) /\ AtMostOne(tokens[r])
  BY DEF RowsTell, AtMostOne
<1>4. \A p \in Procs : ReadsHold(p)
  BY DEF ReadsHold, Idle
<1> QED BY <1>1, <1>2, <1>3, <1>4 DEF DeviceInv

(* DeviceInv is preserved by every step of the browsers, the devices and   *)
(* the clean-up.                                                           *)
LEMMA DeviceStep ==
  ASSUME DeviceInv, [Next]_vars
  PROVE  DeviceInv'
<1> USE DeviceAssumption, NoRowAssumption DEF DeviceInv
<1>1. CASE \E r \in Requests : CreateDeviceAuthorization(r)
  <2>1. PICK r \in Requests : CreateDeviceAuthorization(r)
    BY <1>1
  <2> Fresh \in Row
    BY DEF Fresh, Row
  <2>2. /\ device[r] = None /\ userCode[r] = None
        /\ accepts[r] = {} /\ tokens[r] = {} /\ Fresh # None
        /\ device' = [device EXCEPT ![r] = Fresh]
        /\ userCode' = [userCode EXCEPT ![r] = Fresh]
        /\ UNCHANGED <<expired, consents, proofs, blocked, proc, accepts, tokens>>
    BY <2>1 DEF CreateDeviceAuthorization, RowsTell, CodesAgree
  <2>3. TypeOK'
    BY <2>2 DEF TypeOK
  <2>4. CodesAgree'
    BY <2>2 DEF CodesAgree, TypeOK, Fresh
  <2>5. \A x \in Requests : RowsTell(x)' /\ AtMostOne(accepts[x])' /\ AtMostOne(tokens[x])'
    BY <2>2 DEF RowsTell, AtMostOne, TypeOK, Fresh
  <2>6. TokensWereApproved'
    BY <2>2 DEF TokensWereApproved
  <2>7. \A p \in Procs : ReadsHold(p)'
    BY <2>2 DEF ReadsHold, TypeOK, Poll, Approval, Idle
  <2> QED BY <2>3, <2>4, <2>5, <2>6, <2>7
<1>2. CASE \E p \in Procs, u \in Users, r \in Requests, chosen \in SUBSET Scopes :
             ReadForApproval(p, u, r, chosen)
  <2>1. PICK p \in Procs, u \in Users, r \in Requests, chosen \in SUBSET Scopes :
               ReadForApproval(p, u, r, chosen)
    BY <1>2
  <2> DEFINE q == [pc |-> "approve", req |-> r, user |-> u,
                   scopes |-> Narrowed(userCode[r].scopes, chosen),
                   agreed |-> Scopes \cap (chosen \cup {OpenID})]
  <2>2. /\ q \in Approval /\ q.pc = "approve" /\ q.scopes \subseteq q.agreed
        /\ proc' = [proc EXCEPT ![p] = q]
        /\ UNCHANGED <<device, userCode, expired, consents, proofs, blocked,
                       accepts, tokens>>
    BY <2>1 DEF ReadForApproval, Narrowed, Approval, TypeOK, Row, Unused
  <2> HIDE DEF q
  <2>3. TypeOK'
    BY <2>2 DEF TypeOK
  <2>4. \A s \in Procs : ReadsHold(s)'
    BY <2>2 DEF ReadsHold, TypeOK
  <2> QED BY <2>2, <2>3, <2>4, RowsStay
<1>3. CASE \E p \in Procs, r \in Requests : PollToken(p, r)
  <2>1. PICK p \in Procs, r \in Requests : PollToken(p, r)
    BY <1>3
  <2> DEFINE q == [pc |-> "poll", req |-> r, user |-> device[r].user,
                   scopes |-> device[r].scopes]
  <2>2. /\ q \in Poll /\ q.pc = "poll" /\ q.req = r
        /\ device[r].user # None
        /\ \E a \in accepts[r] : a[2].user = q.user /\ q.scopes \subseteq a[2].scopes
        /\ proc' = [proc EXCEPT ![p] = q]
        /\ UNCHANGED <<device, userCode, expired, consents, proofs, blocked,
                       accepts, tokens>>
    BY <2>1 DEF PollToken, Poll, TypeOK, Row, RowsTell
  <2> HIDE DEF q
  <2>3. TypeOK'
    BY <2>2 DEF TypeOK
  <2>4. \A s \in Procs : ReadsHold(s)'
    BY <2>2 DEF ReadsHold, TypeOK
  <2> QED BY <2>2, <2>3, <2>4, RowsStay
<1>4. CASE \E p \in Procs : AcceptDeviceCode(p)
  <2>1. PICK p \in Procs : AcceptDeviceCode(p)
    BY <1>4
  <2> DEFINE q == proc[p]
             r == proc[p].req
             a == <<Cardinality(accepts[r]) + 1, Grant(q.user, q.agreed)>>
             bound == [device[r] EXCEPT !.user = q.user, !.scopes = q.scopes]
             used == [userCode[r] EXCEPT !.user = q.user, !.scopes = q.scopes,
                                         !.active = FALSE]
  <2>2. /\ q \in Approval /\ r \in Requests /\ q.user \in Users
        /\ q.scopes \subseteq q.agreed /\ q.agreed \subseteq Scopes
    BY <2>1 DEF AcceptDeviceCode, TypeOK, Idle, Approval, Poll, ReadsHold
  <2>3. /\ device[r] \in Row /\ device[r] # None /\ device[r].active
        /\ userCode[r] \in Row /\ userCode[r] # None
        /\ device[r].user = None /\ accepts[r] = {} /\ tokens[r] = {}
    BY <2>1, <2>2 DEF AcceptDeviceCode, Claims, Unused, TypeOK, CodesAgree, RowsTell
  <2>4. /\ device' = [device EXCEPT ![r] = bound]
        /\ userCode' = [userCode EXCEPT ![r] = used]
        /\ proofs' \subseteq Users /\ consents' \in [Users -> SUBSET Scopes]
        /\ accepts' = [accepts EXCEPT ![r] = {a}]
        /\ proc' = [proc EXCEPT ![p] = Idle]
        /\ UNCHANGED <<expired, blocked, tokens>>
    BY <2>1, <2>2, <2>3 DEF AcceptDeviceCode, AcceptRows, Accepted, TypeOK
  <2>5. /\ bound \in Row /\ bound # None
        /\ bound.user = q.user /\ bound.scopes = q.scopes /\ bound.active
        /\ used \in Row /\ used # None
        /\ used.user = q.user /\ used.scopes = q.scopes /\ used.active = FALSE
    BY <2>2, <2>3 DEF Row
  <2>6. /\ a \in Nat \X [user : Users, scopes : SUBSET Scopes]
        /\ a[2].user = q.user /\ a[2].scopes = q.agreed
    BY <2>2, <2>3, FS_EmptySet DEF Grant
  <2> HIDE DEF bound, used, a
  <2>7. TypeOK'
    <3>1. accepts' \in [Requests -> SUBSET (Nat \X [user : Users, scopes : SUBSET Scopes])]
      BY <2>4, <2>6 DEF TypeOK
    <3> QED BY <3>1, <2>4, <2>5 DEF TypeOK
  <2>8. CodesAgree'
    BY <2>2, <2>4, <2>5 DEF CodesAgree, TypeOK
  <2>9. \A x \in Requests : RowsTell(x)' /\ AtMostOne(accepts[x])' /\ AtMostOne(tokens[x])'
    BY <2>2, <2>3, <2>4, <2>5, <2>6 DEF RowsTell, AtMostOne, TypeOK
  <2>10. TokensWereApproved'
    BY <2>2, <2>3, <2>4 DEF TokensWereApproved, TypeOK
  <2>11. \A s \in Procs : ReadsHold(s)'
    <3> SUFFICES ASSUME NEW s \in Procs PROVE ReadsHold(s)'
      OBVIOUS
    <3>1. CASE s = p
      BY <3>1, <2>4 DEF ReadsHold, TypeOK, Idle
    <3>2. CASE s # p
      <4>1. proc'[s] = proc[s]
        BY <3>2, <2>4 DEF TypeOK
      <4>2. proc[s].pc = "poll" => proc[s].req # r /\ proc[s].req \in Requests
        BY <2>3 DEF ReadsHold, TypeOK, Idle, Approval, Poll
      <4> QED BY <4>1, <4>2, <2>4, <2>2 DEF ReadsHold, TypeOK
    <3> QED BY <3>1, <3>2
  <2> QED BY <2>7, <2>8, <2>9, <2>10, <2>11
<1>5. CASE \E p \in Procs : RejectApproval(p) \/ RejectPoll(p)
  BY <1>5, RequestEnds DEF RejectApproval, RejectPoll
<1>6. CASE \E p \in Procs : RedeemDeviceCode(p)
  <2>1. PICK p \in Procs : RedeemDeviceCode(p)
    BY <1>6
  <2> DEFINE q == proc[p]
             r == proc[p].req
             t == <<Cardinality(tokens[r]) + 1, Grant(q.user, q.scopes)>>
             ended == [device[r] EXCEPT !.active = FALSE]
             used == [userCode[r] EXCEPT !.active = FALSE]
  <2>2. /\ q \in Poll /\ r \in Requests /\ q.user \in Users /\ q.scopes \subseteq Scopes
        /\ \E a \in accepts[r] : a[2].user = q.user /\ q.scopes \subseteq a[2].scopes
    BY <2>1 DEF RedeemDeviceCode, TypeOK, Idle, Approval, Poll, ReadsHold
  <2>3. /\ device[r] \in Row /\ device[r] # None /\ device[r].user # None
        /\ userCode[r] \in Row /\ userCode[r] # None /\ userCode[r].active = FALSE
        /\ device[r].active /\ tokens[r] = {}
    BY <2>1, <2>2 DEF RedeemDeviceCode, Redeemable, TypeOK, CodesAgree, RowsTell, ReadsHold, Row
  <2>4. /\ device' = [device EXCEPT ![r] = ended]
        /\ userCode' = [userCode EXCEPT ![r] = used]
        /\ tokens' = [tokens EXCEPT ![r] = {t}]
        /\ proc' = [proc EXCEPT ![p] = Idle]
        /\ UNCHANGED <<expired, consents, proofs, blocked, accepts>>
    BY <2>1, <2>2, <2>3 DEF RedeemDeviceCode, Deactivated, TypeOK
  <2>5. /\ ended \in Row /\ ended # None
        /\ ended.user = device[r].user /\ ended.scopes = device[r].scopes /\ ~ended.active
        /\ used \in Row /\ used # None
        /\ used.user = userCode[r].user /\ used.scopes = userCode[r].scopes /\ used.active = FALSE
    BY <2>2, <2>3 DEF Row
  <2>6. /\ t \in Nat \X [user : Users, scopes : SUBSET Scopes]
        /\ t[2].user = q.user /\ t[2].scopes = q.scopes
    BY <2>2, <2>3, FS_EmptySet DEF Grant
  <2> HIDE DEF ended, used, t
  <2>7. TypeOK'
    <3>1. tokens' \in [Requests -> SUBSET (Nat \X [user : Users, scopes : SUBSET Scopes])]
      BY <2>4, <2>6 DEF TypeOK
    <3> QED BY <3>1, <2>4, <2>5 DEF TypeOK
  <2>8. CodesAgree'
    <3>1. PICK x \in Requests : x = r
      BY <2>2
    <3>2. /\ device'[x] = ended /\ userCode'[x] = used
          /\ \A y \in Requests : y # x => device'[y] = device[y] /\ userCode'[y] = userCode[y]
      BY <2>4, <3>1 DEF TypeOK
    <3>3. /\ device[x].user = userCode[x].user /\ device[x].scopes = userCode[x].scopes
      BY <2>3, <3>1 DEF CodesAgree
    <3>4. /\ device'[x] # None /\ userCode'[x] # None /\ device'[x].user # None
          /\ device'[x].user = userCode'[x].user /\ device'[x].scopes = userCode'[x].scopes
          /\ userCode'[x].user # None /\ userCode'[x].active = FALSE
      BY <2>3, <2>5, <3>1, <3>2, <3>3
    <3>5. ASSUME NEW y \in Requests
          PROVE  /\ (device'[y] = None) = (userCode'[y] = None)
                 /\ device'[y] # None =>
                      /\ device'[y].user = userCode'[y].user
                      /\ device'[y].scopes = userCode'[y].scopes
                      /\ userCode'[y].active = (userCode'[y].user = None)
      <4>1. CASE y = x
        BY <3>4, <4>1
      <4>2. CASE y # x
        <5>1. device'[y] = device[y] /\ userCode'[y] = userCode[y]
          BY <3>2, <4>2
        <5> QED BY <5>1 DEF CodesAgree
      <4> QED BY <4>1, <4>2
    <3> QED BY <3>5 DEF CodesAgree
  <2>9. \A x \in Requests : RowsTell(x)' /\ AtMostOne(accepts[x])' /\ AtMostOne(tokens[x])'
    BY <2>2, <2>3, <2>4, <2>5 DEF RowsTell, AtMostOne, TypeOK
  <2>10. TokensWereApproved'
    BY <2>2, <2>4, <2>6 DEF TokensWereApproved, TypeOK
  <2>11. \A s \in Procs : ReadsHold(s)'
    BY <2>3, <2>4, <2>5 DEF ReadsHold, TypeOK, Idle, Approval, Poll
  <2> QED BY <2>7, <2>8, <2>9, <2>10, <2>11
<1>7. CASE \E r \in Requests : ExpireCodes(r)
  <2>1. TypeOK' /\ expired \subseteq expired' /\ \A p \in Procs : ReadsHold(p)'
    BY <1>7 DEF ExpireCodes, TypeOK, ReadsHold
  <2> QED BY <1>7, <2>1, RowsStay DEF ExpireCodes
<1>8. CASE CleanupExpiredOAuth2Sessions
  <2>1. /\ device' = [r \in Requests |-> IF r \in expired THEN None ELSE device[r]]
        /\ userCode' = [r \in Requests |-> IF r \in expired THEN None ELSE userCode[r]]
        /\ UNCHANGED <<expired, consents, proofs, blocked, proc, accepts, tokens>>
    BY <1>8 DEF CleanupExpiredOAuth2Sessions
  <2>2. TypeOK' /\ CodesAgree'
    BY <2>1 DEF TypeOK, CodesAgree
  <2>3. \A x \in Requests : RowsTell(x)' /\ AtMostOne(accepts[x])' /\ AtMostOne(tokens[x])'
    BY <2>1 DEF RowsTell, AtMostOne
  <2>4. TokensWereApproved' /\ \A p \in Procs : ReadsHold(p)'
    BY <2>1 DEF TokensWereApproved, ReadsHold, TypeOK, Idle, Approval, Poll
  <2> QED BY <2>2, <2>3, <2>4
<1>9. CASE \E u \in Users : CreateReauthenticationToken(u) \/ ToggleAccess(u)
  <2>1. TypeOK' /\ expired \subseteq expired' /\ \A p \in Procs : ReadsHold(p)'
    BY <1>9 DEF CreateReauthenticationToken, ToggleAccess, TypeOK, ReadsHold
  <2> QED BY <1>9, <2>1, RowsStay DEF CreateReauthenticationToken, ToggleAccess
<1>10. CASE UNCHANGED vars
  BY <1>10, RowsStay DEF vars, TypeOK, ReadsHold
<1> QED BY <1>1, <1>2, <1>3, <1>4, <1>5, <1>6, <1>7, <1>8, <1>9, <1>10 DEF Next

(* The inductive invariant holds in every state of every behaviour.        *)
THEOREM DeviceInvariant == Spec => []DeviceInv
<1>1. Init => DeviceInv
  BY DeviceInit
<1>2. DeviceInv /\ [Next]_vars => DeviceInv'
  BY DeviceStep
<1> QED BY <1>1, <1>2, PTL DEF Spec

(* A user code is approved once and a device code redeemed once, however   *)
(* many users approve and devices poll at the same time                    *)
(* (acceptDeviceCode, InvalidateDeviceCodeSession).                        *)
THEOREM CodesAreUsedOnce == Spec => []RedeemedOnce
<1>1. DeviceInv => RedeemedOnce
  BY OneMember DEF DeviceInv, AtMostOne, RedeemedOnce, ApprovedOnce, DeviceCodeRedeemedOnce
<1> QED BY <1>1, DeviceInvariant, PTL

(* What a device is given is what one user approved for this device, with  *)
(* no scope that user left out, although the token request reads the       *)
(* session before the code is invalidated (store.go, device_service.go).   *)
THEOREM DevicesGetWhatWasApproved == Spec => []TokensFollowApproval
<1>1. DeviceInv => TokensFollowApproval
  BY DEF DeviceInv, TokensFollowApproval
<1> QED BY <1>1, DeviceInvariant, PTL

(* What a step does to the history of a request: nothing, or it adds the   *)
(* first approval, or tokens to it.                                        *)
LEMMA GrantMoves ==
  ASSUME DeviceInv, [Next]_vars
  PROVE  \/ UNCHANGED <<accepts, tokens>>
         \/ \E r \in Requests, g \in [user : Users, scopes : SUBSET Scopes] :
              /\ accepts[r] = {} /\ accepts' = [accepts EXCEPT ![r] = {<<1, g>>}]
              /\ UNCHANGED tokens
         \/ \E r \in Requests, g \in [user : Users, scopes : SUBSET Scopes] :
              /\ \E a \in accepts[r] : a[2].user = g.user
              /\ tokens[r] = {} /\ tokens' = [tokens EXCEPT ![r] = {<<1, g>>}]
              /\ UNCHANGED accepts
<1> USE DEF DeviceInv
<1>0. Cardinality({}) + 1 = 1
  BY FS_EmptySet
<1>1. CASE \E p \in Procs : AcceptDeviceCode(p)
  <2>1. PICK p \in Procs : AcceptDeviceCode(p)
    BY <1>1
  <2> DEFINE r == proc[p].req
             g == Grant(proc[p].user, proc[p].agreed)
  <2>2. r \in Requests /\ g \in [user : Users, scopes : SUBSET Scopes]
    BY <2>1 DEF AcceptDeviceCode, TypeOK, Idle, Approval, Poll, Grant
  <2>3. accepts[r] = {}
    BY <2>1, <2>2 DEF AcceptDeviceCode, Claims, Unused, TypeOK, CodesAgree, RowsTell
  <2>4. accepts' = [accepts EXCEPT ![r] = {<<1, g>>}] /\ UNCHANGED tokens
    BY <1>0, <2>1, <2>3 DEF AcceptDeviceCode
  <2> QED BY <2>2, <2>3, <2>4
<1>2. CASE \E p \in Procs : RedeemDeviceCode(p)
  <2>1. PICK p \in Procs : RedeemDeviceCode(p)
    BY <1>2
  <2> DEFINE r == proc[p].req
             g == Grant(proc[p].user, proc[p].scopes)
  <2>2. /\ r \in Requests /\ g \in [user : Users, scopes : SUBSET Scopes]
        /\ g.user = proc[p].user
    BY <2>1 DEF RedeemDeviceCode, TypeOK, Idle, Approval, Poll, Grant
  <2>3. tokens[r] = {} /\ \E a \in accepts[r] : a[2].user = proc[p].user
    BY <2>1, <2>2 DEF RedeemDeviceCode, Redeemable, RowsTell, ReadsHold, TypeOK, CodesAgree, Row
  <2>4. tokens' = [tokens EXCEPT ![r] = {<<1, g>>}] /\ UNCHANGED accepts
    BY <1>0, <2>1, <2>3 DEF RedeemDeviceCode
  <2> QED BY <2>2, <2>3, <2>4
<1>3. \/ UNCHANGED <<accepts, tokens>>
      \/ \E p \in Procs : AcceptDeviceCode(p) \/ RedeemDeviceCode(p)
  BY DEF Next, vars, CreateDeviceAuthorization, ReadForApproval, RejectApproval,
         PollToken, RejectPoll, ExpireCodes, CleanupExpiredOAuth2Sessions,
         CreateReauthenticationToken, ToggleAccess
<1> QED BY <1>1, <1>2, <1>3

(* From the codes to the tokens a device request is the ticket of          *)
(* Admission: AcceptDeviceCodeSessionByUserCodeSignature binds it before   *)
(* the token endpoint admits, and each does so once.                       *)
THEOREM DeviceCodesAreTickets == Spec => DeviceCodeIsTicket
<1> DEFINE FirstApproval == \A r \in Requests : \A a \in accepts[r] : a[1] = 1
<1>1. Init => GrantTicket!Start /\ FirstApproval
  BY DEF Init, GrantTicket!Start, Approvers, Receivers
<1>2. FirstApproval /\ DeviceInv /\ [Next]_vars => FirstApproval'
  BY GrantMoves DEF DeviceInv, TypeOK
<1>3. FirstApproval /\ DeviceInv /\ [Next]_vars =>
        [GrantTicket!Advance]_(GrantTicket!admissionVars)
  <2> SUFFICES ASSUME FirstApproval, DeviceInv, [Next]_vars
               PROVE  [GrantTicket!Advance]_(GrantTicket!admissionVars)
    OBVIOUS
  <2>1. CASE UNCHANGED <<accepts, tokens>>
    BY <2>1 DEF GrantTicket!admissionVars, Approvers, Receivers
  <2>2. ASSUME NEW r \in Requests, NEW g \in [user : Users, scopes : SUBSET Scopes],
               accepts[r] = {}, accepts' = [accepts EXCEPT ![r] = {<<1, g>>}],
               UNCHANGED tokens
        PROVE  GrantTicket!Advance
    <3>1. Approvers' = [Approvers EXCEPT ![r] = {<<1, g.user>>}] /\ Receivers' = Receivers
      <4>1. accepts'[r] = {<<1, g>>} /\ \A q \in Requests \ {r} : accepts'[q] = accepts[q]
        BY <2>2 DEF DeviceInv, TypeOK
      <4>2. {<<t[1], t[2].user>> : t \in accepts'[r]} = {<<1, g.user>>}
        BY <4>1
      <4>3. \A q \in Requests : Approvers'[q] = [Approvers EXCEPT ![r] = {<<1, g.user>>}][q]
        BY <4>1, <4>2 DEF Approvers
      <4> QED BY <2>2, <4>3 DEF Approvers, Receivers
    <3>2. Approvers[r] = {} /\ g.user \in Users
      BY <2>2 DEF Approvers
    <3> QED BY <3>1, <3>2 DEF GrantTicket!Advance, GrantTicket!Bind
  <2>3. ASSUME NEW r \in Requests, NEW g \in [user : Users, scopes : SUBSET Scopes],
               \E a \in accepts[r] : a[2].user = g.user, tokens[r] = {},
               tokens' = [tokens EXCEPT ![r] = {<<1, g>>}], UNCHANGED accepts
        PROVE  GrantTicket!Advance
    <3>1. Receivers' = [Receivers EXCEPT ![r] = {<<1, g.user>>}] /\ Approvers' = Approvers
      <4>1. tokens'[r] = {<<1, g>>} /\ \A q \in Requests \ {r} : tokens'[q] = tokens[q]
        BY <2>3 DEF DeviceInv, TypeOK
      <4>2. {<<t[1], t[2].user>> : t \in tokens'[r]} = {<<1, g.user>>}
        BY <4>1
      <4>3. \A q \in Requests : Receivers'[q] = [Receivers EXCEPT ![r] = {<<1, g.user>>}][q]
        BY <4>1, <4>2 DEF Receivers
      <4> QED BY <2>3, <4>3 DEF Approvers, Receivers
    <3>2. Receivers[r] = {} /\ <<1, g.user>> \in Approvers[r] /\ g.user \in Users
      BY <2>3 DEF Approvers, Receivers
    <3> QED BY <3>1, <3>2 DEF GrantTicket!Advance, GrantTicket!Admit
  <2> QED BY <2>1, <2>2, <2>3, GrantMoves
<1> QED BY <1>1, <1>2, <1>3, DeviceInvariant, PTL
        DEF Spec, GrantTicket!AdmissionSpec, DeviceCodeIsTicket

-----------------------------------------------------------------------------
(* The device login.                                                       *)

Approved(d, u) == <<d, u, "approved">> \in decided

(* The actor's state is about the device that was given its code, and an   *)
(* approved one names the user who approved it.                            *)
StateTellsDecision ==
  \A c \in Codes : state[c] # Nothing =>
    /\ requestID[state[c].device] = c
    /\ state[c].status = "approved" =>
         state[c].user \in People /\ Approved(state[c].device, state[c].user)

(* What an exchange saw: an approved request of its device, which then is  *)
(* never pending again.                                                    *)
ExchangeSawApproval ==
  \A p \in Calls : call[p].pc \in {"approved", "loaded", "consumed"} =>
    /\ requestID[call[p].device] = call[p].code
    /\ Approved(call[p].device, call[p].user)
    /\ BelongsTo(call[p].code, call[p].device) => state[call[p].code].status = "approved"

Consuming(d) == {p \in Calls : call[p].pc = "consumed" /\ call[p].device = d}

HasRequest(d) == \E c \in Codes : BelongsTo(c, d)

(* The places where the request of a device can be, at most one at a time: *)
(* in the actor, with an exchange, in a session, nowhere.                  *)
InOnePlace(d) ==
  /\ requestID[d] = Nothing => sessions[d] = {} /\ d \notin lost /\ Consuming(d) = {}
  /\ \A p, q \in Consuming(d) : p = q
  /\ \A s, t \in sessions[d] : s = t
  /\ HasRequest(d) => sessions[d] = {} /\ d \notin lost /\ Consuming(d) = {}
  /\ Consuming(d) # {} => sessions[d] = {} /\ d \notin lost
  /\ d \in lost => sessions[d] = {}

(* The decisions of a user, and the decisions that still may come of a     *)
(* proof that was spent.                                                   *)
DecisionsOf(u) == {x \in decided : x[2] = u}
OwedTo(u) == {p \in Calls : call[p].pc = "proved" /\ call[p].user = u}

ProofsPaid ==
  \A u \in People :
    /\ IsFiniteSet(DecisionsOf(u)) /\ IsFiniteSet(OwedTo(u))
    /\ Cardinality(DecisionsOf(u)) + Cardinality(OwedTo(u)) <= spent[u]

(* An inductive invariant that implies the properties of DeviceLogin.      *)
LoginInv ==
  /\ LoginTypeOK
  /\ StateTellsDecision
  /\ ExchangeSawApproval
  /\ SessionIsOfApprover
  /\ \A d \in Devices : InOnePlace(d)
  /\ ProofsPaid

(* What a request in flight is made of.                                    *)
LEMMA InFlight ==
  ASSUME LoginTypeOK, NEW p \in Calls
  PROVE  /\ call[p].pc \in {"approved", "loaded", "consumed"} =>
              /\ call[p] \in Exchanging /\ call[p].code \in Codes
              /\ call[p].device \in Devices /\ call[p].user \in People
         /\ call[p].pc = "proved" =>
              call[p] \in Deciding /\ call[p].code \in Codes /\ call[p].user \in People
  BY DEF LoginTypeOK, Free, Deciding, Exchanging

(* Proofs stay paid for where no decision is added and none is owed that   *)
(* was not.                                                                *)
LEMMA NothingOwed ==
  ASSUME LoginTypeOK, ProofsPaid, UNCHANGED <<decided, spent>>,
         \A u \in People : OwedTo(u)' \subseteq OwedTo(u)
  PROVE  ProofsPaid'
<1> SUFFICES ASSUME NEW u \in People
             PROVE  /\ IsFiniteSet(DecisionsOf(u)') /\ IsFiniteSet(OwedTo(u)')
                    /\ Cardinality(DecisionsOf(u)') + Cardinality(OwedTo(u)') <= spent'[u]
  BY DEF ProofsPaid
<1>1. DecisionsOf(u)' = DecisionsOf(u) /\ spent'[u] = spent[u] /\ spent[u] \in Nat
  BY DEF DecisionsOf, LoginTypeOK
<1>2. IsFiniteSet(DecisionsOf(u)) /\ IsFiniteSet(OwedTo(u))
  BY DEF ProofsPaid
<1>3. /\ IsFiniteSet(OwedTo(u)') /\ Cardinality(OwedTo(u)') <= Cardinality(OwedTo(u))
  BY <1>2, FS_Subset
<1>4. /\ Cardinality(DecisionsOf(u)) \in Nat /\ Cardinality(OwedTo(u)) \in Nat
      /\ Cardinality(OwedTo(u)') \in Nat
  BY <1>2, <1>3, FS_CardinalityType
<1> QED BY <1>1, <1>2, <1>3, <1>4 DEF ProofsPaid

(* The steps about fresh proofs and users alone.                           *)
LEMMA NothingMoves ==
  ASSUME LoginInv, UNCHANGED <<state, requestID, call, decided, spent, sessions, lost, elapsed>>,
         fresh' \subseteq People, disabled' \subseteq People
  PROVE  LoginInv'
<1> USE DEF LoginInv
<1>1. LoginTypeOK'
  BY DEF LoginTypeOK
<1>2. StateTellsDecision' /\ ExchangeSawApproval' /\ SessionIsOfApprover'
  BY DEF StateTellsDecision, ExchangeSawApproval, SessionIsOfApprover, Approved, BelongsTo
<1>3. \A d \in Devices : InOnePlace(d)'
  BY DEF InOnePlace, Consuming, HasRequest, BelongsTo
<1>4. ProofsPaid'
  BY NothingOwed DEF OwedTo
<1> QED BY <1>1, <1>2, <1>3, <1>4

LEMMA LoginStarts == LoginInit => LoginInv
<1> SUFFICES ASSUME LoginInit PROVE LoginInv
  OBVIOUS
<1> USE DEF LoginInit
<1>1. LoginTypeOK
  BY DEF LoginTypeOK
<1>2. StateTellsDecision /\ ExchangeSawApproval /\ SessionIsOfApprover
  BY DEF StateTellsDecision, ExchangeSawApproval, SessionIsOfApprover, Free
<1>3. \A d \in Devices : InOnePlace(d)
  BY DEF InOnePlace, Consuming, HasRequest, BelongsTo, Free
<1>4. ProofsPaid
  <2> SUFFICES ASSUME NEW u \in People
               PROVE  /\ IsFiniteSet(DecisionsOf(u)) /\ IsFiniteSet(OwedTo(u))
                      /\ Cardinality(DecisionsOf(u)) + Cardinality(OwedTo(u)) <= spent[u]
    BY DEF ProofsPaid
  <2>1. DecisionsOf(u) = {} /\ OwedTo(u) = {} /\ spent[u] = 0
    BY DEF DecisionsOf, OwedTo, Free
  <2> QED BY <2>1, FS_EmptySet
<1> QED BY <1>1, <1>2, <1>3, <1>4 DEF LoginInv

(* LoginInv is preserved by every step of the devices, the users, the      *)
(* actors and the clock.                                                   *)
LEMMA LoginStep ==
  ASSUME LoginInv, [LoginNext]_loginVars
  PROVE  LoginInv'
<1> USE LoginAssumption, NoRequestAssumption DEF LoginInv
<1>1. CASE \E d \in Devices, c \in Codes : Create(d, c)
  <2>1. PICK d \in Devices, c \in Codes : Create(d, c)
    BY <1>1
  <2> DEFINE s == [device |-> d, status |-> "pending", user |-> Nothing]
  <2>2. s \in Request /\ s.device = d /\ s.status = "pending"
    BY DEF Request
  <2> HIDE DEF s
  <2>3. /\ requestID[d] = Nothing /\ state[c] = Nothing /\ s # Nothing
        /\ state' = [state EXCEPT ![c] = s]
        /\ requestID' = [requestID EXCEPT ![d] = c]
        /\ UNCHANGED <<fresh, disabled, call, decided, spent, sessions, lost, elapsed>>
    BY <2>1, <2>2 DEF Create, s
  <2>4. LoginTypeOK'
    BY <2>2, <2>3 DEF LoginTypeOK
  <2>5. StateTellsDecision' /\ SessionIsOfApprover'
    BY <2>2, <2>3 DEF StateTellsDecision, SessionIsOfApprover, Approved, LoginTypeOK, Request
  <2>6. ExchangeSawApproval'
    BY <2>2, <2>3, InFlight DEF ExchangeSawApproval, Approved, BelongsTo, LoginTypeOK, Request
  <2>7. \A e \in Devices : InOnePlace(e)'
    <3> SUFFICES ASSUME NEW e \in Devices PROVE InOnePlace(e)'
      OBVIOUS
    <3>1. Consuming(e)' = Consuming(e)
      BY <2>3 DEF Consuming
    <3>2. HasRequest(e)' => HasRequest(e) \/ e = d
      BY <2>2, <2>3 DEF HasRequest, BelongsTo, LoginTypeOK
    <3> QED BY <3>1, <3>2, <2>3 DEF InOnePlace, LoginTypeOK
  <2>8. ProofsPaid'
    BY <2>3, NothingOwed DEF OwedTo
  <2> QED BY <2>4, <2>5, <2>6, <2>7, <2>8
<1>2. CASE \E p \in Calls, d \in Devices, c \in Codes : PollApproved(p, d, c)
  <2>1. PICK p \in Calls, d \in Devices, c \in Codes : PollApproved(p, d, c)
    BY <1>2
  <2> DEFINE q == [pc |-> "approved", code |-> c, device |-> d, user |-> state[c].user]
  <2>2. /\ state[c] # Nothing /\ state[c] \in Request /\ state[c].device = d
        /\ state[c].status = "approved" /\ state[c].user \in People
        /\ requestID[d] = c /\ Approved(d, state[c].user) /\ call[p] = Free
    BY <2>1 DEF PollApproved, BelongsTo, StateTellsDecision, LoginTypeOK
  <2>3. /\ q \in Exchanging /\ q.pc = "approved" /\ q.device = d /\ q.code = c
        /\ q.user = state[c].user
    BY <2>2 DEF Exchanging
  <2>4. /\ call' = [call EXCEPT ![p] = q]
        /\ UNCHANGED <<state, requestID, fresh, disabled, decided, spent, sessions, lost, elapsed>>
    BY <2>1 DEF PollApproved
  <2> HIDE DEF q
  <2>5. LoginTypeOK'
    BY <2>3, <2>4 DEF LoginTypeOK
  <2>6. StateTellsDecision' /\ SessionIsOfApprover'
    BY <2>4 DEF StateTellsDecision, SessionIsOfApprover, Approved
  <2>7. ExchangeSawApproval'
    BY <2>2, <2>3, <2>4 DEF ExchangeSawApproval, Approved, BelongsTo, LoginTypeOK
  <2>8. \A e \in Devices : Consuming(e)' = Consuming(e)
    BY <2>2, <2>3, <2>4 DEF Consuming, LoginTypeOK, Free
  <2>9. \A e \in Devices : InOnePlace(e)'
    BY <2>4, <2>8 DEF InOnePlace, HasRequest, BelongsTo
  <2>10. ProofsPaid'
    BY <2>3, <2>4, NothingOwed DEF OwedTo, LoginTypeOK
  <2> QED BY <2>5, <2>6, <2>7, <2>9, <2>10
<1>3. CASE \E c \in Codes : Expire(c)
  <2>1. PICK c \in Codes : Expire(c)
    BY <1>3
  <2>2. /\ state' = [state EXCEPT ![c] = Nothing]
        /\ elapsed' \subseteq Devices
        /\ UNCHANGED <<requestID, fresh, disabled, call, decided, spent, sessions, lost>>
    BY <2>1 DEF Expire, LoginTypeOK, Request
  <2>3. LoginTypeOK'
    BY <2>2 DEF LoginTypeOK
  <2>4. StateTellsDecision' /\ SessionIsOfApprover' /\ ExchangeSawApproval'
    BY <2>2, InFlight DEF StateTellsDecision, SessionIsOfApprover, ExchangeSawApproval,
                          Approved, BelongsTo, LoginTypeOK
  <2>5. \A e \in Devices : Consuming(e)' = Consuming(e) /\ (HasRequest(e)' => HasRequest(e))
    BY <2>2 DEF Consuming, HasRequest, BelongsTo, LoginTypeOK
  <2>6. \A e \in Devices : InOnePlace(e)'
    BY <2>2, <2>5 DEF InOnePlace
  <2>7. ProofsPaid'
    BY <2>2, NothingOwed DEF OwedTo
  <2> QED BY <2>3, <2>4, <2>6, <2>7
<1>4. CASE \E c \in Codes : Deny(c)
  <2>1. PICK c \in Codes : Deny(c)
    BY <1>4
  <2> DEFINE s == [state[c] EXCEPT !.status = "denied", !.user = Nothing]
             d == state[c].device
  <2>2. /\ state[c] # Nothing /\ state[c] \in Request /\ state[c].status = "pending"
        /\ d \in Devices
    BY <2>1 DEF Deny, Decided, Pending, LoginTypeOK, Request
  <2>3. s \in Request /\ s.device = d /\ s.status = "denied"
    BY <2>2 DEF Request
  <2>4. /\ state' = [state EXCEPT ![c] = s]
        /\ decided' = decided \cup {<<d, Nothing, "denied">>}
        /\ UNCHANGED <<requestID, fresh, disabled, call, spent, sessions, lost, elapsed>>
    BY <2>1, <2>2 DEF Deny, Decided, LoginTypeOK
  <2> HIDE DEF s
  <2>5. LoginTypeOK'
    BY <2>2, <2>3, <2>4 DEF LoginTypeOK
  <2>6. StateTellsDecision' /\ SessionIsOfApprover'
    BY <2>2, <2>3, <2>4 DEF StateTellsDecision, SessionIsOfApprover, Approved, LoginTypeOK
  <2>7. ExchangeSawApproval'
    BY <2>2, <2>3, <2>4, InFlight DEF ExchangeSawApproval, Approved, BelongsTo, LoginTypeOK
  <2>8. \A e \in Devices : Consuming(e)' = Consuming(e) /\ (HasRequest(e)' => HasRequest(e))
    BY <2>2, <2>3, <2>4 DEF Consuming, HasRequest, BelongsTo, LoginTypeOK
  <2>9. \A e \in Devices : InOnePlace(e)'
    BY <2>4, <2>8 DEF InOnePlace
  <2>10. ProofsPaid'
    <3>1. \A u \in People : DecisionsOf(u)' = DecisionsOf(u) /\ OwedTo(u)' = OwedTo(u)
      BY <2>4 DEF DecisionsOf, OwedTo
    <3> QED BY <3>1, <2>4 DEF ProofsPaid
  <2> QED BY <2>5, <2>6, <2>7, <2>9, <2>10
<1>5. CASE \E p \in Calls, u \in People, c \in Codes : ConsumeProof(p, u, c)
  <2>1. PICK p \in Calls, u \in People, c \in Codes : ConsumeProof(p, u, c)
    BY <1>5
  <2> DEFINE q == [pc |-> "proved", code |-> c, user |-> u]
  <2>2. q \in Deciding /\ q.pc = "proved" /\ q.user = u
    BY DEF Deciding
  <2>3. /\ call[p] = Free /\ fresh' \subseteq People
        /\ spent' = [spent EXCEPT ![u] = @ + 1]
        /\ call' = [call EXCEPT ![p] = q]
        /\ UNCHANGED <<state, requestID, disabled, decided, sessions, lost, elapsed>>
    BY <2>1 DEF ConsumeProof, LoginTypeOK
  <2> HIDE DEF q
  <2>4. LoginTypeOK'
    BY <2>2, <2>3 DEF LoginTypeOK
  <2>5. StateTellsDecision' /\ SessionIsOfApprover' /\ ExchangeSawApproval'
    BY <2>2, <2>3 DEF StateTellsDecision, SessionIsOfApprover, ExchangeSawApproval,
                      Approved, BelongsTo, LoginTypeOK
  <2>6. \A e \in Devices : Consuming(e)' = Consuming(e)
    BY <2>2, <2>3 DEF Consuming, LoginTypeOK, Free
  <2>7. \A e \in Devices : InOnePlace(e)'
    BY <2>3, <2>6 DEF InOnePlace, HasRequest, BelongsTo
  <2>8. ProofsPaid'
    <3> SUFFICES ASSUME NEW x \in People
                 PROVE  /\ IsFiniteSet(DecisionsOf(x)') /\ IsFiniteSet(OwedTo(x)')
                        /\ Cardinality(DecisionsOf(x)') + Cardinality(OwedTo(x)') <= spent'[x]
      BY DEF ProofsPaid
    <3>1. /\ DecisionsOf(x)' = DecisionsOf(x) /\ spent[x] \in Nat
          /\ IsFiniteSet(DecisionsOf(x)) /\ IsFiniteSet(OwedTo(x))
          /\ Cardinality(DecisionsOf(x)) + Cardinality(OwedTo(x)) <= spent[x]
      BY <2>3 DEF DecisionsOf, ProofsPaid, LoginTypeOK
    <3>2. Cardinality(DecisionsOf(x)) \in Nat /\ Cardinality(OwedTo(x)) \in Nat
      BY <3>1, FS_CardinalityType
    <3>3. CASE x # u
      <4>1. OwedTo(x)' = OwedTo(x) /\ spent'[x] = spent[x]
        BY <3>3, <2>2, <2>3 DEF OwedTo, LoginTypeOK, Free
      <4> QED BY <3>1, <4>1
    <3>4. CASE x = u
      <4>1. OwedTo(x)' = OwedTo(x) \cup {p} /\ spent'[x] = spent[x] + 1
        BY <3>4, <2>2, <2>3 DEF OwedTo, LoginTypeOK, Free
      <4>2. /\ IsFiniteSet(OwedTo(x)') /\ Cardinality(OwedTo(x)') <= Cardinality(OwedTo(x)) + 1
        BY <3>1, <4>1, OneMore
      <4>3. Cardinality(OwedTo(x)') \in Nat
        BY <4>2, FS_CardinalityType
      <4> QED BY <3>1, <3>2, <4>1, <4>2, <4>3
    <3> QED BY <3>3, <3>4
  <2> QED BY <2>4, <2>5, <2>7, <2>8
<1>6. CASE \E p \in Calls : Approve(p)
  <2>1. PICK p \in Calls : Approve(p)
    BY <1>6
  <2> DEFINE c == call[p].code
             u == call[p].user
             s == [state[c] EXCEPT !.status = "approved", !.user = u]
             d == state[c].device
             x == <<d, u, "approved">>
  <2>2. call[p].pc = "proved" /\ c \in Codes /\ u \in People
    BY <2>1, InFlight DEF Approve
  <2>3. /\ state[c] # Nothing /\ state[c] \in Request /\ state[c].status = "pending"
        /\ d \in Devices
    BY <2>1, <2>2 DEF Approve, Decided, Pending, LoginTypeOK, Request
  <2>4. s \in Request /\ s.device = d /\ s.status = "approved" /\ s.user = u
    BY <2>2, <2>3 DEF Request
  <2>5. /\ state' = [state EXCEPT ![c] = s]
        /\ decided' = decided \cup {x}
        /\ call' = [call EXCEPT ![p] = Free]
        /\ UNCHANGED <<requestID, fresh, disabled, spent, sessions, lost, elapsed>>
    BY <2>1, <2>2, <2>3 DEF Approve, Decided, LoginTypeOK
  <2> HIDE DEF s
  <2>6. LoginTypeOK'
    BY <2>2, <2>3, <2>4, <2>5 DEF LoginTypeOK
  <2>7. StateTellsDecision' /\ SessionIsOfApprover'
    <3>1. /\ state'[c] = s /\ \A e \in Codes : e # c => state'[e] = state[e]
          /\ x \in decided' /\ decided \subseteq decided'
      BY <2>2, <2>5 DEF LoginTypeOK
    <3>2. StateTellsDecision'
      <4> SUFFICES ASSUME NEW e \in Codes, state'[e] # Nothing
                   PROVE  /\ requestID[state'[e].device] = e
                          /\ state'[e].status = "approved" =>
                               /\ state'[e].user \in People
                               /\ <<state'[e].device, state'[e].user, "approved">> \in decided'
        BY <2>5 DEF StateTellsDecision, Approved
      <4>1. CASE e = c
        BY <2>2, <2>3, <2>4, <3>1, <4>1 DEF StateTellsDecision
      <4>2. CASE e # c
        BY <3>1, <4>2 DEF StateTellsDecision, Approved
      <4> QED BY <4>1, <4>2
    <3>3. SessionIsOfApprover'
      BY <2>5, <3>1 DEF SessionIsOfApprover, Approved
    <3> QED BY <3>2, <3>3
  <2>8. ExchangeSawApproval'
    BY <2>2, <2>3, <2>4, <2>5, InFlight
       DEF ExchangeSawApproval, Approved, BelongsTo, LoginTypeOK, Free
  <2>9. \A e \in Devices : Consuming(e)' = Consuming(e) /\ (HasRequest(e)' => HasRequest(e))
    BY <2>2, <2>3, <2>4, <2>5 DEF Consuming, HasRequest, BelongsTo, LoginTypeOK, Free
  <2>10. \A e \in Devices : InOnePlace(e)'
    BY <2>5, <2>9 DEF InOnePlace
  <2>11. ProofsPaid'
    <3> SUFFICES ASSUME NEW y \in People
                 PROVE  /\ IsFiniteSet(DecisionsOf(y)') /\ IsFiniteSet(OwedTo(y)')
                        /\ Cardinality(DecisionsOf(y)') + Cardinality(OwedTo(y)') <= spent'[y]
      BY DEF ProofsPaid
    <3>1. /\ spent'[y] = spent[y] /\ spent[y] \in Nat
          /\ IsFiniteSet(DecisionsOf(y)) /\ IsFiniteSet(OwedTo(y))
          /\ Cardinality(DecisionsOf(y)) + Cardinality(OwedTo(y)) <= spent[y]
      BY <2>5 DEF ProofsPaid, LoginTypeOK
    <3>2. Cardinality(DecisionsOf(y)) \in Nat /\ Cardinality(OwedTo(y)) \in Nat
      BY <3>1, FS_CardinalityType
    <3>3. CASE y # u
      <4>1. DecisionsOf(y)' = DecisionsOf(y)
        BY <3>3, <2>5 DEF DecisionsOf
      <4>2. OwedTo(y)' = OwedTo(y)
        BY <3>3, <2>5 DEF OwedTo, LoginTypeOK, Free
      <4> QED BY <3>1, <4>1, <4>2
    <3>4. CASE y = u
      <4>1. DecisionsOf(y)' = DecisionsOf(y) \cup {x}
        BY <3>4, <2>5 DEF DecisionsOf
      <4>2. OwedTo(y)' = OwedTo(y) \ {p} /\ p \in OwedTo(y)
        BY <3>4, <2>2, <2>5 DEF OwedTo, LoginTypeOK, Free
      <4>3. /\ IsFiniteSet(DecisionsOf(y)')
            /\ Cardinality(DecisionsOf(y)') <= Cardinality(DecisionsOf(y)) + 1
        BY <3>1, <4>1, OneMore
      <4>4. /\ IsFiniteSet(OwedTo(y)')
            /\ Cardinality(OwedTo(y)') + 1 = Cardinality(OwedTo(y))
        BY <3>1, <4>2, OneLess
      <4>5. Cardinality(DecisionsOf(y)') \in Nat /\ Cardinality(OwedTo(y)') \in Nat
        BY <4>3, <4>4, FS_CardinalityType
      <4> QED BY <3>1, <3>2, <4>3, <4>4, <4>5
    <3> QED BY <3>3, <3>4
  <2> QED BY <2>6, <2>7, <2>8, <2>10, <2>11
<1>7. CASE \E p \in Calls : LoadExchangeUser(p)
  <2>1. PICK p \in Calls : LoadExchangeUser(p)
    BY <1>7
  <2> DEFINE q == call'[p]
  <2>2. call[p].pc = "approved" /\ call[p] \in Exchanging
    BY <2>1, InFlight DEF LoadExchangeUser
  <2>3. /\ q \in {Free} \cup Exchanging
        /\ q.pc \in {"idle", "loaded"}
        /\ q.pc = "loaded" => q.code = call[p].code /\ q.device = call[p].device
                                /\ q.user = call[p].user
        /\ \A r \in Calls : r # p => call'[r] = call[r]
        /\ UNCHANGED <<state, requestID, fresh, disabled, decided, spent, sessions, lost, elapsed>>
    BY <2>1, <2>2 DEF LoadExchangeUser, LoginTypeOK, Free, Exchanging
  <2>4. call' \in [Calls -> {Free} \cup Deciding \cup Exchanging]
    BY <2>1, <2>3 DEF LoadExchangeUser, LoginTypeOK
  <2>5. LoginTypeOK'
    BY <2>3, <2>4 DEF LoginTypeOK
  <2>6. StateTellsDecision' /\ SessionIsOfApprover'
    BY <2>3 DEF StateTellsDecision, SessionIsOfApprover, Approved
  <2>7. ExchangeSawApproval'
    BY <2>2, <2>3 DEF ExchangeSawApproval, Approved, BelongsTo
  <2>8. \A e \in Devices : Consuming(e)' = Consuming(e)
    BY <2>2, <2>3 DEF Consuming
  <2>9. \A e \in Devices : InOnePlace(e)'
    BY <2>3, <2>8 DEF InOnePlace, HasRequest, BelongsTo
  <2>10. ProofsPaid'
    BY <2>3, NothingOwed DEF OwedTo
  <2> QED BY <2>5, <2>6, <2>7, <2>9, <2>10
<1>8. CASE \E p \in Calls : Consume(p)
  <2>1. PICK p \in Calls : Consume(p)
    BY <1>8
  <2> PICK d \in Devices : d = call[p].device
    BY <2>1, InFlight DEF Consume
  <2> DEFINE c == call[p].code
             q == [call[p] EXCEPT !.pc = "consumed"]
  <2>2. /\ call[p].pc = "loaded" /\ call[p] \in Exchanging
        /\ c \in Codes /\ call[p].user \in People
        /\ state[c] # Nothing /\ state[c].device = d /\ state[c].status = "approved"
        /\ requestID[d] = c /\ Approved(d, call[p].user)
    BY <2>1, InFlight DEF Consume, BelongsTo, ExchangeSawApproval
  <2>3. /\ q \in Exchanging /\ q.pc = "consumed" /\ q.code = c /\ q.device = d
        /\ q.user = call[p].user
    BY <2>2 DEF Exchanging
  <2>4. /\ call' = [call EXCEPT ![p] = q]
        /\ state' = [state EXCEPT ![c] = Nothing]
        /\ UNCHANGED <<requestID, fresh, disabled, decided, spent, sessions, lost, elapsed>>
    BY <2>1, <2>2 DEF Consume, Pending
  <2>5. Consuming(d) = {} /\ sessions[d] = {} /\ d \notin lost
    BY <2>2 DEF InOnePlace, HasRequest, BelongsTo
  <2> HIDE DEF q
  <2>6. LoginTypeOK'
    BY <2>3, <2>4 DEF LoginTypeOK
  <2>7. StateTellsDecision' /\ SessionIsOfApprover'
    BY <2>2, <2>4 DEF StateTellsDecision, SessionIsOfApprover, Approved, LoginTypeOK
  <2>8. ExchangeSawApproval'
    BY <2>2, <2>3, <2>4, InFlight DEF ExchangeSawApproval, Approved, BelongsTo, LoginTypeOK
  <2>9. Consuming(d)' = {p}
    BY <2>2, <2>3, <2>4, <2>5 DEF Consuming, LoginTypeOK
  <2>10. ~HasRequest(d)'
    BY <2>2, <2>4 DEF HasRequest, BelongsTo, StateTellsDecision, LoginTypeOK
  <2>11. \A e \in Devices : e # d =>
           Consuming(e)' = Consuming(e) /\ (HasRequest(e)' => HasRequest(e))
    BY <2>2, <2>3, <2>4 DEF Consuming, HasRequest, BelongsTo, LoginTypeOK
  <2>12. \A e \in Devices : InOnePlace(e)'
    <3> SUFFICES ASSUME NEW e \in Devices PROVE InOnePlace(e)'
      OBVIOUS
    <3>1. CASE e = d
      BY <3>1, <2>2, <2>4, <2>5, <2>9, <2>10, LoginAssumption DEF InOnePlace
    <3>2. CASE e # d
      BY <3>2, <2>4, <2>11 DEF InOnePlace
    <3> QED BY <3>1, <3>2
  <2>13. ProofsPaid'
    BY <2>3, <2>4, NothingOwed DEF OwedTo, LoginTypeOK
  <2> QED BY <2>6, <2>7, <2>8, <2>12, <2>13
<1>9. CASE \E p \in Calls : SignIn(p)
  <2>1. PICK p \in Calls : SignIn(p)
    BY <1>9
  <2> PICK d \in Devices : d = call[p].device
    BY <2>1, InFlight DEF SignIn
  <2> DEFINE s == <<Cardinality(sessions[d]) + 1, call[p].user>>
  <2>2. /\ call[p].pc = "consumed" /\ call[p].user \in People
        /\ Approved(d, call[p].user) /\ requestID[d] # Nothing
    BY <2>1, InFlight DEF SignIn, ExchangeSawApproval
  <2>3. /\ p \in Consuming(d) /\ Consuming(d) = {p}
        /\ sessions[d] = {} /\ d \notin lost /\ ~HasRequest(d)
    BY <2>2 DEF InOnePlace, Consuming
  <2>4. s \in Nat \X People /\ s[2] = call[p].user
    BY <2>2, <2>3, FS_EmptySet
  <2>5. /\ sessions' = [sessions EXCEPT ![d] = {s}]
        /\ call' = [call EXCEPT ![p] = Free]
        /\ UNCHANGED <<state, requestID, fresh, disabled, decided, spent, lost, elapsed>>
    BY <2>1, <2>2, <2>3 DEF SignIn, LoginTypeOK
  <2> HIDE DEF s
  <2>6. LoginTypeOK'
    BY <2>2, <2>4, <2>5 DEF LoginTypeOK
  <2>7. StateTellsDecision'
    BY <2>5 DEF StateTellsDecision, Approved
  <2>8. SessionIsOfApprover'
    BY <2>2, <2>4, <2>5 DEF SessionIsOfApprover, Approved, LoginTypeOK
  <2>9. ExchangeSawApproval'
    BY <2>5 DEF ExchangeSawApproval, Approved, BelongsTo, LoginTypeOK, Free
  <2>10. Consuming(d)' = {}
    BY <2>3, <2>5 DEF Consuming, LoginTypeOK, Free
  <2>11. \A e \in Devices : /\ e # d => Consuming(e)' = Consuming(e)
                            /\ HasRequest(e)' <=> HasRequest(e)
    BY <2>5 DEF Consuming, HasRequest, BelongsTo, LoginTypeOK, Free
  <2>12. \A e \in Devices : InOnePlace(e)'
    <3> SUFFICES ASSUME NEW e \in Devices PROVE InOnePlace(e)'
      OBVIOUS
    <3>1. CASE e = d
      BY <3>1, <2>2, <2>3, <2>5, <2>10, <2>11 DEF InOnePlace, LoginTypeOK
    <3>2. CASE e # d
      BY <3>2, <2>5, <2>11 DEF InOnePlace, LoginTypeOK
    <3> QED BY <3>1, <3>2
  <2>13. ProofsPaid'
    BY <2>5, NothingOwed DEF OwedTo, LoginTypeOK, Free
  <2> QED BY <2>6, <2>7, <2>8, <2>9, <2>12, <2>13
<1>10. CASE \E p \in Calls : Abandon(p)
  <2>1. PICK p \in Calls : Abandon(p)
    BY <1>10
  <2> DEFINE d == call[p].device
  <2>2. /\ call' = [call EXCEPT ![p] = Free]
        /\ lost' = IF call[p].pc = "consumed" THEN lost \cup {d} ELSE lost
        /\ UNCHANGED <<state, requestID, fresh, disabled, decided, spent, sessions, elapsed>>
    BY <2>1 DEF Abandon
  <2>3. call[p].pc = "consumed" =>
          /\ d \in Devices /\ requestID[d] # Nothing /\ p \in Consuming(d)
          /\ Consuming(d) = {p} /\ sessions[d] = {} /\ ~HasRequest(d)
    BY InFlight DEF ExchangeSawApproval, InOnePlace, Consuming
  <2>4. LoginTypeOK'
    BY <2>2, <2>3 DEF LoginTypeOK
  <2>5. StateTellsDecision' /\ SessionIsOfApprover'
    BY <2>2 DEF StateTellsDecision, SessionIsOfApprover, Approved
  <2>6. ExchangeSawApproval'
    BY <2>2 DEF ExchangeSawApproval, Approved, BelongsTo, LoginTypeOK, Free
  <2>7. \A e \in Devices : /\ Consuming(e)' = Consuming(e) \ {p}
                           /\ HasRequest(e)' <=> HasRequest(e)
    BY <2>2 DEF Consuming, HasRequest, BelongsTo, LoginTypeOK, Free
  <2>8. \A e \in Devices : InOnePlace(e)'
    <3> SUFFICES ASSUME NEW e \in Devices PROVE InOnePlace(e)'
      OBVIOUS
    <3>1. CASE call[p].pc = "consumed" /\ e = d
      BY <3>1, <2>2, <2>3, <2>7 DEF InOnePlace
    <3>2. CASE ~(call[p].pc = "consumed" /\ e = d)
      <4>1. Consuming(e)' = Consuming(e)
        BY <3>2, <2>7 DEF Consuming
      <4>2. e \in lost' <=> e \in lost
        BY <3>2, <2>2
      <4> QED BY <4>1, <4>2, <2>2, <2>7 DEF InOnePlace
    <3> QED BY <3>1, <3>2
  <2>9. ProofsPaid'
    BY <2>2, NothingOwed DEF OwedTo, LoginTypeOK, Free
  <2> QED BY <2>4, <2>5, <2>6, <2>8, <2>9
<1>11. CASE \E u \in People : \/ CreateFreshProof(u)
                             \/ AgeReauthenticationToken(u) \/ ToggleDisabled(u)
  <2>1. /\ UNCHANGED <<state, requestID, call, decided, spent, sessions, lost, elapsed>>
        /\ fresh' \subseteq People /\ disabled' \subseteq People
    BY <1>11 DEF CreateFreshProof, AgeReauthenticationToken, ToggleDisabled, LoginTypeOK
  <2> QED BY <2>1, NothingMoves
<1>12. CASE UNCHANGED loginVars
  BY <1>12, NothingMoves DEF loginVars, LoginTypeOK
<1> QED BY <1>1, <1>2, <1>3, <1>4, <1>5, <1>6, <1>7, <1>8, <1>9, <1>10, <1>11, <1>12 DEF LoginNext

(* The inductive invariant holds in every state of every behaviour.        *)
THEOREM LoginInvariant == LoginSpec => []LoginInv
<1>1. LoginInv /\ [LoginNext]_loginVars => LoginInv'
  BY LoginStep
<1> QED BY <1>1, LoginStarts, PTL DEF LoginSpec

(* Of a device at most one session, lost attempt or exchange is left once  *)
(* its request was consumed.                                               *)
LEMMA RequestIsInOnePlace == LoginInv => OneSessionPerRequest
<1> SUFFICES ASSUME LoginInv, NEW d \in Devices
             PROVE  Cardinality(sessions[d]) + (IF d \in lost THEN 1 ELSE 0)
                      + Cardinality(Consuming(d)) <= 1
  BY DEF OneSessionPerRequest, Consuming
<1>1. /\ Cardinality(sessions[d]) \in {0, 1}
      /\ sessions[d] = {} <=> Cardinality(sessions[d]) = 0
  BY OneMember DEF LoginInv, InOnePlace
<1>2. /\ Cardinality(Consuming(d)) \in {0, 1}
      /\ Consuming(d) = {} <=> Cardinality(Consuming(d)) = 0
  BY OneMember DEF LoginInv, InOnePlace
<1>3. /\ Consuming(d) # {} => sessions[d] = {} /\ d \notin lost
      /\ d \in lost => sessions[d] = {}
  BY DEF LoginInv, InOnePlace
<1> QED BY <1>1, <1>2, <1>3

(* A user spends a proof on every decision that is made as theirs, whatever*)
(* becomes of the request meanwhile (Decide, consumeReauthenticationProof).*)
LEMMA DecisionsArePaid == LoginInv => ApprovalsCostProofs
<1> SUFFICES ASSUME LoginInv, NEW u \in People
             PROVE  Cardinality(DecisionsOf(u)) <= spent[u]
  BY DEF ApprovalsCostProofs, DecisionsOf
<1>1. /\ IsFiniteSet(DecisionsOf(u)) /\ IsFiniteSet(OwedTo(u)) /\ spent[u] \in Nat
      /\ Cardinality(DecisionsOf(u)) + Cardinality(OwedTo(u)) <= spent[u]
  BY DEF LoginInv, ProofsPaid, LoginTypeOK
<1>2. Cardinality(DecisionsOf(u)) \in Nat /\ Cardinality(OwedTo(u)) \in Nat
  BY <1>1, FS_CardinalityType
<1> QED BY <1>1, <1>2

(* A device is signed in as the user who approved its request, for a proof *)
(* of theirs, and once, even if its user code is given to another device   *)
(* and exchanges run at once or fail half way (Exchange, requestActor).    *)
THEOREM DevicesAreSignedInOnce == LoginSpec => []SessionWasApproved
<1>1. LoginInv => SessionWasApproved
  BY RequestIsInOnePlace, DecisionsArePaid DEF LoginInv, SessionWasApproved
<1> QED BY <1>1, LoginInvariant, PTL

(* A device whose request is pending, or that has none yet, was not        *)
(* approved before.                                                        *)
Undecided ==
  /\ \A c \in Codes, u \in People : Pending(c) => ~Approved(state[c].device, u)
  /\ \A d \in Devices, u \in People : requestID[d] = Nothing => ~Approved(d, u)

(* What a step decides: nothing, or somebody approves or denies a pending  *)
(* request.                                                                *)
LEMMA StepDecides ==
  ASSUME LoginInv, [LoginNext]_loginVars
  PROVE  \/ \E d \in Devices, c \in Codes : Create(d, c)
         \/ \E c \in Codes, u \in People \cup {Nothing} :
              /\ Pending(c) /\ UNCHANGED <<requestID, sessions>>
              /\ \/ /\ u \in People
                    /\ decided' = decided \cup {<<state[c].device, u, "approved">>}
                    /\ state' = [state EXCEPT ![c].status = "approved", ![c].user = u]
                 \/ /\ u = Nothing
                    /\ decided' = decided \cup {<<state[c].device, u, "denied">>}
                    /\ state' = [state EXCEPT ![c].status = "denied", ![c].user = u]
         \/ /\ UNCHANGED <<requestID, decided>>
            /\ \A c \in Codes : state'[c] \in {state[c], Nothing}
<1>1. CASE \E p \in Calls : Approve(p)
  <2>1. PICK p \in Calls : Approve(p)
    BY <1>1
  <2>2. call[p].code \in Codes /\ call[p].user \in People
    BY <2>1 DEF Approve, LoginInv, LoginTypeOK, Free, Deciding, Exchanging
  <2> QED BY <2>1, <2>2 DEF Approve, Decided
<1>2. CASE \E c \in Codes : Deny(c)
  BY <1>2 DEF Deny, Decided
<1>3. CASE \E c \in Codes : Expire(c)
  BY <1>3 DEF Expire, LoginInv, LoginTypeOK
<1>4. CASE \E p \in Calls : Consume(p)
  BY <1>4 DEF Consume, LoginInv, LoginTypeOK
<1> QED BY <1>1, <1>2, <1>3, <1>4
        DEF LoginNext, loginVars, PollApproved, ConsumeProof, LoadExchangeUser, SignIn,
            Abandon, CreateFreshProof, AgeReauthenticationToken, ToggleDisabled

LEMMA UndecidedStep ==
  ASSUME LoginInv, Undecided, [LoginNext]_loginVars
  PROVE  Undecided'
<1> USE LoginAssumption, NoRequestAssumption DEF LoginInv
<1>1. CASE \E d \in Devices, c \in Codes : Create(d, c)
  <2>1. PICK d \in Devices, c \in Codes : Create(d, c)
    BY <1>1
  <2>2. /\ requestID[d] = Nothing /\ requestID' = [requestID EXCEPT ![d] = c]
        /\ state'[c].device = d /\ \A e \in Codes \ {c} : state'[e] = state[e]
        /\ decided' = decided
    BY <2>1 DEF Create, LoginTypeOK
  <2> QED BY <2>2 DEF Undecided, Approved, Pending, LoginTypeOK
<1>2. ASSUME NEW c \in Codes, NEW u, NEW s \in {"approved", "denied"},
             Pending(c), UNCHANGED requestID,
             decided' = decided \cup {<<state[c].device, u, s>>},
             state' = [state EXCEPT ![c].status = s, ![c].user = u]
      PROVE  Undecided'
  <2>1. state[c] \in Request /\ requestID[state[c].device] = c
    BY <1>2 DEF Pending, LoginTypeOK, StateTellsDecision
  <2>2. ~Pending(c)'
    BY <1>2, <2>1 DEF Pending, LoginTypeOK, Request
  <2>3. \A e \in Codes \ {c} : /\ state'[e] = state[e]
                               /\ Pending(e) => state[e].device # state[c].device
    BY <1>2, <2>1 DEF Pending, LoginTypeOK, StateTellsDecision
  <2>4. \A d \in Devices : requestID[d] = Nothing => d # state[c].device
    BY <2>1
  <2>5. \A d, v : d # state[c].device => (Approved(d, v)' <=> Approved(d, v))
    BY <1>2 DEF Approved
  <2>6. ASSUME NEW e \in Codes, NEW v \in People, Pending(e)'
        PROVE  ~Approved(state[e].device, v)'
    <3>1. e # c /\ state'[e] = state[e]
      BY <2>2, <2>3, <2>6
    <3>2. Pending(e)
      BY <2>6, <3>1 DEF Pending
    <3>3. ~Approved(state[e].device, v) /\ state[e].device # state[c].device
      BY <2>3, <3>1, <3>2 DEF Undecided
    <3> QED BY <2>5, <3>1, <3>3 DEF Approved
  <2>7. ASSUME NEW d \in Devices, NEW v \in People, requestID'[d] = Nothing
        PROVE  ~Approved(d, v)'
    BY <1>2, <2>4, <2>5, <2>7 DEF Undecided
  <2> QED BY <2>6, <2>7 DEF Undecided
<1>3. CASE /\ UNCHANGED <<requestID, decided>>
           /\ \A c \in Codes : state'[c] \in {state[c], Nothing}
  BY <1>3 DEF Undecided, Approved, Pending
<1> QED BY <1>1, <1>2, <1>3, StepDecides

(* A request of a waiting device is the ticket of Admission:               *)
(* requestActor.decide binds it to whoever approves it, once, Exchange     *)
(* admits the device as that user, once.                                   *)
THEOREM WaitingDevicesAreTickets == LoginSpec => WaitingDeviceIsTicket
<1>1. LoginInit => LoginTicket!Start /\ Undecided
  BY DEF LoginInit, LoginTicket!Start, ApproversOf, Undecided, Approved
<1>2. LoginInv /\ Undecided /\ [LoginNext]_loginVars =>
        [LoginTicket!Advance]_(LoginTicket!admissionVars)
  <2> SUFFICES ASSUME LoginInv, Undecided, [LoginNext]_loginVars
               PROVE  [LoginTicket!Advance]_(LoginTicket!admissionVars)
    OBVIOUS
  <2> USE DEF LoginInv
  <2>1. ASSUME UNCHANGED <<decided, sessions>>
        PROVE  UNCHANGED LoginTicket!admissionVars
    BY <2>1 DEF LoginTicket!admissionVars, ApproversOf
  <2>2. ASSUME NEW d \in Devices, NEW u \in People, UNCHANGED sessions,
               \A v \in People : ~Approved(d, v),
               decided' = decided \cup {<<d, u, "approved">>}
        PROVE  LoginTicket!Advance
    <3>1. ApproversOf[d] = {}
      BY <2>2 DEF ApproversOf, Approved
    <3>2. \A e \in Devices : ApproversOf'[e] = [ApproversOf EXCEPT ![d] = {<<1, u>>}][e]
      BY <2>2, <3>1 DEF ApproversOf, Approved
    <3>3. ApproversOf' = [ApproversOf EXCEPT ![d] = {<<1, u>>}]
      BY <3>2 DEF ApproversOf
    <3> QED BY <2>2, <3>1, <3>3 DEF LoginTicket!Advance, LoginTicket!Bind
  <2>3. ASSUME NEW p \in Calls, SignIn(p)
        PROVE  LoginTicket!Advance
    <3>1. /\ call[p].device \in Devices /\ call[p].user \in People
          /\ Approved(call[p].device, call[p].user)
          /\ call[p].pc = "consumed"
      BY <2>3, InFlight DEF SignIn, ExchangeSawApproval
    <3>2. PICK d \in Devices, u \in People : d = call[p].device /\ u = call[p].user
      BY <3>1
    <3>3. sessions[d] = {} /\ Cardinality({}) + 1 = 1
      BY <3>1, <3>2, FS_EmptySet DEF InOnePlace, Consuming
    <3>4. sessions' = [sessions EXCEPT ![d] = {<<1, u>>}] /\ UNCHANGED decided
      BY <2>3, <3>2, <3>3 DEF SignIn
    <3>5. <<1, u>> \in ApproversOf[d] /\ ApproversOf' = ApproversOf
      BY <3>1, <3>2, <3>4 DEF ApproversOf, Approved
    <3> QED BY <3>2, <3>3, <3>4, <3>5 DEF LoginTicket!Advance, LoginTicket!Admit
  <2>4. ASSUME NEW d, decided' = decided \cup {<<d, Nothing, "denied">>}, UNCHANGED sessions
        PROVE  UNCHANGED LoginTicket!admissionVars
    BY <2>4 DEF LoginTicket!admissionVars, ApproversOf
  <2>5. CASE \E p \in Calls : SignIn(p)
    BY <2>3, <2>5
  <2>6. CASE UNCHANGED sessions
    <3>1. CASE \E c \in Codes, u \in People :
                 Pending(c) /\ decided' = decided \cup {<<state[c].device, u, "approved">>}
      <4>1. PICK c \in Codes, u \in People :
                 Pending(c) /\ decided' = decided \cup {<<state[c].device, u, "approved">>}
        BY <3>1
      <4>2. state[c].device \in Devices /\ \A v \in People : ~Approved(state[c].device, v)
        BY <4>1 DEF Pending, LoginTypeOK, Request, Undecided
      <4> QED BY <2>2, <2>6, <4>1, <4>2
    <3>2. CASE \E c \in Codes : decided' = decided \cup {<<state[c].device, Nothing, "denied">>}
      BY <2>4, <2>6, <3>2
    <3>3. CASE UNCHANGED decided
      BY <2>1, <2>6, <3>3
    <3>4. (\E d \in Devices, c \in Codes : Create(d, c)) => UNCHANGED decided
      BY DEF Create
    <3> QED BY <3>1, <3>2, <3>3, <3>4, StepDecides
  <2>7. UNCHANGED sessions \/ \E p \in Calls : SignIn(p)
    BY DEF LoginNext, loginVars, Create, PollApproved, Expire, Deny, Decided, ConsumeProof,
           Approve, LoadExchangeUser, Consume, Abandon, CreateFreshProof,
           AgeReauthenticationToken, ToggleDisabled
  <2> QED BY <2>5, <2>6, <2>7
<1>3. LoginInv /\ Undecided /\ [LoginNext]_loginVars => Undecided'
  BY UndecidedStep
<1> QED BY <1>1, <1>2, <1>3, LoginInvariant, PTL
        DEF LoginSpec, LoginTicket!AdmissionSpec, WaitingDeviceIsTicket
=============================================================================
