------------------------- MODULE TokenSessionsProofs -------------------------
(***************************************************************************)
(* Proofs about TokenSessions, for every number of requests, tokens and    *)
(* concurrent token requests and every lifetime and grace period.          *)
(***************************************************************************)
EXTENDS TokenSessions, TLAPS

LEMMA RotatedType ==
  ASSUME TypeOK, NEW t \in Tokens, refresh[t] # None
  PROVE  Rotated(t) \in RefreshRow
  BY ConstantsAssumption DEF TypeOK, Rotated, Deactivated, RefreshRow, Time

LEMMA RevokedType ==
  ASSUME TypeOK, NEW S
  PROVE  /\ RevokedRefresh(S) \in [Tokens -> RefreshRow \cup {None}]
         /\ RevokedAccess(S) \in [Tokens -> AccessRow \cup {None}]
  BY ConstantsAssumption
     DEF TypeOK, RevokedRefresh, RevokedAccess, Deactivated, RefreshRow,
         AccessRow, Time

LEMMA PurgedType ==
  ASSUME TypeOK
  PROVE  /\ Purged(code) \in [Requests -> CodeRow \cup {None}]
         /\ Purged(access) \in [Tokens -> AccessRow \cup {None}]
         /\ Purged(refresh) \in [Tokens -> RefreshRow \cup {None}]
  BY ConstantsAssumption DEF TypeOK, Purged

LEMMA NewRowTypes ==
  ASSUME TypeOK, NEW r \in Requests
  PROVE  /\ NewAccessRow(r) \in AccessRow
         /\ NewRefreshRow(r) \in RefreshRow
  BY ConstantsAssumption
     DEF TypeOK, NewAccessRow, NewRefreshRow, AccessRow, RefreshRow, Time

(* Every row, request in flight and history entry keeps its shape under    *)
(* all of the store's and the token endpoint's steps.                      *)
LEMMA TypeStep ==
  ASSUME TypeOK, [Next]_vars
  PROVE  TypeOK'
<1> USE ConstantsAssumption DEF TypeOK, Time
<1>1. CASE \E r \in Requests : Authorize(r)
  BY <1>1 DEF Authorize, CreateAuthorizeCodeSession, CodeRow, Owner
<1>2. CASE \E p \in Procs, r \in Requests : PresentCode(p, r)
  BY <1>2, RevokedType DEF PresentCode, ProcState
<1>3. CASE \E p \in Procs : RevokeReusedCode(p)
  <2>1. PICK p \in Procs : RevokeReusedCode(p)
    BY <1>3
  <2>2. proc[p].req \in Requests
    BY <2>1 DEF RevokeReusedCode, ProcState, Idle
  <2> QED BY <2>1, <2>2, RevokedType DEF RevokeReusedCode, ProcState
<1>4. CASE \E p \in Procs, t \in Tokens : PresentRefreshToken(p, t)
  <2>1. PICK p \in Procs, t \in Tokens : PresentRefreshToken(p, t)
    BY <1>4
  <2>2. refresh[t].req \in Requests
    BY <2>1 DEF PresentRefreshToken, RefreshRow
  <2> QED BY <2>1, <2>2, RevokedType
          DEF PresentRefreshToken, RevokeFamilies, ProcState
<1>5. CASE \E p \in Procs : ValidateUserAccess(p)
  BY <1>5 DEF ValidateUserAccess, ProcState, Idle, rows
<1>6. CASE \E p \in Procs, n \in Tokens : RespondCode(p, n)
  <2>1. PICK p \in Procs, n \in Tokens : RespondCode(p, n)
    BY <1>6
  <2>2. proc[p].req \in Requests
    BY <2>1 DEF RespondCode, ProcState, Idle
  <2>3. code' \in [Requests -> CodeRow \cup {None}]
    <3>1. PICK r \in Requests : r = proc[p].req
      BY <2>2
    <3>2. code[r] # None /\ code' = [code EXCEPT ![r].active = FALSE]
      BY <2>1, <3>1 DEF RespondCode, InvalidateAuthorizeCodeSession
    <3>3. code[r] \in CodeRow
      BY <3>2
    <3>4. [code[r] EXCEPT !.active = FALSE] \in CodeRow
      BY <3>3 DEF CodeRow
    <3> QED BY <3>2, <3>4
  <2>4. mint' \in [Tokens -> MintRecord \cup {None}]
    BY <2>1, <2>2 DEF RespondCode, Mint, MintRecord
  <2> QED BY <2>1, <2>2, <2>3, <2>4, NewRowTypes DEF RespondCode, ProcState
<1>7. CASE \E p \in Procs, n \in Tokens : RotateRefreshToken(p, n)
  <2>1. PICK p \in Procs, n \in Tokens : RotateRefreshToken(p, n)
    BY <1>7
  <2>2. proc[p].req \in Requests /\ proc[p].tok \in Tokens
    BY <2>1 DEF RotateRefreshToken, ProcState, Idle
  <2>3. Rotated(proc[p].tok) \in RefreshRow
    BY <2>1, <2>2, RotatedType DEF RotateRefreshToken, Usable
  <2>4. mint' \in [Tokens -> MintRecord \cup {None}]
    BY <2>1, <2>2 DEF RotateRefreshToken, Mint, MintRecord
  <2>5. access' \in [Tokens -> AccessRow \cup {None}]
    BY <2>1, <2>2, NewRowTypes DEF RotateRefreshToken, AccessAfterRotation
  <2>6. refresh' \in [Tokens -> RefreshRow \cup {None}]
    BY <2>1, <2>2, <2>3, NewRowTypes DEF RotateRefreshToken
  <2> QED BY <2>1, <2>4, <2>5, <2>6 DEF RotateRefreshToken, ProcState
<1>8. CASE \E p \in Procs : Abandon(p)
  BY <1>8 DEF Abandon, ProcState, rows
<1>9. CASE \E o \in Users \X Clients : RevokeAuthorizedClient(o)
  BY <1>9, RevokedType DEF RevokeAuthorizedClient, RevokeFamilies
<1>10. CASE \E r \in Requests : EndSession(r)
  BY <1>10, RevokedType DEF EndSession, RevokeFamilies
<1>11. CASE \E u \in Users : SetDisabled(u)
  BY <1>11 DEF SetDisabled, rows
<1>12. CASE CleanupExpiredOAuth2Sessions
  BY <1>12, PurgedType DEF CleanupExpiredOAuth2Sessions
<1>13. CASE Tick
  BY <1>13 DEF Tick, rows
<1>14. CASE UNCHANGED vars
  BY <1>14 DEF vars
<1> QED BY <1>1, <1>2, <1>3, <1>4, <1>5, <1>6, <1>7, <1>8, <1>9, <1>10,
           <1>11, <1>12, <1>13, <1>14 DEF Next

(* Type correctness of the sessions table and of the requests that work on *)
(* it: Spec => []TypeOK.                                                   *)
THEOREM TypeCorrect == Spec => []TypeOK
<1>1. Init => TypeOK
  BY ConstantsAssumption DEF Init, TypeOK, Time, ProcState
<1>2. TypeOK /\ [Next]_vars => TypeOK'
  BY TypeStep
<1> QED BY <1>1, <1>2, PTL DEF Spec

-----------------------------------------------------------------------------
(* A revocation leaves the rows of the families in S unusable and every    *)
(* other row as it was.                                                    *)
RevocationEffectOn(S) ==
  \A t \in Tokens :
    /\ RevokedRefresh(S)[t] # None <=> refresh[t] # None
    /\ refresh[t] # None =>
         /\ RevokedRefresh(S)[t].req = refresh[t].req
         /\ refresh[t].req \notin S => RevokedRefresh(S)[t] = refresh[t]
         /\ refresh[t].req \in S => /\ RevokedRefresh(S)[t].active = FALSE
                                    /\ RevokedRefresh(S)[t].rotatedAt = None
    /\ RevokedAccess(S)[t] # None => RevokedAccess(S)[t] = access[t]

LEMMA RevocationEffect ==
  ASSUME TypeOK, NEW S
  PROVE  RevocationEffectOn(S)
<1> SUFFICES ASSUME NEW t \in Tokens
             PROVE  /\ RevokedRefresh(S)[t] # None <=> refresh[t] # None
                    /\ refresh[t] # None =>
                         /\ RevokedRefresh(S)[t].req = refresh[t].req
                         /\ refresh[t].req \notin S => RevokedRefresh(S)[t] = refresh[t]
                         /\ refresh[t].req \in S =>
                              /\ RevokedRefresh(S)[t].active = FALSE
                              /\ RevokedRefresh(S)[t].rotatedAt = None
                    /\ RevokedAccess(S)[t] # None => RevokedAccess(S)[t] = access[t]
  BY DEF RevocationEffectOn
<1>1. RevokedRefresh(S)[t] = IF refresh[t] # None /\ refresh[t].req \in S
                             THEN Deactivated(refresh[t], None) ELSE refresh[t]
  BY DEF RevokedRefresh
<1>2. ASSUME refresh[t] # None PROVE Deactivated(refresh[t], None) # None
  <2>1. refresh[t] \in RefreshRow
    BY <1>2 DEF TypeOK
  <2>2. Deactivated(refresh[t], None) \in RefreshRow
    BY <2>1 DEF Deactivated, RefreshRow
  <2> QED BY <2>2, ConstantsAssumption DEF RefreshRow, Time
<1>3. RevokedAccess(S)[t] # None => RevokedAccess(S)[t] = access[t]
  BY DEF RevokedAccess
<1> QED BY <1>1, <1>2, <1>3 DEF Deactivated

(* A row that is not usable stays so: no step but the creation of a row    *)
(* makes a refresh token usable.                                           *)
LEMMA NoRevival ==
  ASSUME TypeOK, [Next]_vars, NEW t \in Tokens, Minted(t), Usable(t)'
  PROVE  Usable(t) /\ refresh'[t].req = refresh[t].req
<1> USE ConstantsAssumption DEF TypeOK, Time
<1>0. ASSUME refresh'[t] = refresh[t], now' = now
      PROVE  Usable(t) /\ refresh'[t].req = refresh[t].req
  BY <1>0 DEF Usable, InGrace
<1>1. ASSUME NEW S, refresh' = RevokedRefresh(S), now' = now
      PROVE  Usable(t) /\ refresh'[t].req = refresh[t].req
  BY <1>1, RevocationEffect DEF RevocationEffectOn, Usable, InGrace
<1>2. CASE \E r \in Requests : Authorize(r)
  BY <1>2, <1>0 DEF Authorize
<1>3. CASE \E p \in Procs, r \in Requests : PresentCode(p, r)
  BY <1>3, <1>0 DEF PresentCode
<1>4. CASE \E p \in Procs : RevokeReusedCode(p)
  BY <1>4, <1>1 DEF RevokeReusedCode
<1>5. CASE \E p \in Procs, s \in Tokens : PresentRefreshToken(p, s)
  BY <1>5, <1>0, <1>1 DEF PresentRefreshToken, RevokeFamilies
<1>6. CASE \E p \in Procs : ValidateUserAccess(p)
  BY <1>6, <1>0 DEF ValidateUserAccess, rows
<1>7. CASE \E p \in Procs, n \in Tokens : RespondCode(p, n)
  BY <1>7, <1>0 DEF RespondCode, Minted
<1>8. CASE \E p \in Procs, n \in Tokens : RotateRefreshToken(p, n)
  <2>1. PICK p \in Procs, n \in Tokens : RotateRefreshToken(p, n)
    BY <1>8
  <2>2. t # n /\ now' = now
    BY <2>1 DEF RotateRefreshToken, Minted
  <2>3. CASE t # proc[p].tok
    BY <2>1, <2>2, <2>3, <1>0 DEF RotateRefreshToken
  <2>4. CASE t = proc[p].tok
    BY <2>1, <2>2, <2>4 DEF RotateRefreshToken, Rotated, Deactivated
  <2> QED BY <2>3, <2>4
<1>9. CASE \E p \in Procs : Abandon(p)
  BY <1>9, <1>0 DEF Abandon, rows
<1>10. CASE \E o \in Users \X Clients : RevokeAuthorizedClient(o)
  BY <1>10, <1>1 DEF RevokeAuthorizedClient, RevokeFamilies
<1>11. CASE \E r \in Requests : EndSession(r)
  BY <1>11, <1>1 DEF EndSession, RevokeFamilies
<1>12. CASE \E u \in Users : SetDisabled(u)
  BY <1>12, <1>0 DEF SetDisabled, rows
<1>13. CASE CleanupExpiredOAuth2Sessions
  <2>1. refresh'[t] \in {refresh[t], None} /\ now' = now
    BY <1>13 DEF CleanupExpiredOAuth2Sessions, Purged
  <2> QED BY <2>1, <1>0 DEF Usable
<1>14. CASE Tick
  <2>1. refresh' = refresh /\ now' = now + 1
    BY <1>14 DEF Tick, rows
  <2>2. refresh[t] # None /\ refresh[t] \in RefreshRow
    BY <2>1 DEF Usable
  <2>3. CASE refresh[t].active
    BY <2>1, <2>2, <2>3 DEF Usable
  <2>4. CASE ~refresh[t].active
    <3>1. InGrace(refresh[t])'
      BY <2>1, <2>4 DEF Usable
    <3>2. refresh[t].rotatedAt \in Nat /\ now + 1 < refresh[t].rotatedAt + Grace
      BY <3>1, <2>1, <2>2 DEF InGrace, RefreshRow
    <3> QED BY <3>2, <2>1, <2>2 DEF Usable, InGrace
  <2> QED BY <2>3, <2>4
<1>15. CASE UNCHANGED vars
  BY <1>15, <1>0 DEF vars
<1> QED BY <1>2, <1>3, <1>4, <1>5, <1>6, <1>7, <1>8, <1>9, <1>10, <1>11,
           <1>12, <1>13, <1>14, <1>15 DEF Next

(* What follows for the invariant when a step mints nothing: the rows left *)
(* keep their family, and the families it ends have unusable rows.         *)
LEMMA NothingMinted ==
  ASSUME TypeOK, FamilyInv, [Next]_vars, mint' = mint,
         \A t \in Tokens : /\ access'[t] # None => access'[t] = access[t]
                           /\ refresh'[t] # None =>
                                /\ refresh[t] # None
                                /\ refresh'[t].req = refresh[t].req,
         \A r \in revoked' \ revoked :
           /\ Exchanged(r)
           /\ \A t \in Tokens : refresh'[t] # None /\ refresh'[t].req = r
                                  => ~Usable(t)'
  PROVE  /\ \A r \in Requests : Exchanged(r)' <=> Exchanged(r)
         /\ RowsWereMinted'
         /\ RevokedWereExchanged'
         /\ CodeExchangedOnce'
         /\ RevokedFamilyStaysDead'
<1>1. \A r : Exchanged(r)' <=> Exchanged(r)
  BY DEF Exchanged, FromCode, Minted
<1>2. RowsWereMinted'
  BY <1>1 DEF FamilyInv, RowsWereMinted, Minted
<1>3. RevokedWereExchanged'
  BY <1>1 DEF FamilyInv, RevokedWereExchanged
<1>4. CodeExchangedOnce'
  BY DEF FamilyInv, CodeExchangedOnce, FromCode, Minted
<1>5. RevokedFamilyStaysDead'
  <2> SUFFICES ASSUME NEW r \in revoked', NEW t \in Tokens,
                      refresh'[t] # None, refresh'[t].req = r, Usable(t)'
               PROVE  FALSE
    BY DEF RevokedFamilyStaysDead, TokensOf
  <2>1. r \in revoked
    OBVIOUS
  <2>2. Minted(t)
    BY DEF FamilyInv, RowsWereMinted
  <2>3. Usable(t) /\ refresh[t].req = r
    BY <2>2, NoRevival
  <2> QED BY <2>1, <2>3 DEF FamilyInv, RevokedFamilyStaysDead, TokensOf, Usable
<1> QED BY <1>1, <1>2, <1>3, <1>4, <1>5

(* FamilyInv is preserved by every step of the token endpoint, of the      *)
(* revocations and of the cleanup job.                                     *)
LEMMA FamilyStep ==
  ASSUME TypeOK, FamilyInv, [Next]_vars
  PROVE  FamilyInv'
<1> USE ConstantsAssumption
<1>1. CASE \E r \in Requests : Authorize(r)
  <2>1. PICK r \in Requests : Authorize(r)
    BY <1>1
  <2>2. \A q \in Requests : Exchanged(q)' <=> Exchanged(q)
    BY <2>1 DEF Authorize, Exchanged, FromCode, Minted
  <2>3. ~Exchanged(r)
    BY <2>1 DEF Authorize, FamilyInv, CodesTellExchanges
  <2>4. CodesTellExchanges'
    BY <2>1, <2>2, <2>3
       DEF Authorize, CreateAuthorizeCodeSession, FamilyInv,
           CodesTellExchanges, TypeOK, Time
  <2>5. RowsWereMinted' /\ RevokedWereExchanged' /\ CodeExchangedOnce'
        /\ RevokedFamilyStaysDead'
    BY <2>1, NothingMinted DEF Authorize
  <2>6. RequestsHoldOwnTokens'
    BY <2>1, <2>2 DEF Authorize, FamilyInv, RequestsHoldOwnTokens, Minted,
                      Exchanged, FromCode
  <2> QED BY <2>4, <2>5, <2>6 DEF FamilyInv
<1>2. CASE \E p \in Procs, r \in Requests : PresentCode(p, r)
  <2>1. PICK p \in Procs, r \in Requests : PresentCode(p, r)
    BY <1>2
  <2>2. \A t \in Tokens : access'[t] # None => access'[t] = access[t]
    <3>1. RevocationEffectOn({r})
      BY RevocationEffect
    <3> QED BY <3>1, <2>1 DEF RevocationEffectOn, PresentCode
  <2>3. /\ \A q \in Requests : Exchanged(q)' <=> Exchanged(q)
        /\ RowsWereMinted' /\ RevokedWereExchanged' /\ CodeExchangedOnce'
        /\ RevokedFamilyStaysDead'
    BY <2>1, <2>2, NothingMinted DEF PresentCode
  <2>4. CodesTellExchanges'
    BY <2>1, <2>3 DEF PresentCode, FamilyInv, CodesTellExchanges
  <2>5. ~code[r].active => Exchanged(r)'
    BY <2>1, <2>3 DEF PresentCode, FamilyInv, CodesTellExchanges
  <2>6. RequestsHoldOwnTokens'
    BY <2>1, <2>3, <2>5
       DEF PresentCode, FamilyInv, RequestsHoldOwnTokens, Minted, TypeOK,
           Exchanged, FromCode
  <2> QED BY <2>3, <2>4, <2>6 DEF FamilyInv
<1>3. CASE \E p \in Procs : RevokeReusedCode(p)
  <2>1. PICK p \in Procs : RevokeReusedCode(p)
    BY <1>3
  <2>2. proc[p].req \in Requests /\ Exchanged(proc[p].req)
    BY <2>1 DEF RevokeReusedCode, FamilyInv, RequestsHoldOwnTokens, TypeOK,
                ProcState, Idle
  <2>3. \A t \in Tokens : refresh'[t] # None =>
          /\ refresh[t] # None
          /\ refresh'[t].req = refresh[t].req
          /\ refresh'[t].req = proc[p].req => ~Usable(t)'
    <3>1. RevocationEffectOn({proc[p].req})
      BY RevocationEffect
    <3> QED BY <3>1, <2>1 DEF RevocationEffectOn, RevokeReusedCode, Usable, InGrace
  <2>4. /\ \A q \in Requests : Exchanged(q)' <=> Exchanged(q)
        /\ RowsWereMinted' /\ RevokedWereExchanged' /\ CodeExchangedOnce'
        /\ RevokedFamilyStaysDead'
    BY <2>1, <2>2, <2>3, NothingMinted DEF RevokeReusedCode
  <2>5. CodesTellExchanges'
    BY <2>1, <2>4 DEF RevokeReusedCode, FamilyInv, CodesTellExchanges
  <2>6. RequestsHoldOwnTokens'
    BY <2>1 DEF RevokeReusedCode, FamilyInv, RequestsHoldOwnTokens, Minted,
                TypeOK, Exchanged, FromCode
  <2> QED BY <2>4, <2>5, <2>6 DEF FamilyInv
<1>4. CASE \E p \in Procs, t \in Tokens : PresentRefreshToken(p, t)
  <2>1. PICK p \in Procs, s \in Tokens : PresentRefreshToken(p, s)
    BY <1>4
  <2>2. /\ refresh[s].req \in Requests
        /\ Minted(s) /\ mint[s].req = refresh[s].req
        /\ Exchanged(refresh[s].req)
    BY <2>1 DEF PresentRefreshToken, FamilyInv, RowsWereMinted, TypeOK,
                RefreshRow
  <2>3. \A t \in Tokens :
          /\ access'[t] # None => access'[t] = access[t]
          /\ refresh'[t] # None =>
               /\ refresh[t] # None
               /\ refresh'[t].req = refresh[t].req
               /\ refresh'[t].req \in revoked' \ revoked => ~Usable(t)'
    <3>1. RevocationEffectOn({refresh[s].req})
      BY RevocationEffect
    <3> QED BY <3>1, <2>1 DEF RevocationEffectOn, PresentRefreshToken,
                              RevokeFamilies, Usable, InGrace
  <2>4. /\ \A q \in Requests : Exchanged(q)' <=> Exchanged(q)
        /\ RowsWereMinted' /\ RevokedWereExchanged' /\ CodeExchangedOnce'
        /\ RevokedFamilyStaysDead'
    BY <2>1, <2>2, <2>3, NothingMinted DEF PresentRefreshToken
  <2>5. CodesTellExchanges'
    BY <2>1, <2>4 DEF PresentRefreshToken, FamilyInv, CodesTellExchanges
  <2>6. RequestsHoldOwnTokens'
    BY <2>1, <2>2
       DEF PresentRefreshToken, FamilyInv, RequestsHoldOwnTokens, Minted,
           TypeOK, Exchanged, FromCode
  <2> QED BY <2>4, <2>5, <2>6 DEF FamilyInv
<1>5. CASE \E p \in Procs : ValidateUserAccess(p)
  <2>1. PICK p \in Procs : ValidateUserAccess(p)
    BY <1>5
  <2>2. /\ \A q \in Requests : Exchanged(q)' <=> Exchanged(q)
        /\ RowsWereMinted' /\ RevokedWereExchanged' /\ CodeExchangedOnce'
        /\ RevokedFamilyStaysDead'
    BY <2>1, NothingMinted DEF ValidateUserAccess, rows
  <2>3. CodesTellExchanges'
    BY <2>1, <2>2 DEF ValidateUserAccess, rows, FamilyInv, CodesTellExchanges
  <2>4. \A q \in Procs : proc'[q] # Idle =>
          /\ proc[q] # Idle
          /\ proc'[q].tok = proc[q].tok
          /\ proc'[q].req = proc[q].req
          /\ proc'[q].pc = "revoke" => proc[q].pc = "revoke"
    BY <2>1 DEF ValidateUserAccess, TypeOK, ProcState, Idle
  <2>5. RequestsHoldOwnTokens'
    BY <2>1, <2>4
       DEF ValidateUserAccess, FamilyInv, RequestsHoldOwnTokens, Minted,
           Exchanged, FromCode
  <2> QED BY <2>2, <2>3, <2>5 DEF FamilyInv
<1>6. CASE \E p \in Procs, n \in Tokens : RespondCode(p, n)
  <2>1. PICK p \in Procs, n \in Tokens : RespondCode(p, n)
    BY <1>6
  <2> DEFINE r == proc[p].req
  <2>2. r \in Requests
    BY <2>1 DEF RespondCode, TypeOK, ProcState, Idle
  <2>3. ~Exchanged(r) /\ grantedAt[r] # None
    BY <2>1, <2>2 DEF RespondCode, InvalidateAuthorizeCodeSession, FamilyInv,
                      CodesTellExchanges
  <2>4. /\ ~Minted(n)
        /\ \A t \in Tokens : t # n => mint'[t] = mint[t]
        /\ mint'[n].req = r /\ mint'[n].from = None /\ mint'[n] # None
    BY <2>1, <2>2 DEF RespondCode, Mint, Minted, TypeOK, Time
  <2>5. \A q \in Requests : Exchanged(q)' <=> Exchanged(q) \/ q = r
    BY <2>2, <2>4 DEF Exchanged, FromCode, Minted
  <2>6. \A t \in Tokens : t # n => access'[t] = access[t] /\ refresh'[t] = refresh[t]
    BY <2>1 DEF RespondCode, TypeOK
  <2>7. /\ access'[n].req = r
        /\ refresh'[n] # None => refresh'[n].req = r
    BY <2>1, <2>4 DEF RespondCode, TypeOK, NewAccessRow, NewRefreshRow,
                      FamilyInv, RowsWereMinted
  <2>8. RowsWereMinted'
    <3> SUFFICES ASSUME NEW t \in Tokens
                 PROVE  /\ access'[t] # None => Minted(t)' /\ mint'[t].req = access'[t].req
                        /\ refresh'[t] # None => Minted(t)' /\ mint'[t].req = refresh'[t].req
                        /\ Minted(t)' => Exchanged(mint[t].req)'
      BY DEF RowsWereMinted
    <3>1. CASE t = n
      BY <3>1, <2>2, <2>4, <2>5, <2>7 DEF Minted
    <3>2. CASE t # n
      <4>1. Minted(t)' => Minted(t) /\ mint[t].req \in Requests
        BY <3>2, <2>4 DEF Minted, TypeOK, MintRecord
      <4> QED BY <4>1, <3>2, <2>4, <2>5, <2>6 DEF FamilyInv, RowsWereMinted, Minted
    <3> QED BY <3>1, <3>2
  <2>9. CodesTellExchanges'
    BY <2>1, <2>2, <2>3, <2>5
       DEF RespondCode, InvalidateAuthorizeCodeSession, FamilyInv,
           CodesTellExchanges, TypeOK, CodeRow
  <2>10. RevokedWereExchanged'
    BY <2>1, <2>5 DEF RespondCode, FamilyInv, RevokedWereExchanged, TypeOK
  <2>11. RequestsHoldOwnTokens'
    <3>1. \A q \in Procs : proc'[q] # Idle => proc'[q] = proc[q]
      BY <2>1 DEF RespondCode, TypeOK
    <3>2. \A q \in Procs : proc[q] # Idle => proc[q].req \in Requests
                                  /\ proc[q].tok \in Tokens \cup {None}
      BY DEF TypeOK, ProcState
    <3> QED BY <3>1, <3>2, <2>4, <2>5 DEF FamilyInv, RequestsHoldOwnTokens, Minted
  <2>12. CodeExchangedOnce'
    BY <2>3, <2>4 DEF FamilyInv, CodeExchangedOnce, FromCode, Minted, Exchanged
  <2>13. RevokedFamilyStaysDead'
    <3>1. r \notin revoked'
      BY <2>1, <2>2, <2>3 DEF RespondCode, FamilyInv, RevokedWereExchanged
    <3> SUFFICES ASSUME NEW q \in revoked', NEW t \in Tokens,
                        refresh'[t] # None, refresh'[t].req = q, Usable(t)'
                 PROVE  FALSE
      BY DEF RevokedFamilyStaysDead, TokensOf
    <3>2. t # n
      BY <3>1, <2>7
    <3>3. q \in revoked /\ Usable(t) /\ refresh[t].req = q
      BY <3>2, <2>1, <2>6 DEF RespondCode, Usable, InGrace
    <3> QED BY <3>3 DEF FamilyInv, RevokedFamilyStaysDead, TokensOf, Usable
  <2> QED BY <2>8, <2>9, <2>10, <2>11, <2>12, <2>13 DEF FamilyInv
<1>7. CASE \E p \in Procs, n \in Tokens : RotateRefreshToken(p, n)
  <2>1. PICK p \in Procs, n \in Tokens : RotateRefreshToken(p, n)
    BY <1>7
  <2> DEFINE r == proc[p].req
             s == proc[p].tok
  <2>2. r \in Requests /\ s \in Tokens
    BY <2>1 DEF RotateRefreshToken, TypeOK, ProcState, Idle
  <2>3. Minted(s) /\ mint[s].req = r /\ s # n /\ ~Minted(n)
    BY <2>1, <2>2 DEF RotateRefreshToken, FamilyInv, RequestsHoldOwnTokens,
                      Minted, Idle
  <2>4. Usable(s) /\ refresh[s].req = r /\ Exchanged(r)
    BY <2>1, <2>2, <2>3 DEF RotateRefreshToken, Usable, FamilyInv, RowsWereMinted
  <2>5. r \notin revoked
    BY <2>2, <2>4 DEF FamilyInv, RevokedFamilyStaysDead, TokensOf, Usable
  <2>6. /\ \A t \in Tokens : t # n => mint'[t] = mint[t]
        /\ mint'[n].req = r /\ mint'[n].from = s /\ mint'[n] # None
    BY <2>1, <2>2 DEF RotateRefreshToken, Mint, Minted, TypeOK, Time
  <2>7. \A q \in Requests : Exchanged(q)' <=> Exchanged(q)
    BY <2>2, <2>3, <2>6 DEF Exchanged, FromCode, Minted
  <2>8. \A t \in Tokens : t # n =>
          /\ access'[t] # None => access'[t] = access[t]
          /\ refresh'[t] # None => refresh[t] # None
                                   /\ refresh'[t].req = refresh[t].req
    BY <2>1, <2>2, <2>3, <2>4 DEF RotateRefreshToken, TypeOK, Rotated,
       Deactivated, AccessAfterRotation, Usable
  <2>9. access'[n].req = r /\ refresh'[n].req = r
    BY <2>1, <2>2, <2>3 DEF RotateRefreshToken, TypeOK, NewAccessRow,
       NewRefreshRow, AccessAfterRotation
  <2>10. RowsWereMinted'
    <3> SUFFICES ASSUME NEW t \in Tokens
                 PROVE  /\ access'[t] # None => Minted(t)' /\ mint'[t].req = access'[t].req
                        /\ refresh'[t] # None => Minted(t)' /\ mint'[t].req = refresh'[t].req
                        /\ Minted(t)' => Exchanged(mint[t].req)'
      BY DEF RowsWereMinted
    <3>1. CASE t = n
      BY <3>1, <2>2, <2>4, <2>6, <2>7, <2>9 DEF Minted
    <3>2. CASE t # n
      <4>1. Minted(t)' => Minted(t) /\ mint[t].req \in Requests
        BY <3>2, <2>6 DEF Minted, TypeOK, MintRecord
      <4> QED BY <4>1, <3>2, <2>6, <2>7, <2>8 DEF FamilyInv, RowsWereMinted, Minted
    <3> QED BY <3>1, <3>2
  <2>11. CodesTellExchanges'
    BY <2>1, <2>7 DEF RotateRefreshToken, FamilyInv, CodesTellExchanges
  <2>12. RevokedWereExchanged'
    BY <2>1, <2>7 DEF RotateRefreshToken, FamilyInv, RevokedWereExchanged, TypeOK
  <2>13. RequestsHoldOwnTokens'
    <3>1. \A q \in Procs : proc'[q] # Idle => proc'[q] = proc[q]
      BY <2>1 DEF RotateRefreshToken, TypeOK
    <3>2. \A q \in Procs : proc[q] # Idle => proc[q].req \in Requests
                                  /\ proc[q].tok \in Tokens \cup {None}
      BY DEF TypeOK, ProcState
    <3> QED BY <3>1, <3>2, <2>3, <2>6, <2>7 DEF FamilyInv, RequestsHoldOwnTokens, Minted
  <2>14. CodeExchangedOnce'
    BY <2>2, <2>6 DEF FamilyInv, CodeExchangedOnce, FromCode, Minted
  <2>15. RevokedFamilyStaysDead'
    <3> SUFFICES ASSUME NEW q \in revoked', NEW t \in Tokens,
                        refresh'[t] # None, refresh'[t].req = q, Usable(t)'
                 PROVE  FALSE
      BY DEF RevokedFamilyStaysDead, TokensOf
    <3>1. q \in revoked /\ t # n
      BY <2>1, <2>5, <2>9 DEF RotateRefreshToken
    <3>2. Minted(t)
      BY <3>1, <2>8 DEF FamilyInv, RowsWereMinted
    <3>3. Usable(t) /\ refresh[t].req = q
      BY <3>2, NoRevival
    <3> QED BY <3>1, <3>3 DEF FamilyInv, RevokedFamilyStaysDead, TokensOf, Usable
  <2> QED BY <2>10, <2>11, <2>12, <2>13, <2>14, <2>15 DEF FamilyInv
<1>8. CASE \E p \in Procs : Abandon(p)
  <2>1. PICK p \in Procs : Abandon(p)
    BY <1>8
  <2>2. /\ \A q \in Requests : Exchanged(q)' <=> Exchanged(q)
        /\ RowsWereMinted' /\ RevokedWereExchanged' /\ CodeExchangedOnce'
        /\ RevokedFamilyStaysDead'
    BY <2>1, NothingMinted DEF Abandon, rows
  <2>3. CodesTellExchanges'
    BY <2>1, <2>2 DEF Abandon, rows, FamilyInv, CodesTellExchanges
  <2>4. RequestsHoldOwnTokens'
    BY <2>1 DEF Abandon, FamilyInv, RequestsHoldOwnTokens, Minted, TypeOK,
                Exchanged, FromCode
  <2> QED BY <2>2, <2>3, <2>4 DEF FamilyInv
<1>9. CASE \E o \in Users \X Clients : RevokeAuthorizedClient(o)
  <2>1. PICK o \in Users \X Clients : RevokeAuthorizedClient(o)
    BY <1>9
  <2> DEFINE found == {r \in UsableFamilies : Owner(r) = o}
             started == {r \in Requests : Owner(r) = o /\ TokensOf(r) # {}}
  <2>2. refresh' = RevokedRefresh(found) /\ access' = RevokedAccess(found)
        /\ revoked' = revoked \cup started /\ mint' = mint /\ now' = now
    BY <2>1 DEF RevokeAuthorizedClient, RevokeFamilies
  <2>3. \A r \in started : Exchanged(r)
    BY DEF TokensOf, FamilyInv, RowsWereMinted
  <2>4. \A t \in Tokens :
          /\ access'[t] # None => access'[t] = access[t]
          /\ refresh'[t] # None =>
               /\ refresh[t] # None
               /\ refresh'[t].req = refresh[t].req
    BY <2>2, RevocationEffect DEF RevocationEffectOn
  <2>5. ASSUME NEW t \in Tokens, refresh'[t] # None,
               refresh'[t].req \in started, Usable(t)'
        PROVE  FALSE
    <3>1. Usable(t) /\ refresh'[t].req = refresh[t].req
      BY <2>4, <2>5, NoRevival DEF FamilyInv, RowsWereMinted
    <3>2. refresh[t].req \in found
      BY <3>1, <2>5 DEF UsableFamilies, TokensOf, Usable
    <3> QED BY <3>1, <3>2, <2>2, <2>5, RevocationEffect
            DEF RevocationEffectOn, Usable, InGrace
  <2>6. /\ \A q \in Requests : Exchanged(q)' <=> Exchanged(q)
        /\ RowsWereMinted' /\ RevokedWereExchanged' /\ CodeExchangedOnce'
        /\ RevokedFamilyStaysDead'
    BY <2>2, <2>3, <2>4, <2>5, NothingMinted
  <2>7. CodesTellExchanges'
    BY <2>1, <2>6 DEF RevokeAuthorizedClient, FamilyInv, CodesTellExchanges
  <2>8. RequestsHoldOwnTokens'
    BY <2>1 DEF RevokeAuthorizedClient, FamilyInv, RequestsHoldOwnTokens,
                Minted, Exchanged, FromCode
  <2> QED BY <2>6, <2>7, <2>8 DEF FamilyInv
<1>10. CASE \E r \in Requests : EndSession(r)
  <2>1. PICK r \in Requests : EndSession(r)
    BY <1>10
  <2>2. Exchanged(r)
    BY <2>1 DEF EndSession, UsableFamilies, TokensOf, FamilyInv, RowsWereMinted
  <2>3. \A t \in Tokens :
          /\ access'[t] # None => access'[t] = access[t]
          /\ refresh'[t] # None =>
               /\ refresh[t] # None
               /\ refresh'[t].req = refresh[t].req
               /\ refresh'[t].req = r => ~Usable(t)'
    <3>1. RevocationEffectOn({r})
      BY RevocationEffect
    <3> QED BY <3>1, <2>1 DEF RevocationEffectOn, EndSession, RevokeFamilies,
                              Usable, InGrace
  <2>4. /\ \A q \in Requests : Exchanged(q)' <=> Exchanged(q)
        /\ RowsWereMinted' /\ RevokedWereExchanged' /\ CodeExchangedOnce'
        /\ RevokedFamilyStaysDead'
    BY <2>1, <2>2, <2>3, NothingMinted DEF EndSession
  <2>5. CodesTellExchanges'
    BY <2>1, <2>4 DEF EndSession, FamilyInv, CodesTellExchanges
  <2>6. RequestsHoldOwnTokens'
    BY <2>1 DEF EndSession, FamilyInv, RequestsHoldOwnTokens, Minted,
                Exchanged, FromCode
  <2> QED BY <2>4, <2>5, <2>6 DEF FamilyInv
<1>11. CASE (\E u \in Users : SetDisabled(u)) \/ Tick
  <2>1. UNCHANGED <<code, access, refresh, proc, grantedAt, mint, revoked>>
    BY <1>11 DEF SetDisabled, Tick, rows
  <2>2. /\ \A q \in Requests : Exchanged(q)' <=> Exchanged(q)
        /\ RowsWereMinted' /\ RevokedWereExchanged' /\ CodeExchangedOnce'
        /\ RevokedFamilyStaysDead'
    BY <2>1, NothingMinted
  <2>3. CodesTellExchanges' /\ RequestsHoldOwnTokens'
    BY <2>1, <2>2 DEF FamilyInv, CodesTellExchanges, RequestsHoldOwnTokens,
                      Minted, Exchanged, FromCode
  <2> QED BY <2>2, <2>3 DEF FamilyInv
<1>12. CASE CleanupExpiredOAuth2Sessions
  <2>1. UNCHANGED <<now, proc, grantedAt, mint, revoked>>
    BY <1>12 DEF CleanupExpiredOAuth2Sessions
  <2>2. /\ \A r \in Requests : code'[r] \in {code[r], None}
        /\ \A t \in Tokens : /\ access'[t] \in {access[t], None}
                             /\ refresh'[t] \in {refresh[t], None}
    BY <1>12 DEF CleanupExpiredOAuth2Sessions, Purged, TypeOK
  <2>3. /\ \A q \in Requests : Exchanged(q)' <=> Exchanged(q)
        /\ RowsWereMinted' /\ RevokedWereExchanged' /\ CodeExchangedOnce'
        /\ RevokedFamilyStaysDead'
    BY <2>1, <2>2, NothingMinted
  <2>4. CodesTellExchanges' /\ RequestsHoldOwnTokens'
    BY <2>1, <2>2, <2>3 DEF FamilyInv, CodesTellExchanges,
       RequestsHoldOwnTokens, Minted, Exchanged, FromCode
  <2> QED BY <2>3, <2>4 DEF FamilyInv
<1>13. CASE UNCHANGED vars
  BY <1>13 DEF vars, FamilyInv, RowsWereMinted, CodesTellExchanges,
     RevokedWereExchanged, RequestsHoldOwnTokens, CodeExchangedOnce,
     RevokedFamilyStaysDead, Minted, Exchanged, FromCode, TokensOf, Usable,
     InGrace
<1> QED BY <1>1, <1>2, <1>3, <1>4, <1>5, <1>6, <1>7, <1>8, <1>9, <1>10,
           <1>11, <1>12, <1>13 DEF Next

LEMMA FamilyInit == Init => FamilyInv
  BY ConstantsAssumption
     DEF Init, FamilyInv, RowsWereMinted, CodesTellExchanges,
         RevokedWereExchanged, RequestsHoldOwnTokens, CodeExchangedOnce,
         RevokedFamilyStaysDead, Minted, Exchanged, FromCode

LEMMA FamilyInvariant == Spec => [](TypeOK /\ FamilyInv)
<1>1. TypeOK /\ FamilyInv /\ [Next]_vars => FamilyInv'
  BY FamilyStep
<1> QED BY <1>1, FamilyInit, TypeCorrect, PTL DEF Spec

(* However many token requests race for a code, it is exchanged at most    *)
(* once: the conditional update of InvalidateAuthorizeCodeSession decides. *)
THEOREM CodeIsSingleUse == Spec => []CodeExchangedOnce
<1>1. FamilyInv => CodeExchangedOnce
  BY DEF FamilyInv
<1> QED BY <1>1, FamilyInvariant, PTL

(* No request in flight, retry in the grace period or later step revives a *)
(* family that a reuse, a logout or a revocation has ended.                *)
THEOREM RevocationIsFinal == Spec => []RevokedFamilyStaysDead
<1>1. FamilyInv => RevokedFamilyStaysDead
  BY DEF FamilyInv
<1> QED BY <1>1, FamilyInvariant, PTL

-----------------------------------------------------------------------------
(* The refinement of TokenFamily.                                          *)

(* Ending the exchanged families of S is a Close step of TokenFamily.      *)
LEMMA RevocationCloses ==
  ASSUME TypeOK, FamilyInv, mint' = mint, grantedAt' = grantedAt,
         NEW S \in SUBSET Requests, revoked' = revoked \cup S,
         \A r \in S : Exchanged(r)
  PROVE  Family!Next
<1> DEFINE C == S \ revoked
<1>1. C \in SUBSET Requests /\ \A r \in C : FamilyState[r] = "open"
  BY DEF FamilyState
<1>2. FamilyState' = [r \in Requests |-> IF r \in C THEN "closed" ELSE FamilyState[r]]
  BY DEF FamilyState, Exchanged, FromCode, Minted
<1>3. FamilyTokens' = FamilyTokens
  BY DEF FamilyTokens, Minted
<1>4. Family!Close(C)
  BY <1>1, <1>2, <1>3 DEF Family!Close
<1> QED BY <1>1, <1>4 DEF Family!Next

(* Every step of the store maps to a step or a stutter of TokenFamily.     *)
LEMMA FamilyRefinesStep ==
  ASSUME TypeOK, FamilyInv, [Next]_vars
  PROVE  [Family!Next]_(Family!vars)
<1> USE ConstantsAssumption
<1>0. ASSUME UNCHANGED <<mint, revoked, grantedAt>>
      PROVE  UNCHANGED Family!vars
  BY <1>0 DEF Family!vars, FamilyState, FamilyTokens, Exchanged, FromCode, Minted
<1>1. CASE \E r \in Requests : Authorize(r)
  <2>1. PICK r \in Requests : Authorize(r)
    BY <1>1
  <2>2. ~Exchanged(r) /\ r \notin revoked /\ grantedAt[r] = None
    BY <2>1 DEF Authorize, FamilyInv, CodesTellExchanges, RevokedWereExchanged
  <2>3. /\ mint' = mint /\ revoked' = revoked
        /\ grantedAt' = [grantedAt EXCEPT ![r] = now] /\ now # None
    BY <2>1 DEF Authorize, TypeOK, Time
  <2>4. FamilyState[r] = "none"
    BY <2>2 DEF FamilyState
  <2>5. FamilyState' = [FamilyState EXCEPT ![r] = "granted"]
    BY <2>2, <2>3 DEF FamilyState, Exchanged, FromCode, Minted, TypeOK
  <2>6. FamilyTokens' = FamilyTokens
    BY <2>3 DEF FamilyTokens, Minted
  <2> QED BY <2>4, <2>5, <2>6 DEF Family!Next, Family!Grant, Family!Move
<1>2. CASE \E p \in Procs, r \in Requests : PresentCode(p, r)
  BY <1>2, <1>0 DEF PresentCode
<1>3. CASE \E p \in Procs : RevokeReusedCode(p)
  <2>1. PICK p \in Procs : RevokeReusedCode(p)
    BY <1>3
  <2>2. {proc[p].req} \in SUBSET Requests /\ Exchanged(proc[p].req)
    BY <2>1 DEF RevokeReusedCode, FamilyInv, RequestsHoldOwnTokens, TypeOK,
                ProcState, Idle
  <2> QED BY <2>1, <2>2, RevocationCloses DEF RevokeReusedCode
<1>4. CASE \E p \in Procs, t \in Tokens : PresentRefreshToken(p, t)
  <2>1. PICK p \in Procs, t \in Tokens : PresentRefreshToken(p, t)
    BY <1>4
  <2>2. {refresh[t].req} \in SUBSET Requests /\ Exchanged(refresh[t].req)
    BY <2>1 DEF PresentRefreshToken, FamilyInv, RowsWereMinted, TypeOK, RefreshRow
  <2> QED BY <2>1, <2>2, <1>0, RevocationCloses DEF PresentRefreshToken
<1>5. CASE \E p \in Procs : ValidateUserAccess(p)
  BY <1>5, <1>0 DEF ValidateUserAccess
<1>6. CASE \E p \in Procs, n \in Tokens : RespondCode(p, n)
  <2>1. PICK p \in Procs, n \in Tokens : RespondCode(p, n)
    BY <1>6
  <2> DEFINE r == proc[p].req
  <2>2. r \in Requests
    BY <2>1 DEF RespondCode, TypeOK, ProcState, Idle
  <2>3. ~Exchanged(r) /\ grantedAt[r] # None /\ r \notin revoked
    BY <2>1, <2>2 DEF RespondCode, InvalidateAuthorizeCodeSession, FamilyInv,
                      CodesTellExchanges, RevokedWereExchanged
  <2>4. /\ ~Minted(n) /\ revoked' = revoked /\ grantedAt' = grantedAt
        /\ \A t \in Tokens : t # n => mint'[t] = mint[t]
        /\ mint'[n].req = r /\ mint'[n].from = None /\ mint'[n] # None
    BY <2>1, <2>2 DEF RespondCode, Mint, Minted, TypeOK, Time
  <2>5. \A q \in Requests : Exchanged(q)' <=> Exchanged(q) \/ q = r
    BY <2>2, <2>4 DEF Exchanged, FromCode, Minted
  <2>6. FamilyState[r] = "granted" /\ FamilyTokens[r] = {}
    BY <2>2, <2>3 DEF FamilyState, FamilyTokens, FamilyInv, RowsWereMinted
  <2>7. FamilyState' = [FamilyState EXCEPT ![r] = "open"]
    BY <2>2, <2>3, <2>4, <2>5 DEF FamilyState
  <2>8. FamilyTokens' = [FamilyTokens EXCEPT ![r] = {n}]
    <3> DEFINE After(q) == {t \in Tokens : mint'[t] # None /\ mint'[t].req = q}
    <3>1. FamilyTokens' = [q \in Requests |-> After(q)]
      BY DEF FamilyTokens, Minted
    <3>2. \A q \in Requests, t \in Tokens :
            t \in After(q) <=> t \in FamilyTokens[q] \/ (q = r /\ t = n)
      BY <2>2, <2>4 DEF FamilyTokens, Minted
    <3>3. \A q \in Requests : FamilyTokens[q] \subseteq Tokens
      BY DEF FamilyTokens
    <3>4. \A q \in Requests : After(q) = IF q = r THEN {n} ELSE FamilyTokens[q]
      BY <3>2, <3>3, <2>6
    <3> HIDE DEF After
    <3> QED BY <3>1, <3>4, <2>2 DEF FamilyTokens
  <2> QED BY <2>2, <2>6, <2>7, <2>8 DEF Family!Next, Family!Exchange, Family!Move
<1>7. CASE \E p \in Procs, n \in Tokens : RotateRefreshToken(p, n)
  <2>1. PICK p \in Procs, n \in Tokens : RotateRefreshToken(p, n)
    BY <1>7
  <2> DEFINE r == proc[p].req
             s == proc[p].tok
  <2>2. r \in Requests /\ s \in Tokens
    BY <2>1 DEF RotateRefreshToken, TypeOK, ProcState, Idle
  <2>3. Minted(s) /\ mint[s].req = r /\ ~Minted(n)
    BY <2>1, <2>2 DEF RotateRefreshToken, FamilyInv, RequestsHoldOwnTokens,
                      Minted, Idle
  <2>4. Usable(s) /\ refresh[s].req = r /\ Exchanged(r)
    BY <2>1, <2>2, <2>3 DEF RotateRefreshToken, Usable, FamilyInv, RowsWereMinted
  <2>5. r \notin revoked
    BY <2>2, <2>4 DEF FamilyInv, RevokedFamilyStaysDead, TokensOf, Usable
  <2>6. /\ revoked' = revoked /\ grantedAt' = grantedAt
        /\ \A t \in Tokens : t # n => mint'[t] = mint[t]
        /\ mint'[n].req = r /\ mint'[n].from = s /\ mint'[n] # None
    BY <2>1, <2>2 DEF RotateRefreshToken, Mint, Minted, TypeOK, Time
  <2>7. \A q \in Requests : Exchanged(q)' <=> Exchanged(q)
    BY <2>2, <2>3, <2>6 DEF Exchanged, FromCode, Minted
  <2>8. FamilyState[r] = "open" /\ FamilyState' = FamilyState
    BY <2>2, <2>4, <2>5, <2>6, <2>7 DEF FamilyState
  <2>9. \A q \in Requests : n \notin FamilyTokens[q]
    BY <2>3 DEF FamilyTokens
  <2>10. FamilyTokens' = [FamilyTokens EXCEPT ![r] = @ \cup {n}]
    <3> DEFINE After(q) == {t \in Tokens : mint'[t] # None /\ mint'[t].req = q}
    <3>1. FamilyTokens' = [q \in Requests |-> After(q)]
      BY DEF FamilyTokens, Minted
    <3>2. \A q \in Requests, t \in Tokens :
            t \in After(q) <=> t \in FamilyTokens[q] \/ (q = r /\ t = n)
      BY <2>2, <2>3, <2>6 DEF FamilyTokens, Minted
    <3>3. \A q \in Requests : FamilyTokens[q] \subseteq Tokens
      BY DEF FamilyTokens
    <3>4. \A q \in Requests : After(q) = IF q = r THEN FamilyTokens[r] \cup {n} ELSE FamilyTokens[q]
      BY <3>2, <3>3
    <3> HIDE DEF After
    <3> QED BY <3>1, <3>4, <2>2 DEF FamilyTokens
  <2> QED BY <2>2, <2>8, <2>9, <2>10 DEF Family!Next, Family!Renew
<1>8. CASE \E p \in Procs : Abandon(p)
  BY <1>8, <1>0 DEF Abandon
<1>9. CASE \E o \in Users \X Clients : RevokeAuthorizedClient(o)
  <2>1. PICK o \in Users \X Clients : RevokeAuthorizedClient(o)
    BY <1>9
  <2> DEFINE started == {r \in Requests : Owner(r) = o /\ TokensOf(r) # {}}
  <2>2. started \in SUBSET Requests /\ \A r \in started : Exchanged(r)
    BY DEF TokensOf, FamilyInv, RowsWereMinted
  <2> QED BY <2>1, <2>2, RevocationCloses DEF RevokeAuthorizedClient
<1>10. CASE \E r \in Requests : EndSession(r)
  <2>1. PICK r \in Requests : EndSession(r)
    BY <1>10
  <2>2. {r} \in SUBSET Requests /\ Exchanged(r)
    BY <2>1 DEF EndSession, UsableFamilies, TokensOf, FamilyInv, RowsWereMinted
  <2> QED BY <2>1, <2>2, RevocationCloses DEF EndSession
<1>11. CASE (\E u \in Users : SetDisabled(u)) \/ Tick
            \/ CleanupExpiredOAuth2Sessions \/ UNCHANGED vars
  BY <1>11, <1>0 DEF SetDisabled, Tick, CleanupExpiredOAuth2Sessions, vars
<1> QED BY <1>1, <1>2, <1>3, <1>4, <1>5, <1>6, <1>7, <1>8, <1>9, <1>10,
           <1>11 DEF Next

(* The token endpoint, the revocations and the cleanup of Pocket ID        *)
(* implement the life of a token family that TokenFamily specifies.        *)
THEOREM TokenFamilyRefinement == Spec => ImplementsTokenFamily
<1>1. Init => Family!Init
  BY ConstantsAssumption
     DEF Init, Family!Init, FamilyState, FamilyTokens, Exchanged, FromCode, Minted
<1>2. TypeOK /\ FamilyInv /\ [Next]_vars => [Family!Next]_(Family!vars)
  BY FamilyRefinesStep
<1> QED BY <1>1, <1>2, FamilyInvariant, PTL DEF Spec, Family!Spec, ImplementsTokenFamily

-----------------------------------------------------------------------------
(* What rotations leave behind.                                            *)

(* A code has the expiry it was granted with and is not purged before.     *)
CodesLast ==
  \A r \in Requests : grantedAt[r] # None =>
    IF code[r] = None THEN now > grantedAt[r] + CodeLife
    ELSE code[r].exp = grantedAt[r] + CodeLife

(* A refresh row keeps its expiry, and has a rotation time, in the past,   *)
(* only when it is inactive.                                               *)
RefreshRowsLast ==
  \A s \in Tokens : refresh[s] # None =>
    /\ refresh[s].exp = mint[s].at + RefreshLife
    /\ refresh[s].active => refresh[s].rotatedAt = None
    /\ refresh[s].rotatedAt # None => refresh[s].rotatedAt <= now

(* The row a token was refreshed from: purged after its time, or inactive, *)
(* and if its grace period can still be used, the token came within it.    *)
SourceKept(t, s) ==
  IF refresh[s] = None THEN now > mint[s].at + RefreshLife
  ELSE /\ ~refresh[s].active
       /\ refresh[s].rotatedAt # None =>
            /\ refresh[s].rotatedAt <= mint[t].at
            /\ mint[t].at < refresh[s].rotatedAt + Grace

SourcesKept ==
  \A s, t \in Tokens : FromToken(t, s) => Minted(s) /\ SourceKept(t, s)

(* An inductive invariant, beside FamilyInv, for RotationLeavesTraces.     *)
TraceInv ==
  /\ CodesLast /\ RefreshRowsLast /\ SourcesKept
  /\ GraceNeverExtended /\ AccessFollowsRefresh

(* Of what is in the tables a step that neither grants nor mints only      *)
(* takes away: expired rows, access tokens, the use of refresh tokens of   *)
(* families it ends.                                                       *)
OnlyTakes ==
  /\ \A t \in Tokens :
       /\ access'[t] \in {access[t], None}
       /\ \/ refresh'[t] = refresh[t]
          \/ refresh'[t] = None /\ refresh[t] # None /\ now > refresh[t].exp
          \/ /\ refresh[t] # None /\ refresh[t].req \in revoked' /\ refresh'[t] # None
             /\ refresh'[t] = Deactivated(refresh[t], None)
  /\ \A r \in Requests :
       code'[r] = code[r] \/ (code'[r] = None /\ code[r] # None /\ now > code[r].exp)
  /\ revoked \subseteq revoked' /\ now' >= now
  /\ UNCHANGED <<mint, grantedAt>>

(* The rows after a revocation.                                            *)
LEMMA RevokedRows ==
  ASSUME TypeOK, NEW S, NEW t \in Tokens
  PROVE  /\ RevokedAccess(S)[t] \in {access[t], None}
         /\ RevokedRefresh(S)[t] =
              IF refresh[t] # None /\ refresh[t].req \in S
              THEN Deactivated(refresh[t], None) ELSE refresh[t]
         /\ refresh[t] # None => RevokedRefresh(S)[t] # None
<1>1. RevocationEffectOn(S)
  BY RevocationEffect
<1> QED BY <1>1 DEF RevokedAccess, RevokedRefresh, RevocationEffectOn

(* A revocation of families that the history marks only takes.             *)
LEMMA RevocationTakes ==
  ASSUME TypeOK, NEW S, S \subseteq revoked', revoked \subseteq revoked',
         access' \in {access, RevokedAccess(S)}, refresh' \in {refresh, RevokedRefresh(S)},
         UNCHANGED <<now, code, mint, grantedAt>>
  PROVE  OnlyTakes
<1>1. \A t \in Tokens : access'[t] \in {access[t], None}
  BY RevokedRows
<1>2. \A t \in Tokens :
        \/ refresh'[t] = refresh[t]
        \/ /\ refresh[t] # None /\ refresh[t].req \in revoked' /\ refresh'[t] # None
           /\ refresh'[t] = Deactivated(refresh[t], None)
  BY RevokedRows
<1> QED BY <1>1, <1>2 DEF OnlyTakes, TypeOK, Time

LEMMA CodeNotNone == None \notin CodeRow
  BY ConstantsAssumption DEF CodeRow, Time

LEMMA TracesStay ==
  ASSUME TypeOK, TypeOK', FamilyInv, TraceInv, OnlyTakes
  PROVE  TraceInv'
<1> USE ConstantsAssumption
<1>0. now \in Nat /\ now' \in Nat /\ now' >= now /\ mint' = mint /\ grantedAt' = grantedAt
  BY DEF TypeOK, Time, OnlyTakes
<1>1. CodesLast'
  <2> SUFFICES ASSUME NEW r \in Requests, grantedAt[r] # None
               PROVE  IF code'[r] = None THEN now' > grantedAt[r] + CodeLife
                      ELSE code'[r].exp = grantedAt[r] + CodeLife
    BY <1>0 DEF CodesLast
  <2>1. grantedAt[r] \in Nat
    BY DEF TypeOK, Time
  <2> QED BY <1>0, <2>1 DEF OnlyTakes, TraceInv, CodesLast
<1>2. RefreshRowsLast'
  <2> SUFFICES ASSUME NEW s \in Tokens, refresh'[s] # None
               PROVE  /\ refresh'[s].exp = mint[s].at + RefreshLife
                      /\ refresh'[s].active => refresh'[s].rotatedAt = None
                      /\ refresh'[s].rotatedAt # None => refresh'[s].rotatedAt <= now'
    BY <1>0 DEF RefreshRowsLast
  <2>1. CASE refresh'[s] = refresh[s]
    <3>1. refresh[s].rotatedAt # None => refresh[s].rotatedAt \in Nat
      BY <2>1 DEF TypeOK, RefreshRow, Time
    <3> QED BY <1>0, <2>1, <3>1 DEF TraceInv, RefreshRowsLast
  <2>2. CASE refresh[s] # None /\ refresh'[s] = Deactivated(refresh[s], None)
    <3>1. /\ refresh'[s].active = FALSE /\ refresh'[s].exp = refresh[s].exp
          /\ refresh'[s].rotatedAt = None
      BY <2>2 DEF Deactivated
    <3> QED BY <2>2, <3>1 DEF TraceInv, RefreshRowsLast
  <2> QED BY <2>1, <2>2 DEF OnlyTakes
<1>3. SourcesKept'
  <2> SUFFICES ASSUME NEW s \in Tokens, NEW t \in Tokens, FromToken(t, s)
               PROVE  Minted(s) /\ SourceKept(t, s)'
    BY <1>0 DEF SourcesKept, FromToken, Minted
  <2>1. Minted(s) /\ SourceKept(t, s) /\ mint[s].at \in Nat
    BY DEF TraceInv, SourcesKept, Minted, TypeOK, MintRecord, Time
  <2>2. CASE refresh'[s] = refresh[s]
    BY <1>0, <2>1, <2>2 DEF SourceKept
  <2>3. CASE refresh'[s] = None /\ refresh[s] # None /\ now > refresh[s].exp
    BY <1>0, <2>1, <2>3 DEF SourceKept, TraceInv, RefreshRowsLast
  <2>4. CASE refresh'[s] # None /\ refresh'[s] = Deactivated(refresh[s], None)
    <3>1. refresh'[s].active = FALSE /\ refresh'[s].rotatedAt = None
      BY <2>4 DEF Deactivated
    <3> QED BY <1>0, <2>1, <2>4, <3>1 DEF SourceKept
  <2> QED BY <2>1, <2>2, <2>3, <2>4 DEF OnlyTakes
<1>4. GraceNeverExtended'
  BY <1>0 DEF TraceInv, GraceNeverExtended, FromToken, Minted
<1>5. AccessFollowsRefresh'
  <2> SUFFICES ASSUME NEW t \in Tokens, access'[t] # None, refresh'[t] # None
               PROVE  refresh'[t].active \/ refresh'[t].req \in revoked'
    BY DEF AccessFollowsRefresh
  <2>1. access[t] # None /\ revoked \subseteq revoked'
    BY DEF OnlyTakes
  <2>2. CASE refresh'[t] = refresh[t]
    BY <2>1, <2>2 DEF TraceInv, AccessFollowsRefresh
  <2>3. CASE refresh[t].req \in revoked' /\ refresh'[t] = Deactivated(refresh[t], None)
    <3>1. refresh'[t].req = refresh[t].req
      BY <2>3 DEF Deactivated
    <3> QED BY <2>3, <3>1
  <2> QED BY <2>2, <2>3 DEF OnlyTakes
<1> QED BY <1>1, <1>2, <1>3, <1>4, <1>5 DEF TraceInv

(* TraceInv is preserved by every step of the token endpoint, of the       *)
(* revocations and of the cleanup job.                                     *)
LEMMA TraceStep ==
  ASSUME TypeOK, FamilyInv, TraceInv, [Next]_vars
  PROVE  TraceInv'
<1> USE ConstantsAssumption
<1>0. TypeOK'
  BY TypeStep
<1>1. CASE \E r \in Requests : Authorize(r)
  <2>1. PICK r \in Requests : Authorize(r)
    BY <1>1
  <2>2. /\ now' = now /\ mint' = mint /\ now \in Nat
        /\ UNCHANGED <<access, refresh, revoked>>
        /\ grantedAt' = [grantedAt EXCEPT ![r] = now]
        /\ code' = [code EXCEPT ![r] = [active |-> TRUE, exp |-> now + CodeLife]]
    BY <2>1 DEF Authorize, CreateAuthorizeCodeSession, TypeOK, Time
  <2>3. CodesLast'
    <3>1. code'[r].exp = now + CodeLife /\ grantedAt'[r] = now
      BY <2>2 DEF TypeOK
    <3>2. code'[r] # None
      <4>1. code'[r] = [active |-> TRUE, exp |-> now + CodeLife]
        BY <2>2 DEF TypeOK
      <4>2. now + CodeLife \in Time
        BY <2>2 DEF Time
      <4>3. [active |-> TRUE, exp |-> now + CodeLife] \in CodeRow
        BY <4>2 DEF CodeRow
      <4> QED BY <4>1, <4>3, CodeNotNone
    <3>3. \A q \in Requests : q # r => code'[q] = code[q] /\ grantedAt'[q] = grantedAt[q]
      BY <2>2 DEF TypeOK
    <3> QED BY <3>1, <3>2, <3>3, <2>2 DEF CodesLast, TraceInv
  <2>4. /\ RefreshRowsLast' /\ SourcesKept' /\ GraceNeverExtended' /\ AccessFollowsRefresh'
    BY <2>2 DEF TraceInv, RefreshRowsLast, SourcesKept, SourceKept, GraceNeverExtended,
                AccessFollowsRefresh, FromToken, Minted
  <2> QED BY <2>3, <2>4 DEF TraceInv
<1>2. CASE \E p \in Procs, n \in Tokens : RespondCode(p, n)
  <2>1. PICK p \in Procs, n \in Tokens : RespondCode(p, n)
    BY <1>2
  <2> DEFINE r == proc[p].req
             m == [req |-> r, from |-> None, at |-> now]
  <2>2. /\ r \in Requests /\ now \in Nat /\ now' = now /\ mint[n] = None
        /\ refresh[n] = None /\ access[n] = None
    BY <2>1 DEF RespondCode, FamilyInv, RowsWereMinted, Minted, TypeOK, ProcState, Idle, Time
  <2>3. /\ \A t \in Tokens : t # n => /\ access'[t] = access[t] /\ refresh'[t] = refresh[t]
                                      /\ mint'[t] = mint[t]
        /\ mint'[n].from = None /\ mint'[n].at = now
        /\ refresh'[n] \in {None, NewRefreshRow(r)}
        /\ UNCHANGED <<grantedAt, revoked>>
    BY <2>1, <2>2 DEF RespondCode, Mint, TypeOK
  <2>4. CodesLast'
    <3>1. code[r] # None /\ code' = [code EXCEPT ![r].active = FALSE] /\ grantedAt' = grantedAt
      BY <2>1 DEF RespondCode, InvalidateAuthorizeCodeSession
    <3>2. code[r] \in CodeRow
      BY <2>2, <3>1 DEF TypeOK
    <3>3. code'[r] = [code[r] EXCEPT !.active = FALSE]
      BY <2>2, <3>1 DEF TypeOK
    <3>4. code'[r] \in CodeRow /\ code'[r].exp = code[r].exp
      BY <3>2, <3>3 DEF CodeRow
    <3>5. code'[r] # None
      BY <3>4, CodeNotNone
    <3>6. \A q \in Requests : q # r => code'[q] = code[q]
      BY <3>1 DEF TypeOK
    <3> QED BY <2>2, <3>1, <3>4, <3>5, <3>6 DEF CodesLast, TraceInv
  <2>5. RefreshRowsLast'
    BY <2>2, <2>3 DEF RefreshRowsLast, TraceInv, NewRefreshRow
  <2>6. \A s, t \in Tokens : FromToken(t, s)' =>
          /\ FromToken(t, s) /\ t # n /\ s # n /\ Minted(s) /\ Minted(s)'
    BY <2>2, <2>3 DEF FromToken, Minted, TraceInv, SourcesKept
  <2>7. SourcesKept'
    BY <2>2, <2>3, <2>6 DEF SourcesKept, SourceKept, TraceInv
  <2>8. GraceNeverExtended'
    BY <2>3, <2>6 DEF GraceNeverExtended, TraceInv
  <2>9. AccessFollowsRefresh'
    BY <2>2, <2>3 DEF AccessFollowsRefresh, TraceInv, NewRefreshRow
  <2> QED BY <2>4, <2>5, <2>7, <2>8, <2>9 DEF TraceInv
<1>3. CASE \E p \in Procs, n \in Tokens : RotateRefreshToken(p, n)
  <2>1. PICK p \in Procs, n \in Tokens : RotateRefreshToken(p, n)
    BY <1>3
  <2>2. PICK o \in Tokens : o = proc[p].tok
    BY <2>1 DEF RotateRefreshToken, TypeOK, ProcState, Idle
  <2>3. /\ now \in Nat /\ now' = now /\ mint[n] = None /\ Minted(o) /\ o # n /\ o # None
        /\ refresh[n] = None /\ access[n] = None /\ refresh[o] # None /\ Usable(o)
        /\ refresh[o] \in RefreshRow /\ mint[o] \in MintRecord
    BY <2>1, <2>2 DEF RotateRefreshToken, FamilyInv, RowsWereMinted, RequestsHoldOwnTokens,
                      Minted, TypeOK, ProcState, Idle, Time, Usable
  <2>4. /\ \A t \in Tokens : t \notin {n, o} =>
             access'[t] = access[t] /\ refresh'[t] = refresh[t]
        /\ \A t \in Tokens : t # n => mint'[t] = mint[t]
        /\ access'[o] = None /\ refresh'[o] = Rotated(o)
        /\ refresh'[n] = NewRefreshRow(proc[p].req)
        /\ mint'[n].from = o /\ mint'[n].at = now
        /\ UNCHANGED <<code, grantedAt, revoked>>
    BY <2>1, <2>2, <2>3 DEF RotateRefreshToken, Mint, AccessAfterRotation, TypeOK
  <2>5. /\ refresh'[o] # None /\ ~refresh'[o].active /\ refresh'[o].exp = refresh[o].exp
        /\ refresh'[o].rotatedAt = IF refresh[o].rotatedAt = None THEN now
                                   ELSE refresh[o].rotatedAt
    <3>1. Rotated(o) \in RefreshRow
      BY <2>3, RotatedType
    <3>2. Rotated(o) # None
      BY <3>1 DEF RefreshRow, Time
    <3> QED BY <3>2, <2>4 DEF Rotated, Deactivated
  <2>6. CodesLast'
    BY <2>3, <2>4 DEF CodesLast, TraceInv
  <2>7. RefreshRowsLast'
    BY <2>3, <2>4, <2>5 DEF RefreshRowsLast, TraceInv, NewRefreshRow
  <2>8. \A s, t \in Tokens : FromToken(t, s)' => \/ t = n /\ s = o
                                                 \/ t # n /\ s # n /\ FromToken(t, s)
    BY <2>3, <2>4 DEF FromToken, Minted, TraceInv, SourcesKept
  <2>9. \A t \in Tokens : FromToken(t, o) =>
          /\ mint[t].at \in Nat /\ refresh[o].rotatedAt \in Nat
          /\ refresh[o].rotatedAt <= mint[t].at
          /\ mint[t].at < refresh[o].rotatedAt + Grace
    BY <2>3 DEF TraceInv, SourcesKept, SourceKept, Usable, InGrace, RefreshRow, Time,
                FromToken, Minted, TypeOK, MintRecord
  <2>10. refresh[o].rotatedAt # None =>
           /\ refresh[o].rotatedAt \in Nat /\ refresh[o].rotatedAt <= now
           /\ now < refresh[o].rotatedAt + Grace
    <3> HAVE refresh[o].rotatedAt # None
    <3>1. ~refresh[o].active
      BY <2>3 DEF TraceInv, RefreshRowsLast
    <3>2. now < refresh[o].rotatedAt + Grace
      BY <2>3, <3>1 DEF Usable, InGrace
    <3>3. refresh[o].rotatedAt \in Nat
      BY <2>3 DEF RefreshRow, Time
    <3> QED BY <3>2, <3>3, <2>3 DEF TraceInv, RefreshRowsLast
  <2>11. SourcesKept'
    <3> SUFFICES ASSUME NEW s \in Tokens, NEW t \in Tokens, FromToken(t, s)'
                 PROVE  Minted(s)' /\ SourceKept(t, s)'
      BY DEF SourcesKept
    <3>1. CASE t = n /\ s = o
      BY <3>1, <2>3, <2>4, <2>5, <2>10 DEF SourceKept, Minted
    <3>2. CASE t # n /\ s # n /\ s # o /\ FromToken(t, s)
      BY <3>2, <2>3, <2>4 DEF SourceKept, SourcesKept, TraceInv, Minted
    <3>3. CASE t # n /\ s = o /\ FromToken(t, s)
      BY <3>3, <2>3, <2>4, <2>5, <2>9 DEF SourceKept, Minted
    <3> QED BY <3>1, <3>2, <3>3, <2>3, <2>8
  <2>12. GraceNeverExtended'
    <3> SUFFICES ASSUME NEW s \in Tokens, NEW t1 \in Tokens, NEW t2 \in Tokens,
                        FromToken(t1, s)', FromToken(t2, s)'
                 PROVE  mint'[t2].at < mint'[t1].at + Grace
      BY DEF GraceNeverExtended
    <3>1. CASE t1 # n /\ t2 # n
      BY <3>1, <2>4, <2>8 DEF GraceNeverExtended, TraceInv
    <3>2. CASE t1 = n /\ t2 = n
      BY <3>2, <2>3, <2>4
    <3>3. CASE t1 = n /\ t2 # n
      BY <3>3, <2>3, <2>4, <2>8, <2>9, <2>10
    <3>4. CASE t1 # n /\ t2 = n
      BY <3>4, <2>3, <2>4, <2>8, <2>9, <2>10
    <3> QED BY <3>1, <3>2, <3>3, <3>4
  <2>13. AccessFollowsRefresh'
    BY <2>3, <2>4 DEF AccessFollowsRefresh, TraceInv, NewRefreshRow
  <2> QED BY <2>6, <2>7, <2>11, <2>12, <2>13 DEF TraceInv
<1>4. CASE \E p \in Procs, r \in Requests : PresentCode(p, r)
  <2>1. PICK p \in Procs, r \in Requests : PresentCode(p, r)
    BY <1>4
  <2>2. access' \in {access, RevokedAccess({r})}
        /\ UNCHANGED <<now, code, refresh, mint, grantedAt, revoked>>
    BY <2>1 DEF PresentCode
  <2>3. \A t \in Tokens : access'[t] \in {access[t], None}
    BY <2>2, RevokedRows
  <2>4. OnlyTakes
    BY <2>2, <2>3 DEF OnlyTakes, TypeOK, Time
  <2> QED BY <2>4, <1>0, TracesStay
<1>5. CASE \E p \in Procs : RevokeReusedCode(p)
  <2>1. PICK p \in Procs : RevokeReusedCode(p)
    BY <1>5
  <2>2. OnlyTakes
    BY <2>1, RevocationTakes DEF RevokeReusedCode
  <2> QED BY <2>2, <1>0, TracesStay
<1>6. CASE \E p \in Procs, t \in Tokens : PresentRefreshToken(p, t)
  <2>1. PICK p \in Procs, t \in Tokens : PresentRefreshToken(p, t)
    BY <1>6
  <2>2. CASE UNCHANGED <<access, refresh, revoked>>
    BY <2>1, <2>2, <1>0, RevocationTakes, TracesStay DEF PresentRefreshToken
  <2>3. CASE RevokeFamilies({refresh[t].req}) /\ revoked' = revoked \cup {refresh[t].req}
    <3>1. OnlyTakes
      BY <2>1, <2>3, RevocationTakes DEF PresentRefreshToken, RevokeFamilies
    <3> QED BY <3>1, <1>0, TracesStay
  <2> QED BY <2>1, <2>2, <2>3 DEF PresentRefreshToken
<1>7. CASE \E o \in Users \X Clients : RevokeAuthorizedClient(o)
  <2>1. PICK o \in Users \X Clients : RevokeAuthorizedClient(o)
    BY <1>7
  <2>2. {r \in UsableFamilies : Owner(r) = o} \subseteq revoked'
    BY <2>1 DEF RevokeAuthorizedClient, UsableFamilies
  <2>3. OnlyTakes
    BY <2>1, <2>2, RevocationTakes DEF RevokeAuthorizedClient, RevokeFamilies
  <2> QED BY <2>3, <1>0, TracesStay
<1>8. CASE \E r \in Requests : EndSession(r)
  <2>1. PICK r \in Requests : EndSession(r)
    BY <1>8
  <2>2. OnlyTakes
    BY <2>1, RevocationTakes DEF EndSession, RevokeFamilies
  <2> QED BY <2>2, <1>0, TracesStay
<1>9. CASE CleanupExpiredOAuth2Sessions
  <2>1. /\ \A t \in Tokens : access'[t] \in {access[t], None}
        /\ \A t \in Tokens :
             \/ refresh'[t] = refresh[t]
             \/ refresh'[t] = None /\ refresh[t] # None /\ now > refresh[t].exp
        /\ \A r \in Requests :
             code'[r] = code[r] \/ (code'[r] = None /\ code[r] # None /\ now > code[r].exp)
    BY <1>9 DEF CleanupExpiredOAuth2Sessions, Purged, Live, TypeOK, Time, CodeRow,
                AccessRow, RefreshRow
  <2>2. OnlyTakes
    BY <1>9, <2>1 DEF CleanupExpiredOAuth2Sessions, OnlyTakes, TypeOK, Time
  <2> QED BY <2>2, <1>0, TracesStay
<1>10. CASE \/ \E p \in Procs : ValidateUserAccess(p) \/ Abandon(p)
            \/ \E u \in Users : SetDisabled(u)
            \/ Tick \/ UNCHANGED vars
  <2>1. OnlyTakes
    BY <1>10 DEF ValidateUserAccess, Abandon, SetDisabled, Tick, vars, rows, OnlyTakes,
                 TypeOK, Time
  <2> QED BY <2>1, <1>0, TracesStay
<1> QED BY <1>1, <1>2, <1>3, <1>4, <1>5, <1>6, <1>7, <1>8, <1>9, <1>10 DEF Next

(* However retries, reuses, revocations and the cleanup interleave: the    *)
(* grace period of a refresh token starts once, its access token goes when *)
(* it is rotated, and what was redeemed is still there to be recognised    *)
(* until its own expiry (RotateRefreshToken, cleanupExpiredOAuth2Sessions).*)
THEOREM RotationsAreTraced == Spec => []RotationLeavesTraces
<1>1. Init => TraceInv
  BY ConstantsAssumption
     DEF Init, TraceInv, CodesLast, RefreshRowsLast, SourcesKept, GraceNeverExtended,
         AccessFollowsRefresh, FromToken, Minted
<1>2. TypeOK /\ FamilyInv /\ TraceInv /\ [Next]_vars => TraceInv'
  BY TraceStep
<1>3. TypeOK /\ FamilyInv /\ TraceInv => RotationLeavesTraces
  <2> SUFFICES ASSUME TypeOK, FamilyInv, TraceInv PROVE ReuseIsDetectable
    BY DEF RotationLeavesTraces, TraceInv
  <2> SUFFICES ASSUME NEW t \in Tokens, Minted(t)
               PROVE  IF mint[t].from = None
                      THEN now <= grantedAt[mint[t].req] + CodeLife
                             => code[mint[t].req] # None /\ ~code[mint[t].req].active
                      ELSE now <= mint[mint[t].from].at + RefreshLife
                             => refresh[mint[t].from] # None /\ ~refresh[mint[t].from].active
    BY DEF ReuseIsDetectable
  <2>1. mint[t] \in MintRecord /\ now \in Nat
    BY DEF Minted, TypeOK, Time
  <2>2. CASE mint[t].from = None
    <3>1. mint[t].req \in Requests /\ Exchanged(mint[t].req)
      BY <2>1, <2>2 DEF Exchanged, FromCode, MintRecord
    <3>2. grantedAt[mint[t].req] # None /\ grantedAt[mint[t].req] \in Nat
      BY <3>1 DEF FamilyInv, CodesTellExchanges, TypeOK, Time
    <3> QED BY <2>1, <2>2, <3>1, <3>2, ConstantsAssumption
            DEF FamilyInv, CodesTellExchanges, TraceInv, CodesLast
  <2>3. CASE mint[t].from # None
    <3>1. mint[t].from \in Tokens /\ FromToken(t, mint[t].from)
      BY <2>1, <2>3 DEF FromToken, MintRecord
    <3>2. Minted(mint[t].from) /\ SourceKept(t, mint[t].from)
      BY <3>1 DEF TraceInv, SourcesKept
    <3>3. mint[mint[t].from].at \in Nat
      BY <3>1, <3>2 DEF Minted, TypeOK, MintRecord, Time
    <3> QED BY <2>1, <2>3, <3>2, <3>3, ConstantsAssumption DEF SourceKept
  <2> QED BY <2>2, <2>3
<1> QED BY <1>1, <1>2, <1>3, FamilyInvariant, PTL DEF Spec
-----------------------------------------------------------------------------
(* Disabled users.                                                         *)

(* Past the check of ValidateUserAccess a request goes on as it was or for *)
(* a user who is enabled.                                                  *)
CheckedProcs ==
  \A q \in Procs : proc'[q].pc = "respond" =>
    \/ proc'[q] = proc[q]
    \/ proc'[q].req = proc[q].req /\ UserOf[proc[q].req] \notin disabled

LEMMA OnlyEnabledPassTheCheck ==
  ASSUME TypeOK, [Next]_vars
  PROVE  CheckedProcs
<1>0. ASSUME UNCHANGED proc
      PROVE  CheckedProcs
  BY <1>0 DEF CheckedProcs
<1>1. ASSUME NEW p \in Procs, proc'[p].pc # "respond",
             \A q \in Procs : q # p => proc'[q] = proc[q]
      PROVE  CheckedProcs
  BY <1>1 DEF CheckedProcs
<1>2. CASE \E p \in Procs, r \in Requests : PresentCode(p, r)
  <2>1. PICK p \in Procs, r \in Requests : PresentCode(p, r)
    BY <1>2
  <2>2. \E pc \in {"validate", "revoke"} :
          proc' = [proc EXCEPT ![p] = [pc |-> pc, req |-> r, tok |-> None]]
    BY <2>1 DEF PresentCode
  <2>3. proc'[p].pc # "respond" /\ \A q \in Procs : q # p => proc'[q] = proc[q]
    BY <2>2 DEF TypeOK
  <2> QED BY <2>3, <1>1
<1>3. CASE \E p \in Procs : proc' = [proc EXCEPT ![p] = Idle]
  <2>1. PICK p \in Procs : proc' = [proc EXCEPT ![p] = Idle]
    BY <1>3
  <2>2. proc'[p].pc # "respond" /\ \A q \in Procs : q # p => proc'[q] = proc[q]
    BY <2>1 DEF TypeOK, Idle
  <2> QED BY <2>2, <1>1
<1>4. CASE \E p \in Procs : \/ RevokeReusedCode(p) \/ Abandon(p)
                           \/ \E n \in Tokens : RespondCode(p, n) \/ RotateRefreshToken(p, n)
  BY <1>3, <1>4 DEF RevokeReusedCode, Abandon, RespondCode, RotateRefreshToken
<1>5. CASE \E p \in Procs, t \in Tokens : PresentRefreshToken(p, t)
  <2>1. PICK p \in Procs, t \in Tokens : PresentRefreshToken(p, t)
    BY <1>5
  <2>2. CASE UNCHANGED proc
    BY <2>2, <1>0
  <2>3. CASE proc' = [proc EXCEPT ![p] = [pc |-> "validate", req |-> refresh[t].req, tok |-> t]]
    <3>1. proc'[p].pc # "respond" /\ \A q \in Procs : q # p => proc'[q] = proc[q]
      BY <2>3 DEF TypeOK
    <3> QED BY <3>1, <1>1
  <2> QED BY <2>1, <2>2, <2>3 DEF PresentRefreshToken
<1>6. CASE \E p \in Procs : ValidateUserAccess(p)
  <2>1. PICK p \in Procs : ValidateUserAccess(p)
    BY <1>6
  <2>2. CASE UserOf[proc[p].req] \in disabled
    BY <2>1, <2>2, <1>3 DEF ValidateUserAccess
  <2>3. CASE UserOf[proc[p].req] \notin disabled
    <3>1. proc' = [proc EXCEPT ![p] = [proc[p] EXCEPT !.pc = "respond"]]
      BY <2>1, <2>3 DEF ValidateUserAccess
    <3>2. proc'[p].req = proc[p].req
      BY <3>1 DEF TypeOK, ProcState, Idle
    <3> QED BY <2>3, <3>1, <3>2 DEF CheckedProcs, TypeOK
  <2> QED BY <2>2, <2>3
<1>7. CASE \/ \E r \in Requests : Authorize(r) \/ EndSession(r)
           \/ \E o \in Users \X Clients : RevokeAuthorizedClient(o)
           \/ \E u \in Users : SetDisabled(u)
           \/ Tick \/ CleanupExpiredOAuth2Sessions \/ UNCHANGED vars
  BY <1>7, <1>0 DEF Authorize, EndSession, RevokeAuthorizedClient, SetDisabled, Tick,
                    CleanupExpiredOAuth2Sessions, vars
<1> QED BY <1>2, <1>4, <1>5, <1>6, <1>7 DEF Next

(* Tokens are minted for the user of a request past the check.             *)
LEMMA MintedForCheckedUser ==
  ASSUME TypeOK, [Next]_vars, NEW t \in Tokens, mint'[t] # mint[t]
  PROVE  \E p \in Procs : proc[p].pc = "respond" /\ mint'[t].req = proc[p].req
<1>1. CASE \E p \in Procs, n \in Tokens : RespondCode(p, n) \/ RotateRefreshToken(p, n)
  <2>1. PICK p \in Procs, n \in Tokens : RespondCode(p, n) \/ RotateRefreshToken(p, n)
    BY <1>1
  <2>2. PICK from : Mint(n, proc[p].req, from)
    BY <2>1 DEF RespondCode, RotateRefreshToken
  <2>3. t = n /\ mint'[t].req = proc[p].req
    BY <2>2 DEF Mint, TypeOK
  <2>4. proc[p].pc = "respond"
    BY <2>1 DEF RespondCode, RotateRefreshToken
  <2> QED BY <2>3, <2>4
<1>2. mint' = mint \/ \E p \in Procs, n \in Tokens : RespondCode(p, n) \/ RotateRefreshToken(p, n)
  BY DEF Next, vars, Authorize, PresentCode, RevokeReusedCode, PresentRefreshToken,
         ValidateUserAccess, Abandon, RevokeAuthorizedClient, EndSession, SetDisabled,
         CleanupExpiredOAuth2Sessions, Tick
<1> QED BY <1>1, <1>2

(* When no request of a disabled user is past the check of the token       *)
(* endpoint, no token is minted for the user, and none comes past it.      *)
THEOREM DisabledUsersRunDry == Spec => DisabledUserRunsDry
<1>1. ASSUME TypeOK, [Next]_vars
      PROVE  [\A u \in Users : Quiet(u) /\ u \in disabled' =>
                /\ Quiet(u)'
                /\ \A t \in Tokens : mint'[t] # mint[t] => UserOf[mint'[t].req] # u]_vars
  <2> SUFFICES ASSUME NEW u \in Users, Quiet(u), u \in disabled'
               PROVE  /\ Quiet(u)'
                      /\ \A t \in Tokens : mint'[t] # mint[t] => UserOf[mint'[t].req] # u
    OBVIOUS
  <2>1. Quiet(u)'
    BY <1>1, OnlyEnabledPassTheCheck DEF CheckedProcs, Quiet
  <2>2. ASSUME NEW t \in Tokens, mint'[t] # mint[t]
        PROVE  UserOf[mint'[t].req] # u
    BY <1>1, <2>2, MintedForCheckedUser DEF Quiet
  <2> QED BY <2>1, <2>2
<1> QED BY <1>1, TypeCorrect, PTL DEF Spec, DisabledUserRunsDry
=============================================================================
