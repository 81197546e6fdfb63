-------------------------- MODULE CredentialsProofs --------------------------
(***************************************************************************)
(* Proofs about login codes, passkeys, API keys, signups and the           *)
(* verification of an email address, for any number of codes, users,       *)
(* browsers, ceremonies, renewals, signups, links and requests at once,    *)
(* and any lifetimes and limits.                                           *)
(***************************************************************************)
EXTENDS Credentials, EmailVerification, FiniteSetTheorems, TLAPS

(* The state an exchange holds is the one the token was issued with, for   *)
(* this browser, and the token has not been used.                          *)
HeldAsIssued ==
  \A p \in Procs : proc[p] # Idle =>
    LET q == proc[p] IN
    /\ issued[q.token] # None /\ q.state = issued[q.token]
    /\ issued[q.token].browser \in {None, q.browser}
    /\ logins[q.token] = {}

(* So is the state in the store.                                           *)
StoredAsIssued ==
  \A t \in Tokens : store[t] # None =>
    issued[t] # None /\ store[t] = issued[t] /\ logins[t] = {}

SingleLogin ==
  \A t \in Tokens : /\ \A l, m \in logins[t] : l = m
                    /\ issued[t] = None => logins[t] = {}

(* The token is in one place, said without the set of its holders.         *)
OnePlace ==
  \A p \in Procs : proc[p] # Idle =>
    /\ store[proc[p].token] = None
    /\ \A q \in Procs : proc[q] # Idle /\ proc[q].token = proc[p].token => p = q

(* A login is the issued user's, in a browser the token allows.            *)
BoundToBrowser ==
  \A t \in Tokens : \A l \in logins[t] :
    issued[t].browser \in {None, l[3]} /\ issued[t].user = l[2]

(* An inductive invariant that implies the properties of OneTimeAccess.    *)
AccessInv ==
  /\ TypeOK
  /\ HeldAsIssued
  /\ StoredAsIssued
  /\ SingleLogin
  /\ OnePlace
  /\ BoundToBrowser
  /\ FailureKeepsToken

(* An exchange that has taken a token holds a state of the right shape.    *)
LEMMA ExchangeInFlight ==
  ASSUME TypeOK, NEW p \in Procs, proc[p] # Idle
  PROVE  /\ proc[p] \in Exchange
         /\ proc[p].token \in Tokens /\ proc[p].state \in TokenState
         /\ proc[p].browser \in {None} \cup Browsers
  BY DEF TypeOK, Exchange

(* The steps that touch neither the tokens nor the exchanges.              *)
LEMMA NothingMoves ==
  ASSUME AccessInv, UNCHANGED <<store, issued, proc, logins, forgotten>>,
         now' >= now, now' \in 0 .. MaxTime,
         disabled' \subseteq Users, deleted' \subseteq Users
  PROVE  AccessInv'
<1> USE TokenAssumption DEF AccessInv
<1>1. TypeOK'
  BY DEF TypeOK
<1>2. HeldAsIssued' /\ StoredAsIssued' /\ SingleLogin' /\ OnePlace' /\ BoundToBrowser'
  BY DEF HeldAsIssued, StoredAsIssued, SingleLogin, OnePlace, BoundToBrowser
<1>3. FailureKeepsToken'
  <2> SUFFICES ASSUME NEW t \in Tokens, issued[t] # None, issued[t].expiresAt > now',
                      logins[t] = {}, Holders(t)' = {}, t \notin forgotten
               PROVE  store[t] # None
    BY DEF FailureKeepsToken
  <2>1. Holders(t) = {}
    BY DEF Holders
  <2>2. issued[t].expiresAt > now
    BY DEF TypeOK, TokenState
  <2> QED BY <2>1, <2>2 DEF FailureKeepsToken
<1> QED BY <1>1, <1>2, <1>3

(* AccessInv is preserved by every step of the exchange, the compensation, *)
(* the crashes and the passing of time.                                    *)
LEMMA AccessStep ==
  ASSUME AccessInv, [Next]_vars
  PROVE  AccessInv'
<1> USE TokenAssumption DEF AccessInv
<1>1. CASE \E t \in Tokens, u \in Users, b \in {None} \cup Browsers, ttl \in Lifetimes :
             StoreToken(t, u, b, ttl)
  <2>1. PICK t \in Tokens, u \in Users, b \in {None} \cup Browsers, ttl \in Lifetimes :
               StoreToken(t, u, b, ttl)
    BY <1>1
  <2> DEFINE s == [user |-> u, browser |-> b, expiresAt |-> now + ttl]
  <2>2. s \in TokenState /\ s # None
    BY DEF TypeOK, TokenState
  <2>3. /\ issued[t] = None /\ logins[t] = {}
        /\ issued' = [issued EXCEPT ![t] = s] /\ store' = [store EXCEPT ![t] = s]
        /\ UNCHANGED <<disabled, deleted, proc, now, logins, forgotten>>
    BY <2>1 DEF StoreToken, SingleLogin, TypeOK
  <2> HIDE DEF s
  <2>4. TypeOK'
    BY <2>2, <2>3 DEF TypeOK
  <2>5. \A p \in Procs : proc[p] # Idle => proc[p].token # t
    BY <2>3 DEF HeldAsIssued
  <2>6. HeldAsIssued' /\ OnePlace'
    BY <2>3, <2>5, ExchangeInFlight DEF HeldAsIssued, OnePlace, TypeOK
  <2>7. StoredAsIssued' /\ SingleLogin' /\ BoundToBrowser'
    BY <2>2, <2>3 DEF StoredAsIssued, SingleLogin, BoundToBrowser, TypeOK
  <2>8. FailureKeepsToken'
    BY <2>2, <2>3 DEF FailureKeepsToken, Holders, TypeOK
  <2> QED BY <2>4, <2>6, <2>7, <2>8
<1>2. CASE \E p \in Procs, t \in Tokens, b \in {None} \cup Browsers : Consume(p, t, b)
  <2>1. PICK p \in Procs, t \in Tokens, b \in {None} \cup Browsers : Consume(p, t, b)
    BY <1>2
  <2> DEFINE q == [pc |-> "consumed", token |-> t, browser |-> b, state |-> store[t]]
  <2>2. /\ store[t] # None /\ store[t] \in TokenState
        /\ store[t] = issued[t] /\ logins[t] = {} /\ issued[t].browser \in {None, b}
        /\ issued[t] # None
        /\ proc[p] = Idle
    BY <2>1 DEF Consume, TypeOK, StoredAsIssued
  <2>3. /\ q \in Exchange /\ q # Idle
        /\ q.token = t /\ q.state = store[t] /\ q.browser = b
    BY <2>2 DEF Exchange, Idle
  <2>4. /\ proc' = [proc EXCEPT ![p] = q] /\ store' = [store EXCEPT ![t] = None]
        /\ UNCHANGED <<issued, disabled, deleted, now, logins, forgotten>>
    BY <2>1 DEF Consume
  <2> HIDE DEF q
  <2>5. TypeOK'
    BY <2>3, <2>4 DEF TypeOK
  <2>6. HeldAsIssued'
    BY <2>2, <2>3, <2>4 DEF HeldAsIssued, TypeOK
  <2>7. StoredAsIssued' /\ SingleLogin' /\ BoundToBrowser'
    BY <2>4 DEF StoredAsIssued, SingleLogin, BoundToBrowser, TypeOK
  <2>8. OnePlace'
    BY <2>2, <2>3, <2>4, ExchangeInFlight DEF OnePlace, TypeOK
  <2>9. FailureKeepsToken'
    <3> SUFFICES ASSUME NEW x \in Tokens, issued[x] # None, issued[x].expiresAt > now,
                        logins[x] = {}, Holders(x)' = {}, x \notin forgotten
                 PROVE  store'[x] # None
      BY <2>4 DEF FailureKeepsToken
    <3>1. x # t
      BY <2>3, <2>4 DEF Holders, TypeOK
    <3>2. Holders(x) = {}
      BY <2>2, <2>4 DEF Holders, TypeOK
    <3> QED BY <3>1, <3>2, <2>4 DEF FailureKeepsToken, TypeOK
  <2> QED BY <2>5, <2>6, <2>7, <2>8, <2>9
<1>3. CASE \E p \in Procs : SignIn(p)
  <2>1. PICK p \in Procs : SignIn(p)
    BY <1>3
  <2> DEFINE q == proc[p]
             t == proc[p].token
             l == <<1, q.state.user, q.browser, now>>
  <2>2. q # Idle
    BY <2>1 DEF SignIn, Idle
  <2>3. /\ t \in Tokens /\ q.state \in TokenState /\ q.browser \in {None} \cup Browsers
        /\ q.state = issued[t] /\ issued[t] # None /\ logins[t] = {}
        /\ issued[t].browser \in {None, q.browser} /\ store[t] = None
    BY <2>2, ExchangeInFlight DEF HeldAsIssued, OnePlace
  <2>4. Cardinality({}) + 1 = 1
    BY FS_EmptySet
  <2>5. /\ logins' = [logins EXCEPT ![t] = {l}] /\ proc' = [proc EXCEPT ![p] = Idle]
        /\ UNCHANGED <<store, issued, disabled, deleted, now, forgotten>>
    BY <2>1, <2>3, <2>4 DEF SignIn, TypeOK
  <2>6. l \in Nat \X Users \X ({None} \cup Browsers) \X Nat
    BY <2>3 DEF TypeOK, TokenState
  <2>7. issued[t].browser \in {None, l[3]} /\ issued[t].user = l[2]
    BY <2>3
  <2> HIDE DEF l
  <2>8. TypeOK'
    BY <2>5, <2>6 DEF TypeOK
  <2>9. \A x \in Procs : proc'[x] # Idle => /\ proc'[x] = proc[x] /\ proc[x].token # t
    BY <2>2, <2>5 DEF OnePlace, TypeOK
  <2>10. HeldAsIssued' /\ OnePlace'
    BY <2>3, <2>5, <2>9 DEF HeldAsIssued, OnePlace, TypeOK
  <2>11. StoredAsIssued' /\ SingleLogin'
    BY <2>3, <2>5 DEF StoredAsIssued, SingleLogin, TypeOK
  <2>12. BoundToBrowser'
    BY <2>3, <2>5, <2>7 DEF BoundToBrowser, TypeOK
  <2>13. FailureKeepsToken'
    <3> SUFFICES ASSUME NEW x \in Tokens, issued[x] # None, issued[x].expiresAt > now,
                        logins'[x] = {}, Holders(x)' = {}, x \notin forgotten
                 PROVE  store[x] # None
      BY <2>5 DEF FailureKeepsToken
    <3>1. x # t /\ logins[x] = {}
      BY <2>3, <2>5 DEF TypeOK
    <3>2. Holders(x) = {}
      BY <3>1, <2>5, <2>3 DEF Holders, TypeOK
    <3> QED BY <3>1, <3>2 DEF FailureKeepsToken
  <2> QED BY <2>8, <2>10, <2>11, <2>12, <2>13
<1>4. CASE \E p \in Procs : FailExchange(p)
  <2>1. PICK p \in Procs : FailExchange(p)
    BY <1>4
  <2>2. /\ proc[p] # Idle /\ proc[p] \in Exchange
        /\ proc' = [proc EXCEPT ![p] = [proc[p] EXCEPT !.pc = "failed"]]
        /\ UNCHANGED <<store, issued, disabled, deleted, now, logins, forgotten>>
    BY <2>1, ExchangeInFlight DEF FailExchange, Idle
  <2>3. /\ proc'[p] \in Exchange /\ proc'[p] # Idle
        /\ proc'[p].token = proc[p].token /\ proc'[p].state = proc[p].state
        /\ proc'[p].browser = proc[p].browser
    BY <2>2 DEF Exchange, Idle, TypeOK
  <2>4. \A x \in Procs : x # p => proc'[x] = proc[x]
    BY <2>2 DEF TypeOK
  <2>5. TypeOK'
    BY <2>2, <2>3 DEF TypeOK
  <2>6. HeldAsIssued' /\ OnePlace'
    <3>1. HeldAsIssued'
      BY <2>2, <2>3, <2>4 DEF HeldAsIssued
    <3>2. \A x \in Procs : /\ proc'[x] # Idle <=> proc[x] # Idle
                           /\ proc'[x].token = proc[x].token
      BY <2>2, <2>3, <2>4
    <3>3. OnePlace'
      BY <2>2, <3>2 DEF OnePlace
    <3> QED BY <3>1, <3>3
  <2>7. StoredAsIssued' /\ SingleLogin' /\ BoundToBrowser'
    BY <2>2 DEF StoredAsIssued, SingleLogin, BoundToBrowser
  <2>8. \A t \in Tokens : Holders(t)' = Holders(t)
    BY <2>2, <2>3, <2>4 DEF Holders
  <2>9. FailureKeepsToken'
    BY <2>2, <2>8 DEF FailureKeepsToken
  <2> QED BY <2>5, <2>6, <2>7, <2>9
<1>5. CASE \E p \in Procs : RestoreToken(p)
  <2>1. PICK p \in Procs : RestoreToken(p)
    BY <1>5
  <2> DEFINE q == proc[p]
             t == proc[p].token
  <2>2. q # Idle
    BY <2>1 DEF RestoreToken, Idle
  <2>3. /\ t \in Tokens /\ q.state \in TokenState
        /\ q.state = issued[t] /\ issued[t] # None /\ logins[t] = {} /\ store[t] = None
    BY <2>2, ExchangeInFlight DEF HeldAsIssued, OnePlace
  <2>4. /\ store' = [store EXCEPT ![t] = IF issued[t].expiresAt > now THEN issued[t] ELSE None]
        /\ proc' = [proc EXCEPT ![p] = Idle]
        /\ UNCHANGED <<issued, disabled, deleted, now, logins, forgotten>>
    BY <2>1, <2>3 DEF RestoreToken, Restored, TypeOK
  <2>5. TypeOK'
    BY <2>3, <2>4 DEF TypeOK
  <2>6. \A x \in Procs : proc'[x] # Idle => /\ proc'[x] = proc[x] /\ proc[x].token # t
    BY <2>2, <2>4 DEF OnePlace, TypeOK
  <2>7. HeldAsIssued' /\ OnePlace'
    BY <2>3, <2>4, <2>6 DEF HeldAsIssued, OnePlace, TypeOK
  <2>8. StoredAsIssued' /\ SingleLogin' /\ BoundToBrowser'
    BY <2>3, <2>4 DEF StoredAsIssued, SingleLogin, BoundToBrowser, TypeOK
  <2>9. FailureKeepsToken'
    <3> SUFFICES ASSUME NEW x \in Tokens, issued[x] # None, issued[x].expiresAt > now,
                        logins[x] = {}, Holders(x)' = {}, x \notin forgotten
                 PROVE  store'[x] # None
      BY <2>4 DEF FailureKeepsToken
    <3>1. CASE x = t
      BY <3>1, <2>3, <2>4 DEF TypeOK
    <3>2. CASE x # t
      <4>1. Holders(x) = {}
        BY <3>2, <2>4 DEF Holders, TypeOK
      <4> QED BY <4>1, <3>2, <2>4 DEF FailureKeepsToken, TypeOK
    <3> QED BY <3>1, <3>2
  <2> QED BY <2>5, <2>7, <2>8, <2>9
<1>6. CASE \E p \in Procs : Crash(p)
  <2>1. PICK p \in Procs : Crash(p)
    BY <1>6
  <2>2. /\ proc[p] # Idle /\ proc[p].token \in Tokens
        /\ proc' = [proc EXCEPT ![p] = Idle] /\ forgotten' = forgotten \cup {proc[p].token}
        /\ UNCHANGED <<store, issued, disabled, deleted, now, logins>>
    BY <2>1, ExchangeInFlight DEF Crash
  <2>3. TypeOK'
    BY <2>2 DEF TypeOK
  <2>4. HeldAsIssued' /\ OnePlace'
    BY <2>2 DEF HeldAsIssued, OnePlace, TypeOK
  <2>5. StoredAsIssued' /\ SingleLogin' /\ BoundToBrowser'
    BY <2>2 DEF StoredAsIssued, SingleLogin, BoundToBrowser
  <2>6. FailureKeepsToken'
    <3> SUFFICES ASSUME NEW x \in Tokens, issued[x] # None, issued[x].expiresAt > now,
                        logins[x] = {}, Holders(x)' = {}, x \notin forgotten'
                 PROVE  store[x] # None
      BY <2>2 DEF FailureKeepsToken
    <3>1. x # proc[p].token /\ x \notin forgotten
      BY <2>2
    <3>2. Holders(x) = {}
      BY <3>1, <2>2 DEF Holders, TypeOK
    <3> QED BY <3>1, <3>2 DEF FailureKeepsToken
  <2> QED BY <2>3, <2>4, <2>5, <2>6
<1>7. CASE \E t \in Tokens : Purge(t)
  <2>1. PICK t \in Tokens : Purge(t)
    BY <1>7
  <2>2. /\ store' = [store EXCEPT ![t] = None]
        /\ UNCHANGED <<issued, disabled, deleted, proc, now, logins, forgotten>>
        /\ store[t] = issued[t] /\ issued[t] \in TokenState /\ issued[t].expiresAt <= now
    BY <2>1 DEF Purge, StoredAsIssued, TypeOK
  <2>3. TypeOK'
    BY <2>2 DEF TypeOK
  <2>4. HeldAsIssued' /\ SingleLogin' /\ BoundToBrowser'
    BY <2>2 DEF HeldAsIssued, SingleLogin, BoundToBrowser
  <2>5. StoredAsIssued' /\ OnePlace'
    BY <2>2, ExchangeInFlight DEF StoredAsIssued, OnePlace, TypeOK
  <2>6. FailureKeepsToken'
    <3> SUFFICES ASSUME NEW x \in Tokens, issued[x] # None, issued[x].expiresAt > now,
                        logins[x] = {}, Holders(x)' = {}, x \notin forgotten
                 PROVE  store'[x] # None
      BY <2>2 DEF FailureKeepsToken
    <3>1. x # t
      BY <2>2 DEF TypeOK, TokenState
    <3>2. Holders(x) = {}
      BY <2>2 DEF Holders
    <3> QED BY <3>1, <3>2, <2>2 DEF FailureKeepsToken, TypeOK
  <2> QED BY <2>3, <2>4, <2>5, <2>6
<1>8. CASE \E u \in Users : ToggleDisabled(u) \/ DeleteUser(u)
  BY <1>8, NothingMoves DEF ToggleDisabled, DeleteUser, TypeOK
<1>9. CASE Tick
  BY <1>9, NothingMoves DEF Tick, TypeOK
<1>10. CASE UNCHANGED vars
  BY <1>10, NothingMoves DEF vars, TypeOK
<1> QED BY <1>1, <1>2, <1>3, <1>4, <1>5, <1>6, <1>7, <1>8, <1>9, <1>10 DEF Next

(* Each step of an instance is a step of one part and leaves the others.   *)
LEMMA StepsOfCredentials ==
  ASSUME [CredentialsNext]_allVars
  PROVE  /\ [Next]_vars /\ [PasskeyStep]_passkeyVars
         /\ [ApiKeyStep]_apiKeyVars /\ [SignupNext]_signupVars
  BY DEF CredentialsNext, CodeStep, PasskeyTurn, KeyStep, AccountStep, allVars

(* AccessInv holds in every reachable state.                               *)
LEMMA AccessInvariant == CredentialsSpec => []AccessInv
<1>1. CredentialsInit => AccessInv
  BY TokenAssumption
     DEF CredentialsInit, Init, AccessInv, TypeOK, HeldAsIssued, StoredAsIssued,
         SingleLogin, OnePlace, BoundToBrowser, FailureKeepsToken
<1>2. AccessInv /\ [CredentialsNext]_allVars => AccessInv'
  BY AccessStep, StepsOfCredentials
<1> QED BY <1>1, <1>2, PTL DEF CredentialsSpec

-----------------------------------------------------------------------------
(* Type correctness of the login codes and of the exchanges in flight.     *)
THEOREM AccessTypeCorrect == CredentialsSpec => []TypeOK
<1>1. AccessInv => TypeOK
  BY DEF AccessInv
<1> QED BY <1>1, AccessInvariant, PTL

(* A login code signs in at most once, although a failed exchange restores *)
(* it and any number of exchanges of it run at once.                       *)
THEOREM CodeSignsInOnce == CredentialsSpec => []UsedOnce
<1>1. AccessInv => UsedOnce
  <2> SUFFICES ASSUME AccessInv, NEW t \in Tokens
               PROVE  Cardinality(logins[t]) <= 1
    BY DEF UsedOnce
  <2>1. CASE logins[t] = {}
    BY <2>1, FS_EmptySet
  <2>2. CASE logins[t] # {}
    <3>1. PICK l \in logins[t] : TRUE
      BY <2>2
    <3>2. logins[t] = {l}
      BY <3>1 DEF AccessInv, SingleLogin
    <3> QED BY <3>2, FS_Singleton
  <2> QED BY <2>1, <2>2
<1> QED BY <1>1, AccessInvariant, PTL

(* The token is in the store or with one exchange, never both: no restore  *)
(* meets a live token.                                                     *)
THEOREM TokenIsInOnePlace == CredentialsSpec => []TokenInOnePlace
<1>1. AccessInv => TokenInOnePlace
  BY DEF AccessInv, OnePlace, TokenInOnePlace, Holders
<1> QED BY <1>1, AccessInvariant, PTL

(* A login code is the ticket of Admission: made for one user, and         *)
(* ExchangeToken signs in that user, once, whatever is restored between.   *)
THEOREM LoginCodesAreTickets == CredentialsSpec => LoginCodeIsTicket
<1>1. CredentialsInit => CodeTicket!Start
  BY DEF CredentialsInit, Init, CodeTicket!Start, MadeFor, SignedIn
<1>2. AccessInv /\ [Next]_vars => [CodeTicket!Advance]_(CodeTicket!admissionVars)
  <2> SUFFICES ASSUME AccessInv, [Next]_vars
               PROVE  [CodeTicket!Advance]_(CodeTicket!admissionVars)
    OBVIOUS
  <2> USE TokenAssumption DEF AccessInv
  <2>1. CASE UNCHANGED <<issued, logins>>
    BY <2>1 DEF CodeTicket!admissionVars, MadeFor, SignedIn
  <2>2. ASSUME NEW t \in Tokens, NEW u \in Users, NEW s, s # None, s.user = u,
               issued[t] = None, issued' = [issued EXCEPT ![t] = s], UNCHANGED logins
        PROVE  CodeTicket!Advance
    <3>1. MadeFor[t] = {} /\ SignedIn' = SignedIn
      BY <2>2 DEF MadeFor, SignedIn
    <3>2. \A x \in Tokens : MadeFor'[x] = [MadeFor EXCEPT ![t] = {<<1, u>>}][x]
      BY <2>2 DEF MadeFor, TypeOK
    <3>3. MadeFor' = [MadeFor EXCEPT ![t] = {<<1, u>>}]
      BY <3>2 DEF MadeFor
    <3> QED BY <2>2, <3>1, <3>3 DEF CodeTicket!Advance, CodeTicket!Bind
  <2>3. ASSUME NEW t \in Tokens, NEW u \in Users, NEW l, l[1] = 1, l[2] = u,
               issued[t] # None, issued[t].user = u, logins[t] = {},
               logins' = [logins EXCEPT ![t] = {l}], UNCHANGED issued
        PROVE  CodeTicket!Advance
    <3>1. /\ <<1, u>> \in MadeFor[t] /\ MadeFor' = MadeFor
          /\ SignedIn[t] = {}
      BY <2>3 DEF MadeFor, SignedIn
    <3>2. logins'[t] = {l} /\ \A x \in Tokens \ {t} : logins'[x] = logins[x]
      BY <2>3 DEF TypeOK
    <3>3. {<<k[1], k[2]>> : k \in logins'[t]} = {<<1, u>>}
      BY <2>3, <3>2
    <3>4. \A x \in Tokens : SignedIn'[x] = [SignedIn EXCEPT ![t] = {<<1, u>>}][x]
      BY <3>2, <3>3 DEF SignedIn
    <3>5. SignedIn' = [SignedIn EXCEPT ![t] = {<<1, u>>}]
      BY <3>4 DEF SignedIn
    <3> QED BY <2>3, <3>1, <3>5 DEF CodeTicket!Advance, CodeTicket!Admit
  <2>4. CASE \E t \in Tokens, u \in Users, b \in {None} \cup Browsers, ttl \in Lifetimes :
               StoreToken(t, u, b, ttl)
    <3>1. PICK t \in Tokens, u \in Users, b \in {None} \cup Browsers, ttl \in Lifetimes :
                 StoreToken(t, u, b, ttl)
      BY <2>4
    <3>2. now + ttl \in Nat
      BY DEF TypeOK
    <3>3. [user |-> u, browser |-> b, expiresAt |-> now + ttl] # None
      BY <3>2
    <3> QED BY <2>2, <3>1, <3>3 DEF StoreToken
  <2>5. CASE \E p \in Procs : SignIn(p)
    <3>1. PICK p \in Procs : SignIn(p)
      BY <2>5
    <3> DEFINE q == proc[p]
               l == <<1, q.state.user, q.browser, now>>
    <3>2. q # Idle
      BY <3>1 DEF SignIn, Idle
    <3>3. /\ q.token \in Tokens /\ q.state.user \in Users
          /\ issued[q.token] # None /\ issued[q.token].user = q.state.user
          /\ logins[q.token] = {}
      BY <3>2, ExchangeInFlight DEF HeldAsIssued, TokenState
    <3>4. Cardinality({}) + 1 = 1
      BY FS_EmptySet
    <3>5. logins' = [logins EXCEPT ![q.token] = {l}] /\ UNCHANGED issued
      BY <3>1, <3>3, <3>4 DEF SignIn
    <3>6. l[1] = 1 /\ l[2] = q.state.user
      OBVIOUS
    <3> HIDE DEF l
    <3> QED BY <2>3, <3>3, <3>5, <3>6
  <2>6. \/ UNCHANGED <<issued, logins>>
        \/ \E t \in Tokens, u \in Users, b \in {None} \cup Browsers, ttl \in Lifetimes :
             StoreToken(t, u, b, ttl)
        \/ \E p \in Procs : SignIn(p)
    BY DEF Next, vars, Consume, FailExchange, RestoreToken, Crash, Purge, ToggleDisabled,
           DeleteUser, Tick
  <2> QED BY <2>1, <2>4, <2>5, <2>6
<1>3. [CredentialsNext]_allVars => [Next]_vars
  BY StepsOfCredentials
<1> QED BY <1>1, <1>2, <1>3, AccessInvariant, PTL
        DEF CredentialsSpec, CodeTicket!AdmissionSpec, LoginCodeIsTicket

(* A failed exchange loses nothing: an unused token that has not run out   *)
(* and whose compensation was not cut short is in the store.               *)
THEOREM FailureLosesNothing == CredentialsSpec => []FailureKeepsToken
<1>1. AccessInv => FailureKeepsToken
  BY DEF AccessInv
<1> QED BY <1>1, AccessInvariant, PTL

(* Restoring a token neither prolongs its life nor unbinds it from its     *)
(* user and browser.                                                       *)
THEOREM RestoringChangesNothing == CredentialsSpec => []RestoredAsIssued
<1>1. AccessInv => RestoredAsIssued
  BY DEF AccessInv, StoredAsIssued, BoundToBrowser, RestoredAsIssued
<1> QED BY <1>1, AccessInvariant, PTL

-----------------------------------------------------------------------------
(* Passkeys.  A ceremony that has yielded something is over; a proof of    *)
(* presence outlives the touch of the passkey by the age of a fresh        *)
(* sign-in and its own lifetime at most; whoever renames has found the row.*)
Offers == [at : {"offered"}, expires : Nat]
Renamings == [at : {"renames"}, passkey : Passkey, found : BOOLEAN]

PasskeyTypeOK ==
  /\ clock \in Nat
  /\ lastLogin \in [Person -> Nat]
  /\ ceremonies \in [Ceremony -> {Unstarted, Ended} \cup Offers]
  /\ renaming \in [Worker -> {Resting} \cup Renamings]
  /\ results \in [Ceremony -> Nat]

SpentIsOver ==
  \A c \in Ceremony : results[c] = 0 \/ (results[c] = 1 /\ ceremonies[c] = Ended)

ProofsAreRecent ==
  \A p \in tokens : /\ p.provedAt \in Nat /\ p.expires \in Nat
                    /\ p.expires <= p.provedAt + FreshLogin + ProofLifetime

RenamersFoundRow == \A w \in Worker : renaming[w].at = "renames" => renaming[w].found

PasskeyInv ==
  /\ PasskeyTypeOK /\ SpentIsOver /\ ProofsAreRecent /\ RenamersFoundRow
  /\ PasskeysAreNeeded

(* An open ceremony has yielded nothing; completing it keeps it single.    *)
LEMMA CompletedOnce ==
  ASSUME PasskeyTypeOK, SpentIsOver, NEW c \in Ceremony, Open(c), Complete(c)
  PROVE  /\ SpentIsOver'
         /\ ceremonies' \in [Ceremony -> {Unstarted, Ended} \cup Offers]
         /\ results' \in [Ceremony -> Nat]
<1>1. ceremonies[c] # Ended
  BY DEF Open, Ended
<1>2. results[c] = 0
  BY <1>1 DEF SpentIsOver
<1>3. /\ results' = [results EXCEPT ![c] = 1]
      /\ ceremonies' = [ceremonies EXCEPT ![c] = Ended]
  BY <1>2 DEF Complete
<1> QED BY <1>3 DEF PasskeyTypeOK, SpentIsOver

(* PasskeyInv is preserved by every ceremony, use of a token, renaming,    *)
(* deletion and cleanup.                                                   *)
LEMMA PasskeySteps ==
  ASSUME PasskeyInv, [PasskeyStep]_passkeyVars
  PROVE  PasskeyInv'
<1> USE PasskeyAssumption
<1>0. /\ PasskeyTypeOK /\ SpentIsOver /\ ProofsAreRecent /\ RenamersFoundRow
      /\ \A a \in ages : a < FreshLogin + ProofLifetime
      /\ OnlyStaleRenamesRevive
  BY DEF PasskeyInv, PasskeysAreNeeded, PresenceIsRecent
<1> DEFINE AgesFit == \A a \in ages : a < FreshLogin + ProofLifetime
<1>1. SUFFICES /\ PasskeyTypeOK' /\ SpentIsOver' /\ ProofsAreRecent' /\ RenamersFoundRow'
               /\ AgesFit' /\ OnlyStaleRenamesRevive'
  <2>1. SpentIsOver' /\ AgesFit' => PresenceIsRecent'
    BY DEF SpentIsOver, PresenceIsRecent
  <2> QED BY <2>1 DEF PasskeyInv, PasskeysAreNeeded
<1>2. ASSUME NEW c \in Ceremony, BeginCeremony(c)
      PROVE  SpentIsOver' /\ PasskeyTypeOK'
  <2>1. clock + Timeout \in Nat /\ ceremonies[c] # Ended
    BY <1>0, <1>2 DEF BeginCeremony, PasskeyTypeOK, Unstarted, Ended
  <2>2. /\ ceremonies' = [ceremonies EXCEPT ![c] = Offered(clock + Timeout)]
        /\ UNCHANGED <<clock, renaming, lastLogin, results>>
    BY <1>2 DEF BeginCeremony
  <2>3. Offered(clock + Timeout) \in Offers
    BY <2>1 DEF Offered, Offers
  <2> QED BY <1>0, <2>1, <2>2, <2>3 DEF SpentIsOver, PasskeyTypeOK
<1>3. CASE \E c \in Ceremony : BeginCeremony(c)
  <2>1. UNCHANGED <<tokens, renaming, ages, registered, deletions, revived>>
    BY <1>3 DEF BeginCeremony
  <2> QED BY <1>0, <1>2, <1>3, <2>1
          DEF ProofsAreRecent, RenamersFoundRow, OnlyStaleRenamesRevive
<1>4. CASE \E c \in Ceremony, k \in Passkey : VerifyRegistration(c, k)
  <2>1. PICK c \in Ceremony, k \in Passkey : VerifyRegistration(c, k)
    BY <1>4
  <2>2. /\ Open(c) /\ Complete(c)
        /\ registered' = registered \cup {k}
        /\ deletions' = deletions \ {k} /\ revived' = revived \ {k}
        /\ UNCHANGED <<clock, renaming, lastLogin, tokens, ages>>
    BY <2>1 DEF VerifyRegistration
  <2>3. SpentIsOver' /\ PasskeyTypeOK'
    BY <1>0, <2>2, CompletedOnce DEF PasskeyTypeOK
  <2>4. OnlyStaleRenamesRevive'
    BY <1>0, <2>2 DEF OnlyStaleRenamesRevive
  <2> QED BY <1>0, <2>2, <2>3, <2>4 DEF ProofsAreRecent, RenamersFoundRow
<1>5. CASE \E c \in Ceremony, k \in Passkey : VerifyLogin(c, k)
  <2>1. PICK c \in Ceremony, k \in Passkey : VerifyLogin(c, k)
    BY <1>5
  <2>2. /\ Open(c) /\ Complete(c)
        /\ lastLogin' = [lastLogin EXCEPT ![Owner[k]] = clock]
        /\ UNCHANGED <<clock, registered, renaming, tokens, ages, deletions, revived>>
    BY <2>1 DEF VerifyLogin
  <2>3. SpentIsOver' /\ PasskeyTypeOK'
    BY <1>0, <2>2, CompletedOnce DEF PasskeyTypeOK
  <2> QED BY <1>0, <2>2, <2>3 DEF ProofsAreRecent, RenamersFoundRow, OnlyStaleRenamesRevive
<1>6. CASE \E c \in Ceremony, k \in Passkey : ReauthenticateWithPasskey(c, k)
  <2>1. PICK c \in Ceremony, k \in Passkey : ReauthenticateWithPasskey(c, k)
    BY <1>6
  <2>2. /\ Open(c) /\ Complete(c)
        /\ tokens' = tokens \cup {Proof(Owner[k], clock)}
        /\ UNCHANGED <<clock, registered, renaming, lastLogin, ages, deletions, revived>>
    BY <2>1 DEF ReauthenticateWithPasskey
  <2>3. SpentIsOver' /\ PasskeyTypeOK'
    BY <1>0, <2>2, CompletedOnce DEF PasskeyTypeOK
  <2>4. ProofsAreRecent'
    BY <1>0, <2>2 DEF ProofsAreRecent, Proof, PasskeyTypeOK
  <2> QED BY <1>0, <2>2, <2>3, <2>4 DEF RenamersFoundRow, OnlyStaleRenamesRevive
<1>7. CASE \E u \in Person : ReauthenticateWithAccessToken(u)
  <2>1. PICK u \in Person : ReauthenticateWithAccessToken(u)
    BY <1>7
  <2>2. /\ clock - lastLogin[u] <= FreshLogin
        /\ tokens' = tokens \cup {Proof(u, lastLogin[u])}
        /\ UNCHANGED <<clock, registered, ceremonies, renaming, lastLogin, results, ages,
                       deletions, revived>>
    BY <2>1 DEF ReauthenticateWithAccessToken, RecentLogin
  <2>3. ProofsAreRecent'
    BY <1>0, <2>2 DEF ProofsAreRecent, Proof, PasskeyTypeOK
  <2> QED BY <1>0, <2>2, <2>3
          DEF PasskeyTypeOK, SpentIsOver, RenamersFoundRow, OnlyStaleRenamesRevive
<1>8. CASE \E p \in tokens : ConsumeReauthenticationToken(p)
  <2>1. PICK p \in tokens : ConsumeReauthenticationToken(p)
    BY <1>8
  <2>2. /\ p.expires > clock /\ tokens' = tokens \ {p}
        /\ ages' = ages \cup {clock - p.provedAt}
        /\ UNCHANGED <<clock, registered, ceremonies, renaming, lastLogin, results,
                       deletions, revived>>
    BY <2>1 DEF ConsumeReauthenticationToken
  <2>3. clock - p.provedAt < FreshLogin + ProofLifetime
    BY <1>0, <2>2 DEF ProofsAreRecent, PasskeyTypeOK
  <2>4. AgesFit'
    BY <1>0, <2>2, <2>3
  <2> QED BY <1>0, <2>2, <2>4
          DEF PasskeyTypeOK, SpentIsOver, ProofsAreRecent, RenamersFoundRow,
              OnlyStaleRenamesRevive
<1>9. CASE \E k \in Passkey : DeleteCredential(k)
  <2>1. PICK k \in Passkey : DeleteCredential(k)
    BY <1>9
  <2> QED BY <1>0, <2>1
          DEF DeleteCredential, PasskeyTypeOK, SpentIsOver, ProofsAreRecent,
              RenamersFoundRow, OnlyStaleRenamesRevive
<1>10. CASE \E w \in Worker, k \in Passkey : BeginRename(w, k)
  <2>1. PICK w \in Worker, k \in Passkey : BeginRename(w, k)
    BY <1>10
  <2>2. PICK f \in BOOLEAN : f = (k \in registered)
    <3>1. (k \in registered) \in BOOLEAN
      OBVIOUS
    <3> QED BY <3>1, Zenon
  <2>3. /\ f
        /\ renaming' = [renaming EXCEPT ![w] = Renames(k, f)]
        /\ UNCHANGED <<clock, registered, ceremonies, lastLogin, tokens, results, ages,
                       deletions, revived>>
    BY <2>1, <2>2 DEF BeginRename, MayRename
  <2>4. Renames(k, f) \in Renamings /\ Renames(k, f).found = f
    BY DEF Renames, Renamings
  <2>5. PasskeyTypeOK' /\ RenamersFoundRow'
    BY <1>0, <2>3, <2>4 DEF RenamersFoundRow, PasskeyTypeOK
  <2> QED BY <1>0, <2>3, <2>5
          DEF SpentIsOver, ProofsAreRecent, OnlyStaleRenamesRevive
<1>11. CASE \E w \in Worker : CommitRename(w)
  <2>1. PICK w \in Worker : CommitRename(w)
    BY <1>11
  <2>2. /\ renaming[w].found
        /\ renaming' = [renaming EXCEPT ![w] = Resting]
        /\ UNCHANGED <<clock, ceremonies, lastLogin, tokens, results, ages, deletions>>
    BY <1>0, <2>1 DEF CommitRename, RenamersFoundRow
  <2>3. OnlyStaleRenamesRevive'
    BY <1>0, <2>1, <2>2 DEF CommitRename, OnlyStaleRenamesRevive
  <2> QED BY <1>0, <2>2, <2>3
          DEF PasskeyTypeOK, SpentIsOver, ProofsAreRecent, RenamersFoundRow, Resting
<1>12. CASE \E w \in Worker : RollBackRename(w)
  BY <1>0, <1>12
     DEF RollBackRename, PasskeyTypeOK, SpentIsOver, ProofsAreRecent, RenamersFoundRow,
         OnlyStaleRenamesRevive, Resting
<1>13. CASE \E u \in Person : SwitchUser(u)
  BY <1>0, <1>13
     DEF SwitchUser, PasskeyTypeOK, SpentIsOver, ProofsAreRecent, RenamersFoundRow,
         OnlyStaleRenamesRevive
<1>14. CASE CleanupExpiredSessions
  BY <1>0, <1>14
     DEF CleanupExpiredSessions, PasskeyTypeOK, SpentIsOver, ProofsAreRecent,
         RenamersFoundRow, OnlyStaleRenamesRevive
<1>15. CASE CleanupExpiredReauthenticationTokens
  BY <1>0, <1>15
     DEF CleanupExpiredReauthenticationTokens, PasskeyTypeOK, SpentIsOver, ProofsAreRecent,
         RenamersFoundRow, OnlyStaleRenamesRevive
<1>16. CASE Minute
  BY <1>0, <1>16
     DEF Minute, PasskeyTypeOK, SpentIsOver, ProofsAreRecent, RenamersFoundRow,
         OnlyStaleRenamesRevive
<1>17. CASE UNCHANGED passkeyVars
  BY <1>0, <1>17
     DEF passkeyVars, PasskeyTypeOK, SpentIsOver, ProofsAreRecent, RenamersFoundRow,
         OnlyStaleRenamesRevive
<1> QED BY <1>3, <1>4, <1>5, <1>6, <1>7, <1>8, <1>9, <1>10, <1>11, <1>12, <1>13, <1>14,
           <1>15, <1>16, <1>17 DEF PasskeyStep

(* PasskeyInv holds in every reachable state.                              *)
LEMMA PasskeyInvariant == CredentialsSpec => []PasskeyInv
<1>1. CredentialsInit => PasskeyInv
  <2> SUFFICES ASSUME PasskeyInit PROVE PasskeyInv
    BY DEF CredentialsInit
  <2>1. PasskeyTypeOK
    BY PasskeyAssumption DEF PasskeyInit, PasskeyTypeOK, Never
  <2>2. RenamersFoundRow
    BY DEF PasskeyInit, RenamersFoundRow, Resting
  <2> QED BY <2>1, <2>2
          DEF PasskeyInit, PasskeyInv, SpentIsOver, ProofsAreRecent, PasskeysAreNeeded,
              PresenceIsRecent, OnlyStaleRenamesRevive
<1>2. PasskeyInv /\ [CredentialsNext]_allVars => PasskeyInv'
  BY PasskeySteps, StepsOfCredentials
<1> QED BY <1>1, <1>2, PTL DEF CredentialsSpec

(* What a passkey opens needs the passkey: a ceremony yields one thing, a  *)
(* spent proof of presence is recent, and a deleted passkey stays away     *)
(* unless a rename that had read it saves it.                              *)
THEOREM PasskeysOpenAlone == CredentialsSpec => []PasskeysAreNeeded
<1>1. PasskeyInv => PasskeysAreNeeded
  BY DEF PasskeyInv
<1> QED BY <1>1, PasskeyInvariant, PTL

-----------------------------------------------------------------------------
(* API keys.  The value of the row was handed out, is not dead, and every  *)
(* dead value was handed out, so a renewal cannot bring one back; a row    *)
(* the job is about to mark was announced.                                 *)
KeyRows == [token : Token, expires : Nat, marked : BOOLEAN, used : BOOLEAN]

ApiKeyTypeOK ==
  /\ day \in Nat
  /\ keyRow \in {NoRow} \cup KeyRows
  /\ renewals \in [Renewal -> {Quiet} \cup [at : {"reading"}, row : KeyRows]]
  /\ job \in {Quiet} \cup [at : {"mailing", "marking"}, row : KeyRows]
  /\ spentTokens \subseteq Token

ValuesAreSpent ==
  /\ dead \subseteq spentTokens
  /\ keyRow # NoRow => keyRow.token \in spentTokens

MarkersAnnounced == job.at = "marking" => job.row.token \in announced

(* A row is marked only when the expiry of its present value was announced *)
(* or the job, with an older list, marked it after it was renewed: what a  *)
(* run passes over is one of the two.                                      *)
MarksAreAnnounced ==
  keyRow # NoRow /\ keyRow.marked => keyRow.token \in announced \cup overtaken

ApiKeyInv ==
  /\ ApiKeyTypeOK /\ ValuesAreSpent /\ MarkersAnnounced
  /\ MarksAreAnnounced /\ RenewalIsComplete

(* A renewed row is a row with the new value and without the mark.         *)
LEMMA RenewedRow ==
  ASSUME NEW kept \in KeyRows, NEW t \in Token, NEW e \in Nat
  PROVE  /\ Renewed(kept, t, e) \in KeyRows
         /\ Renewed(kept, t, e).token = t /\ ~Renewed(kept, t, e).marked
<1> DEFINE a == [kept EXCEPT !.token = t]
           b == [a EXCEPT !.expires = e]
           c == [b EXCEPT !.marked = FALSE]
<1>1. a \in KeyRows /\ a.token = t
  BY DEF KeyRows
<1> HIDE DEF a
<1>2. b \in KeyRows /\ b.token = t
  BY <1>1 DEF KeyRows
<1> HIDE DEF b
<1>3. c \in KeyRows /\ c.token = t
  BY <1>2 DEF KeyRows
<1>4. ~c.marked
  BY <1>2 DEF KeyRows
<1> QED BY <1>3, <1>4 DEF Renewed, a, b

(* A row with a fresh value, not yet marked, replaces what is there.       *)
LEMMA FreshValue ==
  ASSUME ApiKeyInv, NEW t \in Token, t \notin spentTokens,
         keyRow' \in KeyRows, keyRow'.token = t, ~keyRow'.marked,
         spentTokens' = spentTokens \cup {t},
         dead' = dead \/ dead' = dead \cup Replaced(t),
         UNCHANGED <<announced, reached, overtaken>>
  PROVE  ValuesAreSpent' /\ MarksAreAnnounced' /\ RenewalIsComplete'
<1>1. dead' \subseteq spentTokens
  BY DEF ApiKeyInv, ValuesAreSpent, Replaced
<1> QED BY <1>1
        DEF ApiKeyInv, ValuesAreSpent, RenewalIsComplete, DeadTokensStayDead, NoExpiryIsPassedOver, MarksAreAnnounced

(* ApiKeyInv is preserved by every creation, renewal, revocation and use,  *)
(* by the job and by restarts.                                             *)
LEMMA ApiKeySteps ==
  ASSUME ApiKeyInv, [ApiKeyStep]_apiKeyVars
  PROVE  ApiKeyInv'
<1> USE ApiKeyAssumption
<1>0. /\ ApiKeyTypeOK /\ ValuesAreSpent /\ MarkersAnnounced
      /\ DeadTokensStayDead /\ NoExpiryIsPassedOver /\ MarksAreAnnounced
  BY DEF ApiKeyInv, RenewalIsComplete
<1>1. SUFFICES ApiKeyTypeOK' /\ ValuesAreSpent' /\ MarkersAnnounced' /\ MarksAreAnnounced'
               /\ RenewalIsComplete'
  BY DEF ApiKeyInv
<1>2. CASE \E t \in Token, days \in Validity : CreateApiKey(t, days)
  <2>1. PICK t \in Token, days \in Validity : CreateApiKey(t, days)
    BY <1>2
  <2>2. /\ t \notin spentTokens /\ keyRow' = KeyRow(t, day + days)
        /\ spentTokens' = spentTokens \cup {t}
        /\ UNCHANGED <<day, renewals, job, announced, reached, overtaken, dead>>
    BY <2>1 DEF CreateApiKey
  <2>3. /\ KeyRow(t, day + days) \in KeyRows
        /\ KeyRow(t, day + days).token = t /\ ~KeyRow(t, day + days).marked
    BY <1>0 DEF KeyRow, KeyRows, ApiKeyTypeOK
  <2>4. ApiKeyTypeOK' /\ MarkersAnnounced'
    BY <1>0, <2>2, <2>3 DEF ApiKeyTypeOK, MarkersAnnounced
  <2> QED BY <2>2, <2>3, <2>4, FreshValue
<1>3. CASE \E r \in Renewal : ReadForRenewal(r)
  <2>1. PICK r \in Renewal : ReadForRenewal(r)
    BY <1>3
  <2>2. /\ keyRow \in KeyRows
        /\ renewals' = [renewals EXCEPT ![r] = Reading(keyRow)]
        /\ UNCHANGED <<day, keyRow, job, spentTokens, announced, reached, overtaken, dead>>
    BY <1>0, <2>1 DEF ReadForRenewal, ApiKeyTypeOK
  <2>3. Reading(keyRow) \in [at : {"reading"}, row : KeyRows]
    BY <2>2 DEF Reading
  <2> QED BY <1>0, <2>2, <2>3
          DEF ApiKeyTypeOK, ValuesAreSpent, MarkersAnnounced, RenewalIsComplete,
              DeadTokensStayDead, NoExpiryIsPassedOver, MarksAreAnnounced
<1>4. CASE \E r \in Renewal, t \in Token, days \in Validity : RenewApiKey(r, t, days)
  <2>1. PICK r \in Renewal, t \in Token, days \in Validity : RenewApiKey(r, t, days)
    BY <1>4
  <2>2. /\ renewals[r].at = "reading" /\ t \notin spentTokens
        /\ dead' = dead \cup Replaced(t)
        /\ keyRow' = Renewed(renewals[r].row, t, day + days)
        /\ spentTokens' = spentTokens \cup {t}
        /\ renewals' = [renewals EXCEPT ![r] = Quiet]
        /\ UNCHANGED <<day, job, announced, reached, overtaken>>
    BY <2>1 DEF RenewApiKey
  <2>3. PICK kept \in KeyRows : kept = renewals[r].row
    BY <1>0, <2>2 DEF ApiKeyTypeOK, Quiet
  <2>4. /\ Renewed(kept, t, day + days) \in KeyRows
        /\ Renewed(kept, t, day + days).token = t /\ ~Renewed(kept, t, day + days).marked
    <3>1. day + days \in Nat
      BY <1>0 DEF ApiKeyTypeOK
    <3> QED BY <3>1, RenewedRow
  <2>5. ApiKeyTypeOK' /\ MarkersAnnounced'
    BY <1>0, <2>2, <2>3, <2>4 DEF ApiKeyTypeOK, MarkersAnnounced
  <2> QED BY <2>2, <2>3, <2>4, <2>5, FreshValue
<1>5. CASE \E r \in Renewal : AbandonRenewal(r)
  BY <1>0, <1>5
     DEF AbandonRenewal, ApiKeyTypeOK, ValuesAreSpent, MarkersAnnounced, RenewalIsComplete,
         DeadTokensStayDead, NoExpiryIsPassedOver, MarksAreAnnounced
<1>6. CASE RevokeApiKey
  BY <1>0, <1>6
     DEF RevokeApiKey, ApiKeyTypeOK, ValuesAreSpent, MarkersAnnounced, RenewalIsComplete,
         DeadTokensStayDead, NoExpiryIsPassedOver, MarksAreAnnounced
<1>7. CASE \E t \in Token : ValidateApiKey(t)
  <2>1. PICK t \in Token : ValidateApiKey(t)
    BY <1>7
  <2>2. /\ keyRow \in KeyRows /\ keyRow' = [keyRow EXCEPT !.used = TRUE]
        /\ UNCHANGED <<day, renewals, job, spentTokens, announced, reached, overtaken, dead>>
    BY <1>0, <2>1 DEF ValidateApiKey, ApiKeyTypeOK
  <2>3. keyRow' \in KeyRows /\ keyRow'.token = keyRow.token /\ keyRow'.marked = keyRow.marked
    BY <2>2 DEF KeyRows
  <2>4. keyRow # NoRow /\ keyRow' # NoRow
    BY <2>2, <2>3 DEF KeyRows
  <2> QED BY <1>0, <2>2, <2>3, <2>4
          DEF ApiKeyTypeOK, ValuesAreSpent, MarkersAnnounced, RenewalIsComplete,
              DeadTokensStayDead, NoExpiryIsPassedOver, MarksAreAnnounced
<1>8. CASE ListExpiringApiKeys
  <2>1. /\ keyRow \in KeyRows /\ job' = Mailing(keyRow)
        /\ UNCHANGED <<day, keyRow, renewals, spentTokens, announced, reached, overtaken, dead>>
    BY <1>0, <1>8 DEF ListExpiringApiKeys, Expiring, ApiKeyTypeOK
  <2>2. job' \in [at : {"mailing", "marking"}, row : KeyRows] /\ job'.at # "marking"
    BY <2>1 DEF Mailing
  <2> QED BY <1>0, <2>1, <2>2
          DEF ApiKeyTypeOK, ValuesAreSpent, MarkersAnnounced, RenewalIsComplete,
              DeadTokensStayDead, NoExpiryIsPassedOver, MarksAreAnnounced
<1>9. CASE SendAPIKeyExpiringSoon
  <2>1. /\ announced' = announced \cup {job.row.token} /\ job' = Marking(job.row)
        /\ job.row \in KeyRows
        /\ UNCHANGED <<day, keyRow, renewals, spentTokens, reached, overtaken, dead>>
    BY <1>0, <1>9 DEF SendAPIKeyExpiringSoon, ApiKeyTypeOK, Quiet
  <2>2. /\ job' \in [at : {"mailing", "marking"}, row : KeyRows]
        /\ job'.row.token \in announced'
    BY <2>1 DEF Marking
  <2> QED BY <1>0, <2>1, <2>2
          DEF ApiKeyTypeOK, ValuesAreSpent, MarkersAnnounced, RenewalIsComplete,
              DeadTokensStayDead, NoExpiryIsPassedOver, MarksAreAnnounced
<1>10. CASE MarkExpirationEmailSent
  <2>1. /\ job.row.token \in announced /\ job' = Quiet
        /\ reached' = reached \cup {job.row.token}
        /\ UNCHANGED <<day, renewals, spentTokens, announced, dead>>
    BY <1>0, <1>10 DEF MarkExpirationEmailSent, MarkersAnnounced
  <2>2. CASE keyRow = NoRow
    BY <1>0, <1>10, <2>1, <2>2
       DEF MarkExpirationEmailSent, ApiKeyTypeOK, ValuesAreSpent, MarkersAnnounced,
           RenewalIsComplete, DeadTokensStayDead, NoExpiryIsPassedOver, MarksAreAnnounced, Quiet
  <2>3. CASE keyRow # NoRow
    <3>1. /\ keyRow \in KeyRows /\ keyRow' = [keyRow EXCEPT !.marked = TRUE]
          /\ overtaken' = IF keyRow.token # job.row.token
                          THEN overtaken \cup {keyRow.token} ELSE overtaken
      BY <1>0, <1>10, <2>3 DEF MarkExpirationEmailSent, ApiKeyTypeOK
    <3>2. keyRow' \in KeyRows /\ keyRow'.token = keyRow.token
      BY <3>1 DEF KeyRows
    <3>3. keyRow.token \in announced' \cup overtaken'
      BY <2>1, <3>1
    <3> QED BY <1>0, <2>1, <2>3, <3>1, <3>2, <3>3
            DEF ApiKeyTypeOK, ValuesAreSpent, MarkersAnnounced,
                RenewalIsComplete, DeadTokensStayDead, NoExpiryIsPassedOver, MarksAreAnnounced, Quiet
  <2> QED BY <2>2, <2>3
<1>11. CASE FailJob
  BY <1>0, <1>11
     DEF FailJob, ApiKeyTypeOK, ValuesAreSpent, MarkersAnnounced, RenewalIsComplete,
         DeadTokensStayDead, NoExpiryIsPassedOver, MarksAreAnnounced, Quiet
<1>12. CASE InitStaticApiKeyUser
  BY <1>0, <1>12
     DEF InitStaticApiKeyUser, ApiKeyTypeOK, ValuesAreSpent, MarkersAnnounced,
         RenewalIsComplete, DeadTokensStayDead, NoExpiryIsPassedOver, MarksAreAnnounced
<1>13. CASE \E present \in BOOLEAN : RestartWith(present)
  BY <1>0, <1>13
     DEF RestartWith, ApiKeyTypeOK, ValuesAreSpent, MarkersAnnounced, RenewalIsComplete,
         DeadTokensStayDead, NoExpiryIsPassedOver, MarksAreAnnounced, Quiet
<1>14. CASE Day
  BY <1>0, <1>14
     DEF Day, ApiKeyTypeOK, ValuesAreSpent, MarkersAnnounced, RenewalIsComplete,
         DeadTokensStayDead, NoExpiryIsPassedOver, MarksAreAnnounced
<1>15. CASE UNCHANGED apiKeyVars
  BY <1>0, <1>15
     DEF apiKeyVars, ApiKeyTypeOK, ValuesAreSpent, MarkersAnnounced, RenewalIsComplete,
         DeadTokensStayDead, NoExpiryIsPassedOver, MarksAreAnnounced
<1>16. CASE PassOverMarkedKey
  <2>1. /\ keyRow # NoRow /\ keyRow.marked /\ reached' = reached \cup {keyRow.token}
        /\ UNCHANGED <<day, keyRow, renewals, job, spentTokens, announced, overtaken, dead>>
    BY <1>16 DEF PassOverMarkedKey, Expiring
  <2>2. NoExpiryIsPassedOver'
    BY <1>0, <2>1 DEF NoExpiryIsPassedOver, MarksAreAnnounced
  <2> QED BY <1>0, <2>1, <2>2
          DEF ApiKeyTypeOK, ValuesAreSpent, MarkersAnnounced, RenewalIsComplete,
              DeadTokensStayDead, MarksAreAnnounced
<1> QED BY <1>2, <1>3, <1>4, <1>5, <1>6, <1>7, <1>8, <1>9, <1>10, <1>11, <1>12, <1>13,
           <1>14, <1>15, <1>16 DEF ApiKeyStep

(* ApiKeyInv holds in every reachable state.                               *)
LEMMA ApiKeyInvariant == CredentialsSpec => []ApiKeyInv
<1>1. CredentialsInit => ApiKeyInv
  BY ApiKeyAssumption
     DEF CredentialsInit, ApiKeyInit, ApiKeyInv, ApiKeyTypeOK, ValuesAreSpent,
         MarkersAnnounced, RenewalIsComplete, DeadTokensStayDead, NoExpiryIsPassedOver,
         MarksAreAnnounced,
         Quiet
<1>2. ApiKeyInv /\ [CredentialsNext]_allVars => ApiKeyInv'
  BY ApiKeySteps, StepsOfCredentials
<1> QED BY <1>1, <1>2, PTL DEF CredentialsSpec

(* A replaced or revoked value of an API key never works again, and a run  *)
(* of the daily job that meets the renewed key in the days before its      *)
(* expiry, and does not fail, leaves the new value announced, unless a run *)
(* that listed the row before the renewal marked it.                       *)
THEOREM OldKeysAreGone == CredentialsSpec => []RenewalIsComplete
<1>1. ApiKeyInv => RenewalIsComplete
  BY DEF ApiKeyInv
<1> QED BY <1>1, ApiKeyInvariant, PTL

-----------------------------------------------------------------------------
(* Signups.  What was ever taken from a token that nobody has deleted:     *)
(* accounts, signups in flight and losses, beside the uses it had before.  *)
Live(t) == uses[t] # Absent /\ uses[t].expiresAt > time
UsesTaken(t) == created[t] + InFlight(t) + lost[t]

(* It stays within the limit, and the counter of a live token knows it.  A *)
(* token without a state was never created, is yet to be migrated and      *)
(* unused, or has run out.                                                 *)
TokenAddsUp(t) ==
  /\ UsedBefore(t) + UsesTaken(t) <= granted[t]
  /\ Live(t) => uses[t].used = UsedBefore(t) + UsesTaken(t)
  /\ uses[t] # Absent => granted[t] # 0 /\ uses[t].limit = granted[t]
  /\ granted[t] = 0 => UsesTaken(t) = 0
  /\ t \in Migrated =>
       /\ granted[t] = frozen[t].limit
       /\ uses[t] # Absent => uses[t].expiresAt = frozen[t].expiresAt
       /\ uses[t] = Absent /\ frozen[t].expiresAt > time => UsesTaken(t) = 0

OneSetup ==
  /\ setups \in {0, 1}
  /\ \A p, q \in Signups : signup[p].pc = "setup" /\ signup[q].pc = "setup" => p = q
  /\ \A p \in Signups : signup[p].pc = "setup" => NoAccounts

SignupInv ==
  /\ SignupTypeOK
  /\ \A t \in SignupTokens \ removed : TokenAddsUp(t)
  /\ OneSetup

(* The share of one signup in what is in flight.                           *)
Holding(p, t) ==
  IF signup[p].pc \in {"consumed", "failed"} /\ signup[p].token = t THEN 1 ELSE 0

(* A step of one signup changes what is in flight by its own share.        *)
LEMMA FlightChanges ==
  ASSUME NEW p \in Signups, NEW t, SignupTypeOK,
         signup' = [signup EXCEPT ![p] = signup'[p]]
  PROVE  /\ InFlight(t) \in Nat /\ InFlight(t)' \in Nat
         /\ InFlight(t)' = InFlight(t) - Holding(p, t) + Holding(p, t)'
<1> DEFINE F == {q \in Signups : signup[q].pc \in {"consumed", "failed"}
                                 /\ signup[q].token = t}
           G == {q \in Signups \ {p} : signup[q].pc \in {"consumed", "failed"}
                                       /\ signup[q].token = t}
<1>1. IsFiniteSet(G) /\ Cardinality(G) \in Nat /\ p \notin G
  BY SignupAssumption, FS_Subset, FS_CardinalityType
<1>2. /\ F = IF Holding(p, t) = 1 THEN G \cup {p} ELSE G
      /\ F' = IF Holding(p, t)' = 1 THEN G \cup {p} ELSE G
  BY DEF Holding, SignupTypeOK
<1>3. Cardinality(G \cup {p}) = Cardinality(G) + 1
  BY <1>1, FS_AddElement
<1>4. InFlight(t) = Cardinality(F) /\ InFlight(t)' = Cardinality(F')
  BY DEF InFlight
<1>5. Holding(p, t) \in {0, 1} /\ Holding(p, t)' \in {0, 1}
  BY DEF Holding
<1> HIDE DEF F, G
<1> QED BY <1>1, <1>2, <1>3, <1>4, <1>5

LEMMA NumbersOfSignups ==
  ASSUME SignupTypeOK, NEW t \in SignupTokens
  PROVE  /\ InFlight(t) \in Nat /\ created[t] \in Nat /\ lost[t] \in Nat
         /\ UsesTaken(t) \in Nat /\ UsedBefore(t) \in Nat /\ granted[t] \in Nat /\ time \in Nat
<1>1. InFlight(t) \in Nat
  BY SignupAssumption, FS_Subset, FS_CardinalityType DEF InFlight
<1>2. created[t] \in Nat /\ lost[t] \in Nat /\ time \in Nat
  BY SignupAssumption DEF SignupTypeOK, By
<1>3. granted[t] \in Nat
  <2>1. granted[t] = 0 \/ granted[t] \in Limits
    BY DEF SignupTypeOK
  <2>2. \A l \in Limits : l \in Nat
    BY SignupAssumption
  <2> QED BY <2>1, <2>2
<1>4. UsedBefore(t) \in Nat
  BY DEF SignupTypeOK, UsedBefore, SignupTokenState
<1> QED BY <1>1, <1>2, <1>3, <1>4 DEF UsesTaken

(* A step that leaves the state of a token and what was taken from it      *)
(* alone keeps its books in order, whatever time it takes.                 *)
LEMMA TokenStays ==
  ASSUME SignupTypeOK, SignupTypeOK', NEW t \in SignupTokens, TokenAddsUp(t),
         uses'[t] = uses[t], granted'[t] = granted[t], frozen' = frozen,
         time' >= time, UsesTaken(t)' = UsesTaken(t)
  PROVE  TokenAddsUp(t)'
<1>1. UsedBefore(t)' = UsedBefore(t)
  BY DEF UsedBefore
<1>2. Live(t)' => Live(t)
  BY DEF Live, SignupTypeOK, SignupTokenState
<1>3. time \in Nat /\ time' \in Nat
  BY SignupAssumption DEF SignupTypeOK
<1>4. t \in Migrated => frozen[t].expiresAt \in Nat
  BY DEF SignupTypeOK, SignupTokenState
<1> QED BY <1>1, <1>2, <1>3, <1>4 DEF TokenAddsUp

(* Where no signup moves, what was taken and the setups stay the same.     *)
LEMMA NoSignupMoves ==
  ASSUME OneSetup, UNCHANGED <<signup, created, setups, lost>>
  PROVE  OneSetup' /\ \A t \in SignupTokens : UsesTaken(t)' = UsesTaken(t)
  BY DEF OneSetup, NoAccounts, UsesTaken, InFlight

(* A token is given a state, or loses it.                                  *)
LEMMA StoredStates ==
  ASSUME SignupTypeOK, NEW t \in SignupTokens, NEW s \in {Absent} \cup SignupTokenState,
         uses' = [uses EXCEPT ![t] = s]
  PROVE  /\ uses' \in [SignupTokens -> {Absent} \cup SignupTokenState]
         /\ uses'[t] = s /\ \A x \in SignupTokens \ {t} : uses'[x] = uses[x]
  BY DEF SignupTypeOK

(* What a step of signup p to the state s leaves of the others.            *)
LEMMA SignupMoves ==
  ASSUME SignupTypeOK, NEW p \in Signups, NEW s \in {Free, Setup} \cup SignupInFlight,
         signup' = [signup EXCEPT ![p] = s]
  PROVE  /\ signup' \in [Signups -> {Free, Setup} \cup SignupInFlight]
         /\ signup' = [signup EXCEPT ![p] = signup'[p]]
         /\ signup'[p] = s /\ \A q \in Signups \ {p} : signup'[q] = signup[q]
  BY DEF SignupTypeOK

(* The shares of a signup by its state.                                    *)
LEMMA Shares ==
  ASSUME NEW p \in Signups, NEW t \in SignupTokens
  PROVE  /\ signup[p] = Free \/ signup[p] = Setup => Holding(p, t) = 0
         /\ signup[p].pc \in {"consumed", "failed"} =>
              Holding(p, t) = IF signup[p].token = t THEN 1 ELSE 0
  BY DEF Holding, Free, Setup

(* SignupInv is preserved by whatever administrators, restarts, purges and *)
(* time do to the tokens.                                                  *)
LEMMA TokenSteps ==
  ASSUME SignupInv,
         \/ \E t \in SignupTokens, l \in Limits, d \in SignupLifetimes : CreateSignupToken(t, l, d)
         \/ \E t \in SignupTokens : DeleteSignupToken(t)
         \/ \E t \in SignupTokens : PurgeSignupToken(t)
         \/ Start
         \/ \E t \in Migrated : Migrate(t)
         \/ Elapse
         \/ UNCHANGED signupVars
  PROVE  SignupInv'
<1> USE SignupAssumption
<1>0. /\ SignupTypeOK /\ OneSetup
      /\ \A t \in SignupTokens \ removed : TokenAddsUp(t)
      /\ time \in Nat
  BY DEF SignupInv, SignupTypeOK
<1>1. /\ UNCHANGED <<signup, created, setups, lost, frozen>>
      /\ \A t \in SignupTokens : UsesTaken(t)' = UsesTaken(t)
      /\ OneSetup'
  <2>1. UNCHANGED <<signup, created, setups, lost, frozen>>
    BY DEF CreateSignupToken, DeleteSignupToken, PurgeSignupToken, Start, Migrate, Elapse,
           signupVars
  <2> QED BY <1>0, <2>1, NoSignupMoves
<1>2. CASE \E t \in SignupTokens, l \in Limits, d \in SignupLifetimes : CreateSignupToken(t, l, d)
  <2>1. PICK t \in SignupTokens, l \in Limits, d \in SignupLifetimes : CreateSignupToken(t, l, d)
    BY <1>2
  <2> DEFINE s == [limit |-> l, used |-> 0, expiresAt |-> time + d]
  <2>2. time + d \in Nat
    BY <1>0
  <2>3. /\ s \in SignupTokenState /\ s # Absent
        /\ s.limit = l /\ s.used = 0 /\ l # 0 /\ l \in Nat
    BY <2>2, AbsentAssumption DEF SignupTokenState
  <2>4. /\ granted[t] = 0 /\ granted' = [granted EXCEPT ![t] = l]
        /\ uses' = [uses EXCEPT ![t] = s]
        /\ UNCHANGED <<migrating, time, removed>>
    BY <2>1 DEF CreateSignupToken, Created
  <2> HIDE DEF s
  <2>5. /\ uses' \in [SignupTokens -> {Absent} \cup SignupTokenState]
        /\ uses'[t] = s /\ \A x \in SignupTokens \ {t} : uses'[x] = uses[x]
    BY <1>0, <2>3, <2>4, StoredStates
  <2>6. SignupTypeOK'
    BY <1>0, <1>1, <2>4, <2>5 DEF SignupTypeOK
  <2>7. ASSUME t \notin removed PROVE TokenAddsUp(t)'
    <3>1. TokenAddsUp(t) /\ UsesTaken(t) = 0 /\ UsesTaken(t)' = 0
      BY <1>0, <1>1, <2>4, <2>7 DEF TokenAddsUp
    <3>2. t \notin Migrated
      BY <1>0, <2>4, <3>1 DEF TokenAddsUp, SignupTypeOK, SignupTokenState
    <3>3. UsedBefore(t)' = 0
      BY <3>2 DEF UsedBefore
    <3>4. granted'[t] = l
      BY <1>0, <2>4 DEF SignupTypeOK
    <3> QED BY <2>3, <2>5, <3>1, <3>2, <3>3, <3>4 DEF TokenAddsUp
  <2>8. \A x \in SignupTokens \ removed : x # t => TokenAddsUp(x)'
    <3> TAKE x \in SignupTokens \ removed
    <3>1. x # t => granted'[x] = granted[x] /\ uses'[x] = uses[x]
      BY <1>0, <2>4, <2>5 DEF SignupTypeOK
    <3> QED BY <1>0, <1>1, <2>4, <2>6, <3>1, TokenStays
  <2> QED BY <1>1, <2>4, <2>6, <2>7, <2>8 DEF SignupInv
<1>3. CASE \E t \in SignupTokens : DeleteSignupToken(t)
  <2>1. PICK t \in SignupTokens : DeleteSignupToken(t)
    BY <1>3
  <2>2. /\ uses' = [uses EXCEPT ![t] = Absent] /\ removed' = removed \cup {t}
        /\ UNCHANGED <<granted, migrating, time>>
    BY <2>1 DEF DeleteSignupToken
  <2>3. /\ uses' \in [SignupTokens -> {Absent} \cup SignupTokenState]
        /\ \A x \in SignupTokens \ {t} : uses'[x] = uses[x]
    BY <1>0, <2>2, StoredStates
  <2>4. SignupTypeOK'
    BY <1>0, <1>1, <2>2, <2>3 DEF SignupTypeOK
  <2>5. \A x \in SignupTokens \ removed' : TokenAddsUp(x)'
    <3> TAKE x \in SignupTokens \ removed'
    <3>1. uses'[x] = uses[x] /\ x \in SignupTokens \ removed
      BY <2>2, <2>3
    <3> QED BY <1>0, <1>1, <2>2, <2>4, <3>1, TokenStays
  <2> QED BY <1>1, <2>4, <2>5 DEF SignupInv
<1>4. CASE \E t \in SignupTokens : PurgeSignupToken(t)
  <2>1. PICK t \in SignupTokens : PurgeSignupToken(t)
    BY <1>4
  <2>2. /\ uses' = [uses EXCEPT ![t] = Absent]
        /\ uses[t] # Absent /\ uses[t].expiresAt <= time
        /\ UNCHANGED <<granted, migrating, time, removed>>
    BY <2>1 DEF PurgeSignupToken
  <2>3. /\ uses' \in [SignupTokens -> {Absent} \cup SignupTokenState]
        /\ uses'[t] = Absent /\ \A x \in SignupTokens \ {t} : uses'[x] = uses[x]
    BY <1>0, <2>2, StoredStates
  <2>4. SignupTypeOK'
    BY <1>0, <1>1, <2>2, <2>3 DEF SignupTypeOK
  <2>5. ASSUME t \notin removed PROVE TokenAddsUp(t)'
    <3>1. TokenAddsUp(t) /\ UsedBefore(t)' = UsedBefore(t) /\ UsesTaken(t)' = UsesTaken(t)
      BY <1>0, <1>1, <2>5 DEF UsedBefore
    <3>2. ~Live(t)' /\ uses[t].expiresAt \in Nat
      BY <1>0, <2>2, <2>3 DEF Live, SignupTypeOK, SignupTokenState
    <3>3. t \in Migrated => ~(frozen'[t].expiresAt > time')
      BY <1>0, <1>1, <2>2, <3>1, <3>2 DEF TokenAddsUp
    <3> QED BY <1>1, <2>2, <2>3, <3>1, <3>2, <3>3 DEF TokenAddsUp
  <2>6. \A x \in SignupTokens \ removed : x # t => TokenAddsUp(x)'
    BY <1>0, <1>1, <2>2, <2>3, <2>4, TokenStays
  <2> QED BY <1>1, <2>2, <2>4, <2>5, <2>6 DEF SignupInv
<1>5. CASE Start \/ Elapse \/ UNCHANGED signupVars
  <2>1. /\ UNCHANGED <<uses, granted, removed>>
        /\ migrating' \subseteq Migrated /\ time' \in 0 .. Horizon /\ time' >= time
    BY <1>0, <1>5 DEF Start, Elapse, signupVars, SignupTypeOK
  <2>2. SignupTypeOK'
    BY <1>0, <1>1, <2>1 DEF SignupTypeOK
  <2>3. \A x \in SignupTokens \ removed : TokenAddsUp(x)'
    BY <1>0, <1>1, <2>1, <2>2, TokenStays
  <2> QED BY <1>1, <2>1, <2>2, <2>3 DEF SignupInv
<1>6. CASE \E t \in Migrated : Migrate(t)
  <2>1. PICK t \in Migrated : Migrate(t)
    BY <1>6
  <2>2. /\ UNCHANGED <<granted, time, removed>> /\ migrating' \subseteq Migrated
        /\ t \in SignupTokens
    BY <1>0, <2>1 DEF Migrate, SignupTypeOK
  <2>3. CASE uses' = uses
    <3>1. SignupTypeOK'
      BY <1>0, <1>1, <2>2, <2>3 DEF SignupTypeOK
    <3>2. \A x \in SignupTokens \ removed : TokenAddsUp(x)'
      BY <1>0, <1>1, <2>2, <2>3, <3>1, TokenStays
    <3> QED BY <1>1, <2>2, <3>1, <3>2 DEF SignupInv
  <2>4. CASE uses' # uses
    <3>1. /\ uses[t] = Absent /\ frozen[t].expiresAt > time
          /\ uses' = [uses EXCEPT ![t] = frozen[t]]
      BY <2>1, <2>4 DEF Migrate, Created
    <3>2. PICK s \in SignupTokenState : s = frozen[t]
      BY <1>0 DEF SignupTypeOK
    <3>3. /\ uses' \in [SignupTokens -> {Absent} \cup SignupTokenState]
          /\ uses'[t] = frozen[t] /\ \A x \in SignupTokens \ {t} : uses'[x] = uses[x]
      BY <1>0, <2>2, <3>1, <3>2, StoredStates
    <3>4. SignupTypeOK'
      BY <1>0, <1>1, <2>2, <3>3 DEF SignupTypeOK
    <3>5. ASSUME t \notin removed PROVE TokenAddsUp(t)'
      <4>1. TokenAddsUp(t) /\ UsesTaken(t) = 0 /\ UsesTaken(t)' = 0
        BY <1>0, <1>1, <2>2, <3>1, <3>5 DEF TokenAddsUp
      <4>2. /\ UsedBefore(t)' = UsedBefore(t) /\ UsedBefore(t) = frozen[t].used
            /\ UsedBefore(t) \in Nat
        BY <1>0, <1>1, <2>2, NumbersOfSignups DEF UsedBefore
      <4>3. frozen[t].limit # 0
        BY <3>2 DEF SignupTokenState
      <4> QED BY <1>1, <2>2, <3>3, <4>1, <4>2, <4>3 DEF TokenAddsUp
    <3>6. \A x \in SignupTokens \ removed : x # t => TokenAddsUp(x)'
      BY <1>0, <1>1, <2>2, <3>3, <3>4, TokenStays
    <3> QED BY <1>1, <2>2, <3>4, <3>5, <3>6 DEF SignupInv
  <2> QED BY <2>3, <2>4
<1> QED BY <1>2, <1>3, <1>4, <1>5, <1>6

(* SignupInv is preserved by the steps of signups and setups: each shifts  *)
(* its own share between flight, accounts, losses and the counter.         *)
LEMMA SignupSteps ==
  ASSUME SignupInv, NEW p \in Signups,
         \/ SignUpOpenly(p)
         \/ \E t \in SignupTokens : ConsumeToken(p, t)
         \/ \E t \in SignupTokens : ConsumeExpiringToken(p, t)
         \/ CreateSignedUpUser(p) \/ FailSignUp(p) \/ ReleaseSignupToken(p) \/ CutShort(p)
         \/ BeginInitialSetup(p) \/ CommitInitialSetup(p)
  PROVE  SignupInv'
<1> USE SignupAssumption
<1>0. /\ SignupTypeOK /\ OneSetup
      /\ \A t \in SignupTokens \ removed : TokenAddsUp(t)
      /\ time \in Nat
  BY DEF SignupInv, SignupTypeOK
<1>1. UNCHANGED <<frozen, granted, migrating, removed>>
  BY DEF SignUpOpenly, ConsumeToken, ConsumeExpiringToken, CreateSignedUpUser, FailSignUp,
         ReleaseSignupToken, CutShort, BeginInitialSetup, CommitInitialSetup
<1>2. CASE SignUpOpenly(p)
  <2>1. PICK s \in SignupInFlight : s = [pc |-> "consumed", token |-> Absent]
    BY DEF SignupInFlight, By
  <2>2. /\ signup[p] = Free /\ signup' = [signup EXCEPT ![p] = s]
        /\ UNCHANGED <<uses, time, created, setups, lost>>
    BY <1>2, <2>1 DEF SignUpOpenly, Begin
  <2>3. /\ signup' \in [Signups -> {Free, Setup} \cup SignupInFlight]
        /\ signup' = [signup EXCEPT ![p] = signup'[p]]
        /\ signup'[p] = s /\ \A q \in Signups \ {p} : signup'[q] = signup[q]
    BY <1>0, <2>2, SignupMoves
  <2>4. SignupTypeOK'
    BY <1>0, <1>1, <2>2, <2>3 DEF SignupTypeOK
  <2>5. \A t \in SignupTokens : UsesTaken(t)' = UsesTaken(t)
    <3> TAKE t \in SignupTokens
    <3>1. Holding(p, t) = 0 /\ Holding(p, t)' = 0
      BY <2>1, <2>2, <2>3 DEF Holding, Free
    <3>2. InFlight(t)' = InFlight(t) - 0 + 0 /\ InFlight(t) \in Nat
      BY <1>0, <2>3, <3>1, FlightChanges
    <3> QED BY <2>2, <3>2 DEF UsesTaken
  <2>6. \A t \in SignupTokens \ removed : TokenAddsUp(t)'
    BY <1>0, <1>1, <2>2, <2>4, <2>5, TokenStays
  <2>7. OneSetup'
    BY <1>0, <2>1, <2>2, <2>3 DEF OneSetup, NoAccounts
  <2> QED BY <1>1, <2>4, <2>6, <2>7 DEF SignupInv
<1>3. ASSUME NEW t \in SignupTokens, signup[p] = Free, Usable(t), Begin(p, t),
             UNCHANGED <<created, setups, lost>>,
             \/ uses' = Consumed(t) /\ time' = time
             \/ uses' = uses /\ uses[t].expiresAt = time' /\ time' = time + 1 /\ time < Horizon
      PROVE  SignupInv'
  <2>1. PICK s \in SignupInFlight : s = [pc |-> "consumed", token |-> t]
    BY DEF SignupInFlight, By
  <2>2. signup' = [signup EXCEPT ![p] = s]
    BY <1>3, <2>1 DEF Begin
  <2>3. /\ signup' \in [Signups -> {Free, Setup} \cup SignupInFlight]
        /\ signup' = [signup EXCEPT ![p] = signup'[p]]
        /\ signup'[p] = s /\ \A q \in Signups \ {p} : signup'[q] = signup[q]
    BY <1>0, <2>2, SignupMoves
  <2>4. \A x \in SignupTokens : UsesTaken(x)' = UsesTaken(x) + (IF x = t THEN 1 ELSE 0)
    <3> TAKE x \in SignupTokens
    <3>1. Holding(p, x) = 0 /\ Holding(p, x)' = IF x = t THEN 1 ELSE 0
      BY <1>3, <2>1, <2>3 DEF Holding, Free
    <3>2. /\ InFlight(x) \in Nat /\ InFlight(x)' = InFlight(x) - 0 + Holding(p, x)'
      BY <1>0, <2>3, <3>1, FlightChanges
    <3> QED BY <1>0, <1>3, <3>1, <3>2, NumbersOfSignups DEF UsesTaken
  <2>5. /\ uses[t] \in SignupTokenState /\ uses[t] # Absent /\ uses[t].expiresAt > time
        /\ uses[t].used < uses[t].limit
    BY <1>0, <1>3 DEF Usable, SignupTypeOK
  <2>6. /\ uses' \in [SignupTokens -> {Absent} \cup SignupTokenState]
        /\ \A x \in SignupTokens \ {t} : uses'[x] = uses[x]
        /\ uses'[t] # Absent /\ uses'[t].limit = uses[t].limit
        /\ uses'[t].expiresAt = uses[t].expiresAt
        /\ time' = time => uses'[t].used = uses[t].used + 1
    <3>1. CASE uses' = uses /\ time' = time + 1
      BY <1>0, <1>3, <2>5, <3>1 DEF SignupTypeOK, SignupTokenState
    <3>2. CASE uses' = Consumed(t)
      <4> DEFINE s1 == [uses[t] EXCEPT !.used = @ + 1]
      <4>1. /\ s1 \in SignupTokenState /\ s1.limit = uses[t].limit
            /\ s1.expiresAt = uses[t].expiresAt /\ s1.used = uses[t].used + 1
        BY <2>5 DEF SignupTokenState
      <4>2. uses' = [uses EXCEPT ![t] = s1]
        BY <2>5, <3>2, <4>1 DEF Consumed, Saved
      <4> HIDE DEF s1
      <4>3. s1 # Absent
        BY <4>1, AbsentAssumption DEF SignupTokenState
      <4> QED BY <1>0, <4>1, <4>2, <4>3 DEF SignupTypeOK
    <3> QED BY <1>3, <3>1, <3>2
  <2>7. SignupTypeOK' /\ time' >= time
    <3>1. time' \in 0 .. Horizon /\ time' >= time
      BY <1>0, <1>3 DEF SignupTypeOK
    <3> QED BY <1>0, <1>1, <1>3, <2>3, <2>6, <3>1 DEF SignupTypeOK
  <2>8. ASSUME t \notin removed PROVE TokenAddsUp(t)'
    <3>1. TokenAddsUp(t) /\ UsedBefore(t)' = UsedBefore(t) /\ UsesTaken(t)' = UsesTaken(t) + 1
      BY <1>0, <1>1, <2>4, <2>8 DEF UsedBefore
    <3>2. Live(t) /\ uses[t].used = UsedBefore(t) + UsesTaken(t) /\ uses[t].limit = granted[t]
      BY <2>5, <3>1 DEF Live, TokenAddsUp, SignupTokenState
    <3>3. /\ UsesTaken(t) \in Nat /\ UsedBefore(t) \in Nat /\ granted[t] \in Nat
      BY <1>0, NumbersOfSignups
    <3>4. Live(t)' => time' = time
      BY <1>0, <1>3, <2>5, <2>6 DEF Live
    <3>5. UsedBefore(t) + UsesTaken(t) + 1 <= granted[t]
      BY <2>5, <3>2, <3>3 DEF SignupTokenState
    <3>6. Live(t)' => uses'[t].used = UsedBefore(t)' + UsesTaken(t)'
      BY <2>6, <3>1, <3>2, <3>3, <3>4
    <3>7. t \in Migrated => granted[t] = frozen[t].limit /\ uses[t].expiresAt = frozen[t].expiresAt
      BY <2>5, <3>1, <3>2 DEF TokenAddsUp, Live
    <3> QED BY <1>1, <2>6, <3>1, <3>2, <3>3, <3>5, <3>6, <3>7 DEF TokenAddsUp
  <2>9. \A x \in SignupTokens \ removed : x # t => TokenAddsUp(x)'
    <3> TAKE x \in SignupTokens \ removed
    <3>1. x # t => uses'[x] = uses[x] /\ UsesTaken(x)' = UsesTaken(x)
      BY <1>0, <2>4, <2>6, NumbersOfSignups
    <3> QED BY <1>0, <1>1, <2>7, <3>1, TokenStays
  <2>10. OneSetup'
    BY <1>0, <1>3, <2>1, <2>3 DEF OneSetup, NoAccounts
  <2> QED BY <1>1, <2>7, <2>8, <2>9, <2>10 DEF SignupInv
<1>4. CASE \E t \in SignupTokens : ConsumeToken(p, t)
  BY <1>3, <1>4 DEF ConsumeToken
<1>5. CASE \E t \in SignupTokens : ConsumeExpiringToken(p, t)
  BY <1>3, <1>5 DEF ConsumeExpiringToken
<1>6. CASE CreateSignedUpUser(p)
  <2> DEFINE b == signup[p].token
  <2>1. /\ signup[p].pc = "consumed" /\ UsersTableFree
        /\ created' = [created EXCEPT ![b] = @ + 1]
        /\ signup' = [signup EXCEPT ![p] = Free]
        /\ UNCHANGED <<uses, time, setups, lost>>
    BY <1>6 DEF CreateSignedUpUser
  <2>2. signup[p] \in SignupInFlight /\ b \in By
    BY <1>0, <2>1 DEF SignupTypeOK, SignupInFlight, Free, Setup
  <2>3. /\ signup' \in [Signups -> {Free, Setup} \cup SignupInFlight]
        /\ signup' = [signup EXCEPT ![p] = signup'[p]]
        /\ signup'[p] = Free /\ \A q \in Signups \ {p} : signup'[q] = signup[q]
    BY <1>0, <2>1, SignupMoves
  <2>4. SignupTypeOK'
    BY <1>0, <1>1, <2>1, <2>2, <2>3 DEF SignupTypeOK
  <2>5. \A t \in SignupTokens : UsesTaken(t)' = UsesTaken(t)
    <3> TAKE t \in SignupTokens
    <3>1. Holding(p, t) = (IF b = t THEN 1 ELSE 0) /\ Holding(p, t)' = 0
      BY <2>1, <2>3 DEF Holding, Free
    <3>2. InFlight(t)' = InFlight(t) - Holding(p, t) /\ InFlight(t) \in Nat
      BY <1>0, <2>3, <3>1, FlightChanges
    <3>3. created'[t] = created[t] + (IF b = t THEN 1 ELSE 0) /\ created[t] \in Nat
      BY <1>0, <2>1, <2>2 DEF SignupTypeOK, By
    <3>4. lost[t] \in Nat
      BY <1>0 DEF SignupTypeOK
    <3> QED BY <2>1, <3>1, <3>2, <3>3, <3>4 DEF UsesTaken
  <2>6. \A t \in SignupTokens \ removed : TokenAddsUp(t)'
    BY <1>0, <1>1, <2>1, <2>4, <2>5, TokenStays
  <2>7. OneSetup'
    BY <1>0, <2>1, <2>3 DEF OneSetup, UsersTableFree, Free
  <2> QED BY <1>1, <2>4, <2>6, <2>7 DEF SignupInv
<1>7. CASE FailSignUp(p)
  <2>1. /\ signup[p].pc = "consumed"
        /\ signup' = [signup EXCEPT ![p] = [signup[p] EXCEPT !.pc = "failed"]]
        /\ UNCHANGED <<uses, time, created, setups, lost>>
    BY <1>0, <1>7 DEF FailSignUp, SignupTypeOK
  <2>2. signup[p] \in SignupInFlight
    BY <1>0, <2>1 DEF SignupTypeOK, SignupInFlight, Free, Setup
  <2> DEFINE s == [signup[p] EXCEPT !.pc = "failed"]
  <2>3. s \in SignupInFlight /\ s.pc = "failed" /\ s.token = signup[p].token
    BY <2>2 DEF SignupInFlight
  <2> HIDE DEF s
  <2>4. /\ signup' \in [Signups -> {Free, Setup} \cup SignupInFlight]
        /\ signup' = [signup EXCEPT ![p] = signup'[p]]
        /\ signup'[p] = s /\ \A q \in Signups \ {p} : signup'[q] = signup[q]
    BY <1>0, <2>1, <2>3, SignupMoves DEF s
  <2>5. SignupTypeOK'
    BY <1>0, <1>1, <2>1, <2>4 DEF SignupTypeOK
  <2>6. \A t \in SignupTokens : UsesTaken(t)' = UsesTaken(t)
    <3> TAKE t \in SignupTokens
    <3>1. Holding(p, t)' = Holding(p, t) /\ Holding(p, t) \in {0, 1}
      BY <2>1, <2>3, <2>4 DEF Holding
    <3>2. InFlight(t)' = InFlight(t)
      BY <1>0, <2>4, <3>1, FlightChanges
    <3> QED BY <2>1, <3>2 DEF UsesTaken
  <2>7. \A t \in SignupTokens \ removed : TokenAddsUp(t)'
    BY <1>0, <1>1, <2>1, <2>5, <2>6, TokenStays
  <2>8. OneSetup'
    BY <1>0, <2>1, <2>3, <2>4 DEF OneSetup, NoAccounts
  <2> QED BY <1>1, <2>5, <2>7, <2>8 DEF SignupInv
<1>8. CASE BeginInitialSetup(p)
  <2>1. /\ signup[p] = Free /\ UsersTableFree /\ NoAccounts
        /\ signup' = [signup EXCEPT ![p] = Setup]
        /\ UNCHANGED <<uses, time, created, setups, lost>>
    BY <1>8 DEF BeginInitialSetup
  <2>2. /\ signup' \in [Signups -> {Free, Setup} \cup SignupInFlight]
        /\ signup' = [signup EXCEPT ![p] = signup'[p]]
        /\ signup'[p] = Setup /\ \A q \in Signups \ {p} : signup'[q] = signup[q]
    BY <1>0, <2>1, SignupMoves
  <2>3. SignupTypeOK'
    BY <1>0, <1>1, <2>1, <2>2 DEF SignupTypeOK
  <2>4. \A t \in SignupTokens : UsesTaken(t)' = UsesTaken(t)
    <3> TAKE t \in SignupTokens
    <3>1. Holding(p, t)' = 0 /\ Holding(p, t) = 0
      BY <2>1, <2>2 DEF Holding, Free, Setup
    <3>2. InFlight(t)' = InFlight(t) - 0 + 0 /\ InFlight(t) \in Nat
      BY <1>0, <2>2, <3>1, FlightChanges
    <3> QED BY <2>1, <3>2 DEF UsesTaken
  <2>5. \A t \in SignupTokens \ removed : TokenAddsUp(t)'
    BY <1>0, <1>1, <2>1, <2>3, <2>4, TokenStays
  <2>6. OneSetup'
    BY <1>0, <2>1, <2>2 DEF OneSetup, NoAccounts, UsersTableFree
  <2> QED BY <1>1, <2>3, <2>5, <2>6 DEF SignupInv
<1>9. CASE CommitInitialSetup(p)
  <2>1. /\ signup[p].pc = "setup" /\ setups' = setups + 1
        /\ signup' = [signup EXCEPT ![p] = Free]
        /\ UNCHANGED <<uses, time, created, lost>>
    BY <1>9 DEF CommitInitialSetup
  <2>2. signup[p] = Setup /\ setups = 0
    BY <1>0, <2>1 DEF SignupTypeOK, SignupInFlight, Free, OneSetup, NoAccounts
  <2>3. /\ signup' \in [Signups -> {Free, Setup} \cup SignupInFlight]
        /\ signup' = [signup EXCEPT ![p] = signup'[p]]
        /\ signup'[p] = Free /\ \A q \in Signups \ {p} : signup'[q] = signup[q]
    BY <1>0, <2>1, SignupMoves
  <2>4. SignupTypeOK'
    BY <1>0, <1>1, <2>1, <2>2, <2>3 DEF SignupTypeOK
  <2>5. \A t \in SignupTokens : UsesTaken(t)' = UsesTaken(t)
    <3> TAKE t \in SignupTokens
    <3>1. Holding(p, t)' = 0 /\ Holding(p, t) = 0
      BY <2>2, <2>3 DEF Holding, Free, Setup
    <3>2. InFlight(t)' = InFlight(t) - 0 + 0 /\ InFlight(t) \in Nat
      BY <1>0, <2>3, <3>1, FlightChanges
    <3> QED BY <2>1, <3>2 DEF UsesTaken
  <2>6. \A t \in SignupTokens \ removed : TokenAddsUp(t)'
    BY <1>0, <1>1, <2>1, <2>4, <2>5, TokenStays
  <2>7. OneSetup'
    BY <1>0, <2>1, <2>2, <2>3 DEF OneSetup, Free
  <2> QED BY <1>1, <2>4, <2>6, <2>7 DEF SignupInv
<1>10. CASE ReleaseSignupToken(p)
  <2> DEFINE b == signup[p].token
  <2>1. /\ signup[p].pc = "failed"
        /\ uses' = IF b = Absent THEN uses ELSE Released(b)
        /\ signup' = [signup EXCEPT ![p] = Free]
        /\ UNCHANGED <<time, created, setups, lost>>
    BY <1>10 DEF ReleaseSignupToken
  <2>2. b \in By
    BY <1>0, <2>1 DEF SignupTypeOK, SignupInFlight, Free, Setup
  <2>3. /\ signup' \in [Signups -> {Free, Setup} \cup SignupInFlight]
        /\ signup' = [signup EXCEPT ![p] = signup'[p]]
        /\ signup'[p] = Free /\ \A q \in Signups \ {p} : signup'[q] = signup[q]
    BY <1>0, <2>1, SignupMoves
  <2>4. ASSUME NEW t \in SignupTokens
        PROVE  /\ InFlight(t) \in Nat /\ UsesTaken(t)' \in Nat
               /\ UsesTaken(t)' = UsesTaken(t) - (IF b = t THEN 1 ELSE 0)
    <3>1. Holding(p, t) = (IF b = t THEN 1 ELSE 0) /\ Holding(p, t)' = 0
      BY <2>1, <2>3 DEF Holding, Free
    <3>2. /\ InFlight(t)' = InFlight(t) - Holding(p, t) + 0
          /\ InFlight(t) \in Nat /\ InFlight(t)' \in Nat
      BY <1>0, <2>3, <3>1, FlightChanges
    <3> QED BY <1>0, <2>1, <3>1, <3>2, NumbersOfSignups DEF UsesTaken
  <2>5. \/ uses' = uses /\ (b \in SignupTokens /\ Live(b) => uses[b].used = 0)
        \/ /\ b \in SignupTokens /\ Live(b) /\ uses[b].used # 0
           /\ uses' = [uses EXCEPT ![b] = [uses[b] EXCEPT !.used = @ - 1]]
    <3>1. CASE b = Absent
      BY <2>1, <3>1, SignupAssumption
    <3>2. CASE b # Absent
      <4>1. b \in SignupTokens /\ uses' = Released(b)
        BY <2>1, <2>2, <3>2 DEF By
      <4>2. uses[b] # Absent => [uses[b] EXCEPT !.used = @ - 1].expiresAt = uses[b].expiresAt
        BY <1>0, <4>1 DEF SignupTypeOK, SignupTokenState
      <4> QED BY <4>1, <4>2 DEF Released, Saved, Live
    <3> QED BY <3>1, <3>2
  <2>6. CASE uses' = uses /\ (b \in SignupTokens /\ Live(b) => uses[b].used = 0)
    <3>1. SignupTypeOK'
      BY <1>0, <1>1, <2>1, <2>3, <2>6 DEF SignupTypeOK
    <3>2. ASSUME NEW t \in SignupTokens \ removed PROVE TokenAddsUp(t)'
      <4>1. CASE b # t
        <5>1. UsesTaken(t)' = UsesTaken(t)
          BY <1>0, <2>4, <4>1, NumbersOfSignups
        <5> QED BY <1>0, <1>1, <2>1, <2>6, <3>1, <5>1, TokenStays
      <4>2. CASE b = t
        <5>1. /\ TokenAddsUp(t) /\ UsedBefore(t)' = UsedBefore(t)
              /\ UsesTaken(t) \in Nat /\ UsedBefore(t) \in Nat /\ granted[t] \in Nat
              /\ UsesTaken(t)' = UsesTaken(t) - 1 /\ UsesTaken(t)' \in Nat
          BY <1>0, <1>1, <2>4, <4>2, NumbersOfSignups DEF UsedBefore
        <5>2. ~Live(t)
          BY <2>6, <4>2, <5>1 DEF TokenAddsUp
        <5>3. ~Live(t)' /\ UsesTaken(t) # 0
          BY <2>1, <2>6, <5>1, <5>2 DEF Live
        <5> QED BY <1>1, <2>1, <2>6, <5>1, <5>3 DEF TokenAddsUp
      <4> QED BY <4>1, <4>2
    <3>3. OneSetup'
      BY <1>0, <2>1, <2>3 DEF OneSetup, NoAccounts, Free
    <3> QED BY <1>1, <3>1, <3>2, <3>3 DEF SignupInv
  <2>7. CASE /\ b \in SignupTokens /\ Live(b) /\ uses[b].used # 0
             /\ uses' = [uses EXCEPT ![b] = [uses[b] EXCEPT !.used = @ - 1]]
    <3> DEFINE s == [uses[b] EXCEPT !.used = @ - 1]
    <3>1. uses[b] \in SignupTokenState
      BY <1>0, <2>7 DEF Live, SignupTypeOK
    <3>2. /\ s \in SignupTokenState /\ s.limit = uses[b].limit
          /\ s.expiresAt = uses[b].expiresAt /\ s.used = uses[b].used - 1
      BY <2>7, <3>1 DEF SignupTokenState
    <3>3. uses' = [uses EXCEPT ![b] = s]
      BY <2>7
    <3> HIDE DEF s
    <3>4. /\ uses' \in [SignupTokens -> {Absent} \cup SignupTokenState]
          /\ uses'[b] = s /\ \A x \in SignupTokens \ {b} : uses'[x] = uses[x]
      BY <1>0, <2>7, <3>2, <3>3 DEF SignupTypeOK
    <3>5. SignupTypeOK'
      BY <1>0, <1>1, <2>1, <2>3, <3>4 DEF SignupTypeOK
    <3>6. ASSUME NEW t \in SignupTokens \ removed PROVE TokenAddsUp(t)'
      <4>1. CASE b # t
        <5>1. UsesTaken(t)' = UsesTaken(t) /\ uses'[t] = uses[t]
          BY <1>0, <2>4, <3>4, <4>1, NumbersOfSignups
        <5> QED BY <1>0, <1>1, <2>1, <3>5, <5>1, TokenStays
      <4>2. CASE b = t
        <5>1. /\ TokenAddsUp(t) /\ UsedBefore(t)' = UsedBefore(t)
              /\ UsesTaken(t) \in Nat /\ UsedBefore(t) \in Nat /\ granted[t] \in Nat
              /\ UsesTaken(t)' = UsesTaken(t) - 1 /\ UsesTaken(t)' \in Nat
          BY <1>0, <1>1, <2>4, <4>2, NumbersOfSignups DEF UsedBefore
        <5>2. /\ uses[t] # Absent /\ uses'[t] # Absent
              /\ uses[t].used = UsedBefore(t) + UsesTaken(t)
          BY <2>7, <3>2, <3>4, <4>2, <5>1, AbsentAssumption
             DEF Live, TokenAddsUp, SignupTokenState
        <5>3. granted[t] # 0 /\ granted'[t] = granted[t]
          BY <1>1, <5>1, <5>2 DEF TokenAddsUp
        <5> QED BY <1>1, <2>1, <3>2, <3>4, <4>2, <5>1, <5>2, <5>3 DEF TokenAddsUp
      <4> QED BY <4>1, <4>2
    <3>7. OneSetup'
      BY <1>0, <2>1, <2>3 DEF OneSetup, NoAccounts, Free
    <3> QED BY <1>1, <3>5, <3>6, <3>7 DEF SignupInv
  <2> QED BY <2>5, <2>6, <2>7
<1>11. CASE CutShort(p)
  <2> DEFINE b == signup[p].token
  <2>1. /\ signup[p] # Free
        /\ lost' = IF signup[p].pc # "setup" /\ b \in SignupTokens \ removed
                     THEN [lost EXCEPT ![b] = @ + 1] ELSE lost
        /\ signup' = [signup EXCEPT ![p] = Free]
        /\ UNCHANGED <<uses, time, created, setups>>
    BY <1>11 DEF CutShort
  <2>2. /\ signup' \in [Signups -> {Free, Setup} \cup SignupInFlight]
        /\ signup' = [signup EXCEPT ![p] = signup'[p]]
        /\ signup'[p] = Free /\ \A q \in Signups \ {p} : signup'[q] = signup[q]
    BY <1>0, <2>1, SignupMoves
  <2>3. lost' \in [SignupTokens -> Nat]
    BY <1>0, <2>1 DEF SignupTypeOK
  <2>4. SignupTypeOK'
    BY <1>0, <1>1, <2>1, <2>2, <2>3 DEF SignupTypeOK
  <2>5. \A t \in SignupTokens \ removed : UsesTaken(t)' = UsesTaken(t)
    <3> TAKE t \in SignupTokens \ removed
    <3>1. /\ lost'[t] = lost[t] + Holding(p, t)
          /\ Holding(p, t)' = 0 /\ Holding(p, t) \in {0, 1}
      <4>1. CASE signup[p] = Setup
        BY <1>0, <2>1, <2>2, <4>1 DEF Holding, Setup, Free, SignupTypeOK
      <4>2. CASE signup[p] \in SignupInFlight
        <5>1. signup[p].pc # "setup" /\ signup[p].pc \in {"consumed", "failed"}
          BY <4>2 DEF SignupInFlight
        <5> QED BY <1>0, <2>1, <2>2, <5>1 DEF Holding, Free, SignupTypeOK
      <4> QED BY <1>0, <2>1, <4>1, <4>2 DEF SignupTypeOK
    <3>2. InFlight(t)' = InFlight(t) - Holding(p, t) + 0 /\ InFlight(t) \in Nat
      BY <1>0, <2>2, <3>1, FlightChanges
    <3> QED BY <1>0, <2>1, <3>1, <3>2, NumbersOfSignups DEF UsesTaken
  <2>6. \A t \in SignupTokens \ removed : TokenAddsUp(t)'
    BY <1>0, <1>1, <2>1, <2>4, <2>5, TokenStays
  <2>7. OneSetup'
    BY <1>0, <2>1, <2>2 DEF OneSetup, NoAccounts, Free
  <2> QED BY <1>1, <2>4, <2>6, <2>7 DEF SignupInv
<1> QED BY <1>2, <1>4, <1>5, <1>6, <1>7, <1>8, <1>9, <1>10, <1>11

(* SignupInv holds in every reachable state.                               *)
LEMMA SignupInvariant == CredentialsSpec => []SignupInv
<1>1. CredentialsInit => SignupInv
  <2> SUFFICES ASSUME SignupInit PROVE SignupInv
    BY DEF CredentialsInit
  <2> USE SignupAssumption DEF SignupInit
  <2>1. SignupTypeOK
    <3>1. frozen \in [Migrated -> SignupTokenState]
      <4>1. UNION {0 .. l : l \in Limits} \subseteq Nat
        OBVIOUS
      <4>2. ASSUME NEW t \in Migrated PROVE frozen[t] \in SignupTokenState
        BY <4>1 DEF SignupTokenState
      <4> QED BY <4>2
    <3>2. \A t \in Migrated : frozen[t].limit \in Limits
      BY <3>1 DEF SignupTokenState
    <3>3. granted \in [SignupTokens -> {0} \cup Limits]
      BY <3>2
    <3>4. signup \in [Signups -> {Free, Setup} \cup SignupInFlight]
      OBVIOUS
    <3> QED BY <3>1, <3>3, <3>4 DEF SignupTypeOK, By
  <2>2. ASSUME NEW t \in SignupTokens PROVE TokenAddsUp(t)
    <3>1. InFlight(t) = 0
      <4>1. {p \in Signups : signup[p].pc \in {"consumed", "failed"} /\ signup[p].token = t} = {}
        BY DEF Free
      <4> QED BY <4>1, FS_EmptySet DEF InFlight
    <3>2. UsesTaken(t) = 0
      BY <3>1 DEF UsesTaken, By
    <3>3. CASE t \in Migrated
      <4>1. frozen[t].used <= frozen[t].limit /\ frozen[t].limit # 0 /\ frozen[t].used \in Nat
        BY <2>1, <3>3 DEF SignupTypeOK, SignupTokenState
      <4> QED BY <3>2, <3>3, <4>1 DEF TokenAddsUp, UsedBefore, Live
    <3>4. CASE t \notin Migrated
      BY <3>2, <3>4 DEF TokenAddsUp, UsedBefore, Live
    <3> QED BY <3>3, <3>4
  <2>3. OneSetup
    BY DEF OneSetup, Free
  <2> QED BY <2>1, <2>2, <2>3 DEF SignupInv
<1>2. SignupInv /\ [CredentialsNext]_allVars => SignupInv'
  <2> SUFFICES ASSUME SignupInv, [SignupNext]_signupVars
               PROVE  SignupInv'
    BY StepsOfCredentials
  <2> QED BY TokenSteps, SignupSteps DEF SignupNext
<1> QED BY <1>1, <1>2, PTL DEF CredentialsSpec

(* Nobody gets an account who should not: a signup token opens no more     *)
(* accounts than its limit says and its uses add up, however signups,      *)
(* failures, migrations and expiry overlap, and there is one initial       *)
(* administrator, who was there first.                                     *)
THEOREM SignupsAreEarned == CredentialsSpec => []AccountsAreEarned
<1>1. SignupInv => AccountsAreEarned
  <2> SUFFICES ASSUME SignupInv PROVE AccountsAreEarned
    OBVIOUS
  <2>1. ASSUME NEW t \in SignupTokens \ removed
        PROVE  /\ UsedBefore(t) + created[t] <= granted[t]
               /\ Live(t) => uses[t].used = UsedBefore(t) + created[t] + InFlight(t) + lost[t]
    <3>1. TokenAddsUp(t) /\ SignupTypeOK
      BY DEF SignupInv
    <3> QED BY <3>1, NumbersOfSignups DEF TokenAddsUp, UsesTaken
  <2>2. LimitHolds /\ UsesAddUp
    BY <2>1 DEF LimitHolds, UsesAddUp, Live
  <2>3. OneInitialAdmin
    BY DEF SignupInv, OneSetup, OneInitialAdmin
  <2> QED BY <2>2, <2>3 DEF AccountsAreEarned
<1> QED BY <1>1, SignupInvariant, PTL

-----------------------------------------------------------------------------
(* An email address and its verification (EmailVerification).              *)

RowProven(r) == r.verified /\ r.email # Nothing => r.email \in proven

(* The link of the actor's state can still be used, and is one that can be *)
(* cancelled exactly when it is for a change.                              *)
StateKnown ==
  state # Nothing =>
    /\ state.token \in sent \ expired
    /\ state.token \in changes <=> state.replaces # Nothing

(* A link that a verification holds was followed by the owner of its       *)
(* address and is not cancelled; it may have run out.                      *)
HeldKnown(s) ==
  /\ s.token \in sent \ cancelled
  /\ s.email \in proven
  /\ s.token \in changes => s.replaces # Nothing
  /\ s.replaces # Nothing => s.token \in changes \cup expired

(* What a request in flight holds.                                         *)
RequestKnown(p) ==
  /\ request[p].pc \in {"mail", "discard"} => request[p].token \in sent
  /\ request[p].pc \in {"update", "restore"} => HeldKnown(request[p].state)
  /\ request[p].pc = "save" => RowProven(request[p].row)

(* An inductive invariant that implies VerifiedIsProven and                *)
(* LinksKeepTheirWord.                                                     *)
EmailInv ==
  /\ EmailTypeOK
  /\ VerifiedIsProven
  /\ LatestLinkKept
  /\ CancelledLinkStopsWorking
  /\ StateKnown
  /\ \A p \in Requests : RequestKnown(p)

LEMMA EmailInitInv == EmailInit => EmailInv
<1> SUFFICES ASSUME EmailInit PROVE EmailInv
  OBVIOUS
<1> USE EmailAssumption, NoRecordAssumption DEF EmailInit
<1>1. PICK e \in Emails, d \in {"none", "ahead"} :
        row = [email |-> e, verified |-> FALSE, deadline |-> d]
  OBVIOUS
<1>2. row \in User /\ row.verified = FALSE
  BY <1>1 DEF User
<1>3. EmailTypeOK
  BY <1>2 DEF EmailTypeOK
<1>4. VerifiedIsProven
  BY <1>2 DEF VerifiedIsProven
<1>5. LatestLinkKept /\ CancelledLinkStopsWorking /\ StateKnown
  BY DEF LatestLinkKept, CancelledLinkStopsWorking, StateKnown
<1>6. \A p \in Requests : RequestKnown(p)
  BY DEF RequestKnown, NoRequest
<1> QED BY <1>3, <1>4, <1>5, <1>6 DEF EmailInv

-----------------------------------------------------------------------------
(* What stays known of the requests in flight.                             *)

(* Proofs and links are not forgotten, a link that was sent does not       *)
(* become a change, and none that a verification holds is cancelled.       *)
Remembered ==
  /\ proven \subseteq proven' /\ sent \subseteq sent'
  /\ \A t \in sent :
       /\ t \in changes' => t \in changes
       /\ t \in changes \cup expired => t \in changes' \cup expired'
       /\ t \in cancelled' => t \in cancelled \/ t \notin Held

LEMMA RequestsStay ==
  ASSUME EmailInv, Remembered,
         \A p \in Requests :
           request'[p] \in {request[p], NoRequest} \/ RequestKnown(p)'
  PROVE  \A p \in Requests : RequestKnown(p)'
<1> SUFFICES ASSUME NEW p \in Requests, request'[p] \in {request[p], NoRequest}
             PROVE  RequestKnown(p)'
  OBVIOUS
<1>1. CASE request'[p] = NoRequest
  BY <1>1 DEF RequestKnown, NoRequest
<1>2. CASE request'[p] = request[p]
  <2>1. RequestKnown(p)
    BY DEF EmailInv
  <2>2. request[p].pc \in {"mail", "discard"} => request[p].token \in sent'
    BY <2>1 DEF RequestKnown, Remembered
  <2>3. ASSUME request[p].pc \in {"update", "restore"}
        PROVE  HeldKnown(request[p].state) /\ request[p].state.token \in Held
    BY <2>1, <2>3 DEF RequestKnown, Held
  <2>4. ASSUME request[p].pc \in {"update", "restore"}
        PROVE  /\ request[p].state.token \in sent' \ cancelled'
               /\ request[p].state.email \in proven'
               /\ request[p].state.token \in changes' => request[p].state.replaces # Nothing
               /\ request[p].state.replaces # Nothing
                    => request[p].state.token \in changes' \cup expired'
    BY <2>3, <2>4 DEF HeldKnown, Remembered
  <2>5. request[p].pc = "save" =>
          (request[p].row.verified /\ request[p].row.email # Nothing
             => request[p].row.email \in proven')
    BY <2>1 DEF RequestKnown, RowProven, Remembered
  <2> QED BY <1>2, <2>2, <2>4, <2>5 DEF RequestKnown, HeldKnown, RowProven
<1> QED BY <1>1, <1>2

(* Steps that leave the links alone.                                       *)
LEMMA RowStep ==
  ASSUME EmailInv, EmailTypeOK', VerifiedIsProven', proven \subseteq proven',
         UNCHANGED <<state, sent, expired, due, changes, cancelled>>,
         \A p \in Requests :
           request'[p] \in {request[p], NoRequest} \/ RequestKnown(p)'
  PROVE  EmailInv'
<1>1. Remembered
  BY DEF Remembered
<1>2. \A p \in Requests : RequestKnown(p)'
  BY <1>1, RequestsStay
<1> QED BY <1>2 DEF EmailInv, LatestLinkKept, CancelledLinkStopsWorking, StateKnown

(* A request of p moves on to what q says.                                 *)
LEMMA Moves ==
  ASSUME EmailTypeOK, NEW p \in Requests, NEW q, Become(p, q)
  PROVE  /\ request'[p] = q
         /\ \A r \in Requests : r # p => request'[r] = request[r]
         /\ q \in {NoRequest} \cup Sending \cup Wanting \cup Delivering \cup Verifying
                    \cup Saving \cup Deleting
              => request' \in [Requests -> {NoRequest} \cup Sending \cup Wanting \cup Delivering
                                 \cup Verifying \cup Saving \cup Deleting]
  BY DEF EmailTypeOK, Become

LEMMA SettledRow ==
  ASSUME NEW r \in User
  PROVE  /\ Settled(r) \in User /\ Settled(r).email = r.email
         /\ Settled(r).verified = r.verified
         /\ r.deadline = "none" => Settled(r).deadline = "none"
  BY DEF Settled, User

(* What the user's edit makes of the row.                                  *)
LEMMA EditedRow ==
  ASSUME row \in User, NEW e \in {Nothing} \cup Emails, NEW v \in BOOLEAN
  PROVE  /\ Edited(e, v) \in User /\ Edited(e, v).email = e
         /\ Edited(e, v).verified = (IF e # Nothing /\ e # row.email THEN v ELSE row.verified)
         /\ row.deadline = "none" => Edited(e, v).deadline = "none"
<1> DEFINE w == IF e # Nothing /\ e # row.email THEN v ELSE row.verified
<1>1. w \in BOOLEAN
  BY DEF User
<1>2. PICK r : r = [row EXCEPT !.email = e, !.verified = w]
  OBVIOUS
<1>3. r \in User /\ r.email = e /\ r.verified = w /\ r.deadline = row.deadline
  BY <1>1, <1>2 DEF User
<1>4. Edited(e, v) = Settled(r)
  BY <1>2 DEF Edited, User
<1> QED BY <1>3, <1>4, SettledRow

LEMMA UpdateOwnUserStep ==
  ASSUME EmailInv, NEW p \in Requests, NEW e \in {Nothing} \cup Emails,
         NEW required \in BOOLEAN, NEW emailsVerified \in BOOLEAN,
         UpdateOwnUser(p, e, required, emailsVerified)
  PROVE  EmailInv'
<1>1. /\ row # Nothing /\ row \in User
      /\ UNCHANGED <<due, changes, cancelled, unticked>> /\ UNCHANGED mail
      /\ proven' = IF row' # row /\ emailsVerified THEN proven \cup {e} ELSE proven
  BY DEF UpdateOwnUser, EmailInv, EmailTypeOK
<1>2. PICK q \in {NoRequest} \cup Wanting : Become(p, q)
  <2>1. ASSUME NEW a \in {Nothing} \cup Emails
        PROVE  [pc |-> "want", email |-> a] \in Wanting
    BY DEF Wanting
  <2> QED BY <2>1 DEF UpdateOwnUser
<1>3. \/ row' = row
      \/ row' = Edited(e, emailsVerified)
  BY DEF UpdateOwnUser
<1>4. proven \subseteq proven' /\ proven' \subseteq {Nothing} \cup Emails
  BY <1>1 DEF EmailInv, EmailTypeOK
<1>5. row' \in User
  BY <1>1, <1>3, EditedRow
<1>6. EmailTypeOK'
  BY <1>1, <1>2, <1>4, <1>5, Moves DEF EmailInv, EmailTypeOK, mail
<1>7. VerifiedIsProven'
  <2>1. CASE row' = row
    BY <1>4, <2>1 DEF EmailInv, VerifiedIsProven
  <2>2. CASE row' = Edited(e, emailsVerified) /\ e # Nothing /\ e # row.email
    BY <1>1, <2>2, EditedRow DEF VerifiedIsProven
  <2>3. CASE row' = Edited(e, emailsVerified) /\ e = row.email
    BY <1>1, <1>4, <2>3, EditedRow DEF EmailInv, VerifiedIsProven
  <2>4. CASE row' = Edited(e, emailsVerified) /\ e = Nothing
    BY <1>1, <2>4, EditedRow DEF VerifiedIsProven
  <2> QED BY <1>3, <2>1, <2>2, <2>3, <2>4
<1>8. \A r \in Requests :
        request'[r] \in {request[r], NoRequest} \/ RequestKnown(r)'
  BY <1>2, Moves DEF EmailInv, RequestKnown, Wanting
<1> QED BY <1>1, <1>4, <1>6, <1>7, <1>8, RowStep DEF mail

LEMMA UpdateUserAsAdminStep ==
  ASSUME EmailInv, NEW e \in {Nothing} \cup Emails, NEW v \in BOOLEAN,
         UpdateUserAsAdmin(e, v)
  PROVE  EmailInv'
<1>1. /\ row # Nothing /\ row \in User
      /\ UNCHANGED <<request, due, changes, cancelled>> /\ UNCHANGED mail
      /\ proven' = IF v THEN proven \cup {e} ELSE proven
      /\ unticked' \in BOOLEAN
  BY DEF UpdateUserAsAdmin, EmailInv, EmailTypeOK
<1>2. PICK r : r = [row EXCEPT !.email = e, !.verified = v]
  OBVIOUS
<1> r \in User /\ r.email = e /\ r.verified = v
  BY <1>1, <1>2 DEF User
<1>3. row' = Settled(r)
  BY <1>2 DEF UpdateUserAsAdmin
<1>4. row' \in User /\ row'.email = e /\ row'.verified = v
  BY <1>2, <1>3, SettledRow
<1>5. proven \subseteq proven' /\ proven' \subseteq {Nothing} \cup Emails /\ (v => e \in proven')
  BY <1>1 DEF EmailInv, EmailTypeOK
<1>6. EmailTypeOK'
  BY <1>1, <1>4, <1>5 DEF EmailInv, EmailTypeOK, mail
<1>7. VerifiedIsProven'
  BY <1>4, <1>5 DEF VerifiedIsProven
<1> QED BY <1>1, <1>5, <1>6, <1>7, RowStep DEF mail

(* The steps of UpdateUserGroups, of the job that deletes signups, of time *)
(* and of the requests that end leave the addresses as they were read.     *)
LEMMA ReadForGroupsStep ==
  ASSUME EmailInv, NEW p \in Requests, ReadForGroups(p)
  PROVE  EmailInv'
<1>1. PICK q : q = [pc |-> "save", row |-> row]
  OBVIOUS
<1>2. /\ Become(p, q) /\ row \in User /\ row # Nothing
      /\ UNCHANGED row /\ UNCHANGED mail /\ UNCHANGED history
  BY <1>1 DEF ReadForGroups, EmailInv, EmailTypeOK
<1>3. q \in Saving /\ q.pc = "save" /\ q.row = row
  BY <1>1, <1>2 DEF Saving
<1>4. EmailTypeOK'
  BY <1>2, <1>3, Moves DEF EmailInv, EmailTypeOK, mail, history
<1>5. RowProven(row) /\ VerifiedIsProven'
  BY <1>2 DEF EmailInv, VerifiedIsProven, RowProven, history
<1>6. RequestKnown(p)'
  BY <1>2, <1>3, <1>5, Moves DEF EmailInv, RequestKnown, RowProven, history
<1> QED BY <1>2, <1>4, <1>5, <1>6, Moves, RowStep DEF EmailInv, mail, history

LEMMA SaveGroupsStep ==
  ASSUME EmailInv, NEW p \in Requests, SaveGroups(p)
  PROVE  EmailInv'
<1>1. PICK r \in User : r = request[p].row /\ RowProven(r)
  BY DEF SaveGroups, EmailInv, EmailTypeOK, RequestKnown, Saving, NoRequest, Sending, Wanting,
         Delivering, Verifying, Deleting
<1>2. row' = r /\ Become(p, NoRequest) /\ UNCHANGED mail /\ UNCHANGED history
  BY <1>1 DEF SaveGroups
<1>3. EmailTypeOK'
  BY <1>2, Moves DEF EmailInv, EmailTypeOK, mail, history
<1>4. VerifiedIsProven'
  BY <1>1, <1>2 DEF VerifiedIsProven, RowProven, history
<1> QED BY <1>2, <1>3, <1>4, Moves, RowStep DEF EmailInv, mail, history

LEMMA RowTimeStep ==
  ASSUME EmailInv, ClearDeadlines \/ PassDeadline
  PROVE  EmailInv'
<1>1. PICK d \in {"none", "passed"} : row' = [row EXCEPT !.deadline = d]
  BY DEF ClearDeadlines, PassDeadline
<1>2. /\ row \in User /\ row # Nothing
      /\ UNCHANGED request /\ UNCHANGED mail /\ UNCHANGED history
  BY DEF ClearDeadlines, PassDeadline, EmailInv, EmailTypeOK
<1>3. row' \in User /\ row'.email = row.email /\ row'.verified = row.verified
  BY <1>1, <1>2 DEF User
<1>4. EmailTypeOK'
  BY <1>2, <1>3 DEF EmailInv, EmailTypeOK, mail, history
<1>5. VerifiedIsProven'
  BY <1>2, <1>3 DEF EmailInv, VerifiedIsProven, history
<1> QED BY <1>2, <1>4, <1>5, RowStep DEF mail, history

LEMMA RequestEnds ==
  ASSUME EmailInv, NEW p \in Requests, NEW q \in {NoRequest} \cup Deleting, Become(p, q),
         row' \in {row, Nothing}, UNCHANGED <<state, sent, expired>>,
         inbox' \subseteq sent, UNCHANGED history
  PROVE  EmailInv'
<1>1. EmailTypeOK'
  BY Moves DEF EmailInv, EmailTypeOK, history
<1>2. VerifiedIsProven'
  BY DEF EmailInv, VerifiedIsProven, history
<1>3. \A r \in Requests : request'[r] \in {request[r], NoRequest} \/ RequestKnown(r)'
  BY Moves DEF EmailInv, RequestKnown, Deleting
<1> QED BY <1>1, <1>2, <1>3, RowStep DEF EmailInv, history

LEMMA DeletingSteps ==
  ASSUME EmailInv, NEW p \in Requests, ListOverdue(p) \/ DeleteOverdue(p) \/ Abandon(p)
  PROVE  EmailInv'
<1>1. PICK q \in {NoRequest} \cup Deleting : Become(p, q)
  BY DEF ListOverdue, DeleteOverdue, Abandon, Deleting
<1>2. row' \in {row, Nothing} /\ UNCHANGED mail /\ UNCHANGED history
  BY DEF ListOverdue, DeleteOverdue, Abandon
<1> QED BY <1>1, <1>2, RequestEnds DEF EmailInv, EmailTypeOK, mail

-----------------------------------------------------------------------------
(* Links.                                                                  *)

LEMMA LoadUserStep ==
  ASSUME EmailInv, NEW p \in Requests, LoadUser(p)
  PROVE  EmailInv'
<1>1. /\ row \in User /\ row.email \in Emails /\ row.email # Nothing
      /\ UNCHANGED row /\ UNCHANGED mail /\ UNCHANGED history
  BY EmailAssumption DEF LoadUser, EmailInv, EmailTypeOK, User
<1>2. request[p].pc = "want" => request[p].email \in {Nothing} \cup Emails
  BY DEF EmailInv, EmailTypeOK, NoRequest, Sending, Wanting, Delivering, Verifying, Saving, Deleting
<1>3. PICK q \in Sending : Become(p, q)
  <2>1. \A a \in Emails, b \in {Nothing} \cup Emails :
          [pc |-> "send", email |-> a, replaces |-> b] \in Sending
    BY DEF Sending
  <2> DEFINE e == IF request[p].pc = "want" THEN request[p].email ELSE Nothing
  <2>2. [pc |-> "send", email |-> IF e = Nothing THEN row.email ELSE e,
         replaces |-> IF e = Nothing THEN Nothing ELSE row.email] \in Sending
    <3>1. (IF e = Nothing THEN row.email ELSE e) \in Emails
      BY <1>1, <1>2
    <3>2. (IF e = Nothing THEN Nothing ELSE row.email) \in {Nothing} \cup Emails
      BY <1>1
    <3> QED BY <2>1, <3>1, <3>2
  <2> QED BY <2>2 DEF LoadUser
<1>4. EmailTypeOK'
  BY <1>1, <1>3, Moves DEF EmailInv, EmailTypeOK, mail, history
<1>5. \A r \in Requests : request'[r] \in {request[r], NoRequest} \/ RequestKnown(r)'
  BY <1>3, Moves DEF EmailInv, RequestKnown, Sending
<1>6. VerifiedIsProven'
  BY <1>1 DEF EmailInv, VerifiedIsProven, history
<1> QED BY <1>1, <1>4, <1>5, <1>6, RowStep DEF mail, history

(* A new link replaces the outstanding one.                                *)
LEMMA IssueStep ==
  ASSUME EmailInv, NEW p \in Requests, NEW t \in Links, Issue(p, t)
  PROVE  EmailInv'
<1>1. PICK q \in Sending : q = request[p]
  BY DEF Issue, EmailInv, EmailTypeOK, NoRequest, Wanting, Delivering, Verifying, Saving, Deleting
<1>2. PICK s \in State : s = [token |-> t, email |-> q.email, replaces |-> q.replaces]
  BY DEF State, Sending
<1>3. PICK m \in Delivering : m = [pc |-> "mail", token |-> t]
  BY DEF Delivering
<1>4. /\ t \notin sent /\ sent' = sent \cup {t} /\ state' = s /\ due' = t
      /\ changes' = (IF s.replaces = Nothing THEN changes ELSE changes \cup {t})
      /\ Become(p, m)
      /\ UNCHANGED <<row, inbox, expired, proven, cancelled, unticked>>
  BY <1>1, <1>2, <1>3 DEF Issue
<1>5. s.token = t /\ m.token = t /\ m.pc = "mail" /\ s # Nothing
  BY <1>2, <1>3, NoRecordAssumption
<1>6. t \notin expired /\ t \notin changes /\ t \notin cancelled
  BY <1>4 DEF EmailInv, EmailTypeOK
<1>7. EmailTypeOK'
  BY <1>4, <1>5, Moves DEF EmailInv, EmailTypeOK
<1>8. Remembered
  BY <1>4, <1>6 DEF Remembered
<1>9. RequestKnown(p)'
  BY <1>4, <1>5, Moves DEF EmailInv, RequestKnown
<1>10. \A r \in Requests : RequestKnown(r)'
  BY <1>4, <1>8, <1>9, Moves, RequestsStay DEF EmailInv
<1>11. VerifiedIsProven'
  BY <1>4 DEF EmailInv, VerifiedIsProven
<1>12. LatestLinkKept' /\ CancelledLinkStopsWorking' /\ StateKnown'
  BY <1>4, <1>5, <1>6 DEF LatestLinkKept, CancelledLinkStopsWorking, StateKnown
<1> QED BY <1>7, <1>10, <1>11, <1>12 DEF EmailInv

LEMMA DeliverStep ==
  ASSUME EmailInv, NEW p \in Requests, NEW arrives \in BOOLEAN, NEW ok \in BOOLEAN,
         Deliver(p, arrives, ok)
  PROVE  EmailInv'
<1>1. PICK q \in Delivering : q = request[p] /\ q.token \in sent
  BY DEF Deliver, EmailInv, EmailTypeOK, RequestKnown, NoRequest, Sending, Wanting, Verifying,
         Saving, Deleting
<1>2. inbox' \subseteq sent /\ UNCHANGED <<row, state, sent, expired>> /\ UNCHANGED history
  BY <1>1 DEF Deliver, EmailInv, EmailTypeOK
<1>3. CASE Become(p, NoRequest)
  BY <1>2, <1>3, RequestEnds
<1>4. CASE Become(p, [q EXCEPT !.pc = "discard"])
  <2>1. PICK m : m = [q EXCEPT !.pc = "discard"]
    OBVIOUS
  <2>2. m \in Delivering /\ m.token = q.token /\ m.pc = "discard"
    BY <2>1 DEF Delivering
  <2>3. EmailTypeOK'
    BY <1>2, <1>4, <2>1, <2>2, Moves DEF EmailInv, EmailTypeOK, history
  <2>4. RequestKnown(p)'
    BY <1>1, <1>2, <1>4, <2>1, <2>2, Moves DEF EmailInv, RequestKnown
  <2>5. VerifiedIsProven'
    BY <1>2 DEF EmailInv, VerifiedIsProven, history
  <2> QED BY <1>2, <1>4, <2>3, <2>4, <2>5, Moves, RowStep DEF EmailInv, history
<1> QED BY <1>1, <1>3, <1>4 DEF Deliver

(* Steps that take links away, or leave those there are.                   *)
LEMMA LinkStep ==
  ASSUME EmailInv, EmailTypeOK', Remembered, VerifiedIsProven',
         LatestLinkKept', CancelledLinkStopsWorking', StateKnown',
         \A p \in Requests :
           request'[p] \in {request[p], NoRequest} \/ RequestKnown(p)'
  PROVE  EmailInv'
  BY RequestsStay DEF EmailInv

LEMMA DiscardStep ==
  ASSUME EmailInv, NEW p \in Requests, Discard(p)
  PROVE  EmailInv'
<1>1. /\ state' = IF state # Nothing /\ state.token = request[p].token THEN Nothing ELSE state
      /\ due' = IF due = request[p].token THEN Nothing ELSE due
      /\ Become(p, NoRequest)
      /\ UNCHANGED <<row, sent, inbox, expired, proven, changes, cancelled, unticked>>
  BY DEF Discard, Unless
<1>2. EmailTypeOK'
  BY <1>1, Moves DEF EmailInv, EmailTypeOK
<1>3. VerifiedIsProven'
  BY <1>1 DEF EmailInv, VerifiedIsProven
<1>4. LatestLinkKept' /\ CancelledLinkStopsWorking' /\ StateKnown'
  BY <1>1 DEF EmailInv, LatestLinkKept, CancelledLinkStopsWorking, StateKnown
<1>5. Remembered
  BY <1>1 DEF Remembered
<1> QED BY <1>1, <1>2, <1>3, <1>4, <1>5, Moves, LinkStep DEF EmailInv

LEMMA ExpireStep ==
  ASSUME EmailInv, NEW t \in Links, Expire(t)
  PROVE  EmailInv'
<1>1. /\ t \in sent \ expired /\ expired' = expired \cup {t} /\ inbox' = inbox \ {t}
      /\ due' = IF due = t THEN Nothing ELSE due
      /\ state' = IF state # Nothing /\ state.token = t THEN Nothing ELSE state
      /\ changes' = changes \ {t} /\ cancelled' = cancelled \ {t}
      /\ UNCHANGED <<row, sent, request, proven, unticked>>
  BY DEF Expire, Unless
<1>2. EmailTypeOK'
  BY <1>1 DEF EmailInv, EmailTypeOK
<1>3. VerifiedIsProven'
  BY <1>1 DEF EmailInv, VerifiedIsProven
<1>4. LatestLinkKept' /\ CancelledLinkStopsWorking' /\ StateKnown'
  BY <1>1 DEF EmailInv, LatestLinkKept, CancelledLinkStopsWorking, StateKnown
<1>5. Remembered
  BY <1>1 DEF Remembered
<1> QED BY <1>1, <1>2, <1>3, <1>4, <1>5, LinkStep

-----------------------------------------------------------------------------
(* Using a link.                                                           *)

LEMMA ConsumeLinkStep ==
  ASSUME EmailInv, NEW p \in Requests, NEW t \in Links, ConsumeLink(p, t)
  PROVE  EmailInv'
<1>1. PICK s \in State : s = state /\ s.token = t
  BY DEF ConsumeLink, EmailInv, EmailTypeOK
<1>2. PICK q \in Verifying : q = [pc |-> "update", state |-> s]
  BY DEF Verifying
<1>3. /\ state # Nothing /\ state' = Nothing /\ Become(p, q)
      /\ proven' = proven \cup {s.email}
      /\ due' = IF due = t THEN Nothing ELSE due
      /\ UNCHANGED <<row, sent, inbox, expired, changes, cancelled, unticked>>
  BY <1>1, <1>2 DEF ConsumeLink, Unless, Taken
<1>4. EmailTypeOK'
  BY <1>3, Moves DEF EmailInv, EmailTypeOK, State
<1>5. VerifiedIsProven'
  BY <1>3 DEF EmailInv, VerifiedIsProven
<1>6. LatestLinkKept' /\ CancelledLinkStopsWorking' /\ StateKnown'
  BY <1>1, <1>3 DEF EmailInv, LatestLinkKept, CancelledLinkStopsWorking, StateKnown
<1>7. Remembered
  BY <1>3 DEF Remembered
<1>8. RequestKnown(p)'
  <2>1. /\ s.token \in sent \ cancelled /\ s.email \in proven'
        /\ s.token \in changes <=> s.replaces # Nothing
    BY <1>1, <1>3 DEF EmailInv, CancelledLinkStopsWorking, StateKnown
  <2>2. request'[p] = q /\ q.pc = "update" /\ q.state = s
    BY <1>2, <1>3, Moves DEF EmailInv
  <2> QED BY <1>3, <2>1, <2>2 DEF RequestKnown, HeldKnown
<1> QED BY <1>3, <1>4, <1>5, <1>6, <1>7, <1>8, Moves, LinkStep DEF EmailInv

(* The row that a verification writes has an address that was proven.      *)
LEMMA VerifiedRow ==
  ASSUME EmailInv, NEW s \in State, HeldKnown(s), Applies(s)
  PROVE  /\ Verified(s) \in User
         /\ Verified(s).email # Nothing => Verified(s).email \in proven
<1>1. row \in User /\ row # Nothing
  BY DEF Applies, EmailInv, EmailTypeOK
<1>2. (IF s.replaces # Nothing THEN s.email ELSE row.email) \in proven \cap Emails
  BY <1>1 DEF Applies, HeldKnown, State
<1> QED BY <1>2 DEF Verified, User

LEMMA UpdateSteps ==
  ASSUME EmailInv, NEW p \in Requests, UpdateRow(p) \/ FailUpdate(p)
  PROVE  EmailInv'
<1>1. PICK q \in Verifying : /\ q = request[p] /\ q.pc = "update"
                             /\ HeldKnown(q.state) /\ q.state \in State
  BY DEF UpdateRow, FailUpdate, EmailInv, EmailTypeOK, RequestKnown, NoRequest, Sending,
         Wanting, Delivering, Verifying, Saving, Deleting
<1>2. /\ row' = row \/ (Applies(q.state) /\ row' = Verified(q.state))
      /\ UNCHANGED mail /\ UNCHANGED history
  BY <1>1 DEF UpdateRow, FailUpdate
<1>3. PICK m : m = [q EXCEPT !.pc = "restore"]
  OBVIOUS
<1>4. m \in Verifying /\ m.pc = "restore" /\ m.state = q.state
  BY <1>3 DEF Verifying
<1>5. Become(p, NoRequest) \/ Become(p, m)
  BY <1>1, <1>3 DEF UpdateRow, FailUpdate
<1>6. row' \in {Nothing} \cup User
  BY <1>1, <1>2, VerifiedRow DEF EmailInv, EmailTypeOK
<1>7. EmailTypeOK'
  BY <1>2, <1>4, <1>5, <1>6, Moves DEF EmailInv, EmailTypeOK, mail, history
<1>8. VerifiedIsProven'
  BY <1>1, <1>2, VerifiedRow DEF EmailInv, VerifiedIsProven, history
<1>9. HeldKnown(q.state)'
  BY <1>1, <1>2 DEF HeldKnown, mail, history
<1>10. request'[p] = NoRequest \/ RequestKnown(p)'
  <2>1. CASE Become(p, m)
    <3>1. request'[p] = m
      BY <2>1, Moves DEF EmailInv
    <3> QED BY <1>4, <1>9, <3>1 DEF RequestKnown, HeldKnown
  <2>2. CASE Become(p, NoRequest)
    BY <2>2, Moves DEF EmailInv
  <2> QED BY <1>5, <2>1, <2>2
<1>11. \A r \in Requests : r # p => request'[r] = request[r]
  BY <1>5, Moves DEF EmailInv
<1> QED BY <1>2, <1>7, <1>8, <1>10, <1>11, RowStep DEF mail, history

(* A link that is restored finds no newer one, works again and was not     *)
(* cancelled.                                                              *)
LEMMA RestoreLinkStep ==
  ASSUME EmailInv, NEW p \in Requests, RestoreLink(p)
  PROVE  EmailInv'
<1>1. PICK q \in Verifying : /\ q = request[p] /\ q.pc = "restore"
                             /\ HeldKnown(q.state) /\ q.state \in State
  BY DEF RestoreLink, EmailInv, EmailTypeOK, RequestKnown, NoRequest, Sending, Wanting,
         Delivering, Verifying, Saving, Deleting
<1>2. PICK s \in State : s = q.state /\ s # Nothing /\ HeldKnown(s)
  BY <1>1, NoRecordAssumption
<1>3. /\ IF state = Nothing /\ s.token \notin expired
         THEN state' = s /\ due' = (IF due = Nothing THEN s.token ELSE due)
         ELSE UNCHANGED <<state, due>>
      /\ Become(p, NoRequest)
      /\ UNCHANGED <<row, sent, inbox, expired, proven, changes, cancelled, unticked>>
  BY <1>1, <1>2 DEF RestoreLink
<1>4. EmailTypeOK'
  BY <1>2, <1>3, Moves DEF EmailInv, EmailTypeOK, HeldKnown
<1>5. VerifiedIsProven'
  BY <1>3 DEF EmailInv, VerifiedIsProven
<1>6. LatestLinkKept' /\ CancelledLinkStopsWorking' /\ StateKnown'
  BY <1>2, <1>3 DEF EmailInv, LatestLinkKept, CancelledLinkStopsWorking, StateKnown, HeldKnown
<1>7. Remembered
  BY <1>3 DEF Remembered
<1> QED BY <1>3, <1>4, <1>5, <1>6, <1>7, Moves, LinkStep DEF EmailInv

(* Cancelling takes an outstanding change away, not a link for the current *)
(* address.                                                                *)
LEMMA CancelEmailChangeStep ==
  ASSUME EmailInv, CancelEmailChange
  PROVE  EmailInv'
<1>1. /\ state' = IF state # Nothing /\ state.replaces # Nothing THEN Nothing ELSE state
      /\ due' = IF due \in changes THEN Nothing ELSE due
      /\ cancelled' = cancelled \cup (changes \ Held)
      /\ UNCHANGED <<row, sent, inbox, expired, request, proven, changes, unticked>>
  BY DEF CancelEmailChange, CancelledState
<1>2. EmailTypeOK'
  BY <1>1 DEF EmailInv, EmailTypeOK
<1>3. VerifiedIsProven'
  BY <1>1 DEF EmailInv, VerifiedIsProven
<1>4. LatestLinkKept' /\ StateKnown'
  BY <1>1 DEF EmailInv, LatestLinkKept, StateKnown
<1>5. CancelledLinkStopsWorking'
  BY <1>1 DEF EmailInv, CancelledLinkStopsWorking, StateKnown
<1>6. Remembered
  BY <1>1 DEF Remembered
<1> QED BY <1>1, <1>2, <1>3, <1>4, <1>5, <1>6, LinkStep

-----------------------------------------------------------------------------
(* EmailInv is an invariant of the email verification.                     *)
THEOREM EmailInvariant == EmailSpec => []EmailInv
<1>1. EmailInit => EmailInv
  BY EmailInitInv
<1>2. ASSUME EmailInv, [EmailNext]_emailVars
      PROVE  EmailInv'
  <2>1. CASE UNCHANGED emailVars
    <3>1. EmailTypeOK' /\ VerifiedIsProven'
      BY <2>1, <1>2 DEF EmailInv, EmailTypeOK, VerifiedIsProven, emailVars
    <3> QED BY <1>2, <2>1, <3>1, RowStep DEF emailVars
  <2>2. CASE EmailNext
    BY <1>2, <2>2, UpdateOwnUserStep, UpdateUserAsAdminStep, ReadForGroupsStep,
       SaveGroupsStep, RowTimeStep, DeletingSteps, LoadUserStep, IssueStep, DeliverStep,
       DiscardStep, ExpireStep, ConsumeLinkStep, UpdateSteps, RestoreLinkStep,
       CancelEmailChangeStep DEF EmailNext
  <2> QED BY <1>2, <2>1, <2>2
<1> QED BY <1>1, <1>2, PTL DEF EmailSpec

(* An address is marked as verified only if somebody vouched for that very *)
(* address, however edits, saves of old rows and verifications interleave. *)
THEOREM VerifiedAddressesAreProven == EmailSpec => []VerifiedIsProven
<1>1. EmailInv => VerifiedIsProven
  BY DEF EmailInv
<1> QED BY <1>1, EmailInvariant, PTL

(* The link sent last works until something ends it, and a cancelled one   *)
(* does not, however deliveries fail and links are restored.               *)
THEOREM LinksDoAsPromised == EmailSpec => []LinksKeepTheirWord
<1>1. EmailInv => LinksKeepTheirWord
  BY DEF EmailInv, LinksKeepTheirWord
<1> QED BY <1>1, EmailInvariant, PTL

(* Apart from the saves of UpdateUserGroups, only an administrator takes a *)
(* verification of an unchanged address away, and nothing brings a cleared *)
(* deadline back.                                                          *)
THEOREM OnlySavesOfOldRowsUnverify == EmailSpec => OnlyStaleSavesUnverify
<1>1. ASSUME EmailTypeOK, [EmailNext]_emailVars
      PROVE  [~(\E p \in Requests : SaveGroups(p)) => Sticks]_emailVars
  <2> SUFFICES ASSUME EmailNext, ~(\E p \in Requests : SaveGroups(p)),
                      row # Nothing, row' # Nothing
               PROVE  /\ row.verified /\ row'.email = row.email => row'.verified \/ unticked'
                      /\ row.deadline = "none" => row'.deadline = "none"
    BY <1>1 DEF Sticks
  <2>0. row \in User
    BY <1>1 DEF EmailTypeOK
  <2>1. CASE UNCHANGED row
    BY <2>1
  <2>2. CASE \E p \in Requests, e \in {Nothing} \cup Emails, required, emailsVerified \in BOOLEAN :
               UpdateOwnUser(p, e, required, emailsVerified)
    BY <2>0, <2>1, <2>2, EditedRow DEF UpdateOwnUser
  <2>3. CASE \E e \in {Nothing} \cup Emails, v \in BOOLEAN : UpdateUserAsAdmin(e, v)
    <3>1. PICK e \in {Nothing} \cup Emails, v \in BOOLEAN : UpdateUserAsAdmin(e, v)
      BY <2>3
    <3>2. PICK r : r = [row EXCEPT !.email = e, !.verified = v]
      OBVIOUS
    <3>3. r \in User /\ r.email = e /\ r.verified = v /\ r.deadline = row.deadline
      BY <2>0, <3>2 DEF User
    <3>4. row' = Settled(r) /\ unticked' = (unticked \/ (row.verified /\ ~v))
      BY <3>1, <3>2 DEF UpdateUserAsAdmin
    <3> QED BY <3>3, <3>4, SettledRow
  <2>4. CASE ClearDeadlines \/ PassDeadline
    BY <2>0, <2>4 DEF ClearDeadlines, PassDeadline, User
  <2>5. CASE \E p \in Requests : UpdateRow(p) \/ FailUpdate(p)
    <3>1. PICK p \in Requests : UpdateRow(p) \/ FailUpdate(p)
      BY <2>5
    <3>2. row' = row \/ row' = Verified(request[p].state)
      BY <3>1 DEF UpdateRow, FailUpdate
    <3> QED BY <3>2 DEF Verified
  <2> QED BY <2>1, <2>2, <2>3, <2>4, <2>5
          DEF EmailNext, ReadForGroups, ListOverdue, DeleteOverdue, LoadUser, Issue, Deliver,
              Discard, Expire, ConsumeLink, RestoreLink, CancelEmailChange, Abandon
<1>2. EmailInv => EmailTypeOK
  BY DEF EmailInv
<1> QED BY <1>1, <1>2, EmailInvariant, PTL DEF EmailSpec, OnlyStaleSavesUnverify

=============================================================================
