--------------------------- MODULE OneTimeAccess ---------------------------
(***************************************************************************)
(* Login codes (backend/internal/onetimeaccess): a token is an actor whose *)
(* state is deleted when it is consumed.  The exchange consumes the token  *)
(* first, outside any transaction, and if a later step fails compensates   *)
(* by invoking the actor again to restore the state.  A crash between the  *)
(* two loses the token.                                                    *)
(*                                                                         *)
(* Times are counted in units of the shorter of the lifetimes in use.      *)
(***************************************************************************)
EXTENDS Naturals, FiniteSets

CONSTANTS
  Tokens, Users, Procs,
  Browsers,      \* device tokens: the browser a code was asked for from
  Lifetimes,     \* the ttls of new tokens
  MaxTime,       \* bound on the clock
  None

ASSUME TokenAssumption ==
  /\ Lifetimes \subseteq Nat \ {0} /\ MaxTime \in Nat
  /\ None \notin Browsers
  /\ None \notin [user : Users, browser : {None} \cup Browsers, expiresAt : Nat]

VARIABLES
  store,     \* the actor states: TokenState, None when there is none
  issued,    \* history: the state each token was issued with
  disabled,  \* disabled users
  deleted,   \* deleted users
  proc,      \* exchanges in flight
  now,
  logins,    \* history: sign-ins by token, numbered
  forgotten  \* history: tokens whose compensation did not happen

vars == <<store, issued, disabled, deleted, proc, now, logins, forgotten>>

TokenState == [user : Users, browser : {None} \cup Browsers, expiresAt : Nat]

Idle == [pc |-> "idle"]
Exchange == [pc : {"consumed", "failed"}, token : Tokens,
             browser : {None} \cup Browsers, state : TokenState]

Init ==
  /\ store = [t \in Tokens |-> None]
  /\ issued = [t \in Tokens |-> None]
  /\ disabled = {} /\ deleted = {}
  /\ proc = [p \in Procs |-> Idle]
  /\ now = 0
  /\ logins = [t \in Tokens |-> {}]
  /\ forgotten = {}

(* StoreToken, for an administrator, a user, a command or, bound to the    *)
(* browser that asks, for somebody who is not signed in.  The user is      *)
(* looked up before, and may be gone when the token is stored.             *)
StoreToken(t, u, b, ttl) ==
  /\ issued[t] = None
  /\ issued' = [issued EXCEPT ![t] =
                  [user |-> u, browser |-> b, expiresAt |-> now + ttl]]
  /\ store' = [store EXCEPT ![t] = issued'[t]]
  /\ UNCHANGED <<disabled, deleted, proc, now, logins, forgotten>>

(* tokenActor.consume: a token that expired, or belongs to another         *)
(* browser, is left alone and the exchange ends.                           *)
Consume(p, t, b) ==
  /\ proc[p] = Idle
  /\ store[t] # None /\ store[t].expiresAt > now
  /\ store[t].browser \in {None, b}
  /\ store' = [store EXCEPT ![t] = None]
  /\ proc' = [proc EXCEPT ![p] = [pc |-> "consumed", token |-> t,
                                  browser |-> b, state |-> store[t]]]
  /\ UNCHANGED <<issued, disabled, deleted, now, logins, forgotten>>

\* Mutant: a failure after the sign-in is reported as a failed exchange.
SignIn_ThenFails(p) ==
  LET q == proc[p] IN
  /\ q.pc = "consumed"
  /\ q.state.user \notin disabled \cup deleted
  /\ logins' = [logins EXCEPT ![q.token] =
                  @ \cup {<<Cardinality(@) + 1, q.state.user, q.browser, now>>}]
  /\ proc' = [proc EXCEPT ![p].pc = "failed"]
  /\ UNCHANGED <<store, issued, disabled, deleted, now, forgotten>>

(* completeTokenExchange: the user exists and is enabled.                  *)
SignIn(p) ==
  LET q == proc[p] IN
  /\ q.pc = "consumed"
  /\ q.state.user \notin disabled \cup deleted
  /\ logins' = [logins EXCEPT ![q.token] =
                  @ \cup {<<Cardinality(@) + 1, q.state.user, q.browser, now>>}]
  /\ proc' = [proc EXCEPT ![p] = Idle]
  /\ UNCHANGED <<store, issued, disabled, deleted, now, forgotten>>

(* It fails: because of the user, or of the database or the signing key.   *)
FailExchange(p) ==
  /\ proc[p].pc = "consumed"
  /\ proc' = [proc EXCEPT ![p].pc = "failed"]
  /\ UNCHANGED <<store, issued, disabled, deleted, now, logins, forgotten>>

(* The state tokenActor.restore writes is the one that was consumed.       *)
Restored(s) == s

\* Mutant: only a token of an enabled user is restored.
RestoreToken_EnabledOnly(p) ==
  LET q == proc[p] IN
  /\ q.pc = "failed"
  /\ store' = [store EXCEPT ![q.token] =
                 IF q.state.user \notin disabled THEN q.state ELSE @]
  /\ proc' = [proc EXCEPT ![p] = Idle]
  /\ UNCHANGED <<issued, disabled, deleted, now, logins, forgotten>>

(* tokenActor.restore: unless the token has run out meanwhile.             *)
RestoreToken(p) ==
  LET q == proc[p] IN
  /\ q.pc = "failed"
  /\ store' = [store EXCEPT ![q.token] =
                 IF q.state.expiresAt > now THEN Restored(q.state) ELSE @]
  /\ proc' = [proc EXCEPT ![p] = Idle]
  /\ UNCHANGED <<issued, disabled, deleted, now, logins, forgotten>>

(* The server goes down, or the compensation fails and is only logged.     *)
Crash(p) ==
  /\ proc[p] # Idle
  /\ forgotten' = forgotten \cup {proc[p].token}
  /\ proc' = [proc EXCEPT ![p] = Idle]
  /\ UNCHANGED <<store, issued, disabled, deleted, now, logins>>

(* The state of an actor is purged some time after its ttl.                *)
Purge(t) ==
  /\ store[t] # None /\ store[t].expiresAt <= now
  /\ store' = [store EXCEPT ![t] = None]
  /\ UNCHANGED <<issued, disabled, deleted, proc, now, logins, forgotten>>

ToggleDisabled(u) ==
  /\ disabled' = (disabled \ {u}) \cup ({u} \ disabled)
  /\ UNCHANGED <<store, issued, deleted, proc, now, logins, forgotten>>

DeleteUser(u) ==
  /\ u \notin deleted
  /\ deleted' = deleted \cup {u}
  /\ UNCHANGED <<store, issued, disabled, proc, now, logins, forgotten>>

Tick ==
  /\ now < MaxTime
  /\ now' = now + 1
  /\ UNCHANGED <<store, issued, disabled, deleted, proc, logins, forgotten>>

Next ==
  \/ \E t \in Tokens, u \in Users, b \in {None} \cup Browsers, ttl \in Lifetimes :
       StoreToken(t, u, b, ttl)
  \/ \E p \in Procs, t \in Tokens, b \in {None} \cup Browsers : Consume(p, t, b)
  \/ \E p \in Procs : SignIn(p)
  \/ \E p \in Procs : FailExchange(p)
  \/ \E p \in Procs : RestoreToken(p)
  \/ \E p \in Procs : Crash(p)
  \/ \E t \in Tokens : Purge(t)
  \/ \E u \in Users : ToggleDisabled(u) \/ DeleteUser(u)
  \/ Tick

Spec == Init /\ [][Next]_vars

-----------------------------------------------------------------------------
(* Properties.                                                             *)

TypeOK ==
  /\ store \in [Tokens -> {None} \cup TokenState]
  /\ issued \in [Tokens -> {None} \cup TokenState]
  /\ disabled \subseteq Users /\ deleted \subseteq Users
  /\ proc \in [Procs -> {Idle} \cup Exchange]
  /\ now \in 0 .. MaxTime
  /\ logins \in [Tokens -> SUBSET (Nat \X Users \X ({None} \cup Browsers) \X Nat)]
  /\ forgotten \subseteq Tokens

(* A login code signs in at most once, although a failed exchange puts it  *)
(* back and exchanges of the same code run at once.                        *)
UsedOnce == \A t \in Tokens : Cardinality(logins[t]) <= 1

Holders(t) == {p \in Procs : proc[p] # Idle /\ proc[p].token = t}

(* The token is in one place, in the store or with one exchange: while an  *)
(* exchange may still restore it nobody else has it.                       *)
TokenInOnePlace ==
  \A t \in Tokens :
    /\ \A p, q \in Holders(t) : p = q
    /\ Holders(t) # {} => store[t] = None

(* Nothing is lost by failing: a token that nobody used, that has not run  *)
(* out and whose compensation was not cut short can be used (again).       *)
FailureKeepsToken ==
  \A t \in Tokens :
    /\ issued[t] # None /\ issued[t].expiresAt > now
    /\ logins[t] = {} /\ Holders(t) = {} /\ t \notin forgotten
    => store[t] # None

(* Failing and retrying buys no time: a restored token runs out when it    *)
(* would have, and a code that was asked for from a browser signs in its   *)
(* own user, in that browser only.                                         *)
RestoredAsIssued ==
  \A t \in Tokens :
    /\ store[t] # None => store[t].expiresAt = issued[t].expiresAt
    /\ \A l \in logins[t] :
         issued[t].browser \in {None, l[3]} /\ issued[t].user = l[2]

(* For whom a code was made, and whom it signed in.                        *)
MadeFor == [t \in Tokens |-> IF issued[t] = None THEN {} ELSE {<<1, issued[t].user>>}]
SignedIn == [t \in Tokens |-> {<<l[1], l[2]>> : l \in logins[t]}]

CodeTicket == INSTANCE Admission
  WITH Tickets <- Tokens, Persons <- Users, bound <- MadeFor, admitted <- SignedIn

(* A login code is a ticket of the user it was made for, however often a   *)
(* failed exchange puts it back.                                           *)
LoginCodeIsTicket == CodeTicket!AdmissionSpec
=============================================================================
