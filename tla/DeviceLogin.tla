---------------------------- MODULE DeviceLogin ----------------------------
(***************************************************************************)
(* Signing in a device from another one (backend/internal/devicelogin).    *)
(* A waiting device creates a request, an actor that is addressed by a     *)
(* short user code; a user approves or denies the code elsewhere with a    *)
(* fresh passkey proof; the waiting device exchanges the approved request  *)
(* for a session.                                                          *)
(*                                                                         *)
(* One invocation of the actor is one step.  Decide spends the proof in a  *)
(* transaction of its own before it invokes the actor, Exchange peeks at   *)
(* the actor, loads the user, invokes the actor to consume the request and *)
(* only then signs: between these steps anyone else may act.  The device   *)
(* token is the device's name; user codes are few, so they are reused.     *)
(***************************************************************************)
EXTENDS Naturals, FiniteSets

CONSTANTS
  Codes,        \* user codes, the IDs of the actors
  Devices,      \* waiting devices, each with a device token of its own
  People, Calls,
  MaxProofs,    \* bound: how often a user proves themselves
  Nothing

ASSUME LoginAssumption ==
  /\ Nothing \notin People /\ Nothing \notin Devices /\ Nothing \notin Codes
  /\ MaxProofs \in Nat

VARIABLES
  state,     \* requestActorState by code; Nothing: no state, or expired
  requestID, \* the code each device was given, Nothing before
  fresh,     \* users with a reauthentication token less than a minute old
  disabled,  \* disabled users
  call,      \* decisions and exchanges in flight
  decided,   \* history: decisions <<device, user, decision>> that stuck
  spent,     \* history: approvals each user has spent a fresh proof on
  sessions,  \* history: sessions minted for each device, numbered
  lost,      \* history: devices whose request was consumed without a session
  elapsed    \* history: devices whose request ran out

loginVars ==
  <<state, requestID, fresh, disabled, call, decided, spent, sessions, lost,
    elapsed>>

Request == [device : Devices, status : {"pending", "approved", "denied"},
            user : {Nothing} \cup People]

ASSUME NoRequestAssumption == Nothing \notin Request

Free == [pc |-> "idle"]
Deciding == [pc : {"proved"}, code : Codes, user : People]
Exchanging == [pc : {"approved", "loaded", "consumed"}, code : Codes,
               device : Devices, user : People]

LoginInit ==
  /\ state = [c \in Codes |-> Nothing]
  /\ requestID = [d \in Devices |-> Nothing]
  /\ fresh = {}
  /\ disabled = {}
  /\ call = [p \in Calls |-> Free]
  /\ decided = {}
  /\ spent = [u \in People |-> 0]
  /\ sessions = [d \in Devices |-> {}]
  /\ lost = {}
  /\ elapsed = {}

\* Mutant: the hash of the device token is not compared.
BelongsTo_AnyDevice(c, d) == state[c] # Nothing

(* A live request that was created with the device token of d.             *)
BelongsTo(c, d) == state[c] # Nothing /\ state[c].device = d

Pending(c) == state[c] # Nothing /\ state[c].status = "pending"

-----------------------------------------------------------------------------
(* Service.Create.                                                         *)

(* A code whose request is alive is a collision: another one is drawn, up  *)
(* to three times.  Creation fails, and changes nothing, if all collide.   *)
Create(d, c) ==
  /\ requestID[d] = Nothing
  /\ state[c] = Nothing
  /\ state' = [state EXCEPT ![c] =
                 [device |-> d, status |-> "pending", user |-> Nothing]]
  /\ requestID' = [requestID EXCEPT ![d] = c]
  /\ UNCHANGED <<fresh, disabled, call, decided, spent, sessions, lost,
                 elapsed>>

(* The actor state lives for RequestDuration and is never prolonged.       *)
Expire(c) ==
  /\ state[c] # Nothing
  /\ state' = [state EXCEPT ![c] = Nothing]
  /\ elapsed' = elapsed \cup {state[c].device}
  /\ UNCHANGED <<requestID, fresh, disabled, call, decided, spent, sessions,
                 lost>>

-----------------------------------------------------------------------------
(* Service.Decide.                                                         *)

\* Mutant: the transaction that consumed the proof is rolled back.
ConsumeProof_Kept(p, u, c) ==
  /\ call[p] = Free
  /\ u \in fresh
  /\ call' = [call EXCEPT ![p] = [pc |-> "proved", code |-> c, user |-> u]]
  /\ UNCHANGED <<state, requestID, fresh, disabled, decided, spent, sessions,
                 lost, elapsed>>

(* consumeReauthenticationProof commits; a proof older than a minute rolls *)
(* the consumption back and ends the decision.                             *)
ConsumeProof(p, u, c) ==
  /\ call[p] = Free
  /\ u \in fresh
  /\ fresh' = fresh \ {u}
  /\ spent' = [spent EXCEPT ![u] = @ + 1]
  /\ call' = [call EXCEPT ![p] = [pc |-> "proved", code |-> c, user |-> u]]
  /\ UNCHANGED <<state, requestID, disabled, decided, sessions, lost, elapsed>>

(* requestActor.decide: only a pending request takes a decision.           *)
Decided(c, status, u) ==
  /\ Pending(c)
  /\ state' = [state EXCEPT ![c].status = status, ![c].user = u]
  /\ decided' = decided \cup {<<state[c].device, u, status>>}

Approve(p) ==
  LET q == call[p] IN
  /\ q.pc = "proved"
  /\ Decided(q.code, "approved", q.user)
  /\ call' = [call EXCEPT ![p] = Free]
  /\ UNCHANGED <<requestID, fresh, disabled, spent, sessions, lost, elapsed>>

Deny(c) ==
  /\ Decided(c, "denied", Nothing)
  /\ UNCHANGED <<requestID, fresh, disabled, call, spent, sessions, lost,
                 elapsed>>

-----------------------------------------------------------------------------
(* Service.Exchange, once its long poll sees something else than pending.  *)

(* requestActor.poll: whatever request the device names, its device token  *)
(* must be the one the request was created with.                           *)
PollApproved(p, d, c) ==
  /\ call[p] = Free
  /\ BelongsTo(c, d) /\ state[c].status = "approved"
  /\ call' = [call EXCEPT ![p] = [pc |-> "approved", code |-> c, device |-> d,
                                  user |-> state[c].user]]
  /\ UNCHANGED <<state, requestID, fresh, disabled, decided, spent, sessions,
                 lost, elapsed>>

(* loadExchangeUser: a disabled user ends the exchange and leaves the      *)
(* request untouched.                                                      *)
LoadExchangeUser(p) ==
  /\ call[p].pc = "approved"
  /\ call' = [call EXCEPT ![p] =
                IF @.user \in disabled THEN Free
                ELSE [@ EXCEPT !.pc = "loaded"]]
  /\ UNCHANGED <<state, requestID, fresh, disabled, decided, spent, sessions,
                 lost, elapsed>>

\* Mutant: the consumed request stays.
Consume_Keeps(p) ==
  LET q == call[p] IN
  /\ q.pc = "loaded"
  /\ BelongsTo(q.code, q.device)
  /\ state[q.code].status \in {"approved", "pending"}
  /\ call' = [call EXCEPT ![p].pc = "consumed"]
  /\ UNCHANGED <<state, requestID, fresh, disabled, decided, spent, sessions,
                 lost, elapsed>>

\* Mutant: the status check is inverted, approved requests are refused.
Consume_OnlyPending(p) ==
  LET q == call[p] IN
  /\ q.pc = "loaded"
  /\ BelongsTo(q.code, q.device) /\ Pending(q.code)
  /\ call' = [call EXCEPT ![p].pc = "consumed"]
  /\ UNCHANGED <<state, requestID, fresh, disabled, decided, spent, sessions,
                 lost, elapsed>>

(* requestActor.consume: an approved request is deleted.  A pending one    *)
(* comes back without an error, and Exchange goes on with it all the same: *)
(* it relies on the request of this device not being pending again.        *)
Consume(p) ==
  LET q == call[p] IN
  /\ q.pc = "loaded"
  /\ BelongsTo(q.code, q.device)
  /\ state[q.code].status # "denied"
  /\ call' = [call EXCEPT ![p].pc = "consumed"]
  /\ state' = IF Pending(q.code) THEN state
              ELSE [state EXCEPT ![q.code] = Nothing]
  /\ UNCHANGED <<requestID, fresh, disabled, decided, spent, sessions, lost,
                 elapsed>>

\* Mutant: the exchange ends after it consumed the request.
SignIn_NoSession(p) ==
  /\ call[p].pc = "consumed"
  /\ call' = [call EXCEPT ![p] = Free]
  /\ UNCHANGED <<state, requestID, fresh, disabled, decided, spent, sessions,
                 lost, elapsed>>

(* The access token is signed and the sign-in is in the audit log.         *)
SignIn(p) ==
  LET q == call[p] IN
  /\ q.pc = "consumed"
  /\ sessions' = [sessions EXCEPT ![q.device] =
                    @ \cup {<<Cardinality(@) + 1, q.user>>}]
  /\ call' = [call EXCEPT ![p] = Free]
  /\ UNCHANGED <<state, requestID, fresh, disabled, decided, spent, lost,
                 elapsed>>

(* The actor refuses, something fails, or the server goes down.  What was  *)
(* consumed before stays consumed.                                         *)
Abandon(p) ==
  LET q == call[p] IN
  /\ q # Free
  /\ lost' = IF q.pc = "consumed" THEN lost \cup {q.device} ELSE lost
  /\ call' = [call EXCEPT ![p] = Free]
  /\ UNCHANGED <<state, requestID, fresh, disabled, decided, spent, sessions,
                 elapsed>>

-----------------------------------------------------------------------------
(* Reauthentication tokens and users.                                      *)

CreateFreshProof(u) ==
  /\ u \notin fresh /\ spent[u] < MaxProofs
  /\ fresh' = fresh \cup {u}
  /\ UNCHANGED <<state, requestID, disabled, call, decided, spent, sessions,
                 lost, elapsed>>

(* After a minute the proof is too old here: using it changes nothing.     *)
AgeReauthenticationToken(u) ==
  /\ u \in fresh
  /\ fresh' = fresh \ {u}
  /\ UNCHANGED <<state, requestID, disabled, call, decided, spent, sessions,
                 lost, elapsed>>

ToggleDisabled(u) ==
  /\ disabled' = (disabled \ {u}) \cup ({u} \ disabled)
  /\ UNCHANGED <<state, requestID, fresh, call, decided, spent, sessions, lost,
                 elapsed>>

LoginNext ==
  \/ \E d \in Devices, c \in Codes : Create(d, c)
  \/ \E p \in Calls, d \in Devices, c \in Codes : PollApproved(p, d, c)
  \/ \E c \in Codes : Expire(c)
  \/ \E c \in Codes : Deny(c)
  \/ \E p \in Calls, u \in People, c \in Codes : ConsumeProof(p, u, c)
  \/ \E p \in Calls : Approve(p)
  \/ \E p \in Calls : LoadExchangeUser(p)
  \/ \E p \in Calls : Consume(p)
  \/ \E p \in Calls : SignIn(p)
  \/ \E p \in Calls : Abandon(p)
  \/ \E u \in People : CreateFreshProof(u)
  \/ \E u \in People : AgeReauthenticationToken(u)
  \/ \E u \in People : ToggleDisabled(u)

LoginSpec == LoginInit /\ [][LoginNext]_loginVars

(* The waiting device polls again whenever a long poll ends, and a server  *)
(* that is not interrupted finishes what it began.  A call that fails      *)
(* before it consumes the request is given up in the end.  Nothing makes a *)
(* call fail that has consumed it: it signs the device in unless the       *)
(* server goes down.                                                       *)
LoginFairSpec ==
  /\ LoginSpec
  /\ \A d \in Devices, c \in Codes :
       SF_loginVars(\E p \in Calls : PollApproved(p, d, c))
  /\ \A p \in Calls :
       /\ SF_loginVars(LoadExchangeUser(p))
       /\ SF_loginVars(Consume(p))
       /\ WF_loginVars(SignIn(p))
       /\ WF_loginVars(call[p].pc # "consumed" /\ Abandon(p))

-----------------------------------------------------------------------------
(* Properties.                                                             *)

LoginTypeOK ==
  /\ state \in [Codes -> {Nothing} \cup Request]
  /\ requestID \in [Devices -> {Nothing} \cup Codes]
  /\ fresh \subseteq People
  /\ disabled \subseteq People
  /\ call \in [Calls -> {Free} \cup Deciding \cup Exchanging]
  /\ decided \subseteq
       Devices \X ({Nothing} \cup People) \X {"approved", "denied"}
  /\ spent \in [People -> Nat]
  /\ sessions \in [Devices -> SUBSET (Nat \X People)]
  /\ lost \subseteq Devices
  /\ elapsed \subseteq Devices

(* A device is signed in only as the user who approved that device's own   *)
(* request, even when its code was given to another device meanwhile.      *)
SessionIsOfApprover ==
  \A d \in Devices : \A s \in sessions[d] : <<d, s[2], "approved">> \in decided

(* An approved request is good for one session, or for none if the server  *)
(* fails after consuming it, however many exchanges run at once.           *)
OneSessionPerRequest ==
  \A d \in Devices :
    Cardinality(sessions[d]) + (IF d \in lost THEN 1 ELSE 0)
      + Cardinality({p \in Calls :
                         call[p].pc = "consumed" /\ call[p].device = d})
        <= 1

(* Every approval cost its user a fresh proof of their own.                *)
ApprovalsCostProofs ==
  \A u \in People :
    Cardinality({x \in decided : x[2] = u}) <= spent[u]

(* A device gets the session that was approved for it, and that one only,  *)
(* for a proof of whoever approved it.                                     *)
SessionWasApproved ==
  SessionIsOfApprover /\ OneSessionPerRequest /\ ApprovalsCostProofs

(* A device that was approved is signed in, if its user is not disabled    *)
(* from then on, unless its request ran out first or the server failed     *)
(* after it consumed the request.  Exchanges that race for the request,    *)
(* and those that fail before they consume it, cannot keep it waiting.     *)
ApprovedDeviceSignsIn ==
  \A d \in Devices, u \in People :
    (<<d, u, "approved">> \in decided /\ [](u \notin disabled))
      ~> (sessions[d] # {} \/ d \in lost \/ d \in elapsed)

(* Who approved a device.                                                  *)
ApproversOf ==
  [d \in Devices |-> {x \in {1} \X People : <<d, x[2], "approved">> \in decided}]

LoginTicket == INSTANCE Admission
  WITH Tickets <- Devices, Persons <- People, bound <- ApproversOf, admitted <- sessions

(* A waiting device is let in by one approval of its own request, before   *)
(* its session, and by no other afterwards, whoever gets its code then.    *)
WaitingDeviceIsTicket == LoginTicket!AdmissionSpec
=============================================================================
