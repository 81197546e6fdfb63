----------------------------- MODULE PartsProofs -----------------------------
(***************************************************************************)
(* Proofs about the parts that Parts puts together, for any clients, keys, *)
(* replicas, requests and users: each part has an inductive invariant, and *)
(* the steps of the other parts leave its variables alone.                 *)
(***************************************************************************)
EXTENDS Parts, TLAPS

(* A step of the instance is a step of each part or leaves it alone.       *)
LEMMA StepsOfParts ==
  ASSUME [Next]_vars
  PROVE  /\ [AuthStep]_authVars
         /\ [KeyStep]_keyVars
         /\ [SignInStep]_signInVars
         /\ [ResourceStep]_resourceVars
  BY DEF Next, StepAccess, StepAdministration, StepAuthentication, StepClaims, StepKeys,
         StepConfiguration, StepLocation, StepImages, StepPictures, StepSignIns, StepBackup,
         Still, vars

-----------------------------------------------------------------------------
(* What a client presents once (ClientAuth).                               *)

(* The JWT IDs that are stored and those that were deleted account for     *)
(* every assertion that was accepted.                                      *)
AssertionsCounted ==
  \A a \in Assertion :
    /\ accepted[a] = forgotten[a] + IF a \in jtis THEN 1 ELSE 0
    /\ forgotten[a] > 0 => now > Expiry[a]

(* A pushed request that can still be claimed has got nowhere yet.         *)
Claimable(u) == pushed[u].at = "new" \/ (pushed[u].at = "stored" /\ pushed[u].active)

HasClaimed(v, u) == visits[v].at = "claimed" /\ visits[v].uri = u
Carries(i, u) == interactions[i].at = "pushed" /\ interactions[i].uri = u

(* It is in one place: claimed by one request, carried by one interaction  *)
(* or answered.                                                            *)
PushedIsInOnePlace ==
  \A u \in Uri :
    /\ \A v \in Visit : HasClaimed(v, u) => /\ ~Claimable(u) /\ answers[u] = 0
                                            /\ \A i \in Interaction : ~Carries(i, u)
                                            /\ \A w \in Visit : HasClaimed(w, u) => w = v
    /\ \A i \in Interaction : Carries(i, u) => /\ ~Claimable(u) /\ answers[u] = 0
                                               /\ \A j \in Interaction : Carries(j, u) => j = i
    /\ Claimable(u) => answers[u] = 0
    /\ answers[u] <= 1

PlainWasAllowed ==
  /\ ~unasked
  /\ \A i \in Interaction : interactions[i].at = "plain" => interactions[i].allowed

(* An inductive invariant that implies RequestsComeOnce.                   *)
AuthInv ==
  /\ AuthTypeOK
  /\ AssertionsCounted
  /\ PushedIsInOnePlace
  /\ PlainWasAllowed

LEMMA AuthConstants ==
  /\ \A a \in Assertion : Expiry[a] \in Nat
  /\ Skew \in Nat /\ ParLifespan \in Nat /\ MaxTime \in Nat
<1>1. Skew \in Nat /\ ParLifespan \in Nat /\ MaxTime \in Nat
  BY ClientAuthAssumption, Zenon
<1>2. \A a \in Assertion : Expiry[a] \in Nat
  BY ClientAuthAssumption
<1> QED BY <1>1, <1>2

(* The states a request at work, a pushed request and an interaction can   *)
(* be in.                                                                  *)
VisitState == {Waiting} \cup {Checked(a) : a \in Assertion}
                \cup {Read(u) : u \in Uri} \cup {Claimed(u) : u \in Uri}

PushedState == {New, Deleted} \cup
                 {Session(t, b) : t \in 0..MaxTime + ParLifespan, b \in BOOLEAN}

LEMMA VisitStates ==
  /\ Waiting \in VisitState
  /\ \A a \in Assertion : Checked(a) \in VisitState
  /\ \A u \in Uri : Read(u) \in VisitState /\ Claimed(u) \in VisitState
<1>1. Waiting \in VisitState
  BY Zenon DEF VisitState
<1>2. \A a \in Assertion : Checked(a) \in VisitState
  BY Zenon DEF VisitState
<1>3. \A u \in Uri : Read(u) \in VisitState
  BY Zenon DEF VisitState
<1>4. \A u \in Uri : Claimed(u) \in VisitState
  BY Zenon DEF VisitState
<1> QED BY <1>1, <1>2, <1>3, <1>4

LEMMA VisitFields ==
  ASSUME NEW s \in VisitState
  PROVE  /\ s.at = "checked" => s.assertion \in Assertion
         /\ s.at = "read" \/ s.at = "claimed" => s.uri \in Uri
<1>1. CASE s = Waiting
  BY <1>1 DEF Waiting
<1>2. CASE \E a \in Assertion : s = Checked(a)
  BY <1>2 DEF Checked
<1>3. CASE \E u \in Uri : s = Read(u)
  BY <1>3 DEF Read
<1>4. CASE \E u \in Uri : s = Claimed(u)
  BY <1>4 DEF Claimed
<1>5. \/ s = Waiting \/ \E a \in Assertion : s = Checked(a)
      \/ \E u \in Uri : s = Read(u) \/ \E v \in Uri : s = Claimed(v)
  BY Zenon DEF VisitState
<1> QED BY <1>1, <1>2, <1>3, <1>4, <1>5, Zenon

LEMMA PushedStates ==
  /\ New \in PushedState /\ Deleted \in PushedState
  /\ \A t \in 0..MaxTime + ParLifespan, b \in BOOLEAN : Session(t, b) \in PushedState
<1>1. New \in PushedState /\ Deleted \in PushedState
  BY DEF PushedState
<1>2. ASSUME NEW t \in 0..MaxTime + ParLifespan, NEW b \in BOOLEAN
      PROVE  Session(t, b) \in PushedState
  BY DEF PushedState
<1> QED BY <1>1, <1>2, Zenon

LEMMA ClaimedIsPushedState ==
  ASSUME NEW s \in PushedState, s.at = "stored"
  PROVE  [s EXCEPT !.active = FALSE] \in PushedState
<1>1. s # New /\ s # Deleted
  BY DEF New, Deleted
<1>2. \E t \in 0..MaxTime + ParLifespan, b \in BOOLEAN : s = Session(t, b)
  BY <1>1 DEF PushedState
<1>3. PICK t \in 0..MaxTime + ParLifespan, b \in BOOLEAN : s = Session(t, b)
  BY <1>2, Zenon
<1>4. \A c : [Session(t, b) EXCEPT !.active = c] = Session(t, c)
  BY SMT DEF Session
<1>5. Session(t, FALSE) \in PushedState
  BY PushedStates
<1> QED BY <1>3, <1>4, <1>5, Zenon

LEMMA CarriedStates ==
  /\ [at |-> "none"] \in Carried /\ [at |-> "done"] \in Carried
  /\ \A u \in Uri : [at |-> "pushed", uri |-> u] \in Carried
  /\ \A b \in BOOLEAN : [at |-> "plain", allowed |-> b] \in Carried
<1>1. [at |-> "none"] \in Carried /\ [at |-> "done"] \in Carried
  BY DEF Carried
<1>2. ASSUME NEW u \in Uri PROVE [at |-> "pushed", uri |-> u] \in Carried
  BY Zenon DEF Carried
<1>3. ASSUME NEW b \in BOOLEAN PROVE [at |-> "plain", allowed |-> b] \in Carried
  BY Zenon DEF Carried
<1> QED BY <1>1, <1>2, <1>3, Zenon

LEMMA CarriedFields ==
  ASSUME NEW s \in Carried
  PROVE  /\ s.at = "pushed" => s.uri \in Uri
         /\ s.at = "plain" => s.allowed \in BOOLEAN
<1>1. CASE \E u \in Uri : s = [at |-> "pushed", uri |-> u]
  BY <1>1
<1>2. CASE \E b \in BOOLEAN : s = [at |-> "plain", allowed |-> b]
  BY <1>2
<1>3. CASE s = [at |-> "none"] \/ s = [at |-> "done"]
  BY <1>3
<1>4. \/ \E u \in Uri : s = [at |-> "pushed", uri |-> u]
      \/ \E b \in BOOLEAN : s = [at |-> "plain", allowed |-> b]
      \/ s = [at |-> "none"] \/ s = [at |-> "done"]
  BY Zenon DEF Carried
<1> QED BY <1>1, <1>2, <1>3, <1>4, Zenon

LEMMA AuthInitInv == AuthInit => AuthInv
<1> SUFFICES ASSUME AuthInit PROVE AuthInv
  OBVIOUS
<1> USE AuthConstants DEF AuthInit
<1>0. now \in 0..MaxTime /\ jtis \subseteq Assertion
  OBVIOUS
<1>1. /\ accepted \in [Assertion -> Nat] /\ forgotten \in [Assertion -> Nat]
      /\ answers \in [Uri -> Nat] /\ required \in BOOLEAN /\ unasked \in BOOLEAN
      /\ swept \in BOOLEAN
  OBVIOUS
<1>2. visits \in [Visit -> VisitState]
  BY VisitStates
<1>3. pushed \in [Uri -> PushedState]
  BY PushedStates
<1>4. interactions \in [Interaction -> Carried]
  BY CarriedStates
<1>5. AuthTypeOK
  BY <1>0, <1>1, <1>2, <1>3, <1>4 DEF AuthTypeOK, VisitState, PushedState
<1>6. AssertionsCounted /\ PlainWasAllowed
  BY DEF AssertionsCounted, PlainWasAllowed
<1>7. PushedIsInOnePlace
  BY DEF PushedIsInOnePlace, HasClaimed, Carries, Waiting
<1> QED BY <1>5, <1>6, <1>7 DEF AuthInv

LEMMA AuthTypeStep ==
  ASSUME AuthTypeOK, [AuthStep]_authVars
  PROVE  AuthTypeOK'
<1>1. /\ now \in 0..MaxTime /\ jtis \subseteq Assertion
      /\ visits \in [Visit -> VisitState]
      /\ accepted \in [Assertion -> Nat] /\ forgotten \in [Assertion -> Nat]
      /\ pushed \in [Uri -> PushedState]
      /\ interactions \in [Interaction -> Carried] /\ answers \in [Uri -> Nat]
      /\ required \in BOOLEAN /\ unasked \in BOOLEAN /\ swept \in BOOLEAN
  BY DEF AuthTypeOK, VisitState, PushedState
<1>2. SUFFICES
        /\ now' \in 0..MaxTime /\ jtis' \subseteq Assertion
        /\ visits' \in [Visit -> VisitState]
        /\ accepted' \in [Assertion -> Nat] /\ forgotten' \in [Assertion -> Nat]
        /\ pushed' \in [Uri -> PushedState]
        /\ interactions' \in [Interaction -> Carried] /\ answers' \in [Uri -> Nat]
        /\ required' \in BOOLEAN /\ unasked' \in BOOLEAN /\ swept' \in BOOLEAN
  BY DEF AuthTypeOK, VisitState, PushedState
<1> USE <1>1, AuthConstants DEF assertionVars, parVars
<1>3. CASE UNCHANGED authVars
  BY <1>3 DEF authVars
<1>4. ASSUME NEW v \in Visit, NEW a \in Assertion, PresentAssertion(v, a)
      PROVE  visits' \in [Visit -> VisitState]
  BY <1>4, VisitStates DEF PresentAssertion, Advance
<1>5. ASSUME NEW v \in Visit, RecordAssertion(v)
      PROVE  /\ visits' \in [Visit -> VisitState] /\ jtis' \subseteq Assertion
             /\ accepted' \in [Assertion -> Nat]
  <2>1. visits[v].assertion \in Assertion
    BY <1>5, VisitFields DEF RecordAssertion
  <2>2. visits' \in [Visit -> VisitState]
    BY <1>5, VisitStates DEF RecordAssertion, Advance
  <2> QED BY <1>5, <2>1, <2>2 DEF RecordAssertion
<1>6. ASSUME CleanupExpiredClientAssertionJTIs
      PROVE  /\ jtis' \subseteq Assertion /\ swept' \in BOOLEAN
             /\ forgotten' \in [Assertion -> Nat]
  BY <1>6 DEF CleanupExpiredClientAssertionJTIs
<1>7. ASSUME NEW u \in Uri, CreatePARSession(u)
      PROVE  pushed' \in [Uri -> PushedState]
  <2>1. now + ParLifespan \in 0..MaxTime + ParLifespan
    OBVIOUS
  <2>2. Session(now + ParLifespan, TRUE) \in PushedState
    BY <2>1, PushedStates
  <2> QED BY <1>7, <2>2 DEF CreatePARSession
<1>8. ASSUME NEW v \in Visit, NEW u \in Uri, ReadPARSession(v, u)
      PROVE  visits' \in [Visit -> VisitState]
  BY <1>8, VisitStates DEF ReadPARSession, Advance
<1>9. ASSUME NEW v \in Visit, ClaimPARSession(v)
      PROVE  /\ visits' \in [Visit -> VisitState]
             /\ pushed' \in [Uri -> PushedState]
  <2>1. visits[v].uri \in Uri /\ pushed[visits[v].uri].at = "stored"
    BY <1>9, VisitFields DEF ClaimPARSession, MayClaim
  <2>2. visits' \in [Visit -> VisitState]
    BY <1>9, <2>1, VisitStates DEF ClaimPARSession, Advance
  <2>3. [pushed[visits[v].uri] EXCEPT !.active = FALSE] \in PushedState
    BY <2>1, ClaimedIsPushedState
  <2> QED BY <1>9, <2>2, <2>3 DEF ClaimPARSession
<1>10. ASSUME NEW v \in Visit, AnswerPushed(v)
       PROVE  /\ visits' \in [Visit -> VisitState]
              /\ pushed' \in [Uri -> PushedState] /\ answers' \in [Uri -> Nat]
  <2>1. visits[v].uri \in Uri
    BY <1>10, VisitFields DEF AnswerPushed
  <2>2. visits' \in [Visit -> VisitState]
    BY <1>10, VisitStates DEF AnswerPushed, Advance
  <2> QED BY <1>10, <2>1, <2>2, PushedStates DEF AnswerPushed, Gone
<1>11. ASSUME NEW v \in Visit, NEW i \in Interaction, InteractPushed(v, i)
       PROVE  /\ visits' \in [Visit -> VisitState]
              /\ pushed' \in [Uri -> PushedState]
              /\ interactions' \in [Interaction -> Carried]
  <2>1. visits[v].uri \in Uri
    BY <1>11, VisitFields DEF InteractPushed
  <2>2. visits' \in [Visit -> VisitState]
    BY <1>11, VisitStates DEF InteractPushed, Advance
  <2>3. pushed' \in [Uri -> PushedState]
    BY <1>11, <2>1, PushedStates DEF InteractPushed, Gone
  <2> QED BY <1>11, <2>1, <2>2, <2>3, CarriedStates DEF InteractPushed
<1>12. ASSUME NEW uri \in {"none", "object"}, AnswerPlain(uri)
       PROVE  unasked' \in BOOLEAN
  BY <1>12 DEF AnswerPlain
<1>13. ASSUME NEW uri \in {"none", "object"}, NEW i \in Interaction, InteractPlain(uri, i)
       PROVE  interactions' \in [Interaction -> Carried]
  <2>1. [at |-> "plain", allowed |-> ~required] \in Carried
    BY CarriedStates
  <2> QED BY <1>13, <2>1 DEF InteractPlain
<1>14. ASSUME NEW i \in Interaction, Resume(i)
       PROVE  /\ interactions' \in [Interaction -> Carried]
              /\ answers' \in [Uri -> Nat] /\ unasked' \in BOOLEAN
  <2>1. /\ interactions[i].at = "pushed" => interactions[i].uri \in Uri
        /\ interactions[i].at = "plain" => interactions[i].allowed \in BOOLEAN
    BY CarriedFields
  <2>2. interactions' \in [Interaction -> Carried]
    BY <1>14, CarriedStates DEF Resume
  <2>3. answers' \in [Uri -> Nat]
    BY <1>14, <2>1 DEF Resume
  <2>4. unasked' \in BOOLEAN
    BY <1>14 DEF Resume
  <2> QED BY <2>2, <2>3, <2>4
<1>15. ASSUME NEW v \in Visit, EndVisit(v)
       PROVE  visits' \in [Visit -> VisitState]
  BY <1>15, VisitStates DEF EndVisit, Advance
<1>16. ASSUME CleanupExpiredOAuth2Sessions
       PROVE  pushed' \in [Uri -> PushedState]
  BY <1>16, PushedStates DEF CleanupExpiredOAuth2Sessions
<1>17. ASSUME Tick PROVE now' \in 0..MaxTime
  BY <1>17 DEF Tick
<1>18. CASE \E v \in Visit, a \in Assertion : PresentAssertion(v, a)
  BY <1>4, <1>18 DEF PresentAssertion
<1>19. CASE \E v \in Visit : RecordAssertion(v)
  BY <1>5, <1>19 DEF RecordAssertion
<1>20. CASE CleanupExpiredClientAssertionJTIs
  BY <1>6, <1>20 DEF CleanupExpiredClientAssertionJTIs
<1>21. CASE \E u \in Uri : CreatePARSession(u)
  BY <1>7, <1>21 DEF CreatePARSession
<1>22. CASE \E v \in Visit, u \in Uri : ReadPARSession(v, u)
  BY <1>8, <1>22 DEF ReadPARSession
<1>23. CASE \E v \in Visit : ClaimPARSession(v)
  BY <1>9, <1>23 DEF ClaimPARSession
<1>24. CASE \E v \in Visit : AnswerPushed(v)
  BY <1>10, <1>24 DEF AnswerPushed
<1>25. CASE \E v \in Visit, i \in Interaction : InteractPushed(v, i)
  BY <1>11, <1>25 DEF InteractPushed
<1>26. CASE \E uri \in {"none", "object"} : AnswerPlain(uri)
  BY <1>12, <1>26 DEF AnswerPlain
<1>27. CASE \E uri \in {"none", "object"}, i \in Interaction : InteractPlain(uri, i)
  BY <1>13, <1>27 DEF InteractPlain
<1>28. CASE \E i \in Interaction : Resume(i)
  BY <1>14, <1>28 DEF Resume
<1>29. CASE SwitchRequirement
  BY <1>29 DEF SwitchRequirement
<1>30. CASE \E v \in Visit : EndVisit(v)
  BY <1>15, <1>30 DEF EndVisit
<1>31. CASE CleanupExpiredOAuth2Sessions
  BY <1>16, <1>31 DEF CleanupExpiredOAuth2Sessions
<1>32. CASE Tick
  BY <1>17, <1>32 DEF Tick
<1> QED BY <1>3, <1>18, <1>19, <1>20, <1>21, <1>22, <1>23, <1>24, <1>25, <1>26, <1>27, <1>28,
           <1>29, <1>30, <1>31, <1>32, Zenon DEF AuthStep

LEMMA AssertionsStep ==
  ASSUME AuthTypeOK, AssertionsCounted, [AuthStep]_authVars
  PROVE  AssertionsCounted'
<1> USE AuthConstants DEF AssertionsCounted, assertionVars, parVars
<1>1. /\ now \in Nat /\ jtis \subseteq Assertion
      /\ accepted \in [Assertion -> Nat] /\ forgotten \in [Assertion -> Nat]
  BY DEF AuthTypeOK
<1>2. CASE UNCHANGED <<now, jtis, accepted, forgotten>>
  BY <1>2
<1>3. CASE \E v \in Visit : RecordAssertion(v)
  <2>1. PICK v \in Visit : RecordAssertion(v)
    BY <1>3
  <2>2. visits[v] \in VisitState
    BY DEF AuthTypeOK, VisitState
  <2>3. visits[v].assertion \in Assertion
    BY <2>1, <2>2, VisitFields DEF RecordAssertion
  <2>4. CASE visits[v].assertion \notin jtis
    <3>1. PICK a \in Assertion : a = visits[v].assertion
      BY <2>3
    <3>2. /\ a \notin jtis /\ jtis' = jtis \cup {a}
          /\ accepted' = [accepted EXCEPT ![a] = @ + 1]
          /\ UNCHANGED <<now, forgotten>>
      BY <2>1, <2>4, <3>1 DEF RecordAssertion, Insertable
    <3> QED BY <1>1, <3>2
  <2>5. CASE visits[v].assertion \in jtis
    BY <1>2, <2>1, <2>5 DEF RecordAssertion, Insertable
  <2> QED BY <2>4, <2>5
<1>4. CASE CleanupExpiredClientAssertionJTIs
  <2> SUFFICES ASSUME NEW a \in Assertion
               PROVE  /\ accepted'[a] = forgotten'[a] + IF a \in jtis' THEN 1 ELSE 0
                      /\ forgotten'[a] > 0 => now' > Expiry[a]
    OBVIOUS
  <2>1. CASE a \in jtis /\ Expiry[a] < now
    BY <1>1, <1>4, <2>1 DEF CleanupExpiredClientAssertionJTIs
  <2>2. CASE ~(a \in jtis /\ Expiry[a] < now)
    BY <1>1, <1>4, <2>2 DEF CleanupExpiredClientAssertionJTIs
  <2> QED BY <2>1, <2>2
<1>5. CASE Tick
  BY <1>1, <1>5 DEF Tick
<1>6. CASE UNCHANGED authVars
  BY <1>2, <1>6 DEF authVars
<1> QED BY <1>2, <1>3, <1>4, <1>5, <1>6 DEF AuthStep, PresentAssertion, CreatePARSession,
           ReadPARSession, ClaimPARSession, AnswerPushed, InteractPushed, AnswerPlain,
           InteractPlain, Resume, SwitchRequirement, EndVisit, CleanupExpiredOAuth2Sessions

LEMMA PlainStep ==
  ASSUME AuthTypeOK, PlainWasAllowed, [AuthStep]_authVars
  PROVE  PlainWasAllowed'
<1> USE DEF PlainWasAllowed, assertionVars, parVars
<1>1. interactions \in [Interaction -> Carried]
  BY DEF AuthTypeOK
<1>2. CASE UNCHANGED <<interactions, unasked>>
  BY <1>2
<1>3. CASE \E v \in Visit, i \in Interaction : InteractPushed(v, i)
  BY <1>1, <1>3 DEF InteractPushed
<1>4. CASE \E uri \in {"none", "object"} : AnswerPlain(uri)
  BY <1>4 DEF AnswerPlain, MayGoOn, HasPushedRequest
<1>5. CASE \E uri \in {"none", "object"}, i \in Interaction : InteractPlain(uri, i)
  <2>1. PICK uri \in {"none", "object"}, i \in Interaction : InteractPlain(uri, i)
    BY <1>5
  <2>2. ~required
    BY <2>1 DEF InteractPlain, MayGoOn, HasPushedRequest
  <2>3. interactions'[i] = [at |-> "plain", allowed |-> ~required]
    BY <1>1, <2>1 DEF InteractPlain
  <2>4. interactions'[i].allowed = ~required
    BY <2>3
  <2>5. interactions'[i].allowed
    BY <2>2, <2>4, Zenon
  <2>6. \A j \in Interaction : j # i => interactions'[j] = interactions[j]
    BY <1>1, <2>1 DEF InteractPlain
  <2>7. unasked' = unasked
    BY <2>1 DEF InteractPlain
  <2> QED BY <2>5, <2>6, <2>7, Zenon
<1>6. CASE \E i \in Interaction : Resume(i)
  <2>1. PICK i \in Interaction : Resume(i)
    BY <1>6
  <2>2. interactions'[i].at = "done"
        /\ \A j \in Interaction : j # i => interactions'[j] = interactions[j]
    BY <1>1, <2>1 DEF Resume
  <2>3. interactions[i].at # "pushed" => interactions[i].at = "plain"
    BY <2>1 DEF Resume
  <2>4. ~unasked'
    BY <2>1, <2>3, Zenon DEF Resume
  <2>5. \A j \in Interaction : interactions'[j].at = "plain" => interactions'[j].allowed
    BY <2>2, Zenon
  <2> QED BY <2>4, <2>5, Zenon
<1>7. CASE UNCHANGED authVars
  BY <1>2, <1>7 DEF authVars
<1> QED BY <1>2, <1>3, <1>4, <1>5, <1>6, <1>7 DEF AuthStep, PresentAssertion, RecordAssertion,
           CleanupExpiredClientAssertionJTIs, CreatePARSession, ReadPARSession,
           ClaimPARSession, AnswerPushed, SwitchRequirement, EndVisit,
           CleanupExpiredOAuth2Sessions, Tick

LEMMA PushedStep ==
  ASSUME AuthTypeOK, PushedIsInOnePlace, [AuthStep]_authVars
  PROVE  PushedIsInOnePlace'
<1> USE DEF PushedIsInOnePlace, Claimable, HasClaimed, Carries, assertionVars, parVars
<1>1. /\ visits \in [Visit -> VisitState] /\ pushed \in [Uri -> PushedState]
      /\ interactions \in [Interaction -> Carried] /\ answers \in [Uri -> Nat]
  BY DEF AuthTypeOK, VisitState, PushedState
<1>2. CASE UNCHANGED <<visits, pushed, interactions, answers>>
  BY <1>2
<1>3. CASE /\ UNCHANGED <<pushed, interactions, answers>>
           /\ \E v \in Visit, s \in VisitState : s.at # "claimed" /\ Advance(v, s)
  BY <1>1, <1>3 DEF Advance
<1>4. CASE \E u \in Uri : CreatePARSession(u)
  <2>1. PICK u \in Uri : CreatePARSession(u)
    BY <1>4
  <2>2. /\ Claimable(u) /\ UNCHANGED <<visits, interactions, answers>>
        /\ \A w \in Uri : w # u => pushed'[w] = pushed[w]
    BY <1>1, <2>1 DEF CreatePARSession, New
  <2> QED BY <1>1, <2>2
<1>5. CASE \E v \in Visit : ClaimPARSession(v)
  <2>1. PICK v \in Visit : ClaimPARSession(v)
    BY <1>5
  <2>2. PICK u \in Uri : u = visits[v].uri
    BY <1>1, <2>1, VisitFields DEF ClaimPARSession
  <2>3. /\ Claimable(u) /\ ~(Claimable(u))' /\ UNCHANGED <<interactions, answers>>
        /\ \A w \in Uri : w # u => pushed'[w] = pushed[w]
    BY <1>1, <2>1, <2>2 DEF ClaimPARSession, MayClaim
  <2>4. visits'[v] = [at |-> "claimed", uri |-> u]
        /\ \A w \in Visit : w # v => visits'[w] = visits[w]
    BY <1>1, <2>1, <2>2 DEF ClaimPARSession, Advance, Claimed
  <2> QED BY <1>1, <2>3, <2>4
<1>6. CASE \E v \in Visit : AnswerPushed(v)
  <2>1. PICK v \in Visit : AnswerPushed(v)
    BY <1>6
  <2>2. PICK u \in Uri : u = visits[v].uri
    BY <1>1, <2>1, VisitFields DEF AnswerPushed
  <2>3. HasClaimed(v, u)
    BY <2>1, <2>2 DEF AnswerPushed
  <2>4. /\ ~(Claimable(u))' /\ answers'[u] = answers[u] + 1 /\ UNCHANGED interactions
        /\ \A w \in Uri : w # u => pushed'[w] = pushed[w] /\ answers'[w] = answers[w]
    BY <1>1, <2>1, <2>2 DEF AnswerPushed, Gone, Deleted
  <2>5. visits'[v].at = "waiting" /\ \A w \in Visit : w # v => visits'[w] = visits[w]
    BY <1>1, <2>1 DEF AnswerPushed, Advance, Waiting
  <2> QED BY <1>1, <2>3, <2>4, <2>5
<1>7. CASE \E v \in Visit, i \in Interaction : InteractPushed(v, i)
  <2>1. PICK v \in Visit, i \in Interaction : InteractPushed(v, i)
    BY <1>7
  <2>2. PICK u \in Uri : u = visits[v].uri
    BY <1>1, <2>1, VisitFields DEF InteractPushed
  <2>3. HasClaimed(v, u)
    BY <2>1, <2>2 DEF InteractPushed
  <2>4. /\ ~(Claimable(u))' /\ UNCHANGED answers
        /\ \A w \in Uri : w # u => pushed'[w] = pushed[w]
    BY <1>1, <2>1, <2>2 DEF InteractPushed, Gone, Deleted
  <2>5. visits'[v].at = "waiting" /\ \A w \in Visit : w # v => visits'[w] = visits[w]
    BY <1>1, <2>1 DEF InteractPushed, Advance, Waiting
  <2>6. /\ interactions[i].at = "none" /\ interactions'[i] = [at |-> "pushed", uri |-> u]
        /\ \A j \in Interaction : j # i => interactions'[j] = interactions[j]
    BY <1>1, <2>1, <2>2 DEF InteractPushed
  <2> QED BY <1>1, <2>3, <2>4, <2>5, <2>6
<1>8. CASE \E uri \in {"none", "object"}, i \in Interaction : InteractPlain(uri, i)
  BY <1>1, <1>8 DEF InteractPlain
<1>9. CASE \E i \in Interaction : Resume(i)
  <2>1. PICK i \in Interaction : Resume(i)
    BY <1>9
  <2>2. /\ interactions'[i].at = "done" /\ UNCHANGED <<visits, pushed>>
        /\ \A j \in Interaction : j # i => interactions'[j] = interactions[j]
    BY <1>1, <2>1 DEF Resume
  <2>3. CASE interactions[i].at = "plain"
    BY <1>1, <2>1, <2>2, <2>3 DEF Resume
  <2>4. CASE interactions[i].at = "pushed"
    <3>1. PICK u \in Uri : u = interactions[i].uri
      BY <1>1, <2>4, CarriedFields
    <3>2. answers'[u] = answers[u] + 1 /\ \A w \in Uri : w # u => answers'[w] = answers[w]
      BY <1>1, <2>1, <2>4, <3>1 DEF Resume
    <3> QED BY <1>1, <2>2, <2>4, <3>1, <3>2
  <2> QED BY <2>1, <2>3, <2>4 DEF Resume
<1>10. CASE CleanupExpiredOAuth2Sessions
  <2>1. UNCHANGED <<visits, interactions, answers>>
        /\ \A u \in Uri : pushed'[u] = pushed[u] \/ pushed'[u] = Deleted
    BY <1>1, <1>10 DEF CleanupExpiredOAuth2Sessions
  <2> QED BY <2>1 DEF Deleted
<1>11. CASE UNCHANGED authVars
  BY <1>2, <1>11 DEF authVars
<1>12. CASE \E v \in Visit, a \in Assertion : PresentAssertion(v, a)
  BY <1>3, <1>12, VisitStates DEF PresentAssertion, Checked
<1>13. CASE \E v \in Visit : RecordAssertion(v) \/ EndVisit(v)
  BY <1>3, <1>13, VisitStates DEF RecordAssertion, EndVisit, Waiting
<1>14. CASE \E v \in Visit, u \in Uri : ReadPARSession(v, u)
  BY <1>3, <1>14, VisitStates DEF ReadPARSession, Read
<1>15. CASE \/ CleanupExpiredClientAssertionJTIs \/ SwitchRequirement \/ Tick
            \/ \E uri \in {"none", "object"} : AnswerPlain(uri)
  BY <1>2, <1>15 DEF CleanupExpiredClientAssertionJTIs, SwitchRequirement, Tick, AnswerPlain
<1> QED BY <1>4, <1>5, <1>6, <1>7, <1>8, <1>9, <1>10, <1>11, <1>12, <1>13, <1>14, <1>15, Zenon
        DEF AuthStep

(* The invariant of client authentication and pushed requests, for any     *)
(* assertions, requests and interactions.                                  *)
THEOREM AuthInvariant == Spec => []AuthInv
<1>1. Init => AuthInv
  BY AuthInitInv DEF Init
<1>2. AuthInv /\ [Next]_vars => AuthInv'
  BY StepsOfParts, AuthTypeStep, AssertionsStep, PlainStep, PushedStep DEF AuthInv
<1> QED BY <1>1, <1>2, PTL DEF Spec

(* An assertion authenticates a client once for each time its JWT ID was   *)
(* forgotten, which happens after it expired; a pushed request is answered *)
(* once; and no request that had to be pushed is answered without.         *)
THEOREM ClientsComeOnce == Spec => []RequestsComeOnce
<1>1. AuthInv => RequestsComeOnce
  <2> SUFFICES ASSUME AuthInv PROVE RequestsComeOnce
    OBVIOUS
  <2>1. \A u \in Uri : answers[u] <= 1
    BY DEF AuthInv, PushedIsInOnePlace
  <2>2. ASSUME NEW a \in Assertion
        PROVE  accepted[a] <= 1 + forgotten[a] /\ (forgotten[a] > 0 => now > Expiry[a])
    BY DEF AuthInv, AuthTypeOK, AssertionsCounted
  <2> QED BY <2>1, <2>2 DEF AuthInv, PlainWasAllowed, RequestsComeOnce, PresentedOnce,
             PushRequirementHonoured
<1> QED BY <1>1, AuthInvariant, PTL

-----------------------------------------------------------------------------
(* The keys replicas sign with (Keys).                                     *)

(* A start and a replica that runs have the fields of such a state.        *)
Shaped(q) ==
  /\ q.at \in {"load", "save"} =>
       /\ q = Starting(q.at, q.under, q.held, q.kind, q.tries)
       /\ q.kind \in Kind /\ DOMAIN q.held = Kind
  /\ q.at = "running" => q = Running(q.held)

KeysTypeOK ==
  /\ DOMAIN stored = Kind /\ DOMAIN replica = Replica
  /\ \A r \in Replica : Shaped(replica[r])

(* Whoever has got a key got it from a row, or made the row, and the row   *)
(* still has it unless it was rotated since.                               *)
Has(q, k) ==
  \/ q.at = "running"
  \/ q.at \in {"load", "save"} /\ k = "signing" /\ q.kind = "session"

KeysAreStored ==
  \A r \in Replica, k \in Kind :
    Has(replica[r], k) =>
      /\ stored[k] # Unstored
      /\ replica[r].held[k] = stored[k].material \/ <<r, k>> \in outdated

(* An inductive invariant that implies ReplicasAgreeOnKeys.                *)
KeysInv == KeysTypeOK /\ KeysAreStored

LEMMA RowIsStored == ASSUME NEW m, NEW e PROVE Row(m, e) # Unstored
<1>1. "under" \in DOMAIN Row(m, e)
  BY DEF Row
<1>2. "under" \notin DOMAIN Unstored
  BY DEF Unstored
<1> QED BY <1>1, <1>2

LEMMA KeysInitInv == KeyInit => KeysInv
  BY DEF KeyInit, KeysInv, KeysTypeOK, KeysAreStored, Shaped, Has, Down

(* A step of one replica that keeps the rows there are.                    *)
LEMMA ReplicaMoves ==
  ASSUME KeysInv, NEW r \in Replica, NEW q, Become(r, q), Shaped(q),
         DOMAIN stored' = Kind,
         \A k \in Kind : stored[k] # Unstored => stored'[k] = stored[k],
         \A s \in Replica, k \in Kind : s # r /\ <<s, k>> \in outdated => <<s, k>> \in outdated',
         \A k \in Kind : Has(q, k) => /\ stored'[k] # Unstored
                                      /\ q.held[k] = stored'[k].material \/ <<r, k>> \in outdated'
  PROVE  KeysInv'
<1>1. /\ DOMAIN replica' = Replica /\ replica'[r] = q
      /\ \A s \in Replica : s # r => replica'[s] = replica[s]
  BY DEF KeysInv, KeysTypeOK, Become
<1>2. KeysTypeOK'
  BY <1>1 DEF KeysInv, KeysTypeOK, Shaped
<1>3. KeysAreStored'
  <2> SUFFICES ASSUME NEW s \in Replica, NEW k \in Kind, Has(replica'[s], k)
               PROVE  /\ stored'[k] # Unstored
                      /\ replica'[s].held[k] = stored'[k].material \/ <<s, k>> \in outdated'
    BY DEF KeysAreStored, Has, Unstored
  <2>1. CASE s = r
    BY <1>1, <2>1
  <2>2. CASE s # r
    BY <1>1, <2>2 DEF KeysInv, KeysAreStored
  <2> QED BY <2>1, <2>2
<1> QED BY <1>2, <1>3 DEF KeysInv

(* What a start becomes that has a key.                                    *)
LEMMA HoldingShape ==
  ASSUME NEW q, NEW key, q.at \in {"load", "save"}, Shaped(q)
  PROVE  /\ Shaped(Holding(q, key))
         /\ \A k \in Kind : Has(Holding(q, key), k) => 
              \/ k = q.kind /\ Holding(q, key).held[k] = key
              \/ k # q.kind /\ Has(q, k) /\ Holding(q, key).held[k] = q.held[k]
<1> DEFINE held == [q.held EXCEPT ![q.kind] = key]
<1>1. /\ q.kind \in Kind /\ DOMAIN held = Kind /\ held[q.kind] = key
      /\ \A k \in Kind : k # q.kind => held[k] = q.held[k]
  BY DEF Shaped
<1> HIDE DEF held
<1>2. CASE q.kind = "signing"
  <2>1. Holding(q, key) = Starting("load", q.under, held, "session", 0)
    BY <1>2 DEF Holding, held
  <2> QED BY <1>1, <1>2, <2>1 DEF Shaped, Starting, Has, Kind
<1>3. CASE q.kind = "session"
  <2>1. Holding(q, key) = Running(held)
    BY <1>3 DEF Holding, held
  <2>2. \A k \in Kind : k # q.kind => Has(q, k)
    BY <1>3 DEF Has, Kind
  <2> QED BY <1>1, <2>1, <2>2 DEF Shaped, Running, Has
<1> QED BY <1>1, <1>2, <1>3 DEF Kind

LEMMA KeysStep ==
  ASSUME KeysInv, [KeyStep]_keyVars
  PROVE  KeysInv'
<1>0. DOMAIN stored = Kind /\ DOMAIN replica = Replica /\ \A r \in Replica : Shaped(replica[r])
  BY DEF KeysInv, KeysTypeOK
<1>1. ASSUME NEW r \in Replica, NEW e \in EncryptionKey, StartReplica(r, e)
      PROVE  KeysInv'
  <2> DEFINE q == Starting("load", e, Nothing, "signing", 0)
  <2>1. Shaped(q) /\ \A k \in Kind : ~Has(q, k)
    BY DEF Shaped, Has, Starting, Nothing, Kind
  <2>2. \A s \in Replica, k \in Kind : s # r /\ <<s, k>> \in outdated => <<s, k>> \in outdated'
    BY <1>1 DEF StartReplica
  <2>3. Become(r, q) /\ stored' = stored
    BY <1>1 DEF StartReplica
  <2> HIDE DEF q
  <2> QED BY <1>0, <2>1, <2>2, <2>3, ReplicaMoves
<1>2. ASSUME NEW r \in Replica, LoadKey(r)
      PROVE  KeysInv'
  <2>0. PICK q : q = replica[r]
    OBVIOUS
  <2>1. /\ q.at = "load" /\ Shaped(q) /\ q.kind \in Kind /\ UNCHANGED <<stored, outdated>>
        /\ \A k \in Kind : Has(q, k) =>
             stored[k] # Unstored /\ (q.held[k] = stored[k].material \/ <<r, k>> \in outdated)
    BY <1>0, <1>2, <2>0 DEF LoadKey, Shaped, KeysInv, KeysAreStored
  <2>2. CASE Readable(stored[q.kind], q.under)
    <3>1. Become(r, Holding(q, stored[q.kind].material))
      BY <1>2, <2>0, <2>2 DEF LoadKey
    <3>2. PICK key : key = stored[q.kind].material
      OBVIOUS
    <3>3. PICK h : h = Holding(q, key)
      OBVIOUS
    <3>4. /\ Shaped(h)
          /\ \A k \in Kind : Has(h, k) => \/ k = q.kind /\ h.held[k] = key
                                          \/ k # q.kind /\ Has(q, k) /\ h.held[k] = q.held[k]
      BY <2>1, <3>3, HoldingShape
    <3>5. stored[q.kind] # Unstored
      BY <2>2 DEF Readable
    <3>6. \A k \in Kind : Has(h, k) =>
            /\ stored'[k] # Unstored
            /\ h.held[k] = stored'[k].material \/ <<r, k>> \in outdated'
      BY <2>1, <3>2, <3>4, <3>5
    <3> QED BY <1>0, <2>1, <3>1, <3>2, <3>3, <3>4, <3>6, ReplicaMoves
  <2>3. CASE ~Readable(stored[q.kind], q.under) /\ MayGenerate(q)
    <3>1. PICK key : key = Fresh(q.kind)
      OBVIOUS
    <3>2. PICK held : held = [q.held EXCEPT ![q.kind] = key]
      OBVIOUS
    <3>3. PICK h : h = Starting("save", q.under, held, q.kind, q.tries)
      OBVIOUS
    <3>4. [q EXCEPT !.at = "save", !.held[q.kind] = Fresh(q.kind)] = h
      <4>1. PICK saving : saving = [q EXCEPT !.at = "save"]
        OBVIOUS
      <4>2. q = Starting(q.at, q.under, q.held, q.kind, q.tries)
        BY <2>1 DEF Shaped
      <4>3. saving = Starting("save", q.under, q.held, q.kind, q.tries)
        <5>1. [Starting(q.at, q.under, q.held, q.kind, q.tries) EXCEPT !.at = "save"]
                = Starting("save", q.under, q.held, q.kind, q.tries)
          BY SMT DEF Starting
        <5> QED BY <4>1, <4>2, <5>1, Zenon
      <4>4. [saving EXCEPT !.held = held] = h
        <5>1. [Starting("save", q.under, q.held, q.kind, q.tries) EXCEPT !.held = held]
                = Starting("save", q.under, held, q.kind, q.tries)
          BY SMT DEF Starting
        <5> QED BY <3>3, <4>3, <5>1, Zenon
      <4>5. saving.held = q.held
        BY <4>3 DEF Starting
      <4>6. [q EXCEPT !.at = "save", !.held[q.kind] = Fresh(q.kind)]
              = [saving EXCEPT !.held = [saving.held EXCEPT ![q.kind] = key]]
        BY <3>1, <4>1
      <4> QED BY <3>2, <4>4, <4>5, <4>6
    <3>5. Become(r, h)
      BY <1>2, <2>0, <2>3, <3>4 DEF LoadKey
    <3>6. Shaped(h) /\ h.held = held /\ DOMAIN q.held = Kind
      BY <2>1, <3>2, <3>3 DEF Shaped, Starting
    <3>7. \A k \in Kind : Has(h, k) => Has(q, k) /\ h.held[k] = q.held[k]
      BY <2>1, <3>2, <3>3, <3>6 DEF Has, Starting
    <3>8. \A k \in Kind : Has(h, k) =>
            /\ stored'[k] # Unstored
            /\ h.held[k] = stored'[k].material \/ <<r, k>> \in outdated'
      BY <2>1, <3>7
    <3> QED BY <1>0, <2>1, <3>5, <3>6, <3>8, ReplicaMoves
  <2>4. CASE ~Readable(stored[q.kind], q.under) /\ ~MayGenerate(q)
    <3>1. PICK h : h = Refused(q.kind)
      OBVIOUS
    <3>2. Become(r, h)
      BY <1>2, <2>0, <2>4, <3>1 DEF LoadKey
    <3>3. Shaped(h) /\ \A k \in Kind : ~Has(h, k)
      BY <3>1 DEF Shaped, Has, Refused
    <3> QED BY <1>0, <2>1, <3>2, <3>3, ReplicaMoves
  <2> QED BY <2>2, <2>3, <2>4
<1>3. ASSUME NEW r \in Replica, SaveKey(r)
      PROVE  KeysInv'
  <2>0. PICK q : q = replica[r]
    OBVIOUS
  <2>1. /\ q.at = "save" /\ Shaped(q) /\ q.kind \in Kind /\ UNCHANGED outdated
        /\ DOMAIN q.held = Kind
        /\ \A k \in Kind : Has(q, k) =>
             stored[k] # Unstored /\ (q.held[k] = stored[k].material \/ <<r, k>> \in outdated)
    BY <1>0, <1>3, <2>0 DEF SaveKey, Shaped, KeysInv, KeysAreStored
  <2>2. CASE /\ KeyInsertable(q.kind)
             /\ stored' = [stored EXCEPT ![q.kind] = Row(q.held[q.kind], q.under)]
             /\ Become(r, Holding(q, q.held[q.kind]))
    <3>1. PICK key : key = q.held[q.kind]
      OBVIOUS
    <3>2. PICK h : h = Holding(q, key)
      OBVIOUS
    <3>3. /\ Shaped(h)
          /\ \A k \in Kind : Has(h, k) => \/ k = q.kind /\ h.held[k] = key
                                          \/ k # q.kind /\ Has(q, k) /\ h.held[k] = q.held[k]
      BY <2>1, <3>2, HoldingShape
    <3>4. /\ stored[q.kind] = Unstored /\ DOMAIN stored' = Kind
          /\ stored'[q.kind] = Row(key, q.under)
          /\ \A k \in Kind : k # q.kind => stored'[k] = stored[k]
      BY <1>0, <2>1, <2>2, <3>1 DEF KeyInsertable
    <3>5. stored'[q.kind] # Unstored /\ stored'[q.kind].material = key
      BY <3>4, RowIsStored DEF Row
    <3>6. \A k \in Kind : Has(h, k) =>
            /\ stored'[k] # Unstored
            /\ h.held[k] = stored'[k].material \/ <<r, k>> \in outdated'
      BY <2>1, <3>3, <3>4, <3>5
    <3>7. \A k \in Kind : stored[k] # Unstored => stored'[k] = stored[k]
      BY <3>4
    <3>8. Become(r, h)
      BY <2>2, <3>1, <3>2
    <3> QED BY <2>1, <3>3, <3>4, <3>6, <3>7, <3>8, ReplicaMoves
  <2>3. CASE /\ ~KeyInsertable(q.kind) /\ UNCHANGED stored
             /\ Become(r, IF q.tries = StorageRetries THEN Refused(q.kind)
                          ELSE Starting("load", q.under, q.held, q.kind, q.tries + 1))
    <3>1. PICK h : h = IF q.tries = StorageRetries THEN Refused(q.kind)
                       ELSE Starting("load", q.under, q.held, q.kind, q.tries + 1)
      OBVIOUS
    <3>2. Shaped(h)
      BY <2>1, <3>1 DEF Shaped, Refused, Starting
    <3>3. \A k \in Kind : Has(h, k) => Has(q, k) /\ h.held[k] = q.held[k]
      BY <2>1, <3>1 DEF Has, Refused, Starting
    <3>4. \A k \in Kind : Has(h, k) =>
            /\ stored'[k] # Unstored
            /\ h.held[k] = stored'[k].material \/ <<r, k>> \in outdated'
      BY <2>1, <2>3, <3>3
    <3>5. Become(r, h) /\ stored' = stored
      BY <2>3, <3>1
    <3> QED BY <1>0, <2>1, <3>2, <3>4, <3>5, ReplicaMoves
  <2> QED BY <1>3, <2>0, <2>2, <2>3 DEF SaveKey
<1>4. ASSUME NEW r \in Replica, StopReplica(r)
      PROVE  KeysInv'
  <2>1. PICK h : h = Down
    OBVIOUS
  <2>2. Become(r, h) /\ UNCHANGED <<stored, outdated>>
    BY <1>4, <2>1 DEF StopReplica
  <2>3. Shaped(h) /\ \A k \in Kind : ~Has(h, k)
    BY <2>1 DEF Shaped, Has, Down
  <2> QED BY <1>0, <2>2, <2>3, ReplicaMoves
<1>5. ASSUME NEW kind \in Kind, NEW e \in EncryptionKey, RotateKey(kind, e)
      PROVE  KeysInv'
  <2>1. /\ DOMAIN stored' = Kind /\ stored'[kind] # Unstored
        /\ \A k \in Kind : k # kind => stored'[k] = stored[k]
    BY <1>0, <1>5, RowIsStored DEF RotateKey, ReplaceKey
  <2>2. /\ replica' = replica /\ \A o \in outdated : o \in outdated'
        /\ \A r \in Replica : Has(replica[r], kind) => <<r, kind>> \in outdated'
    BY <1>5 DEF RotateKey, Got, Has
  <2>3. KeysAreStored'
    BY <2>1, <2>2 DEF KeysInv, KeysAreStored, Has, Unstored
  <2> QED BY <1>0, <2>1, <2>2, <2>3 DEF KeysInv, KeysTypeOK, Shaped
<1>6. ASSUME NEW old \in EncryptionKey, NEW new \in EncryptionKey, RotateEncryption(old, new)
      PROVE  KeysInv'
  <2>1. /\ DOMAIN stored' = Kind /\ UNCHANGED <<replica, outdated>>
        /\ \A k \in Kind : stored[k] # Unstored => stored'[k] = Row(stored[k].material, new)
    BY <1>0, <1>6 DEF RotateEncryption
  <2>2. \A k \in Kind : stored[k] # Unstored =>
          stored'[k] # Unstored /\ stored'[k].material = stored[k].material
    BY <2>1, RowIsStored DEF Row
  <2>3. KeysAreStored'
    BY <2>1, <2>2 DEF KeysInv, KeysAreStored, Has, Unstored
  <2> QED BY <1>0, <2>1, <2>3 DEF KeysInv, KeysTypeOK, Shaped
<1>7. CASE UNCHANGED keyVars
  BY <1>7 DEF keyVars, KeysInv, KeysTypeOK, KeysAreStored, Shaped, Has, Unstored
<1> QED BY <1>1, <1>2, <1>3, <1>4, <1>5, <1>6, <1>7 DEF KeyStep

(* Replicas that run sign with the keys that are stored, but for those     *)
(* that were rotated while they were up, however starts, generated keys    *)
(* and the two commands interleave, for any number of replicas.            *)
THEOREM ReplicasSignAlike == Spec => []ReplicasAgreeOnKeys
<1>1. Init => KeysInv
  BY KeysInitInv DEF Init
<1>2. KeysInv /\ [Next]_vars => KeysInv'
  BY StepsOfParts, KeysStep
<1>3. KeysInv => ReplicasAgreeOnKeys
  BY DEF KeysInv, KeysAreStored, Has, ReplicasAgreeOnKeys
<1> QED BY <1>1, <1>2, <1>3, PTL DEF Spec

-----------------------------------------------------------------------------
(* Who is told of a sign-in (SignIns).                                     *)

Sighting == [at : {"recorded", "unrecorded", "checked"}, id : Nat, method : Method,
             user : User, browser : Browser, place : Place, mode : Mode,
             known : BOOLEAN, told : BOOLEAN, blind : BOOLEAN, crossed : BOOLEAN]
LogEntry == [id : Nat, user : User, place : Place]

SignInsTypeOK ==
  /\ cookie \in [Browser -> User \cup {NoUser}]
  /\ attempt \in [Attempt -> Sighting \cup {NoAttempt}]
  /\ begun \in Nat
  /\ recorded \subseteq LogEntry

(* A cookie was given to the browser, a record that is visible was made.   *)
EvidenceIsKept ==
  /\ log \subseteq recorded
  /\ \A b \in Browser : cookie[b] # NoUser => <<cookie[b], b>> \in remembered

(* A browser that is taken for a known one was remembered for the user.    *)
KnownWasRemembered ==
  \A r \in Attempt : attempt[r] # NoAttempt /\ attempt[r].known =>
    attempt[r].mode = "browserRecognition"
      /\ <<attempt[r].user, attempt[r].browser>> \in remembered

(* The sign-ins are numbered as they begin.                                *)
NumbersRunUp ==
  /\ \A r \in Attempt : attempt[r] # NoAttempt => attempt[r].id <= begun
  /\ \A e \in recorded : e.id <= begun

Alike(e, a) == e.user = a.user /\ e.place = a.place

(* Until it has compared the records, a sign-in that a later one from its  *)
(* place was recorded beside is marked.                                    *)
LaterAreMarked ==
  \A r \in Attempt : attempt[r].at = "recorded" /\ ~attempt[r].crossed =>
    /\ \A e \in recorded : Alike(e, attempt[r]) => e.id <= attempt[r].id
    /\ \A s \in Attempt :
         attempt[s].at \in {"recorded", "checked"} /\ Alike(attempt[s], attempt[r]) =>
           attempt[s].id <= attempt[r].id

(* An inductive invariant that implies StrangersAreTold.                   *)
SignInsInv ==
  /\ SignInsTypeOK /\ EvidenceIsKept /\ KnownWasRemembered
  /\ NumbersRunUp /\ LaterAreMarked /\ StrangersAreTold

LEMMA SignInsInitInv == SignInInit => SignInsInv
  BY NoUserAssumption DEF SignInInit, SignInsInv, SignInsTypeOK, EvidenceIsKept,
     KnownWasRemembered, NumbersRunUp, LaterAreMarked, StrangersAreTold, Untold, NoAttempt

(* Where no attempt moves and nothing is recorded, evidence that only grows*)
(* is enough.                                                              *)
LEMMA EvidenceGrows ==
  ASSUME SignInsInv, UNCHANGED <<attempt, recorded, begun>>,
         remembered \subseteq remembered'
  PROVE  KnownWasRemembered' /\ NumbersRunUp' /\ LaterAreMarked' /\ StrangersAreTold'
<1>1. KnownWasRemembered' /\ NumbersRunUp'
  BY DEF SignInsInv, KnownWasRemembered, NumbersRunUp, NoAttempt
<1>2. LaterAreMarked'
  BY DEF SignInsInv, LaterAreMarked, Alike
<1>3. StrangersAreTold'
  BY DEF SignInsInv, StrangersAreTold, Untold, FromPlace
<1> QED BY <1>1, <1>2, <1>3

(* One attempt moves, and others may be marked: what is asked of it where  *)
(* it stands then.                                                         *)
Marked(s) ==
  /\ attempt[s].at = "recorded"
  /\ attempt'[s] = [attempt[s] EXCEPT !.crossed = TRUE]

LEMMA AttemptMoves ==
  ASSUME SignInsInv, NEW r \in Attempt, NEW a \in Sighting \cup {NoAttempt},
         attempt' \in [Attempt -> Sighting \cup {NoAttempt}], attempt'[r] = a,
         \A s \in Attempt \ {r} : attempt'[s] = attempt[s] \/ Marked(s),
         recorded \subseteq recorded', remembered \subseteq remembered',
         a # NoAttempt /\ a.known => /\ a.mode = "browserRecognition"
                                     /\ <<a.user, a.browser>> \in remembered',
         Untold(a) => \/ FromPlace(a, {e \in recorded' : e.id < a.id})
                      \/ a.mode = "browserRecognition" /\ <<a.user, a.browser>> \in remembered'
                      \/ a.crossed
  PROVE  KnownWasRemembered' /\ StrangersAreTold'
<1>1. ASSUME NEW s \in Attempt \ {r}, Marked(s)
      PROVE  /\ attempt[s] \in Sighting /\ attempt'[s].at = "recorded"
             /\ attempt'[s].known = attempt[s].known /\ attempt'[s].mode = attempt[s].mode
             /\ attempt'[s].user = attempt[s].user
             /\ attempt'[s].browser = attempt[s].browser
  <2>1. attempt[s] \in Sighting
    BY <1>1 DEF Marked, SignInsInv, SignInsTypeOK, NoAttempt
  <2> QED BY <1>1, <2>1 DEF Marked, Sighting
<1>2. KnownWasRemembered'
  <2> SUFFICES ASSUME NEW s \in Attempt, attempt'[s] # NoAttempt, attempt'[s].known
               PROVE  /\ attempt'[s].mode = "browserRecognition"
                      /\ <<attempt'[s].user, attempt'[s].browser>> \in remembered'
    BY DEF KnownWasRemembered
  <2>1. CASE s = r
    BY <2>1
  <2>2. CASE s # r /\ attempt'[s] = attempt[s]
    BY <2>2 DEF SignInsInv, KnownWasRemembered
  <2>3. CASE s # r /\ Marked(s)
    <3>1. attempt[s] # NoAttempt
      BY <2>3 DEF Marked, NoAttempt
    <3> QED BY <1>1, <2>3, <3>1 DEF SignInsInv, KnownWasRemembered
  <2> QED BY <2>1, <2>2, <2>3
<1>3. ASSUME NEW s \in Attempt, Untold(attempt'[s])
      PROVE  \/ FromPlace(attempt'[s], {e \in recorded' : e.id < attempt'[s].id})
             \/ /\ attempt'[s].mode = "browserRecognition"
                /\ <<attempt'[s].user, attempt'[s].browser>> \in remembered'
             \/ attempt'[s].crossed
  <2>1. CASE s = r
    BY <1>3, <2>1
  <2>2. CASE s # r
    <3>1. ~Marked(s)
      BY <1>1, <1>3, <2>2 DEF Untold
    <3>2. attempt'[s] = attempt[s]
      BY <2>2, <3>1
    <3>3. \/ FromPlace(attempt[s], {e \in recorded : e.id < attempt[s].id})
          \/ /\ attempt[s].mode = "browserRecognition"
             /\ <<attempt[s].user, attempt[s].browser>> \in remembered
          \/ attempt[s].crossed
      BY <1>3, <3>2 DEF SignInsInv, StrangersAreTold
    <3> QED BY <3>2, <3>3 DEF FromPlace
  <2> QED BY <2>1, <2>2
<1>4. StrangersAreTold'
  BY <1>3 DEF StrangersAreTold, Untold, FromPlace
<1> QED BY <1>2, <1>4

(* One attempt moves: what it does to the marks of the others.             *)
LEMMA MarksKeep ==
  ASSUME SignInsInv, NEW r \in Attempt, NEW a \in Sighting \cup {NoAttempt},
         attempt' \in [Attempt -> Sighting \cup {NoAttempt}], attempt'[r] = a,
         \A s \in Attempt \ {r} : attempt'[s] = attempt[s] \/ Marked(s),
         begun' \in Nat, begun <= begun', recorded' \subseteq LogEntry,
         a # NoAttempt => a.id <= begun',
         a.at = "recorded" => a.id = begun + 1,
         \A e \in recorded' \ recorded :
           /\ e.id <= begun'
           /\ a.at = "recorded" => e.id <= a.id
           /\ \A s \in Attempt \ {r} :
                attempt'[s].at = "recorded" /\ ~attempt'[s].crossed /\ Alike(e, attempt'[s]) =>
                  e.id <= attempt'[s].id,
         a.at \in {"recorded", "checked"} =>
           \A s \in Attempt \ {r} :
             attempt'[s].at = "recorded" /\ ~attempt'[s].crossed /\ Alike(a, attempt'[s]) =>
               a.id <= attempt'[s].id
  PROVE  NumbersRunUp' /\ LaterAreMarked'
<1>0. /\ attempt \in [Attempt -> Sighting \cup {NoAttempt}] /\ begun \in Nat
      /\ recorded \subseteq LogEntry
  BY DEF SignInsInv, SignInsTypeOK
<1>1. ASSUME NEW s \in Attempt \ {r}, Marked(s)
      PROVE  /\ attempt[s] # NoAttempt /\ attempt'[s].crossed
             /\ attempt'[s].id = attempt[s].id /\ attempt'[s].at = attempt[s].at
             /\ attempt'[s].user = attempt[s].user /\ attempt'[s].place = attempt[s].place
  <2>1. attempt[s] \in Sighting /\ attempt[s] # NoAttempt
    BY <1>0, <1>1 DEF Marked, NoAttempt
  <2> QED BY <1>1, <2>1 DEF Marked, Sighting
<1>2. \A s \in Attempt \ {r} :
        /\ attempt'[s] # NoAttempt => attempt[s] # NoAttempt /\ attempt'[s].id = attempt[s].id
        /\ attempt'[s].at \in {"recorded", "checked"} => attempt'[s] # NoAttempt
        /\ attempt'[s].at = "recorded" /\ ~attempt'[s].crossed => attempt'[s] = attempt[s]
        /\ attempt'[s].at \in {"recorded", "checked"} =>
             /\ attempt[s].at = attempt'[s].at /\ attempt[s].user = attempt'[s].user
             /\ attempt[s].place = attempt'[s].place
  BY <1>1 DEF NoAttempt
<1>3. NumbersRunUp'
  <2>1. \A s \in Attempt : attempt[s] # NoAttempt => attempt[s].id \in Nat
    BY <1>0 DEF Sighting
  <2>2. \A e \in recorded : e.id \in Nat /\ e.id <= begun
    BY <1>0 DEF LogEntry, SignInsInv, NumbersRunUp
  <2>3. a # NoAttempt => a.id \in Nat
    BY DEF Sighting
  <2>4. \A s \in Attempt : attempt'[s] # NoAttempt => attempt'[s].id <= begun'
    BY <1>0, <1>2, <2>1 DEF SignInsInv, NumbersRunUp
  <2>5. \A e \in recorded' : e.id <= begun'
    BY <1>0, <2>2
  <2> QED BY <2>4, <2>5 DEF NumbersRunUp
<1>4. ASSUME NEW t \in Attempt, attempt'[t].at = "recorded", ~attempt'[t].crossed
      PROVE  /\ \A e \in recorded' : Alike(e, attempt'[t]) => e.id <= attempt'[t].id
             /\ \A s \in Attempt :
                  attempt'[s].at \in {"recorded", "checked"} /\ Alike(attempt'[s], attempt'[t]) =>
                    attempt'[s].id <= attempt'[t].id
  <2>1. CASE t = r
    <3>1. a # NoAttempt /\ a.id = begun + 1
      BY <1>4, <2>1 DEF NoAttempt
    <3>2. \A e \in recorded' : e.id <= a.id
      <4>1. \A e \in recorded : e.id \in Nat /\ e.id <= begun
        BY <1>0 DEF LogEntry, SignInsInv, NumbersRunUp
      <4> QED BY <1>0, <1>4, <2>1, <3>1, <4>1
    <3>3. ASSUME NEW s \in Attempt \ {r}, attempt'[s].at \in {"recorded", "checked"}
          PROVE  attempt'[s].id <= a.id
      <4>1. attempt[s] # NoAttempt /\ attempt'[s].id = attempt[s].id
        BY <1>2, <3>3
      <4>2. attempt[s].id \in Nat /\ attempt[s].id <= begun
        BY <1>0, <4>1 DEF Sighting, SignInsInv, NumbersRunUp
      <4> QED BY <1>0, <3>1, <4>1, <4>2
    <3>4. a.id <= a.id
      BY <1>0, <3>1
    <3> QED BY <2>1, <3>2, <3>3, <3>4
  <2>2. CASE t # r
    <3>1. attempt'[t] = attempt[t]
      BY <1>2, <1>4, <2>2
    <3>2. /\ \A e \in recorded : Alike(e, attempt[t]) => e.id <= attempt[t].id
          /\ \A s \in Attempt :
               attempt[s].at \in {"recorded", "checked"} /\ Alike(attempt[s], attempt[t]) =>
                 attempt[s].id <= attempt[t].id
      BY <1>4, <3>1 DEF SignInsInv, LaterAreMarked
    <3>3. \A e \in recorded' : Alike(e, attempt'[t]) => e.id <= attempt'[t].id
      BY <1>4, <2>2, <3>1, <3>2
    <3>4. ASSUME NEW s \in Attempt, attempt'[s].at \in {"recorded", "checked"},
                 Alike(attempt'[s], attempt'[t])
          PROVE  attempt'[s].id <= attempt'[t].id
      <4>1. CASE s = r
        BY <1>4, <2>2, <3>4, <4>1
      <4>2. CASE s # r
        <5>1. /\ attempt[s].at \in {"recorded", "checked"} /\ attempt'[s].id = attempt[s].id
              /\ Alike(attempt[s], attempt[t])
          BY <1>2, <3>1, <3>4, <4>2 DEF Alike
        <5> QED BY <3>1, <3>2, <5>1
      <4> QED BY <4>1, <4>2
    <3> QED BY <3>3, <3>4
  <2> QED BY <2>1, <2>2
<1> QED BY <1>3, <1>4 DEF LaterAreMarked

LEMMA SignInsStep ==
  ASSUME SignInsInv, [SignInStep]_signInVars
  PROVE  SignInsInv'
<1>0. /\ cookie \in [Browser -> User \cup {NoUser}] /\ begun \in Nat
      /\ attempt \in [Attempt -> Sighting \cup {NoAttempt}]
      /\ log \subseteq recorded /\ recorded \subseteq LogEntry
      /\ \A b \in Browser : cookie[b] # NoUser => <<cookie[b], b>> \in remembered
  BY DEF SignInsInv, SignInsTypeOK, EvidenceIsKept
<1>1. ASSUME NEW r \in Attempt, NEW method \in Method, NEW u \in User, NEW b \in Browser,
             NEW p \in Place, NEW mode \in Mode, Record(r, method, u, b, p, mode)
      PROVE  SignInsInv'
  <2>1. PICK known \in BOOLEAN : known = Recognised(b, u, mode)
    BY DEF Recognised
  <2>2. PICK a : a = [at |-> "recorded", id |-> begun + 1, method |-> method, user |-> u,
                      browser |-> b, place |-> p, mode |-> mode,
                      known |-> known, told |-> FALSE, blind |-> FALSE, crossed |-> FALSE]
    OBVIOUS
  <2>3. PICK c : c = [a EXCEPT !.at = "unrecorded"]
    OBVIOUS
  <2>4. a \in Sighting /\ a.known = known /\ a.mode = mode /\ a.user = u /\ a.browser = b
        /\ a.at = "recorded" /\ a.id = begun + 1 /\ a.place = p
    BY <1>0, <2>2 DEF Sighting
  <2>5. c \in Sighting /\ c.known = known /\ c.mode = mode /\ c.user = u /\ c.browser = b
        /\ c.at = "unrecorded" /\ c.id = begun + 1
    BY <2>3, <2>4 DEF Sighting
  <2>6. known => mode = "browserRecognition" /\ <<u, b>> \in remembered
    <3>1. known => mode = "browserRecognition" /\ cookie[b] = u
      BY <2>1, Zenon DEF Recognised
    <3> QED BY <1>0, <3>1, NoUserAssumption
  <2>7. begun' = begun + 1 /\ UNCHANGED <<cookie, remembered>>
    BY <1>1 DEF Record
  <2>8. \/ /\ attempt' = [Crossing(a) EXCEPT ![r] = a]
           /\ \/ UNCHANGED <<log, recorded>>
              \/ log' = log \cup {Entry(a)} /\ recorded' = recorded \cup {Entry(a)}
        \/ attempt' = [attempt EXCEPT ![r] = c] /\ UNCHANGED <<log, recorded>>
    BY <1>1, <2>1, <2>2, <2>3, Zenon DEF Record
  <2>9. ~Untold(a) /\ ~Untold(c)
    BY <2>4, <2>5 DEF Untold
  <2>10. Entry(a) \in LogEntry /\ Entry(a).id = begun + 1
         /\ Entry(a).user = u /\ Entry(a).place = p
    BY <1>0, <2>4 DEF Entry, LogEntry
  <2>11. /\ recorded \subseteq recorded' /\ log' \subseteq recorded'
         /\ recorded' \subseteq LogEntry
    BY <1>0, <2>8, <2>10
  <2>12. CASE attempt' = [Crossing(a) EXCEPT ![r] = a]
    <3>1. \A s \in Attempt : Crossing(a)[s] = attempt[s] \/
            (attempt[s].at = "recorded" /\ Alike(attempt[s], a)
              /\ Crossing(a)[s] = [attempt[s] EXCEPT !.crossed = TRUE])
      BY DEF Crossing, Alike
    <3>2. \A s \in Attempt : attempt[s].at = "recorded" => attempt[s] \in Sighting
      BY <1>0 DEF NoAttempt
    <3>3. ASSUME NEW s \in Attempt
          PROVE  Crossing(a)[s] \in Sighting \cup {NoAttempt}
      <4>1. CASE Crossing(a)[s] = attempt[s]
        BY <1>0, <4>1
      <4>2. CASE /\ attempt[s].at = "recorded"
                 /\ Crossing(a)[s] = [attempt[s] EXCEPT !.crossed = TRUE]
        BY <3>2, <4>2 DEF Sighting
      <4> QED BY <3>1, <4>1, <4>2
    <3>4. /\ attempt' \in [Attempt -> Sighting \cup {NoAttempt}] /\ attempt'[r] = a
          /\ \A s \in Attempt \ {r} : attempt'[s] = Crossing(a)[s]
      <4>1. Crossing(a) \in [Attempt -> Sighting \cup {NoAttempt}]
        BY <3>3 DEF Crossing
      <4> QED BY <2>4, <2>12, <4>1
    <3>5. \A s \in Attempt \ {r} : attempt'[s] = attempt[s] \/ Marked(s)
      BY <3>1, <3>4 DEF Marked
    <3>6. ASSUME NEW s \in Attempt \ {r}, attempt'[s].at = "recorded", ~attempt'[s].crossed
          PROVE  ~Alike(a, attempt'[s])
      <4>1. CASE attempt[s].at = "recorded" /\ Alike(attempt[s], a)
        <5>1. attempt'[s] = [attempt[s] EXCEPT !.crossed = TRUE]
          BY <3>4, <4>1 DEF Crossing, Alike
        <5> QED BY <3>2, <3>6, <4>1, <5>1 DEF Sighting
      <4>2. CASE ~(attempt[s].at = "recorded" /\ Alike(attempt[s], a))
        <5>1. Crossing(a)[s] = attempt[s]
          BY <4>2 DEF Crossing, Alike
        <5>2. attempt'[s] = attempt[s]
          BY <3>4, <5>1
        <5> QED BY <3>6, <4>2, <5>2 DEF Alike
      <4> QED BY <4>1, <4>2
    <3>7. \A e \in recorded' \ recorded : e.id = begun + 1 /\ e.user = u /\ e.place = p
      BY <2>8, <2>10
    <3>8. NumbersRunUp' /\ LaterAreMarked'
      <4>1. begun' \in Nat /\ begun <= begun'
        BY <1>0, <2>7
      <4>2. \A e \in recorded' \ recorded :
              /\ e.id <= begun' /\ e.id <= a.id
              /\ \A s \in Attempt \ {r} :
                   attempt'[s].at = "recorded" /\ ~attempt'[s].crossed => ~Alike(e, attempt'[s])
        BY <1>0, <2>4, <2>7, <3>6, <3>7 DEF Alike
      <4>3. a.id <= begun'
        BY <1>0, <2>4, <2>7
      <4> QED BY <2>4, <2>11, <3>4, <3>5, <3>6, <4>1, <4>2, <4>3, MarksKeep
    <3>9. KnownWasRemembered' /\ StrangersAreTold'
      BY <2>4, <2>6, <2>7, <2>9, <2>11, <3>4, <3>5, AttemptMoves
    <3> QED BY <1>0, <2>7, <2>11, <3>4, <3>8, <3>9 DEF SignInsInv, SignInsTypeOK, EvidenceIsKept
  <2>13. CASE attempt' = [attempt EXCEPT ![r] = c] /\ UNCHANGED <<log, recorded>>
    <3>1. /\ attempt' \in [Attempt -> Sighting \cup {NoAttempt}] /\ attempt'[r] = c
          /\ \A s \in Attempt \ {r} : attempt'[s] = attempt[s] \/ Marked(s)
      BY <1>0, <2>5, <2>13
    <3>2. begun' \in Nat /\ begun <= begun' /\ c.id <= begun'
      BY <1>0, <2>5, <2>7
    <3>3. NumbersRunUp' /\ LaterAreMarked'
      BY <2>5, <2>11, <2>13, <3>1, <3>2, MarksKeep
    <3>4. KnownWasRemembered' /\ StrangersAreTold'
      BY <2>5, <2>6, <2>7, <2>9, <2>11, <3>1, AttemptMoves
    <3> QED BY <1>0, <2>7, <2>11, <3>1, <3>3, <3>4 DEF SignInsInv, SignInsTypeOK, EvidenceIsKept
  <2> QED BY <2>8, <2>12, <2>13
<1>2. ASSUME NEW r \in Attempt, CheckHistory(r)
      PROVE  SignInsInv'
  <2>1. PICK a : a = attempt[r]
    OBVIOUS
  <2>2. a \in Sighting /\ a.at = "recorded"
    BY <1>0, <1>2, <2>1 DEF CheckHistory, NoAttempt
  <2>3. UNCHANGED <<cookie, log, begun, recorded, remembered>>
    BY <1>2 DEF CheckHistory
  <2>4. a.known => a.mode = "browserRecognition" /\ <<a.user, a.browser>> \in remembered
    BY <2>1, <2>2 DEF SignInsInv, KnownWasRemembered, NoAttempt
  <2>5. PICK told \in BOOLEAN : told = Notify(a)
    BY DEF Notify
  <2>6. PICK c : c = [a EXCEPT !.at = "checked", !.told = told]
    OBVIOUS
  <2>7. PICK d : d = [a EXCEPT !.at = "checked", !.blind = TRUE]
    OBVIOUS
  <2>8. attempt' = [attempt EXCEPT ![r] = c] \/ attempt' = [attempt EXCEPT ![r] = d]
    BY <1>0, <1>2, <2>1, <2>5, <2>6, <2>7 DEF CheckHistory
  <2>9. /\ c \in Sighting /\ c.at = "checked" /\ c.told = told /\ c.id = a.id
        /\ c.user = a.user /\ c.browser = a.browser /\ c.place = a.place
        /\ c.mode = a.mode /\ c.known = a.known /\ c.crossed = a.crossed
    BY <2>2, <2>6 DEF Sighting
  <2>10. /\ d \in Sighting /\ d.at = "checked" /\ d.blind = TRUE /\ d.id = a.id
         /\ d.user = a.user /\ d.browser = a.browser /\ d.place = a.place
         /\ d.mode = a.mode /\ d.known = a.known
    BY <2>2, <2>7 DEF Sighting
  <2>11. ~Untold(d)
    BY <2>10 DEF Untold
  <2>12. Untold(c) => ~Notify(a) /\ a.mode \in {"browserRecognition", "ipAndUserAgent"}
    BY <2>5, <2>9, Zenon DEF Untold
  <2>13. SeenBefore(a) => FromPlace(c, {e \in recorded : e.id < c.id}) \/ c.crossed
    <3> SUFFICES ASSUME NEW e \in log, e.user = a.user, e.place = a.place, e.id # a.id,
                        ~a.crossed
                 PROVE  FromPlace(c, {f \in recorded : f.id < c.id})
      BY <2>9 DEF SeenBefore
    <3>1. e \in recorded /\ e.id \in Nat /\ a.id \in Nat
      BY <1>0, <2>2 DEF LogEntry, Sighting
    <3>2. e.id <= a.id
      BY <2>1, <2>2, <3>1 DEF SignInsInv, LaterAreMarked, Alike
    <3>3. e.id < c.id
      BY <2>9, <3>1, <3>2
    <3> QED BY <2>9, <3>1, <3>3 DEF FromPlace
  <2>14. Untold(c) => \/ FromPlace(c, {e \in recorded' : e.id < c.id})
                      \/ c.mode = "browserRecognition" /\ <<c.user, c.browser>> \in remembered'
                      \/ c.crossed
    BY <2>3, <2>4, <2>9, <2>12, <2>13 DEF Notify
  <2>15. PICK n \in {c, d} : attempt' = [attempt EXCEPT ![r] = n]
    BY <2>8
  <2>16. /\ n \in Sighting /\ n.at = "checked" /\ n.id = a.id /\ n # NoAttempt
         /\ n.user = a.user /\ n.place = a.place
    BY <2>9, <2>10 DEF NoAttempt
  <2>17. /\ attempt' \in [Attempt -> Sighting \cup {NoAttempt}] /\ attempt'[r] = n
         /\ \A s \in Attempt \ {r} : attempt'[s] = attempt[s]
    BY <1>0, <2>15, <2>16
  <2>18. KnownWasRemembered' /\ StrangersAreTold'
    BY <2>3, <2>4, <2>9, <2>10, <2>11, <2>14, <2>16, <2>17, AttemptMoves
  <2>19. NumbersRunUp' /\ LaterAreMarked'
    <3>1. a.id <= begun
      BY <2>1, <2>2 DEF SignInsInv, NumbersRunUp, NoAttempt
    <3>2. \A s \in Attempt \ {r} :
            attempt'[s].at = "recorded" /\ ~attempt'[s].crossed /\ Alike(n, attempt'[s]) =>
              n.id <= attempt'[s].id
      BY <2>1, <2>2, <2>16, <2>17 DEF SignInsInv, LaterAreMarked, Alike
    <3>3. begun' \in Nat /\ begun <= begun' /\ n.id <= begun'
      BY <1>0, <2>3, <2>16, <3>1
    <3>4. recorded' \subseteq LogEntry /\ recorded' \ recorded = {}
      BY <1>0, <2>3
    <3> QED BY <2>16, <2>17, <3>2, <3>3, <3>4, MarksKeep
  <2> QED BY <1>0, <2>3, <2>17, <2>18, <2>19 DEF SignInsInv, SignInsTypeOK, EvidenceIsKept
<1>3. ASSUME NEW r \in Attempt, attempt' = [attempt EXCEPT ![r] = NoAttempt], begun' = begun,
             recorded \subseteq recorded', recorded' \subseteq LogEntry,
             remembered \subseteq remembered',
             \A e \in recorded' \ recorded :
               attempt[r].at = "checked" /\ e = Entry(attempt[r])
      PROVE  /\ attempt' \in [Attempt -> Sighting \cup {NoAttempt}]
             /\ KnownWasRemembered' /\ NumbersRunUp' /\ LaterAreMarked' /\ StrangersAreTold'
  <2> DEFINE n == NoAttempt
  <2>1. ~Untold(n) /\ n.at = "waiting"
    BY DEF Untold, NoAttempt
  <2>2. /\ attempt' \in [Attempt -> Sighting \cup {NoAttempt}] /\ attempt'[r] = n
        /\ \A s \in Attempt \ {r} : attempt'[s] = attempt[s]
    BY <1>0, <1>3
  <2>3. KnownWasRemembered' /\ StrangersAreTold'
    BY <1>3, <2>1, <2>2, AttemptMoves
  <2>4. ASSUME NEW e \in recorded' \ recorded
        PROVE  /\ e.id <= begun'
               /\ \A s \in Attempt \ {r} :
                    attempt'[s].at = "recorded" /\ ~attempt'[s].crossed /\ Alike(e, attempt'[s]) =>
                      e.id <= attempt'[s].id
    <3>1. PICK a : a = attempt[r]
      OBVIOUS
    <3>2. a # NoAttempt /\ a.at = "checked" /\ a.id <= begun
      BY <1>3, <2>4, <3>1 DEF SignInsInv, NumbersRunUp, NoAttempt
    <3>3. e.id = a.id /\ e.user = a.user /\ e.place = a.place
      BY <1>3, <2>4, <3>1 DEF Entry
    <3>4. \A s \in Attempt \ {r} :
            attempt[s].at = "recorded" /\ ~attempt[s].crossed /\ Alike(a, attempt[s]) =>
              a.id <= attempt[s].id
      BY <3>1, <3>2 DEF SignInsInv, LaterAreMarked
    <3> QED BY <1>3, <2>2, <3>2, <3>3, <3>4 DEF Alike
  <2>5. begun' \in Nat /\ begun <= begun'
    BY <1>0, <1>3
  <2>6. NumbersRunUp' /\ LaterAreMarked'
    BY <1>3, <2>1, <2>2, <2>4, <2>5, MarksKeep
  <2> QED BY <2>2, <2>3, <2>6
<1>4. ASSUME NEW r \in Attempt, Answer(r)
      PROVE  SignInsInv'
  <2>1. PICK a : a = attempt[r]
    OBVIOUS
  <2>2. a \in Sighting /\ a.at = "checked"
    BY <1>0, <1>4, <2>1 DEF Answer, NoAttempt
  <2>3. a.user \in User /\ a.browser \in Browser /\ Entry(a) \in LogEntry
    BY <2>2 DEF Sighting, Entry, LogEntry
  <2>4. /\ begun' = begun /\ recorded' = recorded \cup {Entry(a)}
        /\ log' \in {log, log \cup {Entry(a)}}
        /\ attempt' = [attempt EXCEPT ![r] = NoAttempt]
    BY <1>4, <2>1 DEF Answer
  <2>5. \/ UNCHANGED <<cookie, remembered>>
        \/ /\ cookie' = [cookie EXCEPT ![a.browser] = a.user]
           /\ remembered' = remembered \cup {<<a.user, a.browser>>}
    BY <1>4, <2>1 DEF Answer
  <2>6. /\ cookie' \in [Browser -> User \cup {NoUser}]
        /\ \A b \in Browser : cookie'[b] # NoUser => <<cookie'[b], b>> \in remembered'
    BY <1>0, <2>3, <2>5
  <2>7. recorded' \subseteq LogEntry
    BY <1>0, <2>3, <2>4
  <2>8. /\ attempt' \in [Attempt -> Sighting \cup {NoAttempt}]
        /\ KnownWasRemembered' /\ NumbersRunUp' /\ LaterAreMarked' /\ StrangersAreTold'
    BY <1>3, <2>1, <2>2, <2>4, <2>5, <2>7
  <2> QED BY <1>0, <2>4, <2>6, <2>7, <2>8 DEF SignInsInv, SignInsTypeOK, EvidenceIsKept
<1>5. ASSUME NEW r \in Attempt, FailSignIn(r)
      PROVE  SignInsInv'
  <2>1. /\ UNCHANGED <<cookie, log, begun, recorded, remembered>>
        /\ attempt' = [attempt EXCEPT ![r] = NoAttempt]
    BY <1>5 DEF FailSignIn
  <2>2. /\ attempt' \in [Attempt -> Sighting \cup {NoAttempt}]
        /\ KnownWasRemembered' /\ NumbersRunUp' /\ LaterAreMarked' /\ StrangersAreTold'
    BY <1>0, <1>3, <2>1
  <2> QED BY <1>0, <2>1, <2>2 DEF SignInsInv, SignInsTypeOK, EvidenceIsKept
<1>6. ASSUME NEW last \in 1 .. MaxSignIns, ClearAuditLogs(last)
      PROVE  SignInsInv'
  <2>1. KnownWasRemembered' /\ NumbersRunUp' /\ LaterAreMarked' /\ StrangersAreTold'
    BY <1>6, EvidenceGrows DEF ClearAuditLogs
  <2> QED BY <1>0, <1>6, <2>1 DEF ClearAuditLogs, SignInsInv, SignInsTypeOK, EvidenceIsKept
<1>7. ASSUME NEW b \in Browser, ForgetBrowser(b)
      PROVE  SignInsInv'
  <2>1. KnownWasRemembered' /\ NumbersRunUp' /\ LaterAreMarked' /\ StrangersAreTold'
    BY <1>7, EvidenceGrows DEF ForgetBrowser
  <2> QED BY <1>0, <1>7, <2>1 DEF ForgetBrowser, SignInsInv, SignInsTypeOK, EvidenceIsKept
<1>8. CASE UNCHANGED signInVars
  <2>1. KnownWasRemembered' /\ NumbersRunUp' /\ LaterAreMarked' /\ StrangersAreTold'
    BY <1>8, EvidenceGrows DEF signInVars
  <2> QED BY <1>0, <1>8, <2>1 DEF signInVars, SignInsInv, SignInsTypeOK, EvidenceIsKept
<1> QED BY <1>1, <1>2, <1>4, <1>5, <1>6, <1>7, <1>8 DEF SignInStep

(* A user who is not told of a sign-in had signed in from that place, or   *)
(* on that browser, before, or a later sign-in from the place was recorded *)
(* before this one compared the records: for any number of requests at     *)
(* once, whichever records and cookies are gone meanwhile.                 *)
THEOREM UsersLearnOfStrangers == Spec => []StrangersAreTold
<1>1. Init => SignInsInv
  BY SignInsInitInv DEF Init
<1>2. SignInsInv /\ [Next]_vars => SignInsInv'
  BY StepsOfParts, SignInsStep
<1>3. SignInsInv => StrangersAreTold
  BY DEF SignInsInv
<1> QED BY <1>1, <1>2, <1>3, PTL DEF Spec

-----------------------------------------------------------------------------
(* What a user consented to (ResourceAccess).                              *)

ConsentKey == Api \X (Key \cup {NoKey})

ConsentTypeOK ==
  /\ published \in [Cimd -> Document]
  /\ documents \in [Client -> Document \cup {NoDocument}]
  /\ fetches \subseteq Cimd \X Document
  /\ clients \subseteq Client
  /\ consents \subseteq Client \X ConsentKey
  /\ authorizations \subseteq Authorization
  /\ agreed \subseteq Client \X ConsentKey \X Terms

(* A client that is described by a document has one while it is known.     *)
CimdHasDocument ==
  /\ \A c \in clients \cap Cimd : documents[c] # NoDocument
  /\ \A c \in Client \ Cimd : documents[c] = NoDocument

(* An authorization began under the terms of one document, if the client   *)
(* has documents at all.                                                   *)
BeganUnderTerms ==
  \A x \in authorizations :
    /\ x.client \in clients
    /\ x.client \in Cimd => \E t \in Terms : x.terms = {t}
    /\ x.client \notin Cimd => x.terms = {}

(* An inductive invariant that implies ConsentFollowsDocument.             *)
ConsentInv == ConsentTypeOK /\ CimdHasDocument /\ BeganUnderTerms /\ ConsentFollowsDocument

LEMMA ConsentInitInv == ResourceInit => ConsentInv
  BY ResourceAssumption DEF ResourceInit, ConsentInv, ConsentTypeOK, CimdHasDocument,
     BeganUnderTerms, ConsentFollowsDocument

(* The terms of a client's document, if it has one.                        *)
LEMMA TermsAreOne ==
  ASSUME ConsentTypeOK, CimdHasDocument, NEW c \in clients
  PROVE  /\ c \in Cimd => documents[c].terms \in Terms /\ TermsOf(c) = {documents[c].terms}
         /\ c \notin Cimd => TermsOf(c) = {}
  BY ResourceAssumption DEF ConsentTypeOK, CimdHasDocument, TermsOf, Document

(* Recording a consent marks it superseded just when its terms are.        *)
LEMMA RecordingMarks ==
  ASSUME ConsentInv, NEW x \in authorizations, NEW keys \in SUBSET Key,
         RecordConsent(x, keys)
  PROVE  /\ consents' \subseteq Client \X ConsentKey
         /\ agreed' \subseteq Client \X ConsentKey \X Terms
         /\ ConsentFollowsDocument'
<1> DEFINE c == x.client
           all == ConsentKeys(x.api, keys)
           new == {k \in all : <<c, k>> \in consents => <<c, k>> \in superseded}
<1>1. /\ c \in clients /\ c \in Client /\ x.api \in Api
      /\ x.terms \subseteq Terms
      /\ c \in Cimd => \E t \in Terms : x.terms = {t}
      /\ c \notin Cimd => x.terms = {}
  BY DEF ConsentInv, ConsentTypeOK, BeganUnderTerms, Authorization
<1>2. all \subseteq ConsentKey
  BY <1>1 DEF ConsentKeys, ConsentKey
<1>3. /\ consents' = consents \cup ({c} \X all)
      /\ agreed' = {r \in agreed : ~(r[1] = c /\ r[2] \in new)} \cup ({c} \X new \X x.terms)
      /\ superseded' = IF x.terms = TermsOf(c) THEN superseded \ ({c} \X new)
                       ELSE superseded \cup ({c} \X new)
      /\ UNCHANGED <<clients, documents>>
  BY DEF RecordConsent, clientVars
<1>4. \A k \in all : k \in new <=> (<<c, k>> \in consents => <<c, k>> \in superseded)
  OBVIOUS
<1>5. new \subseteq all
  OBVIOUS
<1> HIDE DEF new, all, c
<1>6. /\ consents \subseteq Client \X ConsentKey
      /\ agreed \subseteq Client \X ConsentKey \X Terms
  BY DEF ConsentInv, ConsentTypeOK
<1>7. consents' \subseteq Client \X ConsentKey
  BY <1>1, <1>2, <1>3, <1>6
<1>8. agreed' \subseteq Client \X ConsentKey \X Terms
  BY <1>1, <1>2, <1>3, <1>5, <1>6
<1>9. ASSUME NEW r \in consents', r[1] \in Cimd
      PROVE  \E t \in Terms : <<r[1], r[2], t>> \in agreed'
  <2>1. CASE \E k \in new : r = <<c, k>>
    <3>1. PICK k \in new : r = <<c, k>>
      BY <2>1
    <3>2. PICK t \in Terms : x.terms = {t}
      BY <1>1, <1>9, <3>1
    <3>3. <<c, k, t>> \in agreed'
      BY <1>3, <3>2
    <3> QED BY <3>1, <3>3
  <2>2. CASE ~\E k \in new : r = <<c, k>>
    <3>1. r \in consents
      <4>1. CASE r \in {c} \X all
        BY <1>4, <2>2, <4>1
      <4> QED BY <1>3, <4>1
    <3>2. PICK t \in Terms : <<r[1], r[2], t>> \in agreed
      BY <1>9, <3>1 DEF ConsentInv, ConsentFollowsDocument
    <3>3. r = <<r[1], r[2]>>
      BY <1>6, <3>1
    <3>4. ~(r[1] = c /\ r[2] \in new)
      BY <2>2, <3>3
    <3> QED BY <1>3, <3>2, <3>4
  <2> QED BY <2>1, <2>2
<1>10. ASSUME NEW r \in agreed'
       PROVE  /\ r[1] \in clients'
              /\ documents'[r[1]].terms = r[3] <=> <<r[1], r[2]>> \notin superseded'
  <2>1. CASE r \in agreed /\ ~(r[1] = c /\ r[2] \in new)
    <3>1. <<r[1], r[2]>> \notin {c} \X new
      BY <2>1
    <3>2. <<r[1], r[2]>> \in superseded' <=> <<r[1], r[2]>> \in superseded
      BY <1>3, <3>1
    <3> QED BY <1>3, <2>1, <3>2 DEF ConsentInv, ConsentFollowsDocument
  <2>2. CASE r \in {c} \X new \X x.terms
    <3>1. PICK k \in new, t \in x.terms : r = <<c, k, t>>
      BY <2>2
    <3>2. c \in Cimd /\ x.terms = {t}
      BY <1>1, <3>1
    <3>3. TermsOf(c) = {documents[c].terms}
      BY <1>1, <3>2, TermsAreOne DEF ConsentInv
    <3>4. x.terms = TermsOf(c) <=> documents[c].terms = t
      BY <3>2, <3>3
    <3>5. <<c, k>> \in superseded' <=> x.terms # TermsOf(c)
      BY <1>3, <3>1
    <3> QED BY <1>1, <1>3, <3>1, <3>4, <3>5
  <2> QED BY <1>3, <2>1, <2>2
<1> QED BY <1>7, <1>8, <1>9, <1>10 DEF ConsentFollowsDocument

LEMMA ConsentStep ==
  ASSUME ConsentInv, [ResourceStep]_resourceVars
  PROVE  ConsentInv'
<1> USE DEF clientVars, consentVars
<1>0. /\ published \in [Cimd -> Document]
      /\ documents \in [Client -> Document \cup {NoDocument}]
      /\ fetches \subseteq Cimd \X Document /\ clients \subseteq Client
      /\ consents \subseteq Client \X ConsentKey
      /\ authorizations \subseteq Authorization
      /\ agreed \subseteq Client \X ConsentKey \X Terms
      /\ Cimd \subseteq Client /\ NoDocument \notin Document
  BY ResourceAssumption DEF ConsentInv, ConsentTypeOK
<1>1. CASE UNCHANGED <<published, documents, fetches, clients, consents, authorizations,
                       agreed, superseded>>
  BY <1>1 DEF ConsentInv, ConsentTypeOK, CimdHasDocument, BeganUnderTerms, ConsentFollowsDocument
<1>2. ASSUME NEW c \in Client, NEW p \in BOOLEAN, AddClient(c, p)
      PROVE  ConsentInv'
  BY <1>0, <1>2 DEF AddClient, ConsentInv, ConsentTypeOK, CimdHasDocument, BeganUnderTerms,
     ConsentFollowsDocument
<1>3. ASSUME NEW c \in Client, RemoveClient(c)
      PROVE  ConsentInv'
  <2>1. /\ clients' = clients \ {c} /\ documents' = [documents EXCEPT ![c] = NoDocument]
        /\ authorizations' = {x \in authorizations : x.client # c}
        /\ NoConsents(c)
        /\ UNCHANGED <<fetches, published>>
    BY <1>3 DEF RemoveClient
  <2>2. ConsentTypeOK' /\ CimdHasDocument' /\ BeganUnderTerms'
    BY <1>0, <2>1 DEF NoConsents, ConsentInv, ConsentTypeOK, CimdHasDocument, BeganUnderTerms
  <2>3. ConsentFollowsDocument'
    BY <1>0, <2>1 DEF NoConsents, ConsentInv, ConsentFollowsDocument
  <2> QED BY <2>2, <2>3 DEF ConsentInv
<1>4. ASSUME NEW c \in Client, NEW d \in Document, Publish(c, d)
      PROVE  ConsentInv'
  BY <1>0, <1>4 DEF Publish, ConsentInv, ConsentTypeOK, CimdHasDocument, BeganUnderTerms,
     ConsentFollowsDocument
<1>5. ASSUME NEW c \in Client, FetchDocument(c)
      PROVE  ConsentInv'
  <2>1. c \in Cimd /\ fetches' = fetches \cup {<<c, published[c]>>}
    BY <1>5 DEF FetchDocument
  <2>2. <<c, published[c]>> \in Cimd \X Document
    BY <1>0, <2>1
  <2>3. UNCHANGED <<published, documents, clients, consents, authorizations, agreed, superseded>>
    BY <1>5 DEF FetchDocument
  <2>4. ConsentTypeOK'
    BY <1>0, <2>1, <2>2, <2>3 DEF ConsentTypeOK
  <2> QED BY <2>3, <2>4 DEF ConsentInv, CimdHasDocument, BeganUnderTerms, ConsentFollowsDocument
<1>6. ASSUME NEW f \in fetches, StoreCIMDClient(f[1], f[2])
      PROVE  ConsentInv'
  <2>1. PICK c \in Cimd, d \in Document : c = f[1] /\ d = f[2]
    BY <1>0
  <2>2. /\ clients' = clients \cup {c} /\ documents' = [documents EXCEPT ![c] = d]
        /\ fetches' \subseteq fetches
        /\ UNCHANGED <<published, authorizations>>
        /\ \/ TermsChanged(c, d) /\ NoConsents(c)
           \/ ~TermsChanged(c, d) /\ UNCHANGED <<consents, agreed, superseded>>
    BY <1>6, <2>1 DEF StoreCIMDClient
  <2>3. ConsentTypeOK' /\ CimdHasDocument' /\ BeganUnderTerms'
    BY <1>0, <2>2 DEF NoConsents, ConsentInv, ConsentTypeOK, CimdHasDocument, BeganUnderTerms
  <2>4. ConsentFollowsDocument'
    <3>1. CASE NoConsents(c)
      BY <1>0, <2>2, <3>1 DEF NoConsents, ConsentInv, ConsentFollowsDocument
    <3>2. CASE ~TermsChanged(c, d) /\ UNCHANGED <<consents, agreed, superseded>>
      <4>1. ASSUME NEW r \in agreed
            PROVE  r[1] \in clients' /\ documents'[r[1]].terms = documents[r[1]].terms
        <5>1. r[1] \in clients
          BY DEF ConsentInv, ConsentFollowsDocument
        <5>2. CASE r[1] = c
          <6>1. documents[c] # NoDocument
            BY <5>1, <5>2 DEF ConsentInv, CimdHasDocument
          <6>2. documents[c].terms = d.terms
            BY <3>2, <6>1 DEF TermsChanged
          <6> QED BY <1>0, <2>2, <5>1, <5>2, <6>2
        <5>3. CASE r[1] # c
          BY <1>0, <2>2, <5>1, <5>3
        <5> QED BY <5>2, <5>3
      <4> QED BY <3>2, <4>1 DEF ConsentInv, ConsentFollowsDocument
    <3> QED BY <2>2, <3>1, <3>2
  <2> QED BY <2>3, <2>4 DEF ConsentInv
<1>7. ASSUME NEW f \in fetches, RejectDocument(f[1], f[2])
      PROVE  ConsentInv'
  BY <1>0, <1>7 DEF RejectDocument, ConsentInv, ConsentTypeOK, CimdHasDocument, BeganUnderTerms,
     ConsentFollowsDocument
<1>8. ASSUME NEW c \in Client, NEW a \in Api, NEW keys \in SUBSET Key, NEW s \in BOOLEAN,
             BeginAuthorization(c, a, keys, s)
      PROVE  ConsentInv'
  <2> DEFINE x == [client |-> c, api |-> a, keys |-> keys, terms |-> TermsOf(c), passed |-> ~s]
  <2>1. /\ c \in clients /\ authorizations' = authorizations \cup {x}
        /\ UNCHANGED <<published, documents, fetches, clients, consents, agreed, superseded>>
    BY <1>8 DEF BeginAuthorization
  <2>2. /\ c \in Cimd => \E t \in Terms : TermsOf(c) = {t}
        /\ c \notin Cimd => TermsOf(c) = {}
    BY <2>1, TermsAreOne DEF ConsentInv
  <2>3. x \in Authorization
    BY <2>2 DEF Authorization
  <2>4. ConsentTypeOK'
    BY <1>0, <2>1, <2>3 DEF ConsentTypeOK
  <2>5. BeganUnderTerms'
    BY <2>1, <2>2 DEF ConsentInv, BeganUnderTerms
  <2> QED BY <2>1, <2>4, <2>5 DEF ConsentInv, CimdHasDocument, ConsentFollowsDocument
<1>9. ASSUME NEW x \in authorizations, NEW keys \in SUBSET Key, RecordConsent(x, keys),
             \A y \in authorizations' :
               \/ y \in authorizations
               \/ /\ y \in Authorization
                  /\ y.client = x.client /\ y.terms = x.terms
      PROVE  ConsentInv'
  <2>1. UNCHANGED <<published, documents, fetches, clients>>
    BY <1>9 DEF RecordConsent
  <2>2. /\ consents' \subseteq Client \X ConsentKey
        /\ agreed' \subseteq Client \X ConsentKey \X Terms
        /\ ConsentFollowsDocument'
    BY <1>9, RecordingMarks
  <2>3. ConsentTypeOK'
    BY <1>0, <1>9, <2>1, <2>2 DEF ConsentTypeOK
  <2>4. BeganUnderTerms'
    BY <1>9, <2>1 DEF ConsentInv, BeganUnderTerms
  <2> QED BY <2>1, <2>2, <2>3, <2>4 DEF ConsentInv, CimdHasDocument
<1>10. ASSUME NEW x \in authorizations, NEW approved \in SUBSET x.keys,
              CompleteConsentStep(x, approved)
       PROVE  ConsentInv'
  <2> DEFINE y == [x EXCEPT !.keys = approved, !.passed = TRUE]
  <2>1. x \in Authorization /\ approved \in SUBSET Key
    BY <1>0 DEF Authorization
  <2>2. y \in Authorization /\ y.client = x.client /\ y.terms = x.terms
    BY <2>1 DEF Authorization
  <2>3. /\ RecordConsent(x, approved)
        /\ authorizations' = (authorizations \ {x}) \cup {y}
    BY <1>10 DEF CompleteConsentStep
  <2> HIDE DEF y
  <2> QED BY <1>9, <2>1, <2>2, <2>3
<1>11. ASSUME NEW x \in authorizations, FinishAuthorization(x)
       PROVE  ConsentInv'
  <2>1. x.keys \in SUBSET Key
    BY <1>0 DEF Authorization
  <2> QED BY <1>9, <1>11, <2>1 DEF FinishAuthorization
<1>12. ASSUME NEW x \in authorizations, AbandonAuthorization(x)
       PROVE  ConsentInv'
  BY <1>0, <1>12 DEF AbandonAuthorization, ConsentInv, ConsentTypeOK, CimdHasDocument,
     BeganUnderTerms, ConsentFollowsDocument
<1>13. CASE UNCHANGED resourceVars
  BY <1>1, <1>13 DEF resourceVars
<1> QED BY <1>1, <1>2, <1>3, <1>4, <1>5, <1>6, <1>7, <1>8, <1>10, <1>11, <1>12, <1>13
        DEF ResourceStep, CreateApi, DeleteApi, UpdatePermissions, SetCIMDAccess,
            SetAPIClientAccess, RemoveAPIClientAccess, ChangeClient, Administrate

(* A consent for a client with a document does not outlive the terms it    *)
(* was given under, for any documents, clients, fetches and open consent   *)
(* screens.  The one way to a consent for other terms than those stored is *)
(* marked: the document was replaced while the authorization was under way.*)
THEOREM ConsentsKeepTheirTerms == Spec => []ConsentFollowsDocument
<1>1. Init => ConsentInv
  BY ConsentInitInv DEF Init
<1>2. ConsentInv /\ [Next]_vars => ConsentInv'
  BY StepsOfParts, ConsentStep
<1>3. ConsentInv => ConsentFollowsDocument
  BY DEF ConsentInv
<1> QED BY <1>1, <1>2, <1>3, PTL DEF Spec

-----------------------------------------------------------------------------
(* Who reaches an API (ResourceAccess).                                    *)

GrantTypeOK ==
  /\ permissions \subseteq apis \X Key
  /\ openApis \subseteq apis /\ openPermissions \subseteq permissions
  /\ clients \subseteq Client
  /\ access \subseteq clients \X apis \X Subject
  /\ granted \subseteq clients \X permissions \X Subject
  /\ asked \subseteq access

(* A permission that is granted gives access, and access comes from a      *)
(* permission or was asked for.                                            *)
GrantsGiveAccess ==
  \A c \in clients, p \in permissions, s \in Subject :
    <<c, p, s>> \in granted => <<c, p[1], s>> \in access

AccessHasReason ==
  \A c \in clients, a \in apis, s \in Subject :
    <<c, a, s>> \in access =>
      \/ <<c, a, s>> \in asked
      \/ \E p \in permissions : p[1] = a /\ <<c, p, s>> \in granted

(* An inductive invariant that implies AccessIsOneStory.                   *)
AccessInv == GrantTypeOK /\ GrantsGiveAccess /\ AccessHasReason

LEMMA AccessInitInv == ResourceInit => AccessInv
  BY DEF ResourceInit, AccessInv, GrantTypeOK, GrantsGiveAccess, AccessHasReason

(* Permissions go, with the grants of them and the access that rests on    *)
(* them alone.                                                             *)
LEMMA AccessWithoutGone ==
  ASSUME AccessInv, NEW gone \in SUBSET permissions,
         NEW c \in clients, NEW a \in apis, NEW s \in Subject
  PROVE  <<c, a, s>> \in AccessWithout(gone) <=>
           /\ <<c, a, s>> \in access
           /\ \/ \A p \in gone : p[1] = a => <<c, p, s>> \notin granted
              \/ \E p \in permissions : p[1] = a /\ p \notin gone /\ <<c, p, s>> \in granted
<1>1. GrantedTo(c, a, s) \ gone # {} <=>
        \E p \in permissions : p[1] = a /\ p \notin gone /\ <<c, p, s>> \in granted
  BY DEF GrantedTo, PermissionsOf
<1>2. <<c, a, s>>[1] = c /\ <<c, a, s>>[2] = a /\ <<c, a, s>>[3] = s
  OBVIOUS
<1> QED BY <1>1, <1>2 DEF AccessWithout

(* Nothing is taken and nothing is granted.                                *)
LEMMA GrantsStay ==
  ASSUME AccessInv, UNCHANGED <<permissions, access, granted, asked>>,
         apis \subseteq apis', clients \subseteq clients', clients' \subseteq Client,
         openApis' \subseteq apis', openPermissions' \subseteq permissions
  PROVE  AccessInv'
<1>1. /\ permissions \subseteq apis \X Key
      /\ access \subseteq clients \X apis \X Subject
      /\ granted \subseteq clients \X permissions \X Subject /\ asked \subseteq access
  BY DEF AccessInv, GrantTypeOK
<1>2. permissions' \subseteq apis' \X Key /\ asked' \subseteq access'
  BY <1>1
<1>3. access' \subseteq clients' \X apis' \X Subject
  <2> SUFFICES ASSUME NEW r \in access PROVE r \in clients' \X apis' \X Subject
    OBVIOUS
  <2> QED BY <1>1
<1>4. granted' \subseteq clients' \X permissions' \X Subject
  <2> SUFFICES ASSUME NEW g \in granted PROVE g \in clients' \X permissions \X Subject
    OBVIOUS
  <2> QED BY <1>1
<1>5. GrantsGiveAccess'
  <2> SUFFICES ASSUME NEW c \in clients', NEW q \in permissions, NEW s \in Subject,
                      <<c, q, s>> \in granted
               PROVE  <<c, q[1], s>> \in access
    BY DEF GrantsGiveAccess
  <2>1. c \in clients
    BY <1>1
  <2> QED BY <2>1 DEF AccessInv, GrantsGiveAccess
<1>6. AccessHasReason'
  <2> SUFFICES ASSUME NEW c \in clients', NEW a \in apis', NEW s \in Subject,
                      <<c, a, s>> \in access
               PROVE  \/ <<c, a, s>> \in asked
                      \/ \E q \in permissions : q[1] = a /\ <<c, q, s>> \in granted
    BY DEF AccessHasReason
  <2>1. c \in clients /\ a \in apis
    BY <1>1
  <2> QED BY <2>1 DEF AccessInv, AccessHasReason
<1> QED BY <1>2, <1>3, <1>4, <1>5, <1>6 DEF AccessInv, GrantTypeOK

(* Permissions go, perhaps with their API, others may come.                *)
LEMMA PermissionsGo ==
  ASSUME AccessInv, NEW gone \in SUBSET permissions,
         clients' = clients, apis' \subseteq apis, permissions' \subseteq apis' \X Key,
         \A q \in permissions : q \notin gone => q \in permissions',
         openApis' \subseteq apis', openPermissions' \subseteq permissions',
         granted' = {g \in granted : g[2] \notin gone},
         access' = {r \in AccessWithout(gone) : r[2] \in apis'},
         asked' = asked \cap access'
  PROVE  AccessInv'
<1>1. /\ permissions \subseteq apis \X Key
      /\ clients \subseteq Client
      /\ access \subseteq clients \X apis \X Subject
      /\ granted \subseteq clients \X permissions \X Subject /\ asked \subseteq access
  BY DEF AccessInv, GrantTypeOK
<1>2. access' \subseteq clients' \X apis' \X Subject
  <2> SUFFICES ASSUME NEW r \in access' PROVE r \in clients \X apis' \X Subject
    OBVIOUS
  <2> QED BY <1>1 DEF AccessWithout
<1>3. granted' \subseteq clients' \X permissions' \X Subject
  <2> SUFFICES ASSUME NEW g \in granted' PROVE g \in clients \X permissions' \X Subject
    OBVIOUS
  <2> QED BY <1>1
<1>4. \A c \in clients, q \in permissions, s \in Subject :
        <<c, q, s>> \in granted' <=> <<c, q, s>> \in granted /\ q \notin gone
  BY <1>1
<1>5. \A c \in clients, a \in apis', s \in Subject :
        <<c, a, s>> \in access' <=> <<c, a, s>> \in AccessWithout(gone)
  OBVIOUS
<1>6. GrantsGiveAccess'
  <2> SUFFICES ASSUME NEW c \in clients, NEW q \in permissions', NEW s \in Subject,
                      <<c, q, s>> \in granted'
               PROVE  <<c, q[1], s>> \in access'
    BY DEF GrantsGiveAccess
  <2>1. <<c, q, s>> \in granted
    OBVIOUS
  <2>2. q \in permissions
    BY <1>1, <2>1
  <2>3. q \notin gone /\ q[1] \in apis' /\ q[1] \in apis
    BY <1>1, <1>4, <2>2
  <2>4. <<c, q[1], s>> \in access
    BY <2>1, <2>2 DEF AccessInv, GrantsGiveAccess
  <2>5. <<c, q[1], s>> \in AccessWithout(gone)
    BY <2>1, <2>2, <2>3, <2>4, AccessWithoutGone
  <2> QED BY <1>5, <2>3, <2>5
<1>7. AccessHasReason'
  <2> SUFFICES ASSUME NEW c \in clients, NEW a \in apis', NEW s \in Subject,
                      <<c, a, s>> \in access'
               PROVE  \/ <<c, a, s>> \in asked'
                      \/ \E q \in permissions' : q[1] = a /\ <<c, q, s>> \in granted'
    BY DEF AccessHasReason
  <2>1. /\ <<c, a, s>> \in access
        /\ \/ \A q \in gone : q[1] = a => <<c, q, s>> \notin granted
           \/ \E q \in permissions : q[1] = a /\ q \notin gone /\ <<c, q, s>> \in granted
    BY <1>5, AccessWithoutGone
  <2>2. \/ <<c, a, s>> \in asked
        \/ \E q \in permissions : q[1] = a /\ <<c, q, s>> \in granted
    BY <2>1 DEF AccessInv, AccessHasReason
  <2>3. CASE <<c, a, s>> \in asked
    BY <2>3
  <2>4. CASE \E q \in permissions : q[1] = a /\ q \notin gone /\ <<c, q, s>> \in granted
    BY <1>4, <2>4
  <2> QED BY <2>1, <2>2, <2>3, <2>4
<1> QED BY <1>1, <1>2, <1>3, <1>6, <1>7 DEF AccessInv, GrantTypeOK

(* An administrator gives a client access to an API, or takes it: the      *)
(* given subjects have it then, some (why) because it was asked for.       *)
NowGiven(c, a, given, why) ==
  /\ UNCHANGED <<apis, permissions, openApis, openPermissions, clients>>
  /\ \A s \in Subject : <<c, a, s>> \in access' <=> s \in given
  /\ \A x \in clients, b \in apis, s \in Subject :
       ~(x = c /\ b = a) => (<<x, b, s>> \in access' <=> <<x, b, s>> \in access)
  /\ \A x \in clients, q \in permissions, s \in Subject :
       ~(x = c /\ q[1] = a) => (<<x, q, s>> \in granted' <=> <<x, q, s>> \in granted)
  /\ \A q \in permissions, s \in Subject :
       q[1] = a /\ <<c, q, s>> \in granted' => s \in given
  /\ \A s \in given \ why : \E q \in permissions : q[1] = a /\ <<c, q, s>> \in granted'
  /\ asked' = {r \in asked : ~(r[1] = c /\ r[2] = a)} \cup ({c} \X {a} \X why)
  /\ access' \subseteq clients \X apis \X Subject
  /\ granted' \subseteq clients \X permissions \X Subject

LEMMA ClientAccessSet ==
  ASSUME AccessInv, NEW c \in clients, NEW a \in apis,
         NEW given \in SUBSET Subject, NEW why \in SUBSET given, NowGiven(c, a, given, why)
  PROVE  AccessInv'
<1> USE DEF NowGiven
<1>1. /\ permissions \subseteq apis \X Key /\ clients \subseteq Client
      /\ openApis \subseteq apis /\ openPermissions \subseteq permissions
      /\ access \subseteq clients \X apis \X Subject /\ asked \subseteq access
  BY DEF AccessInv, GrantTypeOK
<1>2. asked' \subseteq access'
  <2> SUFFICES ASSUME NEW r \in asked' PROVE r \in access'
    OBVIOUS
  <2>1. CASE r \in asked /\ ~(r[1] = c /\ r[2] = a)
    <3>1. PICK x \in clients, b \in apis, s \in Subject : r = <<x, b, s>>
      BY <1>1, <2>1
    <3>2. <<x, b, s>> \in access /\ ~(x = c /\ b = a)
      BY <1>1, <2>1, <3>1
    <3> QED BY <3>1, <3>2
  <2>2. CASE r \in {c} \X {a} \X why
    <3>1. PICK s \in why : r = <<c, a, s>>
      BY <2>2
    <3> QED BY <3>1
  <2> QED BY <2>1, <2>2
<1>3. GrantsGiveAccess'
  <2> SUFFICES ASSUME NEW x \in clients, NEW q \in permissions, NEW s \in Subject,
                      <<x, q, s>> \in granted'
               PROVE  <<x, q[1], s>> \in access'
    BY DEF GrantsGiveAccess
  <2>1. q[1] \in apis
    BY <1>1
  <2>2. CASE x = c /\ q[1] = a
    BY <2>1, <2>2
  <2>3. CASE ~(x = c /\ q[1] = a)
    <3>1. <<x, q[1], s>> \in access
      BY <2>3 DEF AccessInv, GrantsGiveAccess
    <3> QED BY <2>1, <2>3, <3>1
  <2> QED BY <2>2, <2>3
<1>4. AccessHasReason'
  <2> SUFFICES ASSUME NEW x \in clients, NEW b \in apis, NEW s \in Subject,
                      <<x, b, s>> \in access'
               PROVE  \/ <<x, b, s>> \in asked'
                      \/ \E q \in permissions : q[1] = b /\ <<x, q, s>> \in granted'
    BY DEF AccessHasReason
  <2>1. CASE x = c /\ b = a
    <3>1. s \in given
      BY <2>1
    <3>2. s \in why => <<x, b, s>> \in asked'
      BY <2>1
    <3> QED BY <2>1, <3>1, <3>2
  <2>2. CASE ~(x = c /\ b = a)
    <3>1. \/ <<x, b, s>> \in asked
          \/ \E q \in permissions : q[1] = b /\ <<x, q, s>> \in granted
      BY <2>2 DEF AccessInv, AccessHasReason
    <3>2. <<x, b, s>> \in asked => <<x, b, s>> \in asked'
      BY <2>2
    <3> QED BY <2>2, <3>1, <3>2
  <2> QED BY <2>1, <2>2
<1> QED BY <1>1, <1>2, <1>3, <1>4 DEF AccessInv, GrantTypeOK

LEMMA AccessStep ==
  ASSUME ConsentTypeOK, AccessInv, [ResourceStep]_resourceVars
  PROVE  AccessInv'
<1> USE DEF grantVars, clientVars, Administrate
<1>0. /\ permissions \subseteq apis \X Key
      /\ openApis \subseteq apis /\ openPermissions \subseteq permissions
      /\ clients \subseteq Client
      /\ access \subseteq clients \X apis \X Subject
      /\ granted \subseteq clients \X permissions \X Subject
      /\ asked \subseteq access
  BY DEF AccessInv, GrantTypeOK
<1>1. CASE UNCHANGED <<clients, grantVars>>
  BY <1>0, <1>1, GrantsStay
<1>2. ASSUME NEW a \in Api, CreateApi(a)
      PROVE  AccessInv'
  BY <1>0, <1>2, GrantsStay DEF CreateApi
<1>3. ASSUME NEW a \in Api, DeleteApi(a)
      PROVE  AccessInv'
  <2>1. PICK gone \in SUBSET permissions : gone = PermissionsOf(a)
    BY DEF PermissionsOf
  <2>2. /\ clients' = clients /\ apis' = apis \ {a} /\ openApis' = openApis \ {a}
        /\ permissions' = permissions \ gone /\ openPermissions' = openPermissions \ gone
        /\ granted' = {g \in granted : g[2] \notin gone}
        /\ access' = {r \in AccessWithout(gone) : r[2] # a}
        /\ asked' = asked \cap access'
    BY <1>3, <2>1 DEF DeleteApi, DeletePermissions
  <2>3. permissions' \subseteq apis' \X Key
    <3> SUFFICES ASSUME NEW q \in permissions, q \notin gone PROVE q \in (apis \ {a}) \X Key
      BY <2>2
    <3>1. q[1] # a
      BY <2>1 DEF PermissionsOf
    <3> QED BY <1>0, <3>1
  <2>4. access' = {r \in AccessWithout(gone) : r[2] \in apis'}
    <3>1. \A r \in AccessWithout(gone) : r[2] \in apis
      BY <1>0 DEF AccessWithout
    <3> QED BY <2>2, <3>1
  <2>5. openApis' \subseteq apis' /\ openPermissions' \subseteq permissions' /\ apis' \subseteq apis
    BY <1>0, <2>2
  <2>6. \A q \in permissions : q \notin gone => q \in permissions'
    BY <2>2
  <2> QED BY <2>2, <2>3, <2>4, <2>5, <2>6, PermissionsGo
<1>4. ASSUME NEW a \in Api, NEW keys \in SUBSET Key, UpdatePermissions(a, keys)
      PROVE  AccessInv'
  <2>1. PICK gone \in SUBSET permissions : gone = {q \in PermissionsOf(a) : q[2] \notin keys}
    BY DEF PermissionsOf
  <2>2. /\ clients' = clients /\ a \in apis /\ UNCHANGED <<apis, openApis>>
        /\ permissions' = (permissions \ gone) \cup ({a} \X keys)
        /\ openPermissions' = openPermissions \ gone
        /\ granted' = {g \in granted : g[2] \notin gone}
        /\ access' = AccessWithout(gone)
        /\ asked' = asked \cap access'
    BY <1>4, <2>1 DEF UpdatePermissions
  <2>3. permissions' \subseteq apis' \X Key
    BY <1>0, <2>2
  <2>4. access' = {r \in AccessWithout(gone) : r[2] \in apis'}
    <3>1. \A r \in AccessWithout(gone) : r[2] \in apis
      BY <1>0 DEF AccessWithout
    <3> QED BY <2>2, <3>1
  <2>5. openApis' \subseteq apis' /\ openPermissions' \subseteq permissions' /\ apis' \subseteq apis
    BY <1>0, <2>2
  <2>6. \A q \in permissions : q \notin gone => q \in permissions'
    BY <2>2
  <2> QED BY <2>2, <2>3, <2>4, <2>5, <2>6, PermissionsGo
<1>5. ASSUME NEW a \in Api, NEW e \in BOOLEAN, NEW ps \in SUBSET permissions,
             SetCIMDAccess(a, e, ps)
      PROVE  AccessInv'
  <2>1. /\ openApis' \subseteq apis /\ openPermissions' \subseteq permissions
        /\ UNCHANGED <<clients, apis, permissions, access, granted, asked>>
    BY <1>0, <1>5 DEF SetCIMDAccess, OwnPermissions, PermissionsOf
  <2> QED BY <1>0, <2>1, GrantsStay
<1>6. ASSUME NEW c \in Client, NEW a \in Api, NEW ticked \in SUBSET Subject,
             NEW ps \in [Subject -> SUBSET PermissionsOf(a)], SetAPIClientAccess(c, a, ticked, ps)
      PROVE  AccessInv'
  <2> DEFINE own(s) == OwnPermissions(a, ps[s])
  <2>1. PICK subjects \in SUBSET Subject : subjects = IF c \in public THEN {"user"} ELSE Subject
    BY DEF Subject
  <2>2. PICK given \in SUBSET Subject : given = {s \in subjects : Implied(c, a, s, ticked, ps)}
    OBVIOUS
  <2>3. \A s \in Subject : s \in given <=> s \in subjects /\ (s \in ticked \/ own(s) # {})
    BY <2>2 DEF Implied
  <2>4. \A s \in Subject : own(s) \subseteq permissions /\ \A q \in own(s) : q[1] = a
    BY DEF OwnPermissions, PermissionsOf
  <2>5. /\ a \in apis /\ c \in clients
        /\ access' = OthersAccess(c, a) \cup ({c} \X {a} \X given)
        /\ granted' = OthersGranted(c, a) \cup
             UNION {{c} \X own(s) \X {s} : s \in subjects}
        /\ asked' = (asked \cap OthersAccess(c, a)) \cup ({c} \X {a} \X (ticked \cap subjects))
    BY <1>6, <2>1, <2>2 DEF SetAPIClientAccess
  <2>6. UNCHANGED <<apis, permissions, openApis, openPermissions, clients>>
    BY <1>6 DEF SetAPIClientAccess
  <2> HIDE DEF own
  <2>7. /\ \A s \in Subject : <<c, a, s>> \in access' <=> s \in given
        /\ \A x \in clients, b \in apis, s \in Subject :
             ~(x = c /\ b = a) => (<<x, b, s>> \in access' <=> <<x, b, s>> \in access)
    BY <2>5 DEF OthersAccess
  <2>8. \A x, q, s : <<x, q, s>> \in UNION {{c} \X own(t) \X {t} : t \in subjects}
                       <=> s \in subjects /\ x = c /\ q \in own(s)
    OBVIOUS
  <2>9. \A x, q, s : <<x, q, s>> \in granted' <=>
          \/ <<x, q, s>> \in granted /\ ~(x = c /\ q[1] = a)
          \/ s \in subjects /\ x = c /\ q \in own(s)
    BY <2>5, <2>8 DEF OthersGranted
  <2>10. access' \subseteq clients \X apis \X Subject
    BY <1>0, <2>5 DEF OthersAccess
  <2>11. granted' \subseteq clients \X permissions \X Subject
    <3>1. ASSUME NEW g \in granted', g \notin granted
          PROVE  g \in clients \X permissions \X Subject
      <4>1. PICK s \in subjects : g \in {c} \X own(s) \X {s}
        BY <2>5, <3>1 DEF OthersGranted
      <4> QED BY <2>4, <2>5, <4>1
    <3> QED BY <1>0, <3>1
  <2>12. PICK why \in SUBSET given : why = ticked \cap subjects
    BY <2>3
  <2>13. asked' = {r \in asked : ~(r[1] = c /\ r[2] = a)} \cup ({c} \X {a} \X why)
    BY <1>0, <2>5, <2>12 DEF OthersAccess
  <2>14. \A x \in clients, q \in permissions, s \in Subject :
           ~(x = c /\ q[1] = a) => (<<x, q, s>> \in granted' <=> <<x, q, s>> \in granted)
    <3> SUFFICES ASSUME NEW x \in clients, NEW q \in permissions, NEW s \in Subject,
                        ~(x = c /\ q[1] = a)
                 PROVE  <<x, q, s>> \in granted' <=> <<x, q, s>> \in granted
      OBVIOUS
    <3> QED BY <2>4, <2>9
  <2>15. \A q \in permissions, s \in Subject :
           q[1] = a /\ <<c, q, s>> \in granted' => s \in given
    BY <2>3, <2>9
  <2>16. \A s \in given \ why :
           \E q \in permissions : q[1] = a /\ <<c, q, s>> \in granted'
    BY <2>3, <2>4, <2>9, <2>12
  <2>17. NowGiven(c, a, given, why)
    BY <2>6, <2>7, <2>10, <2>11, <2>13, <2>14, <2>15, <2>16 DEF NowGiven
  <2> QED BY <2>5, <2>17, ClientAccessSet
<1>7. ASSUME NEW c \in Client, NEW a \in Api, RemoveAPIClientAccess(c, a)
      PROVE  AccessInv'
  <2>1. /\ a \in apis /\ c \in clients
        /\ access' = OthersAccess(c, a) /\ granted' = OthersGranted(c, a)
        /\ asked' = asked \cap access'
        /\ UNCHANGED <<apis, permissions, openApis, openPermissions, clients>>
    BY <1>7 DEF RemoveAPIClientAccess
  <2>2. \A x \in clients, b \in apis, s \in Subject :
          <<x, b, s>> \in access' <=> <<x, b, s>> \in access /\ ~(x = c /\ b = a)
    BY <2>1 DEF OthersAccess
  <2>3. \A x, q, s : <<x, q, s>> \in granted' <=>
          <<x, q, s>> \in granted /\ ~(x = c /\ q[1] = a)
    BY <2>1 DEF OthersGranted
  <2>4. /\ access' \subseteq clients \X apis \X Subject
        /\ granted' \subseteq clients \X permissions \X Subject
    BY <1>0, <2>1 DEF OthersAccess, OthersGranted
  <2>5. PICK given \in SUBSET Subject : given = {}
    OBVIOUS
  <2>6. PICK why \in SUBSET given : why = {}
    OBVIOUS
  <2>7. asked' = {r \in asked : ~(r[1] = c /\ r[2] = a)} \cup ({c} \X {a} \X why)
    BY <1>0, <2>1, <2>6 DEF OthersAccess
  <2>8. NowGiven(c, a, given, why)
    <3>1. /\ \A s \in Subject : <<c, a, s>> \in access' <=> s \in given
          /\ \A x \in clients, b \in apis, s \in Subject :
               ~(x = c /\ b = a) => (<<x, b, s>> \in access' <=> <<x, b, s>> \in access)
      <4>1. ASSUME NEW s \in Subject PROVE <<c, a, s>> \notin access' /\ s \notin given
        BY <2>1, <2>2, <2>5
      <4> QED BY <2>2, <4>1
    <3>2. /\ \A x \in clients, q \in permissions, s \in Subject :
               ~(x = c /\ q[1] = a) => (<<x, q, s>> \in granted' <=> <<x, q, s>> \in granted)
          /\ \A q \in permissions, s \in Subject :
               q[1] = a /\ <<c, q, s>> \in granted' => s \in given
      BY <2>3
    <3>3. given \ why = {}
      BY <2>5
    <3> QED BY <2>1, <2>4, <2>7, <3>1, <3>2, <3>3 DEF NowGiven
  <2> QED BY <2>1, <2>8, ClientAccessSet
<1>8. ASSUME NEW c \in Client, NEW p \in BOOLEAN, AddClient(c, p) \/ ChangeClient(c, p)
      PROVE  AccessInv'
  BY <1>0, <1>8, GrantsStay DEF AddClient, ChangeClient
<1>9. ASSUME NEW c \in Client, RemoveClient(c)
      PROVE  AccessInv'
  <2>1. /\ clients' = clients \ {c}
        /\ access' = {r \in access : r[1] # c} /\ granted' = {g \in granted : g[1] # c}
        /\ asked' = asked \cap access'
        /\ UNCHANGED <<apis, permissions, openApis, openPermissions>>
    BY <1>9 DEF RemoveClient
  <2>2. GrantTypeOK'
    <3>1. access' \subseteq clients' \X apis' \X Subject
      BY <1>0, <2>1
    <3>2. granted' \subseteq clients' \X permissions' \X Subject
      BY <1>0, <2>1
    <3> QED BY <1>0, <2>1, <3>1, <3>2 DEF GrantTypeOK
  <2>3. GrantsGiveAccess'
    BY <2>1 DEF AccessInv, GrantsGiveAccess
  <2>4. AccessHasReason'
    BY <2>1 DEF AccessInv, AccessHasReason
  <2> QED BY <2>2, <2>3, <2>4 DEF AccessInv
<1>10. ASSUME NEW f \in fetches, StoreCIMDClient(f[1], f[2])
       PROVE  AccessInv'
  <2>1. f[1] \in Client
    BY ResourceAssumption DEF ConsentTypeOK
  <2> QED BY <1>0, <1>10, <2>1, GrantsStay DEF StoreCIMDClient
<1>11. CASE UNCHANGED resourceVars
  BY <1>1, <1>11 DEF resourceVars
<1>12. CASE \/ \E c \in Client, d \in Document : Publish(c, d)
            \/ \E c \in Client : FetchDocument(c)
            \/ \E f \in fetches : RejectDocument(f[1], f[2])
  BY <1>1, <1>12 DEF Publish, FetchDocument, RejectDocument
<1>13. ASSUME \/ \E c \in Client, a \in Api, keys \in SUBSET Key, s \in BOOLEAN :
                   BeginAuthorization(c, a, keys, s)
              \/ \E x \in authorizations : \E approved \in SUBSET x.keys :
                   CompleteConsentStep(x, approved)
              \/ \E x \in authorizations : FinishAuthorization(x) \/ AbandonAuthorization(x)
       PROVE  AccessInv'
  <2>1. UNCHANGED grantVars /\ UNCHANGED clientVars
    BY <1>13, Zenon DEF BeginAuthorization, CompleteConsentStep, FinishAuthorization,
       AbandonAuthorization, RecordConsent
  <2> QED BY <1>1, <2>1
<1> QED BY <1>2, <1>3, <1>4, <1>5, <1>6, <1>7, <1>8, <1>9, <1>10, <1>11, <1>12, <1>13, Zenon
        DEF ResourceStep

(* What the page of a client and the page of an API have on the two.       *)
AccessRow(c, a) ==
  [api |-> a, subjects |-> {s \in Subject : <<c, a, s>> \in access},
   keys |-> [s \in Subject |-> KeysIn(GrantedTo(c, a, s))],
   cimd |-> a \in CimdApis(c),
   cimdKeys |-> KeysIn(CimdPermissions(c) \cap PermissionsOf(a))]

GrantRow(a, c) ==
  [client |-> c, subjects |-> {s \in Subject : <<c, a, s>> \in access},
   keys |-> [s \in Subject |-> KeysIn(GrantedTo(c, a, s))],
   cimd |-> a \in openApis /\ c \in Cimd,
   cimdKeys |-> IF a \in openApis /\ c \in Cimd
                THEN KeysIn(PermissionsOf(a) \cap openPermissions) ELSE {}]

Reaches(c, a) == (\E s \in Subject : <<c, a, s>> \in access) \/ a \in CimdApis(c)

LEMMA GrantedIsAccess ==
  ASSUME AccessInv, NEW c \in clients, NEW a \in apis, NEW s \in Subject
  PROVE  GrantedTo(c, a, s) # {} => <<c, a, s>> \in access
  BY DEF AccessInv, GrantsGiveAccess, GrantedTo, PermissionsOf

(* The page of a client has one row for each API the client reaches.       *)
LEMMA ClientPage ==
  ASSUME AccessInv, NEW c \in clients, NEW a \in apis
  PROVE  {e \in ListClientAPIs(c) : e.api = a} = IF Reaches(c, a) THEN {AccessRow(c, a)} ELSE {}
<1> DEFINE listed == {b \in apis : \/ \E s \in Subject : <<c, b, s>> \in access
                                   \/ \E s \in Subject : GrantedTo(c, b, s) # {}
                                   \/ b \in CimdApis(c)}
<1>1. ListClientAPIs(c) = {AccessRow(c, b) : b \in listed}
  BY DEF ListClientAPIs, AccessRow
<1>2. a \in listed <=> Reaches(c, a)
  BY GrantedIsAccess DEF Reaches
<1>3. \A b : AccessRow(c, b).api = b
  BY DEF AccessRow
<1> HIDE DEF listed
<1> QED BY <1>1, <1>2, <1>3

(* So has the page of an API.                                              *)
LEMMA ApiPage ==
  ASSUME AccessInv, NEW c \in clients, NEW a \in apis
  PROVE  {e \in ListAPIClients(a) : e.client = c} = IF Reaches(c, a) THEN {GrantRow(a, c)} ELSE {}
<1> DEFINE listed == Explicit(a) \cup IF a \in openApis THEN clients \cap Cimd ELSE {}
<1>1. ListAPIClients(a) = {GrantRow(a, b) : b \in listed}
  BY DEF ListAPIClients, GrantRow
<1>2. c \in listed <=> Reaches(c, a)
  BY GrantedIsAccess DEF Reaches, Explicit, CimdApis
<1>3. \A b : GrantRow(a, b).client = b
  BY DEF GrantRow
<1> HIDE DEF listed
<1> QED BY <1>1, <1>2, <1>3

LEMMA SameRow ==
  ASSUME AccessInv, NEW c \in clients, NEW a \in apis
  PROVE  /\ AccessRow(c, a).subjects = GrantRow(a, c).subjects
         /\ AccessRow(c, a).keys = GrantRow(a, c).keys
         /\ AccessRow(c, a).cimd = GrantRow(a, c).cimd
         /\ AccessRow(c, a).cimdKeys = GrantRow(a, c).cimdKeys
<1>1. a \in CimdApis(c) <=> a \in openApis /\ c \in Cimd
  BY DEF CimdApis
<1>2. CimdPermissions(c) \cap PermissionsOf(a)
        = IF a \in openApis /\ c \in Cimd THEN PermissionsOf(a) \cap openPermissions ELSE {}
  BY <1>1 DEF CimdPermissions, PermissionsOf
<1>3. KeysIn({}) = {}
  BY DEF KeysIn
<1> QED BY <1>1, <1>2, <1>3 DEF AccessRow, GrantRow

(* What the endpoints grant is what the row says.                          *)
LEMMA EndpointsFollowRow ==
  ASSUME AccessInv, NEW c \in clients, NEW a \in apis, NEW s \in Subject
  PROVE  /\ HasAccess(c, a, s) <=> \/ s \in AccessRow(c, a).subjects
                                   \/ s = "user" /\ AccessRow(c, a).cimd
         /\ AllowedScopesForAudience(c, a, s) =
              AccessRow(c, a).keys[s]
                \cup IF s = "user" THEN AccessRow(c, a).cimdKeys ELSE {}
         /\ HasAccess(c, a, s) => Reaches(c, a)
         /\ ~Reaches(c, a) => AllowedScopesForAudience(c, a, s) = {}
<1>1. \A A, B : KeysIn(A \cup B) = KeysIn(A) \cup KeysIn(B)
  BY DEF KeysIn
<1>2. KeysIn({}) = {}
  BY DEF KeysIn
<1>3. HasAccess(c, a, s) <=> \/ s \in AccessRow(c, a).subjects
                             \/ s = "user" /\ AccessRow(c, a).cimd
  BY DEF HasAccess, AccessRow
<1>4. AllowedScopesForAudience(c, a, s) =
        AccessRow(c, a).keys[s] \cup IF s = "user" THEN AccessRow(c, a).cimdKeys ELSE {}
  BY <1>1, <1>2 DEF AllowedScopesForAudience, AccessRow
<1>5. HasAccess(c, a, s) => Reaches(c, a)
  BY DEF HasAccess, Reaches
<1>6. ASSUME ~Reaches(c, a) PROVE AllowedScopesForAudience(c, a, s) = {}
  <2>1. GrantedTo(c, a, s) = {}
    BY <1>6, GrantedIsAccess DEF Reaches
  <2>2. CimdPermissions(c) \cap PermissionsOf(a) = {}
    BY <1>6 DEF Reaches, CimdPermissions, PermissionsOf
  <2> QED BY <1>2, <2>1, <2>2 DEF AllowedScopesForAudience
<1> QED BY <1>3, <1>4, <1>5, <1>6

LEMMA EndpointsPass ==
  ASSUME AccessInv, NEW c \in clients, NEW a \in apis, NEW s \in Subject, HasAccess(c, a, s)
  PROVE  Resolves(c, a, AllowedScopesForAudience(c, a, s), s)
<1>1. a \in ClientAudiences(c)
  BY DEF HasAccess, ClientAudiences
<1>2. AllowedScopesForAudience(c, a, s) \subseteq ClientScopes(c)
  BY DEF AllowedScopesForAudience, ClientScopes, KeysIn, GrantedTo, PermissionsOf, CimdPermissions
<1> QED BY <1>1, <1>2 DEF Resolves

LEMMA ViewsFollow == ASSUME AccessInv PROVE ViewsAgree
<1> SUFFICES ASSUME NEW c \in clients, NEW a \in apis
             PROVE  LET entries == {e \in ListClientAPIs(c) : e.api = a} IN
    /\ (entries = {}) <=> a \in ListAssignableAPIs(c)
    /\ (entries = {}) <=> c \in ListAssignableClients(a)
    /\ {<<e.subjects, e.keys, e.cimd, e.cimdKeys>> : e \in entries} =
         {<<e.subjects, e.keys, e.cimd, e.cimdKeys>> :
            e \in {f \in ListAPIClients(a) : f.client = c}}
    /\ \A s \in Subject :
         /\ HasAccess(c, a, s) <=>
              \E e \in entries : s \in e.subjects \/ (s = "user" /\ e.cimd)
         /\ AllowedScopesForAudience(c, a, s) =
              UNION {e.keys[s] \cup IF s = "user" THEN e.cimdKeys ELSE {} : e \in entries}
         /\ HasAccess(c, a, s) => Resolves(c, a, AllowedScopesForAudience(c, a, s), s)
  BY DEF ViewsAgree
<1> DEFINE entries == {e \in ListClientAPIs(c) : e.api = a}
           others == {f \in ListAPIClients(a) : f.client = c}
<1>1. entries = (IF Reaches(c, a) THEN {AccessRow(c, a)} ELSE {})
      /\ others = (IF Reaches(c, a) THEN {GrantRow(a, c)} ELSE {})
  BY ClientPage, ApiPage
<1>2. a \in ListAssignableAPIs(c) <=> ~Reaches(c, a)
  BY DEF ListAssignableAPIs, Reaches
<1>3. c \in ListAssignableClients(a) <=> ~Reaches(c, a)
  BY DEF ListAssignableClients, Reaches, CimdApis
<1> HIDE DEF entries, others
<1>4. {<<e.subjects, e.keys, e.cimd, e.cimdKeys>> : e \in entries} =
        {<<e.subjects, e.keys, e.cimd, e.cimdKeys>> : e \in others}
  BY <1>1, SameRow
<1>5. ASSUME NEW s \in Subject
      PROVE  /\ HasAccess(c, a, s) <=>
                  \E e \in entries : s \in e.subjects \/ (s = "user" /\ e.cimd)
             /\ AllowedScopesForAudience(c, a, s) =
                  UNION {e.keys[s] \cup IF s = "user" THEN e.cimdKeys ELSE {} : e \in entries}
             /\ HasAccess(c, a, s) => Resolves(c, a, AllowedScopesForAudience(c, a, s), s)
  BY <1>1, EndpointsFollowRow, EndpointsPass
<1>6. (entries = {}) <=> ~Reaches(c, a)
  BY <1>1
<1> QED BY <1>2, <1>3, <1>4, <1>5, <1>6, Zenon DEF entries, others

(* Whoever was granted a permission reaches its API, nobody reaches an API *)
(* without a reason, and all that tell of it agree with each other and     *)
(* with what the endpoints grant, for any APIs, permissions and clients.   *)
THEOREM AccessToldAlike == Spec => []AccessIsOneStory
<1>1. Init => ConsentInv /\ AccessInv
  BY ConsentInitInv, AccessInitInv DEF Init
<1>2. ConsentInv /\ AccessInv /\ [Next]_vars => (ConsentInv /\ AccessInv)'
  BY StepsOfParts, ConsentStep, AccessStep DEF ConsentInv
<1>3. AccessInv => AccessIsOneStory
  <2> SUFFICES ASSUME AccessInv PROVE AccessIsOneStory
    OBVIOUS
  <2>1. AccessFollowsGrants
    <3>1. ASSUME NEW g \in granted
          PROVE  <<g[1], g[2][1], g[3]>> \in access
      <4>1. PICK c \in clients, q \in permissions, s \in Subject : g = <<c, q, s>>
        BY DEF AccessInv, GrantTypeOK
      <4> QED BY <4>1 DEF AccessInv, GrantsGiveAccess
    <3>2. ASSUME NEW r \in access
          PROVE  GrantedTo(r[1], r[2], r[3]) # {} \/ r \in asked
      <4>1. PICK c \in clients, a \in apis, s \in Subject : r = <<c, a, s>>
        BY DEF AccessInv, GrantTypeOK
      <4>2. GrantedTo(c, a, s) # {} \/ <<c, a, s>> \in asked
        BY <4>1 DEF AccessInv, AccessHasReason, GrantedTo, PermissionsOf
      <4> QED BY <4>1, <4>2
    <3> QED BY <3>1, <3>2 DEF AccessFollowsGrants
  <2> QED BY <2>1, ViewsFollow DEF AccessIsOneStory
<1> QED BY <1>1, <1>2, <1>3, PTL DEF Spec
=============================================================================
