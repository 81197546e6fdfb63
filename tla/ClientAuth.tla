----------------------------- MODULE ClientAuth ------------------------------
(***************************************************************************)
(* What a client may present once (backend/internal/oidc): an assertion    *)
(* with replay protection, and the URI of a pushed authorization request.  *)
(* Every statement of the store is a transaction of its own here, so two   *)
(* requests may read before either writes; a daily job deletes what has    *)
(* expired.                                                                *)
(***************************************************************************)
EXTENDS Naturals

CONSTANTS
  Assertion, Uri, Interaction,
  Visit,            \* requests at work
  Expiry,           \* when an assertion expires
  Skew,             \* how long after that it is still accepted
  ParLifespan, MaxTime

ASSUME ClientAuthAssumption ==
  /\ Expiry \in [Assertion -> Nat]
  /\ {Skew, ParLifespan, MaxTime} \subseteq Nat

VARIABLES
  now,
  jtis,          \* assertions whose JWT ID is stored
  visits,        \* what each request has read
  accepted,      \* history: how often an assertion authenticated the client
  forgotten,     \* history: how often its JWT ID was deleted
  pushed,        \* URI -> its session, or the reason there is none
  required,      \* RequiresPushedAuthorizationRequests
  interactions,  \* interaction -> the request it carries
  answers,       \* history: how often a pushed request was answered
  unasked,       \* history: an answer without the push that was required
  swept          \* the job that deletes JWT IDs has run

authVars == <<now, jtis, visits, accepted, forgotten, pushed, required,
              interactions, answers, unasked, swept>>
assertionVars == <<jtis, accepted, forgotten, swept>>
parVars == <<pushed, required, interactions, answers, unasked>>

Waiting == [at |-> "waiting"]
Checked(a) == [at |-> "checked", assertion |-> a]
Read(u) == [at |-> "read", uri |-> u]
Claimed(u) == [at |-> "claimed", uri |-> u]

Session(t, isActive) == [at |-> "stored", expires |-> t, active |-> isActive]
New == [at |-> "new"]
Deleted == [at |-> "deleted"]

(* The request an interaction carries: pushed, or not, and if not whether  *)
(* that was allowed when it came in.                                       *)
Carried == {[at |-> "pushed", uri |-> u] : u \in Uri}
             \cup {[at |-> "plain", allowed |-> b] : b \in BOOLEAN}
             \cup {[at |-> "none"], [at |-> "done"]}

Advance(v, visit) == visits' = [visits EXCEPT ![v] = visit]

(***************************************************************************)
(* authenticateAssertion, for an identity with replay protection.          *)
(***************************************************************************)
Valid(a) == now <= Expiry[a] + Skew

(* ClientAssertionJWTValid.                                                *)
PresentAssertion(v, a) ==
  /\ visits[v] = Waiting /\ Valid(a)
  /\ ~(a \in jtis /\ Expiry[a] > now)
  /\ Advance(v, Checked(a))
  /\ UNCHANGED <<now, assertionVars, parVars>>

\* Mutant: the insert replaces a row with the same JWT ID.
Insertable_Always(a) == TRUE

(* The JWT ID is the primary key.                                          *)
Insertable(a) == a \notin jtis

(* SetClientAssertionJWT.                                                  *)
RecordAssertion(v) ==
  LET a == visits[v].assertion IN
  /\ visits[v].at = "checked"
  /\ IF Insertable(a)
     THEN /\ jtis' = jtis \cup {a}
          /\ accepted' = [accepted EXCEPT ![a] = @ + 1]
     ELSE UNCHANGED <<jtis, accepted>>
  /\ Advance(v, Waiting)
  /\ UNCHANGED <<now, forgotten, swept, parVars>>

(* ClearOAuth2JTIs, once within MaxTime: time runs over less than a day.   *)
CleanupExpiredClientAssertionJTIs ==
  LET gone == {a \in jtis : Expiry[a] < now} IN
  /\ gone # {} /\ ~swept /\ swept' = TRUE
  /\ jtis' = jtis \ gone
  /\ forgotten' = [a \in Assertion |-> forgotten[a] + IF a \in gone THEN 1 ELSE 0]
  /\ UNCHANGED <<now, visits, accepted, parVars>>

(***************************************************************************)
(* Pushed authorization requests.                                          *)
(***************************************************************************)
CreatePARSession(u) ==
  /\ pushed[u] = New
  /\ pushed' = [pushed EXCEPT ![u] = Session(now + ParLifespan, TRUE)]
  /\ UNCHANGED <<now, visits, assertionVars, required, interactions, answers, unasked>>

(* GetPARSession reads the session...                                      *)
ReadPARSession(v, u) ==
  /\ visits[v] = Waiting
  /\ pushed[u].at = "stored" /\ pushed[u].active /\ pushed[u].expires >= now
  /\ Advance(v, Read(u))
  /\ UNCHANGED <<now, assertionVars, parVars>>

\* Mutant: the update does not ask whether the session is still active.
MayClaim_Inactive(u) == pushed[u].at = "stored"

MayClaim(u) == pushed[u].at = "stored" /\ pushed[u].active

(* ... and claims it with a conditional update.                            *)
ClaimPARSession(v) ==
  LET u == visits[v].uri IN
  /\ visits[v].at = "read" /\ MayClaim(u)
  /\ pushed' = [pushed EXCEPT ![u].active = FALSE]
  /\ Advance(v, Claimed(u))
  /\ UNCHANGED <<now, assertionVars, required, interactions, answers, unasked>>

Gone(u) == [pushed EXCEPT ![u] = Deleted]

(* The authorization endpoint deletes the session and answers at once, or  *)
(* starts an interaction that carries the request but not its URI.         *)
AnswerPushed(v) ==
  LET u == visits[v].uri IN
  /\ visits[v].at = "claimed"
  /\ pushed' = Gone(u)
  /\ answers' = [answers EXCEPT ![u] = @ + 1]
  /\ Advance(v, Waiting)
  /\ UNCHANGED <<now, assertionVars, required, interactions, unasked>>

InteractPushed(v, i) ==
  LET u == visits[v].uri IN
  /\ visits[v].at = "claimed" /\ interactions[i].at = "none"
  /\ pushed' = Gone(u)
  /\ interactions' = [interactions EXCEPT ![i] = [at |-> "pushed", uri |-> u]]
  /\ Advance(v, Waiting)
  /\ UNCHANGED <<now, assertionVars, required, answers, unasked>>

\* Mutant: any request_uri counts as a pushed request.
HasPushedRequest_Any(uri) == uri # "none"

(* The prefix of request_uri, for a request that names no stored session.  *)
HasPushedRequest(uri) == uri = "pushed"

MayGoOn(uri) == required => HasPushedRequest(uri)

(* authorize, for a request with its parameters or a request object.       *)
AnswerPlain(uri) ==
  /\ MayGoOn(uri)
  /\ unasked' = (unasked \/ required)
  /\ UNCHANGED <<now, visits, assertionVars, pushed, required, interactions, answers>>

InteractPlain(uri, i) ==
  /\ MayGoOn(uri) /\ interactions[i].at = "none"
  /\ interactions' = [interactions EXCEPT ![i] = [at |-> "plain", allowed |-> ~required]]
  /\ UNCHANGED <<now, visits, assertionVars, pushed, required, answers, unasked>>

(* A resumed interaction is not asked again how its request came in; it is *)
(* consumed with the answer.                                               *)
Resume(i) ==
  /\ interactions[i].at \in {"pushed", "plain"}
  /\ IF interactions[i].at = "pushed"
     THEN /\ answers' = [answers EXCEPT ![interactions[i].uri] = @ + 1]
          /\ UNCHANGED unasked
     ELSE /\ unasked' = (unasked \/ ~interactions[i].allowed)
          /\ UNCHANGED answers
  /\ interactions' = [interactions EXCEPT ![i] = [at |-> "done"]]
  /\ UNCHANGED <<now, visits, assertionVars, pushed, required>>

(* updateOIDCClientModelFromDto.                                           *)
SwitchRequirement ==
  /\ required' = ~required
  /\ UNCHANGED <<now, visits, assertionVars, pushed, interactions, answers, unasked>>

(* A request ends with an error; what it has written stays.                *)
EndVisit(v) ==
  /\ visits[v] # Waiting
  /\ Advance(v, Waiting)
  /\ UNCHANGED <<now, assertionVars, parVars>>

CleanupExpiredOAuth2Sessions ==
  LET gone == {u \in Uri : pushed[u].at = "stored" /\ pushed[u].expires < now} IN
  /\ gone # {}
  /\ pushed' = [u \in Uri |-> IF u \in gone THEN Deleted ELSE pushed[u]]
  /\ UNCHANGED <<now, visits, assertionVars, required, interactions, answers, unasked>>

Tick ==
  /\ now < MaxTime /\ now' = now + 1
  /\ UNCHANGED <<visits, assertionVars, parVars>>

AuthInit ==
  /\ now = 0 /\ jtis = {} /\ visits = [v \in Visit |-> Waiting]
  /\ accepted = [a \in Assertion |-> 0] /\ forgotten = [a \in Assertion |-> 0]
  /\ pushed = [u \in Uri |-> New] /\ required = FALSE
  /\ interactions = [i \in Interaction |-> [at |-> "none"]]
  /\ answers = [u \in Uri |-> 0] /\ unasked = FALSE /\ swept = FALSE

AuthStep ==
  \/ \E v \in Visit, a \in Assertion : PresentAssertion(v, a)
  \/ \E v \in Visit : RecordAssertion(v)
  \/ CleanupExpiredClientAssertionJTIs
  \/ \E u \in Uri : CreatePARSession(u)
  \/ \E v \in Visit, u \in Uri : ReadPARSession(v, u)
  \/ \E v \in Visit : ClaimPARSession(v)
  \/ \E v \in Visit : AnswerPushed(v)
  \/ \E v \in Visit, i \in Interaction : InteractPushed(v, i)
  \/ \E uri \in {"none", "object"} : AnswerPlain(uri)
  \/ \E uri \in {"none", "object"}, i \in Interaction : InteractPlain(uri, i)
  \/ \E i \in Interaction : Resume(i)
  \/ SwitchRequirement
  \/ \E v \in Visit : EndVisit(v)
  \/ CleanupExpiredOAuth2Sessions
  \/ Tick

AuthTypeOK ==
  /\ now \in 0..MaxTime /\ jtis \subseteq Assertion
  /\ visits \in [Visit -> {Waiting} \cup {Checked(a) : a \in Assertion}
                            \cup {Read(u) : u \in Uri} \cup {Claimed(u) : u \in Uri}]
  /\ accepted \in [Assertion -> Nat] /\ forgotten \in [Assertion -> Nat]
  /\ pushed \in [Uri -> {New, Deleted} \cup
                   {Session(t, b) : t \in 0..MaxTime + ParLifespan, b \in BOOLEAN}]
  /\ interactions \in [Interaction -> Carried] /\ answers \in [Uri -> Nat]
  /\ required \in BOOLEAN /\ unasked \in BOOLEAN /\ swept \in BOOLEAN

(* What may be presented once works once: an assertion authenticates once  *)
(* unless its JWT ID was deleted, which happens only after it expired, and *)
(* a pushed request is answered once, at once or through an interaction.   *)
PresentedOnce ==
  /\ \A a \in Assertion :
       /\ accepted[a] <= 1 + forgotten[a]
       /\ forgotten[a] > 0 => now > Expiry[a]
  /\ \A u \in Uri : answers[u] <= 1

(* No request that came in while the client had to push its requests is    *)
(* answered without a push, however the setting and interactions overlap.  *)
PushRequirementHonoured == ~unasked

(* A request of a client comes the way the client has to send it, and is   *)
(* answered no more than once.                                             *)
RequestsComeOnce == PresentedOnce /\ PushRequirementHonoured
=============================================================================
