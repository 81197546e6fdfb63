-------------------------- MODULE InteractionProofs --------------------------
(***************************************************************************)
(* Proofs about Interaction, for any number of requests, users, tabs and   *)
(* scopes, and any settings of the client.                                 *)
(***************************************************************************)
EXTENDS Interaction, FiniteSetTheorems, TLAPS

AtMostOne(S) == \A a, b \in S : a = b

(* What is known of a session, or of a copy of it, of request i: nobody is *)
(* bound to it until a user signs in, and from then on every screen it     *)
(* does not ask for any more was passed by its user.                       *)
Passed(i, s) ==
  /\ s.auth <=> s.user = None
  /\ ~s.auth =>
       /\ "select_account" \in prompt[i] => s.select \/ selected[i] # {}
       /\ ~s.reauth /\ ReauthenticationRequired(s.user, prompt[i])
            => s.user \in reauthed[i]
       /\ ~s.consent /\ "consent" \in prompt[i]
            => \E c \in screens[i] : c.user = s.user /\ s.scopes \subseteq c.scopes
       /\ ~s.consent /\ ~client.skipConsent => s.scopes \subseteq approved[s.user]

(* What the properties ask of a grant g of request i.                      *)
Honoured(i, g) ==
  /\ "select_account" \in prompt[i] => selected[i] # {}
  /\ ReauthenticationRequired(g.user, prompt[i]) => g.user \in reauthed[i]
  /\ "consent" \in prompt[i]
       => \E c \in screens[i] : c.user = g.user /\ g.scopes \subseteq c.scopes
  /\ ~client.skipConsent => g.scopes \subseteq approved[g.user]

(* A request is granted when its session is gone, and once.                *)
SessionsEndInGrants ==
  \A i \in Interactions :
    /\ prompt[i] = None => session[i] = None /\ grants[i] = {}
    /\ session[i] # None => grants[i] = {}
    /\ AtMostOne(grants[i])

(* The consent record of a user holds what the user approved, unless the   *)
(* client skips consent.                                                   *)
ConsentsApproved ==
  ~client.skipConsent =>
    \A u \in Users : consents[u] # None => consents[u] \subseteq approved[u]

SessionsPassed ==
  \A i \in Interactions : session[i] # None => Passed(i, session[i])

(* What a resumed request holds was so when it was read, and what was      *)
(* passed stays passed.                                                    *)
CopiesPassed ==
  \A p \in Procs :
    /\ proc[p].pc # "idle" => prompt[proc[p].id] # None
    /\ proc[p].pc = "bound" =>
         /\ Passed(proc[p].id, proc[p].copy)
         /\ proc[p].scopes \subseteq proc[p].copy.scopes

GrantsHonoured == \A i \in Interactions : \A g \in grants[i] : Honoured(i, g[2])

(* An inductive invariant that implies the properties of Interaction.      *)
InteractionInv ==
  /\ TypeOK
  /\ SessionsEndInGrants
  /\ ConsentsApproved
  /\ SessionsPassed
  /\ CopiesPassed
  /\ GrantsHonoured

LEMMA InvImplies ==
  InteractionInv => ScreensHonoured /\ GrantWithinApproval
  BY DEF InteractionInv, ScreensHonoured, PromptsHonoured, ReauthenticationHonoured,
         GrantWithinApproval, GrantsHonoured, Honoured

(* A set whose members are all the same has at most one.                   *)
LEMMA OneMember ==
  ASSUME NEW S, AtMostOne(S)
  PROVE  Cardinality(S) <= 1
<1>1. CASE S = {}
  BY <1>1, FS_EmptySet
<1>2. CASE S # {}
  <2>1. PICK a \in S : TRUE
    BY <1>2
  <2>2. S = {a}
    BY <2>1 DEF AtMostOne
  <2>3. Cardinality({a}) = 1
    BY FS_Singleton
  <2> QED BY <2>2, <2>3
<1> QED BY <1>1, <1>2

-----------------------------------------------------------------------------
(* The operators on sessions.                                              *)

(* Switching to a user asks for what that user has to pass.                *)
LEMMA SwitchUserPasses ==
  ASSUME InteractionInv, NEW i \in Interactions, NEW s \in Session, NEW u \in Users,
         Passed(i, s), ~s.auth
  PROVE  /\ SwitchUser(s, u, prompt[i]) \in Session
         /\ Passed(i, SwitchUser(s, u, prompt[i]))
         /\ SwitchUser(s, u, prompt[i]).user = u
         /\ ~SwitchUser(s, u, prompt[i]).auth
<1> DEFINE c == ConsentRequired(u, s.scopes, prompt[i])
           r == ReauthenticationRequired(u, prompt[i])
           t == SwitchUser(s, u, prompt[i])
<1>1. c \in BOOLEAN /\ r \in BOOLEAN /\ u # None
  BY InteractionAssumption DEF ConsentRequired, ReauthenticationRequired
<1>2. /\ t.user = u /\ t.scopes = s.scopes /\ t.auth = FALSE /\ t.select = s.select
      /\ t.reauth = r /\ t.consent = c
  BY DEF SwitchUser, Session
<1>3. t \in Session
  <2> HIDE DEF c, r
  <2>1. t = [s EXCEPT !.user = u, !.auth = FALSE, !.consent = c, !.reauth = r]
    BY DEF SwitchUser, c, r
  <2> QED BY <1>1, <2>1 DEF Session
<1>4. ~c => /\ "consent" \notin prompt[i]
            /\ ~client.skipConsent => s.scopes \subseteq approved[u]
  BY DEF ConsentRequired, HasAuthorizedClient, InteractionInv, ConsentsApproved
<1>5. Passed(i, t)
  <2> HIDE DEF t, c
  <2> QED BY <1>1, <1>2, <1>4 DEF Passed
<1> QED BY <1>2, <1>3, <1>5

LEMMA SwitchedToPasses ==
  ASSUME InteractionInv, NEW i \in Interactions, NEW s \in Session, NEW u \in Users,
         Passed(i, s)
  PROVE  /\ SwitchedTo(s, u, prompt[i]) \in Session
         /\ Passed(i, SwitchedTo(s, u, prompt[i]))
         /\ SwitchedTo(s, u, prompt[i]).auth = s.auth
         /\ SwitchedTo(s, u, prompt[i]).scopes = s.scopes
         /\ ~SwitchedTo(s, u, prompt[i]).auth => SwitchedTo(s, u, prompt[i]).user = u
<1>1. CASE s.user \notin {None, u}
  <2>1. ~s.auth
    BY <1>1 DEF Passed
  <2>2. SwitchUser(s, u, prompt[i]).auth = FALSE /\ SwitchUser(s, u, prompt[i]).scopes = s.scopes
    BY DEF SwitchUser, Session
  <2>3. s.auth = FALSE
    BY <2>1 DEF Session
  <2> QED BY <1>1, <2>1, <2>2, <2>3, SwitchUserPasses DEF SwitchedTo
<1>2. CASE s.user \in {None, u}
  BY <1>2 DEF SwitchedTo, Passed
<1> QED BY <1>1, <1>2

-----------------------------------------------------------------------------
(* Steps.                                                                  *)

(* What users did is never forgotten, and a request keeps its prompt.      *)
Remembered ==
  /\ client' = client
  /\ \A i \in Interactions : /\ prompt[i] # None => prompt'[i] = prompt[i]
                             /\ screens[i] \subseteq screens'[i]
                             /\ selected[i] \subseteq selected'[i]
                             /\ reauthed[i] \subseteq reauthed'[i]
  /\ \A u \in Users : approved[u] \subseteq approved'[u]

LEMMA PassedStays ==
  ASSUME Remembered, NEW i \in Interactions, NEW s \in Session, prompt[i] # None,
         Passed(i, s), s.user \in Users \cup {None}
  PROVE  Passed(i, s)'
  BY InteractionAssumption DEF Remembered, Passed, ReauthenticationRequired

LEMMA HonouredStays ==
  ASSUME Remembered, NEW i \in Interactions, NEW g, g.user \in Users, prompt[i] # None,
         Honoured(i, g)
  PROVE  Honoured(i, g)'
  BY DEF Remembered, Honoured, ReauthenticationRequired

(* Sessions that stay, or go, are what they were.                          *)
LEMMA SessionsStay ==
  ASSUME InteractionInv, Remembered,
         \A j \in Interactions :
           session'[j] \in {session[j], None} \/ Passed(j, session[j])'
  PROVE  SessionsPassed'
<1> SUFFICES ASSUME NEW j \in Interactions, session'[j] # None,
                    session'[j] \in {session[j], None}
             PROVE  Passed(j, session[j])'
  BY DEF SessionsPassed
<1>1. session'[j] = session[j] /\ session[j] # None
  OBVIOUS
<1>2. session[j] \in Session /\ prompt[j] # None /\ Passed(j, session[j])
  BY <1>1 DEF InteractionInv, SessionsPassed, SessionsEndInGrants, TypeOK
<1>3. session[j].user \in Users \cup {None}
  BY <1>2 DEF Session
<1> QED BY <1>1, <1>2, <1>3, PassedStays DEF Passed

(* Requests that go on or end hold what they held.                         *)
LEMMA CopiesStay ==
  ASSUME InteractionInv, Remembered,
         \A p \in Procs :
           \/ proc'[p] = proc[p] \/ proc'[p] = Idle
           \/ /\ prompt'[proc'[p].id] # None
              /\ proc'[p].pc = "bound" =>
                   /\ Passed(proc[p].id, proc[p].copy)'
                   /\ proc'[p].scopes \subseteq proc'[p].copy.scopes
  PROVE  CopiesPassed'
<1> SUFFICES ASSUME NEW p \in Procs, proc'[p] = proc[p], proc[p].pc # "idle"
             PROVE  /\ prompt'[proc[p].id] # None
                    /\ proc[p].pc = "bound" =>
                         /\ Passed(proc[p].id, proc[p].copy)'
                         /\ proc[p].scopes \subseteq proc[p].copy.scopes
  BY DEF CopiesPassed, Idle
<1>1. prompt[proc[p].id] # None /\ proc[p].id \in Interactions
  BY DEF InteractionInv, CopiesPassed, TypeOK, Idle, Restored, Bound
<1>2. prompt'[proc[p].id] = prompt[proc[p].id]
  BY <1>1 DEF Remembered
<1>3. ASSUME proc[p].pc = "bound"
      PROVE  /\ Passed(proc[p].id, proc[p].copy)'
             /\ proc[p].scopes \subseteq proc[p].copy.scopes
  <2>1. proc[p].copy \in Session
    BY <1>3 DEF InteractionInv, TypeOK, Idle, Restored, Bound
  <2>2. proc[p].copy.user \in Users \cup {None}
    BY <2>1 DEF Session
  <2>3. Passed(proc[p].id, proc[p].copy) /\ proc[p].scopes \subseteq proc[p].copy.scopes
    BY <1>3 DEF InteractionInv, CopiesPassed
  <2> QED BY <1>1, <2>1, <2>2, <2>3, PassedStays DEF Passed
<1> QED BY <1>1, <1>2, <1>3

(* Steps that grant nothing.                                               *)
LEMMA GrantlessStep ==
  ASSUME InteractionInv, TypeOK', Remembered, grants' = grants,
         \A i \in Interactions :
           /\ prompt'[i] = None => session'[i] = None
           /\ session'[i] # None => session[i] # None \/ prompt[i] = None,
         ConsentsApproved', SessionsPassed', CopiesPassed'
  PROVE  InteractionInv'
<1>1. SessionsEndInGrants'
  BY DEF InteractionInv, SessionsEndInGrants, Remembered
<1>2. GrantsHonoured'
  <2> SUFFICES ASSUME NEW i \in Interactions, NEW g \in grants[i]
               PROVE  Honoured(i, g[2])'
    BY DEF GrantsHonoured
  <2>1. prompt[i] # None /\ Honoured(i, g[2]) /\ g[2].user \in Users
    BY DEF InteractionInv, SessionsEndInGrants, GrantsHonoured, TypeOK
  <2> QED BY <2>1, HonouredStays DEF Honoured
<1> QED BY <1>1, <1>2 DEF InteractionInv

(* A completed step of request i leaves the session s, which passed what   *)
(* it no longer asks for.                                                  *)
LEMMA StoreStep ==
  ASSUME InteractionInv, TypeOK', Remembered, NEW i \in Interactions, NEW s,
         session[i] # None, Store(i, s), Passed(i, s)', UNCHANGED <<grants, prompt, proc>>,
         ConsentsApproved'
  PROVE  InteractionInv'
<1>1. session' = [session EXCEPT ![i] = s]
  BY DEF Store
<1>2. SessionsPassed'
  <2>1. session'[i] = s /\ \A j \in Interactions : j # i => session'[j] = session[j]
    BY <1>1 DEF InteractionInv, TypeOK
  <2>2. Passed(i, session[i])'
    BY <2>1
  <2> QED BY <2>1, <2>2, SessionsStay
<1>3. CopiesPassed'
  BY CopiesStay
<1> QED BY <1>1, <1>2, <1>3, GrantlessStep DEF InteractionInv, TypeOK, SessionsEndInGrants

-----------------------------------------------------------------------------
(* InteractionInv holds before any request.                                *)
LEMMA InteractionInit == Init => InteractionInv
<1> SUFFICES ASSUME Init PROVE InteractionInv
  OBVIOUS
<1> USE InteractionAssumption DEF Init
<1>1. TypeOK
  <2>1. consents \in [Users -> {None} \cup SUBSET Scopes]
    OBVIOUS
  <2> QED BY <2>1 DEF TypeOK
<1>2. SessionsEndInGrants /\ SessionsPassed /\ GrantsHonoured
  BY DEF SessionsEndInGrants, SessionsPassed, GrantsHonoured, AtMostOne
<1>3. ConsentsApproved
  BY DEF ConsentsApproved
<1>4. CopiesPassed
  BY DEF CopiesPassed, Idle
<1> QED BY <1>1, <1>2, <1>3, <1>4 DEF InteractionInv

(* A new request.                                                          *)
LEMMA UnauthenticatedSessionPasses ==
  ASSUME InteractionInv, NEW i \in Interactions, NEW S \in SUBSET Scopes,
         NEW prm \in client.prompts
  PROVE  /\ UnauthenticatedSession(S, prm) \in Session
         /\ UnauthenticatedSession(S, prm).auth = TRUE
         /\ UnauthenticatedSession(S, prm).user = None
<1>1. client.requiresReauthentication \in BOOLEAN
  BY InteractionAssumption DEF InteractionInv, TypeOK
<1> QED BY <1>1 DEF UnauthenticatedSession, NewSession, Session

LEMMA AuthorizeUnauthenticatedStep ==
  ASSUME InteractionInv, NEW i \in Interactions, NEW prm \in client.prompts,
         AuthorizeUnauthenticated(i, prm)
  PROVE  InteractionInv'
<1>0. prm # None
  BY NoSessionAssumption DEF InteractionInv, TypeOK
<1>1. PICK s \in Session : s = UnauthenticatedSession(Scopes, prm) /\ s.auth = TRUE /\ s.user = None
  BY UnauthenticatedSessionPasses
<1>2. /\ prompt[i] = None /\ prompt' = [prompt EXCEPT ![i] = prm]
      /\ session' = [session EXCEPT ![i] = s]
      /\ UNCHANGED <<client, consents, proofs, proc, history, grants>>
  BY <1>1 DEF AuthorizeUnauthenticated
<1>3. TypeOK'
  BY <1>2 DEF InteractionInv, TypeOK, history
<1>4. Remembered
  BY <1>2 DEF Remembered, history, InteractionInv, TypeOK
<1>5. /\ session'[i] = s /\ prompt'[i] = prm
      /\ \A j \in Interactions : j # i => session'[j] = session[j] /\ prompt'[j] = prompt[j]
  BY <1>2 DEF InteractionInv, TypeOK
<1>6. Passed(i, session[i])'
  BY <1>1, <1>5 DEF Passed
<1>7. SessionsPassed'
  BY <1>4, <1>5, <1>6, SessionsStay
<1>8. CopiesPassed'
  BY <1>2, <1>4, CopiesStay
<1>9. ConsentsApproved'
  BY <1>2 DEF InteractionInv, ConsentsApproved, history
<1> QED BY <1>0, <1>2, <1>3, <1>4, <1>5, <1>7, <1>8, <1>9, GrantlessStep
        DEF InteractionInv, SessionsEndInGrants

(* A request of a browser that is not signed in starts an interaction of   *)
(* its own; with a login it copies the session.                            *)
LEMMA BindSessionStep ==
  ASSUME InteractionInv, NEW p \in Procs, BindSession(p)
  PROVE  InteractionInv'
<1>1. PICK q \in Restored : q = proc[p]
  BY DEF BindSession, InteractionInv, TypeOK, Idle, Bound
<1>2. /\ q.id \in Interactions /\ prompt[q.id] # None /\ q.scopes \in SUBSET Scopes
      /\ prompt[q.id] \in client.prompts
  BY <1>1 DEF InteractionInv, CopiesPassed, Restored, TypeOK
<1>3. CASE q.user = None /\ Binds(q) /\ RestartUnauthenticated(q)
  <2>1. PICK j \in Interactions :
          /\ prompt[j] = None /\ prompt' = [prompt EXCEPT ![j] = prompt[q.id]]
          /\ session' = [session EXCEPT ![j] = UnauthenticatedSession(q.scopes, prompt[q.id])]
    BY <1>3 DEF RestartUnauthenticated
  <2>2. PICK s \in Session : /\ s = UnauthenticatedSession(q.scopes, prompt[q.id])
                             /\ s.auth = TRUE /\ s.user = None
    BY <1>2, UnauthenticatedSessionPasses
  <2>3. /\ proc' = [proc EXCEPT ![p] = Idle]
        /\ UNCHANGED <<client, consents, proofs, history, grants>>
    BY <1>1, <1>3 DEF BindSession
  <2>4. TypeOK'
    BY <1>2, <2>1, <2>2, <2>3 DEF InteractionInv, TypeOK, history
  <2>5. Remembered
    BY <1>2, <2>1, <2>3 DEF Remembered, history, InteractionInv, TypeOK
  <2>6. /\ session'[j] = s /\ prompt'[j] # None
        /\ \A k \in Interactions : k # j => session'[k] = session[k] /\ prompt'[k] = prompt[k]
        /\ \A r \in Procs : r # p => proc'[r] = proc[r]
        /\ proc'[p] = Idle
    BY <1>2, <2>1, <2>2, <2>3 DEF InteractionInv, TypeOK
  <2>7. Passed(j, session[j])'
    BY <2>2, <2>6 DEF Passed
  <2>8. SessionsPassed'
    BY <2>5, <2>6, <2>7, SessionsStay
  <2>9. CopiesPassed'
    BY <2>5, <2>6, CopiesStay
  <2>10. ConsentsApproved'
    BY <2>3 DEF InteractionInv, ConsentsApproved, history
  <2> QED BY <2>1, <2>3, <2>4, <2>5, <2>6, <2>8, <2>9, <2>10, GrantlessStep
          DEF InteractionInv, SessionsEndInGrants
<1>4. CASE UNCHANGED <<session, prompt>>
  <2>1. UNCHANGED <<client, session, prompt, consents, proofs, history, grants>>
    BY <1>4 DEF BindSession
  <2>2. Remembered
    BY <2>1 DEF Remembered, history
  <2>3. PICK x : /\ proc' = [proc EXCEPT ![p] = x]
                 /\ \/ x = Idle
                    \/ /\ x = [pc |-> "bound", user |-> q.user, id |-> q.id,
                               scopes |-> q.scopes, copy |-> session[q.id]]
                       /\ Binds(q) /\ q.user # None
    BY <1>1 DEF BindSession
  <2>4. x = Idle \/ (x \in Bound /\ x.id = q.id /\ x.copy = session[q.id] /\ x.scopes = q.scopes
                     /\ Readable(q.id) /\ q.scopes \subseteq session[q.id].scopes)
    <3> SUFFICES ASSUME x # Idle
                 PROVE  /\ x \in Bound /\ x.id = q.id /\ x.copy = session[q.id]
                        /\ x.scopes = q.scopes
                        /\ Readable(q.id) /\ q.scopes \subseteq session[q.id].scopes
      OBVIOUS
    <3>1. session[q.id] \in Session /\ q.user \in Users
      BY <1>1, <1>2, <2>3 DEF Binds, Readable, InteractionInv, TypeOK, Restored
    <3> QED BY <1>2, <2>3, <3>1 DEF Bound, Binds
  <2>5. proc'[p] = x /\ \A r \in Procs : r # p => proc'[r] = proc[r]
    BY <2>3 DEF InteractionInv, TypeOK
  <2>6. TypeOK'
    BY <2>1, <2>3, <2>4 DEF InteractionInv, TypeOK, history
  <2>7. x # Idle => Passed(q.id, session[q.id])'
    BY <1>2, <2>1, <2>4 DEF InteractionInv, SessionsPassed, Readable, Passed, history,
                            ReauthenticationRequired
  <2>8. CopiesPassed'
    <3>1. x # Idle =>
            /\ prompt'[proc'[p].id] # None
            /\ Passed(proc[p].id, proc[p].copy)'
            /\ proc'[p].scopes \subseteq proc'[p].copy.scopes
      BY <1>2, <2>1, <2>4, <2>5, <2>7
    <3> QED BY <2>2, <2>5, <3>1, CopiesStay
  <2>9. SessionsPassed' /\ ConsentsApproved'
    BY <2>1, <2>2, SessionsStay DEF InteractionInv, ConsentsApproved, history
  <2> QED BY <2>1, <2>2, <2>6, <2>8, <2>9, GrantlessStep DEF InteractionInv, SessionsEndInGrants
<1> QED BY <1>1, <1>3, <1>4 DEF BindSession

LEMMA RestoreRequestStep ==
  ASSUME InteractionInv, NEW p \in Procs, NEW u \in Users \cup {None},
         NEW i \in Interactions, RestoreRequest(p, u, i)
  PROVE  InteractionInv'
<1>1. PICK x : x = [pc |-> "restored", user |-> u, id |-> i, scopes |-> session[i].scopes]
  OBVIOUS
<1>2. /\ Readable(i) /\ proc' = [proc EXCEPT ![p] = x]
      /\ UNCHANGED <<client, session, prompt, consents, proofs, history, grants>>
  BY <1>1 DEF RestoreRequest
<1>3. session[i] \in Session /\ prompt[i] # None
  BY <1>2 DEF Readable, InteractionInv, TypeOK, SessionsEndInGrants
<1>4. x \in Restored /\ x.pc = "restored" /\ x.id = i
  BY <1>1, <1>3 DEF Restored, Session
<1>5. TypeOK'
  BY <1>2, <1>4 DEF InteractionInv, TypeOK, history
<1>6. Remembered
  BY <1>2 DEF Remembered, history
<1>7. proc'[p] = x /\ \A r \in Procs : r # p => proc'[r] = proc[r]
  BY <1>2 DEF InteractionInv, TypeOK
<1>8. CopiesPassed'
  <2>1. prompt'[proc'[p].id] # None /\ proc'[p].pc # "bound"
    BY <1>2, <1>3, <1>4, <1>7
  <2> QED BY <1>6, <1>7, <2>1, CopiesStay
<1>9. SessionsPassed' /\ ConsentsApproved'
  BY <1>2, <1>6, SessionsStay DEF InteractionInv, ConsentsApproved, history
<1> QED BY <1>2, <1>5, <1>6, <1>8, <1>9, GrantlessStep DEF InteractionInv, SessionsEndInGrants

(* A grant of request i, which was not granted before and has no session   *)
(* left.                                                                   *)
LEMMA GrantingStep ==
  ASSUME InteractionInv, TypeOK', Remembered, NEW i \in Interactions, NEW g,
         g[2].user \in Users, Honoured(i, g[2])',
         grants' = [grants EXCEPT ![i] = @ \cup {g}], grants[i] = {},
         session'[i] = None, prompt'[i] # None,
         \A j \in Interactions : j # i => session'[j] = session[j] /\ prompt'[j] = prompt[j],
         ConsentsApproved', CopiesPassed'
  PROVE  InteractionInv'
<1>1. /\ grants'[i] = {g}
      /\ \A j \in Interactions : j # i => grants'[j] = grants[j]
  BY DEF InteractionInv, TypeOK
<1>2. SessionsEndInGrants'
  BY <1>1 DEF InteractionInv, SessionsEndInGrants, AtMostOne
<1>3. SessionsPassed'
  BY SessionsStay
<1>4. GrantsHonoured'
  <2> SUFFICES ASSUME NEW j \in Interactions, NEW h \in grants'[j]
               PROVE  Honoured(j, h[2])'
    BY DEF GrantsHonoured
  <2>1. CASE j = i
    BY <1>1, <2>1
  <2>2. CASE j # i
    <3>1. h \in grants[j]
      BY <1>1, <2>2
    <3>2. prompt[j] # None /\ Honoured(j, h[2]) /\ h[2].user \in Users
      BY <3>1 DEF InteractionInv, SessionsEndInGrants, GrantsHonoured, TypeOK
    <3> QED BY <3>2, HonouredStays DEF Honoured
  <2> QED BY <2>1, <2>2
<1> QED BY <1>2, <1>3, <1>4 DEF InteractionInv

LEMMA AuthorizeFreshStep ==
  ASSUME InteractionInv, NEW i \in Interactions, NEW u \in Users,
         NEW prm \in client.prompts, NEW cookie \in BOOLEAN,
         AuthorizeFresh(i, u, prm, cookie)
  PROVE  InteractionInv'
<1> DEFINE consent == ConsentRequired(u, Scopes, prm)
           needs == ReauthenticationRequired(u, prm)
           proved == needs /\ cookie /\ u \in proofs
           reauth == needs /\ ~proved
           select == "select_account" \in prm
<1>1. /\ prm # None /\ u # None /\ prompt[i] = None
      /\ prompt' = [prompt EXCEPT ![i] = prm]
      /\ proofs' = IF proved THEN proofs \ {u} ELSE proofs
      /\ reauthed' = IF proved THEN [reauthed EXCEPT ![i] = @ \cup {u}] ELSE reauthed
      /\ UNCHANGED <<client, proc, screens, selected, approved>>
  BY NoSessionAssumption, InteractionAssumption DEF InteractionInv, TypeOK, AuthorizeFresh
<1>2. /\ consent \in BOOLEAN /\ needs \in BOOLEAN /\ select \in BOOLEAN
      /\ proved \in BOOLEAN /\ reauth \in BOOLEAN
  BY InteractionAssumption DEF ConsentRequired, ReauthenticationRequired
<1>3. Remembered
  <2>1. \A j \in Interactions : reauthed[j] \subseteq reauthed'[j]
    BY <1>1 DEF InteractionInv, TypeOK
  <2> QED BY <1>1, <2>1 DEF Remembered, InteractionInv, TypeOK
<1>4. ~consent /\ ~client.skipConsent => Scopes \subseteq approved[u]
  BY DEF ConsentRequired, HasAuthorizedClient, InteractionInv, ConsentsApproved
<1>5. ~consent => "consent" \notin prm
  BY DEF ConsentRequired
<1>6. needs /\ ~reauth => u \in reauthed'[i]
  BY <1>1 DEF InteractionInv, TypeOK
<1>7. CopiesPassed'
  BY <1>1, <1>3, CopiesStay
<1>8. prompt'[i] = prm /\ \A j \in Interactions : j # i => prompt'[j] = prompt[j]
  BY <1>1 DEF InteractionInv, TypeOK
<1>9. prompt' \in [Interactions -> {None} \cup client.prompts] /\ proofs' \subseteq Users
      /\ reauthed' \in [Interactions -> SUBSET Users]
  BY <1>1 DEF InteractionInv, TypeOK
<1>10. needs' = needs
  BY <1>1 DEF ReauthenticationRequired
<1>11. CASE consent \/ reauth \/ select
  <2>1. PICK s \in Session :
          s = NewSession(u, Scopes, FALSE, select, reauth, consent)
    <3> HIDE DEF select, reauth, consent
    <3> QED BY <1>2 DEF NewSession, Session
  <2>2. /\ session' = [session EXCEPT ![i] = s]
        /\ UNCHANGED <<consents, grants>>
    BY <1>11, <2>1 DEF AuthorizeFresh
  <2>3. TypeOK'
    BY <1>1, <1>9, <2>2 DEF InteractionInv, TypeOK
  <2>4. /\ session'[i] = s
        /\ \A j \in Interactions : j # i => session'[j] = session[j]
    BY <2>2 DEF InteractionInv, TypeOK
  <2>5. /\ s.user = u /\ s.scopes = Scopes /\ s.auth = FALSE /\ s.select = select
        /\ s.reauth = reauth /\ s.consent = consent
    BY <2>1 DEF NewSession
  <2>6. Passed(i, session[i])'
    <3>1. ~s.auth /\ s.user # None
      BY <1>1, <2>5
    <3>2. "select_account" \in prm => s.select
      BY <2>5
    <3>3. ~s.reauth /\ needs => u \in reauthed'[i]
      BY <1>6, <2>5
    <3>4. ~s.consent => /\ "consent" \notin prm
                        /\ ~client.skipConsent => s.scopes \subseteq approved[u]
      BY <1>4, <1>5, <2>5
    <3> HIDE DEF consent, select, reauth, proved
    <3> QED BY <1>1, <1>8, <1>10, <2>4, <2>5, <3>1, <3>2, <3>3, <3>4 DEF Passed
  <2>7. SessionsPassed'
    BY <1>3, <2>4, <2>6, SessionsStay
  <2>8. ConsentsApproved'
    BY <1>1, <2>2 DEF InteractionInv, ConsentsApproved
  <2> QED BY <1>1, <1>3, <1>7, <1>8, <2>2, <2>3, <2>4, <2>7, <2>8, GrantlessStep
          DEF InteractionInv, SessionsEndInGrants
<1>12. CASE ~(consent \/ reauth \/ select)
  <2>1. PICK g : g = <<1, Grant(u, Scopes)>>
    OBVIOUS
  <2>2. /\ consents' = WithConsent(u, Scopes)
        /\ grants' = [grants EXCEPT ![i] = @ \cup {g}]
        /\ UNCHANGED session
    BY <1>12, <2>1 DEF AuthorizeFresh
  <2>3. g \in Nat \X [user : Users, scopes : SUBSET Scopes]
        /\ g[2].user = u /\ g[2].scopes = Scopes
    BY <2>1 DEF Grant
  <2>4. consents' \in [Users -> {None} \cup SUBSET Scopes]
    BY <2>2 DEF WithConsent, InteractionInv, TypeOK
  <2>5. grants' \in [Interactions -> SUBSET (Nat \X [user : Users, scopes : SUBSET Scopes])]
    BY <2>2, <2>3 DEF InteractionInv, TypeOK
  <2>6. TypeOK'
    BY <1>1, <1>9, <2>2, <2>4, <2>5 DEF InteractionInv, TypeOK
  <2>7. session'[i] = None /\ grants[i] = {}
    BY <1>1, <2>2 DEF InteractionInv, SessionsEndInGrants
  <2>8. Honoured(i, g[2])'
    BY <1>1, <1>4, <1>5, <1>6, <1>8, <1>12, <2>3 DEF Honoured, ReauthenticationRequired
  <2>9. ConsentsApproved'
    <3>1. \A v \in Users : consents'[v] = IF v = u THEN (IF consents[u] = None THEN Scopes
                                                         ELSE consents[u] \cup Scopes)
                                          ELSE consents[v]
      BY <2>2 DEF WithConsent, InteractionInv, TypeOK
    <3> QED BY <1>1, <1>4, <1>12, <3>1 DEF InteractionInv, ConsentsApproved
  <2> QED BY <1>1, <1>3, <1>7, <1>8, <2>2, <2>3, <2>6, <2>7, <2>8, <2>9, GrantingStep
<1> QED BY <1>11, <1>12

(* A resumed request decides on its copy: it writes it back while screens  *)
(* are open, or deletes the session and is granted.                        *)
LEMMA ResumeStep ==
  ASSUME InteractionInv, NEW p \in Procs, NEW cookie \in BOOLEAN, Resume(p, cookie)
  PROVE  InteractionInv'
<1>1. PICK q \in Bound : q = proc[p]
  BY DEF Resume, InteractionInv, TypeOK, Idle, Restored
<1>2. /\ q.id \in Interactions /\ q.user \in Users /\ q.copy \in Session
      /\ q.scopes \in SUBSET Scopes
  BY DEF Bound
<1>3. /\ prompt[q.id] # None /\ Passed(q.id, q.copy) /\ q.scopes \subseteq q.copy.scopes
      /\ q.user # None
  BY <1>1, <1>2, InteractionAssumption DEF InteractionInv, CopiesPassed, Bound
<1>4. PICK s \in Session : s = SwitchedTo(q.copy, q.user, prompt[q.id])
  BY <1>2, <1>3, SwitchedToPasses
<1>5. Passed(q.id, s) /\ s.scopes = q.copy.scopes /\ (~s.auth => s.user = q.user)
  BY <1>2, <1>3, <1>4, SwitchedToPasses
<1> DEFINE proved == s.reauth /\ cookie /\ q.user \in proofs
           open == s.auth \/ s.select \/ s.consent \/ (s.reauth /\ ~proved)
<1>6. /\ proc' = [proc EXCEPT ![p] = Idle]
      /\ proofs' = IF proved THEN proofs \ {q.user} ELSE proofs
      /\ UNCHANGED <<client, prompt, screens, selected, approved>>
  BY <1>1, <1>4 DEF Resume
<1>7. proofs' \subseteq Users
  BY <1>6 DEF InteractionInv, TypeOK
<1>8. /\ proc'[p] = Idle /\ \A r \in Procs : r # p => proc'[r] = proc[r]
      /\ proc' \in [Procs -> {Idle} \cup Restored \cup Bound]
  BY <1>6 DEF InteractionInv, TypeOK
<1>9. CASE open
  <2>1. /\ session' = IF s # q.copy /\ session[q.id] # None
                      THEN [session EXCEPT ![q.id] = [s EXCEPT !.expired = session[q.id].expired]]
                      ELSE session
        /\ UNCHANGED <<consents, grants, reauthed>>
    BY <1>1, <1>4, <1>9 DEF Resume
  <2>2. Remembered
    BY <1>6, <2>1 DEF Remembered
  <2>3. ConsentsApproved'
    BY <1>6, <2>1 DEF InteractionInv, ConsentsApproved
  <2>4. CopiesPassed'
    BY <1>8, <2>2, CopiesStay
  <2>5. CASE session' = session
    <3>1. TypeOK'
      BY <1>6, <1>7, <1>8, <2>1, <2>5 DEF InteractionInv, TypeOK
    <3>2. SessionsPassed'
      BY <2>2, <2>5, SessionsStay
    <3> QED BY <1>6, <2>1, <2>2, <2>3, <2>4, <2>5, <3>1, <3>2, GrantlessStep
            DEF InteractionInv, SessionsEndInGrants
  <2>6. CASE session[q.id] # None /\ session' # session
    <3>1. session[q.id] \in Session
      BY <1>2, <2>6 DEF InteractionInv, TypeOK
    <3>2. PICK t \in Session : t = [s EXCEPT !.expired = session[q.id].expired]
      BY <3>1 DEF Session
    <3>3. /\ t.auth = s.auth /\ t.select = s.select /\ t.reauth = s.reauth
          /\ t.consent = s.consent /\ t.user = s.user /\ t.scopes = s.scopes
      BY <3>2 DEF Session
    <3>4. session' = [session EXCEPT ![q.id] = t]
      BY <2>1, <2>6, <3>2
    <3>5. TypeOK'
      <4>1. session' \in [Interactions -> {None} \cup Session]
        BY <3>4 DEF InteractionInv, TypeOK
      <4> QED BY <1>6, <1>7, <1>8, <2>1, <4>1 DEF InteractionInv, TypeOK
    <3>6. /\ session'[q.id] = t
          /\ \A j \in Interactions : j # q.id => session'[j] = session[j]
      BY <1>2, <3>4 DEF InteractionInv, TypeOK
    <3>7. Passed(q.id, t)
      BY <1>5, <3>3 DEF Passed
    <3>8. Passed(q.id, t)'
      BY <1>2, <1>3, <2>2, <3>7, PassedStays DEF Session
    <3>9. Passed(q.id, session[q.id])'
      BY <3>6, <3>8
    <3>10. SessionsPassed'
      BY <2>2, <3>6, <3>9, SessionsStay
    <3> QED BY <1>3, <1>6, <2>1, <2>2, <2>3, <2>4, <2>6, <3>5, <3>6, <3>10, GrantlessStep
            DEF InteractionInv, SessionsEndInGrants
  <2> QED BY <2>1, <2>5, <2>6
<1>10. CASE ~open
  <2>1. PICK g : g = <<NextGrant(q.id), Grant(q.user, q.scopes)>>
    OBVIOUS
  <2>2. /\ session[q.id] # None
        /\ session' = [session EXCEPT ![q.id] = None]
        /\ consents' = WithConsent(q.user, q.scopes)
        /\ grants' = [grants EXCEPT ![q.id] = @ \cup {g}]
        /\ reauthed' = IF proved THEN [reauthed EXCEPT ![q.id] = @ \cup {q.user}] ELSE reauthed
    BY <1>1, <1>4, <1>10, <2>1 DEF Resume, Consume
  <2>3. grants[q.id] = {}
    BY <1>2, <2>2 DEF InteractionInv, SessionsEndInGrants
  <2>4. NextGrant(q.id) = 1
    BY <2>3, FS_EmptySet DEF NextGrant
  <2>5. /\ g \in Nat \X [user : Users, scopes : SUBSET Scopes]
        /\ g[2].user = q.user /\ g[2].scopes = q.scopes
    BY <1>2, <2>1, <2>4 DEF Grant
  <2>6. consents' \in [Users -> {None} \cup SUBSET Scopes]
    BY <1>2, <2>2 DEF WithConsent, InteractionInv, TypeOK
  <2>7. reauthed' \in [Interactions -> SUBSET Users]
    BY <1>2, <2>2 DEF InteractionInv, TypeOK
  <2>8. grants' \in [Interactions -> SUBSET (Nat \X [user : Users, scopes : SUBSET Scopes])]
    BY <1>2, <2>2, <2>5 DEF InteractionInv, TypeOK
  <2>9. TypeOK'
    <3>1. session' \in [Interactions -> {None} \cup Session]
      BY <2>2 DEF InteractionInv, TypeOK
    <3> QED BY <1>6, <1>7, <1>8, <2>6, <2>7, <2>8, <3>1 DEF InteractionInv, TypeOK
  <2>10. /\ session'[q.id] = None
         /\ \A j \in Interactions : j # q.id => session'[j] = session[j]
    BY <1>2, <2>2 DEF InteractionInv, TypeOK
  <2>11. \A j \in Interactions : reauthed[j] \subseteq reauthed'[j]
    BY <2>2 DEF InteractionInv, TypeOK
  <2>12. Remembered
    BY <1>6, <2>11 DEF Remembered
  <2>13. ~s.auth /\ ~s.select /\ ~s.consent /\ s.user = q.user /\ (s.reauth => proved)
    BY <1>5, <1>10
  <2>14. ReauthenticationRequired(q.user, prompt[q.id]) => q.user \in reauthed'[q.id]
    <3>1. CASE s.reauth
      BY <1>2, <2>2, <2>13, <3>1 DEF InteractionInv, TypeOK
    <3>2. CASE ~s.reauth
      BY <1>2, <1>5, <2>11, <2>13, <3>2 DEF Passed
    <3> QED BY <3>1, <3>2
  <2>15. ~client.skipConsent => q.scopes \subseteq approved[q.user]
    BY <1>3, <1>5, <2>13 DEF Passed
  <2>16. Honoured(q.id, g[2])'
    <3>1. "select_account" \in prompt[q.id] => selected[q.id] # {}
      BY <1>5, <2>13 DEF Passed
    <3>2. "consent" \in prompt[q.id] =>
            \E c \in screens[q.id] : c.user = q.user /\ q.scopes \subseteq c.scopes
      BY <1>3, <1>5, <2>13 DEF Passed
    <3> QED BY <1>6, <2>5, <2>14, <2>15, <3>1, <3>2 DEF Honoured, ReauthenticationRequired
  <2>17. ConsentsApproved'
    <3>1. \A v \in Users : consents'[v] =
            IF v = q.user THEN (IF consents[v] = None THEN q.scopes
                                ELSE consents[v] \cup q.scopes)
            ELSE consents[v]
      BY <1>2, <2>2 DEF WithConsent, InteractionInv, TypeOK
    <3> QED BY <1>6, <2>15, <3>1 DEF InteractionInv, ConsentsApproved
  <2>18. CopiesPassed'
    BY <1>8, <2>12, CopiesStay
  <2> QED BY <1>2, <1>3, <1>6, <2>2, <2>3, <2>5, <2>9, <2>10, <2>12, <2>16, <2>17, <2>18,
             GrantingStep
<1> QED BY <1>9, <1>10

(* The steps of completeInteractionStep.                                   *)
LEMMA Switched ==
  ASSUME InteractionInv, NEW i \in Interactions, NEW u \in Users, Readable(i)
  PROVE  \E s \in Session :
           /\ s = SwitchedTo(session[i], u, prompt[i])
           /\ Passed(i, s) /\ (~s.auth => s.user = u)
           /\ prompt[i] # None /\ u # None /\ session[i] # None
<1>1. session[i] \in Session /\ prompt[i] # None /\ Passed(i, session[i])
  BY DEF Readable, InteractionInv, TypeOK, SessionsEndInGrants, SessionsPassed
<1> QED BY <1>1, SwitchedToPasses, InteractionAssumption DEF Readable

(* What the first open step says of the session.                           *)
LEMMA StepIsFirst ==
  ASSUME NEW s \in Session
  PROVE  /\ CurrentStep(s) = "authenticate" => s.auth
         /\ CurrentStep(s) = "select_account" => ~s.auth
         /\ CurrentStep(s) = "reauthenticate" => ~s.auth /\ ~s.select
         /\ CurrentStep(s) = "consent" => ~s.auth /\ ~s.select /\ ~s.reauth
  BY DEF CurrentStep, Session

LEMMA CompleteAuthenticationStep ==
  ASSUME InteractionInv, NEW i \in Interactions, NEW u \in Users,
         CompleteAuthentication(i, u)
  PROVE  InteractionInv'
<1>0. Readable(i)
  BY DEF CompleteAuthentication, Stepping
<1>1. PICK s \in Session :
        /\ s = SwitchedTo(session[i], u, prompt[i])
        /\ Passed(i, s) /\ (~s.auth => s.user = u)
        /\ prompt[i] # None /\ u # None /\ session[i] # None
  BY <1>0, Switched
<1> DEFINE consent == s.consent \/ ConsentRequired(u, s.scopes, prompt[i])
           select == s.select \/ "select_account" \in prompt[i]
           reauth == s.reauth \/ ReauthenticationRequired(u, prompt[i])
<1>2. consent \in BOOLEAN /\ select \in BOOLEAN /\ reauth \in BOOLEAN
  BY InteractionAssumption DEF Session, ConsentRequired, ReauthenticationRequired
<1>3. PICK t : t = [s EXCEPT !.user = u, !.auth = FALSE, !.consent = consent,
                             !.select = select, !.reauth = reauth]
  OBVIOUS
<1>4. /\ Store(i, t)
      /\ UNCHANGED <<client, prompt, consents, proofs, proc, history, grants>>
  BY <1>1, <1>3 DEF CompleteAuthentication, Session
<1>5. /\ t.user = u /\ t.auth = FALSE /\ t.consent = consent /\ t.select = select
      /\ t.reauth = reauth /\ t.scopes = s.scopes /\ t \in Session
  <2> HIDE DEF consent, select, reauth
  <2> QED BY <1>2, <1>3 DEF Session
<1>6. TypeOK'
  BY <1>4, <1>5 DEF Store, InteractionInv, TypeOK, history
<1>7. Remembered
  BY <1>4 DEF Remembered, history
<1>8. ConsentsApproved'
  BY <1>4 DEF InteractionInv, ConsentsApproved, history
<1>9. ~consent => /\ "consent" \notin prompt[i]
                  /\ ~client.skipConsent => s.scopes \subseteq approved[u]
  BY DEF ConsentRequired, HasAuthorizedClient, InteractionInv, ConsentsApproved
<1>10. Passed(i, t)
  <2> HIDE DEF consent
  <2> QED BY <1>1, <1>5, <1>9 DEF Passed
<1>11. Passed(i, t)'
  BY <1>1, <1>5, <1>7, <1>10, PassedStays
<1> QED BY <1>1, <1>4, <1>6, <1>7, <1>8, <1>11, StoreStep

LEMMA CompleteSelectAccountStep ==
  ASSUME InteractionInv, NEW i \in Interactions, NEW u \in Users,
         CompleteSelectAccount(i, u)
  PROVE  InteractionInv'
<1>0. Readable(i)
  BY DEF CompleteSelectAccount, Stepping
<1>1. PICK s \in Session :
        /\ s = SwitchedTo(session[i], u, prompt[i])
        /\ Passed(i, s) /\ (~s.auth => s.user = u)
        /\ prompt[i] # None /\ u # None /\ session[i] # None
  BY <1>0, Switched
<1>2. ~s.auth
  BY <1>1, StepIsFirst DEF CompleteSelectAccount, Stepping
<1>3. PICK r \in Session : /\ r = SwitchUser(s, u, prompt[i])
                           /\ Passed(i, r) /\ r.user = u /\ ~r.auth
  BY <1>1, <1>2, SwitchUserPasses
<1>4. PICK t : t = [r EXCEPT !.select = FALSE]
  OBVIOUS
<1>5. /\ Store(i, t)
      /\ selected' = [selected EXCEPT ![i] = @ \cup {u}]
      /\ UNCHANGED <<client, prompt, consents, proofs, proc, screens, reauthed, approved, grants>>
  BY <1>1, <1>3, <1>4 DEF CompleteSelectAccount
<1>6. /\ t \in Session /\ t.user = u /\ t.auth = r.auth /\ t.scopes = r.scopes
      /\ t.reauth = r.reauth /\ t.consent = r.consent
  BY <1>3, <1>4 DEF Session
<1>7. TypeOK'
  BY <1>5, <1>6 DEF Store, InteractionInv, TypeOK
<1>8. selected'[i] # {} /\ \A j \in Interactions : selected[j] \subseteq selected'[j]
  BY <1>5 DEF InteractionInv, TypeOK
<1>9. Remembered
  BY <1>5, <1>8 DEF Remembered
<1>10. ConsentsApproved'
  BY <1>5 DEF InteractionInv, ConsentsApproved
<1>11. Passed(i, t)'
  BY <1>1, <1>3, <1>5, <1>6, <1>8 DEF Passed, ReauthenticationRequired
<1> QED BY <1>1, <1>5, <1>7, <1>9, <1>10, <1>11, StoreStep

LEMMA CompleteReauthenticationStep ==
  ASSUME InteractionInv, NEW i \in Interactions, NEW u \in Users,
         CompleteReauthentication(i, u)
  PROVE  InteractionInv'
<1>0. Readable(i)
  BY DEF CompleteReauthentication, Stepping
<1>1. PICK s \in Session :
        /\ s = SwitchedTo(session[i], u, prompt[i])
        /\ Passed(i, s) /\ (~s.auth => s.user = u)
        /\ prompt[i] # None /\ u # None /\ session[i] # None
  BY <1>0, Switched
<1>2. ~s.auth
  BY <1>1, StepIsFirst DEF CompleteReauthentication, Stepping
<1>3. PICK t : t = [s EXCEPT !.user = u, !.reauth = FALSE]
  OBVIOUS
<1>4. /\ Store(i, t) /\ proofs' = proofs \ {u}
      /\ reauthed' = [reauthed EXCEPT ![i] = @ \cup {u}]
      /\ UNCHANGED <<client, prompt, consents, proc, screens, selected, approved, grants>>
  BY <1>1, <1>3 DEF CompleteReauthentication
<1>5. /\ t \in Session /\ t.user = u /\ t.auth = s.auth /\ t.scopes = s.scopes
      /\ t.select = s.select /\ t.consent = s.consent
  BY <1>3 DEF Session
<1>6. TypeOK'
  BY <1>4, <1>5 DEF Store, InteractionInv, TypeOK
<1>7. u \in reauthed'[i] /\ \A j \in Interactions : reauthed[j] \subseteq reauthed'[j]
  BY <1>4 DEF InteractionInv, TypeOK
<1>8. Remembered
  BY <1>4, <1>7 DEF Remembered
<1>9. ConsentsApproved'
  BY <1>4 DEF InteractionInv, ConsentsApproved
<1>10. Passed(i, t)'
  BY <1>1, <1>2, <1>4, <1>5, <1>7 DEF Passed
<1> QED BY <1>1, <1>4, <1>6, <1>8, <1>9, <1>10, StoreStep

LEMMA CompleteConsentStep ==
  ASSUME InteractionInv, NEW i \in Interactions, NEW u \in Users,
         NEW chosen \in SUBSET Scopes, CompleteConsent(i, u, chosen)
  PROVE  InteractionInv'
<1>0. Readable(i)
  BY DEF CompleteConsent, Stepping
<1>1. PICK s \in Session :
        /\ s = SwitchedTo(session[i], u, prompt[i])
        /\ Passed(i, s) /\ (~s.auth => s.user = u)
        /\ prompt[i] # None /\ u # None /\ session[i] # None
  BY <1>0, Switched
<1>2. ~s.auth
  BY <1>1, StepIsFirst DEF CompleteConsent, Stepping
<1>3. PICK S \in SUBSET Scopes : S = s.scopes \cap (chosen \cup {OpenID})
  BY DEF Session
<1>4. PICK t : t = [s EXCEPT !.user = u, !.scopes = S, !.consent = FALSE]
  OBVIOUS
<1>5. /\ Store(i, t) /\ consents' = WithConsent(u, S)
      /\ screens' = [screens EXCEPT ![i] = @ \cup {Grant(u, S)}]
      /\ approved' = [approved EXCEPT ![u] = @ \cup S]
      /\ UNCHANGED <<client, prompt, proofs, proc, reauthed, selected, grants>>
  BY <1>1, <1>3, <1>4 DEF CompleteConsent, NarrowApprovedScopes
<1>6. /\ t \in Session /\ t.user = u /\ t.auth = s.auth /\ t.scopes = S
      /\ t.select = s.select /\ t.reauth = s.reauth
  BY <1>3, <1>4 DEF Session
<1>7. PICK c \in [user : Users, scopes : SUBSET Scopes] :
        c = Grant(u, S) /\ c.user = u /\ c.scopes = S
  <2>1. Grant(u, S) \in [user : Users, scopes : SUBSET Scopes]
    BY <1>3 DEF Grant
  <2>2. Grant(u, S).user = u /\ Grant(u, S).scopes = S
    BY DEF Grant
  <2> QED BY <2>1, <2>2
<1>8. /\ c \in screens'[i] /\ \A j \in Interactions : screens[j] \subseteq screens'[j]
      /\ screens' \in [Interactions -> SUBSET [user : Users, scopes : SUBSET Scopes]]
  BY <1>5, <1>7 DEF InteractionInv, TypeOK
<1>9. /\ S \subseteq approved'[u] /\ \A v \in Users : approved[v] \subseteq approved'[v]
      /\ approved' \in [Users -> SUBSET Scopes]
  BY <1>5 DEF InteractionInv, TypeOK
<1>10. \A v \in Users : consents'[v] = IF v = u THEN (IF consents[u] = None THEN S
                                                     ELSE consents[u] \cup S)
                                       ELSE consents[v]
  BY <1>5 DEF WithConsent, InteractionInv, TypeOK
<1>11. consents' \in [Users -> {None} \cup SUBSET Scopes]
  BY <1>5 DEF WithConsent, InteractionInv, TypeOK
<1>12. TypeOK'
  <2>1. session' \in [Interactions -> {None} \cup Session]
    BY <1>5, <1>6 DEF Store, InteractionInv, TypeOK
  <2> QED BY <1>5, <1>8, <1>9, <1>11, <2>1 DEF InteractionInv, TypeOK
<1>13. Remembered
  BY <1>5, <1>8, <1>9 DEF Remembered
<1>14. ConsentsApproved'
  BY <1>5, <1>9, <1>10 DEF InteractionInv, ConsentsApproved
<1>15. Passed(i, t)'
  BY <1>1, <1>2, <1>5, <1>6, <1>7, <1>8, <1>9 DEF Passed, ReauthenticationRequired
<1> QED BY <1>1, <1>5, <1>12, <1>13, <1>14, <1>15, StoreStep

(* The rest of the system: sessions expire or go, requests end, tokens and *)
(* consent records come and go.                                            *)
LEMMA OtherSteps ==
  ASSUME InteractionInv,
         \/ \E p \in Procs : AbandonResume(p)
         \/ \E u \in Users : \/ CreateReauthenticationToken(u)
                             \/ ExpireReauthenticationToken(u)
                             \/ RevokeAuthorizedClient(u)
         \/ \E i \in Interactions : ExpireSession(i)
         \/ CleanupAbandonedInteractionSessions
         \/ UNCHANGED vars
  PROVE  InteractionInv'
<1>1. UNCHANGED <<client, prompt, history, grants>>
  BY DEF AbandonResume, CreateReauthenticationToken, ExpireReauthenticationToken,
         RevokeAuthorizedClient, ExpireSession, CleanupAbandonedInteractionSessions, vars,
         history
<1>2. Remembered
  BY <1>1 DEF Remembered, history
<1>3. proofs' \subseteq Users
  BY DEF AbandonResume, CreateReauthenticationToken, ExpireReauthenticationToken,
         RevokeAuthorizedClient, ExpireSession, CleanupAbandonedInteractionSessions, vars,
         InteractionInv, TypeOK
<1>4. /\ \A p \in Procs : proc'[p] \in {proc[p], Idle}
      /\ proc' \in [Procs -> {Idle} \cup Restored \cup Bound]
  <2>1. CASE UNCHANGED proc
    BY <2>1 DEF InteractionInv, TypeOK
  <2>2. CASE \E p \in Procs : AbandonResume(p)
    BY <2>2 DEF AbandonResume, InteractionInv, TypeOK
  <2> QED BY <2>1, <2>2 DEF CreateReauthenticationToken, ExpireReauthenticationToken,
            RevokeAuthorizedClient, ExpireSession, CleanupAbandonedInteractionSessions, vars
<1>5. /\ \A u \in Users : consents'[u] \in {consents[u], None}
      /\ consents' \in [Users -> {None} \cup SUBSET Scopes]
  <2>1. CASE UNCHANGED consents
    BY <2>1 DEF InteractionInv, TypeOK
  <2>2. CASE \E u \in Users : RevokeAuthorizedClient(u)
    BY <2>2 DEF RevokeAuthorizedClient, InteractionInv, TypeOK
  <2> QED BY <2>1, <2>2 DEF CreateReauthenticationToken, ExpireReauthenticationToken,
            AbandonResume, ExpireSession, CleanupAbandonedInteractionSessions, vars
<1>6. /\ session' \in [Interactions -> {None} \cup Session]
      /\ \A i \in Interactions : session'[i] # None => session[i] # None
      /\ SessionsPassed'
  <2>1. CASE UNCHANGED session
    BY <1>2, <2>1, SessionsStay DEF InteractionInv, TypeOK
  <2>2. CASE \E i \in Interactions : ExpireSession(i)
    <3>1. PICK i \in Interactions : ExpireSession(i)
      BY <2>2
    <3>2. session[i] \in Session /\ session[i] # None /\ prompt[i] # None
          /\ Passed(i, session[i])
      BY <3>1 DEF ExpireSession, Readable, InteractionInv, TypeOK, SessionsPassed,
                  SessionsEndInGrants
    <3>3. PICK t \in Session : t = [session[i] EXCEPT !.expired = TRUE]
      BY <3>2 DEF Session
    <3>4. /\ t.user = session[i].user /\ t.auth = session[i].auth
          /\ t.scopes = session[i].scopes /\ t.select = session[i].select
          /\ t.reauth = session[i].reauth /\ t.consent = session[i].consent
      BY <3>2, <3>3 DEF Session
    <3>5. session' = [session EXCEPT ![i] = t]
      BY <3>1, <3>3 DEF ExpireSession, InteractionInv, TypeOK
    <3>6. session'[i] = t /\ \A j \in Interactions : j # i => session'[j] = session[j]
      BY <3>5 DEF InteractionInv, TypeOK
    <3>7. Passed(i, t)
      BY <3>2, <3>4 DEF Passed
    <3>8. Passed(i, t)'
      BY <1>2, <3>2, <3>7, PassedStays DEF Session
    <3>9. Passed(i, session[i])'
      BY <3>6, <3>8
    <3>10. SessionsPassed'
      BY <1>2, <3>6, <3>9, SessionsStay
    <3> QED BY <3>2, <3>5, <3>6, <3>10 DEF InteractionInv, TypeOK
  <2>3. CASE CleanupAbandonedInteractionSessions
    <3>1. \A i \in Interactions : session'[i] \in {session[i], None}
      BY <2>3 DEF CleanupAbandonedInteractionSessions
    <3>2. session' \in [Interactions -> {None} \cup Session]
      BY <2>3 DEF CleanupAbandonedInteractionSessions, InteractionInv, TypeOK
    <3> QED BY <1>2, <3>1, <3>2, SessionsStay
  <2> QED BY <2>1, <2>2, <2>3 DEF AbandonResume, CreateReauthenticationToken,
            ExpireReauthenticationToken, RevokeAuthorizedClient, vars
<1>7. TypeOK'
  BY <1>1, <1>3, <1>4, <1>5, <1>6 DEF InteractionInv, TypeOK, history
<1>8. ConsentsApproved'
  BY <1>1, <1>5 DEF InteractionInv, ConsentsApproved, history
<1>9. CopiesPassed'
  BY <1>2, <1>4, CopiesStay
<1> QED BY <1>1, <1>2, <1>6, <1>7, <1>8, <1>9, GrantlessStep
        DEF InteractionInv, SessionsEndInGrants

-----------------------------------------------------------------------------
(* InteractionInv is an invariant of the authorization endpoint.           *)
THEOREM InteractionInvariant == Spec => []InteractionInv
<1>1. Init => InteractionInv
  BY InteractionInit
<1>2. ASSUME InteractionInv, [Next]_vars
      PROVE  InteractionInv'
  BY <1>2, AuthorizeUnauthenticatedStep, AuthorizeFreshStep, RestoreRequestStep,
     BindSessionStep, ResumeStep, CompleteAuthenticationStep, CompleteSelectAccountStep,
     CompleteReauthenticationStep, CompleteConsentStep, OtherSteps DEF Next
<1> QED BY <1>1, <1>2, PTL DEF Spec

(* Of the requests that resume an interaction at the same time at most one *)
(* is granted, and never a request that was granted before.                *)
THEOREM InteractionsAreGrantedOnce == Spec => []GrantedOnce
<1>1. InteractionInv => GrantedOnce
  BY OneMember DEF InteractionInv, SessionsEndInGrants, GrantedOnce
<1> QED BY <1>1, InteractionInvariant, PTL

(* However many users and tabs take part and however stale the copy of the *)
(* session a request decides on, every screen that it asks for was passed  *)
(* by the user it is granted to.                                           *)
THEOREM ScreensAreHonoured == Spec => []ScreensHonoured
  BY InvImplies, InteractionInvariant, PTL

(* Unless the client skips consent nobody is granted a scope they never    *)
(* approved on a consent screen.                                           *)
THEOREM GrantsAreApproved == Spec => []GrantWithinApproval
  BY InvImplies, InteractionInvariant, PTL
=============================================================================
