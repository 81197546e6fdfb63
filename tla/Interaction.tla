----------------------------- MODULE Interaction -----------------------------
(***************************************************************************)
(* The interaction sessions of the authorization endpoint                  *)
(* (backend/internal/oidc/authorization_service.go and                     *)
(* interaction_session_service.go): which screens a user still has to pass *)
(* before an authorization request of one client is granted.               *)
(*                                                                         *)
(* A request that resumes an interaction reads the session twice before    *)
(* its transaction starts: interactionRequestQuery restores the request,   *)
(* boundInteractionSession copies the session and checks the request       *)
(* against it.  authorizeAuthenticated then decides on that copy, while    *)
(* other tabs and other users complete steps, resume or let the session    *)
(* expire.  completeInteractionStep is one transaction.                    *)
(*                                                                         *)
(* Requests are made by any user (None: not signed in), from any browser.  *)
(* A reauthentication token is known by the user it was issued to.         *)
(***************************************************************************)
EXTENDS Naturals, FiniteSets

CONSTANTS
  Interactions,   \* request IDs, which also name the interaction sessions
  Users, Procs,
  Scopes,         \* the scopes of a request, openid among them
  OpenID,         \* the scope no user can deselect (requiredConsentScopes)
  Clients,        \* the settings a client can have, the prompts it asks for,
                  \* and the users whose login is older than its max_age
  AllowedUsers,   \* users in one of the client's groups
  Provers,        \* users who can obtain a reauthentication token
  None

ASSUME InteractionAssumption ==
  /\ OpenID \in Scopes
  /\ Clients \subseteq
       [skipConsent : BOOLEAN, requiresReauthentication : BOOLEAN,
        prompts : SUBSET SUBSET {"login", "consent", "select_account", "none"},
        agedUsers : SUBSET Users]
  /\ AllowedUsers \subseteq Users
  /\ Provers \subseteq Users
  /\ None \notin Users /\ None \notin Interactions

VARIABLES
  client,     \* the one client of a behaviour; its settings stay
  session,    \* interaction_sessions, by ID
  prompt,     \* the prompt parameter of each request, None before it came
  consents,   \* user_authorized_oidc_clients: the scopes a user agreed to
  proofs,     \* users with a valid, unconsumed reauthentication token
  proc,       \* resumed requests in flight
  screens,    \* history: consent screens confirmed in an interaction
  reauthed,   \* history: users who proved themselves in an interaction
  selected,   \* history: users who picked an account in an interaction
  approved,   \* history: scopes a user has ever approved on a screen
  grants      \* history: what each request was granted, in order

vars == <<client, session, prompt, consents, proofs, proc, screens, reauthed,
          selected, approved, grants>>
history == <<screens, reauthed, selected, approved>>

Session == [user : Users \cup {None}, scopes : SUBSET Scopes,
            auth : BOOLEAN, select : BOOLEAN, reauth : BOOLEAN,
            consent : BOOLEAN, expired : BOOLEAN]

ASSUME NoSessionAssumption ==
  /\ None \notin Session
  /\ \A S \in SUBSET Scopes : S # None
  /\ \A c \in Clients : None \notin c.prompts

Idle == [pc |-> "idle"]
Restored == [pc : {"restored"}, user : Users \cup {None}, id : Interactions,
             scopes : SUBSET Scopes]
Bound == [pc : {"bound"}, user : Users, id : Interactions,
          scopes : SUBSET Scopes, copy : Session]

Grant(u, S) == [user |-> u, scopes |-> S]

Init ==
  /\ client \in Clients
  /\ session = [i \in Interactions |-> None]
  /\ prompt = [i \in Interactions |-> None]
  /\ consents \in [Users -> {None, Scopes}]
  /\ proofs = {}
  /\ proc = [p \in Procs |-> Idle]
  /\ screens = [i \in Interactions |-> {}]
  /\ reauthed = [i \in Interactions |-> {}]
  /\ selected = [i \in Interactions |-> {}]
  /\ approved = [u \in Users |-> IF consents[u] = None THEN {} ELSE Scopes]
  /\ grants = [i \in Interactions |-> {}]

-----------------------------------------------------------------------------
(* Consent and requirements.                                               *)

HasAuthorizedClient(u, S) == consents[u] # None /\ S \subseteq consents[u]

ConsentRequired(u, S, prm) ==
  "consent" \in prm \/ (~HasAuthorizedClient(u, S) /\ ~client.skipConsent)

ReauthenticationRequired(u, prm) ==
  \/ "login" \in prm
  \/ client.requiresReauthentication
  \/ u \in client.agedUsers

(* The consent record after consent(): created, merged into, or only       *)
(* touched when it covers S already.                                       *)
WithConsent(u, S) ==
  [consents EXCEPT ![u] = IF @ = None THEN S ELSE @ \cup S]

\* Mutant: the new user's consent record is looked at, the prompt is not.
SwitchUser_ForgetsPrompt(s, u, prm) ==
  [s EXCEPT !.user = u, !.auth = FALSE,
            !.consent = ConsentRequired(u, s.scopes, {}),
            !.reauth = ReauthenticationRequired(u, {})]

(* switchInteractionSessionUser: the steps are computed again for u; the   *)
(* account selection is left alone.                                        *)
SwitchUser(s, u, prm) ==
  [s EXCEPT !.user = u, !.auth = FALSE,
            !.consent = ConsentRequired(u, s.scopes, prm),
            !.reauth = ReauthenticationRequired(u, prm)]

SwitchedTo(s, u, prm) ==
  IF s.user \notin {None, u} THEN SwitchUser(s, u, prm) ELSE s

(* requiredInteractionSteps: the first step still open.                    *)
CurrentStep(s) ==
  CASE s.auth -> "authenticate"
    [] ~s.auth /\ s.select -> "select_account"
    [] ~s.auth /\ ~s.select /\ s.reauth -> "reauthenticate"
    [] ~s.auth /\ ~s.select /\ ~s.reauth /\ s.consent -> "consent"
    [] OTHER -> "none"

Readable(i) == session[i] # None /\ ~session[i].expired

-----------------------------------------------------------------------------
(* A new authorization request.                                            *)

NewSession(u, S, auth, select, reauth, consent) ==
  [user |-> u, scopes |-> S, auth |-> auth, select |-> select,
   reauth |-> reauth, consent |-> consent, expired |-> FALSE]

UnauthenticatedSession(S, prm) ==
  NewSession(None, S, TRUE, "select_account" \in prm,
             "login" \in prm \/ client.requiresReauthentication, "consent" \in prm)

(* Nobody is signed in: the session starts with the authentication step.   *)
AuthorizeUnauthenticated(i, prm) ==
  /\ prompt[i] = None
  /\ "none" \notin prm
  /\ prompt' = [prompt EXCEPT ![i] = prm]
  /\ session' = [session EXCEPT ![i] = UnauthenticatedSession(Scopes, prm)]
  /\ UNCHANGED <<client, consents, proofs, proc, history, grants>>

(* authorizeAuthenticated for a request without an interaction: a valid    *)
(* reauthentication cookie satisfies that requirement; what is left open   *)
(* makes a session, and if nothing is, the request is granted.             *)
AuthorizeFresh(i, u, prm, cookie) ==
  LET consent == ConsentRequired(u, Scopes, prm)
      needs == ReauthenticationRequired(u, prm)
      proved == needs /\ cookie /\ u \in proofs
      reauth == needs /\ ~proved
      select == "select_account" \in prm IN
  /\ prompt[i] = None
  /\ u \in AllowedUsers
  /\ "none" \in prm => ~consent /\ ~needs
  /\ prompt' = [prompt EXCEPT ![i] = prm]
  /\ proofs' = IF proved THEN proofs \ {u} ELSE proofs
  /\ reauthed' = IF proved THEN [reauthed EXCEPT ![i] = @ \cup {u}] ELSE reauthed
  /\ IF consent \/ reauth \/ select
     THEN /\ session' = [session EXCEPT ![i] =
                           NewSession(u, Scopes, FALSE, select, reauth, consent)]
          /\ UNCHANGED <<consents, grants>>
     ELSE /\ consents' = WithConsent(u, Scopes)
          /\ grants' = [grants EXCEPT ![i] = @ \cup {<<1, Grant(u, Scopes)>>}]
          /\ UNCHANGED session
  /\ UNCHANGED <<client, proc, screens, selected, approved>>

-----------------------------------------------------------------------------
(* Resuming an interaction.                                                *)

(* interactionRequestQuery: the stored parameters, with the scopes the     *)
(* session has at this moment.                                             *)
RestoreRequest(p, u, i) ==
  /\ proc[p] = Idle
  /\ Readable(i)
  /\ proc' = [proc EXCEPT ![p] = [pc |-> "restored", user |-> u, id |-> i,
                                  scopes |-> session[i].scopes]]
  /\ UNCHANGED <<client, session, prompt, consents, proofs, history, grants>>

(* validateInteractionSessionBinding: the session as it is now covers the  *)
(* restored scopes, and a session bound to a user wants a signed-in user.  *)
Binds(q) ==
  /\ Readable(q.id)
  /\ session[q.id].user # None => q.user # None
  /\ q.scopes \subseteq session[q.id].scopes

(* A browser without a login resumes a session nobody is bound to: the     *)
(* request is a new one to fosite, and gets an interaction of its own.     *)
RestartUnauthenticated(q) ==
  \E j \in Interactions :
    /\ prompt[j] = None
    /\ prompt' = [prompt EXCEPT ![j] = prompt[q.id]]
    /\ session' = [session EXCEPT ![j] =
                     UnauthenticatedSession(q.scopes, prompt[q.id])]

(* boundInteractionSession: the copy the rest of the request works on.     *)
BindSession(p) ==
  LET q == proc[p] IN
  /\ q.pc = "restored"
  /\ proc' = [proc EXCEPT ![p] =
       IF Binds(q) /\ q.user # None
       THEN [pc |-> "bound", user |-> q.user, id |-> q.id,
             scopes |-> q.scopes, copy |-> session[q.id]]
       ELSE Idle]
  /\ \/ q.user = None /\ Binds(q) /\ RestartUnauthenticated(q)
     \/ (q.user # None \/ ~Binds(q)) /\ UNCHANGED <<session, prompt>>
  /\ UNCHANGED <<client, consents, proofs, history, grants>>

\* Mutant: the delete of the session is not checked for a lost race.
Consume_Unchecked(i) == session' = [session EXCEPT ![i] = None]

(* interactionSessionService.delete: a session is used up once.            *)
Consume(i) ==
  /\ session[i] # None
  /\ session' = [session EXCEPT ![i] = None]

(* The number of a request's next grant.                                   *)
NextGrant(i) == Cardinality(grants[i]) + 1

(* The transaction of a resumed request, on the copy taken before it.      *)
Resume(p, cookie) ==
  LET q == proc[p]
      s == SwitchedTo(q.copy, q.user, prompt[q.id])
      proved == s.reauth /\ cookie /\ q.user \in proofs
      open == s.auth \/ s.select \/ s.consent \/ (s.reauth /\ ~proved) IN
  /\ q.pc = "bound"
  /\ q.user \in AllowedUsers
  /\ proc' = [proc EXCEPT ![p] = Idle]
  /\ proofs' = IF proved THEN proofs \ {q.user} ELSE proofs
  /\ IF open
     THEN /\ session' = IF s # q.copy /\ session[q.id] # None
                        THEN [session EXCEPT ![q.id] =
                                [s EXCEPT !.expired = session[q.id].expired]]
                        ELSE session
          /\ UNCHANGED <<consents, grants, reauthed>>
     ELSE /\ Consume(q.id)
          /\ consents' = WithConsent(q.user, q.scopes)
          /\ grants' = [grants EXCEPT ![q.id] =
                          @ \cup {<<NextGrant(q.id), Grant(q.user, q.scopes)>>}]
          /\ reauthed' = IF proved
                         THEN [reauthed EXCEPT ![q.id] = @ \cup {q.user}]
                         ELSE reauthed
  /\ UNCHANGED <<client, prompt, screens, selected, approved>>

(* The request fails (its user may not use the client, or the session was  *)
(* used up by another request), or the connection is gone.                 *)
AbandonResume(p) ==
  /\ proc[p] # Idle
  /\ proc' = [proc EXCEPT ![p] = Idle]
  /\ UNCHANGED <<client, session, prompt, consents, proofs, history, grants>>

-----------------------------------------------------------------------------
(* completeInteractionStep by user u.  Each starts from the stored session *)
(* switched to u; a step that is not the first open one is refused, and    *)
(* the switch with it.                                                     *)

Stepping(i, u, step) ==
  /\ Readable(i)
  /\ CurrentStep(SwitchedTo(session[i], u, prompt[i])) = step

Store(i, s) == session' = [session EXCEPT ![i] = s]

(* bindInteractionSessionUser, then the requirements of the user who       *)
(* signed in are added to those of the request.                            *)
CompleteAuthentication(i, u) ==
  LET s == SwitchedTo(session[i], u, prompt[i]) IN
  /\ Stepping(i, u, "authenticate")
  /\ Store(i, [s EXCEPT !.user = u, !.auth = FALSE,
                 !.consent = @ \/ ConsentRequired(u, s.scopes, prompt[i]),
                 !.select = @ \/ "select_account" \in prompt[i],
                 !.reauth = @ \/ ReauthenticationRequired(u, prompt[i])])
  /\ UNCHANGED <<client, prompt, consents, proofs, proc, history, grants>>

\* Mutant: the step is ticked off without a look at the user's token.
CompleteReauthentication_NoToken(i, u) ==
  LET s == SwitchedTo(session[i], u, prompt[i]) IN
  /\ Stepping(i, u, "reauthenticate")
  /\ Store(i, [s EXCEPT !.user = u, !.reauth = FALSE])
  /\ UNCHANGED <<client, prompt, consents, proofs, proc, history, grants>>

\* Mutant: picking an account asks for the account selection again.
CompleteSelectAccount_Again(i, u) ==
  LET s == SwitchedTo(session[i], u, prompt[i]) IN
  /\ Stepping(i, u, "select_account")
  /\ Store(i, [SwitchUser(s, u, prompt[i]) EXCEPT
                 !.select = "select_account" \in prompt[i]])
  /\ selected' = [selected EXCEPT ![i] = @ \cup {u}]
  /\ UNCHANGED <<client, prompt, consents, proofs, proc, screens, reauthed,
                 approved,
                 grants>>

CompleteSelectAccount(i, u) ==
  LET s == SwitchedTo(session[i], u, prompt[i]) IN
  /\ Stepping(i, u, "select_account")
  /\ Store(i, [SwitchUser(s, u, prompt[i]) EXCEPT !.select = FALSE])
  /\ selected' = [selected EXCEPT ![i] = @ \cup {u}]
  /\ UNCHANGED <<client, prompt, consents, proofs, proc, screens, reauthed,
                 approved,
                 grants>>

CompleteReauthentication(i, u) ==
  LET s == SwitchedTo(session[i], u, prompt[i]) IN
  /\ Stepping(i, u, "reauthenticate")
  /\ u \in proofs
  /\ proofs' = proofs \ {u}
  /\ Store(i, [s EXCEPT !.user = u, !.reauth = FALSE])
  /\ reauthed' = [reauthed EXCEPT ![i] = @ \cup {u}]
  /\ UNCHANGED <<client, prompt, consents, proc, screens, selected, approved,
                 grants>>

\* Mutant: the selection is recorded but the request is not narrowed.
NarrowApprovedScopes_KeepsAll(S, chosen) == S

(* narrowApprovedScopes: the approved scopes and those nobody can deselect *)
NarrowApprovedScopes(S, chosen) == S \cap (chosen \cup {OpenID})

(* The consent screen, confirmed for the chosen scopes; the session and    *)
(* its stored scope parameter shrink to them.                              *)
CompleteConsent(i, u, chosen) ==
  LET s == SwitchedTo(session[i], u, prompt[i])
      S == NarrowApprovedScopes(s.scopes, chosen)
      shown == s.scopes \cap (chosen \cup {OpenID}) IN
  /\ Stepping(i, u, "consent")
  /\ chosen \subseteq s.scopes
  /\ consents' = WithConsent(u, S)
  /\ Store(i, [s EXCEPT !.user = u, !.scopes = S, !.consent = FALSE])
  /\ screens' = [screens EXCEPT ![i] = @ \cup {Grant(u, shown)}]
  /\ approved' = [approved EXCEPT ![u] = @ \cup shown]
  /\ UNCHANGED <<client, prompt, proofs, proc, reauthed, selected, grants>>

-----------------------------------------------------------------------------
(* The rest of the system, as far as an interaction can see it.            *)

(* webauthn: the user confirms a passkey and gets a reauthentication token *)
CreateReauthenticationToken(u) ==
  /\ u \in Provers
  /\ proofs' = proofs \cup {u}
  /\ UNCHANGED <<client, session, prompt, consents, proc, history, grants>>

(* The token runs out after three minutes.                                 *)
ExpireReauthenticationToken(u) ==
  /\ u \in proofs
  /\ proofs' = proofs \ {u}
  /\ UNCHANGED <<client, session, prompt, consents, proc, history, grants>>

RevokeAuthorizedClient(u) ==
  /\ consents[u] # None
  /\ consents' = [consents EXCEPT ![u] = None]
  /\ UNCHANGED <<client, session, prompt, proofs, proc, history, grants>>

(* An hour passes: get no longer finds the session, update and delete do.  *)
ExpireSession(i) ==
  /\ Readable(i)
  /\ session' = [session EXCEPT ![i].expired = TRUE]
  /\ UNCHANGED <<client, prompt, consents, proofs, proc, history, grants>>

CleanupAbandonedInteractionSessions ==
  /\ \E i \in Interactions : session[i] # None /\ session[i].expired
  /\ session' = [i \in Interactions |->
       IF session[i] # None /\ session[i].expired THEN None ELSE session[i]]
  /\ UNCHANGED <<client, prompt, consents, proofs, proc, history, grants>>

Next ==
  \/ \E i \in Interactions, prm \in client.prompts :
       \/ AuthorizeUnauthenticated(i, prm)
       \/ \E u \in Users, cookie \in BOOLEAN : AuthorizeFresh(i, u, prm, cookie)
  \/ \E p \in Procs, u \in Users \cup {None}, i \in Interactions :
       RestoreRequest(p, u, i)
  \/ \E p \in Procs : BindSession(p)
  \/ \E p \in Procs, cookie \in BOOLEAN : Resume(p, cookie)
  \/ \E p \in Procs : AbandonResume(p)
  \/ \E i \in Interactions, u \in Users : CompleteAuthentication(i, u)
  \/ \E i \in Interactions, u \in Users : CompleteSelectAccount(i, u)
  \/ \E i \in Interactions, u \in Users : CompleteReauthentication(i, u)
  \/ \E i \in Interactions, u \in Users, chosen \in SUBSET Scopes :
       CompleteConsent(i, u, chosen)
  \/ \E u \in Users : CreateReauthenticationToken(u)
  \/ \E u \in Users : ExpireReauthenticationToken(u)
  \/ \E u \in Users : RevokeAuthorizedClient(u)
  \/ \E i \in Interactions : ExpireSession(i)
  \/ CleanupAbandonedInteractionSessions

Spec == Init /\ [][Next]_vars

(* A user who does not give up: the step on the screen is completed, a     *)
(* reauthentication token is fetched whenever there is none, and requests  *)
(* that were lost are sent again until one gets through.  No request of    *)
(* anyone stays in flight forever.                                         *)
Persistent(i, u) ==
  /\ WF_vars(CompleteAuthentication(i, u))
  /\ WF_vars(CompleteSelectAccount(i, u))
  /\ WF_vars(u \notin proofs /\ CreateReauthenticationToken(u))
  /\ SF_vars(CompleteReauthentication(i, u))
  /\ SF_vars(\E chosen \in SUBSET Scopes : CompleteConsent(i, u, chosen))
  /\ \A p \in Procs :
       /\ SF_vars(RestoreRequest(p, u, i))
       /\ SF_vars(BindSession(p) /\ proc[p].id = i /\ proc[p].user = u)
       /\ SF_vars((\E cookie \in BOOLEAN : Resume(p, cookie)) /\ proc[p].id = i
                   /\ proc[p].user = u)

FairSpec ==
  /\ Spec
  /\ \A i \in Interactions, u \in AllowedUsers : Persistent(i, u)
  /\ \A p \in Procs : WF_vars(AbandonResume(p))

-----------------------------------------------------------------------------
(* Properties.                                                             *)

TypeOK ==
  /\ client \in Clients
  /\ session \in [Interactions -> {None} \cup Session]
  /\ prompt \in [Interactions -> {None} \cup client.prompts]
  /\ consents \in [Users -> {None} \cup SUBSET Scopes]
  /\ proofs \subseteq Users
  /\ proc \in [Procs -> {Idle} \cup Restored \cup Bound]
  /\ screens \in [Interactions -> SUBSET [user : Users, scopes : SUBSET Scopes]]
  /\ reauthed \in [Interactions -> SUBSET Users]
  /\ selected \in [Interactions -> SUBSET Users]
  /\ approved \in [Users -> SUBSET Scopes]
  /\ grants \in [Interactions ->
       SUBSET (Nat \X [user : Users, scopes : SUBSET Scopes])]

(* One request is granted at most once: of the requests that resume it at  *)
(* the same time, only the one whose delete finds the session succeeds.    *)
GrantedOnce == \A i \in Interactions : Cardinality(grants[i]) <= 1

(* prompt=consent: whoever is granted the request has confirmed the        *)
(* consent screen in this very interaction, for every scope granted.       *)
(* prompt=select_account: an account was selected before.  Whatever users  *)
(* took part and however stale the copy of the session was.                *)
PromptsHonoured ==
  \A i \in Interactions : \A g \in grants[i] :
    /\ "consent" \in prompt[i] =>
         \E c \in screens[i] : c.user = g[2].user /\ g[2].scopes \subseteq c.scopes
    /\ "select_account" \in prompt[i] => selected[i] # {}

(* Where reauthentication is asked for, by prompt=login, by the client or  *)
(* by max_age, the user who is granted the request has consumed a          *)
(* reauthentication token of their own for it.                             *)
ReauthenticationHonoured ==
  \A i \in Interactions : \A g \in grants[i] :
    ReauthenticationRequired(g[2].user, prompt[i]) => g[2].user \in reauthed[i]

(* An interaction does not go round in circles: if its user persists, it   *)
(* ends in a grant unless it expires first, although a resume may use up   *)
(* the reauthentication token before all screens are done.                 *)
InteractionEnds ==
  \A i \in Interactions :
    session[i] # None ~> (grants[i] # {} \/ session[i] = None
                            \/ session[i].expired)

(* Unless the client skips consent, nobody is granted a scope they never   *)
(* approved on a consent screen: deselected scopes stay out.               *)
GrantWithinApproval ==
  ~client.skipConsent =>
    \A i \in Interactions : \A g \in grants[i] :
      g[2].scopes \subseteq approved[g[2].user]

(* Every screen that a request asks for was passed, by the user it is      *)
(* granted to.                                                             *)
ScreensHonoured == PromptsHonoured /\ ReauthenticationHonoured
=============================================================================
