---------------------------- MODULE MCInteraction ----------------------------
EXTENDS Interaction, TLC

CONSTANTS i1, i2, u1, u2, p1, p2, openid, email

Client(skip, aged, reauthentication, prompts) ==
  [skipConsent |-> skip, agedUsers |-> aged, prompts |-> prompts,
   requiresReauthentication |-> reauthentication]

\* The prompts a client sends: none, those with a screen of their own, a login.
ScreenPrompts == {{}, {"select_account", "consent"}}
LoginPrompts == {{}, {"login"}, {"none"}}

BothClients ==
  {Client(FALSE, {}, FALSE, ScreenPrompts)}
    \cup {Client(TRUE, {u}, FALSE, LoginPrompts) : u \in Users}
StrictClient == {Client(FALSE, {}, TRUE, {{"select_account", "consent"}})}

(* The client that asks for consent has one request, resumed from two tabs *)
(* at once before it expires, with two different approvals; the one that   *)
(* asks for logins has two that may expire, resumed one at a time, with    *)
(* one reauthentication token at a time.  Nobody has used either before.   *)
Screens ==
  /\ prompt[i2] = None /\ proofs = {}
  /\ session[i1] # None => ~session[i1].expired
  /\ Cardinality(screens[i1]) <= 2
Logins ==
  /\ Cardinality({p \in Procs : proc[p] # Idle}) <= 1
  /\ Cardinality(proofs) <= 1

MCInit == Init /\ \A u \in Users : consents[u] = None

MCSpec ==
  MCInit /\ [][Next /\ (IF client.skipConsent THEN Logins' ELSE Screens')]_vars

Symmetry == Permutations(Procs) \cup Permutations(Users)
=============================================================================
