--------------------------- MODULE LogoutNotices ---------------------------
(***************************************************************************)
(* Back-channel logout (backend/internal/backchannellogout) for a client   *)
(* with a logout URL: whom to notify is worked out after the commit, and a *)
(* durable job per user delivers a logout token, at most                   *)
(* deliveryMaxAttempts times.                                              *)
(***************************************************************************)
EXTENDS Accounts

CONSTANT deliveryMaxAttempts

ASSUME LogoutAssumption == deliveryMaxAttempts \in Nat \ {0}

VARIABLES
  signedIn,   \* users with a session at the client
  jobs,       \* attempts the delivery to the client has left, 0 for no job
  missed      \* history: users whose notice a crash or the client lost

logoutVars == <<signedIn, jobs, missed>>

(* targetsForLostGroupAccess.                                              *)
LostGroupAccess(n) ==
  IF restricted
  THEN {u \in authorized : /\ u \in n.lost \/ n.anyone
                           /\ GroupsOf(u) \cap allowed = {}}
  ELSE {}

(* targetsForUsers and the targets resolved in the transaction.            *)
Targets(n) == n.prepared \cup (n.told \cap authorized) \cup LostGroupAccess(n)

(* notifyClients, after the commit.                                        *)
Dispatch(n) ==
  /\ n \in after
  /\ after' = after \ {n}
  /\ jobs' = [u \in User |-> IF u \in Targets(n) THEN deliveryMaxAttempts ELSE jobs[u]]
  /\ UNCHANGED <<rows, settled, drifted, edits, signedIn, missed>>

(* The process ends between the commit and the call that dispatches.       *)
Crash ==
  /\ after # {}
  /\ after' = {}
  /\ missed' = missed \cup UNION {Targets(n) : n \in after}
  /\ UNCHANGED <<rows, settled, drifted, edits, signedIn, jobs>>

(* A user signs in at the client, and authorizes it if that is missing.    *)
SignIn(u) ==
  /\ follows = "client" /\ MayUse(u)
  /\ authorized' = authorized \cup {u} /\ signedIn' = signedIn \cup {u}
  /\ missed' = missed \ {u}
  /\ UNCHANGED <<users, groups, restricted, allowed, settled, drifted, after,
                 edits, jobs>>

(* sendLogoutToken: the client answers 2xx.                                *)
Deliver(u) ==
  /\ jobs[u] > 0
  /\ jobs' = [jobs EXCEPT ![u] = 0]
  /\ signedIn' = signedIn \ {u}
  /\ UNCHANGED <<accountVars, missed>>

\* A 408, a 429, a 5xx or no answer: the job is retried while attempts are left.
Retry(u) ==
  /\ jobs[u] > 1
  /\ jobs' = [jobs EXCEPT ![u] = @ - 1]
  /\ UNCHANGED <<accountVars, signedIn, missed>>

(* JobFailed: any other answer, or the last attempt.                       *)
GiveUp(u) ==
  /\ jobs[u] > 0
  /\ jobs' = [jobs EXCEPT ![u] = 0]
  /\ missed' = missed \cup {u}
  /\ UNCHANGED <<accountVars, signedIn>>

LogoutTypeOK ==
  /\ signedIn \subseteq User /\ missed \subseteq User
  /\ jobs \in [User -> 0..deliveryMaxAttempts]

(* A user who loses access to a client, by losing the authorization, the   *)
(* account, or every group the client admits, and is still signed in       *)
(* there, is about to be told, unless a crash or the client lost the       *)
(* notice: whichever handler or sync took the access away, and however the *)
(* changes overlap that happen before the targets are looked up.           *)
LostAccessIsTold ==
  \A u \in signedIn :
    \/ MayUse(u) /\ u \in authorized
    \/ jobs[u] > 0
    \/ \E n \in after : u \in Targets(n)
    \/ u \in missed
=============================================================================
