----------------------------- MODULE TokenFamily -----------------------------
(***************************************************************************)
(* What Pocket ID promises of the tokens of one authorization, for each    *)
(* request ID: a code is granted, one exchange opens the family, refreshes *)
(* extend it while it is open, and a reuse, a logout or a revocation       *)
(* closes it for good.  TokenSessions implements this specification.       *)
(***************************************************************************)
CONSTANTS Requests, Tokens

VARIABLES
  state,    \* state[r]: "none", "granted", "open" or "closed"
  issued    \* issued[r]: the tokens minted in family r

vars == <<state, issued>>

Init ==
  /\ state = [r \in Requests |-> "none"]
  /\ issued = [r \in Requests |-> {}]

Move(r, from, to) ==
  /\ state[r] = from
  /\ state' = [state EXCEPT ![r] = to]

Grant(r) ==
  /\ Move(r, "none", "granted")
  /\ UNCHANGED issued

Exchange(r, t) ==
  /\ Move(r, "granted", "open")
  /\ issued[r] = {}
  /\ issued' = [issued EXCEPT ![r] = {t}]

(* A token belongs to one family, and is minted once.                      *)
Renew(r, t) ==
  /\ state[r] = "open"
  /\ \A q \in Requests : t \notin issued[q]
  /\ issued' = [issued EXCEPT ![r] = @ \cup {t}]
  /\ UNCHANGED state

(* A revocation may end several families at once.                          *)
Close(S) ==
  /\ \A r \in S : state[r] = "open"
  /\ state' = [r \in Requests |-> IF r \in S THEN "closed" ELSE state[r]]
  /\ UNCHANGED issued

Next ==
  \/ \E r \in Requests : Grant(r)
  \/ \E r \in Requests, t \in Tokens : Exchange(r, t) \/ Renew(r, t)
  \/ \E S \in SUBSET Requests : Close(S)

Spec == Init /\ [][Next]_vars
=============================================================================
