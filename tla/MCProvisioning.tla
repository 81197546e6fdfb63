--------------------------- MODULE MCProvisioning ---------------------------
(* A user of the directory and a local one, the directory's group and a    *)
(* local group, which the client both admits.                              *)
EXTENDS Provisioning, TLC

CONSTANTS u1, u2, g1, g2, n1, n2, e1

StartUsers == (u1 :> [name |-> n1, active |-> TRUE, entry |-> e1])
           @@ (u2 :> [name |-> n2, active |-> TRUE, entry |-> NoEntry])
StartMembers == (g1 :> {u1}) @@ (g2 :> {u2})
Edits == [client |-> 2, provider |-> 2]

(* What is changed and what goes wrong share a bound. *)
TwoTroubles == edits' + faults' <= 2

MCSpec ==
  /\ Init /\ [][Next /\ TwoTroubles]_vars
  /\ WF_fetched(ReadDirectory) /\ WF_fetched(EndLdapSync)
  /\ WF_scimVars(Provide)

StartDirectory == [names |-> (e1 :> n1), members |-> {e1}, group |-> TRUE]
=============================================================================
