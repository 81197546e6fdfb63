------------------------------- MODULE MCParts -------------------------------
EXTENDS Parts, TLC

(* APIs, replicas, processes, workers and requests: two of each, all alike.*)
CONSTANTS w1, w2

(* The assertion expires after the first step of time. *)
ExpiresEarly == [a \in Assertion |-> 1]

(* A metadata document is stored where there is at most one permission, or *)
(* only its client is given access.                                        *)
FewGrants ==
  \/ \A c \in Client : documents[c] = NoDocument
  \/ Cardinality(permissions) <= 1
  \/ \A r \in access : r[1] \in Cimd

(* A rotated key is missed by one replica at a time.                       *)
FewOutdated == Cardinality(outdated) <= 1

(* A replacement of custom claims sets one of them and removes the others. *)
OneClaim ==
  \A e \in Edit : edit[e].at = "open" =>
    Cardinality({k \in ClaimKey : edit[e].claims[k] # NoClaim}) <= 1

MCSpec ==
  Init /\ [][/\ Next
             /\ focus = "access" => FewGrants'
             /\ focus = "claims" => OneClaim'
             /\ focus = "keys" => FewOutdated']_vars

Symmetry == Permutations({w1, w2})
=============================================================================
