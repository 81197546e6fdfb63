---------------------------- MODULE MCCredentials ----------------------------
EXTENDS Credentials

(* One person owns every passkey. *)
OwnedByOne == [k \in Passkey |-> CHOOSE u \in Person : TRUE]
=============================================================================
