--------------------------- MODULE MCTokenSessions --------------------------
(* Small instances of TokenSessions: one or two authorizations of one user *)
(* for one client.                                                         *)
EXTENDS TokenSessions, TLC

CONSTANTS r1, r2, t1, t2, t3, t4, p1, p2, u1, c1

OneUser == [r \in Requests |-> u1]
OneClient == [r \in Requests |-> c1]

Symmetry == Permutations(Tokens) \cup Permutations(Procs)
=============================================================================
