------------------------ MODULE MCEmailVerification ------------------------
(* Two addresses, two links, two requests at once.                         *)
EXTENDS EmailVerification, TLC

(* Groups are saved and overdue accounts are deleted while no link is out  *)
(* yet, or links are sent and used.                                        *)
NoLinks == sent' = {}
LinksOnly == \A p \in Requests : request'[p].pc \notin {"save", "delete"}

MCSpec == EmailInit /\ [][EmailNext /\ (NoLinks \/ LinksOnly)]_emailVars

Symmetry ==
  Permutations(Links) \cup Permutations(Requests) \cup Permutations(Emails)
=============================================================================
