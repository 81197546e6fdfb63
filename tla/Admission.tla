------------------------------ MODULE Admission ------------------------------
(***************************************************************************)
(* What the ways in have in common where somebody is let in with a ticket  *)
(* he got elsewhere: a login code, a device code, the request of a waiting *)
(* device.  A ticket is bound to one person, once, and it admits once, as  *)
(* that person.  It may also come to nothing at any time.                  *)
(* OneTimeAccess, DeviceGrant and DeviceLogin implement this.              *)
(***************************************************************************)
CONSTANTS Tickets, Persons

VARIABLES
  bound,     \* bound[t]: whom ticket t was bound to, numbered
  admitted   \* admitted[t]: as whom it let somebody in, numbered

admissionVars == <<bound, admitted>>

Start ==
  /\ bound = [t \in Tickets |-> {}]
  /\ admitted = [t \in Tickets |-> {}]

Bind(t, u) ==
  /\ bound[t] = {}
  /\ bound' = [bound EXCEPT ![t] = {<<1, u>>}]
  /\ UNCHANGED admitted

Admit(t, u) ==
  /\ <<1, u>> \in bound[t] /\ admitted[t] = {}
  /\ admitted' = [admitted EXCEPT ![t] = {<<1, u>>}]
  /\ UNCHANGED bound

Advance == \E t \in Tickets, u \in Persons : Bind(t, u) \/ Admit(t, u)

AdmissionSpec == Start /\ [][Advance]_admissionVars
=============================================================================
