--------------------------- MODULE InOrderDelivery ---------------------------
(***************************************************************************)
(* What the V3 projection outbox promises, without workers, leases or      *)
(* retries: the events of each order reach the read model one by one, in   *)
(* order and once each, and an event is confirmed after it was delivered.  *)
(***************************************************************************)
EXTENDS Naturals

CONSTANT Orders

VARIABLES
  appended,    \* events of each order in the outbox
  delivered,   \* of those, applied to the read model
  confirmed    \* of those, marked as published

Init ==
  /\ appended = [o \in Orders |-> 0]
  /\ delivered = [o \in Orders |-> 0]
  /\ confirmed = [o \in Orders |-> 0]

Append(o) ==
  /\ appended' = [appended EXCEPT ![o] = @ + 1]
  /\ UNCHANGED <<delivered, confirmed>>

Deliver(o) ==
  /\ delivered[o] < appended[o]
  /\ delivered' = [delivered EXCEPT ![o] = @ + 1]
  /\ UNCHANGED <<appended, confirmed>>

Confirm(o) ==
  /\ confirmed[o] < delivered[o]
  /\ confirmed' = [confirmed EXCEPT ![o] = @ + 1]
  /\ UNCHANGED <<appended, delivered>>

Next == \E o \in Orders : Append(o) \/ Deliver(o) \/ Confirm(o)

Spec == Init /\ [][Next]_<<appended, delivered, confirmed>>
=============================================================================
