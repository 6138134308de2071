--------------------------- MODULE MCEmailDelivery ---------------------------
(* Instances of EmailDelivery for TLC. *)
EXTENDS EmailDelivery, TLC

CONSTANT address

\* All deliveries go to one recipient.
OneRecipient == {address}
ToOne == [d \in Deliveries |-> address]

Symmetric == Permutations(Deliveries)
=============================================================================
