----------------------------- MODULE MCDelivery -----------------------------
(* Delivery for TLC: two deliveries to one recipient, which are also the jobs *)
(* that two workers claim, and one file.                                      *)
EXTENDS Delivery, TLC

CONSTANT address

\* All deliveries go to one recipient.
OneRecipient == {address}
ToOne == [d \in Deliveries |-> address]

Symmetric == {p @@ q : p \in Permutations(Deliveries), q \in Permutations(Workers)}
=============================================================================
