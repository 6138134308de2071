------------------------------ MODULE MCOutbox ------------------------------
(* Instances of Outbox for TLC. *)
EXTENDS Outbox, TLC

Symmetric == Permutations(Jobs) \cup Permutations(Workers)
=============================================================================
