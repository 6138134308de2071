---------------------------- MODULE MCLifecycles ----------------------------
(* Instances of Lifecycles for TLC. *)
EXTENDS Lifecycles
=============================================================================
