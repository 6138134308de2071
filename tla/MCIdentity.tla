----------------------------- MODULE MCIdentity -----------------------------
(* Identity for TLC: one sign-in, two keys of the issuer, two clients with a  *)
(* limit of two, and three commands of the operators on two tenants.          *)
EXTENDS Identity, TLC

CONSTANTS
  k1, k2,                  \* KeyCache
  t1, t2, e1, e2, s1, s2   \* Provisioning

\* A token of the first key that expires, and one of each key that does not.
Bearers == {[key |-> k1, exp |-> 0], [key |-> k1, exp |-> 9], [key |-> k2, exp |-> 9]}

\* A user without a subject, the same tenant with another input, and another
\* tenant that brings the same subject.
Given ==
  {[tenant |-> t1, who |-> e1 :> None @@ e2 :> None],
   [tenant |-> t1, who |-> e1 :> s1],
   [tenant |-> t2, who |-> e1 :> s1]}

Symmetric == Permutations(Asks)
=============================================================================
