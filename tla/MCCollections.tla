---------------------------- MODULE MCCollections ----------------------------
(* Instances of Collections for TLC. *)
EXTENDS Collections

CONSTANTS t1, t2, i1, i2, k

SeedOfT1 ==
  {[kind |-> x, id |-> i1, tenant |-> t1, parent |-> i1] : x \in {"projects", "ai-review-runs"}}

Post(kind, id, tenant, parent, key) ==
  [kind |-> kind, id |-> id, tenant |-> tenant, parent |-> parent, names |-> tenant, key |-> key]

\* Two tenants ask for one project id; children of it, of the seeded
\* project and of the other tenant's; the same RFI with and without a key.
Bodies ==
  {Post("projects", i2, t1, i2, None), Post("projects", i2, t2, i2, k),
   Post("rfis", i1, t1, i2, k), Post("rfis", i1, t2, i2, None), Post("rfis", i1, t1, i1, None),
   Post("ai-findings", i1, t1, i1, k), Post("ai-findings", i1, t2, i1, None),
   [Post("field-reports", i1, t2, i2, None) EXCEPT !.names = t1]}
=============================================================================
