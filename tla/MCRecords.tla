------------------------------ MODULE MCRecords ------------------------------
(* Records for TLC: one field report, four writers to the audit trail, three  *)
(* requests on the collections of two tenants, one finding, two callers of    *)
(* the lifecycles, and a list of three reports.                               *)
EXTENDS Records, TLC

CONSTANTS
  review, worker, retry, webhook, b, c, d, e,   \* AuditChain
  t1, t2, i1, i2, k,                            \* Collections
  own, foreign                                  \* Dispositions

\* A report approval, which does not lock, appends its own event and that of
\* the queued email; a delivery that is handled twice appends one event twice.
Appended == review :> <<b, c>> @@ worker :> <<d>> @@ retry :> <<d>> @@ webhook :> <<e>>

Seeded ==
  {[kind |-> x, id |-> i1, tenant |-> t1, parent |-> i1] : x \in {"projects", "ai-review-runs"}}

Post(kind, id, tenant, parent, key) ==
  [kind |-> kind, id |-> id, tenant |-> tenant, parent |-> parent, names |-> tenant, key |-> key]

\* Two tenants ask for one project id, and one for a child of it; a finding of
\* the seeded run, with a key; a report that names another tenant than its own.
Asked ==
  {Post("projects", i2, t1, i2, None), Post("projects", i2, t2, i2, k),
   Post("rfis", i1, t1, i2, None), Post("ai-findings", i1, t1, i1, k),
   [Post("field-reports", i1, t2, i2, None) EXCEPT !.names = t1]}

\* Related to the tenant's issue, to that of another tenant, or to none.
Decisions ==
  {[is |-> "accepted", issue |-> None], [is |-> "needs_more_information", issue |-> own],
   [is |-> "converted_to_issue", issue |-> own], [is |-> "converted_to_issue", issue |-> foreign],
   [is |-> "converted_to_issue", issue |-> None]}

Symmetric == {p @@ q : p \in Permutations(Procs), q \in Permutations(Posts)}
=============================================================================
