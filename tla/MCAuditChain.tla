---------------------------- MODULE MCAuditChain ----------------------------
(* An instance of AuditChain for TLC. *)
EXTENDS AuditChain

CONSTANTS api, report, worker, retry, webhook, a, b, c, d, e

AllWriters == {api, report, worker, retry, webhook}

\* A report approval appends its own event and that of the queued email; a
\* delivery that is handled twice appends one event twice.
AllAppends ==
  [w \in AllWriters |-> CASE w = api -> <<a>>
                          [] w = report -> <<b, c>>
                          [] w \in {worker, retry} -> <<d>>
                          [] w = webhook -> <<e>>]

Lockers == {worker, retry, webhook}
=============================================================================
