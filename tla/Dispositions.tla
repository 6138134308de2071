---------------------------- MODULE Dispositions ----------------------------
(***************************************************************************)
(* The disposition of an AI finding: POST ai-findings/:id/disposition in   *)
(* apps/api/src/handlers.js, over setHumanDisposition of packages/         *)
(* ai-review.  Unlike the reports this handler opens no transaction on any *)
(* repository: it reads the finding, checks the issue it is to be related  *)
(* to, writes the disposition and then appends the audit event, whose      *)
(* beforeStateRef is what it read at first.                                *)
(***************************************************************************)
EXTENDS Naturals, SequencesExt

CONSTANTS
  Findings,
  Issues,        \* the issues of every tenant
  Born,          \* the dispositions findings are created with
  Nexts,         \* the bodies the clients send
  None,
  MaxAsks,       \* bound: requests
  MaxMishaps     \* bound: failing statements and restarts

VARIABLES
  finding,       \* the disposition of each finding and the issue it relates to
  tenantIssues,  \* the issues of the finding's tenant
  marks,         \* the audit events of each finding, in their order
  asks,          \* the requests that were sent, by their number
  mishaps,
  mixed          \* history: findings whose requests overlapped or were broken off

vars == <<finding, tenantIssues, marks, asks, mishaps, mixed>>

-----------------------------------------------------------------------------
Dispositions == {"pending", "accepted", "rejected_false_positive", "needs_more_information", "converted_to_issue"}

Standing == [is : Dispositions, issue : Issues \cup {None}]

\* read: the disposition the request found.
Ask == [of : Findings, next : Standing, read : Dispositions, phase : {"set", "audit", "done", "refused", "lost"}]

DispositionAssumption ==
  /\ {MaxAsks, MaxMishaps} \subseteq Nat
  /\ None \notin Issues
  /\ Born \subseteq Dispositions
  /\ Nexts \subseteq Standing

InFlight(n) == asks[n].phase \in {"set", "audit"}

Open(f) == {n \in DOMAIN asks : asks[n].of = f /\ InFlight(n)}

AcceptedBug(next) == next.is = "converted_to_issue" => next.issue \in tenantIssues \cup {None}

\* "Related issue must exist in-tenant", and setHumanDisposition's
\* "Converted findings require a related issue id".
Accepted(next) ==
  /\ next.issue \in tenantIssues \cup {None}
  /\ next.is = "converted_to_issue" => next.issue # None

-----------------------------------------------------------------------------
\* createFinding takes humanDisposition as it comes, with no issue.
Init ==
  /\ finding \in [Findings -> [is : Born, issue : {None}]]
  /\ tenantIssues \in SUBSET Issues
  /\ marks = [f \in Findings |-> <<>>]
  /\ asks = <<>>
  /\ mishaps = 0
  /\ mixed = {}

\* The handler reads the finding, its review run and the issues.
Read(f, next) ==
  /\ Len(asks) < MaxAsks
  /\ asks' = Append(asks, [of |-> f, next |-> next, read |-> finding[f].is,
                           phase |-> IF Accepted(next) THEN "set" ELSE "refused"])
  /\ mixed' = IF Open(f) # {} /\ Accepted(next) THEN mixed \cup {f} ELSE mixed
  /\ UNCHANGED <<finding, tenantIssues, marks, mishaps>>

\* Both fields are replaced: a request that names no issue clears it.  The
\* repositories read the finding again for the fields that never change.
Dispose(n) == finding' = [finding EXCEPT ![asks[n].of] = asks[n].next]

SetAiFindingDisposition(n) ==
  /\ asks[n].phase = "set"
  /\ Dispose(n)
  /\ asks' = [asks EXCEPT ![n].phase = "audit"]
  /\ UNCHANGED <<tenantIssues, marks, mishaps, mixed>>

\* The event tells of the disposition that the request read and of its own.
Mark(n) == marks' = [marks EXCEPT ![asks[n].of] = Append(@, [before |-> asks[n].read, after |-> asks[n].next.is])]

AppendAuditEvent(n) ==
  /\ asks[n].phase = "audit"
  /\ Mark(n)
  /\ asks' = [asks EXCEPT ![n].phase = "done"]
  /\ UNCHANGED <<finding, tenantIssues, mishaps, mixed>>

\* A statement fails, without effect or with its answer lost: 400.  What
\* the request wrote before stays.
Fault(n) ==
  /\ mishaps < MaxMishaps /\ mishaps' = mishaps + 1
  /\ \/ asks[n].phase = "set" /\ UNCHANGED <<finding, marks>>
     \/ asks[n].phase = "set" /\ Dispose(n) /\ UNCHANGED marks
     \/ asks[n].phase = "audit" /\ UNCHANGED <<finding, marks>>
     \/ asks[n].phase = "audit" /\ Mark(n) /\ UNCHANGED finding
  /\ asks' = [asks EXCEPT ![n].phase = "lost"]
  /\ mixed' = mixed \cup {asks[n].of}
  /\ UNCHANGED tenantIssues

\* The API ends; the next one knows nothing of the requests.
Restart ==
  /\ mishaps < MaxMishaps /\ mishaps' = mishaps + 1
  /\ mixed' = mixed \cup {f \in Findings : Open(f) # {}}
  /\ asks' = [n \in DOMAIN asks |-> IF InFlight(n) THEN [asks[n] EXCEPT !.phase = "lost"] ELSE asks[n]]
  /\ UNCHANGED <<finding, tenantIssues, marks>>

Next ==
  \/ \E f \in Findings, next \in Nexts : Read(f, next)
  \/ \E n \in DOMAIN asks : SetAiFindingDisposition(n) \/ AppendAuditEvent(n) \/ Fault(n)
  \/ Restart

Spec == Init /\ [][Next]_vars

-----------------------------------------------------------------------------
\* Every variable has its type.
TypeOK ==
  /\ finding \in [Findings -> Standing]
  /\ tenantIssues \subseteq Issues
  /\ marks \in [Findings -> Seq([before : Dispositions, after : Dispositions])]
  /\ asks \in Seq(Ask)
  /\ mishaps \in Nat
  /\ mixed \subseteq Findings

(***************************************************************************)
(* A finding is related to an issue of its own tenant or to none, and what *)
(* it shows is what one request asked for, or how it was created: never    *)
(* the disposition of one request with the issue of another.               *)
(***************************************************************************)
DispositionIsOfOneRequest ==
  \A f \in Findings :
    \/ marks[f] = <<>> /\ finding[f].issue = None
    \/ \E n \in DOMAIN asks :
         /\ asks[n].of = f
         /\ asks[n].next = finding[f]
         /\ finding[f].issue \in tenantIssues \cup {None}
         /\ finding[f].is = "converted_to_issue" => finding[f].issue # None

(***************************************************************************)
(* The audit trail of a finding is a path that ends at its disposition:    *)
(* but for the event a request still owes, and only while no two requests  *)
(* overlap and none is broken off, since update and event are not one      *)
(* transaction (handlers.js, POST disposition).                            *)
(***************************************************************************)
TrailOfFinding ==
  \A f \in Findings \ mixed :
    LET trail == marks[f]
    IN /\ \A i \in 2 .. Len(trail) : trail[i].before = trail[i - 1].after
       /\ trail # <<>> => \/ Last(trail).after = finding[f].is
                          \/ \E n \in Open(f) : asks[n].phase = "audit" /\ asks[n].read = Last(trail).after
=============================================================================
