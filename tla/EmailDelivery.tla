---------------------------- MODULE EmailDelivery ----------------------------
(***************************************************************************)
(* Transactional email: packages/email-delivery, the worker's handler for  *)
(* "email.delivery.requested" (apps/worker/src/worker.js), the provider's  *)
(* webhook (apps/api/src/email-webhook.js) and their PostgreSQL repository.*)
(*                                                                         *)
(* The handler is at-least-once work of the outbox (module Outbox): it may *)
(* run again after a crash, a fault or a failure, and, when claims go      *)
(* stale under a slow handler, in two workers at once.  Each of            *)
(* its repository and provider calls is a step.  It writes the delivery    *)
(* back from the copy it read, so webhooks and other runs may be lost      *)
(* between the read and the write; where exactly is what this module asks. *)
(***************************************************************************)
EXTENDS Integers, FiniteSets

CONSTANTS
  Deliveries,   \* email_deliveries, each with its idempotency key and job
  Recipients,   \* normalized addresses of one tenant
  To,           \* the recipient of a delivery
  EventTypes,   \* the provider events of a run, without their "email." prefix
  MaxAttempts,  \* XYGO_WORKER_MAX_ATTEMPTS
  MaxRuns,      \* bound: handler runs of one delivery
  MaxFaults,    \* bound: failing repository calls, crashes, and claims that
                \* go stale while their handler runs, together
  MaxTime       \* bound: the clock

WebhookTypes == {"sent", "delivered", "delivery_delayed", "failed", "bounced",
                 "complained", "suppressed", "unsubscribed"}

ASSUME EmailAssumption ==
  /\ To \in [Deliveries -> Recipients]
  /\ EventTypes \subseteq WebhookTypes
  /\ {MaxAttempts, MaxTime} \subseteq Nat \ {0}
  /\ {MaxRuns, MaxFaults} \subseteq Nat

VARIABLES
  delivery,     \* the rows of email_deliveries
  job,          \* the outbox job of a delivery, as module JobQueue sees it
  claims,       \* claims of the job so far: the last one owns it
  runs,         \* the handler runs in flight
  suppression,  \* email_suppressions, per recipient
  messages,     \* external: the deliveries whose message the provider took
  hooks,        \* external: the events the provider has to report
  recorded,     \* email_webhook_events: the events acknowledged
  now,          \* the clock; worker and provider share it
  faults,
  late,         \* history: deliveries queued with their recipient suppressed
  accepted,     \* history: deliveries whose acceptance was recorded and confirmed
  resent        \* history: of these, the ones sent to the provider again

vars == <<delivery, job, claims, runs, suppression, messages, hooks, recorded,
          now, faults, late, accepted, resent>>

-----------------------------------------------------------------------------
DeliveryStatus == {"absent", "queued", "sending", "accepted", "delivered", "delayed",
                   "failed", "bounced", "complained", "suppressed"}

TerminalStatuses == {"delivered", "bounced", "complained", "suppressed"}

\* identified: provider_message_id is set.  at: provider_status_at, 0 if null.
Delivery == [status : DeliveryStatus, identified : BOOLEAN, at : Nat]

Phase == {"read", "clear", "suppressing", "sending", "accepted", "failing", "refused", "done"}

Run == [delivery : Deliveries, claim : Nat, copy : Delivery, phase : Phase]

Hook == [delivery : Deliveries, type : WebhookTypes, at : Nat]

\* WEBHOOK_STATUS
Reported(type) ==
  CASE type = "sent"             -> "accepted"
    [] type = "delivery_delayed" -> "delayed"
    [] type = "unsubscribed"     -> "suppressed"
    [] OTHER                     -> type

\* SUPPRESSION_REASONS: the events that suppress the recipient.
Suppressing == {"bounced", "complained", "suppressed", "unsubscribed"}

NoSuppression == [reason |-> "none", at |-> 0]

Merge_LastWinsBug(existing, incoming) == incoming

\* mergeEmailSuppression: an event that is older than the record is ignored.
Merge(existing, incoming) == IF incoming.at < existing.at THEN existing ELSE incoming

\* The statuses at which the handler returns without calling the provider.
Settles(copy) ==
  copy.status \in {"accepted", "delivered", "bounced", "complained", "suppressed"}

Marked_UndatedBug(copy, status, at) ==
  IF copy.status \in TerminalStatuses THEN copy
  ELSE [status |-> status, identified |-> copy.identified \/ status = "accepted", at |-> copy.at]

\* markEmailDeliverySending, -Accepted, -Failed and -Suppressed
Marked(copy, status, at) ==
  IF copy.status \in TerminalStatuses THEN copy
  ELSE [status |-> status, identified |-> copy.identified \/ status = "accepted", at |-> at]

MarkedSending(copy) == Marked(copy, "sending", copy.at)
MarkedFailed(copy)  == Marked(copy, "failed", copy.at)

Applied_AnyOrderBug(row, h) == [row EXCEPT !.status = Reported(h.type), !.at = h.at]

\* applyEmailWebhookStatus
Applied(row, h) ==
  IF h.at < row.at THEN row
  ELSE [row EXCEPT !.status = Reported(h.type), !.at = h.at]

\* updateEmailDelivery: the whole row is overwritten.
Write(d, row) == delivery' = [delivery EXCEPT ![d] = row]

Move(r, phase) == (runs \ {r}) \cup {[r EXCEPT !.phase = phase]}

Fault == faults < MaxFaults /\ faults' = faults + 1

\* The handler has thrown.  The claim is released if it is still the run's,
\* and the job is dead when its attempts are used up or retrying is no use.
Throws(r, retryable) ==
  /\ runs' = runs \ {r}
  /\ job' = [job EXCEPT ![r.delivery] =
       IF r.claim # claims[r.delivery] \/ (retryable /\ r.claim < MaxAttempts)
       THEN @ ELSE IF @ = "open" THEN "dead" ELSE @]

-----------------------------------------------------------------------------
Init ==
  /\ delivery = [d \in Deliveries |-> [status |-> "absent", identified |-> FALSE, at |-> 0]]
  /\ job = [d \in Deliveries |-> "absent"]
  /\ claims = [d \in Deliveries |-> 0]
  /\ runs = {}
  /\ suppression = [p \in Recipients |-> NoSuppression]
  /\ messages = {} /\ hooks = {} /\ recorded = {}
  /\ now = 1 /\ faults = 0
  /\ late = {} /\ accepted = {} /\ resent = {}

\* queueEmailDelivery: record and job in one transaction, once per key.
Queue(d) ==
  /\ delivery[d].status = "absent"
  /\ Write(d, [delivery[d] EXCEPT !.status = "queued"])
  /\ job' = [job EXCEPT ![d] = "open"]
  /\ late' = IF suppression[To[d]] = NoSuppression THEN late ELSE late \cup {d}
  /\ UNCHANGED <<claims, runs, suppression, messages, hooks, recorded, now, faults,
                 accepted, resent>>

\* A worker claims the job and its handler reads the delivery.  The job may be
\* claimed while an earlier handler still runs, if that one's claim is stale.
Begin(d) ==
  /\ job[d] = "open"
  /\ claims[d] < MaxRuns
  /\ IF \E r \in runs : r.delivery = d THEN Fault ELSE UNCHANGED faults
  /\ claims' = [claims EXCEPT ![d] = @ + 1]
  /\ runs' = runs \cup {[delivery |-> d, claim |-> claims[d] + 1, copy |-> delivery[d],
                         phase |-> IF Settles(delivery[d]) THEN "done" ELSE "read"]}
  /\ UNCHANGED <<delivery, job, suppression, messages, hooks, recorded, now,
                 late, accepted, resent>>

CheckSuppression_SkippedBug(r) ==
  /\ r.phase = "read"
  /\ runs' = Move(r, "clear")
  /\ UNCHANGED <<delivery, job, claims, suppression, messages, hooks, recorded, now, faults,
                 late, accepted, resent>>

\* getEmailSuppression: the registry is read before the provider is called.
CheckSuppression(r) ==
  /\ r.phase = "read"
  /\ runs' = Move(r, IF suppression[To[r.delivery]] = NoSuppression THEN "clear" ELSE "suppressing")
  /\ UNCHANGED <<delivery, job, claims, suppression, messages, hooks, recorded, now, faults,
                 late, accepted, resent>>

FinalizeSuppressed(r) ==
  /\ r.phase = "suppressing"
  /\ Write(r.delivery, Marked(r.copy, "suppressed", now))
  /\ runs' = Move(r, "done")
  /\ UNCHANGED <<job, claims, suppression, messages, hooks, recorded, now, faults,
                 late, accepted, resent>>

\* saveEmailDelivery(markEmailDeliverySending(...)): a blind write of the copy.
SaveSending(r) ==
  LET sending == MarkedSending(r.copy) IN
  /\ r.phase = "clear"
  /\ Write(r.delivery, sending)
  /\ runs' = (runs \ {r}) \cup {[r EXCEPT !.phase = "sending", !.copy = sending]}
  /\ UNCHANGED <<job, claims, suppression, messages, hooks, recorded, now, faults,
                 late, accepted, resent>>

\* A repository call outside the handler's try block fails, before or after
\* its effect.
StoreFault(r) ==
  /\ r.phase \in {"read", "clear", "suppressing"}
  /\ Fault
  /\ \/ UNCHANGED delivery
     \/ r.phase = "clear" /\ Write(r.delivery, MarkedSending(r.copy))
     \/ r.phase = "suppressing" /\ Write(r.delivery, Marked(r.copy, "suppressed", now))
  /\ Throws(r, TRUE)
  /\ UNCHANGED <<claims, suppression, messages, hooks, recorded, now, late, accepted, resent>>

Send_ErrorIsSuccessBug(r) ==
  /\ r.phase = "sending"
  /\ \/ messages' = messages \cup {r.delivery}
        /\ \E phase \in {"accepted", "failing"} : runs' = Move(r, phase)
     \/ messages' = messages /\ runs' = Move(r, "accepted")
  /\ resent' = IF r.delivery \in accepted THEN resent \cup {r.delivery} ELSE resent
  /\ UNCHANGED <<delivery, job, claims, suppression, hooks, recorded, now, faults, late, accepted>>

\* provider.send with the delivery's idempotency key: a repeated send finds the
\* first message.  The provider may reject the message, for now or for good.  A
\* message that it took may look rejected either way: the request times out, or
\* the body of a 200 is lost, and what has no id is not retried.
Send(r) ==
  /\ r.phase = "sending"
  /\ \/ messages' = messages \cup {r.delivery}
        /\ \E phase \in {"accepted", "failing", "refused"} : runs' = Move(r, phase)
     \/ messages' = messages
        /\ \E phase \in {"failing", "refused"} : runs' = Move(r, phase)
  /\ resent' = IF r.delivery \in accepted THEN resent \cup {r.delivery} ELSE resent
  /\ UNCHANGED <<delivery, job, claims, suppression, hooks, recorded, now, faults, late, accepted>>

\* finalizeEmailDelivery(markEmailDeliveryAccepted(...)), dated by the worker.
FinalizeAccepted(r) ==
  /\ r.phase = "accepted"
  /\ Write(r.delivery, Marked(r.copy, "accepted", now))
  /\ accepted' = accepted \cup {r.delivery}
  /\ runs' = Move(r, "done")
  /\ UNCHANGED <<job, claims, suppression, messages, hooks, recorded, now, faults, late, resent>>

\* The same, with the connection failing before or after the commit: the catch
\* block goes on with the copy from before the acceptance.
FinalizeAcceptedFault(r) ==
  /\ r.phase = "accepted"
  /\ Fault
  /\ UNCHANGED delivery \/ Write(r.delivery, Marked(r.copy, "accepted", now))
  /\ runs' = Move(r, "failing")
  /\ UNCHANGED <<job, claims, suppression, messages, hooks, recorded, now, late, accepted,
                 resent>>

FinalizeFailed(r) ==
  /\ r.phase \in {"failing", "refused"}
  /\ Write(r.delivery, MarkedFailed(r.copy))
  /\ Throws(r, r.phase = "failing")
  /\ UNCHANGED <<claims, suppression, messages, hooks, recorded, now, faults, late, accepted, resent>>

\* The catch block fails itself: its error, a retryable one, replaces the first.
FinalizeFailedFault(r) ==
  /\ r.phase \in {"failing", "refused"}
  /\ Fault
  /\ UNCHANGED delivery \/ Write(r.delivery, MarkedFailed(r.copy))
  /\ Throws(r, TRUE)
  /\ UNCHANGED <<claims, suppression, messages, hooks, recorded, now, late, accepted, resent>>

\* The handler has returned; complete() succeeds if the claim is still its own.
Done(r) ==
  /\ r.phase = "done"
  /\ runs' = runs \ {r}
  /\ job' = [job EXCEPT ![r.delivery] =
       IF @ = "open" /\ r.claim = claims[r.delivery] THEN "processed" ELSE @]
  /\ UNCHANGED <<delivery, claims, suppression, messages, hooks, recorded, now, faults,
                 late, accepted, resent>>

\* The worker dies, or its last call to the outbox fails: the claim goes stale.
Crash(r) ==
  /\ Fault
  /\ runs' = runs \ {r}
  /\ UNCHANGED <<delivery, job, claims, suppression, messages, hooks, recorded, now,
                 late, accepted, resent>>

\* What the provider may report next of a message it has taken.  Its events
\* have dates of their own.
Plausible(d, type) ==
  LET past == {h.type : h \in {x \in hooks : x.delivery = d}} IN
  /\ \A h \in hooks : h.delivery = d => h.at < now /\ h.type # type
  /\ IF type \in {"complained", "unsubscribed"}
     THEN "delivered" \in past
     ELSE past \cap {"delivered", "bounced", "failed", "suppressed"} = {}

\* External: something happens to a message and is to be reported.
Report(d, type) ==
  /\ d \in messages
  /\ Plausible(d, type)
  /\ hooks' = hooks \cup {[delivery |-> d, type |-> type, at |-> now]}
  /\ UNCHANGED <<delivery, job, claims, runs, suppression, messages, recorded, now, faults,
                 late, accepted, resent>>

\* handleEmailWebhook and applyEmailWebhook, one transaction under the audit
\* lock and the row lock.  An event of an unknown message is answered with 503
\* and comes again; an event that is recorded already is answered and ignored.
\* Events arrive in any order.
Receive(h) ==
  LET d == h.delivery IN
  /\ h \notin recorded
  /\ delivery[d].identified
  /\ Write(d, Applied(delivery[d], h))
  /\ suppression' = IF h.type \in Suppressing
       THEN [suppression EXCEPT ![To[d]] = Merge(@, [reason |-> h.type, at |-> h.at])]
       ELSE suppression
  /\ recorded' = recorded \cup {h}
  /\ UNCHANGED <<job, claims, runs, messages, hooks, now, faults, late, accepted, resent>>

Tick ==
  /\ now < MaxTime
  /\ now' = now + 1
  /\ UNCHANGED <<delivery, job, claims, runs, suppression, messages, hooks, recorded, faults,
                 late, accepted, resent>>

-----------------------------------------------------------------------------
\* What a run does without a fault.
Step(r) ==
  \/ CheckSuppression(r)
  \/ FinalizeSuppressed(r)
  \/ SaveSending(r)
  \/ Send(r)
  \/ FinalizeAccepted(r)
  \/ FinalizeFailed(r)
  \/ Done(r)

Next ==
  \/ \E d \in Deliveries : Queue(d) \/ Begin(d)
  \/ \E d \in Deliveries, type \in EventTypes : Report(d, type)
  \/ \E r \in runs :
       \/ Step(r)
       \/ StoreFault(r)
       \/ FinalizeAcceptedFault(r)
       \/ FinalizeFailedFault(r)
       \/ Crash(r)
  \/ \E h \in hooks : Receive(h)
  \/ Tick

Spec == Init /\ [][Next]_vars

-----------------------------------------------------------------------------
\* Every variable has its type; a delivery with a provider id has a date that
\* webhooks are compared with.
TypeOK ==
  /\ delivery \in [Deliveries -> Delivery]
  /\ \A d \in Deliveries : delivery[d].identified => delivery[d].at > 0
  /\ job \in [Deliveries -> {"absent", "open", "processed", "dead"}]
  /\ claims \in [Deliveries -> Nat]
  /\ runs \subseteq Run
  /\ suppression \in [Recipients -> [reason : Suppressing \cup {"none"}, at : Nat]]
  /\ {late, accepted, resent, messages} \subseteq SUBSET Deliveries
  /\ hooks \subseteq Hook
  /\ recorded \subseteq hooks
  /\ {now, faults} \subseteq Nat

\* A delivery that is queued when its recipient is suppressed already is never
\* handed to the provider, whatever crashes, retries and overlaps follow.
SuppressedNotMailed == late \cap messages = {}

\* Whatever order the events come in, a recipient is suppressed with the
\* reason and the date of the newest suppressing event that was acknowledged.
SuppressionIsNewest ==
  \A p \in Recipients :
    LET events == {h \in recorded : To[h.delivery] = p /\ h.type \in Suppressing} IN
    IF events = {} THEN suppression[p] = NoSuppression
    ELSE \E h \in events :
           /\ suppression[p] = [reason |-> h.type, at |-> h.at]
           /\ \A g \in events : g.at <= h.at

\* No mail is lost in silence: a job is processed only if the provider has
\* taken the message or the recipient is suppressed.
ProcessedHasOutcome ==
  \A d \in Deliveries :
    job[d] = "processed" => d \in messages \/ suppression[To[d]] # NoSuppression

\* A status that speaks of the provider is never made up: the provider has the
\* message, and its id is recorded so that webhooks find the delivery.
StatusIsReal ==
  \A d \in Deliveries :
    delivery[d].status \in {"accepted", "delivered", "delayed", "bounced", "complained"} =>
      delivery[d].identified /\ d \in messages

\* What the status of an email tells of the provider, and of a job, is so.
OutcomeIsReal == StatusIsReal /\ ProcessedHasOutcome

\* A verdict on a delivery gives way only to a run that read the delivery before
\* the verdict came, or to a report of the provider that is not older than it.
VerdictLostOnlyToNewsOrStaleRun ==
  [][\A d \in Deliveries :
       delivery[d].status \in TerminalStatuses /\ delivery'[d].status \notin TerminalStatuses =>
         \/ \E r \in runs : /\ r.delivery = d
                            /\ r.copy.status \notin TerminalStatuses
                            /\ r \notin runs'
         \/ \E h \in recorded' \ recorded : h.delivery = d /\ h.at >= delivery[d].at]_vars

\* email-monitoring-runbook.md: "A worker replay of an already accepted record
\* does not call the provider again."
AcceptedNotResent == resent = {}

=============================================================================
