---------------------------- MODULE DeliveryProofs ----------------------------
(***************************************************************************)
(* What module EmailDelivery promises, proved for any deliveries,          *)
(* recipients, events and bounds.  The inductive invariant follows what is *)
(* known of a delivery outside the database (the provider has its message, *)
(* or its recipient is suppressed) into the rows, into the copies of the   *)
(* handlers in flight, and into the phases they are in.                    *)
(***************************************************************************)
EXTENDS Delivery, TLAPS

Known(d) == d \in messages \/ suppression[To[d]] # NoSuppression

Real == {"accepted", "delivered", "delayed", "bounced", "complained"}

\* What a row, or a copy of it, says is so.
RowReal(d, row) ==
  /\ row.status \in Real => row.identified
  /\ row.identified => d \in messages /\ row.at > 0
  /\ row.status = "suppressed" => Known(d)

DeliveryReal(d) ==
  /\ RowReal(d, delivery[d])
  /\ delivery[d].status = "absent" => job[d] = "absent" /\ d \notin messages
  /\ job[d] = "processed" => Known(d)
  /\ d \in late => suppression[To[d]] # NoSuppression /\ d \notin messages

RunReal(r) ==
  /\ RowReal(r.delivery, r.copy)
  /\ r.copy.status # "absent"
  /\ delivery[r.delivery].status # "absent"
  /\ r.phase = "accepted" => r.delivery \in messages
  /\ r.phase = "suppressing" => suppression[To[r.delivery]] # NoSuppression
  /\ r.phase = "done" => Known(r.delivery)
  /\ r.delivery \in late => r.phase \in {"read", "suppressing", "done"}

Typed ==
  /\ delivery \in [Deliveries -> Delivery]
  /\ job \in [Deliveries -> {"absent", "open", "processed", "dead"}]
  /\ claims \in [Deliveries -> Nat]
  /\ runs \subseteq Run
  /\ suppression \in [Recipients -> [reason : Suppressing \cup {"none"}, at : Nat]]
  /\ late \subseteq Deliveries
  /\ accepted \subseteq Deliveries
  /\ resent \subseteq Deliveries
  /\ messages \subseteq Deliveries
  /\ hooks \subseteq Hook
  /\ recorded \subseteq hooks
  /\ now \in Nat \ {0}
  /\ faults \in Nat

EmailInv ==
  /\ Typed
  /\ \A d \in Deliveries : DeliveryReal(d)
  /\ \A r \in runs : RunReal(r)

-----------------------------------------------------------------------------
(* The operators: they keep types, and say nothing that was not so. *)

LEMMA MarkedIsRow ==
  ASSUME NEW copy \in Delivery, NEW status \in DeliveryStatus, NEW at \in Nat
  PROVE  Marked(copy, status, at) \in Delivery
  BY DEF Marked, Delivery

LEMMA AppliedIsRow ==
  ASSUME NEW row \in Delivery, NEW h \in Hook
  PROVE  Applied(row, h) \in Delivery
  <1>1. Reported(h.type) \in DeliveryStatus
    BY DEF Hook, Reported, WebhookTypes, DeliveryStatus
  <1> QED
    BY <1>1 DEF Applied, Delivery, Hook

LEMMA MergeIsRecord ==
  ASSUME NEW old \in [reason : Suppressing \cup {"none"}, at : Nat],
         NEW new \in [reason : Suppressing \cup {"none"}, at : Nat]
  PROVE  Merge(old, new) \in [reason : Suppressing \cup {"none"}, at : Nat]
  BY DEF Merge

\* A row or a copy that is marked is queued already, and stays so.
LEMMA MarkedStaysQueued ==
  ASSUME NEW copy \in Delivery, copy.status # "absent",
         NEW status \in DeliveryStatus \ {"absent"}, NEW at \in Nat
  PROVE  Marked(copy, status, at).status # "absent"
  BY DEF Marked, Delivery

\* What is marked without a word of the provider is as real as the copy was.
LEMMA MarkedIsReal ==
  ASSUME NEW d \in Deliveries, NEW copy \in Delivery, RowReal(d, copy),
         NEW status \in {"sending", "failed", "suppressed"},
         status = "suppressed" => Known(d)
  PROVE  /\ \A at \in Nat : at >= copy.at => RowReal(d, Marked(copy, status, at))
         /\ \A at \in Nat \ {0} : RowReal(d, Marked(copy, status, at))
  BY DEF RowReal, Marked, Delivery, Real, TerminalStatuses

LEMMA MarkedAccepted ==
  ASSUME NEW d \in Deliveries, NEW copy \in Delivery, RowReal(d, copy),
         NEW at \in Nat \ {0}, d \in messages
  PROVE  RowReal(d, Marked(copy, "accepted", at))
  <1>1. CASE copy.status \in TerminalStatuses
    BY <1>1 DEF Marked
  <1>2. CASE copy.status \notin TerminalStatuses
    <2> DEFINE row == Marked(copy, "accepted", at)
    <2>1. row = [status |-> "accepted", identified |-> TRUE, at |-> at]
      BY <1>2 DEF Marked
    <2> QED
      BY <2>1 DEF RowReal
  <1> QED
    BY <1>1, <1>2

-----------------------------------------------------------------------------
(* Types. *)

LEMMA MoveIsRuns ==
  ASSUME runs \subseteq Run, NEW r \in runs, NEW phase \in Phase
  PROVE  Move(r, phase) \subseteq Run
  BY DEF Move, Run

LEMMA WriteIsRows ==
  ASSUME delivery \in [Deliveries -> Delivery], NEW d \in Deliveries, NEW row \in Delivery,
         Write(d, row)
  PROVE  delivery' \in [Deliveries -> Delivery]
  BY DEF Write

LEMMA ThrowsTyped ==
  ASSUME Typed, NEW r \in runs, NEW retryable \in BOOLEAN, Throws(r, retryable)
  PROVE  /\ runs' \subseteq Run
         /\ job' \in [Deliveries -> {"absent", "open", "processed", "dead"}]
  BY DEF Throws, Typed, Run

\* Every step keeps the types.
LEMMA TypedStep ==
  ASSUME Typed, [Next]_vars
  PROVE  Typed'
  <1> USE EmailAssumption
  <1> USE DEF Typed
  <1>1. CASE UNCHANGED vars
    BY <1>1 DEF vars
  <1>2. ASSUME NEW d \in Deliveries, Queue(d)
        PROVE  Typed'
    <2>1. [delivery[d] EXCEPT !.status = "queued"] \in Delivery
      BY DEF Delivery, DeliveryStatus
    <2>2. delivery' \in [Deliveries -> Delivery]
      BY <1>2, <2>1, WriteIsRows DEF Queue
    <2> QED
      BY <1>2, <2>2 DEF Queue
  <1>3. ASSUME NEW d \in Deliveries, Begin(d)
        PROVE  Typed'
    <2>1. runs' \subseteq Run
      BY <1>3 DEF Begin, Run, Phase
    <2>2. claims' \in [Deliveries -> Nat]
      BY <1>3 DEF Begin
    <2>3. faults' \in Nat
      BY <1>3 DEF Begin, Fault
    <2> QED
      BY <1>3, <2>1, <2>2, <2>3 DEF Begin
  <1>4. ASSUME NEW d \in Deliveries, NEW type \in EventTypes, Report(d, type)
        PROVE  Typed'
    BY <1>4 DEF Report, Hook
  <1>5. ASSUME NEW r \in runs, CheckSuppression(r)
        PROVE  Typed'
    BY <1>5, MoveIsRuns DEF CheckSuppression, Phase
  <1>6. ASSUME NEW r \in runs, FinalizeSuppressed(r)
        PROVE  Typed'
    <2>1. r.delivery \in Deliveries /\ r.copy \in Delivery
      BY DEF Run
    <2>2. Marked(r.copy, "suppressed", now) \in Delivery
      BY <2>1, MarkedIsRow DEF DeliveryStatus
    <2>3. delivery' \in [Deliveries -> Delivery]
      BY <1>6, <2>1, <2>2, WriteIsRows DEF FinalizeSuppressed
    <2> QED
      BY <1>6, <2>3, MoveIsRuns DEF FinalizeSuppressed, Phase
  <1>7. ASSUME NEW r \in runs, SaveSending(r)
        PROVE  Typed'
    <2>1. r.delivery \in Deliveries /\ r.copy \in Delivery /\ r.copy.at \in Nat
      BY DEF Run, Delivery
    <2>2. MarkedSending(r.copy) \in Delivery
      BY <2>1, MarkedIsRow DEF MarkedSending, DeliveryStatus
    <2>3. delivery' \in [Deliveries -> Delivery]
      BY <1>7, <2>1, <2>2, WriteIsRows DEF SaveSending
    <2>4. runs' \subseteq Run
      BY <1>7, <2>2 DEF SaveSending, Run, Phase
    <2> QED
      BY <1>7, <2>3, <2>4 DEF SaveSending
  <1>8. ASSUME NEW r \in runs, Send(r)
        PROVE  Typed'
    <2>1. r.delivery \in Deliveries
      BY DEF Run
    <2> QED
      BY <1>8, <2>1, MoveIsRuns DEF Send, Phase
  <1>9. ASSUME NEW r \in runs, FinalizeAccepted(r) \/ FinalizeAcceptedFault(r)
        PROVE  Typed'
    <2>1. r.delivery \in Deliveries /\ r.copy \in Delivery
      BY DEF Run
    <2>2. Marked(r.copy, "accepted", now) \in Delivery
      BY <2>1, MarkedIsRow DEF DeliveryStatus
    <2>3. delivery' \in [Deliveries -> Delivery]
      BY <1>9, <2>1, <2>2, WriteIsRows DEF FinalizeAccepted, FinalizeAcceptedFault
    <2>4. runs' \subseteq Run
      BY <1>9, MoveIsRuns DEF FinalizeAccepted, FinalizeAcceptedFault, Phase
    <2> QED
      BY <1>9, <2>1, <2>3, <2>4 DEF FinalizeAccepted, FinalizeAcceptedFault, Fault
  <1>10. ASSUME NEW r \in runs, FinalizeFailed(r) \/ FinalizeFailedFault(r)
         PROVE  Typed'
    <2>1. r.delivery \in Deliveries /\ r.copy \in Delivery /\ r.copy.at \in Nat
      BY DEF Run, Delivery
    <2>2. MarkedFailed(r.copy) \in Delivery
      BY <2>1, MarkedIsRow DEF MarkedFailed, DeliveryStatus
    <2>3. delivery' \in [Deliveries -> Delivery]
      BY <1>10, <2>1, <2>2, WriteIsRows DEF FinalizeFailed, FinalizeFailedFault
    <2>4. \E retryable \in BOOLEAN : Throws(r, retryable)
      BY <1>10 DEF FinalizeFailed, FinalizeFailedFault
    <2>5. /\ runs' \subseteq Run
          /\ job' \in [Deliveries -> {"absent", "open", "processed", "dead"}]
      BY <2>4, ThrowsTyped
    <2>6. faults' \in Nat
      <3>1. faults' \in {faults, faults + 1}
        BY <1>10, Zenon DEF FinalizeFailed, FinalizeFailedFault, Fault
      <3> QED
        BY <3>1
    <2>7. UNCHANGED <<claims, suppression, messages, hooks, recorded, now, late, accepted, resent>>
      BY <1>10 DEF FinalizeFailed, FinalizeFailedFault
    <2> QED
      BY <2>3, <2>5, <2>6, <2>7
  <1>11. ASSUME NEW r \in runs, Done(r) \/ Crash(r)
         PROVE  Typed'
    <2>1. job' \in [Deliveries -> {"absent", "open", "processed", "dead"}]
      BY <1>11 DEF Done, Crash
    <2> QED
      BY <1>11, <2>1 DEF Done, Crash, Fault
  <1>12. ASSUME NEW r \in runs, StoreFault(r)
         PROVE  Typed'
    <2>1. r.delivery \in Deliveries /\ r.copy \in Delivery /\ r.copy.at \in Nat
      BY DEF Run, Delivery
    <2>2. Marked(r.copy, "suppressed", now) \in Delivery /\ MarkedSending(r.copy) \in Delivery
      BY <2>1, MarkedIsRow DEF DeliveryStatus, MarkedSending
    <2>3. delivery' \in [Deliveries -> Delivery]
      BY <1>12, <2>1, <2>2, WriteIsRows DEF StoreFault
    <2>4. /\ runs' \subseteq Run
          /\ job' \in [Deliveries -> {"absent", "open", "processed", "dead"}]
      BY <1>12, ThrowsTyped DEF StoreFault
    <2> QED
      BY <1>12, <2>3, <2>4 DEF StoreFault, Fault
  <1>13. ASSUME NEW h \in hooks, Receive(h)
         PROVE  Typed'
    <2>1. h \in Hook /\ h.delivery \in Deliveries /\ delivery[h.delivery] \in Delivery
      BY DEF Hook
    <2>2. Applied(delivery[h.delivery], h) \in Delivery
      BY <2>1, AppliedIsRow
    <2>3. delivery' \in [Deliveries -> Delivery]
      BY <1>13, <2>1, <2>2, WriteIsRows DEF Receive
    <2>4. suppression' \in [Recipients -> [reason : Suppressing \cup {"none"}, at : Nat]]
      <3>1. CASE h.type \in Suppressing
        <4>1. [reason |-> h.type, at |-> h.at] \in [reason : Suppressing \cup {"none"}, at : Nat]
          BY <2>1, <3>1 DEF Hook
        <4>2. Merge(suppression[To[h.delivery]], [reason |-> h.type, at |-> h.at])
                \in [reason : Suppressing \cup {"none"}, at : Nat]
          BY <2>1, <4>1, MergeIsRecord
        <4> QED
          BY <1>13, <3>1, <4>2 DEF Receive
      <3>2. CASE h.type \notin Suppressing
        BY <1>13, <3>2 DEF Receive
      <3> QED
        BY <3>1, <3>2
    <2> QED
      BY <1>13, <2>3, <2>4 DEF Receive
  <1>14. CASE Tick
    BY <1>14 DEF Tick
  <1> QED
    BY <1>1, <1>2, <1>3, <1>4, <1>5, <1>6, <1>7, <1>8, <1>9, <1>10, <1>11, <1>12, <1>13, <1>14
       DEF Next, Step

-----------------------------------------------------------------------------
(* What a step leaves as it is. *)

\* No message is taken back, no recipient is released, no row is unqueued.
Onward ==
  /\ messages \subseteq messages'
  /\ \A p \in Recipients : suppression[p] # NoSuppression => suppression'[p] # NoSuppression
  /\ \A d \in Deliveries : delivery[d].status # "absent" => delivery'[d].status # "absent"

LEMMA WriteGoesOn ==
  ASSUME Typed, NEW d \in Deliveries, NEW row, Write(d, row), row.status # "absent"
  PROVE  \A e \in Deliveries : delivery[e].status # "absent" => delivery'[e].status # "absent"
  BY DEF Typed, Write

LEMMA ReceiveSuppresses ==
  ASSUME Typed, NEW h \in hooks, Receive(h)
  PROVE  \A p \in Recipients : suppression[p] # NoSuppression => suppression'[p] # NoSuppression
  <1> USE EmailAssumption DEF Typed
  <1>1. CASE h.type \notin Suppressing
    BY <1>1 DEF Receive
  <1>2. CASE h.type \in Suppressing
    <2> DEFINE new == [reason |-> h.type, at |-> h.at]
    <2>1. new # NoSuppression
      BY <1>2 DEF NoSuppression, Suppressing
    <2>2. \A p \in Recipients : Merge(suppression[p], new) \in {suppression[p], new}
      BY DEF Merge
    <2>3. \A p \in Recipients : suppression'[p] = suppression[p] \/ suppression'[p] \in {suppression[p], new}
      <3> HIDE DEF new
      <3>1. suppression' = [suppression EXCEPT ![To[h.delivery]] = Merge(@, new)]
        BY <1>2 DEF Receive, new
      <3> QED
        BY <2>2, <3>1
    <2> QED
      BY <2>1, <2>3
  <1> QED
    BY <1>1, <1>2

LEMMA StepGoesOn ==
  ASSUME EmailInv, [Next]_vars
  PROVE  Onward
  <1> USE EmailAssumption
  <1>0. Typed /\ runs \subseteq Run
    BY DEF EmailInv, Typed
  <1> USE DEF Onward
  <1>1. CASE UNCHANGED vars
    BY <1>1 DEF vars
  <1>2. ASSUME NEW d \in Deliveries, Queue(d)
        PROVE  Onward
    BY <1>0, <1>2, WriteGoesOn DEF Queue, Write, Typed, Delivery
  <1>3. ASSUME NEW d \in Deliveries, Begin(d) \/ \E type \in EventTypes : Report(d, type)
        PROVE  Onward
    BY <1>3 DEF Begin, Report
  <1>4. ASSUME NEW r \in runs, CheckSuppression(r) \/ Send(r) \/ Done(r) \/ Crash(r)
        PROVE  Onward
    BY <1>4 DEF CheckSuppression, Send, Done, Crash
  <1>5. ASSUME NEW r \in runs, \/ FinalizeSuppressed(r) \/ SaveSending(r) \/ StoreFault(r)
                               \/ FinalizeAccepted(r) \/ FinalizeAcceptedFault(r)
                               \/ FinalizeFailed(r) \/ FinalizeFailedFault(r)
        PROVE  Onward
    <2>1. /\ r.delivery \in Deliveries /\ r.copy \in Delivery /\ r.copy.at \in Nat
          /\ r.copy.status # "absent" /\ now \in Nat
      BY <1>0 DEF Run, Delivery, EmailInv, RunReal, Typed
    <2>2. \A status \in DeliveryStatus \ {"absent"}, at \in {now, r.copy.at} :
            Marked(r.copy, status, at).status # "absent"
      BY <2>1, MarkedStaysQueued
    <2>3. /\ Marked(r.copy, "suppressed", now).status # "absent"
          /\ Marked(r.copy, "accepted", now).status # "absent"
          /\ MarkedSending(r.copy).status # "absent"
          /\ MarkedFailed(r.copy).status # "absent"
      BY <2>2 DEF MarkedSending, MarkedFailed, DeliveryStatus
    <2>4. UNCHANGED <<messages, suppression>>
      BY <1>5 DEF FinalizeSuppressed, SaveSending, StoreFault, FinalizeAccepted,
                  FinalizeAcceptedFault, FinalizeFailed, FinalizeFailedFault
    <2>5. UNCHANGED delivery \/ \E row : Write(r.delivery, row) /\ row.status # "absent"
      BY <1>5, <2>3 DEF FinalizeSuppressed, SaveSending, StoreFault, FinalizeAccepted,
                        FinalizeAcceptedFault, FinalizeFailed, FinalizeFailedFault
    <2> QED
      BY <1>0, <2>1, <2>4, <2>5, WriteGoesOn
  <1>6. ASSUME NEW h \in hooks, Receive(h)
        PROVE  Onward
    <2>1. h \in Hook /\ h.delivery \in Deliveries /\ delivery[h.delivery] \in Delivery
      BY <1>0 DEF Typed, Hook
    <2>2. delivery[h.delivery].status # "absent" => Applied(delivery[h.delivery], h).status # "absent"
      BY <2>1 DEF Applied, Reported, Hook, WebhookTypes, Delivery
    <2>3. \A e \in Deliveries : delivery[e].status # "absent" => delivery'[e].status # "absent"
      BY <1>0, <1>6, <2>1, <2>2 DEF Receive, Write, Typed
    <2> QED
      BY <1>0, <1>6, <2>3, ReceiveSuppresses DEF Receive
  <1>7. CASE Tick
    BY <1>7 DEF Tick
  <1> QED
    BY <1>1, <1>2, <1>3, <1>4, <1>5, <1>6, <1>7 DEF Next, Step

\* A job is as it was, or an open one is dead.
JobGoesOn(d) == job'[d] = job[d] \/ (job[d] = "open" /\ job'[d] = "dead")

LEMMA RunStays ==
  ASSUME EmailInv, Onward, NEW r \in runs, r.delivery \in late' => r.delivery \in late
  PROVE  RunReal(r)'
  <1>1. r.delivery \in Deliveries /\ To[r.delivery] \in Recipients
    BY EmailAssumption DEF EmailInv, Typed, Run
  <1>2. RunReal(r)
    BY DEF EmailInv
  <1> QED
    BY <1>1, <1>2 DEF Onward, RunReal, RowReal, Known

LEMMA DeliveryStays ==
  ASSUME EmailInv, Onward, NEW d \in Deliveries,
         delivery'[d] = delivery[d], JobGoesOn(d),
         d \in messages' => d \in messages, d \in late' => d \in late
  PROVE  DeliveryReal(d)'
  <1>1. To[d] \in Recipients /\ DeliveryReal(d)
    BY EmailAssumption DEF EmailInv
  <1> QED
    BY <1>1 DEF Onward, DeliveryReal, RowReal, Known, JobGoesOn

LEMMA RowWritten ==
  ASSUME EmailInv, Onward, NEW r \in runs, NEW row,
         Write(r.delivery, row), row.status # "absent", RowReal(r.delivery, row),
         \A d \in Deliveries : JobGoesOn(d), UNCHANGED <<messages, late>>
  PROVE  \A d \in Deliveries : DeliveryReal(d)'
  <1>1. ASSUME NEW d \in Deliveries, d # r.delivery
        PROVE  DeliveryReal(d)'
    <2>1. delivery'[d] = delivery[d]
      BY <1>1 DEF Write, EmailInv, Typed
    <2> QED
      BY <2>1, DeliveryStays
  <1>2. ASSUME r.delivery \in Deliveries
        PROVE  DeliveryReal(r.delivery)'
    <2> DEFINE d == r.delivery
    <2>1. delivery'[d] = row
      BY <1>2 DEF Write, EmailInv, Typed
    <2>2. To[d] \in Recipients /\ DeliveryReal(d) /\ delivery[d].status # "absent"
      BY <1>2, EmailAssumption DEF EmailInv, RunReal
    <2> QED
      BY <1>2, <2>1, <2>2 DEF Onward, DeliveryReal, RowReal, Known, JobGoesOn
  <1> QED
    BY <1>1, <1>2

\* The runs but one are the runs there were.
LEMMA RunsReal ==
  ASSUME EmailInv, Onward, UNCHANGED late, NEW new, runs' \subseteq runs \cup {new},
         new \in runs' => RunReal(new)'
  PROVE  \A s \in runs' : RunReal(s)'
  BY RunStays

LEMMA ThrowsGoesOn ==
  ASSUME Typed, NEW r \in runs, NEW retryable \in BOOLEAN, Throws(r, retryable)
  PROVE  runs' \subseteq runs /\ \A d \in Deliveries : JobGoesOn(d)
  BY DEF Throws, Typed, Run, JobGoesOn

-----------------------------------------------------------------------------
(* The invariant, action by action. *)

LEMMA QueueReal ==
  ASSUME EmailInv, Onward, NEW d \in Deliveries, Queue(d)
  PROVE  (\A e \in Deliveries : DeliveryReal(e)') /\ \A r \in runs' : RunReal(r)'
  <1>1. ASSUME NEW r \in runs'
        PROVE  RunReal(r)'
    <2>1. r \in runs /\ r.delivery # d
      BY <1>1 DEF Queue, EmailInv, RunReal
    <2> QED
      BY <2>1, RunStays DEF Queue
  <1>2. ASSUME NEW e \in Deliveries, e # d
        PROVE  DeliveryReal(e)'
    BY <1>2, DeliveryStays DEF Queue, Write, EmailInv, Typed, JobGoesOn
  <1>3. DeliveryReal(d)'
    <2>1. /\ delivery'[d].status = "queued" /\ delivery'[d].at = delivery[d].at
          /\ delivery'[d].identified = delivery[d].identified
          /\ job'[d] = "open"
      BY DEF Queue, Write, EmailInv, Typed, Delivery
    <2>2. /\ d \notin messages
          /\ RowReal(d, delivery[d])
          /\ d \in late => suppression[To[d]] # NoSuppression
      BY DEF Queue, EmailInv, DeliveryReal
    <2>3. /\ UNCHANGED <<messages, suppression>>
          /\ d \in late' => suppression[To[d]] # NoSuppression
      BY <2>2 DEF Queue
    <2> QED
      BY <2>1, <2>2, <2>3 DEF DeliveryReal, RowReal, Real
  <1> QED
    BY <1>1, <1>2, <1>3

LEMMA BeginReal ==
  ASSUME EmailInv, Onward, NEW d \in Deliveries, Begin(d)
  PROVE  (\A e \in Deliveries : DeliveryReal(e)') /\ \A r \in runs' : RunReal(r)'
  <1>0. PICK new : new = [delivery |-> d, claim |-> claims[d] + 1, copy |-> delivery[d],
                          phase |-> IF Settles(delivery[d]) THEN "done" ELSE "read"]
    OBVIOUS
  <1>1. RunReal(new)'
    <2>1. DeliveryReal(d) /\ delivery[d].status # "absent"
      BY DEF Begin, EmailInv, DeliveryReal
    <2>2. Settles(delivery[d]) => Known(d)
      BY <2>1 DEF Settles, DeliveryReal, RowReal, Real, Known
    <2>3. UNCHANGED <<delivery, messages, suppression, late>>
      BY DEF Begin
    <2> QED
      BY <1>0, <2>1, <2>2, <2>3 DEF RunReal, DeliveryReal, RowReal, Known
  <1>2. runs' = runs \cup {new} /\ UNCHANGED late
    BY <1>0 DEF Begin
  <1>3. \A r \in runs' : RunReal(r)'
    BY <1>1, <1>2, RunsReal
  <1>4. \A e \in Deliveries : DeliveryReal(e)'
    BY DeliveryStays DEF Begin, JobGoesOn
  <1> QED
    BY <1>3, <1>4

LEMMA CheckReal ==
  ASSUME EmailInv, Onward, NEW r \in runs, CheckSuppression(r)
  PROVE  (\A e \in Deliveries : DeliveryReal(e)') /\ \A s \in runs' : RunReal(s)'
  <1>0. PICK next : next = IF suppression[To[r.delivery]] = NoSuppression THEN "clear" ELSE "suppressing"
    OBVIOUS
  <1> DEFINE new == [r EXCEPT !.phase = next]
  <1>1. r \in Run /\ RunReal(r) /\ DeliveryReal(r.delivery) /\ r.delivery \in Deliveries
    BY DEF EmailInv, Typed, Run
  <1>2. UNCHANGED <<delivery, job, messages, suppression, late>>
    BY DEF CheckSuppression
  <1>3. RunReal(new)'
    <2>1. new.delivery = r.delivery /\ new.copy = r.copy /\ new.phase = next
      BY <1>1 DEF Run
    <2> QED
      BY <1>0, <1>1, <1>2, <2>1 DEF RunReal, RowReal, Known, DeliveryReal
  <1>4. runs' = (runs \ {r}) \cup {new}
    BY <1>0 DEF CheckSuppression, Move
  <1>5. \A s \in runs' : RunReal(s)'
    <2> HIDE DEF new
    <2> QED
      BY <1>2, <1>3, <1>4, RunsReal
  <1> QED
    BY <1>2, <1>5, DeliveryStays DEF JobGoesOn

LEMMA SendReal ==
  ASSUME EmailInv, Onward, NEW r \in runs, Send(r)
  PROVE  (\A e \in Deliveries : DeliveryReal(e)') /\ \A s \in runs' : RunReal(s)'
  <1>1. r \in Run /\ RunReal(r) /\ DeliveryReal(r.delivery) /\ r.delivery \in Deliveries
    BY DEF EmailInv, Typed, Run
  <1>2. UNCHANGED <<delivery, job, suppression, late>> /\ r.delivery \notin late
    BY <1>1 DEF Send, RunReal
  <1>3. ASSUME NEW phase \in {"accepted", "failing", "refused"}, runs' = Move(r, phase),
               phase = "accepted" => r.delivery \in messages'
        PROVE  \A s \in runs' : RunReal(s)'
    <2> DEFINE new == [r EXCEPT !.phase = phase]
    <2>1. new.delivery = r.delivery /\ new.copy = r.copy /\ new.phase = phase
      BY <1>1 DEF Run
    <2>2. RunReal(r)'
      BY <1>2, RunStays
    <2>3. RunReal(new)'
      BY <1>2, <1>3, <2>1, <2>2 DEF RunReal, RowReal, Known
    <2>4. runs' \subseteq runs \cup {new}
      BY <1>3 DEF Move
    <2> HIDE DEF new
    <2> QED
      BY <1>2, <2>3, <2>4, RunsReal
  <1>4. \A s \in runs' : RunReal(s)'
    BY <1>3 DEF Send
  <1>5. ASSUME NEW e \in Deliveries, e # r.delivery
        PROVE  DeliveryReal(e)'
    BY <1>2, <1>5, DeliveryStays DEF Send, JobGoesOn
  <1>6. DeliveryReal(r.delivery)'
    <2>1. delivery[r.delivery].status # "absent"
      BY <1>1 DEF RunReal
    <2> QED
      BY <1>1, <1>2, <2>1 DEF Onward, DeliveryReal, RowReal, Known
  <1> QED
    BY <1>4, <1>5, <1>6

\* A run that writes its copy, marked, and moves on or is over.
LEMMA MarkReal ==
  ASSUME EmailInv, Onward, NEW r \in runs, NEW row, NEW new,
         UNCHANGED delivery \/ Write(r.delivery, row),
         row.status # "absent", RowReal(r.delivery, row),
         UNCHANGED <<messages, late>>, \A d \in Deliveries : JobGoesOn(d),
         runs' \subseteq runs \cup {new}, new \in runs' => RunReal(new)'
  PROVE  (\A e \in Deliveries : DeliveryReal(e)') /\ \A s \in runs' : RunReal(s)'
  <1>1. \A s \in runs' : RunReal(s)'
    BY RunsReal
  <1>2. \A e \in Deliveries : DeliveryReal(e)'
    <2>1. CASE UNCHANGED delivery
      BY <2>1, DeliveryStays
    <2>2. CASE Write(r.delivery, row)
      BY <2>2, RowWritten
    <2> QED
      BY <2>1, <2>2
  <1> QED
    BY <1>1, <1>2

\* The rows that a run may write, by its phase.
LEMMA RowsReal ==
  ASSUME EmailInv, NEW r \in runs
  PROVE  LET d == r.delivery
             suppressed == Marked(r.copy, "suppressed", now)
             taken == Marked(r.copy, "accepted", now)
         IN /\ RowReal(d, MarkedSending(r.copy)) /\ MarkedSending(r.copy).status # "absent"
            /\ RowReal(d, MarkedFailed(r.copy)) /\ MarkedFailed(r.copy).status # "absent"
            /\ suppressed.status # "absent" /\ taken.status # "absent"
            /\ r.phase = "suppressing" => RowReal(d, suppressed)
            /\ r.phase = "accepted" => RowReal(d, taken)
  <1>1. /\ r.delivery \in Deliveries /\ r.copy \in Delivery /\ r.copy.at \in Nat
        /\ r.copy.at >= r.copy.at
        /\ r.copy.status # "absent" /\ now \in Nat \ {0} /\ RunReal(r)
        /\ RowReal(r.delivery, r.copy)
    BY DEF EmailInv, Typed, Run, Delivery, RunReal
  <1>2. RowReal(r.delivery, MarkedSending(r.copy)) /\ RowReal(r.delivery, MarkedFailed(r.copy))
    BY <1>1, MarkedIsReal DEF MarkedSending, MarkedFailed
  <1>3. r.phase = "suppressing" => RowReal(r.delivery, Marked(r.copy, "suppressed", now))
    <2> SUFFICES ASSUME r.phase = "suppressing"
                 PROVE  RowReal(r.delivery, Marked(r.copy, "suppressed", now))
      OBVIOUS
    <2>1. Known(r.delivery)
      BY <1>1 DEF RunReal, Known
    <2> QED
      BY <1>1, <2>1, MarkedIsReal
  <1>4. r.phase = "accepted" => RowReal(r.delivery, Marked(r.copy, "accepted", now))
    BY <1>1, MarkedAccepted DEF RunReal
  <1>5. \A status \in DeliveryStatus \ {"absent"}, at \in {now, r.copy.at} :
          Marked(r.copy, status, at).status # "absent"
    BY <1>1, MarkedStaysQueued
  <1>6. {"sending", "failed", "suppressed", "accepted"} \subseteq DeliveryStatus \ {"absent"}
    BY DEF DeliveryStatus
  <1>7. MarkedSending(r.copy).status # "absent" /\ MarkedFailed(r.copy).status # "absent"
    BY <1>5, <1>6 DEF MarkedSending, MarkedFailed
  <1> QED
    BY <1>2, <1>3, <1>4, <1>5, <1>6, <1>7

LEMMA FinalizeReal ==
  ASSUME EmailInv, Onward, NEW r \in runs, FinalizeSuppressed(r) \/ FinalizeAccepted(r)
  PROVE  (\A e \in Deliveries : DeliveryReal(e)') /\ \A s \in runs' : RunReal(s)'
  <1> DEFINE new == [r EXCEPT !.phase = "done"]
  <1>1. r \in Run /\ RunReal(r) /\ r.delivery \in Deliveries
    BY DEF EmailInv, Typed, Run
  <1>2. /\ UNCHANGED <<job, messages, suppression, late>> /\ runs' \subseteq runs \cup {new}
        /\ r.phase \in {"suppressing", "accepted"}
    BY DEF FinalizeSuppressed, FinalizeAccepted, Move
  <1>3. RunReal(r)'
    BY <1>2, RunStays
  <1>4. RunReal(new)'
    <2>1. new.delivery = r.delivery /\ new.copy = r.copy /\ new.phase = "done"
      BY <1>1 DEF Run
    <2> QED
      BY <1>2, <1>3, <2>1 DEF RunReal, Known
  <1>5. \A d \in Deliveries : JobGoesOn(d)
    BY <1>2 DEF JobGoesOn
  <1>6. PICK row : Write(r.delivery, row) /\ row.status # "absent" /\ RowReal(r.delivery, row)
    BY RowsReal DEF FinalizeSuppressed, FinalizeAccepted
  <1> HIDE DEF new
  <1> QED
    BY <1>2, <1>4, <1>5, <1>6, MarkReal

LEMMA SendingReal ==
  ASSUME EmailInv, Onward, NEW r \in runs, SaveSending(r)
  PROVE  (\A e \in Deliveries : DeliveryReal(e)') /\ \A s \in runs' : RunReal(s)'
  <1> DEFINE row == MarkedSending(r.copy)
  <1>1. r \in Run /\ RunReal(r) /\ r.delivery \in Deliveries
    BY DEF EmailInv, Typed, Run
  <1>2. PICK new : /\ new = [r EXCEPT !.phase = "sending", !.copy = row]
                   /\ runs' \subseteq runs \cup {new}
    BY DEF SaveSending
  <1>3. /\ UNCHANGED <<job, messages, suppression, late>>
        /\ Write(r.delivery, row) /\ r.phase = "clear"
    BY DEF SaveSending
  <1>4. RowReal(r.delivery, row) /\ row.status # "absent"
    BY RowsReal
  <1>5. RunReal(new)'
    <2>1. new.delivery = r.delivery /\ new.copy = row /\ new.phase = "sending"
      BY <1>1, <1>2 DEF Run
    <2>2. RowReal(r.delivery, new.copy)' /\ r.delivery \notin late'
      BY <1>1, <1>3, <1>4, <2>1 DEF RowReal, Known, RunReal
    <2>3. delivery'[r.delivery].status # "absent"
      BY <1>1, <1>3, <1>4 DEF Write, EmailInv, Typed
    <2> QED
      BY <1>4, <2>1, <2>2, <2>3 DEF RunReal
  <1>6. \A d \in Deliveries : JobGoesOn(d)
    BY <1>3 DEF JobGoesOn
  <1> HIDE DEF row
  <1> QED
    BY <1>2, <1>3, <1>4, <1>5, <1>6, MarkReal

LEMMA AcceptedFaultReal ==
  ASSUME EmailInv, Onward, NEW r \in runs, FinalizeAcceptedFault(r)
  PROVE  (\A e \in Deliveries : DeliveryReal(e)') /\ \A s \in runs' : RunReal(s)'
  <1> DEFINE new == [r EXCEPT !.phase = "failing"]
  <1> DEFINE row == Marked(r.copy, "accepted", now)
  <1>1. r \in Run /\ RunReal(r) /\ r.delivery \in Deliveries
    BY DEF EmailInv, Typed, Run
  <1>2. /\ UNCHANGED <<job, messages, suppression, late>> /\ runs' \subseteq runs \cup {new}
        /\ r.phase = "accepted"
        /\ UNCHANGED delivery \/ Write(r.delivery, row)
    BY DEF FinalizeAcceptedFault, Move
  <1>3. RunReal(r)' /\ r.delivery \notin late'
    BY <1>1, <1>2, RunStays DEF RunReal
  <1>4. RunReal(new)'
    <2>1. new.delivery = r.delivery /\ new.copy = r.copy /\ new.phase = "failing"
      BY <1>1 DEF Run
    <2> QED
      BY <1>3, <2>1 DEF RunReal
  <1>5. \A d \in Deliveries : JobGoesOn(d)
    BY <1>2 DEF JobGoesOn
  <1>6. PICK written : written = row
    OBVIOUS
  <1>7. RowReal(r.delivery, written) /\ written.status # "absent"
    BY <1>2, <1>6, RowsReal
  <1>8. UNCHANGED delivery \/ Write(r.delivery, written)
    BY <1>2, <1>6
  <1> HIDE DEF new, row
  <1> QED
    BY <1>2, <1>4, <1>5, <1>7, <1>8, MarkReal

\* The runs that end with an error.
LEMMA ThrowReal ==
  ASSUME EmailInv, Onward, NEW r \in runs,
         FinalizeFailed(r) \/ FinalizeFailedFault(r) \/ StoreFault(r)
  PROVE  (\A e \in Deliveries : DeliveryReal(e)') /\ \A s \in runs' : RunReal(s)'
  <1>1. Typed /\ r.delivery \in Deliveries /\ r.copy \in Delivery /\ r.copy.status # "absent"
    BY DEF EmailInv, Typed, Run, RunReal
  <1>2. \E retryable \in BOOLEAN : Throws(r, retryable)
    BY DEF FinalizeFailed, FinalizeFailedFault, StoreFault
  <1>3. runs' \subseteq runs /\ \A d \in Deliveries : JobGoesOn(d)
    BY <1>1, <1>2, ThrowsGoesOn
  <1>4. UNCHANGED <<messages, late>>
    BY DEF FinalizeFailed, FinalizeFailedFault, StoreFault
  <1>5. UNCHANGED delivery \/ \E row : /\ Write(r.delivery, row)
                                       /\ row.status # "absent" /\ RowReal(r.delivery, row)
    BY RowsReal DEF FinalizeFailed, FinalizeFailedFault, StoreFault
  <1>6. \A s \in runs' : RunReal(s)'
    BY <1>3, <1>4, RunStays
  <1>7. \A e \in Deliveries : DeliveryReal(e)'
    <2>1. CASE UNCHANGED delivery
      BY <1>3, <1>4, <2>1, DeliveryStays
    <2>2. CASE \E row : Write(r.delivery, row) /\ row.status # "absent" /\ RowReal(r.delivery, row)
      BY <1>3, <1>4, <2>2, RowWritten
    <2> QED
      BY <1>5, <2>1, <2>2
  <1> QED
    BY <1>6, <1>7

LEMMA DoneReal ==
  ASSUME EmailInv, Onward, NEW r \in runs, Done(r)
  PROVE  (\A e \in Deliveries : DeliveryReal(e)') /\ \A s \in runs' : RunReal(s)'
  <1>1. r \in Run /\ RunReal(r) /\ r.delivery \in Deliveries /\ DeliveryReal(r.delivery)
    BY DEF EmailInv, Typed, Run
  <1>2. UNCHANGED <<delivery, messages, suppression, late>> /\ runs' \subseteq runs
    BY DEF Done
  <1>3. ASSUME NEW e \in Deliveries
        PROVE  DeliveryReal(e)'
    <2>1. DeliveryReal(e)
      BY DEF EmailInv
    <2>2. CASE job'[e] = job[e]
      BY <1>2, <2>2, DeliveryStays DEF JobGoesOn
    <2>3. CASE job'[e] # job[e]
      <3>1. e = r.delivery /\ job[e] = "open" /\ r.phase = "done"
        BY <2>3 DEF Done, EmailInv, Typed
      <3>2. Known(e) /\ delivery[e].status # "absent"
        BY <1>1, <3>1 DEF RunReal
      <3> QED
        BY <1>2, <2>1, <3>2 DEF DeliveryReal, RowReal, Known
    <2> QED
      BY <2>2, <2>3
  <1> QED
    BY <1>2, <1>3, RunStays

LEMMA ReceiveReal ==
  ASSUME EmailInv, Onward, NEW h \in hooks, Receive(h)
  PROVE  (\A e \in Deliveries : DeliveryReal(e)') /\ \A s \in runs' : RunReal(s)'
  <1> DEFINE d == h.delivery
  <1>1. h \in Hook /\ d \in Deliveries /\ delivery[d] \in Delivery /\ DeliveryReal(d)
    BY DEF EmailInv, Typed, Hook
  <1>2. UNCHANGED <<job, runs, messages, late>> /\ delivery[d].identified
    BY DEF Receive
  <1>3. delivery' = [delivery EXCEPT ![d] = Applied(delivery[d], h)]
    BY DEF Receive, Write
  <1>4. ASSUME NEW e \in Deliveries, e # d
        PROVE  DeliveryReal(e)'
    BY <1>2, <1>3, <1>4, DeliveryStays DEF JobGoesOn, EmailInv, Typed
  <1>5. DeliveryReal(d)'
    <2>1. delivery'[d] = Applied(delivery[d], h)
      BY <1>1, <1>3 DEF EmailInv, Typed
    <2>2. /\ delivery'[d].identified
          /\ delivery'[d].at >= delivery[d].at /\ delivery'[d].at \in Nat
      BY <1>1, <1>2, <2>1 DEF Applied, Delivery, Hook
    <2>3. d \in messages /\ delivery[d].at > 0 /\ delivery[d].at \in Nat
      BY <1>1, <1>2 DEF DeliveryReal, RowReal, Delivery
    <2>4. d \in messages' /\ delivery'[d].at > 0
      BY <1>2, <2>2, <2>3
    <2>5. delivery'[d].status # "absent" /\ d \notin late'
      BY <1>1, <1>2, <2>3 DEF DeliveryReal, Onward
    <2> QED
      BY <2>2, <2>4, <2>5 DEF DeliveryReal, RowReal, Known
  <1> QED
    BY <1>2, <1>4, <1>5, RunStays

\* Every step keeps the invariant.
LEMMA EmailStep ==
  ASSUME EmailInv, [Next]_vars
  PROVE  EmailInv'
  <1>0. Typed' /\ Onward
    BY TypedStep, StepGoesOn DEF EmailInv
  <1> DEFINE Goal == (\A d \in Deliveries : DeliveryReal(d)') /\ \A r \in runs' : RunReal(r)'
  <1>1. ASSUME NEW d \in Deliveries, Queue(d) \/ Begin(d)
        PROVE  Goal
    BY <1>0, <1>1, QueueReal, BeginReal
  <1>2. ASSUME NEW r \in runs, Step(r) \/ StoreFault(r) \/ FinalizeAcceptedFault(r) \/ FinalizeFailedFault(r)
        PROVE  Goal
    BY <1>0, <1>2, CheckReal, FinalizeReal, SendingReal, SendReal, ThrowReal, DoneReal,
       AcceptedFaultReal DEF Step
  <1>3. ASSUME NEW h \in hooks, Receive(h)
        PROVE  Goal
    BY <1>0, <1>3, ReceiveReal
  <1>4. ASSUME \/ UNCHANGED vars \/ Tick \/ \E r \in runs : Crash(r)
               \/ \E d \in Deliveries, type \in EventTypes : Report(d, type)
        PROVE  Goal
    <2>1. UNCHANGED <<delivery, job, messages, suppression, late>> /\ runs' \subseteq runs
      BY <1>4 DEF vars, Tick, Crash, Report
    <2> QED
      BY <1>0, <2>1, RunStays, DeliveryStays DEF JobGoesOn
  <1>5. Goal
    BY <1>1, <1>2, <1>3, <1>4 DEF Next
  <1> QED
    BY <1>0, <1>5 DEF EmailInv

LEMMA EmailInit ==
  ASSUME Init
  PROVE  EmailInv
  <1>1. delivery \in [Deliveries -> Delivery]
    BY DEF Init, Delivery, DeliveryStatus
  <1>2. suppression \in [Recipients -> [reason : Suppressing \cup {"none"}, at : Nat]]
    BY DEF Init, NoSuppression
  <1>3. Typed
    BY <1>1, <1>2 DEF Init, Typed
  <1>4. \A d \in Deliveries : DeliveryReal(d)
    BY DEF Init, DeliveryReal, RowReal, Real
  <1> QED
    BY <1>3, <1>4 DEF Init, EmailInv

THEOREM EmailInvariant == Spec => []EmailInv
  BY EmailInit, EmailStep, PTL DEF Spec

-----------------------------------------------------------------------------
(* The suppression registry: by induction on the events acknowledged. *)

LEMMA NewestStep ==
  ASSUME EmailInv, SuppressionIsNewest, [Next]_vars
  PROVE  SuppressionIsNewest'
  <1> USE EmailAssumption
  <1>1. CASE UNCHANGED <<recorded, suppression>>
    BY <1>1 DEF SuppressionIsNewest
  <1>2. ASSUME NEW h \in hooks, Receive(h)
        PROVE  SuppressionIsNewest'
    <2> DEFINE Events(p, set) == {g \in set : To[g.delivery] = p /\ g.type \in Suppressing}
    <2> DEFINE Newest(p, registry, set) ==
          IF Events(p, set) = {} THEN registry = NoSuppression
          ELSE \E g \in Events(p, set) : /\ registry = [reason |-> g.type, at |-> g.at]
                                         /\ \A f \in Events(p, set) : f.at <= g.at
    <2>1. /\ h \in Hook /\ h.delivery \in Deliveries /\ h.at \in Nat
          /\ \A g \in recorded : g \in Hook /\ g.at \in Nat
      BY DEF EmailInv, Typed, Hook
    <2>2. recorded' = recorded \cup {h}
      BY <1>2 DEF Receive
    <2> SUFFICES ASSUME NEW p \in Recipients, Newest(p, suppression[p], recorded)
                 PROVE  Newest(p, suppression'[p], recorded')
      BY DEF SuppressionIsNewest
    <2>3. CASE To[h.delivery] # p \/ h.type \notin Suppressing
      <3>1. Events(p, recorded') = Events(p, recorded)
        BY <2>2, <2>3
      <3>2. suppression'[p] = suppression[p]
        BY <1>2, <2>1, <2>3 DEF Receive, EmailInv, Typed
      <3> QED
        BY <3>1, <3>2
    <2>4. CASE To[h.delivery] = p /\ h.type \in Suppressing
      <3> DEFINE new == [reason |-> h.type, at |-> h.at]
      <3>1. suppression'[p] = Merge(suppression[p], new)
        BY <1>2, <2>1, <2>4 DEF Receive, EmailInv, Typed
      <3>2. Events(p, recorded') = Events(p, recorded) \cup {h}
        BY <2>2, <2>4
      <3>3. CASE Events(p, recorded) = {}
        <4>1. suppression'[p] = new
          BY <2>1, <3>1, <3>3 DEF Merge, NoSuppression
        <4> QED
          BY <2>1, <3>2, <3>3, <4>1
      <3>4. CASE Events(p, recorded) # {}
        <4>1. PICK g \in Events(p, recorded) :
                 /\ suppression[p] = [reason |-> g.type, at |-> g.at]
                 /\ \A f \in Events(p, recorded) : f.at <= g.at
          BY <3>4
        <4>2. CASE h.at < g.at
          <5>1. suppression'[p] = [reason |-> g.type, at |-> g.at]
            BY <3>1, <4>1, <4>2 DEF Merge
          <5>2. \A f \in Events(p, recorded') : f.at <= g.at
            BY <2>1, <3>2, <4>1, <4>2
          <5> QED
            BY <3>2, <5>1, <5>2
        <4>3. CASE ~(h.at < g.at)
          <5>1. suppression'[p] = new
            BY <3>1, <4>1, <4>3 DEF Merge
          <5>2. \A f \in Events(p, recorded') : f.at <= h.at
            BY <2>1, <3>2, <4>1, <4>3
          <5> QED
            BY <3>2, <5>1, <5>2
        <4> QED
          BY <4>2, <4>3
      <3> QED
        BY <3>3, <3>4
    <2> QED
      BY <2>3, <2>4
  <1>3. UNCHANGED <<recorded, suppression>> \/ \E h \in hooks : Receive(h)
    BY DEF Next, Step, vars, Queue, Begin, Report, CheckSuppression, FinalizeSuppressed,
           SaveSending, Send, FinalizeAccepted, FinalizeFailed, Done, StoreFault,
           FinalizeAcceptedFault, FinalizeFailedFault, Crash, Tick
  <1> QED
    BY <1>1, <1>2, <1>3

-----------------------------------------------------------------------------
(* Verdicts: who writes a row over one. *)

LEMMA MarkedKeepsVerdict ==
  ASSUME NEW copy, NEW status, NEW at, copy.status \in TerminalStatuses
  PROVE  Marked(copy, status, at).status \in TerminalStatuses
  BY DEF Marked

LEMMA VerdictStep ==
  ASSUME EmailInv, [Next]_vars, NEW d \in Deliveries,
         delivery[d].status \in TerminalStatuses, delivery'[d].status \notin TerminalStatuses
  PROVE  \/ \E r \in runs : /\ r.delivery = d
                            /\ r.copy.status \notin TerminalStatuses
                            /\ r \notin runs'
         \/ \E h \in recorded' \ recorded : h.delivery = d /\ h.at >= delivery[d].at
  <1>0. Typed
    BY DEF EmailInv
  <1>1. UNCHANGED delivery \/ \E e \in Deliveries : Queue(e)
        \/ (\E r \in runs : \/ FinalizeSuppressed(r) \/ SaveSending(r) \/ StoreFault(r)
                            \/ FinalizeAccepted(r) \/ FinalizeAcceptedFault(r)
                            \/ FinalizeFailed(r) \/ FinalizeFailedFault(r))
        \/ \E h \in hooks : Receive(h)
    BY DEF Next, Step, vars, Begin, Report, CheckSuppression, Send, Done, Crash, Tick
  <1>2. ASSUME NEW e \in Deliveries, Queue(e)
        PROVE  FALSE
    BY <1>0, <1>2 DEF Queue, Write, Typed, TerminalStatuses
  <1>3. ASSUME NEW r \in runs, \/ FinalizeSuppressed(r) \/ SaveSending(r) \/ StoreFault(r)
                               \/ FinalizeAccepted(r) \/ FinalizeAcceptedFault(r)
                               \/ FinalizeFailed(r) \/ FinalizeFailedFault(r)
        PROVE  r.delivery = d /\ r.copy.status \notin TerminalStatuses /\ r \notin runs'
    <2>1. \E status, at : UNCHANGED delivery \/ Write(r.delivery, Marked(r.copy, status, at))
      BY <1>3 DEF FinalizeSuppressed, SaveSending, StoreFault, FinalizeAccepted,
                  FinalizeAcceptedFault, FinalizeFailed, FinalizeFailedFault,
                  MarkedSending, MarkedFailed
    <2>2. PICK status, at : Write(r.delivery, Marked(r.copy, status, at))
      BY <2>1
    <2>3. r.delivery = d /\ delivery'[d] = Marked(r.copy, status, at)
      BY <1>0, <2>2 DEF Write, Typed
    <2>4. r.copy.status \notin TerminalStatuses
      BY <2>3, MarkedKeepsVerdict
    <2>5. r \in Run
      BY <1>0 DEF Typed
    <2>6. r \notin runs'
      BY <1>3, <2>5 DEF FinalizeSuppressed, SaveSending, StoreFault, FinalizeAccepted,
                        FinalizeAcceptedFault, FinalizeFailed, FinalizeFailedFault,
                        Move, Throws, Run
    <2> QED
      BY <2>3, <2>4, <2>6
  <1>4. ASSUME NEW h \in hooks, Receive(h)
        PROVE  h \in recorded' \ recorded /\ h.delivery = d /\ h.at >= delivery[d].at
    <2>1. h \in Hook /\ h.at \in Nat /\ delivery[d].at \in Nat
      BY <1>0 DEF Typed, Hook, Delivery
    <2>2. h.delivery = d /\ delivery'[d] = Applied(delivery[d], h)
      BY <1>0, <1>4 DEF Receive, Write, Typed
    <2>3. ~(h.at < delivery[d].at)
      BY <2>2 DEF Applied
    <2> QED
      BY <1>4, <2>1, <2>2, <2>3 DEF Receive
  <1> QED
    BY <1>1, <1>2, <1>3, <1>4

-----------------------------------------------------------------------------
\* Every variable keeps its type, and a delivery that webhooks can find has a
\* date that they are compared with.
THEOREM TypeCorrect == Spec => []TypeOK
  <1>1. EmailInv => TypeOK
    BY DEF EmailInv, Typed, TypeOK, DeliveryReal, RowReal
  <1> QED
    BY <1>1, EmailInvariant, PTL

\* A delivery that is queued for a suppressed recipient is never handed to the
\* provider (the handler's getEmailSuppression before its send).
THEOREM SuppressedKept == Spec => []SuppressedNotMailed
  <1>1. EmailInv => SuppressedNotMailed
    BY DEF EmailInv, Typed, DeliveryReal, SuppressedNotMailed
  <1> QED
    BY <1>1, EmailInvariant, PTL

\* A status that speaks of the provider is real, and a processed job has an
\* outcome (markEmailDelivery..., applyEmailWebhookStatus, the handler's return).
THEOREM OutcomeReal == Spec => []OutcomeIsReal
  <1>1. EmailInv => OutcomeIsReal
    BY DEF EmailInv, Typed, DeliveryReal, RowReal, Real, Known, OutcomeIsReal, StatusIsReal,
           ProcessedHasOutcome
  <1> QED
    BY <1>1, EmailInvariant, PTL

\* A recipient is suppressed for its newest event (mergeEmailSuppression).
THEOREM NewestSuppression == Spec => []SuppressionIsNewest
  <1>1. Init => SuppressionIsNewest
    BY EmailAssumption DEF Init, SuppressionIsNewest
  <1>2. EmailInv /\ SuppressionIsNewest /\ [Next]_vars => SuppressionIsNewest'
    BY NewestStep
  <1> QED
    BY <1>1, <1>2, EmailInvariant, PTL DEF Spec

\* A verdict gives way only to news, or to the copy of a run that began before
\* it (applyEmailWebhookStatus, saveEmailDelivery).
THEOREM VerdictKept == Spec => VerdictLostOnlyToNewsOrStaleRun
  <1>1. EmailInv /\ [Next]_vars =>
          [\A d \in Deliveries :
             delivery[d].status \in TerminalStatuses /\ delivery'[d].status \notin TerminalStatuses =>
               \/ \E r \in runs : /\ r.delivery = d
                                  /\ r.copy.status \notin TerminalStatuses
                                  /\ r \notin runs'
               \/ \E h \in recorded' \ recorded : h.delivery = d /\ h.at >= delivery[d].at]_vars
    BY VerdictStep
  <1> QED
    BY <1>1, EmailInvariant, PTL DEF Spec, VerdictLostOnlyToNewsOrStaleRun
-----------------------------------------------------------------------------
(* The jobs whose handlers outlast their claims, and the files, have their *)
(* theorems in OutboxProofs and FileProofs.                                *)
Claims == INSTANCE OutboxProofs
  WITH Jobs <- Deliveries, None <- Nobody, MaxAttempts <- ClaimAttempts,
       MaxFaults <- MaxClaimFaults, runs <- flights, faults <- failed
BusyFiles == INSTANCE FileProofs
  WITH MaxRequests <- ManyRequests, MaxFaults <- FewFaults, faults <- broken
FaultyFiles == INSTANCE FileProofs
  WITH MaxRequests <- FewRequests, MaxFaults <- ManyFaults, faults <- broken

deliveryVars == <<machine, vars, outboxVars, fileVars>>

\* A step is one of the component that machine names, and leaves the others alone.
LEMMA StepOfOne ==
  ASSUME [DeliveryNext]_deliveryVars
  PROVE  /\ machine' = machine
         /\ [Next]_vars
         /\ machine = "claims" => [Overrun!Next]_Overrun!vars
         /\ machine = "files" => [Busy!Next]_Busy!vars
         /\ machine = "faulty files" => [Faulty!Next]_Faulty!vars
  <1>1. CASE MailStep
    BY <1>1 DEF MailStep
  <1>2. CASE ClaimStep
    BY <1>2 DEF ClaimStep
  <1>3. CASE FileStep
    BY <1>3 DEF FileStep
  <1>4. CASE FaultyStep
    BY <1>4 DEF FaultyStep
  <1>5. CASE UNCHANGED deliveryVars
    BY <1>5 DEF deliveryVars, outboxVars, fileVars, Overrun!vars, Busy!vars, Faulty!vars
  <1>. QED
    BY <1>1, <1>2, <1>3, <1>4, <1>5 DEF DeliveryNext

\* A behaviour of Delivery is one of the email jobs, where they may also rest.
LEMMA MailRuns == DeliverySpec => Spec
  <1>1. DeliveryInit => Init
    BY DEF DeliveryInit
  <1>2. [DeliveryNext]_deliveryVars => [Next]_vars
    BY StepOfOne
  <1>. QED
    BY <1>1, <1>2, PTL DEF DeliverySpec, Spec, deliveryVars

LEMMA SameClaims ==
  /\ Overrun!Init => Claims!Init
  /\ [Overrun!Next]_Overrun!vars => [Claims!Next]_Claims!vars
  <1>1. Overrun!Init => Claims!Init
    BY DEF Overrun!Init, Claims!Init, Overrun!NoJob, Claims!NoJob, Overrun!NewJob, Claims!NewJob,
           Overrun!Idle, Claims!Idle
  <1>2. [Overrun!Next]_Overrun!vars => [Claims!Next]_Claims!vars
    BY DEF Overrun!Least, Claims!Least, Overrun!Most, Claims!Most, Overrun!Backoff, Claims!Backoff,
           Overrun!NewJob, Claims!NewJob, Overrun!NoJob, Claims!NoJob, Overrun!Owns, Claims!Owns,
           Overrun!Exhausted, Claims!Exhausted, Overrun!Replayable, Claims!Replayable, Overrun!InsertIfAbsent,
           Claims!InsertIfAbsent, Overrun!Ready, Claims!Ready, Overrun!Claimable, Claims!Claimable,
           Overrun!Unlocked, Claims!Unlocked, Overrun!Locked, Claims!Locked, Overrun!Claimed, Claims!Claimed,
           Overrun!Settled, Claims!Settled, Overrun!Move, Claims!Move, Overrun!Idle, Claims!Idle,
           Overrun!Throws, Claims!Throws, Overrun!Fault, Claims!Fault, Overrun!Enqueue, Claims!Enqueue,
           Overrun!Replay, Claims!Replay, Overrun!StartTick, Claims!StartTick, Overrun!Batch, Claims!Batch,
           Overrun!NewRun, Claims!NewRun, Overrun!Claim, Claims!Claim, Overrun!ClaimFault, Claims!ClaimFault,
           Overrun!EndTick, Claims!EndTick, Overrun!HandlerReturns, Claims!HandlerReturns,
           Overrun!HandlerThrows, Claims!HandlerThrows, Overrun!Complete, Claims!Complete,
           Overrun!CompleteRefused, Claims!CompleteRefused, Overrun!CompleteFault, Claims!CompleteFault,
           Overrun!ReadForFail, Claims!ReadForFail, Overrun!RecordFailure, Claims!RecordFailure,
           Overrun!FailRefused, Claims!FailRefused, Overrun!FailFault, Claims!FailFault, Overrun!Exit,
           Claims!Exit, Overrun!Aged, Claims!Aged, Overrun!Advance, Claims!Advance, Overrun!Step, Claims!Step,
           Overrun!Next, Claims!Next, Overrun!vars, Claims!vars, Overrun!Cardinality, Claims!Cardinality,
           Overrun!IsFiniteSet, Claims!IsFiniteSet
  <1>. QED
    BY <1>1, <1>2

LEMMA SameFiles ==
  /\ Busy!Init => BusyFiles!Init
  /\ [Busy!Next]_Busy!vars => [BusyFiles!Next]_BusyFiles!vars
  <1>1. Busy!Init => BusyFiles!Init
    BY DEF Busy!Init, BusyFiles!Init
  <1>2. [Busy!Next]_Busy!vars => [BusyFiles!Next]_BusyFiles!vars
    BY DEF Busy!NewRequest, BusyFiles!NewRequest, Busy!Arrives, BusyFiles!Arrives, Busy!Starts,
           BusyFiles!Starts, Busy!Move, BusyFiles!Move, Busy!Ends, BusyFiles!Ends, Busy!Write, BusyFiles!Write,
           Busy!Fault, BusyFiles!Fault, Busy!Evidence, BusyFiles!Evidence, Busy!CreateIntent,
           BusyFiles!CreateIntent, Busy!ClientUpload, BusyFiles!ClientUpload, Busy!StartPut,
           BusyFiles!StartPut, Busy!PutObject, BusyFiles!PutObject, Busy!PutMetadata, BusyFiles!PutMetadata,
           Busy!StartComplete, BusyFiles!StartComplete, Busy!Head, BusyFiles!Head, Busy!FinalizeReady,
           BusyFiles!FinalizeReady, Busy!StartDelete, BusyFiles!StartDelete, Busy!MarkDeleting,
           BusyFiles!MarkDeleting, Busy!Removes, BusyFiles!Removes, Busy!Removable, BusyFiles!Removable,
           Busy!Remove, BusyFiles!Remove, Busy!GivesUp, BusyFiles!GivesUp, Busy!MarkFault, BusyFiles!MarkFault,
           Busy!RemoveFault, BusyFiles!RemoveFault, Busy!Restore, BusyFiles!Restore, Busy!FinalizeDeleted,
           BusyFiles!FinalizeDeleted, Busy!Checksum, BusyFiles!Checksum, Busy!Completes, BusyFiles!Completes,
           Busy!Deletes, BusyFiles!Deletes, Busy!RequestFault, BusyFiles!RequestFault, Busy!Next, BusyFiles!Next,
           Busy!vars, BusyFiles!vars
  <1>. QED
    BY <1>1, <1>2

LEMMA SameFaultyFiles ==
  /\ Faulty!Init => FaultyFiles!Init
  /\ [Faulty!Next]_Faulty!vars => [FaultyFiles!Next]_FaultyFiles!vars
  <1>1. Faulty!Init => FaultyFiles!Init
    BY DEF Faulty!Init, FaultyFiles!Init
  <1>2. [Faulty!Next]_Faulty!vars => [FaultyFiles!Next]_FaultyFiles!vars
    BY DEF Faulty!NewRequest, FaultyFiles!NewRequest, Faulty!Arrives, FaultyFiles!Arrives,
           Faulty!Starts, FaultyFiles!Starts, Faulty!Move, FaultyFiles!Move, Faulty!Ends, FaultyFiles!Ends,
           Faulty!Write, FaultyFiles!Write, Faulty!Fault, FaultyFiles!Fault, Faulty!Evidence,
           FaultyFiles!Evidence, Faulty!CreateIntent, FaultyFiles!CreateIntent, Faulty!ClientUpload,
           FaultyFiles!ClientUpload, Faulty!StartPut, FaultyFiles!StartPut, Faulty!PutObject,
           FaultyFiles!PutObject, Faulty!PutMetadata, FaultyFiles!PutMetadata, Faulty!StartComplete,
           FaultyFiles!StartComplete, Faulty!Head, FaultyFiles!Head, Faulty!FinalizeReady,
           FaultyFiles!FinalizeReady, Faulty!StartDelete, FaultyFiles!StartDelete, Faulty!MarkDeleting,
           FaultyFiles!MarkDeleting, Faulty!Removes, FaultyFiles!Removes, Faulty!Removable,
           FaultyFiles!Removable, Faulty!Remove, FaultyFiles!Remove, Faulty!GivesUp, FaultyFiles!GivesUp,
           Faulty!MarkFault, FaultyFiles!MarkFault, Faulty!RemoveFault, FaultyFiles!RemoveFault,
           Faulty!Restore, FaultyFiles!Restore, Faulty!FinalizeDeleted, FaultyFiles!FinalizeDeleted,
           Faulty!Checksum, FaultyFiles!Checksum, Faulty!Completes, FaultyFiles!Completes,
           Faulty!Deletes, FaultyFiles!Deletes, Faulty!RequestFault, FaultyFiles!RequestFault, Faulty!Next, FaultyFiles!Next, Faulty!vars,
           FaultyFiles!vars
  <1>. QED
    BY <1>1, <1>2

LEMMA ClaimsRun == DeliverySpec /\ machine = "claims" => Claims!Spec
  <1>1. DeliveryInit /\ machine = "claims" => Claims!Init
    BY SameClaims DEF DeliveryInit
  <1>2. machine = "claims" /\ [DeliveryNext]_deliveryVars => [Claims!Next]_Claims!vars /\ (machine = "claims")'
    BY SameClaims, StepOfOne
  <1>. QED
    BY <1>1, <1>2, PTL DEF DeliverySpec, Claims!Spec, deliveryVars

LEMMA FilesRun == DeliverySpec /\ machine = "files" => BusyFiles!Spec
  <1>1. DeliveryInit /\ machine = "files" => BusyFiles!Init
    BY SameFiles DEF DeliveryInit
  <1>2. machine = "files" /\ [DeliveryNext]_deliveryVars => [BusyFiles!Next]_BusyFiles!vars /\ (machine = "files")'
    BY SameFiles, StepOfOne
  <1>. QED
    BY <1>1, <1>2, PTL DEF DeliverySpec, BusyFiles!Spec, deliveryVars

LEMMA FaultyFilesRun == DeliverySpec /\ machine = "faulty files" => FaultyFiles!Spec
  <1>1. DeliveryInit /\ machine = "faulty files" => FaultyFiles!Init
    BY SameFaultyFiles DEF DeliveryInit
  <1>2. machine = "faulty files" /\ [DeliveryNext]_deliveryVars
          => [FaultyFiles!Next]_FaultyFiles!vars /\ (machine = "faulty files")'
    BY SameFaultyFiles, StepOfOne
  <1>. QED
    BY <1>1, <1>2, PTL DEF DeliverySpec, FaultyFiles!Spec, deliveryVars

\* What machine names is decided at the start.
LEMMA MachineStays ==
  DeliverySpec =>
    /\ [](machine = "claims") \/ []~(machine = "claims")
    /\ [](machine = "files") \/ []~(machine = "files")
    /\ [](machine = "faulty files") \/ []~(machine = "faulty files")
  <1>1. ASSUME [DeliveryNext]_deliveryVars
        PROVE  machine' = machine
    BY <1>1, StepOfOne
  <1>2. machine = "claims" /\ [DeliveryNext]_deliveryVars => (machine = "claims")'
    BY <1>1
  <1>3. ~(machine = "claims") /\ [DeliveryNext]_deliveryVars => ~(machine = "claims")'
    BY <1>1
  <1>4. machine = "files" /\ [DeliveryNext]_deliveryVars => (machine = "files")'
    BY <1>1
  <1>5. ~(machine = "files") /\ [DeliveryNext]_deliveryVars => ~(machine = "files")'
    BY <1>1
  <1>6. machine = "faulty files" /\ [DeliveryNext]_deliveryVars => (machine = "faulty files")'
    BY <1>1
  <1>7. ~(machine = "faulty files") /\ [DeliveryNext]_deliveryVars => ~(machine = "faulty files")'
    BY <1>1
  <1>. QED
    BY <1>2, <1>3, <1>4, <1>5, <1>6, <1>7, PTL DEF DeliverySpec, deliveryVars
\* What is said of jobs and of files, said by the modules with the proofs.
LEMMA ClaimStatements ==
  /\ Claims!TypeOK => Overrun!TypeOK
  /\ Claims!SettledByOwner /\ Claims!StaysProcessed => Overrun!SettledByOwner /\ Overrun!StaysProcessed
  <1>1. Claims!TypeOK => Overrun!TypeOK
    BY DEF Overrun!TypeOK, Claims!TypeOK, Overrun!RowOK, Claims!RowOK, Overrun!Job, Claims!Job,
           Overrun!Status, Claims!Status, Overrun!Run, Claims!Run, Overrun!Phase, Claims!Phase
  <1>2. Claims!SettledByOwner => Overrun!SettledByOwner
    BY DEF Overrun!SettledByOwner, Claims!SettledByOwner
  <1>3. Claims!StaysProcessed => Overrun!StaysProcessed
    BY DEF Overrun!StaysProcessed, Claims!StaysProcessed
  <1>. QED
    BY <1>1, <1>2, <1>3

FilesAreReal ==
  /\ Busy!ReadyLostByDisturbance
  /\ Busy!ReadyWasChecked
  /\ Busy!StatusHasEvidence
  /\ Busy!DeletedHasNoObject

LEMMA FileStatements ==
  /\ BusyFiles!TypeOK => Busy!TypeOK
  /\ BusyFiles!ReadyLostByDisturbance /\ BusyFiles!ReadyWasChecked
       /\ BusyFiles!StatusHasEvidence /\ BusyFiles!DeletedHasNoObject => FilesAreReal
  /\ BusyFiles!RemovesWhileDeleting => Busy!RemovesWhileDeleting
  /\ BusyFiles!StaysDeleted => Busy!StaysDeleted
  <1>1. BusyFiles!TypeOK => Busy!TypeOK
    BY DEF Busy!TypeOK, BusyFiles!TypeOK, Busy!Record, BusyFiles!Record, Busy!FileStatus, BusyFiles!FileStatus,
           Busy!Request, BusyFiles!Request, Busy!Phase, BusyFiles!Phase
  <1>2. /\ BusyFiles!ReadyLostByDisturbance => Busy!ReadyLostByDisturbance
        /\ BusyFiles!ReadyWasChecked => Busy!ReadyWasChecked
        /\ BusyFiles!StatusHasEvidence => Busy!StatusHasEvidence
        /\ BusyFiles!DeletedHasNoObject => Busy!DeletedHasNoObject
        /\ BusyFiles!RemovesWhileDeleting => Busy!RemovesWhileDeleting
        /\ BusyFiles!StaysDeleted => Busy!StaysDeleted
    BY DEF Busy!ReadyLostByDisturbance, BusyFiles!ReadyLostByDisturbance, Busy!Stored, BusyFiles!Stored, Busy!Whole, BusyFiles!Whole,
           Busy!Undisturbed, BusyFiles!Undisturbed, Busy!ReadyWasChecked, BusyFiles!ReadyWasChecked,
           Busy!StatusHasEvidence, BusyFiles!StatusHasEvidence, Busy!DeletedHasNoObject, BusyFiles!DeletedHasNoObject,
           Busy!RemovesWhileDeleting, BusyFiles!RemovesWhileDeleting, Busy!StaysDeleted, BusyFiles!StaysDeleted
  <1>. QED
    BY <1>1, <1>2 DEF FilesAreReal

LEMMA FaultyFileStatements ==
  /\ FaultyFiles!TypeOK => Busy!TypeOK
  /\ FaultyFiles!ReadyLostByDisturbance /\ FaultyFiles!ReadyWasChecked
       /\ FaultyFiles!StatusHasEvidence /\ FaultyFiles!DeletedHasNoObject => FilesAreReal
  /\ FaultyFiles!RemovesWhileDeleting => Busy!RemovesWhileDeleting
  /\ FaultyFiles!StaysDeleted => Busy!StaysDeleted
  <1>1. FaultyFiles!TypeOK => Busy!TypeOK
    BY DEF Busy!TypeOK, FaultyFiles!TypeOK, Busy!Record, FaultyFiles!Record, Busy!FileStatus, FaultyFiles!FileStatus,
           Busy!Request, FaultyFiles!Request, Busy!Phase, FaultyFiles!Phase
  <1>2. /\ FaultyFiles!ReadyLostByDisturbance => Busy!ReadyLostByDisturbance
        /\ FaultyFiles!ReadyWasChecked => Busy!ReadyWasChecked
        /\ FaultyFiles!StatusHasEvidence => Busy!StatusHasEvidence
        /\ FaultyFiles!DeletedHasNoObject => Busy!DeletedHasNoObject
        /\ FaultyFiles!RemovesWhileDeleting => Busy!RemovesWhileDeleting
        /\ FaultyFiles!StaysDeleted => Busy!StaysDeleted
    BY DEF Busy!ReadyLostByDisturbance, FaultyFiles!ReadyLostByDisturbance, Busy!Stored, FaultyFiles!Stored, Busy!Whole, FaultyFiles!Whole,
           Busy!Undisturbed, FaultyFiles!Undisturbed, Busy!ReadyWasChecked, FaultyFiles!ReadyWasChecked,
           Busy!StatusHasEvidence, FaultyFiles!StatusHasEvidence, Busy!DeletedHasNoObject, FaultyFiles!DeletedHasNoObject,
           Busy!RemovesWhileDeleting, FaultyFiles!RemovesWhileDeleting, Busy!StaysDeleted, FaultyFiles!StaysDeleted
  <1>. QED
    BY <1>1, <1>2 DEF FilesAreReal

\* The constants of the two modules are as their proofs assume.
LEMMA Assumptions == Claims!OutboxAssumption /\ BusyFiles!FileAssumption /\ FaultyFiles!FileAssumption
  BY DeliveryAssumption
     DEF Overrun!OutboxAssumption, Claims!OutboxAssumption, Busy!FileAssumption, BusyFiles!FileAssumption,
         Faulty!FileAssumption, FaultyFiles!FileAssumption

\* A file, with many requests or with many faults.
LEMMA FilesAlways ==
  DeliverySpec => [](OfFiles => Busy!TypeOK /\ FilesAreReal)
  <1>1. BusyFiles!Spec => /\ []BusyFiles!TypeOK /\ []BusyFiles!ReadyLostByDisturbance /\ []BusyFiles!ReadyWasChecked
                          /\ []BusyFiles!StatusHasEvidence /\ []BusyFiles!DeletedHasNoObject
    BY Assumptions, BusyFiles!TypeCorrect, BusyFiles!ReadyHasObject, BusyFiles!ReadyChecked,
       BusyFiles!HasEvidence, BusyFiles!DeletedIsEmpty
  <1>2. FaultyFiles!Spec => /\ []FaultyFiles!TypeOK /\ []FaultyFiles!ReadyLostByDisturbance /\ []FaultyFiles!ReadyWasChecked
                            /\ []FaultyFiles!StatusHasEvidence /\ []FaultyFiles!DeletedHasNoObject
    BY Assumptions, FaultyFiles!TypeCorrect, FaultyFiles!ReadyHasObject, FaultyFiles!ReadyChecked,
       FaultyFiles!HasEvidence, FaultyFiles!DeletedIsEmpty
  <1>3. OfFiles <=> machine = "files" \/ machine = "faulty files"
    BY DEF OfFiles
  <1>. QED
    BY <1>1, <1>2, <1>3, MachineStays, FilesRun, FaultyFilesRun, FileStatements, FaultyFileStatements, PTL

\* The rows, the handlers and the files are always what their modules say.
THEOREM DeliveryTypes == DeliverySpec => []TypesOK
  <1>1. Claims!Spec => []Claims!TypeOK
    BY Assumptions, Claims!TypeCorrect
  <1>2. TypeOK /\ (machine = "claims" => Overrun!TypeOK) /\ (OfFiles => Busy!TypeOK /\ FilesAreReal) => TypesOK
    BY DEF TypesOK
  <1>. QED
    BY <1>1, <1>2, ClaimStatements, ClaimsRun, FilesAlways, MachineStays, MailRuns, TypeCorrect, PTL

\* For any jobs, workers, faults and replays, and handlers that take longer than
\* their claims: a claim ends only through its worker, and processed is final.
THEOREM ClaimsSettledOnce == DeliverySpec => SettledOnceByOwner
  <1>1. Claims!Spec => [][Claims!SettledByOwner /\ Claims!StaysProcessed]_jobs
    BY Assumptions, Claims!SettledOnce DEF Claims!SettledOnceByOwner
  <1>2. [Claims!SettledByOwner /\ Claims!StaysProcessed]_jobs
          => [machine = "claims" => Overrun!SettledByOwner /\ Overrun!StaysProcessed]_jobs
    BY ClaimStatements
  <1>3. ~(machine = "claims") => [machine = "claims" => Overrun!SettledByOwner /\ Overrun!StaysProcessed]_jobs
    OBVIOUS
  <1>. QED
    BY <1>1, <1>2, <1>3, ClaimsRun, MachineStays, PTL DEF SettledOnceByOwner

\* For any files, contents, requests and faults, with either driver: what is ready
\* was checked and is stored, what is deleted is gone, and each has its events.
THEOREM FilesReal == DeliverySpec => []FileStatusIsReal
  <1>1. (OfFiles => Busy!TypeOK /\ FilesAreReal) => FileStatusIsReal
    BY DEF FilesAreReal, FileStatusIsReal
  <1>. QED
    BY <1>1, FilesAlways, PTL

\* However deletions, retries and restorations overlap on a file that was not
\* disturbed: its object goes only while it is being deleted, and deleted is final.
THEOREM DeletionsOrdered == DeliverySpec => DeletionIsOrdered
  <1>1. BusyFiles!Spec => [][BusyFiles!StaysDeleted]_record /\ [][BusyFiles!RemovesWhileDeleting]_object
    BY Assumptions, BusyFiles!DeletionIsFinal, BusyFiles!RemovalIsAnnounced
       DEF BusyFiles!DeletedIsFinal, BusyFiles!ObjectGoesWhileDeleting
  <1>2. FaultyFiles!Spec => [][FaultyFiles!StaysDeleted]_record /\ [][FaultyFiles!RemovesWhileDeleting]_object
    BY Assumptions, FaultyFiles!DeletionIsFinal, FaultyFiles!RemovalIsAnnounced
       DEF FaultyFiles!DeletedIsFinal, FaultyFiles!ObjectGoesWhileDeleting
  <1>3. UNCHANGED record => Busy!StaysDeleted
    BY DEF Busy!StaysDeleted
  <1>4. UNCHANGED object => Busy!RemovesWhileDeleting
    BY DEF Busy!RemovesWhileDeleting
  <1>5. [BusyFiles!StaysDeleted]_record /\ [BusyFiles!RemovesWhileDeleting]_object
          => [OfFiles => Busy!RemovesWhileDeleting /\ Busy!StaysDeleted]_<<object, record>>
    BY <1>3, <1>4, FileStatements
  <1>6. [FaultyFiles!StaysDeleted]_record /\ [FaultyFiles!RemovesWhileDeleting]_object
          => [OfFiles => Busy!RemovesWhileDeleting /\ Busy!StaysDeleted]_<<object, record>>
    BY <1>3, <1>4, FaultyFileStatements
  <1>7. ~(machine = "files") /\ ~(machine = "faulty files")
          => [OfFiles => Busy!RemovesWhileDeleting /\ Busy!StaysDeleted]_<<object, record>>
    BY DEF OfFiles
  <1>. QED
    BY <1>1, <1>2, <1>5, <1>6, <1>7, FilesRun, FaultyFilesRun, MachineStays, PTL DEF DeletionIsOrdered
=============================================================================
