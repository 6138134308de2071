------------------------------- MODULE Outbox -------------------------------
(***************************************************************************)
(* The durable outbox of apps/api/src/reliability/outbox.js: the job table *)
(* behind the PostgreSQL store, and the worker processes that claim jobs   *)
(* from it and settle them (processOutboxOnce, driven by the interval tick *)
(* of apps/worker/src/worker.js).                                          *)
(*                                                                         *)
(* Every call that leaves the process (claim, handler, complete, the       *)
(* SELECT and the UPDATE of fail) is a step of its own, so that the calls  *)
(* of several workers, and of several jobs of one worker, interleave.      *)
(*                                                                         *)
(* Time is kept relative to the present, so that it has no end: a job      *)
(* carries how far in the future its next_attempt_at is and how long ago   *)
(* it was locked, a tick and a run carry how long ago the tick read the    *)
(* clock.  The code passes that one reading ("now") to claim, complete and *)
(* fail, however long the handler took.                                    *)
(***************************************************************************)
EXTENDS Integers, FiniteSets

CONSTANTS
  Jobs,         \* idempotency keys, each with one logical event
  Workers,      \* worker instances; a restarted process has a new identity
  None,         \* locked_by IS NULL
  MaxAttempts,  \* XYGO_WORKER_MAX_ATTEMPTS
  BaseBackoff,  \* XYGO_WORKER_BASE_BACKOFF_MS
  MaxBackoff,   \* XYGO_WORKER_MAX_BACKOFF_MS
  StaleAfter,   \* XYGO_WORKER_STALE_AFTER_MS
  Concurrency,  \* XYGO_WORKER_CONCURRENCY
  MaxRun,       \* bound: longest time from a tick's start to a settlement
  MaxClaims,    \* bound: claims of one job
  MaxReplays,   \* bound: operator replays of one job
  MaxFaults     \* bound: store calls that fail

ASSUME OutboxAssumption ==
  /\ None \notin Workers
  /\ {MaxAttempts, StaleAfter, Concurrency, MaxRun} \subseteq Nat \ {0}
  /\ {BaseBackoff, MaxBackoff, MaxClaims, MaxReplays, MaxFaults} \subseteq Nat
  /\ \A a \in 0 .. MaxClaims : 2 ^ a \in Nat

VARIABLES
  jobs,      \* the rows of outbox_jobs, with "absent" for no row
  alive,     \* the worker processes that run
  ticks,     \* per worker: is a tick active, and how long ago did it start
  runs,      \* the jobs that a worker process has in flight
  handled,   \* history: the handler has succeeded for the job
  rejected,  \* history: the handler has thrown a non-retryable error
  faults     \* store calls that have failed so far

vars == <<jobs, alive, ticks, runs, handled, rejected, faults>>

-----------------------------------------------------------------------------
Status == {"absent", "pending", "processing", "failed", "processed", "dead"}

Job == [status : Status, attempts : 0 .. MaxClaims, due : Int, age : Nat,
        lockedBy : Workers \cup {None}, replays : Nat, claims : 0 .. MaxClaims]

Phase == {"handling",   \* inside handler(event)
          "handled",    \* the handler returned, complete() not yet called
          "failing",    \* in the catch block, fail() not yet called
          "refusing",   \* the same, after an error with retryable = false
          "retrying",   \* fail() has read the row: UPDATE to "failed" is due
          "burying"}    \* fail() has read the row: UPDATE to "dead" is due

Run == [job : Jobs, worker : Workers, claim : Nat, attempt : 0 .. MaxClaims,
        elapsed : Nat, phase : Phase, awaited : BOOLEAN]

Least(a, b) == IF a <= b THEN a ELSE b
Most(a, b)  == IF a >= b THEN a ELSE b

\* backoffMs: exponential in the attempts, from the base to the cap.
Backoff(attempts) ==
  Least(MaxBackoff, BaseBackoff * 2 ^ Most(0, attempts - 1))

\* newJob: a row without a lock, without attempts and due at once.
NewJob(status, replays, claims) ==
  [status |-> status, attempts |-> 0, due |-> 0, age |-> 0, lockedBy |-> None,
   replays |-> replays, claims |-> claims]

NoJob == NewJob("absent", 0, 0)

\* Operators whose name ends in Bug are not part of the model: each is the
\* definition that follows it with a plausible mistake, against which the
\* properties are tested.
Owns_NoOwnerBug(w, j) == jobs[j].status = "processing"
\* The guard of the UPDATEs of complete() and fail().
Owns(w, j) == jobs[j].status = "processing" /\ jobs[j].lockedBy = w

Exhausted_LateBug(attempts, limit)  == attempts > limit

\* fail(): the job is dead rather than failed.
Exhausted(attempts, limit) == attempts >= limit

Replayable(j) == jobs[j].status = "dead"

\* INSERT ... ON CONFLICT (idempotency_key) DO NOTHING.
InsertIfAbsent(row) ==
  IF row.status = "absent" THEN NewJob("pending", 0, 0) ELSE row

Ready_SkewBug(j, e) ==
  \/ jobs[j].status \in {"pending", "failed"} /\ jobs[j].due <= -e
  \/ jobs[j].status = "processing" /\ jobs[j].age + e >= StaleAfter

Ready_NoReclaimBug(j, e) ==
  jobs[j].status \in {"pending", "failed"} /\ jobs[j].due <= -e

\* What claim() selects when its tick read the clock e time units ago.
Ready(j, e) ==
  \/ jobs[j].status \in {"pending", "failed"} /\ jobs[j].due <= -e
  \/ jobs[j].status = "processing" /\ jobs[j].age >= StaleAfter + e

Claimable(e) == {j \in Jobs : Ready(j, e) /\ jobs[j].claims < MaxClaims}

Unlocked_KeepsOwnerBug(j, status, due) ==
  [jobs[j] EXCEPT !.status = status, !.due = due, !.age = 0]

Unlocked(j, status, due) ==
  [jobs[j] EXCEPT !.status = status, !.due = due, !.age = 0, !.lockedBy = None]

\* The effect of claim() on a row.  locked_at is the tick's reading.
Locked(row, w, e) ==
  [status |-> "processing", attempts |-> row.attempts + 1, due |-> 0, age |-> e,
   lockedBy |-> w, replays |-> row.replays, claims |-> row.claims + 1]

Claimed(S, w, e) == [j \in Jobs |-> IF j \in S THEN Locked(jobs[j], w, e) ELSE jobs[j]]

\* The effect of the guarded UPDATE at the end of complete() and of fail().
Settled(r, status, due) ==
  [jobs EXCEPT ![r.job] = Unlocked(r.job, status, due)]

Move(r, phase) == (runs \ {r}) \cup {[r EXCEPT !.phase = phase]}

Idle == [phase |-> "idle", elapsed |-> 0]

\* The promise of run r rejects.  Promise.all, and with it the active tick,
\* rejects at once; the other runs of the batch go on, awaited by nobody.
Throws(r) ==
  \/ /\ r.awaited
     /\ ticks' = [ticks EXCEPT ![r.worker] = Idle]
     /\ runs' = {IF x.worker = r.worker THEN [x EXCEPT !.awaited = FALSE] ELSE x :
                   x \in runs \ {r}}
  \/ /\ ~r.awaited
     /\ runs' = runs \ {r}
     /\ UNCHANGED ticks

Fault == faults < MaxFaults /\ faults' = faults + 1

-----------------------------------------------------------------------------
Init ==
  /\ jobs = [j \in Jobs |-> NoJob]
  /\ alive = Workers
  /\ ticks = [w \in Workers |-> Idle]
  /\ runs = {}
  /\ handled = [j \in Jobs |-> FALSE]
  /\ rejected = [j \in Jobs |-> FALSE]
  /\ faults = 0

\* enqueue(): an event that is enqueued again finds its row and leaves it alone.
Enqueue(j) ==
  /\ jobs' = [jobs EXCEPT ![j] = InsertIfAbsent(@)]
  /\ UNCHANGED <<alive, ticks, runs, handled, rejected, faults>>

\* replay(): an operator puts a dead job back, with its attempts reset.
Replay(j) ==
  /\ Replayable(j)
  /\ jobs[j].replays < MaxReplays
  /\ jobs' = [jobs EXCEPT ![j] =
                NewJob("pending", jobs[j].replays + 1, jobs[j].claims)]
  /\ rejected' = [rejected EXCEPT ![j] = FALSE]
  /\ UNCHANGED <<alive, ticks, runs, handled, faults>>

\* The interval timer calls tick(); it does nothing while a tick is active.
\* The clock is read here; a heartbeat is written before the claim.
StartTick(w) ==
  /\ w \in alive
  /\ ticks[w].phase = "idle"
  /\ ticks' = [ticks EXCEPT ![w] = [phase |-> "starting", elapsed |-> 0]]
  /\ UNCHANGED <<jobs, alive, runs, handled, rejected, faults>>

\* The batch a claim may take: as many ready jobs as the limit allows.
Batch(S, e) ==
  /\ S \subseteq Claimable(e)
  /\ Cardinality(S) = Least(Concurrency, Cardinality(Claimable(e)))

NewRun(j, w, e) ==
  [job |-> j, worker |-> w, claim |-> jobs[j].claims + 1, attempt |-> jobs[j].attempts + 1,
   elapsed |-> e, phase |-> "handling", awaited |-> TRUE]

\* claim(): one transaction; every claimed job starts its handler.
Claim(w) ==
  LET e == ticks[w].elapsed IN
  /\ ticks[w].phase = "starting"
  /\ \E S \in SUBSET Jobs :
       /\ Batch(S, e)
       /\ jobs' = Claimed(S, w, e)
       /\ runs' = runs \cup {NewRun(j, w, e) : j \in S}
  /\ ticks' = [ticks EXCEPT ![w] = [phase |-> "running", elapsed |-> 0]]
  /\ UNCHANGED <<alive, handled, rejected, faults>>

\* The reply of claim() is lost: the tick rejects, the rows may be locked.
ClaimFault(w) ==
  LET e == ticks[w].elapsed IN
  /\ ticks[w].phase = "starting"
  /\ Fault
  /\ \E S \in SUBSET Jobs : Batch(S, e) /\ jobs' \in {jobs, Claimed(S, w, e)}
  /\ ticks' = [ticks EXCEPT ![w] = Idle]
  /\ UNCHANGED <<alive, runs, handled, rejected>>

\* Every promise of the batch is fulfilled: the tick is over.
EndTick(w) ==
  /\ ticks[w].phase = "running"
  /\ \A r \in runs : r.worker = w => ~r.awaited
  /\ ticks' = [ticks EXCEPT ![w] = Idle]
  /\ UNCHANGED <<jobs, alive, runs, handled, rejected, faults>>

HandlerReturns(r) ==
  /\ r.phase = "handling"
  /\ runs' = Move(r, "handled")
  /\ handled' = [handled EXCEPT ![r.job] = TRUE]
  /\ UNCHANGED <<jobs, alive, ticks, rejected, faults>>

HandlerThrows_SwallowedBug(r) ==
  /\ r.phase = "handling"
  /\ runs' = Move(r, "handled")
  /\ UNCHANGED <<jobs, alive, ticks, handled, rejected, faults>>

HandlerThrows(r) ==
  /\ r.phase = "handling"
  /\ \/ runs' = Move(r, "failing") /\ UNCHANGED rejected
     \/ runs' = Move(r, "refusing") /\ rejected' = [rejected EXCEPT ![r.job] = TRUE]
  /\ UNCHANGED <<jobs, alive, ticks, handled, faults>>

\* complete(): guarded by status = 'processing' AND locked_by = workerId.
Complete(r) ==
  /\ r.phase = "handled"
  /\ Owns(r.worker, r.job)
  /\ jobs' = Settled(r, "processed", 0)
  /\ runs' = runs \ {r}
  /\ UNCHANGED <<alive, ticks, handled, rejected, faults>>

\* complete() finds the claim gone and throws; the catch block runs.
CompleteRefused(r) ==
  /\ r.phase = "handled"
  /\ ~Owns(r.worker, r.job)
  /\ runs' = Move(r, "failing")
  /\ UNCHANGED <<jobs, alive, ticks, handled, rejected, faults>>

\* The connection fails during complete(), before or after the UPDATE.
CompleteFault(r) ==
  /\ r.phase = "handled"
  /\ Fault
  /\ \/ UNCHANGED jobs
     \/ Owns(r.worker, r.job) /\ jobs' = Settled(r, "processed", 0)
  /\ runs' = Move(r, "failing")
  /\ UNCHANGED <<alive, ticks, handled, rejected>>

\* fail() reads the row and decides.  A non-retryable error makes the claim's
\* own attempt the limit.  The attempts it read are kept for the backoff.
ReadForFail(r) ==
  LET limit == IF r.phase = "refusing" THEN r.attempt ELSE MaxAttempts
      read  == jobs[r.job].attempts
      phase == IF Exhausted(read, limit) THEN "burying" ELSE "retrying" IN
  /\ r.phase \in {"failing", "refusing"}
  /\ Owns(r.worker, r.job)
  /\ runs' = (runs \ {r}) \cup {[r EXCEPT !.phase = phase, !.attempt = read]}
  /\ UNCHANGED <<jobs, alive, ticks, handled, rejected, faults>>

\* The UPDATE of fail(): guarded by the claim, like complete().  failedAt is
\* the tick's reading of the clock, so the backoff counts from there.
RecordFailure(r) ==
  /\ Owns(r.worker, r.job)
  /\ \/ r.phase = "retrying" /\ jobs' = Settled(r, "failed", Backoff(r.attempt) - r.elapsed)
     \/ r.phase = "burying"  /\ jobs' = Settled(r, "dead", 0)
  /\ runs' = runs \ {r}
  /\ UNCHANGED <<alive, ticks, handled, rejected, faults>>

\* fail() finds the claim gone, at its SELECT or at its UPDATE, and throws.
FailRefused(r) ==
  /\ r.phase \in {"failing", "refusing", "retrying", "burying"}
  /\ ~Owns(r.worker, r.job)
  /\ Throws(r)
  /\ UNCHANGED <<jobs, alive, handled, rejected, faults>>

\* The connection fails during fail(), before or after its UPDATE.
FailFault(r) ==
  /\ r.phase \in {"failing", "refusing", "retrying", "burying"}
  /\ Fault
  /\ \/ UNCHANGED jobs
     \/ /\ Owns(r.worker, r.job)
        /\ \/ /\ r.phase = "retrying"
              /\ jobs' = Settled(r, "failed", Backoff(r.attempt) - r.elapsed)
           \/ /\ r.phase = "burying"
              /\ jobs' = Settled(r, "dead", 0)
  /\ Throws(r)
  /\ UNCHANGED <<alive, handled, rejected>>

\* A worker process ends: a crash, a kill, or a shutdown that timed out.  Its
\* claims stay locked.  Another instance remains (the supervisor's part).
Exit(w) ==
  /\ w \in alive
  /\ alive # {w}
  /\ alive' = alive \ {w}
  /\ ticks' = [ticks EXCEPT ![w] = Idle]
  /\ runs' = {r \in runs : r.worker # w}
  /\ UNCHANGED <<jobs, handled, rejected, faults>>

\* A row one unit of time later.  What no Ready can tell apart is not counted.
Aged(row) ==
  CASE row.status \in {"pending", "failed"} -> [row EXCEPT !.due = Most(-MaxRun, @ - 1)]
    [] row.status = "processing" -> [row EXCEPT !.age = Least(StaleAfter + MaxRun, @ + 1)]
    [] OTHER -> row

\* One unit of time.  No run, and no tick before its claim, outlasts MaxRun.
Advance ==
  /\ \A r \in runs : r.elapsed < MaxRun
  /\ \A w \in Workers : ticks[w].phase = "starting" => ticks[w].elapsed < MaxRun
  /\ jobs' = [j \in Jobs |-> Aged(jobs[j])]
  /\ runs' = {[r EXCEPT !.elapsed = @ + 1] : r \in runs}
  /\ ticks' = [w \in Workers |->
       [ticks[w] EXCEPT !.elapsed = IF ticks[w].phase = "starting" THEN @ + 1 ELSE @]]
  /\ UNCHANGED <<alive, handled, rejected, faults>>

-----------------------------------------------------------------------------
\* What a run does without a fault of the store.
Step(r) ==
  \/ HandlerReturns(r)
  \/ HandlerThrows(r)
  \/ Complete(r)
  \/ CompleteRefused(r)
  \/ ReadForFail(r)
  \/ RecordFailure(r)
  \/ FailRefused(r)

Next ==
  \/ \E j \in Jobs : Enqueue(j) \/ Replay(j)
  \/ \E w \in Workers : StartTick(w) \/ Claim(w) \/ ClaimFault(w) \/ EndTick(w) \/ Exit(w)
  \/ \E r \in runs : Step(r) \/ CompleteFault(r) \/ FailFault(r)
  \/ Advance

Spec == Init /\ [][Next]_vars

\* Time passes, the interval timer of a live worker fires, and the promises of
\* a live process are resolved.  Nobody has to enqueue, replay or crash.
Fairness ==
  /\ WF_vars(Advance)
  /\ \A w \in Workers : WF_vars(StartTick(w)) /\ WF_vars(Claim(w)) /\ WF_vars(EndTick(w))
  /\ \A j \in Jobs, w \in Workers : WF_vars(\E r \in runs : r.job = j /\ r.worker = w /\ Step(r))

FairSpec == Spec /\ Fairness

-----------------------------------------------------------------------------
\* The rows of outbox_jobs.  The CHECK constraint of migration 0005: a job is
\* locked exactly while it is processing.
RowOK(row) ==
  /\ row \in Job
  /\ row.status = "processing" <=> row.lockedBy # None
  /\ row.attempts <= row.claims

\* Every variable has its type.
TypeOK ==
  /\ jobs \in [Jobs -> Job]
  /\ \A j \in Jobs : RowOK(jobs[j])
  /\ alive \subseteq Workers
  /\ ticks \in [Workers -> [phase : {"idle", "starting", "running"}, elapsed : Nat]]
  /\ runs \subseteq Run
  /\ handled \in [Jobs -> BOOLEAN]
  /\ rejected \in [Jobs -> BOOLEAN]
  /\ faults \in Nat

\* No event is lost: a job is only marked processed after its handler has
\* returned, whatever faults, reclaims and late answers came between.
ProcessedWasHandled ==
  \A j \in Jobs : jobs[j].status = "processed" => handled[j]

\* A processed job is never claimed, failed, replayed or enqueued anew, even
\* by a worker that comes late with a failure of an earlier claim.
StaysProcessed ==
  \A j \in Jobs : jobs[j].status = "processed" => jobs'[j] = jobs[j]

\* A claim ends only through the worker that holds it: whenever a lock is
\* released, the holder had the job in flight and was about to settle it.
SettledByOwner ==
  \A j \in Jobs :
    jobs[j].status = "processing" /\ jobs'[j].status # "processing" =>
      \E r \in runs :
        /\ r.job = j
        /\ r.worker = jobs[j].lockedBy
        /\ r.phase \in {"handled", "retrying", "burying"}
        /\ r \notin runs'

SettledOnceByOwner == [][SettledByOwner /\ StaysProcessed]_jobs

\* When handlers are quicker than the stale threshold, no job is ever in
\* flight twice: a stale claim is always one whose holder has let go of it.
ExclusiveHandling ==
  \A r, s \in runs : r.job = s.job => r = s

\* When handlers are quicker than the stale threshold, a dead job has used up
\* its attempts, or the handler has refused it since its last replay.
DeadIsJustified ==
  \A j \in Jobs : jobs[j].status = "dead" => jobs[j].attempts >= MaxAttempts \/ rejected[j]

\* When handlers are quicker than the stale threshold, a job that waits for a
\* retry has an attempt left: fail() decides on the row it then updates.
RetryHasAttemptsLeft ==
  \A j \in Jobs : jobs[j].status = "failed" => jobs[j].attempts < MaxAttempts

\* The limit on attempts is kept from both sides.
AttemptsAreCounted == DeadIsJustified /\ RetryHasAttemptsLeft

-----------------------------------------------------------------------------
\* What the outbox promises to the code that enqueues: see JobQueue.
Queue == INSTANCE JobQueue WITH
  state <- [j \in Jobs |->
              IF jobs[j].status \in {"pending", "processing", "failed"} THEN "open"
              ELSE jobs[j].status],
  done  <- handled

\* The outbox implements the queue: safety and, under fairness, progress.
QueueSpec == Queue!FairSpec

=============================================================================
