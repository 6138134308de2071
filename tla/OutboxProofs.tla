---------------------------- MODULE OutboxProofs ----------------------------
(***************************************************************************)
(* Theorems about the outbox for every number of jobs, workers, attempts,  *)
(* faults and replays.                                                     *)
(***************************************************************************)
EXTENDS Outbox, TLAPS

USE OutboxAssumption DEF Job, Run, Status, Phase

\* Operators of the model return what their names say.
LEMMA BackoffType == \A a \in 0 .. MaxClaims : Backoff(a) \in Int
  <1> TAKE a \in 0 .. MaxClaims
  <1>1. Most(0, a - 1) \in 0 .. MaxClaims
    BY DEF Most
  <1>2. 2 ^ Most(0, a - 1) \in Nat
    BY <1>1
  <1>3. BaseBackoff * 2 ^ Most(0, a - 1) \in Nat
    BY <1>2
  <1>. QED
    BY <1>3 DEF Backoff, Least

\* The table after a step, as TypeOK wants it.
TableOK(table) == table \in [Jobs -> Job] /\ \A j \in Jobs : RowOK(table[j])

LEMMA SettledType ==
  ASSUME TypeOK, NEW r \in Run, NEW due \in Int,
         NEW status \in {"failed", "processed", "dead"}
  PROVE  TableOK(Settled(r, status, due))
  <1>1. jobs \in [Jobs -> Job] /\ r.job \in Jobs /\ RowOK(jobs[r.job])
    BY DEF TypeOK
  <1>2. RowOK(Unlocked(r.job, status, due))
    BY <1>1 DEF Unlocked, RowOK
  <1>. QED
    BY <1>1, <1>2 DEF Settled, TypeOK, TableOK, RowOK

LEMMA ClaimedType ==
  ASSUME TypeOK, NEW e \in Nat, NEW S \in SUBSET Claimable(e), NEW w \in Workers
  PROVE  TableOK(Claimed(S, w, e))
  <1>1. ASSUME NEW j \in Jobs PROVE RowOK(Claimed(S, w, e)[j])
    <2>1. CASE j \in S
      <3>1. Claimed(S, w, e)[j] = Locked(jobs[j], w, e)
        BY <2>1 DEF Claimed
      <3>2. jobs[j].attempts + 1 \in 0 .. MaxClaims /\ jobs[j].claims + 1 \in 0 .. MaxClaims
        BY <2>1 DEF Claimable, TypeOK, RowOK
      <3>. QED
        BY <3>1, <3>2 DEF Locked, TypeOK, RowOK
    <2>2. CASE j \notin S
      BY <2>2 DEF Claimed, TypeOK
    <2>. QED
      BY <2>1, <2>2
  <1>. QED
    BY <1>1 DEF Claimed, TableOK, RowOK

\* The updates of a run's fields.
LEMMA RunUpdates ==
  ASSUME NEW r \in Run
  PROVE  /\ [r EXCEPT !.awaited = FALSE] \in Run
         /\ [r EXCEPT !.elapsed = @ + 1] \in Run
         /\ \A p \in Phase, a \in 0 .. MaxClaims : [r EXCEPT !.phase = p, !.attempt = a] \in Run
  <1>1. [r EXCEPT !.awaited = FALSE] \in Run
    OBVIOUS
  <1>3. [r EXCEPT !.elapsed = @ + 1] \in Run
    <2> DEFINE e == r.elapsed + 1
    <2>1. e \in Nat
      OBVIOUS
    <2> HIDE DEF e
    <2>2. [r EXCEPT !.elapsed = e] \in Run
      BY <2>1
    <2>. QED
      BY <2>2 DEF e
  <1>2. ASSUME NEW p \in Phase, NEW a \in 0 .. MaxClaims
        PROVE  [r EXCEPT !.phase = p, !.attempt = a] \in Run
    OBVIOUS
  <1>. QED
    BY <1>1, <1>2, <1>3

\* A row that ages keeps its lock and its counters.
LEMMA AgedType == ASSUME NEW row, RowOK(row) PROVE RowOK(Aged(row))
  <1> USE DEF RowOK
  <1>1. CASE row.status \in {"pending", "failed"}
    <2>1. Most(-MaxRun, row.due - 1) \in Int
      BY DEF Most
    <2>. QED
      BY <1>1, <2>1 DEF Aged
  <1>2. CASE row.status = "processing"
    <2>1. Least(StaleAfter + MaxRun, row.age + 1) \in Nat
      BY DEF Least
    <2>. QED
      BY <1>2, <2>1 DEF Aged
  <1>3. CASE row.status \notin {"pending", "failed", "processing"}
    BY <1>3 DEF Aged
  <1>. QED
    BY <1>1, <1>2, <1>3

LEMMA MoveType ==
  ASSUME runs \subseteq Run, NEW r \in runs, NEW phase \in Phase
  PROVE  Move(r, phase) \subseteq Run
  BY DEF Move

LEMMA ThrowsType ==
  ASSUME TypeOK, NEW r \in runs, Throws(r)
  PROVE  /\ runs' \subseteq Run
         /\ ticks' \in [Workers -> [phase : {"idle", "starting", "running"}, elapsed : Nat]]
  <1>1. CASE r.awaited
    <2>1. runs' = {IF x.worker = r.worker THEN [x EXCEPT !.awaited = FALSE] ELSE x : x \in runs \ {r}}
      BY <1>1 DEF Throws
    <2>2. \A x \in runs : [x EXCEPT !.awaited = FALSE] \in Run
      BY RunUpdates DEF TypeOK
    <2>3. runs' \subseteq Run
      BY <2>1, <2>2 DEF TypeOK
    <2>4. ticks' = [ticks EXCEPT ![r.worker] = Idle]
      BY <1>1 DEF Throws
    <2>. QED
      BY <2>3, <2>4 DEF TypeOK, Idle
  <1>2. CASE ~r.awaited
    BY <1>2 DEF Throws, TypeOK
  <1>. QED
    BY <1>1, <1>2

-----------------------------------------------------------------------------
(* Type correctness, with the CHECK constraint of migration 0005. *)

LEMMA TypeStep == TypeOK /\ [Next]_vars => TypeOK'
  <1> SUFFICES ASSUME TypeOK, [Next]_vars PROVE TypeOK'
    OBVIOUS
  <1>1. ASSUME NEW j \in Jobs, Enqueue(j) PROVE TypeOK'
    <2>1. RowOK(InsertIfAbsent(jobs[j]))
      BY DEF TypeOK, InsertIfAbsent, NewJob, RowOK
    <2>. QED
      BY <1>1, <2>1 DEF Enqueue, TypeOK, RowOK
  <1>2. ASSUME NEW j \in Jobs, Replay(j) PROVE TypeOK'
    <2> DEFINE row == NewJob("pending", jobs[j].replays + 1, jobs[j].claims)
    <2>1. RowOK(row)
      BY DEF NewJob, RowOK, TypeOK
    <2>2. jobs' = [jobs EXCEPT ![j] = row]
      BY <1>2 DEF Replay
    <2> HIDE DEF row
    <2>. QED
      BY <1>2, <2>1, <2>2 DEF Replay, TypeOK, RowOK
  <1>3. ASSUME NEW w \in Workers, StartTick(w) PROVE TypeOK'
    BY <1>3 DEF StartTick, TypeOK
  <1>4. ASSUME NEW w \in Workers, Claim(w) PROVE TypeOK'
    <2> DEFINE e == ticks[w].elapsed
    <2>1. e \in Nat
      BY DEF TypeOK
    <2>2. PICK S \in SUBSET Jobs :
            /\ Batch(S, e)
            /\ jobs' = Claimed(S, w, e)
            /\ runs' = runs \cup {NewRun(j, w, e) : j \in S}
      BY <1>4 DEF Claim
    <2>3. S \in SUBSET Claimable(e)
      BY <2>2 DEF Batch
    <2>4. ASSUME NEW j \in S
          PROVE  NewRun(j, w, e) \in Run
      <3>1. jobs[j].attempts + 1 \in 0 .. MaxClaims /\ jobs[j].claims + 1 \in Nat
        BY <2>3 DEF Claimable, TypeOK, RowOK
      <3>. QED
        BY <2>1, <3>1 DEF NewRun
    <2>5. runs' \subseteq Run
      BY <2>2, <2>4 DEF TypeOK
    <2>6. TableOK(jobs')
      BY <2>1, <2>2, <2>3, ClaimedType
    <2>7. ticks' \in [Workers -> [phase : {"idle", "starting", "running"}, elapsed : Nat]]
      BY <1>4 DEF Claim, TypeOK
    <2>. QED
      BY <1>4, <2>5, <2>6, <2>7 DEF Claim, TypeOK, TableOK
  <1>5. ASSUME NEW w \in Workers, ClaimFault(w) PROVE TypeOK'
    <2> DEFINE e == ticks[w].elapsed
    <2>1. e \in Nat
      BY DEF TypeOK
    <2>2. PICK S \in SUBSET Jobs : Batch(S, e) /\ jobs' \in {jobs, Claimed(S, w, e)}
      BY <1>5 DEF ClaimFault
    <2>3. S \in SUBSET Claimable(e)
      BY <2>2 DEF Batch
    <2>4. TableOK(jobs')
      BY <2>1, <2>2, <2>3, ClaimedType DEF TypeOK, TableOK
    <2>. QED
      BY <1>5, <2>4 DEF ClaimFault, Fault, Idle, TypeOK, TableOK
  <1>6. ASSUME NEW w \in Workers, EndTick(w) PROVE TypeOK'
    BY <1>6 DEF EndTick, Idle, TypeOK
  <1>7. ASSUME NEW w \in Workers, Exit(w) PROVE TypeOK'
    BY <1>7 DEF Exit, Idle, TypeOK
  <1>8. ASSUME NEW r \in runs, Step(r) \/ CompleteFault(r) \/ FailFault(r) PROVE TypeOK'
    <2>0. r \in Run /\ r.job \in Jobs /\ runs \subseteq Run
      BY DEF TypeOK
    <2>1. CASE HandlerReturns(r)
      BY <2>0, <2>1, MoveType DEF HandlerReturns, TypeOK
    <2>2. CASE HandlerThrows(r)
      BY <2>0, <2>2, MoveType DEF HandlerThrows, TypeOK
    <2>3. CASE Complete(r)
      <3>1. TableOK(jobs')
        BY <2>0, <2>3, SettledType DEF Complete
      <3>. QED
        BY <2>0, <2>3, <3>1 DEF Complete, TypeOK, TableOK
    <2>4. CASE CompleteRefused(r)
      BY <2>0, <2>4, MoveType DEF CompleteRefused, TypeOK
    <2>5. CASE ReadForFail(r)
      <3> DEFINE phase == IF Exhausted(jobs[r.job].attempts,
                                        IF r.phase = "refusing" THEN r.attempt ELSE MaxAttempts)
                          THEN "burying" ELSE "retrying"
      <3>1. [r EXCEPT !.phase = phase, !.attempt = jobs[r.job].attempts] \in Run
        BY <2>0 DEF TypeOK
      <3>. QED
        BY <2>0, <2>5, <3>1 DEF ReadForFail, TypeOK
    <2>6. Backoff(r.attempt) - r.elapsed \in Int
      BY <2>0, BackoffType
    <2>7. CASE RecordFailure(r)
      <3>1. TableOK(jobs')
        BY <2>0, <2>6, <2>7, SettledType DEF RecordFailure
      <3>. QED
        BY <2>0, <2>7, <3>1 DEF RecordFailure, TypeOK, TableOK
    <2>8. CASE FailRefused(r)
      BY <2>8, ThrowsType DEF FailRefused, TypeOK
    <2>9. CASE CompleteFault(r)
      <3>0. TableOK(jobs)
        BY DEF TypeOK, TableOK
      <3>1. TableOK(jobs')
        BY <2>0, <2>9, <3>0, SettledType DEF CompleteFault
      <3>2. runs' \subseteq Run
        BY <2>0, <2>9, MoveType DEF CompleteFault
      <3>. QED
        BY <2>9, <3>1, <3>2 DEF CompleteFault, Fault, TypeOK, TableOK
    <2>10. CASE FailFault(r)
      <3>0. TableOK(jobs)
        BY DEF TypeOK, TableOK
      <3>1. TableOK(jobs')
        BY <2>0, <2>6, <2>10, <3>0, SettledType DEF FailFault
      <3>2. Throws(r)
        BY <2>10 DEF FailFault
      <3>. QED
        BY <2>10, <3>1, <3>2, ThrowsType DEF FailFault, Fault, TypeOK, TableOK
    <2>. QED
      BY <1>8, <2>1, <2>2, <2>3, <2>4, <2>5, <2>7, <2>8, <2>9, <2>10 DEF Step
  <1>9. CASE Advance
    <2>1. jobs' = [j \in Jobs |-> Aged(jobs[j])]
      BY <1>9 DEF Advance
    <2>2. \A j \in Jobs : RowOK(Aged(jobs[j]))
      BY AgedType DEF TypeOK
    <2>3. \A r \in runs : [r EXCEPT !.elapsed = @ + 1] \in Run
      BY RunUpdates DEF TypeOK
    <2>4. runs' \subseteq Run
      BY <1>9, <2>3 DEF Advance
    <2>5. ticks' \in [Workers -> [phase : {"idle", "starting", "running"}, elapsed : Nat]]
      <3>1. \A w \in Workers :
              [ticks[w] EXCEPT !.elapsed = IF ticks[w].phase = "starting" THEN @ + 1 ELSE @]
                \in [phase : {"idle", "starting", "running"}, elapsed : Nat]
        BY DEF TypeOK
      <3>. QED
        BY <1>9, <3>1 DEF Advance
    <2>. QED
      BY <1>9, <2>1, <2>2, <2>4, <2>5 DEF Advance, TypeOK, RowOK
  <1>10. CASE UNCHANGED vars
    BY <1>10 DEF vars, TypeOK
  <1>. QED
    BY <1>1, <1>2, <1>3, <1>4, <1>5, <1>6, <1>7, <1>8, <1>9, <1>10 DEF Next

\* Every reachable state is well typed, and a row is locked exactly while it is
\* processing (the CHECK constraint of outbox_jobs).
THEOREM TypeCorrect == Spec => []TypeOK
  <1>1. Init => TypeOK
    BY DEF Init, TypeOK, RowOK, NoJob, NewJob, Idle
  <1>. QED
    BY <1>1, TypeStep, PTL DEF Spec

-----------------------------------------------------------------------------
(* No event is lost and no processed job comes back, for any handler time. *)

\* A run reaches complete() only after its handler has returned.
HandledInv ==
  /\ ProcessedWasHandled
  /\ \A r \in runs : r.phase = "handled" => handled[r.job]

\* The one row that a settlement changes.
LEMMA SettledRow ==
  ASSUME TypeOK, NEW r \in Run, NEW status, NEW due, NEW j \in Jobs
  PROVE  /\ j # r.job => Settled(r, status, due)[j] = jobs[j]
         /\ j = r.job => /\ Settled(r, status, due)[j].status = status
                        /\ Settled(r, status, due)[j].lockedBy = None
                        /\ Settled(r, status, due)[j].attempts = jobs[j].attempts
  <1>1. Unlocked(j, status, due).status = status
    BY DEF Unlocked, TypeOK
  <1>2. Unlocked(j, status, due).lockedBy = None
    BY DEF Unlocked, TypeOK
  <1>3. Unlocked(j, status, due).attempts = jobs[j].attempts
    BY DEF Unlocked, TypeOK
  <1>. QED
    BY <1>1, <1>2, <1>3 DEF Settled, TypeOK

\* What Throws and Advance do to the runs does not concern phase, job or worker.
LEMMA ThrowsRuns ==
  ASSUME TypeOK, NEW r \in runs, Throws(r), NEW x \in runs'
  PROVE  \E y \in runs \ {r} : x \in {y, [y EXCEPT !.awaited = FALSE]}
  <1>1. CASE r.awaited
    <2>1. runs' = {IF y.worker = r.worker THEN [y EXCEPT !.awaited = FALSE] ELSE y : y \in runs \ {r}}
      BY <1>1 DEF Throws
    <2>2. PICK y \in runs \ {r} :
            x = IF y.worker = r.worker THEN [y EXCEPT !.awaited = FALSE] ELSE y
      BY <2>1
    <2>. QED
      BY <2>2
  <1>2. CASE ~r.awaited
    BY <1>2 DEF Throws
  <1>. QED
    BY <1>1, <1>2

LEMMA AwaitedUpdate ==
  ASSUME NEW y \in Run, NEW x \in {y, [y EXCEPT !.awaited = FALSE]}
  PROVE  /\ x.job = y.job /\ x.worker = y.worker /\ x.phase = y.phase
         /\ x.attempt = y.attempt /\ x.elapsed = y.elapsed /\ x.claim = y.claim
  OBVIOUS

LEMMA ElapsedUpdate ==
  ASSUME NEW y \in Run, NEW x, x = [y EXCEPT !.elapsed = @ + 1]
  PROVE  /\ x.job = y.job /\ x.worker = y.worker /\ x.phase = y.phase
         /\ x.attempt = y.attempt /\ x.elapsed = y.elapsed + 1 /\ x.claim = y.claim
  OBVIOUS

LEMMA HandledStep == TypeOK /\ HandledInv /\ [Next]_vars => HandledInv'
  <1> SUFFICES ASSUME TypeOK, HandledInv, [Next]_vars PROVE HandledInv'
    OBVIOUS
  <1> USE DEF HandledInv, ProcessedWasHandled
  <1>1. ASSUME NEW j \in Jobs, Enqueue(j) PROVE HandledInv'
    BY <1>1 DEF Enqueue, InsertIfAbsent, NewJob, TypeOK
  <1>2. ASSUME NEW j \in Jobs, Replay(j) PROVE HandledInv'
    BY <1>2 DEF Replay, NewJob, TypeOK
  <1>3. ASSUME NEW w \in Workers, StartTick(w) \/ EndTick(w) \/ Exit(w) PROVE HandledInv'
    BY <1>3 DEF StartTick, EndTick, Exit, TypeOK
  <1>4. ASSUME NEW w \in Workers, Claim(w) PROVE HandledInv'
    <2>1. \A j \in Jobs : jobs'[j].status = "processed" => jobs[j].status = "processed"
      BY <1>4 DEF Claim, Claimed, Locked, TypeOK
    <2>2. \A x \in runs' : x \in runs \/ x.phase = "handling"
      BY <1>4 DEF Claim, NewRun
    <2>. QED
      BY <1>4, <2>1, <2>2 DEF Claim, TypeOK
  <1>5. ASSUME NEW w \in Workers, ClaimFault(w) PROVE HandledInv'
    <2>1. \A j \in Jobs : jobs'[j].status = "processed" => jobs[j].status = "processed"
      BY <1>5 DEF ClaimFault, Claimed, Locked, TypeOK
    <2>. QED
      BY <1>5, <2>1 DEF ClaimFault, TypeOK
  <1>6. ASSUME NEW r \in runs, Step(r) \/ CompleteFault(r) \/ FailFault(r) PROVE HandledInv'
    <2>0. r \in Run /\ r.job \in Jobs
      BY DEF TypeOK
    <2>1. CASE HandlerReturns(r)
      BY <2>0, <2>1 DEF HandlerReturns, Move, TypeOK
    <2>2. CASE HandlerThrows(r)
      BY <2>0, <2>2 DEF HandlerThrows, Move, TypeOK
    <2>3. CASE Complete(r)
      BY <2>0, <2>3 DEF Complete, Settled, Unlocked, TypeOK
    <2>4. CASE CompleteRefused(r)
      BY <2>0, <2>4 DEF CompleteRefused, Move, TypeOK
    <2>5. CASE ReadForFail(r)
      BY <2>0, <2>5 DEF ReadForFail, TypeOK
    <2>6. CASE RecordFailure(r)
      BY <2>0, <2>6, SettledRow DEF RecordFailure, TypeOK
    <2>7. CASE CompleteFault(r)
      BY <2>0, <2>7 DEF CompleteFault, Settled, Unlocked, Move, TypeOK
    <2>8. CASE FailRefused(r) \/ FailFault(r)
      <3>1. \A j \in Jobs : jobs'[j].status = "processed" => jobs[j].status = "processed"
        BY <2>0, <2>8, SettledRow DEF FailRefused, FailFault
      <3>2. \A x \in runs' : x.phase = "handled" => handled[x.job]
        <4>1. TAKE x \in runs'
        <4>2. PICK y \in runs \ {r} : x \in {y, [y EXCEPT !.awaited = FALSE]}
          BY <2>8, ThrowsRuns DEF FailRefused, FailFault
        <4>. QED
          BY <4>2, AwaitedUpdate DEF TypeOK
      <3>. QED
        BY <2>8, <3>1, <3>2 DEF FailRefused, FailFault
    <2>. QED
      BY <1>6, <2>1, <2>2, <2>3, <2>4, <2>5, <2>6, <2>7, <2>8 DEF Step
  <1>7. CASE Advance
    <2>1. \A j \in Jobs : jobs'[j].status = jobs[j].status
      BY <1>7 DEF Advance, Aged, TypeOK
    <2>2. \A x \in runs' : \E y \in runs : x = [y EXCEPT !.elapsed = @ + 1]
      BY <1>7 DEF Advance
    <2>3. \A x \in runs' : x.phase = "handled" => handled[x.job]
      BY <2>2, ElapsedUpdate DEF TypeOK
    <2>. QED
      BY <1>7, <2>1, <2>3 DEF Advance
  <1>8. CASE UNCHANGED vars
    BY <1>8 DEF vars
  <1>. QED
    BY <1>1, <1>2, <1>3, <1>4, <1>5, <1>6, <1>7, <1>8 DEF Next

\* No event is lost: a job is marked processed only after its handler has
\* returned, whatever crashes, faults, reclaims and late answers came between.
THEOREM NoEventLost == Spec => []ProcessedWasHandled
  <1>1. Init => HandledInv
    BY DEF Init, HandledInv, ProcessedWasHandled, NoJob, NewJob
  <1>2. HandledInv => ProcessedWasHandled
    BY DEF HandledInv
  <1>. QED
    BY <1>1, <1>2, HandledStep, TypeCorrect, PTL DEF Spec

\* A processed job stays as it is: no claim, no late failure of an earlier
\* claim, no replay and no repeated enqueue changes its row.
LEMMA ProcessedStays ==
  ASSUME TypeOK, [Next]_vars
  PROVE  StaysProcessed
  <1> SUFFICES ASSUME NEW j \in Jobs, jobs[j].status = "processed"
               PROVE  jobs'[j] = jobs[j]
    BY DEF StaysProcessed
  <1>1. ASSUME NEW i \in Jobs, Enqueue(i) \/ Replay(i) PROVE jobs'[j] = jobs[j]
    BY <1>1 DEF Enqueue, InsertIfAbsent, Replay, Replayable, TypeOK
  <1>2. ASSUME NEW w \in Workers, Claim(w) \/ ClaimFault(w) PROVE jobs'[j] = jobs[j]
    BY <1>2 DEF Claim, ClaimFault, Batch, Claimable, Ready, Claimed, TypeOK
  <1>3. ASSUME NEW w \in Workers, StartTick(w) \/ EndTick(w) \/ Exit(w) PROVE jobs'[j] = jobs[j]
    BY <1>3 DEF StartTick, EndTick, Exit
  <1>4. ASSUME NEW r \in runs, Step(r) \/ CompleteFault(r) \/ FailFault(r)
        PROVE  jobs'[j] = jobs[j]
    BY <1>4 DEF Step, HandlerReturns, HandlerThrows, Complete, CompleteRefused, CompleteFault,
                ReadForFail, RecordFailure, FailRefused, FailFault, Settled, Owns, TypeOK
  <1>5. CASE Advance
    BY <1>5 DEF Advance, Aged, TypeOK
  <1>6. CASE UNCHANGED vars
    BY <1>6 DEF vars
  <1>. QED
    BY <1>1, <1>2, <1>3, <1>4, <1>5, <1>6 DEF Next

\* A run that leaves the catch block, or complete(), leaves the runs.
LEMMA ThrowsLeaves ==
  ASSUME TypeOK, NEW r \in runs, Throws(r)
  PROVE  r \notin runs'
  <1>1. CASE r.awaited
    <2>. SUFFICES ASSUME r.awaited, NEW x \in runs, x # r,
                         r = IF x.worker = r.worker THEN [x EXCEPT !.awaited = FALSE] ELSE x
                  PROVE  FALSE
      BY <1>1 DEF Throws
    <2>1. x.worker = r.worker /\ r = [x EXCEPT !.awaited = FALSE]
      OBVIOUS
    <2>2. r.awaited = FALSE
      BY <2>1 DEF TypeOK
    <2>. QED
      BY <2>2
  <1>2. CASE ~r.awaited
    BY <1>2 DEF Throws
  <1>. QED
    BY <1>1, <1>2

\* Only a run that owns the claim takes a row out of "processing".
LEMMA OwnerSettles ==
  ASSUME TypeOK, [Next]_vars
  PROVE  SettledByOwner
  <1> DEFINE Owner(j, r) == /\ r.job = j
                            /\ r.worker = jobs[j].lockedBy
                            /\ r.phase \in {"handled", "retrying", "burying"}
                            /\ r \notin runs'
  <1> SUFFICES ASSUME NEW j \in Jobs, jobs[j].status = "processing", jobs'[j].status # "processing"
               PROVE  \E r \in runs : Owner(j, r)
    BY DEF SettledByOwner
  <1>1. ASSUME NEW i \in Jobs, Enqueue(i) \/ Replay(i) PROVE FALSE
    BY <1>1 DEF Enqueue, InsertIfAbsent, Replay, Replayable, TypeOK
  <1>2. ASSUME NEW w \in Workers, Claim(w) \/ ClaimFault(w) PROVE FALSE
    <2>1. PICK S \in SUBSET Jobs, e \in Int : jobs' = jobs \/ jobs' = Claimed(S, w, e)
      BY <1>2 DEF Claim, ClaimFault, TypeOK
    <2>2. jobs'[j] \in {jobs[j], Locked(jobs[j], w, e)}
      BY <2>1 DEF Claimed
    <2>. QED
      BY <2>2 DEF Locked
  <1>3. ASSUME NEW w \in Workers, StartTick(w) \/ EndTick(w) \/ Exit(w) PROVE FALSE
    BY <1>3 DEF StartTick, EndTick, Exit
  <1>4. ASSUME NEW r \in runs, Step(r) \/ CompleteFault(r) \/ FailFault(r)
        PROVE  Owner(j, r)
    <2>1. r.job = j /\ Owns(r.worker, j)
      BY <1>4 DEF Step, HandlerReturns, HandlerThrows, Complete, CompleteRefused, CompleteFault,
                  ReadForFail, RecordFailure, FailRefused, FailFault, Settled, TypeOK
    <2>2. r.phase \in {"handled", "retrying", "burying"}
      BY <1>4 DEF Step, HandlerReturns, HandlerThrows, Complete, CompleteRefused, CompleteFault,
                  ReadForFail, RecordFailure, FailRefused, FailFault
    <2>3. r \notin runs'
      <3>1. CASE FailFault(r)
        BY <3>1, ThrowsLeaves DEF FailFault
      <3>2. CASE CompleteFault(r)
        BY <3>2 DEF CompleteFault, Move, TypeOK
      <3>3. CASE Step(r)
        BY <3>3 DEF Step, HandlerReturns, HandlerThrows, Complete, CompleteRefused, ReadForFail,
                    RecordFailure, FailRefused
      <3>. QED
        BY <1>4, <3>1, <3>2, <3>3
    <2>. QED
      BY <2>1, <2>2, <2>3 DEF Owns
  <1>5. CASE Advance
    BY <1>5 DEF Advance, Aged, TypeOK
  <1>6. CASE UNCHANGED vars
    BY <1>6 DEF vars
  <1>. QED
    BY <1>1, <1>2, <1>3, <1>4, <1>5, <1>6 DEF Next

\* However long the handlers take: a claim ends only through its holder, and
\* nothing brings a processed job back.
THEOREM SettledOnce == Spec => SettledOnceByOwner
  <1>1. TypeOK /\ [Next]_vars => [SettledByOwner /\ StaysProcessed]_jobs
    BY ProcessedStays, OwnerSettles
  <1>. QED
    BY <1>1, TypeCorrect, PTL DEF Spec, SettledOnceByOwner

-----------------------------------------------------------------------------
(* The outbox implements the queue that its callers see, as far as safety  *)
(* goes: every step of a worker is a step of JobQueue or hidden from it.   *)

\* The status of a row as JobQueue has it.
Shown(row) ==
  IF row.status \in {"pending", "processing", "failed"} THEN "open" ELSE row.status

\* No row is ever deleted, and a run comes from a row.
RunsHaveRows == \A r \in runs : jobs[r.job].status # "absent"

\* No step that a caller can see: the statuses differ in what JobQueue hides.
LEMMA HiddenStep ==
  ASSUME \A j \in Jobs : Shown(jobs'[j]) = Shown(jobs[j]), handled' = handled
  PROVE  UNCHANGED Queue!vars
  BY DEF Queue!vars, Shown

\* The state of the queue after a step that changes one row.
LEMMA OneRowShown ==
  ASSUME NEW j \in Jobs, \A i \in Jobs \ {j} : jobs'[i] = jobs[i]
  PROVE  [i \in Jobs |-> Shown(jobs[i])]' =
           [[i \in Jobs |-> Shown(jobs[i])] EXCEPT ![j] = Shown(jobs'[j])]
  OBVIOUS

\* A settlement is an acknowledgement, a dead letter, or hidden as a retry is.
LEMMA SettlementShown ==
  ASSUME TypeOK, NEW r \in Run, NEW due, NEW status \in {"failed", "processed", "dead"},
         Owns(r.worker, r.job), jobs' = Settled(r, status, due), handled' = handled,
         status = "processed" => handled[r.job]
  PROVE  [Queue!Next]_(Queue!vars)
  <1>1. \A i \in Jobs \ {r.job} : jobs'[i] = jobs[i]
    BY SettledRow
  <1>2. jobs'[r.job].status = status /\ r.job \in Jobs
    BY SettledRow
  <1>3. jobs[r.job].status = "processing"
    BY DEF Owns
  <1>4. CASE status = "failed"
    <2>1. \A j \in Jobs : Shown(jobs'[j]) = Shown(jobs[j])
      BY <1>1, <1>2, <1>3, <1>4 DEF Shown
    <2>. QED
      BY <2>1, HiddenStep
  <1>5. CASE status = "processed"
    <2>1. Queue!Acknowledge(r.job)
      BY <1>1, <1>2, <1>3, <1>5, OneRowShown DEF Queue!Acknowledge, Shown
    <2>. QED
      BY <1>2, <2>1 DEF Queue!Next
  <1>6. CASE status = "dead"
    <2>1. Queue!GiveUp(r.job)
      BY <1>1, <1>2, <1>3, <1>6, OneRowShown DEF Queue!GiveUp, Shown
    <2>. QED
      BY <1>2, <2>1 DEF Queue!Next
  <1>. QED
    BY <1>4, <1>5, <1>6

\* What a claim locks was open and stays open.
LEMMA ClaimShown ==
  ASSUME TypeOK, NEW w \in Workers, NEW e \in Nat, NEW S \in SUBSET Claimable(e)
  PROVE  \A j \in Jobs : Shown(Claimed(S, w, e)[j]) = Shown(jobs[j])
  BY DEF Claimed, Claimable, Ready, Locked, Shown

LEMMA QueueStep ==
  TypeOK /\ HandledInv /\ RunsHaveRows /\ [Next]_vars => [Queue!Next]_(Queue!vars)
  <1> SUFFICES ASSUME TypeOK, HandledInv, RunsHaveRows, [Next]_vars
               PROVE  [Queue!Next]_(Queue!vars)
    OBVIOUS
  <1>1. ASSUME NEW j \in Jobs, Enqueue(j) PROVE [Queue!Next]_(Queue!vars)
    <2>1. CASE jobs[j].status = "absent"
      <3>1. (\A i \in Jobs \ {j} : jobs'[i] = jobs[i]) /\ jobs'[j].status = "pending"
        BY <1>1, <2>1 DEF Enqueue, InsertIfAbsent, NewJob, TypeOK
      <3>2. Queue!Submit(j)
        BY <1>1, <2>1, <3>1, OneRowShown DEF Enqueue, Queue!Submit, Shown
      <3>. QED
        BY <3>2 DEF Queue!Next
    <2>2. CASE jobs[j].status # "absent"
      <3>1. jobs' = jobs
        BY <1>1, <2>2 DEF Enqueue, InsertIfAbsent, TypeOK
      <3>. QED
        BY <1>1, <3>1, HiddenStep DEF Enqueue
    <2>. QED
      BY <2>1, <2>2
  <1>2. ASSUME NEW j \in Jobs, Replay(j) PROVE [Queue!Next]_(Queue!vars)
    <2>1. (\A i \in Jobs \ {j} : jobs'[i] = jobs[i]) /\ jobs'[j].status = "pending"
      BY <1>2 DEF Replay, NewJob, TypeOK
    <2>2. Queue!Requeue(j)
      BY <1>2, <2>1, OneRowShown DEF Replay, Replayable, Queue!Requeue, Shown
    <2>. QED
      BY <2>2 DEF Queue!Next
  <1>3. ASSUME NEW w \in Workers, StartTick(w) \/ EndTick(w) \/ Exit(w)
        PROVE  [Queue!Next]_(Queue!vars)
    BY <1>3, HiddenStep DEF StartTick, EndTick, Exit
  <1>4. ASSUME NEW w \in Workers, Claim(w) \/ ClaimFault(w)
        PROVE  [Queue!Next]_(Queue!vars)
    <2>1. ticks[w].elapsed \in Nat
      BY DEF TypeOK
    <2>2. PICK S \in SUBSET Claimable(ticks[w].elapsed) :
            jobs' \in {jobs, Claimed(S, w, ticks[w].elapsed)}
      BY <1>4 DEF Claim, ClaimFault, Batch
    <2>3. \A j \in Jobs : Shown(jobs'[j]) = Shown(jobs[j])
      BY <2>1, <2>2, ClaimShown
    <2>. QED
      BY <1>4, <2>3, HiddenStep DEF Claim, ClaimFault
  <1>5. ASSUME NEW r \in runs, Step(r) \/ CompleteFault(r) \/ FailFault(r)
        PROVE  [Queue!Next]_(Queue!vars)
    <2>0. r \in Run /\ r.job \in Jobs
      BY DEF TypeOK
    <2>1. CASE HandlerReturns(r)
      <3>1. Queue!Deliver(r.job)
        BY <2>0, <2>1 DEF HandlerReturns, RunsHaveRows, Queue!Deliver, TypeOK
      <3>. QED
        BY <2>0, <3>1 DEF Queue!Next
    <2>2. CASE HandlerThrows(r) \/ CompleteRefused(r) \/ ReadForFail(r) \/ FailRefused(r)
      BY <2>2, HiddenStep DEF HandlerThrows, CompleteRefused, ReadForFail, FailRefused
    <2>3. CASE Complete(r) \/ CompleteFault(r)
      <3>1. r.phase = "handled" /\ handled' = handled
        BY <2>3 DEF Complete, CompleteFault
      <3>2. jobs' = jobs \/ (Owns(r.worker, r.job) /\ jobs' = Settled(r, "processed", 0))
        BY <2>3 DEF Complete, CompleteFault
      <3>3. handled[r.job]
        BY <3>1 DEF HandledInv
      <3>. QED
        BY <2>0, <3>1, <3>2, <3>3, SettlementShown, HiddenStep
    <2>4. CASE RecordFailure(r) \/ FailFault(r)
      <3>1. handled' = handled
        BY <2>4 DEF RecordFailure, FailFault
      <3>2. \/ jobs' = jobs
            \/ /\ Owns(r.worker, r.job)
               /\ \E due : jobs' = Settled(r, "failed", due) \/ jobs' = Settled(r, "dead", due)
        BY <2>4 DEF RecordFailure, FailFault
      <3>. QED
        BY <2>0, <3>1, <3>2, SettlementShown, HiddenStep
    <2>. QED
      BY <1>5, <2>1, <2>2, <2>3, <2>4 DEF Step
  <1>6. CASE Advance
    <2>1. \A j \in Jobs : jobs'[j].status = jobs[j].status
      BY <1>6 DEF Advance, Aged, TypeOK
    <2>. QED
      BY <1>6, <2>1, HiddenStep DEF Advance, Shown
  <1>7. CASE UNCHANGED vars
    BY <1>7, HiddenStep DEF vars
  <1>. QED
    BY <1>1, <1>2, <1>3, <1>4, <1>5, <1>6, <1>7 DEF Next

\* A row, once there, stays: nothing is deleted from outbox_jobs.
LEMMA RowsStay ==
  ASSUME TypeOK, [Next]_vars
  PROVE  \A j \in Jobs : jobs[j].status # "absent" => jobs'[j].status # "absent"
  <1> SUFFICES ASSUME NEW j \in Jobs, jobs[j].status # "absent"
               PROVE  jobs'[j].status # "absent"
    OBVIOUS
  <1>1. ASSUME NEW i \in Jobs, Enqueue(i) \/ Replay(i) PROVE jobs'[j].status # "absent"
    <2>1. jobs'[j] = jobs[j] \/ jobs'[j].status = "pending"
      <3>1. CASE Enqueue(i)
        BY <3>1 DEF Enqueue, InsertIfAbsent, NewJob, TypeOK
      <3>2. CASE Replay(i)
        BY <3>2 DEF Replay, NewJob, TypeOK
      <3>. QED
        BY <1>1, <3>1, <3>2
    <2>. QED
      BY <2>1
  <1>2. ASSUME NEW w \in Workers, Claim(w) \/ ClaimFault(w) PROVE jobs'[j].status # "absent"
    BY <1>2 DEF Claim, ClaimFault, Claimed, Locked, TypeOK
  <1>3. ASSUME NEW w \in Workers, StartTick(w) \/ EndTick(w) \/ Exit(w)
        PROVE  jobs'[j].status # "absent"
    BY <1>3 DEF StartTick, EndTick, Exit
  <1>4. ASSUME NEW r \in runs, Step(r) \/ CompleteFault(r) \/ FailFault(r)
        PROVE  jobs'[j].status # "absent"
    <2>1. \/ jobs' = jobs
          \/ \E status \in {"failed", "processed", "dead"} : \E due : jobs' = Settled(r, status, due)
      BY <1>4 DEF Step, HandlerReturns, HandlerThrows, Complete, CompleteRefused, CompleteFault,
                  ReadForFail, RecordFailure, FailRefused, FailFault
    <2>. QED
      BY <2>1, SettledRow DEF TypeOK
  <1>5. CASE Advance
    BY <1>5 DEF Advance, Aged, TypeOK
  <1>6. CASE UNCHANGED vars
    BY <1>6 DEF vars
  <1>. QED
    BY <1>1, <1>2, <1>3, <1>4, <1>5, <1>6 DEF Next

LEMMA RowsStep == TypeOK /\ RunsHaveRows /\ [Next]_vars => RunsHaveRows'
  <1> SUFFICES ASSUME TypeOK, RunsHaveRows, [Next]_vars, NEW x \in runs'
               PROVE  jobs'[x.job].status # "absent"
    BY DEF RunsHaveRows
  <1>1. CASE \E y \in runs : x.job = y.job
    BY <1>1, RowsStay DEF RunsHaveRows, TypeOK
  <1>2. ASSUME NEW w \in Workers, Claim(w) PROVE jobs'[x.job].status # "absent"
    <2>1. CASE x \in runs
      BY <1>1, <2>1
    <2>2. CASE x \notin runs
      BY <1>2, <2>2 DEF Claim, NewRun, Claimed, Locked
    <2>. QED
      BY <2>1, <2>2
  <1>3. ASSUME NEW r \in runs, Step(r) \/ CompleteFault(r) \/ FailFault(r)
        PROVE  \E y \in runs : x.job = y.job
    <2>1. CASE Throws(r)
      BY <2>1, ThrowsRuns, AwaitedUpdate DEF TypeOK
    <2>2. CASE ReadForFail(r)
      BY <2>2 DEF ReadForFail, TypeOK
    <2>3. CASE Complete(r) \/ RecordFailure(r)
      BY <2>3 DEF Complete, RecordFailure
    <2>4. CASE \E phase \in Phase : runs' = Move(r, phase)
      BY <2>4 DEF Move, TypeOK
    <2>. QED
      BY <1>3, <2>1, <2>2, <2>3, <2>4
         DEF Step, HandlerReturns, HandlerThrows, CompleteRefused, CompleteFault, FailRefused, FailFault
  <1>4. CASE Advance
    BY <1>1, <1>4 DEF Advance, TypeOK
  <1>. QED
    BY <1>1, <1>2, <1>3, <1>4
       DEF Next, vars, Enqueue, Replay, StartTick, EndTick, Exit, ClaimFault

\* What enqueueOutboxEvent promises: the outbox is the queue of JobQueue to its
\* callers.  An event once taken stays until a handler has succeeded or the job
\* is dead, and a dead one comes back by a replay only.
THEOREM ImplementsQueue == Spec => Queue!Spec
  <1>1. Init => HandledInv /\ RunsHaveRows /\ Queue!Init
    BY DEF Init, HandledInv, ProcessedWasHandled, RunsHaveRows, NoJob, NewJob, Queue!Init
  <1>. QED
    BY <1>1, HandledStep, RowsStep, QueueStep, TypeCorrect, PTL DEF Spec, Queue!Spec

-----------------------------------------------------------------------------
(* Handlers quicker than the stale threshold: no job is in flight twice.   *)

\* The row behind a run.  Its lock is never older than the run, so that it is
\* not stale while the run lasts; a row that has left "processing" under a run
\* was completed by an UPDATE whose reply was lost.
RunOK(r) ==
  /\ r.elapsed <= MaxRun
  /\ jobs[r.job].status \in {"processing", "processed"}
  /\ jobs[r.job].status = "processing" =>
       /\ jobs[r.job].lockedBy = r.worker
       /\ jobs[r.job].age <= r.elapsed
       /\ jobs[r.job].attempts = r.attempt
  /\ r.phase = "refusing" => rejected[r.job]
  /\ r.phase = "retrying" => r.attempt < MaxAttempts
  /\ r.phase = "burying" => r.attempt >= MaxAttempts \/ rejected[r.job]

TimelyInv ==
  /\ \A w \in Workers : ticks[w].elapsed <= MaxRun
  /\ \A r \in runs : RunOK(r)
  /\ ExclusiveHandling
  /\ DeadIsJustified
  /\ RetryHasAttemptsLeft

\* A job in flight is never claimed.
LEMMA InFlightNotClaimable ==
  ASSUME MaxRun < StaleAfter, TypeOK, NEW r \in runs, RunOK(r), NEW e \in Nat
  PROVE  r.job \notin Claimable(e)
  BY DEF RunOK, Claimable, Ready, TypeOK

\* A step that replaces run r by a run of the same job, or drops it, and leaves
\* every other run and every other row alone.
LEMMA OneRunStep ==
  ASSUME TypeOK, TimelyInv, NEW r \in runs, NEW x,
         x.job = r.job,
         runs' \subseteq (runs \ {r}) \cup {x},
         x \in runs' => RunOK(x)',
         \A j \in Jobs : j # r.job => jobs'[j] = jobs[j] /\ rejected'[j] = rejected[j]
  PROVE  (\A y \in runs' : RunOK(y)') /\ ExclusiveHandling'
  <1>1. \A y \in runs \ {r} : y.job # r.job /\ y.job \in Jobs
    BY DEF TimelyInv, ExclusiveHandling, TypeOK
  <1>2. ASSUME NEW y \in runs \ {r} PROVE RunOK(y)'
    <2>1. jobs'[y.job] = jobs[y.job] /\ rejected'[y.job] = rejected[y.job] /\ RunOK(y)
      BY <1>1, <1>2 DEF TimelyInv
    <2>. QED
      BY <2>1 DEF RunOK
  <1>3. ExclusiveHandling'
    BY <1>1 DEF TimelyInv, ExclusiveHandling
  <1>. QED
    BY <1>2, <1>3

\* The same when the promise of r rejects: the other runs only lose their tick.
LEMMA ThrowsStep ==
  ASSUME TypeOK, TimelyInv, NEW r \in runs, Throws(r),
         \A j \in Jobs : j # r.job => jobs'[j] = jobs[j],
         rejected' = rejected
  PROVE  /\ \A x \in runs' : RunOK(x)'
         /\ ExclusiveHandling'
         /\ \A w \in Workers : ticks'[w].elapsed <= MaxRun
  <1>1. \A y \in runs \ {r} : y.job # r.job /\ y.job \in Jobs /\ y \in Run /\ RunOK(y)
    BY DEF TimelyInv, ExclusiveHandling, TypeOK
  <1>2. ASSUME NEW x \in runs' PROVE RunOK(x)'
    <2>1. PICK y \in runs \ {r} : x \in {y, [y EXCEPT !.awaited = FALSE]}
      BY <1>2, ThrowsRuns
    <2>2. /\ x.job = y.job /\ x.worker = y.worker /\ x.phase = y.phase
          /\ x.attempt = y.attempt /\ x.elapsed = y.elapsed
      BY <1>1, <2>1, AwaitedUpdate
    <2>3. jobs'[y.job] = jobs[y.job]
      BY <1>1
    <2>. QED
      BY <1>1, <2>2, <2>3 DEF RunOK
  <1>3. ExclusiveHandling'
    <2> DEFINE f(y) == IF y.worker = r.worker THEN [y EXCEPT !.awaited = FALSE] ELSE y
    <2>1. runs' = {f(y) : y \in runs \ {r}} \/ runs' = runs \ {r}
      BY DEF Throws
    <2>2. CASE runs' = runs \ {r}
      BY <2>2 DEF TimelyInv, ExclusiveHandling
    <2>3. CASE runs' = {f(y) : y \in runs \ {r}}
      <3>1. \A y \in runs : f(y).job = y.job
        BY AwaitedUpdate DEF TypeOK
      <3> HIDE DEF f
      <3>. QED
        BY <2>3, <3>1 DEF TimelyInv, ExclusiveHandling
    <2>. QED
      BY <2>1, <2>2, <2>3
  <1>4. \A w \in Workers : ticks'[w].elapsed <= MaxRun
    BY DEF Throws, Idle, TypeOK, TimelyInv
  <1>. QED
    BY <1>2, <1>3, <1>4

\* The rows after a step that does not settle anything as failed or dead.
LEMMA JustifiedStep ==
  ASSUME TypeOK, TimelyInv,
         \A j \in Jobs : \/ jobs'[j].status \notin {"failed", "dead"}
                         \/ /\ jobs'[j].status = jobs[j].status
                            /\ jobs'[j].attempts = jobs[j].attempts
                            /\ rejected[j] => rejected'[j]
  PROVE  DeadIsJustified' /\ RetryHasAttemptsLeft'
  BY DEF TimelyInv, DeadIsJustified, RetryHasAttemptsLeft

\* The rows after fail() has settled r, which holds its claim, as its phase says.
LEMMA FailJustified ==
  ASSUME TypeOK, TimelyInv, NEW r \in runs, NEW due, Owns(r.worker, r.job),
         rejected' = rejected,
         \/ r.phase = "retrying" /\ jobs' = Settled(r, "failed", due)
         \/ r.phase = "burying" /\ jobs' = Settled(r, "dead", due)
  PROVE  DeadIsJustified' /\ RetryHasAttemptsLeft'
  <1>1. r \in Run /\ r.job \in Jobs /\ RunOK(r)
    BY DEF TimelyInv, TypeOK
  <1>2. jobs[r.job].attempts = r.attempt
    BY <1>1 DEF RunOK, Owns
  <1>3. \A j \in Jobs : j # r.job => jobs'[j] = jobs[j]
    BY <1>1, SettledRow
  <1>4. /\ jobs'[r.job].attempts = r.attempt
        /\ r.phase = "retrying" => jobs'[r.job].status = "failed"
        /\ r.phase = "burying" => jobs'[r.job].status = "dead"
    BY <1>1, <1>2, SettledRow
  <1>. QED
    BY <1>1, <1>3, <1>4 DEF RunOK, TimelyInv, DeadIsJustified, RetryHasAttemptsLeft

LEMMA TimelyRunStep ==
  ASSUME MaxRun < StaleAfter, TypeOK, TimelyInv, NEW r \in runs,
         Step(r) \/ CompleteFault(r) \/ FailFault(r)
  PROVE  TimelyInv'
  <1>0. /\ r \in Run /\ r.job \in Jobs /\ RunOK(r)
        /\ \A p \in Phase : [r EXCEPT !.phase = p] \in Run /\ [r EXCEPT !.phase = p].job = r.job
    BY DEF TimelyInv, TypeOK
  <1>1. CASE HandlerReturns(r)
    <2>1. RunOK([r EXCEPT !.phase = "handled"])'
      BY <1>0, <1>1 DEF HandlerReturns, RunOK
    <2>. QED
      BY <1>0, <1>1, <2>1, OneRunStep, JustifiedStep DEF HandlerReturns, Move, TimelyInv
  <1>2. CASE HandlerThrows(r)
    <2>1. rejected' = rejected \/ rejected' = [rejected EXCEPT ![r.job] = TRUE]
      BY <1>2 DEF HandlerThrows
    <2>2. \A j \in Jobs : (rejected[j] => rejected'[j]) /\ (j # r.job => rejected'[j] = rejected[j])
      BY <2>1 DEF TypeOK
    <2>3. PICK p \in {"failing", "refusing"} : runs' = Move(r, p) /\ (p = "refusing" => rejected'[r.job])
      BY <1>0, <1>2 DEF HandlerThrows, TypeOK
    <2>4. RunOK([r EXCEPT !.phase = p])'
      BY <1>0, <1>2, <2>3 DEF HandlerThrows, RunOK
    <2>. QED
      BY <1>0, <1>2, <2>2, <2>3, <2>4, OneRunStep, JustifiedStep DEF HandlerThrows, Move, TimelyInv
  <1>3. CASE Complete(r)
    <2>1. \A j \in Jobs : (j # r.job => jobs'[j] = jobs[j]) /\ (j = r.job => jobs'[j].status = "processed")
      BY <1>0, <1>3, SettledRow DEF Complete
    <2>. QED
      BY <1>0, <1>3, <2>1, OneRunStep, JustifiedStep DEF Complete, TimelyInv
  <1>4. CASE CompleteRefused(r)
    <2>1. RunOK([r EXCEPT !.phase = "failing"])'
      BY <1>0, <1>4 DEF CompleteRefused, RunOK
    <2>. QED
      BY <1>0, <1>4, <2>1, OneRunStep, JustifiedStep DEF CompleteRefused, Move, TimelyInv
  <1>5. CASE CompleteFault(r)
    <2>1. \A j \in Jobs : \/ jobs'[j] = jobs[j]
                          \/ j = r.job /\ jobs'[j].status = "processed"
      BY <1>0, <1>5, SettledRow DEF CompleteFault
    <2>2. RunOK([r EXCEPT !.phase = "failing"])'
      BY <1>0, <1>5, <2>1 DEF CompleteFault, RunOK
    <2>. QED
      BY <1>0, <1>5, <2>1, <2>2, OneRunStep, JustifiedStep DEF CompleteFault, Move, TimelyInv
  <1>6. CASE ReadForFail(r)
    <2> DEFINE limit == IF r.phase = "refusing" THEN r.attempt ELSE MaxAttempts
    <2>1. jobs[r.job].attempts = r.attempt
      BY <1>0, <1>6 DEF ReadForFail, RunOK, Owns
    <2>2. PICK p \in {"burying", "retrying"} :
            /\ p = IF Exhausted(r.attempt, limit) THEN "burying" ELSE "retrying"
            /\ runs' = (runs \ {r}) \cup {[r EXCEPT !.phase = p, !.attempt = r.attempt]}
      BY <1>6, <2>1 DEF ReadForFail
    <2>3. p = "burying" => r.attempt >= MaxAttempts \/ rejected[r.job]
      BY <1>0, <2>2 DEF Exhausted, RunOK
    <2>4. p = "retrying" => r.attempt < MaxAttempts
      BY <1>0, <2>2 DEF Exhausted, RunOK
    <2>5. PICK x : x = [r EXCEPT !.phase = p, !.attempt = r.attempt]
      OBVIOUS
    <2>6. /\ x.job = r.job /\ x.worker = r.worker /\ x.elapsed = r.elapsed
          /\ x.phase = p /\ x.attempt = r.attempt
      BY <1>0, <2>5
    <2>7. RunOK(x)'
      BY <1>0, <1>6, <2>3, <2>4, <2>6 DEF ReadForFail, RunOK
    <2>. QED
      BY <1>0, <1>6, <2>2, <2>5, <2>6, <2>7, OneRunStep, JustifiedStep DEF ReadForFail, TimelyInv
  <1>7. CASE RecordFailure(r)
    <2>1. \A j \in Jobs : j # r.job => jobs'[j] = jobs[j]
      BY <1>0, <1>7, SettledRow DEF RecordFailure
    <2>2. DeadIsJustified' /\ RetryHasAttemptsLeft'
      BY <1>0, <1>7, FailJustified DEF RecordFailure
    <2>. QED
      BY <1>0, <1>7, <2>1, <2>2, OneRunStep DEF RecordFailure, TimelyInv
  <1>8. CASE FailRefused(r)
    BY <1>8, ThrowsStep, JustifiedStep DEF FailRefused, TimelyInv
  <1>9. CASE FailFault(r)
    <2>1. \A j \in Jobs : j # r.job => jobs'[j] = jobs[j]
      BY <1>0, <1>9, SettledRow DEF FailFault
    <2>2. DeadIsJustified' /\ RetryHasAttemptsLeft'
      <3>1. CASE UNCHANGED jobs
        BY <1>9, <3>1, JustifiedStep DEF FailFault
      <3>2. CASE ~UNCHANGED jobs
        BY <1>0, <1>9, <3>2, FailJustified DEF FailFault
      <3>. QED
        BY <3>1, <3>2
    <2>. QED
      BY <1>9, <2>1, <2>2, ThrowsStep DEF FailFault, TimelyInv
  <1>. QED
    BY <1>1, <1>2, <1>3, <1>4, <1>5, <1>6, <1>7, <1>8, <1>9 DEF Step

LEMMA TimelyStep ==
  ASSUME MaxRun < StaleAfter
  PROVE  TypeOK /\ TimelyInv /\ [Next]_vars => TimelyInv'
  <1> SUFFICES ASSUME TypeOK, TimelyInv, [Next]_vars PROVE TimelyInv'
    OBVIOUS
  <1>0. \A r \in runs : r \in Run /\ r.job \in Jobs /\ RunOK(r)
    BY DEF TypeOK, TimelyInv
  <1>1. ASSUME NEW j \in Jobs, Enqueue(j) PROVE TimelyInv'
    <2>1. \A i \in Jobs :
            \/ jobs'[i] = jobs[i]
            \/ jobs[i].status = "absent" /\ jobs'[i].status = "pending"
      <3>1. PICK row : /\ jobs' = [jobs EXCEPT ![j] = row]
                       /\ row = InsertIfAbsent(jobs[j])
        BY <1>1 DEF Enqueue
      <3>2. row = jobs[j] \/ (jobs[j].status = "absent" /\ row.status = "pending")
        BY <3>1 DEF InsertIfAbsent, NewJob
      <3>3. jobs \in [Jobs -> Job]
        BY DEF TypeOK
      <3> HIDE DEF Job
      <3>. QED
        BY <3>1, <3>2, <3>3
    <2>2. \A r \in runs : RunOK(r)'
      BY <1>0, <1>1, <2>1 DEF Enqueue, RunOK
    <2>. QED
      BY <1>1, <2>1, <2>2, JustifiedStep DEF Enqueue, TimelyInv, ExclusiveHandling
  <1>2. ASSUME NEW j \in Jobs, Replay(j) PROVE TimelyInv'
    <2>1. \A r \in runs : r.job # j
      BY <1>0, <1>2 DEF Replay, Replayable, RunOK
    <2>2. \A i \in Jobs : /\ i # j => jobs'[i] = jobs[i] /\ rejected'[i] = rejected[i]
                          /\ jobs'[j].status = "pending"
      BY <1>2 DEF Replay, NewJob, TypeOK
    <2>3. \A r \in runs : RunOK(r)'
      BY <1>0, <2>1, <2>2 DEF RunOK
    <2>. QED
      BY <1>2, <2>2, <2>3, JustifiedStep DEF Replay, TimelyInv, ExclusiveHandling
  <1>3. ASSUME NEW w \in Workers, StartTick(w) \/ EndTick(w) \/ Exit(w) PROVE TimelyInv'
    <2>1. \A v \in Workers : ticks'[v].elapsed <= MaxRun
      BY <1>3 DEF StartTick, EndTick, Exit, Idle, TypeOK, TimelyInv
    <2>2. jobs' = jobs /\ rejected' = rejected /\ runs' \subseteq runs
      BY <1>3 DEF StartTick, EndTick, Exit
    <2>3. \A r \in runs' : RunOK(r)'
      BY <1>0, <2>2 DEF RunOK
    <2>. QED
      BY <2>1, <2>2, <2>3, JustifiedStep DEF TimelyInv, ExclusiveHandling
  <1>4. ASSUME NEW w \in Workers, NEW S \in SUBSET Jobs, Batch(S, ticks[w].elapsed),
               jobs' = Claimed(S, w, ticks[w].elapsed), rejected' = rejected
        PROVE  /\ \A r \in runs : r.job \notin S /\ RunOK(r)'
               /\ DeadIsJustified' /\ RetryHasAttemptsLeft'
    <2>1. ticks[w].elapsed \in Nat
      BY DEF TypeOK
    <2>2. \A r \in runs : r.job \notin S
      BY <1>0, <1>4, <2>1, InFlightNotClaimable DEF Batch
    <2>3. \A j \in Jobs : /\ j \in S => jobs'[j].status = "processing"
                          /\ j \notin S => jobs'[j] = jobs[j]
      BY <1>4 DEF Claimed, Locked
    <2>4. \A r \in runs : RunOK(r)'
      BY <1>0, <1>4, <2>2, <2>3 DEF RunOK
    <2>. QED
      BY <1>4, <2>2, <2>3, <2>4, JustifiedStep
  <1>5. ASSUME NEW w \in Workers, Claim(w) PROVE TimelyInv'
    <2>1. PICK e \in Nat : e = ticks[w].elapsed /\ e <= MaxRun
      BY DEF TypeOK, TimelyInv
    <2>2. PICK S \in SUBSET Jobs :
            /\ Batch(S, ticks[w].elapsed)
            /\ jobs' = Claimed(S, w, ticks[w].elapsed)
            /\ runs' = runs \cup {NewRun(j, w, e) : j \in S}
      BY <1>5, <2>1 DEF Claim
    <2>3. /\ \A r \in runs : r.job \notin S /\ RunOK(r)'
          /\ DeadIsJustified' /\ RetryHasAttemptsLeft'
      BY <1>4, <1>5, <2>2 DEF Claim
    <2>4. ASSUME NEW x \in runs', x \notin runs
          PROVE  \E j \in S : x = NewRun(j, w, e) /\ x.job = j /\ RunOK(x)'
      <3>1. PICK j \in S : x = NewRun(j, w, e)
        BY <2>2, <2>4
      <3>2. jobs'[j] = Locked(jobs[j], w, e)
        BY <2>1, <2>2 DEF Claimed
      <3>3. /\ x.job = j /\ x.worker = w /\ x.elapsed = e /\ x.phase = "handling"
            /\ x.attempt = jobs[j].attempts + 1
        BY <3>1 DEF NewRun
      <3>4. /\ jobs'[j].status = "processing" /\ jobs'[j].lockedBy = w /\ jobs'[j].age = e
            /\ jobs'[j].attempts = jobs[j].attempts + 1
        BY <3>2 DEF Locked
      <3>5. RunOK(x)'
        BY <2>1, <3>3, <3>4 DEF RunOK
      <3>. QED
        BY <3>1, <3>3, <3>5
    <2>5. \A x \in runs' : RunOK(x)'
      BY <2>3, <2>4
    <2>6. ExclusiveHandling'
      BY <2>3, <2>4 DEF TimelyInv, ExclusiveHandling
    <2>7. \A v \in Workers : ticks'[v].elapsed <= MaxRun
      BY <1>5 DEF Claim, TypeOK, TimelyInv
    <2>. QED
      BY <2>3, <2>5, <2>6, <2>7 DEF TimelyInv
  <1>6. ASSUME NEW w \in Workers, ClaimFault(w) PROVE TimelyInv'
    <2>1. PICK S \in SUBSET Jobs :
            Batch(S, ticks[w].elapsed) /\ jobs' \in {jobs, Claimed(S, w, ticks[w].elapsed)}
      BY <1>6 DEF ClaimFault
    <2>2. (\A r \in runs : RunOK(r)') /\ DeadIsJustified' /\ RetryHasAttemptsLeft'
      <3>1. CASE jobs' = jobs
        <4>1. \A r \in runs : RunOK(r)'
          BY <1>0, <1>6, <3>1 DEF ClaimFault, RunOK
        <4>. QED
          BY <1>6, <3>1, <4>1, JustifiedStep DEF ClaimFault
      <3>2. CASE jobs' = Claimed(S, w, ticks[w].elapsed)
        BY <1>4, <1>6, <2>1, <3>2 DEF ClaimFault
      <3>. QED
        BY <2>1, <3>1, <3>2
    <2>3. \A v \in Workers : ticks'[v].elapsed <= MaxRun
      BY <1>6 DEF ClaimFault, Idle, TypeOK, TimelyInv
    <2>. QED
      BY <1>6, <2>2, <2>3 DEF ClaimFault, TimelyInv, ExclusiveHandling
  <1>7. ASSUME NEW r \in runs, Step(r) \/ CompleteFault(r) \/ FailFault(r) PROVE TimelyInv'
    BY <1>7, TimelyRunStep
  <1>8. CASE Advance
    <2>1. \A j \in Jobs : /\ jobs'[j].status = jobs[j].status
                          /\ jobs'[j].lockedBy = jobs[j].lockedBy
                          /\ jobs'[j].attempts = jobs[j].attempts
                          /\ jobs'[j].age <= jobs[j].age + 1
      BY <1>8 DEF Advance, Aged, Least, TypeOK
    <2>2. ASSUME NEW x \in runs' PROVE RunOK(x)'
      <3>1. PICK y \in runs : x = [y EXCEPT !.elapsed = @ + 1]
        BY <1>8, <2>2 DEF Advance
      <3>2. /\ x.job = y.job /\ x.worker = y.worker /\ x.phase = y.phase
            /\ x.attempt = y.attempt /\ x.elapsed = y.elapsed + 1
        BY <1>0, <3>1, ElapsedUpdate
      <3>3. y.elapsed < MaxRun /\ y.elapsed \in Nat /\ jobs[y.job].age \in Nat /\ jobs'[y.job].age \in Int
        BY <1>0, <1>8, TypeStep DEF Advance, TypeOK
      <3>. QED
        BY <1>0, <1>8, <2>1, <3>2, <3>3 DEF Advance, RunOK
    <2>3. ExclusiveHandling'
      <3> DEFINE g(y) == [y EXCEPT !.elapsed = @ + 1]
      <3>1. \A y \in runs : g(y).job = y.job
        BY <1>0
      <3>2. runs' = {g(y) : y \in runs}
        BY <1>8 DEF Advance
      <3> HIDE DEF g
      <3>. QED
        BY <3>1, <3>2 DEF TimelyInv, ExclusiveHandling
    <2>4. \A w \in Workers : ticks'[w].elapsed <= MaxRun
      BY <1>8 DEF Advance, TypeOK, TimelyInv
    <2>5. DeadIsJustified' /\ RetryHasAttemptsLeft'
      BY <1>8, <2>1, JustifiedStep DEF Advance
    <2>. QED
      BY <2>2, <2>3, <2>4, <2>5 DEF TimelyInv
  <1>9. CASE UNCHANGED vars
    BY <1>9 DEF vars, TimelyInv, RunOK, ExclusiveHandling, DeadIsJustified, RetryHasAttemptsLeft
  <1>. QED
    BY <1>1, <1>2, <1>3, <1>5, <1>6, <1>7, <1>8, <1>9 DEF Next

LEMMA TimelyCorrect ==
  ASSUME MaxRun < StaleAfter
  PROVE  Spec => []TimelyInv
  <1>1. Init => TimelyInv
    BY DEF Init, TimelyInv, NoJob, NewJob, Idle, ExclusiveHandling, DeadIsJustified, RetryHasAttemptsLeft
  <1>2. TypeOK /\ TimelyInv /\ [Next]_vars => TimelyInv'
    BY TimelyStep
  <1>. QED
    BY <1>1, <1>2, TypeCorrect, PTL DEF Spec

\* When a handler with its settlement is quicker than the stale threshold, a
\* job is never in flight twice, whatever crashes, faults and lost replies do.
THEOREM NeverInFlightTwice ==
  ASSUME MaxRun < StaleAfter
  PROVE  Spec => []ExclusiveHandling
  <1>1. TimelyInv => ExclusiveHandling
    BY DEF TimelyInv
  <1>. QED
    BY <1>1, TimelyCorrect, PTL

\* Under the same condition no job is dead-lettered early: it has used up its
\* attempts or the handler has refused it.
THEOREM NeverDeadEarly ==
  ASSUME MaxRun < StaleAfter
  PROVE  Spec => []DeadIsJustified
  <1>1. TimelyInv => DeadIsJustified
    BY DEF TimelyInv
  <1>. QED
    BY <1>1, TimelyCorrect, PTL

\* Under the same condition no job without attempts left waits for a retry.
THEOREM NeverRetriedLate ==
  ASSUME MaxRun < StaleAfter
  PROVE  Spec => []RetryHasAttemptsLeft
  <1>1. TimelyInv => RetryHasAttemptsLeft
    BY DEF TimelyInv
  <1>. QED
    BY <1>1, TimelyCorrect, PTL

\* Both halves: the limit on attempts is neither undercut nor overrun by a
\* decision that fail() takes on the row it has read.
THEOREM AttemptsCounted ==
  ASSUME MaxRun < StaleAfter
  PROVE  Spec => []AttemptsAreCounted
  <1>1. TimelyInv => AttemptsAreCounted
    BY DEF TimelyInv, AttemptsAreCounted
  <1>. QED
    BY <1>1, TimelyCorrect, PTL
=============================================================================
