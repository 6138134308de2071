-------------------------- MODULE WorkerLifecycle --------------------------
(***************************************************************************)
(* The life of one worker process: createWorker of apps/worker/src/        *)
(* worker.js, the tick that processOutboxOnce of the outbox runs, and the  *)
(* shutdown on a signal.  What happens to a job is in module Outbox: here  *)
(* a claimed job is a handler in flight, and a call to a database either   *)
(* answers or fails.                                                       *)
(***************************************************************************)
EXTENDS Naturals

CONSTANTS
  Concurrency,  \* XYGO_WORKER_CONCURRENCY: jobs claimed by a tick
  MaxTicks,     \* bound: ticks of the process
  MaxFaults     \* bound: failing calls to the databases

ASSUME WorkerAssumption ==
  /\ Concurrency \in Nat \ {0}
  /\ {MaxTicks, MaxFaults} \subseteq Nat

VARIABLES
  timer,      \* the interval is set
  stopping,   \* the flag that stop() sets
  shutdown,   \* how far stop() is
  error,      \* its shutdownError
  tick,       \* what activeTick waits for
  batch,      \* handlers that the active tick waits for
  orphans,    \* handlers of a tick that ended without them
  broken,     \* history: a fail() has thrown
  startBeat,  \* the heartbeat of start(), which nobody awaits, is in flight
  row,        \* service_heartbeats: the status shown for this worker
  late,       \* another heartbeat was in flight or due when "stopping" was sent
  exit,       \* how the process ended
  ticks, faults

vars == <<timer, stopping, shutdown, error, tick, batch, orphans, broken, startBeat,
          row, late, exit, ticks, faults>>

-----------------------------------------------------------------------------
Phase == {"idle", "beating", "claiming", "handling", "degrading"}

Shutdown == {"none", "beating", "draining", "closing", "closed"}

\* The outbox refuses every call once close() has been called.
Open == shutdown \notin {"closing", "closed"}

Fault == faults < MaxFaults /\ faults' = faults + 1

\* A heartbeat is written, or the write fails: on a fault, or because the pool
\* is being closed.  The row is overwritten whatever it says.
Beat(status) == row' = status /\ UNCHANGED faults

BeatFails ==
  /\ Fault \/ (~Open /\ UNCHANGED faults)
  /\ UNCHANGED row

\* activeTick settles and is reset; a stop() that waits for it goes on.
Settles(failed) ==
  /\ tick' = "idle"
  /\ IF shutdown = "draining"
       THEN shutdown' = "closing" /\ error' = failed
       ELSE UNCHANGED <<shutdown, error>>

-----------------------------------------------------------------------------
Init ==
  /\ timer = FALSE /\ stopping = FALSE
  /\ shutdown = "none" /\ error = FALSE
  /\ tick = "idle" /\ batch = 0 /\ orphans = 0 /\ broken = FALSE
  /\ startBeat = FALSE
  /\ row = "none"
  /\ late = FALSE
  /\ exit = "running"
  /\ ticks = 0 /\ faults = 0

\* The readiness check of the start, then start().
Start ==
  /\ exit = "running" /\ ~timer /\ ~stopping
  /\ timer' = TRUE
  /\ startBeat' = TRUE
  /\ Beat("ready")
  /\ UNCHANGED <<stopping, broken, shutdown, error, tick, batch, orphans, late, exit,
                 ticks>>

\* The check fails, or its heartbeat does: the process ends with the error.
StartFails ==
  /\ exit = "running" /\ ~timer /\ ~stopping
  /\ Fault
  /\ row' \in {row, "degraded"}
  /\ exit' = "failed"
  /\ UNCHANGED <<timer, stopping, broken, shutdown, error, tick, batch, orphans, startBeat,
                 late, ticks>>

StartBeat ==
  /\ startBeat
  /\ startBeat' = FALSE
  /\ Beat("ready") \/ BeatFails
  /\ UNCHANGED <<timer, stopping, broken, shutdown, error, tick, batch, orphans, late, exit,
                 ticks>>

-----------------------------------------------------------------------------
(* A tick. *)

\* The interval fires.  tick() refuses a worker that stops, and returns the
\* active tick when there is one.
Poll ==
  /\ timer /\ ~stopping /\ tick = "idle"
  /\ ticks < MaxTicks
  /\ ticks' = ticks + 1
  /\ tick' = "beating"
  /\ UNCHANGED <<timer, stopping, broken, shutdown, error, batch, orphans, startBeat, row,
                 late, exit, faults>>

TickBeat ==
  /\ tick = "beating"
  /\ \/ Beat("ready") /\ tick' = "claiming"
     \/ BeatFails /\ tick' = "degrading"
  /\ UNCHANGED <<timer, stopping, broken, shutdown, error, batch, orphans, startBeat, late,
                 exit, ticks>>

\* Nothing looks at the flag again between the first heartbeat and the claim.
Claim ==
  /\ tick = "claiming"
  /\ \/ Open /\ batch' \in 0 .. Concurrency /\ tick' = "handling" /\ UNCHANGED faults
     \/ ~Open /\ tick' = "degrading" /\ UNCHANGED <<batch, faults>>
     \/ Fault /\ tick' = "degrading" /\ UNCHANGED batch
  /\ UNCHANGED <<timer, stopping, broken, shutdown, error, orphans, startBeat, row, late,
                 exit, ticks>>

\* A handler is over and its job completed, or failed and rescheduled.
HandlerEnds ==
  /\ tick = "handling" /\ batch > 0
  /\ Open
  /\ batch' = batch - 1
  /\ UNCHANGED <<timer, stopping, broken, shutdown, error, tick, orphans, startBeat, row,
                 late, exit, ticks, faults>>

\* The handler is over but fail() throws: Promise.all rejects at once, and the
\* other handlers of the batch go on with nobody waiting for them.
HandlerBreaks ==
  /\ tick = "handling" /\ batch > 0
  /\ Fault \/ (~Open /\ UNCHANGED faults)
  /\ tick' = "degrading"
  /\ batch' = 0
  /\ orphans' = orphans + batch - 1
  /\ broken' = TRUE
  /\ UNCHANGED <<timer, stopping, shutdown, error, startBeat, row, late, exit,
                 ticks>>

OrphanEnds ==
  /\ orphans > 0
  /\ orphans' = orphans - 1
  /\ UNCHANGED <<timer, stopping, broken, shutdown, error, tick, batch, startBeat, row,
                 late, exit, ticks, faults>>

\* Every handler is over: the last heartbeat of the tick.
Report ==
  /\ tick = "handling" /\ batch = 0
  /\ \/ Beat("ready") /\ Settles(FALSE)
     \/ BeatFails /\ tick' = "degrading" /\ UNCHANGED <<shutdown, error>>
  /\ UNCHANGED <<timer, stopping, broken, batch, orphans, startBeat, late, exit, ticks>>

\* The catch branch: its heartbeat may fail without a trace, the tick rejects.
Degrade ==
  /\ tick = "degrading"
  /\ Beat("degraded") \/ BeatFails
  /\ Settles(TRUE)
  /\ UNCHANGED <<timer, stopping, broken, batch, orphans, startBeat, late, exit, ticks>>

-----------------------------------------------------------------------------
(* The shutdown. *)

\* SIGTERM or SIGINT; a second signal does nothing.
Stop ==
  /\ timer /\ ~stopping
  /\ stopping' = TRUE
  /\ shutdown' = "beating"
  /\ UNCHANGED <<timer, broken, error, tick, batch, orphans, startBeat, row, late, exit,
                 ticks, faults>>

\* Bug: stop() does not wait for the active tick.
StopBeat_NoWaitBug ==
  /\ shutdown = "beating"
  /\ Beat("stopping") \/ BeatFails
  /\ timer' = FALSE
  /\ late' = (tick # "idle" \/ startBeat)
  /\ shutdown' = "closing"
  /\ UNCHANGED <<stopping, broken, error, tick, batch, orphans, startBeat, exit, ticks>>

\* Bug: the interval is never cleared.
StopBeat_KeepsTimerBug ==
  /\ shutdown = "beating"
  /\ Beat("stopping") \/ BeatFails
  /\ late' = (tick # "idle" \/ startBeat)
  /\ shutdown' = IF tick = "idle" THEN "closing" ELSE "draining"
  /\ UNCHANGED <<timer, stopping, broken, error, tick, batch, orphans, startBeat, exit,
                 ticks>>

\* Whether or not "stopping" could be written, the interval is cleared and the
\* active tick, if any, is awaited.
StopBeat ==
  /\ shutdown = "beating"
  /\ Beat("stopping") \/ BeatFails
  /\ timer' = FALSE
  /\ late' = (tick # "idle" \/ startBeat)
  /\ shutdown' = IF tick = "idle" THEN "closing" ELSE "draining"
  /\ UNCHANGED <<stopping, broken, error, tick, batch, orphans, startBeat, exit, ticks>>

\* Bug: the timeout does not interrupt a handler.
Timeout_NotHandlersBug ==
  /\ shutdown = "draining" /\ batch = 0
  /\ error' = TRUE
  /\ shutdown' = "closing"
  /\ UNCHANGED <<timer, stopping, broken, tick, batch, orphans, startBeat, row, late, exit,
                 ticks, faults>>

\* shutdownTimeoutMs are over and the tick is not.
Timeout ==
  /\ shutdown = "draining"
  /\ error' = TRUE
  /\ shutdown' = "closing"
  /\ UNCHANGED <<timer, stopping, broken, tick, batch, orphans, startBeat, row, late, exit,
                 ticks, faults>>

\* process.exit: whatever is in flight ends where it is.
Killed == tick' = "idle" /\ batch' = 0 /\ orphans' = 0 /\ startBeat' = FALSE

\* The stores and the provider are closed, or one of them fails to.  Without an
\* error the exit code is 0 and the process runs on while it has work to do; an
\* error ends it.
Close ==
  /\ shutdown = "closing"
  /\ shutdown' = "closed"
  /\ \/ error' = error /\ UNCHANGED faults
     \/ error' = TRUE /\ Fault
  /\ IF error'
       THEN exit' = "failed" /\ Killed
       ELSE exit' = "clean" /\ UNCHANGED <<tick, batch, orphans, startBeat>>
  /\ UNCHANGED <<timer, stopping, broken, row, late, ticks>>

-----------------------------------------------------------------------------
Tick == Poll \/ TickBeat \/ Claim \/ HandlerEnds \/ HandlerBreaks \/ Report \/ Degrade

Next ==
  Start \/ StartFails \/ StartBeat \/ Tick \/ OrphanEnds \/ Stop \/ StopBeat \/ Timeout \/ Close

Spec == Init /\ [][Next]_vars

\* A call to a database answers or fails, and the timer of stop() fires.  No
\* handler has to end, and no signal has to come.
Fairness == WF_vars(StopBeat) /\ WF_vars(Timeout) /\ WF_vars(Close)

FairSpec == Spec /\ Fairness

-----------------------------------------------------------------------------
(* Properties. *)

\* The variables have their types, and the flags of createWorker agree: only the
\* tick that waits for handlers has some, the interval is cleared before the
\* active tick is awaited, and stop() resolves last.
TypeOK ==
  /\ {timer, stopping, error, broken, startBeat, late} \subseteq BOOLEAN
  /\ shutdown \in Shutdown
  /\ tick \in Phase
  /\ batch \in 0 .. Concurrency
  /\ orphans \in Nat
  /\ row \in {"none", "ready", "degraded", "stopping"}
  /\ exit \in {"running", "clean", "failed"}
  /\ batch > 0 => tick = "handling"
  /\ shutdown # "none" <=> stopping
  /\ timer => shutdown \in {"none", "beating"}
  /\ shutdown = "draining" => tick # "idle"
  /\ exit = "clean" => shutdown = "closed"

\* The limit on concurrent handlers is a limit per tick: each failing fail()
\* adds up to Concurrency - 1 handlers to those that later ticks start.
HandlersBounded == batch + orphans <= Concurrency + faults * (Concurrency - 1)

\* Unless a fail() has thrown, the process exits with 0 only when the handlers of
\* all claimed jobs are over, whenever the signal comes and whatever else fails.
DrainedUnlessBroken == exit = "clean" /\ ~broken => batch + orphans = 0 /\ tick = "idle"

\* durable-worker-outbox-runbook.md: "It exits cleanly only after claimed handlers
\* finish".
CleanExitDrained == exit = "clean" => batch + orphans = 0 /\ tick = "idle"

\* A worker that stopped is shown as ready, for as long as its heartbeat is
\* fresh, only when its tick or start() still had a heartbeat to write when
\* "stopping" was sent, or when "stopping" itself could not be written.
StoppedNotShownReady ==
  (exit # "running" /\ row = "ready") => (late \/ faults > 0)

\* What a worker that stopped has left behind.
StopsInOrder == HandlersBounded /\ DrainedUnlessBroken /\ StoppedNotShownReady

\* stop() ends, however long the handlers take.
StopEnds == stopping ~> exit # "running"

=============================================================================
