---------------------------- MODULE ProcessProofs ----------------------------
(***************************************************************************)
(* Theorems about the processes of a deployment: a worker, for every       *)
(* concurrency and however many ticks it makes and calls fail; the schema, *)
(* for any number of migration jobs, processes, releases and versions; and *)
(* an API server, for any number of requests.  At the end each is taken    *)
(* over to the behaviours of Processes.                                    *)
(***************************************************************************)
EXTENDS Processes, TLAPS

USE WorkerAssumption

(* TypeOK in two parts: the provers treat flags and the rest apart. *)

Flags ==
  /\ timer \in BOOLEAN /\ stopping \in BOOLEAN /\ error \in BOOLEAN
  /\ broken \in BOOLEAN /\ startBeat \in BOOLEAN /\ late \in BOOLEAN

StateOK ==
  /\ shutdown \in Shutdown
  /\ tick \in Phase
  /\ batch \in 0 .. Concurrency
  /\ orphans \in Nat
  /\ row \in {"none", "ready", "degraded", "stopping"}
  /\ exit \in {"running", "clean", "failed"}
  /\ batch > 0 => tick = "handling"
  /\ shutdown # "none" <=> stopping
  /\ timer => shutdown \in {"none", "beating"}
  /\ shutdown = "draining" => tick # "idle"
  /\ exit = "clean" => shutdown = "closed"

CountersOK == ticks \in Nat /\ faults \in Nat

\* Handlers are awaited only while a tick handles, and only a fail() that threw
\* leaves orphans.
Awaited ==
  /\ tick # "handling" => batch = 0
  /\ ~broken => orphans = 0

\* Unless stop() has an error, it got past the active tick, and no tick began since.
Drained ==
  /\ shutdown \in {"closing", "closed"} /\ ~error => tick = "idle"
  /\ exit = "clean" => ~error

\* As long as a tick may still claim, orphans leave room for its batch.
Room ==
  /\ Open => orphans <= faults * (Concurrency - 1)
  /\ HandlersBounded

\* With nothing in flight when "stopping" was written, nobody writes over it.
Shown ==
  /\ shutdown \in {"draining", "closing", "closed"} /\ ~late /\ faults = 0 =>
       row = "stopping" /\ tick = "idle" /\ ~startBeat
  /\ exit # "running" => shutdown = "closed" \/ faults > 0

Inv == Flags /\ StateOK /\ CountersOK /\ Awaited /\ Drained /\ Room /\ Shown

LEMMA InitInv == Init => Inv
  <1>1. 0 * (Concurrency - 1) = 0
    OBVIOUS
  <1>2. Init => Flags
    BY DEF Init, Flags
  <1>3. Init => StateOK /\ CountersOK /\ Awaited /\ Drained /\ Shown
    BY DEF Init, StateOK, Shutdown, Phase, CountersOK, Awaited, Drained, Shown
  <1>4. Init => Room
    BY <1>1 DEF Init, Room, Open, HandlersBounded
  <1>. QED
    BY <1>2, <1>3, <1>4 DEF Inv

\* The bound grows with the faults.
LEMMA BoundGrows ==
  ASSUME NEW f \in Nat
  PROVE  /\ f * (Concurrency - 1) \in Nat
         /\ (f + 1) * (Concurrency - 1) = f * (Concurrency - 1) + (Concurrency - 1)
  OBVIOUS

LEMMA SumsKept ==
  /\ \A c, b, b2, o, o2, x, x2 \in Nat :
       b2 <= b /\ o2 <= o /\ x2 >= x /\ b + o <= c + x => b2 + o2 <= c + x2
  /\ \A c, b, o, x \in Nat : b <= c /\ o <= x => b + o <= c + x
  OBVIOUS

-----------------------------------------------------------------------------
LEMMA FlagsStep == Flags /\ [Next]_vars => Flags'
  <1> SUFFICES ASSUME Flags, [Next]_vars PROVE Flags'
    OBVIOUS
  <1> USE DEF Flags
  <1>1. Start \/ StartFails \/ StartBeat => Flags'
    BY Zenon DEF Start, StartFails, StartBeat
  <1>2. Poll \/ TickBeat => Flags'
    BY Zenon DEF Poll, TickBeat
  <1>3. Claim \/ HandlerEnds => Flags'
    BY Zenon DEF Claim, HandlerEnds
  <1>4. HandlerBreaks \/ OrphanEnds => Flags'
    BY Zenon DEF HandlerBreaks, OrphanEnds
  <1>5. Report \/ Degrade => Flags'
    BY Zenon DEF Report, Degrade, Settles
  <1>6. Stop \/ StopBeat \/ Timeout => Flags'
    BY Zenon DEF Stop, StopBeat, Timeout
  <1>7. Close => Flags'
    BY Zenon DEF Close, Killed
  <1>8. UNCHANGED vars => Flags'
    BY Zenon DEF vars
  <1>. QED
    BY <1>1, <1>2, <1>3, <1>4, <1>5, <1>6, <1>7, <1>8 DEF Next, Tick

LEMMA StateStep == Inv /\ [Next]_vars => StateOK' /\ CountersOK'
  <1> SUFFICES ASSUME Inv, [Next]_vars PROVE StateOK' /\ CountersOK'
    OBVIOUS
  <1> USE DEF Inv, Flags, StateOK, CountersOK, Shutdown, Phase, Fault, Beat, BeatFails, Settles, Open, Awaited
  <1>1. Start \/ StartFails \/ StartBeat => StateOK' /\ CountersOK'
    BY DEF Start, StartFails, StartBeat
  <1>2. Poll \/ TickBeat => StateOK' /\ CountersOK'
    BY DEF Poll, TickBeat
  <1>3. Claim \/ HandlerEnds => StateOK' /\ CountersOK'
    BY DEF Claim, HandlerEnds
  <1>4. HandlerBreaks \/ OrphanEnds => StateOK' /\ CountersOK'
    BY DEF HandlerBreaks, OrphanEnds
  <1>5. Report \/ Degrade => StateOK' /\ CountersOK'
    BY DEF Report, Degrade
  <1>6. Stop \/ StopBeat \/ Timeout => StateOK' /\ CountersOK'
    BY DEF Stop, StopBeat, Timeout
  <1>7. Close => StateOK' /\ CountersOK'
    BY DEF Close, Killed
  <1>8. UNCHANGED vars => StateOK' /\ CountersOK'
    BY DEF vars
  <1>. QED
    BY <1>1, <1>2, <1>3, <1>4, <1>5, <1>6, <1>7, <1>8 DEF Next, Tick

LEMMA AwaitedStep == Inv /\ [Next]_vars => Awaited' /\ Drained'
  <1> SUFFICES ASSUME Inv, [Next]_vars PROVE Awaited' /\ Drained'
    OBVIOUS
  <1> USE DEF Inv, Flags, StateOK, Awaited, Drained, Settles, Open
  <1>1. Start \/ StartFails \/ StartBeat => Awaited' /\ Drained'
    BY DEF Start, StartFails, StartBeat
  <1>2. Poll \/ TickBeat => Awaited' /\ Drained'
    BY DEF Poll, TickBeat
  <1>3. Claim \/ HandlerEnds => Awaited' /\ Drained'
    BY DEF Claim, HandlerEnds
  <1>4. HandlerBreaks \/ OrphanEnds => Awaited' /\ Drained'
    BY DEF HandlerBreaks, OrphanEnds
  <1>5. Report \/ Degrade => Awaited' /\ Drained'
    BY DEF Report, Degrade
  <1>6. Stop \/ StopBeat \/ Timeout => Awaited' /\ Drained'
    BY DEF Stop, StopBeat, Timeout
  <1>7. Close => Awaited' /\ Drained'
    BY DEF Close, Killed
  <1>8. UNCHANGED vars => Awaited' /\ Drained'
    BY DEF vars
  <1>. QED
    BY <1>1, <1>2, <1>3, <1>4, <1>5, <1>6, <1>7, <1>8 DEF Next, Tick

LEMMA RoomStep == Inv /\ [Next]_vars => Room'
  <1> SUFFICES ASSUME Inv, [Next]_vars PROVE Room'
    OBVIOUS
  <1> DEFINE bound == faults * (Concurrency - 1)
  <1>1. /\ bound \in Nat
        /\ faults' = faults => bound' = bound
        /\ Fault => bound' = bound + (Concurrency - 1)
    BY BoundGrows DEF Inv, CountersOK, Fault
  <1>2. Concurrency \in Nat /\ batch \in 0 .. Concurrency /\ orphans \in Nat /\ (tick # "handling" => batch = 0)
    BY DEF Inv, Flags, StateOK, Awaited
  <1>3. (Open => orphans <= bound) /\ batch + orphans <= Concurrency + bound
    BY DEF Inv, Room, HandlersBounded
  <1>4. (Open' => orphans' <= bound') /\ batch' + orphans' <= Concurrency + bound' => Room'
    BY DEF Room, HandlersBounded
  <1> HIDE DEF bound
  <1>5. ASSUME faults' = faults \/ Fault, orphans' <= orphans, batch' <= batch,
               orphans' \in Nat, batch' \in Nat, Open' => Open
        PROVE  Room'
    <2>1. bound' \in Nat /\ bound' >= bound
      BY <1>1, <1>5
    <2>2. Open' => orphans' <= bound'
      BY <1>1, <1>2, <1>3, <1>5, <2>1
    <2>3. batch \in Nat /\ bound \in Nat
      BY <1>1, <1>2
    <2>4. batch' + orphans' <= Concurrency + bound'
      BY <1>2, <1>3, <1>5, <2>1, <2>3, SumsKept
    <2>. QED
      BY <1>4, <2>2, <2>4
  <1>6. Open' => Open
    BY DEF Inv, StateOK, Next, Tick, Open, Start, StartFails, StartBeat, Poll, TickBeat, Claim, HandlerEnds,
           HandlerBreaks, OrphanEnds, Report, Degrade, Settles, Stop, StopBeat, Timeout, Close, vars
  <1>7. Start \/ StartFails \/ StartBeat \/ Poll \/ TickBeat => Room'
    BY <1>2, <1>5, <1>6 DEF Start, StartFails, StartBeat, Poll, TickBeat, Beat, BeatFails
  <1>8. ASSUME Claim PROVE Room'
    <2>1. CASE batch' = batch
      BY <1>2, <1>5, <1>6, <1>8, <2>1 DEF Claim
    <2>2. CASE Open /\ batch' \in 0 .. Concurrency /\ faults' = faults
      <3>1. orphans' = orphans /\ bound' = bound
        BY <1>1, <1>8, <2>2 DEF Claim
      <3>2. bound' \in Nat /\ orphans' \in Nat /\ orphans' <= bound'
        BY <1>1, <1>2, <1>3, <2>2, <3>1
      <3>3. batch' \in Nat /\ batch' <= Concurrency
        BY <1>2, <2>2
      <3>4. batch' + orphans' <= Concurrency + bound'
        BY <1>2, <3>2, <3>3, SumsKept
      <3>. QED
        BY <1>4, <3>2, <3>4
    <2>. QED
      BY <1>8, <2>1, <2>2 DEF Claim
  <1>9. HandlerEnds \/ OrphanEnds => Room'
    BY <1>2, <1>5, <1>6 DEF HandlerEnds, OrphanEnds
  <1>10. ASSUME HandlerBreaks PROVE Room'
    <2>1. batch > 0 /\ batch' = 0 /\ orphans' = orphans + batch - 1
      BY <1>10 DEF HandlerBreaks
    <2>2. CASE Fault
      <3>1. bound' = bound + (Concurrency - 1)
        BY <1>1, <2>2
      <3>2. Open' => orphans' <= bound'
        BY <1>1, <1>2, <1>3, <1>6, <2>1, <3>1
      <3>. QED
        BY <1>1, <1>2, <1>3, <1>4, <2>1, <3>1, <3>2
    <2>3. CASE ~Open /\ faults' = faults
      BY <1>1, <1>2, <1>3, <1>4, <1>6, <2>1, <2>3
    <2>. QED
      BY <1>10, <2>2, <2>3 DEF HandlerBreaks
  <1>11. ASSUME Report \/ Degrade PROVE Room'
    <2>1. batch' = batch /\ orphans' = orphans
      BY <1>11 DEF Report, Degrade
    <2>2. faults' = faults \/ Fault
      BY <1>11 DEF Report, Degrade, Beat, BeatFails
    <2>. QED
      BY <1>2, <1>5, <1>6, <2>1, <2>2
  <1>12. Stop \/ StopBeat \/ Timeout => Room'
    BY <1>2, <1>5, <1>6 DEF Stop, StopBeat, Timeout, Beat, BeatFails
  <1>13. Close => Room'
    BY <1>2, <1>5, <1>6 DEF Close, Killed
  <1>14. UNCHANGED vars => Room'
    BY <1>2, <1>5, <1>6 DEF vars
  <1>. QED
    BY <1>7, <1>8, <1>9, <1>10, <1>11, <1>12, <1>13, <1>14 DEF Next, Tick

LEMMA ShownStep == Inv /\ [Next]_vars => Shown'
  <1> SUFFICES ASSUME Inv, [Next]_vars PROVE Shown'
    OBVIOUS
  <1> USE DEF Inv, Flags, StateOK, CountersOK, Shown, Fault, Beat, BeatFails, Open, Settles, Shutdown
  <1>1. Start \/ StartFails \/ StartBeat => Shown'
    BY DEF Start, StartFails, StartBeat
  <1>2. Poll \/ TickBeat => Shown'
    BY DEF Poll, TickBeat
  <1>3. Claim \/ HandlerEnds => Shown'
    BY DEF Claim, HandlerEnds
  <1>4. HandlerBreaks \/ OrphanEnds => Shown'
    BY DEF HandlerBreaks, OrphanEnds
  <1>5. Report \/ Degrade => Shown'
    BY DEF Report, Degrade
  <1>6. Stop \/ StopBeat \/ Timeout => Shown'
    BY DEF Stop, StopBeat, Timeout
  <1>7. Close => Shown'
    BY DEF Close, Killed
  <1>8. UNCHANGED vars => Shown'
    BY DEF vars
  <1>. QED
    BY <1>1, <1>2, <1>3, <1>4, <1>5, <1>6, <1>7, <1>8 DEF Next, Tick

LEMMA InvStep == ASSUME Inv, [Next]_vars PROVE Inv'
  BY FlagsStep, StateStep, AwaitedStep, RoomStep, ShownStep DEF Inv

LEMMA InvAlways == Spec => []Inv
  BY InitInv, InvStep, PTL DEF Spec

-----------------------------------------------------------------------------
\* The flags of createWorker agree at every step of start, tick and stop.
THEOREM TypeCorrect == Spec => []TypeOK
  <1>1. Inv => TypeOK
    BY DEF Inv, Flags, StateOK, TypeOK
  <1>. QED
    BY <1>1, InvAlways, PTL

\* Whatever fails, a fail() that throws is all that adds to the handlers in
\* flight, Concurrency - 1 at a time.
THEOREM Bounded == Spec => []HandlersBounded
  <1>1. Inv => HandlersBounded
    BY DEF Inv, Room
  <1>. QED
    BY <1>1, InvAlways, PTL

\* The exit code 0 means that every claimed job was handled to its end, unless a
\* fail() has thrown.
THEOREM CleanExit == Spec => []DrainedUnlessBroken
  <1>1. Inv => DrainedUnlessBroken
    BY DEF Inv, Flags, StateOK, Awaited, Drained, DrainedUnlessBroken
  <1>. QED
    BY <1>1, InvAlways, PTL

\* A worker that stopped is not shown as ready, unless a heartbeat was in flight
\* when "stopping" was written, or a call failed.
THEOREM NotShownReady == Spec => []StoppedNotShownReady
  <1>1. Inv => StoppedNotShownReady
    BY DEF Inv, CountersOK, Shown, StoppedNotShownReady
  <1>. QED
    BY <1>1, InvAlways, PTL

\* All three at once, by one invariant.
THEOREM StopInOrder == Spec => []StopsInOrder
  <1>1. HandlersBounded /\ DrainedUnlessBroken /\ StoppedNotShownReady => StopsInOrder
    BY DEF StopsInOrder
  <1>. QED
    BY <1>1, Bounded, CleanExit, NotShownReady, PTL

HIDE WorkerAssumption

-----------------------------------------------------------------------------
\* The schema is that of the first so many migrations.
SchemaPrefix == \E n \in 0 .. Latest : ledger = 1 .. n

HasLock(j) == job[j] \in {"locked", "applying"}

\* The lock is held by the one job that is inside, if any.
LockHeld ==
  /\ \A j \in Jobs : HasLock(j) <=> j \in holders
  /\ \A i, j \in holders : i = j

\* While it is inside nobody else changes the schema: it knows all of it, and the
\* release of the job does, too.
Knowing == \A j \in Jobs : job[j] = "applying" => known[j] = ledger /\ ledger \subseteq Migrate!Expected(j)

\* Who has what his release knows, and why others have failed.
Answers ==
  /\ \A a \in Apps : app[a] \in {"up", "unready"} => Migrate!Expected(a) \subseteq ledger
  /\ \A j \in Jobs : job[j] = "done" => Migrate!Expected(j) \subseteq ledger
  /\ \A j \in Jobs : job[j] = "failed" => j \in hit \/ Migrate!Unexpected(j, ledger) # {}

SchemaInv == Migrate!TypeOK /\ SchemaPrefix /\ LockHeld /\ Knowing /\ Answers

LEMMA KnowsType ==
  ASSUME Migrate!MigrationAssumption, NEW x \in Jobs \cup Apps
  PROVE  Latest \in Nat /\ Knows[x] \in 0 .. Latest
  BY DEF Migrate!MigrationAssumption

\* The next migration of a job is the one after the last that is applied.
LEMMA FirstIsNext ==
  ASSUME NEW n \in Nat, NEW k \in Nat, (1 .. k) \ (1 .. n) # {}
  PROVE  n < k /\ Migrate!First((1 .. k) \ (1 .. n)) = n + 1
  <1>1. n < k
    OBVIOUS
  <1>2. n + 1 \in (1 .. k) \ (1 .. n) /\ \A w \in (1 .. k) \ (1 .. n) : n + 1 <= w
    BY <1>1
  <1>3. \A v \in (1 .. k) \ (1 .. n) : (\A w \in (1 .. k) \ (1 .. n) : v <= w) => v = n + 1
    BY <1>2
  <1>. QED
    BY <1>1, <1>2, <1>3 DEF Migrate!First

\* What an open job does next keeps the schema a prefix of the migrations.
LEMMA NextVersion ==
  ASSUME Migrate!MigrationAssumption, SchemaPrefix, Knowing,
         NEW j \in Jobs, job[j] = "applying", Migrate!Pending(j, known[j]) # {},
         NEW v, v = Migrate!First(Migrate!Pending(j, known[j]))
  PROVE  /\ v \notin ledger /\ v \in 1 .. Latest
         /\ \E n \in 0 .. Latest : ledger \cup {v} = 1 .. n
         /\ ledger \cup {v} \subseteq Migrate!Expected(j)
  <1>1. PICK n \in 0 .. Latest : ledger = 1 .. n
    BY DEF SchemaPrefix
  <1>2. Latest \in Nat /\ Knows[j] \in 0 .. Latest
    BY KnowsType
  <1>3. Migrate!Pending(j, known[j]) = (1 .. Knows[j]) \ (1 .. n)
    BY <1>1 DEF Knowing, Migrate!Pending, Migrate!Expected
  <1>4. n < Knows[j] /\ v = n + 1
    <2>1. n \in Nat /\ Knows[j] \in Nat /\ (1 .. Knows[j]) \ (1 .. n) # {}
      BY <1>2, <1>3
    <2>2. n < Knows[j] /\ Migrate!First((1 .. Knows[j]) \ (1 .. n)) = n + 1
      BY <2>1, FirstIsNext
    <2>. QED
      BY <1>3, <2>2
  <1>5. n + 1 \in 0 .. Latest /\ ledger \cup {v} = 1 .. (n + 1)
    BY <1>1, <1>2, <1>4
  <1>. QED
    BY <1>1, <1>2, <1>4, <1>5 DEF Migrate!Expected

\* The schema only grows, so answers stay true.
LEMMA AnswersKept ==
  ASSUME Answers, ledger \subseteq ledger', hit \subseteq hit',
         \A a \in Apps : app'[a] \in {"up", "unready"} => app[a] \in {"up", "unready"} \/ Migrate!Expected(a) \subseteq ledger,
         \A j \in Jobs : job'[j] = "done" => job[j] = "done" \/ Migrate!Expected(j) \subseteq ledger,
         \A j \in Jobs : job'[j] = "failed" => job[j] = "failed" \/ j \in hit' \/ Migrate!Unexpected(j, ledger) # {}
  PROVE  Answers'
  BY DEF Answers, Migrate!Unexpected, Migrate!Expected

LEMMA SchemaInit == ASSUME Migrate!MigrationAssumption, Migrate!Init PROVE SchemaInv
  <1>1. Latest \in Nat /\ MaxOutages \in Nat
    BY DEF Migrate!MigrationAssumption
  <1>. QED
    BY <1>1 DEF Migrate!Init, SchemaInv, Migrate!TypeOK, SchemaPrefix, LockHeld, HasLock, Knowing, Answers, Migrate!JobPhase

\* A job leaves, and the schema is as it was or one migration further.
LEMMA JobLeaves ==
  ASSUME SchemaInv, NEW j \in Jobs, HasLock(j), NEW how \in {"done", "failed"}, Migrate!Ends(j, how),
         UNCHANGED <<known, app>>, hit \subseteq hit', hit' \subseteq Jobs, failures' \in Nat,
         ledger \subseteq ledger', ledger' \subseteq 1 .. Latest, SchemaPrefix',
         how = "done" => Migrate!Expected(j) \subseteq ledger,
         how = "failed" => j \in hit' \/ Migrate!Unexpected(j, ledger) # {}
  PROVE  SchemaInv'
  <1>1. /\ \A i \in Jobs : i # j => job'[i] = job[i]
        /\ job'[j] = how /\ job' \in [Jobs -> Migrate!JobPhase]
        /\ holders' = holders \ {j}
    BY DEF Migrate!Ends, SchemaInv, Migrate!TypeOK, Migrate!JobPhase
  <1>2. LockHeld'
    BY <1>1 DEF SchemaInv, LockHeld, HasLock
  <1>3. \A i \in Jobs : ~HasLock(i)'
    BY <1>1 DEF SchemaInv, LockHeld, HasLock
  <1>4. Knowing'
    BY <1>3 DEF Knowing, HasLock
  <1>5. Answers'
    BY <1>1, AnswersKept DEF SchemaInv
  <1>. QED
    BY <1>1, <1>2, <1>4, <1>5 DEF SchemaInv, Migrate!TypeOK

LEMMA SchemaStep == ASSUME Migrate!MigrationAssumption, SchemaInv, [Migrate!Next]_Migrate!vars PROVE SchemaInv'
  <1>1. ASSUME NEW j \in Jobs, Migrate!Lock(j) PROVE SchemaInv'
    <2>1. /\ job' = [job EXCEPT ![j] = "locked"] /\ holders = {} /\ holders' = {j}
          /\ UNCHANGED <<ledger, known, app, failures, hit>>
      BY <1>1 DEF Migrate!Lock
    <2>2. Migrate!TypeOK' /\ LockHeld' /\ Knowing'
      BY <2>1 DEF SchemaInv, Migrate!TypeOK, Migrate!JobPhase, LockHeld, HasLock, Knowing
    <2>3. Answers'
      BY <2>1, AnswersKept DEF SchemaInv, Migrate!TypeOK
    <2>. QED
      BY <2>1, <2>2, <2>3 DEF SchemaInv, SchemaPrefix
  <1>2. ASSUME NEW j \in Jobs, Migrate!ReadApplied(j) PROVE SchemaInv'
    <2>1. CASE Migrate!Unexpected(j, ledger) # {}
      BY <1>2, <2>1, JobLeaves DEF Migrate!ReadApplied, HasLock, SchemaInv, Migrate!TypeOK, SchemaPrefix
    <2>2. CASE Migrate!Unexpected(j, ledger) = {}
      <3>1. /\ job[j] = "locked" /\ job' = [job EXCEPT ![j] = "applying"] /\ known' = [known EXCEPT ![j] = ledger]
            /\ UNCHANGED <<ledger, holders, app, failures, hit>>
        BY <1>2, <2>2 DEF Migrate!ReadApplied
      <3>2. Migrate!TypeOK' /\ LockHeld' /\ Knowing'
        BY <2>2, <3>1 DEF SchemaInv, Migrate!TypeOK, Migrate!JobPhase, LockHeld, HasLock, Knowing, Migrate!Unexpected, Migrate!Expected
      <3>3. Answers'
        BY <3>1, AnswersKept DEF SchemaInv, Migrate!TypeOK
      <3>. QED
        BY <3>1, <3>2, <3>3 DEF SchemaInv, SchemaPrefix
    <2>. QED
      BY <2>1, <2>2
  <1>3. ASSUME NEW j \in Jobs, Migrate!Apply(j) PROVE SchemaInv'
    <2>1. PICK v : v = Migrate!First(Migrate!Pending(j, known[j]))
      OBVIOUS
    <2>2. v \notin ledger /\ v \in 1 .. Latest /\ (\E n \in 0 .. Latest : ledger \cup {v} = 1 .. n)
          /\ ledger \cup {v} \subseteq Migrate!Expected(j)
      BY <1>3, <2>1, NextVersion DEF Migrate!Apply, SchemaInv
    <2>3. /\ job[j] = "applying" /\ ledger' = ledger \cup {v} /\ known' = [known EXCEPT ![j] = known[j] \cup {v}]
          /\ UNCHANGED <<job, holders, app, failures, hit>>
      BY <1>3, <2>1, <2>2 DEF Migrate!Apply
    <2>4. \A i \in Jobs : HasLock(i) => i = j
      BY <2>3 DEF SchemaInv, LockHeld, HasLock
    <2>5. Knowing'
      BY <2>2, <2>3, <2>4 DEF SchemaInv, Knowing, HasLock, Migrate!TypeOK, Migrate!Expected
    <2>6. Answers'
      BY <2>3, AnswersKept DEF SchemaInv
    <2>7. Migrate!TypeOK'
      BY <2>2, <2>3 DEF SchemaInv, Migrate!TypeOK
    <2>. QED
      BY <2>2, <2>3, <2>5, <2>6, <2>7 DEF SchemaInv, SchemaPrefix, LockHeld, HasLock
  <1>4. ASSUME NEW j \in Jobs, Migrate!Finish(j) PROVE SchemaInv'
    <2>1. known[j] = ledger /\ ledger \subseteq Migrate!Expected(j) /\ job[j] = "applying" /\ Migrate!Pending(j, known[j]) = {}
      BY <1>4 DEF Migrate!Finish, SchemaInv, Knowing
    <2>2. Migrate!Current(j, ledger) /\ Migrate!Expected(j) \subseteq ledger
      BY <2>1 DEF Migrate!Current, Migrate!Pending, Migrate!Unexpected
    <2>3. Migrate!Ends(j, "done") /\ UNCHANGED <<ledger, known, app, failures, hit>>
      BY <1>4, <2>2 DEF Migrate!Finish
    <2>. QED
      BY <2>1, <2>2, <2>3, JobLeaves DEF HasLock, SchemaInv, Migrate!TypeOK, SchemaPrefix
  <1>5. ASSUME NEW j \in Jobs, Migrate!Fault(j) PROVE SchemaInv'
    <2>1. /\ HasLock(j) /\ Migrate!Ends(j, "failed") /\ UNCHANGED <<known, app>>
          /\ hit' = hit \cup {j} /\ hit' \subseteq Jobs /\ failures' \in Nat
      BY <1>5 DEF Migrate!Fault, HasLock, SchemaInv, Migrate!TypeOK
    <2>2. ledger \subseteq ledger' /\ ledger' \subseteq 1 .. Latest /\ SchemaPrefix'
      <3>1. CASE UNCHANGED ledger
        BY <3>1 DEF SchemaInv, Migrate!TypeOK, SchemaPrefix
      <3>2. CASE /\ job[j] = "applying" /\ Migrate!Pending(j, known[j]) # {}
                 /\ ledger' = ledger \cup {Migrate!First(Migrate!Pending(j, known[j]))}
        BY <3>2, NextVersion DEF SchemaInv, Migrate!TypeOK, SchemaPrefix
      <3>. QED
        BY <1>5, <3>1, <3>2 DEF Migrate!Fault
    <2>. QED
      BY <2>1, <2>2, JobLeaves
  <1>6. ASSUME NEW a \in Apps, Migrate!Boot(a) \/ Migrate!Probe(a) PROVE SchemaInv'
    <2>1. /\ UNCHANGED <<ledger, holders, job, known, failures, hit>>
          /\ \/ app' = [app EXCEPT ![a] = "up"] /\ Migrate!Current(a, ledger)
             \/ app' = [app EXCEPT ![a] = "refused"]
             \/ app' = [app EXCEPT ![a] = "unready"] /\ app[a] \in {"up", "unready"}
      BY <1>6 DEF Migrate!Boot, Migrate!Probe
    <2>2. Migrate!Current(a, ledger) => Migrate!Expected(a) \subseteq ledger
      BY DEF Migrate!Current, Migrate!Pending
    <2>3. Migrate!TypeOK'
      BY <2>1 DEF SchemaInv, Migrate!TypeOK
    <2>4. Answers'
      BY <2>1, <2>2, AnswersKept DEF SchemaInv, Migrate!TypeOK
    <2>. QED
      BY <2>1, <2>3, <2>4 DEF SchemaInv, SchemaPrefix, LockHeld, HasLock, Knowing
  <1>7. ASSUME UNCHANGED Migrate!vars PROVE SchemaInv'
    BY <1>7 DEF Migrate!vars, SchemaInv, Migrate!TypeOK, SchemaPrefix, LockHeld, HasLock, Knowing, Answers
  <1>. QED
    BY <1>1, <1>2, <1>3, <1>4, <1>5, <1>6, <1>7 DEF Migrate!Next

-----------------------------------------------------------------------------
(* The API server. *)

\* Until it listens there is no request, and the stores are closed last of all.
ServesInOrder ==
  /\ life \in {"starting", "refused"} => \A c \in Calls : call[c] = "none"
  /\ ~open => life \in {"closing", "exited"}

ServerInv == Api!TypeOK /\ ServesInOrder /\ Api!NobodyIsCut

\* A process that only handles its requests: the connections are what matters.
LEMMA RequestStep ==
  ASSUME ServerInv, UNCHANGED <<async, life, open, failsafe, ended>>,
         life \in {"listening", "draining", "closing"},
         call' \in [Calls -> Api!Call], gone \subseteq gone', gone' \subseteq Calls,
         \/ life # "closing"
         \/ \A c \in Calls : Api!Connected(c)' => Api!Connected(c)
  PROVE  ServerInv'
  BY DEF ServerInv, Api!TypeOK, ServesInOrder, Api!NobodyIsCut, Api!Connected

\* A process that changes its own state, and leaves the requests alone.
LEMMA LifeStep ==
  ASSUME ServerInv, UNCHANGED <<async, call, gone>>,
         life' \in Api!Life, ended' \in Api!Ended, {open', failsafe'} \subseteq BOOLEAN,
         life' = "exited" <=> ended' # "running",
         life' \in {"starting", "refused"} => life \in {"starting", "refused"},
         ~open' => life' \in {"closing", "exited"},
         \/ \A c \in Calls : ~Api!Connected(c)
         \/ life' # "closing" /\ ended' \notin {"drained", "startup", "killed"} /\ open' = open
  PROVE  ServerInv'
  BY DEF ServerInv, Api!TypeOK, ServesInOrder, Api!NobodyIsCut, Api!Connected

LEMMA ServerStep == ASSUME ServerInv, [Api!Next]_Api!vars PROVE ServerInv'
  <1>0. /\ call \in [Calls -> Api!Call] /\ gone \subseteq Calls
        /\ life = "exited" <=> ended # "running"
        /\ ended \in Api!Ended /\ {open, failsafe} \subseteq BOOLEAN
        /\ life \in {"starting", "refused"} => open /\ \A c \in Calls : ~Api!Connected(c)
        /\ life = "closing" => \A c \in Calls : ~Api!Connected(c)
        /\ ~open => \A c \in Calls : ~Api!Connected(c)
    BY DEF ServerInv, Api!TypeOK, ServesInOrder, Api!NobodyIsCut, Api!Connected
  <1>1. ASSUME Api!ListenWhenReady \/ Api!StartupFailed \/ Api!CloseRepository PROVE ServerInv'
    BY <1>0, <1>1, LifeStep DEF Api!ListenWhenReady, Api!StartupFailed, Api!CloseRepository, Api!Exits, Api!Life, Api!Ended
  <1>2. ASSUME NEW c \in Calls,
               \/ Api!Arrive(c) \/ Api!BodyEnds(c) \/ Api!BodyRefused(c) \/ Api!Resolve(c)
               \/ Api!Answer(c) \/ Api!OpenStream(c)
        PROVE  ServerInv'
    <2>1. /\ UNCHANGED <<async, life, open, failsafe, ended, gone>>
          /\ life \in {"listening", "draining", "closing"}
          /\ \E x \in Api!Call : call' = [call EXCEPT ![c] = x]
      BY <1>2 DEF Api!Arrive, Api!BodyEnds, Api!BodyRefused, Api!Resolve, Api!Answer,
                  Api!OpenStream, Api!Process, Api!Serving, Api!Call
    <2>2. life # "closing" \/ call[c] # "none"
      BY <1>2 DEF Api!Arrive, Api!BodyEnds, Api!BodyRefused, Api!Resolve, Api!Answer, Api!OpenStream
    <2>3. life # "closing" \/ call[c] \notin {"answered", "dropped"}
      BY <1>2 DEF Api!Arrive, Api!BodyEnds, Api!BodyRefused, Api!Resolve, Api!Answer, Api!OpenStream
    <2>4. \/ life # "closing"
          \/ \A d \in Calls : Api!Connected(d)' => Api!Connected(d)
      BY <1>0, <2>1, <2>2, <2>3 DEF Api!Connected
    <2>. QED
      BY <1>0, <2>1, <2>4, RequestStep
  <1>3. ASSUME NEW c \in Calls, Api!Uncaught(c) \/ Api!UncaughtPromise(c) PROVE ServerInv'
    BY <1>0, <1>3, LifeStep DEF Api!Uncaught, Api!UncaughtPromise, Api!Exits, Api!Life, Api!Ended
  <1>4. ASSUME NEW c \in Calls, Api!ClientGone(c) PROVE ServerInv'
    <2>1. /\ UNCHANGED <<async, life, open, failsafe, ended>>
          /\ life \in {"listening", "draining", "closing"}
          /\ gone' = gone \cup {c} /\ call' \in [Calls -> Api!Call]
          /\ \A d \in Calls : call'[d] = call[d] \/ call'[d] = "dropped"
      BY <1>0, <1>4 DEF Api!ClientGone, Api!Process, Api!Serving, Api!Call
    <2>2. \A d \in Calls : Api!Connected(d)' => Api!Connected(d)
      BY <2>1 DEF Api!Connected
    <2>. QED
      BY <1>0, <2>1, <2>2, RequestStep
  <1>5. ASSUME Api!Signal \/ Api!ServerClose PROVE ServerInv'
    <2>1. CASE life \in {"starting", "refused"} /\ Api!Signal
      BY <1>0, <2>1, LifeStep DEF Api!Signal, Api!Exits, Api!Life, Api!Ended
    <2>2. CASE life = "listening" /\ Api!Signal
      BY <1>0, <2>2, LifeStep DEF Api!Signal, Api!Life, ServerInv, ServesInOrder
    <2>3. CASE Api!ServerClose
      BY <1>0, <2>3, LifeStep DEF Api!ServerClose, Api!Life, Api!Ended
    <2>. QED
      BY <1>5, <2>1, <2>2, <2>3 DEF Api!Signal
  <1>6. ASSUME Api!CloseAll \/ Api!Drained \/ Api!Failsafe PROVE ServerInv'
    BY <1>0, <1>6, LifeStep DEF Api!CloseAll, Api!Drained, Api!Failsafe, Api!Exits, Api!Life, Api!Ended, ServerInv, ServesInOrder
  <1>7. ASSUME UNCHANGED Api!vars PROVE ServerInv'
    BY <1>7 DEF Api!vars, ServerInv, Api!TypeOK, ServesInOrder, Api!NobodyIsCut, Api!Connected
  <1>. QED
    BY <1>1, <1>2, <1>3, <1>4, <1>5, <1>6, <1>7 DEF Api!Next

LEMMA ServerInit == ASSUME Api!Init PROVE ServerInv
  BY DEF Api!Init, ServerInv, Api!TypeOK, Api!Life, Api!Ended, Api!Call, ServesInOrder, Api!NobodyIsCut, Api!Connected

-----------------------------------------------------------------------------
(* The behaviours of Processes. *)

\* What every behaviour keeps of the component it is about.
ProcessInv ==
  /\ Inv
  /\ machine = "api" => ServerInv
  /\ machine = "migration" => SchemaInv

\* A step is one of the component that machine names, and leaves the others alone.
LEMMA StepOfOne ==
  ASSUME [ProcessNext]_processVars
  PROVE  /\ machine' = machine
         /\ [Next]_vars
         /\ machine = "api" => [Api!Next]_Api!vars
         /\ machine = "migration" => [Migrate!Next]_Migrate!vars
  <1>1. CASE WorkerStep
    BY <1>1 DEF WorkerStep
  <1>2. CASE ApiStep
    BY <1>2 DEF ApiStep
  <1>3. CASE MigrationStep
    BY <1>3 DEF MigrationStep
  <1>4. CASE UNCHANGED processVars
    BY <1>4 DEF processVars, apiVars, migrationVars, Api!vars, Migrate!vars
  <1>. QED
    BY <1>1, <1>2, <1>3, <1>4 DEF ProcessNext

LEMMA ProcessAlways == ProcessSpec => []ProcessInv
  <1>1. ProcessInit => ProcessInv
    <2>1. SUFFICES ASSUME ProcessInit PROVE ProcessInv
      OBVIOUS
    <2>2. Init /\ (machine = "api" => Api!Init) /\ (machine = "migration" => Migrate!Init)
      BY <2>1 DEF ProcessInit
    <2>. QED
      BY <2>2, InitInv, ServerInit, SchemaInit, ProcessAssumption DEF ProcessInv
  <1>2. ProcessInv /\ [ProcessNext]_processVars => ProcessInv'
    <2>1. SUFFICES ASSUME ProcessInv, [ProcessNext]_processVars PROVE ProcessInv'
      OBVIOUS
    <2>2. Inv'
      BY <2>1, StepOfOne, InvStep DEF ProcessInv
    <2>3. machine = "api" => ServerInv'
      BY <2>1, StepOfOne, ServerStep DEF ProcessInv
    <2>4. machine = "migration" => SchemaInv'
      BY <2>1, StepOfOne, SchemaStep, ProcessAssumption DEF ProcessInv
    <2>. QED
      BY <2>1, <2>2, <2>3, <2>4, StepOfOne DEF ProcessInv
  <1>. QED
    BY <1>1, <1>2, PTL DEF ProcessSpec

\* The flags of createWorker and of the API's shutdown agree, and the state of the
\* migration jobs is what the runner can be in.
THEOREM ProcessTypes == ProcessSpec => []TypesOK
  <1>1. ProcessInv => TypesOK
    BY DEF ProcessInv, Inv, Flags, StateOK, TypeOK, ServerInv, SchemaInv, TypesOK
  <1>. QED
    BY <1>1, ProcessAlways, PTL

\* A worker stops in order: its handlers are bounded, are awaited before a clean
\* exit, and it is not shown as ready afterwards.
THEOREM WorkerStops == ProcessSpec => []StopsInOrder
  <1>1. ProcessInv => StopsInOrder
    BY DEF ProcessInv, Inv, Flags, StateOK, CountersOK, Awaited, Drained, Room, Shown,
           StopsInOrder, HandlersBounded, DrainedUnlessBroken, StoppedNotShownReady
  <1>. QED
    BY <1>1, ProcessAlways, PTL

\* For any requests, and whenever clients go, streams fail and signals come: where
\* the stores are closed or the process has ended, a client that stayed has its
\* answer, but for the ten-second timer and a failing event stream.
THEOREM ServerCutsNobody == ProcessSpec => []NobodyIsCut
  <1>1. ProcessInv => NobodyIsCut
    BY DEF ProcessInv, ServerInv, NobodyIsCut
  <1>. QED
    BY <1>1, ProcessAlways, PTL

\* Whatever releases migrate the database at once, and wherever they are broken
\* off, the schema is that of the first n migrations, and a process that was let in
\* has all that its release knows.
THEOREM SchemaKept == ProcessSpec => []SchemaIsPrefix
  <1>1. ProcessInv => SchemaIsPrefix
    BY DEF ProcessInv, SchemaInv, SchemaPrefix, Answers, SchemaIsPrefix, Migrate!SchemaIsPrefix
  <1>. QED
    BY <1>1, ProcessAlways, PTL

\* Migration jobs that meet do not make each other fail.
THEOREM NoMigrationClash == ProcessSpec => []JobsDoNotClash
  <1>1. ProcessInv => JobsDoNotClash
    BY DEF ProcessInv, SchemaInv, Answers, JobsDoNotClash, Migrate!JobsDoNotClash
  <1>. QED
    BY <1>1, ProcessAlways, PTL

=============================================================================
