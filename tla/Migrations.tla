----------------------------- MODULE Migrations -----------------------------
(***************************************************************************)
(* The schema of the PostgreSQL database: applyPostgresMigrations, run by  *)
(* the migration job of a release under one advisory lock, and the check   *)
(* by which an application starts only on the schema of its own release    *)
(* (apps/api/src/repositories/postgres-migrations.js).  The versions are   *)
(* numbered in the order of POSTGRES_MIGRATIONS, and a release knows the   *)
(* first few of them.                                                      *)
(***************************************************************************)
EXTENDS Integers, FiniteSets

CONSTANTS
  Jobs,       \* runs of the migration job
  Apps,       \* API and worker processes
  Latest,     \* the number of versions there are
  Knows,      \* the number of versions that the release of each knows
  MaxFaults   \* bound: failing statements and lost connections

MigrationAssumption ==
  /\ {Latest, MaxFaults} \subseteq Nat
  /\ Knows \in [Jobs \cup Apps -> 0 .. Latest]

VARIABLES
  ledger,     \* schema_migrations, and with it the schema
  holders,    \* the sessions that hold the advisory lock
  job,
  known,      \* the versions each job takes for applied
  app,
  faults,
  hit         \* history: jobs with a failing statement or a lost connection

vars == <<ledger, holders, job, known, app, faults, hit>>

-----------------------------------------------------------------------------
JobPhase == {"new", "locked", "applying", "done", "failed"}

Expected(x) == 1 .. Knows[x]

Pending(x, applied) == Expected(x) \ applied

Unexpected(x, applied) == applied \ Expected(x)

\* migrationStatus
Current(x, applied) == Pending(x, applied) = {} /\ Unexpected(x, applied) = {}

First(versions) == CHOOSE v \in versions : \A w \in versions : v <= w

Init ==
  /\ \E n \in 0 .. Latest : ledger = 1 .. n
  /\ holders = {}
  /\ job = [j \in Jobs |-> "new"]
  /\ known = [j \in Jobs |-> {}]
  /\ app = [a \in Apps |-> "down"]
  /\ faults = 0
  /\ hit = {}

Ends(j, how) ==
  /\ job' = [job EXCEPT ![j] = how]
  /\ holders' = holders \ {j}

-----------------------------------------------------------------------------
LockBug(j) ==
  /\ job[j] = "new"
  /\ holders' = holders \cup {j}
  /\ job' = [job EXCEPT ![j] = "locked"]
  /\ UNCHANGED <<ledger, known, app, faults, hit>>

\* pg_advisory_lock
Lock(j) ==
  /\ job[j] = "new"
  /\ holders = {}
  /\ holders' = {j}
  /\ job' = [job EXCEPT ![j] = "locked"]
  /\ UNCHANGED <<ledger, known, app, faults, hit>>

\* A schema newer than the release is refused before anything is done.
ReadApplied(j) ==
  /\ job[j] = "locked"
  /\ IF Unexpected(j, ledger) # {}
     THEN Ends(j, "failed") /\ UNCHANGED known
     ELSE /\ job' = [job EXCEPT ![j] = "applying"]
          /\ known' = [known EXCEPT ![j] = ledger]
          /\ UNCHANGED holders
  /\ UNCHANGED <<ledger, app, faults, hit>>

ApplyBug(j) ==
  /\ job[j] = "applying"
  /\ \E v \in Pending(j, known[j]) :
       IF v \in ledger
       THEN Ends(j, "failed") /\ UNCHANGED <<ledger, known>>
       ELSE /\ ledger' = ledger \cup {v}
            /\ known' = [known EXCEPT ![j] = @ \cup {v}]
            /\ UNCHANGED <<job, holders>>
  /\ UNCHANGED <<app, faults, hit>>

\* The next migration and its row, in one transaction; what is there already
\* makes it fail.
Apply(j) ==
  /\ job[j] = "applying"
  /\ Pending(j, known[j]) # {}
  /\ LET v == First(Pending(j, known[j]))
     IN IF v \in ledger
        THEN Ends(j, "failed") /\ UNCHANGED <<ledger, known>>
        ELSE /\ ledger' = ledger \cup {v}
             /\ known' = [known EXCEPT ![j] = @ \cup {v}]
             /\ UNCHANGED <<job, holders>>
  /\ UNCHANGED <<app, faults, hit>>

\* The final check, and the unlock.
Finish(j) ==
  /\ job[j] = "applying"
  /\ Pending(j, known[j]) = {}
  /\ Ends(j, IF Current(j, ledger) THEN "done" ELSE "failed")
  /\ UNCHANGED <<ledger, known, app, faults, hit>>

\* A statement fails and its transaction is rolled back, or the connection is
\* lost and a COMMIT may have been done; the lock goes with the session.
Fault(j) ==
  /\ job[j] \in {"locked", "applying"}
  /\ faults < MaxFaults
  /\ faults' = faults + 1
  /\ hit' = hit \cup {j}
  /\ Ends(j, "failed")
  /\ \/ UNCHANGED ledger
     \/ /\ job[j] = "applying" /\ Pending(j, known[j]) # {}
        /\ ledger' = ledger \cup {First(Pending(j, known[j]))}
  /\ UNCHANGED <<known, app>>

\* The pool of a process is opened on a current schema only; a process whose
\* first check failed keeps the rejected pool.
Boot(a) ==
  /\ app[a] = "down"
  /\ app' = [app EXCEPT ![a] = IF Current(a, ledger) THEN "up" ELSE "refused"]
  /\ UNCHANGED <<ledger, holders, job, known, faults, hit>>

\* checkPostgresReadiness, at every probe.
Probe(a) ==
  /\ app[a] \in {"up", "unready"}
  /\ app' = [app EXCEPT ![a] = IF Current(a, ledger) THEN "up" ELSE "unready"]
  /\ UNCHANGED <<ledger, holders, job, known, faults, hit>>

Next ==
  \/ \E j \in Jobs : Lock(j) \/ ReadApplied(j) \/ Apply(j) \/ Finish(j) \/ Fault(j)
  \/ \E a \in Apps : Boot(a) \/ Probe(a)

Spec == Init /\ [][Next]_vars

-----------------------------------------------------------------------------
\* Every variable has its type.
TypeOK ==
  /\ ledger \subseteq 1 .. Latest
  /\ holders \subseteq Jobs
  /\ job \in [Jobs -> JobPhase]
  /\ known \in [Jobs -> SUBSET (1 .. Latest)]
  /\ app \in [Apps -> {"down", "up", "unready", "refused"}]
  /\ faults \in Nat
  /\ hit \subseteq Jobs

(***************************************************************************)
(* Whatever releases migrate one database at once, and wherever they are   *)
(* broken off, the schema is the result of the first n migrations in their *)
(* order, and a process that was let in has all that its release knows.    *)
(***************************************************************************)
SchemaIsPrefix ==
  /\ \E n \in 0 .. Latest : ledger = 1 .. n
  /\ \A a \in Apps : app[a] \in {"up", "unready"} => Expected(a) \subseteq ledger
  /\ \A j \in Jobs : job[j] = "done" => Expected(j) \subseteq ledger

(***************************************************************************)
(* "The migration runner serializes concurrent attempts" (managed-postgres-*)
(* runbook.md): jobs that meet do not make each other fail.  A job fails   *)
(* only on a fault of its own or on a schema newer than its release.       *)
(***************************************************************************)
JobsDoNotClash ==
  \A j \in Jobs : job[j] = "failed" => j \in hit \/ Unexpected(j, ledger) # {}
=============================================================================
