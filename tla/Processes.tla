------------------------------ MODULE Processes ------------------------------
(***************************************************************************)
(* The processes of a deployment: a worker that starts and stops, an API   *)
(* server that does, and the migration jobs of its releases.  They share   *)
(* no state, so each is taken by itself: a behaviour is one of the         *)
(* component that machine names.                                           *)
(***************************************************************************)
EXTENDS WorkerLifecycle

CONSTANTS
  Calls,                                 \* ApiServer
  Jobs, Apps, Latest, Knows, MaxOutages  \* Migrations

-----------------------------------------------------------------------------
VARIABLES async, life, open, failsafe, ended, call, gone

apiVars == <<async, life, open, failsafe, ended, call, gone>>

Api == INSTANCE ApiServer

VARIABLES ledger, holders, job, known, app, failures, hit

migrationVars == <<ledger, holders, job, known, app, failures, hit>>

Migrate == INSTANCE Migrations WITH MaxFaults <- MaxOutages, faults <- failures

ASSUME ProcessAssumption == Migrate!MigrationAssumption

-----------------------------------------------------------------------------
VARIABLE machine

\* What stays out of a behaviour has no state.
ApiIdle ==
  /\ async = 0 /\ life = 0 /\ open = 0 /\ failsafe = 0
  /\ ended = 0 /\ call = 0 /\ gone = 0
MigrationIdle ==
  /\ ledger = 0 /\ holders = 0 /\ job = 0 /\ known = 0
  /\ app = 0 /\ failures = 0 /\ hit = 0

ProcessInit ==
  /\ \/ machine = "worker" /\ ApiIdle /\ MigrationIdle
     \/ machine = "api" /\ Api!Init /\ MigrationIdle
     \/ machine = "migration" /\ ApiIdle /\ Migrate!Init
  /\ Init

WorkerStep    == machine = "worker" /\ Next /\ UNCHANGED <<machine, apiVars, migrationVars>>
ApiStep       == machine = "api" /\ Api!Next /\ UNCHANGED <<machine, vars, migrationVars>>
MigrationStep == machine = "migration" /\ Migrate!Next /\ UNCHANGED <<machine, vars, apiVars>>

ProcessNext == WorkerStep \/ ApiStep \/ MigrationStep

processVars == <<machine, vars, apiVars, migrationVars>>

\* Fairness of WorkerLifecycle and of ApiServer, each in its behaviours.
ProcessFairness ==
  /\ WF_processVars(machine = "worker" /\ StopBeat /\ UNCHANGED <<machine, apiVars, migrationVars>>)
  /\ WF_processVars(machine = "worker" /\ Timeout /\ UNCHANGED <<machine, apiVars, migrationVars>>)
  /\ WF_processVars(machine = "worker" /\ Close /\ UNCHANGED <<machine, apiVars, migrationVars>>)
  /\ WF_processVars(machine = "api" /\ Api!CloseRepository /\ UNCHANGED <<machine, vars, migrationVars>>)
  /\ WF_processVars(machine = "api" /\ Api!Failsafe /\ UNCHANGED <<machine, vars, migrationVars>>)

ProcessSpec == ProcessInit /\ [][ProcessNext]_processVars /\ ProcessFairness

-----------------------------------------------------------------------------
(* What the components promise; the comments are in their modules. *)

\* The variables of every component have their types.
TypesOK ==
  /\ TypeOK
  /\ machine = "api" => Api!TypeOK
  /\ machine = "migration" => Migrate!TypeOK

\* The shutdown of the API cuts nobody who waits for an answer.
NobodyIsCut == machine = "api" => Api!NobodyIsCut

\* An API process that was told to stop does stop.
ServerStops == (machine = "api" /\ life = "draining") ~> (machine = "api" /\ life = "exited")

\* The schema is a prefix of the migrations, whoever applies them.
SchemaIsPrefix == machine = "migration" => Migrate!SchemaIsPrefix

\* Migration jobs that meet do not make each other fail.
JobsDoNotClash == machine = "migration" => Migrate!JobsDoNotClash
=============================================================================
