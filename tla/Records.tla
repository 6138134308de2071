------------------------------- MODULE Records -------------------------------
(***************************************************************************)
(* The records of a tenant: field reports, the audit trail, the            *)
(* collections of the API, the disposition of findings, the lifecycles of  *)
(* permits, projects and field items, and the paging of a list.  Each is   *)
(* taken by itself, on the part of the store it needs: a behaviour is one  *)
(* of the component that machine names.                                    *)
(***************************************************************************)
EXTENDS FieldReports

CONSTANTS
  None,
  Writers, Locking, EventIds, Appends, Null,               \* AuditChain
  Tenants, Ids, Kinds, Posts, Bodies, ClientKeys,          \* Collections
  Backends, Disk, Seed, MaxStoreFaults,
  Findings, Issues, Born, Nexts, MaxAsks, MaxMishaps,      \* Dispositions
  Callers, MaxCycles,                                      \* Lifecycles
  Listed, Statuses, NewStatus, Limits, ListBackends, MaxSaves   \* Listing

-----------------------------------------------------------------------------
VARIABLES rows, seq, lock, writer

auditVars == <<rows, seq, lock, writer>>

Audit == INSTANCE AuditChain

VARIABLES backend, db, jobs, image, cache, request, failed, hit, crashed, overwrote

collVars == <<backend, db, jobs, image, cache, request, failed, hit, crashed, overwrote>>

Coll == INSTANCE Collections
  WITH Requests <- Posts, Asks <- Bodies, MaxFaults <- MaxStoreFaults, faults <- failed

VARIABLES finding, tenantIssues, marks, asks, mishaps, mixed

dispVars == <<finding, tenantIssues, marks, asks, mishaps, mixed>>

Disp == INSTANCE Dispositions

VARIABLES matter, permit, project, item, held, born, supported

lifeVars == <<matter, permit, project, item, held, born, supported>>

Life == INSTANCE Lifecycles

VARIABLES listed, order, status, walk, shifts, saves

listVars == <<listed, order, status, walk, shifts, saves>>

List == INSTANCE Listing
  WITH Reports <- Listed, Born <- NewStatus, Backends <- ListBackends, backend <- listed,
       rows <- order

ASSUME RecordsAssumption ==
  /\ Audit!AuditAssumption
  /\ Coll!CollectionAssumption
  /\ Disp!DispositionAssumption
  /\ Life!LifecycleAssumption
  /\ List!ListingAssumption

-----------------------------------------------------------------------------
VARIABLE machine

\* What stays out of a behaviour has no state.
AuditIdle == rows = 0 /\ seq = 0 /\ lock = 0 /\ writer = 0
CollIdle ==
  /\ backend = 0 /\ db = 0 /\ jobs = 0 /\ image = 0 /\ cache = 0
  /\ request = 0 /\ failed = 0 /\ hit = 0 /\ crashed = 0 /\ overwrote = 0
DispIdle ==
  /\ finding = 0 /\ tenantIssues = 0 /\ marks = 0
  /\ asks = 0 /\ mishaps = 0 /\ mixed = 0
LifeIdle ==
  /\ matter = 0 /\ permit = 0 /\ project = 0
  /\ item = 0 /\ held = 0 /\ born = 0 /\ supported = 0
ListIdle ==
  /\ listed = 0 /\ order = 0 /\ status = 0
  /\ walk = 0 /\ shifts = 0 /\ saves = 0

RecordsInit ==
  /\ \/ machine = "reports" /\ AuditIdle /\ CollIdle /\ DispIdle /\ LifeIdle /\ ListIdle
     \/ machine = "trail" /\ Audit!Init /\ CollIdle /\ DispIdle /\ LifeIdle /\ ListIdle
     \/ machine = "collections" /\ AuditIdle /\ Coll!Init /\ DispIdle /\ LifeIdle /\ ListIdle
     \/ machine = "findings" /\ AuditIdle /\ CollIdle /\ Disp!Init /\ LifeIdle /\ ListIdle
     \/ machine = "lifecycles" /\ AuditIdle /\ CollIdle /\ DispIdle /\ Life!Init /\ ListIdle
     \/ machine = "pages" /\ AuditIdle /\ CollIdle /\ DispIdle /\ LifeIdle /\ List!Init
  /\ Init
  /\ machine # "reports" => active = {}

ReportsStep == machine = "reports" /\ Next /\ UNCHANGED <<machine, auditVars, collVars, dispVars, lifeVars, listVars>>
TrailStep == machine = "trail" /\ Audit!Next /\ UNCHANGED <<machine, vars, collVars, dispVars, lifeVars, listVars>>
CollectionsStep == machine = "collections" /\ Coll!Next /\ UNCHANGED <<machine, vars, auditVars, dispVars, lifeVars, listVars>>
FindingsStep == machine = "findings" /\ Disp!Next /\ UNCHANGED <<machine, vars, auditVars, collVars, lifeVars, listVars>>
LifecyclesStep == machine = "lifecycles" /\ Life!Next /\ UNCHANGED <<machine, vars, auditVars, collVars, dispVars, listVars>>
PagesStep == machine = "pages" /\ List!Next /\ UNCHANGED <<machine, vars, auditVars, collVars, dispVars, lifeVars>>

RecordsNext ==
  \/ ReportsStep \/ TrailStep \/ CollectionsStep
  \/ FindingsStep \/ LifecyclesStep \/ PagesStep

RecordsSpec ==
  RecordsInit /\ [][RecordsNext]_<<machine, vars, auditVars, collVars, dispVars, lifeVars, listVars>>

-----------------------------------------------------------------------------
(* What the components promise; the comments are in their modules. *)

\* The variables of every component have their types.
TypesOK ==
  /\ TypeOK
  /\ machine = "trail" => Audit!TypeOK
  /\ machine = "collections" => Coll!TypeOK
  /\ machine = "findings" => Disp!TypeOK
  /\ machine = "lifecycles" => Life!TypeOK
  /\ machine = "pages" => List!TypeOK

\* The audit trail can be trusted as far as its writers take the lock.
TrailIsSound == machine = "trail" => Audit!TrailIsSound

\* Under the lock the audit trail is an append-only log.
TrailGrowsAsLog ==
  /\ machine = "trail" => Audit!Log!Init
  /\ [][machine = "trail" => (Audit!OnlyLocking' => Audit!Log!Next \/ UNCHANGED Audit!Trail)]_auditVars

\* What was answered with 201 is stored, and stays so.
AcknowledgedIsKept == machine = "collections" => Coll!AcknowledgedIsKept

\* A stored record has its audit event and its outbox job.
EvidenceIsWhole == machine = "collections" => Coll!EvidenceIsWhole

\* A stored record hangs from a parent of its own tenant.
ChildInTenant == machine = "collections" => Coll!ChildInTenant

\* A finding shows what one request asked for, and its trail tells of it.
DispositionIsTold ==
  machine = "findings" => Disp!DispositionIsOfOneRequest /\ Disp!TrailOfFinding

\* The transition tables have no way round their approvals.
NoWayRound == machine = "lifecycles" => Life!NoWayRound

\* Paging misses and repeats only what was shifted under it.
WalkMissesOnlyShifted == machine = "pages" => List!WalkMissesOnlyShifted
=============================================================================
