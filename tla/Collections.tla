---------------------------- MODULE Collections ----------------------------
(***************************************************************************)
(* The collections of the API (apps/api/src/handlers.js): a POST checks    *)
(* the Idempotency-Key, the parent of the new record and its id, and then  *)
(* writes the record, its audit event and its outbox job, over each of the *)
(* four repositories.  Only PostgreSQL writes the three in a transaction.  *)
(* The memory repository lives and dies with its process; the file         *)
(* repository reads the whole store and renames a new one over it, and     *)
(* sqlite runs its SELECT and its INSERT apart: neither lets another       *)
(* request of its process in between, but another process may come in.     *)
(***************************************************************************)
EXTENDS Naturals, FiniteSets

CONSTANTS
  Tenants, Ids,
  Kinds,        \* the collections, by the segment of their path
  Procs,        \* the API processes
  Requests,     \* the POSTs of a behaviour: its bound
  Asks,         \* the bodies the clients send
  ClientKeys,   \* the Idempotency-Keys of the clients
  Backends,     \* the repositories the deployment may choose from
  Disk,         \* the place of a store that processes share
  None,
  Seed,         \* the records a store starts with
  MaxFaults     \* bound: failing statements and crashes

VARIABLES
  backend,    \* XYGO_API_REPOSITORY_MODE
  db,         \* the records and the audited creations of each store
  jobs,       \* the outbox jobs by store; only PostgreSQL has them in its database
  image,      \* the store a process has read and is about to write back
  cache,      \* the answers in the idempotency store of each process
  request,
  faults,
  hit,        \* history: requests with a failing statement
  crashed,    \* history: processes that crashed
  overwrote   \* history: a process wrote back a store that was no longer current

vars == <<backend, db, jobs, image, cache, request, faults, hit, crashed, overwrote>>

-----------------------------------------------------------------------------
Record == [kind : Kinds, id : Ids, tenant : Tenants, parent : Ids]

Store == [recs : SUBSET Record, audited : SUBSET Record]

\* names: the tenantId of the body, when it has one.
Ask == [kind : Kinds, id : Ids, tenant : Tenants, parent : Ids, names : Tenants, key : ClientKeys \cup {None}]

Phase == {"guard", "create", "insert", "store", "audit", "log", "job", "commit", "answer"}

Answer == {"created", "replayed", "forbidden", "exists", "invalid", "failed", "lost"}

Written(ask) == [kind |-> ask.kind, id |-> ask.id, tenant |-> ask.tenant, parent |-> ask.parent]

Place(p) == IF backend = "memory" THEN p ELSE Disk

Places == Procs \cup {Disk}

InFlight(r) == request[r].phase \in Phase

\* A synchronous function of the repository is half done.
Busy(p) ==
  \E r \in Requests : /\ request[r].phase \in {"insert", "store", "log"}
                      /\ request[r].proc = p
                      /\ backend \in {"file", "sqlite"}

\* The rows a transaction has inserted and not committed lock their ids.
Uncommitted(r) == backend = "postgres" /\ request[r].phase \in {"audit", "job", "commit"}

-----------------------------------------------------------------------------
(* The table of the collections: what a body must name. *)

Taken(ask, recs) == \E rec \in recs : rec.kind = ask.kind /\ rec.id = ask.id

ProjectInTenantBug(ask, recs) ==
  \E rec \in recs : rec.kind = "projects" /\ rec.id = ask.parent

ProjectInTenant(ask, recs) ==
  \E rec \in recs : rec.kind = "projects" /\ rec.id = ask.parent /\ rec.tenant = ask.tenant

RunInTenant(ask, recs) ==
  \E rec \in recs : rec.kind = "ai-review-runs" /\ rec.id = ask.parent /\ rec.tenant = ask.tenant

OwnTenant(ask) == ask.names = ask.tenant

ReportInTenant(ask, recs) == OwnTenant(ask) /\ ProjectInTenant(ask, recs)

Allowed(ask, recs) ==
  CASE ask.kind \in {"projects", "platform-blueprints"} -> OwnTenant(ask)
    [] ask.kind = "ai-findings"                         -> RunInTenant(ask, recs)
    [] ask.kind = "field-reports"                       -> ReportInTenant(ask, recs)
    [] OTHER                                            -> ProjectInTenant(ask, recs)

\* The parent of a record, if it needs one, in its own tenant.
HasParent(rec, recs) ==
  \/ rec.kind \in {"projects", "platform-blueprints"}
  \/ \E par \in recs : /\ par.kind = (IF rec.kind = "ai-findings" THEN "ai-review-runs" ELSE "projects")
                       /\ par.id = rec.parent
                       /\ par.tenant = rec.tenant

CollectionAssumption ==
  /\ MaxFaults \in Nat
  /\ None \notin Tenants \cup Ids \cup Procs \cup ClientKeys \cup Asks
  /\ Disk \notin Procs
  /\ Asks \subseteq Ask
  /\ Backends \subseteq {"memory", "file", "sqlite", "postgres"}
  /\ Seed \subseteq Record /\ \A rec \in Seed : HasParent(rec, Seed)

\* The INSERT of an RFI names seven columns and gives six values.
Malformed(ask) == backend = "postgres" /\ ask.kind = "rfis"

-----------------------------------------------------------------------------
NoRequest == [phase |-> "unsent", proc |-> None, ask |-> None]

Init ==
  /\ backend \in Backends
  /\ db = [x \in Places |-> [recs |-> Seed, audited |-> {}]]
  /\ jobs = [x \in Places |-> {}]
  /\ image = [p \in Procs |-> None]
  /\ cache = [p \in Procs |-> {}]
  /\ request = [r \in Requests |-> NoRequest]
  /\ faults = 0
  /\ hit = {}
  /\ crashed = {}
  /\ overwrote = FALSE

Moves(r, phase) == request' = [request EXCEPT ![r].phase = phase]

Keeps == UNCHANGED <<backend, faults, hit, crashed>>

Writes == UNCHANGED <<db, jobs, image, overwrote>>

\* withIdempotency: an answer in the store of this process is replayed.
Send(r, p, ask) ==
  /\ request[r].phase = "unsent"
  /\ ~Busy(p)
  /\ LET kept == {c \in cache[p] : /\ c.tenant = ask.tenant
                                   /\ c.kind = ask.kind
                                   /\ c.key = ask.key}
     IN IF kept = {}
        THEN request' = [request EXCEPT ![r] = [phase |-> "guard", proc |-> p, ask |-> ask]]
        ELSE \E c \in kept :
               request' = [request EXCEPT ![r] = [phase |-> "replayed", proc |-> p,
                             ask |-> [ask EXCEPT !.id = c.id, !.parent = c.parent]]]
  /\ Writes /\ Keeps /\ UNCHANGED cache

\* resource.guard reads the parent before the transaction, if there is one.
Guard(r) ==
  LET q == request[r]
  IN /\ q.phase = "guard"
     /\ ~Busy(q.proc)
     /\ Moves(r, IF Allowed(q.ask, db[Place(q.proc)].recs) THEN "create" ELSE "forbidden")
     /\ Writes /\ Keeps /\ UNCHANGED cache

\* The create function of the package throws on what it does not accept.
Invalid(r) ==
  /\ request[r].phase = "create"
  /\ ~Busy(request[r].proc)
  /\ Moves(r, "invalid")
  /\ Writes /\ Keeps /\ UNCHANGED cache

CreateInMemory(r) ==
  LET q == request[r]
  IN /\ q.phase = "create"
     /\ backend = "memory"
     /\ IF Taken(q.ask, db[q.proc].recs)
        THEN Moves(r, "exists") /\ UNCHANGED db
        ELSE /\ Moves(r, "audit")
             /\ db' = [db EXCEPT ![q.proc].recs = @ \cup {Written(q.ask)}]
     /\ Keeps /\ UNCHANGED <<jobs, image, overwrote, cache>>

\* readState: the whole store, for the record and again for the audit event.
ReadFile(r) ==
  LET q == request[r]
  IN /\ q.phase \in {"create", "audit"}
     /\ backend = "file"
     /\ ~Busy(q.proc)
     /\ IF q.phase = "create" /\ Taken(q.ask, db[Disk].recs)
        THEN Moves(r, "exists") /\ UNCHANGED image
        ELSE /\ Moves(r, IF q.phase = "create" THEN "store" ELSE "log")
             /\ image' = [image EXCEPT ![q.proc] = db[Disk]]
     /\ Keeps /\ UNCHANGED <<db, jobs, overwrote, cache>>

\* writeState: the rename puts the new store in the place of the current one.
WriteFile(r) ==
  LET q == request[r]
  IN /\ q.phase \in {"store", "log"}
     /\ db' = [db EXCEPT ![Disk] =
                 IF q.phase = "store"
                 THEN [image[q.proc] EXCEPT !.recs = @ \cup {Written(q.ask)}]
                 ELSE [image[q.proc] EXCEPT !.audited = @ \cup {Written(q.ask)}]]
     /\ overwrote' = (overwrote \/ db[Disk] # image[q.proc])
     /\ image' = [image EXCEPT ![q.proc] = None]
     /\ Moves(r, IF q.phase = "store" THEN "audit" ELSE "job")
     /\ Keeps /\ UNCHANGED <<jobs, cache>>

\* SELECT ... WHERE id: in PostgreSQL the first statement of the transaction.
Select(r) ==
  LET q == request[r]
  IN /\ q.phase = "create"
     /\ backend \in {"sqlite", "postgres"}
     /\ ~Busy(q.proc)
     /\ Moves(r, IF Taken(q.ask, db[Disk].recs) THEN "exists" ELSE "insert")
     /\ Writes /\ Keeps /\ UNCHANGED cache

\* An INSERT OR REPLACE.
InsertSqliteBug(r) ==
  LET q == request[r]
  IN /\ q.phase = "insert"
     /\ backend = "sqlite"
     /\ Moves(r, "audit")
     /\ db' = [db EXCEPT ![Disk].recs = {rec \in @ : ~Taken(q.ask, {rec})} \cup {Written(q.ask)}]
     /\ Keeps /\ UNCHANGED <<jobs, image, overwrote, cache>>

InsertSqlite(r) ==
  LET q == request[r]
  IN /\ q.phase = "insert"
     /\ backend = "sqlite"
     /\ IF Taken(q.ask, db[Disk].recs)
        THEN Moves(r, "failed") /\ UNCHANGED db
        ELSE /\ Moves(r, "audit")
             /\ db' = [db EXCEPT ![Disk].recs = @ \cup {Written(q.ask)}]
     /\ Keeps /\ UNCHANGED <<jobs, image, overwrote, cache>>

\* The primary key makes the INSERT wait for a transaction with the same id.
InsertPostgres(r) ==
  LET q == request[r]
  IN /\ q.phase = "insert"
     /\ backend = "postgres"
     /\ \A o \in Requests \ {r} : Uncommitted(o) => ~Taken(q.ask, {Written(request[o].ask)})
     /\ Moves(r, IF Malformed(q.ask) \/ Taken(q.ask, db[Disk].recs) THEN "failed" ELSE "audit")
     /\ Writes /\ Keeps /\ UNCHANGED cache

\* appendTenantAuditEvent
Audit(r) ==
  LET q == request[r]
  IN /\ q.phase = "audit"
     /\ backend # "file"
     /\ ~Busy(q.proc)
     /\ Moves(r, "job")
     /\ db' = IF backend = "postgres" THEN db
              ELSE [db EXCEPT ![Place(q.proc)].audited = @ \cup {Written(q.ask)}]
     /\ Keeps /\ UNCHANGED <<jobs, image, overwrote, cache>>

\* The job has one idempotency key, made of the tenant, the kind and the id.
Enqueue(r) ==
  LET q == request[r]
  IN /\ q.phase = "job"
     /\ ~Busy(q.proc)
     /\ IF backend = "postgres"
        THEN Moves(r, "commit") /\ UNCHANGED jobs
        ELSE /\ Moves(r, "answer")
             /\ jobs' = [jobs EXCEPT ![Place(q.proc)] = @ \cup {Written(q.ask)}]
     /\ Keeps /\ UNCHANGED <<db, image, overwrote, cache>>

\* The job is left to a second transaction.
PublishBug(r) ==
  LET rec == Written(request[r].ask)
  IN /\ db' = [db EXCEPT ![Disk].recs = @ \cup {rec}, ![Disk].audited = @ \cup {rec}]
     /\ UNCHANGED jobs

Publish(r) ==
  LET rec == Written(request[r].ask)
  IN /\ db' = [db EXCEPT ![Disk].recs = @ \cup {rec}, ![Disk].audited = @ \cup {rec}]
     /\ jobs' = [jobs EXCEPT ![Disk] = @ \cup {rec}]

Commit(r) ==
  /\ request[r].phase = "commit"
  /\ Publish(r)
  /\ Moves(r, "answer")
  /\ Keeps /\ UNCHANGED <<image, overwrote, cache>>

\* The answer 201 is cached under the client's key, if it sent one.
Created(r) ==
  LET q == request[r]
  IN /\ q.phase = "answer"
     /\ ~Busy(q.proc)
     /\ Moves(r, "created")
     /\ cache' = IF q.ask.key = None THEN cache ELSE [cache EXCEPT ![q.proc] = @ \cup {q.ask}]
     /\ Writes /\ Keeps

\* A statement fails, and the transaction is rolled back; a COMMIT that
\* fails may have been done.  In memory nothing fails.
Fault(r) ==
  /\ request[r].phase \in Phase \ {"guard", "answer"}
  /\ backend # "memory"
  /\ faults < MaxFaults
  /\ faults' = faults + 1
  /\ hit' = hit \cup {r}
  /\ Moves(r, "failed")
  /\ image' = [image EXCEPT ![request[r].proc] =
                 IF request[r].phase \in {"store", "log"} THEN None ELSE @]
  /\ \/ UNCHANGED <<db, jobs>>
     \/ request[r].phase = "commit" /\ Publish(r)
  /\ UNCHANGED <<backend, cache, crashed, overwrote>>

\* With its process go its requests, its answers and what it held in memory.
Crash(p) ==
  /\ faults < MaxFaults
  /\ faults' = faults + 1
  /\ crashed' = crashed \cup {p}
  /\ request' = [r \in Requests |-> IF request[r].proc = p /\ InFlight(r)
                                    THEN [request[r] EXCEPT !.phase = "lost"] ELSE request[r]]
  /\ image' = [image EXCEPT ![p] = None]
  /\ cache' = [cache EXCEPT ![p] = {}]
  /\ db' = [db EXCEPT ![p] = [recs |-> Seed, audited |-> {}]]
  /\ jobs' = [jobs EXCEPT ![p] = {}]
  /\ UNCHANGED <<backend, hit, overwrote>>

Next ==
  \/ \E r \in Requests, p \in Procs, ask \in Asks : Send(r, p, ask)
  \/ \E r \in Requests :
       \/ Guard(r) \/ Invalid(r)
       \/ CreateInMemory(r) \/ ReadFile(r) \/ WriteFile(r)
       \/ Select(r) \/ InsertSqlite(r) \/ InsertPostgres(r)
       \/ Audit(r) \/ Enqueue(r) \/ Commit(r) \/ Created(r) \/ Fault(r)
  \/ \E p \in Procs : Crash(p)

Spec == Init /\ [][Next]_vars

-----------------------------------------------------------------------------
TypeOK ==
  /\ backend \in Backends
  /\ db \in [Places -> Store]
  /\ jobs \in [Places -> SUBSET Record]
  /\ image \in [Procs -> Store \cup {None}]
  /\ cache \in [Procs -> SUBSET Ask]
  /\ \A r \in Requests :
       \/ request[r] = NoRequest
       \/ request[r] \in [phase : Phase \cup Answer, proc : Procs, ask : Ask]
  /\ faults \in 0..MaxFaults
  /\ hit \subseteq Requests
  /\ crashed \subseteq Procs
  /\ overwrote \in BOOLEAN

Acknowledged(r) == request[r].phase \in {"created", "replayed"}

(***************************************************************************)
(* A record the API has answered 201 for is in the store, also under the   *)
(* replay of an Idempotency-Key, and no other request was told it created  *)
(* a record of that id.  Only a memory store that died with its process or *)
(* a file written back by two processes at once may break this.            *)
(***************************************************************************)
AcknowledgedIsKept ==
  \A r \in Requests : Acknowledged(r) =>
    \/ backend = "memory" /\ request[r].proc \in crashed
    \/ overwrote
    \/ /\ Written(request[r].ask) \in db[Place(request[r].proc)].recs
       /\ \A o \in Requests \ {r} :
            /\ request[o].phase = "created" /\ request[r].phase = "created"
            /\ Place(request[o].proc) = Place(request[r].proc)
            => ~Taken(request[o].ask, {Written(request[r].ask)})

\* The creation of rec on its way, or broken off by a fault.
UnderWay(rec) ==
  \E r \in Requests : /\ request[r].ask # None
                      /\ Written(request[r].ask) = rec
                      /\ \/ InFlight(r)
                         \/ backend # "postgres" /\ (r \in hit \/ request[r].phase = "lost")

(***************************************************************************)
(* Every record the API stored has its audit event and its outbox job: in  *)
(* PostgreSQL at every moment, in the other repositories once the creation *)
(* has ended, unless a statement failed or the process died between the    *)
(* three writes (handleCollectionCreate).                                  *)
(***************************************************************************)
EvidenceIsWhole ==
  \A x \in Places : \A rec \in db[x].recs \ Seed :
    \/ rec \in db[x].audited /\ rec \in jobs[x]
    \/ backend # "postgres" /\ UnderWay(rec)
    \/ overwrote

(***************************************************************************)
(* A stored record hangs from a project or a review run of its own tenant, *)
(* although the guard reads the parent before, and outside of, the write.  *)
(* Under two processes that write one file the parent may be gone.         *)
(***************************************************************************)
ChildInTenant ==
  \A x \in Places : \A rec \in db[x].recs :
    HasParent(rec, db[x].recs) \/ overwrote

(***************************************************************************)
(* repositories/postgres.js:57 has it implement "the SAME async repository *)
(* contract as the other backends": a creation that fails met a failing    *)
(* statement or an id that is taken.                                       *)
(***************************************************************************)
SameContract ==
  \A r \in Requests : request[r].phase = "failed" =>
    r \in hit \/ Taken(request[r].ask, db[Place(request[r].proc)].recs) \/ overwrote
=============================================================================
