# XygoAEC in TLA+

A verification development of the XygoAEC platform: TLA+ modules for the parts of the program that
keep state across calls, processes and crashes, TLC configurations that model-check them on small
instances, and theorems that TLAPS checks for every instance. Paths are relative to the repository.

## 1. The system

XygoAEC is a Node.js monorepo: an HTTP API (`apps/api`), a worker that drains a durable outbox
(`apps/worker`), a web server with OIDC sessions (`apps/web`), and packages with the domain rules
(`packages`). Data is in PostgreSQL in production and in SQLite, a JSON file or memory in development.

| Component | State | Operations | Talks to |
|---|---|---|---|
| Durable outbox (`apps/api/src/reliability/outbox.js`) | `outbox_jobs`: status, attempts, due date, lock | enqueue, claim, complete, fail, replay | API and repositories enqueue, workers claim |
| Worker (`apps/worker/src/worker.js`) | interval, `stopping`, `activeTick`, `closed`, heartbeat row | start, tick, checkReadiness, stop | outbox, repository, email provider |
| Email delivery (`worker.js`, `packages/email-delivery`, `apps/api/src/email-webhook.js`) | `email_deliveries`, `email_suppressions`, `email_webhook_events` | queue, handle (read, check, send, finalize), apply webhook | Resend over HTTPS, both directions |
| Audit trail (`packages/audit`, `handlers.js`, `postgres.js`) | `audit_events`, one hash chain per tenant | append, verify | every write of the API, the worker, the webhook, OIDC bindings |
| Tenant files (`packages/file-storage`, file routes of `handlers.js`) | `file_records`; objects on disk or in S3 | intent, put, complete, delete, download | storage, client with presigned URL |
| Collections (`handlers.js`, `apps/api/src/repositories`, `http/idempotency.js`) | eight collections in one of four repositories; answers by idempotency key | POST, list by page | audit, outbox |
| Field reports (`packages/field-reporting`, `handlers.js`) | report, draft, review status | draft, review, email on approval | email delivery, audit, outbox |
| AI findings (`packages/ai-review`, `handlers.js`) | human disposition, related issue | set disposition | audit |
| Lifecycles (`packages/permits`, `projects`, `construction`) | status of permit package, project, field item | transition functions | their callers |
| Web sessions (`apps/web/src`) | login transactions and sessions | login, callback, session, renew, logout | OIDC provider |
| API server (`apps/api/src/server.js`) | phase, connections, event streams, the ten-second timer | serve, ready, shutdown | all |
| Authentication (`apps/api/src/auth`) | the issuer's keys, by process | check a token, fetch the keys | OIDC provider |
| Rate limit (`apps/api/src/http/rate-limit.js`) | a window per key, by process | check | every request |
| Provisioning, OIDC binding (`packages/activation`, `postgres.js`) | tenants, users, identities | provision, bind, resolve | audit, email, outbox |
| Migrations (`postgres-migrations.js`) | `schema_migrations` | apply under a lock, inspect | PostgreSQL |
| Authorization, validators, configuration, front end | none | pure functions | API handlers |

Hard behaviour, in short: several workers and handlers with at-least-once delivery and claims that go
stale; handlers that write back a copy they read before an `await`; provider replies that are lost;
webhooks that are late, repeated and out of order; one audit chain with writers that lock and writers
that do not; a record and an object in two stores; a record, its event and its job that only
PostgreSQL writes in one transaction; processes that stop while requests and ticks are under way.
`PROJECT.json` lists the hazards with their lines and the properties that cover them.

What makes the components correct:

* outbox: no event is lost; a job is in one handler at a time as long as handlers end in time; dead
  exactly when the attempts are used up; settled in the end;
* worker and API server: stopping ends, in order, and with nobody cut off who waits for an answer;
* email: a suppressed recipient is not mailed; statuses are never made up and verdicts not lost; an
  accepted mail is not sent again;
* audit: the trail of a tenant verifies and only grows at its end;
* files: a ready record has its object, a deleted one has none, content is checked before it is ready;
* collections: what was answered with 201 is stored, with its event and its job, in its own tenant;
* web sessions: a login is used once, a session ends with its lifetime and with its logout;
* field reports and findings: record, audit trail, jobs and emails agree;
* identities: a subject stands for one user and a user for one subject;
* migrations: the schema is a prefix of the migrations, whoever applies them.

## 2. Modules

| Module | Models | Composition |
|---|---|---|
| `Outbox` | the store and the ticks of the workers | implements `JobQueue` |
| `JobQueue` | what `enqueueOutboxEvent` promises its callers | abstract |
| `WorkerLifecycle` | start, tick and stop of one worker process | claims are those of `Outbox`, as counts |
| `EmailDelivery` | the email handler, the delivery tables, the provider and its webhooks | sees the outbox job as `JobQueue` does |
| `AuditChain` | the writers of `audit_events` as transactions | grows as `AppendOnlyLog` while all lock |
| `AppendOnlyLog` | what the trail is to a reader | abstract |
| `FileUpload` | file routes, storage drivers, `file_records` | |
| `FieldReports` | creation with an idempotency key, draft, review, approval emails | its jobs and emails are what `Outbox` and `EmailDelivery` start from |
| `Collections` | POST of the collections over the four repositories | the same creation, without the life after it |
| `Listing` | offset paging of a list that changes | |
| `Dispositions` | the human disposition of an AI finding | |
| `Lifecycles` | the transition functions of permits, projects and field items | |
| `WebSession` | sign-in of `apps/web`: login, callback, session, renewal, logout | |
| `KeyCache`, `RateLimit` | the issuer's keys and the request limit in an API process | |
| `Provisioning` | the two commands of the operators, and the lookup of an identity | |
| `ApiServer` | one API process from start to exit | |
| `Migrations` | the migration jobs and the schema checks of the applications | |
| `Delivery` | emails, overrunning claims and files | `EmailDelivery`, with `Outbox` and `FileUpload` (twice) as instances |
| `Processes` | worker, API server and migrations | `WorkerLifecycle`, with `ApiServer` and `Migrations` |
| `Identity` | sessions, keys, limit and provisioning | `WebSession`, with `KeyCache`, `RateLimit` and `Provisioning` |
| `Records` | reports, trail, collections, findings, lifecycles and lists | `FieldReports`, with `AuditChain`, `Collections`, `Dispositions`, `Lifecycles` and `Listing` |
| `...Proofs` | theorems | each extends the module it is about, and may take over those of others, see section 4 |
| `MC...` | instances for TLC | extend a component's module or one of the four compositions |

Operators whose name ends in `Bug` are not part of a model: each stands before the definition it
mutates and is that definition with a plausible mistake, and a run with the mistake in place violates
the property that `PROJECT.json` names under `mutants`.

Many properties have several conjuncts, one for each way in which the same thing can go wrong:
`AttemptsAreCounted` (not dead early, not retried late), `SettledOnceByOwner` (a claim ends through its
holder, a processed job stays), `OutcomeIsReal` (statuses and processed jobs), `TrailIsSound` (verifies
under the lock, forks need its absence, no dangling link), `TrailIsHistory` (the trail tells the status
and is a path), `FileStatusIsReal` and `DeletionIsOrdered` (record and storage), `StopsInOrder` (bounded
handlers, clean exits, the heartbeat row), `DispositionIsTold`. The parts have their names and comments in
the modules, and the theorems speak of the parts as well.

### Outbox

`jobs` is the table `outbox_jobs` (`absent` for no row), `ticks` the `activeTick` of each worker,
`runs` the handlers in flight with what they will do next; `handled` and `rejected` are history.
Every statement is a step: `Claim` is the transaction with `FOR UPDATE SKIP LOCKED` (any batch of
ready jobs up to the limit: the order of the claim is left open), `Complete` the guarded `UPDATE`,
and `fail()` is two steps, `ReadForFail` (the `SELECT` and the decision) and `RecordFailure` (the
`UPDATE`). Each has a form in which the row is not its own any more (`...Refused`) and a form in which
the call fails before or after its effect (`...Fault`). `Throws` is the rejection of `Promise.all`: the
tick ends, the other handlers of the batch go on.

Time is relative: a row carries the time since its lock and until it is due, a run and a tick carry
how long ago they read the clock, so `Advance` needs no clock and the state space is finite. The lock
and the backoff are dated with the tick's reading, as in the code. `MaxRun` bounds how long a run and
the wait before a claim may last: with `MaxRun < StaleAfter` handlers are timely, otherwise they overrun.

The refinement maps `pending`, `failed` and `processing` to `open`. `JobQueue!FairSpec` gives the
liveness: a job in the queue is settled.

### EmailDelivery

A handler run reads the delivery once (`Begin`), and each of its later calls is a step that writes back
the copy it holds: `CheckSuppression`, `FinalizeSuppressed`, `SaveSending`, `Send`,
`FinalizeAccepted`, `FinalizeFailed`. `Send` succeeds, is rejected for now or for good, loses its
reply, or is answered 200 with a body that is lost: the code takes that for a rejection for good, although
the provider has the message (`email-delivery/src/index.js:462`). The provider is external: it deduplicates by idempotency key (its retention of keys is assumed
to outlast the retries) and reports events of the messages it has taken, with distinct dates per
message, in any order, repeated until acknowledged. `Receive` is the webhook transaction. The outbox
appears as one `job` per delivery and claim numbers: a run settles its job only while its claim is the
last one. (In the code the guard is the worker id; module `Outbox` has that detail.) A claim that goes
stale while its handler runs, so that two handlers of one delivery overlap, costs one of the
`MaxFaults`.

### AuditChain

Every writer is a READ COMMITTED transaction: `Begin` (which takes the advisory lock in the writers
that do), then `ReadTail` and `Insert` per event, then `Commit` or `Rollback`. The place of a row
(`BIGSERIAL`) is given at its insertion. A hash is the id of the event it was computed from;
`Verifies` is `verifyAuditChain` on the committed rows. The writers: API writes (no lock), a report
approval (two events, no lock), the worker (lock, ids that repeat for a repeated attempt), the webhook
(lock) and an OIDC binding (lock, as the webhook, and not in the instance). One instance has writers
of both kinds: `OnlyLocking` says that so far only locking ones have begun, so the claim about locking
writers and the one about all writers are checked on the same states.

### FileUpload

`record` is `file_records`, `object` and `metadata` the storage: two files with the local driver, one
object with S3. A request is a record with the copy it read and its next call. A content stands for
its bytes and what is derived from them (size, type, checksum); those in `Bad` do not match the
upload intent. `headObject` is one step. A record of S3
gets no checksum, since S3 knows none of a presigned upload, so what a ready record rests on there is the content that
was checked. `vouched` is that content, by file, for either driver (history); `evidence` are the audit events. DELETE writes the record back when the storage call fails, as in
the code. `driver` is chosen in `Init`. `disturbed` is history: the files with requests that overlapped,
or with a deletion that failed after it had taken effect, or half of it; those are the two ways in which
record and storage come apart, and the properties of an undisturbed file say that there is no third.

### WorkerLifecycle

One process. `tick` is what `activeTick` waits for, `batch` the handlers it awaits, `orphans` the
handlers of a tick that ended without them, `broken` says that such a thing has happened, `row` the
heartbeat row, `shutdown` how far `stop()` is. The heartbeat of `start()` is in flight on its own. A call
to a database may fail at every step; after `close()` the outbox refuses calls, and a heartbeat may be
written or fail. The exit code 0 is set when `stop()` resolves, and the process goes on while it has
work; an error ends it at once.

### WebSession

`store` and `transaction` are the two kinds of rows of `web_auth_sessions`; a request is a record with
the phase it is in and the copy of the session it read. `session()` and `renew()` read the row, maybe
call the provider, and upsert the whole copy, so each is two or three steps, and a step of another
request or a logout fits between them. The provider is external: it takes a code once, and `rotates`
says whether it takes only the newest refresh token; `issued` is what it would take. The model has the
setting that a login yields a refresh token, and one clock for the web processes and the database.
`overlapped`, `cut` and `loggedOut` are history, and the properties say what remains true with
overlapping requests, and what only they can spoil.

### FieldReports

`report`, `trail`, `events` and `mailed` are the rows that a transaction writes together: the report,
its audit events, its outbox jobs (by key) and the deliveries of an approval. A request reads the report
(`StartDraft`, `StartReview`) before the transaction that writes a new version of that copy (`Commit`):
the upsert locks the row, so transactions of a report follow each other, and a transaction is one
step. A request runs in one of the API processes `Procs`, which share the database. A creation has one step more,
`Answer`, which keeps the answer in the idempotency store of its process; `Restart` ends a process and empties its
store, and `Expire` drops an answer after its time-to-live. `cached`, and the histories `made` (committed), `cut` (answer
lost or dropped) and `refused`, are therefore sets of process and report: a retry is replayed by the process that made the
report, and refused by any other.

### Collections

A POST is a request that goes through the phases of `handleCollectionCreate`: the idempotency store of
its process, `Guard` (the parent is read before, and outside of, the transaction), the creation, the
audit event, the job, the answer. `backend` is chosen in `Init` and decides what is one step: `memory`
writes at once and loses all with its process; `file` reads the whole store and renames a new one over it
(`ReadFile`, `WriteFile`), so that another process may come in between; `sqlite` runs its `SELECT` and its
`INSERT` apart; `postgres` writes the three in a transaction that shows at its `Commit`, and its primary
key makes an `INSERT` wait. `Busy` says that a synchronous function lets nobody of its process in between.
The eight collections differ in the parent a body must name, and are represented by five. `overwrote`,
`crashed` and `hit` are history: the properties name the cases in which a store without transactions may
lose what it answered for. The INSERT of an RFI in `postgres.js` gives six values for seven columns;
`Malformed` is that, and the run `rfi_contract` shows it.

### Listing

`rows` is the order in which a repository returns the reports, `walk` a client that follows `nextOffset`.
A save moves a report to the end in SQLite (`INSERT OR REPLACE`), and may bring it into a filtered list or
take it out. A page is the reports of the list whose place, the number of those `Before` them, lies between the offset and
the next one. `shifts` counts those moves during the walk, and the property bounds what the walk misses (`there` and
never seen) or repeats (`Repeats`) by them. PostgreSQL is asked without `ORDER BY`, so `Orders` is every order, and nothing is promised.

### Dispositions

The handler reads, checks, updates and appends in four calls without a transaction, on every repository;
the reading and the checks are `Read`, and `asks` are the requests by number. `mixed` is history: findings
whose requests overlapped or were broken off, for which the trail may not be a path any more. What holds for
all: a finding shows the disposition and the issue of one and the same request. A `Fault` is an update or an append
that fails, or one that took effect and whose answer was lost.

### Lifecycles

The functions return the next version of the copy they are given, so the callers' copies are state
(`held`), and a caller may act on an old one: that is the last-writer-wins of the repositories. `matter`
chooses which of the three a behaviour is about, since they share nothing. The factories take any status
(`createProject` any string), and so do the POST handlers, so `Created` has records of every status, with or without forms,
package or resolution and with any count of submissions; `born` is what was made. The properties relate statuses to
what must have come before them, unless the record was born behind that point (`supported`, `cycles`, forms, package,
resolution): the tables give no way round what they ask for between the birth and the status.

### KeyCache

Each request that finds the copy older than `cacheTtlMs` fetches the keys for itself; `copy` is the cache
with its date, `since` and `until` when the issuer published and withdrew a key. A fetch reads the issuer's
keys at some moment between its start and its answer, and answers arrive in any order.

### RateLimit

`buckets` are the fixed windows, `admitted` the requests that were let in. A restart forgets the windows.
`sweep()` has no caller, so it is no action.

### Provisioning

Each command is a transaction in steps, one per lock and statement that can wait or see another's rows.
`Locks` are the advisory locks, `Uncommitted` the rows that make another transaction wait on a UNIQUE
constraint. A commit may succeed and lose its answer. `OneToOne` is about the committed identities,
`MeetingIsAnswered` about commands that meet: they end in an answer and not in a database error, but for
one case that it names (a new tenant that brings the subject which a binding is about to use).

### ApiServer

`life` is the phase of the process, `call` how far each request is, `gone` the connections that were
dropped. A handler runs on when its client has gone. An event stream has a timer that may throw or leave a
rejected promise (`Uncaught`, `UncaughtPromise`), which ends the process. `async` says whether the
repository answers with promises. Draining lets requests in on connections that are still open: probes are
answered, other work is refused.

### Migrations

Versions are numbers, a release knows the first `Knows[x]` of them, `ledger` is the set of applied ones.
A job takes the lock, reads the ledger once and applies what it takes for pending, a transaction each; a
lost connection releases the lock and leaves open whether the commit happened. An application starts only
on a schema that is exactly its release's, and its probe turns unready when that changes.

## 3. Runs

The components share no state with each other beyond what their modules already contain, so one
configuration checks several of them *side by side*: `Delivery`, `Processes`, `Identity` and `Records` each extend one
component's module, take the others with `INSTANCE ... WITH`, and have a variable `machine` that says which component a
behaviour is about. The variables of the others keep a constant value (0, or their initial one) and their actions are
disabled; nothing is interleaved that does not interact. The assumptions on the constants of a module that is instantiated are plain
definitions there, and the composition ASSUMEs them; `MCDelivery`, `MCProcesses`, `MCIdentity` and `MCRecords` give the
constants their values. What is proved is proved of the compositions too, so theorems and runs speak of one specification.

| Run | Components and instance | Shows |
|---|---|---|
| `outbox_timely` | `Outbox`: 2 workers, 2 jobs, 2 per tick, 4 claims, 1 replay, 1 fault, `MaxRun < StaleAfter` | exclusive handling, dead only when justified, retries only with attempts left, nothing lost |
| `outbox_live` | `Outbox`: 2 workers, 2 jobs, 1 per tick, 8 claims, fair polling | every job is settled: `Outbox` implements `JobQueue!FairSpec` |
| `delivery` | `EmailDelivery` (2 deliveries to one recipient, 2 runs each, 1 fault); `Outbox` with `MaxRun >= StaleAfter`; `FileUpload` (1 file, 4 requests and 1 fault, or 3 and 2, either driver) | suppression, statuses, verdicts; what a claim promises when handlers overlap; record and storage of files |
| `processes` | `WorkerLifecycle` (3 handlers, 4 ticks, 3 faults); `ApiServer` (3 requests); `Migrations` (3 jobs of 2 releases, 3 versions, 2 faults) | both processes stop, in order, and cut nobody off; the schema is a prefix |
| `identity` | `WebSession` (1 login, 2 callbacks, 4 requests, 1 fault, 5 time units); `KeyCache` (2 requests, 3 tokens); `RateLimit` (2 clients); `Provisioning` (3 commands, 1 fault) | logins, lifetimes, logouts, renewals; keys less than a TTL old; the limit; one user per subject |
| `records` | `FieldReports` (1 report, 2 clients, 2 API processes, 4 requests, 1 fault); `AuditChain` (4 writers, one of them without the lock); `Collections` (3 requests, 2 processes, 1 fault, 4 repositories); `Dispositions` (3 requests, 1 mishap); `Lifecycles` (2 callers, 2 submissions, records of any status); `Listing` (3 reports, 2 saves) | records, events, jobs and answers agree; the trail is an append-only log while all lock |

Bounds: the constants named `Max...` are bounds of the instance (claims, replays, runs, faults, time,
requests, ticks, cycles) except `MaxAttempts`, `MaxBackoff` and `Max`, which are settings of the program.
Two workers and two jobs give every overlap of a claim with another claim, since all guards speak of one row
and one worker; with two attempts, four claims in `outbox_timely` cover the limit, a claim that dies with
its worker, and a replay. One or two faults cover each single failure and a failure of the recovery. Two
dates of an email give every order of two events and of an event and the worker's own date, and two runs of
a delivery give a run that crashed or was overtaken and its successor. Four requests for one file cover an
upload, its repetition, a completion and a deletion; three with two faults cover a deletion that fails and is
repeated. Four requests of a session are two that overlap, a logout and one that comes after; a report and a
login do not depend on others. Three handlers are enough for a `fail()` that throws to leave two of them
behind. Three jobs of two releases have an older one meet a newer one and a newer one its twin. Three creations are two that
clash and one that hangs from a parent; the bodies contain one project id asked for by two tenants. Three operators' commands are two
that meet and one that repeats. Two saves during a walk over three reports move a report over a page's end
and another one back. Where the properties are proved (section 4) the bounds do not matter.

Deadlock is not checked (`CHECK_DEADLOCK FALSE`) where an instance really stops: when its bounded
requests, runs or time are used up, or the process has exited.

Fairness: the worker polls on an interval and the promises of a running process resolve, so the steps of
a tick, of a handler and of a live worker are weakly fair (`Outbox!Fairness`); crashes, faults, new events
and replays are not. The supervisor keeps one worker alive. In `processes` only the steps of a shutdown are
fair: those of the worker's `stop()`, the closing of the stores by the API server and its ten-second timer.
So handlers, streams and clients may hang, and `ServerStops` rests on the timer; a database call answers or
fails.

### Where the code and its documentation differ

Each of these runs is a short counterexample to one sentence of the repository; `PROJECT.json` quotes it.

| Run | What happens |
|---|---|
| `email_resend` | accepted, worker dies, `delivery_delayed` arrives: the reclaimed job calls the provider again |
| `audit_fork` | an API write reads the tail without the lock: two events with one predecessor |
| `worker_orphans` | a failing `fail()` leaves handlers that nobody awaits: exit code 0 with a handler in flight |
| `rfi_contract` | the INSERT of an RFI has a value too few: PostgreSQL refuses what the other repositories store |
| `permit_bypass` | a package made in preparation and revised after its internal review is resubmitted and approved without forms and submission package |
| `limit_growth` | nobody calls `sweep()`: windows that ended long ago stay in the limiter's map |

Behaviour of the models that is no run of its own, and that a reader of the code should know:

* a crash on the last attempt leaves a stale claim, and the reclaim is an attempt beyond
  `XYGO_WORKER_MAX_ATTEMPTS` (`outbox.js:495` does not look at the attempts);
* a `delivered` event that is dated before the acceptance, which the worker dates itself, is acknowledged
  and leaves the status at `accepted` (`email-delivery/src/index.js:373`);
* a completion that has seen the object overwrites a finished deletion with `ready`
  (`postgres.js:1000`);
* a session that is read before a logout and written back after it is there again
  (`auth-session.js:157`); of two overlapping renewals the last write stays, and with a provider that
  rotates it may hold a refresh token that is not taken any more;
* of two overlapping reviews the last write stays, with the emails of an approval it has replaced
  (`postgres.js:756`); a draft may also replace an approval, and hides the report again;
* the id of a repeated creation is refused with 400 when its first answer was not kept
  (`handlers.js:37`), or is kept by another process (`reliability/idempotency.js:3`);
* an answer 200 of the provider whose body cannot be read ends the mail's job for good, and its delivery as
  failed, although the provider has the mail (`email-delivery/src/index.js:462`);
* a file of S3 becomes ready without a checksum: size and type are all that is compared (`handlers.js:775`);
* a package, project or item may be created in any status, an approved one among them, without what the
  transitions to that status ask for (`handlers.js:403`);
* a deletion whose reply was lost puts `ready` back although the object is gone (`handlers.js:941`);
* a crash between the two renames of a second upload leaves the checksum of the first content for the
  object of the second (`file-storage/src/index.js:285`);
* of two uploads of one pending file the second replaces the object that the first has made ready
  (`handlers.js:875`);
* two API processes on one JSON file overwrite each other's records (`repositories/file.js:34`);
* the audit event of a disposition is not in one transaction with it, so overlapping reviewers leave a
  trail that skips or repeats a step (`handlers.js:1230`);
* a finding may be created as `converted_to_issue` with no issue; the check is made on the change only;
* pages of a list that reviews go on in miss or repeat reports, in SQLite on every save (`sqlite.js:375`);
* a list asked for with a limit between 0 and 1 gives pages of length 0 with a `nextOffset` that stays;
* a failing repository under an event stream ends the API process with all its requests (`server.js:260`).

## 4. Proofs

Eight modules hold theorems. They are proved from the named assumptions on the constants, for any numbers of
jobs, workers, files, writers, requests, faults and times; the assumptions only give the constants their types and
the relations the program gives them (a lifetime is not 0, `None` is no subject, a seed is a store whose records
have their parents). Every safety invariant and every action property of the runs is a theorem about the same
specification that the run checks, so the bounds of section 3 do not matter for them.

Each proof starts from a type invariant and adds what makes the property inductive. A composition has an
invariant that says "if `machine` names a component, its invariant holds" (`ProcessInv`, `IdentityInv`,
`RecordsInv`) and a lemma `StepOfOne`, that a step is one of that component and leaves the others alone. Where a
component has its proofs in a module of its own, the composition instantiates that module and cites its theorems
(`Claims`, `BusyFiles`, `FaultyFiles` in `DeliveryProofs`, `Chained` in `RecordProofs`).

`OutboxProofs`:

* `TypeCorrect`, `NoEventLost` and `SettledOnce` hold whatever overlaps. The invariant behind them
  says that a run past its handler (`handled`) has `handled[j]`; a row becomes `processed` only by
  such a run.
* `ImplementsQueue`: under the mapping of section 2 every step of the outbox is a step of `JobQueue` or leaves
  its variables alone. It needs the invariant of `NoEventLost` (an acknowledgement follows a delivery)
  and that every run has a row (`RunsHaveRows`). This is the safety part; the fairness of `JobQueue` is
  left to the run `outbox_live`.
* `NeverInFlightTwice`, `NeverDeadEarly`, `NeverRetriedLate` and `AttemptsCounted` assume
  `MaxRun < StaleAfter`. The invariant says that a run of a live worker still holds the lock of its row, with
  its claim number, its attempt, and a lock no older than the run has lasted: then the row cannot be stale, so
  `Claim` never takes it, and what `fail()` read is still true when it writes.

`DeliveryProofs`, about the emails by one invariant, `EmailInv`. It starts from what is known of a delivery outside
its row (`Known`: the provider has the message, or the recipient is suppressed) and follows it into the rows
(`RowReal`), into the copies that runs hold, and into their phases (`RunReal`: a run about to record an acceptance
has a message at the provider, a run about to record a suppression has a suppressed recipient).

* `SuppressedKept` needs that the handler of a late delivery is never in a phase from which it sends;
* `NewestSuppression` is inductive by itself on top of `EmailInv`: the merge is by date, whatever order the events
  come in, and an event that was acknowledged already changes nothing;
* `OutcomeReal` is the invariant, read at the rows;
* `VerdictKept` is a step property: what replaces a verdict is a copy that was read before it, or a newer event;
* `ClaimsSettledOnce`, `FilesReal` and `DeletionsOrdered` are the theorems of the two modules below, taken over.

`FileProofs`:

* `ReadyChecked` and `HasEvidence` hold however requests overlap: records *and the copies requests hold* tell
  what was done (`Tells`), and copies that are written back stay true since evidence only grows. Where a completion
  was recorded, what it checked was not in `Bad` (`VouchedOK`).
* `ReadyHasObject`, `DeletedIsEmpty`, `DeletionIsFinal` and `RemovalIsAnnounced` are about files that are not
  `disturbed`. `AllCalm` says of those that there is one request at most (`Single`), that record and storage agree
  (`Agrees`), and what each phase of the request knows of both (`Stage`), for example that a restoration
  has the object its record speaks of.

`ProcessProofs`:

* `WorkerStops` has three parts. The clean exit rests on `Drained` (past `draining` without an error the tick is
  idle, and no tick starts any more) and `Awaited` (only a broken tick leaves orphans). The bound needs `Room`: while
  the outbox is open the orphans alone are within the part of the bound that the faults pay for, so there is room for
  the next claim; once it is closed nothing is claimed. The heartbeat row rests on `Shown`: with nothing in flight when
  `stopping` was written, the row stays.
* `ServerCutsNobody` needs `ServesInOrder`: before the server listens there is no request, and the stores are closed
  after the connections.
* `SchemaKept` and `NoMigrationClash` rest on: the ledger is a prefix (`SchemaPrefix`), one session at most holds
  the lock (`LockHeld`), what the holder takes for applied is the ledger, and his release knows all of it
  (`Knowing`); `Answers` keeps what processes and jobs that are done were told.

`WebSessionProofs`, for either kind of provider:

* `LifetimeBinds`: not only the rows but also the copies in flight end `AbsoluteTtl` after their
  creation, and `Extended` keeps that.
* `TransactionSpent` and `TypeCorrect`: the invariant `Single` speaks of *holders*, the sessions that
  exist, existed, or will when their request goes on. A login has at most one, and then its code is used
  and its transaction gone; before the exchange only the deletion of the transaction has to be known.
* `LogoutIsFinal`: a session that was logged out, and had no request in flight, has no row and no request
  (`Gone`), and a request can only come from a row.
* `TokenIsCurrent`: refresh tokens are numbered, and in a session that was never disturbed the row, or the copy of its
  only request, has the number that the provider issued last (`Numbered`, `Fresh`).

`IdentityProofs`:

* `CopyIsCurrent`: the keys of the copy, and those of every answer on its way, were served at some time since the
  date they carry (`ServedSince`, `DatesOK`); the order of the answers does not matter then.
* `LimitIsKept` counts. For the open window of a key (`WindowOK`), what was let in since any time less than a window
  before it is at most its own count, the limit, and once the limit for each restart; a count is never
  more than the requests that were let in (`NumbersOK` gives them names, so that sets can be counted).
* `IdentitiesAreOneToOne`: rows that are committed and rows that are inserted do not clash (`RowsOK`, `InsertedOK`): a
  UNIQUE constraint makes a command wait for the others and fail.
* `MeetingsAreAnswered` needs the locks (`Excludes`: two commands inside are not for one tenant, one user or one
  subject), so that what a command has found stays so (`FoundOK`), and that a clash which it did not find came with another
  tenant (`FromElsewhere`).

`AuditProofs`:

* `TypeCorrect`; `Linked` says for every row, committed or not, that its predecessor is a row that its
  transaction could see (`LinksBack`), that a transaction under way has read such a row (`ReadBack`), and that what
  a locking one has read is the last row that any locking one has inserted (`ReadLast`), so that two of them never link to one
  (`NoFork`). `ForkNeedsNoLock` and `LinksStay` follow.
* `LockedVerifies` adds `Chain`: while only locking writers have begun, every row follows the one before it
  in place. A rollback takes away the rows of one transaction, which nobody else could see and link to.
* `TrailIsLog`: `AuditChain` implements `AppendOnlyLog`. The mapping gives a committed event the place that is its
  rank among the committed ones, so the proof needs ranks (`Rank`, one place for each event and one event
  for each place), that there are finitely many rows, and that the rows which are not committed are the last ones
  (`Growing`): then a commit adds a whole tail (`LogStep`), one event or several, and a rollback changes nothing.

`RecordProofs`:

* `History` and `RefusalsExplained`, of field reports: the rows agree whatever overlaps, since a transaction writes
  all rows of one version and the copies in flight keep what the guards saw (a review has a draft). The path needs
  `Alone` (the only request of a report that had no overlap has read it as it is). A refusal needs, for each process
  by itself, that a report which is there was made by one (`MadeBySome`), that its answer is kept, about to be, or `cut`
  (`AnswerKept`), and that a process is asked again for what it has made only when it has lost the answer (`AskedAgain`).
* `AcknowledgedStays`, `EvidenceStays` and `ChildrenHaveParents`, of the collections, by one invariant over all four
  repositories, `CollInv`: what was answered, or is kept to be replayed, is stored (`StoredOK`); two requests do not have one
  id (`DistinctOK`), nor do two transactions that are not committed (`PendingOK`); a record without its event or
  its job has a request that is still on its way or was broken off (`WayOK`); a parent that a guard has found stays
  (`ParentsOK`). All but the types are about behaviours in which no process wrote back an old image of the JSON file
  (`overwrote`), which is the case that the properties except.
* `DispositionsAreTold`: what a finding shows was asked for by one request, or is how it was created (`ShownOK`); for
  findings whose requests neither overlapped nor were broken off, `Tells` follows the one open request through its calls.
* `NoWayRoundTables`: what a status stands for, beyond what the record was born with, is kept by the row and by every
  copy that a caller holds.
* `WalkIsFair`, of the pages: the saves that were counted pay for what the pages have missed and repeated so far, *and*
  for what they would if the rest of the list stayed as it is (`Paid`): those behind the offset that no page had
  (`Missed`), and those before it that one had (`Again`). A save that moves one report, or lets one in or out, moves the
  place of each other report by one at most, and all in one direction; so at most one crosses the offset (`PlaceShifts`,
  `MissesOne`, `RepeatsOne`). A creation adds a report at the end and moves nobody. A page changes a debt that was counted
  into one that is due.
* `AuditTrailIsSound` and `TrailIsAppended` are those of `AuditProofs`, taken over.

Only model-checked: liveness, which is out of the prover's reach. That is the fairness part of `QueueSpec` (that every
job is settled), `StopEnds` and `ServerStops`. The runs that expect a violation have counterexamples instead.

## 5. Not modelled, and why

* The authorization policy (`packages/authorization`) and the validators, factories and summaries of the
  packages: pure functions of one call without state, whose tables a specification would only repeat.
* Messages, documents and coordination records: values that their factories return; what is stored of
  them goes through `Collections`.
* Integrations and read models: validators, factories and summaries of the same kind.
* Configuration, readiness gates and scripts: evaluated once, before the system runs.
* The web front end (page scripts) and the contact function, a mail form without state.
* Hashing, signatures, token claims, formatting.
* The SQLite and in-memory outbox of development: the same contract as `Outbox` in one process. The repositories
  of development are in `Collections` and `Listing` as far as they create and list; reads of single records and health
  summaries change nothing.
* Liveness of single emails: it is that of their jobs, which `outbox_live` checks.
* Two copies of one webhook at once: the webhook is one transaction in `EmailDelivery`, so its check for a
  duplicate and its locks are one step.
* Several components in one behaviour: a job of `FieldReports` enters `Outbox` and `EmailDelivery` through
  what those start from, and the products of the state spaces would add no new interaction.

## 6. Plan

The modules of the plan are written, and the safety properties of the runs are proved. What is left, in the order of use:

1. `Collections` as an implementation of an abstract store, in which a creation writes a record, its event and its job at
   once: it holds for PostgreSQL, and would say in one sentence what `CollInv` says in five.
2. `FieldReports`, whose creation is that of `Collections`: the two could share the abstract store.
3. `EmailDelivery` with the claims of `Outbox` in place of claim numbers, which the theorems about both make safe to compose.
