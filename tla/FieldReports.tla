---------------------------- MODULE FieldReports ----------------------------
(***************************************************************************)
(* Field reports: their creation with an Idempotency-Key, their draft and  *)
(* their review (apps/api/src/handlers.js, packages/field-reporting), with *)
(* the PostgreSQL repository.  A request reads the report, and later       *)
(* writes a new version of that copy, the audit event and the outbox jobs  *)
(* in one transaction.  The upsert of the report locks its row, so two     *)
(* transactions of one report follow each other, but not a request's read  *)
(* and its transaction.  The answers to creations are kept in memory, by   *)
(* each API process for itself (reliability/idempotency.js).               *)
(***************************************************************************)
EXTENDS Naturals, SequencesExt

CONSTANTS
  Reports,      \* each created with one Idempotency-Key
  Procs,        \* the API processes that share the database
  Clients,      \* users with the role client_owner or client_viewer
  MaxRequests,  \* bound: requests for one report
  MaxFaults     \* bound: failing transactions and restarts of an API process

ASSUME ReportAssumption == {MaxRequests, MaxFaults} \subseteq Nat

VARIABLES
  report,      \* the rows of field_reports
  trail,       \* the audit events of a report, in their order
  events,      \* its outbox jobs, by their idempotency keys
  mailed,      \* the clients with a report_ready delivery and its job
  active,      \* the clients whose status is active
  cached,      \* <<process, report>>: its idempotency store has the answer
  requests,    \* the requests in flight
  started,
  faults,
  overlapped,  \* history: reports with two requests in flight at once
  made,        \* history: <<process, report>> whose creation was committed
  cut,         \* history: <<process, report>> with a creation whose answer was
               \* never kept, or is kept no more
  refused      \* history: <<process, report>> where it was to be created again

vars == <<report, trail, events, mailed, active, cached, requests, started, faults,
          overlapped, made, cut, refused>>

-----------------------------------------------------------------------------
Reviews == {"in_review", "approved", "changes_requested"}

ReportStatus == {"absent", "captured", "draft_generated"} \cup Reviews

Report == [status : ReportStatus, drafted : BOOLEAN, clientVisible : BOOLEAN]

\* asks: what the request makes of the report.
Request == [id : Nat, at : Procs, report : Reports, asks : ReportStatus, copy : Report, phase : {"work", "answer"}]

\* createFieldReport
Captured == [status |-> "captured", drafted |-> FALSE, clientVisible |-> FALSE]

\* generateReportDraft: a report may be drafted again at any status.
Drafted(copy) == [copy EXCEPT !.status = "draft_generated", !.drafted = TRUE]

\* setReviewStatus: only an approved report is shown to the client.
Reviewed(copy, next) ==
  [copy EXCEPT !.status = next, !.clientVisible = (next = "approved")]

\* toClientView
ShownToClient(row) == row.clientVisible /\ row.status = "approved"

NewVersion(r) ==
  CASE r.asks = "captured"        -> Captured
    [] r.asks = "draft_generated" -> Drafted(r.copy)
    [] OTHER                      -> Reviewed(r.copy, r.asks)

Ends(r) == requests' = requests \ {r}

\* The creation of a report, as the process that handles it knows it.
Creation(r) == <<r.at, r.report>>

Persist_SeparatelyBug(r) ==
  LET rep == r.report IN
  /\ report' = [report EXCEPT ![rep] = NewVersion(r)]
  /\ \/ UNCHANGED trail
     \/ trail' = [trail EXCEPT ![rep] = Append(@, [before |-> r.copy.status, after |-> r.asks])]
  /\ events' = [events EXCEPT ![rep] = @ \cup {r.asks}]
  /\ mailed' = [mailed EXCEPT ![rep] = IF r.asks = "approved" THEN @ \cup active ELSE @]
  /\ made' = IF r.asks = "captured" THEN made \cup {Creation(r)} ELSE made

\* The transaction: report, audit event and outbox job, and for an approval a
\* delivery and a job for every active client that has none.  The key of a
\* job is its action, and the status for a review: a second one is dropped.
Persist(r) ==
  LET rep == r.report IN
  /\ report' = [report EXCEPT ![rep] = NewVersion(r)]
  /\ trail' = [trail EXCEPT ![rep] = Append(@, [before |-> r.copy.status, after |-> r.asks])]
  /\ events' = [events EXCEPT ![rep] = @ \cup {r.asks}]
  /\ mailed' = [mailed EXCEPT ![rep] = IF r.asks = "approved" THEN @ \cup active ELSE @]
  /\ made' = IF r.asks = "captured" THEN made \cup {Creation(r)} ELSE made

\* The report is written, unless it is to be created and there already.
Succeeds(r) == r.asks = "captured" => report[r.report].status = "absent"

-----------------------------------------------------------------------------
Init ==
  /\ report = [rep \in Reports |-> [Captured EXCEPT !.status = "absent"]]
  /\ trail = [rep \in Reports |-> <<>>]
  /\ events = [rep \in Reports |-> {}]
  /\ mailed = [rep \in Reports |-> {}]
  /\ active \in SUBSET Clients
  /\ cached = {} /\ requests = {}
  /\ started = [rep \in Reports |-> 0]
  /\ faults = 0
  /\ overlapped = {} /\ made = {} /\ cut = {} /\ refused = {}

Starts(p, rep, asks) ==
  /\ started[rep] < MaxRequests
  /\ started' = [started EXCEPT ![rep] = @ + 1]
  /\ requests' = requests \cup {[id |-> started[rep], at |-> p, report |-> rep, asks |-> asks,
                                 copy |-> report[rep], phase |-> "work"]}
  /\ overlapped' = IF \E r \in requests : r.report = rep THEN overlapped \cup {rep} ELSE overlapped
  /\ UNCHANGED <<report, trail, events, mailed, active, cached, faults, made, cut, refused>>

\* POST field-reports.  When the store of the process has the answer of an earlier
\* one, that is the answer again.
StartCreate(p, rep) == <<p, rep>> \notin cached /\ Starts(p, rep, "captured")

\* POST draft
StartDraft(p, rep) == report[rep].status # "absent" /\ Starts(p, rep, "draft_generated")

StartReview_UndraftedBug(p, rep, next) == report[rep].status # "absent" /\ Starts(p, rep, next)

\* POST review: refused without a draft.
StartReview(p, rep, next) == report[rep].drafted /\ Starts(p, rep, next)

\* The transaction commits.  Only a creation's answer is kept.
Commit(r) ==
  /\ r.phase = "work" /\ Succeeds(r)
  /\ Persist(r)
  /\ IF r.asks = "captured"
     THEN requests' = (requests \ {r}) \cup {[r EXCEPT !.phase = "answer"]}
     ELSE Ends(r)
  /\ UNCHANGED <<active, cached, started, faults, overlapped, cut, refused>>

Answer_ForgottenBug(r) ==
  /\ r.phase = "answer"
  /\ Ends(r)
  /\ UNCHANGED <<report, trail, events, mailed, active, cached, started, faults, overlapped, made, cut, refused>>

\* withIdempotency: the process keeps the answer 201 for the next request with the
\* key that reaches it.
Answer(r) ==
  /\ r.phase = "answer"
  /\ cached' = cached \cup {Creation(r)}
  /\ Ends(r)
  /\ UNCHANGED <<report, trail, events, mailed, active, started, faults, overlapped, made, cut, refused>>

\* The insert finds the id taken: 400, which is not kept.
Refuse(r) ==
  /\ r.phase = "work" /\ ~Succeeds(r)
  /\ refused' = refused \cup {Creation(r)}
  /\ Ends(r)
  /\ UNCHANGED <<report, trail, events, mailed, active, cached, started, faults, overlapped, made, cut>>

\* The transaction fails, or its commit has no reply: 400.
CommitFault(r) ==
  /\ faults < MaxFaults
  /\ faults' = faults + 1
  /\ r.phase = "work"
  /\ \/ UNCHANGED <<report, trail, events, mailed, made>>
     \/ Succeeds(r) /\ Persist(r)
  /\ Ends(r)
  /\ cut' = IF r.asks = "captured" THEN cut \cup {Creation(r)} ELSE cut
  /\ UNCHANGED <<active, cached, started, overlapped, refused>>

\* A process ends and starts again: its idempotency store is empty.
Restart(p) ==
  /\ faults < MaxFaults
  /\ faults' = faults + 1
  /\ requests' = {r \in requests : r.at # p}
  /\ cached' = {c \in cached : c[1] # p}
  /\ cut' = cut \cup ({p} \X Reports)
  /\ UNCHANGED <<report, trail, events, mailed, active, started, overlapped, made, refused>>

\* The answer is older than the time-to-live of the idempotency store.
Expire(c) ==
  /\ cached' = cached \ {c}
  /\ cut' = cut \cup {c}
  /\ UNCHANGED <<report, trail, events, mailed, active, requests, started, faults, overlapped, made, refused>>

\* External: a client joins or leaves.
ChangeClients ==
  /\ active' \in SUBSET Clients
  /\ active' # active
  /\ UNCHANGED <<report, trail, events, mailed, cached, requests, started, faults, overlapped, made, cut, refused>>

Next ==
  \/ \E p \in Procs, rep \in Reports :
       \/ StartCreate(p, rep)
       \/ StartDraft(p, rep)
       \/ \E next \in Reviews : StartReview(p, rep, next)
  \/ \E r \in requests : Commit(r) \/ Answer(r) \/ Refuse(r) \/ CommitFault(r)
  \/ \E c \in cached : Expire(c)
  \/ \E p \in Procs : Restart(p)
  \/ ChangeClients

Spec == Init /\ [][Next]_vars

-----------------------------------------------------------------------------
\* Every variable has its type; a report that was reviewed or is shown to the
\* client has a draft.
TypeOK ==
  /\ report \in [Reports -> Report]
  /\ trail \in [Reports -> Seq([before : ReportStatus, after : ReportStatus])]
  /\ events \in [Reports -> SUBSET ReportStatus]
  /\ mailed \in [Reports -> SUBSET Clients]
  /\ active \subseteq Clients
  /\ {cached, made, cut, refused} \subseteq SUBSET (Procs \X Reports)
  /\ overlapped \subseteq Reports
  /\ requests \subseteq Request
  /\ started \in [Reports -> Nat]
  /\ faults \in Nat
  /\ \A rep \in Reports :
       report[rep].status \in Reviews \/ report[rep].clientVisible => report[rep].drafted

Reached(rep) == {trail[rep][i].after : i \in 1 .. Len(trail[rep])}

\* Whatever overlaps and fails, the trail tells what became of a report: its
\* last event gives the status, the client is shown the report exactly when that
\* is an approval, every status that it reached has its outbox job, and nobody is
\* mailed about a report that was never approved.
TrailTellsStatus ==
  \A rep \in Reports :
    LET newest == IF trail[rep] = <<>> THEN "absent" ELSE Last(trail[rep]).after IN
    /\ report[rep].status = newest
    /\ ShownToClient(report[rep]) <=> newest = "approved"
    /\ events[rep] = Reached(rep)
    /\ mailed[rep] # {} => "approved" \in Reached(rep)

\* The trail of a report is a path, each event starting where the last one
\* ended, unless requests overlapped: then a review may have been overwritten
\* by a request that never saw it.
TrailIsPath ==
  \A rep \in Reports \ overlapped :
    \A i \in 2 .. Len(trail[rep]) : trail[rep][i].before = trail[rep][i - 1].after

\* The audit trail of a report can be read as its history.
TrailIsHistory == TrailTellsStatus /\ TrailIsPath

\* idempotency.js: a repeated creation "gets the original response replayed", by
\* the process that made it.  That one refuses it only when the two overlapped, or
\* the first one had no answer, or the process was restarted since or has kept the
\* answer for its time; any other process refuses what it did not make.
RefusedIsExplained ==
  \A c \in refused :
    \/ c[2] \in overlapped
    \/ c \in cut
    \/ \E p \in Procs \ {c[1]} : <<p, c[2]>> \in made

=============================================================================
