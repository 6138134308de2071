----------------------------- MODULE AuditChain -----------------------------
(***************************************************************************)
(* The audit trail of one tenant: packages/audit/src/foundation.js and the *)
(* transactions that append to audit_events.  An event names the hash of   *)
(* the event before it, which its writer has to read first.  The worker,   *)
(* the email webhook and the OIDC binding read it under an advisory lock;  *)
(* the API's own writes (collections, field reports, files) take no lock.  *)
(*                                                                         *)
(* PostgreSQL is used at READ COMMITTED: a query sees what is committed    *)
(* and the transaction's own rows.  An event's place in the trail, seq, is *)
(* drawn at its INSERT, before its commit, and a rollback leaves a gap.    *)
(* The hash of an event is represented by the event: two rows never share  *)
(* an event_id, so two hashes are equal when their event_ids are.          *)
(***************************************************************************)
EXTENDS Integers, Sequences, FiniteSets

CONSTANTS
  Writers,   \* transactions that append to the trail
  Locking,   \* of these, the ones that take the lock "audit:<tenant>"
  EventIds,
  Appends,   \* per writer, the event_ids it appends, in this order
  Null       \* previous_hash IS NULL; the lock is free

\* The API's events have random ids.  The worker's are derived from the
\* delivery, and two runs of a handler use the same one.
AuditAssumption ==
  /\ Locking \subseteq Writers
  /\ Null \notin EventIds \cup Writers
  /\ Appends \in [Writers -> Seq(EventIds)]
  /\ \A w \in Writers : \A i, j \in 1 .. Len(Appends[w]) :
       Appends[w][i] = Appends[w][j] => i = j
  /\ \A v, w \in Writers : \A i \in 1 .. Len(Appends[v]), j \in 1 .. Len(Appends[w]) :
       Appends[v][i] = Appends[w][j] => v = w \/ {v, w} \subseteq Locking

VARIABLES
  rows,    \* the rows of audit_events, committed or not
  seq,     \* the last value the BIGSERIAL has given
  lock,    \* the transaction that holds the advisory lock
  writer   \* per writer: its phase, the events inserted, and the hash it read

vars == <<rows, seq, lock, writer>>

-----------------------------------------------------------------------------
Phase == {"idle", "open", "linking", "committed", "aborted"}

Row == [id : EventIds, prev : EventIds \cup {Null}, seq : Nat, by : Writers, committed : BOOLEAN]

Committed == {e \in rows : e.committed}

\* READ COMMITTED, at the start of a query of w.
Visible(w) == {e \in rows : e.committed \/ e.by = w}

IsLast(e, S) == \A f \in S : f.seq <= e.seq

\* verifyAuditChain: every event is hashed again with the hash of the event
\* before it, and has to give the hash that is stored.
Verifies(S) ==
  \A e \in S :
    LET before == {f \in S : f.seq < e.seq} IN
    IF before = {} THEN e.prev = Null
    ELSE \E f \in before : IsLast(f, before) /\ e.prev = f.id

Step(w, from, to) ==
  /\ writer[w].phase = from
  /\ writer' = [writer EXCEPT ![w].phase = to]

Release(w) == lock' = IF lock = w THEN Null ELSE lock

-----------------------------------------------------------------------------
Init ==
  /\ rows = {}
  /\ seq = 0
  /\ lock = Null
  /\ writer = [w \in Writers |-> [phase |-> "idle", inserted |-> 0, read |-> Null]]

Begin_NoLockBug(w) ==
  /\ Step(w, "idle", "open")
  /\ UNCHANGED <<rows, seq, lock>>

\* BEGIN, and pg_advisory_xact_lock in the writers that use it.
Begin(w) ==
  /\ Step(w, "idle", "open")
  /\ IF w \in Locking THEN lock = Null /\ lock' = w ELSE UNCHANGED lock
  /\ UNCHANGED <<rows, seq>>

\* The last event of the trail is read: listAuditEventsByTenant and its last
\* element, or ORDER BY seq DESC LIMIT 1.
ReadTail(w) ==
  /\ writer[w].phase = "open"
  /\ writer[w].inserted < Len(Appends[w])
  /\ \E last \in EventIds \cup {Null} :
       /\ IF Visible(w) = {} THEN last = Null
          ELSE \E e \in Visible(w) : IsLast(e, Visible(w)) /\ last = e.id
       /\ writer' = [writer EXCEPT ![w].phase = "linking", ![w].read = last]
  /\ UNCHANGED <<rows, seq, lock>>

\* The event is inserted.  An event_id that is in the trail already is left
\* alone (ON CONFLICT DO NOTHING, in the writers whose ids can repeat).
Insert(w) ==
  LET id == Appends[w][writer[w].inserted + 1] IN
  /\ writer[w].phase = "linking"
  /\ writer' = [writer EXCEPT ![w].phase = "open", ![w].inserted = @ + 1]
  /\ seq' = seq + 1
  /\ rows' = IF \E e \in rows : e.id = id THEN rows
             ELSE rows \cup {[id |-> id, prev |-> writer[w].read, seq |-> seq + 1,
                              by |-> w, committed |-> FALSE]}
  /\ UNCHANGED lock

Commit(w) ==
  /\ writer[w].inserted = Len(Appends[w])
  /\ Step(w, "open", "committed")
  /\ rows' = {IF e.by = w THEN [e EXCEPT !.committed = TRUE] ELSE e : e \in rows}
  /\ Release(w)
  /\ UNCHANGED seq

\* A statement fails, the operation throws or the connection ends.
Rollback(w) ==
  /\ writer[w].phase \in {"open", "linking"}
  /\ writer' = [writer EXCEPT ![w].phase = "aborted"]
  /\ rows' = {e \in rows : e.by # w}
  /\ Release(w)
  /\ UNCHANGED seq

Next == \E w \in Writers : Begin(w) \/ ReadTail(w) \/ Insert(w) \/ Commit(w) \/ Rollback(w)

Spec == Init /\ [][Next]_vars

-----------------------------------------------------------------------------
\* Every variable has its type; event ids and places are unique; only an open
\* transaction has rows that are not committed, and only one holds the lock.
TypeOK ==
  /\ rows \subseteq Row
  /\ seq \in Nat
  /\ lock \in Writers \cup {Null}
  /\ writer \in [Writers -> [phase : Phase, inserted : Nat, read : EventIds \cup {Null}]]
  /\ \A e, f \in rows : e.id = f.id \/ e.seq = f.seq => e = f
  /\ \A e \in rows : e.seq <= seq
  /\ \A e \in rows : e.committed <=> writer[e.by].phase = "committed"
  /\ \A w \in Locking : lock = w <=> writer[w].phase \in {"open", "linking"}

\* apps/api/README.md: "Every staged write now appends a tenant-scoped audit event
\* with hash chaining": the trail verifies, since nobody tampers with it.
TrailVerifies == Verifies(Committed)

\* No writer without the lock has begun.
OnlyLocking == \A w \in Writers : writer[w].phase # "idle" => w \in Locking

\* As long as every writer takes the lock, as finalizeEmailDelivery,
\* applyEmailWebhook and bindOidcIdentity do, the trail verifies at all times.
LockedTrailVerifies == OnlyLocking => TrailVerifies

\* Whoever locks: two events are linked to the same one only if one of their
\* writers did not take the lock.
ForkNeedsUnlocked ==
  \A e, f \in Committed :
    e.prev = f.prev /\ {e.by, f.by} \subseteq Locking => e = f

\* Whoever locks: every event is linked to one that is in the trail, at an
\* earlier place.  A rollback leaves no link into the void.
NoDanglingLink ==
  \A e \in Committed :
    e.prev # Null => \E f \in Committed : f.id = e.prev /\ f.seq < e.seq

\* The links of the trail can be trusted as far as its writers lock.
TrailIsSound == LockedTrailVerifies /\ ForkNeedsUnlocked /\ NoDanglingLink

\* The committed events in the order a reader gets them.
Trail ==
  [i \in 1 .. Cardinality(Committed) |->
     LET x == CHOOSE x \in Committed :
                Cardinality({y \in Committed : y.seq <= x.seq}) = i
     IN [id |-> x.id, prev |-> x.prev]]

Log == INSTANCE AppendOnlyLog WITH log <- Trail

\* As long as every writer takes the lock, the trail changes only as an
\* append-only log does: what a reader has verified stays its beginning.
TrailGrowsAsLog == Log!Init /\ [][OnlyLocking' => Log!Next]_Trail
=============================================================================
