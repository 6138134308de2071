------------------------------- MODULE Listing -------------------------------
(***************************************************************************)
(* The lists of the API, page by page: GET field-reports with limit,       *)
(* offset and status (paginate in apps/api/src/handlers.js), by a client   *)
(* that follows nextOffset while reports are created and reviewed.  Every  *)
(* page is cut from a new list, in the order the repository has then:      *)
(* memory and file keep a report in its place, sqlite's INSERT OR REPLACE  *)
(* puts it behind all others, and PostgreSQL is asked for no order.        *)
(***************************************************************************)
EXTENDS Integers, SequencesExt, Functions

CONSTANTS
  Reports,
  Statuses, Born,   \* of a report, and that of a new one
  Limits,           \* the limits clients ask for
  Backends,
  None,
  MaxSaves          \* bound: reviews

ListingAssumption ==
  /\ Limits \subseteq Nat /\ MaxSaves \in Nat
  /\ Born \in Statuses /\ None \notin Statuses
  /\ Backends \subseteq {"memory", "file", "sqlite", "postgres"}

VARIABLES
  backend,
  rows,     \* the reports, in the order of the repository
  status,   \* of each report, None if there is no such report
  walk,     \* the client's way through the pages
  shifts,   \* history: saves during the walk that moved rows of its list
  saves

vars == <<backend, rows, status, walk, shifts, saves>>

-----------------------------------------------------------------------------
\* offset: where the next page begins; there: the reports that were in the list
\* at every page and in between; seen: how often a page had a report.
Walk == [phase : {"no", "on", "over"}, filter : Statuses \cup {None}, limit : Limits \cup {1}, offset : Nat,
         there : SUBSET Reports, seen : [Reports -> Nat]]

Matches(r, filter, is) == is[r] # None /\ filter \in {None, is[r]}

\* PostgreSQL may give the rows in any order.
Orders == IF backend = "postgres" THEN SetToSeqs(ToSet(rows)) ELSE {rows}

Init ==
  /\ backend \in Backends
  /\ rows = <<>>
  /\ status = [r \in Reports |-> None]
  /\ walk = [phase |-> "no", filter |-> None, limit |-> 1, offset |-> 0, there |-> {}, seen |-> [r \in Reports |-> 0]]
  /\ shifts = 0
  /\ saves = 0

Create(r) ==
  /\ status[r] = None
  /\ status' = [status EXCEPT ![r] = Born]
  /\ rows' = Append(rows, r)
  /\ UNCHANGED <<backend, walk, shifts, saves>>

\* saveFieldReport.  A report that moves, enters or leaves the list shifts
\* those behind it.
Save(r, next) ==
  LET moves == backend = "sqlite" /\ Matches(r, walk.filter, status)
      turns == Matches(r, walk.filter, status) # (walk.filter \in {None, next})
  IN /\ status[r] # None
     /\ saves < MaxSaves
     /\ saves' = saves + 1
     /\ status' = [status EXCEPT ![r] = next]
     /\ rows' = IF backend = "sqlite" THEN Append(RemoveFirst(rows, r), r) ELSE rows
     /\ walk' = IF moves \/ turns THEN [walk EXCEPT !.there = @ \ {r}] ELSE walk
     /\ shifts' = IF walk.phase = "on" /\ (moves \/ turns) THEN shifts + 1 ELSE shifts
     /\ UNCHANGED backend

StartWalk(filter, limit) ==
  /\ walk.phase = "no"
  /\ walk' = [phase |-> "on", filter |-> filter, limit |-> limit, offset |-> 0,
              there |-> {r \in Reports : Matches(r, filter, status)}, seen |-> [r \in Reports |-> 0]]
  /\ UNCHANGED <<backend, rows, status, shifts, saves>>

NextOffsetBug(limit, offset) == offset + limit + 1

NextOffset(limit, offset) == offset + limit

\* Those of a list that the repository has before r.
Before(order, list, r) ==
  {q \in list : \E i, j \in DOMAIN order : i < j /\ order[i] = q /\ order[j] = r}

\* paginate: a limit between 0 and 1 becomes 0, and nextOffset stays.
Page(order) ==
  LET list == {r \in ToSet(order) : Matches(r, walk.filter, status)}
      place(r) == Cardinality(Before(order, list, r))
      next == NextOffset(walk.limit, walk.offset)
      page == {r \in list : walk.offset <= place(r) /\ place(r) < walk.offset + walk.limit}
  IN /\ walk.phase = "on"
     /\ walk' = [walk EXCEPT !.seen = [r \in Reports |-> IF r \in page THEN @[r] + 1 ELSE @[r]],
                             !.phase = IF next < Cardinality(list) THEN "on" ELSE "over",
                             !.offset = next]
     /\ UNCHANGED <<backend, rows, status, shifts, saves>>

Next ==
  \/ \E r \in Reports : Create(r) \/ \E next \in Statuses : Save(r, next)
  \/ \E filter \in Statuses \cup {None}, limit \in Limits : StartWalk(filter, limit)
  \/ \E order \in Orders : Page(order)

Spec == Init /\ [][Next]_vars

-----------------------------------------------------------------------------
\* The variables have their types, and the rows are the reports there are.
TypeOK ==
  /\ backend \in Backends
  /\ rows \in Seq(Reports)
  /\ IsInjective(rows)
  /\ status \in [Reports -> Statuses \cup {None}]
  /\ ToSet(rows) = {r \in Reports : status[r] # None}
  /\ walk \in Walk
  /\ {shifts, saves} \subseteq 0 .. MaxSaves

\* Each time that a report was on one more page.
Repeats == UNION {{r} \X (2 .. walk.seen[r]) : r \in Reports}

(***************************************************************************)
(* A client that follows nextOffset to the end has had every report that   *)
(* was in the list all the while, and none twice, up to one for each       *)
(* report that was moved, entered or left in between: with memory and file *)
(* only a status filter makes a page miss a report, with sqlite every save *)
(* may (saveFieldReport).  PostgreSQL promises nothing, for want of an     *)
(* ORDER BY.                                                               *)
(***************************************************************************)
WalkMissesOnlyShifted ==
  backend # "postgres" /\ walk.phase = "over" =>
    /\ Cardinality({r \in walk.there : walk.seen[r] = 0}) <= shifts
    /\ Cardinality(Repeats) <= shifts
=============================================================================
