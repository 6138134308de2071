---------------------------- MODULE RecordProofs ----------------------------
(***************************************************************************)
(* Theorems about the records of a tenant: field reports, lifecycles, the  *)
(* disposition of findings, lists, the collections of the API over each    *)
(* repository, and at the end all of them together with the audit trail,   *)
(* for any reports, processes, callers and requests.                       *)
(***************************************************************************)
EXTENDS Records, SequenceTheorems, FiniteSetTheorems, FunctionTheorems, TLAPS

USE ReportAssumption

-----------------------------------------------------------------------------
(* The rows: types, and what the trail tells. *)

\* A report that was reviewed has a draft, and so has one that is shown.
RowOK(row) ==
  /\ row \in Report
  /\ row.status \in Reviews \/ row.clientVisible => row.drafted
  /\ row.drafted => row.status # "absent"

RequestOK(r) ==
  /\ r \in Request
  /\ r.asks # "absent"
  /\ RowOK(r.copy)
  /\ r.asks \in Reviews => r.copy.drafted
  /\ r.phase = "answer" => r.asks = "captured"
  /\ r.asks # "captured" => r.copy.status # "absent"

Event == [before : ReportStatus, after : ReportStatus]

RowsTyped ==
  /\ report \in [Reports -> Report]
  /\ trail \in [Reports -> Seq(Event)]
  /\ events \in [Reports -> SUBSET ReportStatus]
  /\ mailed \in [Reports -> SUBSET Clients]
  /\ \A rep \in Reports : RowOK(report[rep])

RestOK ==
  /\ active \subseteq Clients
  /\ cached \subseteq Procs \X Reports /\ made \subseteq Procs \X Reports
  /\ cut \subseteq Procs \X Reports /\ refused \subseteq Procs \X Reports
  /\ overlapped \subseteq Reports
  /\ started \in [Reports -> Nat]
  /\ faults \in Nat

RequestsOK == \A r \in requests : RequestOK(r)

Typed == RowsTyped /\ RequestsOK /\ RestOK

\* The trail of one report.
Newest(rep) == IF trail[rep] = <<>> THEN "absent" ELSE Last(trail[rep]).after

Told(rep) ==
  /\ report[rep].status = Newest(rep)
  /\ ShownToClient(report[rep]) <=> Newest(rep) = "approved"
  /\ events[rep] = Reached(rep)
  /\ mailed[rep] # {} => "approved" \in Reached(rep)

LEMMA NewVersionOK ==
  ASSUME NEW r, RequestOK(r)
  PROVE  /\ RowOK(NewVersion(r))
         /\ NewVersion(r).status = r.asks
         /\ ShownToClient(NewVersion(r)) <=> r.asks = "approved"
  <1> USE DEF RequestOK, Request, RowOK, Report, ReportStatus, Reviews, ShownToClient
  <1>1. CASE r.asks = "captured"
    BY <1>1 DEF NewVersion, Captured
  <1>2. CASE r.asks = "draft_generated"
    BY <1>2 DEF NewVersion, Drafted
  <1>3. CASE r.asks \in Reviews
    <2>1. NewVersion(r) = Reviewed(r.copy, r.asks)
      BY <1>3 DEF NewVersion
    <2>2. (r.asks = "approved") \in BOOLEAN
      OBVIOUS
    <2>. QED
      BY <1>3, <2>1, <2>2 DEF Reviewed
  <1>. QED
    BY <1>1, <1>2, <1>3

\* A trail that has one more event.
LEMMA Appended ==
  ASSUME NEW s \in Seq(Event), NEW e \in Event
  PROVE  /\ Append(s, e) \in Seq(Event) /\ Append(s, e) # <<>>
         /\ Last(Append(s, e)) = e
         /\ Len(Append(s, e)) = Len(s) + 1
         /\ \A i \in 1 .. Len(s) : Append(s, e)[i] = s[i]
         /\ Append(s, e)[Len(s) + 1] = e
  BY DEF Last

LEMMA PersistTyped ==
  ASSUME Typed, NEW r \in requests, Persist(r)
  PROVE  RowsTyped'
  <1>1. RequestOK(r) /\ r.report \in Reports /\ r.asks \in ReportStatus /\ r.copy.status \in ReportStatus
    BY DEF Typed, RequestsOK, RequestOK, Request, Report
  <1>2. RowOK(NewVersion(r)) /\ NewVersion(r) \in Report
    BY <1>1, NewVersionOK DEF RowOK
  <1>3. [before |-> r.copy.status, after |-> r.asks] \in Event
    BY <1>1 DEF Event
  <1>4. trail' \in [Reports -> Seq(Event)]
    BY <1>1, <1>3, Appended DEF Persist, Typed, RowsTyped
  <1>5. report' \in [Reports -> Report] /\ \A rep \in Reports : RowOK(report'[rep])
    BY <1>1, <1>2 DEF Persist, Typed, RowsTyped
  <1>6. events' \in [Reports -> SUBSET ReportStatus] /\ mailed' \in [Reports -> SUBSET Clients]
    BY <1>1 DEF Persist, Typed, RowsTyped, RestOK
  <1>. QED
    BY <1>4, <1>5, <1>6 DEF RowsTyped

LEMMA PersistTold ==
  ASSUME Typed, NEW r \in requests, Persist(r), \A rep \in Reports : Told(rep)
  PROVE  \A rep \in Reports : Told(rep)'
  <1> DEFINE e == [before |-> r.copy.status, after |-> r.asks]
             s == trail[r.report]
  <1>1. RequestOK(r) /\ r.report \in Reports
    BY DEF Typed, RequestsOK, RequestOK, Request
  <1>2. e \in Event /\ s \in Seq(Event) /\ e.after = r.asks
    BY <1>1 DEF Event, RequestOK, Request, Report, Typed, RowsTyped
  <1>3. /\ report'[r.report] = NewVersion(r) /\ trail'[r.report] = Append(s, e)
        /\ events'[r.report] = events[r.report] \cup {r.asks}
        /\ mailed'[r.report] = IF r.asks = "approved" THEN mailed[r.report] \cup active ELSE mailed[r.report]
        /\ \A rep \in Reports : rep # r.report =>
             /\ report'[rep] = report[rep] /\ trail'[rep] = trail[rep]
             /\ events'[rep] = events[rep] /\ mailed'[rep] = mailed[rep]
    BY <1>1 DEF Persist, Typed, RowsTyped
  <1> HIDE DEF e, s
  <1>4. Newest(r.report)' = r.asks
    BY <1>2, <1>3, Appended DEF Newest
  <1>5. Reached(r.report)' = Reached(r.report) \cup {r.asks}
    <2>1. Reached(r.report) = {s[i].after : i \in 1 .. Len(s)}
      BY DEF Reached, s
    <2>2. Reached(r.report)' = {Append(s, e)[i].after : i \in 1 .. Len(Append(s, e))}
      BY <1>3 DEF Reached
    <2>3. Len(s) \in Nat
      BY <1>2
    <2>4. ASSUME NEW x \in Reached(r.report) \cup {r.asks} PROVE x \in Reached(r.report)'
      BY <1>2, <2>1, <2>2, <2>3, <2>4, Appended
    <2>5. ASSUME NEW x \in Reached(r.report)' PROVE x \in Reached(r.report) \cup {r.asks}
      <3>1. PICK i \in 1 .. Len(Append(s, e)) : x = Append(s, e)[i].after
        BY <2>2, <2>5
      <3>2. i \in 1 .. Len(s) \/ i = Len(s) + 1
        BY <1>2, <2>3, Appended
      <3>. QED
        BY <1>2, <2>1, <3>1, <3>2, Appended
    <2>. QED
      BY <2>4, <2>5
  <1>6. Told(r.report)'
    BY <1>1, <1>3, <1>4, <1>5, NewVersionOK DEF Told
  <1>7. ASSUME NEW rep \in Reports, rep # r.report PROVE Told(rep)'
    BY <1>3, <1>7 DEF Told, Newest, Reached
  <1>. QED
    BY <1>6, <1>7

LEMMA TypedInit == Init => Typed /\ \A rep \in Reports : Told(rep)
  <1> SUFFICES ASSUME Init PROVE Typed /\ \A rep \in Reports : Told(rep)
    OBVIOUS
  <1> DEFINE row == [status |-> "absent", drafted |-> FALSE, clientVisible |-> FALSE]
  <1>1. \A rep \in Reports : report[rep] = row
    BY DEF Init, Captured
  <1>2. RowOK(row) /\ ~ShownToClient(row)
    BY DEF RowOK, Report, ReportStatus, Reviews, ShownToClient
  <1>3. report \in [Reports -> Report]
    BY <1>2 DEF Init, Captured, RowOK
  <1>4. Typed
    BY <1>1, <1>2, <1>3 DEF Init, Typed, RowsTyped, RequestsOK, RestOK
  <1>5. ASSUME NEW rep \in Reports PROVE Told(rep)
    <2>1. trail[rep] = <<>> /\ events[rep] = {} /\ mailed[rep] = {}
      BY DEF Init
    <2>2. Reached(rep) = {}
      BY <2>1 DEF Reached
    <2>. QED
      BY <1>1, <1>2, <2>1, <2>2 DEF Told, Newest
  <1>. QED
    BY <1>4, <1>5

\* A request starts.
LEMMA StartsTyped ==
  ASSUME Typed, NEW p \in Procs, NEW rep \in Reports, NEW to \in ReportStatus \ {"absent"}, Starts(p, rep, to),
         to # "captured" => report[rep].status # "absent",
         to \in Reviews => report[rep].drafted
  PROVE  Typed'
  <1> DEFINE new == [id |-> started[rep], at |-> p, report |-> rep, asks |-> to, copy |-> report[rep], phase |-> "work"]
  <1>1. RequestOK(new)
    BY DEF Typed, RowsTyped, RestOK, RequestOK, Request, RowOK
  <1>2. requests' = requests \cup {new}
    BY DEF Starts
  <1> HIDE DEF new
  <1>3. RequestsOK'
    BY <1>1, <1>2 DEF Typed, RequestsOK
  <1>. QED
    BY <1>3 DEF Starts, Typed, RowsTyped, RestOK

\* Steps that leave the rows alone.
Rows == <<report, trail, events, mailed>>

LEMMA RowsKept ==
  ASSUME UNCHANGED Rows
  PROVE  /\ RowsTyped => RowsTyped'
         /\ \A rep \in Reports : Told(rep) => Told(rep)'
  BY DEF Rows, RowsTyped, Told, Newest, Reached

LEMMA TypedStep == Typed /\ [Next]_vars => Typed'
  <1> SUFFICES ASSUME Typed, [Next]_vars PROVE Typed'
    OBVIOUS
  <1>1. ASSUME NEW p \in Procs, NEW rep \in Reports, StartCreate(p, rep) PROVE Typed'
    BY <1>1, StartsTyped DEF StartCreate, ReportStatus, Reviews
  <1>2. ASSUME NEW p \in Procs, NEW rep \in Reports, StartDraft(p, rep) PROVE Typed'
    BY <1>2, StartsTyped DEF StartDraft, ReportStatus, Reviews
  <1>3. ASSUME NEW p \in Procs, NEW rep \in Reports, NEW next \in Reviews, StartReview(p, rep, next) PROVE Typed'
    <2>1. report[rep].status # "absent" /\ report[rep].drafted
      BY <1>3 DEF StartReview, Typed, RowsTyped, RowOK
    <2>. QED
      BY <1>3, <2>1, StartsTyped DEF StartReview, ReportStatus, Reviews
  <1>4. ASSUME NEW r \in requests PROVE Creation(r) \in Procs \X Reports
    BY DEF Typed, RequestsOK, RequestOK, Request, Creation
  <1>5. ASSUME NEW r \in requests, Commit(r) PROVE Typed'
    <2>1. RowsTyped'
      BY <1>5, PersistTyped DEF Commit
    <2>2. RequestOK(r)
      BY DEF Typed, RequestsOK
    <2>3. RequestsOK'
      <3>1. CASE r.asks = "captured"
        <4>1. RequestOK([r EXCEPT !.phase = "answer"])
          BY <2>2, <3>1 DEF RequestOK, Request
        <4>2. requests' = (requests \ {r}) \cup {[r EXCEPT !.phase = "answer"]}
          BY <1>5, <3>1 DEF Commit
        <4>. QED
          BY <4>1, <4>2 DEF Typed, RequestsOK
      <3>2. CASE r.asks # "captured"
        BY <1>5, <3>2 DEF Commit, Ends, Typed, RequestsOK
      <3>. QED
        BY <3>1, <3>2
    <2>. QED
      BY <1>4, <1>5, <2>1, <2>3 DEF Commit, Persist, Typed, RestOK
  <1>6. ASSUME NEW r \in requests, Answer(r) \/ Refuse(r) PROVE Typed'
    BY <1>4, <1>6, RowsKept DEF Answer, Refuse, Ends, Rows, Typed, RequestsOK, RestOK
  <1>7. ASSUME NEW r \in requests, CommitFault(r) PROVE Typed'
    <2>1. RowsTyped'
      BY <1>7, PersistTyped, RowsKept DEF CommitFault, Rows, Typed
    <2>2. made' \subseteq Procs \X Reports /\ cut' \subseteq Procs \X Reports
      BY <1>4, <1>7 DEF CommitFault, Persist, Typed, RestOK
    <2>. QED
      BY <1>7, <2>1, <2>2 DEF CommitFault, Ends, Typed, RequestsOK, RestOK
  <1>8. ASSUME NEW p \in Procs, Restart(p) PROVE Typed'
    BY <1>8, RowsKept DEF Restart, Rows, Typed, RequestsOK, RestOK
  <1>9. ASSUME NEW c \in cached, Expire(c) PROVE Typed'
    BY <1>9, RowsKept DEF Expire, Rows, Typed, RequestsOK, RestOK
  <1>10. ASSUME ChangeClients PROVE Typed'
    BY <1>10, RowsKept DEF ChangeClients, Rows, Typed, RequestsOK, RestOK
  <1>11. ASSUME UNCHANGED vars PROVE Typed'
    BY <1>11, RowsKept DEF vars, Rows, Typed, RequestsOK, RestOK
  <1>. QED
    BY <1>1, <1>2, <1>3, <1>5, <1>6, <1>7, <1>8, <1>9, <1>10, <1>11 DEF Next

\* The rows change by a persisted request, or not at all.
LEMMA RowsChange == [Next]_vars => UNCHANGED Rows \/ \E r \in requests : r.phase = "work" /\ Persist(r)
  BY DEF Next, StartCreate, StartDraft, StartReview, Starts, Commit, Answer, Refuse, CommitFault, Restart,
         Expire, ChangeClients, vars, Rows

LEMMA TypedAlways == Spec => [](Typed /\ \A rep \in Reports : Told(rep))
  <1>1. ASSUME Typed /\ (\A rep \in Reports : Told(rep)), [Next]_vars
        PROVE  (Typed /\ \A rep \in Reports : Told(rep))'
    BY <1>1, TypedStep, RowsChange, RowsKept, PersistTold
  <1>. QED
    BY TypedInit, <1>1, PTL DEF Spec

\* Every variable has its type; a report that was reviewed or is shown to the
\* client has a draft, although a review may write over one it has not seen.
THEOREM TypeCorrect == Spec => []TypeOK
  <1>1. Typed => TypeOK
    BY DEF Typed, RowsTyped, RequestsOK, RequestOK, RestOK, RowOK, Event, TypeOK
  <1>. QED
    BY <1>1, TypedAlways, PTL

\* Report, trail, outbox jobs and emails agree whatever overlaps and fails.
THEOREM TrailTells == Spec => []TrailTellsStatus
  <1>1. (\A rep \in Reports : Told(rep)) => TrailTellsStatus
    BY DEF Told, Newest, TrailTellsStatus
  <1>. QED
    BY <1>1, TypedAlways, PTL

-----------------------------------------------------------------------------
(* A report whose requests do not overlap. *)

\* Its only request in flight has read the report as it is.
Alone ==
  \A rep \in Reports \ overlapped : \A r \in requests :
    r.report = rep =>
      /\ \A q \in requests : q.report = rep => q = r
      /\ r.phase = "work" => r.copy = report[rep]

\* A report that is there, or that a request has read, was made by a process.
MadeBySome(rep) == \E p \in Procs : <<p, rep>> \in made

Made ==
  /\ \A rep \in Reports : report[rep].status # "absent" => MadeBySome(rep)
  /\ \A r \in requests : r.asks # "captured" => MadeBySome(r.report)

\* Unless its answer was cut off or dropped, the process that made a report
\* keeps it, or is about to.
AnswerKept ==
  \A c \in made \ cut : c \in cached \/ \E r \in requests : Creation(r) = c /\ r.phase = "answer"

\* A process is asked again for what it made only when it has lost the answer.
AskedAgain ==
  \A r \in requests :
    r.phase = "work" /\ r.asks = "captured" /\ r.report \notin overlapped /\ Creation(r) \in made =>
      Creation(r) \in cut

Base == Typed /\ \A rep \in Reports : Told(rep)

Answered == Made /\ AnswerKept /\ AskedAgain

Inv == Base /\ Alone /\ TrailIsPath /\ Answered /\ RefusedIsExplained

LEMMA InvInit == Init => Inv
  <1> SUFFICES ASSUME Init PROVE Inv
    OBVIOUS
  <1>1. \A rep \in Reports : report[rep].status = "absent" /\ trail[rep] = <<>>
    BY DEF Init, Captured
  <1>2. TrailIsPath
    BY <1>1 DEF TrailIsPath
  <1>3. Answered
    BY <1>1 DEF Init, Answered, Made, AnswerKept, AskedAgain
  <1>. QED
    BY <1>1, <1>2, <1>3, TypedInit DEF Init, Base, Inv, Alone, RefusedIsExplained

LEMMA StartsInv ==
  ASSUME Inv, NEW p \in Procs, NEW rep \in Reports, NEW to, Starts(p, rep, to),
         to = "captured" => <<p, rep>> \notin cached,
         to # "captured" => report[rep].status # "absent"
  PROVE  Alone' /\ TrailIsPath' /\ Answered' /\ RefusedIsExplained'
  <1> DEFINE new == [id |-> started[rep], at |-> p, report |-> rep, asks |-> to, copy |-> report[rep], phase |-> "work"]
  <1>1. /\ requests' = requests \cup {new} /\ overlapped \subseteq overlapped'
        /\ UNCHANGED <<report, trail, cached, made, cut, refused>>
        /\ rep \notin overlapped' => \A r \in requests : r.report # rep
    BY DEF Starts
  <1>2. /\ new.report = rep /\ new.asks = to /\ new.copy = report[rep] /\ new.phase = "work"
        /\ Creation(new) = <<p, rep>>
    BY DEF Creation
  <1> HIDE DEF new
  <1>3. Alone'
    BY <1>1, <1>2 DEF Inv, Alone
  <1>4. TrailIsPath' /\ RefusedIsExplained'
    BY <1>1 DEF Inv, TrailIsPath, RefusedIsExplained
  <1>5. Made'
    BY <1>1, <1>2 DEF Inv, Answered, Made, MadeBySome
  <1>6. AnswerKept'
    BY <1>1, <1>2 DEF Inv, Answered, AnswerKept, Creation
  <1>7. \A r \in requests : r.report = Creation(r)[2]
    BY DEF Creation
  <1>8. AskedAgain'
    BY <1>1, <1>2, <1>7 DEF Inv, Answered, AnswerKept, AskedAgain, Creation
  <1>. QED
    BY <1>3, <1>4, <1>5, <1>6, <1>8 DEF Answered

\* A request writes what it makes of the report.
LEMMA PersistPath ==
  ASSUME Inv, NEW r \in requests, r.phase = "work", Persist(r), UNCHANGED overlapped
  PROVE  TrailIsPath'
  <1> SUFFICES ASSUME NEW rep \in Reports \ overlapped, NEW i \in 2 .. Len(trail'[rep])
               PROVE  trail'[rep][i].before = trail'[rep][i - 1].after
    BY DEF TrailIsPath
  <1>1. trail[rep] \in Seq(Event) /\ trail \in [Reports -> Seq(Event)]
    BY DEF Inv, Base, Typed, RowsTyped
  <1>2. CASE rep # r.report
    <2>1. trail'[rep] = trail[rep]
      BY <1>1, <1>2 DEF Persist
    <2>. QED
      BY <2>1 DEF Inv, TrailIsPath
  <1>3. CASE rep = r.report
    <2> DEFINE e == [before |-> r.copy.status, after |-> r.asks]
               s == trail[rep]
    <2>1. trail'[rep] = Append(s, e)
      BY <1>1, <1>3 DEF Persist
    <2>2. e \in Event /\ e.before = Newest(rep)
      BY <1>3 DEF Event, Inv, Alone, Base, Typed, RequestsOK, RequestOK, Request, Report, Told
    <2>3. s \in Seq(Event) /\ Len(s) \in Nat
      BY <1>1
    <2>4. Newest(rep) = IF s = <<>> THEN "absent" ELSE s[Len(s)].after
      BY DEF Newest, Last
    <2>5. \A k \in 2 .. Len(s) : s[k].before = s[k - 1].after
      BY DEF Inv, TrailIsPath
    <2> HIDE DEF e, s
    <2>6. i \in 2 .. Len(s) + 1
      BY <2>1, <2>2, <2>3, Appended
    <2>7. CASE i \in 2 .. Len(s)
      <3>1. i \in 1 .. Len(s) /\ i - 1 \in 1 .. Len(s)
        BY <2>3, <2>7
      <3>. QED
        BY <2>1, <2>2, <2>3, <2>5, <2>7, <3>1, Appended
    <2>8. CASE i = Len(s) + 1
      <3>1. Len(s) \in 1 .. Len(s) /\ i - 1 = Len(s) /\ s # <<>>
        BY <2>3, <2>6, <2>8
      <3>. QED
        BY <2>1, <2>2, <2>3, <2>4, <2>8, <3>1, Appended
    <2>. QED
      BY <2>3, <2>6, <2>7, <2>8
  <1>. QED
    BY <1>2, <1>3

\* What becomes of the other requests, and of the answers, when one is over or
\* has its answer before it.
LEMMA WorkInv ==
  ASSUME Inv, NEW r \in requests, r.phase = "work",
         NEW new, new = [r EXCEPT !.phase = "answer"],
         requests' = requests \ {r} \/ requests' = (requests \ {r}) \cup {new},
         \A rep \in Reports : rep # r.report => report'[rep] = report[rep],
         UNCHANGED <<overlapped, cached>>,
         cut \subseteq cut',
         made' = made \/ made' = made \cup {Creation(r)},
         new \in requests' \/ made' = made \/ Creation(r) \in cut',
         report'[r.report].status # "absent" => MadeBySome(r.report)'
  PROVE  Alone' /\ Answered'
  <1>1. RequestOK(r) /\ r.report \in Reports
    BY DEF Inv, Base, Typed, RequestsOK, RequestOK, Request
  <1>2. /\ new.report = r.report /\ new.phase = "answer" /\ new.asks = r.asks
        /\ Creation(new) = Creation(r)
    BY <1>1 DEF RequestOK, Request, Creation
  <1>3. requests' \subseteq (requests \ {r}) \cup {new} /\ requests \ {r} \subseteq requests'
    OBVIOUS
  <1>4. ASSUME NEW rep \in Reports \ overlapped, rep = r.report
        PROVE  \A q \in requests' : q.report = rep => q = new /\ q.phase = "answer"
    BY <1>2, <1>3, <1>4 DEF Inv, Alone
  <1>5. Alone'
    <2>1. ASSUME NEW rep \in Reports \ overlapped, rep # r.report, NEW q \in requests', q.report = rep
          PROVE  q \in requests
      BY <1>2, <1>3, <2>1
    <2>. QED
      BY <1>4, <2>1 DEF Inv, Alone
  <1>6. Made'
    <2>1. \A rep : MadeBySome(rep) => MadeBySome(rep)'
      BY DEF MadeBySome
    <2>. QED
      BY <1>2, <1>3, <2>1 DEF Inv, Answered, Made
  <1>7. AnswerKept'
    <2> SUFFICES ASSUME NEW c \in made' \ cut'
                 PROVE  c \in cached \/ \E q \in requests' : Creation(q) = c /\ q.phase = "answer"
      BY DEF AnswerKept, Creation
    <2>1. CASE c \in made
      BY <1>3, <2>1 DEF Inv, Answered, AnswerKept
    <2>2. CASE c \notin made
      BY <1>2, <2>2
    <2>. QED
      BY <2>1, <2>2
  <1>8. AskedAgain'
    <2> SUFFICES ASSUME NEW q \in requests', q.phase = "work", q.asks = "captured",
                        q.report \notin overlapped, Creation(q) \in made'
                 PROVE  Creation(q) \in cut'
      BY DEF AskedAgain, Creation
    <2>1. q \in requests /\ q # r /\ q.report \in Reports
      BY <1>2, <1>3 DEF Inv, Base, Typed, RequestsOK, RequestOK, Request
    <2>2. q.report # r.report
      BY <2>1 DEF Inv, Alone
    <2>3. Creation(q) \in made
      BY <2>2 DEF Creation
    <2>. QED
      BY <2>1, <2>3 DEF Inv, Answered, AskedAgain
  <1>. QED
    BY <1>5, <1>6, <1>7, <1>8 DEF Answered

LEMMA PersistMade ==
  ASSUME Inv, NEW r \in requests, Persist(r)
  PROVE  /\ MadeBySome(r.report)'
         /\ made' = made \/ made' = made \cup {Creation(r)}
         /\ r.asks # "captured" => made' = made
  <1>1. CASE r.asks = "captured"
    BY <1>1 DEF Persist, MadeBySome, Creation, Inv, Base, Typed, RequestsOK, RequestOK, Request
  <1>2. CASE r.asks # "captured"
    BY <1>2 DEF Persist, MadeBySome, Inv, Answered, Made
  <1>. QED
    BY <1>1, <1>2

\* What was refused stays explained.
LEMMA StaysExplained ==
  ASSUME RefusedIsExplained, UNCHANGED refused, overlapped \subseteq overlapped', made \subseteq made', cut \subseteq cut'
  PROVE  RefusedIsExplained'
  BY DEF RefusedIsExplained

LEMMA InvStep == Inv /\ [Next]_vars => Inv'
  <1> SUFFICES ASSUME Inv, [Next]_vars PROVE Inv'
    OBVIOUS
  <1> DEFINE Rest == Alone /\ TrailIsPath /\ Answered /\ RefusedIsExplained
  <1>1. Base'
    BY TypedStep, RowsChange, RowsKept, PersistTold DEF Inv, Base
  <1>2. ASSUME NEW p \in Procs, NEW rep \in Reports, StartCreate(p, rep) PROVE Rest'
    BY <1>2, StartsInv DEF StartCreate
  <1>3. ASSUME NEW p \in Procs, NEW rep \in Reports, StartDraft(p, rep) PROVE Rest'
    BY <1>3, StartsInv DEF StartDraft
  <1>4. ASSUME NEW p \in Procs, NEW rep \in Reports, NEW next \in Reviews, StartReview(p, rep, next) PROVE Rest'
    <2>1. report[rep].status # "absent"
      BY <1>4 DEF StartReview, Inv, Base, Typed, RowsTyped, RowOK
    <2>. QED
      BY <1>4, <2>1, StartsInv DEF StartReview, Reviews
  <1>5. ASSUME NEW r \in requests PROVE r.report \in Reports /\ RequestOK(r) /\ Creation(r) \in Procs \X Reports
    BY DEF Inv, Base, Typed, RequestsOK, RequestOK, Request, Creation
  <1>6. ASSUME NEW r \in requests, Persist(r)
        PROVE  \A rep \in Reports : rep # r.report => report'[rep] = report[rep]
    BY <1>5, <1>6 DEF Persist, Inv, Base, Typed, RowsTyped
  <1>7. ASSUME NEW r \in requests, Commit(r) PROVE Rest'
    <2>1. TrailIsPath'
      BY <1>7, PersistPath DEF Commit
    <2>2. RefusedIsExplained'
      BY <1>7, PersistMade, StaysExplained DEF Commit, Inv
    <2>3. Alone' /\ Answered'
      <3>1. CASE r.asks = "captured"
        BY <1>6, <1>7, <3>1, PersistMade, WorkInv DEF Commit
      <3>2. CASE r.asks # "captured"
        BY <1>6, <1>7, <3>2, PersistMade, WorkInv DEF Commit, Ends
      <3>. QED
        BY <3>1, <3>2
    <2>. QED
      BY <2>1, <2>2, <2>3
  <1>8. ASSUME NEW r \in requests, CommitFault(r) PROVE Rest'
    <2>1. CASE Persist(r)
      <3>1. TrailIsPath'
        BY <1>8, <2>1, PersistPath DEF CommitFault
      <3>2. Alone' /\ Answered'
        BY <1>6, <1>8, <2>1, PersistMade, WorkInv DEF CommitFault, Ends
      <3>3. RefusedIsExplained'
        BY <1>8, <2>1, PersistMade, StaysExplained DEF CommitFault, Inv
      <3>. QED
        BY <3>1, <3>2, <3>3
    <2>2. CASE UNCHANGED <<report, trail, events, mailed, made>>
      <3>1. TrailIsPath'
        BY <1>8, <2>2 DEF CommitFault, Inv, TrailIsPath
      <3>2. report'[r.report].status # "absent" => MadeBySome(r.report)'
        BY <1>5, <2>2 DEF Inv, Answered, Made, MadeBySome
      <3>3. Alone' /\ Answered'
        BY <1>8, <2>2, <3>2, WorkInv DEF CommitFault, Ends
      <3>4. RefusedIsExplained'
        BY <1>8, <2>2, StaysExplained DEF CommitFault, Inv
      <3>. QED
        BY <3>1, <3>3, <3>4
    <2>. QED
      BY <1>8, <2>1, <2>2 DEF CommitFault
  <1>9. ASSUME NEW r \in requests, Answer(r) PROVE Rest'
    <2>1. /\ requests' = requests \ {r} /\ cached' = cached \cup {Creation(r)}
          /\ UNCHANGED <<report, trail, overlapped, made, cut, refused>>
      BY <1>9 DEF Answer, Ends
    <2>2. Alone' /\ TrailIsPath'
      BY <2>1 DEF Inv, Alone, TrailIsPath
    <2>3. RefusedIsExplained'
      BY <2>1, StaysExplained DEF Inv
    <2>4. Made' /\ AskedAgain'
      BY <2>1 DEF Inv, Answered, Made, MadeBySome, AskedAgain, Creation
    <2>5. AnswerKept'
      BY <2>1 DEF Inv, Answered, AnswerKept, Creation
    <2>. QED
      BY <2>2, <2>3, <2>4, <2>5 DEF Answered
  <1>10. ASSUME NEW r \in requests, Refuse(r) PROVE Rest'
    <2>1. /\ requests' = requests \ {r} /\ UNCHANGED <<report, trail, cached, overlapped, made, cut>>
          /\ refused' = refused \cup {Creation(r)} /\ r.phase = "work"
          /\ r.asks = "captured" /\ report[r.report].status # "absent"
      BY <1>10 DEF Refuse, Ends, Succeeds
    <2>2. r.report \in overlapped \/ Creation(r) \in cut \/ \E p \in Procs \ {r.at} : <<p, r.report>> \in made
      <3>1. PICK p \in Procs : <<p, r.report>> \in made
        BY <1>5, <2>1 DEF Inv, Answered, Made, MadeBySome
      <3>2. CASE p = r.at
        BY <2>1, <3>1, <3>2 DEF Inv, Answered, AskedAgain, Creation
      <3>. QED
        BY <3>1, <3>2
    <2>3. Alone' /\ TrailIsPath'
      BY <2>1 DEF Inv, Alone, TrailIsPath
    <2>4. RefusedIsExplained'
      <3>1. Creation(r)[1] = r.at /\ Creation(r)[2] = r.report
        BY DEF Creation
      <3>. QED
        BY <2>1, <2>2, <3>1 DEF Inv, RefusedIsExplained
    <2>5. Answered'
      BY <2>1 DEF Inv, Answered, Made, MadeBySome, AnswerKept, AskedAgain, Creation
    <2>. QED
      BY <2>3, <2>4, <2>5
  <1>11. ASSUME NEW p \in Procs, Restart(p) PROVE Rest'
    <2>1. /\ requests' = {r \in requests : r.at # p} /\ cached' = {c \in cached : c[1] # p}
          /\ cut' = cut \cup ({p} \X Reports)
          /\ UNCHANGED <<report, trail, overlapped, made, refused>>
      BY <1>11 DEF Restart
    <2>2. Alone' /\ TrailIsPath'
      BY <2>1 DEF Inv, Alone, TrailIsPath
    <2>3. RefusedIsExplained'
      BY <2>1, StaysExplained DEF Inv
    <2>4. Made' /\ AskedAgain'
      BY <2>1 DEF Inv, Answered, Made, MadeBySome, AskedAgain, Creation
    <2>5. AnswerKept'
      <3> SUFFICES ASSUME NEW c \in made \ cut'
                   PROVE  c \in cached' \/ \E r \in requests' : Creation(r) = c /\ r.phase = "answer"
        BY <2>1 DEF AnswerKept, Creation
      <3>1. c \in Procs \X Reports /\ c[1] # p
        BY <2>1 DEF Inv, Base, Typed, RestOK
      <3>2. \A r \in requests : Creation(r) = c => r.at # p
        BY <3>1 DEF Creation
      <3>. QED
        BY <2>1, <3>1, <3>2 DEF Inv, Answered, AnswerKept
    <2>. QED
      BY <2>2, <2>3, <2>4, <2>5 DEF Answered
  <1>12. ASSUME NEW c \in cached, Expire(c) PROVE Rest'
    <2>1. cached' = cached \ {c} /\ cut' = cut \cup {c} /\ UNCHANGED <<report, trail, requests, overlapped, made, refused>>
      BY <1>12 DEF Expire
    <2>2. Alone' /\ TrailIsPath' /\ Answered'
      BY <2>1 DEF Inv, Alone, TrailIsPath, Answered, Made, MadeBySome, AnswerKept, AskedAgain, Creation
    <2>. QED
      BY <2>1, <2>2, StaysExplained DEF Inv
  <1>13. ASSUME ChangeClients \/ UNCHANGED vars PROVE Rest'
    <2>1. UNCHANGED <<report, trail, cached, requests, overlapped, made, cut, refused>>
      BY <1>13 DEF ChangeClients, vars
    <2>. QED
      BY <2>1 DEF Inv, Alone, TrailIsPath, Answered, Made, MadeBySome, AnswerKept, AskedAgain, Creation, RefusedIsExplained
  <1>14. Rest'
    BY <1>2, <1>3, <1>4, <1>7, <1>8, <1>9, <1>10, <1>11, <1>12, <1>13 DEF Next
  <1>. QED
    BY <1>1, <1>14 DEF Inv

LEMMA InvAlways == Spec => []Inv
  BY InvInit, InvStep, PTL DEF Spec

\* Each event of the trail starts where the last one ended: no review is
\* overwritten but by a request that overlapped it.
THEOREM Path == Spec => []TrailIsPath
  <1>1. Inv => TrailIsPath
    BY DEF Inv
  <1>. QED
    BY <1>1, InvAlways, PTL

\* The trail of a report is its history: it leads, step by step, to where the
\* report is.
THEOREM History == Spec => []TrailIsHistory
  <1>1. TrailTellsStatus /\ TrailIsPath => TrailIsHistory
    BY DEF TrailIsHistory
  <1>. QED
    BY <1>1, TrailTells, Path, PTL

\* The process that made a report gives the first answer again, unless the two
\* creations overlapped, or that answer was cut off, dropped after its time or lost
\* with the process; another process refuses what it did not make.
THEOREM RefusalsExplained == Spec => []RefusedIsExplained
  <1>1. Inv => RefusedIsExplained
    BY DEF Inv
  <1>. QED
    BY <1>1, InvAlways, PTL

-----------------------------------------------------------------------------
(* The lifecycles of permits, projects and field items. *)

\* What no way through the tables leads round, of a version or a copy of it.
PermitOK(p) ==
  /\ p \in Life!Permit
  /\ p.forms = born.permit.forms /\ p.refs = born.permit.refs
  /\ p.cycles >= born.permit.cycles
  /\ p.status \in {"ready_for_submission", "simulated_submitted"} /\ p # born.permit =>
       p.forms \/ born.permit.status = "ready_for_submission"
  /\ p.status = "simulated_submitted" /\ p # born.permit => p.refs
  /\ p.status \in Life!Submitted =>
       p.cycles > born.permit.cycles \/ born.permit.status \in Life!Submitted

ProjectOK(s) ==
  /\ s \in Life!ProjectStatus
  /\ s \in Life!Built => supported \/ born.project \in Life!Built

ItemOK(i) == i \in Life!Item /\ (i.status = "resolved" /\ i # born.item => i.resolution)

LifeInv ==
  /\ matter \in {"permit", "project", "item"} /\ supported \in BOOLEAN /\ born \in Life!Copies
  /\ PermitOK(permit) /\ ProjectOK(project) /\ ItemOK(item)
  /\ held \in [Callers -> Life!Copies]
  /\ \A u \in Callers : PermitOK(held[u].permit) /\ ProjectOK(held[u].project) /\ ItemOK(held[u].item)

LEMMA LifeInit == ASSUME Life!LifecycleAssumption, Life!Init PROVE LifeInv
  <1>1. /\ 0 \in 0 .. MaxCycles /\ MaxCycles \in Nat
        /\ "package_preparation" \in DOMAIN Life!PermitNext /\ "draft" \in Life!ProjectStatus
    BY DEF Life!LifecycleAssumption, Life!PermitNext, Life!ProjectNext, Life!ProjectStatus
  <1>2. born \in Life!Copies /\ matter \in {"permit", "project", "item"}
    <2>1. born \in Life!Created(matter) /\ matter \in {"permit", "project", "item"}
      BY DEF Life!Init
    <2> DEFINE first == [permit  |-> [status |-> "package_preparation", forms |-> FALSE, refs |-> FALSE, cycles |-> 0],
                         project |-> "draft",
                         item    |-> [status |-> "open", resolution |-> FALSE]]
    <2>2. first \in Life!Copies
      BY <1>1 DEF Life!Copies, Life!Permit, Life!Item, Life!FieldItemStatus
    <2>3. CASE matter = "permit"
      <3>1. PICK p \in Life!Permit : born = [first EXCEPT !.permit = p]
        BY <2>1, <2>3 DEF Life!Created
      <3>. QED
        BY <2>1, <2>2, <3>1 DEF Life!Copies
    <2>4. CASE matter = "project"
      <3>1. PICK s \in Life!ProjectStatus : born = [first EXCEPT !.project = s]
        BY <2>1, <2>4 DEF Life!Created
      <3>. QED
        BY <2>1, <2>2, <3>1 DEF Life!Copies
    <2>5. CASE matter = "item"
      <3>1. PICK i \in Life!Item : born = [first EXCEPT !.item = i]
        BY <2>1, <2>5 DEF Life!Created
      <3>. QED
        BY <2>1, <2>2, <3>1 DEF Life!Copies
    <2>. QED
      BY <2>1, <2>3, <2>4, <2>5
  <1>3. PermitOK(born.permit) /\ ProjectOK(born.project) /\ ItemOK(born.item)
    BY <1>1, <1>2 DEF Life!Copies, Life!Permit, PermitOK, ProjectOK, ItemOK
  <1>. QED
    BY <1>2, <1>3 DEF Life!Init, LifeInv

LEMMA LifeStep == ASSUME Life!LifecycleAssumption, LifeInv, [Life!Next]_Life!vars PROVE LifeInv'
  <1>1. ASSUME NEW u \in Callers, Life!Load(u) PROVE LifeInv'
    <2>1. [permit |-> permit, project |-> project, item |-> item] \in Life!Copies
      BY DEF LifeInv, Life!Copies, PermitOK, ProjectOK, ItemOK
    <2>. QED
      BY <1>1, <2>1 DEF Life!Load, LifeInv, PermitOK, ProjectOK, ItemOK
  <1>2. ASSUME NEW u \in Callers, NEW next \in DOMAIN Life!PermitNext, NEW comments \in BOOLEAN,
               Life!TransitionPermit(u, next, comments)
        PROVE  LifeInv'
    <2> DEFINE copy == held[u].permit
               submits == next \in {"simulated_submitted", "simulated_resubmitted"}
               cycles == IF submits THEN copy.cycles + 1 ELSE copy.cycles
    <2>1. PermitOK(copy) /\ copy.cycles \in Nat /\ born.permit.cycles \in Nat /\ MaxCycles \in Nat
      BY DEF LifeInv, Life!LifecycleAssumption, PermitOK, Life!Permit, Life!Copies
    <2>2. /\ copy \in [status : DOMAIN Life!PermitNext, forms : BOOLEAN, refs : BOOLEAN, cycles : 0 .. MaxCycles]
          /\ next \in Life!PermitNext[copy.status] /\ copy.status \in DOMAIN Life!PermitNext
          /\ next = "ready_for_submission" => copy.forms
          /\ next = "simulated_submitted" => copy.refs
          /\ submits => copy.cycles < MaxCycles
          /\ permit' = [copy EXCEPT !.status = next, !.cycles = cycles]
      BY <1>2, <2>1 DEF Life!TransitionPermit, PermitOK, Life!Permit
    <2>3. cycles \in 0 .. MaxCycles /\ cycles >= copy.cycles /\ (submits => cycles > copy.cycles)
      BY <2>1, <2>2
    <2>4. /\ permit' \in Life!Permit /\ permit'.status = next /\ permit'.cycles = cycles
          /\ permit'.forms = copy.forms /\ permit'.refs = copy.refs
      <3> HIDE DEF copy, cycles
      <3>. QED
        BY <2>2, <2>3 DEF Life!Permit
    <2>5. /\ next \in Life!Submitted => submits \/ copy.status \in Life!Submitted
          /\ next = "simulated_submitted" => copy.status = "ready_for_submission"
      <3> HIDE DEF copy
      <3>. QED
        BY <2>2 DEF Life!PermitNext, Life!Submitted
    <2>6. born' = born
      BY <1>2 DEF Life!TransitionPermit
    <2>7. copy.status = "ready_for_submission" => copy.forms \/ born.permit.status = "ready_for_submission"
      BY <2>1 DEF PermitOK
    <2>8. PermitOK(permit')
      <3> HIDE DEF cycles
      <3>1. permit'.cycles \in Nat /\ permit'.cycles >= copy.cycles /\ (submits => permit'.cycles > copy.cycles)
        BY <2>3, <2>4
      <3>2. next \in Life!Submitted => permit'.cycles > born.permit.cycles \/ born.permit.status \in Life!Submitted
        BY <2>1, <2>5, <3>1 DEF PermitOK
      <3>3. permit'.cycles >= born.permit.cycles
        BY <2>1, <3>1 DEF PermitOK
      <3>. QED
        BY <2>1, <2>2, <2>4, <2>5, <2>7, <3>2, <3>3 DEF PermitOK
    <2>9. PermitOK(permit)'
      BY <2>6, <2>8 DEF PermitOK
    <2>10. /\ held' = [held EXCEPT ![u].permit = permit'] /\ UNCHANGED <<matter, project, item, born, supported>>
      BY <1>2 DEF Life!TransitionPermit
    <2>11. held' \in [Callers -> Life!Copies]
      BY <2>4, <2>10 DEF LifeInv, Life!Copies
    <2>12. \A v \in Callers : /\ held'[v].permit = IF v = u THEN permit' ELSE held[v].permit
                              /\ held'[v].project = held[v].project /\ held'[v].item = held[v].item
      BY <2>10 DEF LifeInv, Life!Copies
    <2> HIDE DEF copy, cycles
    <2>. QED
      BY <2>9, <2>10, <2>11, <2>12 DEF LifeInv, PermitOK, ProjectOK, ItemOK
  <1>3. ASSUME NEW u \in Callers, NEW next \in DOMAIN Life!ProjectNext, NEW artifacts \in BOOLEAN, NEW blocked \in BOOLEAN,
               Life!TransitionProject(u, next, artifacts, blocked)
        PROVE  LifeInv'
    <2>1. /\ held' = [held EXCEPT ![u].project = next] /\ project' = next
          /\ UNCHANGED <<matter, permit, item, born>>
          /\ supported' \in BOOLEAN /\ (supported => supported')
      BY <1>3 DEF Life!TransitionProject, LifeInv
    <2>2. ProjectOK(next)'
      <3>1. next \in Life!ProjectStatus
        BY DEF Life!ProjectStatus
      <3>2. CASE next \in Life!Approvals
        BY <1>3, <3>1, <3>2 DEF Life!TransitionProject, ProjectOK
      <3>3. CASE next \in {"field_revision", "as_built", "archived"}
        <4>1. held[u].project \in DOMAIN Life!ProjectNext /\ next \in Life!ProjectNext[held[u].project]
          BY <1>3 DEF Life!TransitionProject, LifeInv, ProjectOK, Life!ProjectStatus
        <4>2. held[u].project \in Life!Built
          BY <3>3, <4>1 DEF Life!ProjectNext, Life!Approvals, Life!Built
        <4>. QED
          BY <2>1, <3>1, <4>2 DEF LifeInv, ProjectOK
      <3>. QED
        BY <3>1, <3>2, <3>3 DEF ProjectOK, Life!Built
    <2>3. held' \in [Callers -> Life!Copies]
      BY <2>1 DEF LifeInv, Life!Copies, Life!ProjectStatus
    <2>4. \A v \in Callers : /\ held'[v].project = IF v = u THEN next ELSE held[v].project
                             /\ held'[v].permit = held[v].permit /\ held'[v].item = held[v].item
      BY <2>1 DEF LifeInv, Life!Copies
    <2>. QED
      BY <2>1, <2>2, <2>3, <2>4 DEF LifeInv, PermitOK, ProjectOK, ItemOK
  <1>4. ASSUME NEW u \in Callers, NEW next \in Life!FieldItemStatus, NEW given \in {"none", "empty", "text"},
               Life!UpdateItem(u, next, given)
        PROVE  LifeInv'
    <2>1. /\ held' = [held EXCEPT ![u].item = item'] /\ UNCHANGED <<matter, permit, project, born, supported>>
          /\ item' = [status     |-> next,
                      resolution |-> IF given = "none" THEN held[u].item.resolution ELSE given = "text"]
          /\ next = "resolved" => given = "text"
      BY <1>4 DEF Life!UpdateItem
    <2>2. item' \in Life!Item /\ (item'.status = "resolved" => item'.resolution)
      <3>1. held[u].item.resolution \in BOOLEAN /\ (given = "text") \in BOOLEAN
        BY DEF LifeInv, Life!Copies, Life!Item
      <3>. QED
        BY <2>1, <3>1 DEF Life!Item
    <2>3. held' \in [Callers -> Life!Copies]
      BY <2>1, <2>2 DEF LifeInv, Life!Copies
    <2>4. \A v \in Callers : /\ held'[v].item = IF v = u THEN item' ELSE held[v].item
                             /\ held'[v].permit = held[v].permit /\ held'[v].project = held[v].project
      BY <2>1 DEF LifeInv, Life!Copies
    <2>. QED
      BY <2>1, <2>2, <2>3, <2>4 DEF LifeInv, PermitOK, ProjectOK, ItemOK
  <1>5. ASSUME UNCHANGED Life!vars PROVE LifeInv'
    BY <1>5 DEF Life!vars, LifeInv, PermitOK, ProjectOK, ItemOK
  <1>. QED
    BY <1>1, <1>2, <1>3, <1>4, <1>5 DEF Life!Next

-----------------------------------------------------------------------------
(* The disposition of findings. *)

DispOK ==
  /\ finding \in [Findings -> Disp!Standing]
  /\ tenantIssues \subseteq Issues
  /\ marks \in [Findings -> Seq([before : Disp!Dispositions, after : Disp!Dispositions])]
  /\ asks \in Seq(Disp!Ask)
  /\ mishaps \in Nat
  /\ mixed \subseteq Findings

\* Only what is accepted goes on, also where it is broken off.
AcceptedOK == \A n \in DOMAIN asks : asks[n].phase # "refused" => Disp!Accepted(asks[n].next)

\* What a finding shows was asked for, or is how it was created.
AskedFor(f) == \E n \in DOMAIN asks : asks[n].of = f /\ asks[n].phase # "refused" /\ asks[n].next = finding[f]

AsCreated(f) ==
  /\ finding[f].issue = None /\ marks[f] = <<>>
  /\ \A n \in DOMAIN asks : asks[n].of = f => asks[n].phase # "audit"

ShownOK == \A f \in Findings : AskedFor(f) \/ AsCreated(f)

\* A finding whose requests come one after the other, and none is broken off.
Tells(f) ==
  /\ \A m, n \in Disp!Open(f) : m = n
  /\ \A i \in 2 .. Len(marks[f]) : marks[f][i].before = marks[f][i - 1].after
  /\ \A n \in Disp!Open(f) :
       IF asks[n].phase = "set" THEN asks[n].read = finding[f].is
       ELSE /\ asks[n].next.is = finding[f].is
            /\ marks[f] # <<>> => asks[n].read = Disp!Last(marks[f]).after
  /\ (\A n \in Disp!Open(f) : asks[n].phase = "set") /\ marks[f] # <<>> => Disp!Last(marks[f]).after = finding[f].is

TellsOK == \A f \in Findings \ mixed : Tells(f)

DispInv == DispOK /\ AcceptedOK /\ ShownOK /\ TellsOK

LEMMA DispInit == ASSUME Disp!DispositionAssumption, Disp!Init PROVE DispInv
  BY DEF Disp!DispositionAssumption, Disp!Init, Disp!Standing, DispInv, DispOK, AcceptedOK, ShownOK, AsCreated, TellsOK,
     Tells, Disp!Open

LEMMA AskIs ==
  ASSUME DispInv, NEW n \in DOMAIN asks
  PROVE  asks[n] \in Disp!Ask /\ asks[n].of \in Findings /\ asks[n].next \in Disp!Standing /\ asks[n].read \in Disp!Dispositions
  <1>1. asks[n] \in Disp!Ask
    BY DEF DispInv, DispOK
  <1>. QED
    BY <1>1 DEF Disp!Ask

LEMMA ReadStep ==
  ASSUME Disp!DispositionAssumption, DispInv, NEW f \in Findings, NEW next \in Nexts, Disp!Read(f, next)
  PROVE  DispInv'
  <1> DEFINE new == [of |-> f, next |-> next, read |-> finding[f].is, phase |-> IF Disp!Accepted(next) THEN "set" ELSE "refused"]
  <1>1. /\ asks' = Append(asks, new) /\ UNCHANGED <<finding, tenantIssues, marks, mishaps>>
        /\ mixed' = IF Disp!Open(f) # {} /\ Disp!Accepted(next) THEN mixed \cup {f} ELSE mixed
    BY DEF Disp!Read
  <1>2. new \in Disp!Ask
    BY DEF DispInv, DispOK, Disp!DispositionAssumption, Disp!Ask, Disp!Standing
  <1>3. new.of = f /\ new.next = next /\ new.read = finding[f].is /\ new.phase = IF Disp!Accepted(next) THEN "set" ELSE "refused"
    OBVIOUS
  <1> HIDE DEF new
  <1>4. asks \in Seq(Disp!Ask)
    BY DEF DispInv, DispOK
  <1>5. /\ DOMAIN asks' = DOMAIN asks \cup {Len(asks) + 1} /\ Len(asks) + 1 \notin DOMAIN asks
        /\ \A n \in DOMAIN asks : asks'[n] = asks[n]
        /\ asks'[Len(asks) + 1] = new
    BY <1>1, <1>2, <1>4
  <1>6. DispOK'
    <2>1. asks' \in Seq(Disp!Ask)
      BY <1>1, <1>2, <1>4
    <2>. QED
      BY <1>1, <2>1 DEF DispInv, DispOK
  <1>7. AcceptedOK'
    BY <1>1, <1>3, <1>5 DEF DispInv, AcceptedOK, Disp!Accepted
  <1>8. ShownOK'
    BY <1>1, <1>3, <1>5 DEF DispInv, ShownOK, AskedFor, AsCreated
  <1>9. \A g \in Findings : Disp!Open(g)' = IF g = f /\ Disp!Accepted(next) THEN Disp!Open(g) \cup {Len(asks) + 1} ELSE Disp!Open(g)
    BY <1>3, <1>5 DEF Disp!Open, Disp!InFlight
  <1>10. TellsOK'
    <2>1. ASSUME NEW g \in Findings \ mixed'
          PROVE  Tells(g)'
      <3>1. Tells(g)
        BY <1>1, <2>1 DEF DispInv, TellsOK
      <3>2. \A n \in Disp!Open(g) : n \in DOMAIN asks
        BY DEF Disp!Open
      <3>3. CASE g = f /\ Disp!Accepted(next)
        <4>1. Disp!Open(g) = {} /\ Disp!Open(g)' = {Len(asks) + 1}
          BY <1>1, <1>9, <2>1, <3>3
        <4>. QED
          BY <1>1, <1>3, <1>5, <3>1, <3>3, <4>1 DEF Tells
      <3>4. CASE ~(g = f /\ Disp!Accepted(next))
        <4>1. Disp!Open(g)' = Disp!Open(g)
          BY <1>9, <2>1, <3>4
        <4>. QED
          BY <1>1, <1>5, <3>1, <3>2, <4>1 DEF Tells
      <3>. QED
        BY <3>3, <3>4
    <2>. QED
      BY <2>1 DEF TellsOK
  <1>. QED
    BY <1>6, <1>7, <1>8, <1>10 DEF DispInv

\* A request n moves to another phase: what it has been told and has read stays.
LEMMA AskMoves ==
  ASSUME DispInv, NEW n \in DOMAIN asks, NEW p \in {"audit", "done", "lost"}, Disp!InFlight(n),
         asks' = [asks EXCEPT ![n].phase = p]
  PROVE  /\ asks' \in Seq(Disp!Ask) /\ DOMAIN asks' = DOMAIN asks
         /\ \A m \in DOMAIN asks : /\ asks'[m].of = asks[m].of /\ asks'[m].next = asks[m].next /\ asks'[m].read = asks[m].read
                                   /\ asks'[m].phase = IF m = n THEN p ELSE asks[m].phase
         /\ UNCHANGED tenantIssues => AcceptedOK'
         /\ \A f \in Findings : UNCHANGED finding => (AskedFor(f) => AskedFor(f)')
         /\ \A f \in Findings : Disp!Open(f)' = IF p = "audit" THEN Disp!Open(f) ELSE Disp!Open(f) \ {n}
  <1>1. asks \in Seq(Disp!Ask) /\ asks[n] \in Disp!Ask
    BY DEF DispInv, DispOK
  <1>2. DOMAIN asks' = DOMAIN asks /\ asks' \in Seq(Disp!Ask)
    BY <1>1 DEF Disp!Ask
  <1>3. \A m \in DOMAIN asks : /\ asks'[m].of = asks[m].of /\ asks'[m].next = asks[m].next /\ asks'[m].read = asks[m].read
                               /\ asks'[m].phase = IF m = n THEN p ELSE asks[m].phase
    BY <1>1 DEF Disp!Ask
  <1>4. UNCHANGED tenantIssues => AcceptedOK'
    BY <1>2, <1>3 DEF DispInv, AcceptedOK, Disp!Accepted, Disp!InFlight
  <1>5. \A f \in Findings : UNCHANGED finding => (AskedFor(f) => AskedFor(f)')
    BY <1>2, <1>3 DEF AskedFor
  <1>6. \A f \in Findings : Disp!Open(f)' = IF p = "audit" THEN Disp!Open(f) ELSE Disp!Open(f) \ {n}
    BY <1>2, <1>3 DEF Disp!Open, Disp!InFlight
  <1>. QED
    BY <1>2, <1>3, <1>4, <1>5, <1>6

LEMMA SetStep == ASSUME DispInv, NEW n \in DOMAIN asks, Disp!SetAiFindingDisposition(n) PROVE DispInv'
  <1> DEFINE g == asks[n].of
  <1>1. /\ asks[n].phase = "set" /\ asks' = [asks EXCEPT ![n].phase = "audit"] /\ Disp!InFlight(n)
        /\ UNCHANGED <<tenantIssues, marks, mishaps, mixed>>
        /\ finding' = [finding EXCEPT ![g] = asks[n].next]
    BY DEF Disp!SetAiFindingDisposition, Disp!Dispose, Disp!InFlight
  <1>2. asks[n] \in Disp!Ask /\ g \in Findings /\ asks[n].next \in Disp!Standing /\ n \in Disp!Open(g)
    BY <1>1, AskIs DEF Disp!Open
  <1>3. /\ asks' \in Seq(Disp!Ask) /\ DOMAIN asks' = DOMAIN asks
        /\ \A m \in DOMAIN asks : /\ asks'[m].of = asks[m].of /\ asks'[m].next = asks[m].next /\ asks'[m].read = asks[m].read
                                  /\ asks'[m].phase = IF m = n THEN "audit" ELSE asks[m].phase
        /\ AcceptedOK'
        /\ \A f \in Findings : Disp!Open(f)' = Disp!Open(f)
    BY <1>1, AskMoves
  <1>4. \A f \in Findings : finding'[f] = IF f = g THEN asks[n].next ELSE finding[f]
    BY <1>1, <1>2 DEF DispInv, DispOK
  <1>5. DispOK'
    BY <1>1, <1>2, <1>3 DEF DispInv, DispOK
  <1>6. ShownOK'
    <2>1. ASSUME NEW f \in Findings, f = g PROVE AskedFor(f)'
      BY <1>2, <1>3, <1>4, <2>1 DEF AskedFor
    <2>2. ASSUME NEW f \in Findings, f # g PROVE AskedFor(f)' \/ AsCreated(f)'
      BY <1>1, <1>3, <1>4, <2>2 DEF DispInv, ShownOK, AskedFor, AsCreated
    <2>. QED
      BY <2>1, <2>2 DEF ShownOK
  <1>7. TellsOK'
    <2>1. ASSUME NEW f \in Findings \ mixed PROVE Tells(f)'
      <3>1. Tells(f) /\ \A m \in Disp!Open(f) : m \in DOMAIN asks /\ asks[m].of = f
        BY <2>1 DEF DispInv, TellsOK, Disp!Open
      <3>2. CASE f = g
        <4>1. \A m \in Disp!Open(f) : m = n
          BY <1>2, <3>1, <3>2 DEF Tells
        <4>. QED
          BY <1>1, <1>2, <1>3, <1>4, <3>1, <3>2, <4>1 DEF Tells
      <3>3. CASE f # g
        <4>1. \A m \in Disp!Open(f) : m # n
          BY <3>1, <3>3
        <4>. QED
          BY <1>1, <1>3, <1>4, <3>1, <3>3, <4>1 DEF Tells
      <3>. QED
        BY <3>2, <3>3
    <2>. QED
      BY <1>1, <2>1 DEF TellsOK
  <1>. QED
    BY <1>3, <1>5, <1>6, <1>7 DEF DispInv

LEMMA MarkTyped ==
  ASSUME DispInv, NEW n \in DOMAIN asks, Disp!Mark(n)
  PROVE  marks' \in [Findings -> Seq([before : Disp!Dispositions, after : Disp!Dispositions])]
  <1> DEFINE g == asks[n].of
             mark == [before |-> asks[n].read, after |-> asks[n].next.is]
             Tale == [before : Disp!Dispositions, after : Disp!Dispositions]
  <1>1. g \in Findings /\ mark \in Tale
    BY AskIs DEF Disp!Standing
  <1>2. marks \in [Findings -> Seq(Tale)] /\ marks' = [marks EXCEPT ![g] = Append(marks[g], mark)]
    BY DEF Disp!Mark, DispInv, DispOK
  <1> HIDE DEF Tale, mark, g
  <1>3. Append(marks[g], mark) \in Seq(Tale)
    BY <1>1, <1>2
  <1>4. marks' \in [Findings -> Seq(Tale)]
    BY <1>2, <1>3
  <1>. QED
    BY <1>4 DEF Tale

LEMMA MarkStep == ASSUME DispInv, NEW n \in DOMAIN asks, Disp!AppendAuditEvent(n) PROVE DispInv'
  <1> DEFINE g == asks[n].of
             mark == [before |-> asks[n].read, after |-> asks[n].next.is]
  <1>1. /\ asks[n].phase = "audit" /\ asks' = [asks EXCEPT ![n].phase = "done"] /\ Disp!InFlight(n)
        /\ UNCHANGED <<finding, tenantIssues, mishaps, mixed>>
        /\ marks' = [marks EXCEPT ![g] = Append(marks[g], mark)]
    BY DEF Disp!AppendAuditEvent, Disp!Mark, Disp!InFlight
  <1>2. asks[n] \in Disp!Ask /\ g \in Findings /\ n \in Disp!Open(g) /\ mark \in [before : Disp!Dispositions, after : Disp!Dispositions]
    BY <1>1, AskIs DEF Disp!Open, Disp!Standing
  <1>3. /\ asks' \in Seq(Disp!Ask) /\ DOMAIN asks' = DOMAIN asks
        /\ \A m \in DOMAIN asks : /\ asks'[m].of = asks[m].of /\ asks'[m].next = asks[m].next /\ asks'[m].read = asks[m].read
                                  /\ asks'[m].phase = IF m = n THEN "done" ELSE asks[m].phase
        /\ AcceptedOK'
        /\ \A f \in Findings : AskedFor(f) => AskedFor(f)'
        /\ \A f \in Findings : Disp!Open(f)' = Disp!Open(f) \ {n}
    BY <1>1, AskMoves
  <1>4. \A f \in Findings : /\ marks[f] \in Seq([before : Disp!Dispositions, after : Disp!Dispositions])
                            /\ marks'[f] = IF f = g THEN Append(marks[g], mark) ELSE marks[f]
    BY <1>1, <1>2 DEF DispInv, DispOK
  <1>5. DispOK'
    BY <1>1, <1>3, MarkTyped DEF Disp!AppendAuditEvent, DispInv, DispOK
  <1>6. ShownOK'
    <2>1. AskedFor(g)
      BY <1>1, <1>2 DEF DispInv, ShownOK, AsCreated
    <2>2. ASSUME NEW f \in Findings, f # g PROVE AskedFor(f)' \/ AsCreated(f)'
      BY <1>1, <1>3, <1>4, <2>2 DEF DispInv, ShownOK, AsCreated
    <2>. QED
      BY <1>2, <1>3, <2>1, <2>2 DEF ShownOK
  <1>7. mark.before = asks[n].read /\ mark.after = asks[n].next.is
    OBVIOUS
  <1> HIDE DEF mark
  <1>8. TellsOK'
    <2>1. ASSUME NEW f \in Findings \ mixed PROVE Tells(f)'
      <3>1. Tells(f) /\ \A m \in Disp!Open(f) : m \in DOMAIN asks /\ asks[m].of = f
        BY <2>1 DEF DispInv, TellsOK, Disp!Open
      <3>2. CASE f = g
        <4>1. Disp!Open(f)' = {}
          BY <1>2, <1>3, <3>1, <3>2 DEF Tells
        <4>2. /\ asks[n].next.is = finding[f].is
              /\ marks[f] # <<>> => asks[n].read = Disp!Last(marks[f]).after
          BY <1>1, <1>2, <3>1, <3>2 DEF Tells
        <4>0. /\ marks[f] \in Seq([before : Disp!Dispositions, after : Disp!Dispositions])
              /\ marks'[f] = Append(marks[f], mark)
          BY <1>4, <3>2
        <4>3. /\ Len(marks'[f]) = Len(marks[f]) + 1 /\ marks'[f] # <<>> /\ Len(marks[f]) \in Nat
              /\ \A i \in 1 .. Len(marks[f]) : marks'[f][i] = marks[f][i]
              /\ marks'[f][Len(marks[f]) + 1] = mark
              /\ Disp!Last(marks'[f]) = mark
              /\ Len(marks[f]) > 0 => marks[f] # <<>> /\ Disp!Last(marks[f]) = marks[f][Len(marks[f])]
          BY <1>2, <4>0 DEF Disp!Last
        <4>4. ASSUME NEW i \in 2 .. Len(marks'[f]) PROVE marks'[f][i].before = marks'[f][i - 1].after
          <5>1. CASE i <= Len(marks[f])
            <6>1. i \in 2 .. Len(marks[f]) /\ i - 1 \in 1 .. Len(marks[f]) /\ i \in 1 .. Len(marks[f])
              BY <4>3, <4>4, <5>1
            <6>2. marks[f][i].before = marks[f][i - 1].after
              BY <3>1, <6>1 DEF Tells
            <6>. QED
              BY <4>3, <6>1, <6>2
          <5>2. CASE i = Len(marks[f]) + 1
            <6>1. Len(marks[f]) > 0 /\ i - 1 = Len(marks[f]) /\ i - 1 \in 1 .. Len(marks[f])
              BY <4>3, <4>4, <5>2
            <6>2. marks'[f][i - 1] = Disp!Last(marks[f]) /\ marks'[f][i] = mark
              BY <4>3, <5>2, <6>1
            <6>. QED
              BY <1>7, <4>2, <4>3, <6>1, <6>2
          <5>. QED
            BY <4>3, <4>4, <5>1, <5>2
        <4>5. Disp!Last(marks'[f]).after = finding'[f].is
          BY <1>1, <1>7, <4>2, <4>3
        <4>. QED
          BY <1>1, <4>1, <4>4, <4>5 DEF Tells
      <3>3. CASE f # g
        <4>1. \A m \in Disp!Open(f) : m # n
          BY <3>1, <3>3
        <4>2. Disp!Open(f)' = Disp!Open(f)
          BY <1>3, <4>1
        <4>. QED
          BY <1>1, <1>3, <1>4, <3>1, <3>3, <4>1, <4>2 DEF Tells
      <3>. QED
        BY <3>2, <3>3
    <2>. QED
      BY <1>1, <2>1 DEF TellsOK
  <1>. QED
    BY <1>3, <1>5, <1>6, <1>8 DEF DispInv

LEMMA BrokenStep == ASSUME Disp!DispositionAssumption, DispInv, NEW n \in DOMAIN asks, Disp!Fault(n) PROVE DispInv'
  <1> DEFINE g == asks[n].of
  <1>1. /\ asks' = [asks EXCEPT ![n].phase = "lost"] /\ Disp!InFlight(n)
        /\ UNCHANGED tenantIssues /\ mishaps' \in Nat /\ mixed' = mixed \cup {g}
        /\ \/ UNCHANGED <<finding, marks>>
           \/ Disp!Dispose(n) /\ UNCHANGED marks
           \/ Disp!Mark(n) /\ asks[n].phase = "audit" /\ UNCHANGED finding
    BY DEF Disp!Fault, Disp!InFlight, DispInv, DispOK
  <1>2. asks[n] \in Disp!Ask /\ g \in Findings /\ asks[n].next \in Disp!Standing
    BY <1>1, AskIs
  <1>3. /\ asks' \in Seq(Disp!Ask) /\ DOMAIN asks' = DOMAIN asks
        /\ \A m \in DOMAIN asks : /\ asks'[m].of = asks[m].of /\ asks'[m].next = asks[m].next /\ asks'[m].read = asks[m].read
                                  /\ asks'[m].phase = IF m = n THEN "lost" ELSE asks[m].phase
        /\ AcceptedOK'
        /\ \A f \in Findings : Disp!Open(f)' = Disp!Open(f) \ {n}
    BY <1>1, AskMoves
  <1>4. \A f \in Findings : f # g => finding'[f] = finding[f] /\ marks'[f] = marks[f]
    BY <1>1, <1>2 DEF DispInv, DispOK, Disp!Dispose, Disp!Mark
  <1>5. DispOK'
    <2>1. finding' \in [Findings -> Disp!Standing]
      BY <1>1, <1>2 DEF DispInv, DispOK, Disp!Dispose
    <2>2. marks' \in [Findings -> Seq([before : Disp!Dispositions, after : Disp!Dispositions])]
      BY <1>1, MarkTyped DEF DispInv, DispOK
    <2>. QED
      BY <1>1, <1>2, <1>3, <2>1, <2>2 DEF DispInv, DispOK
  <1>6. ShownOK'
    <2>1. ASSUME NEW f \in Findings, f = g PROVE AskedFor(f)' \/ AsCreated(f)'
      <3>1. CASE UNCHANGED <<finding, marks>>
        BY <1>1, <1>2, <1>3, <2>1, <3>1 DEF DispInv, ShownOK, AskedFor, AsCreated
      <3>2. CASE Disp!Dispose(n)
        <4>1. finding'[f] = asks[n].next
          BY <1>2, <2>1, <3>2 DEF DispInv, DispOK, Disp!Dispose
        <4>. QED
          BY <1>3, <2>1, <4>1 DEF AskedFor
      <3>3. CASE asks[n].phase = "audit" /\ UNCHANGED finding
        BY <1>1, <1>2, <1>3, <2>1, <3>3 DEF DispInv, ShownOK, AskedFor, AsCreated
      <3>. QED
        BY <1>1, <3>1, <3>2, <3>3
    <2>2. ASSUME NEW f \in Findings, f # g PROVE AskedFor(f)' \/ AsCreated(f)'
      BY <1>1, <1>3, <1>4, <2>2 DEF DispInv, ShownOK, AskedFor, AsCreated
    <2>. QED
      BY <2>1, <2>2 DEF ShownOK
  <1>7. TellsOK'
    <2>1. ASSUME NEW f \in Findings \ mixed' PROVE Tells(f)'
      <3>1. f # g /\ Tells(f) /\ \A m \in Disp!Open(f) : m \in DOMAIN asks /\ asks[m].of = f
        BY <1>1, <2>1 DEF DispInv, TellsOK, Disp!Open
      <3>2. Disp!Open(f)' = Disp!Open(f) /\ \A m \in Disp!Open(f) : m # n
        BY <1>3, <2>1, <3>1
      <3>. QED
        BY <1>1, <1>3, <1>4, <2>1, <3>1, <3>2 DEF Tells
    <2>. QED
      BY <2>1 DEF TellsOK
  <1>. QED
    BY <1>3, <1>5, <1>6, <1>7 DEF DispInv

LEMMA AgainStep == ASSUME DispInv, Disp!Restart PROVE DispInv'
  <1>1. /\ asks' = [n \in DOMAIN asks |-> IF Disp!InFlight(n) THEN [asks[n] EXCEPT !.phase = "lost"] ELSE asks[n]]
        /\ mixed' = mixed \cup {f \in Findings : Disp!Open(f) # {}}
        /\ mishaps' \in Nat /\ UNCHANGED <<finding, tenantIssues, marks>>
    BY DEF Disp!Restart, DispInv, DispOK
  <1>2. asks \in Seq(Disp!Ask) /\ \A n \in DOMAIN asks : asks[n] \in Disp!Ask
    BY DEF DispInv, DispOK
  <1>3. DOMAIN asks' = DOMAIN asks /\ \A n \in DOMAIN asks : asks'[n] \in Disp!Ask
    BY <1>1, <1>2 DEF Disp!Ask
  <1>4. asks' \in Seq(Disp!Ask)
    BY <1>2, <1>3, <1>1
  <1>5. \A m \in DOMAIN asks : /\ asks'[m].of = asks[m].of /\ asks'[m].next = asks[m].next /\ asks'[m].read = asks[m].read
                               /\ asks'[m].phase = IF Disp!InFlight(m) THEN "lost" ELSE asks[m].phase
    BY <1>1, <1>2 DEF Disp!Ask
  <1>6. DispOK'
    BY <1>1, <1>4 DEF DispInv, DispOK
  <1>7. AcceptedOK'
    BY <1>1, <1>3, <1>5 DEF DispInv, AcceptedOK, Disp!Accepted, Disp!InFlight
  <1>8. ShownOK'
    BY <1>1, <1>3, <1>5 DEF DispInv, ShownOK, AskedFor, AsCreated, Disp!InFlight
  <1>9. TellsOK'
    <2>1. ASSUME NEW f \in Findings \ mixed' PROVE Tells(f)'
      <3>1. Tells(f) /\ Disp!Open(f) = {}
        BY <1>1, <2>1 DEF DispInv, TellsOK
      <3>2. Disp!Open(f)' = {}
        BY <1>3, <1>5, <3>1 DEF Disp!Open, Disp!InFlight
      <3>. QED
        BY <1>1, <3>1, <3>2 DEF Tells
    <2>. QED
      BY <2>1 DEF TellsOK
  <1>. QED
    BY <1>6, <1>7, <1>8, <1>9 DEF DispInv

LEMMA DispStep == ASSUME Disp!DispositionAssumption, DispInv, [Disp!Next]_Disp!vars PROVE DispInv'
  <1>1. CASE UNCHANGED Disp!vars
    <2>1. UNCHANGED <<finding, tenantIssues, marks, asks, mishaps, mixed>>
      BY <1>1 DEF Disp!vars
    <2>2. DispOK'
      BY <2>1 DEF DispInv, DispOK
    <2>3. AcceptedOK' /\ ShownOK'
      BY <2>1 DEF DispInv, AcceptedOK, Disp!Accepted, ShownOK, AskedFor, AsCreated
    <2>4. \A f \in Findings : Disp!Open(f)' = Disp!Open(f)
      BY <2>1 DEF Disp!Open, Disp!InFlight
    <2>5. TellsOK'
      BY <2>1, <2>4 DEF DispInv, TellsOK, Tells
    <2>. QED
      BY <2>2, <2>3, <2>5 DEF DispInv
  <1>2. ASSUME NEW f \in Findings, NEW next \in Nexts, Disp!Read(f, next) PROVE DispInv'
    BY <1>2, ReadStep
  <1>3. ASSUME NEW n \in DOMAIN asks, Disp!SetAiFindingDisposition(n) \/ Disp!AppendAuditEvent(n) \/ Disp!Fault(n) PROVE DispInv'
    BY <1>3, SetStep, MarkStep, BrokenStep
  <1>4. CASE Disp!Restart
    BY <1>4, AgainStep
  <1>. QED
    BY <1>1, <1>2, <1>3, <1>4 DEF Disp!Next

\* What the invariant says of a finding is what is promised of it.
LEMMA DispTold ==
  ASSUME DispInv PROVE Disp!DispositionIsOfOneRequest /\ Disp!TrailOfFinding
  <1>1. Disp!DispositionIsOfOneRequest
    BY DEF DispInv, AcceptedOK, Disp!Accepted, ShownOK, AskedFor, AsCreated, Disp!DispositionIsOfOneRequest
  <1>2. Disp!TrailOfFinding
    <2>1. ASSUME NEW f \in Findings \ mixed, marks[f] # <<>>
          PROVE  \/ Disp!Last(marks[f]).after = finding[f].is
                 \/ \E n \in Disp!Open(f) : asks[n].phase = "audit" /\ asks[n].read = Disp!Last(marks[f]).after
      <3>1. Tells(f) /\ \A n \in Disp!Open(f) : asks[n].phase \in {"set", "audit"}
        BY <2>1 DEF DispInv, TellsOK, Disp!Open, Disp!InFlight
      <3>. QED
        BY <2>1, <3>1 DEF Tells
    <2>. QED
      BY <2>1 DEF DispInv, TellsOK, Tells, Disp!TrailOfFinding
  <1>. QED
    BY <1>1, <1>2

-----------------------------------------------------------------------------
(* Places in a list. *)

\* x comes before y.
Ahead(s, x, y) == \E i, j \in DOMAIN s : i < j /\ s[i] = x /\ s[j] = y

\* The place of x in the list L that s gives the order of, from 0.
PlaceIn(s, L, x) == Cardinality(List!Before(s, L, x))

LEMMA ListCount == \A S : List!Cardinality(S) = Cardinality(S)
  BY DEF List!Cardinality, Cardinality

\* A list and the order of its members.
Ordered(s, L) ==
  /\ IsFiniteSet(L)
  /\ \A x, y \in L : x # y => Ahead(s, x, y) \/ Ahead(s, y, x)
  /\ \A x, y \in L : ~(Ahead(s, x, y) /\ Ahead(s, y, x))
  /\ \A x, y, z \in L : Ahead(s, x, y) /\ Ahead(s, y, z) => Ahead(s, x, z)

LEMMA OrderedList ==
  ASSUME NEW S, NEW s \in Seq(S), List!IsInjective(s), NEW L \in SUBSET List!ToSet(s)
  PROVE  Ordered(s, L)
  <1>1. Len(s) \in Nat /\ DOMAIN s = 1 .. Len(s) /\ \A x \in L : \E i \in 1 .. Len(s) : s[i] = x
    BY DEF List!ToSet
  <1>2. IsFiniteSet(List!ToSet(s))
    <2>1. s \in [1 .. Len(s) -> List!ToSet(s)] /\ \A x \in List!ToSet(s) : \E i \in 1 .. Len(s) : s[i] = x
      BY <1>1 DEF List!ToSet
    <2>2. s \in Surjection(1 .. Len(s), List!ToSet(s))
      BY <2>1, Fun_IsSurj
    <2>3. IsFiniteSet(1 .. Len(s))
      BY <1>1, FS_Interval
    <2>. QED
      BY <2>2, <2>3, FS_Surjection
  <1>3. IsFiniteSet(L)
    BY <1>2, FS_Subset
  <1>4. \A i, j \in 1 .. Len(s) : s[i] = s[j] => i = j
    BY <1>1 DEF List!IsInjective
  <1>5. ASSUME NEW x \in L, NEW y \in L, x # y PROVE Ahead(s, x, y) \/ Ahead(s, y, x)
    <2>1. PICK i \in 1 .. Len(s), j \in 1 .. Len(s) : s[i] = x /\ s[j] = y
      BY <1>1
    <2>2. i < j \/ j < i
      BY <1>5, <2>1
    <2>. QED
      BY <1>1, <2>1, <2>2 DEF Ahead
  <1>6. ASSUME NEW x \in L, NEW y \in L, Ahead(s, x, y), Ahead(s, y, x) PROVE FALSE
    BY <1>1, <1>4, <1>6 DEF Ahead
  <1>7. ASSUME NEW x \in L, NEW y \in L, NEW z \in L, Ahead(s, x, y), Ahead(s, y, z) PROVE Ahead(s, x, z)
    <2>1. PICK i \in 1 .. Len(s), j \in 1 .. Len(s) : i < j /\ s[i] = x /\ s[j] = y
      BY <1>1, <1>7 DEF Ahead
    <2>2. PICK k \in 1 .. Len(s), l \in 1 .. Len(s) : k < l /\ s[k] = y /\ s[l] = z
      BY <1>1, <1>7 DEF Ahead
    <2>3. j = k
      BY <1>4, <2>1, <2>2
    <2>. QED
      BY <1>1, <2>1, <2>2, <2>3 DEF Ahead
  <1>. QED
    BY <1>3, <1>5, <1>6, <1>7 DEF Ordered

LEMMA BeforeIs == \A s, L, x, q : q \in List!Before(s, L, x) <=> q \in L /\ Ahead(s, q, x)
  BY DEF List!Before, Ahead

LEMMA PlaceIs ==
  ASSUME NEW s, NEW L, Ordered(s, L), NEW x \in L
  PROVE  /\ IsFiniteSet(List!Before(s, L, x))
         /\ PlaceIn(s, L, x) \in Nat
         /\ Cardinality(L) \in Nat
         /\ PlaceIn(s, L, x) < Cardinality(L)
  <1>1. List!Before(s, L, x) \in SUBSET L /\ x \notin List!Before(s, L, x)
    BY BeforeIs DEF Ordered
  <1>2. IsFiniteSet(L)
    BY DEF Ordered
  <1>3. IsFiniteSet(List!Before(s, L, x)) /\ PlaceIn(s, L, x) <= Cardinality(L) /\ PlaceIn(s, L, x) # Cardinality(L)
    BY <1>1, <1>2, FS_Subset DEF PlaceIn
  <1>4. PlaceIn(s, L, x) \in Nat /\ Cardinality(L) \in Nat
    BY <1>2, <1>3, FS_CardinalityType DEF PlaceIn
  <1>. QED
    BY <1>3, <1>4

LEMMA PlaceGrows ==
  ASSUME NEW s, NEW L, Ordered(s, L), NEW x \in L, NEW y \in L, Ahead(s, x, y)
  PROVE  PlaceIn(s, L, x) < PlaceIn(s, L, y)
  <1>1. /\ List!Before(s, L, x) \in SUBSET List!Before(s, L, y)
        /\ x \in List!Before(s, L, y) /\ x \notin List!Before(s, L, x)
    BY BeforeIs DEF Ordered
  <1>2. IsFiniteSet(List!Before(s, L, y))
    BY PlaceIs
  <1>3. PlaceIn(s, L, x) <= PlaceIn(s, L, y) /\ PlaceIn(s, L, x) # PlaceIn(s, L, y)
    BY <1>1, <1>2, FS_Subset DEF PlaceIn
  <1>. QED
    BY <1>3, PlaceIs

\* No two reports have one place.
LEMMA PlaceIsOne ==
  ASSUME NEW s, NEW L, Ordered(s, L), NEW x \in L, NEW y \in L, PlaceIn(s, L, x) = PlaceIn(s, L, y)
  PROVE  x = y
  <1>1. PlaceIn(s, L, x) \in Nat /\ PlaceIn(s, L, y) \in Nat
    BY PlaceIs
  <1>2. ASSUME x # y PROVE FALSE
    <2>1. Ahead(s, x, y) \/ Ahead(s, y, x)
      BY <1>2 DEF Ordered
    <2>. QED
      BY <1>1, <2>1, PlaceGrows
  <1>. QED
    BY <1>2

\* A set that has at most one member more.
LEMMA OneMore ==
  ASSUME NEW S, IsFiniteSet(S), NEW T, \A x, y \in T : x \notin S /\ y \notin S => x = y
  PROVE  IsFiniteSet(T) /\ Cardinality(T) \in Nat /\ Cardinality(S) \in Nat /\ Cardinality(T) <= Cardinality(S) + 1
  <1>1. PICK z : T \in SUBSET (S \cup {z})
    OBVIOUS
  <1>2. IsFiniteSet(S \cup {z}) /\ Cardinality(S \cup {z}) <= Cardinality(S) + 1 /\ Cardinality(S) \in Nat
    BY FS_AddElement, FS_CardinalityType
  <1>3. IsFiniteSet(T) /\ Cardinality(T) <= Cardinality(S \cup {z})
    BY <1>1, <1>2, FS_Subset
  <1>4. Cardinality(T) \in Nat /\ Cardinality(S \cup {z}) \in Nat
    BY <1>2, <1>3, FS_CardinalityType
  <1>. QED
    BY <1>2, <1>3, <1>4

\* Two orders of a list, but for r.
SameOrder(s, t, L, r) == \A x, y \in L \ {r} : Ahead(s, x, y) <=> Ahead(t, x, y)

\* When r moves, enters or leaves, it is the only one that others pass by.
LEMMA PlaceShifts ==
  ASSUME NEW s, NEW t, NEW L, NEW M, NEW r, NEW x,
         Ordered(s, L), Ordered(t, M), L \ {r} = M \ {r}, SameOrder(s, t, L, r),
         x \in L, x # r
  PROVE  /\ x \in M
         /\ \E c \in Nat : /\ PlaceIn(s, L, x) = IF r \in L /\ Ahead(s, r, x) THEN c + 1 ELSE c
                           /\ PlaceIn(t, M, x) = IF r \in M /\ Ahead(t, r, x) THEN c + 1 ELSE c
  <1> DEFINE B == List!Before(s, L, x) \ {r}
  <1>1. x \in M
    OBVIOUS
  <1>2. B = List!Before(t, M, x) \ {r}
    <2>1. ASSUME NEW q, q # r PROVE q \in List!Before(s, L, x) <=> q \in List!Before(t, M, x)
      <3>1. q \in L <=> q \in M
        BY <2>1
      <3>2. q \in L => (Ahead(s, q, x) <=> Ahead(t, q, x))
        BY <2>1 DEF SameOrder
      <3>. QED
        BY <3>1, <3>2, BeforeIs
    <2>. QED
      BY <2>1
  <1>3. IsFiniteSet(List!Before(s, L, x)) /\ IsFiniteSet(List!Before(t, M, x))
    BY <1>1, PlaceIs
  <1>4. PICK c : c = Cardinality(B)
    OBVIOUS
  <1>5. IsFiniteSet(B) /\ c \in Nat
    BY <1>3, <1>4, FS_RemoveElement, FS_CardinalityType
  <1> HIDE DEF B
  <1>6. PlaceIn(s, L, x) = IF r \in List!Before(s, L, x) THEN c + 1 ELSE c
    <2>1. List!Before(s, L, x) = (IF r \in List!Before(s, L, x) THEN B \cup {r} ELSE B) /\ r \notin B
      BY DEF B
    <2>2. Cardinality(B \cup {r}) = c + 1
      BY <1>4, <1>5, <2>1, FS_AddElement
    <2>. QED
      BY <1>4, <2>1, <2>2 DEF PlaceIn
  <1>7. PlaceIn(t, M, x) = IF r \in List!Before(t, M, x) THEN c + 1 ELSE c
    <2>1. List!Before(t, M, x) = (IF r \in List!Before(t, M, x) THEN B \cup {r} ELSE B) /\ r \notin B
      BY <1>2 DEF B
    <2>2. Cardinality(B \cup {r}) = c + 1
      BY <1>4, <1>5, <2>1, FS_AddElement
    <2>. QED
      BY <1>4, <2>1, <2>2 DEF PlaceIn
  <1>. QED
    BY <1>1, <1>5, <1>6, <1>7, BeforeIs

\* So at most one other falls back behind an offset, ...
LEMMA MissesOne ==
  ASSUME NEW s, NEW t, NEW L, NEW M, NEW r, NEW off \in Nat, NEW U, NEW V,
         Ordered(s, L), Ordered(t, M), L \ {r} = M \ {r}, SameOrder(s, t, L, r),
         U \subseteq L, V \subseteq M, r \notin V, \A x \in V : PlaceIn(t, M, x) < off,
         \A x \in V : PlaceIn(s, L, x) < off => x \in U
  PROVE  IsFiniteSet(V) /\ Cardinality(V) \in Nat /\ Cardinality(U) \in Nat /\ Cardinality(V) <= Cardinality(U) + 1
  <1>1. ASSUME NEW x \in V, x \notin U PROVE x \in L /\ PlaceIn(s, L, x) = off
    <2>1. x \in L /\ x # r /\ PlaceIn(t, M, x) < off /\ ~(PlaceIn(s, L, x) < off)
      BY <1>1
    <2>2. PICK c \in Nat : /\ PlaceIn(s, L, x) = IF r \in L /\ Ahead(s, r, x) THEN c + 1 ELSE c
                           /\ PlaceIn(t, M, x) = IF r \in M /\ Ahead(t, r, x) THEN c + 1 ELSE c
      BY <2>1, PlaceShifts
    <2>. QED
      BY <2>1, <2>2
  <1>2. \A x, y \in V : x \notin U /\ y \notin U => x = y
    BY <1>1, PlaceIsOne
  <1>3. IsFiniteSet(U)
    BY FS_Subset DEF Ordered
  <1>. QED
    BY <1>2, <1>3, OneMore

\* ... and at most one comes forward of it, r among them.
LEMMA RepeatsOne ==
  ASSUME NEW s, NEW t, NEW L, NEW M, NEW r, NEW off \in Nat, NEW U, NEW V,
         Ordered(s, L), Ordered(t, M), L \ {r} = M \ {r}, SameOrder(s, t, L, r),
         U \subseteq L, V \subseteq M, \A x \in V : PlaceIn(t, M, x) >= off,
         \A x \in V : x \in L /\ PlaceIn(s, L, x) >= off => x \in U
  PROVE  IsFiniteSet(V) /\ Cardinality(V) \in Nat /\ Cardinality(U) \in Nat /\ Cardinality(V) <= Cardinality(U) + 1
  <1>1. ASSUME NEW x \in V, x \notin U, x # r
        PROVE  PlaceIn(t, M, x) = off /\ r \in M /\ Ahead(t, r, x)
    <2>1. x \in L /\ PlaceIn(t, M, x) >= off /\ ~(PlaceIn(s, L, x) >= off)
      BY <1>1
    <2>2. PICK c \in Nat : /\ PlaceIn(s, L, x) = IF r \in L /\ Ahead(s, r, x) THEN c + 1 ELSE c
                           /\ PlaceIn(t, M, x) = IF r \in M /\ Ahead(t, r, x) THEN c + 1 ELSE c
      BY <1>1, <2>1, PlaceShifts
    <2>3. PlaceIn(t, M, x) = c + 1 /\ c + 1 = off
      BY <2>1, <2>2
    <2>. QED
      BY <2>2, <2>3
  <1>2. ASSUME NEW x \in V, NEW y \in V, x \notin U, y \notin U PROVE x = y
    <2>1. CASE x # r /\ y # r
      <3>1. PlaceIn(t, M, x) = PlaceIn(t, M, y)
        BY <1>1, <1>2, <2>1
      <3>. QED
        BY <3>1, PlaceIsOne
    <2>2. ASSUME NEW z \in V, z \notin U, z # r, r \in V PROVE FALSE
      <3>1. PlaceIn(t, M, z) = off /\ Ahead(t, r, z) /\ r \in M /\ z \in M
        BY <1>1, <2>2
      <3>2. PlaceIn(t, M, r) < PlaceIn(t, M, z)
        BY <3>1, PlaceGrows
      <3>3. PlaceIn(t, M, r) \in Nat
        BY <3>1, PlaceIs
      <3>. QED
        BY <2>2, <3>1, <3>2, <3>3
    <2>. QED
      BY <1>2, <2>1, <2>2
  <1>3. IsFiniteSet(U)
    BY FS_Subset DEF Ordered
  <1>. QED
    BY <1>2, <1>3, OneMore

-----------------------------------------------------------------------------
(* The pages of a list. *)

ListInv == List!TypeOK /\ shifts <= saves

LEMMA ListInit == ASSUME List!ListingAssumption, List!Init PROVE ListInv
  <1>1. order = <<>> /\ List!ToSet(order) = {} /\ List!IsInjective(order)
    BY DEF List!Init, List!ToSet, List!IsInjective
  <1>2. walk \in List!Walk
    BY DEF List!Init, List!Walk
  <1>. QED
    BY <1>1, <1>2 DEF List!Init, ListInv, List!TypeOK, List!ListingAssumption

\* A report that is taken from its place and put behind the others.
LEMMA MovedBehind ==
  ASSUME NEW S, NEW s \in Seq(S), List!IsInjective(s), NEW r \in S, r \in List!ToSet(s)
  PROVE  LET t == Append(List!RemoveFirst(s, r), r)
         IN /\ t \in Seq(S) /\ List!IsInjective(t) /\ List!ToSet(t) = List!ToSet(s)
            /\ SameOrder(s, t, List!ToSet(s), r)
  <1> DEFINE I == {i \in 1 .. Len(s) : s[i] = r}
  <1>1. PICK k \in 1 .. Len(s) : s[k] = r
    BY DEF List!ToSet
  <1>2. I = {k}
    BY <1>1 DEF List!IsInjective
  <1>3. List!Min(I) = k
    <2>1. k <= k
      BY <1>1
    <2>. QED
      BY <1>2, <2>1 DEF List!Min
  <1>4. List!SelectInSeq(s, LAMBDA v : v = r) = k
    BY <1>2, <1>3 DEF List!SelectInSeq
  <1>5. List!RemoveFirst(s, r) = SubSeq(s, 1, k - 1) \o SubSeq(s, k + 1, Len(s))
    BY <1>1, <1>4 DEF List!RemoveFirst, List!RemoveAt
  <1> DEFINE rest == SubSeq(s, 1, k - 1) \o SubSeq(s, k + 1, Len(s))
             t == Append(rest, r)
  <1>6. /\ rest \in Seq(S) /\ Len(rest) = Len(s) - 1 /\ Len(s) \in Nat /\ Len(s) > 0
        /\ \A i \in 1 .. Len(s) - 1 : rest[i] = IF i < k THEN s[i] ELSE s[i + 1]
    <2> DEFINE before == SubSeq(s, 1, k - 1)
               behind == SubSeq(s, k + 1, Len(s))
    <2>1. before \in Seq(S) /\ Len(before) = k - 1 /\ \A i \in 1 .. k - 1 : before[i] = s[i]
      BY <1>1
    <2>2. behind \in Seq(S) /\ Len(behind) = Len(s) - k /\ \A i \in 1 .. Len(s) - k : behind[i] = s[k + i]
      BY <1>1
    <2>3. k \in Nat /\ k > 0 /\ k <= Len(s) /\ Len(s) \in Nat
      BY <1>1
    <2> HIDE DEF before, behind
    <2>4. before \o behind \in Seq(S) /\ Len(before \o behind) = Len(s) - 1
      <3>1. before \o behind \in Seq(S) /\ Len(before \o behind) = Len(before) + Len(behind)
        BY <2>1, <2>2, ConcatProperties
      <3>. QED
        BY <2>1, <2>2, <2>3, <3>1
    <2>6. rest = before \o behind
      BY DEF before, behind
    <2>5. ASSUME NEW i \in 1 .. Len(s) - 1 PROVE (before \o behind)[i] = IF i < k THEN s[i] ELSE s[i + 1]
      <3>1. CASE i < k
        BY <2>1, <2>2, <2>3, <3>1
      <3>2. CASE ~(i < k)
        <4>1. (before \o behind)[i] = behind[i - (k - 1)]
          BY <2>1, <2>2, <2>3, <3>2
        <4>2. i - (k - 1) \in 1 .. Len(s) - k /\ k + (i - (k - 1)) = i + 1
          BY <2>3, <3>2
        <4>. QED
          BY <2>2, <3>2, <4>1, <4>2
      <3>. QED
        BY <3>1, <3>2
    <2>. QED
      <3> HIDE DEF rest
      <3>1. Len(s) > 0
        BY <2>3
      <3>. QED
        BY <2>3, <2>4, <2>5, <2>6, <3>1
  <1> HIDE DEF rest
  <1>7. /\ t \in Seq(S) /\ Len(t) = Len(s)
        /\ \A i \in 1 .. Len(s) - 1 : t[i] = IF i < k THEN s[i] ELSE s[i + 1]
        /\ t[Len(s)] = s[k]
    BY <1>1, <1>6
  <1> HIDE DEF t
  <1>8. List!IsInjective(t)
    <2> DEFINE was(i) == IF i < k THEN i ELSE IF i < Len(s) THEN i + 1 ELSE k
    <2>1. \A i \in 1 .. Len(s) : was(i) \in 1 .. Len(s) /\ t[i] = s[was(i)]
      BY <1>1, <1>6, <1>7
    <2>2. \A i, j \in 1 .. Len(s) : was(i) = was(j) => i = j
      BY <1>1, <1>6
    <2>3. DOMAIN t = 1 .. Len(s) /\ DOMAIN s = 1 .. Len(s)
      BY <1>7
    <2> HIDE DEF was
    <2>. QED
      BY <2>1, <2>2, <2>3 DEF List!IsInjective
  <1>9. List!ToSet(t) = List!ToSet(s)
    <2>1. ASSUME NEW i \in 1 .. Len(s) PROVE \E j \in 1 .. Len(s) : t[j] = s[i]
      <3>1. CASE i < k
        BY <1>1, <1>6, <1>7, <3>1
      <3>2. CASE i = k
        BY <1>1, <1>6, <1>7, <3>2
      <3>3. CASE i > k
        <4>1. i - 1 \in 1 .. Len(s) - 1 /\ ~(i - 1 < k) /\ i - 1 + 1 = i /\ i - 1 \in 1 .. Len(s)
          BY <1>1, <1>6, <3>3
        <4>2. t[i - 1] = s[i]
          BY <1>7, <4>1
        <4>. QED
          BY <4>1, <4>2
      <3>. QED
        BY <1>1, <3>1, <3>2, <3>3
    <2>2. ASSUME NEW i \in 1 .. Len(s) PROVE \E j \in 1 .. Len(s) : t[i] = s[j]
      BY <1>1, <1>6, <1>7
    <2>3. DOMAIN t = 1 .. Len(s) /\ DOMAIN s = 1 .. Len(s)
      BY <1>7
    <2>4. List!ToSet(t) \subseteq List!ToSet(s)
      <3>1. ASSUME NEW i \in DOMAIN t PROVE t[i] \in List!ToSet(s)
        <4>1. PICK j \in 1 .. Len(s) : t[i] = s[j]
          BY <2>2, <2>3
        <4>. QED
          BY <2>3, <4>1 DEF List!ToSet
      <3>. QED
        BY <3>1 DEF List!ToSet
    <2>5. List!ToSet(s) \subseteq List!ToSet(t)
      BY <2>1, <2>3 DEF List!ToSet
    <2>. QED
      BY <2>4, <2>5
  <1>10. SameOrder(s, t, List!ToSet(s), r)
    <2> DEFINE is(i) == IF i < k THEN i ELSE i - 1
    <2>1. \A i \in 1 .. Len(s) : i # k => is(i) \in 1 .. Len(s) /\ t[is(i)] = s[i]
      <3>1. ASSUME NEW i \in 1 .. Len(s), i # k PROVE is(i) \in 1 .. Len(s) - 1 /\ t[is(i)] = s[i]
        <4>1. CASE i < k
          BY <1>1, <1>6, <1>7, <4>1
        <4>2. CASE i > k
          <5>1. is(i) = i - 1 /\ i - 1 \in 1 .. Len(s) - 1 /\ ~(i - 1 < k) /\ i - 1 + 1 = i
            BY <1>1, <1>6, <4>2
          <5>2. t[i - 1] = s[i]
            BY <1>7, <5>1
          <5>. QED
            BY <5>1, <5>2
        <4>. QED
          BY <1>1, <3>1, <4>1, <4>2
      <3>. QED
        BY <1>6, <3>1
    <2>2. \A i, j \in 1 .. Len(s) : i # k /\ j # k /\ i < j => is(i) < is(j)
      BY <1>1, <1>6
    <2> DEFINE was(i) == IF i < k THEN i ELSE i + 1
    <2>3. \A i \in 1 .. Len(s) : t[i] # r => was(i) \in 1 .. Len(s) /\ s[was(i)] = t[i]
      BY <1>1, <1>6, <1>7
    <2>4. \A i, j \in 1 .. Len(s) : i < j => was(i) < was(j)
      BY <1>1, <1>6
    <2>5. DOMAIN t = 1 .. Len(s) /\ DOMAIN s = 1 .. Len(s)
      BY <1>7
    <2> HIDE DEF is, was
    <2>6. ASSUME NEW x, NEW y, x # r, y # r, Ahead(s, x, y) PROVE Ahead(t, x, y)
      <3>1. PICK i \in 1 .. Len(s), j \in 1 .. Len(s) : i < j /\ s[i] = x /\ s[j] = y
        BY <2>5, <2>6 DEF Ahead
      <3>2. i # k /\ j # k
        BY <1>1, <2>6, <3>1
      <3>. QED
        BY <2>1, <2>2, <2>5, <3>1, <3>2 DEF Ahead
    <2>7. ASSUME NEW x, NEW y, x # r, y # r, Ahead(t, x, y) PROVE Ahead(s, x, y)
      <3>1. PICK i \in 1 .. Len(s), j \in 1 .. Len(s) : i < j /\ t[i] = x /\ t[j] = y
        BY <2>5, <2>7 DEF Ahead
      <3>. QED
        BY <2>3, <2>4, <2>5, <2>7, <3>1 DEF Ahead
    <2>. QED
      BY <2>6, <2>7 DEF SameOrder
  <1>. QED
    BY <1>5, <1>7, <1>8, <1>9, <1>10 DEF t, rest

LEMMA ListStep == ASSUME List!ListingAssumption, ListInv, [List!Next]_List!vars PROVE ListInv'
  <1>0. /\ order \in Seq(Listed) /\ List!IsInjective(order) /\ List!ToSet(order) = {r \in Listed : status[r] # None}
        /\ status \in [Listed -> Statuses \cup {None}] /\ walk \in List!Walk
        /\ listed \in ListBackends /\ saves \in Nat /\ saves <= MaxSaves /\ shifts \in Nat /\ shifts <= saves
        /\ MaxSaves \in Nat /\ NewStatus \in Statuses /\ None \notin Statuses
    BY DEF ListInv, List!TypeOK, List!ListingAssumption
  <1>1. ASSUME NEW r \in Listed, List!Create(r) PROVE ListInv'
    <2>1. /\ status[r] = None /\ status' = [status EXCEPT ![r] = NewStatus] /\ order' = Append(order, r)
          /\ UNCHANGED <<listed, walk, shifts, saves>>
      BY <1>1 DEF List!Create
    <2>2. r \notin List!ToSet(order)
      BY <1>0, <2>1
    <2>3. /\ order' \in Seq(Listed) /\ Len(order) \in Nat /\ DOMAIN order = 1 .. Len(order)
          /\ DOMAIN order' = 1 .. Len(order) + 1 /\ order'[Len(order) + 1] = r
          /\ \A i \in 1 .. Len(order) : order'[i] = order[i]
      BY <1>0, <2>1
    <2>4. List!IsInjective(order') /\ List!ToSet(order') = List!ToSet(order) \cup {r}
      BY <1>0, <2>2, <2>3 DEF List!IsInjective, List!ToSet
    <2>5. {q \in Listed : status'[q] # None} = {q \in Listed : status[q] # None} \cup {r}
      BY <1>0, <2>1
    <2>. QED
      BY <1>0, <2>1, <2>3, <2>4, <2>5 DEF ListInv, List!TypeOK
  <1>2. ASSUME NEW r \in Listed, NEW next \in Statuses, List!Save(r, next) PROVE ListInv'
    <2>1. /\ status[r] # None /\ status' = [status EXCEPT ![r] = next]
          /\ saves' = saves + 1 /\ saves < MaxSaves /\ UNCHANGED listed
          /\ order' = order \/ order' = Append(List!RemoveFirst(order, r), r)
          /\ walk' = walk \/ walk' = [walk EXCEPT !.there = walk.there \ {r}]
          /\ shifts' = shifts \/ shifts' = shifts + 1
      BY <1>2 DEF List!Save
    <2>2. r \in List!ToSet(order)
      BY <1>0, <2>1
    <2>3. order' \in Seq(Listed) /\ List!IsInjective(order') /\ List!ToSet(order') = List!ToSet(order)
      <3>1. CASE order' = order
        BY <1>0, <3>1
      <3>2. CASE order' = Append(List!RemoveFirst(order, r), r)
        BY <1>0, <2>2, <3>2, MovedBehind
      <3>. QED
        BY <2>1, <3>1, <3>2
    <2>4. {q \in Listed : status'[q] # None} = {q \in Listed : status[q] # None}
      BY <1>0, <2>1
    <2>5. walk' \in List!Walk
      BY <1>0, <2>1 DEF List!Walk
    <2>6. saves' \in 0 .. MaxSaves /\ shifts' \in 0 .. MaxSaves /\ shifts' <= saves'
      BY <1>0, <2>1
    <2>7. status' \in [Listed -> Statuses \cup {None}]
      BY <1>0, <2>1
    <2>. QED
      BY <1>0, <2>1, <2>3, <2>4, <2>5, <2>6, <2>7 DEF ListInv, List!TypeOK
  <1>3. ASSUME NEW filter \in Statuses \cup {None}, NEW limit \in Limits, List!StartWalk(filter, limit) PROVE ListInv'
    <2>1. walk' \in List!Walk
      BY <1>3 DEF List!StartWalk, List!Walk
    <2>. QED
      BY <1>3, <2>1 DEF List!StartWalk, ListInv, List!TypeOK
  <1>4. ASSUME NEW page, List!Page(page) PROVE ListInv'
    <2> DEFINE list == {r \in List!ToSet(page) : List!Matches(r, walk.filter, status)}
               place(r) == List!Cardinality(List!Before(page, list, r))
               next == List!NextOffset(walk.limit, walk.offset)
               shown == {r \in list : walk.offset <= place(r) /\ place(r) < walk.offset + walk.limit}
    <2>1. walk' = [walk EXCEPT !.seen = [r \in Listed |-> IF r \in shown THEN walk.seen[r] + 1 ELSE walk.seen[r]],
                               !.phase = IF next < List!Cardinality(list) THEN "on" ELSE "over",
                               !.offset = next]
      BY <1>4 DEF List!Page
    <2>2. next \in Nat /\ walk.seen \in [Listed -> Nat]
      <3>1. /\ walk.limit \in Limits \cup {1} /\ walk.offset \in Nat /\ walk.seen \in [Listed -> Nat]
            /\ Limits \subseteq Nat
        BY <1>0 DEF List!Walk, List!ListingAssumption
      <3>2. \A l \in Limits \cup {1} : l \in Nat
        BY <3>1
      <3>3. walk.limit \in Nat
        BY <3>1, <3>2
      <3>4. next = walk.offset + walk.limit
        BY DEF List!NextOffset
      <3> HIDE DEF next
      <3>. QED
        BY <3>1, <3>3, <3>4
    <2>3. walk' \in List!Walk
      <3>1. [r \in Listed |-> IF r \in shown THEN walk.seen[r] + 1 ELSE walk.seen[r]] \in [Listed -> Nat]
        <4> HIDE DEF list, place, shown, next
        <4>. QED
          BY <2>2
      <3>2. (IF next < List!Cardinality(list) THEN "on" ELSE "over") \in {"no", "on", "over"}
        OBVIOUS
      <3> HIDE DEF list, place, shown, next
      <3>. QED
        BY <1>0, <2>1, <2>2, <3>1, <3>2 DEF List!Walk
    <2>. QED
      BY <1>4, <2>3 DEF List!Page, ListInv, List!TypeOK
  <1>5. CASE UNCHANGED List!vars
    BY <1>5 DEF List!vars, ListInv, List!TypeOK
  <1>. QED
    BY <1>1, <1>2, <1>3, <1>4, <1>5 DEF List!Next

\* The list that a walk goes through, as it is now.
Matched(filter, is) == {r \in Listed : List!Matches(r, filter, is)}

\* The reports behind the walk that no page had, and those before it that a page
\* has had.
Missed(seen, there, L, s, off) == {r \in there : seen[r] = 0 /\ PlaceIn(s, L, r) < off}
Again(seen, L, s, off) == {r \in L : seen[r] > 0 /\ PlaceIn(s, L, r) >= off}

Repeated(seen) == UNION {{r} \X (2 .. seen[r]) : r \in Listed}

\* What was shifted so far pays for what is missed and repeated already, and for
\* what would be if the rest of the list stayed as it is.
Paid(L, s, off, seen, there, n) ==
  /\ there \subseteq L
  /\ Cardinality(Missed(seen, there, L, s, off)) <= n
  /\ Cardinality(Repeated(seen)) + Cardinality(Again(seen, L, s, off)) <= n

WalkInv ==
  /\ \A r \in Listed : walk.seen[r] > 0 \/ r \in walk.there => status[r] # None
  /\ IsFiniteSet(Repeated(walk.seen))
  /\ listed # "postgres" =>
       /\ walk.phase = "on" =>
            Paid(Matched(walk.filter, status), order, walk.offset, walk.seen, walk.there, shifts)
       /\ walk.phase = "over" =>
            /\ Cardinality({r \in walk.there : walk.seen[r] = 0}) <= shifts
            /\ Cardinality(Repeated(walk.seen)) <= shifts

LEMMA NoneRepeated == ASSUME NEW seen \in [Listed -> Nat], \A r \in Listed : seen[r] = 0 PROVE Repeated(seen) = {}
  <1>1. \A r \in Listed : 2 .. seen[r] = {}
    OBVIOUS
  <1>. QED
    BY <1>1 DEF Repeated

LEMMA WalkInit == ASSUME List!ListingAssumption, List!Init PROVE WalkInv
  <1>1. /\ walk.seen \in [Listed -> Nat] /\ \A r \in Listed : walk.seen[r] = 0
        /\ walk.phase = "no" /\ walk.there = {}
    BY DEF List!Init
  <1>2. Repeated(walk.seen) = {} /\ IsFiniteSet({})
    BY <1>1, NoneRepeated, FS_EmptySet
  <1>. QED
    BY <1>1, <1>2 DEF WalkInv

\* What is known of the rows and of the walk.
LEMMA ListFacts ==
  ASSUME List!ListingAssumption, ListInv
  PROVE  /\ order \in Seq(Listed) /\ List!IsInjective(order)
         /\ List!ToSet(order) = {r \in Listed : status[r] # None}
         /\ status \in [Listed -> Statuses \cup {None}]
         /\ walk.phase \in {"no", "on", "over"} /\ walk.there \subseteq Listed
         /\ walk.seen \in [Listed -> Nat] /\ walk.offset \in Nat /\ walk.limit \in Nat
         /\ DOMAIN walk = {"phase", "filter", "limit", "offset", "there", "seen"}
         /\ shifts \in Nat /\ None \notin Statuses /\ NewStatus \in Statuses
         /\ \A filter : /\ Matched(filter, status) \in SUBSET List!ToSet(order)
                        /\ Ordered(order, Matched(filter, status))
  <1>1. /\ order \in Seq(Listed) /\ List!IsInjective(order)
        /\ List!ToSet(order) = {r \in Listed : status[r] # None}
        /\ status \in [Listed -> Statuses \cup {None}] /\ walk \in List!Walk /\ shifts \in Nat
        /\ None \notin Statuses /\ NewStatus \in Statuses /\ Limits \subseteq Nat
    BY DEF ListInv, List!TypeOK, List!ListingAssumption
  <1>2. /\ walk.phase \in {"no", "on", "over"} /\ walk.there \subseteq Listed
        /\ walk.seen \in [Listed -> Nat] /\ walk.offset \in Nat /\ walk.limit \in Limits \cup {1}
        /\ DOMAIN walk = {"phase", "filter", "limit", "offset", "there", "seen"}
    BY <1>1 DEF List!Walk
  <1>3. walk.limit \in Nat
    <2>1. \A l \in Limits \cup {1} : l \in Nat
      BY <1>1
    <2>. QED
      BY <1>2, <2>1
  <1>4. \A filter : Matched(filter, status) \in SUBSET List!ToSet(order)
    BY <1>1 DEF Matched, List!Matches
  <1>5. \A filter : Ordered(order, Matched(filter, status))
    BY <1>1, <1>4, OrderedList
  <1>. QED
    BY <1>1, <1>2, <1>3, <1>4, <1>5

\* What leaves the places of a list as they are leaves the balance of a walk.
LEMMA StillPaid ==
  ASSUME NEW s, NEW t, NEW L, NEW M, NEW off, NEW seen \in [Listed -> Nat], NEW there, NEW n,
         L \subseteq M, M \subseteq Listed, \A x \in L : PlaceIn(t, M, x) = PlaceIn(s, L, x),
         \A x \in M \ L : seen[x] = 0, Paid(L, s, off, seen, there, n)
  PROVE  Paid(M, t, off, seen, there, n)
  <1>1. Missed(seen, there, M, t, off) = Missed(seen, there, L, s, off)
    BY DEF Missed, Paid
  <1>2. Again(seen, M, t, off) = Again(seen, L, s, off)
    <2>1. \A x \in M : seen[x] > 0 => x \in L
      OBVIOUS
    <2>. QED
      BY <2>1 DEF Again
  <1>. QED
    BY <1>1, <1>2 DEF Paid

LEMMA AppendOrder ==
  ASSUME NEW S, NEW s \in Seq(S), NEW r, r \notin List!ToSet(s), NEW x \in List!ToSet(s)
  PROVE  /\ ~Ahead(Append(s, r), r, x)
         /\ \A q \in List!ToSet(s) : Ahead(Append(s, r), q, x) <=> Ahead(s, q, x)
  <1> DEFINE t == Append(s, r)
             n == Len(s)
  <1>1. /\ n \in Nat /\ DOMAIN s = 1 .. n /\ DOMAIN t = 1 .. n + 1
        /\ t[n + 1] = r /\ \A i \in 1 .. n : t[i] = s[i]
    OBVIOUS
  <1> HIDE DEF t, n
  <1>2. \A i \in 1 .. n : s[i] # r
    BY <1>1 DEF List!ToSet
  <1>3. \A i \in 1 .. n + 1 : i \in 1 .. n \/ i = n + 1
    BY <1>1
  <1>4. \A i, j \in 1 .. n + 1 : i < j => i \in 1 .. n
    BY <1>1
  <1>5. \A q \in List!ToSet(s) : q # r
    OBVIOUS
  <1>6. ~Ahead(t, r, x)
    BY <1>1, <1>2, <1>4 DEF Ahead
  <1>7. ASSUME NEW q \in List!ToSet(s), Ahead(t, q, x) PROVE Ahead(s, q, x)
    <2>1. PICK i \in 1 .. n + 1, j \in 1 .. n + 1 : i < j /\ t[i] = q /\ t[j] = x
      BY <1>1, <1>7 DEF Ahead
    <2>2. i \in 1 .. n /\ j \in 1 .. n
      BY <1>1, <1>3, <1>4, <1>5, <2>1
    <2>. QED
      BY <1>1, <2>1, <2>2 DEF Ahead
  <1>8. ASSUME NEW q \in List!ToSet(s), Ahead(s, q, x) PROVE Ahead(t, q, x)
    <2>1. PICK i \in 1 .. n, j \in 1 .. n : i < j /\ s[i] = q /\ s[j] = x
      BY <1>1, <1>8 DEF Ahead
    <2>2. i \in 1 .. n + 1 /\ j \in 1 .. n + 1
      BY <1>1
    <2>. QED
      BY <1>1, <2>1, <2>2 DEF Ahead
  <1>. QED
    BY <1>6, <1>7, <1>8 DEF t

LEMMA WalkCreate ==
  ASSUME List!ListingAssumption, ListInv, WalkInv, NEW r \in Listed, List!Create(r)
  PROVE  WalkInv'
  <1>1. /\ status[r] = None /\ status' = [status EXCEPT ![r] = NewStatus] /\ order' = Append(order, r)
        /\ UNCHANGED <<listed, walk, shifts, saves>>
    BY DEF List!Create
  <1> DEFINE L == Matched(walk.filter, status)
             M == Matched(walk.filter, status')
  <1>2. /\ order \in Seq(Listed) /\ List!ToSet(order) = {q \in Listed : status[q] # None}
        /\ L \in SUBSET List!ToSet(order)
        /\ status \in [Listed -> Statuses \cup {None}] /\ NewStatus \in Statuses /\ None \notin Statuses
        /\ walk.seen \in [Listed -> Nat]
    BY ListFacts
  <1>3. \A q \in Listed : status'[q] = IF q = r THEN NewStatus ELSE status[q]
    BY <1>1, <1>2
  <1>4. r \notin List!ToSet(order) /\ walk.seen[r] = 0
    BY <1>1, <1>2 DEF WalkInv
  <1>5. L \subseteq M /\ M \ L \subseteq {r} /\ M \subseteq Listed
    BY <1>2, <1>3, <1>4 DEF Matched, List!Matches
  <1>6. ASSUME NEW x \in L PROVE PlaceIn(order', M, x) = PlaceIn(order, L, x)
    <2>1. /\ ~Ahead(order', r, x)
          /\ \A q \in List!ToSet(order) : Ahead(order', q, x) <=> Ahead(order, q, x)
      <3>1. x \in List!ToSet(order)
        BY <1>2
      <3>. QED
        BY <1>1, <1>2, <1>4, <3>1, AppendOrder
    <2>2. ASSUME NEW q PROVE q \in List!Before(order', M, x) <=> q \in List!Before(order, L, x)
      BY <1>2, <1>5, <2>1, BeforeIs
    <2>3. List!Before(order', M, x) = List!Before(order, L, x)
      BY <2>2 DEF List!Before
    <2>. QED
      BY <2>3 DEF PlaceIn
  <1> HIDE DEF L, M
  <1>7. ASSUME Paid(L, order, walk.offset, walk.seen, walk.there, shifts)
        PROVE  Paid(M, order', walk.offset, walk.seen, walk.there, shifts)
    BY <1>2, <1>4, <1>5, <1>6, <1>7, StillPaid
  <1>8. \A q \in Listed : walk'.seen[q] > 0 \/ q \in walk'.there => status'[q] # None
    BY <1>1, <1>2, <1>3 DEF WalkInv
  <1>. QED
    BY <1>1, <1>7, <1>8 DEF WalkInv, L, M

\* What a review does to the list of a walk: the others keep their order, and if it
\* is not counted then all keep their places.
LEMMA SaveIs ==
  ASSUME List!ListingAssumption, ListInv, ListInv', NEW r \in Listed, NEW next \in Statuses, List!Save(r, next)
  PROVE  LET L == Matched(walk.filter, status)
             M == Matched(walk.filter, status')
         IN /\ Ordered(order, L) /\ Ordered(order', M) /\ L \ {r} = M \ {r} /\ SameOrder(order, order', L, r)
            /\ \A q \in Listed : status'[q] = None <=> status[q] = None
            /\ \/ /\ walk' = [walk EXCEPT !.there = walk.there \ {r}]
                  /\ shifts' = IF walk.phase = "on" THEN shifts + 1 ELSE shifts
               \/ /\ UNCHANGED <<walk, shifts>> /\ M = L
                  /\ \A x \in L : PlaceIn(order', M, x) = PlaceIn(order, L, x)
  <1> DEFINE L == Matched(walk.filter, status)
             M == Matched(walk.filter, status')
             moves == listed = "sqlite" /\ List!Matches(r, walk.filter, status)
             turns == List!Matches(r, walk.filter, status) # (walk.filter \in {None, next})
  <1>1. /\ order \in Seq(Listed) /\ List!IsInjective(order)
        /\ List!ToSet(order) = {q \in Listed : status[q] # None}
        /\ status \in [Listed -> Statuses \cup {None}] /\ None \notin Statuses
        /\ L \in SUBSET List!ToSet(order) /\ Ordered(order, L)
    BY ListFacts
  <1>2. /\ status[r] # None /\ status' = [status EXCEPT ![r] = next]
        /\ order' = IF listed = "sqlite" THEN Append(List!RemoveFirst(order, r), r) ELSE order
        /\ walk' = IF moves \/ turns THEN [walk EXCEPT !.there = walk.there \ {r}] ELSE walk
        /\ shifts' = IF walk.phase = "on" /\ (moves \/ turns) THEN shifts + 1 ELSE shifts
    BY DEF List!Save
  <1>3. \A q \in Listed : status'[q] = IF q = r THEN next ELSE status[q]
    BY <1>1, <1>2
  <1>4. \A q \in Listed : status'[q] = None <=> status[q] = None
    BY <1>1, <1>2, <1>3
  <1>5. L \ {r} = M \ {r}
    BY <1>3 DEF Matched, List!Matches
  <1>6. (r \in L <=> List!Matches(r, walk.filter, status)) /\ (r \in M <=> walk.filter \in {None, next})
    BY <1>1, <1>3 DEF Matched, List!Matches
  <1>7. Ordered(order', M)
    <2>1. /\ order' \in Seq(Listed) /\ List!IsInjective(order')
          /\ List!ToSet(order') = {q \in Listed : status'[q] # None}
      BY DEF ListInv, List!TypeOK
    <2>2. M \in SUBSET List!ToSet(order')
      BY <2>1 DEF Matched, List!Matches
    <2>. QED
      BY <2>1, <2>2, OrderedList
  <1>8. SameOrder(order, order', List!ToSet(order), r)
    <2>1. CASE order' = order
      BY <2>1 DEF SameOrder
    <2>2. CASE order' = Append(List!RemoveFirst(order, r), r)
      <3>1. r \in List!ToSet(order)
        BY <1>1, <1>2
      <3>. QED
        BY <1>1, <2>2, <3>1, MovedBehind
    <2>. QED
      BY <1>2, <2>1, <2>2
  <1>9. SameOrder(order, order', L, r)
    BY <1>1, <1>8 DEF SameOrder
  <1>10. ASSUME ~(moves \/ turns)
         PROVE  M = L /\ \A x \in L : PlaceIn(order', M, x) = PlaceIn(order, L, x)
    <2>1. M = L
      <3>1. r \in L <=> r \in M
        BY <1>6, <1>10
      <3> HIDE DEF L, M
      <3>. QED
        BY <1>5, <3>1
    <2>2. ASSUME NEW x \in L, NEW q \in L PROVE Ahead(order', q, x) <=> Ahead(order, q, x)
      <3>1. CASE listed = "sqlite"
        BY <1>6, <1>9, <1>10, <2>2, <3>1 DEF SameOrder
      <3>2. CASE listed # "sqlite"
        BY <1>2, <3>2
      <3>. QED
        BY <3>1, <3>2
    <2>3. ASSUME NEW x \in L PROVE List!Before(order', M, x) = List!Before(order, L, x)
      <3>1. \A q : q \in List!Before(order', M, x) <=> q \in List!Before(order, L, x)
        BY <2>1, <2>2, <2>3, BeforeIs
      <3>. QED
        BY <3>1
    <2>. QED
      BY <2>1, <2>3 DEF PlaceIn
  <1>11. CASE moves \/ turns
    <2>1. /\ walk' = [walk EXCEPT !.there = walk.there \ {r}]
          /\ shifts' = IF walk.phase = "on" THEN shifts + 1 ELSE shifts
      BY <1>2, <1>11
    <2>. QED
      BY <1>1, <1>4, <1>5, <1>7, <1>9, <2>1
  <1>12. CASE ~(moves \/ turns)
    <2>1. UNCHANGED <<walk, shifts>>
      BY <1>2, <1>12
    <2>. QED
      BY <1>1, <1>4, <1>5, <1>7, <1>9, <1>10, <1>12, <2>1
  <1>. QED
    BY <1>11, <1>12

LEMMA ShiftPaid ==
  ASSUME NEW s, NEW t, NEW L, NEW M, NEW r, NEW off \in Nat, NEW seen \in [Listed -> Nat], NEW there, NEW n \in Nat,
         IsFiniteSet(Repeated(seen)), M \subseteq Listed,
         Ordered(s, L), Ordered(t, M), L \ {r} = M \ {r}, SameOrder(s, t, L, r),
         Paid(L, s, off, seen, there, n)
  PROVE  Paid(M, t, off, seen, there \ {r}, n + 1)
  <1>1. there \ {r} \subseteq M
    BY DEF Paid
  <1>2. /\ Cardinality(Missed(seen, there \ {r}, M, t, off)) \in Nat
        /\ Cardinality(Missed(seen, there, L, s, off)) \in Nat
        /\ Cardinality(Missed(seen, there \ {r}, M, t, off)) <= Cardinality(Missed(seen, there, L, s, off)) + 1
    <2> DEFINE U == Missed(seen, there, L, s, off)
               V == Missed(seen, there \ {r}, M, t, off)
    <2>1. U \subseteq L /\ V \subseteq M /\ r \notin V /\ \A x \in V : PlaceIn(t, M, x) < off
      BY <1>1 DEF Missed, Paid
    <2>2. \A x \in V : PlaceIn(s, L, x) < off => x \in U
      BY DEF Missed
    <2> HIDE DEF U, V
    <2>3. Cardinality(V) \in Nat /\ Cardinality(U) \in Nat /\ Cardinality(V) <= Cardinality(U) + 1
      BY <2>1, <2>2, MissesOne
    <2>. QED
      BY <2>3 DEF U, V
  <1>3. /\ Cardinality(Again(seen, M, t, off)) \in Nat
        /\ Cardinality(Again(seen, L, s, off)) \in Nat
        /\ Cardinality(Again(seen, M, t, off)) <= Cardinality(Again(seen, L, s, off)) + 1
    <2> DEFINE U == Again(seen, L, s, off)
               V == Again(seen, M, t, off)
    <2>1. U \subseteq L /\ V \subseteq M /\ \A x \in V : PlaceIn(t, M, x) >= off
      BY DEF Again
    <2>2. \A x \in V : x \in L /\ PlaceIn(s, L, x) >= off => x \in U
      BY DEF Again
    <2> HIDE DEF U, V
    <2>. QED
      BY <2>1, <2>2, RepeatsOne DEF U, V
  <1>4. Cardinality(Repeated(seen)) \in Nat
    BY FS_CardinalityType
  <1>. QED
    BY <1>1, <1>2, <1>3, <1>4 DEF Paid

LEMMA WalkSave ==
  ASSUME List!ListingAssumption, ListInv, ListInv', WalkInv,
         NEW r \in Listed, NEW next \in Statuses, List!Save(r, next)
  PROVE  WalkInv'
  <1> DEFINE L == Matched(walk.filter, status)
             M == Matched(walk.filter, status')
             shifted == /\ walk' = [walk EXCEPT !.there = walk.there \ {r}]
                        /\ shifts' = IF walk.phase = "on" THEN shifts + 1 ELSE shifts
  <1>1. /\ Ordered(order, L) /\ Ordered(order', M) /\ L \ {r} = M \ {r} /\ SameOrder(order, order', L, r)
        /\ \A q \in Listed : status'[q] = None <=> status[q] = None
        /\ \/ shifted
           \/ /\ UNCHANGED <<walk, shifts>> /\ M = L
              /\ \A x \in L : PlaceIn(order', M, x) = PlaceIn(order, L, x)
    BY SaveIs
  <1>2. /\ walk.seen \in [Listed -> Nat] /\ walk.offset \in Nat /\ shifts \in Nat /\ walk.there \subseteq Listed
        /\ DOMAIN walk = {"phase", "filter", "limit", "offset", "there", "seen"}
        /\ L \subseteq Listed /\ M \subseteq Listed
    BY ListFacts DEF Matched
  <1>3. listed' = listed
    BY DEF List!Save
  <1>4. CASE shifted
    <2>1. /\ walk'.phase = walk.phase /\ walk'.filter = walk.filter /\ walk'.offset = walk.offset
          /\ walk'.seen = walk.seen /\ walk'.there = walk.there \ {r}
      BY <1>2, <1>4
    <2>2. \A q \in Listed : walk'.seen[q] > 0 \/ q \in walk'.there => status'[q] # None
      BY <1>1, <2>1 DEF WalkInv
    <2>3. ASSUME walk.phase = "on", listed # "postgres"
          PROVE  Paid(Matched(walk'.filter, status'), order', walk'.offset, walk'.seen, walk'.there, shifts')
      <3>1. Paid(L, order, walk.offset, walk.seen, walk.there, shifts) /\ IsFiniteSet(Repeated(walk.seen))
        BY <2>3 DEF WalkInv
      <3>2. shifts' = shifts + 1
        BY <1>4, <2>3
      <3> HIDE DEF L, M
      <3>3. Paid(M, order', walk.offset, walk.seen, walk.there \ {r}, shifts + 1)
        BY <1>1, <1>2, <3>1, ShiftPaid
      <3>. QED
        BY <2>1, <3>2, <3>3 DEF M
    <2>4. ASSUME walk.phase = "over", listed # "postgres"
          PROVE  Cardinality({q \in walk'.there : walk'.seen[q] = 0}) <= shifts'
      <3> DEFINE A == {q \in walk.there : walk.seen[q] = 0}
                 B == {q \in walk'.there : walk'.seen[q] = 0}
      <3>1. A \subseteq List!ToSet(order) /\ B \subseteq A
        BY <1>2, <2>1, ListFacts DEF WalkInv
      <3>2. IsFiniteSet(A)
        BY <3>1, ListFacts, OrderedList DEF Ordered
      <3>3. Cardinality(B) <= Cardinality(A) /\ Cardinality(A) \in Nat /\ IsFiniteSet(B)
        BY <3>1, <3>2, FS_Subset, FS_CardinalityType
      <3>4. Cardinality(B) \in Nat /\ Cardinality(A) <= shifts /\ shifts' = shifts
        BY <1>4, <2>4, <3>3, FS_CardinalityType DEF WalkInv
      <3> HIDE DEF A, B
      <3>5. Cardinality(B) <= shifts'
        BY <1>2, <3>3, <3>4
      <3>. QED
        BY <3>5 DEF B
    <2>5. walk.phase = "over" => shifts' = shifts
      BY <1>4
    <2>. QED
      BY <1>3, <2>1, <2>2, <2>3, <2>4, <2>5 DEF WalkInv
  <1>5. CASE /\ UNCHANGED <<walk, shifts>> /\ M = L
             /\ \A x \in L : PlaceIn(order', M, x) = PlaceIn(order, L, x)
    <2>1. ASSUME Paid(L, order, walk.offset, walk.seen, walk.there, shifts)
          PROVE  Paid(M, order', walk.offset, walk.seen, walk.there, shifts)
      <3> HIDE DEF L, M
      <3>. QED
        BY <1>2, <1>5, <2>1, StillPaid
    <2>2. \A q \in Listed : walk'.seen[q] > 0 \/ q \in walk'.there => status'[q] # None
      BY <1>1, <1>5 DEF WalkInv
    <2>. QED
      BY <1>3, <1>5, <2>1, <2>2 DEF WalkInv
  <1>. QED
    BY <1>1, <1>4, <1>5

LEMMA WalkStart ==
  ASSUME List!ListingAssumption, ListInv, WalkInv,
         NEW filter \in Statuses \cup {None}, NEW limit \in Limits, List!StartWalk(filter, limit)
  PROVE  WalkInv'
  <1> DEFINE L == Matched(filter, status)
  <1>1. /\ walk' = [phase |-> "on", filter |-> filter, limit |-> limit, offset |-> 0,
                    there |-> L, seen |-> [q \in Listed |-> 0]]
        /\ UNCHANGED <<listed, order, status, shifts, saves>>
    BY DEF List!StartWalk, Matched
  <1>2. /\ walk'.phase = "on" /\ walk'.filter = filter /\ walk'.offset = 0 /\ walk'.there = L
        /\ walk'.seen \in [Listed -> Nat] /\ \A q \in Listed : walk'.seen[q] = 0
    BY <1>1
  <1>3. Repeated(walk'.seen) = {} /\ IsFiniteSet({}) /\ Cardinality({}) = 0 /\ shifts \in Nat
    BY <1>2, NoneRepeated, FS_EmptySet, ListFacts
  <1>4. Ordered(order, L) /\ L \subseteq Listed /\ \A q \in L : status[q] # None
    BY ListFacts DEF Matched, List!Matches
  <1>5. Missed(walk'.seen, L, L, order, 0) = {} /\ Again(walk'.seen, L, order, 0) = {}
    <2>1. \A x \in L : PlaceIn(order, L, x) \in Nat
      BY <1>4, PlaceIs
    <2>2. \A x \in L : ~(PlaceIn(order, L, x) < 0)
      BY <2>1
    <2>. QED
      BY <1>2, <1>4, <2>2 DEF Missed, Again
  <1>6. Paid(L, order, 0, walk'.seen, L, shifts)
    BY <1>3, <1>5 DEF Paid
  <1>7. \A q \in Listed : walk'.seen[q] > 0 \/ q \in walk'.there => status[q] # None
    BY <1>2, <1>4
  <1>. QED
    BY <1>1, <1>2, <1>3, <1>6, <1>7 DEF WalkInv

\* What a page adds to the repetitions: one for each report on it that was on one before.
LEMMA RepeatedOnPage ==
  ASSUME NEW seen \in [Listed -> Nat], IsFiniteSet(Repeated(seen)), NEW shown,
         NEW P, P = {x \in Listed : x \in shown /\ seen[x] > 0}, IsFiniteSet(P),
         NEW new, new = [x \in Listed |-> IF x \in shown THEN seen[x] + 1 ELSE seen[x]]
  PROVE  /\ IsFiniteSet(Repeated(new)) /\ Cardinality(Repeated(new)) \in Nat
         /\ Cardinality(Repeated(seen)) \in Nat /\ Cardinality(P) \in Nat
         /\ Cardinality(Repeated(new)) <= Cardinality(Repeated(seen)) + Cardinality(P)
  <1> DEFINE added == {<<x, seen[x] + 1>> : x \in P}
             f == [x \in P |-> <<x, seen[x] + 1>>]
  <1>1. Repeated(new) = Repeated(seen) \cup added
    <2>1. \A x \in Listed : \A i : i \in 2 .. new[x] <=> i \in 2 .. seen[x] \/ (x \in P /\ i = seen[x] + 1)
      OBVIOUS
    <2>2. \A x \in Listed : \A i : <<x, i>> \in Repeated(new) <=> i \in 2 .. new[x]
      BY DEF Repeated
    <2>3. \A x \in Listed : \A i : <<x, i>> \in Repeated(seen) <=> i \in 2 .. seen[x]
      BY DEF Repeated
    <2>4. \A x \in Listed : \A i : <<x, i>> \in added <=> x \in P /\ i = seen[x] + 1
      OBVIOUS
    <2>5. \A y \in Repeated(new) \cup Repeated(seen) \cup added : \E x \in Listed, i \in Nat : y = <<x, i>>
      <3>1. \A y \in added : \E x \in Listed, i \in Nat : y = <<x, i>>
        OBVIOUS
      <3>2. \A y \in Repeated(seen) : \E x \in Listed, i \in Nat : y = <<x, i>>
        BY DEF Repeated
      <3>3. \A y \in Repeated(new) : \E x \in Listed, i \in Nat : y = <<x, i>>
        BY DEF Repeated
      <3> HIDE DEF added
      <3>. QED
        BY <3>1, <3>2, <3>3
    <2> HIDE DEF added
    <2>. QED
      BY <2>1, <2>2, <2>3, <2>4, <2>5
  <1>2. IsFiniteSet(added) /\ Cardinality(added) <= Cardinality(P)
    <2>1. f \in [P -> added] /\ \A y \in added : \E x \in P : f[x] = y
      OBVIOUS
    <2> HIDE DEF f, added
    <2>2. f \in Surjection(P, added)
      BY <2>1, Fun_IsSurj
    <2>. QED
      BY <2>2, FS_Surjection
  <1> HIDE DEF added
  <1>3. /\ Cardinality(added) \in Nat /\ Cardinality(P) \in Nat /\ Cardinality(Repeated(seen)) \in Nat
        /\ IsFiniteSet(Repeated(seen) \cup added)
        /\ Cardinality(Repeated(seen) \cup added) =
             Cardinality(Repeated(seen)) + Cardinality(added) - Cardinality(Repeated(seen) \cap added)
    BY <1>2, FS_Union, FS_CardinalityType
  <1>4. Cardinality(Repeated(seen) \cap added) \in Nat
    BY <1>2, FS_Intersection, FS_CardinalityType
  <1>5. Cardinality(Repeated(seen) \cup added) \in Nat
    BY <1>3, FS_CardinalityType
  <1>6. \A a, b, c, d, e \in Nat : a = b + c - d /\ c <= e => a <= b + e
    OBVIOUS
  <1>7. Cardinality(Repeated(seen) \cup added) <= Cardinality(Repeated(seen)) + Cardinality(P)
    BY <1>2, <1>3, <1>4, <1>5, <1>6
  <1>. QED
    BY <1>1, <1>3, <1>5, <1>7

\* The reports of a page, and how often each was on one then.
OnPage(s, L, off, limit) == {y \in L : off <= PlaceIn(s, L, y) /\ PlaceIn(s, L, y) < off + limit}
Unseen(seen, there) == {x \in there : seen[x] = 0}
CountOnce(seen, shown) == [x \in Listed |-> IF x \in shown THEN seen[x] + 1 ELSE seen[x]]

LEMMA PagePaid ==
  ASSUME NEW s, NEW L \in SUBSET Listed, NEW off \in Nat, NEW limit \in Nat, NEW seen \in [Listed -> Nat],
         NEW there, NEW n \in Nat, IsFiniteSet(Repeated(seen)), Ordered(s, L), Paid(L, s, off, seen, there, n),
         NEW new, new = CountOnce(seen, OnPage(s, L, off, limit))
  PROVE  /\ IsFiniteSet(Repeated(new))
         /\ Paid(L, s, off + limit, new, there, n)
         /\ ~(off + limit < Cardinality(L)) =>
              /\ Cardinality(Unseen(new, there)) <= n
              /\ Cardinality(Repeated(new)) <= n
  <1> DEFINE shown == OnPage(s, L, off, limit)
             P == {x \in Listed : x \in shown /\ seen[x] > 0}
             A == Again(seen, L, s, off)
             B == Again(new, L, s, off + limit)
             missed == Missed(seen, there, L, s, off)
             still == Missed(new, there, L, s, off + limit)
  <1>1. \A x \in L : PlaceIn(s, L, x) \in Nat /\ Cardinality(L) \in Nat /\ PlaceIn(s, L, x) < Cardinality(L)
    BY PlaceIs
  <1>2. IsFiniteSet(L) /\ there \subseteq L
    BY DEF Ordered, Paid
  <1>3. \A x \in Listed : new[x] = IF x \in shown THEN seen[x] + 1 ELSE seen[x]
    BY DEF CountOnce
  <1>4. B \subseteq A /\ P \subseteq A /\ B \cap P = {} /\ A \subseteq L
    <2>1. \A x \in B : x \in A /\ x \notin shown
      BY <1>1, <1>3 DEF Again, OnPage
    <2>2. \A x \in P : x \in A /\ x \in shown
      BY <1>1 DEF Again, OnPage
    <2>. QED
      BY <2>1, <2>2 DEF Again
  <1>5. still \subseteq missed /\ missed \subseteq L
    <2>1. \A x \in still : x \in missed
      BY <1>1, <1>2, <1>3 DEF Missed, OnPage
    <2>. QED
      BY <1>2, <2>1 DEF Missed
  <1>6. ~(off + limit < Cardinality(L)) => Unseen(new, there) = still
    BY <1>1, <1>2 DEF Missed, Unseen
  <1>7. /\ IsFiniteSet(A) /\ IsFiniteSet(B) /\ IsFiniteSet(P) /\ IsFiniteSet(missed) /\ IsFiniteSet(still)
        /\ Cardinality(still) <= Cardinality(missed)
    <2> HIDE DEF A, B, P, missed, still
    <2>1. IsFiniteSet(A) /\ IsFiniteSet(missed)
      BY <1>2, <1>4, <1>5, FS_Subset
    <2>. QED
      BY <1>4, <1>5, <2>1, FS_Subset
  <1>8. /\ IsFiniteSet(Repeated(new)) /\ Cardinality(Repeated(new)) \in Nat
        /\ Cardinality(Repeated(seen)) \in Nat /\ Cardinality(P) \in Nat
        /\ Cardinality(Repeated(new)) <= Cardinality(Repeated(seen)) + Cardinality(P)
    BY <1>7, RepeatedOnPage DEF CountOnce
  <1>9. Cardinality(missed) <= n /\ Cardinality(Repeated(seen)) + Cardinality(A) <= n
    BY DEF Paid
  <1> HIDE DEF A, B, P, missed, still
  <1>10. /\ Cardinality(A) \in Nat /\ Cardinality(B) \in Nat /\ Cardinality(missed) \in Nat /\ Cardinality(still) \in Nat
    BY <1>7, FS_CardinalityType
  <1>11. Cardinality(B) + Cardinality(P) <= Cardinality(A)
    <2>1. Cardinality(B \cup P) = Cardinality(B) + Cardinality(P) - Cardinality({})
      BY <1>4, <1>7, FS_Union
    <2>2. IsFiniteSet(B \cup P) /\ Cardinality(B \cup P) <= Cardinality(A)
      BY <1>4, <1>7, FS_Subset
    <2>3. Cardinality(B \cup P) \in Nat /\ Cardinality({}) = 0
      BY <2>2, FS_CardinalityType, FS_EmptySet
    <2>. QED
      BY <1>8, <1>10, <2>1, <2>2, <2>3
  <1>12. Cardinality(still) <= n /\ Cardinality(Repeated(new)) + Cardinality(B) <= n /\ Cardinality(Repeated(new)) <= n
    BY <1>7, <1>8, <1>9, <1>10, <1>11
  <1>13. Paid(L, s, off + limit, new, there, n)
    BY <1>2, <1>12 DEF Paid, B, still
  <1>. QED
    BY <1>6, <1>8, <1>12, <1>13

LEMMA WalkPage ==
  ASSUME List!ListingAssumption, ListInv, WalkInv, NEW page \in List!Orders, List!Page(page)
  PROVE  WalkInv'
  <1> DEFINE list == {x \in List!ToSet(page) : List!Matches(x, walk.filter, status)}
             place(x) == List!Cardinality(List!Before(page, list, x))
             next == List!NextOffset(walk.limit, walk.offset)
             shown == {x \in list : walk.offset <= place(x) /\ place(x) < walk.offset + walk.limit}
             new == [x \in Listed |-> IF x \in shown THEN walk.seen[x] + 1 ELSE walk.seen[x]]
             L == Matched(walk.filter, status)
  <1>1. /\ walk.phase = "on" /\ UNCHANGED <<listed, order, status, shifts, saves>>
        /\ walk' = [walk EXCEPT !.seen = new,
                                !.phase = IF next < List!Cardinality(list) THEN "on" ELSE "over",
                                !.offset = next]
    BY DEF List!Page
  <1>2. /\ walk.seen \in [Listed -> Nat] /\ walk.offset \in Nat /\ walk.limit \in Nat /\ shifts \in Nat
        /\ DOMAIN walk = {"phase", "filter", "limit", "offset", "there", "seen"}
        /\ L \in SUBSET List!ToSet(order) /\ L \in SUBSET Listed /\ Ordered(order, L)
        /\ List!ToSet(order) = {x \in Listed : status[x] # None}
    BY ListFacts DEF Matched
  <1>3. next = walk.offset + walk.limit
    BY DEF List!NextOffset
  <1>4. /\ walk'.seen = new /\ walk'.offset = walk.offset + walk.limit /\ walk'.filter = walk.filter
        /\ walk'.there = walk.there
        /\ walk'.phase = IF walk.offset + walk.limit < Cardinality(list) THEN "on" ELSE "over"
    <2>1. List!Cardinality(list) = Cardinality(list)
      BY ListCount
    <2> HIDE DEF new, next, list
    <2>. QED
      BY <1>1, <1>2, <1>3, <2>1
  <1>5. \A x \in shown : status[x] # None
    BY DEF List!Matches
  <1>6. \A x \in Listed : new[x] > 0 \/ x \in walk.there => status[x] # None
    <2>1. \A x \in Listed : new[x] = IF x \in shown THEN walk.seen[x] + 1 ELSE walk.seen[x]
      OBVIOUS
    <2> HIDE DEF new, shown
    <2>. QED
      BY <1>5, <2>1 DEF WalkInv
  <1>7. IsFiniteSet(Repeated(new))
    <2> DEFINE P == {x \in Listed : x \in shown /\ walk.seen[x] > 0}
    <2>1. P \in SUBSET List!ToSet(order)
      BY <1>2, <1>5
    <2>2. IsFiniteSet(P)
      BY <2>1, ListFacts, OrderedList DEF Ordered
    <2>3. IsFiniteSet(Repeated(walk.seen))
      BY DEF WalkInv
    <2> HIDE DEF shown
    <2>. QED
      BY <1>2, <2>2, <2>3, RepeatedOnPage
  <1>8. ASSUME listed # "postgres"
        PROVE  /\ Paid(L, order, walk.offset + walk.limit, new, walk.there, shifts)
               /\ ~(walk.offset + walk.limit < Cardinality(list)) =>
                    /\ Cardinality({x \in walk.there : new[x] = 0}) <= shifts
                    /\ Cardinality(Repeated(new)) <= shifts
    <2>1. page = order
      BY <1>8 DEF List!Orders
    <2>2. list = L
      BY <1>2, <2>1 DEF Matched, List!Matches
    <2>3. \A x : place(x) = PlaceIn(order, L, x)
      BY <2>1, <2>2, ListCount DEF PlaceIn
    <2>4. shown = OnPage(order, L, walk.offset, walk.limit)
      <3> HIDE DEF list, L, place
      <3>. QED
        BY <2>2, <2>3 DEF OnPage
    <2>5. Paid(L, order, walk.offset, walk.seen, walk.there, shifts) /\ IsFiniteSet(Repeated(walk.seen))
      BY <1>1, <1>8 DEF WalkInv
    <2>6. new = CountOnce(walk.seen, OnPage(order, L, walk.offset, walk.limit))
      BY <2>4 DEF CountOnce
    <2> HIDE DEF list, L, shown, place, new
    <2>7. /\ L \in SUBSET Listed /\ walk.offset \in Nat /\ walk.limit \in Nat /\ walk.seen \in [Listed -> Nat]
          /\ shifts \in Nat /\ Ordered(order, L)
      BY <1>2
    <2>8. /\ Paid(L, order, walk.offset + walk.limit, new, walk.there, shifts)
          /\ ~(walk.offset + walk.limit < Cardinality(L)) =>
               /\ Cardinality(Unseen(new, walk.there)) <= shifts
               /\ Cardinality(Repeated(new)) <= shifts
      BY ONLY <2>5, <2>6, <2>7, PagePaid
    <2>. QED
      BY <2>2, <2>8 DEF Unseen
  <1>9. Matched(walk'.filter, status') = L
    BY <1>1, <1>4
  <1> HIDE DEF L, new, list
  <1>. QED
    BY <1>1, <1>4, <1>6, <1>7, <1>8, <1>9 DEF WalkInv

LEMMA WalkStep ==
  ASSUME List!ListingAssumption, ListInv, ListInv', WalkInv, [List!Next]_List!vars
  PROVE  WalkInv'
  <1>1. ASSUME NEW r \in Listed, List!Create(r) PROVE WalkInv'
    BY <1>1, WalkCreate
  <1>2. ASSUME NEW r \in Listed, NEW next \in Statuses, List!Save(r, next) PROVE WalkInv'
    BY <1>2, WalkSave
  <1>3. ASSUME NEW filter \in Statuses \cup {None}, NEW limit \in Limits, List!StartWalk(filter, limit) PROVE WalkInv'
    BY <1>3, WalkStart
  <1>4. ASSUME NEW page \in List!Orders, List!Page(page) PROVE WalkInv'
    BY <1>4, WalkPage
  <1>5. CASE UNCHANGED List!vars
    BY <1>5 DEF List!vars, WalkInv
  <1>. QED
    BY <1>1, <1>2, <1>3, <1>4, <1>5 DEF List!Next

LEMMA WalkIsPaid == ASSUME WalkInv PROVE List!WalkMissesOnlyShifted
  <1>1. List!Repeats = Repeated(walk.seen)
    BY DEF List!Repeats, Repeated
  <1>2. /\ List!Cardinality({r \in walk.there : walk.seen[r] = 0}) = Cardinality({r \in walk.there : walk.seen[r] = 0})
        /\ List!Cardinality(List!Repeats) = Cardinality(Repeated(walk.seen))
    BY <1>1, ListCount
  <1>. QED
    BY <1>2 DEF WalkInv, List!WalkMissesOnlyShifted

-----------------------------------------------------------------------------
(* The collections of the API. *)

\* The record a request is about, and the store it is for.
Rec(r) == Coll!Written(request[r].ask)

At(r) == Coll!Place(request[r].proc)

Is(r, phases) == request[r].phase \in phases

Free(rec, recs) == \A other \in recs : ~(other.kind = rec.kind /\ other.id = rec.id)

Writing == {"store", "log"}

\* One request at a time holds the store that its process is about to write back.
CollTyped ==
  /\ Coll!TypeOK
  /\ request = [r \in Posts |-> request[r]]
  /\ \A r \in Posts : ~Is(r, {"unsent", "replayed"}) => request[r].ask \in Bodies
  /\ \A r \in Posts : Is(r, {"commit"}) => backend = "postgres"
  /\ \A r \in Posts : Is(r, Writing) => backend = "file" /\ image[request[r].proc] \in Coll!Store
  /\ \A r, o \in Posts : Is(r, Writing) /\ Is(o, Writing) /\ request[r].proc = request[o].proc => r = o
  /\ \A r \in Posts : Is(r, {"store"}) => Free(Rec(r), image[request[r].proc].recs)
  /\ \A r \in hit : Is(r, {"failed"})

\* The record of a request on its way is in the store.
Wrote(r) == Is(r, {"answer"}) \/ (backend # "postgres" /\ Is(r, {"audit", "log", "job"}))

\* The memory in which a request had its record is not lost.
Alive(r) == ~(backend = "memory" /\ request[r].proc \in crashed)

StoredOK ==
  /\ \A r \in Posts : Wrote(r) \/ (Coll!Acknowledged(r) /\ Alive(r)) => Rec(r) \in db[At(r)].recs
  /\ \A p \in Procs : \A c \in cache[p] : Coll!Written(c) \in db[Coll!Place(p)].recs

\* Two requests do not write one id.
Has(r) == Wrote(r) \/ (Is(r, {"created"}) /\ Alive(r))

DistinctOK ==
  \A r, o \in Posts : r # o /\ Has(r) /\ Has(o) /\ At(r) = At(o) => Free(Rec(r), {Rec(o)})

\* Nor do two transactions, or one that is not committed and one that is.
PendingOK ==
  \A r \in Posts : Coll!Uncommitted(r) =>
    /\ Free(Rec(r), db[Disk].recs)
    /\ \A o \in Posts : Coll!Uncommitted(o) /\ o # r => Free(Rec(r), {Rec(o)})

Whole(x, rec) == rec \in db[x].audited /\ rec \in jobs[x]

\* A creation that has still to write its event or its job, or was broken off.
OnWay(r) ==
  \/ Is(r, {"audit", "log", "lost"})
  \/ Is(r, {"job"}) /\ Rec(r) \in db[At(r)].audited
  \/ r \in hit

WayOK ==
  \A x \in Coll!Places : \A rec \in db[x].recs \ Seed :
    Whole(x, rec) \/ (backend # "postgres" /\ \E r \in Posts : At(r) = x /\ Rec(r) = rec /\ OnWay(r))

\* What a guard has found stays: nothing is ever removed.
Passed(r) == Is(r, Coll!Phase \ {"guard"})

ParentsOK ==
  /\ \A x \in Coll!Places : \A rec \in db[x].recs : Coll!HasParent(rec, db[x].recs)
  /\ \A r \in Posts : Passed(r) => Coll!HasParent(Rec(r), db[At(r)].recs)

Rest == StoredOK /\ DistinctOK /\ PendingOK /\ WayOK /\ ParentsOK

CollInv == CollTyped /\ (~overwrote => Rest)

LEMMA CollInit == ASSUME Coll!CollectionAssumption, Coll!Init PROVE CollInv
  <1>0. \A r \in Posts : request[r].phase = "unsent"
    BY DEF Coll!Init, Coll!NoRequest
  <1>1. CollTyped
    <2>1. db \in [Coll!Places -> Coll!Store]
      BY DEF Coll!CollectionAssumption, Coll!Init, Coll!Store
    <2>2. Coll!TypeOK
      <3>1. jobs \in [Coll!Places -> SUBSET Coll!Record] /\ image \in [Procs -> Coll!Store \cup {None}] /\ cache \in [Procs -> SUBSET Coll!Ask]
        BY DEF Coll!Init
      <3>2. \A r \in Posts : request[r] = Coll!NoRequest
        BY DEF Coll!Init
      <3>3. backend \in Backends /\ failed \in 0 .. MaxStoreFaults /\ hit = {} /\ crashed = {} /\ overwrote \in BOOLEAN
        <4>1. MaxStoreFaults \in Nat
          BY DEF Coll!CollectionAssumption
        <4>2. backend \in Backends /\ failed = 0 /\ hit = {} /\ crashed = {} /\ overwrote = FALSE
          BY DEF Coll!Init
        <4>3. overwrote \in BOOLEAN
          BY <4>2
        <4>4. failed \in 0 .. MaxStoreFaults
          BY <4>1, <4>2
        <4>. QED
          BY <4>2, <4>3, <4>4
      <3>. QED
        BY <2>1, <3>1, <3>2, <3>3 DEF Coll!TypeOK
    <2>. QED
      BY <1>0, <2>2 DEF Coll!Init, Is, Writing, CollTyped
  <1>3. StoredOK /\ DistinctOK /\ PendingOK
    BY <1>0 DEF Coll!Init, StoredOK, DistinctOK, PendingOK, Is, Wrote, Coll!Acknowledged, Has, Coll!Uncommitted
  <1>4. WayOK /\ ParentsOK
    BY <1>0 DEF Coll!Init, Coll!CollectionAssumption, WayOK, ParentsOK, Passed, Is, Coll!Phase
  <1>. QED
    BY <1>1, <1>3, <1>4 DEF CollInv, Rest

LEMMA WrittenIs ==
  ASSUME NEW ask \in Coll!Ask PROVE Coll!Written(ask) \in Coll!Record /\ Coll!Written(ask).kind = ask.kind /\ Coll!Written(ask).id = ask.id
  BY DEF Coll!Ask, Coll!Written, Coll!Record

\* A record is taken when its id is not free.
LEMMA TakenIs ==
  ASSUME NEW ask \in Coll!Ask, NEW recs PROVE Coll!Taken(ask, recs) <=> ~Free(Coll!Written(ask), recs)
  BY WrittenIs DEF Coll!Taken, Free

\* What is asked for by a request that was sent.
LEMMA SentIs ==
  ASSUME CollTyped, NEW r \in Posts, ~Is(r, {"unsent"})
  PROVE  /\ request[r] \in [phase : Coll!Phase \cup Coll!Answer, proc : Procs, ask : Coll!Ask]
         /\ request[r].proc \in Procs /\ request[r].ask \in Coll!Ask /\ Rec(r) \in Coll!Record /\ At(r) \in Coll!Places
  <1>1. request[r] \in [phase : Coll!Phase \cup Coll!Answer, proc : Procs, ask : Coll!Ask]
    BY DEF CollTyped, Coll!TypeOK, Coll!NoRequest, Is
  <1>2. request[r].proc \in Procs /\ request[r].ask \in Coll!Ask
    BY <1>1
  <1>. QED
    BY <1>1, <1>2, WrittenIs DEF Rec, At, Coll!Place, Coll!Places

\* A request moves to another phase.
LEMMA MovedIs ==
  ASSUME CollTyped, NEW r \in Posts, Is(r, Coll!Phase), NEW p \in Coll!Phase \cup Coll!Answer, Coll!Moves(r, p), UNCHANGED backend
  PROVE  /\ request' = [o \in Posts |-> request'[o]]
         /\ \A o \in Posts :
              /\ request'[o].phase = IF o = r THEN p ELSE request[o].phase
              /\ request'[o].proc = request[o].proc /\ request'[o].ask = request[o].ask
              /\ o # r => request'[o] = request[o]
              /\ Rec(o)' = Rec(o) /\ At(o)' = At(o)
         /\ request'[r] \in [phase : Coll!Phase \cup Coll!Answer, proc : Procs, ask : Coll!Ask]
  <1>1. request[r] \in [phase : Coll!Phase \cup Coll!Answer, proc : Procs, ask : Coll!Ask]
    BY SentIs DEF Is, Coll!Phase
  <1>2. request = [o \in Posts |-> request[o]]
    BY DEF CollTyped
  <1>3. request' = [o \in Posts |-> IF o = r THEN [request[r] EXCEPT !.phase = p] ELSE request[o]]
    BY <1>2 DEF Coll!Moves
  <1>4. /\ [request[r] EXCEPT !.phase = p] \in [phase : Coll!Phase \cup Coll!Answer, proc : Procs, ask : Coll!Ask]
        /\ [request[r] EXCEPT !.phase = p].phase = p
        /\ [request[r] EXCEPT !.phase = p].proc = request[r].proc
        /\ [request[r] EXCEPT !.phase = p].ask = request[r].ask
    BY <1>1
  <1>5. \A o \in Posts : request'[o].proc = request[o].proc /\ request'[o].ask = request[o].ask
    BY <1>3, <1>4
  <1>6. \A o \in Posts : Rec(o)' = Rec(o) /\ At(o)' = At(o)
    BY <1>5 DEF Rec, At, Coll!Written, Coll!Place
  <1>7. request' = [o \in Posts |-> request'[o]]
    BY <1>3
  <1>8. \A o \in Posts : request'[o].phase = (IF o = r THEN p ELSE request[o].phase) /\ (o # r => request'[o] = request[o])
    BY <1>3, <1>4
  <1>9. request'[r] \in [phase : Coll!Phase \cup Coll!Answer, proc : Procs, ask : Coll!Ask]
    BY <1>3, <1>4
  <1>10. ASSUME NEW o \in Posts
         PROVE  /\ request'[o].phase = IF o = r THEN p ELSE request[o].phase
                /\ request'[o].proc = request[o].proc /\ request'[o].ask = request[o].ask
                /\ o # r => request'[o] = request[o]
                /\ Rec(o)' = Rec(o) /\ At(o)' = At(o)
    BY <1>5, <1>6, <1>8
  <1>. QED
    BY <1>7, <1>9, <1>10

\* The stores lose nothing, and win at most the record of r.
Grows(r) ==
  \A y \in Coll!Places :
    /\ db[y].recs \subseteq db'[y].recs
    /\ db'[y].recs \subseteq db[y].recs \cup (IF y = At(r) THEN {Rec(r)} ELSE {})
    /\ db[y].audited \subseteq db'[y].audited
    /\ jobs[y] \subseteq jobs'[y]

\* A request that moves keeps the types, if what it leaves behind has them.
LEMMA MoveTyped ==
  ASSUME CollTyped, NEW r \in Posts, Is(r, Coll!Phase), NEW p \in Coll!Phase \cup Coll!Answer, Coll!Moves(r, p),
         UNCHANGED <<backend, crashed>>,
         db' \in [Coll!Places -> Coll!Store], jobs' \in [Coll!Places -> SUBSET Coll!Record],
         image' \in [Procs -> Coll!Store \cup {None}], cache' \in [Procs -> SUBSET Coll!Ask],
         failed' \in 0 .. MaxStoreFaults, overwrote' \in BOOLEAN,
         hit' \subseteq hit \cup (IF p = "failed" THEN {r} ELSE {}),
         p = "commit" => backend = "postgres",
         p \in Writing => backend = "file" /\ ~Coll!Busy(request[r].proc) /\ image'[request[r].proc] \in Coll!Store,
         p = "store" => Free(Rec(r), image'[request[r].proc].recs),
         \A o \in Posts \ {r} : Is(o, Writing) => image'[request[o].proc] = image[request[o].proc]
  PROVE  CollTyped'
  <1>1. /\ request' = [o \in Posts |-> request'[o]]
        /\ \A o \in Posts :
             /\ request'[o].phase = IF o = r THEN p ELSE request[o].phase
             /\ request'[o].proc = request[o].proc /\ request'[o].ask = request[o].ask
             /\ o # r => request'[o] = request[o]
             /\ Rec(o)' = Rec(o) /\ At(o)' = At(o)
        /\ request'[r] \in [phase : Coll!Phase \cup Coll!Answer, proc : Procs, ask : Coll!Ask]
    BY MovedIs
  <1>2. Coll!TypeOK'
    <2>1. ASSUME NEW o \in Posts
          PROVE  \/ request'[o] = Coll!NoRequest
                 \/ request'[o] \in [phase : Coll!Phase \cup Coll!Answer, proc : Procs, ask : Coll!Ask]
      BY <1>1 DEF CollTyped, Coll!TypeOK
    <2>2. backend' \in Backends /\ crashed' \subseteq Procs /\ hit' \subseteq Posts
      BY DEF CollTyped, Coll!TypeOK
    <2>. QED
      BY <2>1, <2>2 DEF Coll!TypeOK, Coll!NoRequest, Coll!Places
  <1>3. \A o \in Posts : ~Is(o, {"unsent", "replayed"})' => request'[o].ask \in Bodies
    BY <1>1 DEF CollTyped, Is, Coll!Phase
  <1>4. \A o \in Posts : Is(o, {"commit"})' => backend' = "postgres"
    BY <1>1 DEF CollTyped, Is
  <1>5. \A o \in Posts : Is(o, Writing)' => backend' = "file" /\ image'[request'[o].proc] \in Coll!Store
    BY <1>1 DEF CollTyped, Is, Writing
  <1>6. ASSUME NEW a \in Posts, NEW o \in Posts, Is(a, Writing)', Is(o, Writing)', request'[a].proc = request'[o].proc
        PROVE  a = o
    <2>1. CASE a # r /\ o # r
      BY <1>1, <1>6, <2>1 DEF CollTyped, Is, Writing
    <2>2. ASSUME NEW x \in Posts, x # r, p \in Writing, Is(x, Writing)', request'[x].proc = request'[r].proc
          PROVE  FALSE
      <3>1. Is(x, Writing) /\ request[x].proc = request[r].proc
        BY <1>1, <2>2 DEF Is, Writing
      <3>2. backend = "file" /\ ~Coll!Busy(request[r].proc)
        BY <2>2
      <3>. QED
        BY <3>1, <3>2 DEF Coll!Busy, Is, Writing
    <2>. QED
      BY <1>1, <1>6, <2>1, <2>2 DEF Is, Writing
  <1>7. \A o \in Posts : Is(o, {"store"})' => Free(Rec(o)', image'[request'[o].proc].recs)
    <2>1. \A o \in Posts : Is(o, {"store"}) => Is(o, Writing)
      BY DEF Is, Writing
    <2>. QED
      BY <1>1, <2>1 DEF CollTyped, Is
  <1>8. \A o \in hit' : Is(o, {"failed"})'
    <2>1. hit \subseteq Posts
      BY DEF CollTyped, Coll!TypeOK
    <2>2. r \notin hit
      BY DEF CollTyped, Is, Coll!Phase
    <2>. QED
      BY <1>1, <2>1, <2>2 DEF CollTyped, Is
  <1>. QED
    BY <1>1, <1>2, <1>3, <1>4, <1>5, <1>6, <1>7, <1>8 DEF CollTyped, Free, Rec, Coll!Written

LEMMA MoveStored ==
  ASSUME CollTyped, StoredOK, NEW r \in Posts, Is(r, Coll!Phase), NEW p \in Coll!Phase \cup Coll!Answer, Coll!Moves(r, p),
         UNCHANGED <<backend, crashed>>, Grows(r), p # "replayed",
         Wrote(r)' \/ p = "created" => Rec(r) \in db'[At(r)].recs,
         \A q \in Procs : cache'[q] \subseteq cache[q] \cup (IF p = "created" /\ q = request[r].proc THEN {request[r].ask} ELSE {})
  PROVE  StoredOK'
  <1>1. \A o \in Posts :
          /\ request'[o].phase = IF o = r THEN p ELSE request[o].phase
          /\ request'[o].proc = request[o].proc
          /\ Rec(o)' = Rec(o) /\ At(o)' = At(o)
    BY MovedIs
  <1>2. ASSUME NEW o \in Posts, Wrote(o)' \/ (Coll!Acknowledged(o) /\ Alive(o))'
        PROVE  Rec(o)' \in db'[At(o)'].recs
    <2>1. CASE o = r
      BY <1>1, <1>2, <2>1 DEF Coll!Acknowledged
    <2>2. CASE o # r
      <3>1. Wrote(o) \/ (Coll!Acknowledged(o) /\ Alive(o))
        BY <1>1, <1>2, <2>2 DEF Wrote, Is, Coll!Acknowledged, Alive
      <3>2. Rec(o) \in db[At(o)].recs
        BY <3>1 DEF StoredOK
      <3>3. At(o) \in Coll!Places
        <4>1. ~Is(o, {"unsent"})
          BY <3>1 DEF Is, Wrote, Coll!Acknowledged
        <4>. QED
          BY <4>1, SentIs
      <3>. QED
        BY <1>1, <3>2, <3>3 DEF Grows
    <2>. QED
      BY <2>1, <2>2
  <1>3. ASSUME NEW q \in Procs, NEW c \in cache'[q]
        PROVE  Coll!Written(c) \in db'[Coll!Place(q)].recs
    <2>1. Coll!Place(q) \in Coll!Places
      BY DEF Coll!Place, Coll!Places
    <2>2. CASE c \in cache[q]
      BY <2>1, <2>2 DEF StoredOK, Grows
    <2>3. CASE p = "created" /\ q = request[r].proc /\ c = request[r].ask
      BY <2>3 DEF Rec, At
    <2>. QED
      BY <1>3, <2>2, <2>3
  <1>4. \A q \in Procs : Coll!Place(q)' = Coll!Place(q)
    BY DEF Coll!Place
  <1>. QED
    BY <1>2, <1>3, <1>4 DEF StoredOK, Coll!Written

\* Two records that are not the same one.
LEMMA FreeOf == \A a, b : Free(a, {b}) <=> ~(b.kind = a.kind /\ b.id = a.id)
  BY DEF Free

LEMMA MoveDistinct ==
  ASSUME CollTyped, StoredOK, DistinctOK, NEW r \in Posts, Is(r, Coll!Phase), NEW p \in Coll!Phase \cup Coll!Answer, Coll!Moves(r, p),
         UNCHANGED <<backend, crashed>>,
         Has(r)' => Has(r) \/ Free(Rec(r), db[At(r)].recs)
  PROVE  DistinctOK'
  <1>1. \A o \in Posts :
          /\ request'[o].phase = IF o = r THEN p ELSE request[o].phase
          /\ request'[o].proc = request[o].proc
          /\ Rec(o)' = Rec(o) /\ At(o)' = At(o)
    BY MovedIs
  <1>2. \A o \in Posts \ {r} : Has(o)' => Has(o)
    BY <1>1 DEF Has, Wrote, Is, Alive
  <1>3. \A o \in Posts : Has(o) => Rec(o) \in db[At(o)].recs
    BY DEF StoredOK, Has, Is, Coll!Acknowledged
  <1>4. ASSUME NEW o \in Posts \ {r}, Has(o)', Has(r)', At(o) = At(r)
        PROVE  Free(Rec(r), {Rec(o)}) /\ Free(Rec(o), {Rec(r)})
    <2>1. Has(o) /\ Rec(o) \in db[At(o)].recs
      BY <1>2, <1>3, <1>4
    <2>2. Free(Rec(r), {Rec(o)})
      <3>1. CASE Has(r)
        BY <1>4, <2>1, <3>1 DEF DistinctOK
      <3>2. CASE Free(Rec(r), db[At(r)].recs)
        BY <1>4, <2>1, <3>2 DEF Free
      <3>. QED
        BY <1>4, <3>1, <3>2
    <2>. QED
      BY <2>2, FreeOf
  <1>5. ASSUME NEW a \in Posts, NEW o \in Posts, a # o, Has(a)', Has(o)', At(a)' = At(o)'
        PROVE  Free(Rec(a)', {Rec(o)'})
    <2>1. Rec(a)' = Rec(a) /\ At(a)' = At(a) /\ Rec(o)' = Rec(o) /\ At(o)' = At(o)
      BY <1>1
    <2>2. CASE a # r /\ o # r
      BY <1>2, <1>5, <2>1, <2>2 DEF DistinctOK
    <2>3. CASE a = r
      BY <1>4, <1>5, <2>1, <2>3
    <2>4. CASE o = r
      BY <1>4, <1>5, <2>1, <2>4
    <2>. QED
      BY <2>2, <2>3, <2>4
  <1>6. \A a, o \in Posts : Free(Rec(a), {Rec(o)})' <=> Free(Rec(a)', {Rec(o)'})
    BY DEF Free, Rec, Coll!Written
  <1>. QED
    BY <1>5, <1>6 DEF DistinctOK

LEMMA MovePending ==
  ASSUME CollTyped, PendingOK, NEW r \in Posts, Is(r, Coll!Phase), NEW p \in Coll!Phase \cup Coll!Answer, Coll!Moves(r, p),
         UNCHANGED backend,
         Coll!Uncommitted(r)' =>
           \/ Coll!Uncommitted(r)
           \/ /\ Free(Rec(r), db[Disk].recs)
              /\ \A o \in Posts \ {r} : Coll!Uncommitted(o) => Free(Rec(r), {Rec(o)}),
         backend = "postgres" =>
           \/ db'[Disk].recs = db[Disk].recs
           \/ Coll!Uncommitted(r) /\ ~Coll!Uncommitted(r)' /\ db'[Disk].recs \subseteq db[Disk].recs \cup {Rec(r)}
  PROVE  PendingOK'
  <1>1. \A o \in Posts :
          /\ request'[o].phase = IF o = r THEN p ELSE request[o].phase
          /\ Rec(o)' = Rec(o)
    BY MovedIs
  <1>2. \A o \in Posts \ {r} : Coll!Uncommitted(o)' => Coll!Uncommitted(o)
    BY <1>1 DEF Coll!Uncommitted
  <1>3. ASSUME NEW a \in Posts, NEW o \in Posts, a # o, Coll!Uncommitted(a)', Coll!Uncommitted(o)'
        PROVE  Free(Rec(a), {Rec(o)})
    <2>1. CASE a # r /\ o # r
      BY <1>2, <1>3, <2>1 DEF PendingOK
    <2>2. ASSUME NEW x \in Posts \ {r}, Coll!Uncommitted(x)', Coll!Uncommitted(r)'
          PROVE  Free(Rec(r), {Rec(x)})
      BY <1>2, <2>2 DEF PendingOK
    <2>3. CASE a = r
      BY <1>3, <2>2, <2>3
    <2>4. CASE o = r
      BY <1>3, <2>2, <2>4, FreeOf
    <2>. QED
      BY <2>1, <2>3, <2>4
  <1>4. ASSUME NEW a \in Posts, Coll!Uncommitted(a)'
        PROVE  Free(Rec(a), db'[Disk].recs)
    <2>1. backend = "postgres"
      BY <1>4 DEF Coll!Uncommitted
    <2>2. Free(Rec(a), db[Disk].recs)
      <3>1. CASE a = r
        BY <1>4, <3>1 DEF PendingOK
      <3>2. CASE a # r
        BY <1>2, <1>4, <3>2 DEF PendingOK
      <3>. QED
        BY <3>1, <3>2
    <2>3. CASE db'[Disk].recs = db[Disk].recs
      BY <2>2, <2>3
    <2>4. CASE Coll!Uncommitted(r) /\ ~Coll!Uncommitted(r)' /\ db'[Disk].recs \subseteq db[Disk].recs \cup {Rec(r)}
      <3>1. a # r /\ Coll!Uncommitted(a)
        BY <1>2, <1>4, <2>4
      <3>2. Free(Rec(a), {Rec(r)})
        BY <2>4, <3>1 DEF PendingOK
      <3>. QED
        BY <2>2, <2>4, <3>2 DEF Free
    <2>. QED
      BY <2>1, <2>3, <2>4
  <1>5. \A a, o \in Posts : Free(Rec(a), {Rec(o)})' <=> Free(Rec(a)', {Rec(o)'})
    BY DEF Free, Rec, Coll!Written
  <1>6. \A a \in Posts : Free(Rec(a), db[Disk].recs)' <=> Free(Rec(a)', db'[Disk].recs)
    BY DEF Free, Rec, Coll!Written
  <1>. QED
    BY <1>1, <1>3, <1>4, <1>5, <1>6 DEF PendingOK

LEMMA MoveWay ==
  ASSUME CollTyped, WayOK, NEW r \in Posts, Is(r, Coll!Phase), NEW p \in Coll!Phase \cup Coll!Answer, Coll!Moves(r, p),
         UNCHANGED backend, Grows(r), hit \subseteq hit',
         Rec(r) \in db'[At(r)].recs \ db[At(r)].recs =>
           \/ Rec(r) \in db'[At(r)].audited /\ Rec(r) \in jobs'[At(r)]
           \/ backend # "postgres" /\ OnWay(r)',
         backend # "postgres" /\ OnWay(r) /\ Rec(r) \in db[At(r)].recs =>
           \/ OnWay(r)'
           \/ Rec(r) \in db'[At(r)].audited /\ Rec(r) \in jobs'[At(r)]
  PROVE  WayOK'
  <1>1. \A o \in Posts :
          /\ request'[o].phase = IF o = r THEN p ELSE request[o].phase
          /\ Rec(o)' = Rec(o) /\ At(o)' = At(o)
    BY MovedIs
  <1>2. ASSUME NEW x \in Coll!Places, NEW rec \in db'[x].recs \ Seed
        PROVE  \/ rec \in db'[x].audited /\ rec \in jobs'[x]
               \/ backend # "postgres" /\ \E o \in Posts : At(o) = x /\ Rec(o) = rec /\ OnWay(o)'
    <2>1. CASE rec \in db[x].recs
      <3>1. CASE Whole(x, rec)
        BY <3>1 DEF Whole, Grows
      <3>2. ASSUME backend # "postgres", NEW o \in Posts, At(o) = x, Rec(o) = rec, OnWay(o)
            PROVE  OnWay(o)' \/ (rec \in db'[x].audited /\ rec \in jobs'[x])
        <4>1. CASE o = r
          BY <2>1, <3>2, <4>1
        <4>2. CASE o # r
          <5>1. request'[o].phase = request[o].phase /\ db[At(o)].audited \subseteq db'[At(o)].audited
            BY <1>1, <3>2, <4>2 DEF Grows
          <5>2. Rec(o)' = Rec(o) /\ At(o)' = At(o)
            BY <1>1
          <5>. QED
            BY <3>2, <5>1, <5>2 DEF OnWay, Is
        <4>. QED
          BY <4>1, <4>2
      <3>. QED
        BY <1>2, <2>1, <3>1, <3>2 DEF WayOK
    <2>2. CASE rec \notin db[x].recs
      <3>1. x = At(r) /\ rec = Rec(r)
        BY <1>2, <2>2 DEF Grows
      <3>. QED
        BY <1>2, <2>2, <3>1
    <2>. QED
      BY <2>1, <2>2
  <1>3. \A x, rec : Whole(x, rec)' <=> rec \in db'[x].audited /\ rec \in jobs'[x]
    BY DEF Whole
  <1>. QED
    BY <1>1, <1>2, <1>3 DEF WayOK, Coll!Places

\* A parent stays one while records are only added.
LEMMA ParentStays ==
  ASSUME NEW rec, NEW recs, NEW more, Coll!HasParent(rec, recs), recs \subseteq more
  PROVE  Coll!HasParent(rec, more)
  BY DEF Coll!HasParent

LEMMA MoveParents ==
  ASSUME CollTyped, ParentsOK, NEW r \in Posts, Is(r, Coll!Phase), NEW p \in Coll!Phase \cup Coll!Answer, Coll!Moves(r, p),
         UNCHANGED backend, Grows(r),
         p \in Coll!Phase \ {"guard"} => Passed(r) \/ Coll!HasParent(Rec(r), db[At(r)].recs),
         Rec(r) \in db'[At(r)].recs \ db[At(r)].recs => Passed(r)
  PROVE  ParentsOK'
  <1>1. \A o \in Posts :
          /\ request'[o].phase = IF o = r THEN p ELSE request[o].phase
          /\ Rec(o)' = Rec(o) /\ At(o)' = At(o)
    BY MovedIs
  <1>2. \A o \in Posts : Is(o, Coll!Phase) => At(o) \in Coll!Places
    BY SentIs DEF Is, Coll!Phase
  <1>3. ASSUME NEW x \in Coll!Places, NEW rec \in db'[x].recs
        PROVE  Coll!HasParent(rec, db'[x].recs)
    <2>1. db[x].recs \subseteq db'[x].recs
      BY DEF Grows
    <2>2. Coll!HasParent(rec, db[x].recs)
      BY <1>3 DEF Grows, ParentsOK
    <2>. QED
      BY <2>1, <2>2, ParentStays
  <1>4. ASSUME NEW o \in Posts, Passed(o)'
        PROVE  Coll!HasParent(Rec(o), db'[At(o)].recs)
    <2>1. Is(o, Coll!Phase) /\ (o = r => p \in Coll!Phase \ {"guard"}) /\ (o # r => Passed(o))
      BY <1>1, <1>4 DEF Passed, Is
    <2>2. Coll!HasParent(Rec(o), db[At(o)].recs)
      BY <2>1 DEF ParentsOK
    <2>3. db[At(o)].recs \subseteq db'[At(o)].recs
      BY <1>2, <2>1 DEF Grows
    <2>. QED
      BY <2>2, <2>3, ParentStays
  <1>5. \A x, rec : Coll!HasParent(rec, db[x].recs)' <=> Coll!HasParent(rec, db'[x].recs)
    BY DEF Coll!HasParent
  <1>6. \A o \in Posts : Coll!HasParent(Rec(o), db[At(o)].recs)' <=> Coll!HasParent(Rec(o)', db'[At(o)'].recs)
    BY DEF Coll!HasParent, Rec, At, Coll!Written, Coll!Place
  <1>. QED
    BY <1>1, <1>3, <1>4, <1>5, <1>6 DEF ParentsOK, Coll!Places

\* A move that writes nothing but, perhaps, an answer into the cache.
LEMMA QuietRest ==
  ASSUME CollTyped, Rest, NEW r \in Posts, Is(r, Coll!Phase), NEW p \in Coll!Phase \cup Coll!Answer, Coll!Moves(r, p),
         UNCHANGED <<backend, db, jobs, crashed>>, hit \subseteq hit', p # "replayed",
         \A q \in Procs : cache'[q] \subseteq cache[q] \cup (IF p = "created" /\ q = request[r].proc THEN {request[r].ask} ELSE {}),
         Wrote(r)' \/ p = "created" => Wrote(r),
         Coll!Uncommitted(r)' =>
           \/ Coll!Uncommitted(r)
           \/ /\ Free(Rec(r), db[Disk].recs)
              /\ \A o \in Posts \ {r} : Coll!Uncommitted(o) => Free(Rec(r), {Rec(o)}),
         OnWay(r) => OnWay(r)' \/ backend = "postgres",
         p \in Coll!Phase \ {"guard"} => Passed(r) \/ Coll!HasParent(Rec(r), db[At(r)].recs)
  PROVE  Rest'
  <1>1. StoredOK /\ DistinctOK /\ PendingOK /\ WayOK /\ ParentsOK
    BY DEF Rest
  <1>2. Grows(r)
    BY DEF Grows
  <1>3. Wrote(r) => Rec(r) \in db[At(r)].recs
    BY <1>1 DEF StoredOK
  <1>4. StoredOK'
    BY <1>1, <1>2, <1>3, MoveStored
  <1>5. request'[r].phase = p /\ request'[r].proc = request[r].proc
    BY MovedIs
  <1>6. Has(r)' => Has(r)
    BY <1>5 DEF Has, Is
  <1>7. DistinctOK'
    BY <1>1, <1>6, MoveDistinct
  <1>8. PendingOK'
    BY <1>1, MovePending
  <1>9. WayOK'
    BY <1>1, <1>2, MoveWay
  <1>10. ParentsOK'
    BY <1>1, <1>2, MoveParents
  <1>. QED
    BY <1>4, <1>7, <1>8, <1>9, <1>10 DEF Rest

LEMMA QuietMove ==
  ASSUME CollInv, NEW r \in Posts, Is(r, Coll!Phase), NEW p \in Coll!Phase \cup Coll!Answer, Coll!Moves(r, p),
         UNCHANGED <<backend, db, jobs, image, failed, hit, crashed, overwrote>>,
         \A q \in Procs : cache'[q] \subseteq cache[q] \cup (IF p = "created" /\ q = request[r].proc THEN {request[r].ask} ELSE {}),
         cache' \in [Procs -> SUBSET Coll!Ask],
         p \notin Writing \cup {"replayed"}, p = "commit" => backend = "postgres",
         Wrote(r)' \/ p = "created" => Wrote(r),
         Coll!Uncommitted(r)' =>
           \/ Coll!Uncommitted(r)
           \/ /\ Free(Rec(r), db[Disk].recs)
              /\ \A o \in Posts \ {r} : Coll!Uncommitted(o) => Free(Rec(r), {Rec(o)}),
         OnWay(r) => OnWay(r)' \/ backend = "postgres",
         p \in Coll!Phase \ {"guard"} => Passed(r) \/ Coll!HasParent(Rec(r), db[At(r)].recs)
  PROVE  CollInv'
  <1>1. CollTyped
    BY DEF CollInv
  <1>2. CollTyped'
    <2>1. /\ db' \in [Coll!Places -> Coll!Store] /\ jobs' \in [Coll!Places -> SUBSET Coll!Record] /\ image' \in [Procs -> Coll!Store \cup {None}]
          /\ failed' \in 0 .. MaxStoreFaults /\ hit' = hit
      BY <1>1 DEF CollTyped, Coll!TypeOK
    <2>2. overwrote' \in BOOLEAN
      BY <1>1 DEF CollTyped, Coll!TypeOK
    <2>3. p # "store"
      BY DEF Writing
    <2>. QED
      BY <1>1, <2>1, <2>2, <2>3, MoveTyped
  <1>3. ASSUME ~overwrote
        PROVE  Rest'
    <2>1. Rest
      BY <1>3 DEF CollInv
    <2>. QED
      BY <1>1, <2>1, QuietRest
  <1>. QED
    BY <1>2, <1>3 DEF CollInv

\* The guard finds the parent that the record needs.
LEMMA AllowedHasParent ==
  ASSUME NEW ask \in Coll!Ask, NEW recs, Coll!Allowed(ask, recs)
  PROVE  Coll!HasParent(Coll!Written(ask), recs)
  BY DEF Coll!Allowed, Coll!HasParent, Coll!Written, Coll!RunInTenant, Coll!ProjectInTenant, Coll!ReportInTenant, Coll!Ask

LEMMA GuardKeeps == ASSUME CollInv, NEW r \in Posts, Coll!Guard(r) PROVE CollInv'
  <1>1. PICK p \in {"create", "forbidden"} :
          /\ Coll!Moves(r, p) /\ Is(r, {"guard"})
          /\ p = "create" => Coll!Allowed(request[r].ask, db[At(r)].recs)
    BY DEF Coll!Guard, Is, At
  <1>2. CollTyped
    BY DEF CollInv
  <1>3. request'[r].phase = p /\ request'[r].proc = request[r].proc
    BY <1>1, <1>2, MovedIs DEF Is, Coll!Guard, Coll!Keeps, Coll!Phase, Coll!Answer
  <1>4. request[r].ask \in Coll!Ask
    BY <1>1, <1>2, SentIs DEF Is
  <1>5. p \in Coll!Phase => Coll!HasParent(Rec(r), db[At(r)].recs)
    BY <1>1, <1>4, AllowedHasParent DEF Rec, Coll!Phase
  <1>6. cache \in [Procs -> SUBSET Coll!Ask]
    BY <1>2 DEF CollTyped, Coll!TypeOK
  <1>7. /\ p \in Coll!Phase \cup Coll!Answer /\ Is(r, Coll!Phase) /\ p \notin Writing \cup {"replayed"}
        /\ ~Wrote(r)' /\ p # "created" /\ ~Coll!Uncommitted(r)' /\ p # "commit"
    BY <1>1, <1>3 DEF Is, Coll!Phase, Coll!Answer, Writing, Wrote, Coll!Uncommitted
  <1>8. OnWay(r) => FALSE
    BY <1>1, <1>2 DEF OnWay, Is, CollTyped
  <1>9. UNCHANGED <<backend, db, jobs, image, failed, hit, crashed, overwrote, cache>>
    BY DEF Coll!Guard, Coll!Keeps, Coll!Writes
  <1>. QED
    BY <1>1, <1>5, <1>6, <1>7, <1>8, <1>9, QuietMove

LEMMA InvalidKeeps == ASSUME CollInv, NEW r \in Posts, Coll!Invalid(r) PROVE CollInv'
  <1>1. Coll!Moves(r, "invalid") /\ Is(r, {"create"})
    BY DEF Coll!Invalid, Is
  <1>2. CollTyped
    BY DEF CollInv
  <1>3. request'[r].phase = "invalid" /\ request'[r].proc = request[r].proc
    BY <1>1, <1>2, MovedIs DEF Is, Coll!Invalid, Coll!Keeps, Coll!Phase, Coll!Answer
  <1>4. cache \in [Procs -> SUBSET Coll!Ask]
    BY <1>2 DEF CollTyped, Coll!TypeOK
  <1>5. /\ "invalid" \in Coll!Phase \cup Coll!Answer /\ Is(r, Coll!Phase) /\ "invalid" \notin Writing \cup {"replayed"}
        /\ ~Wrote(r)' /\ ~Coll!Uncommitted(r)' /\ "invalid" \notin Coll!Phase
    BY <1>1, <1>3 DEF Is, Coll!Phase, Coll!Answer, Writing, Wrote, Coll!Uncommitted
  <1>6. OnWay(r) => FALSE
    BY <1>1, <1>2 DEF OnWay, Is, CollTyped
  <1>7. UNCHANGED <<backend, db, jobs, image, failed, hit, crashed, overwrote, cache>>
    BY DEF Coll!Invalid, Coll!Keeps, Coll!Writes
  <1>. QED
    BY <1>1, <1>4, <1>5, <1>6, <1>7, QuietMove

LEMMA SelectKeeps == ASSUME CollInv, NEW r \in Posts, Coll!Select(r) PROVE CollInv'
  <1>1. PICK p \in {"exists", "insert"} : Coll!Moves(r, p) /\ Is(r, {"create"})
    BY DEF Coll!Select, Is
  <1>2. CollTyped
    BY DEF CollInv
  <1>3. request'[r].phase = p /\ request'[r].proc = request[r].proc
    BY <1>1, <1>2, MovedIs DEF Is, Coll!Select, Coll!Keeps, Coll!Phase, Coll!Answer
  <1>4. cache \in [Procs -> SUBSET Coll!Ask]
    BY <1>2 DEF CollTyped, Coll!TypeOK
  <1>5. /\ p \in Coll!Phase \cup Coll!Answer /\ Is(r, Coll!Phase) /\ p \notin Writing \cup {"replayed", "created", "commit"}
        /\ ~Wrote(r)' /\ ~Coll!Uncommitted(r)' /\ Passed(r)
    BY <1>1, <1>3 DEF Is, Coll!Phase, Coll!Answer, Writing, Wrote, Coll!Uncommitted, Passed
  <1>6. OnWay(r) => FALSE
    BY <1>1, <1>2 DEF OnWay, Is, CollTyped
  <1>7. UNCHANGED <<backend, db, jobs, image, failed, hit, crashed, overwrote, cache>>
    BY DEF Coll!Select, Coll!Keeps, Coll!Writes
  <1>. QED
    BY <1>1, <1>4, <1>5, <1>6, <1>7, QuietMove

LEMMA InsertPostgresKeeps == ASSUME CollInv, NEW r \in Posts, Coll!InsertPostgres(r) PROVE CollInv'
  <1>1. PICK p \in {"failed", "audit"} :
          /\ Coll!Moves(r, p) /\ Is(r, {"insert"}) /\ backend = "postgres"
          /\ p = "audit" => ~Coll!Taken(request[r].ask, db[Disk].recs)
          /\ \A o \in Posts \ {r} : Coll!Uncommitted(o) => ~Coll!Taken(request[r].ask, {Rec(o)})
    BY DEF Coll!InsertPostgres, Is, Rec
  <1>2. CollTyped
    BY DEF CollInv
  <1>3. request'[r].phase = p /\ request'[r].proc = request[r].proc
    BY <1>1, <1>2, MovedIs DEF Is, Coll!InsertPostgres, Coll!Keeps, Coll!Phase, Coll!Answer
  <1>4. cache \in [Procs -> SUBSET Coll!Ask]
    BY <1>2 DEF CollTyped, Coll!TypeOK
  <1>5. UNCHANGED <<backend, db, jobs, image, failed, hit, crashed, overwrote, cache>>
    BY DEF Coll!InsertPostgres, Coll!Keeps, Coll!Writes
  <1>6. /\ p \in Coll!Phase \cup Coll!Answer /\ Is(r, Coll!Phase) /\ p \notin Writing \cup {"replayed", "created", "commit"}
        /\ ~Wrote(r)' /\ Passed(r)
    BY <1>1, <1>3, <1>5 DEF Is, Coll!Phase, Coll!Answer, Writing, Wrote, Passed
  <1>7. request[r].ask \in Coll!Ask
    BY <1>1, <1>2, SentIs DEF Is
  <1>8. Coll!Uncommitted(r)' =>
          /\ Free(Rec(r), db[Disk].recs)
          /\ \A o \in Posts \ {r} : Coll!Uncommitted(o) => Free(Rec(r), {Rec(o)})
    BY <1>1, <1>3, <1>7, TakenIs DEF Coll!Uncommitted, Rec
  <1>. QED
    BY <1>1, <1>4, <1>5, <1>6, <1>8, QuietMove

LEMMA CreatedKeeps == ASSUME CollInv, NEW r \in Posts, Coll!Created(r) PROVE CollInv'
  <1>1. Coll!Moves(r, "created") /\ Is(r, {"answer"})
    BY DEF Coll!Created, Is
  <1>2. CollTyped
    BY DEF CollInv
  <1>3. request'[r].phase = "created" /\ request'[r].proc = request[r].proc
    BY <1>1, <1>2, MovedIs DEF Is, Coll!Created, Coll!Keeps, Coll!Phase, Coll!Answer
  <1>4. cache \in [Procs -> SUBSET Coll!Ask] /\ request[r].proc \in Procs /\ request[r].ask \in Coll!Ask
    BY <1>1, <1>2, SentIs DEF CollTyped, Coll!TypeOK, Is
  <1>5. cache' = cache \/ cache' = [cache EXCEPT ![request[r].proc] = @ \cup {request[r].ask}]
    BY DEF Coll!Created
  <1>6. /\ cache' \in [Procs -> SUBSET Coll!Ask]
        /\ \A q \in Procs : cache'[q] \subseteq cache[q] \cup (IF q = request[r].proc THEN {request[r].ask} ELSE {})
    BY <1>4, <1>5
  <1>7. /\ "created" \in Coll!Phase \cup Coll!Answer /\ Is(r, Coll!Phase) /\ "created" \notin Writing \cup {"replayed", "commit"}
        /\ Wrote(r) /\ ~Coll!Uncommitted(r)' /\ "created" \notin Coll!Phase
    BY <1>1, <1>3 DEF Is, Coll!Phase, Coll!Answer, Writing, Wrote, Coll!Uncommitted
  <1>8. OnWay(r) => FALSE
    BY <1>1, <1>2 DEF OnWay, Is, CollTyped
  <1>9. UNCHANGED <<backend, db, jobs, image, failed, hit, crashed, overwrote>>
    BY DEF Coll!Created, Coll!Keeps, Coll!Writes
  <1>. QED
    BY <1>1, <1>6, <1>7, <1>8, <1>9, QuietMove

\* A repository without transactions stores the record of r.
LEMMA AddRest ==
  ASSUME CollTyped, Rest, NEW r \in Posts, Is(r, {"create", "insert", "store"}), Coll!Moves(r, "audit"),
         backend # "postgres", Free(Rec(r), db[At(r)].recs),
         db' = [db EXCEPT ![At(r)].recs = @ \cup {Rec(r)}],
         UNCHANGED <<backend, crashed, jobs, cache, hit>>
  PROVE  Rest'
  <1>1. StoredOK /\ DistinctOK /\ PendingOK /\ WayOK /\ ParentsOK
    BY DEF Rest
  <1>2. "audit" \in Coll!Phase \cup Coll!Answer /\ Is(r, Coll!Phase) /\ Passed(r)
    BY DEF Is, Coll!Phase, Coll!Answer, Passed
  <1>3. At(r) \in Coll!Places /\ Rec(r) \in Coll!Record
    BY SentIs DEF Is
  <1>4. db \in [Coll!Places -> Coll!Store]
    BY DEF CollTyped, Coll!TypeOK
  <1>5. /\ db'[At(r)].recs = db[At(r)].recs \cup {Rec(r)}
        /\ db'[At(r)].audited = db[At(r)].audited
        /\ \A y \in Coll!Places : y # At(r) => db'[y] = db[y]
    BY <1>3, <1>4 DEF Coll!Store
  <1>6. Grows(r)
    BY <1>3, <1>5 DEF Grows
  <1>7. request'[r].phase = "audit" /\ request'[r].proc = request[r].proc
    BY <1>2, MovedIs
  <1>8. StoredOK'
    BY <1>1, <1>2, <1>5, <1>6, MoveStored
  <1>9. DistinctOK'
    BY <1>1, <1>2, MoveDistinct
  <1>10. PendingOK'
    <2>1. ~Coll!Uncommitted(r)'
      BY DEF Coll!Uncommitted
    <2>. QED
      BY <1>1, <1>2, <2>1, MovePending
  <1>11. WayOK'
    <2>1. OnWay(r)'
      BY <1>7 DEF OnWay, Is
    <2>. QED
      BY <1>1, <1>2, <1>6, <2>1, MoveWay
  <1>12. ParentsOK'
    BY <1>1, <1>2, <1>6, MoveParents
  <1>. QED
    BY <1>8, <1>9, <1>10, <1>11, <1>12 DEF Rest

\* It writes the audit event of r.
LEMMA EventRest ==
  ASSUME CollTyped, Rest, NEW r \in Posts, Is(r, {"audit", "log"}), Coll!Moves(r, "job"),
         backend # "postgres",
         db' = [db EXCEPT ![At(r)].audited = @ \cup {Rec(r)}],
         UNCHANGED <<backend, crashed, jobs, cache, hit>>
  PROVE  Rest'
  <1>1. StoredOK /\ DistinctOK /\ PendingOK /\ WayOK /\ ParentsOK
    BY DEF Rest
  <1>2. "job" \in Coll!Phase \cup Coll!Answer /\ Is(r, Coll!Phase) /\ Passed(r) /\ Wrote(r)
    BY DEF Is, Coll!Phase, Coll!Answer, Passed, Wrote
  <1>3. At(r) \in Coll!Places /\ Rec(r) \in Coll!Record
    BY SentIs DEF Is
  <1>4. db \in [Coll!Places -> Coll!Store]
    BY DEF CollTyped, Coll!TypeOK
  <1>5. /\ db'[At(r)].recs = db[At(r)].recs
        /\ db'[At(r)].audited = db[At(r)].audited \cup {Rec(r)}
        /\ \A y \in Coll!Places : y # At(r) => db'[y] = db[y]
    BY <1>3, <1>4 DEF Coll!Store
  <1>6. Grows(r)
    BY <1>3, <1>5 DEF Grows
  <1>7. /\ request'[r].phase = "job" /\ request'[r].proc = request[r].proc
        /\ Rec(r)' = Rec(r) /\ At(r)' = At(r)
    BY <1>2, MovedIs
  <1>8. StoredOK'
    BY <1>1, <1>2, <1>5, <1>6, MoveStored DEF StoredOK
  <1>9. DistinctOK'
    BY <1>1, <1>2, MoveDistinct DEF Has
  <1>10. PendingOK'
    <2>1. ~Coll!Uncommitted(r)'
      BY DEF Coll!Uncommitted
    <2>. QED
      BY <1>1, <1>2, <2>1, MovePending
  <1>11. WayOK'
    <2>1. OnWay(r)'
      BY <1>5, <1>7 DEF OnWay, Is
    <2>. QED
      BY <1>1, <1>2, <1>6, <2>1, MoveWay
  <1>12. ParentsOK'
    BY <1>1, <1>2, <1>5, <1>6, MoveParents
  <1>. QED
    BY <1>8, <1>9, <1>10, <1>11, <1>12 DEF Rest

\* It queues the job of r.
LEMMA JobRest ==
  ASSUME CollTyped, Rest, NEW r \in Posts, Is(r, {"job"}), Coll!Moves(r, "answer"),
         backend # "postgres",
         jobs' = [jobs EXCEPT ![At(r)] = @ \cup {Rec(r)}],
         UNCHANGED <<backend, crashed, db, cache, hit>>
  PROVE  Rest'
  <1>1. StoredOK /\ DistinctOK /\ PendingOK /\ WayOK /\ ParentsOK
    BY DEF Rest
  <1>2. "answer" \in Coll!Phase \cup Coll!Answer /\ Is(r, Coll!Phase) /\ Passed(r) /\ Wrote(r)
    BY DEF Is, Coll!Phase, Coll!Answer, Passed, Wrote
  <1>3. At(r) \in Coll!Places /\ Rec(r) \in Coll!Record
    BY SentIs DEF Is
  <1>4. jobs \in [Coll!Places -> SUBSET Coll!Record]
    BY DEF CollTyped, Coll!TypeOK
  <1>5. /\ jobs'[At(r)] = jobs[At(r)] \cup {Rec(r)}
        /\ \A y \in Coll!Places : y # At(r) => jobs'[y] = jobs[y]
    BY <1>3, <1>4
  <1>6. Grows(r)
    BY <1>3, <1>5 DEF Grows
  <1>8. StoredOK'
    BY <1>1, <1>2, <1>6, MoveStored DEF StoredOK
  <1>9. DistinctOK'
    BY <1>1, <1>2, MoveDistinct DEF Has
  <1>10. PendingOK'
    <2>1. ~Coll!Uncommitted(r)'
      BY DEF Coll!Uncommitted
    <2>. QED
      BY <1>1, <1>2, <2>1, MovePending
  <1>11. WayOK'
    <2>1. OnWay(r) => Rec(r) \in db[At(r)].audited
      BY DEF OnWay, Is, CollTyped
    <2>. QED
      BY <1>1, <1>2, <1>5, <1>6, <2>1, MoveWay
  <1>12. ParentsOK'
    BY <1>1, <1>2, <1>6, MoveParents
  <1>. QED
    BY <1>8, <1>9, <1>10, <1>11, <1>12 DEF Rest

\* PostgreSQL commits the three writes of r.
LEMMA PublishRest ==
  ASSUME CollTyped, Rest, NEW r \in Posts, Is(r, {"commit"}), NEW p \in {"answer", "failed"}, Coll!Moves(r, p), Coll!Publish(r),
         UNCHANGED <<backend, crashed, cache>>, hit \subseteq hit'
  PROVE  Rest'
  <1>1. StoredOK /\ DistinctOK /\ PendingOK /\ WayOK /\ ParentsOK
    BY DEF Rest
  <1>2. p \in Coll!Phase \cup Coll!Answer /\ p \notin {"created", "replayed"} /\ Is(r, Coll!Phase) /\ Passed(r)
    BY DEF Is, Coll!Phase, Coll!Answer, Passed
  <1>3. backend = "postgres"
    BY DEF CollTyped
  <1>4. At(r) = Disk /\ Disk \in Coll!Places
    BY <1>3 DEF At, Coll!Place, Coll!Places
  <1>5. db \in [Coll!Places -> Coll!Store] /\ jobs \in [Coll!Places -> SUBSET Coll!Record]
    BY DEF CollTyped, Coll!TypeOK
  <1>6. /\ db' = [db EXCEPT ![Disk].recs = @ \cup {Rec(r)}, ![Disk].audited = @ \cup {Rec(r)}]
        /\ jobs' = [jobs EXCEPT ![Disk] = @ \cup {Rec(r)}]
    BY DEF Coll!Publish, Rec
  <1>7. /\ db'[Disk].recs = db[Disk].recs \cup {Rec(r)}
        /\ db'[Disk].audited = db[Disk].audited \cup {Rec(r)}
        /\ jobs'[Disk] = jobs[Disk] \cup {Rec(r)}
        /\ \A y \in Coll!Places : y # Disk => db'[y] = db[y] /\ jobs'[y] = jobs[y]
    BY <1>4, <1>5, <1>6 DEF Coll!Store
  <1>8. Grows(r)
    BY <1>4, <1>7 DEF Grows
  <1>9. request'[r].phase = p
    BY <1>2, MovedIs
  <1>10. StoredOK'
    BY <1>1, <1>2, <1>4, <1>7, <1>8, MoveStored
  <1>11. Coll!Uncommitted(r) /\ ~Coll!Uncommitted(r)'
    BY <1>3, <1>9 DEF Coll!Uncommitted, Is
  <1>12. DistinctOK'
    <2>1. Free(Rec(r), db[At(r)].recs)
      BY <1>1, <1>4, <1>11 DEF PendingOK
    <2>. QED
      BY <1>1, <1>2, <2>1, MoveDistinct
  <1>13. PendingOK'
    BY <1>1, <1>2, <1>7, <1>11, MovePending
  <1>14. WayOK'
    BY <1>1, <1>2, <1>3, <1>4, <1>7, <1>8, MoveWay
  <1>15. ParentsOK'
    BY <1>1, <1>2, <1>8, MoveParents
  <1>. QED
    BY <1>10, <1>12, <1>13, <1>14, <1>15 DEF Rest

\* A move that leaves the images as they are keeps the types.
LEMMA StoreTyped ==
  ASSUME CollTyped, NEW r \in Posts, Is(r, Coll!Phase), NEW p \in Coll!Phase \cup Coll!Answer, Coll!Moves(r, p),
         UNCHANGED <<backend, crashed, image, cache, failed, overwrote, hit>>,
         db' \in [Coll!Places -> Coll!Store], jobs' \in [Coll!Places -> SUBSET Coll!Record],
         p \notin Writing, p = "commit" => backend = "postgres"
  PROVE  CollTyped'
  <1>1. /\ image' \in [Procs -> Coll!Store \cup {None}] /\ cache' \in [Procs -> SUBSET Coll!Ask]
        /\ failed' \in 0 .. MaxStoreFaults
    BY DEF CollTyped, Coll!TypeOK
  <1>2. overwrote' \in BOOLEAN
    BY DEF CollTyped, Coll!TypeOK
  <1>3. p # "store"
    BY DEF Writing
  <1>. QED
    BY <1>1, <1>2, <1>3, MoveTyped

\* A store with one more record, or one more event, is a store.
LEMMA MoreIsStore ==
  ASSUME db \in [Coll!Places -> Coll!Store], NEW x \in Coll!Places, NEW rec \in Coll!Record
  PROVE  /\ [db EXCEPT ![x].recs = @ \cup {rec}] \in [Coll!Places -> Coll!Store]
         /\ [db EXCEPT ![x].audited = @ \cup {rec}] \in [Coll!Places -> Coll!Store]
         /\ [db EXCEPT ![x].recs = @ \cup {rec}, ![x].audited = @ \cup {rec}] \in [Coll!Places -> Coll!Store]
         /\ db[x] \in Coll!Store
  BY DEF Coll!Store

\* A move that fails or finds the id taken before anything was written.
LEMMA RefusedKeeps ==
  ASSUME CollInv, NEW r \in Posts, Is(r, {"create", "insert"}), NEW p \in {"exists", "failed"}, Coll!Moves(r, p),
         UNCHANGED <<backend, db, jobs, image, cache, failed, hit, crashed, overwrote>>
  PROVE  CollInv'
  <1>1. CollTyped
    BY DEF CollInv
  <1>2. /\ p \in Coll!Phase \cup Coll!Answer /\ p \notin Coll!Phase /\ Is(r, Coll!Phase)
        /\ p \notin Writing \cup {"replayed", "created", "commit"}
    BY DEF Is, Coll!Phase, Coll!Answer, Writing
  <1>3. request'[r].phase = p
    BY <1>1, <1>2, MovedIs
  <1>4. ~Wrote(r)' /\ ~Coll!Uncommitted(r)'
    BY <1>3 DEF Is, Wrote, Coll!Uncommitted
  <1>5. ~OnWay(r)
    BY <1>1 DEF OnWay, Is, CollTyped
  <1>6. cache \in [Procs -> SUBSET Coll!Ask]
    BY <1>1 DEF CollTyped, Coll!TypeOK
  <1>. QED
    BY <1>2, <1>4, <1>5, <1>6, QuietMove

LEMMA CreateInMemoryKeeps == ASSUME CollInv, NEW r \in Posts, Coll!CreateInMemory(r) PROVE CollInv'
  <1>1. CollTyped
    BY DEF CollInv
  <1>2. Is(r, {"create"}) /\ backend = "memory"
    BY DEF Coll!CreateInMemory, Is
  <1>3. request[r].ask \in Coll!Ask /\ At(r) = request[r].proc /\ At(r) \in Coll!Places /\ Rec(r) \in Coll!Record
    BY <1>1, <1>2, SentIs DEF Is, At, Coll!Place
  <1>4. UNCHANGED <<backend, jobs, image, cache, failed, hit, crashed, overwrote>>
    BY DEF Coll!CreateInMemory, Coll!Keeps
  <1>5. CASE Coll!Taken(request[r].ask, db[request[r].proc].recs)
    <2>1. Coll!Moves(r, "exists") /\ UNCHANGED db
      BY <1>5 DEF Coll!CreateInMemory
    <2>. QED
      BY <1>2, <1>4, <2>1, RefusedKeeps DEF Is
  <1>6. CASE ~Coll!Taken(request[r].ask, db[request[r].proc].recs)
    <2>1. Coll!Moves(r, "audit") /\ db' = [db EXCEPT ![At(r)].recs = @ \cup {Rec(r)}]
      BY <1>3, <1>6 DEF Coll!CreateInMemory, Rec
    <2>2. Free(Rec(r), db[At(r)].recs)
      BY <1>3, <1>6, TakenIs DEF Rec
    <2>3. CollTyped'
      <3>1. db' \in [Coll!Places -> Coll!Store] /\ jobs' \in [Coll!Places -> SUBSET Coll!Record]
        BY <1>1, <1>3, <1>4, <2>1, MoreIsStore DEF CollTyped, Coll!TypeOK
      <3>2. "audit" \in Coll!Phase \cup Coll!Answer /\ Is(r, Coll!Phase) /\ "audit" \notin Writing
        BY <1>2 DEF Is, Coll!Phase, Coll!Answer, Writing
      <3>. QED
        BY <1>1, <1>4, <2>1, <3>1, <3>2, StoreTyped
    <2>4. ~overwrote => Rest'
      <3>1. Is(r, {"create", "insert", "store"}) /\ backend # "postgres"
        BY <1>2 DEF Is
      <3>2. ~overwrote => Rest
        BY DEF CollInv
      <3>. QED
        BY <1>1, <1>4, <2>1, <2>2, <3>1, <3>2, AddRest
    <2>. QED
      BY <1>4, <2>3, <2>4 DEF CollInv
  <1>. QED
    BY <1>5, <1>6

LEMMA InsertSqliteKeeps == ASSUME CollInv, NEW r \in Posts, Coll!InsertSqlite(r) PROVE CollInv'
  <1>1. CollTyped
    BY DEF CollInv
  <1>2. Is(r, {"insert"}) /\ backend = "sqlite"
    BY DEF Coll!InsertSqlite, Is
  <1>3. request[r].ask \in Coll!Ask /\ At(r) = Disk /\ At(r) \in Coll!Places /\ Rec(r) \in Coll!Record
    BY <1>1, <1>2, SentIs DEF Is, At, Coll!Place
  <1>4. UNCHANGED <<backend, jobs, image, cache, failed, hit, crashed, overwrote>>
    BY DEF Coll!InsertSqlite, Coll!Keeps
  <1>5. CASE Coll!Taken(request[r].ask, db[Disk].recs)
    <2>1. Coll!Moves(r, "failed") /\ UNCHANGED db
      BY <1>5 DEF Coll!InsertSqlite
    <2>. QED
      BY <1>2, <1>4, <2>1, RefusedKeeps DEF Is
  <1>6. CASE ~Coll!Taken(request[r].ask, db[Disk].recs)
    <2>1. Coll!Moves(r, "audit") /\ db' = [db EXCEPT ![At(r)].recs = @ \cup {Rec(r)}]
      BY <1>3, <1>6 DEF Coll!InsertSqlite, Rec
    <2>2. Free(Rec(r), db[At(r)].recs)
      BY <1>3, <1>6, TakenIs DEF Rec
    <2>3. CollTyped'
      <3>1. db' \in [Coll!Places -> Coll!Store] /\ jobs' \in [Coll!Places -> SUBSET Coll!Record]
        BY <1>1, <1>3, <1>4, <2>1, MoreIsStore DEF CollTyped, Coll!TypeOK
      <3>2. "audit" \in Coll!Phase \cup Coll!Answer /\ Is(r, Coll!Phase) /\ "audit" \notin Writing
        BY <1>2 DEF Is, Coll!Phase, Coll!Answer, Writing
      <3>. QED
        BY <1>1, <1>4, <2>1, <3>1, <3>2, StoreTyped
    <2>4. ~overwrote => Rest'
      <3>1. Is(r, {"create", "insert", "store"}) /\ backend # "postgres"
        BY <1>2 DEF Is
      <3>2. ~overwrote => Rest
        BY DEF CollInv
      <3>. QED
        BY <1>1, <1>4, <2>1, <2>2, <3>1, <3>2, AddRest
    <2>. QED
      BY <1>4, <2>3, <2>4 DEF CollInv
  <1>. QED
    BY <1>5, <1>6

LEMMA AuditKeeps == ASSUME CollInv, NEW r \in Posts, Coll!Audit(r) PROVE CollInv'
  <1>1. CollTyped
    BY DEF CollInv
  <1>2. Is(r, {"audit"}) /\ backend # "file" /\ Coll!Moves(r, "job")
    BY DEF Coll!Audit, Is
  <1>3. At(r) \in Coll!Places /\ Rec(r) \in Coll!Record
    BY <1>1, <1>2, SentIs DEF Is
  <1>4. UNCHANGED <<backend, jobs, image, cache, failed, hit, crashed, overwrote>>
    BY DEF Coll!Audit, Coll!Keeps
  <1>5. /\ "job" \in Coll!Phase \cup Coll!Answer /\ Is(r, Coll!Phase) /\ Is(r, {"audit", "log"}) /\ Passed(r)
        /\ "job" \notin Writing \cup {"replayed", "created", "commit"}
    BY <1>2 DEF Is, Coll!Phase, Coll!Answer, Writing, Passed
  <1>6. CASE backend = "postgres"
    <2>1. UNCHANGED db
      BY <1>6 DEF Coll!Audit
    <2>2. Coll!Uncommitted(r) /\ ~Wrote(r)'
      <3>1. request'[r].phase = "job"
        BY <1>1, <1>2, <1>4, <1>5, MovedIs
      <3>. QED
        BY <1>2, <1>4, <1>6, <3>1 DEF Coll!Uncommitted, Wrote, Is
    <2>3. cache \in [Procs -> SUBSET Coll!Ask]
      BY <1>1 DEF CollTyped, Coll!TypeOK
    <2>. QED
      BY <1>2, <1>4, <1>5, <1>6, <2>1, <2>2, <2>3, QuietMove
  <1>7. CASE backend # "postgres"
    <2>1. db' = [db EXCEPT ![At(r)].audited = @ \cup {Rec(r)}]
      BY <1>7 DEF Coll!Audit, Rec, At
    <2>2. CollTyped'
      <3>1. db' \in [Coll!Places -> Coll!Store] /\ jobs' \in [Coll!Places -> SUBSET Coll!Record]
        BY <1>1, <1>3, <1>4, <2>1, MoreIsStore DEF CollTyped, Coll!TypeOK
      <3>. QED
        BY <1>1, <1>2, <1>4, <1>5, <3>1, StoreTyped
    <2>3. ~overwrote => Rest'
      <3>1. ~overwrote => Rest
        BY DEF CollInv
      <3>. QED
        BY <1>1, <1>2, <1>4, <1>5, <1>7, <2>1, <3>1, EventRest
    <2>. QED
      BY <1>4, <2>2, <2>3 DEF CollInv
  <1>. QED
    BY <1>6, <1>7

LEMMA EnqueueKeeps == ASSUME CollInv, NEW r \in Posts, Coll!Enqueue(r) PROVE CollInv'
  <1>1. CollTyped
    BY DEF CollInv
  <1>2. Is(r, {"job"})
    BY DEF Coll!Enqueue, Is
  <1>3. At(r) \in Coll!Places /\ Rec(r) \in Coll!Record
    BY <1>1, <1>2, SentIs DEF Is
  <1>4. UNCHANGED <<backend, db, image, cache, failed, hit, crashed, overwrote>>
    BY DEF Coll!Enqueue, Coll!Keeps
  <1>5. /\ {"answer", "commit"} \subseteq Coll!Phase \cup Coll!Answer /\ Is(r, Coll!Phase) /\ Passed(r)
        /\ "commit" \notin Writing \cup {"replayed", "created"} /\ "answer" \notin Writing
    BY <1>2 DEF Is, Coll!Phase, Coll!Answer, Writing, Passed
  <1>6. CASE backend = "postgres"
    <2>1. UNCHANGED jobs /\ Coll!Moves(r, "commit")
      BY <1>6 DEF Coll!Enqueue
    <2>2. Coll!Uncommitted(r) /\ ~Wrote(r)'
      <3>1. request'[r].phase = "commit"
        BY <1>1, <1>4, <1>5, <2>1, MovedIs
      <3>. QED
        BY <1>2, <1>4, <1>6, <3>1 DEF Coll!Uncommitted, Wrote, Is
    <2>3. cache \in [Procs -> SUBSET Coll!Ask]
      BY <1>1 DEF CollTyped, Coll!TypeOK
    <2>. QED
      BY <1>4, <1>5, <1>6, <2>1, <2>2, <2>3, QuietMove
  <1>7. CASE backend # "postgres"
    <2>1. jobs' = [jobs EXCEPT ![At(r)] = @ \cup {Rec(r)}] /\ Coll!Moves(r, "answer")
      BY <1>7 DEF Coll!Enqueue, Rec, At
    <2>2. CollTyped'
      <3>1. db' \in [Coll!Places -> Coll!Store] /\ jobs' \in [Coll!Places -> SUBSET Coll!Record]
        BY <1>1, <1>3, <1>4, <2>1 DEF CollTyped, Coll!TypeOK
      <3>. QED
        BY <1>1, <1>4, <1>5, <2>1, <3>1, StoreTyped
    <2>3. ~overwrote => Rest'
      <3>1. ~overwrote => Rest
        BY DEF CollInv
      <3>. QED
        BY <1>1, <1>2, <1>4, <1>7, <2>1, <3>1, JobRest
    <2>. QED
      BY <1>4, <2>2, <2>3 DEF CollInv
  <1>. QED
    BY <1>6, <1>7

LEMMA CommitKeeps == ASSUME CollInv, NEW r \in Posts, Coll!Commit(r) PROVE CollInv'
  <1>1. CollTyped
    BY DEF CollInv
  <1>2. Is(r, {"commit"}) /\ Coll!Moves(r, "answer") /\ Coll!Publish(r)
    BY DEF Coll!Commit, Is
  <1>3. Rec(r) \in Coll!Record /\ Disk \in Coll!Places
    BY <1>1, <1>2, SentIs DEF Is, Coll!Places
  <1>4. UNCHANGED <<backend, image, cache, failed, hit, crashed, overwrote>>
    BY DEF Coll!Commit, Coll!Keeps
  <1>5. CollTyped'
    <2>1. db' \in [Coll!Places -> Coll!Store] /\ jobs' \in [Coll!Places -> SUBSET Coll!Record]
      BY <1>1, <1>2, <1>3, MoreIsStore DEF CollTyped, Coll!TypeOK, Coll!Publish, Rec
    <2>2. "answer" \in Coll!Phase \cup Coll!Answer /\ Is(r, Coll!Phase) /\ "answer" \notin Writing
      BY <1>2 DEF Is, Coll!Phase, Coll!Answer, Writing
    <2>. QED
      BY <1>1, <1>2, <1>4, <2>1, <2>2, StoreTyped
  <1>6. ~overwrote => Rest'
    <2>1. ~overwrote => Rest
      BY DEF CollInv
    <2>. QED
      BY <1>1, <1>2, <1>4, <2>1, PublishRest
  <1>. QED
    BY <1>4, <1>5, <1>6 DEF CollInv

\* No two requests of a process hold its image, so the others keep theirs.
LEMMA OthersKeepImage ==
  ASSUME CollTyped, NEW r \in Posts, Is(r, Writing) \/ (backend = "file" /\ ~Coll!Busy(request[r].proc)), NEW v,
         image' = [image EXCEPT ![request[r].proc] = v]
  PROVE  \A o \in Posts \ {r} : Is(o, Writing) => image'[request[o].proc] = image[request[o].proc]
  <1>1. ASSUME NEW o \in Posts \ {r}, Is(o, Writing)
        PROVE  request[o].proc # request[r].proc
    BY <1>1 DEF CollTyped, Coll!Busy, Is, Writing
  <1>2. ASSUME NEW o \in Posts \ {r}, Is(o, Writing)
        PROVE  request[o].proc \in Procs
    BY <1>2, SentIs DEF Is, Writing
  <1>3. image \in [Procs -> Coll!Store \cup {None}]
    BY DEF CollTyped, Coll!TypeOK
  <1>. QED
    BY <1>1, <1>2, <1>3

LEMMA ReadFileKeeps == ASSUME CollInv, NEW r \in Posts, Coll!ReadFile(r) PROVE CollInv'
  <1>1. CollTyped
    BY DEF CollInv
  <1>2. Is(r, {"create", "audit"}) /\ backend = "file" /\ ~Coll!Busy(request[r].proc)
    BY DEF Coll!ReadFile, Is
  <1>3. request[r].ask \in Coll!Ask /\ request[r].proc \in Procs /\ At(r) = Disk /\ At(r) \in Coll!Places
    BY <1>1, <1>2, SentIs DEF Is, At, Coll!Place
  <1>4. UNCHANGED <<backend, db, jobs, cache, failed, hit, crashed, overwrote>>
    BY DEF Coll!ReadFile, Coll!Keeps
  <1>5. CASE Is(r, {"create"}) /\ Coll!Taken(request[r].ask, db[Disk].recs)
    <2>1. Coll!Moves(r, "exists") /\ UNCHANGED image
      BY <1>5 DEF Coll!ReadFile, Is
    <2>. QED
      BY <1>4, <1>5, <2>1, RefusedKeeps DEF Is
  <1>6. ASSUME NEW p \in {"store", "log"}, Coll!Moves(r, p), image' = [image EXCEPT ![request[r].proc] = db[Disk]],
               p = "store" => Is(r, {"create"}) /\ ~Coll!Taken(request[r].ask, db[Disk].recs),
               p = "log" => Is(r, {"audit"})
        PROVE  CollInv'
    <2>1. /\ p \in Coll!Phase \cup Coll!Answer /\ Is(r, Coll!Phase) /\ Passed(r)
          /\ p \notin {"replayed", "created", "commit", "failed"}
      BY <1>2 DEF Is, Coll!Phase, Coll!Answer, Passed
    <2>2. image'[request[r].proc] = db[Disk] /\ db[Disk] \in Coll!Store /\ image' \in [Procs -> Coll!Store \cup {None}]
      BY <1>1, <1>3, <1>6 DEF CollTyped, Coll!TypeOK
    <2>3. p = "store" => Free(Rec(r), image'[request[r].proc].recs)
      BY <1>3, <1>6, <2>2, TakenIs DEF Rec
    <2>4. \A o \in Posts \ {r} : Is(o, Writing) => image'[request[o].proc] = image[request[o].proc]
      BY <1>1, <1>2, <1>6, OthersKeepImage
    <2>5. CollTyped'
      <3>1. /\ db' \in [Coll!Places -> Coll!Store] /\ jobs' \in [Coll!Places -> SUBSET Coll!Record] /\ cache' \in [Procs -> SUBSET Coll!Ask]
            /\ failed' \in 0 .. MaxStoreFaults /\ hit' = hit
        BY <1>1, <1>4 DEF CollTyped, Coll!TypeOK
      <3>2. overwrote' \in BOOLEAN
        BY <1>1, <1>4 DEF CollTyped, Coll!TypeOK
      <3>. QED
        BY <1>1, <1>2, <1>4, <1>6, <2>1, <2>2, <2>3, <2>4, <3>1, <3>2, MoveTyped
    <2>6. request'[r].phase = p
      BY <1>1, <1>4, <1>6, <2>1, MovedIs
    <2>7. Wrote(r)' => Wrote(r)
      BY <1>2, <1>6, <2>6 DEF Wrote, Is
    <2>8. ~Coll!Uncommitted(r)'
      BY <2>6 DEF Coll!Uncommitted
    <2>9. OnWay(r) => OnWay(r)'
      BY <1>1, <1>2, <1>6, <2>6 DEF OnWay, Is, CollTyped
    <2>10. ~overwrote => Rest'
      <3>1. ~overwrote => Rest
        BY DEF CollInv
      <3>. QED
        BY <1>1, <1>4, <1>6, <2>1, <2>7, <2>8, <2>9, <3>1, QuietRest
    <2>. QED
      BY <1>4, <2>5, <2>10 DEF CollInv
  <1>7. CASE Is(r, {"create"}) /\ ~Coll!Taken(request[r].ask, db[Disk].recs)
    BY <1>6, <1>7 DEF Coll!ReadFile, Is
  <1>8. CASE Is(r, {"audit"})
    BY <1>6, <1>8 DEF Coll!ReadFile, Is
  <1>. QED
    BY <1>2, <1>5, <1>7, <1>8 DEF Is

LEMMA WriteFileKeeps == ASSUME CollInv, NEW r \in Posts, Coll!WriteFile(r) PROVE CollInv'
  <1>1. CollTyped
    BY DEF CollInv
  <1>2. Is(r, Writing) /\ Is(r, {"store", "log"})
    BY DEF Coll!WriteFile, Is, Writing
  <1>3. request[r].proc \in Procs /\ At(r) = Disk /\ At(r) \in Coll!Places /\ Rec(r) \in Coll!Record
        /\ backend = "file" /\ image[request[r].proc] \in Coll!Store
    BY <1>1, <1>2, SentIs DEF Is, Writing, At, Coll!Place, CollTyped
  <1>4. UNCHANGED <<backend, jobs, cache, failed, hit, crashed>>
    BY DEF Coll!WriteFile, Coll!Keeps
  <1>5. PICK p \in {"audit", "job"} : Coll!Moves(r, p) /\ (p = "audit" <=> Is(r, {"store"}))
    BY DEF Coll!WriteFile, Is
  <1>6. p \in Coll!Phase \cup Coll!Answer /\ Is(r, Coll!Phase) /\ p \notin Writing \cup {"commit", "failed", "store"}
    BY <1>2 DEF Is, Coll!Phase, Coll!Answer, Writing
  <1>7. image' = [image EXCEPT ![request[r].proc] = None]
    BY DEF Coll!WriteFile
  <1>8. db' = [db EXCEPT ![Disk] =
                 IF Is(r, {"store"})
                 THEN [image[request[r].proc] EXCEPT !.recs = @ \cup {Rec(r)}]
                 ELSE [image[request[r].proc] EXCEPT !.audited = @ \cup {Rec(r)}]]
    BY DEF Coll!WriteFile, Is, Rec
  <1>9. overwrote' = (overwrote \/ db[Disk] # image[request[r].proc])
    BY DEF Coll!WriteFile
  <1>10. CollTyped'
    <2>1. image' \in [Procs -> Coll!Store \cup {None}]
      BY <1>1, <1>3, <1>7 DEF CollTyped, Coll!TypeOK
    <2>2. \A o \in Posts \ {r} : Is(o, Writing) => image'[request[o].proc] = image[request[o].proc]
      BY <1>1, <1>2, <1>7, OthersKeepImage
    <2>3. db' \in [Coll!Places -> Coll!Store]
      <3>1. /\ [image[request[r].proc] EXCEPT !.recs = @ \cup {Rec(r)}] \in Coll!Store
            /\ [image[request[r].proc] EXCEPT !.audited = @ \cup {Rec(r)}] \in Coll!Store
        BY <1>3 DEF Coll!Store
      <3>2. db \in [Coll!Places -> Coll!Store]
        BY <1>1 DEF CollTyped, Coll!TypeOK
      <3>. QED
        BY <1>8, <3>1, <3>2
    <2>4. /\ jobs' \in [Coll!Places -> SUBSET Coll!Record] /\ cache' \in [Procs -> SUBSET Coll!Ask]
          /\ failed' \in 0 .. MaxStoreFaults /\ hit' = hit
      BY <1>1, <1>4 DEF CollTyped, Coll!TypeOK
    <2>5. overwrote' \in BOOLEAN
      BY <1>9
    <2>. QED
      BY <1>1, <1>4, <1>5, <1>6, <2>1, <2>2, <2>3, <2>4, <2>5, MoveTyped
  <1>11. ASSUME ~overwrote'
         PROVE  Rest'
    <2>1. ~overwrote /\ image[request[r].proc] = db[Disk]
      BY <1>9, <1>11
    <2>2. Rest
      BY <2>1 DEF CollInv
    <2>3. backend # "postgres"
      BY <1>3
    <2>4. CASE Is(r, {"store"})
      <3>1. db' = [db EXCEPT ![At(r)].recs = @ \cup {Rec(r)}]
        BY <1>3, <1>8, <2>1, <2>4
      <3>2. Free(Rec(r), db[At(r)].recs)
        BY <1>1, <1>3, <2>1, <2>4 DEF CollTyped
      <3>3. Is(r, {"create", "insert", "store"}) /\ Coll!Moves(r, "audit")
        BY <1>5, <2>4 DEF Is
      <3>. QED
        BY <1>1, <1>4, <2>2, <2>3, <3>1, <3>2, <3>3, AddRest
    <2>5. CASE ~Is(r, {"store"})
      <3>1. db' = [db EXCEPT ![At(r)].audited = @ \cup {Rec(r)}]
        BY <1>3, <1>8, <2>1, <2>5
      <3>2. Is(r, {"audit", "log"}) /\ Coll!Moves(r, "job")
        BY <1>2, <1>5, <2>5 DEF Is
      <3>. QED
        BY <1>1, <1>4, <2>2, <2>3, <3>1, <3>2, EventRest
    <2>. QED
      BY <2>4, <2>5
  <1>. QED
    BY <1>10, <1>11 DEF CollInv

LEMMA FaultKeeps == ASSUME Coll!CollectionAssumption, CollInv, NEW r \in Posts, Coll!Fault(r) PROVE CollInv'
  <1>1. CollTyped
    BY DEF CollInv
  <1>2. Is(r, Coll!Phase \ {"guard", "answer"}) /\ Coll!Moves(r, "failed")
    BY DEF Coll!Fault, Is
  <1>3. request[r].proc \in Procs /\ Rec(r) \in Coll!Record /\ Disk \in Coll!Places
    BY <1>1, <1>2, SentIs DEF Is, Coll!Phase, Coll!Places
  <1>4. UNCHANGED <<backend, cache, crashed, overwrote>> /\ failed' = failed + 1 /\ failed < MaxStoreFaults /\ hit' = hit \cup {r}
    BY DEF Coll!Fault
  <1>5. "failed" \in Coll!Phase \cup Coll!Answer /\ Is(r, Coll!Phase) /\ "failed" \notin Writing \cup {"commit", "store", "replayed", "created"} \cup Coll!Phase
    BY <1>2 DEF Is, Coll!Phase, Coll!Answer, Writing
  <1>7. image' = [image EXCEPT ![request[r].proc] = IF Is(r, Writing) THEN None ELSE @]
    BY DEF Coll!Fault, Is, Writing
  <1>8. (UNCHANGED <<db, jobs>>) \/ (Is(r, {"commit"}) /\ Coll!Publish(r))
    BY DEF Coll!Fault, Is
  <1>9. CollTyped'
    <2>1. image \in [Procs -> Coll!Store \cup {None}]
      BY <1>1 DEF CollTyped, Coll!TypeOK
    <2>2. image' \in [Procs -> Coll!Store \cup {None}]
      BY <1>3, <1>7, <2>1
    <2>3. \A o \in Posts \ {r} : Is(o, Writing) => image'[request[o].proc] = image[request[o].proc]
      <3>1. CASE Is(r, Writing)
        BY <1>1, <1>7, <3>1, OthersKeepImage
      <3>2. CASE ~Is(r, Writing)
        BY <1>3, <1>7, <2>1, <3>2
      <3>. QED
        BY <3>1, <3>2
    <2>4. db' \in [Coll!Places -> Coll!Store] /\ jobs' \in [Coll!Places -> SUBSET Coll!Record]
      <3>1. db \in [Coll!Places -> Coll!Store] /\ jobs \in [Coll!Places -> SUBSET Coll!Record]
        BY <1>1 DEF CollTyped, Coll!TypeOK
      <3>2. CASE UNCHANGED <<db, jobs>>
        BY <3>1, <3>2
      <3>3. CASE Coll!Publish(r)
        BY <1>3, <3>1, <3>3, MoreIsStore DEF Coll!Publish, Rec
      <3>. QED
        BY <1>8, <3>2, <3>3
    <2>5. cache' \in [Procs -> SUBSET Coll!Ask]
      BY <1>1, <1>4 DEF CollTyped, Coll!TypeOK
    <2>6. failed' \in 0 .. MaxStoreFaults
      <3>1. MaxStoreFaults \in Nat /\ failed \in 0 .. MaxStoreFaults
        BY <1>1 DEF Coll!CollectionAssumption, CollTyped, Coll!TypeOK
      <3>. QED
        BY <1>4, <3>1
    <2>7. overwrote' \in BOOLEAN
      BY <1>1, <1>4 DEF CollTyped, Coll!TypeOK
    <2>. QED
      BY <1>1, <1>2, <1>4, <1>5, <2>2, <2>3, <2>4, <2>5, <2>6, <2>7, MoveTyped
  <1>10. ASSUME ~overwrote
         PROVE  Rest'
    <2>1. Rest
      BY <1>10 DEF CollInv
    <2>2. CASE UNCHANGED <<db, jobs>>
      <3>1. request'[r].phase = "failed"
        BY <1>1, <1>2, <1>4, <1>5, MovedIs
      <3>2. ~Wrote(r)' /\ ~Coll!Uncommitted(r)' /\ OnWay(r)'
        BY <1>4, <3>1 DEF Wrote, Coll!Uncommitted, OnWay, Is
      <3>. QED
        BY <1>1, <1>2, <1>4, <1>5, <2>1, <2>2, <3>2, QuietRest
    <2>3. CASE Is(r, {"commit"}) /\ Coll!Publish(r)
      BY <1>1, <1>2, <1>4, <2>1, <2>3, PublishRest
    <2>. QED
      BY <1>8, <2>2, <2>3
  <1>. QED
    BY <1>4, <1>9, <1>10 DEF CollInv

\* A replayed answer is of a record that is stored, and a request that is
\* only sent has no part in the rest.
LEMMA SendKeeps ==
  ASSUME CollInv, NEW r \in Posts, NEW p \in Procs, NEW ask \in Bodies, Bodies \subseteq Coll!Ask, Coll!Send(r, p, ask)
  PROVE  CollInv'
  <1>1. CollTyped
    BY DEF CollInv
  <1>2. UNCHANGED <<backend, db, jobs, image, cache, failed, hit, crashed, overwrote>> /\ Is(r, {"unsent"}) /\ p \in Procs
    BY DEF Coll!Send, Coll!Writes, Coll!Keeps, Is
  <1>3. cache \in [Procs -> SUBSET Coll!Ask] /\ ask \in Coll!Ask
    BY <1>1 DEF CollTyped, Coll!TypeOK
  <1>4. PICK ph \in {"guard", "replayed"}, a \in Coll!Ask :
          /\ request' = [request EXCEPT ![r] = [phase |-> ph, proc |-> p, ask |-> a]]
          /\ ph = "guard" => a = ask
          /\ ph = "replayed" => \E c \in cache[p] : Coll!Written(a) = Coll!Written(c)
    <2>1. CASE {c \in cache[p] : c.tenant = ask.tenant /\ c.kind = ask.kind /\ c.key = ask.key} = {}
      BY <1>3, <2>1 DEF Coll!Send
    <2>2. ASSUME NEW c \in cache[p], c.tenant = ask.tenant, c.kind = ask.kind,
                 request' = [request EXCEPT ![r] = [phase |-> "replayed", proc |-> p,
                               ask |-> [ask EXCEPT !.id = c.id, !.parent = c.parent]]]
          PROVE  \E a \in Coll!Ask : /\ request' = [request EXCEPT ![r] = [phase |-> "replayed", proc |-> p, ask |-> a]]
                                /\ Coll!Written(a) = Coll!Written(c)
      <3>1. c \in Coll!Ask
        BY <1>3
      <3>2. [ask EXCEPT !.id = c.id, !.parent = c.parent] \in Coll!Ask
        BY <1>3, <3>1 DEF Coll!Ask
      <3>3. Coll!Written([ask EXCEPT !.id = c.id, !.parent = c.parent]) = Coll!Written(c)
        BY <1>3, <2>2, <3>1 DEF Coll!Ask, Coll!Written
      <3>. QED
        BY <2>2, <3>2, <3>3
    <2>3. CASE {c \in cache[p] : c.tenant = ask.tenant /\ c.kind = ask.kind /\ c.key = ask.key} # {}
      <3>1. PICK c \in cache[p] :
              /\ c.tenant = ask.tenant /\ c.kind = ask.kind
              /\ request' = [request EXCEPT ![r] = [phase |-> "replayed", proc |-> p,
                               ask |-> [ask EXCEPT !.id = c.id, !.parent = c.parent]]]
        BY <2>3 DEF Coll!Send
      <3>. QED
        BY <2>2, <3>1
    <2>. QED
      BY <2>1, <2>3
  <1>5. request' = [o \in Posts |-> IF o = r THEN [phase |-> ph, proc |-> p, ask |-> a] ELSE request[o]]
    <2>1. request = [o \in Posts |-> request[o]]
      BY <1>1 DEF CollTyped
    <2>. QED
      BY <1>4, <2>1
  <1>6. /\ request'[r] = [phase |-> ph, proc |-> p, ask |-> a]
        /\ \A o \in Posts : o # r => request'[o] = request[o]
    BY <1>5
  <1>7. \A o \in Posts : o # r => Rec(o)' = Rec(o) /\ At(o)' = At(o)
    BY <1>2, <1>6 DEF Rec, At, Coll!Written, Coll!Place
  <1>8. Rec(r)' = Coll!Written(a) /\ At(r)' = Coll!Place(p)
    BY <1>2, <1>6 DEF Rec, At, Coll!Written, Coll!Place
  <1>9. r \notin hit
    BY <1>1, <1>2 DEF CollTyped, Is
  <1>10. CollTyped'
    <2>1. Coll!TypeOK'
      <3>1. ASSUME NEW o \in Posts
            PROVE  \/ request'[o] = Coll!NoRequest
                   \/ request'[o] \in [phase : Coll!Phase \cup Coll!Answer, proc : Procs, ask : Coll!Ask]
        <4>1. ph \in Coll!Phase \cup Coll!Answer
          BY DEF Coll!Phase, Coll!Answer
        <4>. QED
          BY <1>1, <1>6, <4>1 DEF CollTyped, Coll!TypeOK
      <3>. QED
        BY <1>1, <1>2, <3>1 DEF CollTyped, Coll!TypeOK, Coll!NoRequest, Coll!Places
    <2>2. request' = [o \in Posts |-> request'[o]]
      BY <1>5
    <2>3. \A o \in Posts : ~Is(o, {"unsent", "replayed"})' => request'[o].ask \in Bodies
      BY <1>1, <1>4, <1>6 DEF CollTyped, Is
    <2>4. \A o \in Posts : Is(o, {"commit"})' => backend' = "postgres"
      BY <1>1, <1>2, <1>6 DEF CollTyped, Is
    <2>5. \A o \in Posts : Is(o, Writing)' => o # r
      BY <1>6 DEF Is, Writing
    <2>6. \A o \in Posts : Is(o, Writing)' => backend' = "file" /\ image'[request'[o].proc] \in Coll!Store
      BY <1>1, <1>2, <1>6, <2>5 DEF CollTyped, Is, Writing
    <2>7. \A x, o \in Posts : Is(x, Writing)' /\ Is(o, Writing)' /\ request'[x].proc = request'[o].proc => x = o
      BY <1>1, <1>6, <2>5 DEF CollTyped, Is, Writing
    <2>8. \A o \in Posts : Is(o, {"store"})' => Free(Rec(o)', image'[request'[o].proc].recs)
      BY <1>1, <1>2, <1>6, <1>7 DEF CollTyped, Is
    <2>9. \A o \in hit' : Is(o, {"failed"})'
      <3>1. hit \subseteq Posts
        BY <1>1 DEF CollTyped, Coll!TypeOK
      <3>. QED
        BY <1>1, <1>2, <1>6, <1>9, <3>1 DEF CollTyped, Is
    <2>. QED
      BY <2>1, <2>2, <2>3, <2>4, <2>6, <2>7, <2>8, <2>9 DEF CollTyped, Free, Rec, Coll!Written
  <1>11. ASSUME ~overwrote
         PROVE  Rest'
    <2>1. StoredOK /\ DistinctOK /\ PendingOK /\ WayOK /\ ParentsOK
      BY <1>11 DEF CollInv, Rest
    <2>2. ~Wrote(r)' /\ ~Has(r)' /\ ~Coll!Uncommitted(r)' /\ ~Passed(r)'
      BY <1>6 DEF Wrote, Has, Coll!Uncommitted, Passed, Is, Coll!Phase
    <2>3. \A o \in Posts : o # r =>
            /\ Wrote(o)' <=> Wrote(o)
            /\ (Coll!Acknowledged(o) /\ Alive(o))' <=> Coll!Acknowledged(o) /\ Alive(o)
            /\ Has(o)' <=> Has(o)
            /\ Coll!Uncommitted(o)' <=> Coll!Uncommitted(o)
            /\ Passed(o)' <=> Passed(o)
      BY <1>2, <1>6 DEF Wrote, Has, Coll!Uncommitted, Passed, Is, Coll!Acknowledged, Alive
    <2>4. StoredOK'
      <3>1. Coll!Acknowledged(r)' => Coll!Written(a) \in db[Coll!Place(p)].recs
        BY <1>4, <1>6, <2>1 DEF Coll!Acknowledged, StoredOK
      <3>2. \A o \in Posts : (Wrote(o) \/ (Coll!Acknowledged(o) /\ Alive(o)))' => Rec(o)' \in db'[At(o)'].recs
        BY <1>2, <1>7, <1>8, <2>1, <2>2, <2>3, <3>1 DEF StoredOK
      <3>3. \A q \in Procs : \A c \in cache'[q] : Coll!Written(c) \in db'[Coll!Place(q)'].recs
        BY <1>2, <2>1 DEF StoredOK, Coll!Place
      <3>. QED
        BY <3>2, <3>3 DEF StoredOK, Coll!Written
    <2>5. DistinctOK'
      BY <1>7, <2>1, <2>2, <2>3 DEF DistinctOK, Free
    <2>6. PendingOK'
      BY <1>2, <1>7, <2>1, <2>2, <2>3 DEF PendingOK, Free
    <2>7. WayOK'
      <3>1. ~OnWay(r)
        BY <1>2, <1>9 DEF OnWay, Is
      <3>2. \A o \in Posts : OnWay(o) => OnWay(o)' /\ o # r
        BY <1>2, <1>6, <1>7, <3>1 DEF OnWay, Is
      <3>. QED
        BY <1>2, <1>7, <2>1, <3>2 DEF WayOK, Whole, Coll!Places
    <2>8. ParentsOK'
      BY <1>2, <1>7, <2>1, <2>2, <2>3 DEF ParentsOK, Coll!HasParent, Coll!Places
    <2>. QED
      BY <2>4, <2>5, <2>6, <2>7, <2>8 DEF Rest
  <1>. QED
    BY <1>2, <1>10, <1>11 DEF CollInv

\* A crash loses the requests on their way, and the memory of the process.
LEMMA CrashKeeps ==
  ASSUME Coll!CollectionAssumption, CollInv, NEW p \in Procs, Coll!Crash(p)
  PROVE  CollInv'
  <1>1. CollTyped
    BY DEF CollInv
  <1>2. /\ UNCHANGED <<backend, hit, overwrote>> /\ failed < MaxStoreFaults /\ failed' = failed + 1
        /\ crashed' = crashed \cup {p}
    BY DEF Coll!Crash
  <1>3. request' = [o \in Posts |-> IF request[o].proc = p /\ Coll!InFlight(o)
                                       THEN [request[o] EXCEPT !.phase = "lost"] ELSE request[o]]
    BY DEF Coll!Crash
  <1>4. ASSUME NEW o \in Posts
        PROVE  /\ request'[o] = Coll!NoRequest \/ request'[o] \in [phase : Coll!Phase \cup Coll!Answer, proc : Procs, ask : Coll!Ask]
               /\ request'[o].phase = IF request[o].proc = p /\ Is(o, Coll!Phase) THEN "lost" ELSE request[o].phase
               /\ request'[o].proc = request[o].proc /\ request'[o].ask = request[o].ask
    <2>1. CASE request[o].proc = p /\ Is(o, Coll!Phase)
      <3>1. request[o] \in [phase : Coll!Phase \cup Coll!Answer, proc : Procs, ask : Coll!Ask]
        BY <1>1, <2>1, SentIs DEF Is, Coll!Phase
      <3>2. request'[o] = [request[o] EXCEPT !.phase = "lost"]
        BY <1>3, <2>1 DEF Coll!InFlight, Is
      <3>3. "lost" \in Coll!Phase \cup Coll!Answer
        BY DEF Coll!Answer
      <3>. QED
        BY <2>1, <3>1, <3>2, <3>3
    <2>2. CASE ~(request[o].proc = p /\ Is(o, Coll!Phase))
      <3>1. request'[o] = request[o]
        BY <1>3, <2>2 DEF Coll!InFlight, Is
      <3>. QED
        BY <1>1, <2>2, <3>1 DEF CollTyped, Coll!TypeOK
    <2>. QED
      BY <2>1, <2>2
  <1>5. \A o \in Posts : Rec(o)' = Rec(o) /\ At(o)' = At(o)
    BY <1>2, <1>4 DEF Rec, At, Coll!Written, Coll!Place
  <1>6. Disk # p /\ Disk \in Coll!Places /\ p \in Coll!Places
    BY DEF Coll!CollectionAssumption, Coll!Places
  <1>7. /\ db \in [Coll!Places -> Coll!Store] /\ jobs \in [Coll!Places -> SUBSET Coll!Record]
        /\ image \in [Procs -> Coll!Store \cup {None}] /\ cache \in [Procs -> SUBSET Coll!Ask]
    BY <1>1 DEF CollTyped, Coll!TypeOK
  <1>8. /\ db'[p] = [recs |-> Seed, audited |-> {}]
        /\ \A y \in Coll!Places : y # p => db'[y] = db[y] /\ jobs'[y] = jobs[y]
        /\ cache'[p] = {} /\ \A q \in Procs : q # p => cache'[q] = cache[q] /\ image'[q] = image[q]
    BY <1>6, <1>7 DEF Coll!Crash
  <1>9. \A o \in Posts : Is(o, Coll!Phase)' => Is(o, Coll!Phase) /\ request[o].proc # p /\ request'[o].phase = request[o].phase
    BY <1>4 DEF Is, Coll!Phase
  <1>10. CollTyped'
    <2>1. Coll!TypeOK'
      <3>1. db' \in [Coll!Places -> Coll!Store] /\ jobs' \in [Coll!Places -> SUBSET Coll!Record]
        <4>1. [recs |-> Seed, audited |-> {}] \in Coll!Store
          BY DEF Coll!CollectionAssumption, Coll!Store
        <4>. QED
          BY <1>6, <1>7, <4>1 DEF Coll!Crash
      <3>2. image' \in [Procs -> Coll!Store \cup {None}] /\ cache' \in [Procs -> SUBSET Coll!Ask]
        BY <1>7 DEF Coll!Crash
      <3>3. failed' \in 0 .. MaxStoreFaults
        <4>1. MaxStoreFaults \in Nat /\ failed \in 0 .. MaxStoreFaults
          BY <1>1 DEF Coll!CollectionAssumption, CollTyped, Coll!TypeOK
        <4>. QED
          BY <1>2, <4>1
      <3>4. backend' \in Backends /\ crashed' \subseteq Procs /\ hit' \subseteq Posts
        BY <1>1, <1>2 DEF CollTyped, Coll!TypeOK
      <3>5. overwrote' \in BOOLEAN
        BY <1>1, <1>2 DEF CollTyped, Coll!TypeOK
      <3>. QED
        BY <1>4, <3>1, <3>2, <3>3, <3>4, <3>5 DEF Coll!TypeOK, Coll!NoRequest, Coll!Places
    <2>2. request' = [o \in Posts |-> request'[o]]
      BY <1>3
    <2>3. \A o \in Posts : ~Is(o, {"unsent", "replayed"})' => request'[o].ask \in Bodies
      BY <1>1, <1>4 DEF CollTyped, Is, Coll!Phase
    <2>4. \A o \in Posts : Is(o, {"commit"})' => backend' = "postgres"
      BY <1>1, <1>2, <1>4 DEF CollTyped, Is
    <2>5. \A o \in Posts : Is(o, Writing)' => Is(o, Writing) /\ request[o].proc # p /\ request[o].proc \in Procs
      <3>1. \A o \in Posts : Is(o, Writing)' => Is(o, Writing) /\ request[o].proc # p
        BY <1>4 DEF Is, Writing, Coll!Phase
      <3>. QED
        BY <1>1, <3>1, SentIs DEF Is, Writing
    <2>6. \A o \in Posts : Is(o, Writing)' => backend' = "file" /\ image'[request'[o].proc] \in Coll!Store
      BY <1>1, <1>2, <1>4, <1>8, <2>5 DEF CollTyped
    <2>7. \A x, o \in Posts : Is(x, Writing)' /\ Is(o, Writing)' /\ request'[x].proc = request'[o].proc => x = o
      BY <1>1, <1>4, <2>5 DEF CollTyped
    <2>8. \A o \in Posts : Is(o, {"store"})' => Free(Rec(o)', image'[request'[o].proc].recs)
      <3>1. \A o \in Posts : Is(o, {"store"})' => Is(o, {"store"}) /\ Is(o, Writing)'
        BY <1>4 DEF Is, Writing
      <3>. QED
        BY <1>1, <1>4, <1>5, <1>8, <2>5, <3>1 DEF CollTyped
    <2>9. \A o \in hit' : Is(o, {"failed"})'
      <3>1. hit \subseteq Posts
        BY <1>1 DEF CollTyped, Coll!TypeOK
      <3>. QED
        BY <1>1, <1>2, <1>4, <3>1 DEF CollTyped, Is, Coll!Phase
    <2>. QED
      BY <2>1, <2>2, <2>3, <2>4, <2>6, <2>7, <2>8, <2>9 DEF CollTyped, Free, Rec, Coll!Written
  <1>11. ASSUME ~overwrote
         PROVE  Rest'
    <2>1. StoredOK /\ DistinctOK /\ PendingOK /\ WayOK /\ ParentsOK
      BY <1>11 DEF CollInv, Rest
    <2>2. ASSUME NEW o \in Posts, Is(o, Coll!Phase)' \/ (Coll!Acknowledged(o) /\ Alive(o))'
          PROVE  /\ request'[o].phase = request[o].phase
                 /\ At(o) \in Coll!Places /\ db'[At(o)] = db[At(o)] /\ jobs'[At(o)] = jobs[At(o)]
                 /\ Alive(o)' => Alive(o)
      <3>1. request'[o].phase = request[o].phase /\ ~Is(o, {"unsent"})
        BY <1>4, <1>9, <2>2 DEF Coll!Acknowledged, Is, Coll!Phase
      <3>2. At(o) \in Coll!Places
        BY <1>1, <3>1, SentIs
      <3>3. At(o) # p
        BY <1>2, <1>4, <1>6, <1>9, <2>2 DEF At, Coll!Place, Alive
      <3>4. Alive(o)' => Alive(o)
        BY <1>2, <1>4 DEF Alive
      <3>. QED
        BY <1>8, <3>1, <3>2, <3>3, <3>4
    <2>3. \A o \in Posts :
            /\ Wrote(o)' => Wrote(o) /\ Is(o, Coll!Phase)'
            /\ Coll!Uncommitted(o)' => Coll!Uncommitted(o)
            /\ Passed(o)' => Passed(o) /\ Is(o, Coll!Phase)'
      <3>1. ASSUME NEW o \in Posts
            PROVE  /\ Wrote(o)' => Wrote(o) /\ Is(o, Coll!Phase)'
                   /\ Coll!Uncommitted(o)' => Coll!Uncommitted(o)
                   /\ Passed(o)' => Passed(o) /\ Is(o, Coll!Phase)'
        <4>1. request'[o].phase \in {request[o].phase, "lost"}
          BY <1>4
        <4>. QED
          BY <1>2, <4>1 DEF Wrote, Coll!Uncommitted, Passed, Is, Coll!Phase
      <3>. QED
        BY <3>1
    <2>4. ASSUME NEW o \in Posts, Has(o)'
          PROVE  Has(o)
      <3>1. CASE Wrote(o)'
        BY <2>3, <3>1 DEF Has
      <3>2. CASE Is(o, {"created"})' /\ Alive(o)'
        BY <2>2, <3>2 DEF Has, Is, Coll!Acknowledged
      <3>. QED
        BY <2>4, <3>1, <3>2 DEF Has
    <2>5. StoredOK'
      <3>1. ASSUME NEW o \in Posts, (Wrote(o) \/ (Coll!Acknowledged(o) /\ Alive(o)))'
            PROVE  Rec(o)' \in db'[At(o)'].recs
        <4>1. Is(o, Coll!Phase)' \/ (Coll!Acknowledged(o) /\ Alive(o))'
          BY <2>3, <3>1
        <4>2. Wrote(o) \/ (Coll!Acknowledged(o) /\ Alive(o))
          <5>1. CASE Wrote(o)'
            BY <2>3, <5>1
          <5>2. CASE (Coll!Acknowledged(o) /\ Alive(o))'
            BY <2>2, <5>2 DEF Coll!Acknowledged
          <5>. QED
            BY <3>1, <5>1, <5>2
        <4>. QED
          BY <1>5, <2>1, <2>2, <4>1, <4>2 DEF StoredOK
      <3>2. ASSUME NEW q \in Procs, NEW c \in cache'[q]
            PROVE  Coll!Written(c) \in db'[Coll!Place(q)'].recs
        <4>1. q # p /\ c \in cache[q]
          BY <1>8, <3>2
        <4>2. Coll!Place(q) \in Coll!Places /\ Coll!Place(q) # p /\ Coll!Place(q)' = Coll!Place(q)
          BY <1>2, <1>6, <4>1 DEF Coll!Place, Coll!Places
        <4>. QED
          BY <1>8, <2>1, <4>1, <4>2 DEF StoredOK
      <3>. QED
        BY <3>1, <3>2 DEF StoredOK, Coll!Written
    <2>6. DistinctOK'
      BY <1>5, <2>1, <2>4 DEF DistinctOK, Free
    <2>7. PendingOK'
      BY <1>5, <1>6, <1>8, <2>1, <2>3 DEF PendingOK, Free
    <2>8. WayOK'
      <3>1. ASSUME NEW x \in Coll!Places, NEW rec \in db'[x].recs \ Seed
            PROVE  \/ rec \in db'[x].audited /\ rec \in jobs'[x]
                   \/ backend' # "postgres" /\ \E o \in Posts : At(o)' = x /\ Rec(o)' = rec /\ OnWay(o)'
        <4>1. x # p
          BY <1>8, <3>1
        <4>2. db'[x] = db[x] /\ jobs'[x] = jobs[x]
          BY <1>8, <4>1
        <4>3. ASSUME NEW o \in Posts, At(o) = x, Rec(o) = rec, OnWay(o)
              PROVE  OnWay(o)'
          <5>1. CASE o \in hit
            BY <1>2, <5>1 DEF OnWay
          <5>2. CASE o \notin hit /\ request'[o].phase = "lost"
            BY <5>2 DEF OnWay, Is
          <5>3. CASE o \notin hit /\ request'[o].phase # "lost"
            <6>1. request'[o].phase = request[o].phase
              BY <1>4, <5>3
            <6>2. Rec(o)' \in db'[At(o)'].audited <=> Rec(o) \in db[At(o)].audited
              BY <1>5, <4>2, <4>3
            <6>. QED
              BY <1>2, <4>3, <5>3, <6>1, <6>2 DEF OnWay, Is
          <5>. QED
            BY <5>1, <5>2, <5>3
        <4>. QED
          BY <1>2, <1>5, <2>1, <3>1, <4>2, <4>3 DEF WayOK, Whole
      <3>. QED
        BY <3>1 DEF WayOK, Whole, Coll!Places
    <2>9. ParentsOK'
      <3>1. ASSUME NEW x \in Coll!Places, NEW rec \in db'[x].recs
            PROVE  Coll!HasParent(rec, db'[x].recs)
        <4>1. CASE x = p
          BY <1>8, <3>1, <4>1 DEF Coll!CollectionAssumption
        <4>2. CASE x # p
          BY <1>8, <2>1, <3>1, <4>2 DEF ParentsOK
        <4>. QED
          BY <4>1, <4>2
      <3>2. ASSUME NEW o \in Posts, Passed(o)'
            PROVE  Coll!HasParent(Rec(o)', db'[At(o)'].recs)
        BY <1>5, <2>1, <2>2, <2>3, <3>2 DEF ParentsOK
      <3>. QED
        BY <3>1, <3>2 DEF ParentsOK, Coll!HasParent, Coll!Places
    <2>. QED
      BY <2>5, <2>6, <2>7, <2>8, <2>9 DEF Rest
  <1>. QED
    BY <1>2, <1>10, <1>11 DEF CollInv

LEMMA CollStep == ASSUME Coll!CollectionAssumption, CollInv, [Coll!Next]_Coll!vars PROVE CollInv'
  <1>1. ASSUME NEW r \in Posts, NEW p \in Procs, NEW ask \in Bodies, Coll!Send(r, p, ask)
        PROVE  CollInv'
    BY <1>1, SendKeeps DEF Coll!CollectionAssumption
  <1>2. ASSUME NEW r \in Posts,
               \/ Coll!Guard(r) \/ Coll!Invalid(r)
               \/ Coll!CreateInMemory(r) \/ Coll!ReadFile(r) \/ Coll!WriteFile(r)
               \/ Coll!Select(r) \/ Coll!InsertSqlite(r) \/ Coll!InsertPostgres(r)
               \/ Coll!Audit(r) \/ Coll!Enqueue(r) \/ Coll!Commit(r) \/ Coll!Created(r) \/ Coll!Fault(r)
        PROVE  CollInv'
    BY <1>2, GuardKeeps, InvalidKeeps, CreateInMemoryKeeps, ReadFileKeeps, WriteFileKeeps, SelectKeeps, InsertSqliteKeeps,
       InsertPostgresKeeps, AuditKeeps, EnqueueKeeps, CommitKeeps, CreatedKeeps, FaultKeeps
  <1>3. ASSUME NEW p \in Procs, Coll!Crash(p)
        PROVE  CollInv'
    BY <1>3, CrashKeeps
  <1>4. CASE UNCHANGED Coll!vars
    <2>1. UNCHANGED <<backend, db, jobs, image, cache, request, failed, hit, crashed, overwrote>>
      BY <1>4 DEF Coll!vars
    <2>2. CollTyped => CollTyped'
      BY <2>1 DEF CollTyped, Coll!TypeOK, Is, Writing, Free, Rec, Coll!Written, Coll!NoRequest, Coll!Places
    <2>3. StoredOK => StoredOK'
      BY <2>1 DEF StoredOK, Wrote, Coll!Acknowledged, Alive, Is, Rec, At, Coll!Written, Coll!Place
    <2>4. DistinctOK => DistinctOK'
      BY <2>1 DEF DistinctOK, Has, Wrote, Alive, Is, Rec, At, Coll!Written, Coll!Place, Free
    <2>5. PendingOK => PendingOK'
      BY <2>1 DEF PendingOK, Coll!Uncommitted, Rec, Coll!Written, Free
    <2>6. WayOK => WayOK'
      BY <2>1 DEF WayOK, Whole, OnWay, Is, Rec, At, Coll!Written, Coll!Place, Coll!Places
    <2>7. ParentsOK => ParentsOK'
      BY <2>1 DEF ParentsOK, Coll!HasParent, Passed, Is, Rec, At, Coll!Written, Coll!Place, Coll!Places
    <2>. QED
      BY <2>1, <2>2, <2>3, <2>4, <2>5, <2>6, <2>7 DEF CollInv, Rest
  <1>. QED
    BY <1>1, <1>2, <1>3, <1>4 DEF Coll!Next

LEMMA CollKeeps ==
  ASSUME Coll!CollectionAssumption, CollInv
  PROVE  Coll!TypeOK /\ Coll!AcknowledgedIsKept /\ Coll!EvidenceIsWhole /\ Coll!ChildInTenant
  <1>1. CollTyped
    BY DEF CollInv
  <1>2. Coll!TypeOK
    BY <1>1 DEF CollTyped
  <1>3. ASSUME ~overwrote
        PROVE  StoredOK /\ DistinctOK /\ WayOK /\ ParentsOK
    BY <1>3 DEF CollInv, Rest
  <1>4. Coll!AcknowledgedIsKept
    <2>1. ASSUME NEW r \in Posts, Coll!Acknowledged(r), ~(backend = "memory" /\ request[r].proc \in crashed), ~overwrote
          PROVE  Coll!Written(request[r].ask) \in db[Coll!Place(request[r].proc)].recs
      BY <1>3, <2>1 DEF StoredOK, Alive, Rec, At
    <2>2. ASSUME NEW r \in Posts, NEW o \in Posts \ {r}, ~(backend = "memory" /\ request[r].proc \in crashed), ~overwrote,
                 request[o].phase = "created", request[r].phase = "created",
                 Coll!Place(request[o].proc) = Coll!Place(request[r].proc)
          PROVE  ~Coll!Taken(request[o].ask, {Coll!Written(request[r].ask)})
      <3>1. Has(r) /\ Has(o) /\ At(r) = At(o)
        BY <2>2 DEF Has, Is, Alive, At, Coll!Place
      <3>2. Free(Rec(o), {Rec(r)})
        BY <1>3, <2>2, <3>1 DEF DistinctOK
      <3>3. request[o].ask \in Coll!Ask
        BY <1>1, <2>2, SentIs DEF Is
      <3>. QED
        BY <3>2, <3>3, TakenIs DEF Rec
    <2>. QED
      BY <2>1, <2>2 DEF Coll!AcknowledgedIsKept
  <1>5. Coll!EvidenceIsWhole
    <2>1. ASSUME NEW r \in Posts, OnWay(r), backend # "postgres"
          PROVE  Coll!UnderWay(Rec(r))
      <3>1. ~Is(r, {"unsent"})
        BY <1>1, <2>1 DEF OnWay, Is, CollTyped
      <3>2. ~Is(r, {"unsent", "replayed"})
        BY <1>1, <2>1 DEF OnWay, Is, CollTyped
      <3>3. request[r].ask # None
        BY <1>1, <3>2 DEF CollTyped, Coll!CollectionAssumption
      <3>. QED
        BY <2>1, <3>3 DEF Coll!UnderWay, OnWay, Is, Coll!InFlight, Coll!Phase, Rec
    <2>2. ASSUME ~overwrote, NEW x \in Coll!Places, NEW rec \in db[x].recs \ Seed
          PROVE  \/ rec \in db[x].audited /\ rec \in jobs[x]
                 \/ backend # "postgres" /\ Coll!UnderWay(rec)
      BY <1>3, <2>1, <2>2 DEF WayOK, Whole
    <2>. QED
      BY <2>2 DEF Coll!EvidenceIsWhole
  <1>6. Coll!ChildInTenant
    BY <1>3 DEF Coll!ChildInTenant, ParentsOK
  <1>. QED
    BY <1>2, <1>4, <1>5, <1>6

-----------------------------------------------------------------------------
(* The components together: each keeps its invariant while the others rest. *)

RecordsInv ==
  /\ machine = "collections" => CollInv
  /\ machine = "findings" => DispInv
  /\ machine = "lifecycles" => LifeInv
  /\ machine = "pages" => ListInv /\ WalkInv

recordsVars == <<machine, vars, auditVars, collVars, dispVars, lifeVars, listVars>>

\* A step is one of the component that machine names, and leaves the others alone.
LEMMA StepOfOne ==
  ASSUME [RecordsNext]_recordsVars
  PROVE  /\ machine' = machine
         /\ [Next]_vars
         /\ machine = "trail" => [Audit!Next]_Audit!vars
         /\ machine = "collections" => [Coll!Next]_Coll!vars
         /\ machine = "findings" => [Disp!Next]_Disp!vars
         /\ machine = "lifecycles" => [Life!Next]_Life!vars
         /\ machine = "pages" => [List!Next]_List!vars
  <1>1. CASE ReportsStep
    BY <1>1 DEF ReportsStep
  <1>2. CASE TrailStep
    BY <1>2 DEF TrailStep
  <1>3. CASE CollectionsStep
    BY <1>3 DEF CollectionsStep
  <1>4. CASE FindingsStep
    BY <1>4 DEF FindingsStep
  <1>5. CASE LifecyclesStep
    BY <1>5 DEF LifecyclesStep
  <1>6. CASE PagesStep
    BY <1>6 DEF PagesStep
  <1>7. CASE UNCHANGED recordsVars
    BY <1>7 DEF recordsVars, auditVars, collVars, dispVars, lifeVars, listVars,
       Audit!vars, Coll!vars, Disp!vars, Life!vars, List!vars
  <1>. QED
    BY <1>1, <1>2, <1>3, <1>4, <1>5, <1>6, <1>7 DEF RecordsNext

LEMMA RecordsAlways == RecordsSpec => []RecordsInv
  <1>1. /\ Coll!CollectionAssumption /\ Disp!DispositionAssumption
        /\ Life!LifecycleAssumption /\ List!ListingAssumption
    BY RecordsAssumption
  <1>2. RecordsInit => RecordsInv
    <2>1. SUFFICES ASSUME RecordsInit PROVE RecordsInv
      OBVIOUS
    <2>2. /\ machine = "collections" => Coll!Init
          /\ machine = "findings" => Disp!Init
          /\ machine = "lifecycles" => Life!Init
          /\ machine = "pages" => List!Init
      BY <2>1 DEF RecordsInit
    <2>. QED
      BY <1>1, <2>2, CollInit, DispInit, LifeInit, ListInit, WalkInit DEF RecordsInv
  <1>3. RecordsInv /\ [RecordsNext]_recordsVars => RecordsInv'
    <2>1. SUFFICES ASSUME RecordsInv, [RecordsNext]_recordsVars
                   PROVE  RecordsInv'
      OBVIOUS
    <2>2. machine = "collections" => CollInv'
      BY <1>1, <2>1, StepOfOne, CollStep DEF RecordsInv
    <2>3. machine = "findings" => DispInv'
      BY <1>1, <2>1, StepOfOne, DispStep DEF RecordsInv
    <2>4. machine = "lifecycles" => LifeInv'
      BY <1>1, <2>1, StepOfOne, LifeStep DEF RecordsInv
    <2>5. machine = "pages" => ListInv' /\ WalkInv'
      BY <1>1, <2>1, StepOfOne, ListStep, WalkStep DEF RecordsInv
    <2>. QED
      BY <2>1, <2>2, <2>3, <2>4, <2>5, StepOfOne DEF RecordsInv
  <1>. QED
    BY <1>2, <1>3, PTL DEF RecordsSpec, recordsVars

\* A behaviour of Records is one of the field reports, where they may also rest.
LEMMA ReportsRun == RecordsSpec => Spec
  <1>1. RecordsInit => Init
    BY DEF RecordsInit
  <1>2. [RecordsNext]_recordsVars => [Next]_vars
    BY StepOfOne
  <1>. QED
    BY <1>1, <1>2, PTL DEF RecordsSpec, Spec, recordsVars

(* The audit trail has its theorems in AuditProofs. *)
Chained == INSTANCE AuditProofs

LEMMA TrailRuns == RecordsSpec /\ machine = "trail" => Chained!Spec /\ [](machine = "trail")
  <1>1. RecordsInit /\ machine = "trail" => Chained!Init
    <2>1. RecordsInit /\ machine = "trail" => Audit!Init
      BY DEF RecordsInit
    <2>2. Audit!Init => Chained!Init
      BY DEF Audit!Init, Chained!Init
    <2>. QED
      BY <2>1, <2>2
  <1>2. machine = "trail" /\ [RecordsNext]_recordsVars => [Chained!Next]_Chained!vars /\ (machine = "trail")'
    <2>1. machine = "trail" /\ [RecordsNext]_recordsVars => [Audit!Next]_Audit!vars /\ (machine = "trail")'
      BY StepOfOne
    <2>2. [Audit!Next]_Audit!vars => [Chained!Next]_Chained!vars
      BY DEF Audit!Phase, Chained!Phase, Audit!Row, Chained!Row, Audit!Committed, Chained!Committed, Audit!Visible,
         Chained!Visible, Audit!IsLast, Chained!IsLast, Audit!Step, Chained!Step, Audit!Release, Chained!Release,
         Audit!Begin, Chained!Begin, Audit!ReadTail, Chained!ReadTail, Audit!Insert, Chained!Insert, Audit!Commit,
         Chained!Commit, Audit!Rollback, Chained!Rollback, Audit!Next, Chained!Next, Audit!vars, Chained!vars
    <2>. QED
      BY <2>1, <2>2
  <1>. QED
    BY <1>1, <1>2, PTL DEF RecordsSpec, Chained!Spec, recordsVars
\* The trail of Records is the trail that AuditProofs is about.
LEMMA TrailStatements ==
  /\ Chained!TypeOK => Audit!TypeOK
  /\ Chained!TrailIsSound => Audit!TrailIsSound
  <1>1. Chained!TypeOK => Audit!TypeOK
    BY DEF Audit!TypeOK, Chained!TypeOK, Audit!Row, Chained!Row, Audit!Phase, Chained!Phase
  <1>2. Chained!LockedTrailVerifies => Audit!LockedTrailVerifies
    BY DEF Audit!LockedTrailVerifies, Chained!LockedTrailVerifies, Audit!TrailVerifies, Chained!TrailVerifies,
       Audit!Verifies, Chained!Verifies, Audit!OnlyLocking, Chained!OnlyLocking,
       Audit!Committed, Chained!Committed, Audit!IsLast, Chained!IsLast
  <1>3. Chained!ForkNeedsUnlocked => Audit!ForkNeedsUnlocked
    BY DEF Audit!ForkNeedsUnlocked, Chained!ForkNeedsUnlocked, Audit!Committed, Chained!Committed
  <1>4. Chained!NoDanglingLink => Audit!NoDanglingLink
    BY DEF Audit!NoDanglingLink, Chained!NoDanglingLink, Audit!Committed, Chained!Committed
  <1>. QED
    BY <1>1, <1>2, <1>3, <1>4 DEF Audit!TrailIsSound, Chained!TrailIsSound

LEMMA TrailAlways ==
  RecordsSpec => [](machine = "trail" => Audit!TypeOK /\ Audit!TrailIsSound)
  <1>1. Chained!AuditAssumption
    BY RecordsAssumption DEF Audit!AuditAssumption, Chained!AuditAssumption
  <1>2. Chained!Spec => []Chained!TypeOK /\ []Chained!TrailIsSound
    BY <1>1, Chained!TypeCorrect, Chained!TrailSound
  <1>3. ~(machine = "trail") /\ [RecordsNext]_recordsVars => ~(machine = "trail")'
    BY StepOfOne
  <1>4. RecordsSpec => [][RecordsNext]_recordsVars
    BY DEF RecordsSpec, recordsVars
  <1>. QED
    BY <1>2, <1>3, <1>4, TrailRuns, TrailStatements, PTL

\* The fields, lists and stores of every component are always of their types.
THEOREM RecordTypes == RecordsSpec => []TypesOK
  <1>1. CollInv => Coll!TypeOK
    BY DEF CollInv, CollTyped
  <1>2. DispInv => Disp!TypeOK
    BY DEF DispInv, DispOK, Disp!TypeOK
  <1>3. LifeInv => Life!TypeOK
    BY DEF LifeInv, PermitOK, ProjectOK, ItemOK, Life!TypeOK
  <1>4. ListInv => List!TypeOK
    BY DEF ListInv
  <1>5. TypeOK /\ RecordsInv /\ (machine = "trail" => Audit!TypeOK /\ Audit!TrailIsSound) => TypesOK
    BY <1>1, <1>2, <1>3, <1>4 DEF RecordsInv, TypesOK
  <1>. QED
    BY <1>5, RecordsAlways, ReportsRun, TrailAlways, TypeCorrect, PTL

\* For any writers, with and without the advisory lock: the trail verifies while
\* all of them lock, two events are linked to one only where a writer did not, and
\* no event is linked to one that was rolled back.
THEOREM AuditTrailIsSound == RecordsSpec => []TrailIsSound
  <1>1. (machine = "trail" => Audit!TypeOK /\ Audit!TrailIsSound) => TrailIsSound
    BY DEF TrailIsSound
  <1>. QED
    BY <1>1, TrailAlways, PTL

\* For any requests and processes, over each of the four repositories and with
\* faults and crashes anywhere: what was answered with 201, or replayed under its
\* Idempotency-Key, is stored, and no two requests were told they created one id.
THEOREM AcknowledgedStays == RecordsSpec => []AcknowledgedIsKept
  <1>1. RecordsInv => AcknowledgedIsKept
    BY CollKeeps, RecordsAssumption DEF RecordsInv, AcknowledgedIsKept
  <1>. QED
    BY <1>1, RecordsAlways, PTL

\* A stored record has its audit event and its job: in PostgreSQL at every moment,
\* elsewhere unless the creation is on its way or was broken off.
THEOREM EvidenceStays == RecordsSpec => []EvidenceIsWhole
  <1>1. RecordsInv => EvidenceIsWhole
    BY CollKeeps, RecordsAssumption DEF RecordsInv, EvidenceIsWhole
  <1>. QED
    BY <1>1, RecordsAlways, PTL

\* No interleaving of the guard's read with the writes of others leaves a record
\* without a parent in its own tenant.
THEOREM ChildrenHaveParents == RecordsSpec => []ChildInTenant
  <1>1. RecordsInv => ChildInTenant
    BY CollKeeps, RecordsAssumption DEF RecordsInv, ChildInTenant
  <1>. QED
    BY <1>1, RecordsAlways, PTL

\* However the requests on one finding interleave, and wherever they are broken
\* off: it shows what one of them asked for, and its trail tells the steps.
THEOREM DispositionsAreTold == RecordsSpec => []DispositionIsTold
  <1>1. RecordsInv => DispositionIsTold
    BY DispTold DEF RecordsInv, DispositionIsTold
  <1>. QED
    BY <1>1, RecordsAlways, PTL

\* Whatever copies the callers act on, and for any number of cycles of review: the
\* transition tables have no way round their approvals.
THEOREM NoWayRoundTables == RecordsSpec => []NoWayRound
  <1>1. LifeInv => Life!NoWayRound
    BY DEF LifeInv, PermitOK, ProjectOK, ItemOK, Life!NoWayRound
  <1>2. RecordsInv => NoWayRound
    BY <1>1 DEF RecordsInv, NoWayRound
  <1>. QED
    BY <1>2, RecordsAlways, PTL

\* However long the list, and however its reports are saved while a client follows
\* nextOffset: what the pages miss, and what they repeat, is no more than the saves
\* that moved, added to or took from the list.
THEOREM WalkIsFair == RecordsSpec => []WalkMissesOnlyShifted
  <1>1. RecordsInv => WalkMissesOnlyShifted
    BY WalkIsPaid DEF RecordsInv, WalkMissesOnlyShifted
  <1>. QED
    BY <1>1, RecordsAlways, PTL

LEMMA LogStatements ==
  /\ Chained!Log!Init => Audit!Log!Init
  /\ [Chained!OnlyLocking' => Chained!Log!Next]_(Chained!Trail) =>
       (Audit!OnlyLocking' => Audit!Log!Next \/ UNCHANGED Audit!Trail)
  <1>0. ASSUME NEW S PROVE Chained!Cardinality(S) = Audit!Cardinality(S)
    BY DEF Chained!Cardinality, Audit!Cardinality
  <1>1. Chained!Trail = Audit!Trail
    BY <1>0 DEF Chained!Trail, Audit!Trail, Chained!Committed, Audit!Committed
  <1>2. Chained!Trail' = Audit!Trail'
    BY <1>0 DEF Chained!Trail, Audit!Trail, Chained!Committed, Audit!Committed
  <1>3. Chained!OnlyLocking' <=> Audit!OnlyLocking'
    BY DEF Chained!OnlyLocking, Audit!OnlyLocking
  <1>4. Chained!Log!Next => Audit!Log!Next
    BY <1>1, <1>2 DEF Chained!Log!Next, Audit!Log!Next
  <1>5. Chained!Log!Init => Audit!Log!Init
    BY <1>1 DEF Chained!Log!Init, Audit!Log!Init
  <1>. QED
    BY <1>1, <1>2, <1>3, <1>4, <1>5

\* While all writers lock, each commit adds the events of its transaction behind
\* those that a reader has got before, linked to the last of them.
THEOREM TrailIsAppended == RecordsSpec => TrailGrowsAsLog
  <1>1. Chained!AuditAssumption
    BY RecordsAssumption DEF Audit!AuditAssumption, Chained!AuditAssumption
  <1>2. Chained!Spec => Chained!TrailGrowsAsLog
    BY <1>1, Chained!TrailIsLog
  <1>3. ~(machine = "trail") /\ [RecordsNext]_recordsVars => ~(machine = "trail")'
    BY StepOfOne
  <1>4. RecordsSpec => [][RecordsNext]_recordsVars
    BY DEF RecordsSpec, recordsVars
  <1>. QED
    BY <1>2, <1>3, <1>4, TrailRuns, LogStatements, PTL DEF TrailGrowsAsLog, Chained!TrailGrowsAsLog
=============================================================================
