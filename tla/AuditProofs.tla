------------------------------ MODULE AuditProofs ------------------------------
(***************************************************************************)
(* Theorems about the audit trail of a tenant, for any writers, with and   *)
(* without the advisory lock, and any events they append.                  *)
(***************************************************************************)
EXTENDS AuditChain, FiniteSetTheorems, FunctionTheorems, TLAPS

-----------------------------------------------------------------------------
(* Rows and their writers. *)

Active == {"open", "linking"}

WriterOK(w) ==
  /\ writer[w] \in [phase : Phase, inserted : Nat, read : EventIds \cup {Null}]
  /\ writer[w].phase = "linking" => writer[w].inserted + 1 \in 1 .. Len(Appends[w])
  /\ w \in Locking => (lock = w <=> writer[w].phase \in Active)

\* A row that is not committed belongs to a transaction that is open.
RowOK(e) ==
  /\ e \in Row
  /\ e.seq <= seq
  /\ e.committed <=> writer[e.by].phase = "committed"
  /\ writer[e.by].phase \in Active \cup {"committed"}

Distinct == \A e, f \in rows : e.id = f.id \/ e.seq = f.seq => e = f

Typed ==
  /\ seq \in Nat
  /\ lock \in Writers \cup {Null}
  /\ DOMAIN writer = Writers /\ writer = [w \in Writers |-> writer[w]]
  /\ \A w \in Writers : WriterOK(w)
  /\ \A e \in rows : RowOK(e)
  /\ Distinct

(* What a step of one writer is to the others. *)

\* The row that Insert makes.
NewRow(w) == [id |-> Appends[w][writer[w].inserted + 1], prev |-> writer[w].read, seq |-> seq + 1,
              by |-> w, committed |-> FALSE]

CommittedRow(w, e) == IF e.by = w THEN [e EXCEPT !.committed = TRUE] ELSE e

\* The event that a writer is about to append.
LEMMA NextId ==
  ASSUME AuditAssumption, Typed, NEW w \in Writers, writer[w].phase = "linking"
  PROVE  Appends[w][writer[w].inserted + 1] \in EventIds
  <1>1. Appends[w] \in Seq(EventIds) /\ writer[w].inserted + 1 \in 1 .. Len(Appends[w])
    BY DEF AuditAssumption, Typed, WriterOK
  <1>. QED
    BY <1>1

LEMMA TypedInit == ASSUME AuditAssumption, Init PROVE Typed
  <1>1. \A w \in Writers : w # Null
    BY DEF AuditAssumption
  <1>. QED
    BY <1>1 DEF Init, Typed, WriterOK, Distinct, Phase, Active

\* A writer's own step, when its row and the lock are as they should be.
LEMMA WriterStep ==
  ASSUME AuditAssumption, Typed, NEW w \in Writers, NEW new,
         writer' = [writer EXCEPT ![w] = new],
         lock' \in {lock, w, Null},
         lock' = lock \/ lock = Null \/ lock = w,
         lock' = w => w \in Locking \/ lock = w,
         WriterOK(w)'
  PROVE  /\ lock' \in Writers \cup {Null}
         /\ writer' = [v \in Writers |-> writer'[v]]
         /\ \A v \in Writers : WriterOK(v)'
         /\ \A v \in Writers : v # w => writer'[v] = writer[v]
         /\ writer'[w] = new
         /\ DOMAIN writer' = Writers
  <1>1. \A v \in Writers : v # Null
    BY DEF AuditAssumption
  <1>2. /\ \A v \in Writers : v # w => writer'[v] = writer[v]
        /\ writer'[w] = new
        /\ DOMAIN writer' = Writers /\ writer' = [v \in Writers |-> writer'[v]]
    BY DEF Typed
  <1>3. ASSUME NEW v \in Writers, v # w PROVE WriterOK(v)'
    <2>1. writer'[v] = writer[v] /\ WriterOK(v)
      BY <1>2, <1>3 DEF Typed
    <2>2. lock' = v <=> lock = v
      BY <1>1, <1>3
    <2>. QED
      BY <2>1, <2>2 DEF WriterOK
  <1>. QED
    BY <1>2, <1>3 DEF Typed

LEMMA TypedStep == ASSUME AuditAssumption, Typed, [Next]_vars PROVE Typed'
  <1>0. \A v \in Writers : v # Null
    BY DEF AuditAssumption
  <1>1. ASSUME NEW w \in Writers
        PROVE  WriterOK(w) /\ writer[w] \in [phase : Phase, inserted : Nat, read : EventIds \cup {Null}]
    BY DEF Typed, WriterOK
  <1>2. \A e \in rows : RowOK(e) /\ e \in Row /\ e.by \in Writers
    BY DEF Typed, RowOK, Row
  <1>3. ASSUME NEW w \in Writers, Begin(w) PROVE Typed'
    <2> DEFINE new == [writer[w] EXCEPT !.phase = "open"]
    <2>1. writer' = [writer EXCEPT ![w] = new] /\ UNCHANGED <<rows, seq>> /\ writer[w].phase = "idle"
      BY <1>3 DEF Begin, Step
    <2>2. new \in [phase : Phase, inserted : Nat, read : EventIds \cup {Null}] /\ new.phase = "open"
      BY <1>1 DEF Phase
    <2> HIDE DEF new
    <2>3. writer'[w] = new
      BY <2>1 DEF Typed
    <2>4. IF w \in Locking THEN lock = Null /\ lock' = w ELSE lock' = lock
      BY <1>3 DEF Begin
    <2>5. WriterOK(w)'
      BY <2>2, <2>3, <2>4 DEF WriterOK, Active
    <2>6. /\ lock' \in Writers \cup {Null} /\ writer' = [v \in Writers |-> writer'[v]]
          /\ \A v \in Writers : WriterOK(v)' /\ (v # w => writer'[v] = writer[v])
          /\ DOMAIN writer' = Writers
      BY <2>1, <2>4, <2>5, WriterStep
    <2>7. \A e \in rows : RowOK(e)'
      BY <1>2, <2>1, <2>6 DEF RowOK, Active
    <2>. QED
      BY <2>1, <2>6, <2>7 DEF Typed, Distinct
  <1>4. ASSUME NEW w \in Writers, ReadTail(w) PROVE Typed'
    <2>1. PICK last \in EventIds \cup {Null} :
            writer' = [writer EXCEPT ![w].phase = "linking", ![w].read = last]
      BY <1>4 DEF ReadTail
    <2> DEFINE new == [writer[w] EXCEPT !.phase = "linking", !.read = last]
    <2>2. /\ writer' = [writer EXCEPT ![w] = new] /\ UNCHANGED <<rows, seq, lock>>
          /\ writer[w].phase = "open" /\ writer[w].inserted < Len(Appends[w])
      BY <1>4, <2>1 DEF ReadTail
    <2>3. /\ new \in [phase : Phase, inserted : Nat, read : EventIds \cup {Null}]
          /\ new.phase = "linking" /\ new.inserted = writer[w].inserted
      BY <1>1 DEF Phase
    <2> HIDE DEF new
    <2>4. writer'[w] = new
      BY <2>2 DEF Typed
    <2>5. Len(Appends[w]) \in Nat
      BY DEF AuditAssumption
    <2>6. WriterOK(w)'
      BY <1>1, <2>2, <2>3, <2>4, <2>5 DEF WriterOK, Active
    <2>7. /\ lock' \in Writers \cup {Null} /\ writer' = [v \in Writers |-> writer'[v]]
          /\ \A v \in Writers : WriterOK(v)' /\ (v # w => writer'[v] = writer[v])
          /\ DOMAIN writer' = Writers
      BY <2>2, <2>6, WriterStep
    <2>8. \A e \in rows : RowOK(e)'
      BY <1>2, <2>2, <2>3, <2>4, <2>7 DEF RowOK, Active
    <2>. QED
      BY <2>2, <2>7, <2>8 DEF Typed, Distinct
  <1>5. ASSUME NEW w \in Writers, Insert(w) PROVE Typed'
    <2> DEFINE count == writer[w].inserted + 1
               new == [writer[w] EXCEPT !.phase = "open", !.inserted = count]
    <2>0. PICK n : n = NewRow(w)
      OBVIOUS
    <2>1. /\ writer' = [writer EXCEPT ![w] = new] /\ UNCHANGED lock /\ seq' = seq + 1
          /\ writer[w].phase = "linking"
          /\ rows' \in {rows, rows \cup {n}}
          /\ rows' # rows => \A e \in rows : e.id # n.id
      BY <1>5, <2>0 DEF Insert, NewRow
    <2>2. /\ new \in [phase : Phase, inserted : Nat, read : EventIds \cup {Null}]
          /\ new.phase = "open"
      <3>1. count \in Nat
        BY <1>1
      <3> HIDE DEF count
      <3>. QED
        BY <1>1, <3>1 DEF Phase
    <2> HIDE DEF new
    <2>3. writer'[w] = new
      BY <2>1 DEF Typed
    <2>4. WriterOK(w)'
      BY <1>1, <2>1, <2>2, <2>3 DEF WriterOK, Active
    <2>5. /\ lock' \in Writers \cup {Null} /\ writer' = [v \in Writers |-> writer'[v]]
          /\ \A v \in Writers : WriterOK(v)' /\ (v # w => writer'[v] = writer[v])
          /\ DOMAIN writer' = Writers
      BY <2>1, <2>4, WriterStep
    <2>6. \A e \in rows : RowOK(e)'
      <3>1. seq \in Nat /\ \A e \in rows : e.seq \in Nat /\ e.seq <= seq'
        BY <1>2, <2>1 DEF RowOK, Row, Typed
      <3>. QED
        BY <1>2, <2>1, <2>2, <2>3, <2>5, <3>1 DEF RowOK, Active
    <2>7. n \in Row /\ n.seq = seq + 1 /\ n.by = w /\ n.committed = FALSE
      BY <1>1, <2>0, <2>1, NextId DEF NewRow, Row, Typed
    <2>8. RowOK(n)'
      BY <2>1, <2>2, <2>3, <2>7 DEF RowOK, Active, Typed
    <2>9. Distinct'
      <3>1. \A e \in rows : e.seq # n.seq
        BY <1>2, <2>7 DEF RowOK, Row, Typed
      <3>2. Distinct
        BY DEF Typed
      <3>. QED
        BY <2>1, <3>1, <3>2 DEF Distinct
    <2>. QED
      BY <2>1, <2>5, <2>6, <2>8, <2>9 DEF Typed
  <1>6. ASSUME NEW w \in Writers, Commit(w) PROVE Typed'
    <2> DEFINE new == [writer[w] EXCEPT !.phase = "committed"]
    <2>1. /\ writer' = [writer EXCEPT ![w] = new] /\ UNCHANGED seq /\ writer[w].phase = "open"
          /\ rows' = {CommittedRow(w, e) : e \in rows}
          /\ lock' = IF lock = w THEN Null ELSE lock
      BY <1>6 DEF Commit, Step, Release, CommittedRow
    <2>2. /\ new \in [phase : Phase, inserted : Nat, read : EventIds \cup {Null}]
          /\ new.phase = "committed"
      BY <1>1 DEF Phase
    <2> HIDE DEF new
    <2>3. writer'[w] = new
      BY <2>1 DEF Typed
    <2>4. WriterOK(w)'
      BY <1>0, <1>1, <2>1, <2>2, <2>3 DEF WriterOK, Active
    <2>5. /\ lock' \in Writers \cup {Null} /\ writer' = [v \in Writers |-> writer'[v]]
          /\ \A v \in Writers : WriterOK(v)' /\ (v # w => writer'[v] = writer[v])
          /\ DOMAIN writer' = Writers
      BY <2>1, <2>4, WriterStep
    <2>6. ASSUME NEW e \in rows
          PROVE  LET c == CommittedRow(w, e) IN
                 /\ c \in Row /\ c.id = e.id /\ c.seq = e.seq /\ c.by = e.by
                 /\ (e.by = w => c.committed = TRUE) /\ (e.by # w => c = e)
      BY <1>2, <2>6 DEF CommittedRow, Row
    <2>7. \A e \in rows' : RowOK(e)'
      <3>1. ASSUME NEW c \in rows' PROVE RowOK(c)'
        <4>1. PICK e \in rows : c = CommittedRow(w, e)
          BY <2>1, <3>1
        <4>2. CASE e.by = w
          <5>1. c \in Row /\ c.seq = e.seq /\ c.by = w /\ c.committed = TRUE
            BY <2>6, <4>1, <4>2
          <5>2. c.seq <= seq' /\ writer'[c.by].phase = "committed"
            BY <1>2, <2>1, <2>2, <2>3, <5>1 DEF RowOK
          <5>. QED
            BY <5>1, <5>2, Zenon DEF RowOK
        <4>3. CASE e.by # w
          BY <1>2, <2>1, <2>5, <2>6, <4>1, <4>3 DEF RowOK, Active
        <4>. QED
          BY <4>2, <4>3
      <3>. QED
        BY <3>1
    <2>8. Distinct'
      <3>1. ASSUME NEW c \in rows', NEW d \in rows', c.id = d.id \/ c.seq = d.seq PROVE c = d
        <4>1. PICK e \in rows, f \in rows : c = CommittedRow(w, e) /\ d = CommittedRow(w, f)
          BY <2>1, <3>1
        <4>2. c.id = e.id /\ c.seq = e.seq /\ d.id = f.id /\ d.seq = f.seq
          BY <2>6, <4>1
        <4>3. e = f
          BY <3>1, <4>2 DEF Typed, Distinct
        <4>. QED
          BY <4>1, <4>3
      <3>. QED
        BY <3>1 DEF Distinct
    <2>. QED
      BY <2>1, <2>5, <2>7, <2>8 DEF Typed
  <1>7. ASSUME NEW w \in Writers, Rollback(w) PROVE Typed'
    <2> DEFINE new == [writer[w] EXCEPT !.phase = "aborted"]
    <2>1. /\ writer' = [writer EXCEPT ![w] = new] /\ UNCHANGED seq /\ writer[w].phase \in Active
          /\ rows' = {e \in rows : e.by # w}
          /\ lock' = IF lock = w THEN Null ELSE lock
      BY <1>7 DEF Rollback, Release, Active
    <2>2. /\ new \in [phase : Phase, inserted : Nat, read : EventIds \cup {Null}]
          /\ new.phase = "aborted"
      BY <1>1 DEF Phase
    <2> HIDE DEF new
    <2>3. writer'[w] = new
      BY <2>1 DEF Typed
    <2>4. WriterOK(w)'
      BY <1>0, <1>1, <2>1, <2>2, <2>3 DEF WriterOK, Active
    <2>5. /\ lock' \in Writers \cup {Null} /\ writer' = [v \in Writers |-> writer'[v]]
          /\ \A v \in Writers : WriterOK(v)' /\ (v # w => writer'[v] = writer[v])
          /\ DOMAIN writer' = Writers
      BY <2>1, <2>4, WriterStep
    <2>6. \A e \in rows' : RowOK(e)'
      BY <1>2, <2>1, <2>5 DEF RowOK
    <2>. QED
      BY <2>1, <2>5, <2>6 DEF Typed, Distinct
  <1>8. ASSUME UNCHANGED vars PROVE Typed'
    BY <1>8 DEF vars, Typed, WriterOK, RowOK, Distinct
  <1>. QED
    BY <1>3, <1>4, <1>5, <1>6, <1>7, <1>8 DEF Next

LEMMA TypedAlways == ASSUME AuditAssumption PROVE Spec => []Typed
  BY TypedInit, TypedStep, PTL DEF Spec

\* Rows, places and the lock are as they should be, whoever writes.
THEOREM TypeCorrect == ASSUME AuditAssumption PROVE Spec => []TypeOK
  <1>1. ASSUME Typed PROVE TypeOK
    <2>1. writer \in [Writers -> [phase : Phase, inserted : Nat, read : EventIds \cup {Null}]]
      BY <1>1 DEF Typed, WriterOK
    <2>2. \A e \in rows : e \in Row /\ e.seq <= seq /\ (e.committed <=> writer[e.by].phase = "committed")
      BY <1>1 DEF Typed, RowOK
    <2>3. \A w \in Locking : lock = w <=> writer[w].phase \in {"open", "linking"}
      BY <1>1, AuditAssumption DEF Typed, WriterOK, Active, AuditAssumption
    <2>. QED
      BY <1>1, <2>1, <2>2, <2>3 DEF Typed, Distinct, TypeOK
  <1>. QED
    BY <1>1, TypedAlways, PTL

-----------------------------------------------------------------------------
(* Links. *)

Sees(w, e) == e.committed \/ e.by = w

\* A row is linked to an earlier one, which its transaction saw.
LinksBack ==
  \A e \in rows : e.prev # Null =>
    \E f \in rows : f.id = e.prev /\ f.seq < e.seq /\ Sees(e.by, f)

\* So will the row be that a writer is about to insert.
ReadBack ==
  \A w \in Writers : writer[w].phase = "linking" /\ writer[w].read # Null =>
    \E f \in rows : f.id = writer[w].read /\ Sees(w, f)

\* A writer with the lock has read the place after all rows of such writers.
ReadLast ==
  \A w \in Locking : writer[w].phase = "linking" =>
    \A e \in rows : e.by \in Locking =>
      \E t \in rows : t.id = writer[w].read /\ Sees(w, t) /\ e.seq <= t.seq

NoFork ==
  \A e, f \in rows : e.by \in Locking /\ f.by \in Locking /\ e.prev = f.prev => e = f

Linked == LinksBack /\ ReadBack /\ ReadLast /\ NoFork

\* Only one writer has the lock.
LEMMA OneLocker ==
  ASSUME Typed, NEW v \in Writers \cap Locking, NEW w \in Writers \cap Locking,
         writer[v].phase \in Active, writer[w].phase \in Active
  PROVE  v = w
  BY DEF Typed, WriterOK

\* A committed row is not one of an open transaction.
LEMMA OpenRows ==
  ASSUME Typed, NEW w \in Writers, writer[w].phase \in Active, NEW e \in rows, e.by = w
  PROVE  ~e.committed
  BY DEF Typed, RowOK, Active

LEMMA CommittedIs ==
  ASSUME Typed, NEW w \in Writers, NEW e \in rows
  PROVE  LET c == CommittedRow(w, e) IN
         /\ c.id = e.id /\ c.prev = e.prev /\ c.seq = e.seq /\ c.by = e.by
         /\ \A v : Sees(v, e) => Sees(v, c)
  <1>1. e \in Row
    BY DEF Typed, RowOK
  <1>2. CASE e.by # w
    BY <1>2 DEF CommittedRow
  <1>3. CASE e.by = w
    <2>1. CommittedRow(w, e) = [e EXCEPT !.committed = TRUE]
      BY <1>3 DEF CommittedRow
    <2>. QED
      BY <1>1, <2>1 DEF Row, Sees
  <1>. QED
    BY <1>2, <1>3

LEMMA LinkedInit == Init => Linked
  BY DEF Init, Linked, LinksBack, ReadBack, ReadLast, NoFork

LEMMA LinkedStep == ASSUME AuditAssumption, Typed, Linked, [Next]_vars PROVE Linked'
  <1>1. Locking \subseteq Writers /\ Null \notin EventIds
    BY DEF AuditAssumption
  <1>2. \A e \in rows : RowOK(e) /\ e.id \in EventIds /\ e.by \in Writers /\ e.seq \in Nat /\ e.seq <= seq
    BY DEF Typed, RowOK, Row
  <1>3. ASSUME NEW w \in Writers, Begin(w) PROVE Linked'
    <2>1. /\ rows' = rows /\ writer'[w].phase = "open"
          /\ \A v \in Writers : v # w => writer'[v] = writer[v]
      BY <1>3 DEF Begin, Step, Typed, WriterOK
    <2>. QED
      BY <1>1, <2>1 DEF Linked, LinksBack, ReadBack, ReadLast, NoFork
  <1>4. ASSUME NEW w \in Writers, ReadTail(w) PROVE Linked'
    <2>1. /\ rows' = rows /\ writer[w].phase \in Active
          /\ \A v \in Writers : v # w => writer'[v] = writer[v]
          /\ \/ Visible(w) = {} /\ writer'[w].read = Null
             \/ \E t \in Visible(w) : IsLast(t, Visible(w)) /\ writer'[w].read = t.id
      <3>1. PICK last \in EventIds \cup {Null} :
              /\ IF Visible(w) = {} THEN last = Null
                 ELSE \E t \in Visible(w) : IsLast(t, Visible(w)) /\ last = t.id
              /\ writer' = [writer EXCEPT ![w].phase = "linking", ![w].read = last]
        BY <1>4 DEF ReadTail
      <3>2. writer'[w].read = last /\ \A v \in Writers : v # w => writer'[v] = writer[v]
        BY <3>1 DEF Typed, WriterOK
      <3>. QED
        BY <1>4, <3>1, <3>2 DEF ReadTail, Active
    <2>2. \A e \in rows : e \in Visible(w) <=> Sees(w, e)
      BY DEF Visible, Sees
    <2>3. ReadBack'
      BY <2>1, <2>2 DEF Linked, ReadBack, Visible
    <2>4. ReadLast'
      <3>1. ASSUME w \in Locking, NEW e \in rows, e.by \in Locking PROVE e \in Visible(w)
        <4>1. CASE writer[e.by].phase \in Active
          BY <1>2, <2>1, <2>2, <3>1, <4>1, OneLocker DEF Sees
        <4>2. CASE writer[e.by].phase \notin Active
          BY <1>2, <2>2, <4>2 DEF RowOK, Sees
        <4>. QED
          BY <4>1, <4>2
      <3>2. Visible(w) \subseteq rows
        BY DEF Visible
      <3>. QED
        BY <1>1, <2>1, <2>2, <3>1, <3>2 DEF Linked, ReadLast, IsLast
    <2>. QED
      BY <2>1, <2>3, <2>4 DEF Linked, LinksBack, NoFork
  <1>5. ASSUME NEW w \in Writers, Insert(w) PROVE Linked'
    <2>1. PICK n : n = NewRow(w)
      OBVIOUS
    <2>2. /\ writer[w].phase = "linking" /\ writer'[w].phase = "open"
          /\ rows' \in {rows, rows \cup {n}}
          /\ \A v \in Writers : v # w => writer'[v] = writer[v]
      BY <1>5, <2>1 DEF Insert, NewRow, Typed, WriterOK
    <2>3. n.prev = writer[w].read /\ n.by = w /\ n.seq = seq + 1 /\ seq \in Nat
      BY <2>1 DEF NewRow, Typed
    <2>4. LinksBack'
      <3>1. n.prev # Null => \E f \in rows : f.id = n.prev /\ f.seq < n.seq /\ Sees(n.by, f)
        BY <1>2, <2>2, <2>3 DEF Linked, ReadBack
      <3>. QED
        BY <2>2, <3>1 DEF Linked, LinksBack
    <2>5. ReadBack'
      BY <2>2 DEF Linked, ReadBack
    <2>6. ReadLast'
      <3>1. ASSUME NEW v \in Locking, v # w, writer[v].phase = "linking" PROVE w \notin Locking
        BY <1>1, <2>2, <3>1, OneLocker DEF Active
      <3>2. ASSUME NEW v \in Locking, writer'[v].phase = "linking", NEW e \in rows', e.by \in Locking
            PROVE  \E t \in rows' : t.id = writer'[v].read /\ Sees(v, t) /\ e.seq <= t.seq
        <4>1. v # w /\ writer'[v] = writer[v]
          BY <1>1, <2>2, <3>2
        <4>2. e \in rows
          BY <2>2, <2>3, <3>1, <3>2, <4>1
        <4>. QED
          BY <2>2, <3>2, <4>1, <4>2 DEF Linked, ReadLast
      <3>. QED
        BY <3>2 DEF ReadLast
    <2>7. NoFork'
      <3>1. ASSUME w \in Locking, NEW e \in rows, e.by \in Locking, e.prev = n.prev PROVE FALSE
        <4>1. PICK t \in rows : t.id = writer[w].read /\ e.seq <= t.seq
          BY <2>2, <3>1 DEF Linked, ReadLast
        <4>2. e.prev # Null
          BY <1>1, <1>2, <2>3, <3>1, <4>1
        <4>3. PICK f \in rows : f.id = e.prev /\ f.seq < e.seq
          BY <4>2 DEF Linked, LinksBack
        <4>4. f = t
          BY <2>3, <3>1, <4>1, <4>3 DEF Typed, Distinct
        <4>. QED
          BY <1>2, <4>1, <4>3, <4>4
      <3>. QED
        BY <2>2, <2>3, <3>1 DEF Linked, NoFork
    <2>. QED
      BY <2>4, <2>5, <2>6, <2>7 DEF Linked
  <1>6. ASSUME NEW w \in Writers, Commit(w) PROVE Linked'
    <2>1. /\ rows' = {CommittedRow(w, e) : e \in rows} /\ writer'[w].phase = "committed"
          /\ \A v \in Writers : v # w => writer'[v] = writer[v]
      BY <1>6 DEF Commit, Step, CommittedRow, Typed, WriterOK
    <2>2. ASSUME NEW v, NEW f \in rows, Sees(v, f)
          PROVE  \E g \in rows' : g.id = f.id /\ g.seq = f.seq /\ Sees(v, g)
      BY <2>1, <2>2, CommittedIs
    <2>3. ASSUME NEW c \in rows'
          PROVE  \E e \in rows : c = CommittedRow(w, e) /\ c.id = e.id /\ c.prev = e.prev /\ c.seq = e.seq /\ c.by = e.by
      BY <2>1, CommittedIs
    <2>4. LinksBack'
      <3>1. ASSUME NEW c \in rows', c.prev # Null
            PROVE  \E g \in rows' : g.id = c.prev /\ g.seq < c.seq /\ Sees(c.by, g)
        <4>1. PICK e \in rows : c.prev = e.prev /\ c.seq = e.seq /\ c.by = e.by
          BY <2>3
        <4>2. PICK f \in rows : f.id = e.prev /\ f.seq < e.seq /\ Sees(e.by, f)
          BY <3>1, <4>1 DEF Linked, LinksBack
        <4>. QED
          BY <2>2, <4>1, <4>2
      <3>. QED
        BY <3>1 DEF LinksBack
    <2>5. ReadBack'
      <3>1. ASSUME NEW v \in Writers, writer'[v].phase = "linking", writer'[v].read # Null
            PROVE  \E g \in rows' : g.id = writer'[v].read /\ Sees(v, g)
        <4>1. writer'[v] = writer[v]
          BY <2>1, <3>1
        <4>2. PICK f \in rows : f.id = writer[v].read /\ Sees(v, f)
          BY <3>1, <4>1 DEF Linked, ReadBack
        <4>. QED
          BY <2>2, <4>1, <4>2
      <3>. QED
        BY <3>1 DEF ReadBack
    <2>6. ReadLast'
      <3>1. ASSUME NEW v \in Locking, writer'[v].phase = "linking", NEW c \in rows', c.by \in Locking
            PROVE  \E g \in rows' : g.id = writer'[v].read /\ Sees(v, g) /\ c.seq <= g.seq
        <4>1. writer'[v] = writer[v]
          BY <1>1, <2>1, <3>1
        <4>2. PICK e \in rows : c.seq = e.seq /\ c.by = e.by
          BY <2>3
        <4>3. PICK t \in rows : t.id = writer[v].read /\ Sees(v, t) /\ e.seq <= t.seq
          BY <3>1, <4>1, <4>2 DEF Linked, ReadLast
        <4>. QED
          BY <2>2, <4>1, <4>2, <4>3
      <3>. QED
        BY <3>1 DEF ReadLast
    <2>7. NoFork'
      <3>1. ASSUME NEW c \in rows', NEW d \in rows', c.by \in Locking, d.by \in Locking, c.prev = d.prev
            PROVE  c = d
        <4>1. PICK e \in rows : c = CommittedRow(w, e) /\ c.prev = e.prev /\ c.by = e.by
          BY <2>3
        <4>2. PICK f \in rows : d = CommittedRow(w, f) /\ d.prev = f.prev /\ d.by = f.by
          BY <2>3
        <4>3. e = f
          BY <3>1, <4>1, <4>2 DEF Linked, NoFork
        <4>. QED
          BY <4>1, <4>2, <4>3
      <3>. QED
        BY <3>1 DEF NoFork
    <2>. QED
      BY <2>4, <2>5, <2>6, <2>7 DEF Linked
  <1>7. ASSUME NEW w \in Writers, Rollback(w) PROVE Linked'
    <2>1. /\ rows' = {e \in rows : e.by # w} /\ writer[w].phase \in Active /\ writer'[w].phase = "aborted"
          /\ \A v \in Writers : v # w => writer'[v] = writer[v]
      BY <1>7 DEF Rollback, Active, Typed, WriterOK
    <2>2. \A v \in Writers : \A f \in rows : v # w /\ Sees(v, f) => f \in rows'
      BY <2>1, OpenRows DEF Sees
    <2>3. LinksBack'
      BY <1>2, <2>1, <2>2 DEF Linked, LinksBack
    <2>4. ReadBack'
      BY <2>1, <2>2 DEF Linked, ReadBack
    <2>5. ReadLast'
      <3>1. ASSUME NEW v \in Locking, writer'[v].phase = "linking", NEW e \in rows', e.by \in Locking
            PROVE  \E t \in rows' : t.id = writer'[v].read /\ Sees(v, t) /\ e.seq <= t.seq
        <4>1. v # w /\ writer'[v] = writer[v] /\ e \in rows
          BY <1>1, <2>1, <3>1
        <4>. QED
          BY <1>1, <2>2, <3>1, <4>1 DEF Linked, ReadLast
      <3>. QED
        BY <3>1 DEF ReadLast
    <2>6. NoFork'
      BY <2>1 DEF Linked, NoFork
    <2>. QED
      BY <2>3, <2>4, <2>5, <2>6 DEF Linked
  <1>8. ASSUME UNCHANGED vars PROVE Linked'
    BY <1>8 DEF vars, Linked, LinksBack, ReadBack, ReadLast, NoFork
  <1>. QED
    BY <1>3, <1>4, <1>5, <1>6, <1>7, <1>8 DEF Next

LEMMA LinkedAlways == ASSUME AuditAssumption PROVE Spec => []Linked
  BY LinkedInit, LinkedStep, TypedAlways, PTL DEF Spec

\* Two events of the trail that are linked to the same one were not both written
\* under the lock, whoever else writes.
THEOREM ForkNeedsNoLock == ASSUME AuditAssumption PROVE Spec => []ForkNeedsUnlocked
  <1>1. Linked => ForkNeedsUnlocked
    BY DEF Linked, NoFork, ForkNeedsUnlocked, Committed
  <1>. QED
    BY <1>1, LinkedAlways, PTL

\* No rollback leaves a link into the void.
THEOREM LinksStay == ASSUME AuditAssumption PROVE Spec => []NoDanglingLink
  <1>1. ASSUME Typed, Linked PROVE NoDanglingLink
    <2>1. ASSUME NEW e \in Committed, e.prev # Null
          PROVE  \E f \in Committed : f.id = e.prev /\ f.seq < e.seq
      <3>1. PICK f \in rows : f.id = e.prev /\ f.seq < e.seq /\ Sees(e.by, f)
        BY <1>1, <2>1 DEF Linked, LinksBack, Committed
      <3>2. f.committed
        BY <1>1, <2>1, <3>1 DEF Typed, RowOK, Sees, Committed
      <3>. QED
        BY <3>1, <3>2 DEF Committed
    <2>. QED
      BY <2>1 DEF NoDanglingLink
  <1>. QED
    BY <1>1, TypedAlways, LinkedAlways, PTL

-----------------------------------------------------------------------------
(* The trail verifies. *)

\* An event is linked to the last one before it, or is the first.
Follows(e, S) ==
  \/ e.prev = Null /\ \A f \in S : e.seq <= f.seq
  \/ \E f \in S : f.id = e.prev /\ f.seq < e.seq /\ \A g \in S : g.seq < e.seq => g.seq <= f.seq

LEMMA VerifiesIff ==
  ASSUME NEW S, \A e \in S : e.seq \in Nat, \A e \in S : Follows(e, S)
  PROVE  Verifies(S)
  <1>1. ASSUME NEW e \in S
        PROVE  LET before == {f \in S : f.seq < e.seq} IN
               IF before = {} THEN e.prev = Null
               ELSE \E f \in before : IsLast(f, before) /\ e.prev = f.id
    BY <1>1 DEF Follows, IsLast
  <1>. QED
    BY <1>1 DEF Verifies

\* While all writers lock, every row follows the last one before it, committed or
\* not: the rows of the one open transaction are the end of the trail.
Chain == OnlyLocking => \A e \in rows : Follows(e, rows)

\* What was begun stays begun.
LEMMA OnlyLockingBack == ASSUME Typed, [Next]_vars, OnlyLocking' PROVE OnlyLocking
  <1>1. ASSUME NEW v \in Writers, writer[v].phase # "idle" PROVE writer'[v].phase # "idle"
    <2>1. ASSUME NEW w \in Writers, NEW to, writer' = [writer EXCEPT ![w].phase = to], to # "idle"
          PROVE  writer'[v].phase # "idle"
      BY <1>1, <2>1 DEF Typed, WriterOK
    <2>2. ASSUME NEW w \in Writers, Begin(w) \/ Commit(w) \/ Rollback(w) PROVE writer'[v].phase # "idle"
      BY <2>1, <2>2 DEF Begin, Commit, Rollback, Step
    <2>3. ASSUME NEW w \in Writers, ReadTail(w) PROVE writer'[v].phase # "idle"
      <3>1. PICK last : writer' = [writer EXCEPT ![w].phase = "linking", ![w].read = last]
        BY <2>3 DEF ReadTail
      <3>. QED
        BY <1>1, <3>1 DEF Typed, WriterOK
    <2>4. ASSUME NEW w \in Writers, Insert(w) PROVE writer'[v].phase # "idle"
      BY <1>1, <2>4 DEF Insert, Typed, WriterOK
    <2>. QED
      BY <1>1, <2>2, <2>3, <2>4 DEF Next, vars
  <1>. QED
    BY <1>1 DEF OnlyLocking

\* Rows that a transaction leaves behind follow each other as before.
LEMMA FollowsRest ==
  ASSUME AuditAssumption, Typed, Linked, NEW S, S \subseteq rows,
         \A e \in S : \A f \in rows : Sees(e.by, f) => f \in S,
         NEW e \in S, Follows(e, rows)
  PROVE  Follows(e, S)
  <1>1. CASE e.prev = Null /\ \A f \in rows : e.seq <= f.seq
    BY <1>1 DEF Follows
  <1>2. CASE \E f \in rows : f.id = e.prev /\ f.seq < e.seq /\ \A g \in rows : g.seq < e.seq => g.seq <= f.seq
    <2>1. PICK f \in rows : f.id = e.prev /\ f.seq < e.seq /\ \A g \in rows : g.seq < e.seq => g.seq <= f.seq
      BY <1>2
    <2>2. e.prev # Null
      <3>1. f \in Row /\ Null \notin EventIds
        BY <2>1 DEF AuditAssumption, Typed, RowOK
      <3>. QED
        BY <2>1, <3>1 DEF Row
    <2>3. \E h \in rows : h.id = e.prev /\ Sees(e.by, h)
      BY <2>2 DEF Linked, LinksBack
    <2>4. f \in S
      BY <2>1, <2>3 DEF Typed, Distinct
    <2>. QED
      BY <2>1, <2>4 DEF Follows
  <1>. QED
    BY <1>1, <1>2 DEF Follows

LEMMA ChainInit == Init => Chain
  BY DEF Init, Chain

LEMMA ChainStep == ASSUME AuditAssumption, Typed, Linked, Chain, [Next]_vars PROVE Chain'
  <1> SUFFICES ASSUME OnlyLocking' PROVE \A e \in rows' : Follows(e, rows')
    BY DEF Chain
  <1>1. OnlyLocking /\ \A e \in rows : Follows(e, rows)
    BY OnlyLockingBack DEF Chain
  <1>2. \A e \in rows : RowOK(e) /\ e.id \in EventIds /\ e.by \in Writers /\ e.seq \in Nat /\ e.seq <= seq
    BY DEF Typed, RowOK, Row
  <1>3. \A e \in rows : e.by \in Locking
    BY <1>1, <1>2 DEF OnlyLocking, RowOK, Active
  <1>4. CASE rows' = rows
    BY <1>1, <1>4
  <1>5. ASSUME NEW w \in Writers, Insert(w) PROVE \A e \in rows' : Follows(e, rows')
    <2>1. PICK n : n = NewRow(w)
      OBVIOUS
    <2>2. writer[w].phase = "linking" /\ rows' \in {rows, rows \cup {n}}
      BY <1>5, <2>1 DEF Insert, NewRow
    <2>3. n.prev = writer[w].read /\ n.seq = seq + 1 /\ seq \in Nat
      BY <2>1 DEF NewRow, Typed
    <2>4. w \in Locking
      BY <1>1, <2>2 DEF OnlyLocking
    <2>5. CASE rows = {}
      <3>1. n.prev = Null
        BY <2>2, <2>3, <2>5 DEF Linked, ReadBack
      <3>. QED
        BY <2>2, <2>3, <2>5, <3>1 DEF Follows
    <2>6. CASE rows # {}
      <3>1. \A e \in rows : \E t \in rows : t.id = n.prev /\ e.seq <= t.seq
        BY <1>3, <2>2, <2>3, <2>4 DEF Linked, ReadLast
      <3>2. PICK t \in rows : t.id = n.prev
        BY <2>6, <3>1
      <3>3. \A e \in rows : e.seq <= t.seq
        BY <3>1, <3>2 DEF Typed, Distinct
      <3>4. Follows(n, rows \cup {n})
        BY <1>2, <2>3, <3>2, <3>3 DEF Follows
      <3>5. ASSUME NEW e \in rows PROVE Follows(e, rows \cup {n})
        BY <1>1, <1>2, <2>3, <3>5 DEF Follows
      <3>. QED
        BY <1>1, <2>2, <3>4, <3>5
    <2>. QED
      BY <2>5, <2>6
  <1>6. ASSUME NEW w \in Writers, Commit(w) PROVE \A e \in rows' : Follows(e, rows')
    <2>1. rows' = {CommittedRow(w, e) : e \in rows}
      BY <1>6 DEF Commit, CommittedRow
    <2>2. ASSUME NEW f \in rows PROVE \E g \in rows' : g.id = f.id /\ g.seq = f.seq
      BY <2>1, <2>2, CommittedIs
    <2>3. ASSUME NEW c \in rows' PROVE \E e \in rows : c.id = e.id /\ c.prev = e.prev /\ c.seq = e.seq
      BY <2>1, CommittedIs
    <2>4. ASSUME NEW c \in rows' PROVE Follows(c, rows')
      <3>1. PICK e \in rows : c.id = e.id /\ c.prev = e.prev /\ c.seq = e.seq
        BY <2>3
      <3>2. CASE e.prev = Null /\ \A f \in rows : e.seq <= f.seq
        BY <2>3, <3>1, <3>2 DEF Follows
      <3>3. CASE \E f \in rows : f.id = e.prev /\ f.seq < e.seq /\ \A g \in rows : g.seq < e.seq => g.seq <= f.seq
        <4>1. PICK f \in rows : f.id = e.prev /\ f.seq < e.seq /\ \A g \in rows : g.seq < e.seq => g.seq <= f.seq
          BY <3>3
        <4>2. PICK d \in rows' : d.id = f.id /\ d.seq = f.seq
          BY <2>2
        <4>3. \A g \in rows' : g.seq < c.seq => g.seq <= d.seq
          BY <2>3, <3>1, <4>1, <4>2
        <4>. QED
          BY <3>1, <4>1, <4>2, <4>3 DEF Follows
      <3>. QED
        BY <1>1, <3>2, <3>3 DEF Follows
    <2>. QED
      BY <2>4
  <1>7. ASSUME NEW w \in Writers, Rollback(w) PROVE \A e \in rows' : Follows(e, rows')
    <2>1. rows' = {e \in rows : e.by # w} /\ writer[w].phase \in Active
      BY <1>7 DEF Rollback, Active
    <2>2. \A e \in rows' : \A f \in rows : Sees(e.by, f) => f \in rows'
      BY <2>1, OpenRows DEF Sees
    <2>. QED
      BY <1>1, <2>1, <2>2, FollowsRest
  <1>8. ASSUME NEW w \in Writers, Begin(w) \/ ReadTail(w) PROVE rows' = rows
    BY <1>8 DEF Begin, ReadTail
  <1>. QED
    BY <1>4, <1>5, <1>6, <1>7, <1>8 DEF Next, vars

LEMMA ChainAlways == ASSUME AuditAssumption PROVE Spec => []Chain
  BY ChainInit, ChainStep, TypedAlways, LinkedAlways, PTL DEF Spec

LEMMA CommittedFollows ==
  ASSUME AuditAssumption, Typed, Linked, Chain, OnlyLocking
  PROVE  \A e \in Committed : Follows(e, Committed)
  <1>1. Committed \subseteq rows
    BY DEF Committed
  <1>2. \A e \in Committed : \A f \in rows : Sees(e.by, f) => f \in Committed
    BY DEF Committed, Sees, Typed, RowOK
  <1>. QED
    BY <1>1, <1>2, FollowsRest DEF Chain

\* As long as every writer takes the lock, what a reader gets is one chain from
\* the first event to the last.
THEOREM LockedVerifies == ASSUME AuditAssumption PROVE Spec => []LockedTrailVerifies
  <1>1. ASSUME Typed, Linked, Chain, OnlyLocking PROVE Verifies(Committed)
    <2>1. \A e \in Committed : e.seq \in Nat
      BY <1>1 DEF Committed, Typed, RowOK, Row
    <2>. QED
      BY <1>1, <2>1, CommittedFollows, VerifiesIff
  <1>2. Typed /\ Linked /\ Chain => LockedTrailVerifies
    BY <1>1 DEF LockedTrailVerifies, TrailVerifies
  <1>. QED
    BY <1>2, TypedAlways, LinkedAlways, ChainAlways, PTL

\* The links of the trail can be trusted as far as its writers lock.
THEOREM TrailSound == ASSUME AuditAssumption PROVE Spec => []TrailIsSound
  <1>1. LockedTrailVerifies /\ ForkNeedsUnlocked /\ NoDanglingLink => TrailIsSound
    BY DEF TrailIsSound
  <1>. QED
    BY <1>1, LockedVerifies, ForkNeedsNoLock, LinksStay, PTL

-----------------------------------------------------------------------------
(* The trail as a log. *)

\* How many of S come before x, and x.
Upto(S, x) == {y \in S : y.seq <= x.seq}

\* What has a place of its own for each of its members.
Placed(S) ==
  /\ IsFiniteSet(S)
  /\ \A x \in S : x.seq \in Nat
  /\ \A x, y \in S : x.seq = y.seq => x = y

Rank(S, x) == Cardinality(Upto(S, x))

LEMMA RankIs ==
  ASSUME NEW S, Placed(S), NEW x \in S
  PROVE  Rank(S, x) \in 1 .. Cardinality(S)
  <1>1. IsFiniteSet(S) /\ Upto(S, x) \in SUBSET S /\ x \in Upto(S, x)
    BY DEF Placed, Upto
  <1>2. /\ IsFiniteSet(Upto(S, x)) /\ Rank(S, x) <= Cardinality(S)
        /\ Rank(S, x) \in Nat /\ Cardinality(S) \in Nat
    BY <1>1, FS_Subset, FS_CardinalityType DEF Rank
  <1>3. Rank(S, x) # 0
    BY <1>1, <1>2, FS_EmptySet DEF Rank
  <1>. QED
    BY <1>2, <1>3

\* Later members have higher ranks.
LEMMA RankGrows ==
  ASSUME NEW S, Placed(S), NEW x \in S, NEW y \in S, x.seq < y.seq
  PROVE  Rank(S, x) < Rank(S, y)
  <1>1. /\ Upto(S, x) \in SUBSET Upto(S, y) /\ Upto(S, y) \in SUBSET S
        /\ y \in Upto(S, y) /\ y \notin Upto(S, x)
    BY DEF Placed, Upto
  <1>2. IsFiniteSet(Upto(S, y))
    BY <1>1, FS_Subset DEF Placed
  <1>3. Rank(S, x) <= Rank(S, y) /\ Rank(S, x) # Rank(S, y)
    BY <1>1, <1>2, FS_Subset DEF Rank
  <1>. QED
    BY <1>3, RankIs

\* No two members have one rank, and every rank is that of a member.
LEMMA RankIsOne ==
  ASSUME NEW S, Placed(S), NEW x \in S, NEW y \in S, Rank(S, x) = Rank(S, y)
  PROVE  x = y
  <1>1. Rank(S, x) \in Nat /\ Rank(S, y) \in Nat
    BY RankIs
  <1>. QED
    BY <1>1, RankGrows DEF Placed

LEMMA RankIsOf ==
  ASSUME NEW S, Placed(S), NEW i \in 1 .. Cardinality(S)
  PROVE  \E x \in S : Rank(S, x) = i
  <1> DEFINE n == Cardinality(S)
             rank == [x \in S |-> Rank(S, x)]
  <1>1. n \in Nat
    BY FS_CardinalityType DEF Placed
  <1>2. rank \in [S -> 1 .. n]
    BY RankIs
  <1>3. \A x, y \in S : rank[x] = rank[y] => x = y
    BY RankIsOne
  <1>4. rank \in Injection(S, 1 .. n)
    BY <1>2, <1>3, Fun_IsInj
  <1>5. IsFiniteSet(1 .. n) /\ Cardinality(1 .. n) = n
    BY <1>1, FS_Interval
  <1>6. rank \in Surjection(S, 1 .. n)
    BY <1>4, <1>5, FS_Injection
  <1> HIDE DEF rank
  <1>7. \A t \in 1 .. n : \E x \in S : rank[x] = t
    BY <1>6, Fun_SurjectionProperties
  <1> USE DEF rank
  <1>. QED
    BY <1>7

\* The place of an event in the trail, as AppendOnlyLog counts.
LEMMA RankedOne ==
  ASSUME NEW S, Placed(S), NEW i \in 1 .. Cardinality(S), NEW x \in S, Rank(S, x) = i
  PROVE  x = CHOOSE y \in S : Cardinality({z \in S : z.seq <= y.seq}) = i
  <1>1. Rank(S, CHOOSE y \in S : Rank(S, y) = i) = i /\ (CHOOSE y \in S : Rank(S, y) = i) \in S
    OBVIOUS
  <1>2. x = CHOOSE y \in S : Rank(S, y) = i
    BY <1>1, RankIsOne
  <1>. QED
    BY <1>2 DEF Rank, Upto

\* An event that follows the last one before it has the rank after its.
LEMMA RankFollows ==
  ASSUME NEW S, Placed(S), NEW x \in S, Follows(x, S)
  PROVE  \/ x.prev = Null /\ Rank(S, x) = 1
         \/ \E y \in S : x.prev = y.id /\ Rank(S, x) = Rank(S, y) + 1
  <1>1. CASE x.prev = Null /\ \A y \in S : x.seq <= y.seq
    <2>1. Upto(S, x) = {x}
      BY <1>1 DEF Upto, Placed
    <2>. QED
      BY <1>1, <2>1, FS_Singleton DEF Rank
  <1>2. CASE \E y \in S : y.id = x.prev /\ y.seq < x.seq /\ \A z \in S : z.seq < x.seq => z.seq <= y.seq
    <2>1. PICK y \in S : y.id = x.prev /\ y.seq < x.seq /\ \A z \in S : z.seq < x.seq => z.seq <= y.seq
      BY <1>2
    <2>2. Upto(S, x) = Upto(S, y) \cup {x} /\ x \notin Upto(S, y)
      BY <2>1 DEF Upto, Placed
    <2>3. IsFiniteSet(Upto(S, y))
      BY FS_Subset DEF Upto, Placed
    <2>. QED
      BY <2>1, <2>2, <2>3, FS_AddElement DEF Rank
  <1>. QED
    BY <1>1, <1>2 DEF Follows

\* There are finitely many rows, and while all writers lock, the rows that are not
\* committed are the last ones.
Growing ==
  /\ IsFiniteSet(rows)
  /\ OnlyLocking => \A e, r \in rows : e.committed /\ ~r.committed => e.seq < r.seq

LEMMA GrowingInit == Init => Growing
  BY FS_EmptySet DEF Init, Growing

\* What a commit makes of the rows.
LEMMA CommittedRows ==
  ASSUME IsFiniteSet(rows), NEW w
  PROVE  IsFiniteSet({CommittedRow(w, e) : e \in rows})
  <1> DEFINE new == {CommittedRow(w, e) : e \in rows}
             f == [e \in rows |-> CommittedRow(w, e)]
  <1>1. f \in [rows -> new] /\ \A c \in new : \E e \in rows : f[e] = c
    OBVIOUS
  <1> HIDE DEF f, new
  <1>2. f \in Surjection(rows, new)
    BY <1>1, Fun_IsSurj
  <1>3. IsFiniteSet(new)
    BY <1>2, FS_Surjection
  <1>. QED
    BY <1>3 DEF new

\* While all writers lock, a commit leaves no row that is not committed.
LEMMA CommitsAll ==
  ASSUME AuditAssumption, Typed, OnlyLocking, NEW w \in Writers, Commit(w)
  PROVE  \A e \in rows : ~e.committed => e.by = w
  <1>1. writer[w].phase \in Active /\ w \in Locking
    BY DEF Commit, Step, Active, OnlyLocking
  <1>2. ASSUME NEW e \in rows, ~e.committed PROVE e.by = w
    <2>1. e.by \in Writers /\ writer[e.by].phase \in Active
      BY <1>2 DEF Typed, RowOK, Row
    <2>2. e.by \in Locking
      BY <2>1 DEF OnlyLocking, Active
    <2>. QED
      BY <1>1, <2>1, <2>2, OneLocker
  <1>. QED
    BY <1>2

LEMMA GrowingStep == ASSUME AuditAssumption, Typed, Growing, [Next]_vars PROVE Growing'
  <1>1. OnlyLocking' => OnlyLocking
    BY OnlyLockingBack
  <1>2. \A e \in rows : e.seq \in Nat /\ e.seq <= seq
    BY DEF Typed, RowOK, Row
  <1>3. CASE rows' = rows
    BY <1>1, <1>3 DEF Growing
  <1>4. ASSUME NEW w \in Writers, Insert(w) PROVE Growing'
    <2>1. PICK n : n = NewRow(w)
      OBVIOUS
    <2>2. /\ rows' \in {rows, rows \cup {n}}
          /\ n.seq = seq + 1 /\ n.committed = FALSE /\ seq \in Nat
      BY <1>4, <2>1 DEF Insert, NewRow, Typed
    <2>3. IsFiniteSet(rows')
      BY <2>2, FS_AddElement DEF Growing
    <2>. QED
      BY <1>1, <1>2, <2>2, <2>3 DEF Growing
  <1>5. ASSUME NEW w \in Writers, Commit(w) PROVE Growing'
    <2>1. rows' = {CommittedRow(w, e) : e \in rows}
      BY <1>5 DEF Commit, CommittedRow
    <2>2. IsFiniteSet(rows')
      BY <2>1, CommittedRows DEF Growing
    <2>3. ASSUME OnlyLocking, NEW c \in rows' PROVE c.committed
      <3>1. PICK e \in rows : c = CommittedRow(w, e)
        BY <2>1
      <3>2. e \in Row
        BY DEF Typed, RowOK
      <3>. QED
        BY <1>5, <2>3, <3>1, <3>2, CommitsAll DEF CommittedRow, Row
    <2>. QED
      BY <1>1, <2>2, <2>3 DEF Growing
  <1>6. ASSUME NEW w \in Writers, Rollback(w) PROVE Growing'
    <2>1. rows' \in SUBSET rows
      BY <1>6 DEF Rollback
    <2>2. IsFiniteSet(rows')
      BY <2>1, FS_Subset DEF Growing
    <2>. QED
      BY <1>1, <2>1, <2>2 DEF Growing
  <1>7. ASSUME NEW w \in Writers, Begin(w) \/ ReadTail(w) PROVE rows' = rows
    BY <1>7 DEF Begin, ReadTail
  <1>. QED
    BY <1>3, <1>4, <1>5, <1>6, <1>7 DEF Next, vars

LEMMA GrowingAlways == ASSUME AuditAssumption PROVE Spec => []Growing
  BY GrowingInit, GrowingStep, TypedAlways, PTL DEF Spec

\* The trail that the events of S make.
TrailOf(S) ==
  [i \in 1 .. Cardinality(S) |->
     LET x == CHOOSE x \in S : Cardinality({y \in S : y.seq <= x.seq}) = i
     IN [id |-> x.id, prev |-> x.prev]]

Event == [id : EventIds, prev : EventIds \cup {Null}]

\* What the trail has at a place.
LEMMA TrailAt ==
  ASSUME NEW S, Placed(S), \A x \in S : x.id \in EventIds /\ x.prev \in EventIds \cup {Null}
  PROVE  /\ TrailOf(S) \in Seq(Event)
         /\ Len(TrailOf(S)) = Cardinality(S)
         /\ \A x \in S : /\ Rank(S, x) \in 1 .. Cardinality(S)
                         /\ TrailOf(S)[Rank(S, x)] = [id |-> x.id, prev |-> x.prev]
  <1> DEFINE n == Cardinality(S)
             at(i) == CHOOSE x \in S : Cardinality({y \in S : y.seq <= x.seq}) = i
             t == TrailOf(S)
  <1>1. n \in Nat
    BY FS_CardinalityType DEF Placed
  <1>2. ASSUME NEW x \in S PROVE Rank(S, x) \in 1 .. n /\ x = at(Rank(S, x))
    <2>1. PICK i : i = Rank(S, x)
      OBVIOUS
    <2>2. i \in 1 .. n
      BY <2>1, RankIs
    <2>3. x = at(i)
      BY <2>1, <2>2, RankedOne
    <2>. QED
      BY <2>1, <2>2, <2>3
  <1>3. ASSUME NEW i \in 1 .. n PROVE at(i) \in S
    <2>1. PICK x \in S : Rank(S, x) = i
      BY RankIsOf
    <2>. QED
      BY <1>2, <2>1
  <1>4. t = [i \in 1 .. n |-> [id |-> at(i).id, prev |-> at(i).prev]]
    BY DEF TrailOf
  <1> HIDE DEF n, at, t
  <1>5. t \in [1 .. n -> Event]
    BY <1>3, <1>4 DEF Event
  <1>6. ASSUME NEW T, NEW f \in [1 .. n -> T] PROVE f \in Seq(T) /\ Len(f) = n
    BY <1>1, <1>6
  <1>7. t \in Seq(Event) /\ Len(t) = n
    BY <1>5, <1>6
  <1>8. \A x \in S : t[Rank(S, x)] = [id |-> x.id, prev |-> x.prev]
    BY <1>2, <1>4
  <1>. QED
    BY <1>2, <1>7, <1>8 DEF n, t

\* What comes after a trail, linked to its end, makes a longer one of it.
LEMMA LongerTrail ==
  ASSUME NEW S, NEW T, S \subseteq T, S # T,
         Placed(T), \A x \in T : x.id \in EventIds /\ x.prev \in EventIds \cup {Null},
         \A x \in S, y \in T \ S : x.seq < y.seq,
         \A x \in T : Follows(x, T)
  PROVE  /\ Len(TrailOf(S)) < Len(TrailOf(T))
         /\ \A i \in 1 .. Len(TrailOf(S)) : TrailOf(T)[i] = TrailOf(S)[i]
         /\ \A i \in Len(TrailOf(S)) + 1 .. Len(TrailOf(T)) :
              TrailOf(T)[i].prev = IF i = 1 THEN Null ELSE TrailOf(T)[i - 1].id
  <1>1. Placed(S) /\ Cardinality(S) < Cardinality(T) /\ Cardinality(S) \in Nat /\ Cardinality(T) \in Nat
    <2>1. IsFiniteSet(S) /\ IsFiniteSet(T)
      BY FS_Subset DEF Placed
    <2>2. Cardinality(S) <= Cardinality(T) /\ Cardinality(S) # Cardinality(T)
      BY <2>1, FS_Subset
    <2>3. Cardinality(S) \in Nat /\ Cardinality(T) \in Nat
      BY <2>1, FS_CardinalityType
    <2>. QED
      BY <2>1, <2>2, <2>3 DEF Placed
  <1>2. Len(TrailOf(S)) = Cardinality(S) /\ Len(TrailOf(T)) = Cardinality(T)
    BY <1>1, TrailAt
  <1>3. /\ \A x \in S : TrailOf(S)[Rank(S, x)] = [id |-> x.id, prev |-> x.prev]
        /\ \A x \in T : TrailOf(T)[Rank(T, x)] = [id |-> x.id, prev |-> x.prev]
    BY <1>1, TrailAt
  <1>4. ASSUME NEW x \in S PROVE Rank(T, x) = Rank(S, x)
    <2>1. Upto(T, x) = Upto(S, x)
      BY DEF Upto, Placed
    <2>. QED
      BY <2>1 DEF Rank
  <1>5. ASSUME NEW i \in 1 .. Cardinality(S) PROVE TrailOf(T)[i] = TrailOf(S)[i]
    <2>1. PICK x \in S : Rank(S, x) = i
      BY <1>1, RankIsOf
    <2>2. /\ TrailOf(S)[Rank(S, x)] = [id |-> x.id, prev |-> x.prev]
          /\ TrailOf(T)[Rank(T, x)] = [id |-> x.id, prev |-> x.prev]
      BY <1>3
    <2>3. Rank(T, x) = i
      BY <1>4, <2>1
    <2>. QED
      BY <2>1, <2>2, <2>3, Zenon
  <1>6. ASSUME NEW i \in 1 .. Cardinality(T)
        PROVE  TrailOf(T)[i].prev = IF i = 1 THEN Null ELSE TrailOf(T)[i - 1].id
    <2>1. PICK x \in T : Rank(T, x) = i
      BY RankIsOf
    <2>2. TrailOf(T)[i].prev = x.prev
      <3>1. TrailOf(T)[Rank(T, x)] = [id |-> x.id, prev |-> x.prev]
        BY <1>3
      <3>2. TrailOf(T)[i] = [id |-> x.id, prev |-> x.prev]
        BY <2>1, <3>1, Zenon
      <3>. QED
        BY <3>2
    <2>3. CASE x.prev = Null /\ Rank(T, x) = 1
      BY <2>1, <2>2, <2>3
    <2>4. CASE \E y \in T : x.prev = y.id /\ Rank(T, x) = Rank(T, y) + 1
      <3>1. PICK y \in T : x.prev = y.id /\ i = Rank(T, y) + 1
        BY <2>1, <2>4
      <3>2. Rank(T, y) \in 1 .. Cardinality(T)
        BY RankIs
      <3>3. i - 1 = Rank(T, y) /\ i # 1
        BY <1>1, <3>1, <3>2
      <3>4. TrailOf(T)[i - 1].id = y.id
        <4>1. TrailOf(T)[Rank(T, y)] = [id |-> y.id, prev |-> y.prev]
          BY <1>3
        <4>2. TrailOf(T)[i - 1] = [id |-> y.id, prev |-> y.prev]
          BY <3>3, <4>1, Zenon
        <4>. QED
          BY <4>2
      <3>. QED
        BY <2>2, <3>1, <3>3, <3>4
    <2>. QED
      BY <2>3, <2>4, RankFollows
  <1>. QED
    BY <1>1, <1>2, <1>3, <1>5, <1>6

\* The committed events have each a place of their own, and follow each other as
\* long as all writers lock.
TrailOK ==
  /\ Placed(Committed)
  /\ \A x \in Committed : x.id \in EventIds /\ x.prev \in EventIds \cup {Null}
  /\ OnlyLocking => \A x \in Committed : Follows(x, Committed)

LEMMA TrailOKAlways == ASSUME AuditAssumption PROVE Spec => []TrailOK
  <1>1. ASSUME Typed, Linked, Chain, Growing PROVE TrailOK
    <2>1. Committed \in SUBSET rows
      BY DEF Committed
    <2>2. IsFiniteSet(Committed)
      BY <1>1, <2>1, FS_Subset DEF Growing
    <2>. QED
      BY <1>1, <2>1, <2>2, CommittedFollows DEF Typed, RowOK, Row, Distinct, Placed, TrailOK
  <1>. QED
    BY <1>1, TypedAlways, LinkedAlways, ChainAlways, GrowingAlways, PTL

LEMMA LogStep ==
  ASSUME AuditAssumption, Typed, Growing, TrailOK, TrailOK', [Next]_vars, OnlyLocking', Trail' # Trail
  PROVE  Log!Next
  <1>1. OnlyLocking
    BY OnlyLockingBack
  <1>2. Trail = TrailOf(Committed) /\ Trail' = TrailOf(Committed')
    BY DEF Trail, TrailOf
  <1>3. Committed' # Committed
    BY <1>2
  <1>4. PICK w \in Writers : Commit(w)
    <2>1. ASSUME NEW w \in Writers, Insert(w) PROVE Committed' = Committed
      BY <2>1 DEF Insert, Committed
    <2>2. ASSUME NEW w \in Writers, Rollback(w) PROVE Committed' = Committed
      <3>1. \A e \in rows : e.by = w => ~e.committed
        BY <2>2, OpenRows DEF Rollback, Active
      <3>. QED
        BY <2>2, <3>1 DEF Rollback, Committed
    <2>. QED
      BY <1>3, <2>1, <2>2 DEF Next, vars, Begin, ReadTail, Committed
  <1>5. rows' = {CommittedRow(w, e) : e \in rows} /\ writer[w].phase \in Active
    BY <1>4 DEF Commit, CommittedRow, Step, Active
  <1>6. Committed \subseteq Committed'
    <2>1. ASSUME NEW e \in Committed PROVE e.by # w
      BY <1>5, OpenRows DEF Committed
    <2>2. ASSUME NEW e \in Committed PROVE e \in rows' /\ e.committed
      BY <1>5, <2>1 DEF CommittedRow, Committed
    <2>. QED
      BY <2>2 DEF Committed
  <1>7. ASSUME NEW x \in Committed, NEW c \in Committed' \ Committed PROVE x.seq < c.seq
    <2>1. PICK e \in rows : c = CommittedRow(w, e)
      BY <1>5 DEF Committed
    <2>2. c.seq = e.seq
      BY <2>1, CommittedIs
    <2>3. ~e.committed
      <3>1. ASSUME e.committed PROVE FALSE
        <4>1. e.by # w
          BY <1>5, <3>1, OpenRows
        <4>. QED
          BY <1>7, <2>1, <3>1, <4>1 DEF CommittedRow, Committed
      <3>. QED
        BY <3>1
    <2>. QED
      BY <1>1, <2>2, <2>3 DEF Growing, Committed
  <1>8. /\ Placed(Committed')
        /\ \A x \in Committed' : x.id \in EventIds /\ x.prev \in EventIds \cup {Null}
        /\ \A x \in Committed' : Follows(x, Committed')
    BY DEF TrailOK, Placed, Follows
  <1>9. Trail' \in Seq(Event)
    BY <1>2, <1>8, TrailAt
  <1>10. /\ Len(Trail) < Len(Trail')
         /\ \A i \in 1 .. Len(Trail) : Trail'[i] = Trail[i]
         /\ \A i \in Len(Trail) + 1 .. Len(Trail') :
              Trail'[i].prev = IF i = 1 THEN Null ELSE Trail'[i - 1].id
    BY <1>2, <1>3, <1>6, <1>7, <1>8, LongerTrail
  <1>. QED
    BY <1>9, <1>10 DEF Log!Next, Event

\* As long as every writer takes the lock, what a reader has got of the trail stays
\* its beginning, and a commit adds the events of its transaction behind it.
THEOREM TrailIsLog == ASSUME AuditAssumption PROVE Spec => TrailGrowsAsLog
  <1>1. Init => Log!Init
    <2>1. ASSUME Init PROVE Cardinality(Committed) = 0
      BY <2>1, FS_EmptySet DEF Init, Committed
    <2>2. ASSUME Init PROVE Trail = <<>>
      BY <2>1, <2>2 DEF Trail
    <2>. QED
      BY <2>2 DEF Log!Init
  <1>2. Typed /\ Growing /\ TrailOK /\ TrailOK' /\ [Next]_vars => [OnlyLocking' => Log!Next]_Trail
    BY LogStep
  <1>. QED
    BY <1>1, <1>2, TypedAlways, GrowingAlways, TrailOKAlways, PTL DEF Spec, TrailGrowsAsLog

=============================================================================
