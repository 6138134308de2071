---------------------------- MODULE AppendOnlyLog ----------------------------
(***************************************************************************)
(* What the audit trail of one tenant is to its readers: a sequence that   *)
(* only grows at its end, each event linked to the one before it.          *)
(***************************************************************************)
EXTENDS Naturals, Sequences

CONSTANTS EventIds, Null

VARIABLE log  \* a sequence of [id, prev]

Init == log = <<>>

\* A transaction adds its events, one or more.
Next ==
  /\ log' \in Seq([id : EventIds, prev : EventIds \cup {Null}])
  /\ Len(log) < Len(log')
  /\ \A i \in 1 .. Len(log) : log'[i] = log[i]
  /\ \A i \in Len(log) + 1 .. Len(log') :
       log'[i].prev = IF i = 1 THEN Null ELSE log'[i - 1].id

Spec == Init /\ [][Next]_log

=============================================================================
