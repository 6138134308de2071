------------------------------ MODULE JobQueue ------------------------------
(***************************************************************************)
(* What a caller of enqueueOutboxEvent may rely on, without workers, locks,*)
(* attempts or time: an event that is enqueued stays in the queue until its*)
(* handler has succeeded or the job is given up as dead; delivery is at    *)
(* least once; a dead job returns to the queue only by a replay.           *)
(***************************************************************************)
CONSTANT Jobs

VARIABLES state,  \* absent, open, processed or dead
          done    \* the handler has succeeded for the job at least once

vars == <<state, done>>

Init ==
  /\ state = [j \in Jobs |-> "absent"]
  /\ done = [j \in Jobs |-> FALSE]

Submit(j) ==
  /\ state[j] = "absent"
  /\ state' = [state EXCEPT ![j] = "open"]
  /\ UNCHANGED done

\* A delivery succeeds.  It may be a late one, of a job already settled.
Deliver(j) ==
  /\ state[j] # "absent"
  /\ done' = [done EXCEPT ![j] = TRUE]
  /\ UNCHANGED state

Acknowledge(j) ==
  /\ state[j] = "open"
  /\ done[j]
  /\ state' = [state EXCEPT ![j] = "processed"]
  /\ UNCHANGED done

GiveUp(j) ==
  /\ state[j] = "open"
  /\ state' = [state EXCEPT ![j] = "dead"]
  /\ UNCHANGED done

Requeue(j) ==
  /\ state[j] = "dead"
  /\ state' = [state EXCEPT ![j] = "open"]
  /\ UNCHANGED done

Next == \E j \in Jobs : Submit(j) \/ Deliver(j) \/ Acknowledge(j) \/ GiveUp(j) \/ Requeue(j)

Spec == Init /\ [][Next]_vars

\* Every job in the queue is settled in the end.
FairSpec == Spec /\ \A j \in Jobs : WF_vars(Acknowledge(j) \/ GiveUp(j))

=============================================================================
