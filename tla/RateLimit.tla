------------------------------ MODULE RateLimit ------------------------------
(***************************************************************************)
(* The request limit of an API process (apps/api/src/http/rate-limit.js):  *)
(* a window of fixed length for every key, which begins with the first     *)
(* request after the last window.  The sweep that would drop old windows   *)
(* is exported and nobody calls it, so it is no action here.               *)
(***************************************************************************)
EXTENDS Integers, FiniteSets

CONSTANTS
  Clients,      \* the keys: a tenant header, a token or an address
  Window, Max,  \* XYGO_RATE_LIMIT_WINDOW_MS, XYGO_RATE_LIMIT_MAX
  MaxTime,      \* bound: the clock
  MaxRestarts   \* bound: restarts of the process

RateAssumption ==
  /\ {Window, Max} \subseteq Nat \ {0}
  /\ {MaxTime, MaxRestarts} \subseteq Nat

VARIABLES
  now,
  buckets,      \* the window of each key that has one
  admitted,     \* history: the requests let in, by key, time and number
  restarts

vars == <<now, buckets, admitted, restarts>>

-----------------------------------------------------------------------------
Bucket == [count : Nat, resetAt : Nat]

Between(c, from, to) == {a \in admitted : a[1] = c /\ a[2] >= from /\ a[2] < to}

Init ==
  /\ now = 0
  /\ buckets = [c \in {} |-> 0]
  /\ admitted = {}
  /\ restarts = 0

\* The bucket in which a request at this time is counted.
OpenBug(c) ==
  IF c \in DOMAIN buckets /\ now < buckets[c].resetAt
  THEN [buckets[c] EXCEPT !.count = IF now + 1 = buckets[c].resetAt THEN 0 ELSE @]
  ELSE [count |-> 0, resetAt |-> now + Window]

Open(c) ==
  IF c \in DOMAIN buckets /\ now < buckets[c].resetAt
  THEN buckets[c]
  ELSE [count |-> 0, resetAt |-> now + Window]

\* Every request counts, also one that is refused with 429.
Check(c) ==
  LET count == Open(c).count + 1
  IN /\ count <= Max + 1    \* beyond, only the count goes on
     /\ buckets' = [d \in DOMAIN buckets \cup {c} |->
                      IF d = c THEN [Open(c) EXCEPT !.count = count] ELSE buckets[d]]
     /\ admitted' = IF count <= Max
                    THEN admitted \cup {<<c, now, Cardinality(Between(c, now, now + 1)) + 1>>}
                    ELSE admitted
     /\ UNCHANGED <<now, restarts>>

Tick ==
  /\ now < MaxTime
  /\ now' = now + 1
  /\ UNCHANGED <<buckets, admitted, restarts>>

\* The windows are in the memory of the process.
Restart ==
  /\ restarts < MaxRestarts
  /\ restarts' = restarts + 1
  /\ buckets' = [c \in {} |-> 0]
  /\ UNCHANGED <<now, admitted>>

Next ==
  \/ \E c \in Clients : Check(c)
  \/ Tick
  \/ Restart

Spec == Init /\ [][Next]_vars

-----------------------------------------------------------------------------
\* Every variable has its type.
TypeOK ==
  /\ now \in 0 .. MaxTime
  /\ DOMAIN buckets \subseteq Clients
  /\ \A c \in DOMAIN buckets : buckets[c] \in Bucket
  /\ admitted \subseteq Clients \X (0 .. MaxTime) \X Nat
  /\ restarts \in 0 .. MaxRestarts

(***************************************************************************)
(* In any span as long as a window a key has at most twice the limit, and  *)
(* once more the limit for every restart; and when it is refused, it has   *)
(* had the whole limit in the window that refuses it.                      *)
(***************************************************************************)
LimitHolds ==
  /\ \A c \in Clients, t \in 0 .. MaxTime :
       Cardinality(Between(c, t, t + Window)) <= (2 + restarts) * Max
  /\ \A c \in DOMAIN buckets :
       buckets[c].count > Max =>
         Cardinality(Between(c, buckets[c].resetAt - Window, buckets[c].resetAt)) >= Max

(***************************************************************************)
(* rate-limit.js:23 on the sweep: "Opportunistic cleanup so the map does   *)
(* not grow unbounded".  When a request opens a window, no other is left   *)
(* that ended a whole window before.                                       *)
(***************************************************************************)
MapDoesNotGrow ==
  \A c, d \in DOMAIN buckets : buckets[d].resetAt - Window < buckets[c].resetAt + Window
=============================================================================
