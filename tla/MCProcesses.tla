----------------------------- MODULE MCProcesses -----------------------------
(* Processes for TLC: a worker with a batch of three, three requests, and the *)
(* jobs of two releases on one database.                                      *)
EXTENDS Processes, TLC

CONSTANTS j1, j2, j3, a1, a2   \* Migrations

\* Two runs of the newest release and one of an older, and an application of each.
Releases == j1 :> 2 @@ j2 :> 3 @@ j3 :> 3 @@ a1 :> 2 @@ a2 :> 3
=============================================================================
