------------------------------ MODULE Delivery ------------------------------
(***************************************************************************)
(* What the worker and the providers have a part in: email jobs, claims of *)
(* outbox jobs whose handlers outlast them, and files in the object        *)
(* storage, with many requests or with many faults.  Each is taken by      *)
(* itself: a behaviour is one of the component that machine names.         *)
(***************************************************************************)
EXTENDS EmailDelivery

CONSTANTS
  Workers, Nobody, ClaimAttempts, BaseBackoff, MaxBackoff, StaleAfter,    \* Outbox
  Concurrency, MaxRun, MaxClaims, MaxReplays, MaxClaimFaults,
  Files, Contents, Bad, None, Drivers,                                    \* FileUpload
  ManyRequests, FewFaults, FewRequests, ManyFaults

-----------------------------------------------------------------------------
VARIABLES jobs, alive, ticks, flights, handled, rejected, failed

outboxVars == <<jobs, alive, ticks, flights, handled, rejected, failed>>

\* The jobs of the deliveries, whose claims go stale under their handlers.
Overrun == INSTANCE Outbox
  WITH Jobs <- Deliveries, None <- Nobody, MaxAttempts <- ClaimAttempts,
       MaxFaults <- MaxClaimFaults, runs <- flights, faults <- failed

VARIABLES driver, record, object, metadata, requests, evidence, vouched, disturbed, started, broken

fileVars == <<driver, record, object, metadata, requests, evidence, vouched, disturbed, started, broken>>

\* Many requests, and many faults.
Busy == INSTANCE FileUpload
  WITH MaxRequests <- ManyRequests, MaxFaults <- FewFaults, faults <- broken
Faulty == INSTANCE FileUpload
  WITH MaxRequests <- FewRequests, MaxFaults <- ManyFaults, faults <- broken

ASSUME DeliveryAssumption ==
  /\ Overrun!OutboxAssumption
  /\ Busy!FileAssumption
  /\ Faulty!FileAssumption

-----------------------------------------------------------------------------
VARIABLE machine

\* What stays out of a behaviour has no state.
OutboxIdle ==
  /\ jobs = 0 /\ alive = 0 /\ ticks = 0 /\ flights = 0
  /\ handled = 0 /\ rejected = 0 /\ failed = 0
FileIdle ==
  /\ driver = 0 /\ record = 0 /\ object = 0 /\ metadata = 0 /\ requests = 0
  /\ evidence = 0 /\ vouched = 0 /\ disturbed = 0 /\ started = 0 /\ broken = 0

DeliveryInit ==
  /\ \/ machine = "mail" /\ OutboxIdle /\ FileIdle
     \/ machine = "claims" /\ Overrun!Init /\ FileIdle
     \/ machine = "files" /\ OutboxIdle /\ Busy!Init
     \/ machine = "faulty files" /\ OutboxIdle /\ Faulty!Init
  /\ Init

MailStep   == machine = "mail" /\ Next /\ UNCHANGED <<machine, outboxVars, fileVars>>
ClaimStep  == machine = "claims" /\ Overrun!Next /\ UNCHANGED <<machine, vars, fileVars>>
FileStep   == machine = "files" /\ Busy!Next /\ UNCHANGED <<machine, vars, outboxVars>>
FaultyStep == machine = "faulty files" /\ Faulty!Next /\ UNCHANGED <<machine, vars, outboxVars>>

DeliveryNext == MailStep \/ ClaimStep \/ FileStep \/ FaultyStep

DeliverySpec == DeliveryInit /\ [][DeliveryNext]_<<machine, vars, outboxVars, fileVars>>

-----------------------------------------------------------------------------
(* What the components promise; the comments are in their modules. *)

\* What is said of files does not depend on the bounds.
OfFiles == machine \in {"files", "faulty files"}

\* The variables of every component have their types.
TypesOK ==
  /\ TypeOK
  /\ machine = "claims" => Overrun!TypeOK
  /\ OfFiles => Busy!TypeOK

\* A claim ends only through the worker that holds it, however long handlers
\* take, and a job that is processed stays so.
SettledOnceByOwner ==
  [][machine = "claims" => Overrun!SettledByOwner /\ Overrun!StaysProcessed]_jobs

\* A file that is ready was checked, has its events and, but for a disturbance,
\* its content; one that is deleted has left nothing behind.
FileStatusIsReal ==
  OfFiles => /\ Busy!ReadyLostByDisturbance
             /\ Busy!ReadyWasChecked
             /\ Busy!StatusHasEvidence
             /\ Busy!DeletedHasNoObject

\* An object is taken away only while its record says so, and a file that is
\* deleted stays deleted.
DeletionIsOrdered ==
  [][OfFiles => Busy!RemovesWhileDeleting /\ Busy!StaysDeleted]_<<object, record>>
=============================================================================
