------------------------------ MODULE ApiServer ------------------------------
(***************************************************************************)
(* One API process (apps/api/src/server.js): the readiness check before it *)
(* listens, the requests and event streams it serves, and its shutdown: it *)
(* refuses new work, waits until no connection is left, closes repository, *)
(* storage and outbox and exits; a timer ends it when that takes too long. *)
(* A handler runs on when its client has gone, and a stream has no end of  *)
(* its own.                                                                *)
(***************************************************************************)
EXTENDS FiniteSets

CONSTANTS Calls   \* the requests of a behaviour: its bound

VARIABLES
  async,    \* the repository answers with promises (PostgreSQL)
  life,     \* the process
  open,     \* repository, storage and outbox are open
  failsafe, \* the timer of the shutdown is set
  ended,    \* how the process ended
  call,     \* how far each request is
  gone      \* requests whose connection the client or the server has dropped

vars == <<async, life, open, failsafe, ended, call, gone>>

-----------------------------------------------------------------------------
Life == {"starting", "refused", "listening", "draining", "closing", "exited"}

Ended == {"running", "drained", "failsafe", "startup", "killed", "uncaught"}

\* "opening" and "stream": before and after the head of an event stream.
\* "silent": a stream that sends nothing more.
Call == {"none", "readiness", "body", "principal", "handler", "opening", "stream", "silent",
         "answered", "dropped"}

Serving == life \in {"listening", "draining", "closing"}

\* The server holds the connection of c.
Connected(c) == call[c] \notin {"none", "answered", "dropped"} /\ c \notin gone

Waiting(c) == Connected(c) /\ call[c] \in {"readiness", "body", "principal", "handler"}

Init ==
  /\ async \in BOOLEAN
  /\ life = "starting"
  /\ open = TRUE
  /\ failsafe = FALSE
  /\ ended = "running"
  /\ call = [c \in Calls |-> "none"]
  /\ gone = {}

Exits(how) == life' = "exited" /\ ended' = how

Process == <<async, life, open, failsafe, ended>>

-----------------------------------------------------------------------------
(* Start. *)

\* listenWhenReady: the dependencies are ready and the port is bound.
ListenWhenReady ==
  /\ life = "starting"
  /\ life' = "listening"
  /\ UNCHANGED <<async, open, failsafe, ended, call, gone>>

\* They are not: the exit code is 1 once everything is closed again.
StartupFailed ==
  /\ life = "starting"
  /\ life' = "refused"
  /\ UNCHANGED <<async, open, failsafe, ended, call, gone>>

CloseRepository ==
  /\ life = "refused"
  /\ open' = FALSE
  /\ Exits("startup")
  /\ UNCHANGED <<async, failsafe, call, gone>>

-----------------------------------------------------------------------------
(* Requests. *)

\* A request on a new connection, or on one that is open while the server
\* drains.  The probes are answered at any time, other work is not.
Arrive(c) ==
  /\ life \in {"listening", "draining"}
  /\ life = "draining" => \E o \in Calls : Connected(o)
  /\ call[c] = "none"
  /\ \/ call' = [call EXCEPT ![c] = "answered"]     \* OPTIONS, /health, 429, 503
     \/ call' = [call EXCEPT ![c] = "readiness"]    \* /ready, /metrics
     \/ /\ life = "listening"
        /\ \/ call' = [call EXCEPT ![c] = "body"]
           \/ call' = [call EXCEPT ![c] = "opening"]
  /\ UNCHANGED <<Process, gone>>

BodyEnds(c) ==
  /\ Serving
  /\ call[c] = "body" /\ c \notin gone
  /\ call' = [call EXCEPT ![c] = "principal"]
  /\ UNCHANGED <<Process, gone>>

\* requestTimeoutMs runs while the body is read, and not longer; like a body
\* that is too large it destroys the request, and its answer may be lost.
BodyRefused(c) ==
  /\ Serving
  /\ call[c] = "body"
  /\ call' = [call EXCEPT ![c] = "dropped"]
  /\ UNCHANGED <<Process, gone>>

\* resolvePrincipal, and then the handler; or a 401.
Resolve(c) ==
  /\ Serving
  /\ call[c] = "principal"
  /\ call' \in {[call EXCEPT ![c] = x] : x \in {"handler", "answered"}}
  /\ UNCHANGED <<Process, gone>>

\* The result is sent, to nobody when the client has gone.
Answer(c) ==
  /\ Serving
  /\ call[c] \in {"readiness", "handler"}
  /\ call' = [call EXCEPT ![c] = "answered"]
  /\ UNCHANGED <<Process, gone>>

\* The stream's principal is resolved: the tenant's stream, or an error.  A
\* synchronous repository may throw when the head has been sent: then nothing
\* more is.
OpenStream(c) ==
  /\ Serving
  /\ call[c] = "opening"
  /\ \/ call' \in {[call EXCEPT ![c] = x] : x \in {"stream", "answered"}}
     \/ ~async /\ call' = [call EXCEPT ![c] = "silent"]
  /\ UNCHANGED <<Process, gone>>

\* The repository fails under buildTenantEventSnapshot: the timer's callback
\* throws, or one of the promises it leaves alone is rejected.  A stream that
\* was opened after its client had gone keeps its timer.
Uncaught(c) ==
  /\ Serving
  /\ call[c] = "stream"
  /\ Exits("uncaught")
  /\ UNCHANGED <<async, open, failsafe, call, gone>>

\* Promises of the first snapshot.
UncaughtPromise(c) ==
  /\ Serving
  /\ call[c] = "opening" /\ async
  /\ Exits("uncaught")
  /\ UNCHANGED <<async, open, failsafe, call, gone>>

\* The client closes its connection.  Only a body and the timer of a stream end
\* with it.
ClientGone(c) ==
  /\ Serving
  /\ Connected(c)
  /\ gone' = gone \cup {c}
  /\ call' = IF call[c] \in {"body", "stream", "silent"} THEN [call EXCEPT ![c] = "dropped"] ELSE call
  /\ UNCHANGED Process

-----------------------------------------------------------------------------
(* Shutdown. *)

\* SIGTERM or SIGINT.  Until the server listens there is no handler for it.
Signal ==
  \/ /\ life \in {"starting", "refused"}
     /\ Exits("killed")
     /\ UNCHANGED <<async, open, failsafe, call, gone>>
  \/ /\ life = "listening"
     /\ life' = "draining"
     /\ failsafe' = TRUE
     /\ UNCHANGED <<async, open, ended, call, gone>>

ServerCloseBug ==
  /\ life = "draining"
  /\ \A c \in Calls : call[c] # "body"
  /\ life' = "closing"
  /\ UNCHANGED <<async, open, failsafe, ended, call, gone>>

\* The callback of server.close: no connection is left.
ServerClose ==
  /\ life = "draining"
  /\ \A c \in Calls : ~Connected(c)
  /\ life' = "closing"
  /\ UNCHANGED <<async, open, failsafe, ended, call, gone>>

\* Repository, storage and outbox are closed, whether or not one of them fails.
CloseAll ==
  /\ life = "closing" /\ open
  /\ open' = FALSE
  /\ UNCHANGED <<async, life, failsafe, ended, call, gone>>

\* onDrained
Drained ==
  /\ life = "closing" /\ ~open
  /\ Exits("drained")
  /\ UNCHANGED <<async, open, failsafe, call, gone>>

FailsafeBug ==
  /\ life = "closing" /\ failsafe
  /\ Exits("failsafe")
  /\ UNCHANGED <<async, open, failsafe, call, gone>>

\* Ten seconds after the signal.
Failsafe ==
  /\ life \in {"draining", "closing"} /\ failsafe
  /\ Exits("failsafe")
  /\ UNCHANGED <<async, open, failsafe, call, gone>>

-----------------------------------------------------------------------------
Next ==
  \/ ListenWhenReady \/ StartupFailed \/ CloseRepository
  \/ \E c \in Calls :
       \/ Arrive(c) \/ BodyEnds(c) \/ BodyRefused(c) \/ Resolve(c) \/ Answer(c)
       \/ OpenStream(c) \/ Uncaught(c) \/ UncaughtPromise(c) \/ ClientGone(c)
  \/ Signal \/ ServerClose \/ CloseAll \/ Drained \/ Failsafe

\* Timers fire and the close calls settle; no handler and no client has to end.
Fairness == WF_vars(CloseRepository) /\ WF_vars(Failsafe)

Spec == Init /\ [][Next]_vars

FairSpec == Spec /\ Fairness

-----------------------------------------------------------------------------
\* The variables have their types, and a process that serves nothing ended.
TypeOK ==
  /\ {async, open, failsafe} \subseteq BOOLEAN
  /\ life \in Life
  /\ ended \in Ended
  /\ life = "exited" <=> ended # "running"
  /\ call \in [Calls -> Call]
  /\ gone \subseteq Calls

(***************************************************************************)
(* The shutdown cuts nobody who waits: when the stores are closed or the   *)
(* process is gone, a client that stayed has its answer.  Only the         *)
(* ten-second timer and a failing event stream, which takes the whole      *)
(* process with it, end a process before that (server.beginShutdown).      *)
(***************************************************************************)
NobodyIsCut ==
  (life = "closing" \/ ended \in {"drained", "startup", "killed"} \/ ~open) =>
    \A c \in Calls : ~Connected(c)

(***************************************************************************)
(* A process that was told to stop does stop, although event streams and   *)
(* handlers may go on for ever.                                            *)
(***************************************************************************)
ServerStops == life = "draining" ~> life = "exited"
=============================================================================
