----------------------------- MODULE FileUpload -----------------------------
(***************************************************************************)
(* Tenant files: the routes under /files of apps/api/src/handlers.js, the  *)
(* two storage drivers of packages/file-storage and the file records in    *)
(* PostgreSQL.  A record and its object are in two stores, and no lock     *)
(* spans a request: each call to a store is a step, and a request writes   *)
(* the record back from the copy that it read when it started.             *)
(*                                                                         *)
(* Driver "local" keeps an object and its metadata in two files and takes  *)
(* the content through the API; driver "s3" is written by the client, with *)
(* a presigned URL that creates the object but does not overwrite it.      *)
(***************************************************************************)
EXTENDS Naturals, FiniteSets

CONSTANTS
  Files,
  Contents,     \* what a client may send
  Bad,          \* of these, what does not match the upload intent
  None,         \* no object, no metadata, no checksum
  Drivers,      \* the values of XYGO_STORAGE_DRIVER to look at
  MaxRequests,  \* bound: requests for one file
  MaxFaults     \* bound: failing calls and crashes, together

FileAssumption ==
  /\ Bad \subseteq Contents
  /\ None \notin Contents
  /\ Drivers \subseteq {"local", "s3"}
  /\ {MaxRequests, MaxFaults} \subseteq Nat

VARIABLES
  driver,     \* XYGO_STORAGE_DRIVER, set when the API starts
  record,     \* the rows of file_records
  object,     \* the stored objects
  metadata,   \* the tenant, type, size and checksum stored with them
  requests,   \* the requests in flight
  evidence,   \* audit and outbox events of a file, committed with its record
  vouched,    \* history: the content that the last completion of a file checked
  disturbed,  \* history: the files with requests that overlapped, or with a
              \* deletion that took effect, or half of it, and failed
  started,    \* requests started so far, per file
  faults

vars == <<driver, record, object, metadata, requests, evidence, vouched, disturbed, started, faults>>

-----------------------------------------------------------------------------
FileStatus == {"absent", "pending_upload", "ready", "deleting", "deleted"}

Record == [status : FileStatus, checksum : Contents \cup {None}]

Phase == {"put", "putMetadata", "head", "finalize", "mark", "remove", "restore", "finalizeDelete"}

\* previous: the copy of the record; content: what is put or has been seen;
\* left: the files that deleteObject still has to remove.
Request == [id : Nat, file : Files, phase : Phase, previous : Record,
            content : Contents \cup {None}, left : SUBSET {"object", "metadata"}]

NewRequest(f, phase, content) ==
  [id |-> started[f] + 1, file |-> f, phase |-> phase, previous |-> record[f],
   content |-> content, left |-> {"object", "metadata"}]

\* A request for f arrives.
Arrives(f) ==
  /\ started[f] < MaxRequests
  /\ started' = [started EXCEPT ![f] = @ + 1]
  /\ disturbed' = IF \E r \in requests : r.file = f THEN disturbed \cup {f} ELSE disturbed

Starts(f, phase, content) ==
  /\ Arrives(f)
  /\ requests' = requests \cup {NewRequest(f, phase, content)}

Move(r, phase) == requests' = (requests \ {r}) \cup {[r EXCEPT !.phase = phase]}

Ends(r) == requests' = requests \ {r}

\* saveFileRecord and finalizeFileRecord: the row is overwritten.
Write(f, status, checksum) ==
  record' = [record EXCEPT ![f] = [status |-> status, checksum |-> checksum]]

Fault == faults < MaxFaults /\ faults' = faults + 1

Evidence(f, event) == evidence' = [evidence EXCEPT ![f] = @ \cup {event}]

-----------------------------------------------------------------------------
Init ==
  /\ driver \in Drivers
  /\ record = [f \in Files |-> [status |-> "absent", checksum |-> None]]
  /\ object = [f \in Files |-> None]
  /\ metadata = [f \in Files |-> None]
  /\ requests = {}
  /\ evidence = [f \in Files |-> {}]
  /\ vouched = [f \in Files |-> None]
  /\ disturbed = {}
  /\ started = [f \in Files |-> 0]
  /\ faults = 0

\* POST upload-intents
CreateIntent(f) ==
  /\ record[f].status = "absent"
  /\ Write(f, "pending_upload", None)
  /\ UNCHANGED <<driver, object, metadata, requests, evidence, vouched, disturbed, started, faults>>

\* External: the client uses the presigned URL (If-None-Match: *), which it may
\* do as long as the URL lives, whatever has become of the record.
ClientUpload(f, c) ==
  /\ driver = "s3"
  /\ record[f].status # "absent"
  /\ object[f] = None
  /\ object' = [object EXCEPT ![f] = c]
  /\ metadata' = [metadata EXCEPT ![f] = c]
  /\ UNCHANGED <<driver, record, requests, evidence, vouched, disturbed, started, faults>>

\* PUT content: refused unless the record awaits it and the body matches.
StartPut(f, c) ==
  /\ driver = "local"
  /\ record[f].status = "pending_upload"
  /\ c \notin Bad
  /\ Starts(f, "put", c)
  /\ UNCHANGED <<driver, record, object, metadata, evidence, vouched, faults>>

\* putObject, the first rename
PutObject(r) ==
  /\ r.phase = "put"
  /\ object' = [object EXCEPT ![r.file] = r.content]
  /\ Move(r, "putMetadata")
  /\ UNCHANGED <<driver, record, metadata, evidence, vouched, disturbed, started, faults>>

\* putObject, the second rename
PutMetadata(r) ==
  /\ r.phase = "putMetadata"
  /\ metadata' = [metadata EXCEPT ![r.file] = r.content]
  /\ Move(r, "head")
  /\ UNCHANGED <<driver, record, object, evidence, vouched, disturbed, started, faults>>

\* POST complete: other statuses are answered without a change.  (A file that
\* is ready has its outbox event enqueued again, which finds it there.)
StartComplete(f) ==
  /\ record[f].status = "pending_upload"
  /\ Starts(f, "head", None)
  /\ UNCHANGED <<driver, record, object, metadata, evidence, vouched, faults>>

\* headObject: the local driver keeps a checksum with the object; of an object
\* put with a presigned URL the other one knows none.
Checksum(c) == IF driver = "s3" THEN None ELSE c

\* The record of a completed upload, with what the checks were made of.
Completes(r) ==
  /\ r.phase = "finalize"
  /\ Write(r.file, "ready", Checksum(r.content))
  /\ Evidence(r.file, "upload_completed")
  /\ vouched' = [vouched EXCEPT ![r.file] = r.content]

\* The record of a finished deletion.
Deletes(r) ==
  /\ r.phase = "finalizeDelete"
  /\ Write(r.file, "deleted", r.previous.checksum)
  /\ Evidence(r.file, "deleted")
  /\ UNCHANGED vouched

\* completeFileUpload: headObject and the checks against the upload intent.
Head(r) ==
  /\ r.phase = "head"
  /\ IF metadata[r.file] \in Bad \cup {None} \/ object[r.file] = None
     THEN Ends(r)
     ELSE requests' = (requests \ {r}) \cup
            {[r EXCEPT !.phase = "finalize", !.content = metadata[r.file]]}
  /\ UNCHANGED <<driver, record, object, metadata, evidence, vouched, disturbed, started, faults>>

\* finalizeFileRecord: record, audit event and outbox event, one transaction.
FinalizeReady(r) ==
  /\ Completes(r)
  /\ Ends(r)
  /\ UNCHANGED <<driver, object, metadata, disturbed, started, faults>>

\* DELETE: a deleted file is answered without a change; a file that is being
\* deleted is taken up after the mark.
StartDelete(f) ==
  /\ \/ record[f].status \in {"pending_upload", "ready"} /\ Starts(f, "mark", None)
     \/ record[f].status = "deleting" /\ Starts(f, "remove", None)
  /\ UNCHANGED <<driver, record, object, metadata, evidence, vouched, faults>>

MarkDeleting_SkippedBug(r) ==
  /\ r.phase = "mark"
  /\ Move(r, "remove")
  /\ UNCHANGED <<driver, record, object, metadata, evidence, vouched, disturbed, started, faults>>

\* The intent is recorded before the object is removed.
MarkDeleting(r) ==
  /\ r.phase = "mark"
  /\ Write(r.file, "deleting", r.previous.checksum)
  /\ Move(r, "remove")
  /\ UNCHANGED <<driver, object, metadata, evidence, vouched, disturbed, started, faults>>

\* deleteObject: the two files of the local driver are removed in any order,
\* the object of the other driver at once.
Removes(r, parts) ==
  /\ object' = IF "object" \in parts THEN [object EXCEPT ![r.file] = None] ELSE object
  /\ metadata' = IF "metadata" \in parts THEN [metadata EXCEPT ![r.file] = None] ELSE metadata

Removable(r) ==
  IF driver = "s3" THEN {{"object", "metadata"}} ELSE {{part} : part \in r.left}

Remove(r) ==
  /\ r.phase = "remove"
  /\ \E parts \in Removable(r) :
       /\ Removes(r, parts)
       /\ requests' = (requests \ {r}) \cup
            {[r EXCEPT !.left = @ \ parts,
                       !.phase = IF r.left \subseteq parts THEN "finalizeDelete" ELSE @]}
  /\ UNCHANGED <<driver, record, evidence, vouched, disturbed, started, faults>>

\* DELETE fails before its finalization: the previous record is put back,
\* unless the request had found the file in deletion.
GivesUp(r) == IF r.previous.status = "deleting" THEN Ends(r) ELSE Move(r, "restore")

MarkFault(r) ==
  /\ r.phase = "mark"
  /\ Fault
  /\ UNCHANGED record \/ Write(r.file, "deleting", r.previous.checksum)
  /\ GivesUp(r)
  /\ UNCHANGED <<driver, object, metadata, evidence, vouched, disturbed, started>>

RemoveFault(r) ==
  /\ r.phase = "remove"
  /\ Fault
  /\ \/ UNCHANGED <<object, metadata>>
     \/ \E parts \in Removable(r) : Removes(r, parts)
  /\ disturbed' = IF r.left = {"object", "metadata"} /\ UNCHANGED <<object, metadata>>
                  THEN disturbed ELSE disturbed \cup {r.file}
  /\ GivesUp(r)
  /\ UNCHANGED <<driver, record, evidence, vouched, started>>

Restore_ReadyBug(r) ==
  /\ r.phase = "restore"
  /\ Write(r.file, "ready", r.previous.checksum)
  /\ Ends(r)
  /\ UNCHANGED <<driver, object, metadata, evidence, vouched, disturbed, started, faults>>

\* The record is put back as it was read.
Restore(r) ==
  /\ r.phase = "restore"
  /\ Write(r.file, r.previous.status, r.previous.checksum)
  /\ Ends(r)
  /\ UNCHANGED <<driver, object, metadata, evidence, vouched, disturbed, started, faults>>

FinalizeDeleted(r) ==
  /\ Deletes(r)
  /\ Ends(r)
  /\ UNCHANGED <<driver, object, metadata, disturbed, started, faults>>

\* Any other call fails and the request is answered with 503, or the process
\* ends.  The database calls may have taken effect.
RequestFault(r) ==
  /\ Fault
  /\ UNCHANGED <<record, evidence, vouched>> \/ Completes(r) \/ Deletes(r)
  /\ Ends(r)
  /\ UNCHANGED <<driver, object, metadata, disturbed, started>>

Next ==
  \/ \E f \in Files :
       \/ CreateIntent(f)
       \/ StartComplete(f)
       \/ StartDelete(f)
       \/ \E c \in Contents : ClientUpload(f, c) \/ StartPut(f, c)
  \/ \E r \in requests :
       \/ PutObject(r)
       \/ PutMetadata(r)
       \/ Head(r)
       \/ FinalizeReady(r)
       \/ MarkDeleting(r)
       \/ Remove(r)
       \/ MarkFault(r)
       \/ RemoveFault(r)
       \/ Restore(r)
       \/ FinalizeDeleted(r)
       \/ RequestFault(r)

Spec == Init /\ [][Next]_vars

-----------------------------------------------------------------------------
\* Every variable has its type; a file that awaits its content has no checksum.
TypeOK ==
  /\ driver \in Drivers
  /\ record \in [Files -> Record]
  /\ \A f \in Files :
       record[f].status \in {"absent", "pending_upload"} => record[f].checksum = None
  /\ object \in [Files -> Contents \cup {None}]
  /\ metadata \in [Files -> Contents \cup {None}]
  /\ requests \subseteq Request
  /\ evidence \in [Files -> SUBSET {"upload_completed", "deleted"}]
  /\ vouched \in [Files -> Contents \cup {None}]
  /\ disturbed \subseteq Files
  /\ started \in [Files -> Nat]
  /\ faults \in Nat

Stored(f) == object[f] \notin Bad \cup {None} /\ metadata[f] # None

Undisturbed == Files \ disturbed

\* The object is in its place, and what a presigned URL has put there is what
\* the completion checked: nothing else was put there later.
Whole(f) == Stored(f) /\ (driver = "s3" => object[f] = vouched[f])

\* Crashes and failing calls between any two steps of an upload, a completion or
\* a deletion leave no ready record without its object, nor does a retry: that
\* takes overlapping requests, or a deletion that fails after its effect.
ReadyLostByDisturbance == \A f \in Undisturbed : record[f].status = "ready" => Whole(f)

\* Whatever the interleaving and the faults, a content that does not match its
\* upload intent is not what a file is made ready with; and what the record
\* tells of the content is the checksum of a matching one, if the driver has any.
ReadyWasChecked ==
  \A f \in Files :
    record[f].status = "ready" =>
      /\ vouched[f] \notin Bad \cup {None}
      /\ IF driver = "s3" THEN record[f].checksum = None
                          ELSE record[f].checksum \notin Bad \cup {None}

\* Whatever the interleaving and the faults, a file that is or was made ready
\* or deleted has the audit and outbox events of it.
StatusHasEvidence ==
  \A f \in Files :
    /\ record[f].status = "ready" => "upload_completed" \in evidence[f]
    /\ record[f].status = "deleted" => "deleted" \in evidence[f]

\* A deleted file has left neither object nor metadata in the local storage,
\* whatever was removed by which of the requests that tried.
DeletedHasNoObject ==
  \A f \in Undisturbed :
    driver = "local" /\ record[f].status = "deleted" => object[f] = None /\ metadata[f] = None

\* A deleted file stays deleted: no retry and no restoration brings it back.
StaysDeleted ==
  \A f \in Files \ disturbed' : record[f].status = "deleted" => record'[f] = record[f]

DeletedIsFinal == [][StaysDeleted]_record

\* An object goes only while its record says so: no reader is sent to an object
\* that is being removed.
RemovesWhileDeleting ==
  \A f \in Undisturbed :
    object[f] # None /\ object'[f] = None => record[f].status = "deleting"

ObjectGoesWhileDeleting == [][RemovesWhileDeleting]_object

=============================================================================
