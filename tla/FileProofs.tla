------------------------------ MODULE FileProofs ------------------------------
(***************************************************************************)
(* Theorems about tenant files, for any files, contents, requests and      *)
(* faults, with either storage driver.                                     *)
(***************************************************************************)
EXTENDS FileUpload, TLAPS

-----------------------------------------------------------------------------
(* What holds however requests overlap. *)

Good == Contents \ Bad

\* A record, or the copy that a request has of it, tells what was done.
Tells(d, copy, events) ==
  /\ copy \in Record
  /\ copy.status \in {"absent", "pending_upload"} => copy.checksum = None
  /\ copy.status = "ready" => "upload_completed" \in events
  /\ copy.status = "ready" => IF d = "s3" THEN copy.checksum = None ELSE copy.checksum \in Good
  /\ copy.status = "deleted" => "deleted" \in events

RequestOK(r) ==
  /\ r \in Request
  /\ Tells(driver, r.previous, evidence[r.file])
  /\ r.phase \in {"put", "putMetadata"} => driver = "local"
  /\ r.phase \in {"put", "putMetadata", "finalize"} => r.content \in Good
  /\ r.phase \in {"mark", "restore"} => r.previous.status \in {"pending_upload", "ready"}
  /\ r.phase = "remove" => r.previous.status \in {"pending_upload", "ready", "deleting"}

\* The API never stores a content that does not match, and the other driver has
\* an object and its metadata in one.
StorageOK ==
  /\ object \in [Files -> Contents \cup {None}]
  /\ metadata \in [Files -> Contents \cup {None}]
  /\ \A f \in Files : driver = "local" => object[f] \notin Bad
  /\ \A f \in Files : driver = "s3" => object[f] = metadata[f]

RecordsOK == record \in [Files -> Record] /\ \A f \in Files : Tells(driver, record[f], evidence[f])

\* What completions vouched for.
VouchedOK ==
  /\ vouched \in [Files -> Contents \cup {None}]
  /\ \A f \in Files : "upload_completed" \in evidence[f] => vouched[f] \in Good

RestOK ==
  /\ driver \in Drivers
  /\ evidence \in [Files -> SUBSET {"upload_completed", "deleted"}]
  /\ disturbed \subseteq Files
  /\ started \in [Files -> Nat]
  /\ faults \in Nat

Typed == RecordsOK /\ StorageOK /\ VouchedOK /\ RestOK /\ \A r \in requests : RequestOK(r)

LEMMA DriverIs == ASSUME FileAssumption, RestOK PROVE driver \in {"local", "s3"}
  BY DEF FileAssumption, RestOK

LEMMA GoodIs == ASSUME FileAssumption PROVE None \notin Good /\ Good \subseteq Contents /\ Bad \subseteq Contents /\ None \notin Contents
  BY DEF FileAssumption, Good

LEMMA TypedInit == ASSUME FileAssumption, Init PROVE Typed
  BY DEF FileAssumption, Init, Typed, RecordsOK, Tells, Record, FileStatus, StorageOK, VouchedOK, RestOK

\* Evidence is only added, and the driver stays: copies stay true.
LEMMA CopiesStay ==
  ASSUME NEW d, NEW copy, NEW events, NEW more, Tells(d, copy, events), events \subseteq more
  PROVE  Tells(d, copy, more)
  BY DEF Tells

LEMMA RequestsStay ==
  ASSUME NEW r, RequestOK(r), driver' = driver, \A f \in Files : evidence[f] \subseteq evidence'[f]
  PROVE  RequestOK(r)'
  <1>1. r.file \in Files
    BY DEF RequestOK, Request
  <1>. QED
    BY <1>1, CopiesStay DEF RequestOK

\* A row is written with what the copy of a request allows.
LEMMA WriteOK ==
  ASSUME RecordsOK, NEW f \in Files, NEW status, NEW checksum, Write(f, status, checksum), UNCHANGED driver,
         \A g \in Files : evidence[g] \subseteq evidence'[g],
         Tells(driver, [status |-> status, checksum |-> checksum], evidence'[f])
  PROVE  RecordsOK'
  <1>1. PICK new : new = [status |-> status, checksum |-> checksum]
    OBVIOUS
  <1>2. record' = [record EXCEPT ![f] = new] /\ Tells(driver, new, evidence'[f])
    BY <1>1 DEF Write
  <1>3. record' \in [Files -> Record]
    BY <1>2 DEF RecordsOK, Tells
  <1>4. ASSUME NEW g \in Files PROVE Tells(driver, record'[g], evidence'[g])
    <2>1. CASE g = f
      BY <1>2, <2>1 DEF RecordsOK
    <2>2. CASE g # f
      BY <1>2, <2>2, CopiesStay DEF RecordsOK
    <2>. QED
      BY <2>1, <2>2
  <1>. QED
    BY <1>3, <1>4 DEF RecordsOK

LEMMA EvidenceGrows ==
  ASSUME RestOK, NEW f \in Files, NEW event \in {"upload_completed", "deleted"}, Evidence(f, event)
  PROVE  /\ evidence' \in [Files -> SUBSET {"upload_completed", "deleted"}]
         /\ event \in evidence'[f]
         /\ \A g \in Files : evidence[g] \subseteq evidence'[g]
  BY DEF RestOK, Evidence

\* The records that requests write.
LEMMA PendingTells == ASSUME NEW d, NEW events PROVE Tells(d, [status |-> "pending_upload", checksum |-> None], events)
  BY DEF Tells, Record, FileStatus

LEMMA DeletingTells ==
  ASSUME NEW d, NEW events, NEW c \in Contents \cup {None}
  PROVE  Tells(d, [status |-> "deleting", checksum |-> c], events)
  BY DEF Tells, Record, FileStatus

LEMMA ReadyTells ==
  ASSUME FileAssumption, NEW events, NEW c \in Good, "upload_completed" \in events
  PROVE  Tells(driver, [status |-> "ready", checksum |-> Checksum(c)], events)
  BY GoodIs DEF Checksum, Tells, Record, FileStatus

LEMMA DeletedTells ==
  ASSUME NEW d, NEW events, NEW c \in Contents \cup {None}, "deleted" \in events
  PROVE  Tells(d, [status |-> "deleted", checksum |-> c], events)
  BY DEF Tells, Record, FileStatus

LEMMA CopyTells ==
  ASSUME NEW d, NEW events, NEW copy, Tells(d, copy, events)
  PROVE  Tells(d, [status |-> copy.status, checksum |-> copy.checksum], events) /\ copy.checksum \in Contents \cup {None}
  BY DEF Tells, Record

LEMMA VouchedStays ==
  ASSUME VouchedOK, UNCHANGED <<evidence, vouched>>
  PROVE  VouchedOK'
  BY DEF VouchedOK

\* A request arrives.
LEMMA ArrivesOK ==
  ASSUME RestOK, NEW f \in Files, Arrives(f), UNCHANGED <<driver, evidence, faults>>
  PROVE  RestOK'
  BY DEF RestOK, Arrives

LEMMA NewRequestOK ==
  ASSUME FileAssumption, Typed, NEW f \in Files, NEW phase \in {"put", "head", "mark", "remove"}, NEW content \in Contents \cup {None},
         phase = "put" => driver = "local" /\ content \in Good,
         phase = "mark" => record[f].status \in {"pending_upload", "ready"},
         phase = "remove" => record[f].status = "deleting"
  PROVE  RequestOK(NewRequest(f, phase, content))
  <1>1. started[f] + 1 \in Nat
    BY DEF Typed, RestOK
  <1>2. Tells(driver, record[f], evidence[f]) /\ record[f] \in Record
    BY DEF Typed, RecordsOK, Tells
  <1> DEFINE id == started[f] + 1
             previous == record[f]
             new == [id |-> id, file |-> f, phase |-> phase, previous |-> previous,
                     content |-> content, left |-> {"object", "metadata"}]
  <1>3. NewRequest(f, phase, content) = new
    BY DEF NewRequest
  <1> HIDE DEF id, previous
  <1>4. new \in Request
    BY <1>1, <1>2 DEF id, previous, Request, Phase
  <1>5. /\ new.file = f /\ new.phase = phase /\ new.previous = record[f] /\ new.content = content
    BY DEF previous
  <1> HIDE DEF new
  <1>. QED
    BY <1>2, <1>3, <1>4, <1>5 DEF RequestOK

\* A request goes on to another phase.
LEMMA MovedOK ==
  ASSUME NEW r, RequestOK(r), NEW phase \in Phase \ {"put"},
         phase = "putMetadata" => r.phase = "put",
         phase = "finalize" => r.content \in Good,
         phase \in {"mark", "restore", "remove"} => r.previous.status \in {"pending_upload", "ready"}
  PROVE  LET new == [r EXCEPT !.phase = phase] IN
         RequestOK(new) /\ new.file = r.file /\ new.phase = phase /\ new.previous = r.previous /\ new.content = r.content /\ new.left = r.left
  <1> DEFINE new == [r EXCEPT !.phase = phase]
  <1>1. /\ new \in Request /\ new.file = r.file /\ new.phase = phase /\ new.previous = r.previous
        /\ new.content = r.content /\ new.left = r.left
    BY DEF RequestOK, Request
  <1> HIDE DEF new
  <1>2. RequestOK(new)
    BY <1>1 DEF RequestOK
  <1>. QED
    BY <1>1, <1>2 DEF new

\* One of the two parts, or both, are taken away; with the other driver both.
LEMMA RemovesOK ==
  ASSUME FileAssumption, StorageOK, NEW r, r.file \in Files, NEW parts \in Removable(r), Removes(r, parts), UNCHANGED driver
  PROVE  /\ StorageOK'
         /\ \A f \in Files : f # r.file => object'[f] = object[f] /\ metadata'[f] = metadata[f]
         /\ object'[r.file] = IF "object" \in parts THEN None ELSE object[r.file]
         /\ metadata'[r.file] = IF "metadata" \in parts THEN None ELSE metadata[r.file]
  <1>1. driver = "s3" => "object" \in parts /\ "metadata" \in parts
    BY DEF Removable
  <1>2. /\ \A f \in Files : f # r.file => object'[f] = object[f] /\ metadata'[f] = metadata[f]
        /\ object'[r.file] = IF "object" \in parts THEN None ELSE object[r.file]
        /\ metadata'[r.file] = IF "metadata" \in parts THEN None ELSE metadata[r.file]
        /\ object' \in [Files -> Contents \cup {None}] /\ metadata' \in [Files -> Contents \cup {None}]
    BY DEF Removes, StorageOK
  <1>. QED
    BY <1>1, <1>2, GoodIs DEF StorageOK

\* The requests after a step in which at most one of them is new.
LEMMA RequestsOK ==
  ASSUME \A r \in requests : RequestOK(r), UNCHANGED driver, \A f \in Files : evidence[f] \subseteq evidence'[f],
         NEW new, requests' \subseteq requests \cup {new},
         new \in requests' => new \in requests \/ (RequestOK(new) /\ new.file \in Files)
  PROVE  \A r \in requests' : RequestOK(r)'
  BY RequestsStay

\* The request after it has removed something.
Removed(r, parts) ==
  [r EXCEPT !.left = @ \ parts, !.phase = IF r.left \subseteq parts THEN "finalizeDelete" ELSE @]

LEMMA RemovedRequest ==
  ASSUME NEW r, RequestOK(r), NEW parts, r.phase = "remove", NEW new, new = Removed(r, parts)
  PROVE  /\ RequestOK(new) /\ new.file = r.file /\ new.previous = r.previous
         /\ new.left = r.left \ parts
         /\ new.phase = IF r.left \subseteq parts THEN "finalizeDelete" ELSE "remove"
  <1>1. /\ new \in Request /\ new.file = r.file /\ new.previous = r.previous
        /\ new.left = r.left \ parts
        /\ new.phase = IF r.left \subseteq parts THEN "finalizeDelete" ELSE "remove"
    BY DEF Removed, RequestOK, Request, Phase
  <1>2. RequestOK(new)
    BY <1>1 DEF RequestOK
  <1>. QED
    BY <1>1, <1>2

LEMMA TypedStep == ASSUME FileAssumption, Typed, [Next]_vars PROVE Typed'
  <1> USE DEF Typed
  <1>1. ASSUME NEW r \in requests
        PROVE  /\ RequestOK(r) /\ r \in Request /\ r.file \in Files /\ r.phase \in Phase
               /\ r.previous.checksum \in Contents \cup {None}
    BY <1>1 DEF RequestOK, Request, Tells, Record
  <1>2. \A f \in Files : evidence[f] \subseteq evidence[f]
    OBVIOUS
  <1>3. ASSUME NEW f \in Files, CreateIntent(f) PROVE Typed'
    <2>1. RecordsOK'
      BY <1>2, <1>3, WriteOK, PendingTells DEF CreateIntent
    <2>. QED
      BY <1>3, <2>1, RequestsStay DEF CreateIntent, StorageOK, RestOK, VouchedOK
  <1>4. ASSUME NEW f \in Files, NEW c \in Contents, ClientUpload(f, c) PROVE Typed'
    <2>1. StorageOK' /\ RecordsOK' /\ RestOK'
      BY <1>4, DriverIs DEF ClientUpload, StorageOK, RecordsOK, RestOK, VouchedOK
    <2>. QED
      BY <1>4, <2>1, RequestsStay DEF ClientUpload, VouchedOK
  <1>5. ASSUME NEW f \in Files, NEW phase \in {"put", "head", "mark", "remove"}, NEW content \in Contents \cup {None},
               phase = "put" => driver = "local" /\ content \in Good,
               phase = "mark" => record[f].status \in {"pending_upload", "ready"},
               phase = "remove" => record[f].status = "deleting",
               Starts(f, phase, content), UNCHANGED <<driver, record, object, metadata, evidence, vouched, faults>>
        PROVE  Typed'
    <2>1. PICK new : new = NewRequest(f, phase, content)
      OBVIOUS
    <2>2. RequestOK(new) /\ new.file \in Files
      BY <1>5, <2>1, NewRequestOK DEF RequestOK, Request
    <2>3. requests' = requests \cup {new} /\ Arrives(f)
      BY <1>5, <2>1 DEF Starts
    <2>4. \A r \in requests' : RequestOK(r)'
      BY <1>2, <1>5, <2>2, <2>3, RequestsOK
    <2>5. RestOK'
      BY <1>5, <2>3, ArrivesOK
    <2>. QED
      BY <1>5, <2>4, <2>5 DEF StorageOK, RecordsOK, VouchedOK
  <1>6. ASSUME NEW f \in Files, NEW c \in Contents, StartPut(f, c) PROVE Typed'
    BY <1>5, <1>6 DEF StartPut, Good
  <1>7. ASSUME NEW f \in Files, StartComplete(f) PROVE Typed'
    BY <1>5, <1>7 DEF StartComplete
  <1>8. ASSUME NEW f \in Files, StartDelete(f) PROVE Typed'
    BY <1>5, <1>8 DEF StartDelete
  <1>9. ASSUME NEW r \in requests, NEW phase \in Phase \ {"put"}, Move(r, phase), UNCHANGED <<driver, evidence>>,
               phase = "putMetadata" => r.phase = "put",
               phase = "finalize" => r.content \in Good,
               phase \in {"mark", "restore", "remove"} => r.previous.status \in {"pending_upload", "ready"}
        PROVE  \A q \in requests' : RequestOK(q)'
    <2>1. PICK new : new = [r EXCEPT !.phase = phase]
      OBVIOUS
    <2>2. RequestOK(new) /\ new.file \in Files
      BY <1>1, <1>9, <2>1, MovedOK
    <2>3. requests' = (requests \ {r}) \cup {new}
      BY <1>9, <2>1 DEF Move
    <2>. QED
      BY <1>2, <1>9, <2>2, <2>3, RequestsOK
  <1>10. ASSUME NEW r \in requests, Ends(r), UNCHANGED driver, \A f \in Files : evidence[f] \subseteq evidence'[f]
         PROVE  \A q \in requests' : RequestOK(q)'
    BY <1>10, RequestsOK DEF Ends
  <1>11. ASSUME NEW r \in requests, PutObject(r) PROVE Typed'
    <2>1. StorageOK'
      BY <1>1, <1>11, GoodIs, DriverIs DEF PutObject, RequestOK, StorageOK, Good
    <2>2. \A q \in requests' : RequestOK(q)'
      BY <1>9, <1>11 DEF PutObject, Phase
    <2>. QED
      BY <1>11, <2>1, <2>2 DEF PutObject, RecordsOK, RestOK, VouchedOK
  <1>12. ASSUME NEW r \in requests, PutMetadata(r) PROVE Typed'
    <2>1. StorageOK'
      BY <1>1, <1>12, GoodIs, DriverIs DEF PutMetadata, RequestOK, StorageOK, Good
    <2>2. \A q \in requests' : RequestOK(q)'
      BY <1>9, <1>12 DEF PutMetadata, Phase
    <2>. QED
      BY <1>12, <2>1, <2>2 DEF PutMetadata, RecordsOK, RestOK, VouchedOK
  <1>13. ASSUME NEW r \in requests, Head(r) PROVE Typed'
    <2>1. UNCHANGED <<driver, record, object, metadata, evidence, disturbed, started, faults>> /\ UNCHANGED vouched
      BY <1>13 DEF Head
    <2>2. \A q \in requests' : RequestOK(q)'
      <3>1. CASE Ends(r)
        BY <1>2, <1>10, <2>1, <3>1
      <3>2. CASE /\ metadata[r.file] \notin Bad \cup {None}
                 /\ requests' = (requests \ {r}) \cup {[r EXCEPT !.phase = "finalize", !.content = metadata[r.file]]}
        <4>1. PICK seen, new : seen = metadata[r.file] /\ new = [r EXCEPT !.phase = "finalize", !.content = seen]
          OBVIOUS
        <4>2. seen \in Good
          BY <1>1, <3>2, <4>1 DEF StorageOK, Good
        <4>3. /\ new \in Request /\ new.file = r.file /\ new.phase = "finalize" /\ new.previous = r.previous
              /\ new.content \in Good
          BY <1>1, <4>1, <4>2 DEF Request, Phase, Good
        <4>4. RequestOK(new) /\ new.file \in Files
          BY <1>1, <4>3 DEF RequestOK
        <4>. QED
          BY <1>2, <2>1, <3>2, <4>1, <4>4, RequestsOK
      <3>. QED
        BY <1>13, <3>1, <3>2 DEF Head
    <2>. QED
      BY <2>1, <2>2 DEF RecordsOK, StorageOK, RestOK, VouchedOK
  <1>14. ASSUME NEW r \in requests, Completes(r), Ends(r), UNCHANGED <<driver, object, metadata, disturbed, started>>,
                faults' \in Nat
         PROVE  Typed'
    <2>1. /\ evidence' \in [Files -> SUBSET {"upload_completed", "deleted"}]
          /\ "upload_completed" \in evidence'[r.file]
          /\ \A g \in Files : evidence[g] \subseteq evidence'[g]
      BY <1>1, <1>14, EvidenceGrows DEF Completes
    <2>2. r.content \in Good
      BY <1>1, <1>14 DEF Completes, RequestOK
    <2>3. RecordsOK'
      BY <1>1, <1>14, <2>1, <2>2, WriteOK, ReadyTells DEF Completes
    <2>4. VouchedOK'
      BY <1>1, <1>14, <2>2, GoodIs DEF Completes, Evidence, VouchedOK, RestOK
    <2>5. \A q \in requests' : RequestOK(q)'
      BY <1>10, <1>14, <2>1
    <2>. QED
      BY <1>14, <2>1, <2>3, <2>4, <2>5 DEF StorageOK, RestOK, VouchedOK
  <1>15. ASSUME NEW r \in requests, Deletes(r), Ends(r), UNCHANGED <<driver, object, metadata, disturbed, started>>,
                faults' \in Nat
         PROVE  Typed'
    <2>1. /\ evidence' \in [Files -> SUBSET {"upload_completed", "deleted"}]
          /\ "deleted" \in evidence'[r.file]
          /\ \A g \in Files : evidence[g] \subseteq evidence'[g]
      BY <1>1, <1>15, EvidenceGrows DEF Deletes
    <2>2. RecordsOK'
      BY <1>1, <1>15, <2>1, WriteOK, DeletedTells DEF Deletes
    <2>3. VouchedOK'
      BY <1>1, <1>15 DEF Deletes, Evidence, VouchedOK, RestOK
    <2>4. \A q \in requests' : RequestOK(q)'
      BY <1>10, <1>15, <2>1
    <2>. QED
      BY <1>15, <2>1, <2>2, <2>3, <2>4 DEF StorageOK, RestOK, VouchedOK
  <1>16. ASSUME NEW r \in requests, FinalizeReady(r) \/ FinalizeDeleted(r) PROVE Typed'
    BY <1>14, <1>15, <1>16 DEF FinalizeReady, FinalizeDeleted, RestOK, VouchedOK
  <1>17. ASSUME NEW r \in requests, MarkDeleting(r) PROVE Typed'
    <2>1. RecordsOK'
      BY <1>1, <1>2, <1>17, WriteOK, DeletingTells DEF MarkDeleting
    <2>2. \A q \in requests' : RequestOK(q)'
      BY <1>1, <1>9, <1>17 DEF MarkDeleting, Phase, RequestOK
    <2>. QED
      BY <1>17, <2>1, <2>2 DEF MarkDeleting, StorageOK, RestOK, VouchedOK
  <1>18. ASSUME NEW r \in requests, Remove(r) PROVE Typed'
    <2>1. PICK parts \in Removable(r) :
            Removes(r, parts) /\ requests' = (requests \ {r}) \cup {Removed(r, parts)}
      BY <1>18 DEF Remove, Removed
    <2>2. r.phase = "remove" /\ UNCHANGED <<driver, record, evidence, disturbed, started, faults>> /\ UNCHANGED vouched
      BY <1>18 DEF Remove
    <2>3. PICK new : new = Removed(r, parts)
      OBVIOUS
    <2>4. RequestOK(new) /\ new.file = r.file
      <3>1. RequestOK(r)
        BY <1>1
      <3>. QED
        BY <2>2, <2>3, <3>1, RemovedRequest
    <2>5. StorageOK'
      BY <1>1, <2>1, <2>2, RemovesOK
    <2>6. \A q \in requests' : RequestOK(q)'
      BY <1>1, <1>2, <2>1, <2>2, <2>3, <2>4, RequestsOK
    <2>. QED
      BY <2>2, <2>5, <2>6 DEF RecordsOK, RestOK, VouchedOK
  <1>19. ASSUME NEW r \in requests, r.phase \in {"mark", "remove"}, GivesUp(r), UNCHANGED <<driver, evidence>>
         PROVE  \A q \in requests' : RequestOK(q)'
    <2>1. CASE Ends(r)
      BY <1>2, <1>10, <1>19, <2>1
    <2>2. CASE r.previous.status # "deleting" /\ Move(r, "restore")
      <3>1. r.previous.status \in {"pending_upload", "ready"}
        BY <1>1, <1>19, <2>2 DEF RequestOK
      <3>. QED
        BY <1>9, <1>19, <2>2, <3>1 DEF Phase
    <2>. QED
      BY <1>19, <2>1, <2>2 DEF GivesUp
  <1>20. ASSUME NEW r \in requests, MarkFault(r) PROVE Typed'
    <2>1. RecordsOK'
      BY <1>1, <1>2, <1>20, WriteOK, DeletingTells DEF MarkFault, RecordsOK
    <2>2. \A q \in requests' : RequestOK(q)'
      BY <1>19, <1>20 DEF MarkFault
    <2>. QED
      BY <1>20, <2>1, <2>2 DEF MarkFault, Fault, StorageOK, RestOK, VouchedOK
  <1>21. ASSUME NEW r \in requests, RemoveFault(r) PROVE Typed'
    <2>1. StorageOK'
      BY <1>1, <1>21, RemovesOK DEF RemoveFault, StorageOK
    <2>2. \A q \in requests' : RequestOK(q)'
      BY <1>19, <1>21 DEF RemoveFault
    <2>. QED
      BY <1>1, <1>21, <2>1, <2>2 DEF RemoveFault, Fault, RecordsOK, RestOK, VouchedOK
  <1>22. ASSUME NEW r \in requests, Restore(r) PROVE Typed'
    <2>1. RecordsOK'
      BY <1>1, <1>2, <1>22, WriteOK, CopyTells DEF Restore, RequestOK
    <2>2. \A q \in requests' : RequestOK(q)'
      BY <1>2, <1>10, <1>22 DEF Restore
    <2>. QED
      BY <1>22, <2>1, <2>2 DEF Restore, StorageOK, RestOK, VouchedOK
  <1>23. ASSUME NEW r \in requests, RequestFault(r) PROVE Typed'
    <2>1. CASE UNCHANGED <<record, evidence, vouched>>
      <3>1. \A q \in requests' : RequestOK(q)'
        BY <1>2, <1>10, <1>23, <2>1 DEF RequestFault
      <3>. QED
        BY <1>23, <2>1, <3>1 DEF RequestFault, Fault, RecordsOK, StorageOK, RestOK, VouchedOK
    <2>2. faults' \in Nat
      BY <1>23 DEF RequestFault, Fault, RestOK, VouchedOK
    <2>. QED
      BY <1>14, <1>15, <1>23, <2>1, <2>2 DEF RequestFault
  <1>24. ASSUME UNCHANGED vars PROVE Typed'
    BY <1>24, RequestsStay DEF vars, RecordsOK, StorageOK, RestOK, VouchedOK
  <1>. QED
    BY <1>3, <1>4, <1>6, <1>7, <1>8, <1>11, <1>12, <1>13, <1>16, <1>17, <1>18, <1>20, <1>21, <1>22, <1>23, <1>24 DEF Next

LEMMA TypedAlways == ASSUME FileAssumption PROVE Spec => []Typed
  BY TypedInit, TypedStep, PTL DEF Spec

\* Every variable has its type, and a file that awaits its content has no checksum.
THEOREM TypeCorrect == ASSUME FileAssumption PROVE Spec => []TypeOK
  <1>1. Typed => TypeOK
    BY DEF Typed, RecordsOK, StorageOK, VouchedOK, RestOK, RequestOK, Tells, TypeOK
  <1>. QED
    BY <1>1, TypedAlways, PTL

\* Whatever overlaps and fails, a file is made ready only with content that
\* matches its upload intent.
THEOREM ReadyChecked == ASSUME FileAssumption PROVE Spec => []ReadyWasChecked
  <1>1. ASSUME Typed PROVE ReadyWasChecked
    BY <1>1, GoodIs DEF Typed, RecordsOK, VouchedOK, Tells, Good, ReadyWasChecked
  <1>. QED
    BY <1>1, TypedAlways, PTL

\* Whatever overlaps and fails, a ready or deleted file has its events.
THEOREM HasEvidence == ASSUME FileAssumption PROVE Spec => []StatusHasEvidence
  <1>1. Typed => StatusHasEvidence
    BY DEF Typed, RecordsOK, Tells, StatusHasEvidence
  <1>. QED
    BY <1>1, TypedAlways, PTL

-----------------------------------------------------------------------------
(* What holds of a file whose requests do not overlap. *)

Empty(f) == object[f] = None /\ metadata[f] = None

\* What each phase of a request knows of the two stores.
Stage(r) ==
  LET f == r.file
      kept == r.previous.status = "ready" => Whole(f)
  IN
  /\ r.phase \in {"put", "putMetadata", "head", "finalize"} => record[f].status = "pending_upload"
  /\ r.phase = "finalize" => Stored(f) /\ (driver = "s3" => object[f] = r.content)
  /\ r.phase = "mark" => record[f] = r.previous /\ r.left = {"object", "metadata"}
  /\ r.phase \in {"remove", "finalizeDelete"} => record[f].status = "deleting"
  /\ r.phase = "remove" =>
       /\ r.left = {"object", "metadata"} => kept
       /\ driver = "local" => /\ "object" \notin r.left => object[f] = None
                              /\ "metadata" \notin r.left => metadata[f] = None
  /\ r.phase = "finalizeDelete" => (driver = "local" => Empty(f))
  /\ r.phase = "restore" => kept /\ (record[f] = r.previous \/ record[f].status = "deleting")

\* Record and storage agree.
Agrees(f) ==
  /\ record[f].status = "ready" => Whole(f)
  /\ driver = "local" /\ record[f].status = "deleted" => Empty(f)

Single(f) == \A q, r \in requests : q.file = f /\ r.file = f => q = r

Calm(f) == Single(f) /\ Agrees(f) /\ \A r \in requests : r.file = f => Stage(r)

AllCalm == \A f \in Undisturbed : Calm(f)

\* What a step does to f: it leaves it alone,
Untouched(f) ==
  /\ record'[f] = record[f] /\ object'[f] = object[f] /\ metadata'[f] = metadata[f]
  /\ vouched'[f] = vouched[f] /\ driver' = driver
  /\ \A q : q.file = f => (q \in requests' <=> q \in requests)

LEMMA CalmUntouched == ASSUME NEW f, Calm(f), Untouched(f) PROVE Calm(f)'
  BY DEF Calm, Untouched, Single, Agrees, Stage, Whole, Stored, Empty

\* or its only request takes another place,
LEMMA CalmMove ==
  ASSUME NEW f, Calm(f), NEW r \in requests, r.file = f, NEW new, new.file = f,
         requests' = (requests \ {r}) \cup {new}, Stage(new)', Agrees(f)'
  PROVE  Calm(f)'
  BY DEF Calm, Single

\* or it ends.
LEMMA CalmEnd ==
  ASSUME NEW f, Calm(f), NEW r \in requests, r.file = f, Ends(r), Agrees(f)'
  PROVE  Calm(f)'
  BY DEF Calm, Single, Ends

LEMMA CalmInit == ASSUME FileAssumption, Init PROVE AllCalm
  BY DEF Init, AllCalm, Undisturbed, Calm, Single, Agrees, Whole, Stored, Empty

\* A step of a request of one file leaves the others alone.
LEMMA OthersUntouched ==
  ASSUME NEW r \in requests, NEW f \in Files, f # r.file, driver' = driver,
         record'[f] = record[f], object'[f] = object[f], metadata'[f] = metadata[f], vouched'[f] = vouched[f],
         NEW new, new.file = r.file,
         requests' \in {requests \ {r}, (requests \ {r}) \cup {new}}
  PROVE  Untouched(f)
  BY DEF Untouched

LEMMA MovedRequest ==
  ASSUME NEW r, r \in Request, NEW phase, NEW new, new = [r EXCEPT !.phase = phase]
  PROVE  new.file = r.file /\ new.phase = phase /\ new.previous = r.previous /\ new.content = r.content /\ new.left = r.left
  BY DEF Request

LEMMA CalmStep == ASSUME FileAssumption, Typed, AllCalm, [Next]_vars PROVE AllCalm'
  <1>1. ASSUME NEW r \in requests
        PROVE  RequestOK(r) /\ r \in Request /\ r.file \in Files
    BY <1>1 DEF Typed, RequestOK, Request
  <1>2. record \in [Files -> Record] /\ StorageOK /\ VouchedOK /\ RestOK
    BY DEF Typed, RecordsOK
  <1>3. ASSUME NEW f \in Undisturbed PROVE f \in Files /\ Calm(f)
    BY <1>3 DEF AllCalm, Undisturbed
  <1>4. ASSUME NEW f \in Files, CreateIntent(f) PROVE AllCalm'
    <2>1. record'[f].status = "pending_upload" /\ \A g \in Files : g # f => record'[g] = record[g]
      BY <1>2, <1>4 DEF CreateIntent, Write
    <2>2. ASSUME NEW g \in Undisturbed' PROVE Calm(g)'
      <3>1. g \in Files /\ Calm(g)
        BY <1>3, <1>4, <2>2 DEF CreateIntent, Undisturbed
      <3>2. CASE g # f
        BY <1>4, <2>1, <3>1, <3>2, CalmUntouched DEF CreateIntent, Untouched
      <3>3. CASE g = f
        <4>1. \A r \in requests : r.file # f
          <5>1. ASSUME NEW r \in requests, r.file = f PROVE FALSE
            <6>1. Stage(r) /\ RequestOK(r) /\ record[f].status = "absent"
              BY <1>1, <1>4, <3>1, <3>3, <5>1 DEF Calm, CreateIntent
            <6>2. r.phase \in Phase /\ (r.phase \in {"mark", "restore"} => r.previous.status \in {"pending_upload", "ready"})
              BY <6>1 DEF RequestOK, Request
            <6>. QED
              BY <5>1, <6>1, <6>2 DEF Stage, Phase
          <5>. QED
            BY <5>1
        <4>. QED
          BY <1>4, <2>1, <3>1, <3>3, <4>1 DEF CreateIntent, Calm, Single, Agrees
      <3>. QED
        BY <3>2, <3>3
    <2>. QED
      BY <2>2 DEF AllCalm
  <1>5. ASSUME NEW f \in Files, NEW c \in Contents, ClientUpload(f, c) PROVE AllCalm'
    <2>1. /\ \A g \in Files : g # f => object'[g] = object[g] /\ metadata'[g] = metadata[g]
          /\ UNCHANGED <<driver, record, requests, vouched, disturbed>> /\ object[f] = None /\ driver = "s3"
      BY <1>2, <1>5 DEF ClientUpload, StorageOK
    <2>2. ASSUME NEW g \in Undisturbed' PROVE Calm(g)'
      <3>1. g \in Files /\ Calm(g)
        BY <1>3, <2>1, <2>2 DEF Undisturbed
      <3>2. CASE g # f
        BY <2>1, <3>1, <3>2, CalmUntouched DEF Untouched
      <3>3. CASE g = f
        <4>1. ~Stored(f)
          BY <2>1 DEF Stored
        <4>2. Agrees(g)'
          BY <2>1, <3>1, <3>3, <4>1 DEF Calm, Agrees, Whole
        <4>3. ASSUME NEW r \in requests, r.file = g PROVE Stage(r)'
          <5>1. Stage(r)
            BY <3>1, <4>3 DEF Calm
          <5>. QED
            BY <2>1, <3>3, <4>1, <4>3, <5>1 DEF Stage, Whole
        <4>. QED
          BY <2>1, <3>1, <4>2, <4>3 DEF Calm, Single
      <3>. QED
        BY <3>2, <3>3
    <2>. QED
      BY <2>2 DEF AllCalm
  <1>6. ASSUME NEW f \in Files, NEW phase \in {"put", "head", "mark", "remove"}, NEW content \in Contents \cup {None},
               phase \in {"put", "head"} => record[f].status = "pending_upload",
               phase = "remove" => record[f].status = "deleting",
               Starts(f, phase, content), UNCHANGED <<driver, record, object, metadata, evidence, vouched, faults>>
        PROVE  AllCalm'
    <2>1. PICK new : new = NewRequest(f, phase, content)
      OBVIOUS
    <2>2. new.file = f /\ new.phase = phase /\ new.previous = record[f] /\ new.left = {"object", "metadata"}
      BY <2>1 DEF NewRequest
    <2>3. requests' = requests \cup {new} /\ disturbed \subseteq disturbed'
          /\ ((\E r \in requests : r.file = f) => f \in disturbed')
      BY <1>6, <2>1 DEF Starts, Arrives
    <2>4. ASSUME NEW g \in Undisturbed' PROVE Calm(g)'
      <3>1. g \in Files /\ Calm(g)
        BY <1>3, <2>3, <2>4 DEF Undisturbed
      <3>2. CASE g # f
        BY <1>6, <2>2, <2>3, <3>1, <3>2, CalmUntouched DEF Untouched
      <3>3. CASE g = f
        <4>1. \A r \in requests : r.file # f
          BY <2>3, <2>4, <3>3 DEF Undisturbed
        <4>2. Stage(new)'
          BY <1>6, <2>2 DEF Stage
        <4>3. Agrees(f)'
          BY <1>6, <3>1, <3>3 DEF Calm, Agrees, Whole, Stored, Empty
        <4>. QED
          BY <2>3, <3>3, <4>1, <4>2, <4>3 DEF Calm, Single
      <3>. QED
        BY <3>2, <3>3
    <2>. QED
      BY <2>4 DEF AllCalm
  <1>7. ASSUME NEW f \in Files,
               StartComplete(f) \/ StartDelete(f) \/ \E c \in Contents : StartPut(f, c)
        PROVE  AllCalm'
    BY <1>6, <1>7 DEF StartPut, StartComplete, StartDelete
  <1>8. ASSUME NEW r \in requests, NEW new, new.file = r.file,
               requests' = requests \ {r} \/ (requests' = (requests \ {r}) \cup {new} /\ (r.file \in Undisturbed' => Stage(new)')),
               driver' = driver, disturbed \subseteq disturbed',
               \A g \in Files : g # r.file => /\ record'[g] = record[g] /\ object'[g] = object[g]
                                                /\ metadata'[g] = metadata[g] /\ vouched'[g] = vouched[g],
               r.file \in Undisturbed' => Agrees(r.file)'
        PROVE  AllCalm'
    <2>1. ASSUME NEW g \in Undisturbed' PROVE Calm(g)'
      <3>1. g \in Files /\ Calm(g)
        BY <1>3, <1>8, <2>1 DEF Undisturbed
      <3>2. CASE g # r.file
        BY <1>8, <3>1, <3>2, OthersUntouched, CalmUntouched
      <3>3. CASE g = r.file
        <4>1. CASE requests' = requests \ {r}
          BY <1>8, <2>1, <3>1, <3>3, <4>1, CalmEnd DEF Ends
        <4>2. CASE requests' = (requests \ {r}) \cup {new} /\ Stage(new)'
          BY <1>8, <2>1, <3>1, <3>3, <4>2, CalmMove
        <4>. QED
          BY <1>8, <2>1, <3>3, <4>1, <4>2
      <3>. QED
        BY <3>2, <3>3
    <2>. QED
      BY <2>1 DEF AllCalm
  <1>9. ASSUME NEW r \in requests, NEW phase, Move(r, phase),
               UNCHANGED driver, disturbed \subseteq disturbed',
               \A g \in Files : g # r.file => /\ record'[g] = record[g] /\ object'[g] = object[g]
                                                /\ metadata'[g] = metadata[g] /\ vouched'[g] = vouched[g],
               \A new : /\ r.file \in Undisturbed'
                        /\ new.file = r.file /\ new.phase = phase /\ new.previous = r.previous /\ new.left = r.left
                        => Stage(new)',
               r.file \in Undisturbed' => Agrees(r.file)'
        PROVE  AllCalm'
    <2>1. PICK new : new = [r EXCEPT !.phase = phase]
      OBVIOUS
    <2>2. new.file = r.file /\ new.phase = phase /\ new.previous = r.previous /\ new.left = r.left
      BY <1>1, <2>1, MovedRequest
    <2>3. requests' = (requests \ {r}) \cup {new}
      BY <1>9, <2>1 DEF Move
    <2>. QED
      BY <1>8, <1>9, <2>2, <2>3
  <1>10. ASSUME NEW r \in requests, r.file \in Undisturbed' , disturbed \subseteq disturbed'
         PROVE  Calm(r.file) /\ Stage(r) /\ Agrees(r.file)
    BY <1>3, <1>10 DEF Undisturbed, Calm
  <1>11. ASSUME NEW r \in requests, PutObject(r) PROVE AllCalm'
    <2>1. /\ r.phase = "put" /\ Move(r, "putMetadata") /\ UNCHANGED <<driver, record, metadata, vouched, disturbed>>
          /\ \A g \in Files : g # r.file => object'[g] = object[g]
      BY <1>1, <1>2, <1>11 DEF PutObject, StorageOK
    <2>2. r.file \in Undisturbed' => record[r.file].status = "pending_upload"
      BY <1>10, <2>1 DEF Stage
    <2>. QED
      BY <1>9, <2>1, <2>2 DEF Stage, Agrees
  <1>12. ASSUME NEW r \in requests, PutMetadata(r) PROVE AllCalm'
    <2>1. /\ r.phase = "putMetadata" /\ Move(r, "head") /\ UNCHANGED <<driver, record, object, vouched, disturbed>>
          /\ \A g \in Files : g # r.file => metadata'[g] = metadata[g]
      BY <1>1, <1>2, <1>12 DEF PutMetadata, StorageOK
    <2>2. r.file \in Undisturbed' => record[r.file].status = "pending_upload"
      BY <1>10, <2>1 DEF Stage
    <2>. QED
      BY <1>9, <2>1, <2>2 DEF Stage, Agrees
  <1>13. ASSUME NEW r \in requests, Ends(r), UNCHANGED driver, disturbed \subseteq disturbed',
                \A g \in Files : g # r.file => /\ record'[g] = record[g] /\ object'[g] = object[g]
                                                /\ metadata'[g] = metadata[g] /\ vouched'[g] = vouched[g],
                r.file \in Undisturbed' => Agrees(r.file)'
         PROVE  AllCalm'
    BY <1>8, <1>13 DEF Ends
  <1>14. ASSUME NEW r \in requests, UNCHANGED <<record, object, metadata, vouched, driver>>, disturbed \subseteq disturbed'
         PROVE  r.file \in Undisturbed' => Agrees(r.file)'
    BY <1>10, <1>14 DEF Agrees, Whole, Stored, Empty
  <1>15. ASSUME NEW r \in requests, Head(r) PROVE AllCalm'
    <2>1. UNCHANGED <<driver, record, object, metadata, vouched, disturbed>> /\ r.phase = "head"
      BY <1>15 DEF Head
    <2>2. CASE Ends(r)
      BY <1>13, <1>14, <2>1, <2>2
    <2>3. CASE /\ metadata[r.file] \notin Bad \cup {None} /\ object[r.file] # None
               /\ requests' = (requests \ {r}) \cup {[r EXCEPT !.phase = "finalize", !.content = metadata[r.file]]}
      <3>1. PICK seen, new : seen = metadata[r.file] /\ new = [r EXCEPT !.phase = "finalize", !.content = seen]
        OBVIOUS
      <3>2. new.file = r.file /\ new.phase = "finalize"
        BY <1>1, <3>1 DEF Request
      <3>3. Stored(r.file)
        <4>1. driver \in {"local", "s3"} /\ r.file \in Files
          BY <1>1, <1>2, DriverIs
        <4>. QED
          BY <1>2, <2>3, <4>1 DEF StorageOK, Whole, Stored
      <3>4. r.file \in Undisturbed' => Stage(new)'
        <4>1. driver = "s3" => object[r.file] = new.content
          BY <1>1, <1>2, <3>1 DEF StorageOK, Request
        <4>. QED
          BY <1>10, <2>1, <3>2, <3>3, <4>1 DEF Stage, Stored
      <3>5. requests' = (requests \ {r}) \cup {new}
        BY <2>3, <3>1
      <3>. QED
        BY <1>8, <1>14, <2>1, <3>2, <3>4, <3>5
    <2>. QED
      BY <1>15, <2>2, <2>3 DEF Head
  <1>16. ASSUME NEW r \in requests, NEW status, NEW checksum, Write(r.file, status, checksum)
         PROVE  /\ record'[r.file].status = status
                /\ \A g \in Files : g # r.file => record'[g] = record[g]
    BY <1>1, <1>2, <1>16 DEF Write
  <1>17. ASSUME NEW r \in requests, Ends(r), UNCHANGED <<driver, object, metadata, disturbed>>,
                Completes(r) \/ Deletes(r)
         PROVE  AllCalm'
    <2>1. /\ \A g \in Files : g # r.file => record'[g] = record[g] /\ vouched'[g] = vouched[g]
          /\ \/ /\ r.phase = "finalize" /\ record'[r.file].status = "ready"
                /\ vouched'[r.file] = r.content
             \/ r.phase = "finalizeDelete" /\ record'[r.file].status = "deleted"
      BY <1>1, <1>2, <1>16, <1>17 DEF Completes, Deletes, VouchedOK
    <2>2. r.file \in Undisturbed' => Agrees(r.file)'
      BY <1>10, <1>17, <2>1 DEF Stage, Agrees, Whole, Stored, Empty
    <2>. QED
      BY <1>13, <1>17, <2>1, <2>2
  <1>18. ASSUME NEW r \in requests, FinalizeReady(r) \/ FinalizeDeleted(r) PROVE AllCalm'
    BY <1>17, <1>18 DEF FinalizeReady, FinalizeDeleted
  <1>19. ASSUME NEW r \in requests, MarkDeleting(r) PROVE AllCalm'
    <2>1. /\ r.phase = "mark" /\ Move(r, "remove") /\ UNCHANGED <<driver, object, metadata, vouched, disturbed>>
          /\ record'[r.file].status = "deleting"
          /\ \A g \in Files : g # r.file => record'[g] = record[g]
      BY <1>16, <1>19 DEF MarkDeleting
    <2>2. r.file \in Undisturbed' => /\ r.left = {"object", "metadata"}
                                     /\ r.previous.status = "ready" => Whole(r.file)
      BY <1>10, <2>1 DEF Stage, Agrees
    <2>. QED
      BY <1>9, <2>1, <2>2 DEF Stage, Agrees, Whole, Stored
  <1>20. ASSUME NEW r \in requests, Remove(r) PROVE AllCalm'
    <2>1. PICK parts \in Removable(r) :
            Removes(r, parts) /\ requests' = (requests \ {r}) \cup {Removed(r, parts)}
      BY <1>20 DEF Remove, Removed
    <2>2. r.phase = "remove" /\ UNCHANGED <<driver, record, vouched, disturbed>>
      BY <1>20 DEF Remove
    <2>3. /\ \A f \in Files : f # r.file => object'[f] = object[f] /\ metadata'[f] = metadata[f]
          /\ object'[r.file] = IF "object" \in parts THEN None ELSE object[r.file]
          /\ metadata'[r.file] = IF "metadata" \in parts THEN None ELSE metadata[r.file]
      BY <1>1, <1>2, <2>1, <2>2, RemovesOK
    <2>4. PICK new : new = Removed(r, parts)
      OBVIOUS
    <2>5. /\ new.file = r.file /\ new.left = r.left \ parts
          /\ new.phase = IF r.left \subseteq parts THEN "finalizeDelete" ELSE "remove"
      <3>1. RequestOK(r)
        BY <1>1
      <3>. QED
        BY <2>2, <2>4, <3>1, RemovedRequest
    <2>6. ASSUME r.file \in Undisturbed' PROVE Stage(new)' /\ Agrees(r.file)'
      <3>1. /\ record'[r.file].status = "deleting"
            /\ driver = "local" => /\ "object" \notin r.left => object[r.file] = None
                                   /\ "metadata" \notin r.left => metadata[r.file] = None
        BY <1>10, <2>2, <2>6 DEF Stage
      <3>2. r.left \subseteq {"object", "metadata"} /\ driver \in {"local", "s3"}
        BY <1>1, <1>2, DriverIs DEF Request
      <3>3. CASE driver = "local"
        <4>1. /\ parts \subseteq r.left /\ parts # {}
              /\ "object" \notin new.left => object'[r.file] = None
              /\ "metadata" \notin new.left => metadata'[r.file] = None
          BY <2>1, <2>3, <2>5, <3>1, <3>3 DEF Removable
        <4>2. new.left # {"object", "metadata"}
          BY <2>5, <3>2, <4>1
        <4>3. r.left \subseteq parts => "object" \notin new.left /\ "metadata" \notin new.left
          BY <2>5
        <4>. QED
          BY <2>2, <2>5, <3>1, <4>1, <4>2, <4>3 DEF Stage, Agrees, Empty
      <3>4. CASE driver = "s3"
        <4>1. new.phase = "finalizeDelete"
          BY <2>1, <2>5, <3>2, <3>4 DEF Removable
        <4>. QED
          BY <2>2, <2>5, <3>1, <3>4, <4>1 DEF Stage, Agrees
      <3>. QED
        BY <3>2, <3>3, <3>4
    <2>. QED
      BY <1>8, <2>1, <2>2, <2>3, <2>4, <2>5, <2>6
  <1>21. ASSUME NEW r \in requests, MarkFault(r) PROVE AllCalm'
    <2>1. /\ r.phase = "mark" /\ UNCHANGED <<driver, object, metadata, vouched, disturbed>>
          /\ record'[r.file] = record[r.file] \/ record'[r.file].status = "deleting"
          /\ \A g \in Files : g # r.file => record'[g] = record[g]
      BY <1>16, <1>21 DEF MarkFault
    <2>2. Move(r, "restore")
      BY <1>1, <1>21 DEF MarkFault, GivesUp, RequestOK
    <2>3. r.file \in Undisturbed' => /\ record[r.file] = r.previous /\ Agrees(r.file)
      BY <1>10, <2>1 DEF Stage
    <2>4. r.file \in Undisturbed' => Agrees(r.file)'
      BY <2>1, <2>3 DEF Agrees, Whole, Stored, Empty
    <2>5. r.file \in Undisturbed' => (r.previous.status = "ready" => Whole(r.file))
      BY <2>3 DEF Agrees
    <2>. QED
      BY <1>9, <2>1, <2>2, <2>3, <2>4, <2>5 DEF Stage, Whole, Stored
  <1>22. ASSUME NEW r \in requests, RemoveFault(r) PROVE AllCalm'
    <2>1. /\ r.phase = "remove" /\ UNCHANGED <<driver, record, vouched>> /\ disturbed \subseteq disturbed'
          /\ r.file \in Undisturbed' => r.left = {"object", "metadata"} /\ UNCHANGED <<object, metadata>>
          /\ GivesUp(r)
      BY <1>1, <1>22 DEF RemoveFault, Undisturbed
    <2>2. \A f \in Files : f # r.file => object'[f] = object[f] /\ metadata'[f] = metadata[f]
      BY <1>1, <1>2, <1>22, RemovesOK DEF RemoveFault
    <2>3. r.file \in Undisturbed' => Agrees(r.file)'
      BY <1>10, <2>1 DEF Agrees, Whole, Stored, Empty
    <2>4. r.file \in Undisturbed' => /\ record[r.file].status = "deleting"
                                     /\ r.previous.status = "ready" => Whole(r.file)
      BY <1>10, <2>1 DEF Stage
    <2>5. CASE Ends(r)
      BY <1>13, <2>1, <2>2, <2>3, <2>5
    <2>6. CASE Move(r, "restore")
      BY <1>9, <2>1, <2>2, <2>3, <2>4, <2>6 DEF Stage, Whole, Stored
    <2>. QED
      BY <2>1, <2>5, <2>6 DEF GivesUp
  <1>23. ASSUME NEW r \in requests, Restore(r) PROVE AllCalm'
    <2>1. /\ r.phase = "restore" /\ Ends(r) /\ UNCHANGED <<driver, object, metadata, vouched, disturbed>>
          /\ record'[r.file].status = r.previous.status
          /\ \A g \in Files : g # r.file => record'[g] = record[g]
      BY <1>16, <1>23 DEF Restore
    <2>2. r.previous.status \in {"pending_upload", "ready"}
      BY <1>1, <2>1 DEF RequestOK
    <2>3. r.file \in Undisturbed' => Agrees(r.file)'
      BY <1>10, <2>1, <2>2 DEF Stage, Agrees, Whole, Stored
    <2>. QED
      BY <1>13, <2>1, <2>3
  <1>24. ASSUME NEW r \in requests, RequestFault(r) PROVE AllCalm'
    <2>1. Ends(r) /\ UNCHANGED <<driver, object, metadata, disturbed>>
      BY <1>24 DEF RequestFault
    <2>2. CASE UNCHANGED <<record, vouched>>
      BY <1>13, <1>14, <2>1, <2>2
    <2>. QED
      BY <1>17, <1>24, <2>1, <2>2 DEF RequestFault
  <1>25. ASSUME UNCHANGED vars PROVE AllCalm'
    BY <1>3, <1>25, CalmUntouched DEF vars, AllCalm, Undisturbed, Untouched
  <1>. QED
    BY <1>4, <1>5, <1>7, <1>11, <1>12, <1>15, <1>18, <1>19, <1>20, <1>21, <1>22, <1>23, <1>24, <1>25 DEF Next

LEMMA CalmAlways == ASSUME FileAssumption PROVE Spec => []AllCalm
  BY CalmInit, CalmStep, TypedAlways, PTL DEF Spec

\* Crashes and failing calls leave no ready record without its content: that takes
\* overlapping requests, or a deletion that fails after its effect.
THEOREM ReadyHasObject == ASSUME FileAssumption PROVE Spec => []ReadyLostByDisturbance
  <1>1. AllCalm => ReadyLostByDisturbance
    BY DEF AllCalm, Calm, Agrees, ReadyLostByDisturbance
  <1>. QED
    BY <1>1, CalmAlways, PTL

\* A deleted file has left nothing in the local storage.
THEOREM DeletedIsEmpty == ASSUME FileAssumption PROVE Spec => []DeletedHasNoObject
  <1>1. AllCalm => DeletedHasNoObject
    BY DEF AllCalm, Calm, Agrees, Empty, DeletedHasNoObject
  <1>. QED
    BY <1>1, CalmAlways, PTL

\* A request that will write a record finds none that is deleted.
LEMMA WriterFindsNoDeleted ==
  ASSUME NEW r, RequestOK(r), Stage(r), r.phase \in {"finalize", "mark", "restore", "finalizeDelete"}
  PROVE  record[r.file].status # "deleted"
  BY DEF RequestOK, Stage

LEMMA DeletedStep == ASSUME Typed, AllCalm, [Next]_vars PROVE StaysDeleted
  <1>1. ASSUME NEW f \in Files \ disturbed', record[f].status = "deleted" PROVE record'[f] = record[f]
    <2>1. ASSUME NEW r \in requests, disturbed \subseteq disturbed', NEW status, NEW checksum, Write(r.file, status, checksum),
                 r.phase \in {"finalize", "mark", "restore", "finalizeDelete"}
          PROVE  record'[f] = record[f]
      <3>1. RequestOK(r) /\ r.file \in Files
        BY DEF Typed, RequestOK, Request
      <3>2. CASE r.file = f
        BY <1>1, <2>1, <3>1, <3>2, WriterFindsNoDeleted DEF AllCalm, Undisturbed, Calm
      <3>3. CASE r.file # f
        BY <1>1, <2>1, <3>1, <3>3 DEF Write, Typed, RecordsOK
      <3>. QED
        BY <3>2, <3>3
    <2>2. ASSUME NEW g \in Files, CreateIntent(g) PROVE record'[f] = record[f]
      BY <1>1, <2>2 DEF CreateIntent, Write, Typed, RecordsOK
    <2>3. ASSUME NEW r \in requests,
                 FinalizeReady(r) \/ MarkDeleting(r) \/ MarkFault(r) \/ Restore(r) \/ FinalizeDeleted(r) \/ RequestFault(r)
          PROVE  record'[f] = record[f]
      BY <2>1, <2>3 DEF FinalizeReady, MarkDeleting, MarkFault, Restore, FinalizeDeleted, RequestFault, Completes, Deletes
    <2>4. ASSUME UNCHANGED record PROVE record'[f] = record[f]
      BY <2>4
    <2>5. ASSUME NEW g \in Files, StartComplete(g) \/ StartDelete(g) \/ \E c \in Contents : ClientUpload(g, c) \/ StartPut(g, c)
          PROVE  record'[f] = record[f]
      BY <2>5 DEF StartComplete, StartDelete, ClientUpload, StartPut
    <2>6. ASSUME NEW r \in requests,
                 PutObject(r) \/ PutMetadata(r) \/ Head(r) \/ Remove(r) \/ RemoveFault(r)
          PROVE  record'[f] = record[f]
      BY <2>6 DEF PutObject, PutMetadata, Head, Remove, RemoveFault
    <2>. QED
      BY <2>2, <2>3, <2>4, <2>5, <2>6 DEF Next, vars
  <1>. QED
    BY <1>1 DEF StaysDeleted

LEMMA RemovalStep == ASSUME FileAssumption, Typed, AllCalm, [Next]_vars PROVE RemovesWhileDeleting
  <1>1. ASSUME NEW f \in Undisturbed, object[f] # None, object'[f] = None PROVE record[f].status = "deleting"
    <2>1. f \in Files /\ Calm(f) /\ object \in [Files -> Contents \cup {None}]
      BY DEF AllCalm, Undisturbed, Typed, StorageOK
    <2>2. ASSUME NEW r \in requests, Remove(r) \/ RemoveFault(r) PROVE record[f].status = "deleting"
      <3>1. r.phase = "remove" /\ r.file \in Files
        BY <2>2 DEF Remove, RemoveFault, Typed, RequestOK, Request
      <3>2. r.file = f
        BY <1>1, <2>1, <2>2, <3>1 DEF Remove, RemoveFault, Removes
      <3>. QED
        BY <2>1, <3>1, <3>2 DEF Calm, Stage
    <2>3. ASSUME NEW g \in Files, NEW c \in Contents, ClientUpload(g, c) PROVE FALSE
      BY <1>1, <2>1, <2>3, GoodIs DEF ClientUpload
    <2>4. ASSUME NEW r \in requests, PutObject(r) PROVE FALSE
      <3>1. r.content # None
        BY <2>4, GoodIs DEF PutObject, Typed, RequestOK
      <3>. QED
        BY <1>1, <2>1, <2>4, <3>1 DEF PutObject
    <2>5. ASSUME UNCHANGED object PROVE FALSE
      BY <1>1, <2>5
    <2>6. ASSUME NEW g \in Files, CreateIntent(g) \/ StartComplete(g) \/ StartDelete(g) \/ \E c \in Contents : StartPut(g, c)
          PROVE  FALSE
      BY <2>5, <2>6 DEF CreateIntent, StartComplete, StartDelete, StartPut
    <2>7. ASSUME NEW r \in requests,
                 PutMetadata(r) \/ Head(r) \/ FinalizeReady(r) \/ MarkDeleting(r) \/ MarkFault(r) \/ Restore(r)
                 \/ FinalizeDeleted(r) \/ RequestFault(r)
          PROVE  FALSE
      BY <2>5, <2>7 DEF PutMetadata, Head, FinalizeReady, MarkDeleting, MarkFault, Restore, FinalizeDeleted, RequestFault
    <2>. QED
      BY <2>2, <2>3, <2>4, <2>5, <2>6, <2>7 DEF Next, vars
  <1>. QED
    BY <1>1 DEF RemovesWhileDeleting

\* A deleted file stays deleted, whatever is retried or restored.
THEOREM DeletionIsFinal == ASSUME FileAssumption PROVE Spec => DeletedIsFinal
  <1>1. [Next]_vars /\ Typed /\ AllCalm => [StaysDeleted]_record
    BY DeletedStep
  <1>. QED
    BY <1>1, TypedAlways, CalmAlways, PTL DEF Spec, DeletedIsFinal

\* An object is taken away only while its record says so.
THEOREM RemovalIsAnnounced == ASSUME FileAssumption PROVE Spec => ObjectGoesWhileDeleting
  <1>1. [Next]_vars /\ Typed /\ AllCalm => [RemovesWhileDeleting]_object
    BY RemovalStep
  <1>. QED
    BY <1>1, TypedAlways, CalmAlways, PTL DEF Spec, ObjectGoesWhileDeleting

=============================================================================
