----------------------------- MODULE Lifecycles -----------------------------
(***************************************************************************)
(* The life of a permit package, a project and a field item:               *)
(* transitionPermitPackage of packages/permits, transitionLifecycle of     *)
(* packages/projects and updateFieldItemStatus of packages/construction.   *)
(* They are pure functions that make the next version of the caller's copy *)
(* and refuse what their tables or the copy's contents do not allow; that  *)
(* the caller keeps the version, and that several callers may hold copies, *)
(* is the use they are made for and external to them.  The factories take  *)
(* any status to start with, so a record may be born in the middle of its  *)
(* life: what its table asks for on the way is then asked of the rest.     *)
(***************************************************************************)
EXTENDS Naturals

CONSTANTS
  Callers,
  MaxCycles   \* bound: submissions of the permit package

LifecycleAssumption == MaxCycles \in Nat

VARIABLES
  matter,                  \* bound: which of the three, who share nothing, a behaviour is about
  permit, project, item,   \* the current versions
  held,                    \* the copies of each caller
  born,                    \* history: what the factories made
  supported                \* history: the project was approved with artifacts
                           \* and without a blocking issue

vars == <<matter, permit, project, item, held, born, supported>>

-----------------------------------------------------------------------------
PermitNext ==
  [package_preparation          |-> {"internal_completeness_review"},
   internal_completeness_review |-> {"ready_for_submission", "revision_required"},
   ready_for_submission         |-> {"simulated_submitted"},
   simulated_submitted          |-> {"reviewer_comments_received", "simulated_approved"},
   reviewer_comments_received   |-> {"revision_required", "simulated_approved"},
   revision_required            |-> {"revision_in_progress"},
   revision_in_progress         |-> {"simulated_resubmitted"},
   simulated_resubmitted        |-> {"reviewer_comments_received", "simulated_approved"},
   simulated_approved           |-> {"closed"},
   closed                       |-> {}]

ProjectNextBug ==
  [draft                     |-> {"internal_review"},
   internal_review           |-> {"coordination_review", "returned_for_revision"},
   coordination_review       |-> {"returned_for_revision", "approved_for_permit", "approved_for_pricing"},
   returned_for_revision     |-> {"internal_review"},
   approved_for_permit       |-> {"approved_for_construction", "field_revision"},
   approved_for_pricing      |-> {"approved_for_construction", "field_revision"},
   approved_for_construction |-> {"field_revision", "as_built"},
   field_revision            |-> {"approved_for_construction", "as_built"},
   as_built                  |-> {"archived"},
   superseded                |-> {},
   archived                  |-> {}]

ProjectNext ==
  [draft                     |-> {"internal_review"},
   internal_review           |-> {"coordination_review", "returned_for_revision"},
   coordination_review       |-> {"returned_for_revision", "approved_for_permit", "approved_for_pricing"},
   returned_for_revision     |-> {"internal_review"},
   approved_for_permit       |-> {"approved_for_construction", "field_revision"},
   approved_for_pricing      |-> {"approved_for_construction"},
   approved_for_construction |-> {"field_revision", "as_built"},
   field_revision            |-> {"approved_for_construction", "as_built"},
   as_built                  |-> {"archived"},
   superseded                |-> {},
   archived                  |-> {}]

Approvals == {"approved_for_permit", "approved_for_construction"}

\* createProject takes any string; one that is no lifecycle state has no next.
ProjectStatus == DOMAIN ProjectNext \cup {"unknown"}

FieldItemStatus == {"open", "triaged", "in_progress", "resolved", "closed", "deferred"}

\* forms: no required form is missing; refs: there is a submission package.
\* createPermitPackage takes any of them, and any count of submissions.
Permit == [status : DOMAIN PermitNext, forms : BOOLEAN, refs : BOOLEAN, cycles : 0 .. MaxCycles]

\* resolution: there is one, and it has a text.  createFieldItem takes any status.
Item == [status : FieldItemStatus, resolution : BOOLEAN]

Copies == [permit : Permit, project : ProjectStatus, item : Item]

\* A record of the matter as any call of its factory makes it; nobody looks at the
\* other two.
Created(about) ==
  LET first == [permit  |-> [status |-> "package_preparation", forms |-> FALSE, refs |-> FALSE, cycles |-> 0],
                project |-> "draft",
                item    |-> [status |-> "open", resolution |-> FALSE]]
  IN CASE about = "permit"  -> {[first EXCEPT !.permit = p] : p \in Permit}
       [] about = "project" -> {[first EXCEPT !.project = s] : s \in ProjectStatus}
       [] about = "item"    -> {[first EXCEPT !.item = i] : i \in Item}

Init ==
  /\ matter \in {"permit", "project", "item"}
  /\ born \in Created(matter)
  /\ permit = born.permit /\ project = born.project /\ item = born.item
  /\ held = [u \in Callers |-> born]
  /\ supported = FALSE

\* External: a caller reads the current versions.
Load(u) ==
  /\ held' = [held EXCEPT ![u] = [permit |-> permit, project |-> project, item |-> item]]
  /\ UNCHANGED <<matter, permit, project, item, born, supported>>

\* comments: the call brings review comments.
TransitionPermit(u, next, comments) ==
  LET copy == held[u].permit
      submits == next \in {"simulated_submitted", "simulated_resubmitted"}
  IN /\ matter = "permit"
     /\ next \in PermitNext[copy.status]
     /\ next = "ready_for_submission" => copy.forms
     /\ next = "simulated_submitted" => copy.refs
     /\ next = "reviewer_comments_received" => comments
     /\ submits => copy.cycles < MaxCycles
     /\ permit' = [copy EXCEPT !.status = next, !.cycles = IF submits THEN @ + 1 ELSE @]
     /\ held' = [held EXCEPT ![u].permit = permit']
     /\ UNCHANGED <<matter, project, item, born, supported>>

\* The call names the state it takes the project to be in, the artifacts and
\* the blocking issues.  Only the caller's own copy is compared with the state.
TransitionProject(u, next, artifacts, blocked) ==
  /\ matter = "project"
  /\ held[u].project # "unknown"
  /\ next \in ProjectNext[held[u].project]
  /\ next \in Approvals => artifacts /\ ~blocked
  /\ project' = next
  /\ held' = [held EXCEPT ![u].project = next]
  /\ supported' = (supported \/ (next \in Approvals /\ artifacts /\ ~blocked))
  /\ UNCHANGED <<matter, permit, item, born>>

\* Any status may follow any other.  Without a resolution the old one stays; an
\* empty one replaces it, but does not resolve the item.
UpdateItem(u, next, given) ==
  /\ matter = "item"
  /\ next = "resolved" => given = "text"
  /\ item' = [status     |-> next,
              resolution |-> IF given = "none" THEN held[u].item.resolution ELSE given = "text"]
  /\ held' = [held EXCEPT ![u].item = item']
  /\ UNCHANGED <<matter, permit, project, born, supported>>

Next ==
  \E u \in Callers :
    \/ Load(u)
    \/ \E next \in DOMAIN PermitNext, comments \in BOOLEAN : TransitionPermit(u, next, comments)
    \/ \E next \in DOMAIN ProjectNext, artifacts, blocked \in BOOLEAN :
         TransitionProject(u, next, artifacts, blocked)
    \/ \E next \in FieldItemStatus, given \in {"none", "empty", "text"} : UpdateItem(u, next, given)

Spec == Init /\ [][Next]_vars

-----------------------------------------------------------------------------
\* Every variable has its type.
TypeOK ==
  /\ matter \in {"permit", "project", "item"}
  /\ permit \in Permit
  /\ project \in ProjectStatus
  /\ item \in Item
  /\ held \in [Callers -> Copies]
  /\ born \in Copies
  /\ supported \in BOOLEAN

\* The statuses behind an approval of the project, and behind a submission.
Built == Approvals \cup {"field_revision", "as_built", "archived"}

Submitted ==
  {"simulated_submitted", "reviewer_comments_received", "simulated_resubmitted", "simulated_approved", "closed"}

(***************************************************************************)
(* Whatever copies the callers act on, and wherever a record was born, no  *)
(* table has a way round what it asks for: what was not born approved is   *)
(* built or revised in the field after an approval with artifacts and      *)
(* without blocking issues; a permit that was not born submitted is        *)
(* reviewed and approved after a submission of its own, and has its forms  *)
(* and its package when it is first submitted, the forms unless it was     *)
(* born ready; an item that was not born so is resolved with a resolution. *)
(***************************************************************************)
NoWayRound ==
  /\ project \in Built => supported \/ born.project \in Built
  /\ permit.status \in Submitted =>
       permit.cycles > born.permit.cycles \/ born.permit.status \in Submitted
  /\ permit.status = "simulated_submitted" /\ permit # born.permit =>
       permit.refs /\ (permit.forms \/ born.permit.status = "ready_for_submission")
  /\ item.status = "resolved" /\ item # born.item => item.resolution

(***************************************************************************)
(* phase-4-coordination-permits-field-notes.md:16, "permit transitions     *)
(* reject incomplete forms and missing submission packages": no permit     *)
(* that is prepared from the start is submitted or approved without them.  *)
(***************************************************************************)
SubmittedIsComplete ==
  /\ born.permit.status = "package_preparation"
  /\ permit.status \in {"simulated_submitted", "simulated_resubmitted", "simulated_approved"}
  => permit.forms /\ permit.refs
=============================================================================
