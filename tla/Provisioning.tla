---------------------------- MODULE Provisioning ----------------------------
(***************************************************************************)
(* Tenants and the identities of their users in PostgreSQL:                *)
(* provisionStagedTenant and bindOidcIdentity, two commands of the         *)
(* operators that may run at once and be repeated, and the lookup          *)
(* resolveOidcAuthorization that a request's authorization rests on        *)
(* (apps/api/src/repositories/postgres.js, packages/activation).  Each is  *)
(* one transaction, serialized by advisory locks on its names: a tenant,   *)
(* the e-mail of a user, a subject of the issuer.  What an uncommitted     *)
(* transaction has inserted makes others wait on the UNIQUE constraints.   *)
(***************************************************************************)
EXTENDS Naturals, FiniteSets

CONSTANTS
  Tenants, Emails, Subjects,
  Inputs,      \* the provisioning inputs of the operators
  Commands,    \* the commands of a behaviour: its bound
  None,
  MaxFaults    \* bound: failing transactions

\* who: the users of the tenant, each with the subject it is bound to, or None.
Input == [tenant : Tenants, who : UNION {[e -> Subjects \cup {None}] : e \in SUBSET Emails}]

ProvisioningAssumption ==
  /\ None \notin Subjects \cup Inputs /\ MaxFaults \in Nat
  /\ Inputs \subseteq Input
  /\ \A i \in Inputs : \A e, f \in DOMAIN i.who :
       e # f => i.who[e] # i.who[f] \/ i.who[e] = None

VARIABLES
  provisioned, \* the input each tenant was provisioned with
  identities,  \* oidc_identities
  evidenced,   \* bindings with their audit events, activation mail and its job
  command,
  faults,
  hit          \* history: commands with a fault

vars == <<provisioned, identities, evidenced, command, faults, hit>>

-----------------------------------------------------------------------------
Identity == [tenant : Tenants, email : Emails, subject : Subjects]

Phase == {"none", "begin", "locking", "check", "insert", "commit",
          "created", "unchanged", "refused", "conflict", "failed"}

\* own: the identities the transaction inserts.
Unsent == [does |-> "nothing", phase |-> "none", input |-> None, own |-> {}]

IdentitiesOf(input) ==
  {[tenant |-> input.tenant, email |-> e, subject |-> input.who[e]] :
     e \in {f \in DOMAIN input.who : input.who[f] # None}}

Does(c, what, phase) == command[c].does = what /\ command[c].phase = phase

Moves(c, phase) == command' = [command EXCEPT ![c].phase = phase]

Inside(c) == command[c].phase \in {"locking", "check", "insert", "commit"}

The(c) == CHOOSE i \in command[c].own : TRUE

\* The advisory locks, which are held until the transaction ends.
Locks(c) ==
  CASE ~Inside(c)                       -> {}
    [] command[c].does = "provision"    -> {<<command[c].input.tenant>>}
    [] command[c].phase = "locking"     -> {<<The(c).tenant, The(c).email>>}
    [] OTHER                            -> {<<The(c).tenant, The(c).email>>, <<The(c).subject>>}

Free(c, lock) == \A o \in Commands \ {c} : lock \notin Locks(o)

\* Two rows that the constraints of oidc_identities do not allow.
Clash(i, j) == i.subject = j.subject \/ (i.tenant = j.tenant /\ i.email = j.email)

Clashes(rows, others) == \E i \in rows, j \in others : Clash(i, j)

\* The rows that others have inserted and not committed.
Uncommitted(c) ==
  UNION {command[o].own : o \in {x \in Commands \ {c} : command[x].phase = "commit"}}

Init ==
  /\ provisioned = [t \in Tenants |-> None]
  /\ identities = {}
  /\ evidenced = {}
  /\ command = [c \in Commands |-> Unsent]
  /\ faults = 0
  /\ hit = {}

Tables == <<provisioned, identities, evidenced, faults, hit>>

-----------------------------------------------------------------------------
(* provisionStagedTenant *)

StartProvision(c, input) ==
  /\ command[c].phase = "none"
  /\ command' = [command EXCEPT ![c] = [does |-> "provision", phase |-> "begin", input |-> input,
                                        own |-> IdentitiesOf(input)]]
  /\ UNCHANGED Tables

LockTenant(c) ==
  /\ Does(c, "provision", "begin")
  /\ Free(c, <<command[c].input.tenant>>)
  /\ Moves(c, "check")
  /\ UNCHANGED Tables

\* The key is a digest of the whole input.
FindTenant(c) ==
  /\ Does(c, "provision", "check")
  /\ LET before == provisioned[command[c].input.tenant]
     IN Moves(c, IF before = None THEN "insert"
                 ELSE IF before = command[c].input THEN "unchanged" ELSE "refused")
  /\ UNCHANGED Tables

\* The tenant and all that belongs to it.  Two of these that wait for each
\* other's subjects are a deadlock, and one of them fails as it does here.
InsertTenant(c) ==
  /\ Does(c, "provision", "insert")
  /\ ~Clashes(command[c].own, Uncommitted(c))
  /\ \A o \in Commands \ {c} : Does(o, "provision", "commit") => command[o].input.tenant # command[c].input.tenant
  /\ Moves(c, IF \/ provisioned[command[c].input.tenant] # None
                 \/ Clashes(command[c].own, identities)
              THEN "failed" ELSE "commit")
  /\ UNCHANGED Tables

PublishTenant(c) ==
  /\ provisioned' = [provisioned EXCEPT ![command[c].input.tenant] = command[c].input]
  /\ identities' = identities \cup command[c].own
  /\ UNCHANGED evidenced

CommitTenant(c) ==
  /\ Does(c, "provision", "commit")
  /\ PublishTenant(c)
  /\ Moves(c, "created")
  /\ UNCHANGED <<faults, hit>>

-----------------------------------------------------------------------------
(* bindOidcIdentity *)

StartBind(c, i) ==
  /\ command[c].phase = "none"
  /\ command' = [command EXCEPT ![c] = [does |-> "bind", phase |-> "begin", input |-> None, own |-> {i}]]
  /\ UNCHANGED Tables

\* The keys are sorted, and those of the e-mails come first.
LockEmail(c) ==
  /\ Does(c, "bind", "begin")
  /\ Free(c, <<The(c).tenant, The(c).email>>)
  /\ Moves(c, "locking")
  /\ UNCHANGED Tables

LockSubjectBug(c) ==
  /\ Does(c, "bind", "locking")
  /\ Moves(c, "check")
  /\ UNCHANGED Tables

LockSubject(c) ==
  /\ Does(c, "bind", "locking")
  /\ Free(c, <<The(c).subject>>)
  /\ Moves(c, "check")
  /\ UNCHANGED Tables

\* The user, and the rows of the user or of the subject, if there are any.
FindIdentity(c) ==
  /\ Does(c, "bind", "check")
  /\ LET i == The(c)
         existing == {j \in identities : Clash(i, j)}
     IN Moves(c, IF \/ provisioned[i.tenant] = None
                    \/ i.email \notin DOMAIN provisioned[i.tenant].who
                 THEN "refused"
                 ELSE IF existing = {i} THEN "unchanged"
                 ELSE IF existing # {} THEN "conflict" ELSE "insert")
  /\ UNCHANGED Tables

InsertIdentityBug(c) ==
  /\ Does(c, "bind", "insert")
  /\ Moves(c, "commit")
  /\ UNCHANGED Tables

InsertIdentity(c) ==
  /\ Does(c, "bind", "insert")
  /\ ~Clashes(command[c].own, Uncommitted(c))
  /\ Moves(c, IF Clashes(command[c].own, identities) THEN "failed" ELSE "commit")
  /\ UNCHANGED Tables

\* With it two audit events, the activation mail and its outbox job.
PublishIdentity(c) ==
  /\ identities' = identities \cup command[c].own
  /\ evidenced' = evidenced \cup command[c].own
  /\ UNCHANGED provisioned

CommitIdentity(c) ==
  /\ Does(c, "bind", "commit")
  /\ PublishIdentity(c)
  /\ Moves(c, "created")
  /\ UNCHANGED <<faults, hit>>

-----------------------------------------------------------------------------
\* The transaction fails and is rolled back, or its commit has no reply.
Fault(c) ==
  /\ Inside(c)
  /\ faults < MaxFaults
  /\ faults' = faults + 1
  /\ hit' = hit \cup {c}
  /\ Moves(c, "failed")
  /\ \/ UNCHANGED <<provisioned, identities, evidenced>>
     \/ Does(c, "provision", "commit") /\ PublishTenant(c)
     \/ Does(c, "bind", "commit") /\ PublishIdentity(c)

Next ==
  \E c \in Commands :
    \/ \E input \in Inputs : StartProvision(c, input)
    \/ \E i \in Identity : StartBind(c, i)
    \/ LockTenant(c) \/ FindTenant(c) \/ InsertTenant(c) \/ CommitTenant(c)
    \/ LockEmail(c) \/ LockSubject(c) \/ FindIdentity(c) \/ InsertIdentity(c) \/ CommitIdentity(c)
    \/ Fault(c)

Spec == Init /\ [][Next]_vars

-----------------------------------------------------------------------------
\* Every variable has its type.
TypeOK ==
  /\ provisioned \in [Tenants -> Inputs \cup {None}]
  /\ {identities, evidenced} \subseteq SUBSET Identity
  /\ \A c \in Commands :
       /\ command[c].phase \in Phase
       /\ command[c].does = "provision" => command[c].input \in Inputs /\ command[c].own = IdentitiesOf(command[c].input)
       /\ command[c].does = "bind" => command[c].own \in {{i} : i \in Identity}
  /\ faults \in 0 .. MaxFaults
  /\ hit \subseteq Commands

\* resolveOidcAuthorization: the users a subject stands for.
Resolved(subject) ==
  {i \in identities : /\ i.subject = subject
                      /\ provisioned[i.tenant] # None
                      /\ i.email \in DOMAIN provisioned[i.tenant].who}

(***************************************************************************)
(* A subject stands for one user and a user for one subject, whatever      *)
(* commands meet: no lookup is ambiguous, none finds an identity of a user *)
(* that its tenant does not have, and every identity came with its tenant  *)
(* or with the evidence of its binding.                                    *)
(***************************************************************************)
OneToOne ==
  /\ \A i, j \in identities : Clash(i, j) => i = j
  /\ \A i \in identities :
       /\ Resolved(i.subject) = {i}
       /\ i \in evidenced \cup IdentitiesOf(provisioned[i.tenant])

(***************************************************************************)
(* The locks serialize "all contenders" (postgres.js:428): commands that   *)
(* meet end in an answer, not in an error of the database, unless a new    *)
(* tenant brings the subject that the other command wants to bind.         *)
(***************************************************************************)
MeetingIsAnswered ==
  \A c \in Commands : command[c].phase = "failed" /\ c \notin hit =>
    \E i \in command[c].own, j \in identities :
      /\ i.subject = j.subject /\ i # j
      /\ command[c].does = "bind" => j.tenant # i.tenant /\ j \in IdentitiesOf(provisioned[j.tenant])
=============================================================================
