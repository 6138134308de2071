---------------------------- MODULE IdentityProofs ----------------------------
(***************************************************************************)
(* Theorems about who a request comes from: the issuer's keys in an API    *)
(* process, for any keys, tokens and lifetimes and however many requests   *)
(* fetch the keys at once; the request limit, for any window and limit;    *)
(* the tenants and identities that operators provision, for any commands   *)
(* that meet.  Each component has an invariant of its own, and the         *)
(* behaviours of Identity keep the one that machine names.                 *)
(***************************************************************************)
EXTENDS Identity, WebSessionProofs, FiniteSetTheorems

HIDE WebAssumption

-----------------------------------------------------------------------------
(* The issuer's keys. *)

\* The issuer publishes a key once, and withdraws it later, if it does.
RotationOK ==
  \A k \in Keys :
    /\ since[k] # Never => since[k] <= clock
    /\ until[k] # Never => since[k] # Never /\ since[k] <= until[k] /\ until[k] <= clock

\* Keys that are what the issuer published at some time since t.
ServedSince(keys, t) ==
  \A k \in Keys :
    IF k \in keys THEN since[k] # Never /\ t <= until[k]
    ELSE t <= since[k] \/ until[k] # Never

\* Keys are never dated later than the issuer's answer that brought them.
DatesOK ==
  /\ copied.fetchedAt <= clock
  /\ copied.keys # {} => ServedSince(copied.keys, copied.fetchedAt)
  /\ \A q \in Asks :
       /\ asked[q].at <= clock
       /\ asked[q].phase = "fetched" => ServedSince(asked[q].keys, asked[q].at)

KeyInv == Keyring!TypeOK /\ RotationOK /\ DatesOK /\ Keyring!CopyFollowsIssuer

KeyAssumption == Keyring!KeyAssumption

LEMMA KeyConstants ==
  ASSUME KeyAssumption
  PROVE  /\ Ttl \in Nat /\ Ttl > 0 /\ KeyTime \in Nat /\ First \in Keys
         /\ Never \in Nat /\ Never > KeyTime + Ttl
         /\ \A t \in Tokens : t.key \in Keys
  BY DEF KeyAssumption, Keyring!KeyAssumption

\* What a request may conclude from keys that were served less than a TTL before.
LEMMA VerdictHolds ==
  ASSUME KeyAssumption, Keyring!TypeOK,
         NEW token \in Tokens \cup {Keyring!Idle.token}, NEW keys \in SUBSET Keys, NEW at \in Nat,
         NEW from \in Nat, at < from + Ttl, ServedSince(keys, from)
  PROVE  LET verdict == Keyring!Verdict(token, keys, at)
         IN /\ verdict \in {"accepted", "token_expired", "unknown_key"}
            /\ verdict \in {"accepted", "token_expired"} => since[token.key] # Never /\ at < until[token.key] + Ttl
            /\ verdict = "unknown_key" => at < since[token.key] + Ttl \/ until[token.key] # Never
  <1>1. token.key \in Keys
    BY KeyConstants DEF Keyring!Idle
  <1>2. since[token.key] \in Nat /\ until[token.key] \in Nat /\ Ttl \in Nat
    BY <1>1, KeyConstants DEF Keyring!TypeOK
  <1>. QED
    BY <1>1, <1>2 DEF Keyring!Verdict, ServedSince

LEMMA KeyInit == ASSUME KeyAssumption, Keyring!Init PROVE KeyInv
  BY KeyConstants DEF Keyring!Init, Keyring!TypeOK, Keyring!Copy, Keyring!Phase, Keyring!Idle, KeyInv,
     RotationOK, DatesOK, ServedSince, Keyring!CopyFollowsIssuer

\* A step of one request: what it has and the copy are served since their dates.
LEMMA AskStep ==
  ASSUME KeyAssumption, KeyInv, NEW q \in Asks, UNCHANGED <<clock, since, until>>,
         NEW new, asked' = [asked EXCEPT ![q] = new],
         new \in [phase : Keyring!Phase, token : Tokens \cup {Keyring!Idle.token}, at : 0 .. KeyTime, keys : SUBSET Keys],
         new.at <= clock,
         new.phase = "fetched" => ServedSince(new.keys, new.at),
         new.phase \in {"accepted", "token_expired"} => since[new.token.key] # Never /\ new.at < until[new.token.key] + Ttl,
         new.phase = "unknown_key" => new.at < since[new.token.key] + Ttl \/ until[new.token.key] # Never,
         \/ UNCHANGED copied
         \/ /\ copied' \in Keyring!Copy /\ copied'.fetchedAt <= clock
            /\ ServedSince(copied'.keys, copied'.fetchedAt)
  PROVE  KeyInv'
  <1>1. \A p \in Asks : asked'[p] = IF p = q THEN new ELSE asked[p]
    BY DEF KeyInv, Keyring!TypeOK
  <1>2. Keyring!TypeOK'
    BY DEF KeyInv, Keyring!TypeOK
  <1>3. RotationOK'
    BY DEF KeyInv, RotationOK
  <1>4. DatesOK'
    BY <1>1 DEF KeyInv, DatesOK, ServedSince
  <1>5. Keyring!CopyFollowsIssuer'
    BY <1>1 DEF KeyInv, Keyring!CopyFollowsIssuer
  <1>. QED
    BY <1>2, <1>3, <1>4, <1>5 DEF KeyInv

LEMMA KeyStep == ASSUME KeyAssumption, KeyInv, [Keyring!Next]_Keyring!vars PROVE KeyInv'
  <1>0. /\ clock \in Nat /\ clock <= KeyTime
        /\ since \in [Keys -> (0 .. KeyTime) \cup {Never}] /\ until \in [Keys -> (0 .. KeyTime) \cup {Never}]
        /\ copied.keys \in SUBSET Keys /\ copied.fetchedAt \in Nat /\ copied.fetchedAt <= clock
        /\ asked \in [Asks -> [phase : Keyring!Phase, token : Tokens \cup {Keyring!Idle.token}, at : 0 .. KeyTime, keys : SUBSET Keys]]
    BY KeyConstants DEF KeyInv, Keyring!TypeOK, Keyring!Copy, DatesOK
  <1>1. ASSUME NEW q \in Asks, NEW token \in Tokens, Keyring!Start(q, token) PROVE KeyInv'
    <2> DEFINE fresh == copied.keys # {} /\ clock - copied.fetchedAt < Ttl
               new == [phase |-> IF fresh THEN Keyring!Verdict(token, copied.keys, clock) ELSE "fetching",
                       token |-> token, at |-> clock, keys |-> {}]
    <2>1. asked' = [asked EXCEPT ![q] = new] /\ UNCHANGED <<clock, since, until, copied>>
      BY <1>1 DEF Keyring!Start
    <2>2. CASE fresh
      <3>1. ServedSince(copied.keys, copied.fetchedAt) /\ clock < copied.fetchedAt + Ttl
        BY <1>0, <2>2, KeyConstants DEF KeyInv, DatesOK
      <3>2. /\ new.phase \in {"accepted", "token_expired", "unknown_key"}
            /\ new.phase \in {"accepted", "token_expired"} => since[token.key] # Never /\ clock < until[token.key] + Ttl
            /\ new.phase = "unknown_key" => clock < since[token.key] + Ttl \/ until[token.key] # Never
        BY <1>0, <2>2, <3>1, VerdictHolds DEF KeyInv
      <3>3. new \in [phase : Keyring!Phase, token : Tokens \cup {Keyring!Idle.token}, at : 0 .. KeyTime, keys : SUBSET Keys]
        BY <1>0, <3>2, KeyConstants DEF Keyring!Phase
      <3>4. /\ new.at = clock /\ new.token = token /\ new.phase # "fetched"
            /\ new.phase \in {"accepted", "token_expired"} => since[new.token.key] # Never /\ new.at < until[new.token.key] + Ttl
            /\ new.phase = "unknown_key" => new.at < since[new.token.key] + Ttl \/ until[new.token.key] # Never
        BY <3>2
      <3>5. new.at <= clock
        BY <1>0
      <3> HIDE DEF new, fresh
      <3>. QED
        BY <2>1, <3>3, <3>4, <3>5, AskStep
    <2>3. CASE ~fresh
      <3>1. new = [phase |-> "fetching", token |-> token, at |-> clock, keys |-> {}]
        BY <2>3
      <3>. QED
        BY <1>0, <2>1, <3>1, KeyConstants, AskStep DEF Keyring!Phase
    <2>. QED
      BY <2>2, <2>3
  <1>2. ASSUME NEW q \in Asks, Keyring!Serve(q) PROVE KeyInv'
    <2> DEFINE new == [asked[q] EXCEPT !.phase = "fetched", !.keys = Keyring!Published]
    <2>1. asked' = [asked EXCEPT ![q] = new] /\ UNCHANGED <<clock, since, until, copied>>
      BY <1>0, <1>2 DEF Keyring!Serve
    <2>2. new \in [phase : Keyring!Phase, token : Tokens \cup {Keyring!Idle.token}, at : 0 .. KeyTime, keys : SUBSET Keys]
      BY <1>0 DEF Keyring!Phase, Keyring!Published
    <2>3. asked[q].at \in Nat /\ asked[q].at <= clock /\ asked[q].at < Never
      BY <1>0, KeyConstants DEF KeyInv, DatesOK
    <2>4. ServedSince(Keyring!Published, asked[q].at)
      BY <1>0, <2>3, KeyConstants DEF ServedSince, Keyring!Published
    <2>5. new.phase = "fetched" /\ new.at = asked[q].at /\ new.keys = Keyring!Published
      BY <1>0
    <2> HIDE DEF new
    <2>. QED
      BY <2>1, <2>2, <2>3, <2>4, <2>5, AskStep
  <1>3. ASSUME NEW q \in Asks, Keyring!Refresh(q) PROVE KeyInv'
    <2> DEFINE verdict == Keyring!Verdict(asked[q].token, asked[q].keys, asked[q].at)
               new == [asked[q] EXCEPT !.phase = verdict, !.keys = {}]
    <2>1. /\ asked[q].phase = "fetched" /\ asked' = [asked EXCEPT ![q] = new]
          /\ copied' = [keys |-> asked[q].keys, fetchedAt |-> asked[q].at] /\ UNCHANGED <<clock, since, until>>
      BY <1>0, <1>3 DEF Keyring!Refresh
    <2>2. ServedSince(asked[q].keys, asked[q].at) /\ asked[q].at \in Nat /\ asked[q].at <= clock
      BY <1>0, <2>1 DEF KeyInv, DatesOK
    <2>3. /\ verdict \in {"accepted", "token_expired", "unknown_key"}
          /\ verdict \in {"accepted", "token_expired"} => since[asked[q].token.key] # Never /\ asked[q].at < until[asked[q].token.key] + Ttl
          /\ verdict = "unknown_key" => asked[q].at < since[asked[q].token.key] + Ttl \/ until[asked[q].token.key] # Never
      <3>1. asked[q].token \in Tokens \cup {Keyring!Idle.token} /\ asked[q].keys \in SUBSET Keys /\ asked[q].at < asked[q].at + Ttl
        BY <1>0, <2>2, KeyConstants
      <3>. QED
        BY <2>2, <3>1, VerdictHolds DEF KeyInv
    <2> HIDE DEF verdict
    <2>4. new \in [phase : Keyring!Phase, token : Tokens \cup {Keyring!Idle.token}, at : 0 .. KeyTime, keys : SUBSET Keys]
      BY <1>0, <2>3 DEF Keyring!Phase
    <2>5. new.phase = verdict /\ new.at = asked[q].at /\ new.token = asked[q].token
      BY <1>0
    <2>6. copied' \in Keyring!Copy
      BY <1>0, <2>1 DEF Keyring!Copy
    <2> HIDE DEF new
    <2>. QED
      BY <2>1, <2>2, <2>3, <2>4, <2>5, <2>6, AskStep
  <1>4. ASSUME NEW q \in Asks, Keyring!FetchFails(q) PROVE KeyInv'
    <2> DEFINE new == [asked[q] EXCEPT !.phase = "unavailable"]
    <2>1. asked' = [asked EXCEPT ![q] = new] /\ UNCHANGED <<clock, since, until, copied>>
      BY <1>0, <1>4 DEF Keyring!FetchFails
    <2>2. new \in [phase : Keyring!Phase, token : Tokens \cup {Keyring!Idle.token}, at : 0 .. KeyTime, keys : SUBSET Keys]
      BY <1>0 DEF Keyring!Phase
    <2>3. new.phase = "unavailable" /\ new.at = asked[q].at /\ new.at <= clock
      BY <1>0 DEF KeyInv, DatesOK
    <2> HIDE DEF new
    <2>. QED
      BY <2>1, <2>2, <2>3, AskStep
  <1>5. ASSUME NEW k \in Keys, Keyring!Rotate(k) PROVE KeyInv'
    <2>0. KeyTime < Never /\ Ttl \in Nat /\ Ttl > 0 /\ KeyTime \in Nat /\ Never \in Nat /\ Never > KeyTime + Ttl
      BY KeyConstants
    <2>1. /\ UNCHANGED <<clock, copied, asked>>
          /\ \/ since[k] = Never /\ since' = [since EXCEPT ![k] = clock] /\ UNCHANGED until
             \/ since[k] # Never /\ until[k] = Never /\ until' = [until EXCEPT ![k] = clock] /\ UNCHANGED since
      BY <1>5 DEF Keyring!Rotate, Keyring!Published
    <2>2. Keyring!TypeOK'
      BY <1>0, <2>1 DEF KeyInv, Keyring!TypeOK
    <2>3. RotationOK'
      BY <1>0, <2>0, <2>1 DEF KeyInv, RotationOK
    <2>4. \A keys \in SUBSET Keys, t \in Nat : t <= clock /\ ServedSince(keys, t) => ServedSince(keys, t)'
      BY <1>0, <2>0, <2>1 DEF KeyInv, RotationOK, ServedSince
    <2>5. DatesOK'
      BY <1>0, <2>1, <2>4 DEF KeyInv, DatesOK
    <2>6. Keyring!CopyFollowsIssuer'
      <3>1. \A q \in Asks : asked[q].token.key \in Keys /\ asked[q].at \in Nat /\ asked[q].at <= clock
        BY <1>0, KeyConstants DEF Keyring!Idle, KeyInv, DatesOK
      <3>2. \A j \in Keys, t \in Nat : t <= clock =>
              /\ since[j] # Never /\ t < until[j] + Ttl => since'[j] # Never /\ t < until'[j] + Ttl
              /\ t < since[j] + Ttl \/ until[j] # Never => t < since'[j] + Ttl \/ until'[j] # Never
        BY <1>0, <2>0, <2>1
      <3>. QED
        BY <2>1, <3>1, <3>2 DEF KeyInv, Keyring!CopyFollowsIssuer
    <2>. QED
      BY <2>2, <2>3, <2>5, <2>6 DEF KeyInv
  <1>6. ASSUME Keyring!Tick PROVE KeyInv'
    <2>1. clock' = clock + 1 /\ clock' <= KeyTime /\ UNCHANGED <<since, until, copied, asked>>
      BY <1>0, <1>6, KeyConstants DEF Keyring!Tick
    <2>. QED
      BY <1>0, <2>1, KeyConstants DEF KeyInv, Keyring!TypeOK, RotationOK, DatesOK, ServedSince, Keyring!CopyFollowsIssuer
  <1>7. ASSUME UNCHANGED Keyring!vars PROVE KeyInv'
    BY <1>7 DEF Keyring!vars, KeyInv, Keyring!TypeOK, RotationOK, DatesOK, ServedSince, Keyring!CopyFollowsIssuer
  <1>. QED
    BY <1>1, <1>2, <1>3, <1>4, <1>5, <1>6, <1>7 DEF Keyring!Next

-----------------------------------------------------------------------------
(* Tenants and identities. *)

StagedAssumption == Staged!ProvisioningAssumption

Provisions(c) == command[c].does = "provision"

Binds(c) == command[c].does = "bind"

In(c, phases) == command[c].phase \in phases

StagedOK ==
  /\ provisioned \in [Tenants -> Inputs \cup {None}]
  /\ identities \subseteq Staged!Identity /\ evidenced \subseteq Staged!Identity
  /\ command \in [Commands -> [does : {"nothing", "provision", "bind"}, phase : Staged!Phase,
                               input : Inputs \cup {None}, own : SUBSET Staged!Identity]]
  /\ failures \in 0 .. MaxCommandFaults
  /\ hit \subseteq Commands

\* What a command inserts is what it was told.
CommandsOK ==
  \A c \in Commands :
    /\ command[c].does = "nothing" <=> command[c].phase = "none"
    /\ Provisions(c) => command[c].input \in Inputs /\ command[c].own = Staged!IdentitiesOf(command[c].input)
    /\ Provisions(c) => command[c].phase # "locking"
    /\ Binds(c) => \E i \in Staged!Identity : command[c].own = {i}

\* The tenant of an identity has its user.
HasUser(i) == provisioned[i.tenant] # None /\ i.email \in DOMAIN provisioned[i.tenant].who

\* An identity came with its tenant.
Brought(i) == i \in Staged!IdentitiesOf(provisioned[i.tenant])

RowsOK ==
  /\ \A i, j \in identities : Staged!Clash(i, j) => i = j
  /\ \A i \in identities : HasUser(i) /\ (i \in evidenced \/ Brought(i))

\* What is inserted and not committed has its place beside the rows and beside
\* what others have inserted.
InsertedOK ==
  /\ \A c \in Commands : In(c, {"commit"}) =>
       \A i \in command[c].own, j \in identities : ~Staged!Clash(i, j)
  /\ \A c, o \in Commands : In(c, {"commit"}) /\ In(o, {"commit"}) /\ c # o =>
       \A i \in command[c].own, j \in command[o].own : ~Staged!Clash(i, j)

\* What FindTenant and FindIdentity have seen of the tenant stays so.
FoundOK ==
  \A c \in Commands : In(c, {"insert", "commit"}) =>
    /\ Provisions(c) => provisioned[command[c].input.tenant] = None
    /\ Binds(c) => \A i \in command[c].own : HasUser(i)

\* The advisory locks exclude: two commands for one tenant, one user, one subject.
Excludes(c, o) ==
  /\ Provisions(c) /\ Provisions(o) /\ Staged!Inside(c) /\ Staged!Inside(o) =>
       command[c].input.tenant # command[o].input.tenant
  /\ Binds(c) /\ Binds(o) /\ Staged!Inside(c) /\ Staged!Inside(o) =>
       \A i \in command[c].own, j \in command[o].own : i.tenant # j.tenant \/ i.email # j.email
  /\ Binds(c) /\ Binds(o) /\ In(c, {"check", "insert", "commit"}) /\ In(o, {"check", "insert", "commit"}) =>
       \A i \in command[c].own, j \in command[o].own : i.subject # j.subject

LocksOK == \A c, o \in Commands : c # o => Excludes(c, o)

\* A row that i clashes with came with another tenant.
FromElsewhere(i, j) ==
  i.subject = j.subject /\ i # j /\ j.tenant # i.tenant /\ Brought(j)

\* What a binding did not find can only have come with another tenant since, and
\* that is also why it may have failed.
AnsweredOK ==
  /\ \A c \in Commands : Binds(c) /\ In(c, {"insert"}) =>
       \A i \in command[c].own, j \in identities : Staged!Clash(i, j) => FromElsewhere(i, j)
  /\ \A c \in Commands : In(c, {"failed"}) /\ c \notin hit =>
       \E i \in command[c].own, j \in identities :
         i.subject = j.subject /\ i # j /\ (Binds(c) => FromElsewhere(i, j))

StagedInv ==
  StagedOK /\ CommandsOK /\ RowsOK /\ InsertedOK /\ FoundOK /\ LocksOK /\ AnsweredOK

LEMMA IdentitiesOfOK ==
  ASSUME StagedAssumption, NEW input \in Inputs
  PROVE  /\ input.tenant \in Tenants /\ input # None
         /\ Staged!IdentitiesOf(input) \subseteq Staged!Identity
         /\ \A i \in Staged!IdentitiesOf(input) : i.tenant = input.tenant /\ i.email \in DOMAIN input.who
         /\ \A i, j \in Staged!IdentitiesOf(input) : Staged!Clash(i, j) => i = j
  <1>1. /\ input.tenant \in Tenants /\ input # None
        /\ DOMAIN input.who \subseteq Emails
        /\ \A e \in DOMAIN input.who : input.who[e] \in Subjects \cup {None}
        /\ \A e, f \in DOMAIN input.who : e # f => input.who[e] # input.who[f] \/ input.who[e] = None
    BY DEF StagedAssumption, Staged!ProvisioningAssumption, Staged!Input
  <1>2. \A i \in Staged!IdentitiesOf(input) :
          \E e \in DOMAIN input.who : input.who[e] # None /\ i = [tenant |-> input.tenant, email |-> e, subject |-> input.who[e]]
    BY DEF Staged!IdentitiesOf
  <1>. QED
    BY <1>1, <1>2 DEF Staged!Identity, Staged!Clash

LEMMA StagedInit == ASSUME StagedAssumption, Staged!Init PROVE StagedInv
  BY DEF StagedAssumption, Staged!ProvisioningAssumption, Staged!Init, Staged!Unsent, Staged!Phase,
     StagedInv, StagedOK, CommandsOK, Provisions, Binds, In, RowsOK, InsertedOK, FoundOK, LocksOK,
     Excludes, Staged!Inside, AnsweredOK

\* A command goes on, and the tables stay as they are.
LEMMA QuietStep ==
  ASSUME StagedInv, NEW c \in Commands, NEW p \in Staged!Phase \ {"none"}, command[c].does # "nothing",
         Staged!Moves(c, p), UNCHANGED <<provisioned, identities, evidenced>>,
         failures' \in 0 .. MaxCommandFaults, hit \subseteq hit', hit' \subseteq Commands,
         p = "locking" => Binds(c),
         p \in {"locking", "check", "insert", "commit"} => \A o \in Commands \ {c} :
           /\ Provisions(c) /\ Provisions(o) /\ Staged!Inside(o) => command[c].input.tenant # command[o].input.tenant
           /\ Binds(c) /\ Binds(o) /\ Staged!Inside(o) =>
                \A i \in command[c].own, j \in command[o].own : i.tenant # j.tenant \/ i.email # j.email
           /\ Binds(c) /\ Binds(o) /\ p # "locking" /\ In(o, {"check", "insert", "commit"}) =>
                \A i \in command[c].own, j \in command[o].own : i.subject # j.subject,
         p = "commit" =>
           /\ \A i \in command[c].own, j \in identities : ~Staged!Clash(i, j)
           /\ \A o \in Commands \ {c} : In(o, {"commit"}) =>
                \A i \in command[c].own, j \in command[o].own : ~Staged!Clash(i, j),
         p \in {"insert", "commit"} =>
           /\ Provisions(c) => provisioned[command[c].input.tenant] = None
           /\ Binds(c) => \A i \in command[c].own : HasUser(i),
         p = "insert" /\ Binds(c) =>
           \A i \in command[c].own, j \in identities : Staged!Clash(i, j) => FromElsewhere(i, j),
         p = "failed" /\ c \notin hit' =>
           \E i \in command[c].own, j \in identities :
             i.subject = j.subject /\ i # j /\ (Binds(c) => FromElsewhere(i, j))
  PROVE  StagedInv'
  <1>1. /\ \A o \in Commands : command'[o].does = command[o].does /\ command'[o].own = command[o].own
                              /\ command'[o].input = command[o].input
        /\ \A o \in Commands \ {c} : command'[o].phase = command[o].phase
        /\ command'[c].phase = p
    BY DEF StagedInv, StagedOK, Staged!Moves
  <1>2. StagedOK'
    BY DEF StagedInv, StagedOK, Staged!Moves
  <1>3. CommandsOK'
    BY <1>1 DEF StagedInv, CommandsOK, Provisions, Binds
  <1>4. RowsOK'
    BY DEF StagedInv, RowsOK, HasUser, Brought
  <1>5. InsertedOK'
    BY <1>1 DEF StagedInv, InsertedOK, In, Staged!Clash
  <1>6. FoundOK'
    BY <1>1 DEF StagedInv, FoundOK, In, Provisions, Binds, HasUser
  <1>7. LocksOK'
    BY <1>1 DEF StagedInv, LocksOK, Excludes, In, Provisions, Binds, Staged!Inside
  <1>8. AnsweredOK'
    BY <1>1 DEF StagedInv, AnsweredOK, In, Binds, FromElsewhere, Brought
  <1>. QED
    BY <1>2, <1>3, <1>4, <1>5, <1>6, <1>7, <1>8 DEF StagedInv

\* A command commits: its rows join the others, and its tenant is there.
LEMMA PublishStep ==
  ASSUME StagedAssumption, StagedInv, NEW c \in Commands, In(c, {"commit"}),
         NEW p \in {"created", "failed"}, Staged!Moves(c, p), p = "failed" => c \in hit',
         failures' \in 0 .. MaxCommandFaults, hit \subseteq hit', hit' \subseteq Commands,
         \/ Provisions(c) /\ Staged!PublishTenant(c)
         \/ Binds(c) /\ Staged!PublishIdentity(c)
  PROVE  StagedInv'
  <1> DEFINE own == command[c].own
  <1>1. /\ \A o \in Commands : command'[o].does = command[o].does /\ command'[o].own = command[o].own
                              /\ command'[o].input = command[o].input
        /\ \A o \in Commands \ {c} : command'[o].phase = command[o].phase
        /\ command'[c].phase = p
    BY DEF StagedInv, StagedOK, Staged!Moves
  <1>2. own \subseteq Staged!Identity /\ identities' = identities \cup own /\ evidenced \subseteq evidenced'
    BY DEF StagedInv, StagedOK, Staged!PublishTenant, Staged!PublishIdentity
  <1>3. \A t \in Tenants : provisioned[t] # None => provisioned'[t] = provisioned[t]
    BY DEF StagedInv, StagedOK, CommandsOK, FoundOK, In, Provisions, Staged!PublishTenant, Staged!PublishIdentity
  <1>4. \A i \in Staged!Identity : HasUser(i) => HasUser(i)' /\ (Brought(i) => Brought(i)')
    BY <1>3 DEF HasUser, Brought, Staged!Identity
  <1>5. /\ \A i \in own : HasUser(i)' /\ (i \in evidenced' \/ Brought(i)')
        /\ \A i, j \in own : Staged!Clash(i, j) => i = j
        /\ Provisions(c) => \A i \in own : Brought(i)' /\ provisioned[i.tenant] = None
    <2>1. CASE Provisions(c) /\ Staged!PublishTenant(c)
      <3>1. /\ command[c].input \in Inputs /\ own = Staged!IdentitiesOf(command[c].input)
            /\ provisioned[command[c].input.tenant] = None
        BY <2>1 DEF StagedInv, CommandsOK, FoundOK, In
      <3>2. provisioned'[command[c].input.tenant] = command[c].input
        BY <2>1, <3>1, IdentitiesOfOK DEF StagedInv, StagedOK, Staged!PublishTenant
      <3>. QED
        BY <3>1, <3>2, IdentitiesOfOK DEF HasUser, Brought
    <2>2. CASE Binds(c) /\ Staged!PublishIdentity(c)
      BY <1>2, <1>4, <2>2 DEF StagedInv, CommandsOK, FoundOK, In, Provisions, Binds, Staged!PublishIdentity
    <2>. QED
      BY <2>1, <2>2
  <1>6. StagedOK'
    <2>1. command[c].input \in Inputs \/ UNCHANGED provisioned
      BY DEF StagedInv, CommandsOK, Staged!PublishIdentity
    <2>. QED
      BY <1>2, <2>1 DEF StagedInv, StagedOK, Staged!Moves, Staged!Phase, Staged!PublishTenant, Staged!PublishIdentity
  <1>7. CommandsOK'
    BY <1>1 DEF StagedInv, CommandsOK, Provisions, Binds, In
  <1>8. RowsOK'
    <2>1. \A i \in own, j \in identities : ~Staged!Clash(i, j) /\ ~Staged!Clash(j, i)
      BY DEF StagedInv, InsertedOK, Staged!Clash
    <2>2. \A i, j \in identities' : Staged!Clash(i, j) => i = j
      BY <1>2, <1>5, <2>1 DEF StagedInv, RowsOK
    <2>3. \A i \in identities : HasUser(i)' /\ (i \in evidenced' \/ Brought(i)')
      BY <1>2, <1>4 DEF StagedInv, StagedOK, RowsOK
    <2>. QED
      BY <1>2, <1>5, <2>2, <2>3 DEF RowsOK, Staged!Clash
  <1>9. InsertedOK'
    <2>1. \A o \in Commands \ {c} : In(o, {"commit"}) => \A i \in command[o].own, j \in own : ~Staged!Clash(i, j)
      BY DEF StagedInv, InsertedOK
    <2>. QED
      BY <1>1, <1>2, <2>1 DEF StagedInv, InsertedOK, In, Staged!Clash
  <1>10. FoundOK'
    <2>1. ASSUME NEW o \in Commands, In(o, {"insert", "commit"})', Provisions(o)'
          PROVE  provisioned'[command'[o].input.tenant] = None
      <3>1. o # c /\ Provisions(o) /\ In(o, {"insert", "commit"})
        BY <1>1, <2>1 DEF In, Provisions
      <3>2. provisioned[command[o].input.tenant] = None /\ command[o].input \in Inputs
        BY <3>1 DEF StagedInv, FoundOK, CommandsOK
      <3>3. Provisions(c) => command[c].input.tenant # command[o].input.tenant
        BY <3>1 DEF StagedInv, LocksOK, Excludes, Staged!Inside, In
      <3>. QED
        BY <1>1, <3>2, <3>3, IdentitiesOfOK DEF StagedInv, StagedOK, Staged!PublishTenant, Staged!PublishIdentity
    <2>2. ASSUME NEW o \in Commands, In(o, {"insert", "commit"})', Binds(o)'
          PROVE  \A i \in command'[o].own : HasUser(i)'
      BY <1>1, <1>4, <2>2 DEF StagedInv, StagedOK, FoundOK, In, Binds
    <2>. QED
      BY <2>1, <2>2 DEF FoundOK, Provisions, Binds, In
  <1>11. LocksOK'
    BY <1>1 DEF StagedInv, LocksOK, Excludes, In, Provisions, Binds, Staged!Inside
  <1>12. AnsweredOK'
    <2>1. \A i \in Staged!Identity, j \in identities : FromElsewhere(i, j) => FromElsewhere(i, j)'
      BY <1>4 DEF StagedInv, StagedOK, RowsOK, FromElsewhere
    <2>2. ASSUME NEW o \in Commands, Binds(o)', In(o, {"insert"})', NEW i \in command'[o].own, NEW j \in identities',
                 Staged!Clash(i, j)
          PROVE  FromElsewhere(i, j)'
      <3>1. o # c /\ Binds(o) /\ In(o, {"insert"}) /\ i \in command[o].own /\ i \in Staged!Identity /\ HasUser(i)
        BY <1>1, <2>2 DEF StagedInv, StagedOK, FoundOK, In, Binds
      <3>2. CASE j \in identities
        BY <2>1, <2>2, <3>1, <3>2 DEF StagedInv, AnsweredOK
      <3>3. CASE j \in own /\ Provisions(c)
        <4>1. Brought(j)' /\ j.tenant # i.tenant
          BY <1>5, <3>1, <3>3 DEF HasUser
        <4>. QED
          BY <2>2, <4>1 DEF FromElsewhere, Staged!Clash
      <3>4. CASE j \in own /\ Binds(c)
        <4>1. (i.tenant # j.tenant \/ i.email # j.email) /\ i.subject # j.subject
          BY <3>1, <3>4 DEF StagedInv, LocksOK, Excludes, Staged!Inside, In
        <4>. QED
          BY <2>2, <4>1 DEF Staged!Clash
      <3>. QED
        BY <1>2, <3>2, <3>3, <3>4
    <2>3. ASSUME NEW o \in Commands, In(o, {"failed"})', o \notin hit'
          PROVE  \E i \in command'[o].own, j \in identities' :
                   i.subject = j.subject /\ i # j /\ (Binds(o)' => FromElsewhere(i, j)')
      <3>1. o # c /\ In(o, {"failed"}) /\ o \notin hit
        BY <1>1, <2>3 DEF In
      <3>2. PICK i \in command[o].own, j \in identities :
              i.subject = j.subject /\ i # j /\ (Binds(o) => FromElsewhere(i, j))
        BY <3>1 DEF StagedInv, AnsweredOK
      <3>3. i \in Staged!Identity
        BY <3>1 DEF StagedInv, StagedOK
      <3>. QED
        BY <1>1, <1>2, <2>1, <3>2, <3>3 DEF Binds
    <2>4. \A o \in Commands : Binds(o)' /\ In(o, {"insert"})' =>
            \A i \in command'[o].own, j \in identities' : Staged!Clash(i, j)' => FromElsewhere(i, j)'
      BY <2>2 DEF Staged!Clash
    <2>. QED
      BY <2>3, <2>4 DEF AnsweredOK
  <1>. QED
    BY <1>6, <1>7, <1>8, <1>9, <1>10, <1>11, <1>12 DEF StagedInv

\* A command of bindOidcIdentity is about one identity.
LEMMA TheOne ==
  ASSUME StagedInv, NEW c \in Commands, Binds(c)
  PROVE  Staged!The(c) \in Staged!Identity /\ command[c].own = {Staged!The(c)}
  BY DEF StagedInv, CommandsOK, Staged!The

LEMMA LocksOf ==
  ASSUME StagedInv, NEW o \in Commands, Staged!Inside(o)
  PROVE  /\ Provisions(o) => <<command[o].input.tenant>> \in Staged!Locks(o)
         /\ Binds(o) => \A i \in command[o].own :
              /\ <<i.tenant, i.email>> \in Staged!Locks(o)
              /\ In(o, {"check", "insert", "commit"}) => <<i.subject>> \in Staged!Locks(o)
  <1>1. Provisions(o) => Staged!Locks(o) = {<<command[o].input.tenant>>}
    BY DEF Staged!Locks, Provisions, StagedInv, CommandsOK
  <1>2. ASSUME Binds(o), In(o, {"locking"}) PROVE Staged!Locks(o) = {<<Staged!The(o).tenant, Staged!The(o).email>>}
    BY <1>2 DEF Staged!Locks, Binds, In
  <1>3. ASSUME Binds(o), ~In(o, {"locking"})
        PROVE  Staged!Locks(o) = {<<Staged!The(o).tenant, Staged!The(o).email>>, <<Staged!The(o).subject>>}
    BY <1>3 DEF Staged!Locks, Binds, In
  <1>. QED
    BY <1>1, <1>2, <1>3, TheOne DEF In

\* A transaction that rolls back, or ends without having changed anything.
LEMMA EndStep ==
  ASSUME StagedInv, NEW c \in Commands, command[c].does # "nothing",
         NEW p \in {"unchanged", "refused", "conflict"}, Staged!Moves(c, p), UNCHANGED Staged!Tables
  PROVE  StagedInv'
  <1>1. p \in Staged!Phase \ {"none"}
    BY DEF Staged!Phase
  <1>. QED
    BY <1>1, QuietStep DEF Staged!Tables, StagedInv, StagedOK

LEMMA StartStep ==
  ASSUME StagedInv, NEW c \in Commands, command[c].phase = "none",
         NEW new, command' = [command EXCEPT ![c] = new],
         new \in [does : {"provision", "bind"}, phase : {"begin"}, input : Inputs \cup {None}, own : SUBSET Staged!Identity],
         new.does = "provision" => new.input \in Inputs /\ new.own = Staged!IdentitiesOf(new.input),
         new.does = "bind" => \E i \in Staged!Identity : new.own = {i},
         UNCHANGED Staged!Tables
  PROVE  StagedInv'
  <1>1. /\ \A o \in Commands : o # c => command'[o] = command[o]
        /\ command'[c] = new
        /\ UNCHANGED <<provisioned, identities, evidenced, failures, hit>>
    BY DEF StagedInv, StagedOK, Staged!Tables
  <1>2. StagedOK'
    BY <1>1 DEF StagedInv, StagedOK, Staged!Phase
  <1>3. CommandsOK'
    BY <1>1 DEF StagedInv, CommandsOK, Provisions, Binds
  <1>4. RowsOK'
    BY <1>1 DEF StagedInv, RowsOK, HasUser, Brought
  <1>5. InsertedOK'
    BY <1>1 DEF StagedInv, InsertedOK, In, Staged!Clash
  <1>6. FoundOK'
    BY <1>1 DEF StagedInv, FoundOK, In, Provisions, Binds, HasUser
  <1>7. LocksOK'
    BY <1>1 DEF StagedInv, LocksOK, Excludes, In, Provisions, Binds, Staged!Inside
  <1>8. AnsweredOK'
    BY <1>1 DEF StagedInv, AnsweredOK, In, Binds, FromElsewhere, Brought
  <1>. QED
    BY <1>2, <1>3, <1>4, <1>5, <1>6, <1>7, <1>8 DEF StagedInv

LEMMA ProvisionStep ==
  ASSUME StagedAssumption, StagedInv, NEW c \in Commands,
         \/ \E input \in Inputs : Staged!StartProvision(c, input)
         \/ Staged!LockTenant(c) \/ Staged!FindTenant(c) \/ Staged!InsertTenant(c) \/ Staged!CommitTenant(c)
  PROVE  StagedInv'
  <1> DEFINE t == command[c].input.tenant
  <1>0. Provisions(c) => command[c].does # "nothing" /\ ~Binds(c)
    BY DEF Provisions, Binds
  <1>1. ASSUME NEW input \in Inputs, Staged!StartProvision(c, input) PROVE StagedInv'
    <2> DEFINE new == [does |-> "provision", phase |-> "begin", input |-> input, own |-> Staged!IdentitiesOf(input)]
    <2>1. command[c].phase = "none" /\ command' = [command EXCEPT ![c] = new] /\ UNCHANGED Staged!Tables
      BY <1>1 DEF Staged!StartProvision
    <2>2. new \in [does : {"provision", "bind"}, phase : {"begin"}, input : Inputs \cup {None}, own : SUBSET Staged!Identity]
      BY IdentitiesOfOK
    <2>. QED
      BY <2>1, <2>2, StartStep
  <1>2. CASE Staged!LockTenant(c)
    <2>1. Provisions(c) /\ Staged!Moves(c, "check") /\ UNCHANGED Staged!Tables /\ Staged!Free(c, <<t>>)
      BY <1>2 DEF Staged!LockTenant, Staged!Does, Provisions
    <2>2. \A o \in Commands \ {c} : Provisions(o) /\ Staged!Inside(o) => t # command[o].input.tenant
      BY <2>1, LocksOf DEF Staged!Free
    <2>. QED
      BY <1>0, <2>1, <2>2, QuietStep DEF Staged!Tables, Staged!Phase, StagedInv, StagedOK
  <1>3. CASE Staged!FindTenant(c)
    <2>1. Provisions(c) /\ In(c, {"check"}) /\ UNCHANGED Staged!Tables
      BY <1>3 DEF Staged!FindTenant, Staged!Does, Provisions, In
    <2>2. CASE provisioned[t] = None /\ Staged!Moves(c, "insert")
      <3>1. \A o \in Commands \ {c} : Provisions(o) /\ Staged!Inside(o) => t # command[o].input.tenant
        BY <2>1 DEF StagedInv, LocksOK, Excludes, Staged!Inside, In
      <3>. QED
        BY <1>0, <2>1, <2>2, <3>1, QuietStep DEF Staged!Tables, Staged!Phase, StagedInv, StagedOK
    <2>3. CASE Staged!Moves(c, "unchanged") \/ Staged!Moves(c, "refused")
      BY <1>0, <2>1, <2>3, EndStep
    <2>. QED
      BY <1>3, <2>2, <2>3 DEF Staged!FindTenant
  <1>4. CASE Staged!InsertTenant(c)
    <2>1. /\ Provisions(c) /\ In(c, {"insert"}) /\ UNCHANGED Staged!Tables
          /\ ~Staged!Clashes(command[c].own, Staged!Uncommitted(c))
          /\ Staged!Moves(c, IF provisioned[t] # None \/ Staged!Clashes(command[c].own, identities) THEN "failed" ELSE "commit")
      BY <1>4 DEF Staged!InsertTenant, Staged!Does, Provisions, In
    <2>2. /\ provisioned[t] = None /\ command[c].input \in Inputs
          /\ command[c].own = Staged!IdentitiesOf(command[c].input)
      BY <2>1 DEF StagedInv, FoundOK, CommandsOK, In
    <2>3. \A o \in Commands \ {c} : Provisions(o) /\ Staged!Inside(o) => t # command[o].input.tenant
      BY <2>1 DEF StagedInv, LocksOK, Excludes, Staged!Inside, In
    <2>4. CASE ~Staged!Clashes(command[c].own, identities)
      <3>1. Staged!Moves(c, "commit")
        BY <2>1, <2>2, <2>4
      <3>2. /\ \A i \in command[c].own, j \in identities : ~Staged!Clash(i, j)
            /\ \A o \in Commands \ {c} : In(o, {"commit"}) =>
                 \A i \in command[c].own, j \in command[o].own : ~Staged!Clash(i, j)
        BY <2>1, <2>4 DEF Staged!Clashes, Staged!Uncommitted, In
      <3>. QED
        BY <1>0, <2>1, <2>2, <2>3, <3>1, <3>2, QuietStep DEF Staged!Tables, Staged!Phase, StagedInv, StagedOK
    <2>5. CASE Staged!Clashes(command[c].own, identities)
      <3>1. Staged!Moves(c, "failed")
        BY <2>1, <2>5
      <3>2. PICK i \in command[c].own, j \in identities : Staged!Clash(i, j)
        BY <2>5 DEF Staged!Clashes
      <3>3. i.tenant = t /\ j.tenant # t
        BY <2>2, <3>2, IdentitiesOfOK DEF StagedInv, RowsOK, HasUser
      <3>4. i.subject = j.subject /\ i # j
        BY <3>2, <3>3 DEF Staged!Clash
      <3>. QED
        BY <1>0, <2>1, <3>1, <3>4, QuietStep DEF Staged!Tables, Staged!Phase, StagedInv, StagedOK
    <2>. QED
      BY <2>4, <2>5
  <1>5. CASE Staged!CommitTenant(c)
    <2>1. Provisions(c) /\ In(c, {"commit"}) /\ Staged!Moves(c, "created") /\ Staged!PublishTenant(c) /\ UNCHANGED <<failures, hit>>
      BY <1>5 DEF Staged!CommitTenant, Staged!Does, Provisions, In
    <2>. QED
      BY <2>1, PublishStep DEF StagedInv, StagedOK
  <1>. QED
    BY <1>1, <1>2, <1>3, <1>4, <1>5

LEMMA BindStep ==
  ASSUME StagedAssumption, StagedInv, NEW c \in Commands,
         \/ \E i \in Staged!Identity : Staged!StartBind(c, i)
         \/ Staged!LockEmail(c) \/ Staged!LockSubject(c) \/ Staged!FindIdentity(c)
         \/ Staged!InsertIdentity(c) \/ Staged!CommitIdentity(c)
  PROVE  StagedInv'
  <1> DEFINE i == Staged!The(c)
  <1>0. Binds(c) => command[c].does # "nothing" /\ ~Provisions(c) /\ command[c].own = {i} /\ i \in Staged!Identity
    BY TheOne DEF Provisions, Binds
  <1>1. ASSUME NEW j \in Staged!Identity, Staged!StartBind(c, j) PROVE StagedInv'
    <2> DEFINE new == [does |-> "bind", phase |-> "begin", input |-> None, own |-> {j}]
    <2>1. command[c].phase = "none" /\ command' = [command EXCEPT ![c] = new] /\ UNCHANGED Staged!Tables
      BY <1>1 DEF Staged!StartBind
    <2>. QED
      BY <2>1, StartStep
  <1> HIDE DEF i
  <1>2. CASE Staged!LockEmail(c)
    <2>1. Binds(c) /\ Staged!Moves(c, "locking") /\ UNCHANGED Staged!Tables /\ Staged!Free(c, <<i.tenant, i.email>>)
      BY <1>2 DEF Staged!LockEmail, Staged!Does, Binds, i
    <2>2. \A o \in Commands \ {c} : Binds(o) /\ Staged!Inside(o) =>
            \A j \in command[o].own : i.tenant # j.tenant \/ i.email # j.email
      BY <2>1, LocksOf DEF Staged!Free
    <2>. QED
      BY <1>0, <2>1, <2>2, QuietStep DEF Staged!Tables, Staged!Phase, StagedInv, StagedOK
  <1>3. CASE Staged!LockSubject(c)
    <2>1. Binds(c) /\ In(c, {"locking"}) /\ Staged!Moves(c, "check") /\ UNCHANGED Staged!Tables /\ Staged!Free(c, <<i.subject>>)
      BY <1>3 DEF Staged!LockSubject, Staged!Does, Binds, In, i
    <2>2. \A o \in Commands \ {c} : Binds(o) /\ In(o, {"check", "insert", "commit"}) =>
            \A j \in command[o].own : i.subject # j.subject
      BY <2>1, LocksOf DEF Staged!Free, Staged!Inside, In
    <2>3. \A o \in Commands \ {c} : Binds(o) /\ Staged!Inside(o) =>
            \A j \in command[o].own : i.tenant # j.tenant \/ i.email # j.email
      BY <1>0, <2>1 DEF StagedInv, LocksOK, Excludes, Staged!Inside, In
    <2>. QED
      BY <1>0, <2>1, <2>2, <2>3, QuietStep DEF Staged!Tables, Staged!Phase, StagedInv, StagedOK
  <1>4. ASSUME Binds(c), In(c, {"check", "insert"})
        PROVE  \A o \in Commands \ {c} :
                 /\ Binds(o) /\ Staged!Inside(o) =>
                      \A j \in command[o].own : i.tenant # j.tenant \/ i.email # j.email
                 /\ Binds(o) /\ In(o, {"check", "insert", "commit"}) =>
                      \A j \in command[o].own : i.subject # j.subject
    BY <1>0, <1>4 DEF StagedInv, LocksOK, Excludes, Staged!Inside, In
  <1>5. CASE Staged!FindIdentity(c)
    <2>1. Binds(c) /\ In(c, {"check"}) /\ UNCHANGED Staged!Tables
      BY <1>5 DEF Staged!FindIdentity, Staged!Does, Binds, In
    <2>2. \/ Staged!Moves(c, "refused") \/ Staged!Moves(c, "unchanged") \/ Staged!Moves(c, "conflict")
          \/ HasUser(i) /\ {j \in identities : Staged!Clash(i, j)} = {} /\ Staged!Moves(c, "insert")
      BY <1>5 DEF Staged!FindIdentity, HasUser, i
    <2>3. CASE HasUser(i) /\ {j \in identities : Staged!Clash(i, j)} = {} /\ Staged!Moves(c, "insert")
      <3>1. \A j \in identities : ~Staged!Clash(i, j)
        BY <2>3
      <3>2. "insert" \in Staged!Phase \ {"none"}
        BY DEF Staged!Phase
      <3>. QED
        BY <1>0, <1>4, <2>1, <2>3, <3>1, <3>2, QuietStep DEF Staged!Tables, StagedInv, StagedOK, In
    <2>. QED
      BY <1>0, <2>1, <2>2, <2>3, EndStep
  <1>6. CASE Staged!InsertIdentity(c)
    <2>1. /\ Binds(c) /\ In(c, {"insert"}) /\ UNCHANGED Staged!Tables
          /\ ~Staged!Clashes(command[c].own, Staged!Uncommitted(c))
          /\ Staged!Moves(c, IF Staged!Clashes(command[c].own, identities) THEN "failed" ELSE "commit")
      BY <1>6 DEF Staged!InsertIdentity, Staged!Does, Binds, In
    <2>2. CASE ~Staged!Clashes(command[c].own, identities)
      <3>1. Staged!Moves(c, "commit") /\ HasUser(i)
        BY <1>0, <2>1, <2>2 DEF StagedInv, FoundOK, In
      <3>2. /\ \A j \in identities : ~Staged!Clash(i, j)
            /\ \A o \in Commands \ {c} : In(o, {"commit"}) =>
                 \A j \in command[o].own : ~Staged!Clash(i, j)
        BY <1>0, <2>1, <2>2 DEF Staged!Clashes, Staged!Uncommitted, In
      <3>3. "commit" \in Staged!Phase \ {"none"}
        BY DEF Staged!Phase
      <3>. QED
        BY <1>0, <1>4, <2>1, <3>1, <3>2, <3>3, QuietStep DEF Staged!Tables, StagedInv, StagedOK, In
    <2>3. CASE Staged!Clashes(command[c].own, identities)
      <3>1. Staged!Moves(c, "failed")
        BY <2>1, <2>3
      <3>2. PICK j \in identities : Staged!Clash(i, j)
        BY <1>0, <2>1, <2>3 DEF Staged!Clashes
      <3>3. FromElsewhere(i, j)
        BY <1>0, <2>1, <3>2 DEF StagedInv, AnsweredOK
      <3>4. i.subject = j.subject /\ i # j
        BY <3>3 DEF FromElsewhere
      <3>5. "failed" \in Staged!Phase \ {"none"}
        BY DEF Staged!Phase
      <3>. QED
        BY <1>0, <2>1, <3>1, <3>3, <3>4, <3>5, QuietStep DEF Staged!Tables, StagedInv, StagedOK
    <2>. QED
      BY <2>2, <2>3
  <1>7. CASE Staged!CommitIdentity(c)
    <2>1. Binds(c) /\ In(c, {"commit"}) /\ Staged!Moves(c, "created") /\ Staged!PublishIdentity(c) /\ UNCHANGED <<failures, hit>>
      BY <1>7 DEF Staged!CommitIdentity, Staged!Does, Binds, In
    <2>. QED
      BY <2>1, PublishStep DEF StagedInv, StagedOK
  <1>. QED
    BY <1>1, <1>2, <1>3, <1>5, <1>6, <1>7

LEMMA StagedStep == ASSUME StagedAssumption, StagedInv, [Staged!Next]_Staged!vars PROVE StagedInv'
  <1>1. ASSUME NEW c \in Commands, Staged!Fault(c) PROVE StagedInv'
    <2>1. /\ Staged!Inside(c) /\ Staged!Moves(c, "failed") /\ hit' = hit \cup {c}
          /\ failures' \in 0 .. MaxCommandFaults
      BY <1>1 DEF Staged!Fault, StagedInv, StagedOK, StagedAssumption, Staged!ProvisioningAssumption
    <2>2. CASE UNCHANGED <<provisioned, identities, evidenced>>
      <3>1. command[c].does # "nothing" /\ "failed" \in Staged!Phase \ {"none"}
        BY <2>1 DEF StagedInv, CommandsOK, Staged!Inside, Staged!Phase
      <3>. QED
        BY <2>1, <2>2, <3>1, QuietStep DEF StagedInv, StagedOK
    <2>3. CASE Staged!Does(c, "provision", "commit") /\ Staged!PublishTenant(c)
      BY <2>1, <2>3, PublishStep DEF Staged!Does, In, Provisions, StagedInv, StagedOK
    <2>4. CASE Staged!Does(c, "bind", "commit") /\ Staged!PublishIdentity(c)
      BY <2>1, <2>4, PublishStep DEF Staged!Does, In, Binds, StagedInv, StagedOK
    <2>. QED
      BY <1>1, <2>2, <2>3, <2>4 DEF Staged!Fault
  <1>2. CASE UNCHANGED Staged!vars
    BY <1>2 DEF Staged!vars, StagedInv, StagedOK, CommandsOK, Provisions, Binds, In, RowsOK, HasUser, Brought,
       InsertedOK, Staged!Clash, FoundOK, LocksOK, Excludes, Staged!Inside, AnsweredOK, FromElsewhere
  <1>. QED
    BY <1>1, <1>2, ProvisionStep, BindStep DEF Staged!Next

-----------------------------------------------------------------------------
(* The request limit. *)

LimitAssumption == Rate!RateAssumption

Since(S, c, t) == {a \in S : a[1] = c /\ a[2] >= t}

Within(S, c, from, to) == {a \in S : a[1] = c /\ a[2] >= from /\ a[2] < to}

\* What a client may have had before its window, and with every restart again.
HadBefore == restarts * Max

\* Of the requests that a window counts, those it has let in.
LetIn(count) == IF count <= Max THEN count ELSE Max

LimitOK ==
  /\ Rate!TypeOK
  /\ IsFiniteSet(admitted)
  /\ \A a \in admitted : a[2] <= instant

\* A request that is let in has a number that no other of its client and time has.
NumbersOK == \A a \in admitted : a[3] <= Cardinality(Within(admitted, a[1], a[2], a[2] + 1))

\* A window that began at this time with so many requests: those of its client that
\* are younger than a window before it are at most the limit more.
WindowOK(S, c, begin, count) ==
  /\ begin \in Nat /\ count \in Nat
  /\ \A a \in S : a[1] = c => a[2] < begin + Window
  /\ \A t \in Nat : t + Window > begin => Cardinality(Since(S, c, t)) <= HadBefore + Max + count
  /\ \A t \in Nat : t >= begin => Cardinality(Since(S, c, t)) <= HadBefore + count
  /\ count <= Cardinality(Within(S, c, begin, begin + Window))

WindowsOK ==
  /\ \A c \in DOMAIN buckets :
       /\ buckets[c].resetAt >= Window /\ buckets[c].resetAt - Window <= instant
       /\ WindowOK(admitted, c, buckets[c].resetAt - Window, LetIn(buckets[c].count))
  /\ \A c \in Clients \ DOMAIN buckets, t \in Nat :
       /\ t + Window > instant => Cardinality(Since(admitted, c, t)) <= HadBefore + Max
       /\ t >= instant => Cardinality(Since(admitted, c, t)) <= HadBefore

SpansOK ==
  \A c \in Clients, t \in 0 .. LimitTime :
    Cardinality(Within(admitted, c, t, t + Window)) <= HadBefore + Max + Max

LimitInv == LimitOK /\ NumbersOK /\ WindowsOK /\ SpansOK

LEMMA LimitConstants ==
  ASSUME LimitAssumption, restarts \in Nat
  PROVE  /\ Window \in Nat /\ Window > 0 /\ Max \in Nat /\ Max > 0 /\ LimitTime \in Nat /\ MaxRestarts \in Nat
         /\ HadBefore \in Nat /\ (2 + restarts) * Max = HadBefore + Max + Max
         /\ (restarts + 1) * Max = HadBefore + Max
  <1>1. Window \in Nat /\ Window > 0 /\ Max \in Nat /\ Max > 0 /\ LimitTime \in Nat /\ MaxRestarts \in Nat
    BY DEF LimitAssumption, Rate!RateAssumption
  <1>2. \A r, m \in Nat : r * m \in Nat /\ (2 + r) * m = r * m + m + m /\ (r + 1) * m = r * m + m
    OBVIOUS
  <1>. QED
    BY <1>1, <1>2 DEF HadBefore

\* The module of the request limit counts with the standard operator.
LEMMA SameCount == \A S : Rate!Cardinality(S) = Cardinality(S)
  BY DEF Rate!Cardinality, Cardinality

LEMMA PartsAreFinite ==
  ASSUME NEW S, IsFiniteSet(S), NEW c, NEW t, NEW u
  PROVE  /\ IsFiniteSet(Since(S, c, t)) /\ Cardinality(Since(S, c, t)) \in Nat
         /\ IsFiniteSet(Within(S, c, t, u)) /\ Cardinality(Within(S, c, t, u)) \in Nat
         /\ Cardinality(Within(S, c, t, u)) <= Cardinality(Since(S, c, t))
  <1>1. Since(S, c, t) \in SUBSET S /\ Within(S, c, t, u) \in SUBSET Since(S, c, t)
    BY DEF Since, Within
  <1>2. IsFiniteSet(Since(S, c, t))
    BY <1>1, FS_Subset
  <1>. QED
    BY <1>1, <1>2, FS_Subset, FS_CardinalityType

\* One more request of client d.
LEMMA PartsGrow ==
  ASSUME NEW S, IsFiniteSet(S), NEW d, NEW n \in Nat, NEW x, x = <<d, n, x[3]>>, x \notin S,
         NEW c, NEW t \in Nat, NEW u \in Nat
  PROVE  /\ Cardinality(Since(S \cup {x}, c, t)) <= Cardinality(Since(S, c, t)) + 1
         /\ c # d => Since(S \cup {x}, c, t) = Since(S, c, t)
         /\ IF c = d /\ t <= n /\ n < u
            THEN Cardinality(Within(S \cup {x}, c, t, u)) = Cardinality(Within(S, c, t, u)) + 1
            ELSE Within(S \cup {x}, c, t, u) = Within(S, c, t, u)
  <1>1. x[1] = d /\ x[2] = n
    OBVIOUS
  <1>2. /\ Since(S \cup {x}, c, t) = IF c = d /\ n >= t THEN Since(S, c, t) \cup {x} ELSE Since(S, c, t)
        /\ Within(S \cup {x}, c, t, u) = IF c = d /\ n >= t /\ n < u THEN Within(S, c, t, u) \cup {x} ELSE Within(S, c, t, u)
    BY <1>1 DEF Since, Within
  <1>3. x \notin Since(S, c, t) /\ x \notin Within(S, c, t, u)
    BY DEF Since, Within
  <1>4. /\ Cardinality(Since(S, c, t)) \in Nat
        /\ Cardinality(Since(S, c, t) \cup {x}) = Cardinality(Since(S, c, t)) + 1
        /\ Cardinality(Within(S, c, t, u) \cup {x}) = Cardinality(Within(S, c, t, u)) + 1
    BY <1>3, PartsAreFinite, FS_AddElement
  <1>. QED
    BY <1>2, <1>4

LEMMA LimitInit == ASSUME LimitAssumption, Rate!Init PROVE LimitInv
  <1>1. admitted = {} /\ instant = 0 /\ DOMAIN buckets = {} /\ restarts = 0
    BY DEF Rate!Init
  <1>2. \A c, t, u : Cardinality(Since({}, c, t)) = 0 /\ Cardinality(Within({}, c, t, u)) = 0
    BY FS_EmptySet DEF Since, Within
  <1>3. HadBefore \in Nat /\ Max \in Nat /\ LimitTime \in Nat /\ MaxRestarts \in Nat
    BY <1>1, LimitConstants
  <1>. QED
    BY <1>1, <1>2, <1>3, FS_EmptySet DEF LimitInv, LimitOK, Rate!TypeOK, NumbersOK, WindowsOK, SpansOK

\* The bucket in which a request is counted, whether it is open or opened for it.
LEMMA OpenOK ==
  ASSUME LimitAssumption, LimitInv, NEW c \in Clients
  PROVE  LET b == Rate!Open(c) begin == b.resetAt - Window
         IN /\ b \in Rate!Bucket /\ b = [count |-> b.count, resetAt |-> b.resetAt]
            /\ b.resetAt >= Window /\ begin <= instant /\ instant < b.resetAt
            /\ WindowOK(admitted, c, begin, LetIn(b.count))
  <1>0. /\ Window \in Nat /\ Window > 0 /\ Max \in Nat /\ HadBefore \in Nat /\ instant \in Nat /\ IsFiniteSet(admitted)
        /\ admitted \subseteq Clients \X (0 .. LimitTime) \X Nat /\ \A a \in admitted : a[2] \in Nat /\ a[2] <= instant
    BY LimitConstants DEF LimitInv, LimitOK, Rate!TypeOK
  <1>1. CASE c \in DOMAIN buckets /\ instant < buckets[c].resetAt
    BY <1>0, <1>1 DEF Rate!Open, LimitInv, LimitOK, Rate!TypeOK, Rate!Bucket, WindowsOK
  <1>2. CASE ~(c \in DOMAIN buckets /\ instant < buckets[c].resetAt)
    <2>1. Rate!Open(c) = [count |-> 0, resetAt |-> instant + Window]
      BY <1>2 DEF Rate!Open
    <2>2. \A t \in Nat : t + Window > instant => Cardinality(Since(admitted, c, t)) <= HadBefore + Max
      <3>1. CASE c \in DOMAIN buckets
        <4>1. /\ instant >= buckets[c].resetAt /\ buckets[c].resetAt \in Nat /\ buckets[c].count \in Nat
              /\ WindowOK(admitted, c, buckets[c].resetAt - Window, LetIn(buckets[c].count))
          BY <1>0, <1>2, <3>1 DEF LimitInv, LimitOK, Rate!TypeOK, Rate!Bucket, WindowsOK
        <4>2. LetIn(buckets[c].count) \in Nat /\ LetIn(buckets[c].count) <= Max
          BY <1>0, <4>1 DEF LetIn
        <4>3. ASSUME NEW t \in Nat, t + Window > instant PROVE Cardinality(Since(admitted, c, t)) <= HadBefore + Max
          <5>1. t >= buckets[c].resetAt - Window
            BY <1>0, <4>1, <4>3
          <5>2. Cardinality(Since(admitted, c, t)) <= HadBefore + LetIn(buckets[c].count)
            BY <4>1, <4>3, <5>1 DEF WindowOK
          <5>. QED
            BY <1>0, <4>2, <5>2, PartsAreFinite
        <4>. QED
          BY <4>3
      <3>2. CASE c \notin DOMAIN buckets
        BY <3>2 DEF LimitInv, WindowsOK
      <3>. QED
        BY <3>1, <3>2
    <2>3. \A t \in Nat : t >= instant => Cardinality(Since(admitted, c, t)) <= HadBefore
      <3>1. CASE c \in DOMAIN buckets
        <4>1. instant >= buckets[c].resetAt /\ buckets[c].resetAt \in Nat /\ \A a \in admitted : a[1] = c => a[2] < buckets[c].resetAt
          <5>1. /\ instant >= buckets[c].resetAt /\ buckets[c].resetAt \in Nat
                /\ WindowOK(admitted, c, buckets[c].resetAt - Window, LetIn(buckets[c].count))
            BY <1>0, <1>2, <3>1 DEF LimitInv, LimitOK, Rate!TypeOK, Rate!Bucket, WindowsOK
          <5>2. buckets[c].resetAt - Window + Window = buckets[c].resetAt
            BY <1>0, <5>1
          <5>. QED
            BY <5>1, <5>2 DEF WindowOK
        <4>2. \A t \in Nat : t >= instant => Since(admitted, c, t) = {}
          BY <1>0, <4>1 DEF Since
        <4>. QED
          BY <1>0, <4>2, FS_EmptySet
      <3>2. CASE c \notin DOMAIN buckets
        BY <3>2 DEF LimitInv, WindowsOK
      <3>. QED
        BY <3>1, <3>2
    <2>4. WindowOK(admitted, c, instant, 0)
      <3>1. \A t \in Nat : /\ t + Window > instant => Cardinality(Since(admitted, c, t)) <= HadBefore + Max + 0
                           /\ t >= instant => Cardinality(Since(admitted, c, t)) <= HadBefore + 0
        BY <1>0, <2>2, <2>3
      <3>2. 0 <= Cardinality(Within(admitted, c, instant, instant + Window))
        BY <1>0, PartsAreFinite
      <3>3. \A a \in admitted : a[2] < instant + Window
        BY <1>0
      <3>. QED
        BY <1>0, <3>1, <3>2, <3>3 DEF WindowOK
    <2>5. LetIn(0) = 0 /\ instant + Window - Window = instant
      BY <1>0 DEF LetIn
    <2>. QED
      BY <1>0, <2>1, <2>4, <2>5 DEF Rate!Bucket
  <1>. QED
    BY <1>1, <1>2

\* A request counted in its window and let in.
LEMMA LetInStep ==
  ASSUME LimitAssumption, LimitInv, NEW c \in Clients, Rate!Check(c), Rate!Open(c).count + 1 <= Max
  PROVE  LimitInv'
  <1> DEFINE b == Rate!Open(c)
             begin == b.resetAt - Window
             x == <<c, instant, Cardinality(Within(admitted, c, instant, instant + 1)) + 1>>
             new == [count |-> b.count + 1, resetAt |-> b.resetAt]
  <1>0. /\ Window \in Nat /\ Window > 0 /\ Max \in Nat /\ HadBefore \in Nat /\ LimitTime \in Nat
        /\ instant \in 0 .. LimitTime /\ IsFiniteSet(admitted) /\ admitted \subseteq Clients \X (0 .. LimitTime) \X Nat
        /\ \A a \in admitted : a[1] \in Clients /\ a[2] \in Nat /\ a[2] <= instant /\ a[3] \in Nat
    BY LimitConstants DEF LimitInv, LimitOK, Rate!TypeOK
  <1>1. /\ b.count \in Nat /\ b.resetAt \in Nat /\ begin \in Nat /\ begin <= instant /\ instant < b.resetAt
        /\ begin + Window = b.resetAt /\ b = [count |-> b.count, resetAt |-> b.resetAt]
        /\ WindowOK(admitted, c, begin, LetIn(b.count))
    BY <1>0, OpenOK DEF Rate!Bucket
  <1>2. LetIn(b.count) = b.count /\ LetIn(b.count + 1) = b.count + 1 /\ b.count + 1 <= Max
    BY <1>0, <1>1 DEF LetIn
  <1>3. /\ UNCHANGED <<instant, restarts>>
        /\ DOMAIN buckets' = DOMAIN buckets \cup {c}
        /\ \A d \in DOMAIN buckets \cup {c} : buckets'[d] = IF d = c THEN new ELSE buckets[d]
        /\ admitted' = admitted \cup {x}
    <2>1. Rate!Between(c, instant, instant + 1) = Within(admitted, c, instant, instant + 1)
      BY DEF Rate!Between, Within
    <2>2. [b EXCEPT !.count = b.count + 1] = new
      BY <1>1
    <2>3. UNCHANGED <<instant, restarts>>
      BY DEF Rate!Check
    <2>7. buckets' = [d \in DOMAIN buckets \cup {c} |->
                        IF d = c THEN [Rate!Open(c) EXCEPT !.count = Rate!Open(c).count + 1] ELSE buckets[d]]
      BY Zenon DEF Rate!Check
    <2>8. admitted' = IF Rate!Open(c).count + 1 <= Max
                      THEN admitted \cup {<<c, instant, Cardinality(Rate!Between(c, instant, instant + 1)) + 1>>}
                      ELSE admitted
      BY SameCount, Zenon DEF Rate!Check
    <2>4. admitted' = admitted \cup {<<c, instant, Cardinality(Rate!Between(c, instant, instant + 1)) + 1>>}
      BY <1>2, <2>8
    <2>5. admitted' = admitted \cup {x}
      BY <2>1, <2>4
    <2>6. buckets' = [d \in DOMAIN buckets \cup {c} |-> IF d = c THEN new ELSE buckets[d]]
      BY <2>2, <2>7
    <2> HIDE DEF b, begin, x, new
    <2>. QED
      BY <2>3, <2>5, <2>6
  <1>4. Cardinality(Within(admitted, c, instant, instant + 1)) \in Nat /\ instant \in Nat
    BY <1>0, PartsAreFinite
  <1>5. x = <<c, instant, x[3]>> /\ x[1] = c /\ x[2] = instant
        /\ x[3] = Cardinality(Within(admitted, c, instant, instant + 1)) + 1
    OBVIOUS
  <1>6. x \notin admitted
    BY <1>4, <1>5 DEF LimitInv, NumbersOK
  <1> HIDE DEF b, begin, x, new
  <1>7. IsFiniteSet(admitted')
    BY <1>0, <1>3, FS_AddElement
  <1>8. \A d \in Clients, t \in Nat, u \in Nat :
          /\ Cardinality(Since(admitted', d, t)) <= Cardinality(Since(admitted, d, t)) + 1
          /\ d # c => Since(admitted', d, t) = Since(admitted, d, t)
          /\ IF d = c /\ t <= instant /\ instant < u
             THEN Cardinality(Within(admitted', d, t, u)) = Cardinality(Within(admitted, d, t, u)) + 1
             ELSE Within(admitted', d, t, u) = Within(admitted, d, t, u)
          /\ Cardinality(Since(admitted, d, t)) \in Nat /\ Cardinality(Since(admitted', d, t)) \in Nat
          /\ Cardinality(Within(admitted, d, t, u)) \in Nat
          /\ Cardinality(Within(admitted', d, t, u)) \in Nat
          /\ Cardinality(Within(admitted', d, t, u)) <= Cardinality(Since(admitted', d, t))
    BY <1>0, <1>3, <1>4, <1>5, <1>6, <1>7, PartsGrow, PartsAreFinite
  <1>9. HadBefore' = HadBefore
    BY <1>3 DEF HadBefore
  <1>10. LimitOK'
    <2>1. x \in Clients \X (0 .. LimitTime) \X Nat
      BY <1>0, <1>4 DEF x
    <2>2. new \in Rate!Bucket
      BY <1>1 DEF new, Rate!Bucket
    <2>3. \A a \in admitted' : a[2] <= instant
      BY <1>0, <1>3, <1>5
    <2>. QED
      BY <1>3, <1>7, <2>1, <2>2, <2>3 DEF LimitInv, LimitOK, Rate!TypeOK
  <1>11. NumbersOK'
    <2>1. ASSUME NEW a \in admitted
          PROVE  a[3] <= Cardinality(Within(admitted', a[1], a[2], a[2] + 1))
      <3>1. a[1] \in Clients /\ a[2] \in Nat /\ a[2] + 1 \in Nat /\ a[3] \in Nat
        BY <1>0, <2>1
      <3>2. a[3] <= Cardinality(Within(admitted, a[1], a[2], a[2] + 1))
        BY <2>1 DEF LimitInv, NumbersOK
      <3>3. /\ Cardinality(Within(admitted, a[1], a[2], a[2] + 1)) \in Nat
            /\ \/ Cardinality(Within(admitted', a[1], a[2], a[2] + 1)) = Cardinality(Within(admitted, a[1], a[2], a[2] + 1)) + 1
               \/ Within(admitted', a[1], a[2], a[2] + 1) = Within(admitted, a[1], a[2], a[2] + 1)
        BY <1>8, <3>1
      <3>. QED
        BY <3>1, <3>2, <3>3
    <2>2. x[3] <= Cardinality(Within(admitted', x[1], x[2], x[2] + 1))
      BY <1>4, <1>5, <1>8
    <2>. QED
      BY <1>3, <2>1, <2>2 DEF NumbersOK
  <1>12. \A t \in Nat : t + Window > begin => Cardinality(Since(admitted', c, t)) <= HadBefore + Max + (b.count + 1)
    BY <1>0, <1>1, <1>2, <1>8 DEF WindowOK
  <1>13. WindowOK(admitted', c, begin, b.count + 1)
    <2>1. \A t \in Nat : t >= begin => Cardinality(Since(admitted', c, t)) <= HadBefore + (b.count + 1)
      BY <1>0, <1>1, <1>2, <1>8 DEF WindowOK
    <2>2. b.count + 1 <= Cardinality(Within(admitted', c, begin, begin + Window))
      BY <1>0, <1>1, <1>2, <1>8 DEF WindowOK
    <2>3. \A a \in admitted' : a[1] = c => a[2] < begin + Window
      BY <1>0, <1>1, <1>3, <1>5 DEF WindowOK
    <2>. QED
      BY <1>1, <1>12, <2>1, <2>2, <2>3 DEF WindowOK
  <1>14. WindowsOK'
    <2>1. ASSUME NEW d \in DOMAIN buckets, d # c
          PROVE  /\ buckets[d].resetAt >= Window /\ buckets[d].resetAt - Window <= instant
                 /\ WindowOK(admitted', d, buckets[d].resetAt - Window, LetIn(buckets[d].count))
      <3>1. d \in Clients /\ buckets[d].resetAt \in Nat
        BY <2>1 DEF LimitInv, LimitOK, Rate!TypeOK, Rate!Bucket
      <3>2. /\ buckets[d].resetAt >= Window /\ buckets[d].resetAt - Window <= instant
            /\ WindowOK(admitted, d, buckets[d].resetAt - Window, LetIn(buckets[d].count))
        BY <2>1 DEF LimitInv, WindowsOK
      <3>3. \A a \in admitted' : a[1] = d => a \in admitted
        BY <1>3, <1>5, <2>1
      <3>4. /\ \A t \in Nat : Since(admitted', d, t) = Since(admitted, d, t)
            /\ \A t, u \in Nat : Within(admitted', d, t, u) = Within(admitted, d, t, u)
        BY <1>8, <2>1, <3>1
      <3>. QED
        BY <1>0, <3>1, <3>2, <3>3, <3>4 DEF WindowOK
    <2>2. buckets'[c] = new /\ new.resetAt = b.resetAt /\ new.count = b.count + 1
      BY <1>3 DEF new
    <2>3. b.resetAt - Window = begin /\ b.resetAt >= Window
      BY <1>0, <1>1
    <2>4. \A n : LetIn(n)' = LetIn(n)
      BY DEF LetIn
    <2>5. \A d \in DOMAIN buckets' :
            /\ buckets'[d].resetAt >= Window /\ buckets'[d].resetAt - Window <= instant
            /\ WindowOK(admitted', d, buckets'[d].resetAt - Window, LetIn(buckets'[d].count))
      BY <1>1, <1>2, <1>3, <1>13, <2>1, <2>2, <2>3
    <2>6. \A d \in Clients \ DOMAIN buckets', t \in Nat :
            /\ t + Window > instant => Cardinality(Since(admitted', d, t)) <= HadBefore + Max
            /\ t >= instant => Cardinality(Since(admitted', d, t)) <= HadBefore
      <3>1. ASSUME NEW d \in Clients \ DOMAIN buckets', NEW t \in Nat
            PROVE  d \in Clients \ DOMAIN buckets /\ Since(admitted', d, t) = Since(admitted, d, t)
        BY <1>3, <1>8, <3>1
      <3>. QED
        BY <3>1 DEF LimitInv, WindowsOK
    <2>. QED
      BY <1>3, <1>9, <2>5, <2>6 DEF WindowsOK, WindowOK, LetIn
  <1>15. SpansOK'
    <2>1. ASSUME NEW d \in Clients, NEW t \in 0 .. LimitTime
          PROVE  Cardinality(Within(admitted', d, t, t + Window)) <= HadBefore + Max + Max
      <3>0. t \in Nat /\ t + Window \in Nat
        BY <1>0
      <3>1. CASE d = c /\ t <= instant /\ instant < t + Window
        <4>1. Cardinality(Since(admitted', c, t)) <= HadBefore + Max + (b.count + 1)
          BY <1>0, <1>1, <1>4, <1>12, <3>1
        <4>2. Cardinality(Within(admitted', c, t, t + Window)) <= Cardinality(Since(admitted', c, t))
          BY <1>8, <3>0
        <4>3. Cardinality(Within(admitted', c, t, t + Window)) \in Nat /\ Cardinality(Since(admitted', c, t)) \in Nat
          BY <1>8, <3>0
        <4>. QED
          BY <1>0, <1>1, <1>2, <3>1, <4>1, <4>2, <4>3
      <3>2. CASE ~(d = c /\ t <= instant /\ instant < t + Window)
        <4>1. Within(admitted', d, t, t + Window) = Within(admitted, d, t, t + Window)
          BY <1>8, <3>0, <3>2
        <4>. QED
          BY <4>1 DEF LimitInv, SpansOK
      <3>. QED
        BY <3>1, <3>2
    <2>. QED
      BY <1>9, <2>1 DEF SpansOK
  <1>. QED
    BY <1>10, <1>11, <1>14, <1>15 DEF LimitInv

\* A request refused: only the count of its window goes on.
LEMMA RefuseStep ==
  ASSUME LimitAssumption, LimitInv, NEW c \in Clients, Rate!Check(c), ~(Rate!Open(c).count + 1 <= Max)
  PROVE  LimitInv'
  <1> DEFINE b == Rate!Open(c)
             new == [count |-> b.count + 1, resetAt |-> b.resetAt]
  <1>0. Window \in Nat /\ Window > 0 /\ Max \in Nat /\ Max > 0
    BY LimitConstants DEF LimitInv, LimitOK, Rate!TypeOK
  <1>1. /\ b.count \in Nat /\ b.resetAt \in Nat /\ b.resetAt >= Window /\ b.resetAt - Window <= instant
        /\ instant < b.resetAt /\ b = [count |-> b.count, resetAt |-> b.resetAt]
        /\ WindowOK(admitted, c, b.resetAt - Window, LetIn(b.count))
    BY <1>0, OpenOK DEF Rate!Bucket
  <1>2. LetIn(b.count + 1) = LetIn(b.count)
    BY <1>0, <1>1 DEF LetIn
  <1>3. /\ UNCHANGED <<instant, restarts, admitted>>
        /\ DOMAIN buckets' = DOMAIN buckets \cup {c}
        /\ \A d \in DOMAIN buckets \cup {c} : buckets'[d] = IF d = c THEN new ELSE buckets[d]
    <2>1. UNCHANGED <<instant, restarts>> /\ admitted' = admitted
      BY <1>1 DEF Rate!Check
    <2>2. buckets' = [d \in DOMAIN buckets \cup {c} |->
                        IF d = c THEN [Rate!Open(c) EXCEPT !.count = Rate!Open(c).count + 1] ELSE buckets[d]]
      BY Zenon DEF Rate!Check
    <2>3. [Rate!Open(c) EXCEPT !.count = Rate!Open(c).count + 1] = new
      BY <1>1
    <2> HIDE DEF b, new
    <2>. QED
      BY <2>1, <2>2, <2>3
  <1>4. new \in Rate!Bucket /\ new.count = b.count + 1 /\ new.resetAt = b.resetAt
    BY <1>1 DEF Rate!Bucket
  <1> HIDE DEF b, new
  <1>5. LimitOK'
    BY <1>3, <1>4 DEF LimitInv, LimitOK, Rate!TypeOK
  <1>6. NumbersOK' /\ SpansOK'
    BY <1>3 DEF LimitInv, NumbersOK, SpansOK, HadBefore
  <1>7. WindowsOK'
    <2>1. \A d \in DOMAIN buckets' :
            /\ buckets'[d].resetAt >= Window /\ buckets'[d].resetAt - Window <= instant
            /\ WindowOK(admitted, d, buckets'[d].resetAt - Window, LetIn(buckets'[d].count))
      BY <1>1, <1>2, <1>3, <1>4 DEF LimitInv, WindowsOK
    <2>2. \A d \in Clients \ DOMAIN buckets', t \in Nat :
            /\ t + Window > instant => Cardinality(Since(admitted, d, t)) <= HadBefore + Max
            /\ t >= instant => Cardinality(Since(admitted, d, t)) <= HadBefore
      BY <1>3 DEF LimitInv, WindowsOK
    <2>. QED
      BY <1>3, <2>1, <2>2 DEF WindowsOK, WindowOK, LetIn, HadBefore
  <1>. QED
    BY <1>5, <1>6, <1>7 DEF LimitInv

LEMMA TickStep == ASSUME LimitAssumption, LimitInv, Rate!Tick PROVE LimitInv'
  <1>0. /\ Window \in Nat /\ instant \in Nat /\ instant < LimitTime /\ LimitTime \in Nat
        /\ instant' = instant + 1 /\ UNCHANGED <<buckets, admitted, restarts>>
        /\ \A a \in admitted : a[2] \in Nat
    BY LimitConstants DEF LimitInv, LimitOK, Rate!TypeOK, Rate!Tick
  <1>1. LimitOK'
    BY <1>0 DEF LimitInv, LimitOK, Rate!TypeOK
  <1>2. NumbersOK' /\ SpansOK'
    BY <1>0 DEF LimitInv, NumbersOK, SpansOK, HadBefore
  <1>3. WindowsOK'
    <2>1. \A c \in DOMAIN buckets : buckets[c].resetAt \in Nat
      BY DEF LimitInv, LimitOK, Rate!TypeOK, Rate!Bucket
    <2>2. \A c \in DOMAIN buckets : buckets[c].resetAt - Window <= instant + 1
      BY <1>0, <2>1 DEF LimitInv, WindowsOK
    <2>3. \A c \in Clients \ DOMAIN buckets, t \in Nat :
            /\ t + Window > instant + 1 => Cardinality(Since(admitted, c, t)) <= HadBefore + Max
            /\ t >= instant + 1 => Cardinality(Since(admitted, c, t)) <= HadBefore
      BY <1>0 DEF LimitInv, WindowsOK
    <2>. QED
      BY <1>0, <2>2, <2>3 DEF LimitInv, WindowsOK, WindowOK, LetIn, HadBefore
  <1>. QED
    BY <1>1, <1>2, <1>3 DEF LimitInv

\* A restart forgets the windows: what they had let in counts as had earlier.
LEMMA RestartStep == ASSUME LimitAssumption, LimitInv, Rate!Restart PROVE LimitInv'
  <1>0. /\ Window \in Nat /\ Max \in Nat /\ instant \in Nat /\ MaxRestarts \in Nat /\ IsFiniteSet(admitted)
        /\ restarts \in Nat /\ HadBefore \in Nat
        /\ restarts' = restarts + 1 /\ restarts < MaxRestarts /\ DOMAIN buckets' = {} /\ UNCHANGED <<instant, admitted>>
    BY LimitConstants DEF LimitInv, LimitOK, Rate!TypeOK, Rate!Restart
  <1>1. HadBefore' = HadBefore + Max
    BY <1>0, LimitConstants DEF HadBefore
  <1>2. LimitOK'
    BY <1>0 DEF LimitInv, LimitOK, Rate!TypeOK
  <1>3. NumbersOK'
    BY <1>0 DEF LimitInv, NumbersOK
  <1>4. SpansOK'
    <2>1. \A c \in Clients, t \in 0 .. LimitTime : Cardinality(Within(admitted, c, t, t + Window)) \in Nat
      BY <1>0, PartsAreFinite
    <2>. QED
      BY <1>0, <1>1, <2>1 DEF LimitInv, SpansOK
  <1>5. WindowsOK'
    <2>1. ASSUME NEW c \in Clients, NEW t \in Nat
          PROVE  /\ t + Window > instant => Cardinality(Since(admitted, c, t)) <= HadBefore + Max + Max
                 /\ t >= instant => Cardinality(Since(admitted, c, t)) <= HadBefore + Max
      <3>0. Cardinality(Since(admitted, c, t)) \in Nat
        BY <1>0, PartsAreFinite
      <3>1. CASE c \in DOMAIN buckets
        <4> DEFINE begin == buckets[c].resetAt - Window
                   let == LetIn(buckets[c].count)
        <4>1. WindowOK(admitted, c, begin, let) /\ begin <= instant
          BY <3>1 DEF LimitInv, WindowsOK
        <4>2. begin \in Nat /\ let \in Nat
          BY <4>1 DEF WindowOK
        <4>3. buckets[c].count \in Nat
          BY <3>1 DEF LimitInv, LimitOK, Rate!TypeOK, Rate!Bucket
        <4>4. let <= Max
          BY <1>0, <4>3 DEF LetIn
        <4> HIDE DEF begin, let
        <4>5. /\ t + Window > begin => Cardinality(Since(admitted, c, t)) <= HadBefore + Max + let
              /\ t >= begin => Cardinality(Since(admitted, c, t)) <= HadBefore + let
          BY <4>1 DEF WindowOK
        <4>. QED
          BY <1>0, <3>0, <4>1, <4>2, <4>4, <4>5
      <3>2. CASE c \notin DOMAIN buckets
        BY <1>0, <3>0, <3>2 DEF LimitInv, WindowsOK
      <3>. QED
        BY <3>1, <3>2
    <2>. QED
      BY <1>0, <1>1, <2>1 DEF WindowsOK
  <1>. QED
    BY <1>2, <1>3, <1>4, <1>5 DEF LimitInv

LEMMA RateStep == ASSUME LimitAssumption, LimitInv, [Rate!Next]_Rate!vars PROVE LimitInv'
  <1>1. ASSUME NEW c \in Clients, Rate!Check(c) PROVE LimitInv'
    BY <1>1, LetInStep, RefuseStep
  <1>2. ASSUME Rate!Tick PROVE LimitInv'
    BY <1>2, TickStep
  <1>3. ASSUME Rate!Restart PROVE LimitInv'
    BY <1>3, RestartStep
  <1>4. ASSUME UNCHANGED Rate!vars PROVE LimitInv'
    BY <1>4 DEF Rate!vars, LimitInv, LimitOK, Rate!TypeOK, NumbersOK, WindowsOK, WindowOK, SpansOK, LetIn, HadBefore
  <1>. QED
    BY <1>1, <1>2, <1>3, <1>4 DEF Rate!Next

\* What the operations keep is the limit as it is promised.
LEMMA LimitKept == ASSUME LimitAssumption, LimitInv PROVE Rate!LimitHolds
  <1>0. /\ Window \in Nat /\ Max \in Nat /\ Max > 0 /\ HadBefore \in Nat /\ (2 + restarts) * Max = HadBefore + Max + Max
        /\ IsFiniteSet(admitted)
    BY LimitConstants DEF LimitInv, LimitOK, Rate!TypeOK
  <1>1. \A c, t, u : Rate!Between(c, t, u) = Within(admitted, c, t, u)
    BY DEF Rate!Between, Within
  <1>2. ASSUME NEW c \in DOMAIN buckets, buckets[c].count > Max
        PROVE  Cardinality(Within(admitted, c, buckets[c].resetAt - Window, buckets[c].resetAt)) >= Max
    <2>1. buckets[c].count \in Nat /\ buckets[c].resetAt \in Nat
      BY DEF LimitInv, LimitOK, Rate!TypeOK, Rate!Bucket
    <2>2. LetIn(buckets[c].count) = Max /\ buckets[c].resetAt - Window + Window = buckets[c].resetAt
      BY <1>0, <1>2, <2>1 DEF LetIn
    <2>3. Max <= Cardinality(Within(admitted, c, buckets[c].resetAt - Window, buckets[c].resetAt))
      BY <2>2 DEF LimitInv, WindowsOK, WindowOK
    <2>. QED
      BY <1>0, <2>3, PartsAreFinite
  <1>3. \A c \in Clients, t \in 0 .. LimitTime :
          Cardinality(Within(admitted, c, t, t + Window)) <= (2 + restarts) * Max
    BY <1>0 DEF LimitInv, SpansOK
  <1>. QED
    BY <1>1, <1>2, <1>3, SameCount DEF Rate!LimitHolds

-----------------------------------------------------------------------------
(* The behaviours of Identity. *)

\* What every behaviour keeps of the component it is about.
IdentityInv ==
  /\ machine = "keys" => KeyInv
  /\ machine = "limit" => LimitInv
  /\ machine = "tenants" => StagedInv

\* A step is one of the component that machine names, and leaves the others alone.
LEMMA StepOfOne ==
  ASSUME [IdentityNext]_<<machine, vars, keyVars, rateVars, tenantVars>>
  PROVE  /\ machine' = machine
         /\ [Next]_vars
         /\ machine = "keys" => [Keyring!Next]_Keyring!vars
         /\ machine = "limit" => [Rate!Next]_Rate!vars
         /\ machine = "tenants" => [Staged!Next]_Staged!vars
  <1>1. CASE SessionsStep
    BY <1>1 DEF SessionsStep
  <1>2. CASE KeysStep
    BY <1>2 DEF KeysStep
  <1>3. CASE LimitStep
    BY <1>3 DEF LimitStep
  <1>4. CASE TenantsStep
    BY <1>4 DEF TenantsStep
  <1>5. CASE UNCHANGED <<machine, vars, keyVars, rateVars, tenantVars>>
    BY <1>5 DEF keyVars, rateVars, tenantVars, Keyring!vars, Rate!vars, Staged!vars
  <1>. QED
    BY <1>1, <1>2, <1>3, <1>4, <1>5 DEF IdentityNext

LEMMA Assumptions == KeyAssumption /\ LimitAssumption /\ StagedAssumption
  BY IdentityAssumption DEF KeyAssumption, LimitAssumption, StagedAssumption

LEMMA IdentityAlways == IdentitySpec => []IdentityInv
  <1>1. IdentityInit => IdentityInv
    <2>1. SUFFICES ASSUME IdentityInit PROVE IdentityInv
      OBVIOUS
    <2>2. /\ machine = "keys" => Keyring!Init
          /\ machine = "limit" => Rate!Init
          /\ machine = "tenants" => Staged!Init
      BY <2>1 DEF IdentityInit
    <2>. QED
      BY <2>2, KeyInit, LimitInit, StagedInit, Assumptions DEF IdentityInv
  <1>2. IdentityInv /\ [IdentityNext]_<<machine, vars, keyVars, rateVars, tenantVars>> => IdentityInv'
    <2>1. SUFFICES ASSUME IdentityInv, [IdentityNext]_<<machine, vars, keyVars, rateVars, tenantVars>>
                   PROVE  IdentityInv'
      OBVIOUS
    <2>2. machine = "keys" => KeyInv'
      BY <2>1, StepOfOne, KeyStep, Assumptions DEF IdentityInv
    <2>3. machine = "limit" => LimitInv'
      BY <2>1, StepOfOne, RateStep, Assumptions DEF IdentityInv
    <2>4. machine = "tenants" => StagedInv'
      BY <2>1, StepOfOne, StagedStep, Assumptions DEF IdentityInv
    <2>. QED
      BY <2>1, <2>2, <2>3, <2>4, StepOfOne DEF IdentityInv
  <1>. QED
    BY <1>1, <1>2, PTL DEF IdentitySpec

\* A behaviour of Identity is one of the sign-in sessions, where they may also rest.
LEMMA SessionsRun == IdentitySpec => Spec
  <1>1. IdentityInit => Init
    BY DEF IdentityInit
  <1>2. [IdentityNext]_<<machine, vars, keyVars, rateVars, tenantVars>> => [Next]_vars
    BY StepOfOne
  <1>. QED
    BY <1>1, <1>2, PTL DEF IdentitySpec, Spec

\* The sessions, the copy of the keys, the windows and the operators' commands
\* are always what their modules say of their values.
THEOREM IdentityTypes == IdentitySpec => []TypesOK
  <1>1. KeyInv => Keyring!TypeOK
    BY DEF KeyInv
  <1>2. LimitInv => Rate!TypeOK
    BY DEF LimitInv, LimitOK
  <1>3. StagedInv => Staged!TypeOK
    BY DEF StagedInv, StagedOK, CommandsOK, Provisions, Binds, Staged!TypeOK
  <1>4. TypeOK /\ IdentityInv => TypesOK
    BY <1>1, <1>2, <1>3 DEF IdentityInv, TypesOK
  <1>. QED
    BY <1>4, IdentityAlways, SessionsRun, TypeCorrect, PTL

\* For any keys, tokens and lifetimes, and however many requests fetch the keys at
\* once and get them in whatever order: an API process accepts no key that the
\* issuer withdrew a TTL before, and refuses none that it published a TTL before.
THEOREM CopyIsCurrent == IdentitySpec => []CopyFollowsIssuer
  <1>1. IdentityInv => CopyFollowsIssuer
    BY DEF IdentityInv, KeyInv, CopyFollowsIssuer
  <1>. QED
    BY <1>1, IdentityAlways, PTL

\* For any window and limit, and however the process restarts: a key has at most
\* twice the limit in any span of a window, and once more for each restart; and it
\* is refused only in a window in which it had the whole limit.
THEOREM LimitIsKept == IdentitySpec => []LimitHolds
  <1>1. IdentityInv => LimitHolds
    BY LimitKept, Assumptions DEF IdentityInv, LimitHolds
  <1>. QED
    BY <1>1, IdentityAlways, PTL

\* For any tenants, users and commands that meet, with faults wherever the database
\* may fail them: a subject stands for one user, and every identity came with its
\* tenant or with the evidence of its binding.
THEOREM IdentitiesAreOneToOne == IdentitySpec => []OneToOne
  <1>1. StagedInv => Staged!OneToOne
    <2>1. SUFFICES ASSUME StagedInv PROVE Staged!OneToOne
      OBVIOUS
    <2>2. ASSUME NEW i \in identities
          PROVE  /\ Staged!Resolved(i.subject) = {i}
                 /\ i \in evidenced \cup Staged!IdentitiesOf(provisioned[i.tenant])
      <3>1. HasUser(i) /\ (i \in evidenced \/ Brought(i))
        BY <2>1, <2>2 DEF StagedInv, RowsOK
      <3>2. \A j \in identities : j.subject = i.subject => j = i
        BY <2>1, <2>2 DEF StagedInv, RowsOK, Staged!Clash
      <3>. QED
        BY <2>2, <3>1, <3>2 DEF HasUser, Brought, Staged!Resolved
    <2>. QED
      BY <2>1, <2>2 DEF StagedInv, RowsOK, Staged!OneToOne
  <1>2. IdentityInv => OneToOne
    BY <1>1 DEF IdentityInv, OneToOne
  <1>. QED
    BY <1>2, IdentityAlways, PTL

\* The advisory locks of commands that meet leave only the one conflict they do not
\* cover: a new tenant that brings the subject the other command binds.
THEOREM MeetingsAreAnswered == IdentitySpec => []MeetingIsAnswered
  <1>1. StagedInv => Staged!MeetingIsAnswered
    BY DEF StagedInv, AnsweredOK, In, Binds, FromElsewhere, Brought, Staged!MeetingIsAnswered
  <1>2. IdentityInv => MeetingIsAnswered
    BY <1>1 DEF IdentityInv, MeetingIsAnswered
  <1>. QED
    BY <1>2, IdentityAlways, PTL

=============================================================================
