------------------------------ MODULE KeyCache ------------------------------
(***************************************************************************)
(* The check of a bearer token (apps/api/src/auth/principal.js, jwt.js)    *)
(* against the issuer's signing keys, of which each API process keeps a    *)
(* copy for cacheTtlMs (jwks.js).  The requests that find the copy too old *)
(* fetch the keys each for itself; the answers come in any order, and each *)
(* replaces the copy and dates it with the start of its request.           *)
(***************************************************************************)
EXTENDS Integers

CONSTANTS
  Keys,        \* by their kid
  First,       \* the key the issuer has at first
  Tokens,      \* the bearer tokens: the key of each and its exp
  Asks,        \* the requests of a behaviour: its bound
  Ttl,         \* cacheTtlMs
  Tolerance,   \* clockToleranceSec
  Never,
  MaxTime      \* bound: the clock

KeyAssumption ==
  /\ First \in Keys
  /\ {Ttl, Tolerance, MaxTime} \subseteq Nat /\ Ttl > 0   \* ten minutes
  /\ Never \in Nat /\ Never > MaxTime + Ttl
  /\ Tokens \subseteq [key : Keys, exp : Nat]

VARIABLES
  clock,
  since,       \* external: when the issuer published a key
  until,       \* external: when it withdrew it
  copy,        \* the cache: the keys and fetchedAt
  ask

vars == <<clock, since, until, copy, ask>>

-----------------------------------------------------------------------------
Published == {k \in Keys : since[k] # Never /\ until[k] = Never}

Copy == [keys : SUBSET Keys, fetchedAt : 0 .. MaxTime]

Phase == {"none", "fetching", "fetched", "accepted", "unknown_key", "token_expired", "unavailable"}

Idle == [phase |-> "none", token |-> [key |-> First, exp |-> 0], at |-> 0, keys |-> {}]

\* verifyJwt: the key of the token is sought first; the clock is that of the
\* request's start.
Verdict(token, keys, at) ==
  IF token.key \notin keys THEN "unknown_key"
  ELSE IF at >= token.exp + Tolerance THEN "token_expired" ELSE "accepted"

Init ==
  /\ clock = 0
  /\ since = [k \in Keys |-> IF k = First THEN 0 ELSE Never]
  /\ until = [k \in Keys |-> Never]
  /\ copy = [keys |-> {}, fetchedAt |-> 0]
  /\ ask = [q \in Asks |-> Idle]

\* getKeys
Start(q, token) ==
  LET fresh == copy.keys # {} /\ clock - copy.fetchedAt < Ttl
  IN /\ ask[q].phase = "none"
     /\ ask' = [ask EXCEPT ![q] =
                  [phase |-> IF fresh THEN Verdict(token, copy.keys, clock) ELSE "fetching",
                   token |-> token, at |-> clock, keys |-> {}]]
     /\ UNCHANGED <<clock, since, until, copy>>

\* External: the issuer answers with its keys.
Serve(q) ==
  /\ ask[q].phase = "fetching"
  /\ ask' = [ask EXCEPT ![q].phase = "fetched", ![q].keys = Published]
  /\ UNCHANGED <<clock, since, until, copy>>

RefreshBug(q) ==
  /\ ask[q].phase = "fetched"
  /\ ask[q].keys # {}
  /\ copy' = [keys |-> ask[q].keys, fetchedAt |-> clock]
  /\ ask' = [ask EXCEPT ![q].phase = Verdict(ask[q].token, ask[q].keys, ask[q].at),
                       ![q].keys = {}]
  /\ UNCHANGED <<clock, since, until>>

Refresh(q) ==
  /\ ask[q].phase = "fetched"
  /\ ask[q].keys # {}
  /\ copy' = [keys |-> ask[q].keys, fetchedAt |-> ask[q].at]
  /\ ask' = [ask EXCEPT ![q].phase = Verdict(ask[q].token, ask[q].keys, ask[q].at),
                       ![q].keys = {}]
  /\ UNCHANGED <<clock, since, until>>

\* jwks_unavailable, jwks_invalid or jwks_empty: 401.  The old copy is neither
\* used nor dropped.
FetchFails(q) ==
  /\ \/ ask[q].phase = "fetching"
     \/ ask[q].phase = "fetched" /\ ask[q].keys = {}
  /\ ask' = [ask EXCEPT ![q].phase = "unavailable"]
  /\ UNCHANGED <<clock, since, until, copy>>

\* External: the issuer rotates its keys.
Rotate(k) ==
  /\ \/ since[k] = Never
        /\ since' = [since EXCEPT ![k] = clock] /\ UNCHANGED until
     \/ k \in Published
        /\ until' = [until EXCEPT ![k] = clock] /\ UNCHANGED since
  /\ UNCHANGED <<clock, copy, ask>>

Tick ==
  /\ clock < MaxTime
  /\ clock' = clock + 1
  /\ UNCHANGED <<since, until, copy, ask>>

Next ==
  \/ \E q \in Asks : \/ \E token \in Tokens : Start(q, token)
                     \/ Serve(q) \/ Refresh(q) \/ FetchFails(q)
  \/ \E k \in Keys : Rotate(k)
  \/ Tick

Spec == Init /\ [][Next]_vars

-----------------------------------------------------------------------------
\* Every variable has its type.
TypeOK ==
  /\ clock \in 0 .. MaxTime
  /\ {since, until} \subseteq [Keys -> (0 .. MaxTime) \cup {Never}]
  /\ copy \in Copy
  /\ ask \in [Asks -> [phase : Phase, token : Tokens \cup {Idle.token}, at : 0 .. MaxTime, keys : SUBSET Keys]]

(***************************************************************************)
(* The copy lags behind the issuer by less than cacheTtlMs, however late   *)
(* and in whatever order the answers come: a token is accepted only on a   *)
(* key that was the issuer's less than a TTL before, and refused for its   *)
(* key only when the issuer had not published it a TTL ago (createRemote-  *)
(* Jwks dates the copy before the fetch, not after).                       *)
(***************************************************************************)
CopyFollowsIssuer ==
  \A q \in Asks :
    LET k == ask[q].token.key
    IN /\ ask[q].phase \in {"accepted", "token_expired"} =>
            since[k] # Never /\ ask[q].at < until[k] + Ttl
       /\ ask[q].phase = "unknown_key" =>
            ask[q].at < since[k] + Ttl \/ until[k] # Never
=============================================================================
