----------------------------- MODULE WebSession -----------------------------
(***************************************************************************)
(* Sign-in sessions of apps/web: the login broker of auth-session.js over  *)
(* the PostgreSQL store of session-store.js.  Any number of web processes  *)
(* share the store and hold no lock: a request reads a session, may call   *)
(* the identity provider, and writes the whole session back.               *)
(*                                                                         *)
(* The provider is external: it takes an authorization code once, and may  *)
(* rotate refresh tokens, that is, take only the newest of a session.      *)
(***************************************************************************)
EXTENDS Integers, FiniteSets

CONSTANTS
  Logins,          \* login transactions, each with its cookie, state and code
  TransactionTtl, IdleTtl, AbsoluteTtl,  \* the lifetimes of config.session
  None,            \* no row
  MaxCallbacks,    \* bound: callbacks of one login
  MaxRequests,     \* bound: requests with session cookies
  MaxFaults,       \* bound: calls without a reply, and processes that end
  MaxTime          \* bound: the clock

ASSUME WebAssumption ==
  /\ {TransactionTtl, IdleTtl, AbsoluteTtl} \subseteq Nat \ {0}
  /\ IdleTtl <= AbsoluteTtl
  /\ {MaxCallbacks, MaxRequests, MaxFaults, MaxTime} \subseteq Nat

\* The session that the n-th callback of a login makes, if it succeeds.
Sessions == Logins \X (1 .. MaxCallbacks)

VARIABLES
  rotates,     \* external: whether the provider rotates refresh tokens
  transaction, \* login_transaction rows: when they expire, or None
  store,       \* user_session rows
  code,        \* external: the state of the authorization codes
  issued,      \* external: the newest refresh token of a session, 0 for a
               \* session whose cookie no browser has
  callbacks,   \* callbacks started, per login
  requests,    \* what is in flight
  started,     \* requests with session cookies so far
  now,
  faults,
  overlapped,  \* history: sessions with two requests in flight at once
  cut,         \* history: sessions with a request that ended in a fault
  loggedOut    \* history: sessions that a logout was answered for

vars == <<rotates, transaction, store, code, issued, callbacks, requests, started, now,
          faults, overlapped, cut, loggedOut>>

-----------------------------------------------------------------------------
Row == [refresh : Nat, created : Nat, idle : Nat, absolute : Nat]

Phase == {"spend", "exchange", "create", "extend", "refresh", "save"}

Request == [id : Nat, session : Sessions, phase : Phase, copy : Row \cup {None}]

Earlier(a, b) == IF a < b THEN a ELSE b

\* What get() returns: an expired row is as good as none.
Live(row) == row # None /\ now < row.idle /\ now < row.absolute

Move(r, phase) == requests' = (requests \ {r}) \cup {[r EXCEPT !.phase = phase]}

Ends(r) == requests' = requests \ {r}

\* set(): the row is inserted or overwritten, whatever has become of it.
Set(s, row) == store' = [store EXCEPT ![s] = row]

Extended_UncappedBug(row) == [row EXCEPT !.idle = now + IdleTtl]

\* The idle lifetime starts again, within the absolute one.
Extended(row) == [row EXCEPT !.idle = Earlier(now + IdleTtl, row.absolute)]

Fault(s) ==
  /\ faults < MaxFaults
  /\ faults' = faults + 1
  /\ cut' = cut \cup {s}

-----------------------------------------------------------------------------
Init ==
  /\ rotates \in BOOLEAN
  /\ transaction = [l \in Logins |-> None]
  /\ store = [s \in Sessions |-> None]
  /\ code = [l \in Logins |-> "none"]
  /\ issued = [s \in Sessions |-> 0]
  /\ callbacks = [l \in Logins |-> 0]
  /\ requests = {} /\ started = 0
  /\ now = 0 /\ faults = 0
  /\ overlapped = {} /\ cut = {} /\ loggedOut = {}

\* cleanup(): every expired row is deleted.
Kept(expires) == IF expires # None /\ now < expires THEN expires ELSE None

PruneSessions == store' = [s \in Sessions |-> IF Live(store[s]) THEN store[s] ELSE None]

\* GET /auth/login: cleanup, then a new transaction.
BeginLogin(l) ==
  /\ code[l] = "none"
  /\ transaction' = [k \in Logins |-> IF k = l THEN now + TransactionTtl ELSE Kept(transaction[k])]
  /\ PruneSessions
  /\ code' = [code EXCEPT ![l] = "issued"]
  /\ UNCHANGED <<rotates, issued, callbacks, requests, started, now, faults, overlapped, cut,
                 loggedOut>>

\* The statement that the runbook has scheduled, and other users' logins.
Cleanup ==
  /\ transaction' = [l \in Logins |-> Kept(transaction[l])]
  /\ PruneSessions
  /\ UNCHANGED <<rotates, code, issued, callbacks, requests, started, now, faults, overlapped, cut,
                 loggedOut>>

\* GET /auth/callback: the transaction is read and its state compared.
StartCallback(l) ==
  /\ callbacks[l] < MaxCallbacks
  /\ transaction[l] # None
  /\ callbacks' = [callbacks EXCEPT ![l] = @ + 1]
  /\ IF now < transaction[l]
       THEN /\ requests' = requests \cup
                 {[id |-> 0, session |-> <<l, callbacks[l] + 1>>, phase |-> "spend", copy |-> None]}
            /\ UNCHANGED transaction
       ELSE /\ transaction' = [transaction EXCEPT ![l] = None]
            /\ UNCHANGED requests
  /\ UNCHANGED <<rotates, store, code, issued, started, now, faults, overlapped, cut, loggedOut>>

SpendTransaction_KeptBug(r) ==
  /\ r.phase = "spend"
  /\ Move(r, "exchange")
  /\ UNCHANGED <<rotates, transaction, store, code, issued, callbacks, started, now, faults,
                 overlapped, cut, loggedOut>>

\* The transaction is deleted before its code is exchanged.
SpendTransaction(r) ==
  /\ r.phase = "spend"
  /\ transaction' = [transaction EXCEPT ![r.session[1]] = None]
  /\ Move(r, "exchange")
  /\ UNCHANGED <<rotates, store, code, issued, callbacks, started, now, faults, overlapped, cut,
                 loggedOut>>

\* The provider takes the code, or has taken it before and refuses.
ExchangeCode(r) ==
  LET l == r.session[1] IN
  /\ r.phase = "exchange"
  /\ IF code[l] = "issued"
       THEN code' = [code EXCEPT ![l] = "used"] /\ Move(r, "create")
       ELSE Ends(r) /\ UNCHANGED code
  /\ UNCHANGED <<rotates, transaction, store, issued, callbacks, started, now, faults, overlapped,
                 cut, loggedOut>>

NewRow == [refresh |-> 1, created |-> now, idle |-> now + IdleTtl, absolute |-> now + AbsoluteTtl]

\* The session is stored and its cookie set.
CreateSession(r) ==
  /\ r.phase = "create"
  /\ Set(r.session, NewRow)
  /\ issued' = [issued EXCEPT ![r.session] = 1]
  /\ Ends(r)
  /\ UNCHANGED <<rotates, transaction, code, callbacks, started, now, faults, overlapped, cut,
                 loggedOut>>

Busy(s) == \E r \in requests : r.session = s

\* A request with the cookie of s arrives.
Arrives(s) ==
  /\ issued[s] > 0
  /\ started < MaxRequests
  /\ started' = started + 1

\* GET /auth/session and POST /auth/session/renew read the session; an expired
\* one is deleted, and the answer is 401 without a session.
ReadSession(s, phase) ==
  /\ Arrives(s)
  /\ IF Live(store[s])
       THEN /\ requests' = requests \cup
                 {[id |-> started', session |-> s, phase |-> phase, copy |-> store[s]]}
            /\ UNCHANGED store
       ELSE Set(s, None) /\ UNCHANGED requests
  /\ overlapped' = IF Busy(s) THEN overlapped \cup {s} ELSE overlapped
  /\ UNCHANGED <<rotates, transaction, code, issued, callbacks, now, faults, cut, loggedOut>>

\* session(): the copy is written back with a later idle expiry.
ExtendSession(r) ==
  /\ r.phase = "extend"
  /\ Set(r.session, Extended(r.copy))
  /\ Ends(r)
  /\ UNCHANGED <<rotates, transaction, code, issued, callbacks, started, now, faults, overlapped,
                 cut, loggedOut>>

\* The refresh token that the provider has for a session once it was used.
Renewed(s) == IF rotates THEN issued[s] + 1 ELSE issued[s]

Accepts(r) == ~rotates \/ r.copy.refresh = issued[r.session]

\* renew(): the refresh token is exchanged.  A provider that rotates refuses one
\* that was used before, and the answer is 502.
Refresh(r) ==
  /\ r.phase = "refresh"
  /\ IF Accepts(r)
       THEN /\ issued' = [issued EXCEPT ![r.session] = Renewed(r.session)]
            /\ requests' = (requests \ {r}) \cup
                 {[r EXCEPT !.phase = "save", !.copy = [@ EXCEPT !.refresh = Renewed(r.session)]]}
       ELSE Ends(r) /\ UNCHANGED issued
  /\ UNCHANGED <<rotates, transaction, store, code, callbacks, started, now, faults, overlapped,
                 cut, loggedOut>>

SaveRenewal_OldTokenBug(r) ==
  /\ r.phase = "save"
  /\ Set(r.session, [Extended(r.copy) EXCEPT !.refresh = store[r.session].refresh])
  /\ Ends(r)
  /\ UNCHANGED <<rotates, transaction, code, issued, callbacks, started, now, faults, overlapped,
                 cut, loggedOut>>

SaveRenewal_NewLifeBug(r) ==
  /\ r.phase = "save"
  /\ Set(r.session, [r.copy EXCEPT !.idle = now + IdleTtl, !.absolute = now + AbsoluteTtl])
  /\ Ends(r)
  /\ UNCHANGED <<rotates, transaction, code, issued, callbacks, started, now, faults, overlapped,
                 cut, loggedOut>>

SaveRenewal(r) ==
  /\ r.phase = "save"
  /\ Set(r.session, Extended(r.copy))
  /\ Ends(r)
  /\ UNCHANGED <<rotates, transaction, code, issued, callbacks, started, now, faults, overlapped,
                 cut, loggedOut>>

Logout_CookieOnlyBug(s) ==
  /\ Arrives(s)
  /\ loggedOut' = loggedOut \cup {s}
  /\ overlapped' = IF Busy(s) THEN overlapped \cup {s} ELSE overlapped \ {s}
  /\ UNCHANGED <<rotates, transaction, store, code, issued, callbacks, requests, now, faults, cut>>

\* POST /auth/logout.  With nothing else in flight the session has no past any
\* more that could come back.
Logout(s) ==
  /\ Arrives(s)
  /\ Set(s, None)
  /\ loggedOut' = loggedOut \cup {s}
  /\ overlapped' = IF Busy(s) THEN overlapped \cup {s} ELSE overlapped \ {s}
  /\ UNCHANGED <<rotates, transaction, code, issued, callbacks, requests, now, faults, cut>>

\* A call to the store or to the provider has no reply, whether or not it took
\* effect, or the process ends: the request is over.
RequestFault(r) ==
  LET s == r.session IN
  /\ Fault(s)
  /\ Ends(r)
  /\ \/ UNCHANGED <<transaction, store, code, issued>>
     \/ /\ r.phase = "spend"
        /\ transaction' = [transaction EXCEPT ![s[1]] = None]
        /\ UNCHANGED <<store, code, issued>>
     \/ /\ r.phase = "exchange" /\ code[s[1]] = "issued"
        /\ code' = [code EXCEPT ![s[1]] = "used"]
        /\ UNCHANGED <<transaction, store, issued>>
     \/ /\ r.phase = "refresh" /\ Accepts(r)
        /\ issued' = [issued EXCEPT ![s] = Renewed(s)]
        /\ UNCHANGED <<transaction, store, code>>
     \/ /\ \/ r.phase = "create" /\ Set(s, NewRow)
           \/ r.phase \in {"extend", "save"} /\ Set(s, Extended(r.copy))
        /\ UNCHANGED <<transaction, code, issued>>
  /\ UNCHANGED <<rotates, callbacks, started, now, overlapped, loggedOut>>

Tick ==
  /\ now < MaxTime
  /\ now' = now + 1
  /\ UNCHANGED <<rotates, transaction, store, code, issued, callbacks, requests, started, faults,
                 overlapped, cut, loggedOut>>

Next ==
  \/ \E l \in Logins : BeginLogin(l) \/ StartCallback(l)
  \/ \E s \in Sessions :
       \/ \E phase \in {"extend", "refresh"} : ReadSession(s, phase)
       \/ Logout(s)
  \/ \E r \in requests :
       \/ SpendTransaction(r)
       \/ ExchangeCode(r)
       \/ CreateSession(r)
       \/ ExtendSession(r)
       \/ Refresh(r)
       \/ SaveRenewal(r)
       \/ RequestFault(r)
  \/ Cleanup
  \/ Tick

Spec == Init /\ [][Next]_vars

-----------------------------------------------------------------------------
\* Every variable has its type; the idle lifetime ends within the absolute one,
\* and a login makes at most one session.
TypeOK ==
  /\ rotates \in BOOLEAN
  /\ transaction \in [Logins -> Nat \cup {None}]
  /\ store \in [Sessions -> Row \cup {None}]
  /\ code \in [Logins -> {"none", "issued", "used"}]
  /\ issued \in [Sessions -> Nat]
  /\ callbacks \in [Logins -> 0 .. MaxCallbacks]
  /\ requests \subseteq Request
  /\ {started, now, faults} \subseteq Nat
  /\ {overlapped, cut, loggedOut} \subseteq SUBSET Sessions
  /\ \A s \in Sessions : store[s] # None => store[s].idle <= store[s].absolute
  /\ \A s, t \in Sessions : store[s] # None /\ store[t] # None /\ s[1] = t[1] => s = t

\* A callback cannot be answered twice: once a session was made of a login, its
\* transaction is gone for every web process.
TransactionIsSpent == \A s \in Sessions : store[s] # None => transaction[s[1]] = None

\* However often and in whatever order a session is read, renewed and written
\* back, it ends with the lifetime that it was given at its login.
LifetimeIsBinding ==
  \A s \in Sessions :
    store[s] # None => store[s].absolute = store[s].created + AbsoluteTtl

\* A session comes back after its logout only by a request that was in flight
\* at the logout, or overlapped one that was, and writes its copy.
LogoutUndoneByOverlap ==
  \A s \in loggedOut : store[s] # None => s \in overlapped

\* The store has the refresh token that the provider takes next, as long as the
\* requests of the session do not overlap and none is cut off.
RenewableUnlessDisturbed ==
  \A s \in Sessions \ (overlapped \cup cut) :
    store[s] # None /\ ~Busy(s) => store[s].refresh = issued[s]

=============================================================================
