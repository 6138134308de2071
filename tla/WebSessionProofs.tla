-------------------------- MODULE WebSessionProofs --------------------------
(***************************************************************************)
(* Theorems about sign-in sessions for any logins, lifetimes, requests and *)
(* faults, and for providers of either kind.                               *)
(***************************************************************************)
EXTENDS WebSession, TLAPS

USE WebAssumption

-----------------------------------------------------------------------------
(* Types and lifetimes. *)

\* A row whose idle lifetime ends within the absolute one, and whose absolute
\* lifetime is the one that it was created with.
RowOK(row) ==
  /\ row \in Row
  /\ row.idle <= row.absolute
  /\ row.absolute = row.created + AbsoluteTtl

\* A request that will write has a copy to write.
RequestOK(r) ==
  /\ r \in Request
  /\ r.phase \in {"extend", "refresh", "save"} => RowOK(r.copy)

StoreOK == store \in [Sessions -> Row \cup {None}] /\ \A s \in Sessions : store[s] # None => RowOK(store[s])

RequestsOK == \A r \in requests : RequestOK(r)

\* The history variables and the counters, which no guard but a bound reads.
RestOK ==
  /\ rotates \in BOOLEAN
  /\ started \in Nat /\ now \in Nat /\ faults \in Nat
  /\ overlapped \subseteq Sessions /\ cut \subseteq Sessions /\ loggedOut \subseteq Sessions

LoginsOK ==
  /\ transaction \in [Logins -> Nat \cup {None}]
  /\ code \in [Logins -> {"none", "issued", "used"}]
  /\ issued \in [Sessions -> Nat]
  /\ callbacks \in [Logins -> 0 .. MaxCallbacks]

Typed == StoreOK /\ RequestsOK /\ RestOK /\ LoginsOK

LEMMA NewRowOK == ASSUME now \in Nat PROVE RowOK(NewRow)
  BY DEF RowOK, Row, NewRow

LEMMA ExtendedOK == ASSUME now \in Nat, NEW row, RowOK(row) PROVE RowOK(Extended(row))
  <1> DEFINE idle == Earlier(now + IdleTtl, row.absolute)
  <1>1. idle \in Nat /\ idle <= row.absolute
    BY DEF Earlier, RowOK, Row
  <1>2. Extended(row) = [row EXCEPT !.idle = idle]
    BY DEF Extended
  <1> HIDE DEF idle
  <1>. QED
    BY <1>1, <1>2 DEF RowOK, Row

LEMMA SetOK ==
  ASSUME StoreOK, NEW s \in Sessions, NEW row, row = None \/ RowOK(row), Set(s, row)
  PROVE  StoreOK'
  BY DEF StoreOK, Set, RowOK

LEMMA PruneOK == ASSUME StoreOK, PruneSessions PROVE StoreOK'
  BY DEF StoreOK, PruneSessions, Live

LEMMA EndsOK == ASSUME RequestsOK, NEW r, Ends(r) PROVE RequestsOK'
  BY DEF RequestsOK, Ends

LEMMA MoveOK ==
  ASSUME RequestsOK, NEW r \in requests, NEW phase \in {"exchange", "create"}, Move(r, phase)
  PROVE  RequestsOK'
  <1>1. RequestOK([r EXCEPT !.phase = phase])
    BY DEF RequestsOK, RequestOK, Request, Phase
  <1>. QED
    BY <1>1 DEF RequestsOK, Move

\* The step of a request that renews its copy.
LEMMA RenewedOK ==
  ASSUME NEW r, RequestOK(r), r.phase = "refresh", NEW token \in Nat
  PROVE  RequestOK([r EXCEPT !.phase = "save", !.copy = [@ EXCEPT !.refresh = token]])
  <1> DEFINE copy == [r.copy EXCEPT !.refresh = token]
  <1>1. RowOK(copy)
    BY DEF RequestOK, RowOK, Row
  <1>2. [r EXCEPT !.phase = "save", !.copy = [@ EXCEPT !.refresh = token]] = [r EXCEPT !.phase = "save", !.copy = copy]
    BY DEF copy
  <1> HIDE DEF copy
  <1>. QED
    BY <1>1, <1>2 DEF RequestOK, Request, Phase, RowOK

LEMMA RenewedType == ASSUME LoginsOK, NEW s \in Sessions PROVE Renewed(s) \in Nat
  BY DEF LoginsOK, Renewed

LEMMA TypedInit == Init => Typed
  BY DEF Init, Typed, StoreOK, RequestsOK, RestOK, LoginsOK

LEMMA TypedStep == Typed /\ [Next]_vars => Typed'
  <1> SUFFICES ASSUME Typed, [Next]_vars PROVE Typed'
    OBVIOUS
  <1> USE DEF Typed
  <1>1. ASSUME NEW l \in Logins, BeginLogin(l) PROVE Typed'
    <2>1. now + TransactionTtl \in Nat /\ \A k \in Logins : Kept(transaction[k]) \in Nat \cup {None}
      BY DEF Kept, RestOK, LoginsOK
    <2>2. LoginsOK'
      BY <1>1, <2>1 DEF BeginLogin, LoginsOK
    <2>. QED
      BY <1>1, <2>2, PruneOK DEF BeginLogin, RequestsOK, RestOK
  <1>2. ASSUME NEW l \in Logins, StartCallback(l) PROVE Typed'
    <2>1. callbacks[l] + 1 \in 1 .. MaxCallbacks
      BY <1>2 DEF StartCallback, LoginsOK
    <2>2. LoginsOK'
      BY <1>2, <2>1 DEF StartCallback, LoginsOK
    <2>3. RequestOK([id |-> 0, session |-> <<l, callbacks[l] + 1>>, phase |-> "spend", copy |-> None])
      BY <2>1 DEF RequestOK, Request, Phase, Sessions
    <2>4. RequestsOK'
      BY <1>2, <2>3 DEF StartCallback, RequestsOK
    <2>. QED
      BY <1>2, <2>2, <2>4 DEF StartCallback, StoreOK, RestOK
  <1>3. ASSUME NEW s \in Sessions, NEW phase \in {"extend", "refresh"}, ReadSession(s, phase) PROVE Typed'
    <2>1. RestOK' /\ LoginsOK'
      BY <1>3 DEF ReadSession, Arrives, RestOK, LoginsOK
    <2>2. CASE Live(store[s])
      <3> DEFINE new == [id |-> started', session |-> s, phase |-> phase, copy |-> store[s]]
      <3>1. RowOK(store[s])
        BY <2>2 DEF Live, StoreOK
      <3>2. started' \in Nat
        BY <2>1 DEF RestOK
      <3>3. RequestOK(new)
        BY <3>1, <3>2 DEF RequestOK, Request, Phase, RowOK
      <3>4. requests' = requests \cup {new} /\ UNCHANGED store
        BY <1>3, <2>2 DEF ReadSession
      <3> HIDE DEF new
      <3>. QED
        BY <2>1, <3>3, <3>4 DEF RequestsOK, StoreOK
    <2>3. CASE ~Live(store[s])
      <3>1. Set(s, None) /\ UNCHANGED requests
        BY <1>3, <2>3 DEF ReadSession
      <3>. QED
        BY <2>1, <3>1, SetOK DEF RequestsOK
    <2>. QED
      BY <2>2, <2>3
  <1>4. ASSUME NEW s \in Sessions, Logout(s) PROVE Typed'
    <2>1. StoreOK'
      BY <1>4, SetOK DEF Logout
    <2>. QED
      BY <1>4, <2>1 DEF Logout, Arrives, RequestsOK, RestOK, LoginsOK
  <1>5. ASSUME NEW r \in requests PROVE RequestOK(r) /\ r.session \in Sessions /\ r.session[1] \in Logins
    BY <1>5 DEF RequestsOK, RequestOK, Request, Sessions
  <1>6. ASSUME NEW r \in requests, SpendTransaction(r) PROVE Typed'
    <2>1. RequestsOK'
      BY <1>6, MoveOK DEF SpendTransaction
    <2>. QED
      BY <1>5, <1>6, <2>1 DEF SpendTransaction, StoreOK, RestOK, LoginsOK
  <1>7. ASSUME NEW r \in requests, ExchangeCode(r) PROVE Typed'
    <2>1. RequestsOK'
      BY <1>7, MoveOK, EndsOK DEF ExchangeCode
    <2>. QED
      BY <1>5, <1>7, <2>1 DEF ExchangeCode, StoreOK, RestOK, LoginsOK
  <1>8. ASSUME NEW r \in requests, CreateSession(r) PROVE Typed'
    <2>1. StoreOK'
      BY <1>5, <1>8, SetOK, NewRowOK DEF CreateSession, RestOK
    <2>2. RequestsOK'
      BY <1>8, EndsOK DEF CreateSession
    <2>. QED
      BY <1>5, <1>8, <2>1, <2>2 DEF CreateSession, RestOK, LoginsOK
  <1>9. ASSUME NEW r \in requests, ExtendSession(r) \/ SaveRenewal(r) PROVE Typed'
    <2>1. RowOK(Extended(r.copy))
      BY <1>5, <1>9, ExtendedOK DEF ExtendSession, SaveRenewal, RequestOK, RestOK
    <2>2. StoreOK'
      BY <1>5, <1>9, <2>1, SetOK DEF ExtendSession, SaveRenewal
    <2>3. RequestsOK'
      BY <1>9, EndsOK DEF ExtendSession, SaveRenewal
    <2>. QED
      BY <1>9, <2>2, <2>3 DEF ExtendSession, SaveRenewal, RestOK, LoginsOK
  <1>10. ASSUME NEW r \in requests, Refresh(r) PROVE Typed'
    <2>1. Renewed(r.session) \in Nat
      BY <1>5, RenewedType
    <2>2. StoreOK' /\ RestOK'
      BY <1>10 DEF Refresh, StoreOK, RestOK
    <2>3. LoginsOK'
      BY <1>10, <2>1 DEF Refresh, LoginsOK
    <2>4. RequestsOK'
      <3>1. CASE Accepts(r)
        <4> DEFINE new == [r EXCEPT !.phase = "save", !.copy = [@ EXCEPT !.refresh = Renewed(r.session)]]
        <4>1. RequestOK(new)
          BY <1>5, <1>10, <2>1, RenewedOK DEF Refresh
        <4>2. requests' = (requests \ {r}) \cup {new}
          BY <1>10, <3>1 DEF Refresh
        <4> HIDE DEF new
        <4>. QED
          BY <4>1, <4>2 DEF RequestsOK
      <3>2. CASE ~Accepts(r)
        BY <1>10, <3>2, EndsOK DEF Refresh
      <3>. QED
        BY <3>1, <3>2
    <2>. QED
      BY <2>2, <2>3, <2>4
  <1>11. ASSUME NEW r \in requests, RequestFault(r) PROVE Typed'
    <2>1. RequestsOK'
      BY <1>11, EndsOK DEF RequestFault
    <2>2. RestOK'
      BY <1>5, <1>11 DEF RequestFault, Fault, RestOK
    <2>3. LoginsOK'
      BY <1>5, <1>11, RenewedType DEF RequestFault, LoginsOK
    <2>4. StoreOK'
      <3>1. CASE UNCHANGED store
        BY <3>1 DEF StoreOK
      <3>2. CASE r.phase = "create" /\ Set(r.session, NewRow)
        BY <1>5, <3>2, SetOK, NewRowOK DEF RestOK
      <3>3. CASE r.phase \in {"extend", "save"} /\ Set(r.session, Extended(r.copy))
        <4>1. RowOK(Extended(r.copy))
          BY <1>5, <3>3, ExtendedOK DEF RequestOK, RestOK
        <4>. QED
          BY <1>5, <3>3, <4>1, SetOK
      <3>. QED
        BY <1>11, <3>1, <3>2, <3>3 DEF RequestFault
    <2>. QED
      BY <2>1, <2>2, <2>3, <2>4
  <1>12. ASSUME Cleanup PROVE Typed'
    <2>1. LoginsOK'
      BY <1>12 DEF Cleanup, Kept, LoginsOK
    <2>. QED
      BY <1>12, <2>1, PruneOK DEF Cleanup, RequestsOK, RestOK
  <1>13. ASSUME Tick PROVE Typed'
    BY <1>13 DEF Tick, StoreOK, RequestsOK, RestOK, LoginsOK
  <1>14. ASSUME UNCHANGED vars PROVE Typed'
    BY <1>14 DEF vars, StoreOK, RequestsOK, RestOK, LoginsOK
  <1>. QED
    BY <1>1, <1>2, <1>3, <1>4, <1>6, <1>7, <1>8, <1>9, <1>10, <1>11, <1>12, <1>13, <1>14 DEF Next

LEMMA TypedAlways == Spec => []Typed
  BY TypedInit, TypedStep, PTL DEF Spec

\* However often a session is read, renewed and written back, by whatever web
\* processes, it ends AbsoluteTtl after its login.
THEOREM LifetimeBinds == Spec => []LifetimeIsBinding
  <1>1. Typed => LifetimeIsBinding
    BY DEF Typed, StoreOK, RowOK, LifetimeIsBinding
  <1>. QED
    BY <1>1, TypedAlways, PTL

-----------------------------------------------------------------------------
(* A login is used once. *)

\* A session that exists, or existed, or will once its request goes on.
Holder(s) ==
  \/ store[s] # None
  \/ issued[s] > 0
  \/ \E r \in requests : r.session = s /\ r.phase \notin {"spend", "exchange"}

\* Before the code of a login is used nothing holds a session of it, and its use
\* comes after the end of its transaction and makes one holder.
LoginOK ==
  /\ \A l \in Logins : transaction[l] # None => code[l] # "none"
  /\ \A r \in requests : r.phase = "spend" => code[r.session[1]] # "none"
  /\ \A r \in requests :
       r.phase = "exchange" => code[r.session[1]] # "none" /\ transaction[r.session[1]] = None

HolderOK == \A s \in Sessions : Holder(s) => transaction[s[1]] = None /\ code[s[1]] = "used"

OneHolder == \A s, t \in Sessions : Holder(s) /\ Holder(t) /\ s[1] = t[1] => s = t

Single == LoginOK /\ HolderOK /\ OneHolder

\* Steps that make no holder and no transaction keep the rest.
LEMMA HoldersKept ==
  ASSUME Single, code' = code,
         \A l \in Logins : transaction'[l] # None => transaction[l] # None,
         \A s \in Sessions : Holder(s)' => Holder(s)
  PROVE  HolderOK' /\ OneHolder'
  <1>1. \A s \in Sessions : s[1] \in Logins
    BY DEF Sessions
  <1>. QED
    BY <1>1 DEF Single, HolderOK, OneHolder

\* A request ends, and nothing else is new.
LEMMA EndsSingle ==
  ASSUME Single, NEW r \in requests, Ends(r), code' = code,
         \A l \in Logins : transaction'[l] # None => transaction[l] # None,
         \A q \in requests : q.session[1] \in Logins,
         \A s \in Sessions : store'[s] # None \/ issued'[s] > 0 => Holder(s)
  PROVE  Single'
  <1>1. requests' \subseteq requests
    BY DEF Ends
  <1>2. \A s \in Sessions : Holder(s)' => Holder(s)
    BY <1>1 DEF Holder
  <1>3. LoginOK'
    BY <1>1 DEF Single, LoginOK
  <1>. QED
    BY <1>2, <1>3, HoldersKept DEF Single

LEMMA SingleInit == Init => Single
  BY DEF Init, Single, LoginOK, HolderOK, OneHolder, Holder, Sessions

LEMMA SingleStep == Typed /\ Single /\ [Next]_vars => Single'
  <1> SUFFICES ASSUME Typed, Single, [Next]_vars PROVE Single'
    OBVIOUS
  <1>1. ASSUME NEW s \in Sessions PROVE s[1] \in Logins
    BY DEF Sessions
  <1>2. ASSUME NEW r \in requests PROVE r \in Request /\ r.session \in Sessions /\ r.session[1] \in Logins
    BY <1>1, <1>2 DEF Typed, RequestsOK, RequestOK, Request
  <1>3. ASSUME NEW l \in Logins, BeginLogin(l) PROVE Single'
    <2>1. /\ \A k \in Logins : k # l => code'[k] = code[k] /\ (transaction'[k] # None => transaction[k] # None)
          /\ code[l] = "none" /\ code'[l] = "issued"
      BY <1>3 DEF BeginLogin, Kept, Typed, LoginsOK
    <2>2. requests' = requests /\ issued' = issued /\ \A s \in Sessions : store'[s] # None => store[s] # None
      BY <1>3 DEF BeginLogin, PruneSessions
    <2>3. \A s \in Sessions : Holder(s)' => Holder(s) /\ s[1] # l
      BY <2>1, <2>2 DEF Holder, Single, HolderOK
    <2>4. HolderOK' /\ OneHolder'
      BY <1>1, <2>1, <2>3 DEF Single, HolderOK, OneHolder
    <2>5. LoginOK'
      BY <1>2, <2>1, <2>2 DEF Single, LoginOK
    <2>. QED
      BY <2>4, <2>5 DEF Single
  <1>4. ASSUME NEW l \in Logins, StartCallback(l) PROVE Single'
    <2> DEFINE new == [id |-> 0, session |-> <<l, callbacks[l] + 1>>, phase |-> "spend", copy |-> None]
    <2>1. /\ \A k \in Logins : transaction'[k] # None => transaction[k] # None
          /\ \A k \in Logins : transaction[k] = None => transaction'[k] = None
          /\ code' = code /\ UNCHANGED <<store, issued>>
      BY <1>4 DEF StartCallback, Typed, LoginsOK
    <2>2. requests' \subseteq requests \cup {new} /\ code[l] # "none"
      BY <1>4 DEF StartCallback, Single, LoginOK
    <2>3. \A s \in Sessions : Holder(s)' => Holder(s)
      BY <2>1, <2>2 DEF Holder
    <2>4. LoginOK'
      <3>1. new.phase = "spend" /\ new.session[1] = l
        OBVIOUS
      <3> HIDE DEF new
      <3>. QED
        BY <1>2, <2>1, <2>2, <3>1 DEF Single, LoginOK
    <2>. QED
      BY <2>1, <2>3, <2>4, HoldersKept DEF Single
  <1>5. ASSUME NEW s \in Sessions, NEW phase \in {"extend", "refresh"}, ReadSession(s, phase) PROVE Single'
    <2> DEFINE new == [id |-> started', session |-> s, phase |-> phase, copy |-> store[s]]
    <2>1. Holder(s) /\ UNCHANGED <<transaction, code, issued>>
      BY <1>5 DEF ReadSession, Arrives, Holder
    <2>2. requests' \subseteq requests \cup {new}
      BY <1>5 DEF ReadSession
    <2>3. \A t \in Sessions : store'[t] # None => store[t] # None
      BY <1>5 DEF ReadSession, Set, Typed, StoreOK
    <2>4. new.session = s /\ new.phase \notin {"spend", "exchange"}
      OBVIOUS
    <2> HIDE DEF new
    <2>5. \A t \in Sessions : Holder(t)' => Holder(t)
      BY <2>1, <2>2, <2>3, <2>4 DEF Holder
    <2>6. LoginOK'
      BY <2>1, <2>2, <2>4 DEF Single, LoginOK
    <2>. QED
      BY <2>1, <2>5, <2>6, HoldersKept DEF Single
  <1>6. ASSUME NEW s \in Sessions, Logout(s) PROVE Single'
    <2>1. \A t \in Sessions : store'[t] # None => store[t] # None
      BY <1>6 DEF Logout, Set, Typed, StoreOK
    <2>2. UNCHANGED <<transaction, code, issued, requests>>
      BY <1>6 DEF Logout
    <2>3. \A t \in Sessions : Holder(t)' => Holder(t)
      BY <2>1, <2>2 DEF Holder
    <2>. QED
      BY <2>2, <2>3, HoldersKept DEF Single, LoginOK
  <1>7. ASSUME NEW r \in requests, SpendTransaction(r) PROVE Single'
    <2> DEFINE new == [r EXCEPT !.phase = "exchange"]
           l == r.session[1]
    <2>1. new.phase = "exchange" /\ new.session = r.session
      BY <1>2 DEF Request
    <2>2. requests' = (requests \ {r}) \cup {new} /\ UNCHANGED <<store, code, issued>>
      BY <1>7 DEF SpendTransaction, Move
    <2>3. r.phase = "spend" /\ transaction'[l] = None /\ \A k \in Logins : k # l => transaction'[k] = transaction[k]
      BY <1>2, <1>7 DEF SpendTransaction, Typed, LoginsOK
    <2> HIDE DEF new
    <2>4. \A s \in Sessions : Holder(s)' => Holder(s)
      BY <2>1, <2>2 DEF Holder
    <2>5. LoginOK'
      BY <1>2, <2>1, <2>2, <2>3 DEF Single, LoginOK
    <2>. QED
      BY <2>2, <2>3, <2>4, <2>5, HoldersKept DEF Single
  <1>8. ASSUME NEW r \in requests, ExchangeCode(r) PROVE Single'
    <2> DEFINE l == r.session[1]
    <2>1. r.phase = "exchange" /\ transaction[l] = None /\ UNCHANGED <<transaction, store, issued>>
      BY <1>8 DEF ExchangeCode, Single, LoginOK
    <2>2. CASE code[l] = "issued"
      <3> DEFINE new == [r EXCEPT !.phase = "create"]
      <3>1. new.phase = "create" /\ new.session = r.session
        BY <1>2 DEF Request
      <3>2. requests' = (requests \ {r}) \cup {new}
        BY <1>8, <2>2 DEF ExchangeCode, Move
      <3>3. code'[l] = "used" /\ \A k \in Logins : k # l => code'[k] = code[k]
        BY <1>2, <1>8, <2>2 DEF ExchangeCode, Typed, LoginsOK
      <3> HIDE DEF new
      <3>4. \A s \in Sessions : Holder(s)' => s = r.session \/ (Holder(s) /\ s[1] # l)
        BY <2>1, <2>2, <3>1, <3>2 DEF Holder, Single, HolderOK
      <3>5. HolderOK' /\ OneHolder'
        BY <1>1, <2>1, <3>3, <3>4 DEF Single, HolderOK, OneHolder
      <3>6. LoginOK'
        BY <1>2, <2>1, <3>1, <3>2, <3>3 DEF Single, LoginOK
      <3>. QED
        BY <3>5, <3>6 DEF Single
    <2>3. CASE code[l] # "issued"
      <3>1. Ends(r) /\ UNCHANGED code
        BY <1>8, <2>3 DEF ExchangeCode
      <3>. QED
        BY <1>2, <2>1, <3>1, EndsSingle DEF Holder
    <2>. QED
      BY <2>2, <2>3
  <1>9. ASSUME NEW r \in requests, CreateSession(r) \/ ExtendSession(r) \/ SaveRenewal(r) PROVE Single'
    <2>1. Holder(r.session) /\ Ends(r) /\ UNCHANGED <<transaction, code>>
      BY <1>9 DEF CreateSession, ExtendSession, SaveRenewal, Holder
    <2>2. \A s \in Sessions : s # r.session => store'[s] = store[s] /\ issued'[s] = issued[s]
      BY <1>2, <1>9 DEF CreateSession, ExtendSession, SaveRenewal, Set, Typed, StoreOK, LoginsOK
    <2>3. \A s \in Sessions : store'[s] # None \/ issued'[s] > 0 => Holder(s)
      BY <2>1, <2>2 DEF Holder
    <2>. QED
      BY <1>2, <2>1, <2>3, EndsSingle
  <1>10. ASSUME NEW r \in requests, Refresh(r) PROVE Single'
    <2>1. Holder(r.session) /\ UNCHANGED <<transaction, store, code>>
      BY <1>10 DEF Refresh, Holder
    <2>2. \A s \in Sessions : s # r.session => issued'[s] = issued[s]
      BY <1>2, <1>10 DEF Refresh, Typed, LoginsOK
    <2>3. CASE Accepts(r)
      <3> DEFINE new == [r EXCEPT !.phase = "save", !.copy = [@ EXCEPT !.refresh = Renewed(r.session)]]
      <3>1. new.phase = "save" /\ new.session = r.session
        BY <1>2 DEF Request
      <3>2. requests' = (requests \ {r}) \cup {new}
        BY <1>10, <2>3 DEF Refresh
      <3> HIDE DEF new
      <3>3. \A s \in Sessions : Holder(s)' => Holder(s)
        BY <2>1, <2>2, <3>1, <3>2 DEF Holder
      <3>4. LoginOK'
        BY <2>1, <3>1, <3>2 DEF Single, LoginOK
      <3>. QED
        BY <2>1, <3>3, <3>4, HoldersKept DEF Single
    <2>4. CASE ~Accepts(r)
      <3>1. Ends(r) /\ UNCHANGED issued
        BY <1>10, <2>4 DEF Refresh
      <3>. QED
        BY <1>2, <2>1, <3>1, EndsSingle DEF Holder
    <2>. QED
      BY <2>3, <2>4
  <1>11. ASSUME NEW r \in requests, RequestFault(r) PROVE Single'
    <2> DEFINE l == r.session[1]
    <2>1. Ends(r)
      BY <1>11 DEF RequestFault
    <2>2. CASE UNCHANGED <<transaction, store, code, issued>>
      BY <1>2, <2>1, <2>2, EndsSingle DEF Holder
    <2>3. CASE /\ transaction' = [transaction EXCEPT ![l] = None]
               /\ UNCHANGED <<store, code, issued>>
      <3>1. \A k \in Logins : transaction'[k] # None => transaction[k] # None
        BY <2>3 DEF Typed, LoginsOK
      <3>. QED
        BY <1>2, <2>1, <2>3, <3>1, EndsSingle DEF Holder
    <2>4. CASE /\ r.phase = "exchange" /\ code[l] = "issued"
               /\ code' = [code EXCEPT ![l] = "used"]
               /\ UNCHANGED <<transaction, store, issued>>
      <3>1. code'[l] = "used" /\ \A k \in Logins : k # l => code'[k] = code[k]
        BY <1>2, <2>4 DEF Typed, LoginsOK
      <3>2. requests' \subseteq requests
        BY <2>1 DEF Ends
      <3>3. \A s \in Sessions : Holder(s)' => Holder(s)
        BY <2>4, <3>2 DEF Holder
      <3>4. HolderOK' /\ OneHolder'
        BY <1>1, <2>4, <3>1, <3>3 DEF Single, HolderOK, OneHolder
      <3>5. LoginOK'
        BY <1>2, <2>4, <3>1, <3>2 DEF Single, LoginOK
      <3>. QED
        BY <3>4, <3>5 DEF Single
    <2>5. CASE /\ r.phase \in {"create", "extend", "refresh", "save"}
               /\ UNCHANGED <<transaction, code>>
               /\ \A s \in Sessions : s # r.session => store'[s] = store[s] /\ issued'[s] = issued[s]
      <3>1. Holder(r.session)
        BY <2>5 DEF Holder
      <3>2. \A s \in Sessions : store'[s] # None \/ issued'[s] > 0 => Holder(s)
        BY <2>5, <3>1 DEF Holder
      <3>. QED
        BY <1>2, <2>1, <2>5, <3>2, EndsSingle
    <2>6. ASSUME r.phase = "refresh", issued' = [issued EXCEPT ![r.session] = Renewed(r.session)],
                 UNCHANGED <<transaction, store, code>>
          PROVE  Single'
      BY <1>2, <2>5, <2>6 DEF Typed, LoginsOK
    <2>7. ASSUME NEW row, r.phase \in {"create", "extend", "save"}, Set(r.session, row),
                 UNCHANGED <<transaction, code, issued>>
          PROVE  Single'
      BY <1>2, <2>5, <2>7 DEF Set, Typed, StoreOK
    <2>. QED
      BY <1>11, <2>2, <2>3, <2>4, <2>6, <2>7 DEF RequestFault
  <1>12. ASSUME Cleanup PROVE Single'
    <2>1. /\ UNCHANGED <<code, issued, requests>>
          /\ \A l \in Logins : transaction'[l] # None => transaction[l] # None
          /\ \A s \in Sessions : store'[s] # None => store[s] # None
      BY <1>12 DEF Cleanup, Kept, PruneSessions
    <2>2. \A s \in Sessions : Holder(s)' => Holder(s)
      BY <2>1 DEF Holder
    <2>3. LoginOK'
      BY <1>2, <2>1 DEF Single, LoginOK
    <2>. QED
      BY <2>1, <2>2, <2>3, HoldersKept DEF Single
  <1>13. ASSUME UNCHANGED <<transaction, store, code, issued, requests>> PROVE Single'
    BY <1>13 DEF Single, LoginOK, HolderOK, OneHolder, Holder
  <1>14. Tick \/ UNCHANGED vars => Single'
    BY <1>13 DEF Tick, vars
  <1>. QED
    BY <1>3, <1>4, <1>5, <1>6, <1>7, <1>8, <1>9, <1>10, <1>11, <1>12, <1>14 DEF Next

LEMMA SingleAlways == Spec => []Single
  BY SingleInit, SingleStep, TypedAlways, PTL DEF Spec

\* A callback that is repeated finds no transaction, whichever web process it
\* reaches, once a session was made of its login.
THEOREM TransactionSpent == Spec => []TransactionIsSpent
  <1>1. Single => TransactionIsSpent
    BY DEF Single, HolderOK, Holder, TransactionIsSpent
  <1>. QED
    BY <1>1, SingleAlways, PTL

\* Every variable has its type, idle lifetimes end within absolute ones, and a
\* login makes at most one session however often its callback comes.
THEOREM TypeCorrect == Spec => []TypeOK
  <1>1. Typed /\ Single => TypeOK
    BY DEF Typed, StoreOK, RequestsOK, RequestOK, RestOK, LoginsOK, RowOK, Single, OneHolder, Holder, TypeOK
  <1>. QED
    BY <1>1, TypedAlways, SingleAlways, PTL

-----------------------------------------------------------------------------
(* A logout is final, but for requests that overlap it. *)

\* The steps of requests that write a session, and the copy they hold.
Holds(r) == r.phase \in {"extend", "refresh", "save"}

\* What was logged out, and had no request in flight, has no past any more: a
\* later request finds no row, and no callback makes one of the same session.
Gone ==
  \A s \in loggedOut :
    /\ issued[s] > 0
    /\ s \notin overlapped => store[s] = None /\ ~Busy(s)

\* Steps that change no row and no request of what is gone.
LEMMA GoneKept ==
  ASSUME Gone, loggedOut' = loggedOut, overlapped \subseteq overlapped',
         \A s \in loggedOut : issued'[s] > 0,
         \A s \in loggedOut : store[s] = None /\ ~Busy(s) => store'[s] = None /\ ~Busy(s)'
  PROVE  Gone'
  BY DEF Gone

LEMMA GoneInit == Init => Gone
  BY DEF Init, Gone

LEMMA GoneStep == Typed /\ Single /\ Gone /\ [Next]_vars => Gone'
  <1> SUFFICES ASSUME Typed, Single, Gone, [Next]_vars PROVE Gone'
    OBVIOUS
  <1>1. ASSUME NEW r \in requests
        PROVE  r \in Request /\ r.session \in Sessions
    BY <1>1 DEF Typed, RequestsOK, RequestOK, Request
  <1>2. loggedOut \subseteq Sessions /\ \A s \in loggedOut : issued[s] > 0
    BY DEF Typed, RestOK, Gone
  <1>3. ASSUME NEW l \in Logins, BeginLogin(l) PROVE Gone'
    <2>1. UNCHANGED <<loggedOut, overlapped, issued, requests>>
          /\ \A s \in Sessions : store[s] = None => store'[s] = None
      BY <1>3 DEF BeginLogin, PruneSessions, Live
    <2>. QED
      BY <1>2, <2>1, GoneKept DEF Busy
  <1>4. ASSUME NEW l \in Logins, StartCallback(l) PROVE Gone'
    <2> DEFINE new == [id |-> 0, session |-> <<l, callbacks[l] + 1>>, phase |-> "spend", copy |-> None]
    <2>1. UNCHANGED <<loggedOut, overlapped, issued, store>> /\ requests' \subseteq requests \cup {new}
      BY <1>4 DEF StartCallback
    <2>2. new.session[1] = l
      OBVIOUS
    <2> HIDE DEF new
    <2>3. \A s \in loggedOut : s[1] # l
      BY <1>2, <1>4 DEF StartCallback, Single, HolderOK, Holder
    <2>4. \A s \in loggedOut : ~Busy(s) => ~Busy(s)'
      BY <2>1, <2>2, <2>3 DEF Busy
    <2>. QED
      BY <1>2, <2>1, <2>4, GoneKept
  <1>5. ASSUME NEW s \in Sessions, NEW phase \in {"extend", "refresh"}, ReadSession(s, phase) PROVE Gone'
    <2>1. UNCHANGED <<loggedOut, issued>> /\ overlapped \subseteq overlapped'
      BY <1>5 DEF ReadSession
    <2>2. ASSUME NEW t \in loggedOut, store[t] = None, ~Busy(t) PROVE store'[t] = None /\ ~Busy(t)'
      <3>1. CASE Live(store[s])
        <4> DEFINE new == [id |-> started', session |-> s, phase |-> phase, copy |-> store[s]]
        <4>1. new.session = s
          OBVIOUS
        <4>2. requests' = requests \cup {new} /\ UNCHANGED store /\ s # t
          BY <1>5, <2>2, <3>1 DEF ReadSession, Live
        <4> HIDE DEF new
        <4>. QED
          BY <2>2, <4>1, <4>2 DEF Busy
      <3>2. CASE ~Live(store[s])
        <4>1. Set(s, None) /\ UNCHANGED requests
          BY <1>5, <3>2 DEF ReadSession
        <4>. QED
          BY <1>2, <2>2, <4>1 DEF Set, Busy, Typed, StoreOK
      <3>. QED
        BY <3>1, <3>2
    <2>. QED
      BY <1>2, <2>1, <2>2, GoneKept
  <1>6. ASSUME NEW s \in Sessions, Logout(s) PROVE Gone'
    <2>1. /\ UNCHANGED <<issued, requests>> /\ issued[s] > 0
          /\ loggedOut' = loggedOut \cup {s}
          /\ store'[s] = None
          /\ \A t \in Sessions : t # s => store'[t] = store[t] /\ (t \in overlapped <=> t \in overlapped')
          /\ ~Busy(s) \/ s \in overlapped'
      BY <1>6 DEF Logout, Arrives, Set, Typed, StoreOK
    <2>2. \A t \in Sessions : Busy(t)' <=> Busy(t)
      BY <2>1 DEF Busy
    <2>. QED
      BY <1>2, <2>1, <2>2 DEF Gone
  <1>7. ASSUME NEW r \in requests, NEW phase \in Phase, Move(r, phase), UNCHANGED <<store, issued, overlapped, loggedOut>>
        PROVE  Gone'
    <2> DEFINE new == [r EXCEPT !.phase = phase]
    <2>1. new.session = r.session /\ requests' = (requests \ {r}) \cup {new}
      BY <1>1, <1>7 DEF Request, Move
    <2> HIDE DEF new
    <2>2. \A s \in loggedOut : ~Busy(s) => ~Busy(s)'
      BY <2>1 DEF Busy
    <2>. QED
      BY <1>2, <1>7, <2>2, GoneKept
  <1>8. ASSUME NEW r \in requests, Ends(r), UNCHANGED <<overlapped, loggedOut>>,
               \A s \in Sessions : issued[s] > 0 => issued'[s] > 0,
               \A s \in Sessions : s # r.session => store'[s] = store[s]
        PROVE  Gone'
    <2>1. \A s \in loggedOut : ~Busy(s) => ~Busy(s)' /\ store'[s] = store[s]
      BY <1>2, <1>8 DEF Busy, Ends
    <2>. QED
      BY <1>2, <1>8, <2>1, GoneKept
  <1>9. ASSUME NEW r \in requests, SpendTransaction(r) PROVE Gone'
    BY <1>7, <1>9 DEF SpendTransaction, Phase
  <1>10. ASSUME NEW r \in requests, ExchangeCode(r) PROVE Gone'
    <2>1. UNCHANGED <<store, issued, overlapped, loggedOut>> /\ (Move(r, "create") \/ Ends(r))
      BY <1>10 DEF ExchangeCode
    <2>. QED
      BY <1>7, <1>8, <2>1 DEF Phase
  <1>11. ASSUME NEW r \in requests, CreateSession(r) \/ ExtendSession(r) \/ SaveRenewal(r) PROVE Gone'
    <2>1. Ends(r) /\ UNCHANGED <<overlapped, loggedOut>>
      BY <1>11 DEF CreateSession, ExtendSession, SaveRenewal
    <2>2. \A s \in Sessions : issued[s] > 0 => issued'[s] > 0
      BY <1>1, <1>11 DEF CreateSession, ExtendSession, SaveRenewal, Typed, LoginsOK
    <2>3. \A s \in Sessions : s # r.session => store'[s] = store[s]
      BY <1>11 DEF CreateSession, ExtendSession, SaveRenewal, Set, Typed, StoreOK
    <2>. QED
      BY <1>8, <2>1, <2>2, <2>3
  <1>12. ASSUME NEW r \in requests PROVE Renewed(r.session) \in Nat /\ (issued[r.session] > 0 => Renewed(r.session) > 0)
    BY <1>1 DEF Renewed, Typed, LoginsOK
  <1>13. ASSUME NEW r \in requests, issued' = [issued EXCEPT ![r.session] = Renewed(r.session)]
         PROVE  \A s \in Sessions : issued[s] > 0 => issued'[s] > 0
    BY <1>12, <1>13 DEF Typed, LoginsOK
  <1>14. ASSUME NEW r \in requests, Refresh(r) PROVE Gone'
    <2>1. UNCHANGED <<store, overlapped, loggedOut>>
      BY <1>14 DEF Refresh
    <2>2. CASE Accepts(r)
      <3> DEFINE new == [r EXCEPT !.phase = "save", !.copy = [@ EXCEPT !.refresh = Renewed(r.session)]]
      <3>1. new.session = r.session
        BY <1>1 DEF Request
      <3>2. requests' = (requests \ {r}) \cup {new} /\ issued' = [issued EXCEPT ![r.session] = Renewed(r.session)]
        BY <1>14, <2>2 DEF Refresh
      <3> HIDE DEF new
      <3>3. \A s \in loggedOut : ~Busy(s) => ~Busy(s)'
        BY <3>1, <3>2 DEF Busy
      <3>. QED
        BY <1>2, <1>13, <2>1, <3>2, <3>3, GoneKept
    <2>3. CASE ~Accepts(r)
      BY <1>8, <1>14, <2>1, <2>3 DEF Refresh
    <2>. QED
      BY <2>2, <2>3
  <1>15. ASSUME NEW r \in requests, RequestFault(r) PROVE Gone'
    <2>1. Ends(r) /\ UNCHANGED <<overlapped, loggedOut>>
      BY <1>15 DEF RequestFault
    <2>2. \A s \in Sessions : issued[s] > 0 => issued'[s] > 0
      BY <1>13, <1>15 DEF RequestFault
    <2>3. \A s \in Sessions : s # r.session => store'[s] = store[s]
      BY <1>15 DEF RequestFault, Set, Typed, StoreOK
    <2>. QED
      BY <1>8, <2>1, <2>2, <2>3
  <1>16. ASSUME Cleanup PROVE Gone'
    <2>1. UNCHANGED <<loggedOut, overlapped, issued, requests>>
          /\ \A s \in Sessions : store[s] = None => store'[s] = None
      BY <1>16 DEF Cleanup, PruneSessions, Live
    <2>. QED
      BY <1>2, <2>1, GoneKept DEF Busy
  <1>17. Tick \/ UNCHANGED vars => Gone'
    BY DEF Tick, vars, Gone, Busy
  <1>. QED
    BY <1>3, <1>4, <1>5, <1>6, <1>9, <1>10, <1>11, <1>14, <1>15, <1>16, <1>17 DEF Next

\* Only a request that was in flight at a logout, or overlapped such a one, makes
\* a session come back after it.
THEOREM LogoutIsFinal == Spec => []LogoutUndoneByOverlap
  <1>1. Gone => LogoutUndoneByOverlap
    BY DEF Gone, LogoutUndoneByOverlap
  <1>. QED
    BY <1>1, GoneInit, GoneStep, TypedAlways, SingleAlways, PTL DEF Spec

-----------------------------------------------------------------------------
(* The refresh token of an undisturbed session. *)

\* The callbacks of a login make sessions with different numbers.
Numbered ==
  /\ \A r \in requests : r.session[2] <= callbacks[r.session[1]]
  /\ \A s \in Sessions : issued[s] > 0 => s[2] <= callbacks[s[1]]

Undisturbed == Sessions \ (overlapped \cup cut)

\* One request at a time has the session, and what it holds is what the provider
\* takes; so it is with the row when no request has the session.  A callback has
\* no row yet.
FreshOne(s) ==
  /\ \A q, r \in requests : q.session = s /\ r.session = s => q = r
  /\ \A r \in requests :
       r.session = s => IF Holds(r) THEN r.copy.refresh = issued[s] ELSE store[s] = None
  /\ store[s] # None /\ ~Busy(s) => store[s].refresh = issued[s]

Fresh == Numbered /\ \A s \in Undisturbed : FreshOne(s)

\* Sessions that a step does not concern.
LEMMA FreshOther ==
  ASSUME NEW s, FreshOne(s), issued'[s] = issued[s],
         store'[s] \in {store[s], None},
         \A q : q.session = s => (q \in requests' <=> q \in requests)
  PROVE  FreshOne(s)'
  <1>1. Busy(s)' <=> Busy(s)
    BY DEF Busy
  <1>. QED
    BY <1>1 DEF FreshOne, Holds

\* The only request of a session gives way to another phase of it.
LEMMA FreshMove ==
  ASSUME NEW s, FreshOne(s), NEW r \in requests, NEW new, r.session = s, new.session = s,
         requests' = (requests \ {r}) \cup {new},
         Holds(new) => new.copy.refresh = issued'[s],
         ~Holds(new) => ~Holds(r) /\ store'[s] = store[s]
  PROVE  FreshOne(s)'
  <1>1. Busy(s)'
    BY DEF Busy
  <1>2. \A q \in requests' : q.session = s => q = new
    BY DEF FreshOne
  <1>. QED
    BY <1>1, <1>2 DEF FreshOne, Holds

\* The only request of a session ends.
LEMMA FreshEnd ==
  ASSUME NEW s, FreshOne(s), NEW r \in requests, r.session = s, Ends(r),
         store'[s] # None => store'[s].refresh = issued'[s]
  PROVE  FreshOne(s)'
  <1>1. \A q \in requests' : q.session # s
    BY DEF FreshOne, Ends
  <1>. QED
    BY <1>1 DEF FreshOne, Holds

LEMMA FreshInit == Init => Fresh
  BY DEF Init, Fresh, Numbered, FreshOne, Undisturbed

LEMMA FreshStep == Typed /\ Single /\ Fresh /\ [Next]_vars => Fresh'
  <1> SUFFICES ASSUME Typed, Single, Fresh, [Next]_vars PROVE Fresh'
    OBVIOUS
  <1>1. ASSUME NEW r \in requests
        PROVE  r \in Request /\ r.session \in Sessions /\ RequestOK(r)
    BY <1>1 DEF Typed, RequestsOK, RequestOK, Request
  <1>2. ASSUME NEW r \in requests, callbacks' = callbacks,
               \A q \in requests' : q \in requests \/ q.session = r.session,
               \A s \in Sessions : s # r.session => issued'[s] = issued[s]
        PROVE  Numbered'
    BY <1>2 DEF Fresh, Numbered
  <1>3. issued \in [Sessions -> Nat]
    BY DEF Typed, LoginsOK
  <1>4. ASSUME NEW r \in requests, Ends(r),
               UNCHANGED <<callbacks, overlapped>>, cut \subseteq cut',
               \A s \in Sessions : s # r.session => store'[s] = store[s] /\ issued'[s] = issued[s],
               r.session \in Undisturbed' /\ store'[r.session] # None => store'[r.session].refresh = issued'[r.session]
        PROVE  Fresh'
    <2>1. Numbered'
      BY <1>2, <1>4 DEF Ends
    <2>2. ASSUME NEW s \in Undisturbed' PROVE FreshOne(s)'
      <3>1. FreshOne(s) /\ s \in Sessions
        BY <1>4, <2>2 DEF Fresh, Undisturbed
      <3>2. CASE s = r.session
        BY <1>4, <2>2, <3>1, <3>2, FreshEnd
      <3>3. CASE s # r.session
        <4>1. \A q : q.session = s => (q \in requests' <=> q \in requests)
          BY <1>4, <3>3 DEF Ends
        <4>. QED
          BY <1>4, <3>1, <3>3, <4>1, FreshOther
      <3>. QED
        BY <3>2, <3>3
    <2>. QED
      BY <2>1, <2>2 DEF Fresh
  <1>5. ASSUME NEW r \in requests, NEW new, new.session = r.session,
               requests' = (requests \ {r}) \cup {new},
               UNCHANGED <<callbacks, overlapped, cut, store>>,
               \A s \in Sessions : s # r.session => issued'[s] = issued[s],
               Holds(new) => new.copy.refresh = issued'[r.session],
               ~Holds(new) => ~Holds(r)
        PROVE  Fresh'
    <2>1. Numbered'
      BY <1>2, <1>5
    <2>2. ASSUME NEW s \in Undisturbed' PROVE FreshOne(s)'
      <3>1. FreshOne(s) /\ s \in Sessions
        BY <1>5, <2>2 DEF Fresh, Undisturbed
      <3>2. CASE s = r.session
        BY <1>5, <3>1, <3>2, FreshMove
      <3>3. CASE s # r.session
        <4>1. \A q : q.session = s => (q \in requests' <=> q \in requests)
          BY <1>5, <3>3
        <4>. QED
          BY <1>5, <3>1, <3>3, <4>1, FreshOther
      <3>. QED
        BY <3>2, <3>3
    <2>. QED
      BY <2>1, <2>2 DEF Fresh
  <1>6. ASSUME UNCHANGED <<requests, callbacks, overlapped, cut, issued>>,
               \A s \in Sessions : store'[s] \in {store[s], None}
        PROVE  Fresh'
    <2>1. Numbered'
      BY <1>6 DEF Fresh, Numbered
    <2>2. ASSUME NEW s \in Undisturbed' PROVE FreshOne(s)'
      BY <1>6, <2>2, FreshOther DEF Fresh, Undisturbed
    <2>. QED
      BY <2>1, <2>2 DEF Fresh
  <1>7. ASSUME NEW l \in Logins, BeginLogin(l) PROVE Fresh'
    BY <1>6, <1>7 DEF BeginLogin, PruneSessions
  <1>8. ASSUME NEW l \in Logins, StartCallback(l) PROVE Fresh'
    <2>1. UNCHANGED <<store, issued, overlapped, cut>> /\ callbacks[l] \in Nat /\ callbacks'[l] = callbacks[l] + 1
          /\ \A k \in Logins : k # l => callbacks'[k] = callbacks[k]
      BY <1>8 DEF StartCallback, Typed, LoginsOK
    <2>2. PICK new : /\ new.session = <<l, callbacks[l] + 1>> /\ new.phase = "spend"
                     /\ requests' \in {requests, requests \cup {new}}
      <3> DEFINE q == [id |-> 0, session |-> <<l, callbacks[l] + 1>>, phase |-> "spend", copy |-> None]
      <3>1. q.session = <<l, callbacks[l] + 1>> /\ q.phase = "spend"
        OBVIOUS
      <3>2. requests' \in {requests, requests \cup {q}}
        BY <1>8 DEF StartCallback
      <3>. QED
        BY <3>1, <3>2
    <2>3. \A r \in requests : r.session # <<l, callbacks[l] + 1>>
      BY <1>1, <2>1 DEF Fresh, Numbered
    <2>4. \A r \in requests : r.session[1] \in Logins /\ r.session[2] \in Nat
      BY <1>1 DEF Sessions
    <2>5. Numbered'
      <3>1. ASSUME NEW r \in requests PROVE r.session[2] <= callbacks'[r.session[1]]
        <4>1. CASE r.session[1] = l
          BY <2>1, <2>4, <4>1 DEF Fresh, Numbered
        <4>2. CASE r.session[1] # l
          BY <2>1, <2>4, <4>2 DEF Fresh, Numbered
        <4>. QED
          BY <4>1, <4>2
      <3>2. new.session[2] <= callbacks'[new.session[1]]
        BY <2>1, <2>2
      <3>3. ASSUME NEW s \in Sessions, issued[s] > 0 PROVE s[2] <= callbacks'[s[1]]
        <4>1. s[1] \in Logins /\ s[2] \in Nat /\ s[2] <= callbacks[s[1]]
          BY <3>3 DEF Sessions, Fresh, Numbered
        <4>. QED
          BY <2>1, <4>1
      <3>. QED
        BY <2>1, <2>2, <3>1, <3>2, <3>3 DEF Numbered
    <2>6. ASSUME NEW s \in Undisturbed' PROVE FreshOne(s)'
      <3>1. FreshOne(s) /\ s \in Sessions
        BY <2>1, <2>6 DEF Fresh, Undisturbed
      <3>2. CASE s # <<l, callbacks[l] + 1>>
        BY <2>1, <2>2, <3>1, <3>2, FreshOther
      <3>3. CASE s = <<l, callbacks[l] + 1>>
        <4>1. store[s] = None
          BY <1>8, <3>1, <3>3 DEF StartCallback, Single, HolderOK, Holder
        <4>2. \A r \in requests' : r.session = s => r = new
          BY <2>2, <2>3, <3>3
        <4>. QED
          BY <2>1, <2>2, <4>1, <4>2 DEF FreshOne, Holds
      <3>. QED
        BY <3>2, <3>3
    <2>. QED
      BY <2>5, <2>6 DEF Fresh
  <1>9. ASSUME NEW s \in Sessions, NEW phase \in {"extend", "refresh"}, ReadSession(s, phase) PROVE Fresh'
    <2>1. UNCHANGED <<issued, callbacks, cut>>
          /\ overlapped' = IF Busy(s) THEN overlapped \cup {s} ELSE overlapped
      BY <1>9 DEF ReadSession
    <2>2. CASE ~Live(store[s])
      <3>1. Set(s, None) /\ UNCHANGED requests
        BY <1>9, <2>2 DEF ReadSession
      <3>2. \A t \in Sessions : store'[t] \in {store[t], None}
        BY <3>1 DEF Set, Typed, StoreOK
      <3>3. ASSUME NEW t \in Undisturbed' PROVE FreshOne(t)'
        BY <2>1, <3>1, <3>2, <3>3, FreshOther DEF Fresh, Undisturbed
      <3>4. Numbered'
        BY <2>1, <3>1 DEF Fresh, Numbered
      <3>. QED
        BY <3>3, <3>4 DEF Fresh
    <2>3. CASE Live(store[s])
      <3>1. PICK new : /\ new.session = s /\ new.copy = store[s] /\ Holds(new)
                       /\ requests' = requests \cup {new} /\ UNCHANGED store
        <4> DEFINE q == [id |-> started', session |-> s, phase |-> phase, copy |-> store[s]]
        <4>1. q.session = s /\ q.copy = store[s] /\ Holds(q)
          BY DEF Holds
        <4>2. requests' = requests \cup {q} /\ UNCHANGED store
          BY <1>9, <2>3 DEF ReadSession
        <4> HIDE DEF q
        <4>. QED
          BY <4>1, <4>2
      <3>2. s[2] <= callbacks[s[1]]
        BY <1>9 DEF ReadSession, Arrives, Fresh, Numbered
      <3>3. Numbered'
        BY <2>1, <3>1, <3>2 DEF Fresh, Numbered
      <3>4. ASSUME NEW t \in Undisturbed' PROVE FreshOne(t)'
        <4>1. FreshOne(t) /\ t \in Sessions
          BY <2>1, <3>4 DEF Fresh, Undisturbed
        <4>2. CASE t # s
          BY <2>1, <3>1, <4>1, <4>2, FreshOther
        <4>3. CASE t = s
          <5>1. ~Busy(s)
            BY <2>1, <3>4, <4>3 DEF Undisturbed
          <5>2. store[s].refresh = issued[s]
            BY <2>3, <4>1, <4>3, <5>1 DEF FreshOne, Live
          <5>3. \A r \in requests' : r.session = s => r = new
            BY <3>1, <5>1 DEF Busy
          <5>4. Busy(s)'
            BY <3>1 DEF Busy
          <5>. QED
            BY <2>1, <3>1, <4>3, <5>2, <5>3, <5>4 DEF FreshOne, Holds
        <4>. QED
          BY <4>2, <4>3
      <3>. QED
        BY <3>3, <3>4 DEF Fresh
    <2>. QED
      BY <2>2, <2>3
  <1>10. ASSUME NEW s \in Sessions, Logout(s) PROVE Fresh'
    <2>1. /\ UNCHANGED <<issued, requests, callbacks, cut>>
          /\ overlapped' = IF Busy(s) THEN overlapped \cup {s} ELSE overlapped \ {s}
          /\ store'[s] = None /\ \A t \in Sessions : t # s => store'[t] = store[t]
      BY <1>10 DEF Logout, Set, Typed, StoreOK
    <2>2. Numbered'
      BY <2>1 DEF Fresh, Numbered
    <2>3. ASSUME NEW t \in Undisturbed' PROVE FreshOne(t)'
      <3>1. CASE t # s
        BY <2>1, <2>3, <3>1, FreshOther DEF Fresh, Undisturbed
      <3>2. CASE t = s
        <4>1. ~Busy(s)
          BY <2>1, <2>3, <3>2 DEF Undisturbed
        <4>. QED
          BY <2>1, <3>2, <4>1 DEF FreshOne, Busy
      <3>. QED
        BY <3>1, <3>2
    <2>. QED
      BY <2>2, <2>3 DEF Fresh
  <1>11. ASSUME NEW r \in requests, NEW phase \in {"exchange", "create"}, Move(r, phase), ~Holds(r),
                UNCHANGED <<callbacks, overlapped, cut, store, issued>>
         PROVE  Fresh'
    <2> DEFINE new == [r EXCEPT !.phase = phase]
    <2>1. new.session = r.session /\ new.phase = phase /\ requests' = (requests \ {r}) \cup {new}
      BY <1>1, <1>11 DEF Request, Move
    <2> HIDE DEF new
    <2>2. ~Holds(new)
      BY <2>1 DEF Holds
    <2>. QED
      BY <1>5, <1>11, <2>1, <2>2
  <1>12. ASSUME NEW r \in requests, SpendTransaction(r) PROVE Fresh'
    BY <1>11, <1>12 DEF SpendTransaction, Holds
  <1>13. ASSUME NEW r \in requests, ~Holds(r), r.session \in Undisturbed PROVE store[r.session] = None
    BY <1>13 DEF Fresh, FreshOne
  <1>14. ASSUME NEW r \in requests, ExchangeCode(r) PROVE Fresh'
    <2>1. UNCHANGED <<callbacks, overlapped, cut, store, issued>> /\ ~Holds(r)
      BY <1>14 DEF ExchangeCode, Holds
    <2>2. CASE Move(r, "create")
      BY <1>11, <2>1, <2>2
    <2>3. CASE Ends(r)
      <3>1. r.session \in Undisturbed' => store'[r.session] = None
        BY <1>13, <2>1 DEF Undisturbed
      <3>. QED
        BY <1>4, <2>1, <2>3, <3>1
    <2>. QED
      BY <1>14, <2>2, <2>3 DEF ExchangeCode
  <1>15. ASSUME NEW r \in requests, CreateSession(r) PROVE Fresh'
    <2>1. Ends(r) /\ UNCHANGED <<callbacks, overlapped, cut>>
      BY <1>15 DEF CreateSession
    <2>2. \A s \in Sessions : s # r.session => store'[s] = store[s] /\ issued'[s] = issued[s]
      BY <1>15 DEF CreateSession, Set, Typed, StoreOK, LoginsOK
    <2>3. store'[r.session].refresh = issued'[r.session]
      BY <1>1, <1>15 DEF CreateSession, Set, NewRow, Typed, StoreOK, LoginsOK
    <2>. QED
      BY <1>4, <2>1, <2>2, <2>3
  <1>16. ASSUME NEW r \in requests, Holds(r) PROVE Extended(r.copy).refresh = r.copy.refresh
    BY <1>1, <1>16 DEF Holds, RequestOK, RowOK, Row, Extended
  <1>17. ASSUME NEW r \in requests, ExtendSession(r) \/ SaveRenewal(r) PROVE Fresh'
    <2>1. Ends(r) /\ UNCHANGED <<callbacks, overlapped, cut, issued>> /\ Holds(r)
      BY <1>17 DEF ExtendSession, SaveRenewal, Holds
    <2>2. /\ store'[r.session] = Extended(r.copy)
          /\ \A s \in Sessions : s # r.session => store'[s] = store[s]
      BY <1>1, <1>17 DEF ExtendSession, SaveRenewal, Set, Typed, StoreOK
    <2>3. r.session \in Undisturbed' => r.copy.refresh = issued[r.session]
      BY <2>1 DEF Fresh, FreshOne, Undisturbed
    <2>. QED
      BY <1>4, <1>16, <2>1, <2>2, <2>3
  <1>18. ASSUME NEW r \in requests, Refresh(r) PROVE Fresh'
    <2>1. UNCHANGED <<callbacks, overlapped, cut, store>> /\ Holds(r)
      BY <1>18 DEF Refresh, Holds
    <2>2. CASE Accepts(r)
      <3>1. PICK new : /\ new.session = r.session /\ Holds(new)
                       /\ new.copy.refresh = Renewed(r.session)
                       /\ requests' = (requests \ {r}) \cup {new}
        <4> DEFINE q == [r EXCEPT !.phase = "save", !.copy = [@ EXCEPT !.refresh = Renewed(r.session)]]
        <4>1. q.session = r.session /\ q.phase = "save" /\ q.copy.refresh = Renewed(r.session)
          BY <1>1, <1>18, <2>1 DEF RequestOK, RowOK, Row, Request, Holds
        <4>2. requests' = (requests \ {r}) \cup {q}
          BY <1>18, <2>2 DEF Refresh
        <4> HIDE DEF q
        <4>. QED
          BY <4>1, <4>2 DEF Holds
      <3>2. /\ issued'[r.session] = Renewed(r.session)
            /\ \A s \in Sessions : s # r.session => issued'[s] = issued[s]
        BY <1>1, <1>3, <1>18, <2>2 DEF Refresh
      <3>. QED
        BY <1>5, <2>1, <3>1, <3>2
    <2>3. CASE ~Accepts(r)
      <3>1. Ends(r) /\ UNCHANGED issued
        BY <1>18, <2>3 DEF Refresh
      <3>2. r.session \in Undisturbed' => Accepts(r)
        BY <2>1 DEF Fresh, FreshOne, Undisturbed, Accepts
      <3>. QED
        BY <1>4, <2>1, <2>3, <3>1, <3>2
    <2>. QED
      BY <2>2, <2>3
  <1>19. ASSUME NEW r \in requests, RequestFault(r) PROVE Fresh'
    <2>1. Ends(r) /\ UNCHANGED <<callbacks, overlapped>> /\ cut' = cut \cup {r.session}
      BY <1>19 DEF RequestFault, Fault
    <2>2. \A s \in Sessions : s # r.session => store'[s] = store[s] /\ issued'[s] = issued[s]
      BY <1>3, <1>19 DEF RequestFault, Set, Typed, StoreOK
    <2>3. r.session \notin Undisturbed'
      BY <2>1 DEF Undisturbed
    <2>. QED
      BY <1>4, <2>1, <2>2, <2>3
  <1>20. ASSUME Cleanup PROVE Fresh'
    BY <1>6, <1>20 DEF Cleanup, PruneSessions
  <1>21. ASSUME UNCHANGED <<requests, callbacks, overlapped, cut, issued, store>> PROVE Fresh'
    BY <1>6, <1>21
  <1>22. Tick \/ UNCHANGED vars => Fresh'
    BY <1>21 DEF Tick, vars
  <1>. QED
    BY <1>7, <1>8, <1>9, <1>10, <1>12, <1>14, <1>15, <1>17, <1>18, <1>19, <1>20, <1>22 DEF Next

\* Without overlapping requests and cut-off ones, the refresh token that is stored
\* is the one that the provider takes next, whether it rotates them or not.
THEOREM TokenIsCurrent == Spec => []RenewableUnlessDisturbed
  <1>1. Fresh => RenewableUnlessDisturbed
    BY DEF Fresh, FreshOne, Undisturbed, RenewableUnlessDisturbed
  <1>. QED
    BY <1>1, FreshInit, FreshStep, TypedAlways, SingleAlways, PTL DEF Spec

=============================================================================
