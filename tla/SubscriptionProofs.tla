------------------------- MODULE SubscriptionProofs -------------------------
(***************************************************************************)
(* Proofs about Subscription, for every set of stores, payments and        *)
(* requests: its types, that no store is paid up to a date nobody granted, *)
(* how often a payment may be counted, that an answered payment is         *)
(* counted, that a renewal does not lift a suspension, and that it         *)
(* implements Entitlement while no request commits on a stale row.         *)
(***************************************************************************)
EXTENDS Subscription, FiniteSetTheorems, TLAPS

USE NamesAssumption, PeriodsAssumption, MonthsAssumption

(***************************************************************************)
(* What a request at work and a payment refer to.                          *)
(***************************************************************************)
Refers ==
    \A s \in Session :
        /\ sess[s].pc \in {"insert", "store", "write"} => sess[s].store \in Store
        /\ sess[s].pc = "push" => sess[s].payment \in Payment
        /\ sess[s].op = "callback" => /\ sess[s].payment \in Payment
                                      /\ payments[sess[s].payment].store \in Store
                                      /\ sess[s].pc \in {"store", "write"}

PaymentsHaveStores ==
    \A p \in Payment : payments[p].status # "absent" => payments[p].store \in Store

Base == TypeOK /\ Refers /\ PaymentsHaveStores

(***************************************************************************)
(* A date in hand is one the store had: it is within what was granted by   *)
(* then, and so within what is granted later.                              *)
(***************************************************************************)
LoadedIsGranted ==
    \A s \in Session : sess[s].pc = "write" =>
        /\ sess[s].t <= now
        /\ sess[s].loaded.ends <= now + Month * granted[sess[s].store]

DateInv == Base /\ NeverMoreThanGranted /\ LoadedIsGranted

(***************************************************************************)
(* The callbacks of a payment at work.  None begins once it is confirmed,  *)
(* so that what was counted and what may still be never exceed the         *)
(* requests there are.                                                     *)
(***************************************************************************)
Holders(p) == {s \in Session : sess[s].op = "callback" /\ sess[s].payment = p}

CountBounded ==
    \A p \in Payment :
        /\ posted[p] > 0 => payments[p].status = "confirmed"
        /\ posted[p] + Cardinality(Holders(p)) <= Cardinality(Session)

CountInv == Base /\ CountBounded

-----------------------------------------------------------------------------
(* Types *)

LEMMA IdleType == Idle \in Request /\ Absent \in Row
BY DEF Idle, Absent, Request, Row, Status

LEMMA BaseInit == Init => Base
<1> SUFFICES ASSUME Init PROVE Base
  OBVIOUS
<1>1. Idle \in Request /\ Absent \in Row
  BY IdleType
<1>2. TypeOK
  BY <1>1 DEF Init, TypeOK, NotAsked
<1>3. Refers
  BY DEF Init, Refers, Idle
<1>4. PaymentsHaveStores
  BY DEF Init, PaymentsHaveStores, NotAsked
<1> QED
  BY <1>2, <1>3, <1>4 DEF Base

\* The row a commit writes.
LEMMA WrittenType ==
    ASSUME NEW r \in Request, NEW row \in Row
    PROVE  Written(r, row) \in Row
<1> DEFINE a == Assigned(r)
<1>0. /\ r.loaded \in Row /\ r.t \in Nat /\ r.months \in Nat
  BY DEF Request
<1>1. Later(r.loaded.ends, r.t) \in Nat /\ Month * r.months \in Nat
  BY <1>0 DEF Row, Status, Later
<1>2. a \in Row
  <2> DEFINE ends == Later(r.loaded.ends, r.t) + Month * r.months
             trial == r.t + Trial
  <2>0. ends \in Nat /\ trial \in Nat
    BY <1>0, <1>1
  <2> HIDE DEF ends, trial
  <2>1. [r.loaded EXCEPT !.status = "active", !.ends = ends] \in Row
    BY <1>0, <2>0 DEF Row, Status
  <2>2. [r.loaded EXCEPT !.status = "cancelled", !.active = FALSE] \in Row
    BY <1>0 DEF Row, Status
  <2>3. [r.loaded EXCEPT !.status = "trialing", !.active = TRUE, !.trial = trial] \in Row
    BY <1>0, <2>0 DEF Row, Status
  <2> QED
    BY <2>1, <2>2, <2>3 DEF Assigned, ends, trial
<1> HIDE DEF a
<1>3. Written(r, row) =
        [status |-> IF a["status"] = r.loaded["status"] THEN row["status"] ELSE a["status"],
         trial |-> IF a["trial"] = r.loaded["trial"] THEN row["trial"] ELSE a["trial"],
         ends |-> IF a["ends"] = r.loaded["ends"] THEN row["ends"] ELSE a["ends"],
         active |-> IF a["active"] = r.loaded["active"] THEN row["active"] ELSE a["active"]]
  BY DEF Written, a
<1> QED
  BY <1>2, <1>3 DEF Row, Status

\* Requests of a commit: the committer's is over, the others' may be stale.
LEMMA EndsSess ==
    ASSUME Base, NEW s \in Session, Ends(s)
    PROVE  /\ sess' \in [Session -> Request]
           /\ sess'[s] = Idle
           /\ \A q \in Session \ {s} :
                /\ sess'[q].pc = sess[q].pc /\ sess'[q].op = sess[q].op
                /\ sess'[q].store = sess[q].store /\ sess'[q].payment = sess[q].payment
                /\ sess'[q].months = sess[q].months
                /\ sess'[q].loaded = sess[q].loaded /\ sess'[q].t = sess[q].t
                /\ sess'[q].stale = (sess[q].stale \/ HasRead(q, s))
<1>1. \A q \in Session : sess[q] \in Request
  BY DEF Base, TypeOK
<1>2. sess'[s] = Idle /\ DOMAIN sess' = Session
  BY DEF Ends
<1>3. \A q \in Session \ {s} :
        sess'[q] = [sess[q] EXCEPT !.stale = sess[q].stale \/ HasRead(q, s)]
  BY DEF Ends
<1>4. ASSUME NEW q \in Session \ {s} PROVE sess'[q] \in Request
  <2> DEFINE b == sess[q].stale \/ HasRead(q, s)
  <2>1. b \in BOOLEAN /\ sess'[q] = [sess[q] EXCEPT !.stale = b] /\ sess[q] \in Request
    BY <1>1, <1>3
  <2> HIDE DEF b
  <2> QED
    BY <2>1 DEF Request
<1>5. sess' \in [Session -> Request]
  BY <1>2, <1>4, IdleType DEF Ends
<1> QED
  BY <1>1, <1>2, <1>3, <1>5 DEF Request

LEMMA BaseRegister ==
    ASSUME Base, NEW s \in Session, NEW st \in Store, Register(s, st)
    PROVE  Base'
<1> DEFINE r == [Idle EXCEPT !.pc = "insert", !.op = "register", !.store = st, !.t = now]
<1>1. r \in Request /\ r.pc = "insert" /\ r.op = "register" /\ r.store = st
  BY DEF Base, TypeOK, Idle, Absent, Request, Row, Status
<1>2. sess' = [sess EXCEPT ![s] = r] /\ requests' = requests + 1
  BY DEF Register, Begin
<1> HIDE DEF r
<1> QED
  BY <1>1, <1>2 DEF Base, TypeOK, Refers, PaymentsHaveStores, Register, tables, ghosts

LEMMA BaseInsert ==
    ASSUME Base, NEW s \in Session, InsertStore(s)
    PROVE  Base'
<1> DEFINE st == sess[s].store
           row == [status |-> "trialing", trial |-> sess[s].t + Trial, ends |-> 0,
                   active |-> TRUE]
<1>1. st \in Store /\ sess[s].t \in Nat
  BY DEF Base, Refers, TypeOK, InsertStore, Request
<1>2. row \in Row
  BY <1>1 DEF Row, Status
<1>3. stores' = stores \/ stores' = [stores EXCEPT ![st] = row]
  BY DEF InsertStore
<1> HIDE DEF st, row
<1>4. stores' \in [Store -> Row]
  BY <1>1, <1>2, <1>3 DEF Base, TypeOK
<1>5. sess' = [sess EXCEPT ![s] = Idle]
  BY DEF InsertStore
<1>6. sess' \in [Session -> Request] /\ Refers'
  BY <1>5, IdleType DEF Base, TypeOK, Refers, InsertStore, Idle
<1> QED
  BY <1>4, <1>6 DEF Base, TypeOK, PaymentsHaveStores, InsertStore, ghosts

LEMMA BaseUpgrade ==
    ASSUME Base, NEW s \in Session, NEW st \in Store, NEW p \in Payment, NEW m \in Months,
           Upgrade(s, st, p, m)
    PROVE  Base'
<1> DEFINE r == [Idle EXCEPT !.pc = "push", !.op = "upgrade", !.payment = p]
           pay == [status |-> "pending", store |-> st, months |-> m]
<1>1. r \in Request /\ r.pc = "push" /\ r.op = "upgrade" /\ r.payment = p
  BY DEF Idle, Absent, Request, Row, Status
<1>2. pay \in [status : {"absent", "pending", "confirmed"},
               store : Store \cup {NoStore}, months : Nat]
      /\ pay.store \in Store
  OBVIOUS
<1>3. /\ sess' = [sess EXCEPT ![s] = r] /\ requests' = requests + 1
      /\ payments' = [payments EXCEPT ![p] = pay]
  BY DEF Upgrade, Begin
<1> HIDE DEF r, pay
<1>4. sess' \in [Session -> Request] /\ Refers'
  <2>1. sess' \in [Session -> Request] /\ sess'[s] = r
        /\ \A q \in Session \ {s} : sess'[q] = sess[q]
    BY <1>1, <1>3 DEF Base, TypeOK
  <2>2. \A o \in Payment : payments[o].store \in Store => payments'[o].store \in Store
    BY <1>2, <1>3 DEF Base, TypeOK
  <2> QED
    BY <1>1, <2>1, <2>2 DEF Base, Refers
<1>5. payments' \in [Payment -> [status : {"absent", "pending", "confirmed"},
                                 store : Store \cup {NoStore}, months : Nat]]
  BY <1>2, <1>3 DEF Base, TypeOK
<1>6. PaymentsHaveStores'
  BY <1>2, <1>3 DEF Base, TypeOK, PaymentsHaveStores
<1> QED
  BY <1>3, <1>4, <1>5, <1>6 DEF Base, TypeOK, Upgrade, ghosts

LEMMA BasePush ==
    ASSUME Base, NEW s \in Session, Push(s)
    PROVE  Base'
<1>1. sess' = [sess EXCEPT ![s] = Idle]
  BY DEF Push
<1>2. sess' \in [Session -> Request] /\ Refers'
  BY <1>1, IdleType DEF Base, TypeOK, Refers, Push, tables, Idle
<1>3. wire' \in [Payment -> {"none", "asked", "refused", "paid"}]
  BY DEF Base, TypeOK, Push
<1> QED
  BY <1>2, <1>3 DEF Base, TypeOK, PaymentsHaveStores, Push, tables, ghosts

LEMMA BaseCallback ==
    ASSUME Base, NEW s \in Session, NEW p \in Payment, Callback(s, p)
    PROVE  Base'
<1> DEFINE r == [Idle EXCEPT !.pc = "store", !.op = "callback", !.payment = p,
                             !.store = payments[p].store, !.months = payments[p].months]
<1>0. payments[p].store \in Store /\ payments[p].months \in Nat
  BY DEF Base, TypeOK, PaymentsHaveStores, Callback
<1>1. r \in Request /\ r.pc = "store" /\ r.payment = p /\ r.store = payments[p].store
  BY <1>0 DEF Idle, Absent, Request, Row, Status
<1>2. sess' = [sess EXCEPT ![s] = r] /\ requests' = requests + 1
  BY DEF Callback, Begin
<1> HIDE DEF r
<1>3. sess' \in [Session -> Request] /\ Refers'
  BY <1>0, <1>1, <1>2 DEF Base, TypeOK, Refers, Callback, tables
<1> QED
  BY <1>2, <1>3 DEF Base, TypeOK, PaymentsHaveStores, Callback, tables, ghosts

LEMMA BaseCommand ==
    ASSUME Base, NEW s \in Session, NEW op, NEW st \in Store, NEW m \in Months \cup {0},
           Command(s, op, st, m)
    PROVE  Base'
<1> DEFINE r == [Idle EXCEPT !.pc = "store", !.op = op, !.store = st, !.months = m]
<1>0. op \in {"activate", "suspend", "reinstate"} /\ m \in Nat
  BY DEF Command
<1>1. r \in Request /\ r.pc = "store" /\ r.op = op /\ r.store = st
  BY <1>0 DEF Idle, Absent, Request, Row, Status
<1>2. sess' = [sess EXCEPT ![s] = r] /\ requests' = requests + 1
  BY DEF Command, Begin
<1> HIDE DEF r
<1>3. sess' \in [Session -> Request] /\ Refers'
  BY <1>0, <1>1, <1>2 DEF Base, TypeOK, Refers, Command, tables
<1> QED
  BY <1>2, <1>3 DEF Base, TypeOK, PaymentsHaveStores, Command, tables, ghosts

LEMMA BaseLoad ==
    ASSUME Base, NEW s \in Session, Load(s)
    PROVE  /\ Base'
           /\ sess' = [sess EXCEPT ![s] = sess'[s]]
           /\ sess'[s].pc = "write" /\ sess'[s].op = sess[s].op
           /\ sess'[s].store = sess[s].store /\ sess'[s].payment = sess[s].payment
           /\ sess'[s].loaded = stores[sess[s].store] /\ sess'[s].t = now
<1> DEFINE r == [sess[s] EXCEPT !.pc = "write", !.t = now,
                                !.loaded = stores[sess[s].store]]
<1>0. /\ sess[s] \in Request /\ now \in Nat /\ stores[sess[s].store] \in Row
      /\ sess[s].store \in Store
  BY DEF Base, TypeOK, Refers, Load
<1>1. /\ r \in Request /\ r.pc = "write" /\ r.op = sess[s].op /\ r.store = sess[s].store
      /\ r.payment = sess[s].payment /\ r.loaded = stores[sess[s].store] /\ r.t = now
  BY <1>0 DEF Request
<1>2. sess' = [sess EXCEPT ![s] = r]
  BY DEF Load
<1> HIDE DEF r
<1>3. sess'[s] = r
  BY <1>2 DEF Base, TypeOK
<1>4. sess' \in [Session -> Request] /\ Refers'
  <2>1. sess' \in [Session -> Request] /\ \A q \in Session \ {s} : sess'[q] = sess[q]
    BY <1>1, <1>2 DEF Base, TypeOK
  <2>2. payments' = payments
    BY DEF Load, tables
  <2> QED
    BY <1>0, <1>1, <1>3, <2>1, <2>2 DEF Base, Refers
<1>5. Base'
  BY <1>4 DEF Base, TypeOK, PaymentsHaveStores, Load, tables, ghosts
<1> QED
  BY <1>1, <1>2, <1>3, <1>5

LEMMA BaseCommit ==
    ASSUME Base, NEW s \in Session, Commit(s)
    PROVE  Base'
<1> DEFINE r == sess[s]
           row == Written(r, stores[r.store])
<1>0. /\ r \in Request /\ r.store \in Store /\ stores[r.store] \in Row
      /\ r.months \in Nat
      /\ r.op = "callback" => /\ r.payment \in Payment
                              /\ payments[r.payment].store \in Store
  BY DEF Base, TypeOK, Refers, Commit, Request
<1>1. row \in Row
  BY <1>0, WrittenType
<1>2. stores' = [stores EXCEPT ![r.store] = row]
  BY DEF Commit
<1> HIDE DEF row
<1>3. stores' \in [Store -> Row]
  BY <1>0, <1>1, <1>2 DEF Base, TypeOK
<1>4. /\ granted' \in [Store -> Nat] /\ posted' \in [Payment -> Nat]
      /\ answered' \in SUBSET Payment
  BY <1>0 DEF Base, TypeOK, Commit
<1>p. payments' = payments \/ /\ r.op = "callback"
                               /\ payments' = [payments EXCEPT ![r.payment] =
                                     [payments[r.payment] EXCEPT !.status = "confirmed"]]
  BY DEF Commit
<1>5. \A p \in Payment : /\ payments'[p].store = payments[p].store
                         /\ payments'[p].months = payments[p].months
                         /\ \/ payments'[p].status = payments[p].status
                            \/ payments'[p].status = "confirmed" /\ r.op = "callback"
                               /\ r.payment = p
  <2>1. payments \in [Payment -> [status : {"absent", "pending", "confirmed"},
                                   store : Store \cup {NoStore}, months : Nat]]
    BY DEF Base, TypeOK
  <2>2. CASE payments' = payments
    BY <2>2
  <2>3. CASE payments' # payments
    BY <1>0, <1>p, <2>1, <2>3
  <2> QED
    BY <2>2, <2>3
<1>6. payments' \in [Payment -> [status : {"absent", "pending", "confirmed"},
                                 store : Store \cup {NoStore}, months : Nat]]
  BY <1>0, <1>p DEF Base, TypeOK
<1>7. PaymentsHaveStores'
  BY <1>0, <1>5 DEF Base, PaymentsHaveStores
<1>8. /\ sess' \in [Session -> Request] /\ sess'[s] = Idle
      /\ \A q \in Session \ {s} :
           /\ sess'[q].pc = sess[q].pc /\ sess'[q].op = sess[q].op
           /\ sess'[q].store = sess[q].store /\ sess'[q].payment = sess[q].payment
  BY <1>0, EndsSess DEF Commit
<1>9. Refers'
  BY <1>5, <1>8 DEF Base, Refers, Idle
<1> QED
  BY <1>3, <1>4, <1>6, <1>7, <1>8, <1>9 DEF Base, TypeOK, Commit

LEMMA BaseFail ==
    ASSUME Base, NEW s \in Session, Fail(s)
    PROVE  Base'
<1>1. sess' = [sess EXCEPT ![s] = Idle] /\ UNCHANGED tables
  BY DEF Fail
<1>2. sess' \in [Session -> Request] /\ Refers'
  BY <1>1, IdleType DEF Base, TypeOK, Refers, Idle, tables
<1>3. answered' \in SUBSET Payment /\ failed' \in SUBSET Payment
  BY DEF Base, TypeOK, Refers, Fail
<1> QED
  BY <1>1, <1>2, <1>3 DEF Base, TypeOK, PaymentsHaveStores, Fail, tables

LEMMA BaseCustomer ==
    ASSUME Base, NEW p \in Payment, Customer(p)
    PROVE  Base'
BY DEF Base, TypeOK, Refers, PaymentsHaveStores, Customer, tables, ghosts

LEMMA BaseTick == Base /\ Tick => Base'
BY DEF Base, TypeOK, Refers, PaymentsHaveStores, Tick, tables, ghosts

LEMMA BaseIdle == Base /\ UNCHANGED vars => Base'
BY DEF Base, TypeOK, Refers, PaymentsHaveStores, vars, tables, ghosts

LEMMA BaseStep == Base /\ [Next]_vars => Base'
<1> SUFFICES ASSUME Base, [Next]_vars PROVE Base'
  OBVIOUS
<1>1. ASSUME NEW s \in Session, Handler(s) PROVE Base'
  BY <1>1, BaseRegister, BaseInsert, BaseUpgrade, BasePush, BaseCallback, BaseCommand,
     BaseLoad, BaseCommit, BaseFail DEF Handler
<1> QED
  BY <1>1, BaseCustomer, BaseTick, BaseIdle DEF Next

\* The tables, Safaricom's side and the requests of the subscription keep their
\* shape (TypeOK).
THEOREM TypeCorrect == Spec => []TypeOK
<1>1. Init => Base
  BY BaseInit
<1>2. Base /\ [Next]_vars => Base'
  BY BaseStep
<1>3. Base => TypeOK
  BY DEF Base
<1> QED
  BY <1>1, <1>2, <1>3, PTL DEF Spec

-----------------------------------------------------------------------------
(* Dates *)

LEMMA DateInit == Init => DateInv
<1> SUFFICES ASSUME Init PROVE DateInv
  OBVIOUS
<1>1. Base
  BY BaseInit
<1>2. NeverMoreThanGranted
  BY DEF Init, NeverMoreThanGranted, Absent
<1>3. LoadedIsGranted
  BY DEF Init, LoadedIsGranted, Idle
<1> QED
  BY <1>1, <1>2, <1>3 DEF DateInv

\* What a request writes no date for, and what it holds no new date in, cannot
\* disturb the dates.
LEMMA DateFrame ==
    ASSUME DateInv, Base', UNCHANGED <<now, stores, granted>>,
           \A s \in Session : sess'[s].pc = "write" => sess'[s] = sess[s]
    PROVE  DateInv'
BY DEF DateInv, NeverMoreThanGranted, LoadedIsGranted

LEMMA MonthsAdd ==
    ASSUME NEW g \in Nat, NEW m \in Nat
    PROVE  /\ Month * (g + m) = Month * g + Month * m
           /\ Month * g \in Nat /\ Month * m \in Nat
OBVIOUS

LEMMA DateCommit ==
    ASSUME DateInv, Base', NEW s \in Session, Commit(s)
    PROVE  DateInv'
<1> DEFINE r == sess[s]
           st == r.store
           row == Written(r, stores[st])
           e == Assigned(r).ends
<1>b. Base /\ NeverMoreThanGranted /\ LoadedIsGranted
  BY DEF DateInv
<1>0. /\ r \in Request /\ st \in Store /\ stores[st] \in Row /\ now \in Nat
      /\ r.loaded \in Row /\ r.t \in Nat /\ r.months \in Nat
      /\ granted \in [Store -> Nat] /\ stores \in [Store -> Row]
  BY <1>b DEF Base, TypeOK, Refers, Commit, Request
<1>1. /\ r.t <= now /\ r.loaded.ends <= now + Month * granted[st]
      /\ stores[st].ends <= now + Month * granted[st]
      /\ r.loaded.ends \in Nat /\ stores[st].ends \in Nat
  BY <1>0, <1>b DEF Commit, LoadedIsGranted, NeverMoreThanGranted, Row
<1>2. row.ends = stores[st].ends \/ row.ends = e
  BY DEF Written
<1>3. e = r.loaded.ends \/ e = Later(r.loaded.ends, r.t) + Month * r.months
  BY <1>0 DEF Assigned, Row
<1>4. /\ Month * (granted[st] + r.months) = Month * granted[st] + Month * r.months
      /\ Month * granted[st] \in Nat /\ Month * r.months \in Nat
  BY <1>0, MonthsAdd
<1>5. /\ stores' = [stores EXCEPT ![st] = row]
      /\ granted' = [granted EXCEPT ![st] = granted[st] + r.months] /\ now' = now
  BY DEF Commit
<1>6. /\ sess'[s] = Idle
      /\ \A q \in Session \ {s} :
           /\ sess'[q].pc = sess[q].pc /\ sess'[q].store = sess[q].store
           /\ sess'[q].loaded = sess[q].loaded /\ sess'[q].t = sess[q].t
  BY <1>0, <1>b, EndsSess DEF Commit
<1>7. row.ends <= now + Month * (granted[st] + r.months)
  <2>1. Later(r.loaded.ends, r.t) <= now + Month * granted[st]
        /\ Later(r.loaded.ends, r.t) \in Nat
    BY <1>0, <1>1, <1>4 DEF Later
  <2> HIDE DEF row, e, st, r
  <2>2. e <= now + Month * granted[st] + Month * r.months
    BY <1>0, <1>1, <1>3, <1>4, <2>1
  <2> QED
    BY <1>0, <1>1, <1>2, <1>4, <2>2
<1> HIDE DEF row, e
<1>8. \A x \in Store : Month * granted[x] <= Month * granted'[x]
                      /\ Month * granted[x] \in Nat /\ Month * granted'[x] \in Nat
  <2> SUFFICES ASSUME NEW x \in Store
               PROVE  /\ Month * granted[x] <= Month * granted'[x]
                      /\ Month * granted[x] \in Nat /\ Month * granted'[x] \in Nat
    OBVIOUS
  <2>1. Month * granted[x] \in Nat
    BY <1>0, MonthsAdd
  <2>2. granted'[x] = IF x = st THEN granted[st] + r.months ELSE granted[x]
    BY <1>0, <1>5
  <2> QED
    BY <1>4, <2>1, <2>2
<1>9. NeverMoreThanGranted'
  <2> SUFFICES ASSUME NEW x \in Store
               PROVE  stores'[x].ends <= now' + Month * granted'[x]
    BY DEF NeverMoreThanGranted
  <2>1. CASE x = st
    BY <1>0, <1>5, <1>7, <2>1
  <2>2. CASE x # st
    BY <1>0, <1>b, <1>5, <2>2 DEF NeverMoreThanGranted
  <2> QED
    BY <2>1, <2>2
<1>10. LoadedIsGranted'
  <2> SUFFICES ASSUME NEW q \in Session, sess'[q].pc = "write"
               PROVE  /\ sess'[q].t <= now'
                      /\ sess'[q].loaded.ends <= now' + Month * granted'[sess'[q].store]
    BY DEF LoadedIsGranted
  <2>1. q # s
    BY <1>6 DEF Idle
  <2>2. /\ sess[q].t <= now
        /\ sess[q].loaded.ends <= now + Month * granted[sess[q].store]
        /\ sess[q].store \in Store
        /\ sess[q].loaded.ends \in Nat
    BY <1>b, <1>6, <2>1 DEF LoadedIsGranted, Base, Refers, TypeOK, Request, Row
  <2>3. Month * granted[sess[q].store] <= Month * granted'[sess[q].store]
        /\ Month * granted[sess[q].store] \in Nat /\ Month * granted'[sess[q].store] \in Nat
    BY <1>8, <2>2
  <2> QED
    BY <1>0, <1>5, <1>6, <2>1, <2>2, <2>3
<1> QED
  BY <1>9, <1>10 DEF DateInv

LEMMA DateStep == DateInv /\ [Next]_vars => DateInv'
<1> SUFFICES ASSUME DateInv, [Next]_vars PROVE DateInv'
  OBVIOUS
<1>b. Base /\ Base' /\ NeverMoreThanGranted /\ LoadedIsGranted
  BY BaseStep DEF DateInv
<1>t. /\ now \in Nat /\ granted \in [Store -> Nat] /\ stores \in [Store -> Row]
      /\ sess \in [Session -> Request]
  BY <1>b DEF Base, TypeOK
<1>1. ASSUME NEW s \in Session, UNCHANGED <<now, stores, granted>>,
             \A q \in Session \ {s} : sess'[q] = sess[q], sess'[s].pc # "write"
      PROVE  DateInv'
  BY <1>1, <1>b, DateFrame
<1>2. ASSUME NEW s \in Session, NEW r, r.pc # "write", Begin(s, r),
             UNCHANGED <<now, stores, granted>>
      PROVE  DateInv'
  BY <1>1, <1>2, <1>t DEF Begin
<1>3. ASSUME NEW s \in Session, sess' = [sess EXCEPT ![s] = Idle],
             UNCHANGED <<now, stores, granted>>
      PROVE  DateInv'
  BY <1>1, <1>3, <1>t DEF Idle
<1>4. ASSUME NEW s \in Session, NEW st \in Store, Register(s, st) PROVE DateInv'
  <2> DEFINE r == [Idle EXCEPT !.pc = "insert", !.op = "register", !.store = st, !.t = now]
  <2>1. r.pc # "write" /\ Begin(s, r) /\ UNCHANGED <<now, stores, granted>>
    BY <1>4 DEF Register, Idle, tables, ghosts
  <2> HIDE DEF r
  <2> QED
    BY <2>1, <1>2
<1>5. ASSUME NEW s \in Session, InsertStore(s) PROVE DateInv'
  <2>1. /\ \A x \in Store : stores'[x].ends = stores[x].ends \/ stores'[x].ends = 0
        /\ now' = now /\ granted' = granted /\ sess' = [sess EXCEPT ![s] = Idle]
    BY <1>5, <1>t DEF InsertStore, ghosts
  <2>2. \A x \in Store : Month * granted[x] \in Nat
    BY <1>t, MonthsAdd
  <2>3. NeverMoreThanGranted'
    BY <1>b, <1>t, <2>1, <2>2 DEF NeverMoreThanGranted
  <2>4. LoadedIsGranted'
    BY <1>b, <1>t, <2>1 DEF LoadedIsGranted, Idle
  <2> QED
    BY <1>b, <2>3, <2>4 DEF DateInv
<1>6. ASSUME NEW s \in Session, NEW st \in Store, NEW p \in Payment, NEW m \in Months,
             Upgrade(s, st, p, m)
      PROVE  DateInv'
  <2> DEFINE r == [Idle EXCEPT !.pc = "push", !.op = "upgrade", !.payment = p]
  <2>1. r.pc # "write" /\ Begin(s, r) /\ UNCHANGED <<now, stores, granted>>
    BY <1>6 DEF Upgrade, Idle, ghosts
  <2> HIDE DEF r
  <2> QED
    BY <2>1, <1>2
<1>7. ASSUME NEW s \in Session, Push(s) PROVE DateInv'
  BY <1>7, <1>3 DEF Push, tables, ghosts
<1>8. ASSUME NEW s \in Session, NEW p \in Payment, Callback(s, p) PROVE DateInv'
  <2> DEFINE r == [Idle EXCEPT !.pc = "store", !.op = "callback", !.payment = p,
                      !.store = payments[p].store, !.months = payments[p].months]
  <2>1. r.pc # "write" /\ Begin(s, r) /\ UNCHANGED <<now, stores, granted>>
    BY <1>8 DEF Callback, Idle, tables, ghosts
  <2> HIDE DEF r
  <2> QED
    BY <2>1, <1>2
<1>9. ASSUME NEW s \in Session, NEW op, NEW st \in Store, NEW m \in Months \cup {0},
             Command(s, op, st, m)
      PROVE  DateInv'
  <2> DEFINE r == [Idle EXCEPT !.pc = "store", !.op = op, !.store = st, !.months = m]
  <2>1. r.pc # "write" /\ Begin(s, r) /\ UNCHANGED <<now, stores, granted>>
    BY <1>9 DEF Command, Idle, tables, ghosts
  <2> HIDE DEF r
  <2> QED
    BY <2>1, <1>2
<1>10. ASSUME NEW s \in Session, Load(s) PROVE DateInv'
  <2>1. /\ sess' = [sess EXCEPT ![s] = sess'[s]] /\ sess'[s].store = sess[s].store
        /\ sess'[s].loaded = stores[sess[s].store] /\ sess'[s].t = now
    BY <1>10, <1>b, BaseLoad
  <2>2. /\ now' = now /\ stores' = stores /\ granted' = granted /\ sess[s].store \in Store
    BY <1>10, <1>b DEF Load, tables, ghosts, Base, Refers
  <2>3. NeverMoreThanGranted'
    BY <1>b, <2>2 DEF NeverMoreThanGranted
  <2>4. \A q \in Session \ {s} : sess'[q] = sess[q]
    BY <2>1, <1>t
  <2>5. LoadedIsGranted'
    BY <1>b, <1>t, <2>1, <2>2, <2>4 DEF LoadedIsGranted, NeverMoreThanGranted
  <2> QED
    BY <1>b, <2>3, <2>5 DEF DateInv
<1>11. ASSUME NEW s \in Session, Commit(s) PROVE DateInv'
  BY <1>11, <1>b, DateCommit
<1>12. ASSUME NEW s \in Session, Fail(s) PROVE DateInv'
  BY <1>12, <1>3 DEF Fail, tables
<1>13. ASSUME NEW p \in Payment, Customer(p) PROVE DateInv'
  BY <1>13, <1>b, DateFrame DEF Customer, tables, ghosts
<1>14. CASE Tick
  <2>1. now' = now + 1 /\ UNCHANGED <<stores, granted, sess>>
    BY <1>14 DEF Tick, tables, ghosts
  <2>2. \A x \in Store : Month * granted[x] \in Nat /\ stores[x].ends \in Nat
    BY <1>t, MonthsAdd DEF Row
  <2>3. NeverMoreThanGranted'
    BY <1>b, <1>t, <2>1, <2>2 DEF NeverMoreThanGranted
  <2>4. \A s \in Session : sess[s].t \in Nat /\ sess[s].loaded.ends \in Nat
    BY <1>t DEF Request, Row
  <2>5. LoadedIsGranted'
    BY <1>b, <1>t, <2>1, <2>2, <2>4 DEF LoadedIsGranted, Base, Refers
  <2> QED
    BY <1>b, <2>3, <2>5 DEF DateInv
<1>15. CASE UNCHANGED vars
  BY <1>15, <1>b, DateFrame DEF vars, tables, ghosts
<1> QED
  BY <1>4, <1>5, <1>6, <1>7, <1>8, <1>9, <1>10, <1>11, <1>12, <1>13, <1>14, <1>15
     DEF Next, Handler

\* No store is paid up to a date further away than all the months paid for or
\* given to it, whatever requests overlap (NeverMoreThanGranted).
THEOREM NoTimeFromNowhere == Spec => []NeverMoreThanGranted
<1>1. Init => DateInv
  BY DateInit
<1>2. DateInv /\ [Next]_vars => DateInv'
  BY DateStep
<1>3. DateInv => NeverMoreThanGranted
  BY DEF DateInv
<1> QED
  BY <1>1, <1>2, <1>3, PTL DEF Spec

-----------------------------------------------------------------------------
(* Counting *)

LEMMA HoldersFinite ==
    ASSUME NEW S \in SUBSET Session, NEW R \in SUBSET S
    PROVE  /\ IsFiniteSet(S) /\ Cardinality(R) \in Nat /\ Cardinality(S) \in Nat
           /\ Cardinality(R) <= Cardinality(S)
           /\ \A s \in S : Cardinality(S \ {s}) = Cardinality(S) - 1
<1>1. IsFiniteSet(S)
  BY SessionAssumption, FS_Subset
<1>2. IsFiniteSet(R) /\ Cardinality(R) <= Cardinality(S)
  BY <1>1, FS_Subset
<1>3. \A s \in S : Cardinality(S \ {s}) = Cardinality(S) - 1
  BY <1>1, FS_RemoveElement
<1> QED
  BY <1>1, <1>2, <1>3, FS_CardinalityType

LEMMA CountInit == Init => CountInv
<1> SUFFICES ASSUME Init PROVE CountInv
  OBVIOUS
<1>1. Base
  BY BaseInit
<1>2. \A p \in Payment : posted[p] = 0 /\ Holders(p) = {}
  BY DEF Init, Holders, Idle
<1>3. Cardinality({}) = 0 /\ Cardinality(Session) \in Nat
  BY FS_EmptySet, SessionAssumption, FS_CardinalityType
<1>4. CountBounded
  BY <1>2, <1>3 DEF CountBounded
<1> QED
  BY <1>1, <1>4 DEF CountInv

\* A step that counts nothing, takes no payment in hand and leaves what is
\* confirmed so.
LEMMA CountFrame ==
    ASSUME CountInv, Base', UNCHANGED posted,
           \A p \in Payment :
              payments[p].status = "confirmed" => payments'[p].status = "confirmed",
           \A p \in Payment : Holders(p)' \subseteq Holders(p)
    PROVE  CountInv'
<1>1. ASSUME NEW p \in Payment
      PROVE  posted[p] + Cardinality(Holders(p)') <= Cardinality(Session)
  <2> DEFINE H == Holders(p)
             G == Holders(p)'
  <2>0. H \in SUBSET Session /\ G \in SUBSET H
    BY DEF Holders
  <2>1. posted[p] + Cardinality(H) <= Cardinality(Session) /\ posted[p] \in Nat
    BY DEF CountInv, CountBounded, Base, TypeOK
  <2> HIDE DEF H, G
  <2>2. Cardinality(G) <= Cardinality(H) /\ Cardinality(G) \in Nat /\ Cardinality(H) \in Nat
    BY <2>0, HoldersFinite
  <2>3. Cardinality(Session) \in Nat
    BY SessionAssumption, FS_CardinalityType
  <2>4. posted[p] + Cardinality(G) <= Cardinality(Session)
    BY <2>1, <2>2, <2>3
  <2> QED
    BY <2>4 DEF G
<1> QED
  BY <1>1 DEF CountInv, CountBounded

\* Requests other than callbacks hold no payment to count.
LEMMA HoldersShrink ==
    ASSUME NEW s \in Session, sess'[s].op # "callback",
           \A q \in Session \ {s} :
              sess'[q].op = sess[q].op /\ sess'[q].payment = sess[q].payment
    PROVE  \A p \in Payment : Holders(p)' = Holders(p) \ {s}
BY DEF Holders

LEMMA CountCallback ==
    ASSUME CountInv, Base', NEW s \in Session, NEW p \in Payment, Callback(s, p)
    PROVE  CountInv'
<1>b. /\ payments' = payments /\ posted' = posted /\ posted[p] = 0
      /\ Holders(p)' \in SUBSET Session
  <2>1. payments' = payments /\ posted' = posted /\ payments[p].status = "pending"
    BY DEF Callback, tables, ghosts
  <2>2. posted[p] \in Nat /\ ~(posted[p] > 0)
    BY <2>1 DEF CountInv, CountBounded, Base, TypeOK
  <2>3. Holders(p)' \in SUBSET Session
    BY DEF Holders
  <2> QED
    BY <2>1, <2>2, <2>3
<1>1. ASSUME NEW o \in Payment
      PROVE  posted'[o] + Cardinality(Holders(o)') <= Cardinality(Session)
  <2>1. CASE o = p
    <3> DEFINE G == Holders(p)'
    <3>1. G \in SUBSET Session
      BY <1>b
    <3> HIDE DEF G
    <3>2. Cardinality(G) <= Cardinality(Session) /\ Cardinality(G) \in Nat
      BY <3>1, HoldersFinite
    <3> QED
      BY <1>b, <2>1, <3>2 DEF G
  <2>2. CASE o # p
    <3> DEFINE r == [Idle EXCEPT !.pc = "store", !.op = "callback", !.payment = p,
                        !.store = payments[p].store, !.months = payments[p].months]
    <3>1. r.payment = p /\ sess' = [sess EXCEPT ![s] = r] /\ sess[s].pc = "idle"
      BY DEF Callback, Begin, Idle
    <3> HIDE DEF r
    <3>2. sess[s].op # "callback"
      BY <3>1 DEF CountInv, Base, Refers
    <3>3. Holders(o)' = Holders(o)
      BY <2>2, <3>1, <3>2 DEF Holders, CountInv, Base, TypeOK
    <3> QED
      BY <1>b, <3>3 DEF CountInv, CountBounded
  <2> QED
    BY <2>1, <2>2
<1> QED
  BY <1>b, <1>1 DEF CountInv, CountBounded

LEMMA CountCommit ==
    ASSUME CountInv, Base', NEW s \in Session, Commit(s)
    PROVE  CountInv'
<1> DEFINE r == sess[s]
           p == r.payment
<1>b. Base /\ CountBounded /\ r.store \in Store
  BY DEF CountInv, Base, Refers, Commit
<1>1. /\ sess'[s] = Idle
      /\ \A q \in Session \ {s} :
           sess'[q].op = sess[q].op /\ sess'[q].payment = sess[q].payment
  BY <1>b, EndsSess DEF Commit
<1>2. \A o \in Payment : Holders(o)' = Holders(o) \ {s}
  BY <1>1, HoldersShrink DEF Idle
<1>3. CASE r.op # "callback"
  BY <1>2, <1>3, CountFrame DEF Commit
<1>4. CASE r.op = "callback"
  <2>1. /\ p \in Payment /\ s \in Holders(p)
        /\ posted' = [posted EXCEPT ![p] = posted[p] + 1]
        /\ payments' = [payments EXCEPT ![p] = [payments[p] EXCEPT !.status = "confirmed"]]
    BY <1>b, <1>4 DEF Commit, Base, Refers, Holders
  <2>2. posted \in [Payment -> Nat]
        /\ \A o \in Payment : payments'[o].status = payments[o].status
                              \/ (o = p /\ payments'[o].status = "confirmed")
    BY <1>b, <2>1 DEF Base, TypeOK
  <2>3. payments'[p].status = "confirmed"
    BY <1>b, <2>1 DEF Base, TypeOK
  <2>4. ASSUME NEW o \in Payment
        PROVE  posted'[o] + Cardinality(Holders(o)') <= Cardinality(Session)
    <3> DEFINE H == Holders(o)
    <3>1. H \in SUBSET Session /\ H \ {s} \in SUBSET H /\ Holders(o)' = H \ {s}
      BY <1>2 DEF Holders
    <3>2. posted[o] + Cardinality(H) <= Cardinality(Session)
          /\ (o = p => s \in H)
      BY <1>b, <2>1 DEF CountBounded
    <3>3. Cardinality(Session) \in Nat /\ posted[o] \in Nat
          /\ posted'[o] = IF o = p THEN posted[o] + 1 ELSE posted[o]
      BY SessionAssumption, FS_CardinalityType, <2>1, <2>2
    <3> HIDE DEF H, p
    <3>4. /\ Cardinality(H \ {s}) <= Cardinality(H)
          /\ Cardinality(H \ {s}) \in Nat /\ Cardinality(H) \in Nat
          /\ s \in H => Cardinality(H \ {s}) = Cardinality(H) - 1
      BY <3>1, HoldersFinite
    <3>5. posted'[o] + Cardinality(H \ {s}) <= Cardinality(Session)
      BY <3>2, <3>3, <3>4
    <3> QED
      BY <3>1, <3>5
  <2>5. \A o \in Payment : posted'[o] > 0 => payments'[o].status = "confirmed"
    BY <1>b, <2>1, <2>2, <2>3 DEF CountBounded
  <2> QED
    BY <2>4, <2>5 DEF CountInv, CountBounded
<1> QED
  BY <1>3, <1>4

LEMMA CountStep == CountInv /\ [Next]_vars => CountInv'
<1> SUFFICES ASSUME CountInv, [Next]_vars PROVE CountInv'
  OBVIOUS
<1>b. Base /\ Base'
  BY BaseStep DEF CountInv
<1>t. sess \in [Session -> Request] /\ payments \in [Payment -> [status : {"absent",
          "pending", "confirmed"}, store : Store \cup {NoStore}, months : Nat]]
  BY <1>b DEF Base, TypeOK
<1>1. ASSUME NEW s \in Session, NEW r, sess' = [sess EXCEPT ![s] = r], r.op # "callback",
             UNCHANGED posted,
             \A p \in Payment :
                payments[p].status = "confirmed" => payments'[p].status = "confirmed"
      PROVE  CountInv'
  <2>1. sess'[s] = r /\ \A q \in Session \ {s} : sess'[q] = sess[q]
    BY <1>1, <1>t
  <2>2. \A p \in Payment : Holders(p)' = Holders(p) \ {s}
    BY <1>1, <2>1, HoldersShrink
  <2> QED
    BY <1>1, <1>b, <2>2, CountFrame
<1>2. ASSUME NEW s \in Session, NEW st \in Store, Register(s, st) PROVE CountInv'
  <2> DEFINE r == [Idle EXCEPT !.pc = "insert", !.op = "register", !.store = st, !.t = now]
  <2>1. r.op # "callback" /\ sess' = [sess EXCEPT ![s] = r]
        /\ UNCHANGED <<posted, payments>>
    BY <1>2 DEF Register, Begin, Idle, tables, ghosts
  <2> HIDE DEF r
  <2> QED
    BY <2>1, <1>1
<1>3. ASSUME NEW s \in Session, sess' = [sess EXCEPT ![s] = Idle],
             UNCHANGED <<posted, payments>>
      PROVE  CountInv'
  <2>1. Idle.op # "callback"
    BY DEF Idle
  <2>2. \A p \in Payment :
           payments[p].status = "confirmed" => payments'[p].status = "confirmed"
    BY <1>3
  <2> QED
    BY <1>1, <1>3, <2>1, <2>2
<1>4. ASSUME NEW s \in Session, NEW st \in Store, NEW p \in Payment, NEW m \in Months,
             Upgrade(s, st, p, m)
      PROVE  CountInv'
  <2> DEFINE r == [Idle EXCEPT !.pc = "push", !.op = "upgrade", !.payment = p]
             pay == [status |-> "pending", store |-> st, months |-> m]
  <2>1. /\ r.op # "callback" /\ sess' = [sess EXCEPT ![s] = r] /\ UNCHANGED posted
        /\ payments[p].status = "absent" /\ payments' = [payments EXCEPT ![p] = pay]
    BY <1>4 DEF Upgrade, Begin, Idle, ghosts
  <2> HIDE DEF r, pay
  <2>2. \A o \in Payment :
           payments[o].status = "confirmed" => payments'[o].status = "confirmed"
    BY <2>1, <1>t
  <2> QED
    BY <2>1, <2>2, <1>1
<1>5. ASSUME NEW s \in Session, NEW op, NEW st \in Store, NEW m \in Months \cup {0},
             Command(s, op, st, m)
      PROVE  CountInv'
  <2> DEFINE r == [Idle EXCEPT !.pc = "store", !.op = op, !.store = st, !.months = m]
  <2>1. r.op # "callback" /\ sess' = [sess EXCEPT ![s] = r]
        /\ UNCHANGED <<posted, payments>>
    BY <1>5 DEF Command, Begin, Idle, tables, ghosts
  <2> HIDE DEF r
  <2> QED
    BY <2>1, <1>1
<1>6. ASSUME NEW s \in Session, Load(s) PROVE CountInv'
  <2>1. /\ sess' = [sess EXCEPT ![s] = sess'[s]] /\ sess'[s].op = sess[s].op
        /\ sess'[s].payment = sess[s].payment
    BY <1>6, <1>b, BaseLoad
  <2>2. \A q \in Session : sess'[q].op = sess[q].op /\ sess'[q].payment = sess[q].payment
    BY <2>1, <1>t
  <2>3. \A p \in Payment : Holders(p)' = Holders(p)
    BY <2>2 DEF Holders
  <2>4. UNCHANGED <<posted, payments>>
    BY <1>6 DEF Load, tables, ghosts
  <2> QED
    BY <1>b, <2>3, <2>4, CountFrame
<1>7. ASSUME UNCHANGED <<sess, posted, payments>> PROVE CountInv'
  BY <1>7, <1>b DEF CountInv, CountBounded, Holders
<1>8. ASSUME NEW s \in Session, InsertStore(s) PROVE CountInv'
  BY <1>8, <1>3 DEF InsertStore, ghosts
<1>9. ASSUME NEW s \in Session, Push(s) PROVE CountInv'
  BY <1>9, <1>3 DEF Push, tables, ghosts
<1>10. ASSUME NEW s \in Session, Fail(s) PROVE CountInv'
  BY <1>10, <1>3 DEF Fail, tables
<1>11. ASSUME NEW p \in Payment, Customer(p) PROVE CountInv'
  BY <1>11, <1>7 DEF Customer, tables, ghosts
<1>12. CASE Tick
  BY <1>12, <1>7 DEF Tick, tables, ghosts
<1>13. CASE UNCHANGED vars
  BY <1>13, <1>7 DEF vars, tables, ghosts
<1> QED
  BY <1>b, <1>2, <1>4, <1>5, <1>6, <1>8, <1>9, <1>10, <1>11, <1>12, <1>13, CountCallback,
     CountCommit DEF Next, Handler

\* However often Safaricom repeats a callback and whenever its deliveries
\* overlap, a payment is counted at most once by each request that can be at
\* work at a time (CountedByOverlapOnly).
THEOREM CountedOncePerOverlap == Spec => []CountedByOverlapOnly
<1>1. Init => CountInv
  BY CountInit
<1>2. CountInv /\ [Next]_vars => CountInv'
  BY CountStep
<1>3. CountInv => CountedByOverlapOnly
  <2> SUFFICES ASSUME CountInv, NEW p \in Payment
               PROVE  /\ posted[p] > 0 => payments[p].status = "confirmed"
                      /\ posted[p] <= Cardinality(Session)
    BY DEF CountedByOverlapOnly
  <2> DEFINE H == Holders(p)
  <2>1. /\ posted[p] \in Nat /\ H \in SUBSET Session
        /\ posted[p] > 0 => payments[p].status = "confirmed"
        /\ posted[p] + Cardinality(H) <= Cardinality(Session)
    BY DEF CountInv, CountBounded, Base, TypeOK, Holders
  <2> HIDE DEF H
  <2>2. Cardinality(H) \in Nat /\ Cardinality(Session) \in Nat
    BY <2>1, HoldersFinite, SessionAssumption, FS_CardinalityType
  <2> QED
    BY <2>1, <2>2
<1> QED
  BY <1>1, <1>2, <1>3, PTL DEF Spec

-----------------------------------------------------------------------------
(* Answers *)

AnswerInv == Base /\ AnsweredIsCounted

LEMMA AnswerStep == AnswerInv /\ [Next]_vars => AnswerInv'
<1> SUFFICES ASSUME AnswerInv, [Next]_vars PROVE AnswerInv'
  OBVIOUS
<1>b. Base /\ Base' /\ AnsweredIsCounted
  BY BaseStep DEF AnswerInv
<1>1. ASSUME UNCHANGED <<payments, posted>>, answered' \ failed' \subseteq answered \ failed
      PROVE  AnswerInv'
  BY <1>1, <1>b DEF AnswerInv, AnsweredIsCounted
<1>2. ASSUME NEW s \in Session, NEW st \in Store, NEW p \in Payment, NEW m \in Months,
             Upgrade(s, st, p, m)
      PROVE  AnswerInv'
  <2>1. /\ payments[p].status = "absent" /\ UNCHANGED <<posted, answered, failed>>
        /\ \A o \in Payment \ {p} : payments'[o] = payments[o]
    BY <1>2, <1>b DEF Upgrade, ghosts, Base, TypeOK
  <2>2. answered \subseteq Payment
    BY <1>b DEF Base, TypeOK
  <2> QED
    BY <1>b, <2>1, <2>2 DEF AnswerInv, AnsweredIsCounted
<1>3. ASSUME NEW s \in Session, Commit(s) PROVE AnswerInv'
  <2> DEFINE p == sess[s].payment
  <2>1. CASE sess[s].op # "callback"
    BY <1>1, <1>3, <2>1 DEF Commit
  <2>2. CASE sess[s].op = "callback"
    <3>1. /\ p \in Payment /\ answered' = answered \cup {p} /\ failed' = failed
          /\ posted' = [posted EXCEPT ![p] = posted[p] + 1]
          /\ payments' = [payments EXCEPT ![p] = [payments[p] EXCEPT !.status = "confirmed"]]
      BY <1>b, <1>3, <2>2 DEF Commit, Base, Refers
    <3>2. /\ posted[p] \in Nat /\ posted'[p] = posted[p] + 1
          /\ payments'[p].status = "confirmed"
          /\ \A o \in Payment \ {p} : payments'[o] = payments[o] /\ posted'[o] = posted[o]
          /\ answered \subseteq Payment
      BY <1>b, <3>1 DEF Base, TypeOK
    <3> HIDE DEF p
    <3> QED
      BY <1>b, <3>1, <3>2 DEF AnswerInv, AnsweredIsCounted
  <2> QED
    BY <2>1, <2>2
<1>4. ASSUME NEW s \in Session, Fail(s) PROVE AnswerInv'
  <2>1. UNCHANGED <<payments, posted>>
    BY <1>4 DEF Fail, tables
  <2>2. answered' \ failed' \subseteq answered \ failed
    BY <1>4 DEF Fail
  <2> QED
    BY <1>1, <2>1, <2>2
<1>5. ASSUME NEW s \in Session,
             \/ \E st \in Store : Register(s, st)
             \/ InsertStore(s) \/ Push(s) \/ Load(s)
             \/ \E p \in Payment : Callback(s, p)
             \/ \E op \in {"activate", "suspend", "reinstate"}, st \in Store,
                   m \in Months \cup {0} : Command(s, op, st, m)
      PROVE  AnswerInv'
  BY <1>1, <1>5 DEF Register, InsertStore, Push, Load, Callback, Command, tables, ghosts
<1>6. ASSUME Tick \/ UNCHANGED vars \/ \E p \in Payment : Customer(p) PROVE AnswerInv'
  BY <1>1, <1>6 DEF Tick, Customer, vars, tables, ghosts
<1> QED
  BY <1>2, <1>3, <1>4, <1>5, <1>6 DEF Next, Handler

\* A callback that was answered is counted, unless a request failed on its
\* payment (AnsweredIsCounted; subscription_mpesa_callback).
THEOREM AnswersAreCounted == Spec => []AnsweredIsCounted
<1>1. Init => AnswerInv
  BY BaseInit DEF Init, AnswerInv, AnsweredIsCounted
<1>2. AnswerInv /\ [Next]_vars => AnswerInv'
  BY AnswerStep
<1>3. AnswerInv => AnsweredIsCounted
  BY DEF AnswerInv
<1> QED
  BY <1>1, <1>2, <1>3, PTL DEF Spec

-----------------------------------------------------------------------------
(* Suspension *)

\* A grant to a store that was loaded as active leaves the status column alone.
LEMMA GrantKeepsStatus ==
    ASSUME NEW r \in Request, NEW row \in Row, Grants(r), r.loaded.status = "active"
    PROVE  Written(r, row).status = row.status
<1>1. r.loaded \in Row
  BY DEF Request
<1>2. Assigned(r).status = "active"
  <2> DEFINE ends == Later(r.loaded.ends, r.t) + Month * r.months
  <2>1. Assigned(r) = [r.loaded EXCEPT !.status = "active", !.ends = ends]
    BY DEF Assigned, Grants
  <2> HIDE DEF ends
  <2> QED
    BY <1>1, <2>1 DEF Row
<1> DEFINE a == Assigned(r)
<1>3. a["status"] = r.loaded["status"]
  BY <1>2
<1> HIDE DEF a
<1>4. Written(r, row).status =
        IF a["status"] = r.loaded["status"] THEN row["status"] ELSE a["status"]
  BY DEF Written, a
<1> QED
  BY <1>3, <1>4

LEMMA SuspensionStep ==
    ASSUME Base, NEW s \in Session, NEW st \in Store, sess[s].store = st, Commit(s),
           sess[s].loaded.status = "active", stores[st].status = "cancelled",
           Grants(sess[s])
    PROVE  ~IsPremium(st)'
<1>1. sess[s] \in Request /\ stores[st] \in Row /\ stores \in [Store -> Row]
  BY DEF Base, TypeOK
<1> DEFINE row == Written(sess[s], stores[st])
<1>2. row.status = "cancelled"
  BY <1>1, GrantKeepsStatus
<1>3. stores' = [stores EXCEPT ![st] = row]
  BY DEF Commit
<1> HIDE DEF row
<1>4. stores'[st].status = "cancelled"
  BY <1>1, <1>2, <1>3
<1> QED
  BY <1>4 DEF IsPremium

\* A renewal that overlaps the suspension of a paying store does not lift it
\* (SuspensionHolds; the columns SQLAlchemy writes).
THEOREM RenewalKeepsSuspension == Spec => SuspensionHolds
<1>1. Init => Base
  BY BaseInit
<1>2. Base /\ [Next]_vars => Base'
  BY BaseStep
<1>3. Base => \A s \in Session, st \in Store :
                 /\ sess[s].store = st
                 /\ Commit(s)
                 /\ sess[s].loaded.status = "active"
                 /\ stores[st].status = "cancelled"
                 /\ Grants(sess[s])
                 => ~IsPremium(st)'
  BY SuspensionStep
<1> QED
  BY <1>1, <1>2, <1>3, PTL DEF Spec, SuspensionHolds

-----------------------------------------------------------------------------
(* The refinement *)

Registered(st) == stores[st].status # "absent"

\* A store that is not registered has nothing yet, and a payment is one of a
\* registered store for months on sale, confirmed if it is counted.
OrdersAreSound ==
    /\ \A st \in Store : Registered(st) \/ stores[st] = Absent
    /\ \A p \in Payment : payments[p].status # "absent" =>
          Registered(payments[p].store) /\ payments[p].months \in Months
    /\ \A p \in Payment : posted[p] > 0 => payments[p].status = "confirmed"

\* A request that is not stale has the store's row as it is, and a callback
\* that is not stale has a payment nobody has counted.
RequestIsSound(s) ==
    /\ sess[s].t <= now
    /\ sess[s].pc \in {"store", "write"} =>
          /\ sess[s].op \in {"callback", "activate", "suspend", "reinstate"}
          /\ Registered(sess[s].store)
          /\ Grants(sess[s]) => sess[s].months \in Months
    /\ sess[s].op = "callback" =>
          /\ payments[sess[s].payment].status # "absent"
          /\ sess[s].stale \/ posted[sess[s].payment] = 0
    /\ sess[s].pc = "write" => sess[s].stale \/ sess[s].loaded = stores[sess[s].store]

ApartInv == Base /\ OrdersAreSound /\ \A s \in Session : RequestIsSound(s)

LEMMA ApartInit == Init => ApartInv
<1> SUFFICES ASSUME Init PROVE ApartInv
  OBVIOUS
<1>1. Base
  BY BaseInit
<1>2. OrdersAreSound
  BY DEF Init, OrdersAreSound, NotAsked
<1>3. \A s \in Session : RequestIsSound(s)
  BY DEF Init, RequestIsSound, Idle
<1> QED
  BY <1>1, <1>2, <1>3 DEF ApartInv

\* A step of one request that writes no store.
LEMMA ApartFrame ==
    ASSUME ApartInv, Base', NEW s \in Session, UNCHANGED <<now, stores, posted>>,
           \A p \in Payment : payments[p].status # "absent" => payments'[p].status # "absent",
           \A q \in Session \ {s} : sess'[q] = sess[q],
           OrdersAreSound', RequestIsSound(s)'
    PROVE  ApartInv'
<1>1. ASSUME NEW q \in Session \ {s} PROVE RequestIsSound(q)'
  <2>1. RequestIsSound(q) /\ (sess[q].op = "callback" => sess[q].payment \in Payment)
    BY DEF ApartInv, Base, Refers
  <2> QED
    BY <2>1 DEF RequestIsSound, Registered, Grants
<1> QED
  BY <1>1 DEF ApartInv

LEMMA IdleIsSound ==
    ASSUME Base, now' = now, NEW s \in Session, sess' = [sess EXCEPT ![s] = Idle]
    PROVE  RequestIsSound(s)'
<1>1. sess'[s] = Idle /\ now' \in Nat
  BY DEF Base, TypeOK
<1> QED
  BY <1>1 DEF RequestIsSound, Idle

LEMMA ApartBegin ==
    ASSUME ApartInv, Base', NEW s \in Session,
           \/ \E st \in Store : Register(s, st)
           \/ \E st \in Store, p \in Payment, m \in Months : Upgrade(s, st, p, m)
           \/ \E p \in Payment : Callback(s, p)
           \/ \E op \in {"activate", "suspend", "reinstate"}, st \in Store,
                 m \in Months \cup {0} : Command(s, op, st, m)
    PROVE  ApartInv'
<1>1. /\ TypeOK /\ now \in Nat /\ sess \in [Session -> Request] /\ OrdersAreSound
      /\ posted \in [Payment -> Nat]
  BY DEF ApartInv, Base, TypeOK
<1>2. UNCHANGED <<now, stores, posted>>
  BY DEF Register, Upgrade, Callback, Command, tables, ghosts
<1>3. \A q \in Session \ {s} : sess'[q] = sess[q]
  BY <1>1 DEF Register, Upgrade, Callback, Command, Begin
<1>p. \A p \in Payment : payments[p].status # "absent" => payments'[p].status # "absent"
  BY <1>1 DEF Register, Upgrade, Callback, Command, tables, TypeOK
<1>4. ASSUME NEW st \in Store, Register(s, st)
      PROVE  RequestIsSound(s)' /\ OrdersAreSound'
  <2>1. sess'[s] = [Idle EXCEPT !.pc = "insert", !.op = "register", !.store = st, !.t = now]
    BY <1>1, <1>4 DEF Register, Begin
  <2>2. sess'[s].pc = "insert" /\ sess'[s].op = "register" /\ sess'[s].t = now
    BY <2>1 DEF Idle
  <2>3. RequestIsSound(s)'
    BY <1>1, <1>2, <2>2 DEF RequestIsSound
  <2> QED
    BY <1>1, <1>4, <2>3 DEF OrdersAreSound, Registered, Register, tables, ghosts
<1>5. ASSUME NEW st \in Store, NEW p \in Payment, NEW m \in Months, Upgrade(s, st, p, m)
      PROVE  RequestIsSound(s)' /\ OrdersAreSound'
  <2>1. sess'[s] = [Idle EXCEPT !.pc = "push", !.op = "upgrade", !.payment = p]
    BY <1>1, <1>5 DEF Upgrade, Begin
  <2>2. sess'[s].pc = "push" /\ sess'[s].op = "upgrade" /\ sess'[s].t = 0
    BY <2>1 DEF Idle
  <2>3. RequestIsSound(s)'
    BY <1>1, <1>2, <2>2 DEF RequestIsSound
  <2>4. /\ payments[p].status = "absent" /\ Registered(st)
        /\ payments'[p] = [status |-> "pending", store |-> st, months |-> m]
        /\ \A o \in Payment \ {p} : payments'[o] = payments[o]
    BY <1>1, <1>5 DEF Upgrade, Registered, TypeOK
  <2>5. posted[p] = 0
    BY <1>1, <2>4 DEF OrdersAreSound
  <2>6. OrdersAreSound'
    BY <1>1, <1>2, <2>4, <2>5 DEF OrdersAreSound, Registered
  <2> QED
    BY <2>3, <2>6
<1>6. ASSUME NEW p \in Payment, Callback(s, p)
      PROVE  RequestIsSound(s)' /\ OrdersAreSound'
  <2>1. sess'[s] = [Idle EXCEPT !.pc = "store", !.op = "callback", !.payment = p,
                                !.store = payments[p].store, !.months = payments[p].months]
    BY <1>1, <1>6 DEF Callback, Begin
  <2>2. /\ sess'[s].pc = "store" /\ sess'[s].op = "callback" /\ sess'[s].t = 0
        /\ sess'[s].payment = p /\ sess'[s].store = payments[p].store
        /\ sess'[s].months = payments[p].months
    BY <2>1 DEF Idle
  <2>3. payments[p].status = "pending" /\ payments' = payments
    BY <1>6 DEF Callback, tables
  <2>4. /\ posted[p] = 0 /\ Registered(payments[p].store) /\ payments[p].months \in Months
    BY <1>1, <2>3 DEF OrdersAreSound
  <2>5. RequestIsSound(s)'
    BY <1>1, <1>2, <2>2, <2>3, <2>4 DEF RequestIsSound, Registered, Grants
  <2>6. OrdersAreSound'
    BY <1>1, <1>2, <2>3 DEF OrdersAreSound, Registered
  <2> QED
    BY <2>5, <2>6
<1>7. ASSUME NEW op \in {"activate", "suspend", "reinstate"}, NEW st \in Store,
             NEW m \in Months \cup {0}, Command(s, op, st, m)
      PROVE  RequestIsSound(s)' /\ OrdersAreSound'
  <2>1. sess'[s] = [Idle EXCEPT !.pc = "store", !.op = op, !.store = st, !.months = m]
    BY <1>1, <1>7 DEF Command, Begin
  <2>2. /\ sess'[s].pc = "store" /\ sess'[s].op = op /\ sess'[s].t = 0
        /\ sess'[s].store = st /\ sess'[s].months = m
    BY <2>1 DEF Idle
  <2>3. /\ op \in {"activate", "suspend", "reinstate"} /\ Registered(st)
        /\ op = "activate" => m \in Months
        /\ payments' = payments
    BY <1>7 DEF Command, Registered, tables
  <2>4. RequestIsSound(s)'
    BY <1>1, <1>2, <2>2, <2>3 DEF RequestIsSound, Registered, Grants
  <2>5. OrdersAreSound'
    BY <1>1, <1>2, <2>3 DEF OrdersAreSound, Registered
  <2> QED
    BY <2>4, <2>5
<1>8. RequestIsSound(s)' /\ OrdersAreSound'
  BY <1>4, <1>5, <1>6, <1>7
<1> QED
  BY <1>2, <1>3, <1>p, <1>8, ApartFrame

LEMMA ApartAside ==
    ASSUME ApartInv, Base', NEW s \in Session, Push(s) \/ Load(s) \/ Fail(s)
    PROVE  ApartInv'
<1>1. /\ Base /\ OrdersAreSound /\ sess \in [Session -> Request] /\ now \in Nat
      /\ RequestIsSound(s)
  BY DEF ApartInv, Base, TypeOK
<1>2. UNCHANGED <<now, stores, payments, posted>>
  BY DEF Push, Load, Fail, tables, ghosts
<1>3. \A q \in Session \ {s} : sess'[q] = sess[q]
  BY <1>1 DEF Push, Load, Fail
<1>4. OrdersAreSound'
  BY <1>1, <1>2 DEF OrdersAreSound, Registered
<1>5. RequestIsSound(s)'
  <2>1. CASE Push(s) \/ Fail(s)
    BY <1>1, <1>2, <2>1, IdleIsSound DEF Push, Fail
  <2>2. CASE Load(s)
    <3>1. sess'[s] = [sess[s] EXCEPT !.pc = "write", !.t = now,
                                     !.loaded = stores[sess[s].store]]
      BY <1>1, <2>2 DEF Load
    <3>2. /\ sess'[s].pc = "write" /\ sess'[s].t = now /\ sess'[s].op = sess[s].op
          /\ sess'[s].store = sess[s].store /\ sess'[s].payment = sess[s].payment
          /\ sess'[s].months = sess[s].months /\ sess'[s].stale = sess[s].stale
          /\ sess'[s].loaded = stores[sess[s].store]
      BY <1>1, <3>1 DEF Request
    <3>3. sess[s].pc = "store"
      BY <2>2 DEF Load
    <3> QED
      BY <1>1, <1>2, <3>2, <3>3 DEF RequestIsSound, Registered, Grants
  <2> QED
    BY <2>1, <2>2
<1> QED
  BY <1>2, <1>3, <1>4, <1>5, ApartFrame

LEMMA ApartInsert ==
    ASSUME ApartInv, Base', NEW s \in Session, InsertStore(s)
    PROVE  ApartInv'
<1> DEFINE st == sess[s].store
<1>1. /\ Base /\ OrdersAreSound /\ sess \in [Session -> Request] /\ stores \in [Store -> Row]
      /\ st \in Store /\ \A q \in Session : RequestIsSound(q)
  BY DEF ApartInv, Base, TypeOK, Refers, InsertStore
<1>2. UNCHANGED <<now, payments, posted>> /\ sess' = [sess EXCEPT ![s] = Idle]
  BY DEF InsertStore, ghosts
<1>3. \A o \in Store : /\ Registered(o) => stores'[o] = stores[o]
                       /\ stores'[o] = stores[o] \/ stores'[o].status = "trialing"
  BY <1>1 DEF InsertStore, Registered
<1>4. \A o \in Store : Registered(o) => stores'[o].status # "absent"
  BY <1>3 DEF Registered
<1>5. OrdersAreSound'
  <2>1. \A p \in Payment : payments[p].status # "absent" => payments[p].store \in Store
    BY <1>1 DEF Base, PaymentsHaveStores
  <2> QED
    BY <1>1, <1>2, <1>3, <1>4, <2>1 DEF OrdersAreSound, Registered
<1>6. RequestIsSound(s)'
  BY <1>1, <1>2, IdleIsSound
<1>7. ASSUME NEW q \in Session \ {s} PROVE RequestIsSound(q)'
  <2>1. sess'[q] = sess[q] /\ (sess[q].pc \in {"store", "write"} => sess[q].store \in Store)
    BY <1>1, <1>2 DEF Base, Refers
  <2>2. sess[q].pc \in {"store", "write"} =>
          stores'[sess[q].store] = stores[sess[q].store] /\ Registered(sess[q].store)
    BY <1>1, <1>3, <2>1 DEF RequestIsSound
  <2> QED
    BY <1>1, <1>2, <2>1, <2>2 DEF RequestIsSound, Registered, Grants
<1> QED
  BY <1>5, <1>6, <1>7 DEF ApartInv

\* A commit does not make a store absent.
LEMMA WrittenIsRegistered ==
    ASSUME NEW r \in Request, NEW row \in Row, row.status # "absent"
    PROVE  Written(r, row).status # "absent"
<1> DEFINE a == Assigned(r)
<1>1. r.loaded \in Row /\ r.t \in Nat
  BY DEF Request
<1>2. a.status # "absent"
  <2> DEFINE ends == Later(r.loaded.ends, r.t) + Month * r.months
             trial == r.t + Trial
  <2>1. \/ a = [r.loaded EXCEPT !.status = "active", !.ends = ends]
        \/ a = [r.loaded EXCEPT !.status = "cancelled", !.active = FALSE]
        \/ a = [r.loaded EXCEPT !.status = "trialing", !.active = TRUE, !.trial = trial]
    BY DEF Assigned
  <2> HIDE DEF ends, trial, a
  <2> QED
    BY <1>1, <2>1 DEF Row
<1> HIDE DEF a
<1>3. Written(r, row).status =
        IF a["status"] = r.loaded["status"] THEN row["status"] ELSE a["status"]
  BY DEF Written, a
<1> QED
  BY <1>2, <1>3

LEMMA ApartCommit ==
    ASSUME ApartInv, Base', NEW s \in Session, Commit(s)
    PROVE  ApartInv'
<1> DEFINE r == sess[s]
<1>1. /\ Base /\ OrdersAreSound /\ stores \in [Store -> Row]
      /\ r \in Request /\ r.store \in Store /\ stores[r.store] \in Row
      /\ \A q \in Session : RequestIsSound(q)
      /\ posted \in [Payment -> Nat]
  BY DEF ApartInv, Base, TypeOK, Refers, Commit
<1>2. now' = now /\ stores' = [stores EXCEPT ![r.store] = Written(r, stores[r.store])]
  BY DEF Commit
<1>3. /\ sess'[s] = Idle
      /\ \A q \in Session \ {s} :
           /\ sess'[q].pc = sess[q].pc /\ sess'[q].op = sess[q].op
           /\ sess'[q].store = sess[q].store /\ sess'[q].payment = sess[q].payment
           /\ sess'[q].months = sess[q].months
           /\ sess'[q].loaded = sess[q].loaded /\ sess'[q].t = sess[q].t
           /\ sess'[q].stale = (sess[q].stale \/ HasRead(q, s))
  BY <1>1, EndsSess DEF Commit
<1>4. Registered(r.store)
  BY <1>1 DEF RequestIsSound, Commit
<1>5. /\ \A o \in Store \ {r.store} : stores'[o] = stores[o]
      /\ stores'[r.store].status # "absent"
  BY <1>1, <1>2, <1>4, WrittenIsRegistered DEF Registered
<1>6. \A o \in Store : Registered(o) => stores'[o].status # "absent"
  BY <1>5 DEF Registered
<1>7. \A p \in Payment :
        /\ payments'[p].store = payments[p].store /\ payments'[p].months = payments[p].months
        /\ payments'[p].status = "confirmed" \/ payments'[p].status = payments[p].status
        /\ \/ posted'[p] = posted[p] /\ payments'[p].status = payments[p].status
           \/ /\ r.op = "callback" /\ r.payment = p
              /\ payments'[p].status = "confirmed"
  <2>1. payments \in [Payment -> [status : {"absent", "pending", "confirmed"},
                                  store : Store \cup {NoStore}, months : Nat]]
    BY <1>1 DEF Base, TypeOK
  <2>2. CASE r.op # "callback"
    BY <2>2 DEF Commit
  <2>3. CASE r.op = "callback"
    <3>1. /\ payments' = [payments EXCEPT ![r.payment] =
                              [payments[r.payment] EXCEPT !.status = "confirmed"]]
          /\ posted' = [posted EXCEPT ![r.payment] = posted[r.payment] + 1]
      BY <2>3 DEF Commit
    <3> QED
      BY <1>1, <2>1, <2>3, <3>1
  <2> QED
    BY <2>2, <2>3
<1>8. OrdersAreSound'
  <2>1. \A p \in Payment : payments[p].status # "absent" => payments[p].store \in Store
    BY <1>1 DEF Base, PaymentsHaveStores
  <2>2. r.op = "callback" => payments[r.payment].status # "absent"
    BY <1>1 DEF RequestIsSound
  <2>3. ASSUME NEW p \in Payment, payments'[p].status # "absent"
        PROVE  payments[p].status # "absent"
    BY <1>7, <2>2, <2>3
  <2> QED
    BY <1>1, <1>5, <1>6, <1>7, <2>1, <2>3 DEF OrdersAreSound, Registered
<1>9. RequestIsSound(s)'
  BY <1>1, <1>2, <1>3 DEF RequestIsSound, Idle, Base, TypeOK
<1>10. ASSUME NEW q \in Session \ {s} PROVE RequestIsSound(q)'
  <2>1. /\ sess[q].pc \in {"store", "write"} => sess[q].store \in Store
        /\ sess[q].op = "callback" => sess[q].payment \in Payment
    BY <1>1 DEF Base, Refers
  <2>2. /\ sess[q].t <= now
        /\ sess[q].pc \in {"store", "write"} =>
             /\ sess[q].op \in {"callback", "activate", "suspend", "reinstate"}
             /\ stores'[sess[q].store].status # "absent"
             /\ Grants(sess[q]) => sess[q].months \in Months
    BY <1>1, <1>6, <2>1 DEF RequestIsSound
  <2>3. sess[q].op = "callback" =>
          /\ payments'[sess[q].payment].status # "absent"
          /\ sess'[q].stale \/ posted'[sess[q].payment] = 0
    <3>1. SUFFICES ASSUME sess[q].op = "callback"
                   PROVE  /\ payments'[sess[q].payment].status # "absent"
                          /\ sess'[q].stale \/ posted'[sess[q].payment] = 0
      OBVIOUS
    <3>2. /\ payments[sess[q].payment].status # "absent"
          /\ sess[q].stale \/ posted[sess[q].payment] = 0
      BY <1>1, <3>1 DEF RequestIsSound
    <3>3. CASE HasRead(q, s)
      BY <1>3, <1>7, <2>1, <3>1, <3>2, <3>3
    <3>4. CASE ~HasRead(q, s)
      <4>1. posted'[sess[q].payment] = posted[sess[q].payment]
        BY <1>7, <2>1, <3>1, <3>4 DEF HasRead
      <4> QED
        BY <1>3, <1>7, <2>1, <3>1, <3>2, <4>1
    <3> QED
      BY <3>3, <3>4
  <2>4. sess[q].pc = "write" => sess'[q].stale \/ sess[q].loaded = stores'[sess[q].store]
    BY <1>1, <1>3, <1>5, <2>1 DEF RequestIsSound, HasRead
  <2> QED
    BY <1>2, <1>3, <2>2, <2>3, <2>4 DEF RequestIsSound, Registered, Grants
<1> QED
  BY <1>8, <1>9, <1>10 DEF ApartInv

LEMMA ApartStep == ApartInv /\ [Next]_vars => ApartInv'
<1> SUFFICES ASSUME ApartInv, [Next]_vars PROVE ApartInv'
  OBVIOUS
<1>1. Base /\ Base' /\ now \in Nat
  BY BaseStep DEF ApartInv, Base, TypeOK
<1>2. ASSUME NEW s \in Session, Handler(s) PROVE ApartInv'
  BY <1>1, <1>2, ApartBegin, ApartInsert, ApartAside, ApartCommit DEF Handler
<1>3. CASE Tick \/ UNCHANGED vars \/ \E p \in Payment : Customer(p)
  <2>1. /\ UNCHANGED <<stores, payments, posted, sess>> /\ now' \in {now, now + 1}
    BY <1>3 DEF Tick, Customer, vars, tables, ghosts
  <2>2. \A s \in Session : sess[s].t \in Nat
    BY <1>1 DEF Base, TypeOK, Request
  <2> QED
    BY <1>1, <2>1, <2>2 DEF ApartInv, OrdersAreSound, RequestIsSound, Registered, Grants
<1> QED
  BY <1>2, <1>3 DEF Next

\* What a commit on fresh data writes is what it assigned.
LEMMA FreshIsAssigned ==
    ASSUME NEW r \in Request, NEW row, row = Written(r, r.loaded)
    PROVE  /\ row.status = Assigned(r).status /\ row.trial = Assigned(r).trial
           /\ row.ends = Assigned(r).ends
BY DEF Written

\* What an opening, an extension and a closing assign.
LEMMA AssignedFields ==
    ASSUME NEW r \in Request
    PROVE  /\ Grants(r) => /\ Assigned(r).status = "active"
                           /\ Assigned(r).trial = r.loaded.trial
                           /\ Assigned(r).ends = Later(r.loaded.ends, r.t) + Month * r.months
           /\ r.op = "suspend" => /\ Assigned(r).status = "cancelled"
                                  /\ Assigned(r).trial = r.loaded.trial
                                  /\ Assigned(r).ends = r.loaded.ends
           /\ r.op = "reinstate" => /\ Assigned(r).status = "trialing"
                                    /\ Assigned(r).trial = r.t + Trial
                                    /\ Assigned(r).ends = r.loaded.ends
<1> DEFINE ends == Later(r.loaded.ends, r.t) + Month * r.months
           trial == r.t + Trial
<1>1. r.loaded \in Row
  BY DEF Request
<1>2. /\ Grants(r) => Assigned(r) = [r.loaded EXCEPT !.status = "active", !.ends = ends]
      /\ r.op = "suspend" =>
            Assigned(r) = [r.loaded EXCEPT !.status = "cancelled", !.active = FALSE]
      /\ r.op = "reinstate" =>
            Assigned(r) = [r.loaded EXCEPT !.status = "trialing", !.active = TRUE,
                                           !.trial = trial]
  BY DEF Assigned, Grants
<1> HIDE DEF ends, trial
<1>3. /\ Grants(r) => /\ Assigned(r).status = "active"
                      /\ Assigned(r).trial = r.loaded.trial /\ Assigned(r).ends = ends
      /\ r.op = "suspend" => /\ Assigned(r).status = "cancelled"
                             /\ Assigned(r).trial = r.loaded.trial
                             /\ Assigned(r).ends = r.loaded.ends
      /\ r.op = "reinstate" => /\ Assigned(r).status = "trialing"
                               /\ Assigned(r).trial = trial
                               /\ Assigned(r).ends = r.loaded.ends
  BY <1>1, <1>2 DEF Row
<1> QED
  BY <1>3 DEF ends, trial

\* The store columns as Entitlement sees them, when st's row becomes row.
LEMMA MappedStore ==
    ASSUME Base, NEW st \in Store, NEW row, stores' = [stores EXCEPT ![st] = row]
    PROVE  /\ [o \in Store |-> stores'[o].status] =
                [[o \in Store |-> stores[o].status] EXCEPT ![st] = row.status]
           /\ [o \in Store |-> stores'[o].trial] =
                [[o \in Store |-> stores[o].trial] EXCEPT ![st] = row.trial]
           /\ [o \in Store |-> stores'[o].ends] =
                [[o \in Store |-> stores[o].ends] EXCEPT ![st] = row.ends]
BY DEF Base, TypeOK

LEMMA InsertIsPromised ==
    ASSUME ApartInv, NEW s \in Session, InsertStore(s)
    PROVE  Promised!Next \/ UNCHANGED Promised!vars
<1>0. PICK st : st = sess[s].store
  OBVIOUS
<1> DEFINE row == [status |-> "trialing", trial |-> sess[s].t + Trial, ends |-> 0,
                   active |-> TRUE]
<1>1. /\ Base /\ OrdersAreSound /\ RequestIsSound(s) /\ st \in Store
      /\ sess[s].t \in Nat /\ now \in Nat /\ stores \in [Store -> Row]
  BY <1>0 DEF ApartInv, Base, Refers, InsertStore, TypeOK, Request
<1>2. UNCHANGED <<now, posted>>
  BY DEF InsertStore, ghosts
<1>3. CASE stores' = stores
  BY <1>2, <1>3 DEF Promised!vars
<1>4. CASE stores' # stores
  <2>1. ~Registered(st) /\ stores' = [stores EXCEPT ![st] = row]
    BY <1>0, <1>4 DEF InsertStore, Registered
  <2>2. row.status = "trialing" /\ row.trial = sess[s].t + Trial /\ row.ends = 0
    OBVIOUS
  <2> HIDE DEF row
  <2>3. stores[st].ends = 0
    BY <1>1, <2>1 DEF OrdersAreSound, Absent
  <2>4. sess[s].t \in 0..now
    BY <1>1 DEF RequestIsSound
  <2>5. Promised!Open(st)
    <3>1. [o \in Store |-> stores'[o].status] =
            [[o \in Store |-> stores[o].status] EXCEPT ![st] = "trialing"]
      BY <1>1, <2>1, <2>2, MappedStore
    <3>2. [o \in Store |-> stores'[o].trial] =
            [[o \in Store |-> stores[o].trial] EXCEPT ![st] = sess[s].t + Trial]
      BY <1>1, <2>1, <2>2, MappedStore
    <3>3. [o \in Store |-> stores'[o].ends] = [o \in Store |-> stores[o].ends]
      BY <1>1, <2>1, <2>2, <2>3
    <3> QED
      BY <1>2, <2>4, <3>1, <3>2, <3>3 DEF Promised!Open
  <2> QED
    BY <1>1, <2>5 DEF Promised!Next
<1> QED
  BY <1>3, <1>4

LEMMA CommitIsPromised ==
    ASSUME ApartInv, NEW s \in Session, Commit(s), ~sess[s].stale
    PROVE  Promised!Next
<1>1. PICK r, st : r = sess[s] /\ st = r.store
  OBVIOUS
<1>2. /\ Base /\ RequestIsSound(s) /\ r.pc = "write"
      /\ r \in Request /\ st \in Store /\ now \in Nat /\ r.t \in Nat
      /\ stores \in [Store -> Row] /\ r.loaded \in Row
      /\ posted \in [Payment -> Nat]
      /\ r.op = "callback" => r.payment \in Payment
  BY <1>1 DEF ApartInv, Base, Refers, Commit, TypeOK, Request
<1>3. /\ r.loaded = stores[st] /\ r.t \in 0..now /\ Registered(st)
      /\ r.op \in {"callback", "activate", "suspend", "reinstate"}
      /\ Grants(r) => r.months \in Months
      /\ r.op = "callback" => posted[r.payment] = 0
  BY <1>1, <1>2 DEF RequestIsSound
<1>4. PICK row : row = Written(r, r.loaded)
  OBVIOUS
<1>5. stores' = [stores EXCEPT ![st] = row] /\ now' = now
  BY <1>1, <1>3, <1>4 DEF Commit
<1>6. /\ [o \in Store |-> stores'[o].status] =
           [[o \in Store |-> stores[o].status] EXCEPT ![st] = row.status]
      /\ [o \in Store |-> stores'[o].trial] =
           [[o \in Store |-> stores[o].trial] EXCEPT ![st] = row.trial]
      /\ [o \in Store |-> stores'[o].ends] =
           [[o \in Store |-> stores[o].ends] EXCEPT ![st] = row.ends]
  BY <1>2, <1>5, MappedStore
<1>7. /\ row.status = Assigned(r).status /\ row.trial = Assigned(r).trial
      /\ row.ends = Assigned(r).ends
  BY <1>2, <1>4, FreshIsAssigned
<1>8. CASE Grants(r)
  <2>1. /\ row.status = "active" /\ row.trial = stores[st].trial
        /\ row.ends = Later(stores[st].ends, r.t) + Month * r.months
    BY <1>2, <1>3, <1>7, <1>8, AssignedFields
  <2>2. Promised!Extend(st, r.months)
    <3>1. [o \in Store |-> stores'[o].trial] = [o \in Store |-> stores[o].trial]
      BY <1>2, <1>5, <2>1
    <3>2. [o \in Store |-> stores'[o].ends] =
            [[o \in Store |-> stores[o].ends] EXCEPT ![st] =
               (IF @ > r.t THEN @ ELSE r.t) + Month * r.months]
      BY <1>2, <1>6, <2>1 DEF Later
    <3> QED
      BY <1>2, <1>3, <1>5, <1>6, <2>1, <3>1, <3>2 DEF Promised!Extend, Registered
  <2>3. CASE r.op = "callback"
    <3>1. posted' = [posted EXCEPT ![r.payment] = posted[r.payment] + 1]
      BY <1>1, <2>3 DEF Commit
    <3>2. {p \in Payment : posted'[p] > 0} = {p \in Payment : posted[p] > 0} \cup {r.payment}
      BY <1>2, <2>3, <3>1
    <3>3. Promised!Count(st, r.payment, r.months)
      BY <1>2, <1>3, <2>2, <2>3, <3>2 DEF Promised!Count
    <3> QED
      BY <1>2, <1>3, <1>8, <2>3, <3>3 DEF Promised!Next
  <2>4. CASE r.op # "callback"
    <3>1. posted' = posted
      BY <1>1, <2>4 DEF Commit
    <3>2. Promised!Give(st, r.months)
      BY <2>2, <3>1 DEF Promised!Give
    <3> QED
      BY <1>2, <1>3, <1>8, <3>2 DEF Promised!Next
  <2> QED
    BY <2>3, <2>4
<1>9. CASE r.op \in {"suspend", "reinstate"}
  <2>1. posted' = posted
    BY <1>1, <1>9 DEF Commit
  <2>2. row.ends = stores[st].ends
    BY <1>2, <1>3, <1>7, <1>9, AssignedFields
  <2>3. [o \in Store |-> stores'[o].ends] = [o \in Store |-> stores[o].ends]
    BY <1>2, <1>5, <2>2
  <2>4. CASE r.op = "suspend"
    <3>1. row.status = "cancelled" /\ row.trial = stores[st].trial
      BY <1>2, <1>3, <1>7, <2>4, AssignedFields
    <3>2. [o \in Store |-> stores'[o].trial] = [o \in Store |-> stores[o].trial]
      BY <1>2, <1>5, <3>1
    <3>3. Promised!Close(st)
      BY <1>5, <1>6, <2>1, <2>3, <3>1, <3>2 DEF Promised!Close
    <3> QED
      BY <1>2, <3>3 DEF Promised!Next
  <2>5. CASE r.op = "reinstate"
    <3>1. row.status = "trialing" /\ row.trial = r.t + Trial
      BY <1>2, <1>3, <1>7, <2>5, AssignedFields
    <3>2. Promised!Open(st)
      <4>1. /\ [o \in Store |-> stores'[o].status] =
                 [[o \in Store |-> stores[o].status] EXCEPT ![st] = "trialing"]
            /\ [o \in Store |-> stores'[o].trial] =
                 [[o \in Store |-> stores[o].trial] EXCEPT ![st] = r.t + Trial]
        BY <1>6, <3>1
      <4> QED
        BY <1>3, <1>5, <2>1, <2>3, <4>1 DEF Promised!Open
    <3> QED
      BY <1>2, <3>2 DEF Promised!Next
  <2> QED
    BY <1>9, <2>4, <2>5
<1> QED
  BY <1>3, <1>8, <1>9 DEF Grants

LEMMA StepIsPromised ==
    ApartInv /\ [Next]_vars => [CommitsStale \/ Promised!Next]_(Promised!vars)
<1> SUFFICES ASSUME ApartInv, [Next]_vars
             PROVE  CommitsStale \/ Promised!Next \/ UNCHANGED Promised!vars
  OBVIOUS
<1>1. CASE UNCHANGED <<now, stores, posted>>
  BY <1>1 DEF Promised!vars
<1>2. ASSUME NEW s \in Session, Handler(s)
      PROVE  CommitsStale \/ Promised!Next \/ UNCHANGED Promised!vars
  <2>1. CASE Commit(s)
    BY <2>1, CommitIsPromised DEF CommitsStale
  <2>2. CASE InsertStore(s)
    BY <2>2, InsertIsPromised
  <2>3. CASE ~Commit(s) /\ ~InsertStore(s)
    <3>1. UNCHANGED <<now, stores, posted>>
      BY <1>2, <2>3 DEF Handler, Register, Upgrade, Push, Callback, Command, Load, Fail,
                        tables, ghosts
    <3> QED
      BY <1>1, <3>1
  <2> QED
    BY <2>1, <2>2, <2>3
<1>3. CASE Tick
  <2>1. now' = now + 1 /\ UNCHANGED <<stores, posted>>
    BY <1>3 DEF Tick, tables, ghosts
  <2>2. Promised!Pass
    BY <2>1 DEF Promised!Pass
  <2> QED
    BY <2>2 DEF Promised!Next
<1>4. CASE UNCHANGED vars \/ \E p \in Payment : Customer(p)
  <2>1. UNCHANGED <<now, stores, posted>>
    BY <1>4 DEF vars, Customer, tables, ghosts
  <2> QED
    BY <1>1, <2>1
<1> QED
  BY <1>2, <1>3, <1>4 DEF Next

\* Requests that are apart do what Entitlement promises: but for commits on rows
\* that another request has written since they were read, every step of the
\* handlers is one of the abstract specification or changes nothing of it.
THEOREM ApartRefines == Spec => ApartIsExact
<1>1. Init => ApartInv
  BY ApartInit
<1>2. ApartInv /\ [Next]_vars => ApartInv'
  BY ApartStep
<1>3. ApartInv /\ [Next]_vars => [CommitsStale \/ Promised!Next]_(Promised!vars)
  BY StepIsPromised
<1>4. Init => Promised!Init
  BY DEF Init, Absent, Promised!Init
<1> QED
  BY <1>1, <1>2, <1>3, <1>4, PTL DEF Spec, ApartIsExact
=============================================================================
