---------------------------- MODULE Subscription ----------------------------
(***************************************************************************)
(* What a store has paid for: trial, upgrade over M-PESA, the callback     *)
(* that activates the plan, manual activation, suspension, reinstatement.  *)
(*                                                                         *)
(* Code: backend/app/routers/subscription.py, routers/platform.py,         *)
(* models/subscription.py (Store, SubPayment), core/deps.py                *)
(* (require_premium), services/mpesa.py (stk_push).                        *)
(*                                                                         *)
(* A session is a request in one of the workers.  No handler locks a row:  *)
(* each reads the payment, then the store, computes with what it read and  *)
(* the clock, and commits.  SQLAlchemy's UPDATE holds only the columns     *)
(* whose value differs from the one that was loaded, and those columns     *)
(* hold absolute values.  Other requests commit between any two reads.     *)
(*                                                                         *)
(* Abstracted: plans and prices, names, the signature of a callback        *)
(* (a callback comes from Safaricom), which admin asks.  Time is a clock   *)
(* of whole periods; sub_ends_at NULL is 0, which is never ahead of it: an *)
(* ACTIVE store always has a date.                                         *)
(***************************************************************************)
EXTENDS Integers, FiniteSets

CONSTANTS
    Store,          \* stores, each known by the e-mail of its admin
    Payment,        \* ids of sub_payments
    Session,        \* requests at work at once
    NoStore, NoPayment,
    Trial,          \* TRIAL_DAYS
    Month,          \* the days of a month of a plan
    Months,         \* the numbers of months on sale
    MaxTime,        \* bound: the clock
    MaxRequests     \* bound: requests of a behaviour

ASSUME NamesAssumption == NoStore \notin Store /\ NoPayment \notin Payment
ASSUME SessionAssumption == IsFiniteSet(Session)
ASSUME PeriodsAssumption == Trial \in Nat \ {0} /\ Month \in Nat \ {0}
ASSUME MonthsAssumption == Months \subseteq Nat
ASSUME BoundsAssumption == MaxTime \in Nat /\ MaxRequests \in Nat

VARIABLES
    now,
    stores,     \* the stores table
    payments,   \* the sub_payments table
    wire,       \* Safaricom: how far the push of each payment got
    sess,       \* what each request has in hand
    answered,   \* payments whose confirmation was answered "Accepted"
    failed,     \* payments one of whose callbacks ended in an exception
    posted,     \* extensions committed for each payment
    granted,    \* months committed for each store, paid or given
    requests    \* requests so far (bounds the model)

tables == <<stores, payments>>
ghosts == <<answered, failed, posted, granted>>
vars   == <<now, stores, payments, wire, sess, ghosts, requests>>

-----------------------------------------------------------------------------
(* State *)

Status == {"absent", "trialing", "active", "cancelled"}

Row == [status : Status, trial : Nat, ends : Nat, active : BOOLEAN]

\* What a request holds: loaded is the store's row as it read it, t its look
\* at the clock, stale whether another request has written since what it read.
Request == [pc : {"idle", "insert", "push", "store", "write"},
            op : {"none", "register", "upgrade", "callback", "activate",
                  "suspend", "reinstate"},
            store : Store \cup {NoStore}, payment : Payment \cup {NoPayment},
            months : Nat, loaded : Row, t : Nat, stale : BOOLEAN]

Absent == [status |-> "absent", trial |-> 0, ends |-> 0, active |-> FALSE]

Idle == [pc |-> "idle", op |-> "none", store |-> NoStore, payment |-> NoPayment,
         months |-> 0, loaded |-> Absent, t |-> 0, stale |-> FALSE]

NotAsked == [status |-> "absent", store |-> NoStore, months |-> 0]

\* The tables and the requests keep their shape.
TypeOK ==
    /\ now \in Nat
    /\ stores \in [Store -> Row]
    /\ payments \in [Payment -> [status : {"absent", "pending", "confirmed"},
                                 store : Store \cup {NoStore}, months : Nat]]
    /\ wire \in [Payment -> {"none", "asked", "refused", "paid"}]
    /\ sess \in [Session -> Request]
    /\ answered \in SUBSET Payment
    /\ failed \in SUBSET Payment
    /\ posted \in [Payment -> Nat]
    /\ granted \in [Store -> Nat]
    /\ requests \in Nat

Init ==
    /\ now = 0
    /\ stores = [st \in Store |-> Absent]
    /\ payments = [p \in Payment |-> NotAsked]
    /\ wire = [p \in Payment |-> "none"]
    /\ sess = [s \in Session |-> Idle]
    /\ answered = {} /\ failed = {}
    /\ posted = [p \in Payment |-> 0]
    /\ granted = [st \in Store |-> 0]
    /\ requests = 0

\* (Mistake) a renewal starts now, whatever is left of the time paid for.
FromNow(a, b) == b

Later(a, b) == IF a > b THEN a ELSE b

\* Store.is_premium.
IsPremium(st) ==
    \/ stores[st].status = "trialing" /\ stores[st].trial > now
    \/ stores[st].status = "active" /\ stores[st].ends > now

-----------------------------------------------------------------------------
(* Requests *)

Begin(s, r) ==
    /\ sess[s].pc = "idle"
    /\ requests < MaxRequests
    /\ sess' = [sess EXCEPT ![s] = r]
    /\ requests' = requests + 1

\* What q has read of the rows that a commit of s writes.
HasRead(q, s) ==
    \/ sess[q].pc = "write" /\ sess[q].store = sess[s].store
    \/ sess[q].op = "callback" /\ sess[q].payment = sess[s].payment

\* A commit makes stale what the others have read of its rows.
Ends(s) ==
    sess' = [q \in Session |->
        IF q = s THEN Idle ELSE [sess[q] EXCEPT !.stale = @ \/ HasRead(q, s)]]

\* register_store: the e-mail is free.
Register(s, st) ==
    /\ stores[st].status = "absent"
    /\ Begin(s, [Idle EXCEPT !.pc = "insert", !.op = "register", !.store = st,
                             !.t = now])
    /\ UNCHANGED <<now, tables, wire, ghosts>>

\* The store and its admin in one commit; the second admin with an e-mail
\* meets the UNIQUE constraint and takes its store along.
InsertStore(s) ==
    LET st == sess[s].store IN
    /\ sess[s].pc = "insert"
    /\ stores' = IF stores[st].status # "absent" THEN stores
                 ELSE [stores EXCEPT ![st] =
                        [status |-> "trialing", trial |-> sess[s].t + Trial,
                         ends |-> 0, active |-> TRUE]]
    /\ sess' = [sess EXCEPT ![s] = Idle]
    /\ UNCHANGED <<now, payments, wire, ghosts, requests>>

\* initiate_upgrade up to its await: the pending payment is committed first.
Upgrade(s, st, p, m) ==
    /\ stores[st].status # "absent"
    /\ payments[p].status = "absent"
    /\ Begin(s, [Idle EXCEPT !.pc = "push", !.op = "upgrade", !.payment = p])
    /\ payments' = [payments EXCEPT ![p] =
                        [status |-> "pending", store |-> st, months |-> m]]
    /\ UNCHANGED <<now, stores, wire, ghosts>>

\* stk_push returns or raises; after a timeout the push may be out as well.
Push(s) ==
    /\ sess[s].pc = "push"
    /\ \E w \in {"none", "asked"} : wire' = [wire EXCEPT ![sess[s].payment] = w]
    /\ sess' = [sess EXCEPT ![s] = Idle]
    /\ UNCHANGED <<now, tables, ghosts, requests>>

Customer(p) ==
    /\ wire[p] = "asked"
    /\ \E w \in {"refused", "paid"} : wire' = [wire EXCEPT ![p] = w]
    /\ UNCHANGED <<now, tables, sess, ghosts, requests>>

\* (Mistake) a callback is not checked for having been handled.
CallbackUnchecked(s, p) ==
    /\ wire[p] = "paid"
    /\ Begin(s, [Idle EXCEPT !.pc = "store", !.op = "callback", !.payment = p,
                             !.store = payments[p].store,
                             !.months = payments[p].months])
    /\ UNCHANGED <<now, tables, wire, ghosts>>

\* subscription_mpesa_callback reads the payment: one that is not pending is
\* answered at once, as is a result other than success.  Safaricom may send a
\* callback more than once.
Callback(s, p) ==
    /\ wire[p] = "paid"
    /\ payments[p].status = "pending"
    /\ Begin(s, [Idle EXCEPT !.pc = "store", !.op = "callback", !.payment = p,
                             !.store = payments[p].store,
                             !.months = payments[p].months])
    /\ UNCHANGED <<now, tables, wire, ghosts>>

\* The platform owner: manually_activate and activate_store, suspend_store,
\* reinstate_store.
Command(s, op, st, m) ==
    /\ op \in {"activate", "suspend", "reinstate"}
    /\ m \in IF op = "activate" THEN Months ELSE {0}
    /\ stores[st].status # "absent"
    /\ Begin(s, [Idle EXCEPT !.pc = "store", !.op = op, !.store = st, !.months = m])
    /\ UNCHANGED <<now, tables, wire, ghosts>>

\* (Mistake) the callback is answered first and worked on afterwards.
AnswerFirst(s) ==
    /\ sess[s].pc = "store"
    /\ sess' = [sess EXCEPT ![s].pc = "write", ![s].t = now,
                            ![s].loaded = stores[sess[s].store]]
    /\ answered' = IF sess[s].op = "callback" THEN answered \cup {sess[s].payment}
                   ELSE answered
    /\ UNCHANGED <<now, tables, wire, failed, posted, granted, requests>>

\* The SELECT of the store, and datetime.now.
Load(s) ==
    /\ sess[s].pc = "store"
    /\ sess' = [sess EXCEPT ![s].pc = "write", ![s].t = now,
                            ![s].loaded = stores[sess[s].store]]
    /\ UNCHANGED <<now, tables, wire, ghosts, requests>>

Grants(r) == r.op \in {"callback", "activate"}

\* (Mistake) a renewal is added to the end of the trial.
AfterTrial(r) ==
    CASE Grants(r) ->
           [r.loaded EXCEPT !.status = "active",
                            !.ends = Later(r.loaded.ends, r.loaded.trial) + Month * r.months]
      [] r.op = "suspend" ->
           [r.loaded EXCEPT !.status = "cancelled", !.active = FALSE]
      [] OTHER ->
           [r.loaded EXCEPT !.status = "trialing", !.active = TRUE,
                            !.trial = r.t + Trial]

\* The values a handler assigns: an extension runs from the end of what was
\* paid for if that is ahead, and from now otherwise.
Assigned(r) ==
    CASE Grants(r) ->
           [r.loaded EXCEPT !.status = "active",
                            !.ends = Later(r.loaded.ends, r.t) + Month * r.months]
      [] r.op = "suspend" ->
           [r.loaded EXCEPT !.status = "cancelled", !.active = FALSE]
      [] OTHER ->
           [r.loaded EXCEPT !.status = "trialing", !.active = TRUE,
                            !.trial = r.t + Trial]

\* (Mistake) an UPDATE of all columns.
WholeRow(r, row) == Assigned(r)

\* The UPDATE: the columns whose value is not the loaded one.
Written(r, row) ==
    LET a == Assigned(r)
        new(c) == IF a[c] = r.loaded[c] THEN row[c] ELSE a[c]
    IN  [status |-> new("status"), trial |-> new("trial"),
         ends |-> new("ends"), active |-> new("active")]

\* db.commit: the payment and the store in one transaction.
Commit(s) ==
    LET r == sess[s] IN
    /\ r.pc = "write"
    /\ stores' = [stores EXCEPT ![r.store] = Written(r, stores[r.store])]
    /\ IF r.op = "callback"
       THEN /\ payments' = [payments EXCEPT ![r.payment].status = "confirmed"]
            /\ posted' = [posted EXCEPT ![r.payment] = @ + 1]
            /\ answered' = answered \cup {r.payment}
       ELSE UNCHANGED <<payments, posted, answered>>
    /\ granted' = [granted EXCEPT ![r.store] = @ + r.months]
    /\ Ends(s)
    /\ UNCHANGED <<now, wire, failed, requests>>

\* An exception between the first read and the commit: the callback logs it
\* and answers "Accepted" all the same.
Fail(s) ==
    LET r == sess[s] IN
    /\ r.pc \in {"store", "write"}
    /\ IF r.op = "callback"
       THEN answered' = answered \cup {r.payment} /\ failed' = failed \cup {r.payment}
       ELSE UNCHANGED <<answered, failed>>
    /\ sess' = [sess EXCEPT ![s] = Idle]
    /\ UNCHANGED <<now, tables, wire, posted, granted, requests>>

Tick ==
    /\ now < MaxTime
    /\ now' = now + 1
    /\ UNCHANGED <<tables, wire, sess, ghosts, requests>>

-----------------------------------------------------------------------------

Handler(s) ==
    \/ \E st \in Store : Register(s, st)
    \/ InsertStore(s)
    \/ \E st \in Store, p \in Payment, m \in Months : Upgrade(s, st, p, m)
    \/ Push(s)
    \/ \E p \in Payment : Callback(s, p)
    \/ \E op \in {"activate", "suspend", "reinstate"}, st \in Store,
          m \in Months \cup {0} : Command(s, op, st, m)
    \/ Load(s)
    \/ Commit(s)
    \/ Fail(s)

Next ==
    \/ \E s \in Session : Handler(s)
    \/ \E p \in Payment : Customer(p)
    \/ Tick

Spec == Init /\ [][Next]_vars

-----------------------------------------------------------------------------
(* Properties *)

\* The date a store is paid up to is never further away than all the months
\* ever paid for or given, whatever requests overlap: an extension made from a
\* stale date cannot add time nobody granted.
NeverMoreThanGranted ==
    \A st \in Store : stores[st].ends <= now + Month * granted[st]

\* However often Safaricom repeats a callback, a payment is counted once by
\* each of the requests that were at work at the same time, at most: none that
\* begins after the first commit counts it again.
CountedByOverlapOnly ==
    \A p \in Payment :
        /\ posted[p] > 0 => payments[p].status = "confirmed"
        /\ posted[p] <= Cardinality(Session)

\* A payment whose confirmation was answered is counted, unless a request
\* failed on it: the answer is the last Safaricom will say of it.
AnsweredIsCounted ==
    \A p \in answered \ failed : payments[p].status = "confirmed" /\ posted[p] > 0

\* A renewal that was at work, with a paying store loaded, when the platform
\* owner suspended the store extends its time and does not lift the suspension.
SuspensionHolds ==
    [][\A s \in Session, st \in Store :
        /\ sess[s].store = st
        /\ Commit(s)
        /\ sess[s].loaded.status = "active"
        /\ stores[st].status = "cancelled"
        /\ Grants(sess[s])
        => ~IsPremium(st)']_vars

Promised == INSTANCE Entitlement WITH
    clock   <- now,
    access  <- [st \in Store |-> stores[st].status],
    trial   <- [st \in Store |-> stores[st].trial],
    until   <- [st \in Store |-> stores[st].ends],
    counted <- {p \in Payment : posted[p] > 0}

CommitsStale == \E s \in Session : sess[s].stale /\ Commit(s)

\* As long as no request commits on a row that another has changed since it
\* was read, every step is what Entitlement promises: payments count once,
\* nothing of the time left is lost, a closed store opens by a grant or a
\* reinstatement only.
ApartIsExact ==
    /\ Promised!Init
    /\ [][CommitsStale \/ Promised!Next]_(Promised!vars)
=============================================================================
