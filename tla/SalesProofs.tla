---------------------------- MODULE SalesProofs ----------------------------
(***************************************************************************)
(* Theorems about Sales, for any number of sessions, products, sales,      *)
(* receipts and requests: types first, then safety, then the books.  The   *)
(* inductive invariant has three parts.  LockedIsCurrent relates a         *)
(* session's memory to the rows it has locked; MarksAreSound relates the   *)
(* sales a session is about to write to the transactions table; PostsInv   *)
(* relates the ledger rows in a session's memory to the lines it has dealt *)
(* with.  The properties of stock and ledger follow from the first, those  *)
(* of keys, statuses and callbacks from the second; from all three, that   *)
(* the ledger is the sum of whole sales and restores, and that Sales       *)
(* implements StockBook.  Sums are counted: a quantity is the cardinality  *)
(* of a set with one element for each unit.                                *)
(***************************************************************************)
EXTENDS Sales, FiniteSetTheorems, TLAPS

-----------------------------------------------------------------------------
(* Types *)

LEMMA IdleType == Idle \in SessionState /\ NoCart \in Cart /\ Zero \in [Product -> Int]
  <1>1. <<>> \in Seq(Line)
    BY SMT
  <1>2. NoCart \in Cart
    BY <1>1 DEF NoCart, Cart
  <1>3. Zero \in [Product -> Int]
    BY DEF Zero
  <1> QED  BY <1>1, <1>2, <1>3 DEF Idle, SessionState, Ops, Kinds

LEMMA AbsentType == Absent \in TxnRow
  BY DEF Absent, TxnRow, Statuses, Line

LEMMA InitType == Init => TypeOK
  BY IdleType, AbsentType, OpeningAssumption DEF Init, TypeOK

LEMMA ReleaseType ==
    ASSUME TypeOK, NEW s \in Session, Release(s)
    PROVE  /\ sess' \in [Session -> SessionState]
           /\ plock' \in [Product -> Session \cup {Free}]
           /\ tlock' \in [Txn -> Session \cup {Free}]
  BY IdleType DEF Release, TypeOK

LEMMA RollbackType ==
    ASSUME TypeOK, NEW s \in Session, Rollback(s)
    PROVE  TypeOK'
  <1>1. /\ sess' \in [Session -> SessionState]
        /\ plock' \in [Product -> Session \cup {Free}]
        /\ tlock' \in [Txn -> Session \cup {Free}]
    BY ReleaseType DEF Rollback
  <1> QED  BY <1>1 DEF Rollback, TypeOK, dbVars, payVars

LEMMA BeginType ==
    ASSUME TypeOK, NEW s \in Session, NEW w \in SessionState, Begin(s, w)
    PROVE  sess' \in [Session -> SessionState] /\ requests' \in Nat
  BY DEF Begin, TypeOK

LEMMA LineType ==
    ASSUME TypeOK, NEW s \in Session, sess[s].lines # <<>>
    PROVE  /\ Head(sess[s].lines) \in Line
           /\ Head(sess[s].lines).product \in Product
           /\ Head(sess[s].lines).qty \in Nat \ {0}
           /\ Tail(sess[s].lines) \in Seq(Line)
           /\ LineDelta(s, Head(sess[s].lines)) \in Int
           /\ \A p \in Product : /\ Loaded(s, p).base \in Int
                                 /\ Loaded(s, p).next \in Int
  <1>1. sess[s] \in SessionState  BY DEF TypeOK
  <1>2. sess[s].lines \in Seq(Line)  BY <1>1 DEF SessionState
  <1>3. Head(sess[s].lines) \in Line /\ Tail(sess[s].lines) \in Seq(Line)
    BY <1>2
  <1>4. /\ Head(sess[s].lines).product \in Product
        /\ Head(sess[s].lines).qty \in Nat \ {0}
    BY <1>3 DEF Line
  <1>5. LineDelta(s, Head(sess[s].lines)) \in Int
    <2> DEFINE n == Head(sess[s].lines).qty
    <2> HIDE DEF n
    <2>1. n \in Nat  BY <1>4 DEF n
    <2>2. -n \in Int /\ n \in Int  BY <2>1
    <2> QED  BY <2>2 DEF LineDelta, n
  <1>6. ASSUME NEW p \in Product
        PROVE  Loaded(s, p).base \in Int /\ Loaded(s, p).next \in Int
    <2>1. sess[s].base[p] \in Int /\ sess[s].next[p] \in Int /\ stock[p] \in Int
      BY <1>1 DEF SessionState, TypeOK
    <2> QED  BY <2>1 DEF Loaded
  <1> QED  BY <1>3, <1>4, <1>5, <1>6

LEMMA LineUpdateType ==
    ASSUME NEW w \in SessionState, NEW p \in Product, NEW rest \in Seq(Line),
           NEW b \in Int, NEW n \in Int, NEW d \in Int, NEW k \in Kinds
    PROVE  [w EXCEPT !.lines = rest, !.held = w.held \cup {p},
                     !.base = [w.base EXCEPT ![p] = b],
                     !.next = [w.next EXCEPT ![p] = n + d],
                     !.rows = [w.rows EXCEPT ![p] = w.rows[p] + d],
                     !.kind = k] \in SessionState
  <1>1. /\ w.base \in [Product -> Int]
        /\ w.next \in [Product -> Int]
        /\ w.rows \in [Product -> Int]
        /\ w.held \in SUBSET Product
    BY DEF SessionState
  <1>2. n + d \in Int /\ w.rows[p] + d \in Int
    BY <1>1
  <1>3. /\ [w.base EXCEPT ![p] = b] \in [Product -> Int]
        /\ [w.next EXCEPT ![p] = n + d] \in [Product -> Int]
        /\ [w.rows EXCEPT ![p] = w.rows[p] + d] \in [Product -> Int]
        /\ w.held \cup {p} \in SUBSET Product
    BY <1>1, <1>2
  <1> QED  BY <1>3 DEF SessionState

LEMMA WrittenType ==
    ASSUME TypeOK, NEW s \in Session, NEW t \in Txn
    PROVE  Written(s, t) \in TxnRow
  <1>1. /\ sess[s] \in SessionState
        /\ txns[t] \in TxnRow
    BY DEF TypeOK
  <1> QED  BY <1>1 DEF Written, TxnRow, SessionState, Statuses, Cart

LEMMA NextType == TypeOK /\ [Next]_vars => TypeOK'
  <1> SUFFICES ASSUME TypeOK, [Next]_vars PROVE TypeOK'
    OBVIOUS
  <1>1. ASSUME NEW s \in Session, Arrive(s)  PROVE TypeOK'
    <2>1. ASSUME NEW t \in Txn, NEW cart \in Carts, BeginCreate(s, t, cart)  PROVE TypeOK'
      <3> DEFINE w == [Idle EXCEPT !.pc = "work", !.op = "create", !.cart = cart,
                             !.lines = cart.lines, !.marks = {t}]
      <3>1. w \in SessionState
        BY IdleType, CartsAssumption DEF SessionState, Cart, Ops, Kinds
      <3>2. sess' \in [Session -> SessionState] /\ requests' \in Nat
        BY <2>1, <3>1, BeginType DEF BeginCreate
      <3> QED  BY <2>1, <3>2 DEF BeginCreate, TypeOK, dbVars, payVars
    <2>2. ASSUME NEW t \in Txn, BeginVoid(s, t)  PROVE TypeOK'
      <3> DEFINE w == [Idle EXCEPT !.pc = "work", !.op = "void",
                             !.lines = txns[t].lines, !.marks = {t}]
      <3>1. w \in SessionState
        BY IdleType DEF SessionState, Ops, Kinds, TypeOK, TxnRow
      <3>2. sess' \in [Session -> SessionState] /\ requests' \in Nat
        BY <2>2, <3>1, BeginType DEF BeginVoid
      <3> QED  BY <2>2, <3>2 DEF BeginVoid, TypeOK, dbVars, payVars
    <2>3. ASSUME NEW t \in Txn, NEW r \in Ref, BeginConfirm(s, t, r)  PROVE TypeOK'
      <3> DEFINE w == [Idle EXCEPT !.pc = "work", !.op = "confirm", !.marks = {t},
                             !.ref = r]
      <3>1. w \in SessionState
        BY IdleType DEF SessionState, Ops, Kinds
      <3>2. sess' \in [Session -> SessionState] /\ requests' \in Nat
        BY <2>3, <3>1, BeginType DEF BeginConfirm
      <3> QED  BY <2>3, <3>2 DEF BeginConfirm, TypeOK, dbVars, payVars
    <2>4. ASSUME NEW t \in Txn, BeginPush(s, t)  PROVE TypeOK'
      <3> DEFINE w == [Idle EXCEPT !.pc = "await", !.op = "push", !.marks = {t}]
      <3>1. w \in SessionState
        BY IdleType DEF SessionState, Ops, Kinds
      <3>2. sess' \in [Session -> SessionState] /\ requests' \in Nat
        BY <2>4, <3>1, BeginType DEF BeginPush
      <3> QED  BY <2>4, <3>2 DEF BeginPush, TypeOK, dbVars, payVars
    <2>5. ASSUME NEW r \in Ref, Callback(s, r)  PROVE TypeOK'
      <3> DEFINE t == pushed[r]
      <3> DEFINE w == [Idle EXCEPT !.pc = "work", !.op = "callback",
                                    !.marks = {t}, !.ref = r]
      <3>1. t \in Txn
        BY <2>5 DEF Callback, TypeOK
      <3>2. w \in SessionState
        BY <3>1, IdleType DEF SessionState, Ops, Kinds
      <3>3. sess' \in [Session -> SessionState] /\ requests' \in Nat
        BY <2>5, <3>2, BeginType DEF Callback
      <3> QED  BY <2>5, <3>3 DEF Callback, SkipLocked, Answered, TypeOK, dbVars
    <2>6. ASSUME NEW r \in Ref, CallbackSkips(s, r)  PROVE TypeOK'
      BY <2>6 DEF CallbackSkips, Answered, TypeOK, dbVars
    <2>7. ASSUME NEW p \in Product, NEW a \in Adjustments, BeginAdjust(s, p, a)  PROVE TypeOK'
      <3> DEFINE w == [Idle EXCEPT !.pc = "work", !.op = "adjust", !.kind = a.reason,
                   !.base = [Zero EXCEPT ![p] = stock[p]],
                   !.next = [Zero EXCEPT ![p] = AtLeastZero(stock[p] + a.qty)],
                   !.rows = [Zero EXCEPT ![p] = a.qty]]
      <3>0. a.qty \in Int /\ stock[p] \in Int
        BY AdjustmentsAssumption DEF TypeOK
      <3>a. AtLeastZero(stock[p] + a.qty) \in Int
        BY <3>0 DEF AtLeastZero
      <3>b. a.reason \in Kinds
        BY DEF Kinds
      <3>1. w \in SessionState
        BY <3>0, <3>a, <3>b, IdleType DEF SessionState, Ops
      <3>2. sess' \in [Session -> SessionState] /\ requests' \in Nat
        BY <2>7, <3>1, BeginType DEF BeginAdjust
      <3> QED  BY <2>7, <3>2 DEF BeginAdjust, TypeOK, dbVars, payVars
    <2>8. ASSUME NEW p \in Product, NEW v \in Overwrites, BeginUpdate(s, p, v)  PROVE TypeOK'
      <3> DEFINE w == [Idle EXCEPT !.pc = "work", !.op = "update",
                   !.base = [Zero EXCEPT ![p] = stock[p]],
                   !.next = [Zero EXCEPT ![p] = v]]
      <3>1. w \in SessionState
        BY IdleType, OverwritesAssumption DEF SessionState, Ops, Kinds, TypeOK
      <3>2. sess' \in [Session -> SessionState] /\ requests' \in Nat
        BY <2>8, <3>1, BeginType DEF BeginUpdate
      <3> QED  BY <2>8, <3>2 DEF BeginUpdate, TypeOK, dbVars, payVars
    <2>9. ASSUME BeginCleanup(s)  PROVE TypeOK'
      <3>1. PICK stale \in SUBSET Txn :
               Begin(s, [Idle EXCEPT !.pc = "work", !.op = "cleanup", !.todo = stale])
        BY <2>9 DEF BeginCleanup
      <3>2. [Idle EXCEPT !.pc = "work", !.op = "cleanup", !.todo = stale] \in SessionState
        BY IdleType DEF SessionState, Ops, Kinds
      <3>3. sess' \in [Session -> SessionState] /\ requests' \in Nat
        BY <3>1, <3>2, BeginType
      <3> QED  BY <2>9, <3>3 DEF BeginCleanup, TypeOK, dbVars, payVars
    <2> QED  BY <1>1, <2>1, <2>2, <2>3, <2>4, <2>5, <2>6, <2>7, <2>8, <2>9 DEF Arrive
  <1>2. ASSUME NEW s \in Session, Proceed(s)  PROVE TypeOK'
    <2>1. CASE LockLine(s)
      <3> DEFINE l == Head(sess[s].lines)
      <3> DEFINE p == l.product
      <3>1. /\ p \in Product
            /\ Tail(sess[s].lines) \in Seq(Line)
            /\ LineDelta(s, l) \in Int
            /\ Loaded(s, p).base \in Int /\ Loaded(s, p).next \in Int
        BY <2>1, LineType DEF LockLine
      <3>2. sess[s] \in SessionState  BY DEF TypeOK
      <3>3. sess' \in [Session -> SessionState]
        <4> DEFINE w == [sess[s] EXCEPT
                 !.lines = Tail(sess[s].lines),
                 !.held = sess[s].held \cup {p},
                 !.base = [sess[s].base EXCEPT ![p] = Loaded(s, p).base],
                 !.next = [sess[s].next EXCEPT ![p] = Loaded(s, p).next + LineDelta(s, l)],
                 !.rows = [sess[s].rows EXCEPT ![p] = sess[s].rows[p] + LineDelta(s, l)],
                 !.kind = LineKind(s)]
        <4>0. LineKind(s) \in Kinds
          BY DEF LineKind, Kinds
        <4>1. w \in SessionState
          BY <3>1, <3>2, <4>0, LineUpdateType
        <4>2. sess' = [sess EXCEPT ![s] = w]
          BY <2>1 DEF LockLine
        <4> QED  BY <4>1, <4>2 DEF TypeOK
      <3>4. plock' \in [Product -> Session \cup {Free}]
        BY <2>1, <3>1 DEF LockLine, Lock, TypeOK
      <3> QED  BY <2>1, <3>3, <3>4 DEF LockLine, TypeOK, dbVars, payVars
    <2>2. CASE RefuseLine(s)
      BY <2>2, RollbackType DEF RefuseLine
    <2>3. CASE RefuseCash(s)
      BY <2>3, RollbackType DEF RefuseCash
    <2>4. ASSUME NEW r \in Ref, PushAccepted(s, r)  PROVE TypeOK'
      <3>1. sess[s] \in SessionState  BY DEF TypeOK
      <3>2. [sess[s] EXCEPT !.pc = "work", !.ref = r] \in SessionState
        BY <3>1 DEF SessionState
      <3>3. sess' \in [Session -> SessionState]
        BY <2>4, <3>2 DEF PushAccepted, TypeOK
      <3>4. sess[s].marks \subseteq Txn
        BY <3>1 DEF SessionState
      <3>5. PICK t \in sess[s].marks : pushed' = [pushed EXCEPT ![r] = t]
        BY <2>4 DEF PushAccepted
      <3>6. /\ pushed' \in [Ref -> Txn \cup {Free}]
            /\ receipt' \in [Ref -> {"none", "asked", "paid", "declined", "answered"}]
            /\ \A q \in Ref : receipt'[q] # "none" => pushed'[q] \in Txn
        BY <2>4, <3>4, <3>5 DEF PushAccepted, TypeOK
      <3> QED  BY <2>4, <3>3, <3>6 DEF PushAccepted, TypeOK, dbVars
    <2>5. CASE PushFailed(s)
      BY <2>5, RollbackType DEF PushFailed
    <2>6. CASE CleanupNext(s)
      <3>1. sess[s] \in SessionState  BY DEF TypeOK
      <3>2. PICK t \in sess[s].todo :
               sess' = [sess EXCEPT ![s].todo = @ \ {t},
                                ![s].marks = @ \cup {t},
                                ![s].lines = txns[t].lines]
        BY <2>6 DEF CleanupNext
      <3>3. t \in Txn /\ txns[t].lines \in Seq(Line)
        BY <3>1 DEF SessionState, TypeOK, TxnRow
      <3>4. [sess[s] EXCEPT !.todo = @ \ {t}, !.marks = @ \cup {t},
                 !.lines = txns[t].lines] \in SessionState
        BY <3>1, <3>3 DEF SessionState, Kinds
      <3>5. sess' \in [Session -> SessionState]
        BY <3>2, <3>4 DEF TypeOK
      <3> QED  BY <2>6, <3>5 DEF CleanupNext, TypeOK, dbVars, payVars
    <2>7. CASE Flush(s)
      <3>1. sess[s] \in SessionState  BY DEF TypeOK
      <3>2. [sess[s] EXCEPT !.pc = "commit"] \in SessionState
        BY <3>1 DEF SessionState
      <3>3. sess' \in [Session -> SessionState]
        BY <2>7, <3>2 DEF Flush, TypeOK
      <3> QED  BY <2>7, <3>3 DEF Flush, TypeOK, dbVars, payVars
    <2>8. CASE RefuseFlush(s)
      BY <2>8, RollbackType DEF RefuseFlush
    <2>9. CASE Commit(s)
      <3>1. sess[s] \in SessionState  BY DEF TypeOK
      <3>2. /\ sess' \in [Session -> SessionState]
            /\ plock' \in [Product -> Session \cup {Free}]
            /\ tlock' \in [Txn -> Session \cup {Free}]
        BY <2>9, ReleaseType DEF Commit
      <3>3. stock' \in [Product -> Int] /\ ledger' \in [Product -> Int]
        BY <2>9, <3>1 DEF Commit, TypeOK, SessionState
      <3>4. txns' \in [Txn -> TxnRow]
        BY <2>9, WrittenType DEF Commit, TypeOK
      <3>5. sold' \in [Txn -> Nat] /\ restored' \in [Txn -> Nat]
        BY <2>9 DEF Commit, TypeOK
      <3> QED  BY <2>9, <3>2, <3>3, <3>4, <3>5 DEF Commit, TypeOK, payVars
    <2>10. CASE LockTimeout(s)
      BY <2>10, RollbackType DEF LockTimeout
    <2>11. CASE CleanupRowFails(s)
      <3>1. sess[s].todo \in SUBSET Txn
        BY DEF TypeOK, SessionState
      <3>2. [Idle EXCEPT !.pc = "work", !.op = "cleanup", !.todo = sess[s].todo]
               \in SessionState
        BY <3>1, IdleType DEF SessionState, Ops, Kinds
      <3> QED  BY <2>11, <3>2 DEF CleanupRowFails, TypeOK, dbVars, payVars
    <2> QED
      BY <1>2, <2>1, <2>2, <2>3, <2>4, <2>5, <2>6, <2>7, <2>8, <2>9, <2>10, <2>11
         DEF Proceed
  <1>3. ASSUME NEW s \in Session, Crash(s)  PROVE TypeOK'
    <2>1. /\ sess' \in [Session -> SessionState]
          /\ plock' \in [Product -> Session \cup {Free}]
          /\ tlock' \in [Txn -> Session \cup {Free}]
      BY <1>3, ReleaseType DEF Crash
    <2> QED  BY <1>3, <2>1 DEF Crash, TypeOK, dbVars
  <1>4. ASSUME NEW r \in Ref, CustomerAnswers(r)  PROVE TypeOK'
    BY <1>4 DEF CustomerAnswers, TypeOK, dbVars
  <1>5. CASE Closed
    BY <1>5 DEF Closed, TypeOK, vars
  <1>6. CASE UNCHANGED vars
    BY <1>6 DEF TypeOK, vars
  <1> QED  BY <1>1, <1>2, <1>3, <1>4, <1>5, <1>6 DEF Next

\* Every reachable state is well typed.
THEOREM TypeCorrect == Spec => []TypeOK
  BY InitType, NextType, PTL DEF Spec

-----------------------------------------------------------------------------
(* A step of session s leaves what the others hold alone *)

\* What the others have locked stays theirs and stays as it is.
Undisturbed(s) ==
    \A q \in Session \ {s} :
        /\ sess'[q] = sess[q]
        /\ \A p \in Product : plock[p] = q => plock'[p] = q /\ stock'[p] = stock[p]
        /\ \A t \in Txn : tlock[t] = q => tlock'[t] = q

LEMMA CurrentFrame ==
    ASSUME TypeOK, LockedIsCurrent, NEW s \in Session, Undisturbed(s), Current(s)'
    PROVE  LockedIsCurrent'
  <1> SUFFICES ASSUME NEW q \in Session \ {s}  PROVE Current(q)'
    BY DEF LockedIsCurrent
  <1>1. sess[q] \in SessionState /\ Current(q)
    BY DEF TypeOK, LockedIsCurrent
  <1>2. sess[q].held \subseteq Product /\ sess[q].marks \subseteq Txn
    BY <1>1 DEF SessionState
  <1> QED  BY <1>1, <1>2 DEF Current, Dirty, Undisturbed

LEMMA IdleIsCurrent ==
    ASSUME NEW s \in Session, NEW w, sess'[s] = w,
           w.held = {}, w.base = Zero, w.next = Zero, w.rows = Zero, w.pc # "commit"
    PROVE  Current(s)'
  BY DEF Current, Zero

LEMMA ReleaseFrame ==
    ASSUME TypeOK, NEW s \in Session, Release(s),
           \A p \in Product : plock[p] # s => stock'[p] = stock[p]
    PROVE  Undisturbed(s) /\ Current(s)'
  <1>1. sess'[s] = Idle
    BY DEF Release, TypeOK
  <1>2. Current(s)'
    BY <1>1, IdleIsCurrent DEF Idle
  <1>3. Undisturbed(s)
    BY DEF Release, TypeOK, Undisturbed
  <1> QED  BY <1>2, <1>3

LEMMA RollbackCurrent ==
    ASSUME TypeOK, LockedIsCurrent, NEW s \in Session, Rollback(s)
    PROVE  LockedIsCurrent'
  BY ReleaseFrame, CurrentFrame DEF Rollback, dbVars

\* A request that has loaded nothing yet.
LEMMA BeginCurrent ==
    ASSUME TypeOK, LockedIsCurrent, NEW s \in Session, NEW w, Begin(s, w),
           w.held = {}, w.base = Zero, w.next = Zero, w.rows = Zero, w.pc # "commit",
           \A q \in Session, t \in Txn : tlock[t] = q => tlock'[t] = q,
           UNCHANGED <<stock, plock>>
    PROVE  LockedIsCurrent'
  <1>1. sess'[s] = w /\ \A q \in Session \ {s} : sess'[q] = sess[q]
    BY DEF Begin, TypeOK
  <1>2. Current(s)'
    BY <1>1, IdleIsCurrent
  <1>3. Undisturbed(s)
    BY <1>1 DEF Undisturbed
  <1> QED  BY <1>2, <1>3, CurrentFrame

LEMMA ArriveCurrent ==
    ASSUME TypeOK, LockedIsCurrent, NEW s \in Session, Arrive(s)
    PROVE  LockedIsCurrent'
  <1>1. ASSUME NEW t \in Txn, NEW cart \in Carts, BeginCreate(s, t, cart)
        PROVE  LockedIsCurrent'
    BY <1>1, BeginCurrent DEF BeginCreate, Idle, dbVars
  <1>2. ASSUME NEW t \in Txn, BeginVoid(s, t)  PROVE LockedIsCurrent'
    BY <1>2, BeginCurrent DEF BeginVoid, Idle, dbVars
  <1>3. ASSUME NEW t \in Txn, NEW r \in Ref, BeginConfirm(s, t, r)
        PROVE  LockedIsCurrent'
    BY <1>3, BeginCurrent DEF BeginConfirm, Idle, dbVars
  <1>4. ASSUME NEW t \in Txn, BeginPush(s, t)  PROVE LockedIsCurrent'
    BY <1>4, BeginCurrent DEF BeginPush, Idle, dbVars
  <1>5. ASSUME NEW r \in Ref, Callback(s, r)  PROVE LockedIsCurrent'
    <2>1. \A q \in Session, t \in Txn : tlock[t] = q => tlock'[t] = q
      BY <1>5, FreeAssumption DEF Callback, SkipLocked, TypeOK
    <2> QED  BY <1>5, <2>1, BeginCurrent DEF Callback, Idle, dbVars
  <1>6. ASSUME NEW r \in Ref, CallbackSkips(s, r)  PROVE LockedIsCurrent'
    BY <1>6 DEF CallbackSkips, LockedIsCurrent, Current, Dirty, dbVars
  <1>7. ASSUME NEW p \in Product, NEW a \in Adjustments, BeginAdjust(s, p, a)
        PROVE  LockedIsCurrent'
    <2>1. /\ sess'[s].held = {} /\ sess'[s].op = "adjust" /\ sess'[s].pc = "work"
          /\ \A q \in Session \ {s} : sess'[q] = sess[q]
      BY <1>7 DEF BeginAdjust, Begin, Idle, TypeOK
    <2>2. Undisturbed(s) /\ Current(s)'
      BY <1>7, <2>1 DEF BeginAdjust, Undisturbed, Current, Unlocked, dbVars
    <2> QED  BY <2>2, CurrentFrame
  <1>8. ASSUME NEW p \in Product, NEW v \in Overwrites, BeginUpdate(s, p, v)
        PROVE  LockedIsCurrent'
    <2>1. /\ sess'[s].held = {} /\ sess'[s].op = "update" /\ sess'[s].pc = "work"
          /\ \A q \in Session \ {s} : sess'[q] = sess[q]
      BY <1>8 DEF BeginUpdate, Begin, Idle, TypeOK
    <2>2. Undisturbed(s) /\ Current(s)'
      BY <1>8, <2>1 DEF BeginUpdate, Undisturbed, Current, Unlocked, dbVars
    <2> QED  BY <2>2, CurrentFrame
  <1>9. ASSUME BeginCleanup(s)  PROVE LockedIsCurrent'
    BY <1>9, BeginCurrent DEF BeginCleanup, Idle, dbVars
  <1> QED  BY <1>1, <1>2, <1>3, <1>4, <1>5, <1>6, <1>7, <1>8, <1>9 DEF Arrive

\* Locking a line: what is loaded is the row, or what an earlier line left.
LEMMA LockLineCurrent ==
    ASSUME TypeOK, LockedIsCurrent, NEW s \in Session, LockLine(s)
    PROVE  LockedIsCurrent'
  <1> DEFINE l == Head(sess[s].lines)
             p == l.product
             d == LineDelta(s, l)
             ld == Loaded(s, p)
  <1>1. /\ p \in Product /\ d \in Int
        /\ ld.base \in Int /\ ld.next \in Int
    BY LineType DEF LockLine
  <1>2. sess[s] \in SessionState /\ Current(s)
    BY DEF TypeOK, LockedIsCurrent
  <1>3. /\ LockFree(plock[p], s)
        /\ plock' = [plock EXCEPT ![p] = s]
        /\ sess[s].pc = "work"
        /\ UNCHANGED <<stock, tlock>>
    BY DEF LockLine, Lock, dbVars
  <1>4. /\ \A q \in Session \ {s} : sess'[q] = sess[q]
        /\ sess'[s].pc = "work" /\ sess'[s].op = sess[s].op
        /\ sess'[s].held = sess[s].held \cup {p}
        /\ sess'[s].base = [sess[s].base EXCEPT ![p] = ld.base]
        /\ sess'[s].next = [sess[s].next EXCEPT ![p] = ld.next + d]
        /\ sess'[s].rows = [sess[s].rows EXCEPT ![p] = sess[s].rows[p] + d]
    BY DEF LockLine, TypeOK, SessionState
  <1>5. Undisturbed(s)
    BY <1>1, <1>3, <1>4, FreeAssumption DEF Undisturbed, TypeOK, LockFree
  <1>6. ld.base = stock[p]
    BY <1>2 DEF Loaded, Current
  <1>7. sess[s].op \notin Unlocked => ld.next = ld.base + sess[s].rows[p]
    BY <1>1, <1>2 DEF Loaded, Current, SessionState, TypeOK
  <1>8. /\ sess[s].base \in [Product -> Int]
        /\ sess[s].next \in [Product -> Int]
        /\ sess[s].rows \in [Product -> Int]
        /\ sess[s].held \subseteq Product
    BY <1>2 DEF SessionState
  <1>9. Current(s)'
    <2>1. ASSUME NEW x \in sess'[s].held
          PROVE  plock'[x] = s /\ sess'[s].base[x] = stock'[x]
      <3> HIDE DEF p, ld
      <3>1. x \in Product /\ plock \in [Product -> Session \cup {Free}]
        BY <1>1, <1>4, <1>8 DEF TypeOK
      <3>2. CASE x = p
        BY <1>1, <1>3, <1>4, <1>6, <1>8, <3>1, <3>2
      <3>3. CASE x # p
        <4>1. plock[x] = s /\ sess[s].base[x] = stock[x]
          BY <1>2, <1>4, <3>3 DEF Current
        <4> QED  BY <1>3, <1>4, <1>8, <3>1, <3>3, <4>1
      <3> QED  BY <3>2, <3>3
    <2>2. ASSUME sess[s].op \notin Unlocked, NEW x \in Product
          PROVE  /\ sess'[s].next[x] = sess'[s].base[x] + sess'[s].rows[x]
                 /\ x \notin sess'[s].held => sess'[s].rows[x] = 0
      <3> HIDE DEF p, ld, d
      <3>1. CASE x = p
        BY <1>1, <1>4, <1>7, <1>8, <2>2, <3>1
      <3>2. CASE x # p
        <4>1. /\ sess[s].next[x] = sess[s].base[x] + sess[s].rows[x]
              /\ x \notin sess[s].held => sess[s].rows[x] = 0
          BY <1>2, <2>2 DEF Current
        <4> QED  BY <1>4, <1>8, <3>2, <4>1
      <3> QED  BY <3>1, <3>2
    <2> QED  BY <1>4, <2>1, <2>2 DEF Current
  <1> QED  BY <1>5, <1>9, CurrentFrame

\* The UPDATEs of a flush take the locks of the rows they write, and wait for
\* those of others.
LEMMA FlushCurrent ==
    ASSUME TypeOK, LockedIsCurrent, NEW s \in Session, Flush(s)
    PROVE  LockedIsCurrent'
  <1>1. sess[s] \in SessionState /\ Current(s)
    BY DEF TypeOK, LockedIsCurrent
  <1>2. /\ sess' = [sess EXCEPT ![s].pc = "commit"]
        /\ plock' = [p \in Product |-> IF p \in Dirty(s) THEN s ELSE plock[p]]
        /\ tlock' = [t \in Txn |-> IF t \in sess[s].marks THEN s ELSE tlock[t]]
        /\ \A p \in Dirty(s) : plock[p] \in {Free, s}
        /\ \A t \in sess[s].marks : tlock[t] \in {Free, s}
        /\ UNCHANGED stock
    BY DEF Flush, RowsFree, LockFree, dbVars
  <1>3. /\ \A q \in Session \ {s} : sess'[q] = sess[q]
        /\ sess'[s] = [sess[s] EXCEPT !.pc = "commit"]
    BY <1>2 DEF TypeOK
  <1>4. Undisturbed(s)
    BY <1>2, <1>3, FreeAssumption DEF Undisturbed
  <1>5. Current(s)'
    <2>1. sess[s].held \subseteq Product /\ sess[s].marks \subseteq Txn
      BY <1>1 DEF SessionState
    <2>2. /\ sess'[s].held = sess[s].held /\ sess'[s].base = sess[s].base
          /\ sess'[s].next = sess[s].next /\ sess'[s].rows = sess[s].rows
          /\ sess'[s].marks = sess[s].marks /\ sess'[s].op = sess[s].op
      BY <1>1, <1>3 DEF SessionState
    <2>3. Dirty(s)' = Dirty(s) /\ Dirty(s) \subseteq Product
      BY <2>2 DEF Dirty
    <2> QED  BY <1>1, <1>2, <2>1, <2>2, <2>3 DEF Current
  <1> QED  BY <1>4, <1>5, CurrentFrame

LEMMA ProceedCurrent ==
    ASSUME TypeOK, LockedIsCurrent, NEW s \in Session, Proceed(s)
    PROVE  LockedIsCurrent'
  <1>0. sess[s] \in SessionState /\ Current(s)
    BY DEF TypeOK, LockedIsCurrent
  <1>1. CASE LockLine(s)
    BY <1>1, LockLineCurrent
  <1>2. CASE RefuseLine(s) \/ RefuseCash(s) \/ PushFailed(s) \/ RefuseFlush(s) \/ LockTimeout(s)
    BY <1>2, RollbackCurrent DEF RefuseLine, RefuseCash, PushFailed, RefuseFlush, LockTimeout
  <1>3. ASSUME NEW r \in Ref, PushAccepted(s, r)  PROVE LockedIsCurrent'
    <2>1. /\ \A q \in Session \ {s} : sess'[q] = sess[q]
          /\ sess'[s] = [sess[s] EXCEPT !.pc = "work", !.ref = r]
      BY <1>3 DEF PushAccepted, TypeOK
    <2>2. Undisturbed(s)
      BY <1>3, <2>1 DEF PushAccepted, Undisturbed, dbVars
    <2>3. /\ sess'[s].held = sess[s].held /\ sess'[s].base = sess[s].base
          /\ sess'[s].next = sess[s].next /\ sess'[s].rows = sess[s].rows
          /\ sess'[s].op = sess[s].op /\ sess'[s].pc = "work"
      BY <1>0, <2>1 DEF SessionState
    <2>4. Current(s)'
      BY <1>0, <1>3, <2>3 DEF PushAccepted, Current, dbVars
    <2> QED  BY <2>2, <2>4, CurrentFrame
  <1>4. CASE CleanupNext(s)
    <2>1. PICK t \in sess[s].todo :
             sess' = [sess EXCEPT ![s].todo = @ \ {t}, ![s].marks = @ \cup {t},
                                  ![s].lines = txns[t].lines]
      BY <1>4 DEF CleanupNext
    <2>2. /\ \A q \in Session \ {s} : sess'[q] = sess[q]
          /\ sess'[s].held = sess[s].held /\ sess'[s].base = sess[s].base
          /\ sess'[s].next = sess[s].next /\ sess'[s].rows = sess[s].rows
          /\ sess'[s].op = sess[s].op /\ sess'[s].pc = sess[s].pc
      BY <1>0, <2>1 DEF TypeOK, SessionState
    <2>3. Undisturbed(s) /\ Current(s)'
      BY <1>0, <1>4, <2>2 DEF CleanupNext, Undisturbed, Current, dbVars
    <2> QED  BY <2>3, CurrentFrame
  <1>5. CASE Flush(s)
    BY <1>5, FlushCurrent
  <1>6. CASE Commit(s)
    <2>1. \A p \in Product : plock[p] # s => stock'[p] = stock[p]
      BY <1>0, <1>6 DEF Commit, Current, TypeOK
    <2> QED  BY <1>6, <2>1, ReleaseFrame, CurrentFrame DEF Commit
  <1>7. CASE CleanupRowFails(s)
    <2>1. /\ \A q \in Session \ {s} : sess'[q] = sess[q]
          /\ sess'[s] = [Idle EXCEPT !.pc = "work", !.op = "cleanup",
                                     !.todo = sess[s].todo]
      BY <1>7 DEF CleanupRowFails, TypeOK
    <2>2. Undisturbed(s)
      BY <1>7, <2>1 DEF CleanupRowFails, Undisturbed, dbVars
    <2>3. Current(s)'
      BY <2>1, IdleIsCurrent DEF Idle
    <2> QED  BY <2>2, <2>3, CurrentFrame
  <1> QED  BY <1>1, <1>2, <1>3, <1>4, <1>5, <1>6, <1>7 DEF Proceed

LEMMA NextCurrent == TypeOK /\ LockedIsCurrent /\ [Next]_vars => LockedIsCurrent'
  <1> SUFFICES ASSUME TypeOK, LockedIsCurrent, [Next]_vars  PROVE LockedIsCurrent'
    OBVIOUS
  <1>1. ASSUME NEW s \in Session, Arrive(s) \/ Proceed(s)  PROVE LockedIsCurrent'
    BY <1>1, ArriveCurrent, ProceedCurrent
  <1>2. ASSUME NEW s \in Session, Crash(s)  PROVE LockedIsCurrent'
    BY <1>2, ReleaseFrame, CurrentFrame DEF Crash, dbVars
  <1>3. ASSUME NEW r \in Ref, CustomerAnswers(r)  PROVE LockedIsCurrent'
    BY <1>3 DEF CustomerAnswers, LockedIsCurrent, Current, Dirty, dbVars
  <1>4. CASE UNCHANGED vars
    BY <1>4 DEF vars, LockedIsCurrent, Current, Dirty
  <1> QED  BY <1>1, <1>2, <1>3, <1>4 DEF Next, Closed

\* Whatever the interleaving, a product a session has locked is as it loaded
\* it, and what its UPDATE will write is that plus its ledger rows.
THEOREM LockedCurrent == Spec => []LockedIsCurrent
  <1>1. Init => LockedIsCurrent
    <2> SUFFICES ASSUME Init, NEW s \in Session  PROVE Current(s)
      BY DEF LockedIsCurrent
    <2>1. sess[s] = Idle
      BY DEF Init
    <2>2. \A p \in Product : Idle.next[p] = 0 /\ Idle.base[p] = 0 /\ Idle.rows[p] = 0
      BY DEF Idle, Zero
    <2>3. Idle.held = {} /\ Idle.pc = "idle"
      BY DEF Idle
    <2> QED  BY <2>1, <2>2, <2>3 DEF Current
  <1> QED  BY <1>1, NextCurrent, TypeCorrect, PTL DEF Spec

-----------------------------------------------------------------------------
(* Stock and ledger *)

\* A commit of a handler that locks before it reads moves both alike.
LEMMA CommitGap ==
    ASSUME TypeOK, LockedIsCurrent, NEW s \in Session, Commit(s),
           sess[s].op \notin Unlocked, NEW p \in Product
    PROVE  Gap(p)' = Gap(p)
  <1>1. sess[s] \in SessionState /\ Current(s)
    BY DEF TypeOK, LockedIsCurrent
  <1>2. /\ sess[s].base[p] \in Int /\ sess[s].next[p] \in Int /\ sess[s].rows[p] \in Int
        /\ stock[p] \in Int /\ ledger[p] \in Int
    BY <1>1 DEF SessionState, TypeOK
  <1>3. sess[s].next[p] = sess[s].base[p] + sess[s].rows[p]
    BY <1>1 DEF Current
  <1>4. /\ stock'[p] = IF p \in Dirty(s) THEN sess[s].next[p] ELSE stock[p]
        /\ ledger'[p] = ledger[p] + sess[s].rows[p]
    BY DEF Commit
  <1>5. CASE p \in Dirty(s)
    <2>1. sess[s].next[p] # sess[s].base[p]
      BY <1>5 DEF Dirty
    <2>2. p \in sess[s].held
      BY <1>1, <1>2, <1>3, <2>1 DEF Current
    <2>3. sess[s].base[p] = stock[p]
      BY <1>1, <2>2 DEF Current
    <2> QED  BY <1>2, <1>3, <1>4, <1>5, <2>3 DEF Gap
  <1>6. CASE p \notin Dirty(s)
    <2>1. sess[s].rows[p] = 0
      BY <1>2, <1>3, <1>6 DEF Dirty
    <2> QED  BY <1>2, <1>4, <1>6, <2>1 DEF Gap
  <1> QED  BY <1>5, <1>6

\* No other step moves stock or ledger.
LEMMA OnlyCommitMoves ==
    ASSUME [Next]_vars
    PROVE  \/ UNCHANGED <<stock, ledger>>
           \/ \E s \in Session : Commit(s)
  <1>1. ASSUME NEW s \in Session, Arrive(s)  PROVE UNCHANGED <<stock, ledger>>
    BY <1>1 DEF Arrive, BeginCreate, BeginVoid, BeginConfirm, BeginPush, Callback,
                CallbackSkips, BeginAdjust, BeginUpdate, BeginCleanup, dbVars
  <1>2. ASSUME NEW s \in Session, Proceed(s), ~Commit(s)
        PROVE  UNCHANGED <<stock, ledger>>
    BY <1>2 DEF Proceed, LockLine, RefuseLine, RefuseCash, PushAccepted, PushFailed,
                CleanupNext, Flush, RefuseFlush, LockTimeout, CleanupRowFails,
                Rollback, dbVars
  <1>3. ASSUME NEW s \in Session, Crash(s)  PROVE UNCHANGED <<stock, ledger>>
    BY <1>3 DEF Crash, dbVars
  <1>4. ASSUME NEW r \in Ref, CustomerAnswers(r)  PROVE UNCHANGED <<stock, ledger>>
    BY <1>4 DEF CustomerAnswers, dbVars
  <1> QED  BY <1>1, <1>2, <1>3, <1>4 DEF Next, Closed, vars

\* Only adjust_stock and a PATCH of stock_quantity, which read the row without
\* a lock, can move stock and ledger apart.
THEOREM GapTheorem == Spec => GapOnlyFromUnlocked
  <1>1. ASSUME TypeOK, LockedIsCurrent, [Next]_vars
        PROVE  [\A p \in Product : Gap(p)' # Gap(p) =>
                  \E s \in Session : /\ sess[s].pc = "commit" /\ sess'[s].pc = "idle"
                                     /\ sess[s].op \in Unlocked]_vars
    <2>1. ASSUME NEW p \in Product, Gap(p)' # Gap(p)
          PROVE  \E s \in Session : /\ sess[s].pc = "commit" /\ sess'[s].pc = "idle"
                                    /\ sess[s].op \in Unlocked
      <3>1. PICK s \in Session : Commit(s)
        BY <1>1, <2>1, OnlyCommitMoves DEF Gap
      <3>2. sess[s].op \in Unlocked
        BY <1>1, <2>1, <3>1, CommitGap
      <3>3. sess[s].pc = "commit" /\ sess'[s].pc = "idle"
        BY <1>1, <3>1 DEF Commit, Release, TypeOK, Idle
      <3> QED  BY <3>2, <3>3
    <2> QED  BY <2>1
  <1> QED  BY <1>1, TypeCorrect, LockedCurrent, PTL DEF Spec, GapOnlyFromUnlocked

\* Without those two handlers the ledger is authoritative: no session ever
\* does unlocked work, and every other commit keeps the gap at zero.
NoUnlockedWork == \A s \in Session : sess[s].op \notin Unlocked

LEMMA BeginSess ==
    ASSUME TypeOK, NEW s \in Session, NEW w, Begin(s, w)
    PROVE  sess'[s] = w /\ \A q \in Session \ {s} : sess'[q] = sess[q]
  BY DEF Begin, TypeOK

LEMMA ReleaseSess ==
    ASSUME TypeOK, NEW s \in Session, Release(s)
    PROVE  sess'[s] = Idle /\ \A q \in Session \ {s} : sess'[q] = sess[q]
  BY DEF Release, TypeOK

LEMMA ArriveOp ==
    ASSUME TypeOK, NEW s \in Session, Arrive(s), Adjustments = {}, Overwrites = {}
    PROVE  /\ \A q \in Session \ {s} : sess'[q] = sess[q]
           /\ sess'[s].op \notin Unlocked \/ sess'[s] = sess[s]
  <1>1. ASSUME NEW t \in Txn, NEW cart \in Carts, BeginCreate(s, t, cart)
        PROVE  sess'[s].op = "create" /\ \A q \in Session \ {s} : sess'[q] = sess[q]
    BY <1>1 DEF BeginCreate, Begin, Idle, TypeOK
  <1>2. ASSUME NEW t \in Txn, BeginVoid(s, t)
        PROVE  sess'[s].op = "void" /\ \A q \in Session \ {s} : sess'[q] = sess[q]
    BY <1>2 DEF BeginVoid, Begin, Idle, TypeOK
  <1>3. ASSUME NEW t \in Txn, NEW r \in Ref, BeginConfirm(s, t, r)
        PROVE  sess'[s].op = "confirm" /\ \A q \in Session \ {s} : sess'[q] = sess[q]
    BY <1>3 DEF BeginConfirm, Begin, Idle, TypeOK
  <1>4. ASSUME NEW t \in Txn, BeginPush(s, t)
        PROVE  sess'[s].op = "push" /\ \A q \in Session \ {s} : sess'[q] = sess[q]
    BY <1>4 DEF BeginPush, Begin, Idle, TypeOK
  <1>5. ASSUME NEW r \in Ref, Callback(s, r)
        PROVE  sess'[s].op = "callback" /\ \A q \in Session \ {s} : sess'[q] = sess[q]
    BY <1>5 DEF Callback, Begin, Idle, TypeOK
  <1>6. ASSUME NEW r \in Ref, CallbackSkips(s, r)  PROVE sess' = sess
    BY <1>6 DEF CallbackSkips
  <1>7. ASSUME BeginCleanup(s)
        PROVE  sess'[s].op = "cleanup" /\ \A q \in Session \ {s} : sess'[q] = sess[q]
    BY <1>7 DEF BeginCleanup, Begin, Idle, TypeOK
  <1> QED
    BY <1>1, <1>2, <1>3, <1>4, <1>5, <1>6, <1>7 DEF Arrive, Unlocked

LEMMA ProceedOp ==
    ASSUME TypeOK, NEW s \in Session, Proceed(s)
    PROVE  /\ \A q \in Session \ {s} : sess'[q] = sess[q]
           /\ sess'[s].op \in {sess[s].op, "cleanup", "none"}
  <1>0. sess[s] \in SessionState
    BY DEF TypeOK
  <1>1. CASE RefuseLine(s) \/ RefuseCash(s) \/ PushFailed(s) \/ RefuseFlush(s)
             \/ LockTimeout(s) \/ Commit(s)
    <2>1. Release(s)
      BY <1>1 DEF RefuseLine, RefuseCash, PushFailed, RefuseFlush, LockTimeout,
                  Commit, Rollback
    <2> QED  BY <2>1, ReleaseSess DEF Idle
  <1>2. CASE LockLine(s)
    BY <1>0, <1>2 DEF LockLine, TypeOK, SessionState
  <1>3. ASSUME NEW r \in Ref, PushAccepted(s, r)
        PROVE  /\ \A q \in Session \ {s} : sess'[q] = sess[q]
               /\ sess'[s].op = sess[s].op
    BY <1>0, <1>3 DEF PushAccepted, TypeOK, SessionState
  <1>4. CASE CleanupNext(s)
    BY <1>0, <1>4 DEF CleanupNext, TypeOK, SessionState
  <1>5. CASE Flush(s)
    BY <1>0, <1>5 DEF Flush, TypeOK, SessionState
  <1>6. CASE CleanupRowFails(s)
    BY <1>6 DEF CleanupRowFails, TypeOK, Idle
  <1> QED  BY <1>1, <1>2, <1>3, <1>4, <1>5, <1>6 DEF Proceed

LEMMA NoUnlockedStep ==
    ASSUME Adjustments = {}, Overwrites = {}, TypeOK, NoUnlockedWork, [Next]_vars
    PROVE  NoUnlockedWork'
  <1>1. ASSUME NEW s \in Session, Arrive(s)  PROVE NoUnlockedWork'
    BY <1>1, ArriveOp DEF NoUnlockedWork
  <1>2. ASSUME NEW s \in Session, Proceed(s)  PROVE NoUnlockedWork'
    BY <1>2, ProceedOp DEF NoUnlockedWork, Unlocked
  <1>3. ASSUME NEW s \in Session, Crash(s)  PROVE NoUnlockedWork'
    BY <1>3, ReleaseSess DEF Crash, NoUnlockedWork, Unlocked, Idle
  <1>4. ASSUME NEW r \in Ref, CustomerAnswers(r)  PROVE NoUnlockedWork'
    BY <1>4 DEF CustomerAnswers, NoUnlockedWork
  <1>5. CASE UNCHANGED vars
    BY <1>5 DEF vars, NoUnlockedWork
  <1> QED  BY <1>1, <1>2, <1>3, <1>4, <1>5 DEF Next, Closed

\* In a shop that corrects its stock only through sales, voids and the cleanup,
\* stock_quantity is the sum of stock_movements at every moment.
THEOREM LedgerTheorem ==
    Adjustments = {} /\ Overwrites = {} => (Spec => []LedgerIsAuthoritative)
  <1> SUFFICES ASSUME Adjustments = {}, Overwrites = {}
               PROVE  Spec => []LedgerIsAuthoritative
    OBVIOUS
  <1>1. Init => NoUnlockedWork /\ LedgerIsAuthoritative
    BY DEF Init, NoUnlockedWork, Idle, Unlocked, LedgerIsAuthoritative
  <1>2. TypeOK /\ NoUnlockedWork /\ [Next]_vars => NoUnlockedWork'
    BY NoUnlockedStep
  <1>3. ASSUME TypeOK, LockedIsCurrent, NoUnlockedWork, LedgerIsAuthoritative, [Next]_vars
        PROVE  LedgerIsAuthoritative'
    <2>1. CASE UNCHANGED <<stock, ledger>>
      BY <1>3, <2>1 DEF LedgerIsAuthoritative
    <2>2. ASSUME NEW s \in Session, Commit(s)  PROVE LedgerIsAuthoritative'
      <3> SUFFICES ASSUME NEW p \in Product  PROVE stock'[p] = ledger'[p]
        BY DEF LedgerIsAuthoritative
      <3>1. Gap(p)' = Gap(p)
        BY <1>3, <2>2, CommitGap DEF NoUnlockedWork
      <3>2. TypeOK'
        BY <1>3, NextType
      <3>3. /\ stock[p] = ledger[p] /\ stock[p] \in Int /\ ledger[p] \in Int
            /\ stock'[p] \in Int /\ ledger'[p] \in Int
        BY <1>3, <3>2 DEF LedgerIsAuthoritative, TypeOK
      <3> QED  BY <3>1, <3>3 DEF Gap
    <2> QED  BY <1>3, <2>1, <2>2, OnlyCommitMoves
  <1> QED  BY <1>1, <1>2, <1>3, TypeCorrect, LockedCurrent, PTL DEF Spec

-----------------------------------------------------------------------------
(* Sales and their marks *)

\* A step of s as the others see it: the rows they have locked are as they
\* were, and a sale that exists keeps existing, with its payment method.
Orderly(s) ==
    /\ \A q \in Session \ {s} :
          /\ sess'[q] = sess[q]
          /\ \A t \in Txn : tlock[t] = q => tlock'[t] = q /\ txns'[t] = txns[t]
    /\ \A t \in Txn : Exists(t) => Exists(t)' /\ txns'[t].mpesa = txns[t].mpesa

LEMMA SoundFrame ==
    ASSUME TypeOK, LockedIsCurrent, NEW s \in Session, NEW q \in Session \ {s},
           Sound(q), Orderly(s)
    PROVE  Sound(q)'
  <1>1. sess[q] \in SessionState /\ Current(q)
    BY DEF TypeOK, LockedIsCurrent
  <1>2. sess[q].marks \subseteq Txn /\ sess[q].todo \subseteq Txn
    BY <1>1 DEF SessionState
  <1>3. sess'[q] = sess[q]
    BY DEF Orderly
  <1>4. \A t \in sess[q].marks \cup sess[q].todo :
           Exists(t) => Exists(t)' /\ txns'[t].mpesa = txns[t].mpesa
    BY <1>2 DEF Orderly
  <1>5. sess[q].op = "create" /\ sess[q].pc = "commit" =>
           \A t \in sess[q].marks : txns'[t] = txns[t]
    BY <1>1, <1>2 DEF Orderly, Current
  <1>6. sess[q].op = "callback" =>
           \A t \in sess[q].marks : tlock'[t] = q /\ txns'[t] = txns[t]
    BY <1>2 DEF Orderly, Sound
  <1>7. sess[q].op \in {"push", "confirm", "callback", "cleanup"} => sess[q].op # "create"
    OBVIOUS
  <1> QED
    BY <1>3, <1>4, <1>5, <1>6, <1>7 DEF Sound, Exists

\* The tables' part of the invariant, when no row of txns changes.
LEMMA SoundStep ==
    ASSUME TypeOK, LockedIsCurrent, MarksAreSound, NEW s \in Session, Orderly(s),
           Sound(s)', UNCHANGED <<txns, pushed>>,
           \A r \in Ref : receipt'[r] # "none" => receipt[r] # "none"
    PROVE  MarksAreSound'
  <1>1. \A q \in Session : Sound(q)'
    BY SoundFrame DEF MarksAreSound
  <1> QED  BY <1>1 DEF MarksAreSound, Exists

LEMMA ReleaseSound ==
    ASSUME TypeOK, NEW s \in Session, Release(s)
    PROVE  /\ Sound(s)'
           /\ \A q \in Session \ {s} :
                 sess'[q] = sess[q] /\ \A t \in Txn : tlock[t] = q => tlock'[t] = q
  <1>1. sess'[s] = Idle /\ \A q \in Session \ {s} : sess'[q] = sess[q]
    BY ReleaseSess
  <1>2. Idle.pc = "idle" /\ Idle.op = "none" /\ Idle.marks = {} /\ Idle.todo = {}
    BY DEF Idle
  <1>3. Sound(s)'
    BY <1>1, <1>2 DEF Sound
  <1> QED  BY <1>1, <1>3 DEF Release, TypeOK

LEMMA RollbackSound ==
    ASSUME TypeOK, LockedIsCurrent, MarksAreSound, NEW s \in Session, Rollback(s)
    PROVE  MarksAreSound'
  BY ReleaseSound, SoundStep DEF Rollback, Orderly, Exists, dbVars, payVars

LEMMA BeginSound ==
    ASSUME TypeOK, LockedIsCurrent, MarksAreSound, NEW s \in Session, Sound(s)',
           \A q \in Session \ {s} : sess'[q] = sess[q],
           \A q \in Session, t \in Txn : tlock[t] = q => tlock'[t] = q,
           UNCHANGED <<txns, pushed>>,
           \A r \in Ref : receipt'[r] # "none" => receipt[r] # "none"
    PROVE  MarksAreSound'
  <1>1. Orderly(s)
    BY DEF Orderly, Exists
  <1> QED  BY <1>1, SoundStep

LEMMA ArriveSound ==
    ASSUME TypeOK, LockedIsCurrent, MarksAreSound, NEW s \in Session, Arrive(s)
    PROVE  MarksAreSound'
  <1>1. ASSUME NEW t \in Txn, NEW cart \in Carts, BeginCreate(s, t, cart)
        PROVE  MarksAreSound'
    <2>1. /\ sess'[s].op = "create" /\ sess'[s].pc = "work" /\ sess'[s].todo = {}
          /\ \A q \in Session \ {s} : sess'[q] = sess[q]
      BY <1>1 DEF BeginCreate, Begin, Idle, TypeOK
    <2>2. Sound(s)'
      BY <2>1 DEF Sound, Unlocked
    <2> QED  BY <1>1, <2>1, <2>2, BeginSound DEF BeginCreate, dbVars, payVars
  <1>2. ASSUME NEW t \in Txn, BeginVoid(s, t)  PROVE MarksAreSound'
    <2>1. /\ sess'[s].op = "void" /\ sess'[s].pc = "work"
          /\ sess'[s].marks = {t} /\ sess'[s].todo = {}
          /\ \A q \in Session \ {s} : sess'[q] = sess[q]
      BY <1>2 DEF BeginVoid, Begin, Idle, TypeOK
    <2>2. Sound(s)'
      BY <1>2, <2>1 DEF Sound, Exists, Unlocked, BeginVoid, dbVars
    <2> QED  BY <1>2, <2>1, <2>2, BeginSound DEF BeginVoid, dbVars, payVars
  <1>3. ASSUME NEW t \in Txn, NEW r \in Ref, BeginConfirm(s, t, r)
        PROVE  MarksAreSound'
    <2>1. /\ sess'[s].op = "confirm" /\ sess'[s].pc = "work"
          /\ sess'[s].marks = {t} /\ sess'[s].todo = {}
          /\ \A q \in Session \ {s} : sess'[q] = sess[q]
      BY <1>3 DEF BeginConfirm, Begin, Idle, TypeOK
    <2>2. Sound(s)'
      BY <1>3, <2>1 DEF Sound, Exists, Unlocked, BeginConfirm, MarksAreSound, dbVars
    <2> QED  BY <1>3, <2>1, <2>2, BeginSound DEF BeginConfirm, dbVars, payVars
  <1>4. ASSUME NEW t \in Txn, BeginPush(s, t)  PROVE MarksAreSound'
    <2>1. /\ sess'[s].op = "push" /\ sess'[s].pc = "await"
          /\ sess'[s].marks = {t} /\ sess'[s].todo = {}
          /\ \A q \in Session \ {s} : sess'[q] = sess[q]
      BY <1>4 DEF BeginPush, Begin, Idle, TypeOK
    <2>2. Sound(s)'
      BY <1>4, <2>1 DEF Sound, Exists, Unlocked, BeginPush, MarksAreSound, dbVars
    <2> QED  BY <1>4, <2>1, <2>2, BeginSound DEF BeginPush, dbVars, payVars
  <1>5. ASSUME NEW r \in Ref, Callback(s, r)  PROVE MarksAreSound'
    <2> DEFINE t == pushed[r]
    <2>0. t \in Txn
      BY <1>5 DEF Callback, TypeOK
    <2>1. /\ sess'[s].op = "callback" /\ sess'[s].pc = "work"
          /\ sess'[s].marks = {t} /\ sess'[s].todo = {}
          /\ \A q \in Session \ {s} : sess'[q] = sess[q]
      BY <1>5 DEF Callback, Begin, Idle, TypeOK
    <2>2. tlock[t] = Free /\ tlock' = [tlock EXCEPT ![t] = s]
      BY <1>5 DEF Callback, SkipLocked
    <2>3. Sound(s)'
      BY <1>5, <2>0, <2>1, <2>2 DEF Sound, Exists, Unlocked, Callback, MarksAreSound, TypeOK, dbVars
    <2>4. \A q \in Session, u \in Txn : tlock[u] = q => tlock'[u] = q
      BY <2>0, <2>2, FreeAssumption DEF TypeOK
    <2>5. \A x \in Ref : receipt'[x] # "none" => receipt[x] # "none"
      BY <1>5 DEF Callback, Answered, TypeOK
    <2> QED  BY <1>5, <2>1, <2>3, <2>4, <2>5, BeginSound DEF Callback, dbVars
  <1>6. ASSUME NEW r \in Ref, CallbackSkips(s, r)  PROVE MarksAreSound'
    <2>1. \A x \in Ref : receipt'[x] # "none" => receipt[x] # "none"
      BY <1>6 DEF CallbackSkips, Answered, TypeOK
    <2> QED  BY <1>6, <2>1 DEF CallbackSkips, MarksAreSound, Sound, Exists, dbVars
  <1>7. ASSUME NEW p \in Product, NEW a \in Adjustments, BeginAdjust(s, p, a)
        PROVE  MarksAreSound'
    <2>1. /\ sess'[s].op = "adjust" /\ sess'[s].pc = "work"
          /\ sess'[s].marks = {} /\ sess'[s].todo = {}
          /\ \A q \in Session \ {s} : sess'[q] = sess[q]
      BY <1>7 DEF BeginAdjust, Begin, Idle, TypeOK
    <2>2. Sound(s)'
      BY <2>1 DEF Sound, Unlocked
    <2> QED  BY <1>7, <2>1, <2>2, BeginSound DEF BeginAdjust, dbVars, payVars
  <1>8. ASSUME NEW p \in Product, NEW v \in Overwrites, BeginUpdate(s, p, v)
        PROVE  MarksAreSound'
    <2>1. /\ sess'[s].op = "update" /\ sess'[s].pc = "work"
          /\ sess'[s].marks = {} /\ sess'[s].todo = {}
          /\ \A q \in Session \ {s} : sess'[q] = sess[q]
      BY <1>8 DEF BeginUpdate, Begin, Idle, TypeOK
    <2>2. Sound(s)'
      BY <2>1 DEF Sound, Unlocked
    <2> QED  BY <1>8, <2>1, <2>2, BeginSound DEF BeginUpdate, dbVars, payVars
  <1>9. ASSUME BeginCleanup(s)  PROVE MarksAreSound'
    <2>1. PICK stale \in SUBSET {t \in Txn : txns[t].status = "pending" /\ txns[t].mpesa} :
             Begin(s, [Idle EXCEPT !.pc = "work", !.op = "cleanup", !.todo = stale])
      BY <1>9 DEF BeginCleanup
    <2>2. /\ sess'[s].op = "cleanup" /\ sess'[s].pc = "work"
          /\ sess'[s].marks = {} /\ sess'[s].todo = stale
          /\ \A q \in Session \ {s} : sess'[q] = sess[q]
      BY <2>1 DEF Begin, Idle, TypeOK
    <2>3. Sound(s)'
      BY <1>9, <2>1, <2>2 DEF BeginCleanup, Sound, Exists, Unlocked, dbVars
    <2> QED  BY <1>9, <2>2, <2>3, BeginSound DEF BeginCleanup, dbVars, payVars
  <1> QED  BY <1>1, <1>2, <1>3, <1>4, <1>5, <1>6, <1>7, <1>8, <1>9 DEF Arrive

\* What a commit makes of the rows it marks.
LEMMA WrittenRow ==
    ASSUME TypeOK, MarksAreSound, NEW s \in Session, sess[s].pc = "commit",
           NEW t \in sess[s].marks
    PROVE  /\ Written(s, t).status # "absent"
           /\ Exists(t) => Written(s, t).mpesa = txns[t].mpesa
           /\ Written(s, t).status = "pending" => Written(s, t).mpesa
  <1>1. sess[s] \in SessionState /\ Sound(s)
    BY DEF TypeOK, MarksAreSound
  <1>2. t \in Txn /\ txns[t] \in TxnRow
    BY <1>1 DEF SessionState, TypeOK
  <1>3. CASE sess[s].op = "create"
    <2>1. ~Exists(t)
      BY <1>1, <1>3 DEF Sound, Unlocked
    <2> QED  BY <1>3, <2>1 DEF Written
  <1>4. CASE sess[s].op # "create"
    <2>1. Exists(t)
      BY <1>1, <1>4 DEF Sound, Unlocked
    <2> QED
      BY <1>2, <1>4, <2>1 DEF Written, Restores, Exists, TxnRow, MarksAreSound
  <1> QED  BY <1>3, <1>4

LEMMA CommitSound ==
    ASSUME TypeOK, LockedIsCurrent, MarksAreSound, NEW s \in Session, Commit(s)
    PROVE  MarksAreSound'
  <1>1. sess[s] \in SessionState /\ Current(s) /\ sess[s].pc = "commit"
    BY DEF TypeOK, LockedIsCurrent, Commit
  <1>2. sess[s].marks \subseteq Txn /\ \A t \in sess[s].marks : tlock[t] = s
    BY <1>1 DEF SessionState, Current
  <1>3. \A t \in Txn : txns'[t] = IF t \in sess[s].marks THEN Written(s, t) ELSE txns[t]
    BY DEF Commit
  <1>4. /\ Sound(s)'
        /\ \A q \in Session \ {s} :
              sess'[q] = sess[q] /\ \A t \in Txn : tlock[t] = q => tlock'[t] = q
    BY ReleaseSound DEF Commit
  <1>5. Orderly(s)
    <2>1. \A t \in Txn : Exists(t) => Exists(t)' /\ txns'[t].mpesa = txns[t].mpesa
      BY <1>1, <1>3, WrittenRow DEF Exists
    <2> QED  BY <1>2, <1>3, <1>4, <2>1 DEF Orderly
  <1>6. \A q \in Session : Sound(q)'
    BY <1>4, <1>5, SoundFrame DEF MarksAreSound
  <1>7. \A t \in Txn : txns'[t].status = "pending" => txns'[t].mpesa
    BY <1>1, <1>3, WrittenRow DEF MarksAreSound
  <1>8. ASSUME NEW r \in Ref, receipt'[r] # "none"
        PROVE  pushed'[r] \in Txn /\ Exists(pushed[r])' /\ txns'[pushed'[r]].mpesa
    BY <1>5, <1>8 DEF Orderly, MarksAreSound, Commit, payVars, Exists
  <1> QED  BY <1>6, <1>7, <1>8 DEF MarksAreSound

LEMMA ProceedSound ==
    ASSUME TypeOK, LockedIsCurrent, MarksAreSound, NEW s \in Session, Proceed(s)
    PROVE  MarksAreSound'
  <1>0. sess[s] \in SessionState /\ Current(s) /\ Sound(s)
    BY DEF TypeOK, LockedIsCurrent, MarksAreSound
  <1>1. CASE RefuseLine(s) \/ RefuseCash(s) \/ PushFailed(s) \/ RefuseFlush(s) \/ LockTimeout(s)
    BY <1>1, RollbackSound DEF RefuseLine, RefuseCash, PushFailed, RefuseFlush, LockTimeout
  <1>2. CASE LockLine(s)
    <2>1. /\ \A q \in Session \ {s} : sess'[q] = sess[q]
          /\ sess'[s].pc = sess[s].pc /\ sess'[s].op = sess[s].op
          /\ sess'[s].marks = sess[s].marks /\ sess'[s].todo = sess[s].todo
      BY <1>0, <1>2 DEF LockLine, TypeOK, SessionState
    <2>2. Sound(s)'
      BY <1>0, <1>2, <2>1 DEF LockLine, Sound, Exists, Unlocked, dbVars
    <2> QED  BY <1>2, <2>1, <2>2, BeginSound DEF LockLine, dbVars, payVars
  <1>3. ASSUME NEW r \in Ref, PushAccepted(s, r)  PROVE MarksAreSound'
    <2>1. PICK t \in sess[s].marks : pushed' = [pushed EXCEPT ![r] = t]
      BY <1>3 DEF PushAccepted
    <2>2. /\ \A q \in Session \ {s} : sess'[q] = sess[q]
          /\ sess'[s].pc = "work" /\ sess'[s].op = sess[s].op
          /\ sess'[s].marks = sess[s].marks /\ sess'[s].todo = sess[s].todo
      BY <1>0, <1>3 DEF PushAccepted, TypeOK, SessionState
    <2>3. sess[s].op = "push" /\ t \in Txn /\ Exists(t) /\ txns[t].mpesa
      BY <1>0, <1>3, <2>1 DEF PushAccepted, Sound, SessionState
    <2>4. Sound(s)'
      BY <1>0, <1>3, <2>2, <2>3 DEF PushAccepted, Sound, Exists, Unlocked, dbVars
    <2>5. Orderly(s)
      BY <1>3, <2>2 DEF PushAccepted, Orderly, Exists, dbVars
    <2>6. \A q \in Session : Sound(q)'
      BY <2>4, <2>5, SoundFrame DEF MarksAreSound
    <2>7. ASSUME NEW x \in Ref, receipt'[x] # "none"
          PROVE  pushed'[x] \in Txn /\ Exists(pushed[x])' /\ txns'[pushed'[x]].mpesa
      BY <1>3, <2>1, <2>3, <2>7 DEF PushAccepted, MarksAreSound, TypeOK, Exists, dbVars
    <2> QED  BY <1>3, <2>6, <2>7 DEF PushAccepted, MarksAreSound, dbVars
  <1>4. CASE CleanupNext(s)
    <2>1. PICK t \in sess[s].todo :
             sess' = [sess EXCEPT ![s].todo = @ \ {t}, ![s].marks = @ \cup {t},
                                  ![s].lines = txns[t].lines]
      BY <1>4 DEF CleanupNext
    <2>2. /\ \A q \in Session \ {s} : sess'[q] = sess[q]
          /\ sess'[s].pc = "work" /\ sess'[s].op = sess[s].op
          /\ sess'[s].marks = sess[s].marks \cup {t}
          /\ sess'[s].todo = sess[s].todo \ {t}
      BY <1>0, <1>4, <2>1 DEF CleanupNext, TypeOK, SessionState
    <2>3. sess[s].op = "cleanup"
      BY <1>0, <2>1 DEF Sound, Unlocked
    <2>4. \A u \in sess'[s].marks \cup sess'[s].todo :
             Exists(u) /\ txns[u].mpesa
      BY <1>0, <2>1, <2>2, <2>3 DEF Sound, Unlocked
    <2>5. Sound(s)'
      BY <1>4, <2>2, <2>3, <2>4 DEF CleanupNext, Sound, Exists, Unlocked, dbVars
    <2> QED  BY <1>4, <2>2, <2>5, BeginSound DEF CleanupNext, dbVars, payVars
  <1>5. CASE Flush(s)
    <2>1. /\ \A q \in Session \ {s} : sess'[q] = sess[q]
          /\ sess'[s].pc = "commit" /\ sess'[s].op = sess[s].op
          /\ sess'[s].marks = sess[s].marks /\ sess'[s].todo = sess[s].todo
      BY <1>0, <1>5 DEF Flush, TypeOK, SessionState
    <2>2. sess[s].marks \subseteq Txn
      BY <1>0 DEF SessionState
    <2>3. Sound(s)'
      BY <1>0, <1>5, <2>1, <2>2 DEF Flush, Accepted, NumberUnique, Sound, Exists, Unlocked, dbVars
    <2>4. \A q \in Session, t \in Txn : tlock[t] = q => tlock'[t] = q
      BY <1>5, <2>2, FreeAssumption DEF Flush, RowsFree, LockFree
    <2> QED  BY <1>5, <2>1, <2>3, <2>4, BeginSound DEF Flush, dbVars, payVars
  <1>6. CASE Commit(s)
    BY <1>6, CommitSound
  <1>7. CASE CleanupRowFails(s)
    <2>1. /\ \A q \in Session \ {s} : sess'[q] = sess[q]
          /\ sess'[s].pc = "work" /\ sess'[s].op = "cleanup" /\ sess[s].op = "cleanup"
          /\ sess'[s].marks = {} /\ sess'[s].todo = sess[s].todo
      BY <1>7 DEF CleanupRowFails, TypeOK, Idle
    <2>2. Sound(s)'
      BY <1>0, <1>7, <2>1 DEF CleanupRowFails, Sound, Exists, Unlocked, dbVars
    <2> QED  BY <1>7, <2>1, <2>2, BeginSound DEF CleanupRowFails, dbVars, payVars
  <1> QED  BY <1>1, <1>2, <1>3, <1>4, <1>5, <1>6, <1>7 DEF Proceed

LEMMA NextSound ==
    TypeOK /\ LockedIsCurrent /\ MarksAreSound /\ [Next]_vars => MarksAreSound'
  <1> SUFFICES ASSUME TypeOK, LockedIsCurrent, MarksAreSound, [Next]_vars
               PROVE  MarksAreSound'
    OBVIOUS
  <1>1. ASSUME NEW s \in Session, Arrive(s) \/ Proceed(s)  PROVE MarksAreSound'
    BY <1>1, ArriveSound, ProceedSound
  <1>2. ASSUME NEW s \in Session, Crash(s)  PROVE MarksAreSound'
    <2>1. \A r \in Ref : receipt'[r] # "none" => receipt[r] # "none"
      BY <1>2 DEF Crash, TypeOK
    <2> QED  BY <1>2, <2>1, ReleaseSound, SoundStep DEF Crash, Orderly, Exists, dbVars
  <1>3. ASSUME NEW r \in Ref, CustomerAnswers(r)  PROVE MarksAreSound'
    <2>1. \A x \in Ref : receipt'[x] # "none" => receipt[x] # "none"
      BY <1>3 DEF CustomerAnswers, TypeOK
    <2> QED  BY <1>3, <2>1 DEF CustomerAnswers, MarksAreSound, Sound, Exists, dbVars
  <1>4. CASE UNCHANGED vars
    BY <1>4 DEF vars, MarksAreSound, Sound, Exists
  <1> QED  BY <1>1, <1>2, <1>3, <1>4 DEF Next, Closed

\* What a session is about to write fits the row it writes, at every moment.
THEOREM MarksSound == Spec => []MarksAreSound
  <1>1. Init => MarksAreSound
    BY DEF Init, MarksAreSound, Sound, Exists, Unlocked, Idle, Absent
  <1> QED  BY <1>1, NextSound, TypeCorrect, LockedCurrent, PTL DEF Spec

\* The callback commits only on a row that is pending.
THEOREM CallbackTheorem == Spec => CallbackCompletesPending
  <1>1. ASSUME MarksAreSound
        PROVE  [\A s \in Session :
                  sess[s].op = "callback" /\ sess[s].pc = "commit" /\ txns' # txns
                      /\ sess'[s].pc = "idle"
                  => \A t \in sess[s].marks : txns[t].status = "pending"]_vars
    BY <1>1 DEF MarksAreSound, Sound
  <1> QED  BY <1>1, MarksSound, PTL DEF CallbackCompletesPending

\* No other step writes transactions or counts postings.
LEMMA OnlyCommitWrites ==
    ASSUME [Next]_vars
    PROVE  \/ UNCHANGED <<txns, sold, restored>>
           \/ \E s \in Session : Commit(s)
  <1>1. ASSUME NEW s \in Session, Arrive(s)  PROVE UNCHANGED <<txns, sold, restored>>
    BY <1>1 DEF Arrive, BeginCreate, BeginVoid, BeginConfirm, BeginPush, Callback,
                CallbackSkips, BeginAdjust, BeginUpdate, BeginCleanup, dbVars
  <1>2. ASSUME NEW s \in Session, Proceed(s), ~Commit(s)
        PROVE  UNCHANGED <<txns, sold, restored>>
    BY <1>2 DEF Proceed, LockLine, RefuseLine, RefuseCash, PushAccepted, PushFailed,
                CleanupNext, Flush, RefuseFlush, LockTimeout, CleanupRowFails,
                Rollback, dbVars
  <1>3. ASSUME NEW s \in Session, Crash(s)  PROVE UNCHANGED <<txns, sold, restored>>
    BY <1>3 DEF Crash, dbVars
  <1>4. ASSUME NEW r \in Ref, CustomerAnswers(r)  PROVE UNCHANGED <<txns, sold, restored>>
    BY <1>4 DEF CustomerAnswers, dbVars
  <1> QED  BY <1>1, <1>2, <1>3, <1>4 DEF Next, Closed, vars

\* However often and however concurrently a sale is sent, it is posted once.
THEOREM KeyTheorem == Spec => []KeySellsOnce
  <1>1. Init => KeySellsOnce
    BY DEF Init, KeySellsOnce, Absent
  <1>2. ASSUME TypeOK, MarksAreSound, KeySellsOnce, [Next]_vars  PROVE KeySellsOnce'
    <2>1. CASE UNCHANGED <<txns, sold, restored>>
      BY <1>2, <2>1 DEF KeySellsOnce
    <2>2. ASSUME NEW s \in Session, Commit(s)  PROVE KeySellsOnce'
      <3> SUFFICES ASSUME NEW t \in Txn
                   PROVE  sold'[t] = IF txns'[t].status = "absent" THEN 0 ELSE 1
        BY DEF KeySellsOnce
      <3>1. Sound(s) /\ sess[s].pc = "commit"
        BY <1>2, <2>2 DEF MarksAreSound, Commit
      <3>2. sold[t] = IF Exists(t) THEN 1 ELSE 0
        BY <1>2 DEF KeySellsOnce, Exists
      <3>3. CASE t \notin sess[s].marks
        BY <2>2, <3>2, <3>3 DEF Commit, Exists
      <3>4. CASE t \in sess[s].marks /\ sess[s].op = "create"
        BY <1>2, <2>2, <3>1, <3>2, <3>4, WrittenRow DEF Commit, Sound
      <3>5. CASE t \in sess[s].marks /\ sess[s].op # "create"
        BY <1>2, <2>2, <3>1, <3>2, <3>5, WrittenRow DEF Commit, Sound
      <3> QED  BY <3>3, <3>4, <3>5
    <2> QED  BY <1>2, <2>1, <2>2, OnlyCommitWrites
  <1> QED  BY <1>1, <1>2, TypeCorrect, MarksSound, PTL DEF Spec

\* A sale's status and the goods agree: only M-PESA sales can be completed
\* after their goods were given back.
THEOREM StatusTheorem == Spec => []StatusTellsGoods
  <1>1. Init => StatusTellsGoods
    BY DEF Init, StatusTellsGoods, Absent
  <1>2. ASSUME TypeOK, MarksAreSound, StatusTellsGoods, [Next]_vars
        PROVE  StatusTellsGoods'
    <2>1. CASE UNCHANGED <<txns, sold, restored>>
      BY <1>2, <2>1 DEF StatusTellsGoods
    <2>2. ASSUME NEW s \in Session, Commit(s)  PROVE StatusTellsGoods'
      <3> SUFFICES ASSUME NEW t \in Txn
                   PROVE  /\ txns'[t].status \in {"absent", "pending"} => restored'[t] = 0
                          /\ txns'[t].status = "completed" /\ ~txns'[t].mpesa
                                => restored'[t] = 0
                          /\ txns'[t].status = "voided" => restored'[t] >= 1
        BY DEF StatusTellsGoods
      <3>1. /\ Sound(s) /\ sess[s].pc = "commit" /\ sess[s] \in SessionState
            /\ txns[t] \in TxnRow /\ restored[t] \in Nat
        BY <1>2, <2>2 DEF MarksAreSound, Commit, TypeOK
      <3>2. /\ txns'[t] = IF t \in sess[s].marks THEN Written(s, t) ELSE txns[t]
            /\ restored'[t] = IF Restores(s) /\ t \in sess[s].marks
                              THEN restored[t] + 1 ELSE restored[t]
        BY <2>2 DEF Commit
      <3>3. CASE t \notin sess[s].marks
        BY <1>2, <3>2, <3>3 DEF StatusTellsGoods
      <3>4. CASE t \in sess[s].marks /\ sess[s].op = "create"
        <4>1. txns[t].status = "absent"
          BY <3>1, <3>4 DEF Sound, Exists
        <4>2. restored[t] = 0
          BY <1>2, <4>1 DEF StatusTellsGoods
        <4>3. Written(s, t).status \in {"pending", "completed"}
          BY <3>4 DEF Written, Restores
        <4>4. ~Restores(s)
          BY <3>4 DEF Restores
        <4>5. txns'[t].status \in {"pending", "completed"} /\ restored'[t] = 0
          BY <3>2, <3>4, <4>2, <4>3, <4>4
        <4> QED  BY <4>5
      <3>5. CASE t \in sess[s].marks /\ Restores(s)
        <4>1. Written(s, t).status = "voided"
          BY <3>1, <3>5 DEF Written, Restores, TxnRow
        <4> QED  BY <3>1, <3>2, <3>5, <4>1
      <3>6. CASE t \in sess[s].marks /\ sess[s].op = "push"
        <4>1. /\ Written(s, t).status = txns[t].status
              /\ Written(s, t).mpesa = txns[t].mpesa
          BY <3>1, <3>6 DEF Written, Restores, TxnRow
        <4> QED  BY <1>2, <3>2, <3>6, <4>1 DEF StatusTellsGoods, Restores
      <3>7. CASE t \in sess[s].marks /\ sess[s].op \in {"confirm", "callback"}
        <4>1. /\ Written(s, t).status = "completed"
              /\ Written(s, t).mpesa = txns[t].mpesa
          BY <3>1, <3>7 DEF Written, Restores, TxnRow
        <4>2. txns[t].mpesa
          BY <3>1, <3>7 DEF Sound, Unlocked
        <4> QED  BY <3>2, <3>7, <4>1, <4>2
      <3>8. CASE t \in sess[s].marks /\ sess[s].op \in {"none", "adjust", "update"}
        BY <3>1, <3>8 DEF Sound, Unlocked
      <3> QED
        BY <3>1, <3>3, <3>4, <3>5, <3>6, <3>7, <3>8 DEF Restores, SessionState, Ops
    <2> QED  BY <1>2, <2>1, <2>2, OnlyCommitWrites
  <1> QED  BY <1>1, <1>2, TypeCorrect, MarksSound, PTL DEF Spec

-----------------------------------------------------------------------------
(* Locks *)

\* LocksAreOwned from the side of a session, with what keeps it inductive: a
\* session at work has locked a sale only as a callback.
OwnsItsLocks(s) ==
    /\ \A p \in Product : plock[p] = s =>
          sess[s].pc \in {"work", "commit"} /\ p \in sess[s].held \cup Dirty(s)
    /\ \A t \in Txn : tlock[t] = s =>
          /\ sess[s].pc \in {"work", "commit"} /\ t \in sess[s].marks
          /\ sess[s].op = "callback" \/ sess[s].pc = "commit"

LocksInv == \A s \in Session : OwnsItsLocks(s)

LEMMA OwnsFrame ==
    ASSUME LocksInv, NEW s \in Session, OwnsItsLocks(s)',
           \A q \in Session \ {s} : sess'[q] = sess[q],
           \A q \in Session \ {s}, p \in Product : plock'[p] = q => plock[p] = q,
           \A q \in Session \ {s}, t \in Txn : tlock'[t] = q => tlock[t] = q
    PROVE  LocksInv'
  <1> SUFFICES ASSUME NEW q \in Session \ {s}  PROVE OwnsItsLocks(q)'
    BY DEF LocksInv
  <1>1. OwnsItsLocks(q)
    BY DEF LocksInv
  <1> QED  BY <1>1 DEF OwnsItsLocks, Dirty

LEMMA ReleaseOwns ==
    ASSUME TypeOK, LocksInv, NEW s \in Session, Release(s)
    PROVE  LocksInv'
  <1>1. sess'[s] = Idle /\ \A q \in Session \ {s} : sess'[q] = sess[q]
    BY ReleaseSess
  <1>2. OwnsItsLocks(s)'
    BY FreeAssumption DEF Release, OwnsItsLocks
  <1> QED  BY <1>1, <1>2, OwnsFrame, FreeAssumption DEF Release

\* An idle session owns no lock, so a new request starts with none.
LEMMA BeginOwns ==
    ASSUME TypeOK, LocksInv, NEW s \in Session, sess[s].pc = "idle",
           \A q \in Session \ {s} : sess'[q] = sess[q], UNCHANGED <<plock, tlock>>
    PROVE  LocksInv'
  <1>1. /\ \A p \in Product : plock[p] # s
        /\ \A t \in Txn : tlock[t] # s
    BY DEF LocksInv, OwnsItsLocks
  <1>2. OwnsItsLocks(s)'
    BY <1>1 DEF OwnsItsLocks
  <1> QED  BY <1>2, OwnsFrame

LEMMA ArriveOwns ==
    ASSUME TypeOK, LocksInv, NEW s \in Session, Arrive(s)
    PROVE  LocksInv'
  <1>1. ASSUME NEW t \in Txn, NEW cart \in Carts, BeginCreate(s, t, cart)
        PROVE  LocksInv'
    BY <1>1, BeginOwns DEF BeginCreate, Begin, TypeOK
  <1>2. ASSUME NEW t \in Txn, BeginVoid(s, t)  PROVE LocksInv'
    BY <1>2, BeginOwns DEF BeginVoid, Begin, TypeOK
  <1>3. ASSUME NEW t \in Txn, NEW r \in Ref, BeginConfirm(s, t, r)  PROVE LocksInv'
    BY <1>3, BeginOwns DEF BeginConfirm, Begin, TypeOK
  <1>4. ASSUME NEW t \in Txn, BeginPush(s, t)  PROVE LocksInv'
    BY <1>4, BeginOwns DEF BeginPush, Begin, TypeOK
  <1>5. ASSUME NEW r \in Ref, Callback(s, r)  PROVE LocksInv'
    <2> DEFINE t == pushed[r]
    <2>0. t \in Txn
      BY <1>5 DEF Callback, TypeOK
    <2>1. /\ sess'[s].op = "callback" /\ sess'[s].pc = "work" /\ sess'[s].marks = {t}
          /\ sess[s].pc = "idle"
          /\ \A q \in Session \ {s} : sess'[q] = sess[q]
      BY <1>5 DEF Callback, Begin, Idle, TypeOK
    <2>2. tlock' = [tlock EXCEPT ![t] = s] /\ UNCHANGED plock
      BY <1>5 DEF Callback, SkipLocked
    <2>3. /\ \A p \in Product : plock[p] # s
          /\ \A u \in Txn : tlock[u] # s
      BY <2>1 DEF LocksInv, OwnsItsLocks
    <2>4. OwnsItsLocks(s)'
      BY <2>0, <2>1, <2>2, <2>3 DEF OwnsItsLocks, TypeOK
    <2> QED  BY <2>0, <2>1, <2>2, <2>4, OwnsFrame DEF TypeOK
  <1>6. ASSUME NEW r \in Ref, CallbackSkips(s, r)  PROVE LocksInv'
    BY <1>6 DEF CallbackSkips, LocksInv, OwnsItsLocks, Dirty
  <1>7. ASSUME NEW p \in Product, NEW a \in Adjustments, BeginAdjust(s, p, a)
        PROVE  LocksInv'
    BY <1>7, BeginOwns DEF BeginAdjust, Begin, TypeOK
  <1>8. ASSUME NEW p \in Product, NEW v \in Overwrites, BeginUpdate(s, p, v)
        PROVE  LocksInv'
    BY <1>8, BeginOwns DEF BeginUpdate, Begin, TypeOK
  <1>9. ASSUME BeginCleanup(s)  PROVE LocksInv'
    BY <1>9, BeginOwns DEF BeginCleanup, Begin, TypeOK
  <1> QED  BY <1>1, <1>2, <1>3, <1>4, <1>5, <1>6, <1>7, <1>8, <1>9 DEF Arrive

LEMMA ProceedOwns ==
    ASSUME TypeOK, LocksInv, NEW s \in Session, Proceed(s)
    PROVE  LocksInv'
  <1>0. sess[s] \in SessionState /\ OwnsItsLocks(s)
    BY DEF TypeOK, LocksInv
  <1>1. CASE RefuseLine(s) \/ RefuseCash(s) \/ PushFailed(s) \/ RefuseFlush(s)
             \/ LockTimeout(s) \/ Commit(s)
    <2>1. Release(s)
      BY <1>1 DEF RefuseLine, RefuseCash, PushFailed, RefuseFlush, LockTimeout,
                  Commit, Rollback
    <2> QED  BY <2>1, ReleaseOwns
  <1>2. CASE LockLine(s)
    <2> DEFINE p == Head(sess[s].lines).product
    <2>1. /\ p \in Product /\ sess[s].pc = "work"
          /\ plock' = [plock EXCEPT ![p] = s] /\ UNCHANGED tlock
      BY <1>2, LineType DEF LockLine, Lock
    <2>2. /\ \A q \in Session \ {s} : sess'[q] = sess[q]
          /\ sess'[s].pc = "work" /\ sess'[s].op = sess[s].op
          /\ sess'[s].marks = sess[s].marks
          /\ sess'[s].held = sess[s].held \cup {p}
          /\ \A x \in Product \ {p} : /\ sess'[s].base[x] = sess[s].base[x]
                                      /\ sess'[s].next[x] = sess[s].next[x]
      BY <1>0, <1>2, <2>1 DEF LockLine, TypeOK, SessionState
    <2>3. OwnsItsLocks(s)'
      BY <1>0, <2>1, <2>2 DEF OwnsItsLocks, Dirty, TypeOK
    <2> QED  BY <2>1, <2>2, <2>3, OwnsFrame DEF TypeOK
  <1>3. ASSUME NEW r \in Ref, PushAccepted(s, r)  PROVE LocksInv'
    <2>1. /\ \A q \in Session \ {s} : sess'[q] = sess[q]
          /\ sess[s].pc = "await" /\ UNCHANGED <<plock, tlock>>
      BY <1>3 DEF PushAccepted, TypeOK
    <2>2. /\ \A p \in Product : plock[p] # s
          /\ \A t \in Txn : tlock[t] # s
      BY <1>0, <2>1 DEF OwnsItsLocks
    <2>3. OwnsItsLocks(s)'
      BY <2>1, <2>2 DEF OwnsItsLocks
    <2> QED  BY <2>1, <2>3, OwnsFrame
  <1>4. CASE CleanupNext(s)
    <2>1. /\ \A q \in Session \ {s} : sess'[q] = sess[q]
          /\ sess'[s].held = sess[s].held /\ sess'[s].base = sess[s].base
          /\ sess'[s].next = sess[s].next /\ sess'[s].op = sess[s].op
          /\ sess'[s].pc = sess[s].pc /\ sess[s].marks \subseteq sess'[s].marks
          /\ UNCHANGED <<plock, tlock>>
      BY <1>0, <1>4 DEF CleanupNext, TypeOK, SessionState
    <2>2. OwnsItsLocks(s)'
      BY <1>0, <2>1 DEF OwnsItsLocks, Dirty
    <2> QED  BY <2>1, <2>2, OwnsFrame
  <1>5. CASE Flush(s)
    <2>1. /\ \A q \in Session \ {s} : sess'[q] = sess[q]
          /\ sess'[s].held = sess[s].held /\ sess'[s].base = sess[s].base
          /\ sess'[s].next = sess[s].next /\ sess'[s].marks = sess[s].marks
          /\ sess'[s].pc = "commit"
      BY <1>0, <1>5 DEF Flush, TypeOK, SessionState
    <2>2. /\ plock' = [p \in Product |-> IF p \in Dirty(s) THEN s ELSE plock[p]]
          /\ tlock' = [t \in Txn |-> IF t \in sess[s].marks THEN s ELSE tlock[t]]
      BY <1>5 DEF Flush
    <2>3. OwnsItsLocks(s)'
      BY <1>0, <2>1, <2>2 DEF OwnsItsLocks, Dirty
    <2> QED  BY <2>1, <2>2, <2>3, OwnsFrame
  <1>6. CASE CleanupRowFails(s)
    <2>1. /\ \A q \in Session \ {s} : sess'[q] = sess[q]
          /\ sess[s].op = "cleanup" /\ sess[s].pc = "work"
          /\ plock' = [p \in Product |-> IF plock[p] = s THEN Free ELSE plock[p]]
          /\ UNCHANGED tlock
      BY <1>0, <1>6 DEF CleanupRowFails, Blocked, Ready, TypeOK
    <2>2. \A t \in Txn : tlock[t] # s
      BY <1>0, <2>1 DEF OwnsItsLocks
    <2>3. OwnsItsLocks(s)'
      BY <2>1, <2>2, FreeAssumption DEF OwnsItsLocks
    <2> QED  BY <2>1, <2>3, OwnsFrame, FreeAssumption
  <1> QED  BY <1>1, <1>2, <1>3, <1>4, <1>5, <1>6 DEF Proceed

\* No path through a handler, however it ends, leaves a row lock behind.
THEOREM LocksTheorem == Spec => []LocksAreOwned
  <1>1. Init => LocksInv
    BY FreeAssumption DEF Init, LocksInv, OwnsItsLocks
  <1>2. ASSUME TypeOK, LocksInv, [Next]_vars  PROVE LocksInv'
    <2>1. ASSUME NEW s \in Session, Arrive(s) \/ Proceed(s) \/ Crash(s)  PROVE LocksInv'
      BY <1>2, <2>1, ArriveOwns, ProceedOwns, ReleaseOwns DEF Crash
    <2>2. ASSUME NEW r \in Ref, CustomerAnswers(r)  PROVE LocksInv'
      BY <1>2, <2>2 DEF CustomerAnswers, LocksInv, OwnsItsLocks, Dirty
    <2>3. CASE UNCHANGED vars
      BY <1>2, <2>3 DEF vars, LocksInv, OwnsItsLocks, Dirty
    <2> QED  BY <1>2, <2>1, <2>2, <2>3 DEF Next, Closed
  <1>3. TypeOK /\ LocksInv => LocksAreOwned
    BY DEF TypeOK, LocksInv, OwnsItsLocks, LocksAreOwned
  <1> QED  BY <1>1, <1>2, <1>3, TypeCorrect, PTL DEF Spec

-----------------------------------------------------------------------------
(* The shelf is never oversold *)

\* The products of the lines a sale has still to lock are new to it.
NewProducts(w) ==
    \A i \in 1..Len(w.lines) :
        /\ w.lines[i].product \notin w.held
        /\ \A j \in 1..Len(w.lines) : i # j => w.lines[i].product # w.lines[j].product

EachProductOnce ==
    \A cart \in Carts : \A i, j \in 1..Len(cart.lines) :
        i # j => cart.lines[i].product # cart.lines[j].product

\* What session s would write is never negative.
NoDebt(s) ==
    /\ \A p \in Product : p \in sess[s].held \cup Dirty(s) => sess[s].next[p] >= 0
    /\ sess[s].op = "create" => NewProducts(sess[s])

LEMMA BeginNoDebt ==
    ASSUME NEW s \in Session, sess'[s].held = {}, sess'[s].base = Zero, sess'[s].next = Zero,
           sess'[s].op = "create" => NewProducts(sess'[s])
    PROVE  NoDebt(s)'
  BY DEF NoDebt, Dirty, Zero, NewProducts

LEMMA TailLines ==
    ASSUME NEW lines \in Seq(Line), lines # <<>>
    PROVE  /\ Head(lines) = lines[1] /\ 1 \in 1..Len(lines)
           /\ \A i \in 1..Len(Tail(lines)) :
                 i + 1 \in 1..Len(lines) /\ Tail(lines)[i] = lines[i + 1] /\ i \in Int
  OBVIOUS

LEMMA LockLineNoDebt ==
    ASSUME TypeOK, LockedIsCurrent, NoOversell, NEW s \in Session, NoDebt(s), LockLine(s)
    PROVE  NoDebt(s)'
  <1> DEFINE lines == sess[s].lines
             l == Head(lines)
             p == l.product
             d == LineDelta(s, l)
             ld == Loaded(s, p)
  <1>1. /\ p \in Product /\ d \in Int /\ l.qty \in Nat
        /\ ld.base \in Int /\ ld.next \in Int
    BY LineType DEF LockLine
  <1>2. sess[s] \in SessionState /\ Current(s) /\ lines \in Seq(Line) /\ lines # <<>>
    BY DEF TypeOK, LockedIsCurrent, SessionState, LockLine
  <1>3. /\ sess'[s].op = sess[s].op
        /\ sess'[s].lines = Tail(lines)
        /\ sess'[s].held = sess[s].held \cup {p}
        /\ sess'[s].base = [sess[s].base EXCEPT ![p] = ld.base]
        /\ sess'[s].next = [sess[s].next EXCEPT ![p] = ld.next + d]
    BY DEF LockLine, TypeOK, SessionState
  <1>4. /\ sess[s].next \in [Product -> Int] /\ sess[s].base \in [Product -> Int]
        /\ stock[p] >= 0
    BY <1>1, <1>2 DEF SessionState, NoOversell
  <1>5. CASE sess[s].op = "create"
    <2>1. p \notin sess[s].held
      BY <1>2, <1>5, TailLines DEF NoDebt, NewProducts
    <2>2. ld.next >= l.qty
      BY <1>5, <2>1 DEF LockLine, Enough, Loaded
    <2>3. ld.next + d >= 0
      BY <1>1, <1>5, <2>2 DEF LineDelta
    <2>4. \A x \in Product : x \in sess'[s].held \cup Dirty(s)' => sess'[s].next[x] >= 0
      BY <1>1, <1>3, <1>4, <2>3 DEF NoDebt, Dirty
    <2>5. NewProducts(sess'[s])
      <3> SUFFICES ASSUME NEW i \in 1..Len(Tail(lines))
                   PROVE  /\ Tail(lines)[i].product \notin sess[s].held \cup {p}
                          /\ \A j \in 1..Len(Tail(lines)) :
                                i # j => Tail(lines)[i].product # Tail(lines)[j].product
        BY <1>3 DEF NewProducts
      <3>1. /\ Tail(lines)[i] = lines[i + 1] /\ i + 1 \in 1..Len(lines)
            /\ i + 1 # 1 /\ Head(lines) = lines[1] /\ 1 \in 1..Len(lines)
        BY <1>2, TailLines
      <3>2. Tail(lines)[i].product \notin sess[s].held \cup {p}
        BY <1>5, <3>1 DEF NoDebt, NewProducts
      <3>3. ASSUME NEW j \in 1..Len(Tail(lines)), i # j
            PROVE  Tail(lines)[i].product # Tail(lines)[j].product
        <4>1. /\ Tail(lines)[j] = lines[j + 1] /\ j + 1 \in 1..Len(lines)
              /\ i + 1 # j + 1
          BY <1>2, <3>3, TailLines
        <4> QED  BY <1>5, <3>1, <4>1 DEF NoDebt, NewProducts
      <3> QED  BY <3>2, <3>3
    <2> QED  BY <2>4, <2>5 DEF NoDebt
  <1>6. CASE sess[s].op # "create"
    <2>1. ld.next >= 0
      BY <1>1, <1>4 DEF Loaded, NoDebt
    <2>2. ld.next + d >= 0
      BY <1>1, <1>6, <2>1 DEF LineDelta
    <2> QED  BY <1>1, <1>3, <1>4, <1>6, <2>2 DEF NoDebt, Dirty
  <1> QED  BY <1>5, <1>6

LEMMA ArriveNoDebt ==
    ASSUME TypeOK, EachProductOnce, Overwrites \subseteq Nat,
           NEW s \in Session, NoDebt(s), Arrive(s)
    PROVE  NoDebt(s)'
  <1>1. ASSUME NEW t \in Txn, NEW cart \in Carts, BeginCreate(s, t, cart)
        PROVE  NoDebt(s)'
    <2>1. /\ sess'[s].held = {} /\ sess'[s].base = Zero /\ sess'[s].next = Zero
          /\ sess'[s].lines = cart.lines
      BY <1>1 DEF BeginCreate, Begin, Idle, TypeOK
    <2>2. NewProducts(sess'[s])
      BY <2>1 DEF NewProducts, EachProductOnce
    <2> QED  BY <2>1, <2>2, BeginNoDebt
  <1>2. ASSUME NEW w, Begin(s, w), w.held = {}, w.base = Zero, w.next = Zero,
               w.op # "create"
        PROVE  NoDebt(s)'
    <2>1. sess'[s] = w
      BY <1>2, BeginSess
    <2> QED  BY <1>2, <2>1, BeginNoDebt
  <1>3. ASSUME NEW t \in Txn, BeginVoid(s, t)  PROVE NoDebt(s)'
    BY <1>2, <1>3 DEF BeginVoid, Idle
  <1>4. ASSUME NEW t \in Txn, NEW r \in Ref, BeginConfirm(s, t, r)  PROVE NoDebt(s)'
    BY <1>2, <1>4 DEF BeginConfirm, Idle
  <1>5. ASSUME NEW t \in Txn, BeginPush(s, t)  PROVE NoDebt(s)'
    BY <1>2, <1>5 DEF BeginPush, Idle
  <1>6. ASSUME NEW r \in Ref, Callback(s, r)  PROVE NoDebt(s)'
    BY <1>2, <1>6 DEF Callback, Idle
  <1>7. ASSUME NEW r \in Ref, CallbackSkips(s, r)  PROVE NoDebt(s)'
    BY <1>7 DEF CallbackSkips, NoDebt, Dirty
  <1>8. ASSUME NEW p \in Product, NEW a \in Adjustments, BeginAdjust(s, p, a)
        PROVE  NoDebt(s)'
    <2>1. /\ sess'[s].op = "adjust" /\ sess'[s].held = {}
          /\ sess'[s].next = [Zero EXCEPT ![p] = AtLeastZero(stock[p] + a.qty)]
      BY <1>8 DEF BeginAdjust, Begin, Idle, TypeOK
    <2>2. stock[p] + a.qty \in Int
      BY AdjustmentsAssumption DEF TypeOK
    <2>3. \A x \in Product : sess'[s].next[x] >= 0
      BY <2>1, <2>2 DEF AtLeastZero, Zero
    <2> QED  BY <2>1, <2>3 DEF NoDebt, Dirty
  <1>9. ASSUME NEW p \in Product, NEW v \in Overwrites, BeginUpdate(s, p, v)
        PROVE  NoDebt(s)'
    <2>1. /\ sess'[s].op = "update" /\ sess'[s].held = {}
          /\ sess'[s].next = [Zero EXCEPT ![p] = v]
      BY <1>9 DEF BeginUpdate, Begin, Idle, TypeOK
    <2>2. \A x \in Product : sess'[s].next[x] >= 0
      BY <2>1 DEF Zero
    <2> QED  BY <2>1, <2>2 DEF NoDebt, Dirty
  <1>10. ASSUME BeginCleanup(s)  PROVE NoDebt(s)'
    BY <1>2, <1>10 DEF BeginCleanup, Idle
  <1> QED  BY <1>1, <1>3, <1>4, <1>5, <1>6, <1>7, <1>8, <1>9, <1>10 DEF Arrive

LEMMA ProceedNoDebt ==
    ASSUME TypeOK, LockedIsCurrent, MarksAreSound, NoOversell,
           NEW s \in Session, NoDebt(s), Proceed(s)
    PROVE  NoDebt(s)'
  <1>0. sess[s] \in SessionState /\ Sound(s)
    BY DEF TypeOK, MarksAreSound
  <1>1. CASE RefuseLine(s) \/ RefuseCash(s) \/ PushFailed(s) \/ RefuseFlush(s)
             \/ LockTimeout(s) \/ Commit(s)
    <2>1. Release(s)
      BY <1>1 DEF RefuseLine, RefuseCash, PushFailed, RefuseFlush, LockTimeout,
                  Commit, Rollback
    <2>2. sess'[s] = Idle
      BY <2>1, ReleaseSess
    <2> QED  BY <2>2, BeginNoDebt DEF Idle
  <1>2. CASE LockLine(s)
    BY <1>2, LockLineNoDebt
  <1>3. CASE \/ \E r \in Ref : PushAccepted(s, r)
             \/ Flush(s)
    <2>1. /\ sess'[s].op = sess[s].op /\ sess'[s].held = sess[s].held
          /\ sess'[s].base = sess[s].base /\ sess'[s].next = sess[s].next
          /\ sess'[s].lines = sess[s].lines
      BY <1>0, <1>3 DEF PushAccepted, Flush, TypeOK, SessionState
    <2> QED  BY <2>1 DEF NoDebt, Dirty, NewProducts
  <1>4. CASE CleanupNext(s)
    <2>1. sess[s].op = "cleanup"
      BY <1>0, <1>4 DEF CleanupNext, Sound
    <2>2. /\ sess'[s].op = sess[s].op /\ sess'[s].held = sess[s].held
          /\ sess'[s].base = sess[s].base /\ sess'[s].next = sess[s].next
      BY <1>0, <1>4 DEF CleanupNext, TypeOK, SessionState
    <2> QED  BY <2>1, <2>2 DEF NoDebt, Dirty
  <1>5. CASE CleanupRowFails(s)
    <2>1. /\ sess'[s].held = {} /\ sess'[s].base = Zero /\ sess'[s].next = Zero
          /\ sess'[s].op = "cleanup"
      BY <1>5 DEF CleanupRowFails, Idle, TypeOK
    <2> QED  BY <2>1, BeginNoDebt
  <1> QED  BY <1>1, <1>2, <1>3, <1>4, <1>5 DEF Proceed

NoDebts == \A s \in Session : NoDebt(s)

LEMMA NextNoDebts ==
    ASSUME TypeOK, LockedIsCurrent, MarksAreSound, EachProductOnce, Overwrites \subseteq Nat,
           NoOversell, NoDebts, [Next]_vars
    PROVE  NoOversell' /\ NoDebts'
  <1>1. NoOversell'
    <2>1. ASSUME NEW s \in Session, Commit(s)  PROVE NoOversell'
      BY <2>1 DEF Commit, NoDebts, NoDebt, NoOversell
    <2> QED  BY <2>1, OnlyCommitMoves DEF NoOversell
  <1>2. ASSUME NEW s \in Session, Arrive(s)  PROVE NoDebts'
    <2>1. \A q \in Session \ {s} : sess'[q] = sess[q]
      BY <1>2 DEF Arrive, BeginCreate, BeginVoid, BeginConfirm, BeginPush, Callback,
                CallbackSkips, BeginAdjust, BeginUpdate, BeginCleanup, Begin, TypeOK
    <2>2. NoDebt(s)'
      BY <1>2, ArriveNoDebt DEF NoDebts
    <2> QED  BY <2>1, <2>2 DEF NoDebts, NoDebt, Dirty
  <1>3. ASSUME NEW s \in Session, Proceed(s)  PROVE NoDebts'
    <2>1. NoDebt(s)'
      BY <1>3, ProceedNoDebt DEF NoDebts
    <2> QED  BY <1>3, <2>1, ProceedOp DEF NoDebts, NoDebt, Dirty
  <1>4. ASSUME NEW s \in Session, Crash(s)  PROVE NoDebts'
    <2>1. sess'[s] = Idle /\ \A q \in Session \ {s} : sess'[q] = sess[q]
      BY <1>4, ReleaseSess DEF Crash
    <2>2. NoDebt(s)'
      BY <2>1, BeginNoDebt DEF Idle
    <2> QED  BY <2>1, <2>2 DEF NoDebts, NoDebt, Dirty
  <1>5. ASSUME NEW r \in Ref, CustomerAnswers(r)  PROVE NoDebts'
    BY <1>5 DEF CustomerAnswers, NoDebts, NoDebt, Dirty
  <1>6. ASSUME UNCHANGED vars  PROVE NoDebts'
    BY <1>6 DEF vars, NoDebts, NoDebt, Dirty
  <1>7. NoDebts'
    BY <1>2, <1>3, <1>4, <1>5, <1>6 DEF Next, Closed
  <1> QED  BY <1>1, <1>7

\* When carts name each product once and no PATCH sets a negative quantity, the
\* check under the row lock is enough: no interleaving oversells, with or
\* without the CHECK of the schema.
THEOREM OversellTheorem ==
    EachProductOnce /\ Overwrites \subseteq Nat => (Spec => []NoOversell)
  <1> SUFFICES ASSUME EachProductOnce, Overwrites \subseteq Nat
               PROVE  Spec => []NoOversell
    OBVIOUS
  <1>1. Init => NoOversell /\ NoDebts
    <2> SUFFICES ASSUME Init  PROVE NoOversell /\ NoDebts
      OBVIOUS
    <2>1. NoOversell
      BY OpeningAssumption DEF Init, NoOversell
    <2>2. \A s \in Session : sess[s] = Idle
      BY DEF Init
    <2>3. Idle.held = {} /\ Idle.base = Zero /\ Idle.next = Zero /\ Idle.op = "none"
      BY DEF Idle
    <2> QED  BY <2>1, <2>2, <2>3 DEF NoDebts, NoDebt, Dirty, Zero
  <1>2. TypeOK /\ LockedIsCurrent /\ MarksAreSound /\ NoOversell /\ NoDebts /\ [Next]_vars
           => NoOversell' /\ NoDebts'
    BY NextNoDebts
  <1> QED  BY <1>1, <1>2, TypeCorrect, LockedCurrent, MarksSound, PTL DEF Spec

-----------------------------------------------------------------------------
(* Counting units *)

LEMMA CardinalityOfUnion ==
    ASSUME NEW S, NEW T, IsFiniteSet(S), IsFiniteSet(T), S \cap T = {}
    PROVE  /\ IsFiniteSet(S \cup T)
           /\ Cardinality(S \cup T) = Cardinality(S) + Cardinality(T)
  <1>1. Cardinality(S) \in Nat /\ Cardinality(T) \in Nat
    BY FS_CardinalityType
  <1>2. Cardinality(S \cap T) = 0
    BY FS_EmptySet
  <1>3. /\ IsFiniteSet(S \cup T)
        /\ Cardinality(S \cup T)
              = Cardinality(S) + Cardinality(T) - Cardinality(S \cap T)
    BY FS_Union
  <1> QED  BY <1>1, <1>2, <1>3

\* Sets whose elements are paired off count the same.
LEMMA CardinalityOfImage ==
    ASSUME NEW S, NEW T, NEW f \in [S -> T], IsFiniteSet(S),
           \A x, y \in S : f[x] = f[y] => x = y,
           \A y \in T : \E x \in S : f[x] = y
    PROVE  IsFiniteSet(T) /\ Cardinality(T) = Cardinality(S)
  <1>1. f \in Bijection(S, T)
    BY DEF Bijection, Injection, Surjection, IsInjective
  <1>2. ExistsBijection(S, T)
    BY <1>1 DEF ExistsBijection
  <1> QED  BY <1>2, FS_Bijection

LEMMA CardinalityOfColumn ==
    ASSUME NEW x, NEW S, IsFiniteSet(S)
    PROVE  IsFiniteSet({x} \X S) /\ Cardinality({x} \X S) = Cardinality(S)
  <1> DEFINE f == [u \in S |-> <<x, u>>]
  <1>1. f \in [S -> {x} \X S]
    OBVIOUS
  <1>2. \A u, v \in S : f[u] = f[v] => u = v
    OBVIOUS
  <1>3. \A w \in {x} \X S : \E u \in S : f[u] = w
    OBVIOUS
  <1> HIDE DEF f
  <1> QED  BY <1>1, <1>2, <1>3, CardinalityOfImage

LEMMA ColumnOfUnits ==
    ASSUME NEW x, NEW q \in Nat
    PROVE  IsFiniteSet({x} \X (1..q)) /\ Cardinality({x} \X (1..q)) = q
  <1>1. IsFiniteSet(1..q) /\ Cardinality(1..q) = q
    BY FS_Interval
  <1> QED  BY <1>1, CardinalityOfColumn

\* A finite union of finite sets.
LEMMA FiniteUnion ==
    ASSUME NEW S, NEW f, DOMAIN f = S, IsFiniteSet(S), \A x \in S : IsFiniteSet(f[x])
    PROVE  IsFiniteSet(UNION {f[x] : x \in S})
  <1> DEFINE T == {f[x] : x \in S}
             g == [x \in S |-> f[x]]
  <1>1. g \in [S -> T] /\ \A y \in T : \E x \in S : g[x] = y
    OBVIOUS
  <1>2. g \in Surjection(S, T)
    BY <1>1 DEF Surjection
  <1>3. IsFiniteSet(T)
    BY <1>2, FS_Surjection
  <1>4. \A y \in T : IsFiniteSet(y)
    OBVIOUS
  <1> QED  BY <1>3, <1>4, FS_UNION

\* StockBook counts with the same operator.
LEMMA SameCount ==
    ASSUME NEW S
    PROVE  Book!Cardinality(S) = Cardinality(S)
  BY DEF Cardinality, Book!Cardinality

LEMMA GoodsAre ==
    ASSUME NEW lines, NEW p, NEW u
    PROVE  u \in Book!Goods(lines, p) <=>
               \E n \in DOMAIN lines, k \in Int :
                   k \in 1..lines[n].qty /\ lines[n].product = p /\ u = <<n, k>>
  BY DEF Book!Goods

LEMMA GoodsFinite ==
    ASSUME NEW lines \in Seq(Line), NEW p
    PROVE  IsFiniteSet(Book!Goods(lines, p)) /\ Book!Units(lines, p) \in Nat
  <1> DEFINE S == {m \in DOMAIN lines : lines[m].product = p}
             f == [n \in S |-> {n} \X (1..lines[n].qty)]
  <1>1. DOMAIN lines = 1..Len(lines) /\ Len(lines) \in Nat
    OBVIOUS
  <1>2. IsFiniteSet(DOMAIN lines)
    BY <1>1, FS_Interval
  <1>3. IsFiniteSet(S)
    BY <1>2, FS_Subset
  <1>4. \A n \in S : lines[n].qty \in Nat
    <2>1. \A n \in DOMAIN lines : lines[n] \in Line
      OBVIOUS
    <2> QED  BY <2>1 DEF Line
  <1>5. \A n \in S : IsFiniteSet(f[n])
    BY <1>4, ColumnOfUnits
  <1>6. IsFiniteSet(UNION {f[n] : n \in S})
    <2>1. DOMAIN f = S
      OBVIOUS
    <2> HIDE DEF f, S
    <2> QED  BY <1>3, <1>5, <2>1, FiniteUnion
  <1>7. Book!Goods(lines, p) = UNION {f[n] : n \in S}
    BY DEF Book!Goods
  <1> QED  BY <1>6, <1>7, FS_CardinalityType, SameCount DEF Book!Units

LEMMA NoUnits ==
    ASSUME NEW p
    PROVE  Book!Goods(<<>>, p) = {} /\ Book!Units(<<>>, p) = 0
  <1>1. Book!Goods(<<>>, p) = {}
    BY DEF Book!Goods
  <1> QED  BY <1>1, FS_EmptySet, SameCount DEF Book!Units

\* Line by line, as the handlers go.
LEMMA UnitsOfHead ==
    ASSUME NEW lines \in Seq(Line), lines # <<>>, NEW p
    PROVE  Book!Units(lines, p) =
               (IF Head(lines).product = p THEN Head(lines).qty ELSE 0)
                   + Book!Units(Tail(lines), p)
  <1> DEFINE rest == Tail(lines)
             now   == IF Head(lines).product = p
                      THEN {1} \X (1..Head(lines).qty) ELSE {}
             later == {u \in Book!Goods(lines, p) : u[1] # 1}
             f     == [u \in Book!Goods(rest, p) |-> <<u[1] + 1, u[2]>>]
  <1>1. /\ rest \in Seq(Line) /\ Head(lines) = lines[1]
        /\ Len(lines) \in Nat \ {0} /\ Len(rest) = Len(lines) - 1
        /\ DOMAIN lines = 1..Len(lines) /\ DOMAIN rest = 1..Len(rest)
    OBVIOUS
  <1>2. \A n \in DOMAIN rest : n \in Nat \ {0} /\ n + 1 \in DOMAIN lines /\ rest[n] = lines[n + 1]
    BY <1>1
  <1>3. \A n \in DOMAIN lines : n # 1 => n - 1 \in DOMAIN rest /\ rest[n - 1] = lines[n] /\ n \in Nat
    BY <1>1
  <1>a. 1 \in DOMAIN lines /\ lines[1].qty \in Nat
    <2>1. 1 \in DOMAIN lines
      BY <1>1
    <2>2. lines[1] \in Line
      BY <2>1
    <2> QED  BY <2>1, <2>2 DEF Line
  <1> HIDE DEF rest
  <1>4. Book!Goods(lines, p) = now \cup later /\ now \cap later = {}
    <2>1. ASSUME NEW u \in Book!Goods(lines, p)  PROVE u \in now \/ u \in later
      <3>1. PICK n \in DOMAIN lines, k \in Int :
               k \in 1..lines[n].qty /\ lines[n].product = p /\ u = <<n, k>>
        BY <2>1, GoodsAre
      <3> QED  BY <1>1, <3>1
    <2>2. ASSUME NEW u \in now  PROVE u \in Book!Goods(lines, p) /\ u \notin later
      BY <1>1, <1>a, <2>2, GoodsAre
    <2> QED  BY <2>1, <2>2
  <1>5. IsFiniteSet(now) /\ Cardinality(now) = IF Head(lines).product = p
                                               THEN Head(lines).qty ELSE 0
    <2>1. CASE Head(lines).product = p
      BY <1>1, <1>a, <2>1, ColumnOfUnits
    <2>2. CASE Head(lines).product # p
      BY <2>2, FS_EmptySet
    <2> QED  BY <2>1, <2>2
  <1>6. f \in [Book!Goods(rest, p) -> later]
    <2> SUFFICES ASSUME NEW u \in Book!Goods(rest, p)
                 PROVE  <<u[1] + 1, u[2]>> \in later
      OBVIOUS
    <2>1. PICK n \in DOMAIN rest, k \in Int :
               k \in 1..rest[n].qty /\ rest[n].product = p /\ u = <<n, k>>
      BY GoodsAre
    <2>2. /\ n + 1 \in DOMAIN lines /\ k \in 1..lines[n + 1].qty
          /\ lines[n + 1].product = p /\ n + 1 # 1
      BY <1>2, <2>1
    <2>3. <<n + 1, k>> \in Book!Goods(lines, p)
      BY <2>2, GoodsAre
    <2> QED  BY <2>1, <2>2, <2>3
  <1>7. \A u, v \in Book!Goods(rest, p) : f[u] = f[v] => u = v
    <2> SUFFICES ASSUME NEW u \in Book!Goods(rest, p), NEW v \in Book!Goods(rest, p),
                        f[u] = f[v]
                 PROVE  u = v
      OBVIOUS
    <2>1. PICK n \in DOMAIN rest, k \in Int :
               k \in 1..rest[n].qty /\ u = <<n, k>>
      BY GoodsAre
    <2>2. PICK m \in DOMAIN rest, j \in Int :
               j \in 1..rest[m].qty /\ v = <<m, j>>
      BY GoodsAre
    <2>3. <<n + 1, k>> = <<m + 1, j>>
      BY <2>1, <2>2
    <2>4. n = m /\ k = j
      BY <1>2, <2>3
    <2> QED  BY <2>1, <2>2, <2>4
  <1>8. \A v \in later : \E u \in Book!Goods(rest, p) : f[u] = v
    <2> SUFFICES ASSUME NEW v \in later
                 PROVE  \E u \in Book!Goods(rest, p) : f[u] = v
      OBVIOUS
    <2>1. PICK n \in DOMAIN lines, k \in Int :
               k \in 1..lines[n].qty /\ lines[n].product = p /\ v = <<n, k>>
      BY GoodsAre
    <2>2. n # 1
      BY <2>1
    <2>3. /\ n - 1 \in DOMAIN rest /\ k \in 1..rest[n - 1].qty
          /\ rest[n - 1].product = p
      BY <1>3, <2>1, <2>2
    <2>4. <<n - 1, k>> \in Book!Goods(rest, p)
      BY <2>3, GoodsAre
    <2>5. f[<<n - 1, k>>] = <<n, k>>
      BY <1>3, <2>2, <2>4
    <2> QED  BY <2>1, <2>4, <2>5
  <1>9. IsFiniteSet(Book!Goods(rest, p))
    BY <1>1, GoodsFinite
  <1> HIDE DEF f, later, now
  <1>10. IsFiniteSet(later) /\ Cardinality(later) = Cardinality(Book!Goods(rest, p))
    BY <1>6, <1>7, <1>8, <1>9, CardinalityOfImage
  <1> QED
    <2>1. Cardinality(Book!Goods(lines, p)) = Cardinality(now) + Cardinality(later)
      BY <1>4, <1>5, <1>10, CardinalityOfUnion
    <2> QED  BY <1>5, <1>10, <2>1, SameCount DEF Book!Units, rest

\* The units of product p on the lines of the sales T, as the table says.
Held(table, T, p) == UNION {{t} \X Book!Goods(table[t].lines, p) : t \in T}

LEMMA HeldFinite ==
    ASSUME TypeOK, NEW T \in SUBSET Txn, IsFiniteSet(T), NEW p
    PROVE  IsFiniteSet(Held(txns, T, p)) /\ Cardinality(Held(txns, T, p)) \in Nat
  <1> DEFINE f == [t \in T |-> {t} \X Book!Goods(txns[t].lines, p)]
  <1>1. ASSUME NEW t \in T  PROVE IsFiniteSet(f[t])
    <2>1. txns[t].lines \in Seq(Line)
      BY DEF TypeOK, TxnRow
    <2>2. IsFiniteSet(Book!Goods(txns[t].lines, p))
      BY <2>1, GoodsFinite
    <2> QED  BY <2>2, CardinalityOfColumn
  <1>2. DOMAIN f = T
    OBVIOUS
  <1>3. Held(txns, T, p) = UNION {f[t] : t \in T}
    BY DEF Held
  <1> HIDE DEF f
  <1>4. IsFiniteSet(Held(txns, T, p))
    BY <1>1, <1>2, <1>3, FiniteUnion
  <1> QED  BY <1>4, FS_CardinalityType

LEMMA HeldNone ==
    ASSUME NEW p
    PROVE  Cardinality(Held(txns, {}, p)) = 0
  <1>1. Held(txns, {}, p) = {}
    BY DEF Held
  <1> QED  BY <1>1, FS_EmptySet

LEMMA HeldOneMore ==
    ASSUME TypeOK, NEW T \in SUBSET Txn, IsFiniteSet(T), NEW t \in Txn \ T, NEW p
    PROVE  Cardinality(Held(txns, T \cup {t}, p))
               = Cardinality(Held(txns, T, p)) + Book!Units(txns[t].lines, p)
  <1> DEFINE new == {t} \X Book!Goods(txns[t].lines, p)
  <1>1. txns[t].lines \in Seq(Line)
    BY DEF TypeOK, TxnRow
  <1>2. IsFiniteSet(new) /\ Cardinality(new) = Book!Units(txns[t].lines, p)
    BY <1>1, GoodsFinite, CardinalityOfColumn, SameCount DEF Book!Units
  <1>3. /\ Held(txns, T \cup {t}, p) = Held(txns, T, p) \cup new
        /\ Held(txns, T, p) \cap new = {}
    BY DEF Held
  <1> HIDE DEF new
  <1> QED  BY <1>2, <1>3, HeldFinite, CardinalityOfUnion

LEMMA HeldOne ==
    ASSUME TypeOK, NEW t \in Txn, NEW p
    PROVE  Cardinality(Held(txns, {t}, p)) = Book!Units(txns[t].lines, p)
  <1>1. {} \cup {t} = {t} /\ t \notin {} /\ IsFiniteSet({})
    BY FS_EmptySet
  <1>2. Cardinality(Held(txns, {} \cup {t}, p))
           = Cardinality(Held(txns, {}, p)) + Book!Units(txns[t].lines, p)
    BY <1>1, HeldOneMore
  <1>3. Book!Units(txns[t].lines, p) \in Nat
    BY GoodsFinite DEF TypeOK, TxnRow
  <1> QED  BY <1>1, <1>2, <1>3, HeldNone

-----------------------------------------------------------------------------
(* What a session has posted in memory *)

\* At every moment the ledger rows of a session are those of the lines it has
\* dealt with: of its cart, or of the sales it gives back.
Posts(s) ==
    /\ sess[s].op \in {"create", "void", "confirm", "callback", "push"} =>
          \E t \in Txn : sess[s].marks = {t}
    /\ sess[s].op = "create" => \A p \in Product :
          sess[s].rows[p] = Book!Units(sess[s].lines, p)
                              - Book!Units(sess[s].cart.lines, p)
    /\ Restores(s) => \A p \in Product :
          Cardinality(Held(txns, sess[s].marks, p))
              = sess[s].rows[p] + Book!Units(sess[s].lines, p)
    /\ sess[s].op \in {"none", "confirm", "callback", "push"} => sess[s].rows = Zero
    /\ sess[s].op \notin {"create", "void", "cleanup"} => sess[s].lines = <<>>
    /\ sess[s].marks \cap sess[s].todo = {}
    /\ sess[s].pc = "commit" => sess[s].lines = <<>> /\ sess[s].todo = {}

\* No bound on sales is needed: those there are, are finitely many.
FiniteTable == IsFiniteSet({t \in Txn : Exists(t)})

PostsInv == FiniteTable /\ \A s \in Session : Posts(s)

\* The lines of a sale never change.
LinesStay == \A t \in Txn : Exists(t) => Exists(t)' /\ txns'[t].lines = txns[t].lines

LEMMA PostsFrame ==
    ASSUME TypeOK, MarksAreSound, NEW q \in Session, Posts(q), sess'[q] = sess[q], LinesStay
    PROVE  Posts(q)'
  <1>1. Restores(q) => \A p : Held(txns', sess[q].marks, p) = Held(txns, sess[q].marks, p)
    <2> SUFFICES ASSUME Restores(q), NEW p
                 PROVE  Held(txns', sess[q].marks, p) = Held(txns, sess[q].marks, p)
      OBVIOUS
    <2>1. \A t \in sess[q].marks : t \in Txn /\ Exists(t)
      BY DEF MarksAreSound, Sound, Restores, TypeOK, SessionState
    <2>2. \A t \in sess[q].marks : txns'[t].lines = txns[t].lines
      BY <2>1 DEF LinesStay
    <2> QED  BY <2>2 DEF Held
  <1>2. Restores(q)' = Restores(q)
    BY DEF Restores
  <1> QED  BY <1>1, <1>2 DEF Posts

\* An idle session, and one that has just begun with nothing posted.
LEMMA FreshPosts ==
    ASSUME TypeOK, NEW s \in Session, sess'[s].rows = Zero,
           sess'[s].pc # "commit", sess'[s].marks \cap sess'[s].todo = {},
           \/ /\ sess'[s].op = "create" /\ sess'[s].lines = sess'[s].cart.lines
              /\ sess'[s].lines \in Seq(Line)
              /\ \E t \in Txn : sess'[s].marks = {t}
           \/ /\ sess'[s].op = "void" /\ UNCHANGED txns
              /\ \E t \in Txn : sess'[s].marks = {t} /\ sess'[s].lines = txns[t].lines
           \/ /\ sess'[s].op = "cleanup" /\ sess'[s].marks = {} /\ sess'[s].lines = <<>>
              /\ UNCHANGED txns
           \/ /\ sess'[s].op \in {"confirm", "callback", "push"} /\ sess'[s].lines = <<>>
              /\ \E t \in Txn : sess'[s].marks = {t}
           \/ sess'[s].op = "none" /\ sess'[s].lines = <<>>
    PROVE  Posts(s)'
  <1>1. \A p \in Product : sess'[s].rows[p] = 0
    BY DEF Zero
  <1>2. ASSUME sess'[s].op = "create", NEW p \in Product
        PROVE  sess'[s].rows[p] = Book!Units(sess'[s].lines, p)
                                    - Book!Units(sess'[s].cart.lines, p)
    <2>1. Book!Units(sess'[s].lines, p) \in Nat
      BY <1>2, GoodsFinite
    <2> QED  BY <1>1, <1>2, <2>1
  <1>3. ASSUME Restores(s)', NEW p \in Product
        PROVE  Cardinality(Held(txns', sess'[s].marks, p))
                  = sess'[s].rows[p] + Book!Units(sess'[s].lines, p)
    <2>1. CASE sess'[s].op = "void"
      <3>1. PICK t \in Txn : sess'[s].marks = {t} /\ sess'[s].lines = txns[t].lines
        BY <2>1
      <3>2. Book!Units(txns[t].lines, p) \in Nat
        BY GoodsFinite DEF TypeOK, TxnRow
      <3>3. txns' = txns
        BY <2>1
      <3> QED  BY <1>1, <3>1, <3>2, <3>3, HeldOne
    <2>2. CASE sess'[s].op = "cleanup"
      <3>1. sess'[s].marks = {} /\ sess'[s].lines = <<>> /\ txns' = txns
        BY <2>2
      <3> QED  BY <1>1, <3>1, HeldNone, NoUnits
    <2> QED  BY <1>3, <2>1, <2>2 DEF Restores
  <1> QED  BY <1>2, <1>3 DEF Posts, Restores

LEMMA ArrivePosts ==
    ASSUME TypeOK, NEW s \in Session, Posts(s), Arrive(s)
    PROVE  Posts(s)'
  <1>1. ASSUME NEW t \in Txn, NEW cart \in Carts, BeginCreate(s, t, cart)  PROVE Posts(s)'
    <2>1. sess'[s] = [Idle EXCEPT !.pc = "work", !.op = "create", !.cart = cart,
                                  !.lines = cart.lines, !.marks = {t}]
      BY <1>1, BeginSess DEF BeginCreate
    <2>2. cart.lines \in Seq(Line)
      BY CartsAssumption DEF Cart
    <2>3. /\ sess'[s].pc = "work" /\ sess'[s].op = "create" /\ sess'[s].rows = Zero
          /\ sess'[s].cart = cart /\ sess'[s].lines = cart.lines
          /\ sess'[s].marks = {t} /\ sess'[s].todo = {}
      BY <2>1 DEF Idle
    <2> QED  BY <2>2, <2>3, FreshPosts
  <1>2. ASSUME NEW t \in Txn, BeginVoid(s, t)  PROVE Posts(s)'
    <2>1. sess'[s] = [Idle EXCEPT !.pc = "work", !.op = "void",
                                  !.lines = txns[t].lines, !.marks = {t}]
      BY <1>2, BeginSess DEF BeginVoid
    <2>2. UNCHANGED txns
      BY <1>2 DEF BeginVoid, dbVars
    <2> QED  BY <2>1, <2>2, FreshPosts DEF Idle
  <1>3. ASSUME NEW t \in Txn, NEW r \in Ref, BeginConfirm(s, t, r)  PROVE Posts(s)'
    <2>1. sess'[s] = [Idle EXCEPT !.pc = "work", !.op = "confirm", !.marks = {t}, !.ref = r]
      BY <1>3, BeginSess DEF BeginConfirm
    <2> QED  BY <2>1, FreshPosts DEF Idle
  <1>4. ASSUME NEW t \in Txn, BeginPush(s, t)  PROVE Posts(s)'
    <2>1. sess'[s] = [Idle EXCEPT !.pc = "await", !.op = "push", !.marks = {t}]
      BY <1>4, BeginSess DEF BeginPush
    <2> QED  BY <2>1, FreshPosts DEF Idle
  <1>5. ASSUME NEW r \in Ref, Callback(s, r)  PROVE Posts(s)'
    <2>1. sess'[s] = [Idle EXCEPT !.pc = "work", !.op = "callback",
                                  !.marks = {pushed[r]}, !.ref = r]
      BY <1>5, BeginSess DEF Callback
    <2>2. pushed[r] \in Txn
      BY <1>5 DEF Callback, TypeOK
    <2> QED  BY <2>1, <2>2, FreshPosts DEF Idle
  <1>6. ASSUME NEW r \in Ref, CallbackSkips(s, r)  PROVE Posts(s)'
    BY <1>6 DEF CallbackSkips, Posts, Restores, dbVars
  <1>7. ASSUME NEW p \in Product, NEW a \in Adjustments, BeginAdjust(s, p, a)  PROVE Posts(s)'
    <2>1. sess'[s] = [Idle EXCEPT !.pc = "work", !.op = "adjust", !.kind = a.reason,
                   !.base = [Zero EXCEPT ![p] = stock[p]],
                   !.next = [Zero EXCEPT ![p] = AtLeastZero(stock[p] + a.qty)],
                   !.rows = [Zero EXCEPT ![p] = a.qty]]
      BY <1>7, BeginSess DEF BeginAdjust
    <2> QED  BY <2>1 DEF Idle, Posts, Restores
  <1>8. ASSUME NEW p \in Product, NEW v \in Overwrites, BeginUpdate(s, p, v)  PROVE Posts(s)'
    <2>1. sess'[s] = [Idle EXCEPT !.pc = "work", !.op = "update",
                   !.base = [Zero EXCEPT ![p] = stock[p]],
                   !.next = [Zero EXCEPT ![p] = v]]
      BY <1>8, BeginSess DEF BeginUpdate
    <2> QED  BY <2>1 DEF Idle, Posts, Restores
  <1>9. ASSUME BeginCleanup(s)  PROVE Posts(s)'
    <2>1. PICK stale \in SUBSET Txn :
             sess'[s] = [Idle EXCEPT !.pc = "work", !.op = "cleanup", !.todo = stale]
      BY <1>9, BeginSess DEF BeginCleanup
    <2>2. UNCHANGED txns
      BY <1>9 DEF BeginCleanup, dbVars
    <2> QED  BY <2>1, <2>2, FreshPosts DEF Idle
  <1> QED  BY <1>1, <1>2, <1>3, <1>4, <1>5, <1>6, <1>7, <1>8, <1>9 DEF Arrive

\* A line leaves the list and enters the ledger rows.
LEMMA LockLinePosts ==
    ASSUME TypeOK, NEW s \in Session, Posts(s), LockLine(s)
    PROVE  Posts(s)'
  <1> DEFINE lines == sess[s].lines
             l == Head(lines)
             d == LineDelta(s, l)
  <1>1. sess[s] \in SessionState
    BY DEF TypeOK
  <1>2. /\ lines \in Seq(Line) /\ lines # <<>> /\ sess[s].rows \in [Product -> Int]
        /\ sess[s].pc = "work" /\ UNCHANGED txns
    BY <1>1 DEF LockLine, SessionState, dbVars
  <1>3. l.product \in Product /\ l.qty \in Nat /\ Tail(lines) \in Seq(Line) /\ d \in Int
    BY <1>2, LineType
  <1>4. /\ sess'[s].pc = "work" /\ sess'[s].op = sess[s].op
        /\ sess'[s].marks = sess[s].marks /\ sess'[s].todo = sess[s].todo
        /\ sess'[s].cart = sess[s].cart /\ sess'[s].lines = Tail(lines)
        /\ sess'[s].rows = [sess[s].rows EXCEPT ![l.product] = sess[s].rows[l.product] + d]
    BY <1>1 DEF LockLine, TypeOK, SessionState
  <1>5. sess[s].op \in {"create", "void", "cleanup"}
    BY <1>2 DEF Posts
  <1>6. \A p \in Product : Book!Units(lines, p) \in Nat /\ Book!Units(Tail(lines), p) \in Nat
    BY <1>2, <1>3, GoodsFinite
  <1>7. \A p \in Product : Book!Units(lines, p)
           = (IF l.product = p THEN l.qty ELSE 0) + Book!Units(Tail(lines), p)
    BY <1>2, UnitsOfHead
  <1>8. d = IF sess[s].op = "create" THEN -l.qty ELSE l.qty
    BY DEF LineDelta
  <1> HIDE DEF l, d
  <1>9. \A p \in Product : sess'[s].rows[p] = sess[s].rows[p] + IF l.product = p THEN d ELSE 0
    BY <1>2, <1>3, <1>4
  <1>10. ASSUME sess[s].op = "create", NEW p \in Product
         PROVE  sess'[s].rows[p] = Book!Units(sess'[s].lines, p)
                                     - Book!Units(sess'[s].cart.lines, p)
    <2>1. sess[s].cart.lines \in Seq(Line)
      BY <1>1 DEF SessionState, Cart
    <2>2. Book!Units(sess[s].cart.lines, p) \in Nat
      BY <2>1, GoodsFinite
    <2>3. sess[s].rows[p] = Book!Units(lines, p) - Book!Units(sess[s].cart.lines, p)
      BY <1>10 DEF Posts
    <2> HIDE DEF lines
    <2>4. /\ Book!Units(lines, p) \in Nat /\ Book!Units(Tail(lines), p) \in Nat
          /\ Book!Units(lines, p)
                = (IF l.product = p THEN l.qty ELSE 0) + Book!Units(Tail(lines), p)
          /\ sess'[s].rows[p] = sess[s].rows[p] + IF l.product = p THEN -l.qty ELSE 0
      BY <1>6, <1>7, <1>8, <1>9, <1>10
    <2>5. sess'[s].rows[p]
             = Book!Units(Tail(lines), p) - Book!Units(sess[s].cart.lines, p)
      BY <1>3, <2>2, <2>3, <2>4
    <2> QED  BY <1>4, <2>5
  <1>11. ASSUME Restores(s), NEW p \in Product
         PROVE  Cardinality(Held(txns', sess'[s].marks, p))
                   = sess'[s].rows[p] + Book!Units(sess'[s].lines, p)
    <2> DEFINE n == Cardinality(Held(txns, sess[s].marks, p))
    <2>1. sess[s].op # "create"
      BY <1>11 DEF Restores
    <2>2. n = sess[s].rows[p] + Book!Units(lines, p) /\ sess[s].rows[p] \in Int
      BY <1>2, <1>11 DEF Posts
    <2>3. Cardinality(Held(txns', sess'[s].marks, p)) = n
      BY <1>2, <1>4
    <2>4. sess'[s].rows[p] = sess[s].rows[p] + IF l.product = p THEN l.qty ELSE 0
      BY <1>8, <1>9, <2>1
    <2>5. sess'[s].rows[p] + Book!Units(Tail(lines), p)
             = sess[s].rows[p] + Book!Units(lines, p)
      <3> DEFINE a == Book!Units(lines, p)
                 b == Book!Units(Tail(lines), p)
                 e == sess[s].rows[p]
      <3>1. a \in Nat /\ b \in Nat /\ e \in Int
        BY <1>6, <2>2
      <3>2. a = (IF l.product = p THEN l.qty ELSE 0) + b
        BY <1>7
      <3> HIDE DEF a, b, e
      <3>3. e + (IF l.product = p THEN l.qty ELSE 0) + b = e + a
        BY <1>3, <3>1, <3>2
      <3> QED  BY <2>4, <3>3 DEF a, b, e
    <2> QED  BY <1>4, <2>2, <2>3, <2>5
  <1>12. Restores(s)' = Restores(s)
    BY <1>4 DEF Restores
  <1> QED
    BY <1>4, <1>5, <1>10, <1>11, <1>12 DEF Posts

LEMMA MarksFinite ==
    ASSUME TypeOK, MarksAreSound, FiniteTable, NEW s \in Session, sess[s].op # "create"
    PROVE  /\ sess[s].marks \in SUBSET Txn /\ sess[s].todo \in SUBSET Txn
           /\ IsFiniteSet(sess[s].marks)
  <1>1. sess[s].marks \in SUBSET Txn /\ sess[s].todo \in SUBSET Txn
    BY DEF TypeOK, SessionState
  <1>2. sess[s].marks \in SUBSET {t \in Txn : Exists(t)}
    BY <1>1 DEF MarksAreSound, Sound
  <1> QED  BY <1>1, <1>2, FS_Subset DEF FiniteTable

LEMMA CleanupNextPosts ==
    ASSUME TypeOK, MarksAreSound, FiniteTable, NEW s \in Session, Posts(s), CleanupNext(s)
    PROVE  Posts(s)'
  <1>0. sess[s] \in SessionState /\ Sound(s)
    BY DEF TypeOK, MarksAreSound
  <1>1. PICK t \in sess[s].todo :
           sess' = [sess EXCEPT ![s].todo = @ \ {t}, ![s].marks = @ \cup {t},
                                ![s].lines = txns[t].lines]
    BY DEF CleanupNext
  <1>2. /\ sess'[s].pc = "work" /\ sess'[s].op = "cleanup" /\ sess[s].op = "cleanup"
        /\ sess'[s].marks = sess[s].marks \cup {t} /\ sess'[s].todo = sess[s].todo \ {t}
        /\ sess'[s].lines = txns[t].lines /\ sess'[s].rows = sess[s].rows
        /\ sess[s].lines = <<>> /\ UNCHANGED txns
    BY <1>0, <1>1 DEF CleanupNext, TypeOK, SessionState, Sound, dbVars
  <1>3. t \in Txn \ sess[s].marks
    BY <1>0, <1>1 DEF Posts, SessionState
  <1>4. sess[s].marks \in SUBSET Txn /\ IsFiniteSet(sess[s].marks)
    BY <1>2, MarksFinite
  <1>5. ASSUME NEW p \in Product
        PROVE  Cardinality(Held(txns', sess'[s].marks, p))
                   = sess'[s].rows[p] + Book!Units(sess'[s].lines, p)
    <2>1. Cardinality(Held(txns, sess[s].marks \cup {t}, p))
             = Cardinality(Held(txns, sess[s].marks, p)) + Book!Units(txns[t].lines, p)
      BY <1>3, <1>4, HeldOneMore
    <2>2. Cardinality(Held(txns, sess[s].marks, p)) = sess[s].rows[p] + Book!Units(<<>>, p)
      BY <1>2 DEF Posts, Restores
    <2>3. sess[s].rows[p] \in Int
      BY <1>0 DEF SessionState
    <2> QED  BY <1>2, <2>1, <2>2, <2>3, NoUnits
  <1>6. sess'[s].marks \cap sess'[s].todo = {}
    BY <1>2 DEF Posts
  <1> QED  BY <1>2, <1>5, <1>6 DEF Posts, Restores

LEMMA ProceedPosts ==
    ASSUME TypeOK, MarksAreSound, FiniteTable, NEW s \in Session, Posts(s), Proceed(s)
    PROVE  Posts(s)'
  <1>0. sess[s] \in SessionState /\ Sound(s)
    BY DEF TypeOK, MarksAreSound
  <1>1. CASE RefuseLine(s) \/ RefuseCash(s) \/ PushFailed(s) \/ RefuseFlush(s)
             \/ LockTimeout(s) \/ Commit(s)
    <2>1. Release(s)
      BY <1>1 DEF RefuseLine, RefuseCash, PushFailed, RefuseFlush, LockTimeout,
                  Commit, Rollback
    <2>2. sess'[s] = Idle
      BY <2>1, ReleaseSess
    <2> QED  BY <2>2, FreshPosts DEF Idle
  <1>2. CASE LockLine(s)
    BY <1>2, LockLinePosts
  <1>3. ASSUME NEW r \in Ref, PushAccepted(s, r)  PROVE Posts(s)'
    <2>1. /\ sess'[s].pc = "work" /\ sess'[s].op = sess[s].op /\ sess[s].op = "push"
          /\ sess'[s].marks = sess[s].marks /\ sess'[s].todo = sess[s].todo
          /\ sess'[s].lines = sess[s].lines /\ sess'[s].rows = sess[s].rows
      BY <1>0, <1>3 DEF PushAccepted, TypeOK, SessionState, Sound
    <2> QED  BY <2>1 DEF Posts, Restores
  <1>4. CASE CleanupNext(s)
    BY <1>4, CleanupNextPosts
  <1>5. CASE Flush(s)
    <2>1. /\ sess'[s].pc = "commit" /\ sess'[s].op = sess[s].op
          /\ sess'[s].marks = sess[s].marks /\ sess'[s].todo = sess[s].todo
          /\ sess'[s].cart = sess[s].cart
          /\ sess'[s].lines = sess[s].lines /\ sess'[s].rows = sess[s].rows
      BY <1>0, <1>5 DEF Flush, TypeOK, SessionState
    <2>2. sess[s].lines = <<>> /\ sess[s].todo = {} /\ UNCHANGED txns
      BY <1>5 DEF Flush, Ready, dbVars
    <2> QED  BY <2>1, <2>2 DEF Posts, Restores
  <1>6. CASE CleanupRowFails(s)
    <2>1. sess'[s] = [Idle EXCEPT !.pc = "work", !.op = "cleanup", !.todo = sess[s].todo]
      BY <1>6 DEF CleanupRowFails, TypeOK
    <2>2. UNCHANGED txns
      BY <1>6 DEF CleanupRowFails, dbVars
    <2> QED  BY <2>1, <2>2, FreshPosts DEF Idle
  <1> QED  BY <1>1, <1>2, <1>3, <1>4, <1>5, <1>6 DEF Proceed

\* Nothing but a sale's own commit puts lines in the table, and nothing takes
\* them out.
LEMMA CommitRows ==
    ASSUME TypeOK, LockedIsCurrent, MarksAreSound, NEW s \in Session, Posts(s), Commit(s)
    PROVE  /\ LinesStay
           /\ FiniteTable => FiniteTable'
  <1>0. sess[s] \in SessionState /\ Sound(s) /\ sess[s].pc = "commit"
    BY DEF TypeOK, MarksAreSound, Commit
  <1>1. \A t \in Txn : txns'[t] = IF t \in sess[s].marks THEN Written(s, t) ELSE txns[t]
    BY DEF Commit
  <1>2. ASSUME NEW t \in Txn, Exists(t)  PROVE Exists(t)' /\ txns'[t].lines = txns[t].lines
    <2>1. CASE t \notin sess[s].marks
      BY <1>1, <1>2, <2>1 DEF Exists
    <2>2. CASE t \in sess[s].marks
      <3>1. sess[s].op # "create"
        BY <1>0, <1>2, <2>2 DEF Sound
      <3>2. txns[t] \in TxnRow
        BY DEF TypeOK
      <3>3. Written(s, t).lines = txns[t].lines
        BY <3>1, <3>2 DEF Written, TxnRow
      <3>4. Exists(t)'
        BY <1>2, <2>2, CommitSound, <1>0, <1>1, WrittenRow DEF Exists
      <3> QED  BY <1>1, <2>2, <3>3, <3>4
    <2> QED  BY <2>1, <2>2
  <1>3. ASSUME FiniteTable  PROVE FiniteTable'
    <2>1. PICK u : {t \in Txn : Exists(t)'} \subseteq {t \in Txn : Exists(t)} \cup {u}
      <3>1. CASE sess[s].op = "create"
        <4>1. PICK u \in Txn : sess[s].marks = {u}
          BY <3>1 DEF Posts
        <4> QED  BY <1>1, <4>1 DEF Exists
      <3>2. CASE sess[s].op # "create"
        <4>1. \A t \in sess[s].marks : Exists(t)
          BY <1>0, <3>2 DEF Sound
        <4> QED  BY <1>1, <4>1 DEF Exists
      <3> QED  BY <3>1, <3>2
    <2>2. IsFiniteSet({t \in Txn : Exists(t)} \cup {u})
      BY <1>3, FS_AddElement DEF FiniteTable
    <2>3. IsFiniteSet({t \in Txn : Exists(t)'})
      BY <2>1, <2>2, FS_Subset
    <2> QED  BY <2>3 DEF FiniteTable
  <1> QED  BY <1>2, <1>3 DEF LinesStay

LEMMA NextPosts ==
    TypeOK /\ LockedIsCurrent /\ MarksAreSound /\ PostsInv /\ [Next]_vars
        => PostsInv' /\ LinesStay
  <1> SUFFICES ASSUME TypeOK, LockedIsCurrent, MarksAreSound, PostsInv, [Next]_vars
               PROVE  PostsInv' /\ LinesStay
    OBVIOUS
  <1>1. LinesStay /\ FiniteTable'
    <2>1. CASE UNCHANGED <<txns, sold, restored>>
      BY <2>1 DEF LinesStay, Exists, PostsInv, FiniteTable
    <2>2. ASSUME NEW s \in Session, Commit(s)  PROVE LinesStay /\ FiniteTable'
      BY <2>2, CommitRows DEF PostsInv
    <2> QED  BY <2>1, <2>2, OnlyCommitWrites
  <1>2. ASSUME NEW s \in Session, \A q \in Session \ {s} : sess'[q] = sess[q], Posts(s)'
        PROVE  \A q \in Session : Posts(q)'
    BY <1>1, <1>2, PostsFrame DEF PostsInv
  <1>3. ASSUME NEW s \in Session, Arrive(s)  PROVE \A q \in Session : Posts(q)'
    <2>1. \A q \in Session \ {s} : sess'[q] = sess[q]
      BY <1>3 DEF Arrive, BeginCreate, BeginVoid, BeginConfirm, BeginPush, Callback,
                CallbackSkips, BeginAdjust, BeginUpdate, BeginCleanup, Begin, TypeOK
    <2>2. Posts(s)'
      BY <1>3, ArrivePosts DEF PostsInv
    <2> QED  BY <1>2, <2>1, <2>2
  <1>4. ASSUME NEW s \in Session, Proceed(s)  PROVE \A q \in Session : Posts(q)'
    <2>1. Posts(s)'
      BY <1>4, ProceedPosts DEF PostsInv
    <2> QED  BY <1>2, <1>4, <2>1, ProceedOp
  <1>5. ASSUME NEW s \in Session, Crash(s)  PROVE \A q \in Session : Posts(q)'
    <2>1. sess'[s] = Idle /\ \A q \in Session \ {s} : sess'[q] = sess[q]
      BY <1>5, ReleaseSess DEF Crash
    <2>2. Posts(s)'
      BY <2>1, FreshPosts DEF Idle
    <2> QED  BY <1>2, <2>1, <2>2
  <1>6. ASSUME UNCHANGED sess  PROVE \A q \in Session : Posts(q)'
    BY <1>1, <1>6, PostsFrame DEF PostsInv
  <1>7. \A q \in Session : Posts(q)'
    BY <1>3, <1>4, <1>5, <1>6 DEF Next, Closed, CustomerAnswers, vars
  <1> QED  BY <1>1, <1>7 DEF PostsInv

LEMMA InitPosts == Init => PostsInv
  <1> SUFFICES ASSUME Init PROVE PostsInv
    OBVIOUS
  <1>1. {t \in Txn : Exists(t)} = {}
    BY DEF Init, Exists, Absent
  <1>2. FiniteTable
    BY <1>1, FS_EmptySet DEF FiniteTable
  <1>3. \A s \in Session : sess[s] = Idle
    BY DEF Init
  <1> QED  BY <1>2, <1>3 DEF PostsInv, Posts, Restores, Idle

LEMMA PostsCorrect == Spec => []PostsInv
  <1>1. TypeOK /\ LockedIsCurrent /\ MarksAreSound /\ PostsInv /\ [Next]_vars => PostsInv'
    BY NextPosts
  <1> QED  BY InitPosts, <1>1, TypeCorrect, LockedCurrent, MarksSound, PTL DEF Spec

\* What a commit of a locking handler enters in the ledger.
LEMMA CommitEnters ==
    ASSUME TypeOK, MarksAreSound, PostsInv, NEW s \in Session, Commit(s),
           sess[s].op \notin Unlocked
    PROVE  \/ /\ sess[s].op = "create"
              /\ \E t \in Txn : /\ sess[s].marks = {t} /\ ~Exists(t)
                                /\ txns'[t].lines = sess[s].cart.lines
              /\ \A p \in Product : sess[s].rows[p] = -Book!Units(sess[s].cart.lines, p)
           \/ /\ Restores(s)
              /\ \A t \in sess[s].marks : Exists(t)
              /\ \A p \in Product : sess[s].rows[p] = Cardinality(Held(txns, sess[s].marks, p))
           \/ /\ sess[s].op \in {"none", "confirm", "callback", "push"}
              /\ \A p \in Product : sess[s].rows[p] = 0
  <1>0. /\ sess[s] \in SessionState /\ Sound(s) /\ Posts(s) /\ sess[s].pc = "commit"
        /\ sess[s].lines = <<>>
    BY DEF TypeOK, MarksAreSound, PostsInv, Posts, Commit
  <1>1. ASSUME sess[s].op = "create", NEW p \in Product
        PROVE  sess[s].rows[p] = -Book!Units(sess[s].cart.lines, p)
    <2>1. Book!Units(sess[s].cart.lines, p) \in Nat
      BY <1>0, GoodsFinite DEF SessionState, Cart
    <2>2. sess[s].rows[p] = Book!Units(<<>>, p) - Book!Units(sess[s].cart.lines, p)
      BY <1>0, <1>1 DEF Posts
    <2> QED  BY <2>1, <2>2, NoUnits
  <1>2. ASSUME sess[s].op = "create"
        PROVE  \E t \in Txn : /\ sess[s].marks = {t} /\ ~Exists(t)
                              /\ txns'[t].lines = sess[s].cart.lines
    <2>1. PICK t \in Txn : sess[s].marks = {t}
      BY <1>0, <1>2 DEF Posts
    <2>2. ~Exists(t)
      BY <1>0, <1>2, <2>1 DEF Sound
    <2>3. txns'[t].lines = sess[s].cart.lines
      <3>1. Written(s, t).lines = sess[s].cart.lines
        BY <1>2 DEF Written, Restores
      <3>2. txns'[t] = Written(s, t)
        BY <2>1 DEF Commit
      <3> QED  BY <3>1, <3>2
    <2> QED  BY <2>1, <2>2, <2>3
  <1>3. ASSUME Restores(s)
        PROVE  /\ \A t \in sess[s].marks : Exists(t)
               /\ \A p \in Product :
                     sess[s].rows[p] = Cardinality(Held(txns, sess[s].marks, p))
    <2>1. \A t \in sess[s].marks : Exists(t)
      BY <1>0, <1>3 DEF Sound, Restores
    <2>2. \A p \in Product : sess[s].rows[p] \in Int
      BY <1>0 DEF SessionState
    <2>3. \A p \in Product :
             Cardinality(Held(txns, sess[s].marks, p)) = sess[s].rows[p] + Book!Units(<<>>, p)
      BY <1>0, <1>3 DEF Posts
    <2> QED  BY <2>1, <2>2, <2>3, NoUnits
  <1>4. sess[s].op \in {"none", "confirm", "callback", "push"} =>
           \A p \in Product : sess[s].rows[p] = 0
    BY <1>0 DEF Posts, Zero
  <1>5. sess[s].op = "create" \/ Restores(s)
           \/ sess[s].op \in {"none", "confirm", "callback", "push"}
    BY <1>0 DEF SessionState, Ops, Restores, Unlocked
  <1> QED  BY <1>1, <1>2, <1>3, <1>4, <1>5

-----------------------------------------------------------------------------
(* The ledger is made of whole postings *)

\* Moved, of a given table.
Entries(table, count, p) ==
    UNION {(({t} \X (1..count[t])) \X Book!Goods(table[t].lines, p)) : t \in Txn}

LEMMA EntriesAre ==
    ASSUME NEW table, NEW count, NEW p, NEW e
    PROVE  e \in Entries(table, count, p) <=>
               \E t \in Txn : \E i \in 1..count[t] :
                   \E v \in Book!Goods(table[t].lines, p) : e = <<<<t, i>>, v>>
  BY DEF Entries

\* One more posting for each sale of T adds the goods of T.
LEMMA EntriesGrow ==
    ASSUME NEW old, NEW new, NEW p, NEW T \in SUBSET Txn, NEW count \in [Txn -> Nat],
           \A t \in Txn : count[t] # 0 => new[t].lines = old[t].lines,
           NEW more,
           \A t \in Txn : more[t] = IF t \in T THEN count[t] + 1 ELSE count[t],
           IsFiniteSet(Entries(old, count, p)), IsFiniteSet(Held(new, T, p))
    PROVE  /\ IsFiniteSet(Entries(new, more, p))
           /\ Cardinality(Entries(new, more, p))
                = Cardinality(Entries(old, count, p)) + Cardinality(Held(new, T, p))
  <1> DEFINE fresh == {e \in Entries(new, more, p) :
                          e[1][1] \in T /\ e[1][2] = count[e[1][1]] + 1}
             f == [u \in Held(new, T, p) |-> <<<<u[1], count[u[1]] + 1>>, u[2]>>]
  <1>1. \A u : u \in Held(new, T, p) <=>
                  \E t \in T : \E v \in Book!Goods(new[t].lines, p) : u = <<t, v>>
    BY DEF Held
  <1>2. Entries(new, more, p) = Entries(old, count, p) \cup fresh
    <2>1. ASSUME NEW e \in Entries(new, more, p)
          PROVE  e \in Entries(old, count, p) \/ e \in fresh
      <3>1. PICK t \in Txn, i \in Int :
               i \in 1..more[t] /\ \E v \in Book!Goods(new[t].lines, p) : e = <<<<t, i>>, v>>
        BY EntriesAre
      <3>2. PICK v \in Book!Goods(new[t].lines, p) : e = <<<<t, i>>, v>>
        BY <3>1
      <3>3. count[t] \in Nat /\ more[t] = IF t \in T THEN count[t] + 1 ELSE count[t]
        OBVIOUS
      <3>4. CASE i \in 1..count[t]
        <4>1. count[t] # 0
          BY <3>3, <3>4
        <4>2. v \in Book!Goods(old[t].lines, p)
          BY <4>1
        <4> QED  BY <3>2, <3>4, <4>2, EntriesAre
      <3>5. CASE i \notin 1..count[t]
        <4>1. t \in T /\ i = count[t] + 1
          BY <3>1, <3>3, <3>5
        <4> QED  BY <3>2, <4>1
      <3> QED  BY <3>4, <3>5
    <2>2. ASSUME NEW e \in Entries(old, count, p)  PROVE e \in Entries(new, more, p)
      <3>1. PICK t \in Txn, i \in Int :
               i \in 1..count[t] /\ \E v \in Book!Goods(old[t].lines, p) : e = <<<<t, i>>, v>>
        BY EntriesAre
      <3>2. PICK v \in Book!Goods(old[t].lines, p) : e = <<<<t, i>>, v>>
        BY <3>1
      <3>3. count[t] \in Nat /\ count[t] # 0 /\ i \in 1..more[t]
        BY <3>1
      <3>4. v \in Book!Goods(new[t].lines, p)
        BY <3>3
      <3> QED  BY <3>2, <3>3, <3>4, EntriesAre
    <2> QED  BY <2>1, <2>2
  <1>3. Entries(old, count, p) \cap fresh = {}
    <2> SUFFICES ASSUME NEW e \in Entries(old, count, p), e \in fresh  PROVE FALSE
      OBVIOUS
    <2>1. PICK t \in Txn, i \in Int :
             i \in 1..count[t] /\ \E v \in Book!Goods(old[t].lines, p) : e = <<<<t, i>>, v>>
      BY EntriesAre
    <2>2. e[1][1] = t /\ e[1][2] = i
      BY <2>1
    <2>3. count[t] \in Nat
      OBVIOUS
    <2> QED  BY <2>1, <2>2, <2>3
  <1>4. f \in [Held(new, T, p) -> fresh]
    <2> SUFFICES ASSUME NEW u \in Held(new, T, p)
                 PROVE  <<<<u[1], count[u[1]] + 1>>, u[2]>> \in fresh
      OBVIOUS
    <2>1. PICK t \in T : \E v \in Book!Goods(new[t].lines, p) : u = <<t, v>>
      BY <1>1
    <2>2. PICK v \in Book!Goods(new[t].lines, p) : u = <<t, v>>
      BY <2>1
    <2>3. count[t] + 1 \in 1..more[t] /\ t \in Txn
      OBVIOUS
    <2>4. <<<<t, count[t] + 1>>, v>> \in Entries(new, more, p)
      BY <2>2, <2>3, EntriesAre
    <2> QED  BY <2>2, <2>4
  <1>5. \A u, w \in Held(new, T, p) : f[u] = f[w] => u = w
    <2> SUFFICES ASSUME NEW u \in Held(new, T, p), NEW w \in Held(new, T, p), f[u] = f[w]
                 PROVE  u = w
      OBVIOUS
    <2>1. PICK t \in T : \E v \in Book!Goods(new[t].lines, p) : u = <<t, v>>
      BY <1>1
    <2>2. PICK x \in T : \E v \in Book!Goods(new[x].lines, p) : w = <<x, v>>
      BY <1>1
    <2>3. u[1] = w[1] /\ u[2] = w[2]
      OBVIOUS
    <2> QED  BY <2>1, <2>2, <2>3
  <1>6. \A e \in fresh : \E u \in Held(new, T, p) : f[u] = e
    <2> SUFFICES ASSUME NEW e \in fresh  PROVE \E u \in Held(new, T, p) : f[u] = e
      OBVIOUS
    <2>1. PICK t \in Txn, i \in Int :
             i \in 1..more[t] /\ \E v \in Book!Goods(new[t].lines, p) : e = <<<<t, i>>, v>>
      BY EntriesAre
    <2>2. PICK v \in Book!Goods(new[t].lines, p) : e = <<<<t, i>>, v>>
      BY <2>1
    <2>3. t \in T /\ i = count[t] + 1
      BY <2>2
    <2>4. <<t, v>> \in Held(new, T, p)
      BY <1>1, <2>2, <2>3
    <2> QED  BY <2>2, <2>3, <2>4
  <1> HIDE DEF fresh, f
  <1>7. IsFiniteSet(fresh) /\ Cardinality(fresh) = Cardinality(Held(new, T, p))
    BY <1>4, <1>5, <1>6, CardinalityOfImage
  <1>8. /\ IsFiniteSet(Entries(old, count, p) \cup fresh)
        /\ Cardinality(Entries(old, count, p) \cup fresh)
              = Cardinality(Entries(old, count, p)) + Cardinality(fresh)
    BY <1>3, <1>7, CardinalityOfUnion
  <1> QED  BY <1>2, <1>7, <1>8

\* No entry is added, whatever becomes of the table.
LEMMA EntriesStay ==
    ASSUME NEW old, NEW new, NEW p, NEW count \in [Txn -> Nat],
           \A t \in Txn : count[t] # 0 => new[t].lines = old[t].lines
    PROVE  Entries(new, count, p) = Entries(old, count, p)
  <1>1. ASSUME NEW t \in Txn
        PROVE  ({t} \X (1..count[t])) \X Book!Goods(new[t].lines, p)
                   = ({t} \X (1..count[t])) \X Book!Goods(old[t].lines, p)
    <2>1. CASE count[t] = 0
      <3>1. 1..count[t] = {}
        BY <2>1
      <3> QED  BY <3>1
    <2>2. CASE count[t] # 0
      BY <2>2
    <2> QED  BY <2>1, <2>2
  <1> QED  BY <1>1 DEF Entries

PostedIn(table, count) == \A p \in Product : IsFiniteSet(Entries(table, count, p))

LedgerOfPostings ==
    /\ PostedIn(txns, sold) /\ PostedIn(txns, restored)
    /\ \A p \in Product :
          ledger[p] = OpeningStock[p] + Cardinality(Entries(txns, restored, p))
                                      - Cardinality(Entries(txns, sold, p))

LEMMA CommitPostings ==
    ASSUME TypeOK, LockedIsCurrent, MarksAreSound, KeySellsOnce, StatusTellsGoods, PostsInv,
           LedgerOfPostings, NEW s \in Session, sess[s].op \notin Unlocked, Commit(s)
    PROVE  LedgerOfPostings'
  <1> DEFINE R(p) == Entries(txns, restored, p)
             S(p) == Entries(txns, sold, p)
  <1>0. /\ sess[s] \in SessionState /\ sess[s].marks \in SUBSET Txn
        /\ sold \in [Txn -> Nat] /\ restored \in [Txn -> Nat]
        /\ \A p \in Product : ledger[p] \in Int /\ OpeningStock[p] \in Int
    BY OpeningAssumption DEF TypeOK, SessionState
  <1>1. \A t \in Txn : ~Exists(t) => sold[t] = 0 /\ restored[t] = 0
    BY DEF KeySellsOnce, StatusTellsGoods, Exists
  <1>2. LinesStay
    BY CommitRows DEF PostsInv
  <1>3. /\ \A t \in Txn : sold[t] # 0 => txns'[t].lines = txns[t].lines
        /\ \A t \in Txn : restored[t] # 0 => txns'[t].lines = txns[t].lines
    BY <1>1, <1>2 DEF LinesStay
  <1>4. /\ \A p \in Product : ledger'[p] = ledger[p] + sess[s].rows[p]
        /\ sold' = [t \in Txn |-> IF sess[s].op = "create" /\ t \in sess[s].marks
                                  THEN sold[t] + 1 ELSE sold[t]]
        /\ restored' = [t \in Txn |-> IF Restores(s) /\ t \in sess[s].marks
                                      THEN restored[t] + 1 ELSE restored[t]]
    BY DEF Commit
  <1>5. \A p \in Product :
           /\ IsFiniteSet(R(p)) /\ Cardinality(R(p)) \in Nat
           /\ IsFiniteSet(S(p)) /\ Cardinality(S(p)) \in Nat
           /\ ledger[p] = OpeningStock[p] + Cardinality(R(p)) - Cardinality(S(p))
    BY FS_CardinalityType DEF LedgerOfPostings, PostedIn
  <1>6. \A p \in Product : /\ Entries(txns', restored, p) = R(p)
                           /\ Entries(txns', sold, p) = S(p)
    BY <1>0, <1>3, EntriesStay
  <1>7. SUFFICES ASSUME NEW p \in Product
                 PROVE  /\ IsFiniteSet(Entries(txns', sold', p))
                        /\ IsFiniteSet(Entries(txns', restored', p))
                        /\ ledger'[p] = OpeningStock[p]
                             + Cardinality(Entries(txns', restored', p))
                             - Cardinality(Entries(txns', sold', p))
    BY DEF LedgerOfPostings, PostedIn
  <1> HIDE DEF R, S
  <1>8. CASE sess[s].op = "create"
    <2>1. PICK t \in Txn : /\ sess[s].marks = {t} /\ ~Exists(t)
                           /\ txns'[t].lines = sess[s].cart.lines
      BY <1>8, CommitEnters DEF Restores
    <2>2. sess[s].rows[p] = -Book!Units(sess[s].cart.lines, p)
      BY <1>8, CommitEnters DEF Restores
    <2>3. restored' = restored
      BY <1>0, <1>4, <1>8 DEF Restores
    <2>4. \A u \in Txn : sold'[u] = IF u \in {t} THEN sold[u] + 1 ELSE sold[u]
      BY <1>4, <1>8, <2>1
    <2>5. /\ IsFiniteSet(Held(txns', {t}, p))
          /\ Cardinality(Held(txns', {t}, p)) = Book!Units(sess[s].cart.lines, p)
          /\ Book!Units(sess[s].cart.lines, p) \in Nat
      <3>1. Held(txns', {t}, p) = {t} \X Book!Goods(sess[s].cart.lines, p)
        BY <2>1 DEF Held
      <3>2. IsFiniteSet(Book!Goods(sess[s].cart.lines, p))
            /\ Book!Units(sess[s].cart.lines, p) \in Nat
        BY <1>0, GoodsFinite DEF SessionState, Cart
      <3> QED  BY <3>1, <3>2, CardinalityOfColumn, SameCount DEF Book!Units
    <2>6. /\ IsFiniteSet(Entries(txns', sold', p))
          /\ Cardinality(Entries(txns', sold', p))
                = Cardinality(S(p)) + Cardinality(Held(txns', {t}, p))
      <3>1. PICK T \in SUBSET Txn : T = {t}
        OBVIOUS
      <3>2. /\ \A u \in Txn : sold'[u] = IF u \in T THEN sold[u] + 1 ELSE sold[u]
            /\ IsFiniteSet(Held(txns', T, p))
            /\ Held(txns', T, p) = Held(txns', {t}, p)
        BY <2>4, <2>5, <3>1
      <3>3. /\ IsFiniteSet(Entries(txns, sold, p))
            /\ Cardinality(Entries(txns, sold, p)) = Cardinality(S(p))
            /\ sold \in [Txn -> Nat]
            /\ \A u \in Txn : sold[u] # 0 => txns'[u].lines = txns[u].lines
        BY <1>0, <1>3, <1>5 DEF S
      <3>4. /\ IsFiniteSet(Entries(txns', sold', p))
            /\ Cardinality(Entries(txns', sold', p))
                  = Cardinality(Entries(txns, sold, p)) + Cardinality(Held(txns', T, p))
        BY <3>2, <3>3, EntriesGrow, SMTT(30)
      <3> QED  BY <3>2, <3>3, <3>4
    <2> QED  BY <1>0, <1>4, <1>5, <1>6, <2>2, <2>3, <2>5, <2>6
  <1>9. CASE Restores(s)
    <2>1. /\ \A t \in sess[s].marks : Exists(t)
          /\ sess[s].rows[p] = Cardinality(Held(txns, sess[s].marks, p))
      BY <1>9, CommitEnters DEF Restores
    <2>2. sold' = sold
      BY <1>0, <1>4, <1>9 DEF Restores
    <2>3. \A u \in Txn : restored'[u] = IF u \in sess[s].marks THEN restored[u] + 1
                                                              ELSE restored[u]
      BY <1>4, <1>9
    <2>4. Held(txns', sess[s].marks, p) = Held(txns, sess[s].marks, p)
      BY <1>0, <1>2, <2>1 DEF Held, LinesStay
    <2>5. IsFiniteSet(sess[s].marks)
      BY <1>9, MarksFinite DEF PostsInv, Restores
    <2>6. /\ IsFiniteSet(Held(txns, sess[s].marks, p))
          /\ Cardinality(Held(txns, sess[s].marks, p)) \in Nat
      BY <1>0, <2>5, HeldFinite
    <2>7. /\ IsFiniteSet(Entries(txns', restored', p))
          /\ Cardinality(Entries(txns', restored', p))
                = Cardinality(R(p)) + Cardinality(Held(txns, sess[s].marks, p))
      BY <1>0, <1>3, <1>5, <2>3, <2>4, <2>6, EntriesGrow DEF R
    <2> QED  BY <1>0, <1>4, <1>5, <1>6, <2>1, <2>2, <2>6, <2>7
  <1>10. CASE sess[s].op \in {"none", "confirm", "callback", "push"}
    <2>1. sess[s].rows[p] = 0
      BY <1>10, CommitEnters DEF Restores
    <2>2. sold' = sold /\ restored' = restored
      BY <1>0, <1>4, <1>10 DEF Restores
    <2> QED  BY <1>0, <1>4, <1>5, <1>6, <2>1, <2>2
  <1> QED  BY <1>0, <1>8, <1>9, <1>10 DEF SessionState, Ops, Restores, Unlocked

\* Without the two unlocked handlers the ledger is, at every moment, the
\* opening stock with every unit that a voiding or the cleanup gave back and
\* without every unit sold, and the stock is the ledger.
THEOREM PostingsTheorem ==
    Adjustments = {} /\ Overwrites = {} => (Spec => []WholePostings)
  <1> SUFFICES ASSUME Adjustments = {}, Overwrites = {}
               PROVE  Spec => []WholePostings
    OBVIOUS
  <1>1. Init => NoUnlockedWork /\ LedgerOfPostings
    <2> SUFFICES ASSUME Init PROVE NoUnlockedWork /\ LedgerOfPostings
      OBVIOUS
    <2>1. NoUnlockedWork
      BY DEF Init, NoUnlockedWork, Idle, Unlocked
    <2>2. \A p : Entries(txns, sold, p) = {} /\ Entries(txns, restored, p) = {}
      BY DEF Init, Entries
    <2>3. \A p \in Product : ledger[p] = OpeningStock[p] /\ OpeningStock[p] \in Nat
      BY OpeningAssumption DEF Init
    <2>4. IsFiniteSet({}) /\ Cardinality({}) = 0
      BY FS_EmptySet
    <2>5. \A p \in Product :
             ledger[p] = OpeningStock[p] + Cardinality(Entries(txns, restored, p))
                                         - Cardinality(Entries(txns, sold, p))
      BY <2>2, <2>3, <2>4
    <2> QED  BY <2>1, <2>2, <2>4, <2>5 DEF LedgerOfPostings, PostedIn
  <1>2. TypeOK /\ NoUnlockedWork /\ [Next]_vars => NoUnlockedWork'
    BY NoUnlockedStep
  <1>3. ASSUME TypeOK, LockedIsCurrent, MarksAreSound, KeySellsOnce, StatusTellsGoods,
               PostsInv, NoUnlockedWork, LedgerOfPostings, [Next]_vars
        PROVE  LedgerOfPostings'
    <2>1. CASE UNCHANGED <<stock, ledger, txns, sold, restored>>
      BY <1>3, <2>1 DEF LedgerOfPostings, PostedIn, Entries
    <2>2. ASSUME NEW s \in Session, Commit(s)  PROVE LedgerOfPostings'
      BY <1>3, <2>2, CommitPostings DEF NoUnlockedWork
    <2> QED  BY <1>3, <2>1, <2>2, OnlyCommitMoves, OnlyCommitWrites
  <1>4. LedgerIsAuthoritative /\ LedgerOfPostings => WholePostings
    BY DEF LedgerIsAuthoritative, LedgerOfPostings, WholePostings, Moved, Entries
  <1> QED
    BY <1>1, <1>2, <1>3, <1>4, TypeCorrect, LockedCurrent, MarksSound, KeyTheorem,
       StatusTheorem, PostsCorrect, LedgerTheorem, PTL DEF Spec

-----------------------------------------------------------------------------
(* The shelf under the schema's CHECK *)

\* What a flushed session is about to write, the CHECK has accepted.
Covered(s) ==
    sess[s].pc = "commit" => \A p \in Dirty(s) : sess[s].next[p] >= 0

LEMMA CoveredStep ==
    ASSUME StockChecked, TypeOK, NEW s \in Session, Covered(s), [Next]_vars
    PROVE  Covered(s)'
  <1>1. ASSUME NEW q \in Session, Arrive(q)  PROVE Covered(s)'
    <2>1. sess'[q].pc # "commit" \/ sess'[q] = sess[q]
      <3>1. ASSUME NEW r \in Ref, CallbackSkips(q, r)  PROVE sess'[q] = sess[q]
        BY <3>1 DEF CallbackSkips
      <3>2. ASSUME NEW w, Begin(q, w), w.pc # "commit"  PROVE sess'[q].pc # "commit"
        BY <3>2, BeginSess
      <3>3. ASSUME NEW t \in Txn, NEW cart \in Carts, BeginCreate(q, t, cart)
            PROVE  sess'[q].pc # "commit"
        BY <3>2, <3>3 DEF BeginCreate, Idle
      <3>4. ASSUME NEW t \in Txn, BeginVoid(q, t)
            PROVE  sess'[q].pc # "commit"
        BY <3>2, <3>4 DEF BeginVoid, Idle
      <3>5. ASSUME NEW t \in Txn, NEW r \in Ref, BeginConfirm(q, t, r)
            PROVE  sess'[q].pc # "commit"
        BY <3>2, <3>5 DEF BeginConfirm, Idle
      <3>6. ASSUME NEW t \in Txn, BeginPush(q, t)
            PROVE  sess'[q].pc # "commit"
        BY <3>2, <3>6 DEF BeginPush, Idle
      <3>7. ASSUME NEW r \in Ref, Callback(q, r)
            PROVE  sess'[q].pc # "commit"
        BY <3>2, <3>7 DEF Callback, Idle
      <3>8. ASSUME NEW p \in Product, NEW a \in Adjustments, BeginAdjust(q, p, a)
            PROVE  sess'[q].pc # "commit"
        BY <3>2, <3>8 DEF BeginAdjust, Idle
      <3>9. ASSUME NEW p \in Product, NEW v \in Overwrites, BeginUpdate(q, p, v)
            PROVE  sess'[q].pc # "commit"
        BY <3>2, <3>9 DEF BeginUpdate, Idle
      <3>10. ASSUME BeginCleanup(q)  PROVE sess'[q].pc # "commit"
        BY <3>2, <3>10 DEF BeginCleanup, Idle
      <3> QED
        BY <1>1, <3>1, <3>2, <3>3, <3>4, <3>5, <3>6, <3>7, <3>8, <3>9, <3>10 DEF Arrive
    <2>2. \A r \in Session \ {q} : sess'[r] = sess[r]
      BY <1>1 DEF Arrive, BeginCreate, BeginVoid, BeginConfirm, BeginPush, Callback,
                  CallbackSkips, BeginAdjust, BeginUpdate, BeginCleanup, Begin, TypeOK
    <2> QED  BY <2>1, <2>2 DEF Covered, Dirty
  <1>2. ASSUME NEW q \in Session, Proceed(q)  PROVE Covered(s)'
    <2>1. \A r \in Session \ {q} : sess'[r] = sess[r]
      BY <1>2, ProceedOp
    <2>2. CASE Flush(q)
      <3>1. sess[q] \in SessionState
        BY DEF TypeOK
      <3>2. \A p \in Dirty(q) : sess[q].next[p] >= 0
        BY <2>2 DEF Flush, Accepted, StockAccepted
      <3>3. sess'[q].next = sess[q].next /\ sess'[q].base = sess[q].base
        BY <2>2, <3>1 DEF Flush, TypeOK, SessionState
      <3> QED  BY <2>1, <3>2, <3>3 DEF Covered, Dirty
    <2>3. CASE ~Flush(q)
      <3>1. sess'[q].pc # "commit"
        <4>1. CASE RefuseLine(q) \/ RefuseCash(q) \/ PushFailed(q) \/ RefuseFlush(q)
                   \/ LockTimeout(q) \/ Commit(q)
          <5>1. Release(q)
            BY <4>1 DEF RefuseLine, RefuseCash, PushFailed, RefuseFlush, LockTimeout,
                        Commit, Rollback
          <5> QED  BY <5>1, ReleaseSess DEF Idle
        <4>2. CASE LockLine(q) \/ CleanupNext(q)
          <5>1. sess[q].pc = "work" /\ sess[q] \in SessionState /\ sess \in [Session -> SessionState]
            BY <4>2 DEF LockLine, CleanupNext, TypeOK
          <5>2. CASE LockLine(q)
            BY <5>1, <5>2 DEF LockLine, SessionState
          <5>3. CASE CleanupNext(q)
            BY <5>1, <5>3 DEF CleanupNext, SessionState
          <5> QED  BY <4>2, <5>2, <5>3
        <4>3. ASSUME NEW r \in Ref, PushAccepted(q, r)  PROVE sess'[q].pc # "commit"
          BY <4>3 DEF PushAccepted, TypeOK, SessionState
        <4>4. CASE CleanupRowFails(q)
          BY <4>4 DEF CleanupRowFails, TypeOK, Idle
        <4> QED  BY <1>2, <2>3, <4>1, <4>2, <4>3, <4>4 DEF Proceed
      <3> QED  BY <2>1, <3>1 DEF Covered, Dirty
    <2> QED  BY <2>2, <2>3
  <1>3. ASSUME NEW q \in Session, Crash(q)  PROVE Covered(s)'
    BY <1>3, ReleaseSess DEF Crash, Covered, Dirty, Idle
  <1>4. ASSUME NEW r \in Ref, CustomerAnswers(r)  PROVE Covered(s)'
    BY <1>4 DEF CustomerAnswers, Covered, Dirty
  <1>5. CASE UNCHANGED vars
    BY <1>5 DEF vars, Covered, Dirty
  <1> QED  BY <1>1, <1>2, <1>3, <1>4, <1>5 DEF Next, Closed

\* With chk_prod_stock_gte0 in the schema no cart, correction or PATCH takes a
\* product below zero: every write passed the CHECK when it was flushed, and
\* nothing of it changes before it commits.
THEOREM CheckedTheorem == StockChecked => (Spec => []NoOversell)
  <1> SUFFICES ASSUME StockChecked PROVE Spec => []NoOversell
    OBVIOUS
  <1> DEFINE AllCovered == \A s \in Session : Covered(s)
  <1>1. Init => NoOversell /\ AllCovered
    BY OpeningAssumption DEF Init, NoOversell, Covered, Idle
  <1>2. ASSUME TypeOK, NoOversell, AllCovered, [Next]_vars  PROVE NoOversell' /\ AllCovered'
    <2>1. AllCovered'
      BY <1>2, CoveredStep
    <2>2. ASSUME NEW s \in Session, Commit(s)  PROVE NoOversell'
      BY <1>2, <2>2 DEF Commit, Covered, NoOversell
    <2> QED  BY <1>2, <2>1, <2>2, OnlyCommitMoves DEF NoOversell
  <1> QED  BY <1>1, <1>2, TypeCorrect, PTL DEF Spec

-----------------------------------------------------------------------------
(* Every step is one entry in the books *)

\* What a commit does to the stock is what it enters in the ledger.
LEMMA CommitMoves ==
    ASSUME TypeOK, LockedIsCurrent, NEW s \in Session, Commit(s),
           sess[s].op \notin Unlocked, NEW p \in Product
    PROVE  /\ stock'[p] = stock[p] + sess[s].rows[p]
           /\ ledger'[p] = ledger[p] + sess[s].rows[p]
  <1>1. ledger'[p] = ledger[p] + sess[s].rows[p]
    BY DEF Commit
  <1>2. /\ stock[p] \in Int /\ ledger[p] \in Int /\ sess[s].rows[p] \in Int
        /\ stock'[p] \in Int /\ ledger'[p] \in Int
    BY DEF TypeOK, SessionState, Commit
  <1>3. Gap(p)' = Gap(p)
    BY CommitGap
  <1> QED  BY <1>1, <1>2, <1>3 DEF Gap

LEMMA CommitIsEntry ==
    ASSUME TypeOK, LockedIsCurrent, MarksAreSound, PostsInv, NoOversell',
           NEW s \in Session, sess[s].op \notin Unlocked, Commit(s)
    PROVE  [Book!Next]_(Book!vars)
  <1> DEFINE book == [t \in Txn |-> [status |-> txns[t].status, lines |-> txns[t].lines]]
  <1>0. /\ sess[s] \in SessionState /\ sess[s].marks \in SUBSET Txn /\ sess[s].pc = "commit"
        /\ stock \in [Product -> Int] /\ ledger \in [Product -> Int]
        /\ txns \in [Txn -> TxnRow] /\ txns' \in [Txn -> TxnRow]
    <2>1. TypeOK'
      BY NextType DEF Next, Proceed
    <2> QED  BY <2>1 DEF TypeOK, SessionState, Commit
  <1>1. /\ stock' = [p \in Product |-> stock[p] + sess[s].rows[p]]
        /\ ledger' = [p \in Product |-> ledger[p] + sess[s].rows[p]]
    BY <1>0, CommitMoves DEF Commit
  <1>2. LinesStay
    BY CommitRows DEF PostsInv
  <1>3. \A t \in Txn : txns'[t] = IF t \in sess[s].marks THEN Written(s, t) ELSE txns[t]
    BY DEF Commit
  <1>a. \A t \in Txn : DOMAIN txns[t] = {"status", "lines", "mpesa", "ref", "checkout"}
    BY <1>0 DEF TxnRow
  <1>4. CASE sess[s].op = "create"
    <2>1. PICK t \in Txn : /\ sess[s].marks = {t} /\ ~Exists(t)
                           /\ txns'[t].lines = sess[s].cart.lines
      BY <1>4, CommitEnters DEF Restores
    <2>2. \A p \in Product : sess[s].rows[p] = -Book!Units(txns'[t].lines, p)
      BY <1>4, <2>1, CommitEnters DEF Restores
    <2>3. \A p \in Product : Book!Units(txns'[t].lines, p) \in Nat
      BY <1>0, GoodsFinite DEF TxnRow
    <2>4. \A p \in Product : Book!Units(txns'[t].lines, p) <= stock[p]
      <3> SUFFICES ASSUME NEW p \in Product
                   PROVE  Book!Units(txns'[t].lines, p) <= stock[p]
        OBVIOUS
      <3>1. stock'[p] >= 0 /\ stock'[p] = stock[p] - Book!Units(txns'[t].lines, p)
        BY <1>0, <1>1, <2>2, <2>3 DEF NoOversell
      <3> QED  BY <1>0, <2>3, <3>1
    <2>5. txns'[t].status \in {"pending", "completed"}
      <3>1. Written(s, t) = [status |-> IF sess[s].cart.mpesa THEN "pending" ELSE "completed",
                             lines |-> sess[s].cart.lines, mpesa |-> sess[s].cart.mpesa,
                             ref |-> NoRef, checkout |-> NoRef]
        BY <1>4 DEF Written, Restores
      <3>2. Written(s, t).status \in {"pending", "completed"}
        BY <3>1
      <3> QED  BY <1>3, <2>1, <3>2
    <2>6. \A u \in Txn \ {t} : txns'[u] = txns[u]
      BY <1>3, <2>1
    <2>7. /\ stock' = [p \in Product |-> stock[p]
                         + [q \in Product |-> -Book!Units(txns'[t].lines, q)][p]]
          /\ ledger' = [p \in Product |-> ledger[p]
                         + [q \in Product |-> -Book!Units(txns'[t].lines, q)][p]]
      BY <1>1, <2>2
    <2>8. Book!Sell(t)
      BY <2>1, <2>4, <2>5, <2>6, <2>7 DEF Book!Sell, Book!Post, Exists
    <2> QED  BY <2>8 DEF Book!Next
  <1>5. CASE Restores(s)
    <2>1. /\ \A t \in sess[s].marks : Exists(t)
          /\ \A p \in Product : sess[s].rows[p] = Cardinality(Held(txns, sess[s].marks, p))
      BY <1>5, CommitEnters DEF Restores
    <2>2. book' = [t \in Txn |-> IF t \in sess[s].marks
                                 THEN [book[t] EXCEPT !.status = "voided"] ELSE book[t]]
      <3>1. \A t \in sess[s].marks : Written(s, t) = [txns[t] EXCEPT !.status = "voided"]
        BY <1>5 DEF Written, Restores
      <3>2. \A t \in sess[s].marks :
               txns'[t].status = "voided" /\ txns'[t].lines = txns[t].lines
        BY <1>0, <1>3, <1>a, <3>1
      <3>3. \A t \in Txn \ sess[s].marks : txns'[t] = txns[t]
        BY <1>3
      <3> QED  BY <1>0, <3>2, <3>3
    <2>3. CASE sess[s].marks = {}
      <3>1. book' = book
        BY <2>2, <2>3
      <3>2. \A p \in Product : sess[s].rows[p] = 0
        BY <2>1, <2>3, HeldNone
      <3>3. stock' = stock /\ ledger' = ledger
        BY <1>0, <1>1, <3>2
      <3> QED  BY <3>1, <3>3 DEF Book!vars
    <2>4. CASE sess[s].marks # {}
      <3>1. \A p \in Product :
               sess[s].rows[p] = Book!Cardinality(
                  UNION {{t} \X Book!Goods(book[t].lines, p) : t \in sess[s].marks})
        <4> SUFFICES ASSUME NEW p \in Product
                     PROVE  Held(txns, sess[s].marks, p)
                        = UNION {{t} \X Book!Goods(book[t].lines, p) : t \in sess[s].marks}
          BY <2>1, SameCount
        <4>1. \A t \in sess[s].marks : book[t].lines = txns[t].lines
          BY <1>0
        <4> HIDE DEF book
        <4> QED  BY <4>1 DEF Held
      <3>2. \A t \in sess[s].marks : book[t].status # "absent"
        BY <1>0, <2>1 DEF Exists
      <3>3. Book!Post([p \in Product |-> Book!Cardinality(
                  UNION {{t} \X Book!Goods(book[t].lines, p) : t \in sess[s].marks})])
        <4> DEFINE c(p) == Book!Cardinality(
                  UNION {{t} \X Book!Goods(book[t].lines, p) : t \in sess[s].marks})
        <4>1. \A p \in Product : sess[s].rows[p] = c(p)
          BY <3>1
        <4> HIDE DEF c
        <4>2. Book!Post([p \in Product |-> c(p)])
          BY <1>1, <4>1 DEF Book!Post
        <4> QED  BY <4>2 DEF c
      <3>4. PICK T \in SUBSET Txn : T = sess[s].marks
        BY <1>0
      <3>5. Book!GiveBack(T)
        BY <2>2, <2>4, <3>2, <3>3, <3>4 DEF Book!GiveBack
      <3> HIDE DEF book
      <3>6. \E U \in SUBSET Txn : Book!GiveBack(U)
        BY <3>5
      <3> QED  BY <3>6 DEF Book!Next
    <2> QED  BY <2>3, <2>4
  <1>6. CASE sess[s].op \in {"none", "confirm", "callback", "push"}
    <2>1. stock' = stock /\ ledger' = ledger
      <3>1. \A p \in Product : sess[s].rows[p] = 0
        BY <1>6, CommitEnters DEF Restores
      <3> QED  BY <1>0, <1>1, <3>1
    <2>2. CASE sess[s].op \in {"none", "push"}
      <3>1. \A t \in Txn : /\ txns'[t].status = txns[t].status
                           /\ txns'[t].lines = txns[t].lines
        <4>1. CASE sess[s].op = "none"
          BY <1>3, <4>1 DEF MarksAreSound, Sound
        <4>2. CASE sess[s].op = "push"
          <5>1. \A t \in Txn : Written(s, t) = [txns[t] EXCEPT !.checkout = sess[s].ref]
            BY <4>2 DEF Written, Restores
          <5> QED  BY <1>a, <1>3, <5>1
        <4> QED  BY <2>2, <4>1, <4>2
      <3>2. book' = book
        BY <3>1
      <3> QED  BY <2>1, <3>2 DEF Book!vars
    <2>3. CASE sess[s].op \in {"confirm", "callback"}
      <3>1. PICK t \in Txn : sess[s].marks = {t}
        BY <2>3 DEF PostsInv, Posts
      <3>2. Exists(t)
        BY <2>3, <3>1 DEF MarksAreSound, Sound
      <3>3. book' = [book EXCEPT ![t].status = "completed"]
        <4>1. Written(s, t) = [txns[t] EXCEPT !.status = "completed", !.ref = sess[s].ref]
          BY <2>3 DEF Written, Restores
        <4>2. txns'[t].status = "completed" /\ txns'[t].lines = txns[t].lines
          BY <1>3, <1>a, <3>1, <4>1
        <4>3. \A u \in Txn \ {t} : txns'[u] = txns[u]
          BY <1>3, <3>1
        <4> QED  BY <4>2, <4>3
      <3>4. Book!Settle(t)
        BY <2>1, <3>2, <3>3 DEF Book!Settle, Exists
      <3> QED  BY <3>4 DEF Book!Next
    <2> QED  BY <1>6, <2>2, <2>3
  <1> QED  BY <1>0, <1>4, <1>5, <1>6 DEF SessionState, Ops, Restores, Unlocked

\* Every step of the concurrent handlers, with their half-done work, lock
\* waits, errors and crashes, is one whole entry in the books of the shop or
\* none: a sale of goods that are there, a void of everything a sale took, a
\* settlement.  The shelf must be guarded: by carts that name a product once or
\* by the CHECK of the schema.
THEOREM BooksTheorem ==
    /\ Adjustments = {} /\ Overwrites = {}
    /\ EachProductOnce \/ StockChecked
    => (Spec => KeepsTheBooks)
  <1> SUFFICES ASSUME Adjustments = {}, Overwrites = {}, EachProductOnce \/ StockChecked
               PROVE  Spec => KeepsTheBooks
    OBVIOUS
  <1>1. Init => NoUnlockedWork
    BY DEF Init, NoUnlockedWork, Idle, Unlocked
  <1>2. TypeOK /\ NoUnlockedWork /\ [Next]_vars => NoUnlockedWork'
    BY NoUnlockedStep
  <1>3. Spec => []NoOversell
    BY OversellTheorem, CheckedTheorem
  <1>4. Init => Book!Init
    BY DEF Init, Book!Init, Absent
  <1>5. ASSUME TypeOK, LockedIsCurrent, MarksAreSound, PostsInv, NoUnlockedWork,
               NoOversell', [Next]_vars
        PROVE  [Book!Next]_(Book!vars)
    <2>1. ASSUME NEW s \in Session, Commit(s)  PROVE [Book!Next]_(Book!vars)
      BY <1>5, <2>1, CommitIsEntry DEF NoUnlockedWork
    <2>2. CASE UNCHANGED <<stock, ledger>> /\ UNCHANGED <<txns, sold, restored>>
      BY <2>2 DEF Book!vars
    <2> QED  BY <1>5, <2>1, <2>2, OnlyCommitMoves, OnlyCommitWrites
  <1> QED
    BY <1>1, <1>2, <1>3, <1>4, <1>5, TypeCorrect, LockedCurrent, MarksSound, PostsCorrect,
       PTL DEF Spec, KeepsTheBooks, Book!Spec
=============================================================================
