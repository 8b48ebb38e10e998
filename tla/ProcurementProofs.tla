-------------------------- MODULE ProcurementProofs --------------------------
(***************************************************************************)
(* Theorems about Procurement, for any number of sessions, products,       *)
(* orders, notes, invoices and requests, and any deliveries.               *)
(***************************************************************************)
EXTENDS Procurement, FiniteSetTheorems, TLAPS

-----------------------------------------------------------------------------
(* Types *)

\* A session that is about to credit an item has a line that names one.
HasItem(s) ==
    sess[s].pc = "item" => /\ sess[s].lines # <<>>
                           /\ Head(sess[s].lines).item \in Item

TypeInv == TypeOK /\ \A s \in Session : HasItem(s)

LEMMA NoLines == <<>> \in Seq(GrnLine)
  BY SMT

LEMMA IdleType == Idle \in SessionState
  BY NoLines DEF Idle, SessionState, Ops, POStatus

LEMMA InitType == Init => TypeInv
  <1> SUFFICES ASSUME Init PROVE TypeInv
    OBVIOUS
  <1>1. NoRow \in [status : GRNStatus, order : Order \cup {NoOrder},
                   lines : Seq(GrnLine)]
    BY NoLines DEF NoRow, GRNStatus
  <1>2. qty \in [Counter -> Int]
    BY OpeningAssumption DEF Init, Counter
  <1>3. TypeOK
    BY <1>1, <1>2, IdleType, OpeningAssumption
    DEF Init, TypeOK, POStatus, NoMatch, InvoiceMatchStatus
  <1>4. \A s \in Session : HasItem(s)
    BY DEF Init, Idle, HasItem
  <1> QED  BY <1>3, <1>4 DEF TypeInv

LEMMA ReleaseType ==
    ASSUME TypeInv, NEW s \in Session, Release(s)
    PROVE  /\ sess' \in [Session -> SessionState]
           /\ lock' \in [Row -> Session \cup {Free}]
           /\ (\A q \in Session : HasItem(q))'
  <1>1. sess' \in [Session -> SessionState] /\ lock' \in [Row -> Session \cup {Free}]
    BY IdleType DEF Release, TypeInv, TypeOK
  <1>2. ASSUME NEW q \in Session  PROVE HasItem(q)'
    <2>1. CASE q = s
      BY <2>1 DEF Release, Idle, HasItem, TypeInv, TypeOK
    <2>2. CASE q # s
      BY <2>2 DEF Release, HasItem, TypeInv, TypeOK
    <2> QED  BY <2>1, <2>2
  <1> QED  BY <1>1, <1>2

LEMMA RollbackType ==
    ASSUME TypeInv, NEW s \in Session, Rollback(s)
    PROVE  TypeInv'
  <1>1. /\ sess' \in [Session -> SessionState]
        /\ lock' \in [Row -> Session \cup {Free}]
        /\ (\A q \in Session : HasItem(q))'
    BY ReleaseType DEF Rollback
  <1> QED  BY <1>1 DEF Rollback, TypeInv, TypeOK, tables

LEMMA LockType ==
    ASSUME TypeInv, NEW s \in Session, NEW r, Lock(s, r)
    PROVE  lock' \in [Row -> Session \cup {Free}]
  BY DEF Lock, TypeInv, TypeOK

\* One session moves to state w, well typed and not about to credit nothing.
LEMMA StepType ==
    ASSUME TypeInv, NEW s \in Session, NEW w \in SessionState,
           w.pc = "item" => w.lines # <<>> /\ Head(w.lines).item \in Item,
           sess' = [sess EXCEPT ![s] = w]
    PROVE  /\ sess' \in [Session -> SessionState]
           /\ (\A q \in Session : HasItem(q))'
  <1>1. sess' \in [Session -> SessionState]
    BY DEF TypeInv, TypeOK
  <1>2. ASSUME NEW q \in Session  PROVE HasItem(q)'
    <2>1. CASE q = s
      BY <2>1 DEF HasItem, TypeInv, TypeOK
    <2>2. CASE q # s
      BY <2>2 DEF HasItem, TypeInv, TypeOK
    <2> QED  BY <2>1, <2>2
  <1> QED  BY <1>1, <1>2

LEMMA LineType ==
    ASSUME TypeInv, NEW s \in Session, sess[s].lines # <<>>
    PROVE  /\ Head(sess[s].lines) \in GrnLine
           /\ Tail(sess[s].lines) \in Seq(GrnLine)
           /\ Head(sess[s].lines).product \in Product
           /\ Head(sess[s].lines).got \in Int
           /\ Accepted(Head(sess[s].lines)) \in Int
  <1>1. sess[s].lines \in Seq(GrnLine)
    BY DEF TypeInv, TypeOK, SessionState
  <1>2. Head(sess[s].lines) \in GrnLine /\ Tail(sess[s].lines) \in Seq(GrnLine)
    BY <1>1
  <1> QED  BY <1>2 DEF GrnLine, Accepted

LEMMA InHandType ==
    ASSUME TypeInv, NEW s \in Session, NEW c \in Counter
    PROVE  InHand(s, c) \in Int
  BY DEF InHand, TypeInv, TypeOK, SessionState

LEMMA AddType ==
    ASSUME TypeInv, NEW s \in Session, NEW c \in Counter, NEW n \in Int,
           NEW pc \in {"shelf", "item"}, NEW lines \in Seq(GrnLine),
           pc = "item" => lines # <<>> /\ Head(lines).item \in Item,
           Add(s, c, n, pc, lines)
    PROVE  /\ sess' \in [Session -> SessionState]
           /\ (\A q \in Session : HasItem(q))'
  <1> DEFINE v == sess[s]
             w == [v EXCEPT !.mem = [v.mem EXCEPT ![c] = InHand(s, c) + n],
                            !.seen = v.seen \cup {c}, !.pc = pc, !.lines = lines]
  <1>1. v \in SessionState
    BY DEF TypeInv, TypeOK
  <1>2. InHand(s, c) + n \in Int
    BY InHandType
  <1>3. [v.mem EXCEPT ![c] = InHand(s, c) + n] \in [Counter -> Int]
    BY <1>1, <1>2 DEF SessionState
  <1>4. w \in SessionState /\ w.pc = pc /\ w.lines = lines
    BY <1>1, <1>3 DEF SessionState
  <1>5. sess' = [sess EXCEPT ![s] = w]
    BY DEF Add
  <1> HIDE DEF w
  <1> QED  BY <1>4, <1>5, StepType

LEMMA RecomputedType ==
    ASSUME TypeInv, NEW o \in Order, NEW r
    PROVE  Recomputed(o, r) \in POStatus
  BY DEF Recomputed, TypeInv, TypeOK, POStatus

\* A request that only starts a session.
LEMMA BeginType ==
    ASSUME TypeInv, NEW s \in Session, NEW w \in SessionState, w.pc # "item",
           Begin(s, w), UNCHANGED tables, lock' \in [Row -> Session \cup {Free}]
    PROVE  TypeInv'
  <1>1. sess' = [sess EXCEPT ![s] = w] /\ requests' \in Nat
    BY DEF Begin, Request, TypeInv, TypeOK
  <1>2. sess' \in [Session -> SessionState] /\ (\A q \in Session : HasItem(q))'
    BY <1>1, StepType
  <1> QED  BY <1>1, <1>2 DEF TypeInv, TypeOK, tables

LEMMA ArriveType ==
    ASSUME TypeInv, NEW s \in Session, Arrive(s)
    PROVE  TypeInv'
  <1> USE IdleType
  <1>0. lock \in [Row -> Session \cup {Free}]
    BY DEF TypeInv, TypeOK
  <1>1. ASSUME NEW o \in Order, NEW new \in SUBSET Unused, CreateOrder(s, o, new)
        PROVE  TypeInv'
    <2>1. new \subseteq Item
      BY DEF Unused
    <2>2. /\ orders' \in [Order -> POStatus]
          /\ itemOf' \in [Item -> Order \cup {NoOrder}]
          /\ spent' \in SUBSET Item /\ requests' \in Nat
      BY <1>1, <2>1 DEF CreateOrder, Request, TypeInv, TypeOK, POStatus
    <2> QED  BY <1>1, <2>2 DEF CreateOrder, TypeInv, TypeOK, HasItem
  <1>2. ASSUME NEW o \in Order, NEW new \in SUBSET Unused, BeginEdit(s, o, new)
        PROVE  TypeInv'
    <2> DEFINE w == [Idle EXCEPT !.pc = "commit", !.op = "edit", !.order = o,
                                 !.fresh = new, !.drop = ItemsOf(o)]
    <2>1. w \in SessionState /\ w.pc = "commit"
      BY DEF SessionState, Ops, Unused, ItemsOf, Idle
    <2>2. Begin(s, w) /\ UNCHANGED tables /\ UNCHANGED lock
      BY <1>2 DEF BeginEdit
    <2> HIDE DEF w
    <2> QED  BY <1>0, <2>1, <2>2, BeginType
  <1>3. ASSUME NEW o \in Order, BeginSubmit(s, o)  PROVE TypeInv'
    <2> DEFINE w == [Idle EXCEPT !.pc = "commit", !.op = "submit", !.order = o,
                                 !.verdict = "submitted"]
    <2>1. w \in SessionState /\ w.pc = "commit"
      BY DEF SessionState, Ops, POStatus, Idle
    <2>2. Begin(s, w) /\ UNCHANGED tables /\ UNCHANGED lock
      BY <1>3 DEF BeginSubmit
    <2> HIDE DEF w
    <2> QED  BY <1>0, <2>1, <2>2, BeginType
  <1>4. ASSUME NEW o \in Order, BeginApprove(s, o)  PROVE TypeInv'
    <2> DEFINE w == [Idle EXCEPT !.pc = "commit", !.op = "approve", !.order = o,
                                 !.verdict = "approved"]
    <2>1. w \in SessionState /\ w.pc = "commit"
      BY DEF SessionState, Ops, POStatus, Idle
    <2>2. Begin(s, w) /\ UNCHANGED tables /\ UNCHANGED lock
      BY <1>4 DEF BeginApprove
    <2> HIDE DEF w
    <2> QED  BY <1>0, <2>1, <2>2, BeginType
  <1>5. ASSUME NEW o \in Order, BeginCancel(s, o)  PROVE TypeInv'
    <2> DEFINE w == [Idle EXCEPT !.pc = "commit", !.op = "cancel", !.order = o,
                                 !.verdict = "cancelled"]
    <2>1. w \in SessionState /\ w.pc = "commit"
      BY DEF SessionState, Ops, POStatus, Idle
    <2>2. Begin(s, w) /\ UNCHANGED tables /\ UNCHANGED lock
      BY <1>5 DEF BeginCancel
    <2> HIDE DEF w
    <2> QED  BY <1>0, <2>1, <2>2, BeginType
  <1>6. ASSUME NEW g \in Note, NEW o \in Order \cup {NoOrder}, NEW d \in Deliveries,
               BeginReceive(s, g, o, d)
        PROVE  TypeInv'
    <2> DEFINE w == [Idle EXCEPT !.pc = "commit", !.op = "receive", !.order = o,
                                 !.note = g, !.lines = d]
    <2>1. w \in SessionState /\ w.pc = "commit"
      BY DeliveriesAssumption DEF SessionState, Ops, Idle
    <2>2. Begin(s, w) /\ UNCHANGED tables /\ UNCHANGED lock
      BY <1>6 DEF BeginReceive
    <2> HIDE DEF w
    <2> QED  BY <1>0, <2>1, <2>2, BeginType
  <1>7. ASSUME NEW g \in Note, BeginPost(s, g)  PROVE TypeInv'
    <2> DEFINE w == [Idle EXCEPT !.pc = "shelf", !.op = "post", !.note = g,
                                 !.order = notes[g].order, !.lines = notes[g].lines]
    <2>1. w \in SessionState /\ w.pc = "shelf"
      BY DEF SessionState, Ops, Idle, TypeInv, TypeOK
    <2>2. Begin(s, w) /\ UNCHANGED tables /\ lock' \in [Row -> Session \cup {Free}]
      BY <1>7, LockType DEF BeginPost
    <2> HIDE DEF w
    <2> QED  BY <2>1, <2>2, BeginType
  <1>8. ASSUME NEW g \in Note, BeginVoid(s, g)  PROVE TypeInv'
    <2> DEFINE w == [Idle EXCEPT !.pc = "commit", !.op = "void", !.note = g]
    <2>1. w \in SessionState /\ w.pc = "commit"
      BY DEF SessionState, Ops, Idle
    <2>2. Begin(s, w) /\ UNCHANGED tables /\ lock' \in [Row -> Session \cup {Free}]
      BY <1>8, LockType DEF BeginVoid
    <2> HIDE DEF w
    <2> QED  BY <2>1, <2>2, BeginType
  <1>9. ASSUME NEW v \in Invoice, NEW o \in Order \cup {NoOrder},
               NEW g \in Note \cup {NoNote}, MatchInvoice(s, v, o, g)
        PROVE  TypeInv'
    <2>1. matches' \in [Invoice -> [status : InvoiceMatchStatus,
                           order : Order \cup {NoOrder}, note : Note \cup {NoNote}]]
      BY <1>9 DEF MatchInvoice, TypeInv, TypeOK, InvoiceMatchStatus
    <2> QED  BY <1>9, <2>1 DEF MatchInvoice, Request, TypeInv, TypeOK, HasItem
  <1>10. ASSUME NEW v \in Invoice, ResolveInvoice(s, v)  PROVE TypeInv'
    <2>1. matches' \in [Invoice -> [status : InvoiceMatchStatus,
                           order : Order \cup {NoOrder}, note : Note \cup {NoNote}]]
      <3>1. PICK to \in {"matched", "disputed"} :
                matches' = [matches EXCEPT ![v] = [matches[v] EXCEPT !.status = to]]
        BY <1>10 DEF ResolveInvoice
      <3>2. to \in InvoiceMatchStatus
        BY DEF InvoiceMatchStatus
      <3>3. matches[v] \in [status : InvoiceMatchStatus,
                           order : Order \cup {NoOrder}, note : Note \cup {NoNote}]
        BY DEF TypeInv, TypeOK
      <3>4. [matches[v] EXCEPT !.status = to] \in [status : InvoiceMatchStatus,
                           order : Order \cup {NoOrder}, note : Note \cup {NoNote}]
        BY <3>2, <3>3
      <3> QED  BY <3>1, <3>4 DEF TypeInv, TypeOK
    <2> QED  BY <1>10, <2>1 DEF ResolveInvoice, Request, TypeInv, TypeOK, HasItem
  <1> QED  BY <1>1, <1>2, <1>3, <1>4, <1>5, <1>6, <1>7, <1>8, <1>9, <1>10 DEF Arrive

LEMMA UnlinkType ==
    ASSUME TypeInv, NEW g \in Note, NEW gone \in SUBSET Item
    PROVE  [n \in DOMAIN notes[g].lines |-> Unlink(notes[g].lines[n], gone)]
               \in Seq(GrnLine)
  <1>1. notes[g].lines \in Seq(GrnLine)
    BY DEF TypeInv, TypeOK
  <1>2. ASSUME NEW n \in DOMAIN notes[g].lines
        PROVE  Unlink(notes[g].lines[n], gone) \in GrnLine
    <2>1. notes[g].lines[n] \in GrnLine
      BY <1>1
    <2> QED  BY <2>1 DEF Unlink, GrnLine
  <1>3. DOMAIN notes[g].lines = 1..Len(notes[g].lines) /\ Len(notes[g].lines) \in Nat
    BY <1>1
  <1> QED  BY <1>2, <1>3

\* A note that only changes its status is still a note.
LEMMA StatusType ==
    ASSUME TypeInv, NEW g, NEW status \in GRNStatus,
           notes' = [notes EXCEPT ![g].status = status]
    PROVE  notes' \in [Note -> [status : GRNStatus, order : Order \cup {NoOrder},
                                lines : Seq(GrnLine)]]
  <1> DEFINE R == [status : GRNStatus, order : Order \cup {NoOrder},
                   lines : Seq(GrnLine)]
             w == [notes[g] EXCEPT !.status = status]
  <1>1. notes \in [Note -> R]
    BY DEF TypeInv, TypeOK
  <1>2. notes' = [notes EXCEPT ![g] = w]
    OBVIOUS
  <1>3. CASE g \in Note
    <2>1. w \in R
      BY <1>1, <1>3
    <2> HIDE DEF w, R
    <2> QED  BY <1>1, <1>2, <1>3, <2>1 DEF R
  <1>4. CASE g \notin Note
    <2> HIDE DEF w, R
    <2> QED  BY <1>1, <1>2, <1>4 DEF R
  <1> QED  BY <1>3, <1>4

LEMMA ProceedType ==
    ASSUME TypeInv, NEW s \in Session, Proceed(s)
    PROVE  TypeInv'
  <1> DEFINE v == sess[s]
  <1>0. v \in SessionState
    BY DEF TypeInv, TypeOK
  <1>1. ASSUME ShelveLine(s)  PROVE TypeInv'
    <2> DEFINE l == Head(v.lines)
    <2>1. /\ l \in GrnLine /\ Tail(v.lines) \in Seq(GrnLine)
          /\ l.product \in Counter /\ Accepted(l) \in Int
          /\ v.lines \in Seq(GrnLine) /\ v.lines # <<>>
      BY <1>0, <1>1, LineType DEF ShelveLine, Counter, SessionState
    <2>2. lock' \in [Row -> Session \cup {Free}]
      BY <1>1, LockType DEF ShelveLine
    <2>3. sess' \in [Session -> SessionState] /\ (\A q \in Session : HasItem(q))'
      <3>1. CASE l.item = NoItem
        <4>1. Add(s, l.product, Accepted(l), "shelf", Tail(v.lines))
          BY <1>1, <3>1 DEF ShelveLine
        <4> QED  BY <2>1, <4>1, AddType
      <3>2. CASE l.item # NoItem
        <4>1. Add(s, l.product, Accepted(l), "item", v.lines)
          BY <1>1, <3>2 DEF ShelveLine
        <4>2. l.item \in Item
          BY <2>1, <3>2 DEF GrnLine
        <4> QED  BY <2>1, <4>1, <4>2, AddType
      <3> QED  BY <3>1, <3>2
    <2> QED  BY <1>1, <2>2, <2>3 DEF ShelveLine, TypeInv, TypeOK, tables
  <1>2. ASSUME CreditItem(s)  PROVE TypeInv'
    <2> DEFINE l == Head(v.lines)
    <2>1. v.lines # <<>> /\ l.item \in Counter
      BY <1>2 DEF CreditItem, TypeInv, HasItem, Counter
    <2>2. l.got \in Int /\ Tail(v.lines) \in Seq(GrnLine)
      BY <2>1, LineType
    <2>3. lock' \in [Row -> Session \cup {Free}]
      BY <1>2, LockType DEF CreditItem
    <2>4. Add(s, l.item, l.got, "shelf", Tail(v.lines))
      BY <1>2 DEF CreditItem
    <2>5. sess' \in [Session -> SessionState] /\ (\A q \in Session : HasItem(q))'
      BY <2>1, <2>2, <2>4, AddType
    <2> QED  BY <1>2, <2>3, <2>5 DEF CreditItem, TypeInv, TypeOK, tables
  <1>3. ASSUME ItemGone(s)  PROVE TypeInv'
    <2> DEFINE w == [v EXCEPT !.pc = "shelf", !.lines = Tail(v.lines)]
    <2>1. v.lines # <<>>
      BY <1>3 DEF ItemGone, TypeInv, HasItem
    <2>2. w \in SessionState /\ w.pc = "shelf"
      BY <1>0, <2>1, LineType DEF SessionState
    <2>3. sess' = [sess EXCEPT ![s] = w]
      BY <1>3 DEF ItemGone
    <2> HIDE DEF w
    <2>4. sess' \in [Session -> SessionState] /\ (\A q \in Session : HasItem(q))'
      BY <2>2, <2>3, StepType
    <2> QED  BY <1>3, <2>4 DEF ItemGone, TypeInv, TypeOK, tables
  <1>4. ASSUME SettleOrder(s)  PROVE TypeInv'
    <2> DEFINE to == Recomputed(v.order, [i \in Item |-> InHand(s, i)])
               w == [v EXCEPT !.pc = "commit", !.verdict = to]
    <2>1. v.order \in Order
      BY <1>0, <1>4 DEF SettleOrder, SessionState
    <2>2. to \in POStatus
      BY <2>1, RecomputedType
    <2>3. sess' = [sess EXCEPT ![s] = w]
      BY <1>4 DEF SettleOrder
    <2>4. lock' \in [Row -> Session \cup {Free}]
      BY <1>4, LockType DEF SettleOrder
    <2> HIDE DEF to
    <2>5. w \in SessionState /\ w.pc = "commit"
      BY <1>0, <2>2 DEF SessionState
    <2> HIDE DEF w
    <2>6. sess' \in [Session -> SessionState] /\ (\A q \in Session : HasItem(q))'
      BY <2>3, <2>5, StepType
    <2> QED  BY <1>4, <2>4, <2>6 DEF SettleOrder, TypeInv, TypeOK, tables
  <1>5. ASSUME NothingToSettle(s)  PROVE TypeInv'
    <2> DEFINE w == [v EXCEPT !.pc = "commit"]
    <2>1. w \in SessionState /\ w.pc = "commit"
      BY <1>0 DEF SessionState
    <2>2. sess' = [sess EXCEPT ![s] = w]
      BY <1>5 DEF NothingToSettle
    <2> HIDE DEF w
    <2>3. sess' \in [Session -> SessionState] /\ (\A q \in Session : HasItem(q))'
      BY <2>1, <2>2, StepType
    <2> QED  BY <1>5, <2>3 DEF NothingToSettle, TypeInv, TypeOK, tables
  <1>6. ASSUME CommitStatus(s)  PROVE TypeInv'
    <2>1. orders' \in [Order -> POStatus]
      BY <1>0, <1>6 DEF CommitStatus, TypeInv, TypeOK, SessionState
    <2> QED  BY <1>6, <2>1, ReleaseType DEF CommitStatus, TypeInv, TypeOK
  <1>7. ASSUME CommitEdit(s)  PROVE TypeInv'
    <2>1. v.order \in Order \cup {NoOrder} /\ v.fresh \subseteq Item /\ v.drop \in SUBSET Item
      BY <1>0 DEF SessionState
    <2>2. itemOf' \in [Item -> Order \cup {NoOrder}] /\ spent' \in SUBSET Item
      BY <1>7, <2>1 DEF CommitEdit, TypeInv, TypeOK
    <2>3. notes' \in [Note -> [status : GRNStatus, order : Order \cup {NoOrder},
                               lines : Seq(GrnLine)]]
      <3> DEFINE f(g) == [n \in DOMAIN notes[g].lines |->
                             Unlink(notes[g].lines[n], v.drop)]
      <3>1. \A g \in Note : f(g) \in Seq(GrnLine)
        BY <2>1, UnlinkType
      <3>2. notes' = [g \in Note |-> [notes[g] EXCEPT !.lines = f(g)]]
        BY <1>7 DEF CommitEdit
      <3> HIDE DEF f
      <3> QED  BY <3>1, <3>2 DEF TypeInv, TypeOK
    <2> QED  BY <1>7, <2>2, <2>3, ReleaseType DEF CommitEdit, TypeInv, TypeOK
  <1>8. ASSUME CommitReceive(s)  PROVE TypeInv'
    <2>1. [status |-> "draft", order |-> v.order, lines |-> v.lines]
             \in [status : GRNStatus, order : Order \cup {NoOrder}, lines : Seq(GrnLine)]
      BY <1>0 DEF SessionState, GRNStatus
    <2>2. notes' \in [Note -> [status : GRNStatus, order : Order \cup {NoOrder},
                               lines : Seq(GrnLine)]]
      BY <1>8, <2>1 DEF CommitReceive, TypeInv, TypeOK
    <2> QED  BY <1>8, <2>2, ReleaseType DEF CommitReceive, TypeInv, TypeOK
  <1>9. ASSUME CommitPost(s)  PROVE TypeInv'
    <2>1. qty' \in [Counter -> Int]
      BY <1>9, InHandType DEF CommitPost
    <2>2. orders' \in [Order -> POStatus]
      BY <1>0, <1>9 DEF CommitPost, TypeInv, TypeOK, SessionState
    <2>3. notes' \in [Note -> [status : GRNStatus, order : Order \cup {NoOrder},
                               lines : Seq(GrnLine)]]
      BY <1>9, StatusType DEF CommitPost, GRNStatus, TypeInv, TypeOK
    <2>4. posted' \in [Note -> Nat]
      <3>1. posted' = [posted EXCEPT ![v.note] = posted[v.note] + 1]
        BY <1>9 DEF CommitPost
      <3>2. CASE v.note \in Note
        BY <3>1, <3>2 DEF TypeInv, TypeOK
      <3>3. CASE v.note \notin Note
        BY <3>1, <3>3 DEF TypeInv, TypeOK
      <3> QED  BY <3>2, <3>3
    <2> QED  BY <1>9, <2>1, <2>2, <2>3, <2>4, ReleaseType DEF CommitPost, TypeInv, TypeOK
  <1>10. ASSUME CommitVoid(s)  PROVE TypeInv'
    <2>1. notes' \in [Note -> [status : GRNStatus, order : Order \cup {NoOrder},
                               lines : Seq(GrnLine)]]
      BY <1>10, StatusType DEF CommitVoid, GRNStatus, TypeInv, TypeOK
    <2> QED  BY <1>10, <2>1, ReleaseType DEF CommitVoid, TypeInv, TypeOK
  <1>11. ASSUME RefuseReceive(s) \/ RefusePost(s) \/ LockTimeout(s)  PROVE TypeInv'
    BY <1>11, RollbackType DEF RefuseReceive, RefusePost, LockTimeout
  <1> QED  BY <1>1, <1>2, <1>3, <1>4, <1>5, <1>6, <1>7, <1>8, <1>9, <1>10, <1>11
              DEF Proceed

LEMMA NextType == TypeInv /\ [Next]_vars => TypeInv'
  <1> SUFFICES ASSUME TypeInv, [Next]_vars PROVE TypeInv'
    OBVIOUS
  <1>1. ASSUME NEW s \in Session, Arrive(s)  PROVE TypeInv'
    BY <1>1, ArriveType
  <1>2. ASSUME NEW s \in Session, Proceed(s)  PROVE TypeInv'
    BY <1>2, ProceedType
  <1>3. ASSUME NEW s \in Session, Crash(s)  PROVE TypeInv'
    BY <1>3, RollbackType DEF Crash
  <1>4. ASSUME UNCHANGED vars  PROVE TypeInv'
    BY <1>4 DEF vars, TypeInv, TypeOK, HasItem
  <1> QED  BY <1>1, <1>2, <1>3, <1>4 DEF Next, Closed

\* Every reachable state is well typed: tables, locks, sessions.
THEOREM TypeCorrect == Spec => []TypeOK
  <1>1. TypeInv => TypeOK
    BY DEF TypeInv
  <1> QED  BY InitType, NextType, <1>1, PTL DEF Spec

-----------------------------------------------------------------------------
(* A note belongs to the session that posts or cancels it *)

\* A session that posts or cancels a note holds its lock, and the note is the
\* draft it saw; one that records a note is the only one to do so.
Holds(s) ==
    /\ sess[s].pc = "idle" => sess[s].op = "none"
    /\ sess[s].pc \in {"shelf", "item"} => sess[s].op = "post"
    /\ sess[s].op \in {"post", "void"} =>
          /\ sess[s].note \in Note
          /\ lock[sess[s].note] = s
          /\ notes[sess[s].note].status = "draft"
    /\ sess[s].op = "receive" =>
          /\ sess[s].note \in Note
          /\ notes[sess[s].note].status = "absent"
          /\ \A q \in Session : sess[q].op = "receive" /\ sess[q].note = sess[s].note
                                => q = s

NotesHeld == \A s \in Session : Holds(s)

Inv == TypeInv /\ NotesHeld /\ LocksAreOwned

\* A session that holds a row is posting or cancelling: an idle one holds none.
LEMMA IdleHoldsNone ==
    ASSUME Inv, NEW s \in Session, sess[s].pc = "idle", NEW r \in Row
    PROVE  lock[r] # s
  BY FreeAssumption DEF Inv, NotesHeld, Holds, LocksAreOwned

LEMMA BeginHolds ==
    ASSUME Inv, NEW s \in Session, NEW w,
           sess[s].pc = "idle", sess' = [sess EXCEPT ![s] = w],
           UNCHANGED notes, w.pc # "idle",
           w.pc \in {"shelf", "item"} => w.op = "post",
           \/ w.op \notin {"post", "void"} /\ UNCHANGED lock
           \/ /\ w.op \in {"post", "void"} /\ w.note \in Note
              /\ notes[w.note].status = "draft" /\ Lock(s, w.note),
           w.op = "receive" =>
              /\ w.note \in Note /\ notes[w.note].status = "absent"
              /\ \A q \in Session : sess[q].op = "receive" => sess[q].note # w.note
    PROVE  NotesHeld' /\ LocksAreOwned'
  <1>0. /\ sess \in [Session -> SessionState] /\ lock \in [Row -> Session \cup {Free}]
        /\ Note \subseteq Row
    BY DEF Inv, TypeInv, TypeOK, Row
  <1>1. sess'[s] = w /\ \A q \in Session \ {s} : sess'[q] = sess[q]
    BY <1>0
  <1>2. \A r \in Row : lock'[r] = lock[r] \/ (w.op \in {"post", "void"} /\ r = w.note
                                              /\ lock[r] \in {Free, s} /\ lock'[r] = s)
    BY <1>0 DEF Lock, LockFree
  <1>3. w.op \in {"post", "void"} => lock'[w.note] = s
    BY <1>0 DEF Lock
  <1>4. ASSUME NEW q \in Session  PROVE Holds(q)'
    <2>1. CASE q = s
      BY <1>1, <1>3, <2>1 DEF Holds
    <2>2. CASE q # s
      <3>1. sess[q].op \in {"post", "void"} => lock'[sess[q].note] = q
        BY <1>0, <1>2, <2>2, FreeAssumption DEF Inv, NotesHeld, Holds
      <3> QED  BY <1>1, <2>2, <3>1 DEF Inv, NotesHeld, Holds
    <2> QED  BY <2>1, <2>2
  <1>5. LocksAreOwned'
    <2> SUFFICES ASSUME NEW r \in Row, lock'[r] # Free
                 PROVE  /\ sess'[lock'[r]].op \in {"post", "void"}
                        /\ r \in sess'[lock'[r]].seen
                                  \cup {sess'[lock'[r]].note, sess'[lock'[r]].order}
      BY DEF LocksAreOwned
    <2>1. CASE lock'[r] = lock[r]
      BY <1>0, <1>1, <2>1, IdleHoldsNone DEF Inv, LocksAreOwned
    <2>2. CASE lock'[r] # lock[r]
      BY <1>1, <1>2, <2>2
    <2> QED  BY <2>1, <2>2
  <1> QED  BY <1>4, <1>5 DEF NotesHeld

\* A step of a posting under way, which may lock the row it loads.
LEMMA InnerHolds ==
    ASSUME Inv, NEW s \in Session, NEW w,
           sess' = [sess EXCEPT ![s] = w], UNCHANGED notes,
           sess[s].op = "post", w.op = "post", w.pc # "idle",
           w.note = sess[s].note, w.order = sess[s].order,
           sess[s].seen \subseteq w.seen,
           \/ UNCHANGED lock
           \/ \E r \in w.seen \cup {w.order} : Lock(s, r)
    PROVE  NotesHeld' /\ LocksAreOwned'
  <1>0. /\ sess \in [Session -> SessionState] /\ lock \in [Row -> Session \cup {Free}]
        /\ Note \subseteq Row
    BY DEF Inv, TypeInv, TypeOK, Row
  <1>1. sess'[s] = w /\ \A q \in Session \ {s} : sess'[q] = sess[q]
    BY <1>0
  <1>2. \A r \in Row : lock'[r] = lock[r] \/ (r \in w.seen \cup {w.order}
                                              /\ lock[r] \in {Free, s} /\ lock'[r] = s)
    BY <1>0 DEF Lock, LockFree
  <1>3. \A r \in Row : lock[r] = s => lock'[r] = s
    BY <1>2
  <1>4. ASSUME NEW q \in Session  PROVE Holds(q)'
    <2>1. CASE q = s
      BY <1>0, <1>1, <1>3, <2>1 DEF Inv, NotesHeld, Holds
    <2>2. CASE q # s
      <3>1. sess[q].op \in {"post", "void"} => lock'[sess[q].note] = q
        BY <1>0, <1>2, <2>2, FreeAssumption DEF Inv, NotesHeld, Holds
      <3> QED  BY <1>1, <2>2, <3>1 DEF Inv, NotesHeld, Holds
    <2> QED  BY <2>1, <2>2
  <1>5. LocksAreOwned'
    <2> SUFFICES ASSUME NEW r \in Row, lock'[r] # Free
                 PROVE  /\ sess'[lock'[r]].op \in {"post", "void"}
                        /\ r \in sess'[lock'[r]].seen
                                  \cup {sess'[lock'[r]].note, sess'[lock'[r]].order}
      BY DEF LocksAreOwned
    <2>1. CASE lock'[r] = lock[r] /\ lock[r] = s
      BY <1>1, <2>1 DEF Inv, LocksAreOwned
    <2>2. CASE lock'[r] = lock[r] /\ lock[r] # s
      BY <1>0, <1>1, <2>2 DEF Inv, LocksAreOwned
    <2>3. CASE lock'[r] # lock[r]
      BY <1>1, <1>2, <2>3
    <2> QED  BY <2>1, <2>2, <2>3
  <1> QED  BY <1>4, <1>5 DEF NotesHeld

\* A session that ends changes the status of its own note at most.
LEMMA EndHolds ==
    ASSUME Inv, NEW s \in Session, Release(s),
           \A g \in Note : notes'[g].status # notes[g].status =>
               g = sess[s].note /\ sess[s].op \in {"post", "void", "receive"}
    PROVE  NotesHeld' /\ LocksAreOwned'
  <1>0. /\ sess \in [Session -> SessionState] /\ lock \in [Row -> Session \cup {Free}]
        /\ Note \subseteq Row
    BY DEF Inv, TypeInv, TypeOK, Row
  <1>1. sess'[s] = Idle /\ \A q \in Session \ {s} : sess'[q] = sess[q]
    BY <1>0 DEF Release
  <1>2. \A r \in Row : lock'[r] = IF lock[r] = s THEN Free ELSE lock[r]
    BY DEF Release
  <1>3. ASSUME NEW q \in Session  PROVE Holds(q)'
    <2>1. CASE q = s
      BY <1>1, <2>1 DEF Holds, Idle
    <2>2. CASE q # s
      <3>1. sess[q].op \in {"post", "void"} => lock'[sess[q].note] = q
        BY <1>0, <1>2, <2>2 DEF Inv, NotesHeld, Holds
      <3>2. sess[q].op \in {"post", "void", "receive"} =>
                notes'[sess[q].note].status = notes[sess[q].note].status
        BY <2>2 DEF Inv, NotesHeld, Holds
      <3>3. \A t \in Session : sess'[t].op = "receive" => t # s /\ sess[t] = sess'[t]
        BY <1>1 DEF Idle
      <3> QED  BY <1>1, <2>2, <3>1, <3>2, <3>3 DEF Inv, NotesHeld, Holds
    <2> QED  BY <2>1, <2>2
  <1>4. LocksAreOwned'
    <2> SUFFICES ASSUME NEW r \in Row, lock'[r] # Free
                 PROVE  /\ sess'[lock'[r]].op \in {"post", "void"}
                        /\ r \in sess'[lock'[r]].seen
                                  \cup {sess'[lock'[r]].note, sess'[lock'[r]].order}
      BY DEF LocksAreOwned
    <2>1. lock'[r] = lock[r] /\ lock[r] # s
      BY <1>2
    <2> QED  BY <1>0, <1>1, <2>1 DEF Inv, LocksAreOwned
  <1> QED  BY <1>3, <1>4 DEF NotesHeld

LEMMA ArriveHolds ==
    ASSUME Inv, NEW s \in Session, Arrive(s)
    PROVE  NotesHeld' /\ LocksAreOwned'
  <1>1. ASSUME UNCHANGED <<notes, lock, sess>>  PROVE NotesHeld' /\ LocksAreOwned'
    BY <1>1 DEF Inv, NotesHeld, Holds, LocksAreOwned
  <1>2. ASSUME NEW o \in Order, NEW new \in SUBSET Unused,
               CreateOrder(s, o, new) \/ BeginEdit(s, o, new)
        PROVE  NotesHeld' /\ LocksAreOwned'
    <2>1. CASE CreateOrder(s, o, new)
      BY <1>1, <2>1 DEF CreateOrder
    <2>2. CASE BeginEdit(s, o, new)
      <3> DEFINE w == [Idle EXCEPT !.pc = "commit", !.op = "edit", !.order = o,
                                   !.fresh = new, !.drop = ItemsOf(o)]
      <3>1. w.pc = "commit" /\ w.op = "edit"
        BY DEF Idle
      <3>2. /\ sess[s].pc = "idle" /\ sess' = [sess EXCEPT ![s] = w]
            /\ UNCHANGED notes /\ UNCHANGED lock
        BY <2>2 DEF BeginEdit, Begin, tables
      <3> HIDE DEF w
      <3> QED  BY <3>1, <3>2, BeginHolds
    <2> QED  BY <1>2, <2>1, <2>2
  <1>3. ASSUME NEW o \in Order, BeginSubmit(s, o) \/ BeginApprove(s, o) \/ BeginCancel(s, o)
        PROVE  NotesHeld' /\ LocksAreOwned'
    <2> DEFINE W(op, to) == [Idle EXCEPT !.pc = "commit", !.op = op, !.order = o,
                                         !.verdict = to]
    <2>1. PICK op \in {"submit", "approve", "cancel"}, to \in POStatus :
              Begin(s, W(op, to)) /\ UNCHANGED <<tables, lock>>
      BY <1>3 DEF BeginSubmit, BeginApprove, BeginCancel, POStatus
    <2>2. W(op, to).pc = "commit" /\ W(op, to).op = op
      BY DEF Idle
    <2>3. /\ sess[s].pc = "idle" /\ sess' = [sess EXCEPT ![s] = W(op, to)]
          /\ UNCHANGED notes /\ UNCHANGED lock
      BY <2>1 DEF Begin, tables
    <2> HIDE DEF W
    <2> QED  BY <2>2, <2>3, BeginHolds
  <1>4. ASSUME NEW g \in Note, NEW o \in Order \cup {NoOrder}, NEW d \in Deliveries,
               BeginReceive(s, g, o, d)
        PROVE  NotesHeld' /\ LocksAreOwned'
    <2> DEFINE w == [Idle EXCEPT !.pc = "commit", !.op = "receive", !.order = o,
                                 !.note = g, !.lines = d]
    <2>1. w.pc = "commit" /\ w.op = "receive" /\ w.note = g
      BY DEF Idle
    <2>2. /\ sess[s].pc = "idle" /\ sess' = [sess EXCEPT ![s] = w]
          /\ UNCHANGED notes /\ UNCHANGED lock /\ notes[g].status = "absent"
          /\ \A q \in Session : sess[q].op = "receive" => sess[q].note # g
      BY <1>4 DEF BeginReceive, Begin, tables
    <2> HIDE DEF w
    <2> QED  BY <2>1, <2>2, BeginHolds
  <1>5. ASSUME NEW g \in Note, BeginPost(s, g) \/ BeginVoid(s, g)
        PROVE  NotesHeld' /\ LocksAreOwned'
    <2>1. PICK w : /\ Begin(s, w) /\ w.note = g
                   /\ \/ w.pc = "shelf" /\ w.op = "post"
                      \/ w.pc = "commit" /\ w.op = "void"
                   /\ Lock(s, g) /\ notes[g].status = "draft" /\ UNCHANGED tables
      <3>1. CASE BeginPost(s, g)
        <4> DEFINE u == [Idle EXCEPT !.pc = "shelf", !.op = "post", !.note = g,
                                     !.order = notes[g].order, !.lines = notes[g].lines]
        <4>1. u.note = g /\ u.pc = "shelf" /\ u.op = "post"
          BY DEF Idle
        <4>2. Begin(s, u) /\ Lock(s, g) /\ notes[g].status = "draft" /\ UNCHANGED tables
          BY <3>1 DEF BeginPost
        <4> HIDE DEF u
        <4> QED  BY <4>1, <4>2
      <3>2. CASE BeginVoid(s, g)
        <4> DEFINE u == [Idle EXCEPT !.pc = "commit", !.op = "void", !.note = g]
        <4>1. u.note = g /\ u.pc = "commit" /\ u.op = "void"
          BY DEF Idle
        <4>2. Begin(s, u) /\ Lock(s, g) /\ notes[g].status = "draft" /\ UNCHANGED tables
          BY <3>2 DEF BeginVoid
        <4> HIDE DEF u
        <4> QED  BY <4>1, <4>2
      <3> QED  BY <1>5, <3>1, <3>2
    <2>2. sess[s].pc = "idle" /\ sess' = [sess EXCEPT ![s] = w] /\ UNCHANGED notes
      BY <2>1 DEF Begin, tables
    <2> QED  BY <2>1, <2>2, BeginHolds
  <1>6. ASSUME NEW i \in Invoice, ResolveInvoice(s, i)
                 \/ \E o \in Order \cup {NoOrder}, g \in Note \cup {NoNote} :
                        MatchInvoice(s, i, o, g)
        PROVE  NotesHeld' /\ LocksAreOwned'
    BY <1>1, <1>6 DEF MatchInvoice, ResolveInvoice
  <1> QED  BY <1>2, <1>3, <1>4, <1>5, <1>6 DEF Arrive

LEMMA ProceedHolds ==
    ASSUME Inv, NEW s \in Session, Proceed(s)
    PROVE  NotesHeld' /\ LocksAreOwned'
  <1> DEFINE v == sess[s]
  <1>0. v \in SessionState /\ TypeInv
    BY DEF Inv, TypeInv, TypeOK
  <1>1. v.pc \in {"shelf", "item"} => v.op = "post"
    BY DEF Inv, NotesHeld, Holds
  <1>2. ASSUME NEW c, NEW n, NEW pc \in {"shelf", "item"}, NEW lines,
               v.pc \in {"shelf", "item"}, Lock(s, c), Add(s, c, n, pc, lines),
               UNCHANGED notes
        PROVE  NotesHeld' /\ LocksAreOwned'
    <2> DEFINE w == [v EXCEPT !.mem = [v.mem EXCEPT ![c] = InHand(s, c) + n],
                              !.seen = v.seen \cup {c}, !.pc = pc, !.lines = lines]
    <2>1. sess' = [sess EXCEPT ![s] = w]
      BY <1>2 DEF Add
    <2>2. /\ w.op = v.op /\ w.pc = pc /\ w.note = v.note /\ w.order = v.order
          /\ w.seen = v.seen \cup {c}
      BY <1>0 DEF SessionState
    <2>3. \E r \in w.seen \cup {w.order} : Lock(s, r)
      BY <1>2, <2>2
    <2> HIDE DEF w
    <2> QED  BY <1>1, <1>2, <2>1, <2>2, <2>3, InnerHolds
  <1>3. ASSUME ShelveLine(s) \/ CreditItem(s)  PROVE NotesHeld' /\ LocksAreOwned'
    <2>1. UNCHANGED notes /\ v.pc \in {"shelf", "item"}
      BY <1>3 DEF ShelveLine, CreditItem, tables
    <2>2. CASE ShelveLine(s)
      <3> DEFINE l == Head(v.lines)
      <3>1. Lock(s, l.product)
        BY <2>2 DEF ShelveLine
      <3>2. \/ Add(s, l.product, Accepted(l), "shelf", Tail(v.lines))
            \/ Add(s, l.product, Accepted(l), "item", v.lines)
        BY <2>2 DEF ShelveLine
      <3> QED  BY <1>2, <2>1, <3>1, <3>2
    <2>3. CASE CreditItem(s)
      <3> DEFINE l == Head(v.lines)
      <3>1. Lock(s, l.item) /\ Add(s, l.item, l.got, "shelf", Tail(v.lines))
        BY <2>3 DEF CreditItem
      <3> QED  BY <1>2, <2>1, <3>1
    <2> QED  BY <1>3, <2>2, <2>3
  <1>4. ASSUME ItemGone(s)  PROVE NotesHeld' /\ LocksAreOwned'
    <2> DEFINE w == [v EXCEPT !.pc = "shelf", !.lines = Tail(v.lines)]
    <2>1. sess' = [sess EXCEPT ![s] = w] /\ UNCHANGED notes /\ UNCHANGED lock
      BY <1>4 DEF ItemGone, tables
    <2>2. /\ w.op = v.op /\ w.pc = "shelf" /\ w.note = v.note /\ w.order = v.order
          /\ w.seen = v.seen /\ v.op = "post"
      BY <1>0, <1>1, <1>4 DEF SessionState, ItemGone
    <2> HIDE DEF w
    <2> QED  BY <2>1, <2>2, InnerHolds
  <1>5. ASSUME SettleOrder(s)  PROVE NotesHeld' /\ LocksAreOwned'
    <2> DEFINE to == Recomputed(v.order, [i \in Item |-> InHand(s, i)])
               w == [v EXCEPT !.pc = "commit", !.verdict = to]
    <2>1. sess' = [sess EXCEPT ![s] = w] /\ UNCHANGED notes /\ Lock(s, v.order)
      BY <1>5 DEF SettleOrder, tables
    <2> HIDE DEF to
    <2>2. /\ w.op = v.op /\ w.pc = "commit" /\ w.note = v.note /\ w.order = v.order
          /\ w.seen = v.seen /\ v.op = "post"
      BY <1>0, <1>1, <1>5 DEF SessionState, SettleOrder
    <2>3. \E r \in w.seen \cup {w.order} : Lock(s, r)
      BY <2>1, <2>2
    <2> HIDE DEF w
    <2> QED  BY <2>1, <2>2, <2>3, InnerHolds
  <1>6. ASSUME NothingToSettle(s)  PROVE NotesHeld' /\ LocksAreOwned'
    <2> DEFINE w == [v EXCEPT !.pc = "commit"]
    <2>1. sess' = [sess EXCEPT ![s] = w] /\ UNCHANGED notes /\ UNCHANGED lock
      BY <1>6 DEF NothingToSettle, tables
    <2>2. /\ w.op = v.op /\ w.pc = "commit" /\ w.note = v.note /\ w.order = v.order
          /\ w.seen = v.seen /\ v.op = "post"
      BY <1>0, <1>1, <1>6 DEF SessionState, NothingToSettle
    <2> HIDE DEF w
    <2> QED  BY <2>1, <2>2, InnerHolds
  <1>7. ASSUME CommitStatus(s)  PROVE NotesHeld' /\ LocksAreOwned'
    BY <1>7, EndHolds DEF CommitStatus
  <1>8. ASSUME CommitEdit(s)  PROVE NotesHeld' /\ LocksAreOwned'
    <2>1. \A g \in Note : notes'[g].status = notes[g].status
      BY <1>0, <1>8 DEF CommitEdit, TypeInv, TypeOK
    <2> QED  BY <1>8, <2>1, EndHolds DEF CommitEdit
  <1>9. ASSUME CommitReceive(s) \/ CommitPost(s) \/ CommitVoid(s)
        PROVE  NotesHeld' /\ LocksAreOwned'
    <2>1. \A g \in Note : notes'[g].status # notes[g].status => g = v.note
      BY <1>0, <1>9 DEF CommitReceive, CommitPost, CommitVoid, TypeInv, TypeOK
    <2> QED  BY <1>9, <2>1, EndHolds DEF CommitReceive, CommitPost, CommitVoid
  <1>10. ASSUME Rollback(s)  PROVE NotesHeld' /\ LocksAreOwned'
    BY <1>10, EndHolds DEF Rollback, tables
  <1> QED  BY <1>3, <1>4, <1>5, <1>6, <1>7, <1>8, <1>9, <1>10
              DEF Proceed, RefuseReceive, RefusePost, LockTimeout

LEMMA NextHolds == Inv /\ [Next]_vars => Inv'
  <1> SUFFICES ASSUME Inv, [Next]_vars PROVE Inv'
    OBVIOUS
  <1>0. TypeInv'
    BY NextType DEF Inv
  <1>1. ASSUME NEW s \in Session, Crash(s)  PROVE NotesHeld' /\ LocksAreOwned'
    BY <1>1, EndHolds DEF Crash, Rollback, tables
  <1>2. ASSUME UNCHANGED vars  PROVE NotesHeld' /\ LocksAreOwned'
    BY <1>2 DEF vars, Inv, NotesHeld, Holds, LocksAreOwned
  <1>3. NotesHeld' /\ LocksAreOwned'
    BY <1>1, <1>2, ArriveHolds, ProceedHolds DEF Next, Closed
  <1> QED  BY <1>0, <1>3 DEF Inv

LEMMA InvCorrect == Spec => []Inv
  <1>1. Init => Inv
    <2> SUFFICES ASSUME Init PROVE Inv
      OBVIOUS
    <2>1. NotesHeld /\ LocksAreOwned
      BY DEF Init, Idle, NotesHeld, Holds, LocksAreOwned
    <2> QED  BY <2>1, InitType DEF Inv
  <1> QED  BY <1>1, NextHolds, PTL DEF Spec

\* No path of a posting or a cancellation leaves a row locked: every lock has a
\* session at work on that row.
THEOREM LocksTheorem == Spec => []LocksAreOwned
  <1>1. Inv => LocksAreOwned
    BY DEF Inv
  <1> QED  BY InvCorrect, <1>1, PTL

-----------------------------------------------------------------------------
(* A note is posted once *)

Books == NotePostsOnce /\ MatchedGoodsCame

\* Statuses, postings and matches stay, whatever else moves.
LEMMA BooksFrame ==
    ASSUME TypeInv, Books, UNCHANGED <<posted, matches>>,
           \A g \in Note : notes'[g].status = notes[g].status
    PROVE  Books'
  <1>1. \A i \in Invoice : matches[i].note # NoNote => matches[i].note \in Note
    BY DEF TypeInv, TypeOK
  <1> QED  BY <1>1 DEF Books, NotePostsOnce, MatchedGoodsCame

LEMMA QuietBooks ==
    ASSUME TypeInv, Books, UNCHANGED <<notes, posted, matches>>
    PROVE  Books'
  BY BooksFrame

\* Only the note a session records, posts or cancels gets a new status.
LEMMA CommitBooks ==
    ASSUME Inv, Books, NEW s \in Session,
           CommitReceive(s) \/ CommitPost(s) \/ CommitVoid(s)
    PROVE  Books'
  <1> DEFINE n == sess[s].note
  <1>0. /\ n \in Note
        /\ notes[n].status = IF sess[s].op = "receive" THEN "absent" ELSE "draft"
    BY DEF Inv, NotesHeld, Holds, CommitReceive, CommitPost, CommitVoid
  <1>1. notes \in [Note -> [status : GRNStatus, order : Order \cup {NoOrder},
                            lines : Seq(GrnLine)]] /\ posted \in [Note -> Nat]
    BY DEF Inv, TypeInv, TypeOK
  <1>2. posted[n] = 0
    BY <1>0 DEF Books, NotePostsOnce
  <1>3. /\ \A g \in Note \ {n} : notes'[g] = notes[g] /\ posted'[g] = posted[g]
        /\ UNCHANGED matches
    BY <1>0, <1>1 DEF CommitReceive, CommitPost, CommitVoid
  <1>4. posted'[n] = IF notes'[n].status = "posted" THEN 1 ELSE 0
    <2>1. CASE CommitReceive(s)
      BY <1>0, <1>1, <1>2, <2>1 DEF CommitReceive
    <2>2. CASE CommitPost(s)
      BY <1>0, <1>1, <1>2, <2>2 DEF CommitPost
    <2>3. CASE CommitVoid(s)
      BY <1>0, <1>1, <1>2, <2>3 DEF CommitVoid
    <2> QED  BY <2>1, <2>2, <2>3
  <1>5. NotePostsOnce'
    BY <1>3, <1>4 DEF Books, NotePostsOnce
  <1>6. ASSUME NEW i \in Invoice, matches[i].note # NoNote
        PROVE  matches[i].note \in Note \ {n}
    BY <1>0, <1>6 DEF Books, MatchedGoodsCame, Inv, TypeInv, TypeOK
  <1>7. MatchedGoodsCame'
    BY <1>3, <1>6 DEF Books, MatchedGoodsCame
  <1> QED  BY <1>5, <1>7 DEF Books

LEMMA InvoiceBooks ==
    ASSUME Inv, Books, NEW s \in Session, NEW i \in Invoice,
           \/ ResolveInvoice(s, i)
           \/ \E o \in Order \cup {NoOrder}, g \in Note \cup {NoNote} :
                  MatchInvoice(s, i, o, g)
    PROVE  Books'
  <1>0. matches \in [Invoice -> [status : InvoiceMatchStatus,
                                 order : Order \cup {NoOrder}, note : Note \cup {NoNote}]]
    BY DEF Inv, TypeInv, TypeOK
  <1>1. CASE ResolveInvoice(s, i)
    <2>1. \A j \in Invoice : matches'[j].note = matches[j].note
      BY <1>0, <1>1 DEF ResolveInvoice
    <2> QED  BY <1>1, <2>1 DEF ResolveInvoice, Books, NotePostsOnce, MatchedGoodsCame
  <1>2. ASSUME NEW o \in Order \cup {NoOrder}, NEW g \in Note \cup {NoNote},
               MatchInvoice(s, i, o, g)
        PROVE  Books'
    <2>1. /\ \A j \in Invoice \ {i} : matches'[j] = matches[j]
          /\ matches'[i].note = g /\ UNCHANGED <<notes, posted>>
      BY <1>0, <1>2 DEF MatchInvoice
    <2>2. g # NoNote => notes[g].status = "posted" /\ posted[g] = 1
      BY <1>2 DEF MatchInvoice, Books, NotePostsOnce
    <2> QED  BY <2>1, <2>2 DEF Books, NotePostsOnce, MatchedGoodsCame
  <1> QED  BY <1>1, <1>2

LEMMA NextBooks == Inv /\ Books /\ [Next]_vars => Books'
  <1> SUFFICES ASSUME Inv, Books, [Next]_vars PROVE Books'
    OBVIOUS
  <1>0. TypeInv
    BY DEF Inv
  <1>1. ASSUME NEW s \in Session, Arrive(s)  PROVE Books'
    <2>1. CASE UNCHANGED <<notes, posted, matches>>
      BY <1>0, <2>1, QuietBooks
    <2>2. CASE \E i \in Invoice : \/ ResolveInvoice(s, i)
                                 \/ \E o \in Order \cup {NoOrder}, g \in Note \cup {NoNote} :
                                        MatchInvoice(s, i, o, g)
      BY <2>2, InvoiceBooks
    <2> QED  BY <1>1, <2>1, <2>2
             DEF Arrive, CreateOrder, BeginEdit, BeginSubmit, BeginApprove, BeginCancel,
                 BeginReceive, BeginPost, BeginVoid, tables
  <1>2. ASSUME NEW s \in Session, Rollback(s)  PROVE Books'
    BY <1>0, <1>2, QuietBooks DEF Rollback, tables
  <1>3. ASSUME NEW s \in Session, Proceed(s)  PROVE Books'
    <2>1. CASE UNCHANGED <<notes, posted, matches>>
      BY <1>0, <2>1, QuietBooks
    <2>2. CASE CommitReceive(s) \/ CommitPost(s) \/ CommitVoid(s)
      BY <2>2, CommitBooks
    <2>3. CASE CommitEdit(s)
      <3>1. /\ \A g \in Note : notes'[g].status = notes[g].status
            /\ UNCHANGED <<posted, matches>>
        BY <1>0, <2>3 DEF CommitEdit, TypeInv, TypeOK
      <3> QED  BY <1>0, <3>1, BooksFrame
    <2> QED  BY <1>2, <1>3, <2>1, <2>2, <2>3
             DEF Proceed, ShelveLine, CreditItem, ItemGone, SettleOrder, NothingToSettle,
                 CommitStatus, RefuseReceive, RefusePost, LockTimeout, tables
  <1>4. CASE UNCHANGED vars
    BY <1>0, <1>4, QuietBooks DEF vars
  <1> QED  BY <1>1, <1>2, <1>3, <1>4 DEF Next, Closed, Crash

LEMMA BooksCorrect == Spec => []Books
  <1>1. Init => Books
    BY DEF Init, Books, NotePostsOnce, MatchedGoodsCame, NoRow, NoMatch
  <1> QED  BY <1>1, InvCorrect, NextBooks, PTL DEF Spec

\* A goods received note is posted at most once, and neither a draft nor a
\* cancelled note ever entered the stock, for any number of concurrent postings,
\* cancellations, edits and crashes.
THEOREM PostedOnce == Spec => []NotePostsOnce
  <1>1. Books => NotePostsOnce
    BY DEF Books
  <1> QED  BY BooksCorrect, <1>1, PTL

\* The note of an invoice match was posted once and stays posted.
THEOREM MatchedTheorem == Spec => []MatchedGoodsCame
  <1>1. Books => MatchedGoodsCame
    BY DEF Books
  <1> QED  BY BooksCorrect, <1>1, PTL
-----------------------------------------------------------------------------
(* The status a posting writes *)

\* An item id is given out once: rows and requests under way have each their
\* own, and what an edit is about to delete is of its order, or gone.
IdsAreOnce ==
    /\ \A i \in Item : itemOf[i] # NoOrder => i \in spent
    /\ \A s \in Session : sess[s].fresh \cap spent = {}
    /\ \A s, q \in Session : s # q => sess[s].fresh \cap sess[q].fresh = {}
    /\ \A s \in Session : \A i \in sess[s].drop :
          i \in spent /\ itemOf[i] \in {sess[s].order, NoOrder}

\* Notes are of orders that exist and name items that were given out.
NotesAreSound ==
    \A g \in Note :
        /\ notes[g].order # NoOrder => orders[notes[g].order] # "absent"
        /\ Linked(notes[g].lines) \subseteq spent
        /\ notes[g].status = "absent" => Linked(notes[g].lines) = {}

\* So are requests, and none is about to make an order disappear.
OrdersStay ==
    \A s \in Session :
        /\ sess[s].order # NoOrder => orders[sess[s].order] # "absent"
        /\ sess[s].op \in {"submit", "approve", "cancel"} =>
              sess[s].verdict # "absent" /\ sess[s].order \in Order

\* An item that note g names, or named until an edit deleted it.
NamedBy(g, i) == i \in spent /\ (itemOf[i] = NoOrder \/ i \in Linked(notes[g].lines))

\* What a posting credits, has credited or has still to credit is named by its
\* note, whose order it will settle.
Follows(s) ==
    sess[s].op = "post" =>
        /\ sess[s].order = notes[sess[s].note].order
        /\ \A i \in Linked(sess[s].lines) \cup (sess[s].seen \cap Item) :
              NamedBy(sess[s].note, i)

\* A note of another order names an item of order o.
Mislinked(o) ==
    \E g \in Note : \E i \in Linked(notes[g].lines) :
        itemOf[i] = o /\ notes[g].order # o

\* From the moment it has settled its order a posting holds it, and its verdict
\* stays right, unless a note of another order credits items of this one.
Settled(s) ==
    sess[s].op = "post" /\ sess[s].pc = "commit" /\ sess[s].order # NoOrder =>
        /\ lock[sess[s].order] = s
        /\ sess[s].verdict # "absent"
        /\ \/ sess[s].verdict = Recomputed(sess[s].order, [i \in Item |-> InHand(s, i)])
           \/ Mislinked(sess[s].order)

PostingsAreSound == \A s \in Session : Follows(s) /\ Settled(s)

SettleInv == IdsAreOnce /\ NotesAreSound /\ OrdersStay /\ PostingsAreSound

\* A step of session s.
Step(s) == Arrive(s) \/ Proceed(s) \/ Rollback(s)

LEMMA LinkedType ==
    ASSUME NEW lines \in Seq(GrnLine)
    PROVE  Linked(lines) \subseteq Item
  <1> SUFFICES ASSUME NEW n \in DOMAIN lines, lines[n].item # NoItem
               PROVE  lines[n].item \in Item
    BY DEF Linked
  <1>1. lines[n] \in GrnLine
    OBVIOUS
  <1> QED  BY <1>1 DEF GrnLine

LEMMA LinkedStep ==
    ASSUME NEW lines \in Seq(GrnLine), lines # <<>>
    PROVE  /\ Linked(Tail(lines)) \subseteq Linked(lines)
           /\ Head(lines).item # NoItem => Head(lines).item \in Linked(lines)
  <1>1. Len(lines) \in Nat \ {0} /\ DOMAIN lines = 1..Len(lines)
    OBVIOUS
  <1>2. \A n \in DOMAIN Tail(lines) : n + 1 \in DOMAIN lines /\ Tail(lines)[n] = lines[n + 1]
    BY <1>1
  <1>3. Head(lines) = lines[1] /\ 1 \in DOMAIN lines
    BY <1>1
  <1> QED  BY <1>2, <1>3 DEF Linked

\* Deleting items takes their links and no other.
LEMMA LinkedUnlink ==
    ASSUME NEW lines \in Seq(GrnLine), NEW gone \in SUBSET Item
    PROVE  LET left == [n \in DOMAIN lines |-> Unlink(lines[n], gone)]
           IN  Linked(left) = Linked(lines) \ gone
  <1> DEFINE left == [n \in DOMAIN lines |-> Unlink(lines[n], gone)]
  <1>1. ASSUME NEW n \in DOMAIN lines
        PROVE  left[n].item = IF lines[n].item \in gone THEN NoItem ELSE lines[n].item
    <2>1. lines[n] \in GrnLine
      OBVIOUS
    <2> QED  BY <2>1 DEF Unlink, GrnLine
  <1>2. DOMAIN left = DOMAIN lines
    OBVIOUS
  <1> HIDE DEF left
  <1>3. Linked(left) = Linked(lines) \ gone
    BY <1>1, <1>2, NothingAssumption DEF Linked
  <1> QED  BY <1>3 DEF left

\* Only these steps change the tables of orders, items and notes, or a counter.
LEMMA TablesMove ==
    ASSUME NEW s \in Session, Step(s)
    PROVE  \/ UNCHANGED <<orders, itemOf, spent, notes, qty>>
           \/ \E o \in Order, new \in SUBSET Unused : CreateOrder(s, o, new)
           \/ CommitStatus(s) \/ CommitEdit(s) \/ CommitReceive(s)
           \/ CommitPost(s) \/ CommitVoid(s)
  BY DEF Step, Arrive, Proceed, Rollback, BeginEdit, BeginSubmit, BeginApprove,
         BeginCancel, BeginReceive, BeginPost, BeginVoid, MatchInvoice, ResolveInvoice,
         ShelveLine, CreditItem, ItemGone, SettleOrder, NothingToSettle,
         RefuseReceive, RefusePost, LockTimeout, tables

\* A step of one session leaves the others, and their locks, alone.
LEMMA OthersStay ==
    ASSUME Inv, NEW s \in Session, Step(s), NEW q \in Session \ {s}
    PROVE  /\ sess'[q] = sess[q]
           /\ \A r \in Row : lock[r] = q => lock'[r] = q
  <1>0. /\ sess \in [Session -> SessionState] /\ lock \in [Row -> Session \cup {Free}]
    BY DEF Inv, TypeInv, TypeOK
  <1>1. sess'[q] = sess[q]
    BY <1>0 DEF Step, Arrive, Proceed, Rollback, CreateOrder, BeginEdit, BeginSubmit,
         BeginApprove, BeginCancel, BeginReceive, BeginPost, BeginVoid, Begin,
         MatchInvoice, ResolveInvoice, ShelveLine, CreditItem, Add, ItemGone,
         SettleOrder, NothingToSettle, CommitStatus, CommitEdit, CommitReceive,
         CommitPost, CommitVoid, RefuseReceive, RefusePost, LockTimeout, Release
  <1>2. UNCHANGED lock \/ Release(s) \/ \E r : Lock(s, r)
    BY DEF Step, Arrive, Proceed, Rollback, CreateOrder, BeginEdit, BeginSubmit,
         BeginApprove, BeginCancel, BeginReceive, BeginPost, BeginVoid,
         MatchInvoice, ResolveInvoice, ShelveLine, CreditItem, ItemGone,
         SettleOrder, NothingToSettle, CommitStatus, CommitEdit, CommitReceive,
         CommitPost, CommitVoid, RefuseReceive, RefusePost, LockTimeout
  <1>3. ASSUME NEW r \in Row, lock[r] = q  PROVE lock'[r] = q
    BY <1>0, <1>2, <1>3, FreeAssumption DEF Lock, LockFree, Release
  <1> QED  BY <1>1, <1>3

-----------------------------------------------------------------------------
\* What no step takes back: ids given out, the order of an item unless it is
\* deleted, orders and notes that exist, and links except those of deleted items.
Onward ==
    /\ spent \subseteq spent'
    /\ \A i \in spent : itemOf'[i] \in {itemOf[i], NoOrder}
    /\ \A o \in Order : orders[o] # "absent" => orders'[o] # "absent"
    /\ \A g \in Note : notes[g].status # "absent" =>
          /\ notes'[g].status # "absent" /\ notes'[g].order = notes[g].order
          /\ \A i \in Linked(notes[g].lines) :
                i \in Linked(notes'[g].lines) \/ itemOf'[i] = NoOrder

\* An edit takes the links of the items it deletes and leaves all else of a note.
LEMMA EditLinks ==
    ASSUME TypeInv, NEW s \in Session, CommitEdit(s), NEW g \in Note
    PROVE  /\ notes'[g].status = notes[g].status /\ notes'[g].order = notes[g].order
           /\ Linked(notes'[g].lines) = Linked(notes[g].lines) \ sess[s].drop
  <1> DEFINE left == [n \in DOMAIN notes[g].lines |->
                         Unlink(notes[g].lines[n], sess[s].drop)]
  <1>1. notes[g].lines \in Seq(GrnLine) /\ sess[s].drop \in SUBSET Item
    BY DEF TypeInv, TypeOK, SessionState
  <1>2. Linked(left) = Linked(notes[g].lines) \ sess[s].drop
    BY <1>1, LinkedUnlink
  <1>3. notes'[g] = [notes[g] EXCEPT !.lines = left]
    BY DEF CommitEdit
  <1>4. notes[g] \in [status : GRNStatus, order : Order \cup {NoOrder},
                      lines : Seq(GrnLine)]
    BY DEF TypeInv, TypeOK
  <1> HIDE DEF left
  <1>5. /\ notes'[g].status = notes[g].status /\ notes'[g].order = notes[g].order
        /\ notes'[g].lines = left
    BY <1>3, <1>4
  <1> QED  BY <1>2, <1>5

\* Posting and cancelling change the status of a draft and nothing else of notes.
LEMMA StatusLinks ==
    ASSUME Inv, NEW s \in Session, CommitPost(s) \/ CommitVoid(s), NEW g \in Note
    PROVE  /\ notes'[g].order = notes[g].order /\ notes'[g].lines = notes[g].lines
           /\ \/ notes'[g].status = notes[g].status
              \/ notes[g].status # "absent" /\ notes'[g].status # "absent"
  <1>1. /\ sess[s].note \in Note /\ notes[sess[s].note].status = "draft"
    BY DEF Inv, NotesHeld, Holds, CommitPost, CommitVoid
  <1>2. notes \in [Note -> [status : GRNStatus, order : Order \cup {NoOrder},
                            lines : Seq(GrnLine)]]
    BY DEF Inv, TypeInv, TypeOK
  <1>3. PICK to \in {"posted", "cancelled"} :
            notes' = [notes EXCEPT ![sess[s].note].status = to]
    BY DEF CommitPost, CommitVoid
  <1>4. CASE g = sess[s].note
    BY <1>1, <1>2, <1>3, <1>4
  <1>5. CASE g # sess[s].note
    BY <1>1, <1>2, <1>3, <1>5
  <1> QED  BY <1>4, <1>5

LEMMA NothingComesBack ==
    ASSUME Inv, SettleInv, NEW s \in Session, Step(s)
    PROVE  Onward
  <1> DEFINE v == sess[s]
  <1>0. /\ TypeInv /\ v \in SessionState /\ NoOrder \notin Order
        /\ orders \in [Order -> POStatus] /\ itemOf \in [Item -> Order \cup {NoOrder}]
        /\ spent \subseteq Item
    BY NothingAssumption DEF Inv, TypeInv, TypeOK
  <1>1. CASE UNCHANGED <<orders, itemOf, spent, notes, qty>>
    BY <1>1 DEF Onward
  <1>2. ASSUME NEW o \in Order, NEW new \in SUBSET Unused, CreateOrder(s, o, new)
        PROVE  Onward
    <2>1. new \cap spent = {}
      BY DEF Unused
    <2> QED  BY <1>0, <1>2, <2>1 DEF CreateOrder, Onward
  <1>3. CASE CommitStatus(s)
    <2>1. v.verdict # "absent"
      BY <1>3 DEF CommitStatus, SettleInv, OrdersStay
    <2> QED  BY <1>0, <1>3, <2>1 DEF CommitStatus, Onward
  <1>4. CASE CommitEdit(s)
    <2>1. v.fresh \cap spent = {}
      BY DEF SettleInv, IdsAreOnce
    <2>2. \A i \in spent : itemOf'[i] = IF i \in v.drop THEN NoOrder ELSE itemOf[i]
      BY <1>0, <1>4, <2>1 DEF CommitEdit
    <2>3. \A g \in Note : \A i \in Linked(notes[g].lines) :
              i \in Linked(notes'[g].lines) \/ itemOf'[i] = NoOrder
      BY <1>0, <1>4, <2>2, EditLinks DEF SettleInv, NotesAreSound
    <2>4. spent \subseteq spent' /\ UNCHANGED orders
      BY <1>4 DEF CommitEdit
    <2> QED  BY <1>0, <1>4, <2>2, <2>3, <2>4, EditLinks DEF Onward
  <1>5. CASE CommitReceive(s)
    <2>1. v.note \in Note /\ notes[v.note].status = "absent"
      BY <1>5 DEF CommitReceive, Inv, NotesHeld, Holds
    <2>2. \A g \in Note : notes[g].status # "absent" => notes'[g] = notes[g]
      BY <1>0, <1>5, <2>1 DEF CommitReceive, TypeInv, TypeOK
    <2> QED  BY <1>5, <2>2 DEF CommitReceive, Onward
  <1>6. CASE CommitPost(s)
    <2>1. v.order # NoOrder => v.order \in Order /\ v.verdict # "absent"
      BY <1>0, <1>6 DEF CommitPost, SettleInv, PostingsAreSound, Settled, SessionState
    <2>2. \A o \in Order : orders[o] # "absent" => orders'[o] # "absent"
      BY <1>0, <1>6, <2>1 DEF CommitPost
    <2>3. UNCHANGED <<itemOf, spent>>
      BY <1>6 DEF CommitPost
    <2> QED  BY <1>6, <2>2, <2>3, StatusLinks DEF Onward
  <1>7. CASE CommitVoid(s)
    <2>1. UNCHANGED <<orders, itemOf, spent>>
      BY <1>7 DEF CommitVoid
    <2> QED  BY <1>7, <2>1, StatusLinks DEF Onward
  <1> QED  BY <1>1, <1>2, <1>3, <1>4, <1>5, <1>6, <1>7, TablesMove

\* Notes stay sound: what they name was given out and what they are of exists.
LEMMA NotesStaySound ==
    ASSUME Inv, SettleInv, NEW s \in Session, Step(s), Onward
    PROVE  NotesAreSound'
  <1> DEFINE v == sess[s]
  <1>0. /\ TypeInv /\ v \in SessionState
        /\ \A g \in Note : notes[g].order \in Order \cup {NoOrder}
    BY DEF Inv, TypeInv, TypeOK
  <1>1. ASSUME NEW g \in Note,
               notes'[g].order = notes[g].order,
               Linked(notes'[g].lines) \subseteq Linked(notes[g].lines),
               notes'[g].status = "absent" => notes[g].status = "absent"
        PROVE  /\ notes'[g].order # NoOrder => orders'[notes'[g].order] # "absent"
               /\ Linked(notes'[g].lines) \subseteq spent'
               /\ notes'[g].status = "absent" => Linked(notes'[g].lines) = {}
    BY <1>0, <1>1 DEF SettleInv, NotesAreSound, Onward
  <1>2. CASE UNCHANGED notes
    BY <1>1, <1>2 DEF NotesAreSound
  <1>3. CASE CommitEdit(s)
    BY <1>0, <1>1, <1>3, EditLinks DEF NotesAreSound
  <1>4. CASE CommitPost(s) \/ CommitVoid(s)
    BY <1>1, <1>4, StatusLinks DEF NotesAreSound
  <1>5. CASE CommitReceive(s)
    <2> DEFINE w == [status |-> "draft", order |-> v.order, lines |-> v.lines]
    <2>1. v.note \in Note /\ notes' = [notes EXCEPT ![v.note] = w]
      BY <1>5 DEF CommitReceive, Inv, NotesHeld, Holds
    <2>2. notes'[v.note] = w /\ \A g \in Note \ {v.note} : notes'[g] = notes[g]
      BY <1>0, <2>1 DEF TypeInv, TypeOK
    <2>3. Linked(v.lines) \subseteq spent
      <3>1. v.lines \in Seq(GrnLine)
        BY <1>0 DEF SessionState
      <3>2. Linked(v.lines) \subseteq Item
        BY <3>1, LinkedType
      <3> QED  BY <1>5, <3>2 DEF CommitReceive, LinksExist, SettleInv, IdsAreOnce
    <2>4. v.order # NoOrder => v.order \in Order /\ orders[v.order] # "absent"
      BY <1>0 DEF SettleInv, OrdersStay, SessionState
    <2>5. /\ w.order # NoOrder => orders'[w.order] # "absent"
          /\ Linked(w.lines) \subseteq spent'
          /\ w.status # "absent"
      BY <2>3, <2>4 DEF Onward
    <2> HIDE DEF w
    <2> QED  BY <1>1, <2>2, <2>5 DEF NotesAreSound
  <1>6. UNCHANGED notes \/ CommitEdit(s) \/ CommitPost(s) \/ CommitVoid(s)
          \/ CommitReceive(s)
    BY TablesMove DEF CreateOrder, CommitStatus
  <1> QED  BY <1>2, <1>3, <1>4, <1>5, <1>6

-----------------------------------------------------------------------------
\* How a session begins: an order it speaks of exists, the verdict it may have
\* is a status, and a posting takes note and lines as they are.
LEMMA Beginning ==
    ASSUME Inv, SettleInv, NEW s \in Session, Arrive(s)
    PROVE  \/ UNCHANGED sess
           \/ /\ UNCHANGED <<itemOf, spent, notes>> /\ sess'[s].pc # "idle"
              /\ sess'[s].order # NoOrder => orders[sess'[s].order] # "absent"
              /\ sess'[s].op \in {"submit", "approve", "cancel"} =>
                    sess'[s].verdict # "absent" /\ sess'[s].order \in Order
              /\ sess'[s].op = "post" =>
                    /\ sess'[s].pc = "shelf" /\ sess'[s].note \in Note
                    /\ notes[sess'[s].note].status # "absent"
                    /\ sess'[s].order = notes[sess'[s].note].order
                    /\ sess'[s].lines = notes[sess'[s].note].lines
                    /\ sess'[s].seen = {}
              /\ \/ sess'[s].fresh = {} /\ sess'[s].drop = {}
                 \/ \E o \in Order, new \in SUBSET Unused : BeginEdit(s, o, new)
  <1> DEFINE w == sess'[s]
             Goal == \/ UNCHANGED sess
                     \/ /\ UNCHANGED <<itemOf, spent, notes>> /\ w.pc # "idle"
                        /\ w.order # NoOrder => orders[w.order] # "absent"
                        /\ w.op \in {"submit", "approve", "cancel"} =>
                              w.verdict # "absent" /\ w.order \in Order
                        /\ w.op = "post" =>
                              /\ w.pc = "shelf" /\ w.note \in Note
                              /\ notes[w.note].status # "absent"
                              /\ w.order = notes[w.note].order
                              /\ w.lines = notes[w.note].lines
                              /\ w.seen = {}
                        /\ \/ w.fresh = {} /\ w.drop = {}
                           \/ \E o \in Order, new \in SUBSET Unused :
                                  BeginEdit(s, o, new)
  <1>0. sess \in [Session -> SessionState] /\ NoOrder \notin Order
    BY NothingAssumption DEF Inv, TypeInv, TypeOK
  <1>1. ASSUME NEW o \in Order, NEW new \in SUBSET Unused, BeginEdit(s, o, new)
        PROVE  Goal
    <2>1. /\ UNCHANGED <<itemOf, spent, notes>> /\ w.pc # "idle"
          /\ w.order = o /\ orders[o] # "absent" /\ w.op = "edit"
      BY <1>0, <1>1 DEF BeginEdit, Begin, Idle, tables
    <2> QED  BY <1>1, <2>1
  <1>2. ASSUME NEW o \in Order, BeginSubmit(s, o)  PROVE Goal
    <2>1. /\ UNCHANGED <<itemOf, spent, notes>> /\ w.pc # "idle" /\ w.order = o
          /\ orders[o] # "absent" /\ w.op = "submit"
          /\ w.fresh = {} /\ w.drop = {} /\ w.verdict # "absent"
      BY <1>0, <1>2 DEF BeginSubmit, Begin, Idle, tables
    <2> QED  BY <2>1
  <1>3. ASSUME NEW o \in Order, BeginApprove(s, o)  PROVE Goal
    <2>1. /\ UNCHANGED <<itemOf, spent, notes>> /\ w.pc # "idle" /\ w.order = o
          /\ orders[o] # "absent" /\ w.op = "approve"
          /\ w.fresh = {} /\ w.drop = {} /\ w.verdict # "absent"
      BY <1>0, <1>3 DEF BeginApprove, Begin, Idle, tables
    <2> QED  BY <2>1
  <1>4. ASSUME NEW o \in Order, BeginCancel(s, o)  PROVE Goal
    <2>1. /\ UNCHANGED <<itemOf, spent, notes>> /\ w.pc # "idle" /\ w.order = o
          /\ orders[o] # "absent" /\ w.op = "cancel"
          /\ w.fresh = {} /\ w.drop = {} /\ w.verdict # "absent"
      BY <1>0, <1>4 DEF BeginCancel, Begin, Idle, tables
    <2> QED  BY <2>1
  <1>5. ASSUME NEW g \in Note, NEW o \in Order \cup {NoOrder}, NEW d \in Deliveries,
               BeginReceive(s, g, o, d)
        PROVE  Goal
    <2>1. /\ UNCHANGED <<itemOf, spent, notes>> /\ w.pc # "idle" /\ w.order = o
          /\ o # NoOrder => orders[o] # "absent"
          /\ w.op = "receive" /\ w.fresh = {} /\ w.drop = {}
      BY <1>0, <1>5 DEF BeginReceive, Begin, Idle, tables
    <2> QED  BY <2>1
  <1>6. ASSUME NEW g \in Note, BeginPost(s, g)  PROVE Goal
    <2>1. /\ UNCHANGED <<itemOf, spent, notes>> /\ w.pc = "shelf" /\ w.op = "post"
          /\ w.note = g /\ notes[g].status # "absent" /\ w.order = notes[g].order
          /\ w.lines = notes[g].lines /\ w.seen = {} /\ w.fresh = {} /\ w.drop = {}
      BY <1>0, <1>6 DEF BeginPost, Begin, Idle, tables
    <2>2. notes[g].order # NoOrder => orders[notes[g].order] # "absent"
      BY DEF SettleInv, NotesAreSound
    <2> QED  BY <2>1, <2>2
  <1>7. ASSUME NEW g \in Note, BeginVoid(s, g)  PROVE Goal
    <2>1. /\ UNCHANGED <<itemOf, spent, notes>> /\ w.pc # "idle"
          /\ w.op = "void" /\ w.order = NoOrder /\ w.fresh = {} /\ w.drop = {}
      BY <1>0, <1>7 DEF BeginVoid, Begin, Idle, tables
    <2> QED  BY <2>1
  <1>8. ASSUME NEW o \in Order, NEW new, CreateOrder(s, o, new)  PROVE Goal
    BY <1>8 DEF CreateOrder
  <1>9. ASSUME NEW i \in Invoice, ResolveInvoice(s, i)
                 \/ \E o \in Order \cup {NoOrder}, g \in Note \cup {NoNote} :
                        MatchInvoice(s, i, o, g)
        PROVE  Goal
    BY <1>9 DEF MatchInvoice, ResolveInvoice
  <1> HIDE DEF Goal
  <1>10. Goal
    BY <1>1, <1>2, <1>3, <1>4, <1>5, <1>6, <1>7, <1>8, <1>9 DEF Arrive
  <1> QED  BY <1>10 DEF Goal

\* Ids: only creating an order, beginning an edit and committing it touch them.
LEMMA IdsFrame ==
    ASSUME IdsAreOnce, UNCHANGED <<itemOf, spent>>,
           \A q \in Session :
               \/ /\ sess'[q].fresh = sess[q].fresh /\ sess'[q].drop = sess[q].drop
                  /\ sess'[q].order = sess[q].order
               \/ sess'[q].fresh = {} /\ sess'[q].drop = {}
    PROVE  IdsAreOnce'
  BY DEF IdsAreOnce

\* A session begins, goes on or ends; unless it begins an edit, it has no new
\* ids in hand.
LEMMA InHandMove ==
    ASSUME Inv, SettleInv, NEW s \in Session, Step(s),
           ~ \E o \in Order, new \in SUBSET Unused : BeginEdit(s, o, new)
    PROVE  \/ /\ sess'[s].fresh = sess[s].fresh /\ sess'[s].drop = sess[s].drop
              /\ sess'[s].order = sess[s].order
           \/ sess'[s].fresh = {} /\ sess'[s].drop = {}
  <1>0. sess \in [Session -> SessionState] /\ sess[s] \in SessionState
    BY DEF Inv, TypeInv, TypeOK
  <1>1. \/ UNCHANGED sess
        \/ Release(s)
        \/ sess'[s].fresh = {} /\ sess'[s].drop = {}
        \/ /\ sess'[s].fresh = sess[s].fresh /\ sess'[s].drop = sess[s].drop
             /\ sess'[s].order = sess[s].order
    <2>1. CASE Arrive(s)
      BY <2>1, Beginning
    <2>2. CASE Rollback(s)
      BY <2>2 DEF Rollback
    <2>3. ASSUME NEW c, NEW n, NEW pc, NEW lines, Add(s, c, n, pc, lines)
          PROVE  /\ sess'[s].fresh = sess[s].fresh /\ sess'[s].drop = sess[s].drop
                 /\ sess'[s].order = sess[s].order
      BY <1>0, <2>3 DEF Add, SessionState
    <2>4. CASE ShelveLine(s) \/ CreditItem(s)
      BY <2>3, <2>4 DEF ShelveLine, CreditItem
    <2>5. CASE ItemGone(s) \/ SettleOrder(s) \/ NothingToSettle(s)
      BY <1>0, <2>5 DEF ItemGone, SettleOrder, NothingToSettle, SessionState
    <2> QED  BY <2>1, <2>2, <2>4, <2>5 DEF Step, Proceed, CommitStatus, CommitEdit,
             CommitReceive, RefuseReceive, CommitPost, RefusePost, CommitVoid,
             LockTimeout, Rollback
  <1>2. Release(s) => sess'[s].fresh = {} /\ sess'[s].drop = {}
    BY <1>0 DEF Release, Idle
  <1> QED  BY <1>1, <1>2

LEMMA IdsStayOnce ==
    ASSUME Inv, SettleInv, NEW s \in Session, Step(s)
    PROVE  IdsAreOnce'
  <1> DEFINE v == sess[s]
  <1>0. /\ IdsAreOnce /\ v \in SessionState /\ sess \in [Session -> SessionState]
        /\ itemOf \in [Item -> Order \cup {NoOrder}] /\ spent \subseteq Item
    BY DEF SettleInv, Inv, TypeInv, TypeOK
  <1>1. \A q \in Session \ {s} : sess'[q] = sess[q]
    BY OthersStay
  <1>2. ASSUME NEW o \in Order, NEW new \in SUBSET Unused, BeginEdit(s, o, new)
        PROVE  IdsAreOnce'
    <2> DEFINE w == [Idle EXCEPT !.pc = "commit", !.op = "edit", !.order = o,
                                 !.fresh = new, !.drop = ItemsOf(o)]
    <2>1. w.fresh = new /\ w.drop = ItemsOf(o) /\ w.order = o
      BY DEF Idle
    <2>2. UNCHANGED <<itemOf, spent>> /\ sess' = [sess EXCEPT ![s] = w]
      BY <1>2 DEF BeginEdit, Begin, tables
    <2>3. new \cap spent = {} /\ \A q \in Session : new \cap sess[q].fresh = {}
      BY DEF Unused
    <2>4. \A i \in ItemsOf(o) : i \in spent /\ itemOf[i] = o
      BY <1>0, NothingAssumption DEF ItemsOf, IdsAreOnce
    <2> HIDE DEF w
    <2>5. sess'[s] = w
      BY <1>0, <2>2
    <2> QED  BY <1>0, <1>1, <2>1, <2>2, <2>3, <2>4, <2>5 DEF IdsAreOnce
  <1>3. ASSUME NEW o \in Order, NEW new \in SUBSET Unused, CreateOrder(s, o, new)
        PROVE  IdsAreOnce'
    <2>1. new \cap spent = {} /\ \A q \in Session : new \cap sess[q].fresh = {}
      BY DEF Unused
    <2>2. UNCHANGED sess /\ spent' = spent \cup new
      BY <1>3 DEF CreateOrder
    <2>3. \A i \in Item : itemOf'[i] = IF i \in new THEN o ELSE itemOf[i]
      BY <1>3 DEF CreateOrder
    <2> QED  BY <1>0, <2>1, <2>2, <2>3 DEF IdsAreOnce
  <1>4. CASE CommitEdit(s)
    <2>1. spent' = spent \cup v.fresh
      BY <1>4 DEF CommitEdit
    <2>2. \A i \in Item : itemOf'[i] = IF i \in v.fresh THEN v.order
                                       ELSE IF i \in v.drop THEN NoOrder ELSE itemOf[i]
      BY <1>4 DEF CommitEdit
    <2>3. sess'[s].fresh = {} /\ sess'[s].drop = {}
      BY <1>0, <1>4 DEF CommitEdit, Release, Idle
    <2>4. ASSUME NEW q \in Session \ {s}, NEW i \in sess[q].drop
          PROVE  i \in spent' /\ itemOf'[i] \in {sess[q].order, NoOrder}
      <3>1. i \in spent /\ i \in Item /\ itemOf[i] \in {sess[q].order, NoOrder}
              /\ i \notin v.fresh
        BY <1>0 DEF IdsAreOnce
      <3> QED  BY <2>1, <2>2, <3>1
    <2>5. \A q \in Session \ {s} : sess[q].fresh \cap v.fresh = {}
      BY <1>0 DEF IdsAreOnce
    <2>6. \A i \in Item : itemOf'[i] # NoOrder => i \in spent'
      BY <1>0, <2>1, <2>2 DEF IdsAreOnce
    <2>7. \A q \in Session : sess'[q].fresh \cap spent' = {}
      BY <1>0, <1>1, <2>1, <2>3, <2>5 DEF IdsAreOnce
    <2>8. \A q, t \in Session : q # t => sess'[q].fresh \cap sess'[t].fresh = {}
      BY <1>0, <1>1, <2>3 DEF IdsAreOnce
    <2>9. \A q \in Session : \A i \in sess'[q].drop :
              i \in spent' /\ itemOf'[i] \in {sess'[q].order, NoOrder}
      BY <1>1, <2>3, <2>4
    <2> QED  BY <2>6, <2>7, <2>8, <2>9 DEF IdsAreOnce
  <1>5. CASE UNCHANGED <<itemOf, spent>>
               /\ ~ \E o \in Order, new \in SUBSET Unused : BeginEdit(s, o, new)
    BY <1>0, <1>1, <1>5, InHandMove, IdsFrame
  <1>6. \/ UNCHANGED <<itemOf, spent>> \/ CommitEdit(s)
        \/ \E o \in Order, new \in SUBSET Unused : CreateOrder(s, o, new)
    BY TablesMove DEF CommitStatus, CommitReceive, CommitPost, CommitVoid
  <1> QED  BY <1>2, <1>3, <1>4, <1>5, <1>6

-----------------------------------------------------------------------------
\* How a posting moves: nothing but its own memory and the row it locks.  It
\* loads what its next line names, passes over a deleted item, or settles.
Posts(s) ==
    ShelveLine(s) \/ CreditItem(s) \/ ItemGone(s) \/ SettleOrder(s) \/ NothingToSettle(s)

LEMMA PostingMoves ==
    ASSUME Inv, NEW s \in Session, Posts(s)
    PROVE  /\ UNCHANGED tables
           /\ sess[s].op = "post" /\ sess'[s].op = "post"
           /\ sess'[s].note = sess[s].note /\ sess'[s].order = sess[s].order
           /\ Linked(sess'[s].lines) \subseteq Linked(sess[s].lines)
           /\ sess'[s].seen \cap Item
                  \subseteq (sess[s].seen \cap Item) \cup Linked(sess[s].lines)
  <1> DEFINE v == sess[s]
             l == Head(v.lines)
  <1>0. v \in SessionState /\ sess \in [Session -> SessionState] /\ TypeInv
    BY DEF Inv, TypeInv, TypeOK
  <1>1. UNCHANGED tables /\ v.op = "post"
    BY DEF Posts, ShelveLine, CreditItem, ItemGone, SettleOrder, NothingToSettle,
           Inv, NotesHeld, Holds
  <1>2. v.lines # <<>> => /\ Linked(Tail(v.lines)) \subseteq Linked(v.lines)
                          /\ l.item # NoItem => l.item \in Linked(v.lines)
                          /\ l.product \in Product
    BY <1>0, LinkedStep, LineType DEF SessionState
  <1>3. ASSUME NEW c, NEW n, NEW pc, NEW lines, Add(s, c, n, pc, lines)
        PROVE  /\ sess'[s].op = v.op /\ sess'[s].note = v.note
               /\ sess'[s].order = v.order /\ sess'[s].lines = lines
               /\ sess'[s].seen = v.seen \cup {c}
    BY <1>0, <1>3 DEF Add, SessionState
  <1>4. CASE ShelveLine(s)
    <2>1. PICK pc \in {"shelf", "item"}, lines \in {v.lines, Tail(v.lines)} :
              Add(s, l.product, Accepted(l), pc, lines)
      BY <1>4 DEF ShelveLine
    <2>2. v.lines # <<>> /\ l.product \notin Item
      BY <1>2, <1>4, TablesAssumption DEF ShelveLine
    <2>3. /\ sess'[s].op = v.op /\ sess'[s].note = v.note /\ sess'[s].order = v.order
          /\ sess'[s].lines = lines /\ sess'[s].seen = v.seen \cup {l.product}
      BY <1>3, <2>1
    <2>4. sess'[s].seen \cap Item = v.seen \cap Item
      BY <2>2, <2>3
    <2>5. Linked(lines) \subseteq Linked(v.lines)
      BY <1>2, <2>2
    <2> HIDE DEF l
    <2> QED  BY <1>1, <2>3, <2>4, <2>5
  <1>5. CASE CreditItem(s)
    <2>1. v.lines # <<>> /\ l.item # NoItem
      BY <1>0, <1>5, NothingAssumption DEF CreditItem, TypeInv, HasItem
    <2>2. Add(s, l.item, l.got, "shelf", Tail(v.lines))
      BY <1>5 DEF CreditItem
    <2> QED  BY <1>1, <1>2, <1>3, <2>1, <2>2
  <1>6. CASE ItemGone(s)
    <2>1. v.lines # <<>>
      BY <1>0, <1>6 DEF ItemGone, TypeInv, HasItem
    <2>2. /\ sess'[s].op = v.op /\ sess'[s].note = v.note /\ sess'[s].order = v.order
          /\ sess'[s].lines = Tail(v.lines) /\ sess'[s].seen = v.seen
      BY <1>0, <1>6 DEF ItemGone, SessionState
    <2> QED  BY <1>1, <1>2, <2>1, <2>2
  <1>7. CASE SettleOrder(s) \/ NothingToSettle(s)
    <2>1. /\ sess'[s].op = v.op /\ sess'[s].note = v.note /\ sess'[s].order = v.order
          /\ sess'[s].lines = v.lines /\ sess'[s].seen = v.seen
      BY <1>0, <1>7 DEF SettleOrder, NothingToSettle, SessionState
    <2> QED  BY <1>1, <2>1
  <1> QED  BY <1>4, <1>5, <1>6, <1>7 DEF Posts

LEMMA Ending ==
    ASSUME Inv, NEW s \in Session, Step(s), ~Arrive(s), ~Posts(s)
    PROVE  Release(s) /\ sess'[s] = Idle
  <1>1. Release(s)
    BY DEF Step, Posts, Proceed, Rollback, CommitStatus, CommitEdit, CommitReceive,
           RefuseReceive, CommitPost, RefusePost, CommitVoid, LockTimeout
  <1> QED  BY <1>1 DEF Release, Inv, TypeInv, TypeOK

\* A posting whose memory only loses lines, or loads what they name, still
\* follows its note, whatever else happens.
LEMMA StillFollows ==
    ASSUME Onward, NEW q \in Session, Follows(q), sess[q].op = "post",
           sess[q].note \in Note, notes[sess[q].note].status # "absent",
           sess'[q].note = sess[q].note, sess'[q].order = sess[q].order,
           Linked(sess'[q].lines) \subseteq Linked(sess[q].lines),
           sess'[q].seen \cap Item
               \subseteq (sess[q].seen \cap Item) \cup Linked(sess[q].lines)
    PROVE  Follows(q)'
  <1>1. PICK g \in Note : g = sess[q].note
    OBVIOUS
  <1>2. ASSUME NEW i \in Linked(sess[q].lines) \cup (sess[q].seen \cap Item)
        PROVE  NamedBy(g, i)'
    <2>1. NamedBy(g, i)
      BY <1>1 DEF Follows
    <2> QED  BY <1>1, <2>1 DEF NamedBy, Onward
  <1>3. sess'[q].order = notes'[g].order
    BY <1>1 DEF Follows, Onward
  <1> QED  BY <1>1, <1>2, <1>3 DEF Follows, NamedBy

\* What a step does to the session that takes it: orders it speaks of exist, and
\* what it credits is named by its note.
LEMMA OwnFollows ==
    ASSUME Inv, Inv', SettleInv, NEW s \in Session, Step(s), Onward
    PROVE  /\ sess'[s].order # NoOrder => orders'[sess'[s].order] # "absent"
           /\ sess'[s].op \in {"submit", "approve", "cancel"} =>
                 sess'[s].verdict # "absent" /\ sess'[s].order \in Order
           /\ Follows(s)'
  <1> DEFINE v == sess[s]
             w == sess'[s]
  <1>0. /\ v \in SessionState /\ w \in SessionState
        /\ \A g \in Note : notes[g].lines \in Seq(GrnLine)
    BY DEF Inv, TypeInv, TypeOK
  <1>1. w.order # NoOrder /\ orders[w.order] # "absent" => orders'[w.order] # "absent"
    BY <1>0 DEF Onward, SessionState
  <1>3. v.op = "post" => v.note \in Note /\ notes[v.note].status # "absent"
    BY DEF Inv, NotesHeld, Holds
  <1>4. CASE UNCHANGED sess
    <2>1. w = v
      BY <1>4
    <2>2. Follows(s)'
      BY <1>3, <2>1, StillFollows DEF SettleInv, PostingsAreSound, Follows
    <2> QED  BY <1>1, <2>1, <2>2 DEF SettleInv, OrdersStay
  <1>5. CASE Posts(s)
    <2>1. /\ v.op = "post" /\ w.op = "post" /\ w.note = v.note /\ w.order = v.order
          /\ Linked(w.lines) \subseteq Linked(v.lines)
          /\ w.seen \cap Item \subseteq (v.seen \cap Item) \cup Linked(v.lines)
      BY <1>5, PostingMoves
    <2>2. Follows(s)'
      BY <1>3, <2>1, StillFollows DEF SettleInv, PostingsAreSound
    <2> QED  BY <1>1, <2>1, <2>2 DEF SettleInv, OrdersStay
  <1>6. CASE Arrive(s) /\ sess' # sess
    <2>1. /\ UNCHANGED <<itemOf, spent, notes>>
          /\ w.order # NoOrder => orders[w.order] # "absent"
          /\ w.op \in {"submit", "approve", "cancel"} =>
                w.verdict # "absent" /\ w.order \in Order
          /\ w.op = "post" =>
                /\ w.note \in Note /\ w.order = notes[w.note].order
                /\ w.lines = notes[w.note].lines /\ w.seen = {}
      BY <1>6, Beginning
    <2>2. Follows(s)'
      <3> SUFFICES ASSUME w.op = "post"
                   PROVE  /\ w.order = notes'[w.note].order
                          /\ \A i \in Linked(w.lines) \cup (w.seen \cap Item) :
                                /\ i \in spent'
                                /\ itemOf'[i] = NoOrder \/ i \in Linked(notes'[w.note].lines)
        BY DEF Follows, NamedBy
      <3> QED  BY <2>1 DEF SettleInv, NotesAreSound
    <2> QED  BY <1>1, <2>1, <2>2
  <1>7. CASE ~Arrive(s) /\ ~Posts(s)
    <2>1. w = Idle
      BY <1>7, Ending
    <2> QED  BY <2>1 DEF Idle, Follows
  <1> QED  BY <1>4, <1>5, <1>6, <1>7

LEMMA AllFollow ==
    ASSUME Inv, Inv', SettleInv, NEW s \in Session, Step(s), Onward
    PROVE  OrdersStay' /\ \A q \in Session : Follows(q)'
  <1>1. ASSUME NEW q \in Session
        PROVE  /\ sess'[q].order # NoOrder => orders'[sess'[q].order] # "absent"
               /\ sess'[q].op \in {"submit", "approve", "cancel"} =>
                     sess'[q].verdict # "absent" /\ sess'[q].order \in Order
               /\ Follows(q)'
    <2>1. CASE q = s
      BY <2>1, OwnFollows
    <2>2. CASE q # s
      <3>1. sess'[q] = sess[q]
        BY <2>2, OthersStay
      <3>2. sess[q] \in SessionState
        BY DEF Inv, TypeInv, TypeOK
      <3>3. sess[q].order # NoOrder => orders'[sess[q].order] # "absent"
        BY <3>2 DEF Onward, SettleInv, OrdersStay, SessionState
      <3>4. Follows(q)'
        <4>1. sess[q].op = "post" => sess[q].note \in Note
                                       /\ notes[sess[q].note].status # "absent"
          BY DEF Inv, NotesHeld, Holds
        <4>2. Follows(q)
          BY DEF SettleInv, PostingsAreSound
        <4>3. CASE sess[q].op = "post"
          BY <3>1, <4>1, <4>2, <4>3, StillFollows
        <4>4. CASE sess[q].op # "post"
          BY <3>1, <4>4 DEF Follows
        <4> QED  BY <4>3, <4>4
      <3> QED  BY <3>1, <3>3, <3>4 DEF SettleInv, OrdersStay
    <2> QED  BY <2>1, <2>2
  <1> QED  BY <1>1 DEF OrdersStay

-----------------------------------------------------------------------------
\* What the other sessions may do to an order that a settled posting holds: its
\* status and its items stay, and only a note of another order moves a counter.
Quiet(o) ==
    /\ orders'[o] = orders[o]
    /\ \A i \in Item : itemOf'[i] = o <=> itemOf[i] = o
    /\ \A i \in Item : itemOf[i] = o /\ qty'[i] # qty[i] => Mislinked(o)

LEMMA HeldIsQuiet ==
    ASSUME Inv, SettleInv, NEW s \in Session, Step(s), NEW q \in Session \ {s},
           NEW o \in Order, sess[q].op = "post", sess[q].pc = "commit",
           sess[q].order = o
    PROVE  Quiet(o)
  <1> DEFINE v == sess[s]
  <1>0. /\ v \in SessionState /\ o # NoOrder /\ q # Free /\ s # q
        /\ orders \in [Order -> POStatus] /\ qty \in [Counter -> Int]
        /\ itemOf \in [Item -> Order \cup {NoOrder}] /\ TypeInv
    BY NothingAssumption, FreeAssumption DEF Inv, TypeInv, TypeOK
  <1>1. lock[o] = q /\ orders[o] # "absent"
    BY <1>0 DEF SettleInv, OrdersStay, PostingsAreSound, Settled
  <1>2. ~LockFree(s, o)
    BY <1>0, <1>1 DEF LockFree
  <1>3. CASE UNCHANGED <<orders, itemOf, spent, notes, qty>>
    BY <1>3 DEF Quiet
  <1>4. ASSUME NEW p \in Order, NEW new \in SUBSET Unused, CreateOrder(s, p, new)
        PROVE  Quiet(o)
    <2>1. p # o /\ UNCHANGED qty /\ orders' = [orders EXCEPT ![p] = "draft"]
      BY <1>1, <1>4 DEF CreateOrder
    <2>2. \A i \in Item : itemOf'[i] = IF i \in new THEN p ELSE itemOf[i]
      BY <1>4 DEF CreateOrder
    <2>3. \A i \in new : itemOf[i] # o
      BY <1>0 DEF Unused, SettleInv, IdsAreOnce
    <2> QED  BY <1>0, <2>1, <2>2, <2>3 DEF Quiet
  <1>5. CASE CommitStatus(s)
    <2>1. v.order # o
      BY <1>2, <1>5 DEF CommitStatus
    <2> QED  BY <1>0, <1>5, <2>1 DEF CommitStatus, Quiet
  <1>6. CASE CommitEdit(s)
    <2>1. v.order # o /\ UNCHANGED <<orders, qty>>
      BY <1>2, <1>6 DEF CommitEdit
    <2>2. \A i \in Item : itemOf'[i] = IF i \in v.fresh THEN v.order
                                       ELSE IF i \in v.drop THEN NoOrder ELSE itemOf[i]
      BY <1>6 DEF CommitEdit
    <2>3. \A i \in v.fresh \cup v.drop : i \in Item => itemOf[i] # o
      BY <1>0, <2>1 DEF SettleInv, IdsAreOnce
    <2> QED  BY <1>0, <2>1, <2>2, <2>3 DEF Quiet
  <1>7. CASE CommitReceive(s) \/ CommitVoid(s)
    BY <1>7 DEF CommitReceive, CommitVoid, Quiet
  <1>8. CASE CommitPost(s)
    <2>1. v.order # o
      BY <1>0, <1>1, <1>8 DEF CommitPost, SettleInv, PostingsAreSound, Settled
    <2>2. orders'[o] = orders[o] /\ UNCHANGED itemOf
      BY <1>0, <1>8, <2>1 DEF CommitPost
    <2>3. ASSUME NEW i \in Item, itemOf[i] = o, qty'[i] # qty[i]
          PROVE  Mislinked(o)
      <3>1. qty'[i] = InHand(s, i) /\ i \in Counter
        BY <1>8 DEF CommitPost, Counter
      <3>2. i \in v.seen
        BY <2>3, <3>1 DEF InHand
      <3>3. v.note \in Note /\ v.order = notes[v.note].order /\ NamedBy(v.note, i)
        BY <1>8, <3>2 DEF CommitPost, SettleInv, PostingsAreSound, Follows,
           Inv, NotesHeld, Holds
      <3> QED  BY <1>0, <2>1, <2>3, <3>3 DEF NamedBy, Mislinked
    <2> QED  BY <2>2, <2>3 DEF Quiet
  <1> QED  BY <1>3, <1>4, <1>5, <1>6, <1>7, <1>8, TablesMove

\* While its items stay, a wrong link stays.
LEMMA MislinkedStays ==
    ASSUME SettleInv, Onward, NEW o, o # NoOrder,
           \A i \in Item : itemOf'[i] = o <=> itemOf[i] = o,
           \A g \in Note : notes[g].lines \in Seq(GrnLine),
           Mislinked(o)
    PROVE  Mislinked(o)'
  <1>1. PICK g \in Note : \E i \in Linked(notes[g].lines) :
                 itemOf[i] = o /\ notes[g].order # o
    BY DEF Mislinked
  <1>2. PICK i \in Linked(notes[g].lines) : itemOf[i] = o /\ notes[g].order # o
    BY <1>1
  <1>3. notes[g].status # "absent" /\ i \in Item
    BY LinkedType DEF SettleInv, NotesAreSound
  <1>4. notes'[g].order = notes[g].order /\ i \in Linked(notes'[g].lines)
    BY <1>2, <1>3 DEF Onward
  <1> QED  BY <1>2, <1>3, <1>4 DEF Mislinked

\* The verdict over what the session has in hand depends on these rows only.
LEMMA SameVerdict ==
    ASSUME NEW s \in Session, NEW o, orders'[o] = orders[o],
           \A i \in Item : itemOf'[i] = o <=> itemOf[i] = o,
           \A i \in Item : itemOf[i] = o => InHand(s, i)' = InHand(s, i)
    PROVE  Recomputed(o, [i \in Item |-> InHand(s, i)])'
             = Recomputed(o, [i \in Item |-> InHand(s, i)])
  <1> DEFINE r == [i \in Item |-> InHand(s, i)]
             t == [i \in Item |-> InHand(s, i)']
  <1>1. ItemsOf(o)' = ItemsOf(o)
    BY DEF ItemsOf
  <1>2. \A i \in ItemsOf(o) : t[i] = r[i]
    BY DEF ItemsOf
  <1>3. Recomputed(o, r)' = LET live == ItemsOf(o)'
                            IN  IF orders'[o] \in Terminal \/ live = {} THEN orders'[o]
                                ELSE IF \A i \in live : t[i] >= Ordered[i] THEN "fully_received"
                                ELSE IF \E i \in live : t[i] > 0 THEN "partially_received"
                                ELSE IF orders'[o] = "partially_received" THEN "approved"
                                ELSE orders'[o]
    BY DEF Recomputed
  <1> HIDE DEF t
  <1>4. Recomputed(o, r) = LET live == ItemsOf(o)
                           IN  IF orders[o] \in Terminal \/ live = {} THEN orders[o]
                               ELSE IF \A i \in live : r[i] >= Ordered[i] THEN "fully_received"
                               ELSE IF \E i \in live : r[i] > 0 THEN "partially_received"
                               ELSE IF orders[o] = "partially_received" THEN "approved"
                               ELSE orders[o]
    BY DEF Recomputed
  <1>5. Recomputed(o, r)' = Recomputed(o, r)
    BY <1>1, <1>2, <1>3, <1>4
  <1> QED  BY <1>5

\* Only an idle session takes a request.
LEMMA Arrives ==
    ASSUME NEW s \in Session, Arrive(s)
    PROVE  sess[s].pc = "idle"
  BY DEF Arrive, CreateOrder, BeginEdit, BeginSubmit, BeginApprove, BeginCancel,
     BeginReceive, BeginPost, BeginVoid, Begin, MatchInvoice, ResolveInvoice

\* The verdict of a settled posting outlives the steps of the others.
LEMMA OthersSettled ==
    ASSUME Inv, SettleInv, NEW s \in Session, Step(s), Onward,
           NEW q \in Session \ {s}
    PROVE  Settled(q)'
  <1>0. /\ sess'[q] = sess[q] /\ sess[q] \in SessionState
        /\ \A r \in Row : lock[r] = q => lock'[r] = q
    BY OthersStay DEF Inv, TypeInv, TypeOK
  <1>1. CASE sess[q].op = "post" /\ sess[q].pc = "commit" /\ sess[q].order # NoOrder
    <2>1. PICK o \in Order : o = sess[q].order
      BY <1>0, <1>1 DEF SessionState
    <2>2. /\ lock[o] = q /\ sess[q].verdict # "absent"
          /\ \/ sess[q].verdict = Recomputed(o, [i \in Item |-> InHand(q, i)])
             \/ Mislinked(o)
      BY <1>1, <2>1 DEF SettleInv, PostingsAreSound, Settled
    <2>3. lock'[o] = q
      BY <1>0, <2>2 DEF Row
    <2>4. Quiet(o)
      BY <1>1, <2>1, HeldIsQuiet
    <2>5. Mislinked(o) => Mislinked(o)'
      <3>1. \A g \in Note : notes[g].lines \in Seq(GrnLine)
        BY DEF Inv, TypeInv, TypeOK
      <3> QED  BY <2>4, <3>1, MislinkedStays, NothingAssumption DEF Quiet
    <2>6. ASSUME ~Mislinked(o)
          PROVE  sess[q].verdict = Recomputed(o, [i \in Item |-> InHand(q, i)])'
      <3>1. \A i \in Item : itemOf[i] = o => InHand(q, i)' = InHand(q, i)
        BY <1>0, <2>4, <2>6 DEF InHand, Quiet
      <3>2. Recomputed(o, [i \in Item |-> InHand(q, i)])'
              = Recomputed(o, [i \in Item |-> InHand(q, i)])
        BY <2>4, <3>1, SameVerdict DEF Quiet
      <3> QED  BY <2>2, <2>6, <3>2
    <2>7. \/ sess'[q].verdict = Recomputed(o, [i \in Item |-> InHand(q, i)])'
          \/ Mislinked(o)'
      BY <1>0, <2>5, <2>6
    <2>8. sess'[q].order = o
      BY <1>0, <2>1
    <2> QED  BY <1>0, <2>2, <2>3, <2>7, <2>8 DEF Settled
  <1>2. CASE ~(sess[q].op = "post" /\ sess[q].pc = "commit" /\ sess[q].order # NoOrder)
    BY <1>0, <1>2 DEF Settled
  <1> QED  BY <1>1, <1>2

\* A posting that settles locks its order and takes the verdict of the moment.
LEMMA OwnSettled ==
    ASSUME Inv, SettleInv, NEW s \in Session, Step(s)
    PROVE  Settled(s)'
  <1> DEFINE v == sess[s]
  <1>0. /\ v \in SessionState /\ sess \in [Session -> SessionState]
        /\ lock \in [Row -> Session \cup {Free}] /\ orders \in [Order -> POStatus]
    BY DEF Inv, TypeInv, TypeOK
  <1>1. CASE SettleOrder(s)
    <2>1. PICK o \in Order : o = v.order
      BY <1>0, <1>1 DEF SettleOrder, SessionState
    <2> DEFINE to == Recomputed(o, [i \in Item |-> InHand(s, i)])
    <2>2. /\ sess'[s].order = o /\ sess'[s].verdict = to
          /\ sess'[s].mem = v.mem /\ sess'[s].seen = v.seen
      BY <1>0, <1>1, <2>1 DEF SettleOrder, SessionState
    <2>3. lock'[o] = s
      BY <1>0, <1>1, <2>1 DEF SettleOrder, Lock, Row
    <2>4. UNCHANGED <<orders, itemOf, qty>>
      BY <1>1 DEF SettleOrder, tables
    <2>5. to' = to
      <3>1. \A i \in Item : InHand(s, i)' = InHand(s, i)
        BY <2>2, <2>4 DEF InHand
      <3> QED  BY <2>4, <3>1, SameVerdict
    <2>6. to # "absent"
      <3>1. orders[o] # "absent"
        BY <1>0, <1>1, <2>1 DEF SettleOrder, SettleInv, OrdersStay
      <3> QED  BY <3>1 DEF Recomputed
    <2>7. /\ lock'[o] = s /\ sess'[s].verdict # "absent"
          /\ sess'[s].verdict = Recomputed(o, [i \in Item |-> InHand(s, i)])'
      BY <2>2, <2>3, <2>5, <2>6
    <2> HIDE DEF to
    <2> QED  BY <2>2, <2>7 DEF Settled
  <1>2. CASE ShelveLine(s) \/ CreditItem(s) \/ ItemGone(s)
    <2>1. ASSUME NEW c, NEW n, NEW pc \in {"shelf", "item"}, NEW lines,
                 Add(s, c, n, pc, lines)
          PROVE  sess'[s].pc # "commit"
      BY <1>0, <2>1 DEF Add, SessionState
    <2>2. sess'[s].pc # "commit"
      BY <1>0, <1>2, <2>1 DEF ShelveLine, CreditItem, ItemGone, SessionState
    <2> QED  BY <2>2 DEF Settled
  <1>3. CASE NothingToSettle(s)
    <2>1. sess'[s].order = NoOrder
      BY <1>0, <1>3 DEF NothingToSettle, SessionState
    <2> QED  BY <2>1 DEF Settled
  <1>4. CASE Arrive(s)
    <2>1. CASE UNCHANGED sess
      <3>1. v.pc = "idle"
        BY <1>0, <1>4, <2>1, Arrives
      <3> QED  BY <2>1, <3>1 DEF Settled
    <2>2. CASE sess' # sess
      <3>1. sess'[s].op = "post" => sess'[s].pc = "shelf"
        BY <1>4, <2>2, Beginning
      <3> QED  BY <3>1 DEF Settled
    <2> QED  BY <2>1, <2>2
  <1>5. CASE ~Arrive(s) /\ ~Posts(s)
    <2>1. sess'[s] = Idle
      BY <1>5, Ending
    <2> QED  BY <2>1 DEF Idle, Settled
  <1> QED  BY <1>1, <1>2, <1>3, <1>4, <1>5 DEF Posts

LEMMA NextSettle == Inv /\ SettleInv /\ [Next]_vars => SettleInv'
  <1> SUFFICES ASSUME Inv, SettleInv, [Next]_vars PROVE SettleInv'
    OBVIOUS
  <1>1. ASSUME NEW s \in Session, Step(s)  PROVE SettleInv'
    <2>1. Inv'
      BY NextHolds
    <2>2. Onward
      BY <1>1, NothingComesBack
    <2>3. NotesAreSound' /\ IdsAreOnce'
      BY <1>1, <2>2, NotesStaySound, IdsStayOnce
    <2>4. OrdersStay' /\ \A q \in Session : Follows(q)'
      BY <1>1, <2>1, <2>2, AllFollow
    <2>5. \A q \in Session : Settled(q)'
      BY <1>1, <2>2, OwnSettled, OthersSettled
    <2> QED  BY <2>3, <2>4, <2>5 DEF SettleInv, PostingsAreSound
  <1>2. CASE UNCHANGED vars
    BY <1>2 DEF vars, SettleInv, IdsAreOnce, NotesAreSound, OrdersStay,
       PostingsAreSound, Follows, NamedBy, Settled, Mislinked, Recomputed, ItemsOf,
       InHand
  <1> QED  BY <1>1, <1>2 DEF Next, Closed, Crash, Step

LEMMA SettleCorrect == Spec => [](Inv /\ SettleInv)
  <1>1. Init => SettleInv
    <2> SUFFICES ASSUME Init PROVE SettleInv
      OBVIOUS
    <2>1. Linked(<<>>) = {}
      BY DEF Linked
    <2>2. IdsAreOnce
      BY DEF Init, Idle, IdsAreOnce
    <2>3. NotesAreSound
      BY <2>1 DEF Init, NoRow, NotesAreSound
    <2>4. OrdersStay /\ PostingsAreSound
      BY DEF Init, Idle, OrdersStay, PostingsAreSound, Follows, Settled
    <2> QED  BY <2>2, <2>3, <2>4 DEF SettleInv
  <1> QED  BY <1>1, InvCorrect, NextSettle, PTL DEF Spec

\* The status that post_grn writes to the order is the one the received
\* quantities give when the writes appear, for any number of notes of that order
\* posted at once and beside any edit or cancellation: from the moment a posting
\* has settled its order it holds the order's row, and without that row nobody
\* moves the order's status, its items or (links being right) their counters.
THEOREM StatusIsRight == Spec => StatusFollowsReceipts
  <1>1. ASSUME Inv, SettleInv, [Next]_vars, NEW s \in Session,
               sess[s].pc = "commit", sess[s].op = "post", posted' # posted,
               sess'[s].pc = "idle", sess[s].order # NoOrder, WellLinked
        PROVE  orders'[sess[s].order] = Recomputed(sess[s].order, qty')
    <2>0. /\ sess[s] \in SessionState /\ sess \in [Session -> SessionState]
          /\ orders \in [Order -> POStatus]
      BY <1>1 DEF Inv, TypeInv, TypeOK
    <2>1. PICK q \in Session : CommitPost(q)
      <3>1. ASSUME NEW q \in Session, Arrive(q) PROVE posted' = posted
        BY <3>1 DEF Arrive, CreateOrder, BeginEdit, BeginSubmit, BeginApprove, BeginCancel,
           BeginReceive, BeginPost, BeginVoid, MatchInvoice, ResolveInvoice, tables
      <3>2. ASSUME NEW q \in Session, Crash(q) PROVE posted' = posted
        BY <3>2 DEF Crash, Rollback, tables
      <3>3. ASSUME NEW q \in Session, Proceed(q), ~CommitPost(q) PROVE posted' = posted
        <4>1. CASE ShelveLine(q) \/ CreditItem(q) \/ SettleOrder(q) \/ NothingToSettle(q)
          BY <4>1 DEF ShelveLine, CreditItem, SettleOrder, NothingToSettle, tables
        <4>2. CASE CommitStatus(q) \/ CommitEdit(q) \/ CommitReceive(q) \/ CommitVoid(q)
          BY <4>2 DEF CommitStatus, CommitEdit, CommitReceive, CommitVoid, tables
        <4>3. CASE ItemGone(q) \/ RefuseReceive(q) \/ RefusePost(q) \/ LockTimeout(q)
          BY <4>3 DEF ItemGone, RefuseReceive, RefusePost, LockTimeout, Rollback, tables
        <4> QED  BY <3>3, <4>1, <4>2, <4>3 DEF Proceed
      <3>4. Closed \/ UNCHANGED vars => posted' = posted
        BY DEF Closed, vars
      <3> QED  BY <1>1, <3>1, <3>2, <3>3, <3>4 DEF Next
    <2>2. q = s
      BY <1>1, <2>0, <2>1 DEF CommitPost, Release
    <2>3. PICK o \in Order : o = sess[s].order
      BY <1>1, <2>0 DEF SessionState
    <2>4. ~Mislinked(o)
      BY <1>1 DEF WellLinked, Mislinked
    <2>5. sess[s].verdict = Recomputed(o, [i \in Item |-> InHand(s, i)])
      BY <1>1, <2>3, <2>4 DEF SettleInv, PostingsAreSound, Settled
    <2>6. orders'[o] = sess[s].verdict
      BY <1>1, <2>0, <2>1, <2>2, <2>3 DEF CommitPost
    <2>7. \A i \in ItemsOf(o) : qty'[i] = InHand(s, i)
      BY <2>1, <2>2 DEF CommitPost, ItemsOf, Counter
    <2>8. ItemsOf(o) \subseteq Item
      BY DEF ItemsOf
    <2>9. Recomputed(o, qty') = Recomputed(o, [i \in Item |-> InHand(s, i)])
      BY <2>7, <2>8 DEF Recomputed
    <2> QED  BY <2>3, <2>5, <2>6, <2>9
  <1>2. Inv /\ SettleInv /\ [Next]_vars
          => [\A s \in Session :
                /\ sess[s].pc = "commit" /\ sess[s].op = "post" /\ posted' # posted
                /\ sess'[s].pc = "idle" /\ sess[s].order # NoOrder /\ WellLinked
                => orders'[sess[s].order] = Recomputed(sess[s].order, qty')]_vars
    BY <1>1
  <1> QED  BY SettleCorrect, <1>2, PTL DEF Spec, StatusFollowsReceipts

-----------------------------------------------------------------------------
(* Counting units *)

LEMMA CardinalityOfUnion ==
    ASSUME NEW S, NEW T, IsFiniteSet(S), IsFiniteSet(T), S \cap T = {}
    PROVE  /\ IsFiniteSet(S \cup T)
           /\ Cardinality(S \cup T) = Cardinality(S) + Cardinality(T)
  <1>1. Cardinality(S) \in Nat /\ Cardinality(T) \in Nat
    BY FS_CardinalityType
  <1>2. Cardinality(S \cap T) = 0
    BY FS_EmptySet
  <1>3. /\ IsFiniteSet(S \cup T)
        /\ Cardinality(S \cup T)
              = Cardinality(S) + Cardinality(T) - Cardinality(S \cap T)
    BY FS_Union
  <1> QED  BY <1>1, <1>2, <1>3

\* Sets whose elements are paired off count the same.
LEMMA CardinalityOfImage ==
    ASSUME NEW S, NEW T, NEW f \in [S -> T], IsFiniteSet(S),
           \A x, y \in S : f[x] = f[y] => x = y,
           \A y \in T : \E x \in S : f[x] = y
    PROVE  IsFiniteSet(T) /\ Cardinality(T) = Cardinality(S)
  <1>1. f \in Bijection(S, T)
    BY DEF Bijection, Injection, Surjection, IsInjective
  <1>2. ExistsBijection(S, T)
    BY <1>1 DEF ExistsBijection
  <1> QED  BY <1>2, FS_Bijection

LEMMA CardinalityOfColumn ==
    ASSUME NEW x, NEW S, IsFiniteSet(S)
    PROVE  IsFiniteSet({x} \X S) /\ Cardinality({x} \X S) = Cardinality(S)
  <1> DEFINE f == [u \in S |-> <<x, u>>]
  <1>1. f \in [S -> {x} \X S]
    OBVIOUS
  <1>2. \A u, v \in S : f[u] = f[v] => u = v
    OBVIOUS
  <1>3. \A w \in {x} \X S : \E u \in S : f[u] = w
    OBVIOUS
  <1> HIDE DEF f
  <1> QED  BY <1>1, <1>2, <1>3, CardinalityOfImage

LEMMA ColumnOfUnits ==
    ASSUME NEW x, NEW q \in Nat
    PROVE  IsFiniteSet({x} \X (1..q)) /\ Cardinality({x} \X (1..q)) = q
  <1>1. IsFiniteSet(1..q) /\ Cardinality(1..q) = q
    BY FS_Interval
  <1> QED  BY <1>1, CardinalityOfColumn

\* A finite union of finite sets.
LEMMA FiniteUnion ==
    ASSUME NEW S, NEW f, DOMAIN f = S, IsFiniteSet(S), \A x \in S : IsFiniteSet(f[x])
    PROVE  IsFiniteSet(UNION {f[x] : x \in S})
  <1> DEFINE T == {f[x] : x \in S}
             g == [x \in S |-> f[x]]
  <1>1. g \in [S -> T] /\ \A y \in T : \E x \in S : g[x] = y
    OBVIOUS
  <1>2. g \in Surjection(S, T)
    BY <1>1 DEF Surjection
  <1>3. IsFiniteSet(T)
    BY <1>2, FS_Surjection
  <1>4. \A y \in T : IsFiniteSet(y)
    OBVIOUS
  <1> QED  BY <1>3, <1>4, FS_UNION

\* A line as it was sent: no more is bad than came.
Sent == {l \in GrnLine : l.bad <= l.got}

UnitsOf(lines, c) == Cardinality(Brought(lines, c))

LEMMA BringsType ==
    ASSUME NEW l \in Sent, NEW c
    PROVE  /\ Brings(l, c) \in Nat /\ Accepted(l) \in Nat /\ l.got \in Nat
           /\ l \in GrnLine
  BY DEF Sent, GrnLine, Brings, Accepted

LEMMA BroughtAre ==
    ASSUME NEW lines, NEW c, NEW u
    PROVE  u \in Brought(lines, c) <=>
               \E n \in DOMAIN lines, k \in Int :
                   k \in 1..Brings(lines[n], c) /\ u = <<n, k>>
  BY DEF Brought

LEMMA BroughtFinite ==
    ASSUME NEW lines \in Seq(Sent), NEW c
    PROVE  IsFiniteSet(Brought(lines, c)) /\ UnitsOf(lines, c) \in Nat
  <1> DEFINE S == DOMAIN lines
             f == [n \in S |-> {n} \X (1..Brings(lines[n], c))]
  <1>1. S = 1..Len(lines) /\ Len(lines) \in Nat
    OBVIOUS
  <1>2. IsFiniteSet(S)
    BY <1>1, FS_Interval
  <1>3. \A n \in S : lines[n] \in Sent
    OBVIOUS
  <1>4. \A n \in S : Brings(lines[n], c) \in Nat
    BY <1>3, BringsType
  <1>5. \A n \in S : IsFiniteSet(f[n])
    BY <1>4, ColumnOfUnits
  <1>6. IsFiniteSet(UNION {f[n] : n \in S})
    <2>1. DOMAIN f = S
      OBVIOUS
    <2> HIDE DEF f, S
    <2> QED  BY <1>2, <1>5, <2>1, FiniteUnion
  <1>7. Brought(lines, c) = UNION {f[n] : n \in S}
    BY DEF Brought
  <1> QED  BY <1>6, <1>7, FS_CardinalityType DEF UnitsOf

LEMMA NoUnits ==
    ASSUME NEW c
    PROVE  Brought(<<>>, c) = {} /\ UnitsOf(<<>>, c) = 0
  <1>1. Brought(<<>>, c) = {}
    BY DEF Brought
  <1> QED  BY <1>1, FS_EmptySet DEF UnitsOf

\* Line by line, as the posting goes.
LEMMA UnitsOfHead ==
    ASSUME NEW lines \in Seq(Sent), lines # <<>>, NEW c
    PROVE  UnitsOf(lines, c) = Brings(Head(lines), c) + UnitsOf(Tail(lines), c)
  <1> DEFINE rest  == Tail(lines)
             now   == {1} \X (1..Brings(Head(lines), c))
             later == {u \in Brought(lines, c) : u[1] # 1}
             f     == [u \in Brought(rest, c) |-> <<u[1] + 1, u[2]>>]
  <1>1. /\ rest \in Seq(Sent) /\ Head(lines) = lines[1]
        /\ Len(lines) \in Nat \ {0} /\ Len(rest) = Len(lines) - 1
        /\ DOMAIN lines = 1..Len(lines) /\ DOMAIN rest = 1..Len(rest)
    OBVIOUS
  <1>2. \A n \in DOMAIN rest : n \in Nat \ {0} /\ n + 1 \in DOMAIN lines /\ rest[n] = lines[n + 1]
    BY <1>1
  <1>3. \A n \in DOMAIN lines : n # 1 => n - 1 \in DOMAIN rest /\ rest[n - 1] = lines[n] /\ n \in Nat
    BY <1>1
  <1>a. 1 \in DOMAIN lines /\ Brings(lines[1], c) \in Nat
    <2>1. 1 \in DOMAIN lines
      BY <1>1
    <2>2. lines[1] \in Sent
      BY <2>1
    <2> QED  BY <2>1, <2>2, BringsType
  <1> HIDE DEF rest
  <1>4. Brought(lines, c) = now \cup later /\ now \cap later = {}
    <2>1. ASSUME NEW u \in Brought(lines, c)  PROVE u \in now \/ u \in later
      <3>1. PICK n \in DOMAIN lines, k \in Int :
               k \in 1..Brings(lines[n], c) /\ u = <<n, k>>
        BY <2>1, BroughtAre
      <3> QED  BY <1>1, <3>1
    <2>2. ASSUME NEW u \in now  PROVE u \in Brought(lines, c) /\ u \notin later
      BY <1>1, <1>a, <2>2, BroughtAre
    <2> QED  BY <2>1, <2>2
  <1>5. IsFiniteSet(now) /\ Cardinality(now) = Brings(Head(lines), c)
    BY <1>1, <1>a, ColumnOfUnits
  <1>6. f \in [Brought(rest, c) -> later]
    <2> SUFFICES ASSUME NEW u \in Brought(rest, c)
                 PROVE  <<u[1] + 1, u[2]>> \in later
      OBVIOUS
    <2>1. PICK n \in DOMAIN rest, k \in Int : k \in 1..Brings(rest[n], c) /\ u = <<n, k>>
      BY BroughtAre
    <2>2. n + 1 \in DOMAIN lines /\ k \in 1..Brings(lines[n + 1], c) /\ n + 1 # 1
      BY <1>2, <2>1
    <2>3. <<n + 1, k>> \in Brought(lines, c)
      BY <2>2, BroughtAre
    <2> QED  BY <2>1, <2>2, <2>3
  <1>7. \A u, v \in Brought(rest, c) : f[u] = f[v] => u = v
    <2> SUFFICES ASSUME NEW u \in Brought(rest, c), NEW v \in Brought(rest, c), f[u] = f[v]
                 PROVE  u = v
      OBVIOUS
    <2>1. PICK n \in DOMAIN rest, k \in Int : u = <<n, k>>
      BY BroughtAre
    <2>2. PICK m \in DOMAIN rest, j \in Int : v = <<m, j>>
      BY BroughtAre
    <2>3. <<n + 1, k>> = <<m + 1, j>>
      BY <2>1, <2>2
    <2>4. n = m /\ k = j
      BY <1>2, <2>3
    <2> QED  BY <2>1, <2>2, <2>4
  <1>8. \A v \in later : \E u \in Brought(rest, c) : f[u] = v
    <2> SUFFICES ASSUME NEW v \in later
                 PROVE  \E u \in Brought(rest, c) : f[u] = v
      OBVIOUS
    <2>1. PICK n \in DOMAIN lines, k \in Int : k \in 1..Brings(lines[n], c) /\ v = <<n, k>>
      BY BroughtAre
    <2>2. n # 1
      BY <2>1
    <2>3. n - 1 \in DOMAIN rest /\ k \in 1..Brings(rest[n - 1], c)
      BY <1>3, <2>1, <2>2
    <2>4. <<n - 1, k>> \in Brought(rest, c)
      BY <2>3, BroughtAre
    <2>5. f[<<n - 1, k>>] = <<n, k>>
      BY <1>3, <2>2, <2>4
    <2> QED  BY <2>1, <2>4, <2>5
  <1>9. IsFiniteSet(Brought(rest, c))
    BY <1>1, BroughtFinite
  <1> HIDE DEF f, later, now
  <1>10. IsFiniteSet(later) /\ Cardinality(later) = Cardinality(Brought(rest, c))
    BY <1>6, <1>7, <1>8, <1>9, CardinalityOfImage
  <1> QED
    <2>1. Cardinality(Brought(lines, c)) = Cardinality(now) + Cardinality(later)
      BY <1>4, <1>5, <1>10, CardinalityOfUnion
    <2> QED  BY <1>5, <1>10, <2>1 DEF UnitsOf, rest

\* Lines bring nothing to an item they do not name.
LEMMA UnnamedUnits ==
    ASSUME NEW lines \in Seq(Sent), NEW i \in Item, i \notin Linked(lines)
    PROVE  Brought(lines, i) = {} /\ UnitsOf(lines, i) = 0
  <1>1. ASSUME NEW n \in DOMAIN lines  PROVE Brings(lines[n], i) = 0
    <2>1. lines[n] \in Sent
      OBVIOUS
    <2>2. lines[n].product # i
      BY <2>1, TablesAssumption DEF Sent, GrnLine
    <2>3. lines[n].item # i
      BY NothingAssumption DEF Linked
    <2> QED  BY <2>2, <2>3 DEF Brings
  <1>2. Brought(lines, i) = {}
    BY <1>1 DEF Brought
  <1> QED  BY <1>2, FS_EmptySet DEF UnitsOf

\* An edit takes the links of the items it deletes and moves nothing else.
LEMMA SentUnlinked ==
    ASSUME NEW lines \in Seq(Sent), NEW gone \in SUBSET Item, NEW left,
           left = [n \in DOMAIN lines |-> Unlink(lines[n], gone)]
    PROVE  left \in Seq(Sent)
  <1>1. ASSUME NEW n \in DOMAIN lines  PROVE Unlink(lines[n], gone) \in Sent
    <2>1. lines[n] \in Sent
      OBVIOUS
    <2> QED  BY <2>1 DEF Unlink, Sent, GrnLine
  <1>2. DOMAIN lines = 1..Len(lines) /\ Len(lines) \in Nat
    OBVIOUS
  <1> QED  BY <1>1, <1>2

LEMMA UnitsUnlinked ==
    ASSUME NEW lines \in Seq(Sent), NEW gone \in SUBSET Item, NEW c, c \notin gone,
           c \in Product \cup Item, NEW left,
           left = [n \in DOMAIN lines |-> Unlink(lines[n], gone)]
    PROVE  Brought(left, c) = Brought(lines, c)
  <1>1. ASSUME NEW n \in DOMAIN lines
        PROVE  Brings(left[n], c) = Brings(lines[n], c)
    <2>1. lines[n] \in Sent
      OBVIOUS
    <2>2. /\ left[n].product = lines[n].product
          /\ left[n].got = lines[n].got /\ left[n].bad = lines[n].bad
          /\ left[n].item = IF lines[n].item \in gone THEN NoItem ELSE lines[n].item
      BY <2>1 DEF Unlink, Sent, GrnLine
    <2> QED  BY <2>2, NothingAssumption DEF Brings, Accepted
  <1>2. DOMAIN left = DOMAIN lines
    OBVIOUS
  <1> QED  BY <1>1, <1>2 DEF Brought

-----------------------------------------------------------------------------
(* What has been posted, and what a posting has in hand *)

SentInv == /\ \A g \in Note : notes[g].lines \in Seq(Sent)
           /\ \A s \in Session : sess[s].lines \in Seq(Sent)

\* The counters of products and of items, but for items that were deleted.
Kept == Product \cup {i \in Item : i \notin spent \/ itemOf[i] # NoOrder}

\* A counter is its opening value and one unit for each that a posting brought.
Counted ==
    \A c \in Kept : /\ IsFiniteSet(Received(c))
                    /\ qty[c] = Opening(c) + Cardinality(Received(c))

\* The units of the lines that a posting has still to deal with: between the two
\* counters of a line, those of its product are already added.
Left(s, c) ==
    UnitsOf(sess[s].lines, c)
        - IF sess[s].pc = "item" /\ Head(sess[s].lines).product = c
          THEN Accepted(Head(sess[s].lines)) ELSE 0

\* A posting holds every counter it has loaded, and what it has in hand and has
\* still to add is the counter as it is and what its note brings.
InStep(s) ==
    sess[s].op = "post" =>
        /\ \A c \in sess[s].seen : lock[c] = s
        /\ sess[s].pc = "commit" => sess[s].lines = <<>>
        /\ \A c \in Kept :
              InHand(s, c) + Left(s, c) = qty[c] + UnitsOf(notes[sess[s].note].lines, c)

CountInv == SentInv /\ Counted /\ \A s \in Session : InStep(s)

LEMMA KeptAre == Kept \subseteq Counter /\ Kept \subseteq Product \cup Item
  BY DEF Kept, Counter

LEMMA KeptStays ==
    ASSUME Inv, Onward
    PROVE  Kept' \subseteq Kept
  BY DEF Inv, TypeInv, TypeOK, Onward, Kept

LEMMA SentTail ==
    ASSUME NEW lines \in Seq(Sent), lines # <<>>
    PROVE  Tail(lines) \in Seq(Sent) /\ Head(lines) \in Sent
  OBVIOUS

LEMMA DeliveriesSent ==
    ASSUME NEW d \in Deliveries
    PROVE  d \in Seq(Sent)
  <1>1. d \in Seq(GrnLine) /\ \A n \in DOMAIN d : d[n].bad <= d[n].got
    BY DeliveriesAssumption
  <1>2. \A n \in 1..Len(d) : d[n] \in GrnLine
    BY <1>1
  <1>3. \A n \in 1..Len(d) : d[n] \in Sent
    BY <1>1, <1>2 DEF Sent
  <1> QED  BY <1>1, <1>3

\* The lines of a session come from a request, from its note, or are fewer.
LEMMA LinesMove ==
    ASSUME Inv, SettleInv, NEW s \in Session, Step(s)
    PROVE  \/ sess'[s].lines \in {sess[s].lines, <<>>}
           \/ sess'[s].lines \in Deliveries
           \/ sess[s].lines # <<>> /\ sess'[s].lines = Tail(sess[s].lines)
           \/ \E g \in Note : sess'[s].lines = notes[g].lines
  <1> DEFINE v == sess[s]
             Goal == \/ sess'[s].lines \in {v.lines, <<>>}
                     \/ sess'[s].lines \in Deliveries
                     \/ v.lines # <<>> /\ sess'[s].lines = Tail(v.lines)
                     \/ \E g \in Note : sess'[s].lines = notes[g].lines
  <1>0. /\ sess \in [Session -> SessionState] /\ v \in SessionState /\ HasItem(s)
        /\ Idle.lines = <<>>
    BY DEF Inv, TypeInv, TypeOK, Idle
  <1>1. CASE Arrive(s)
    <2>1. ASSUME NEW w, Begin(s, w)  PROVE sess'[s] = w
      BY <1>0, <2>1 DEF Begin
    <2>2. ASSUME NEW o \in Order, NEW new \in SUBSET Unused, BeginEdit(s, o, new)  PROVE Goal
      BY <2>1, <2>2 DEF BeginEdit, Idle
    <2>3. ASSUME NEW o \in Order, BeginSubmit(s, o) \/ BeginApprove(s, o) \/ BeginCancel(s, o)
          PROVE  Goal
      BY <2>1, <2>3 DEF BeginSubmit, BeginApprove, BeginCancel, Idle
    <2>4. ASSUME NEW g \in Note, NEW o \in Order \cup {NoOrder}, NEW d \in Deliveries,
                 BeginReceive(s, g, o, d)
          PROVE  Goal
      BY <2>1, <2>4 DEF BeginReceive, Idle
    <2>5. ASSUME NEW g \in Note, BeginPost(s, g)  PROVE Goal
      BY <2>1, <2>5 DEF BeginPost, Idle
    <2>6. ASSUME NEW g \in Note, BeginVoid(s, g)  PROVE Goal
      BY <2>1, <2>6 DEF BeginVoid, Idle
    <2>7. ASSUME UNCHANGED sess  PROVE Goal
      BY <2>7
    <2>9. ASSUME NEW o \in Order, NEW new \in SUBSET Unused, CreateOrder(s, o, new)
          PROVE  Goal
      BY <2>7, <2>9 DEF CreateOrder
    <2>10. ASSUME NEW i \in Invoice, ResolveInvoice(s, i)
                   \/ \E o \in Order \cup {NoOrder}, g \in Note \cup {NoNote} :
                          MatchInvoice(s, i, o, g)
           PROVE  Goal
      BY <2>7, <2>10 DEF MatchInvoice, ResolveInvoice
    <2> HIDE DEF Goal
    <2>8. Goal
      BY <1>1, <2>2, <2>3, <2>4, <2>5, <2>6, <2>9, <2>10 DEF Arrive
    <2> QED  BY <2>8 DEF Goal
  <1>2. CASE Posts(s)
    <2>1. ASSUME NEW c, NEW n, NEW pc, NEW lines, Add(s, c, n, pc, lines)
          PROVE  sess'[s].lines = lines
      BY <1>0, <2>1 DEF Add, SessionState
    <2>2. CASE ShelveLine(s)
      BY <2>1, <2>2 DEF ShelveLine
    <2>3. CASE CreditItem(s)
      BY <1>0, <2>1, <2>3 DEF CreditItem, HasItem
    <2>4. CASE ItemGone(s)
      BY <1>0, <2>4 DEF ItemGone, HasItem, SessionState
    <2>5. CASE SettleOrder(s) \/ NothingToSettle(s)
      BY <1>0, <2>5 DEF SettleOrder, NothingToSettle, SessionState
    <2> QED  BY <1>2, <2>2, <2>3, <2>4, <2>5 DEF Posts
  <1>3. CASE ~Arrive(s) /\ ~Posts(s)
    BY <1>0, <1>3, Ending
  <1> QED  BY <1>1, <1>2, <1>3

\* What notes brought, they go on having brought.
LinesKeep ==
    \A g \in Note : notes[g].status # "absent" =>
        \A c \in Kept' : Brought(notes'[g].lines, c) = Brought(notes[g].lines, c)

LEMMA SentStays ==
    ASSUME Inv, SettleInv, SentInv, NEW s \in Session, Step(s)
    PROVE  SentInv' /\ LinesKeep
  <1> DEFINE v == sess[s]
  <1>0. /\ TypeInv /\ v \in SessionState
        /\ \A q \in Session \ {s} : sess'[q] = sess[q]
    BY OthersStay DEF Inv, TypeInv, TypeOK
  <1>1. \A q \in Session : sess'[q].lines \in Seq(Sent)
    <2>1. <<>> \in Seq(Sent)
      OBVIOUS
    <2>2. sess'[s].lines \in Seq(Sent)
      BY <2>1, LinesMove, SentTail, DeliveriesSent DEF SentInv
    <2> QED  BY <1>0, <2>2 DEF SentInv
  <1>2. (\A g \in Note : notes'[g].lines \in Seq(Sent)) /\ LinesKeep
    <2>1. CASE \A g \in Note : notes'[g].lines = notes[g].lines
      BY <2>1 DEF SentInv, LinesKeep
    <2>2. CASE CommitPost(s) \/ CommitVoid(s)
      BY <2>1, <2>2, StatusLinks
    <2>3. CASE CommitReceive(s)
      <3>1. v.note \in Note /\ notes[v.note].status = "absent"
        BY <2>3 DEF CommitReceive, Inv, NotesHeld, Holds
      <3>2. notes'[v.note].lines = v.lines /\ \A g \in Note \ {v.note} : notes'[g] = notes[g]
        BY <1>0, <2>3, <3>1 DEF CommitReceive, TypeInv, TypeOK
      <3> QED  BY <3>1, <3>2 DEF SentInv, LinesKeep
    <2>4. CASE CommitEdit(s)
      <3>1. ASSUME NEW g \in Note
            PROVE  notes'[g].lines = [n \in DOMAIN notes[g].lines |->
                                         Unlink(notes[g].lines[n], v.drop)]
        BY <1>0, <2>4 DEF CommitEdit, TypeInv, TypeOK
      <3>2. v.drop \in SUBSET Item
        BY <1>0 DEF SessionState
      <3>3. \A c \in Kept' : c \notin v.drop /\ c \in Product \cup Item
        <4> SUFFICES ASSUME NEW c \in Kept', c \in v.drop PROVE FALSE
          BY DEF Kept
        <4>1. c \in Item /\ c \in spent /\ c \notin v.fresh /\ c \notin Product
          BY <3>2, TablesAssumption DEF SettleInv, IdsAreOnce
        <4>2. itemOf'[c] = NoOrder /\ c \in spent'
          BY <2>4, <4>1 DEF CommitEdit
        <4> QED  BY <4>1, <4>2 DEF Kept
      <3>4. ASSUME NEW g \in Note
            PROVE  /\ notes'[g].lines \in Seq(Sent)
                   /\ \A c \in Kept' : Brought(notes'[g].lines, c) = Brought(notes[g].lines, c)
        <4>1. PICK lines, left :
                /\ lines \in Seq(Sent) /\ lines = notes[g].lines /\ left = notes'[g].lines
                /\ left = [n \in DOMAIN lines |-> Unlink(lines[n], v.drop)]
          BY <3>1 DEF SentInv
        <4>2. left \in Seq(Sent)
          BY <3>2, <4>1, SentUnlinked
        <4>3. ASSUME NEW c \in Kept'  PROVE Brought(left, c) = Brought(lines, c)
          <5>1. c \notin v.drop /\ c \in Product \cup Item
            BY <3>3
          <5> QED  BY <3>2, <4>1, <5>1, UnitsUnlinked
        <4> QED  BY <4>1, <4>2, <4>3
      <3> QED  BY <3>4 DEF LinesKeep
    <2>5. UNCHANGED notes \/ CommitEdit(s) \/ CommitPost(s) \/ CommitVoid(s)
            \/ CommitReceive(s)
      BY TablesMove DEF CreateOrder, CommitStatus
    <2> QED  BY <2>1, <2>2, <2>3, <2>4, <2>5
  <1> QED  BY <1>1, <1>2 DEF SentInv

-----------------------------------------------------------------------------
(* What the postings brought *)

LEMMA PostedMoves ==
    ASSUME NEW s \in Session, Step(s), ~CommitPost(s)
    PROVE  UNCHANGED <<qty, posted>>
  <1>1. CASE Arrive(s)
    BY <1>1 DEF Arrive, CreateOrder, BeginEdit, BeginSubmit, BeginApprove, BeginCancel,
       BeginReceive, BeginPost, BeginVoid, MatchInvoice, ResolveInvoice, tables
  <1>2. CASE Rollback(s)
    BY <1>2 DEF Rollback, tables
  <1>3. CASE ShelveLine(s) \/ CreditItem(s) \/ ItemGone(s) \/ SettleOrder(s)
               \/ NothingToSettle(s)
    BY <1>3 DEF ShelveLine, CreditItem, ItemGone, SettleOrder, NothingToSettle, tables
  <1>4. CASE CommitStatus(s) \/ CommitEdit(s) \/ CommitReceive(s) \/ CommitVoid(s)
    BY <1>4 DEF CommitStatus, CommitEdit, CommitReceive, CommitVoid
  <1>5. CASE RefuseReceive(s) \/ RefusePost(s) \/ LockTimeout(s)
    BY <1>2, <1>5 DEF RefuseReceive, RefusePost, LockTimeout
  <1> QED  BY <1>1, <1>2, <1>3, <1>4, <1>5 DEF Step, Proceed

\* Unless a posting commits, the units received are those received before.
LEMMA ReceivedStays ==
    ASSUME Inv, Books, LinesKeep, UNCHANGED posted, NEW c \in Kept'
    PROVE  Received(c)' = Received(c)
  <1>1. ASSUME NEW g \in Note
        PROVE  ({g} \X (1..posted[g])) \X Brought(notes'[g].lines, c)
                 = ({g} \X (1..posted[g])) \X Brought(notes[g].lines, c)
    <2>1. CASE notes[g].status = "absent"
      <3>1. posted[g] = 0
        BY <2>1 DEF Books, NotePostsOnce
      <3>2. {g} \X (1..posted[g]) = {}
        BY <3>1
      <3> QED  BY <3>2
    <2>2. CASE notes[g].status # "absent"
      BY <2>2 DEF LinesKeep
    <2> QED  BY <2>1, <2>2
  <1> QED  BY <1>1 DEF Received

\* A posting that commits brings the units of its note, once each.
LEMMA ReceivedGrows ==
    ASSUME Inv, Books, SentInv, LinesKeep, NEW s \in Session, CommitPost(s),
           NEW c \in Kept', IsFiniteSet(Received(c))
    PROVE  /\ IsFiniteSet(Received(c)')
           /\ Cardinality(Received(c)')
                = Cardinality(Received(c)) + UnitsOf(notes[sess[s].note].lines, c)
  <1>1. PICK g \in Note : g = sess[s].note /\ notes[g].status = "draft"
    BY DEF CommitPost, Inv, NotesHeld, Holds
  <1> DEFINE units == Brought(notes[g].lines, c)
             new   == {<<g, 1>>} \X units
  <1>2. posted[g] = 0 /\ posted'[g] = 1 /\ \A n \in Note \ {g} : posted'[n] = posted[n]
    <2>1. posted \in [Note -> Nat]
      BY DEF Inv, TypeInv, TypeOK
    <2>2. posted[g] = 0
      BY <1>1 DEF Books, NotePostsOnce
    <2> QED  BY <1>1, <2>1, <2>2 DEF CommitPost
  <1>3. \A n \in Note : Brought(notes'[n].lines, c) = Brought(notes[n].lines, c)
    BY StatusLinks
  <1>4. ({g} \X (1..posted'[g])) \X units = new
    <2>1. 1..posted'[g] = {1}
      BY <1>2
    <2> QED  BY <2>1
  <1>5. ({g} \X (1..posted[g])) \X units = {}
    <2>1. 1..posted[g] = {}
      BY <1>2
    <2> QED  BY <2>1
  <1>6. Received(c)' = Received(c) \cup new
    <2> DEFINE was == [n \in Note |->
                         ({n} \X (1..posted[n])) \X Brought(notes[n].lines, c)]
               is  == [n \in Note |->
                         ({n} \X (1..posted'[n])) \X Brought(notes'[n].lines, c)]
    <2>1. Received(c) = UNION {was[n] : n \in Note}
      BY DEF Received
    <2>2. Received(c)' = UNION {is[n] : n \in Note}
      BY DEF Received
    <2>3. is[g] = new /\ was[g] = {}
      BY <1>3, <1>4, <1>5
    <2>4. \A n \in Note \ {g} : is[n] = was[n]
      BY <1>2, <1>3
    <2> HIDE DEF is, was, new
    <2> QED  BY <2>1, <2>2, <2>3, <2>4
  <1>7. Received(c) \cap new = {}
    <2> SUFFICES ASSUME NEW u \in Received(c), u \in new  PROVE FALSE
      OBVIOUS
    <2>1. PICK n \in Note : u \in ({n} \X (1..posted[n])) \X Brought(notes[n].lines, c)
      BY DEF Received
    <2>2. u[1] = <<g, 1>>
      OBVIOUS
    <2>3. u[1] \in {n} \X (1..posted[n])
      BY <2>1
    <2>4. n = g
      BY <2>2, <2>3
    <2> QED  BY <1>5, <2>1, <2>4
  <1>8. IsFiniteSet(units) /\ Cardinality(units) = UnitsOf(notes[g].lines, c)
    BY BroughtFinite DEF SentInv, UnitsOf
  <1>9. IsFiniteSet(new) /\ Cardinality(new) = UnitsOf(notes[g].lines, c)
    <2> HIDE DEF units
    <2> QED  BY <1>8, CardinalityOfColumn
  <1> HIDE DEF new
  <1> QED  BY <1>1, <1>6, <1>7, <1>9, CardinalityOfUnion

LEMMA StaysCounted ==
    ASSUME Inv, SettleInv, Books, CountInv, NEW s \in Session, Step(s)
    PROVE  Counted'
  <1>1. LinesKeep /\ Kept' \subseteq Kept
    BY SentStays, NothingComesBack, KeptStays DEF CountInv
  <1> SUFFICES ASSUME NEW c \in Kept'
               PROVE  /\ IsFiniteSet(Received(c)')
                      /\ qty'[c] = Opening(c) + Cardinality(Received(c)')
    BY DEF Counted, Opening
  <1>2. c \in Kept /\ c \in Counter
    BY <1>1, KeptAre
  <1>3. IsFiniteSet(Received(c)) /\ qty[c] = Opening(c) + Cardinality(Received(c))
    BY <1>2 DEF CountInv, Counted
  <1>4. CASE CommitPost(s)
    <2> DEFINE n == UnitsOf(notes[sess[s].note].lines, c)
    <2>1. /\ IsFiniteSet(Received(c)')
          /\ Cardinality(Received(c)') = Cardinality(Received(c)) + n
      BY <1>1, <1>3, <1>4, ReceivedGrows DEF CountInv
    <2>2. qty'[c] = InHand(s, c)
      BY <1>2, <1>4 DEF CommitPost
    <2>3. sess[s].lines = <<>> /\ InHand(s, c) + Left(s, c) = qty[c] + n
      BY <1>2, <1>4 DEF CommitPost, CountInv, InStep
    <2>4. Left(s, c) = 0
      BY <1>4, <2>3, NoUnits DEF CommitPost, Left
    <2>5. n \in Int /\ InHand(s, c) \in Int /\ qty[c] \in Int
      <3>1. sess[s].note \in Note
        BY <1>4 DEF CommitPost, Inv, NotesHeld, Holds
      <3> QED  BY <1>2, <3>1, InHandType, BroughtFinite DEF CountInv, SentInv, Inv, TypeInv,
               TypeOK
    <2>6. Cardinality(Received(c)) \in Nat /\ Opening(c) \in Int
      BY <1>3, FS_CardinalityType, OpeningAssumption DEF Opening
    <2> HIDE DEF n
    <2> QED  BY <1>3, <2>1, <2>2, <2>3, <2>4, <2>5, <2>6
  <1>5. CASE ~CommitPost(s)
    BY <1>1, <1>3, <1>5, PostedMoves, ReceivedStays
  <1> QED  BY <1>4, <1>5

-----------------------------------------------------------------------------
(* What a posting has in hand *)

LEMMA LeftType ==
    ASSUME Inv, SentInv, NEW s \in Session, NEW c
    PROVE  Left(s, c) \in Int /\ UnitsOf(sess[s].lines, c) \in Nat
  <1>1. sess[s].lines \in Seq(Sent)
    BY DEF SentInv
  <1>2. UnitsOf(sess[s].lines, c) \in Nat
    BY <1>1, BroughtFinite
  <1>3. sess[s].pc = "item" => Accepted(Head(sess[s].lines)) \in Nat
    BY <1>1, SentTail, BringsType DEF Inv, TypeInv, HasItem
  <1> QED  BY <1>2, <1>3 DEF Left

\* A posting keeps step while others work: nobody moves a counter it holds, and
\* one that it has not loaded it has in hand as it is.
LEMMA OthersInStep ==
    ASSUME Inv, SettleInv, CountInv, NEW s \in Session, Step(s),
           NEW q \in Session \ {s}
    PROVE  InStep(q)'
  <1> SUFFICES ASSUME sess'[q].op = "post"  PROVE InStep(q)'
    BY DEF InStep
  <1>0. /\ sess'[q] = sess[q] /\ sess[q] \in SessionState
        /\ \A r \in Row : lock[r] = q => lock'[r] = q
        /\ qty \in [Counter -> Int]
    BY OthersStay DEF Inv, TypeInv, TypeOK
  <1>1. LinesKeep /\ Kept' \subseteq Kept /\ SentInv
    BY SentStays, NothingComesBack, KeptStays DEF CountInv
  <1>2. /\ \A c \in sess[q].seen : lock[c] = q
        /\ sess[q].pc = "commit" => sess[q].lines = <<>>
        /\ \A c \in Kept :
              InHand(q, c) + Left(q, c) = qty[c] + UnitsOf(notes[sess[q].note].lines, c)
    BY <1>0 DEF CountInv, InStep
  <1>3. \A c \in sess[q].seen : lock'[c] = q
    BY <1>0, <1>2 DEF Row, Counter, SessionState
  <1>4. \A c \in Counter : c \in sess[q].seen => qty'[c] = qty[c]
    <2>1. CASE CommitPost(s)
      <3>1. \A c \in sess[s].seen : lock[c] = s
        BY <2>1 DEF CommitPost, CountInv, InStep
      <3>2. \A c \in Counter : c \notin sess[s].seen => qty'[c] = qty[c]
        BY <2>1 DEF CommitPost, InHand
      <3> QED  BY <1>2, <3>1, <3>2
    <2>2. CASE ~CommitPost(s)
      BY <2>2, PostedMoves
    <2> QED  BY <2>1, <2>2
  <1>5. PICK g \in Note : g = sess[q].note /\ notes[g].status # "absent"
    BY <1>0 DEF Inv, NotesHeld, Holds
  <1>6. ASSUME NEW c \in Kept'
        PROVE  InHand(q, c)' + Left(q, c)'
                 = qty'[c] + UnitsOf(notes'[sess'[q].note].lines, c)
    <2>1. c \in Kept /\ c \in Counter
      BY <1>1, KeptAre
    <2>2. UnitsOf(notes'[sess'[q].note].lines, c) = UnitsOf(notes[g].lines, c)
      BY <1>0, <1>1, <1>5 DEF LinesKeep, UnitsOf
    <2>3. Left(q, c)' = Left(q, c)
      BY <1>0 DEF Left
    <2>4. InHand(q, c) + Left(q, c) = qty[c] + UnitsOf(notes[g].lines, c)
      BY <1>2, <1>5, <2>1
    <2>5. CASE c \in sess[q].seen
      <3>1. InHand(q, c)' = InHand(q, c) /\ qty'[c] = qty[c]
        BY <1>0, <1>4, <2>1, <2>5 DEF InHand
      <3> QED  BY <2>2, <2>3, <2>4, <3>1
    <2>6. CASE c \notin sess[q].seen
      <3>1. InHand(q, c)' = qty'[c] /\ InHand(q, c) = qty[c]
        BY <1>0, <2>6 DEF InHand
      <3>2. Left(q, c) \in Int /\ UnitsOf(notes[g].lines, c) \in Int /\ qty[c] \in Int
        BY <1>0, <1>1, <2>1, LeftType, BroughtFinite DEF SentInv
      <3>3. Left(q, c) = UnitsOf(notes[g].lines, c)
        <4>1. \A a, m, n \in Int : a + m = a + n => m = n
          OBVIOUS
        <4>2. qty[c] + Left(q, c) = qty[c] + UnitsOf(notes[g].lines, c)
          BY <2>4, <3>1
        <4> QED  BY <3>2, <4>1, <4>2
      <3> QED  BY <2>2, <2>3, <3>1, <3>3
    <2> QED  BY <2>5, <2>6
  <1> QED  BY <1>0, <1>2, <1>3, <1>6 DEF InStep

\* Loading a counter and adding to it in memory.
LEMMA AddHand ==
    ASSUME Inv, NEW s \in Session, NEW k \in Counter, NEW n \in Int, NEW pc, NEW lines,
           Lock(s, k), Add(s, k, n, pc, lines), UNCHANGED qty
    PROVE  /\ sess'[s].note = sess[s].note /\ sess'[s].lines = lines /\ sess'[s].pc = pc
           /\ (\A c \in sess[s].seen : lock[c] = s) => \A c \in sess'[s].seen : lock'[c] = s
           /\ \A c \in Counter :
                 InHand(s, c)' = InHand(s, c) + IF c = k THEN n ELSE 0
  <1> DEFINE v == sess[s]
             w == [v EXCEPT !.mem = [v.mem EXCEPT ![k] = InHand(s, k) + n],
                            !.seen = v.seen \cup {k}, !.pc = pc, !.lines = lines]
  <1>0. /\ v \in SessionState /\ sess \in [Session -> SessionState]
        /\ lock \in [Row -> Session \cup {Free}] /\ TypeInv
    BY DEF Inv, TypeInv, TypeOK
  <1>1. sess'[s] = w
    BY <1>0 DEF Add
  <1>2. /\ w.note = v.note /\ w.lines = lines /\ w.pc = pc /\ w.seen = v.seen \cup {k}
        /\ w.mem = [v.mem EXCEPT ![k] = InHand(s, k) + n]
        /\ v.mem \in [Counter -> Int] /\ v.seen \subseteq Counter
    BY <1>0 DEF SessionState
  <1> HIDE DEF w
  <1>3. (\A c \in v.seen : lock[c] = s) => \A c \in sess'[s].seen : lock'[c] = s
    BY <1>0, <1>1, <1>2 DEF Lock, Row, Counter
  <1>4. ASSUME NEW c \in Counter
        PROVE  InHand(s, c)' = InHand(s, c) + IF c = k THEN n ELSE 0
    <2>1. InHand(s, c) \in Int
      BY <1>0, InHandType
    <2>2. InHand(s, c)' = IF c \in w.seen THEN w.mem[c] ELSE qty[c]
      BY <1>1 DEF InHand
    <2>3. CASE c = k
      BY <1>2, <2>2, <2>3
    <2>4. CASE c # k
      <3>1. InHand(s, c)' = InHand(s, c)
        BY <1>2, <2>2, <2>4 DEF InHand
      <3> QED  BY <2>1, <2>4, <3>1
    <2> QED  BY <2>3, <2>4
  <1> QED  BY <1>1, <1>2, <1>3, <1>4

\* Line by line: what a line adds to memory it takes from what is left.
LEMMA OwnInStep ==
    ASSUME Inv, SettleInv, CountInv, NEW s \in Session, Posts(s)
    PROVE  InStep(s)'
  <1> DEFINE v == sess[s]
             l == Head(v.lines)
  <1>0. /\ v \in SessionState /\ sess \in [Session -> SessionState] /\ HasItem(s)
        /\ v.lines \in Seq(Sent) /\ TypeInv
    BY DEF Inv, TypeInv, TypeOK, CountInv, SentInv
  <1>1. /\ v.op = "post" /\ sess'[s].note = v.note /\ UNCHANGED <<notes, qty>> /\ Kept' = Kept
    BY PostingMoves DEF tables, Kept
  <1>2. /\ \A c \in v.seen : lock[c] = s
        /\ v.pc = "commit" => v.lines = <<>>
        /\ \A c \in Kept : InHand(s, c) + Left(s, c) = qty[c] + UnitsOf(notes[v.note].lines, c)
    BY <1>1 DEF CountInv, InStep
  <1>3. \A c \in Kept : c \in Counter /\ InHand(s, c) \in Int /\ Left(s, c) \in Int
                          /\ UnitsOf(v.lines, c) \in Nat
    BY <1>0, KeptAre, InHandType, LeftType DEF CountInv
  <1>4. ASSUME \A c \in sess'[s].seen : lock'[c] = s,
               sess'[s].pc = "commit" => sess'[s].lines = <<>>,
               \A c \in Kept : InHand(s, c)' + Left(s, c)' = InHand(s, c) + Left(s, c)
        PROVE  InStep(s)'
    BY <1>1, <1>2, <1>4 DEF InStep
  <1>5. ASSUME v.lines # <<>>
        PROVE  /\ l \in Sent /\ l.product \in Product /\ l.product \in Counter
               /\ Accepted(l) \in Nat /\ l.got \in Nat /\ Tail(v.lines) \in Seq(Sent)
               /\ \A c \in Kept : /\ UnitsOf(Tail(v.lines), c) \in Nat /\ Brings(l, c) \in Nat
                                  /\ UnitsOf(v.lines, c)
                                       = Brings(l, c) + UnitsOf(Tail(v.lines), c)
    <2>1. l \in Sent /\ Tail(v.lines) \in Seq(Sent)
      BY <1>0, <1>5, SentTail
    <2>2. l.product \in Product /\ l.product \in Counter
      BY <2>1 DEF Sent, GrnLine, Counter
    <2> QED  BY <1>0, <1>5, <2>1, <2>2, UnitsOfHead, BringsType, BroughtFinite
  <1>6. CASE ShelveLine(s)
    <2>1. v.lines # <<>> /\ v.pc = "shelf" /\ Lock(s, l.product)
      BY <1>6 DEF ShelveLine
    <2>2. \A c \in Kept : Left(s, c) = UnitsOf(v.lines, c)
      BY <1>3, <2>1 DEF Left
    <2>3. CASE l.item = NoItem
      <3>1. Add(s, l.product, Accepted(l), "shelf", Tail(v.lines))
        BY <1>6, <2>3 DEF ShelveLine
      <3>2. /\ sess'[s].lines = Tail(v.lines) /\ sess'[s].pc = "shelf"
            /\ \A c \in sess'[s].seen : lock'[c] = s
            /\ \A c \in Counter : InHand(s, c)' = InHand(s, c)
                                       + IF c = l.product THEN Accepted(l) ELSE 0
        BY <1>1, <1>2, <1>5, <2>1, <3>1, AddHand
      <3>3. ASSUME NEW c \in Kept
            PROVE  InHand(s, c)' + Left(s, c)' = InHand(s, c) + Left(s, c)
        <4>1. Left(s, c)' = UnitsOf(Tail(v.lines), c)
          BY <1>5, <2>1, <3>2 DEF Left
        <4>2. Brings(l, c) = IF c = l.product THEN Accepted(l) ELSE 0
          BY <2>3, NothingAssumption DEF Brings
        <4>3. UnitsOf(v.lines, c) = Brings(l, c) + UnitsOf(Tail(v.lines), c)
          BY <1>5, <2>1
        <4>4. InHand(s, c)' = InHand(s, c) + Brings(l, c)
          BY <1>3, <3>2, <4>2
        <4>5. Left(s, c) = Brings(l, c) + Left(s, c)'
          BY <2>2, <4>1, <4>3
        <4>6. /\ InHand(s, c) \in Int /\ Brings(l, c) \in Int /\ Left(s, c)' \in Int
          BY <1>3, <1>5, <2>1, <4>1
        <4>7. \A a, b, n \in Int : (a + b) + n = a + (b + n)
          OBVIOUS
        <4> QED  BY <4>4, <4>5, <4>6, <4>7
      <3> QED  BY <1>4, <3>2, <3>3
    <2>4. CASE l.item # NoItem
      <3>1. Add(s, l.product, Accepted(l), "item", v.lines)
        BY <1>6, <2>4 DEF ShelveLine
      <3>2. /\ sess'[s].lines = v.lines /\ sess'[s].pc = "item"
            /\ \A c \in sess'[s].seen : lock'[c] = s
            /\ \A c \in Counter : InHand(s, c)' = InHand(s, c)
                                       + IF c = l.product THEN Accepted(l) ELSE 0
        BY <1>1, <1>2, <1>5, <2>1, <3>1, AddHand
      <3>3. ASSUME NEW c \in Kept
            PROVE  InHand(s, c)' + Left(s, c)' = InHand(s, c) + Left(s, c)
        <4> DEFINE n == IF c = l.product THEN Accepted(l) ELSE 0
        <4>1. Left(s, c)' = UnitsOf(v.lines, c) - n
          BY <3>2 DEF Left
        <4>2. InHand(s, c)' = InHand(s, c) + n
          BY <1>3, <3>2
        <4>3. n \in Int
          BY <1>5, <2>1
        <4>4. InHand(s, c) \in Int /\ UnitsOf(v.lines, c) \in Int
          BY <1>3
        <4>5. \A a, b, m \in Int : (a + m) + (b - m) = a + b
          OBVIOUS
        <4> HIDE DEF n
        <4> QED  BY <2>2, <4>1, <4>2, <4>3, <4>4, <4>5
      <3> QED  BY <1>4, <3>2, <3>3
    <2> QED  BY <2>3, <2>4
  <1>7. CASE CreditItem(s) \/ ItemGone(s)
    <2>1. v.pc = "item" /\ v.lines # <<>> /\ l.item \in Item /\ l.item # l.product
      <3>1. v.pc = "item" /\ v.lines # <<>> /\ l.item \in Item
        BY <1>0, <1>7 DEF CreditItem, ItemGone, HasItem
      <3> QED  BY <1>5, <3>1, TablesAssumption
    <2> DEFINE n(c) == IF c = l.item THEN l.got ELSE 0
    <2>2. ASSUME NEW c \in Kept, sess'[s].lines = Tail(v.lines), sess'[s].pc = "shelf",
                 InHand(s, c)' = InHand(s, c) + n(c)
          PROVE  InHand(s, c)' + Left(s, c)' = InHand(s, c) + Left(s, c)
      <3> DEFINE k == IF c = l.product THEN Accepted(l) ELSE 0
      <3>1. Left(s, c)' = UnitsOf(Tail(v.lines), c)
        BY <1>5, <2>1, <2>2 DEF Left
      <3>2. Left(s, c) = UnitsOf(v.lines, c) - k
        BY <2>1 DEF Left
      <3>3. UnitsOf(v.lines, c) = Brings(l, c) + UnitsOf(Tail(v.lines), c)
        BY <1>5, <2>1
      <3>4. Brings(l, c) = k + n(c)
        BY <1>5, <2>1 DEF Brings
      <3>5. k \in Int /\ n(c) \in Int /\ InHand(s, c) \in Int
              /\ UnitsOf(Tail(v.lines), c) \in Int
        BY <1>3, <1>5, <2>1
      <3>6. \A a, b, m, j \in Int : (a + m) + b = a + (((j + m) + b) - j)
        OBVIOUS
      <3> HIDE DEF k, n
      <3> QED  BY <2>2, <3>1, <3>2, <3>3, <3>4, <3>5, <3>6
    <2>3. CASE CreditItem(s)
      <3>1. Lock(s, l.item) /\ Add(s, l.item, l.got, "shelf", Tail(v.lines))
        BY <2>3 DEF CreditItem
      <3>2. l.item \in Counter /\ l.got \in Int
        BY <1>5, <2>1 DEF Counter
      <3>3. /\ sess'[s].lines = Tail(v.lines) /\ sess'[s].pc = "shelf"
            /\ \A c \in sess'[s].seen : lock'[c] = s
            /\ \A c \in Counter : InHand(s, c)' = InHand(s, c) + n(c)
        BY <1>1, <1>2, <3>1, <3>2, AddHand
      <3>4. \A c \in Kept : InHand(s, c)' + Left(s, c)' = InHand(s, c) + Left(s, c)
        BY <1>3, <2>2, <3>3
      <3> QED  BY <1>4, <3>3, <3>4
    <2>4. CASE ItemGone(s)
      <3>1. /\ sess'[s].lines = Tail(v.lines) /\ sess'[s].pc = "shelf"
            /\ sess'[s].seen = v.seen /\ sess'[s].mem = v.mem /\ UNCHANGED lock
        BY <1>0, <2>4 DEF ItemGone, SessionState
      <3>2. l.item \notin Kept
        <4>1. l.item \in Linked(v.lines)
          <5>1. v.lines \in Seq(GrnLine)
            BY <1>0 DEF SessionState
          <5> QED  BY <2>1, <5>1, LinkedStep, NothingAssumption
        <4>2. l.item \in spent
          BY <1>1, <4>1 DEF SettleInv, PostingsAreSound, Follows, NamedBy
        <4>3. itemOf[l.item] = NoOrder /\ l.item \notin Product
          BY <2>1, <2>4, TablesAssumption DEF ItemGone
        <4> QED  BY <4>2, <4>3 DEF Kept
      <3>3. ASSUME NEW c \in Kept
            PROVE  InHand(s, c)' + Left(s, c)' = InHand(s, c) + Left(s, c)
        <4>1. InHand(s, c)' = InHand(s, c) /\ InHand(s, c) \in Int /\ n(c) = 0
          BY <1>1, <1>3, <3>1, <3>2 DEF InHand
        <4> QED  BY <2>2, <3>1, <4>1
      <3> QED  BY <1>2, <1>4, <3>1, <3>3
    <2> QED  BY <1>7, <2>3, <2>4
  <1>8. CASE SettleOrder(s) \/ NothingToSettle(s)
    <2>1. /\ v.lines = <<>> /\ v.pc = "shelf" /\ sess'[s].lines = <<>>
          /\ sess'[s].pc = "commit" /\ sess'[s].seen = v.seen /\ sess'[s].mem = v.mem
      BY <1>0, <1>8 DEF SettleOrder, NothingToSettle, SessionState
    <2>2. \A c \in v.seen : lock'[c] = s
      <3>1. lock \in [Row -> Session \cup {Free}] /\ v.seen \subseteq Row
        BY <1>0 DEF TypeInv, TypeOK, SessionState, Counter, Row
      <3> QED  BY <1>2, <1>8, <3>1 DEF SettleOrder, NothingToSettle, Lock
    <2>3. \A c \in Kept : InHand(s, c)' = InHand(s, c) /\ Left(s, c)' = Left(s, c)
      BY <1>1, <2>1 DEF InHand, Left
    <2> QED  BY <1>4, <2>1, <2>2, <2>3
  <1> QED  BY <1>6, <1>7, <1>8 DEF Posts

LEMMA AllInStep ==
    ASSUME Inv, SettleInv, CountInv, NEW s \in Session, Step(s), NEW q \in Session
    PROVE  InStep(q)'
  <1> DEFINE w == sess'[s]
  <1>1. CASE q # s
    BY <1>1, OthersInStep
  <1>2. CASE q = s /\ Posts(s)
    BY <1>2, OwnInStep
  <1>3. CASE q = s /\ Arrive(s)
    <2>1. sess[s].pc = "idle" /\ sess[s].op = "none"
      BY <1>3, Arrives DEF Inv, NotesHeld, Holds
    <2>2. CASE UNCHANGED sess
      BY <1>3, <2>1, <2>2 DEF InStep
    <2>3. CASE sess' # sess /\ w.op = "post"
      <3>1. /\ UNCHANGED <<itemOf, spent, notes>> /\ w.pc = "shelf" /\ w.note \in Note
            /\ w.lines = notes[w.note].lines /\ w.seen = {}
        BY <1>3, <2>3, Beginning
      <3>2. PICK g \in Note : g = w.note
        BY <3>1
      <3>3. UNCHANGED qty /\ Kept' = Kept
        <4>1. ~CommitPost(s)
          BY <2>1 DEF CommitPost
        <4> QED  BY <1>3, <3>1, <4>1, PostedMoves DEF Step, Kept
      <3>4. \A c \in Kept : InHand(s, c)' = qty[c]
                              /\ Left(s, c)' = UnitsOf(notes[g].lines, c)
        <4>1. \A c \in Kept : UnitsOf(notes[g].lines, c) \in Nat
          BY BroughtFinite DEF CountInv, SentInv
        <4> QED  BY <3>1, <3>2, <3>3, <4>1 DEF InHand, Left
      <3> QED  BY <1>3, <3>1, <3>2, <3>3, <3>4 DEF InStep
    <2>4. CASE w.op # "post"
      BY <1>3, <2>4 DEF InStep
    <2> QED  BY <2>2, <2>3, <2>4
  <1>4. CASE q = s /\ ~Arrive(s) /\ ~Posts(s)
    <2>1. w = Idle
      BY <1>4, Ending
    <2> QED  BY <1>4, <2>1 DEF Idle, InStep
  <1> QED  BY <1>1, <1>2, <1>3, <1>4

LEMMA NextCount == Inv /\ SettleInv /\ Books /\ CountInv /\ [Next]_vars => CountInv'
  <1> SUFFICES ASSUME Inv, SettleInv, Books, CountInv, [Next]_vars  PROVE CountInv'
    OBVIOUS
  <1>1. ASSUME NEW s \in Session, Step(s)  PROVE CountInv'
    BY <1>1, SentStays, StaysCounted, AllInStep DEF CountInv
  <1>2. CASE UNCHANGED vars
    <2>1. Kept' = Kept /\ \A c \in Kept : Received(c)' = Received(c)
      BY <1>2 DEF vars, Kept, Received
    <2>2. \A s \in Session, c \in Kept : InHand(s, c)' = InHand(s, c) /\ Left(s, c)' = Left(s, c)
      BY <1>2 DEF vars, InHand, Left
    <2> QED  BY <1>2, <2>1, <2>2 DEF vars, CountInv, SentInv, Counted, InStep, Opening
  <1> QED  BY <1>1, <1>2 DEF Next, Closed, Crash, Step

LEMMA InitCount == Init => CountInv
  <1> SUFFICES ASSUME Init  PROVE CountInv
    OBVIOUS
  <1>1. SentInv
    <2>1. <<>> \in Seq(Sent)
      OBVIOUS
    <2> QED  BY <2>1 DEF Init, Idle, NoRow, SentInv
  <1>2. Counted
    <2> SUFFICES ASSUME NEW c \in Kept
                 PROVE  /\ IsFiniteSet(Received(c))
                        /\ qty[c] = Opening(c) + Cardinality(Received(c))
      BY DEF Counted
    <2>1. Received(c) = {}
      <3>1. \A g \in Note : notes[g].lines = <<>>
        BY DEF Init, NoRow
      <3>2. \A g \in Note : ({g} \X (1..posted[g])) \X Brought(notes[g].lines, c) = {}
        BY <3>1, NoUnits
      <3> QED  BY <3>2 DEF Received
    <2>2. qty[c] = Opening(c) /\ Opening(c) \in Int
      BY KeptAre, OpeningAssumption DEF Init, Opening
    <2> QED  BY <2>1, <2>2, FS_EmptySet
  <1>3. \A s \in Session : InStep(s)
    BY DEF Init, Idle, InStep
  <1> QED  BY <1>1, <1>2, <1>3 DEF CountInv

LEMMA CountCorrect == Spec => []CountInv
  BY InitCount, NextCount, SettleCorrect, BooksCorrect, PTL DEF Spec

\* The stock of a product and the received quantity of an order item are the
\* units that the posted notes brought, for any number of postings at once, over
\* the same products and items, in any order, timed out, refused or crashed: a
\* posting that has loaded a counter holds it, so what it has in hand and still
\* has to add is the counter that is there and its own note.
THEOREM CountersTheorem == Spec => []CountersArePostings
  <1>1. CountInv => CountersArePostings
    BY DEF CountInv, Counted, Kept, CountersArePostings
  <1> QED  BY CountCorrect, <1>1, PTL
=============================================================================
