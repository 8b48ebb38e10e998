-------------------------- MODULE OfflineQueueProofs --------------------------
(***************************************************************************)
(* Proofs about OfflineQueue, for every set of sales and pages and every   *)
(* number of moves and faults.  The invariant follows a key through its    *)
(* life: one till uses it, a till that may still sell it has not queued it *)
(* and does not know it sold, and a row that a drain has in hand waits and *)
(* is in no other drain, unless two drains have shared it.                 *)
(***************************************************************************)
EXTENDS OfflineQueue, SequenceTheorems, TLAPS

\* p has s as its cart's key, or its handler took it.
Uses(p, s) == till[p].key = s \/ (till[p].pc = "post" /\ till[p].sending = s)

\* A key is one till's, and nothing is known of one that is not in use.
KeysAreApart ==
    /\ \A p, q \in Page : \A s \in Sale : Uses(p, s) /\ Uses(q, s) => p = q
    /\ \A p \in Page : \A s \in Sale : Uses(p, s) => s \in rung
    /\ \A s \in Sale \ rung : status[s] = "none" /\ sold[s] = 0

Unsold(s) == sold[s] = 0 \/ s \in unanswered

\* A till that may sell its key has not queued it, and knows of no sale of it.
TillsAreFresh ==
    \A p \in Page :
        /\ till[p].pc = "post" =>
              /\ till[p].sending \in Sale
              /\ till[p].key \in {till[p].sending, NoSale} /\ ~till[p].receipt
              /\ status[till[p].sending] = "none" /\ Unsold(till[p].sending)
        /\ till[p].key # NoSale /\ ~till[p].receipt =>
              status[till[p].key] = "none" /\ Unsold(till[p].key)

Rows(p) == DOMAIN drain[p].todo

\* A row in a drain's hand is in the queue, waits, and is in that hand once,
\* unless it is shared.
DrainsAreApart ==
    /\ \A p \in Page : \A i \in Rows(p) :
          /\ status[drain[p].todo[i]] # "none"
          /\ drain[p].todo[i] \notin shared => Unsynced(drain[p].todo[i])
    /\ \A p, q \in Page : \A i \in Rows(p), j \in Rows(q) :
          drain[p].todo[i] = drain[q].todo[j] /\ drain[p].todo[i] \notin shared =>
              p = q /\ i = j

\* What a drain is about to mark as synced it knows to be sold, or its session
\* has died.
MarksAreKnown ==
    /\ \A p \in Page : drain[p].pc = "clear" => \/ sold[Head(drain[p].todo)] > 0
                                                \/ Head(drain[p].todo) \in dropped
    /\ \A s \in Sale : status[s] = "synced" => sold[s] > 0 \/ s \in dropped

\* What waits is in the queue.
QueueHasRows == \A s \in Sale : s \in ToSet(queue) <=> status[s] # "none"

QueueInv == TypeOK /\ QueueHasRows /\ DrainsAreApart

OfflineInv ==
    /\ QueueInv /\ KeysAreApart /\ TillsAreFresh /\ MarksAreKnown
    /\ ReceiptIsKept /\ SoldTwiceUnawares /\ WaitingIsUnsold

-----------------------------------------------------------------------------
(* Sequences *)

LEMMA ToSetRange ==
    ASSUME NEW S, NEW seq \in Seq(S)
    PROVE  /\ ToSet(seq) \subseteq S
           /\ \A x : x \in ToSet(seq) <=> \E i \in DOMAIN seq : seq[i] = x
BY DEF ToSet

LEMMA HeadAndTail ==
    ASSUME NEW S, NEW seq \in Seq(S), seq # <<>>
    PROVE  /\ Head(seq) \in S /\ Head(seq) = seq[1] /\ 1 \in DOMAIN seq
           /\ Tail(seq) \in Seq(S)
           /\ \A i \in DOMAIN Tail(seq) : i + 1 \in DOMAIN seq /\ Tail(seq)[i] = seq[i + 1]
           /\ \A i \in DOMAIN Tail(seq) : i \in Nat \ {0}
           /\ Len(seq) = 1 <=> Tail(seq) = <<>>
<1>1. /\ Head(seq) \in S /\ Tail(seq) \in Seq(S) /\ Len(Tail(seq)) = Len(seq) - 1
      /\ \A i \in 1 .. Len(Tail(seq)) : Tail(seq)[i] = seq[i + 1]
  BY HeadTailProperties
<1>2. Len(seq) \in Nat \ {0} /\ DOMAIN seq = 1..Len(seq)
  BY EmptySeq, LenProperties
<1>3. DOMAIN Tail(seq) = 1..Len(Tail(seq))
  BY <1>1, LenProperties
<1>4. Len(Tail(seq)) = 0 <=> Tail(seq) = <<>>
  BY <1>1, EmptySeq
<1>5. Head(seq) = seq[1]
  BY <1>2
<1> QED
  BY <1>1, <1>2, <1>3, <1>4, <1>5

LEMMA AppendAt ==
    ASSUME NEW S, NEW seq \in Seq(S), NEW x \in S
    PROVE  /\ Append(seq, x) \in Seq(S)
           /\ DOMAIN Append(seq, x) = DOMAIN seq \cup {Len(seq) + 1}
           /\ Len(seq) + 1 \notin DOMAIN seq
           /\ Append(seq, x)[Len(seq) + 1] = x
           /\ \A i \in DOMAIN seq : Append(seq, x)[i] = seq[i]
<1>1. /\ Append(seq, x) \in Seq(S) /\ Len(Append(seq, x)) = Len(seq) + 1
      /\ \A i \in 1 .. Len(seq) : Append(seq, x)[i] = seq[i]
      /\ Append(seq, x)[Len(seq) + 1] = x
  BY AppendProperties
<1>2. Len(seq) \in Nat /\ DOMAIN seq = 1..Len(seq)
  BY LenProperties
<1>3. DOMAIN Append(seq, x) = 1..Len(seq) + 1
  BY <1>1, LenProperties
<1> QED
  BY <1>1, <1>2, <1>3

\* What getQueue returns: rows that wait, each once.
LEMMA GetQueueItems ==
    ASSUME TypeOK, NEW items \in SeqOf(ToSet(queue), Len(queue)), GetQueue(items)
    PROVE  /\ items \in Seq(Sale)
           /\ \A i \in DOMAIN items : Unsynced(items[i])
           /\ \A i, j \in DOMAIN items : items[i] = items[j] => i = j
<1>1. /\ queue \in Seq(Sale) /\ ToSet(queue) \subseteq Sale
      /\ \A i, j \in DOMAIN queue : queue[i] = queue[j] => i = j
      /\ DOMAIN queue = 1..Len(queue) /\ Len(queue) \in Nat
  BY ToSetRange, LenProperties DEF TypeOK
<1>2. PICK m \in 0..Len(queue) : items \in [1..m -> ToSet(queue)]
  BY DEF SeqOf
<1>3. items \in Seq(Sale) /\ DOMAIN items = 1..m
  BY <1>1, <1>2, SeqDef
<1>4. \A i \in DOMAIN items : Unsynced(items[i])
  <2> TAKE i \in DOMAIN items
  <2>1. items[i] \in ToSet(items)
    BY DEF ToSet
  <2> QED
    BY <2>1 DEF GetQueue, Lists
<1>5. \A i, j \in DOMAIN items : i < j => items[i] # items[j]
  BY <1>1 DEF GetQueue, Lists
<1> QED
  BY <1>2, <1>3, <1>4, <1>5

-----------------------------------------------------------------------------
(* What the parts of a step change *)

DrainsInShape ==
    /\ drain \in [Page -> Drain]
    /\ \A p \in Page : drain[p].todo = <<>> <=> drain[p].pc = "idle"

LEMMA Fields ==
    ASSUME TypeOK, NEW p \in Page
    PROVE  /\ till[p] \in Till /\ till[p].pc \in {"idle", "post"}
           /\ till[p].key \in Sale \cup {NoSale} /\ till[p].sending \in Sale \cup {NoSale}
           /\ till[p].receipt \in BOOLEAN
           /\ drain[p] \in Drain /\ drain[p].pc \in {"idle", "post", "clear", "fail"}
           /\ drain[p].todo \in Seq(Sale)
BY DEF TypeOK, Till, Drain

LEMMA AtHand ==
    ASSUME TypeOK, NEW p \in Page, drain[p].pc # "idle"
    PROVE  /\ Head(drain[p].todo) \in Sale /\ 1 \in Rows(p)
           /\ Head(drain[p].todo) = drain[p].todo[1]
BY Fields, HeadAndTail DEF TypeOK, Rows

LEMMA TurnsEffect ==
    ASSUME TypeOK, NEW p \in Page, drain[p].pc # "idle",
           NEW pc \in {"post", "clear", "fail"}, Turns(p, pc)
    PROVE  /\ DrainsInShape'
           /\ \A q \in Page : drain'[q].todo = drain[q].todo
           /\ \A q \in Page : drain'[q].pc = IF q = p THEN pc ELSE drain[q].pc
<1>1. drain \in [Page -> Drain] /\ drain' = [drain EXCEPT ![p] = [drain[p] EXCEPT !.pc = pc]]
  BY DEF TypeOK, Turns
<1>2. [drain[p] EXCEPT !.pc = pc] \in Drain
  BY Fields DEF Drain
<1>3. /\ [drain[p] EXCEPT !.pc = pc].todo = drain[p].todo
      /\ [drain[p] EXCEPT !.pc = pc].pc = pc
  BY Fields DEF Drain
<1> QED
  BY <1>1, <1>2, <1>3 DEF DrainsInShape, TypeOK

LEMMA MarksEffect ==
    ASSUME TypeOK, NEW p \in Page, drain[p].pc # "idle",
           NEW mark \in {"synced", "failed"}, Marks(p, mark)
    PROVE  /\ DrainsInShape'
           /\ \A q \in Page \ {p} : drain'[q] = drain[q]
           /\ drain'[p].todo = Tail(drain[p].todo) /\ drain'[p].pc \in {"idle", "post"}
           /\ status' \in [Sale -> {"none", "pending", "failed", "synced"}]
           /\ \A s \in Sale : status'[s] = IF s = Head(drain[p].todo) THEN mark ELSE status[s]
<1>1. /\ drain \in [Page -> Drain] /\ drain[p].todo \in Seq(Sale) /\ drain[p].todo # <<>>
      /\ status \in [Sale -> {"none", "pending", "failed", "synced"}]
  BY Fields DEF TypeOK
<1>2. /\ Head(drain[p].todo) \in Sale /\ Tail(drain[p].todo) \in Seq(Sale)
      /\ Len(drain[p].todo) = 1 <=> Tail(drain[p].todo) = <<>>
  BY <1>1, HeadAndTail
<1> DEFINE d == IF Len(drain[p].todo) = 1 THEN Resting
                ELSE [pc |-> "post", todo |-> Tail(drain[p].todo)]
<1>3. drain' = [drain EXCEPT ![p] = d]
  BY DEF Marks
<1>4. /\ d \in Drain /\ d.todo = Tail(drain[p].todo) /\ d.pc \in {"idle", "post"}
      /\ d.todo = <<>> <=> d.pc = "idle"
  BY <1>2, EmptySeq DEF Drain, Resting
<1> HIDE DEF d
<1>5. status' = [status EXCEPT ![Head(drain[p].todo)] = mark]
  BY DEF Marks
<1> QED
  BY <1>1, <1>2, <1>3, <1>4, <1>5 DEF DrainsInShape, TypeOK

DrainBegins(items) ==
    LET starts == {p \in Page : p = mounted /\ drain[p].pc = "idle"} IN
    /\ GetQueue(items)
    /\ drain' = [p \in Page |->
          IF p \in starts /\ items # <<>> THEN [pc |-> "post", todo |-> items]
          ELSE drain[p]]
    /\ shared' = IF starts = {} THEN shared
                 ELSE shared \cup (ToSet(items) \cap
                                   UNION {ToSet(drain[q].todo) : q \in Page})

LEMMA DrainBeginsEffect ==
    ASSUME TypeOK, NEW items \in SeqOf(ToSet(queue), Len(queue)), DrainBegins(items)
    PROVE  items \in Seq(Sale) /\ \E starts \in SUBSET Page :
              /\ \A i \in DOMAIN items : Unsynced(items[i])
              /\ \A i, j \in DOMAIN items : items[i] = items[j] => i = j
              /\ \A p, q \in starts : p = q
              /\ \A p \in Page : p \in starts => drain[p].pc = "idle"
              /\ DrainsInShape'
              /\ \A p \in Page : \/ drain'[p] = drain[p]
                                 \/ /\ p \in starts
                                    /\ drain'[p].todo = items /\ drain'[p].pc = "post"
              /\ shared' \subseteq Sale /\ shared \subseteq shared'
              /\ starts # {} => \A q \in Page : \A i \in DOMAIN items, j \in Rows(q) :
                    items[i] = drain[q].todo[j] => items[i] \in shared'
<1> DEFINE starts == {p \in Page : p = mounted /\ drain[p].pc = "idle"}
<1>1. /\ items \in SeqOf(ToSet(queue), Len(queue)) /\ GetQueue(items)
      /\ drain' = [p \in Page |->
            IF p \in starts /\ items # <<>> THEN [pc |-> "post", todo |-> items]
            ELSE drain[p]]
      /\ shared' = IF starts = {} THEN shared
                   ELSE shared \cup (ToSet(items) \cap
                                     UNION {ToSet(drain[q].todo) : q \in Page})
  BY DEF DrainBegins
<1>2. /\ items \in Seq(Sale)
      /\ \A i \in DOMAIN items : Unsynced(items[i])
      /\ \A i, j \in DOMAIN items : items[i] = items[j] => i = j
  BY <1>1, GetQueueItems
<1>3. drain \in [Page -> Drain] /\ shared \subseteq Sale
  BY DEF TypeOK
<1>4. /\ starts \subseteq Page /\ \A p, q \in starts : p = q
      /\ \A p \in starts : drain[p].pc = "idle"
  OBVIOUS
<1> HIDE DEF starts
<1>5. items # <<>> => [pc |-> "post", todo |-> items] \in Drain
  BY <1>2 DEF Drain
<1>6. DrainsInShape'
  BY <1>1, <1>3, <1>5 DEF DrainsInShape, TypeOK
<1>7. ToSet(items) \subseteq Sale
  BY <1>2, ToSetRange
<1>8. \A q \in Page : \A i \in DOMAIN items, j \in Rows(q) :
        items[i] = drain[q].todo[j] =>
            items[i] \in ToSet(items) \cap UNION {ToSet(drain[r].todo) : r \in Page}
  BY DEF ToSet, Rows
<1>9. shared' \subseteq Sale /\ shared \subseteq shared'
  BY <1>1, <1>3, <1>7
<1>10. starts # {} => \A q \in Page : \A i \in DOMAIN items, j \in Rows(q) :
          items[i] = drain[q].todo[j] => items[i] \in shared'
  BY <1>1, <1>8
<1>11. \A p \in Page : \/ drain'[p] = drain[p]
                       \/ /\ p \in starts
                          /\ drain'[p].todo = items /\ drain'[p].pc = "post"
  BY <1>1
<1> QED
  BY <1>2, <1>4, <1>6, <1>9, <1>10, <1>11

LEMMA GoOnlineEffect ==
    ASSUME TypeOK, GoOnline
    PROVE  \E items \in Seq(Sale), starts \in SUBSET Page :
              /\ \A i \in DOMAIN items : Unsynced(items[i])
              /\ \A i, j \in DOMAIN items : items[i] = items[j] => i = j
              /\ \A p, q \in starts : p = q
              /\ \A p \in Page : p \in starts => drain[p].pc = "idle"
              /\ DrainsInShape'
              /\ \A p \in Page : \/ drain'[p] = drain[p]
                                 \/ /\ p \in starts
                                    /\ drain'[p].todo = items /\ drain'[p].pc = "post"
              /\ shared' \subseteq Sale /\ shared \subseteq shared'
              /\ starts # {} => \A q \in Page : \A i \in DOMAIN items, j \in Rows(q) :
                    items[i] = drain[q].todo[j] => items[i] \in shared'
<1>1. CASE UNCHANGED <<drain, shared>>
  <2>1. <<>> \in Seq(Sale) /\ DOMAIN <<>> = {} /\ {} \in SUBSET Page
    OBVIOUS
  <2>2. DrainsInShape' /\ shared' \subseteq Sale /\ shared \subseteq shared'
    BY <1>1 DEF TypeOK, DrainsInShape
  <2> QED
    BY <1>1, <2>1, <2>2
<1>2. CASE \E items \in SeqOf(ToSet(queue), Len(queue)) : DrainBegins(items)
  BY <1>2, DrainBeginsEffect
<1> QED
  BY <1>1, <1>2 DEF GoOnline, DrainBegins

\* What a step makes of one page's till.
TillBecomes(p, key, sending, pc, receipt) ==
    /\ till' \in [Page -> Till]
    /\ \A q \in Page \ {p} : till'[q] = till[q]
    /\ till'[p].key = key /\ till'[p].sending = sending
    /\ till'[p].pc = pc /\ till'[p].receipt = receipt

LEMMA SellOnlineEffect ==
    ASSUME TypeOK, NEW p \in Page, NEW s \in Sale, SellOnline(p, s)
    PROVE  TillBecomes(p, s, s, "post", till[p].receipt)
<1>1. till' = [till EXCEPT ![p] =
                  [till[p] EXCEPT !.key = s, !.sending = s, !.pc = "post"]]
  BY DEF SellOnline, TypeOK
<1>2. [till[p] EXCEPT !.key = s, !.sending = s, !.pc = "post"] \in Till
  BY Fields DEF Till
<1> QED
  BY <1>1, <1>2, Fields DEF TypeOK, Till, TillBecomes

LEMMA SellOfflineEffect ==
    ASSUME TypeOK, NEW p \in Page, NEW s \in Sale, SellOffline(p, s)
    PROVE  TillBecomes(p, s, till[p].sending, till[p].pc, TRUE)
<1>1. till' = [till EXCEPT ![p] = [till[p] EXCEPT !.key = s, !.receipt = TRUE]]
  BY DEF SellOffline, TypeOK
<1>2. [till[p] EXCEPT !.key = s, !.receipt = TRUE] \in Till
  BY Fields DEF Till
<1> QED
  BY <1>1, <1>2, Fields DEF TypeOK, Till, TillBecomes

LEMMA ClearCartEffect ==
    ASSUME TypeOK, NEW p \in Page, ClearCart(p)
    PROVE  TillBecomes(p, NoSale, till[p].sending, till[p].pc, FALSE)
<1>1. till' = [till EXCEPT ![p] = [till[p] EXCEPT !.key = NoSale, !.receipt = FALSE]]
  BY DEF ClearCart, TypeOK
<1>2. [till[p] EXCEPT !.key = NoSale, !.receipt = FALSE] \in Till
  BY Fields DEF Till
<1> QED
  BY <1>1, <1>2, Fields DEF TypeOK, Till, TillBecomes

LEMMA MountEffect ==
    ASSUME TypeOK, NEW p \in Page, Mount(p)
    PROVE  TillBecomes(p, NoSale, NoSale, "idle", FALSE)
BY DEF Mount, TypeOK, Till, EmptyTill, TillBecomes

LEMMA PrintsEffect ==
    ASSUME TypeOK, NEW p \in Page, NEW s \in Sale, Prints(p, s)
    PROVE  TillBecomes(p, till[p].key, NoSale, "idle", TRUE)
<1>1. till' = [till EXCEPT ![p] =
                  [till[p] EXCEPT !.pc = "idle", !.sending = NoSale, !.receipt = TRUE]]
  BY DEF Prints, TypeOK
<1>2. [till[p] EXCEPT !.pc = "idle", !.sending = NoSale, !.receipt = TRUE] \in Till
  BY Fields DEF Till
<1> QED
  BY <1>1, <1>2, Fields DEF TypeOK, Till, TillBecomes

LEMMA ShowsErrorEffect ==
    ASSUME TypeOK, NEW p \in Page, ShowsError(p)
    PROVE  TillBecomes(p, till[p].key, NoSale, "idle", till[p].receipt)
<1>1. till' = [till EXCEPT ![p] = [till[p] EXCEPT !.pc = "idle", !.sending = NoSale]]
  BY DEF ShowsError, TypeOK
<1>2. [till[p] EXCEPT !.pc = "idle", !.sending = NoSale] \in Till
  BY Fields DEF Till
<1> QED
  BY <1>1, <1>2, Fields DEF TypeOK, Till, TillBecomes

\* A post of the till: made and printed, made and not known, or not made.
LEMMA TillPostEffect ==
    ASSUME TypeOK, NEW p \in Page, TillPost(p), till[p].sending \in Sale
    PROVE  /\ till[p].pc = "post"
           /\ \E receipt \in BOOLEAN :
                 /\ TillBecomes(p, till[p].key, NoSale, "idle", receipt)
                 /\ \/ /\ sold' = [sold EXCEPT ![till[p].sending] = sold[till[p].sending] + 1]
                       /\ receipted' = receipted \cup {till[p].sending}
                       /\ receipt = TRUE /\ unanswered' = unanswered
                    \/ /\ sold' = [sold EXCEPT ![till[p].sending] = sold[till[p].sending] + 1]
                       /\ unanswered' = unanswered \cup {till[p].sending}
                       /\ receipt = till[p].receipt /\ receipted' = receipted
                    \/ /\ receipt = till[p].receipt
                       /\ UNCHANGED <<sold, receipted, unanswered>>
           /\ session' \in {"good", "expired", "dead"} /\ faults' \in 0..MaxFaults
           /\ UNCHANGED <<online, mounted, rung, drain, db, unwritten, unrecorded, shared,
                          dropped, moves>>
<1> DEFINE s == till[p].sending
<1>1. /\ sold \in [Sale -> Nat] /\ session \in {"good", "expired", "dead"}
      /\ faults \in 0..MaxFaults /\ MaxFaults \in Nat /\ till[p].receipt \in BOOLEAN
  BY Fields, BoundsAssumption DEF TypeOK
<1>2. /\ till[p].pc = "post"
      /\ UNCHANGED <<online, mounted, rung, drain, db, unwritten, unrecorded, shared,
                          dropped, moves>>
  BY DEF TillPost
<1>3. Makes(s) => sold' = [sold EXCEPT ![s] = sold[s] + 1] /\ session' = "good"
  BY DEF Makes
<1>4. CASE Makes(s) /\ Prints(p, s) /\ UNCHANGED <<unanswered, faults>>
  <2>1. receipted' = receipted \cup {s}
    BY <1>4 DEF Prints
  <2> QED
    BY <1>1, <1>2, <1>3, <1>4, <2>1, PrintsEffect
<1>5. CASE /\ Makes(s) /\ Fault /\ ShowsError(p)
           /\ unanswered' = unanswered \cup {s}
  <2>1. receipted' = receipted /\ faults' \in 0..MaxFaults
    BY <1>1, <1>5 DEF ShowsError, Fault
  <2> QED
    BY <1>1, <1>2, <1>3, <1>5, <2>1, ShowsErrorEffect
<1>6. CASE /\ ShowsError(p) /\ UNCHANGED <<sold, unanswered>>
           /\ \/ Refuses /\ UNCHANGED session
              \/ SessionEnds /\ session' = "dead"
  <2>1. receipted' = receipted /\ faults' \in 0..MaxFaults
    BY <1>1, <1>6 DEF ShowsError, Fault, Refuses, SessionEnds
  <2> QED
    BY <1>1, <1>2, <1>6, <2>1, ShowsErrorEffect
<1> QED
  BY <1>4, <1>5, <1>6 DEF TillPost

-----------------------------------------------------------------------------
(* The steps *)

Selling == KeysAreApart /\ TillsAreFresh
Known   == MarksAreKnown /\ ReceiptIsKept /\ SoldTwiceUnawares /\ WaitingIsUnsold

\* A step of the line or the session, and no step.
LEMMA AsideStep ==
    ASSUME OfflineInv,
           \/ GoOffline \/ Expire \/ LogIn \/ Refresh \/ Leave
           \/ UNCHANGED vars
    PROVE  OfflineInv'
<1>1. UNCHANGED <<rung, till, drain, db, sold, ghosts>>
  BY DEF GoOffline, Expire, LogIn, Refresh, Leave, vars
<1>2. TypeOK'
  <2>1. TypeOK
    BY DEF OfflineInv, QueueInv
  <2>2. /\ online' \in {online, FALSE}
        /\ session' \in {session, "good", "expired"}
        /\ mounted' \in {mounted, NoPage} /\ faults' = faults
        /\ moves' = moves \/ (moves < MaxMoves /\ moves' = moves + 1)
    BY DEF GoOffline, Expire, LogIn, Refresh, Leave, vars, bounds
  <2>3. /\ online' \in BOOLEAN /\ session' \in {"good", "expired", "dead"}
        /\ mounted' \in Page \cup {NoPage} /\ faults' \in 0..MaxFaults
    BY <2>1, <2>2 DEF TypeOK
  <2>4. moves' \in 0..MaxMoves
    BY <2>1, <2>2, BoundsAssumption DEF TypeOK
  <2> QED
    BY <1>1, <2>1, <2>3, <2>4 DEF TypeOK, db, ghosts
<1>3. QueueHasRows' /\ DrainsAreApart'
  BY <1>1 DEF OfflineInv, QueueInv, QueueHasRows, DrainsAreApart, Rows, Unsynced, db, ghosts
<1>4. Selling'
  BY <1>1 DEF OfflineInv, Selling, KeysAreApart, TillsAreFresh, Uses, Unsold, db, ghosts
<1>5. Known'
  BY <1>1 DEF OfflineInv, Known, MarksAreKnown, ReceiptIsKept, SoldTwiceUnawares,
              WaitingIsUnsold, Unsynced, db, ghosts
<1> QED
  BY <1>2, <1>3, <1>4, <1>5 DEF OfflineInv, QueueInv, Selling, Known

\* Keys and tills when only p's till changes, and it has no key or keeps its own.
LEMMA TillKeeps ==
    ASSUME OfflineInv, NEW p \in Page, NEW key, NEW sending, NEW pc, NEW receipt,
           TillBecomes(p, key, sending, pc, receipt),
           key \in {NoSale, till[p].key},
           pc = "post" => till[p].pc = "post" /\ sending = till[p].sending /\ ~receipt,
           key # NoSale /\ ~receipt => ~till[p].receipt,
           UNCHANGED <<rung, status, sold, unanswered>>
    PROVE  Selling'
<1>1. \A q \in Page : \A s \in Sale : Uses(q, s)' => Uses(q, s)
  BY NamesAssumption DEF Uses, TillBecomes
<1>2. KeysAreApart'
  BY <1>1 DEF OfflineInv, KeysAreApart
<1>3. TillsAreFresh'
  BY NamesAssumption DEF OfflineInv, TillsAreFresh, TillBecomes, Unsold
<1> QED
  BY <1>2, <1>3 DEF Selling

\* What is known of the rows while only tills change.
LEMMA RowsKept ==
    ASSUME OfflineInv, UNCHANGED <<drain, db, sold, ghosts>>
    PROVE  QueueHasRows' /\ DrainsAreApart' /\ Known'
<1>1. QueueHasRows' /\ DrainsAreApart'
  BY DEF OfflineInv, QueueInv, QueueHasRows, DrainsAreApart, Rows, Unsynced, db, ghosts
<1>2. Known'
  BY DEF OfflineInv, Known, MarksAreKnown, ReceiptIsKept, SoldTwiceUnawares,
         WaitingIsUnsold, Unsynced, db, ghosts
<1> QED
  BY <1>1, <1>2

LEMMA MountStep ==
    ASSUME OfflineInv, NEW p \in Page, Mount(p) \/ ClearCart(p)
    PROVE  OfflineInv'
<1>1. TypeOK
  BY DEF OfflineInv, QueueInv
<1>2. UNCHANGED <<online, session, rung, drain, db, sold, ghosts, bounds>>
  BY DEF Mount, ClearCart
<1>3. mounted' \in Page \cup {NoPage}
  BY <1>1 DEF Mount, ClearCart, TypeOK
<1>4. PICK sending, pc :
        /\ TillBecomes(p, NoSale, sending, pc, FALSE)
        /\ pc = "post" => till[p].pc = "post" /\ sending = till[p].sending
  <2>1. CASE Mount(p)
    <3>1. TillBecomes(p, NoSale, NoSale, "idle", FALSE)
      BY <1>1, <2>1, MountEffect
    <3> QED
      BY <3>1 DEF TillBecomes
  <2>2. CASE ClearCart(p)
    <3>1. TillBecomes(p, NoSale, till[p].sending, till[p].pc, FALSE)
      BY <1>1, <2>2, ClearCartEffect
    <3> QED
      BY <3>1
  <2> QED
    BY <2>1, <2>2
<1>5. TypeOK'
  BY <1>1, <1>2, <1>3, <1>4 DEF TypeOK, TillBecomes, db, ghosts, bounds
<1>6. Selling'
  BY <1>2, <1>4, TillKeeps DEF db, ghosts
<1>7. QueueHasRows' /\ DrainsAreApart' /\ Known'
  BY <1>2, RowsKept
<1> QED
  BY <1>5, <1>6, <1>7 DEF OfflineInv, QueueInv, Selling, Known

\* The key of a cart that is paid: a new one, or one that is not sold yet.
LEMMA PressedKey ==
    ASSUME OfflineInv, NEW p \in Page, NEW s \in Sale, Pressed(p, s)
    PROVE  /\ till[p].pc = "idle" /\ ~till[p].receipt
           /\ status[s] = "none" /\ Unsold(s)
           /\ \A q \in Page \ {p} : ~Uses(q, s)
           /\ till[p].key \in {NoSale, s}
           /\ rung' = rung \cup {s}
<1>1. /\ till[p].pc = "idle" /\ ~till[p].receipt /\ rung' = rung \cup {s}
      /\ IF till[p].key = NoSale THEN s \notin rung ELSE s = till[p].key
  BY DEF Pressed
<1>2. CASE till[p].key = NoSale
  BY <1>1, <1>2 DEF OfflineInv, KeysAreApart, Unsold
<1>3. CASE till[p].key # NoSale
  <2>1. Uses(p, s)
    BY <1>1, <1>3 DEF Uses
  <2> QED
    BY <1>1, <1>3, <2>1 DEF OfflineInv, KeysAreApart, TillsAreFresh
<1> QED
  BY <1>1, <1>2, <1>3

LEMMA SellOnlineStep ==
    ASSUME OfflineInv, NEW p \in Page, NEW s \in Sale, SellOnline(p, s)
    PROVE  OfflineInv'
<1>1. TypeOK
  BY DEF OfflineInv, QueueInv
<1>2. UNCHANGED <<online, session, mounted, drain, db, sold, ghosts, bounds>>
  BY DEF SellOnline
<1>3. /\ ~till[p].receipt /\ status[s] = "none" /\ Unsold(s)
      /\ \A q \in Page \ {p} : ~Uses(q, s)
      /\ rung' = rung \cup {s}
  BY PressedKey DEF SellOnline
<1>4. TillBecomes(p, s, s, "post", till[p].receipt)
  BY <1>1, SellOnlineEffect
<1>5. TypeOK'
  BY <1>1, <1>2, <1>3, <1>4 DEF TypeOK, TillBecomes, db, ghosts, bounds
<1>6. KeysAreApart'
  <2>1. \A q \in Page \ {p} : \A x \in Sale : Uses(q, x)' <=> Uses(q, x)
    BY <1>4 DEF Uses, TillBecomes
  <2>2. \A x \in Sale : Uses(p, x)' => x = s
    BY <1>4 DEF Uses, TillBecomes
  <2> QED
    BY <1>2, <1>3, <2>1, <2>2 DEF OfflineInv, KeysAreApart, db
<1>7. TillsAreFresh'
  BY <1>2, <1>3, <1>4 DEF OfflineInv, TillsAreFresh, TillBecomes, Unsold, db, ghosts
<1>8. QueueHasRows' /\ DrainsAreApart' /\ Known'
  BY <1>2, RowsKept
<1> QED
  BY <1>5, <1>6, <1>7, <1>8 DEF OfflineInv, QueueInv, Known

LEMMA SellOfflineStep ==
    ASSUME OfflineInv, NEW p \in Page, NEW s \in Sale, SellOffline(p, s)
    PROVE  OfflineInv'
<1>1. TypeOK /\ QueueHasRows
  BY DEF OfflineInv, QueueInv
<1>2. /\ UNCHANGED <<online, session, mounted, drain, sold, unanswered, unrecorded,
                     shared, dropped, moves>>
      /\ receipted' = receipted \cup {s}
  BY DEF SellOffline
<1>3. /\ till[p].pc = "idle" /\ status[s] = "none" /\ Unsold(s)
      /\ \A q \in Page \ {p} : ~Uses(q, s)
      /\ rung' = rung \cup {s}
  BY PressedKey DEF SellOffline
<1>4. TillBecomes(p, s, till[p].sending, "idle", TRUE)
  BY <1>1, <1>3, SellOfflineEffect
<1>5. \/ /\ queue' = Append(queue, s) /\ status' = [status EXCEPT ![s] = "pending"]
         /\ unwritten' = unwritten /\ faults' = faults
      \/ /\ queue' = queue /\ status' = status
         /\ unwritten' = unwritten \cup {s} /\ faults' \in 0..MaxFaults
  BY <1>1, <1>3, BoundsAssumption DEF SellOffline, Fault, TypeOK, db
<1>6. /\ queue \in Seq(Sale) /\ \A i, j \in DOMAIN queue : queue[i] = queue[j] => i = j
      /\ status \in [Sale -> {"none", "pending", "failed", "synced"}]
      /\ \A x : x \in ToSet(queue) <=> \E i \in DOMAIN queue : queue[i] = x
  BY <1>1, ToSetRange DEF TypeOK
<1>7. CASE /\ queue' = Append(queue, s) /\ status' = [status EXCEPT ![s] = "pending"]
           /\ unwritten' = unwritten /\ faults' = faults
  <2>1. /\ queue' \in Seq(Sale)
        /\ DOMAIN queue' = DOMAIN queue \cup {Len(queue) + 1}
        /\ Len(queue) + 1 \notin DOMAIN queue /\ queue'[Len(queue) + 1] = s
        /\ \A i \in DOMAIN queue : queue'[i] = queue[i]
    BY <1>6, <1>7, AppendAt
  <2>2. \A x : x \in ToSet(queue') <=> \E i \in DOMAIN queue' : queue'[i] = x
    BY <2>1, ToSetRange
  <2>3. \A x : x \in ToSet(queue') <=> x \in ToSet(queue) \/ x = s
    BY <1>6, <2>1, <2>2
  <2>4. s \notin ToSet(queue)
    BY <1>1, <1>3 DEF QueueHasRows
  <2>5. \A i, j \in DOMAIN queue' : queue'[i] = queue'[j] => i = j
    BY <1>6, <2>1, <2>4
  <2>6. /\ status' \in [Sale -> {"none", "pending", "failed", "synced"}]
        /\ \A x \in Sale : status'[x] = IF x = s THEN "pending" ELSE status[x]
    BY <1>6, <1>7
  <2>7. TypeOK'
    BY <1>1, <1>2, <1>3, <1>4, <1>7, <2>1, <2>5, <2>6 DEF TypeOK, TillBecomes
  <2>8. QueueHasRows'
    BY <1>1, <2>3, <2>6 DEF QueueHasRows
  <2>9. DrainsAreApart'
    <3>1. \A q \in Page : \A i \in Rows(q) :
            drain[q].todo[i] \in Sale /\ drain[q].todo[i] # s
      BY <1>1, <1>3, Fields, ElementOfSeq, LenProperties
         DEF OfflineInv, QueueInv, DrainsAreApart, Rows
    <3> QED
      BY <1>2, <2>6, <3>1 DEF OfflineInv, QueueInv, DrainsAreApart, Rows, Unsynced
  <2>10. Selling'
    <3>1. KeysAreApart'
      <4>1. \A q \in Page \ {p} : \A x \in Sale : Uses(q, x)' <=> Uses(q, x)
        BY <1>4 DEF Uses, TillBecomes
      <4>2. \A x \in Sale : Uses(p, x)' => x = s
        BY <1>4 DEF Uses, TillBecomes
      <4> QED
        BY <1>2, <1>3, <2>6, <4>1, <4>2 DEF OfflineInv, KeysAreApart
    <3>2. TillsAreFresh'
      <4>1. \A q \in Page \ {p} : till[q].key # s /\ (till[q].pc = "post" => till[q].sending # s)
        BY <1>3 DEF Uses
      <4>2. \A q \in Page : till[q].key \in Sale \cup {NoSale}
        BY <1>1, Fields
      <4> QED
        BY <1>2, <1>4, <2>6, <4>1, <4>2 DEF OfflineInv, TillsAreFresh, TillBecomes, Unsold
    <3> QED
      BY <3>1, <3>2 DEF Selling
  <2>11. MarksAreKnown'
    BY <1>2, <2>6 DEF OfflineInv, MarksAreKnown
  <2>12. ReceiptIsKept'
    BY <1>1, <1>2, <1>7, <2>6 DEF OfflineInv, ReceiptIsKept, Unsynced, TypeOK
  <2>13. SoldTwiceUnawares'
    BY <1>2 DEF OfflineInv, SoldTwiceUnawares
  <2>14. WaitingIsUnsold'
    BY <1>1, <1>2, <1>3, <2>6
       DEF OfflineInv, WaitingIsUnsold, Unsynced, Unsold, TypeOK
  <2> QED
    BY <2>7, <2>8, <2>9, <2>10, <2>11, <2>12, <2>13, <2>14
       DEF OfflineInv, QueueInv, Selling
<1>8. CASE /\ queue' = queue /\ status' = status
           /\ unwritten' = unwritten \cup {s} /\ faults' \in 0..MaxFaults
  <2>1. TypeOK'
    BY <1>1, <1>2, <1>3, <1>4, <1>8 DEF TypeOK, TillBecomes
  <2>2. QueueHasRows' /\ DrainsAreApart'
    BY <1>2, <1>8 DEF OfflineInv, QueueInv, QueueHasRows, DrainsAreApart, Rows, Unsynced
  <2>3. KeysAreApart'
    <3>1. \A q \in Page \ {p} : \A x \in Sale : Uses(q, x)' <=> Uses(q, x)
      BY <1>4 DEF Uses, TillBecomes
    <3>2. \A x \in Sale : Uses(p, x)' => x = s
      BY <1>4 DEF Uses, TillBecomes
    <3> QED
      BY <1>2, <1>3, <1>8, <3>1, <3>2 DEF OfflineInv, KeysAreApart
  <2>4. TillsAreFresh'
    BY <1>2, <1>4, <1>8 DEF OfflineInv, TillsAreFresh, TillBecomes, Unsold
  <2>5. Known'
    BY <1>2, <1>8 DEF OfflineInv, Known, MarksAreKnown, ReceiptIsKept,
                      SoldTwiceUnawares, WaitingIsUnsold, Unsynced
  <2> QED
    BY <2>1, <2>2, <2>3, <2>4, <2>5 DEF OfflineInv, QueueInv, Known
<1> QED
  BY <1>5, <1>7, <1>8

LEMMA TillPostStep ==
    ASSUME OfflineInv, NEW p \in Page, TillPost(p)
    PROVE  OfflineInv'
<1> DEFINE s == till[p].sending
<1>1. TypeOK /\ sold \in [Sale -> Nat]
  BY DEF OfflineInv, QueueInv, TypeOK
<1>2. /\ s \in Sale /\ status[s] = "none" /\ Unsold(s)
      /\ till[p].key \in {s, NoSale} /\ ~till[p].receipt /\ Uses(p, s)
  BY DEF OfflineInv, TillsAreFresh, TillPost, Uses
<1>3. PICK receipt \in BOOLEAN :
        /\ TillBecomes(p, till[p].key, NoSale, "idle", receipt)
        /\ \/ /\ sold' = [sold EXCEPT ![s] = sold[s] + 1]
              /\ receipted' = receipted \cup {s}
              /\ receipt = TRUE /\ unanswered' = unanswered
           \/ /\ sold' = [sold EXCEPT ![s] = sold[s] + 1]
              /\ unanswered' = unanswered \cup {s}
              /\ receipt = till[p].receipt /\ receipted' = receipted
           \/ /\ receipt = till[p].receipt
              /\ UNCHANGED <<sold, receipted, unanswered>>
  BY <1>1, <1>2, TillPostEffect
<1>4. /\ session' \in {"good", "expired", "dead"} /\ faults' \in 0..MaxFaults
      /\ UNCHANGED <<online, mounted, rung, drain, queue, status, unwritten,
                     unrecorded, shared, dropped, moves>>
  BY <1>1, <1>2, TillPostEffect DEF db
<1> HIDE DEF s
<1>5. /\ sold' \in [Sale -> Nat] /\ \A x \in Sale \ {s} : sold'[x] = sold[x]
      /\ sold'[s] \in {sold[s], sold[s] + 1} /\ sold[s] \in Nat
      /\ unanswered \subseteq unanswered' /\ unanswered' \subseteq unanswered \cup {s}
      /\ receipted' \subseteq receipted \cup {s}
      /\ sold'[s] # sold[s] => receipt = TRUE \/ s \in unanswered'
      /\ s \in receipted' \ receipted => sold'[s] > 0
  BY <1>1, <1>2, <1>3
<1>6. TypeOK'
  <2>1. receipted' \subseteq Sale /\ unanswered' \subseteq Sale
    BY <1>1, <1>2, <1>5 DEF TypeOK
  <2> QED
    BY <1>1, <1>3, <1>4, <1>5, <2>1 DEF TypeOK, TillBecomes
<1>7. QueueHasRows' /\ DrainsAreApart'
  BY <1>4 DEF OfflineInv, QueueInv, QueueHasRows, DrainsAreApart, Rows, Unsynced
<1>8. KeysAreApart'
  <2>1. \A q \in Page : \A x \in Sale : Uses(q, x)' => Uses(q, x)
    BY <1>3 DEF Uses, TillBecomes
  <2>2. s \in rung
    BY <1>2 DEF OfflineInv, KeysAreApart
  <2> QED
    BY <1>4, <1>5, <2>1, <2>2 DEF OfflineInv, KeysAreApart
<1>9. TillsAreFresh'
  <2>1. \A q \in Page \ {p} : till[q].key # s /\ (till[q].pc = "post" => till[q].sending # s)
    BY <1>2 DEF OfflineInv, KeysAreApart, Uses
  <2>2. \A q \in Page : till[q].key \in Sale \cup {NoSale}
    BY <1>1, Fields
  <2>3. ~receipt => sold'[s] = 0 \/ s \in unanswered'
    BY <1>2, <1>5 DEF Unsold
  <2>4. \A x \in Sale \ {s} : Unsold(x) => sold'[x] = 0 \/ x \in unanswered'
    BY <1>5 DEF Unsold
  <2> QED
    BY <1>2, <1>3, <1>4, <2>1, <2>2, <2>3, <2>4
       DEF OfflineInv, TillsAreFresh, TillBecomes, Unsold
<1>10. MarksAreKnown'
  <2>1. \A x \in Sale : sold[x] > 0 => sold'[x] > 0
    BY <1>1, <1>5
  <2>2. \A q \in Page : drain[q].pc # "idle" => Head(drain[q].todo) \in Sale
    BY <1>1, AtHand
  <2> QED
    BY <1>4, <1>5, <2>1, <2>2 DEF OfflineInv, MarksAreKnown
<1>11. ReceiptIsKept'
  <2>1. \A x \in Sale : sold[x] > 0 => sold'[x] > 0
    BY <1>1, <1>5
  <2>2. receipted \subseteq Sale
    BY <1>1 DEF TypeOK
  <2> QED
    BY <1>4, <1>5, <2>1, <2>2 DEF OfflineInv, ReceiptIsKept, Unsynced
<1>12. SoldTwiceUnawares'
  BY <1>2, <1>4, <1>5 DEF OfflineInv, SoldTwiceUnawares, Unsold
<1>13. WaitingIsUnsold'
  BY <1>2, <1>4, <1>5 DEF OfflineInv, WaitingIsUnsold, Unsynced
<1> QED
  BY <1>6, <1>7, <1>8, <1>9, <1>10, <1>11, <1>12, <1>13 DEF OfflineInv, QueueInv
LEMMA RestartStep ==
    ASSUME OfflineInv, Restart
    PROVE  OfflineInv'
<1> DEFINE lost == {Head(drain[p].todo) : p \in {q \in Page : drain[q].pc = "clear"}}
<1>1. /\ TypeOK /\ moves \in 0..MaxMoves
      /\ UNCHANGED <<online, session, rung, queue, status, sold, receipted, unwritten,
                     unrecorded, shared, dropped, faults>>
      /\ mounted' = NoPage /\ moves' = moves + 1 /\ moves < MaxMoves
      /\ till' = [p \in Page |-> EmptyTill] /\ drain' = [p \in Page |-> Resting]
      /\ unanswered' = unanswered \cup lost
  BY DEF OfflineInv, QueueInv, TypeOK, Restart, db
<1>2. lost \subseteq Sale
  BY <1>1, AtHand
<1>3. \A p \in Page : drain[p].pc = "clear" => Head(drain[p].todo) \in lost
  OBVIOUS
<1> HIDE DEF lost
<1>4. TypeOK'
  <2>1. moves' \in 0..MaxMoves
    BY <1>1, BoundsAssumption
  <2>2. unanswered' \subseteq Sale
    BY <1>1, <1>2 DEF TypeOK
  <2>3. till' \in [Page -> Till] /\ drain' \in [Page -> Drain]
    BY <1>1 DEF Till, EmptyTill, Drain, Resting
  <2>4. \A p \in Page : drain'[p].todo = <<>> <=> drain'[p].pc = "idle"
    BY <1>1 DEF Resting
  <2> QED
    BY <1>1, <2>1, <2>2, <2>3, <2>4 DEF TypeOK
<1>5. QueueHasRows' /\ DrainsAreApart'
  <2>1. \A p \in Page : drain'[p].todo = <<>> /\ DOMAIN drain'[p].todo = {}
    BY <1>1 DEF Resting
  <2> QED
    BY <1>1, <2>1 DEF OfflineInv, QueueInv, QueueHasRows, DrainsAreApart, Rows
<1>6. KeysAreApart'
  <2>1. \A p \in Page : \A s \in Sale : ~Uses(p, s)'
    BY <1>1, NamesAssumption DEF Uses, EmptyTill
  <2> QED
    BY <1>1, <2>1 DEF OfflineInv, KeysAreApart
<1>7. TillsAreFresh'
  BY <1>1 DEF TillsAreFresh, EmptyTill
<1>8. MarksAreKnown'
  BY <1>1 DEF OfflineInv, MarksAreKnown, Resting
<1>9. ReceiptIsKept' /\ SoldTwiceUnawares'
  BY <1>1 DEF OfflineInv, ReceiptIsKept, SoldTwiceUnawares, Unsynced
<1>10. WaitingIsUnsold'
  BY <1>1, <1>3 DEF OfflineInv, WaitingIsUnsold, Unsynced
<1> QED
  BY <1>4, <1>5, <1>6, <1>7, <1>8, <1>9, <1>10 DEF OfflineInv, QueueInv

LEMMA GoOnlineStep ==
    ASSUME OfflineInv, GoOnline
    PROVE  OfflineInv'
<1>1. TypeOK /\ DrainsAreApart
  BY DEF OfflineInv, QueueInv
<1>2. /\ online' = TRUE
      /\ UNCHANGED <<session, mounted, rung, till, queue, status, sold, receipted,
                     unwritten, unanswered, unrecorded, dropped, moves>>
      /\ faults' \in 0..MaxFaults
  BY <1>1, BoundsAssumption DEF GoOnline, Fault, TypeOK, db
<1>3. PICK items \in Seq(Sale), starts \in SUBSET Page :
        /\ \A i \in DOMAIN items : Unsynced(items[i])
        /\ \A i, j \in DOMAIN items : items[i] = items[j] => i = j
        /\ \A p, q \in starts : p = q
        /\ \A p \in Page : p \in starts => drain[p].pc = "idle"
        /\ DrainsInShape'
        /\ \A p \in Page : \/ drain'[p] = drain[p]
                           \/ /\ p \in starts
                              /\ drain'[p].todo = items /\ drain'[p].pc = "post"
        /\ shared' \subseteq Sale /\ shared \subseteq shared'
        /\ starts # {} => \A q \in Page : \A i \in DOMAIN items, j \in Rows(q) :
              items[i] = drain[q].todo[j] => items[i] \in shared'
  BY <1>1, GoOnlineEffect
<1>4. TypeOK'
  BY <1>1, <1>2, <1>3 DEF TypeOK, DrainsInShape
<1>5. QueueHasRows'
  BY <1>2 DEF OfflineInv, QueueInv, QueueHasRows
<1>6. DrainsAreApart'
  <2>1. ASSUME NEW p \in Page, NEW i \in DOMAIN drain'[p].todo
        PROVE  /\ status[drain'[p].todo[i]] # "none"
               /\ drain'[p].todo[i] \notin shared' => Unsynced(drain'[p].todo[i])
    <3>1. CASE drain'[p] = drain[p]
      BY <1>1, <1>3, <2>1, <3>1 DEF DrainsAreApart, Rows
    <3>2. CASE drain'[p].todo = items
      BY <1>3, <2>1, <3>2 DEF Unsynced
    <3> QED
      BY <1>3, <3>1, <3>2
  <2>2. ASSUME NEW p \in Page, NEW q \in Page,
               NEW i \in DOMAIN drain'[p].todo, NEW j \in DOMAIN drain'[q].todo,
               drain'[p].todo[i] = drain'[q].todo[j], drain'[p].todo[i] \notin shared'
        PROVE  p = q /\ i = j
    <3>1. CASE drain'[p] = drain[p] /\ drain'[q] = drain[q]
      BY <1>1, <1>3, <2>2, <3>1 DEF DrainsAreApart, Rows
    <3>2. CASE drain'[p] = drain[p] /\ q \in starts /\ drain'[q].todo = items
      BY <1>3, <2>2, <3>2 DEF Rows
    <3>3. CASE drain'[q] = drain[q] /\ p \in starts /\ drain'[p].todo = items
      BY <1>3, <2>2, <3>3 DEF Rows
    <3>4. CASE /\ p \in starts /\ drain'[p].todo = items
               /\ q \in starts /\ drain'[q].todo = items
      BY <1>3, <2>2, <3>4
    <3> QED
      BY <1>3, <3>1, <3>2, <3>3, <3>4
  <2> QED
    BY <1>2, <2>1, <2>2 DEF DrainsAreApart, Rows, Unsynced
<1>7. Selling'
  BY <1>2 DEF OfflineInv, Selling, KeysAreApart, TillsAreFresh, Uses, Unsold
<1>8. \A p \in Page : /\ drain[p].pc = "clear" => drain'[p] = drain[p]
                      /\ drain'[p].pc \in {"clear", "fail"} => drain'[p] = drain[p]
  BY <1>3
<1>9. MarksAreKnown'
  BY <1>2, <1>8 DEF OfflineInv, MarksAreKnown
<1>10. ReceiptIsKept'
  BY <1>2 DEF OfflineInv, ReceiptIsKept, Unsynced
<1>11. SoldTwiceUnawares'
  BY <1>2, <1>3 DEF OfflineInv, SoldTwiceUnawares
<1>12. WaitingIsUnsold'
  BY <1>2, <1>3, <1>8 DEF OfflineInv, WaitingIsUnsold, Unsynced
<1> QED
  BY <1>4, <1>5, <1>6, <1>7, <1>9, <1>10, <1>11, <1>12 DEF OfflineInv, QueueInv, Selling

\* A drain that has posted the row at hand and not marked it yet.
LEMMA PostStep ==
    ASSUME OfflineInv, NEW p \in Page,
           PostMakes(p) \/ PostDropped(p) \/ PostUnanswered(p) \/ PostFails(p)
    PROVE  OfflineInv'
<1>1. PICK s \in Sale : s = Head(drain[p].todo) /\ 1 \in Rows(p) /\ s = drain[p].todo[1]
  BY AtHand DEF OfflineInv, QueueInv, PostMakes, PostDropped, PostUnanswered, PostFails
<1>2. /\ TypeOK /\ drain[p].pc = "post"
      /\ UNCHANGED <<online, mounted, rung, till, queue, status, receipted, unwritten,
                     unrecorded, shared, moves>>
  BY DEF OfflineInv, QueueInv, PostMakes, PostDropped, PostUnanswered, PostFails, db,
         ghosts, bounds
<1>3. PICK pc \in {"clear", "fail"} :
        /\ Turns(p, pc)
        /\ \/ /\ pc = "clear" /\ sold' = [sold EXCEPT ![s] = sold[s] + 1]
              /\ UNCHANGED <<unanswered, dropped>>
           \/ /\ pc = "clear" /\ dropped' = dropped \cup {s}
              /\ UNCHANGED <<unanswered, sold>>
           \/ /\ pc = "fail" /\ sold' = [sold EXCEPT ![s] = sold[s] + 1]
              /\ unanswered' = unanswered \cup {s} /\ UNCHANGED dropped
           \/ pc = "fail" /\ UNCHANGED <<unanswered, dropped, sold>>
        /\ session' \in {"good", "expired", "dead"} /\ faults' \in 0..MaxFaults
  <2>1. /\ session \in {"good", "expired", "dead"} /\ faults \in 0..MaxFaults
        /\ MaxFaults \in Nat /\ sold \in [Sale -> Nat]
    BY <1>2, BoundsAssumption DEF TypeOK
  <2>2. CASE PostMakes(p)
    BY <1>1, <2>1, <2>2 DEF PostMakes, Makes, ghosts, bounds
  <2>3. CASE PostDropped(p)
    BY <1>1, <2>1, <2>3 DEF PostDropped, SessionEnds, Fault
  <2>4. CASE PostUnanswered(p)
    BY <1>1, <2>1, <2>4 DEF PostUnanswered, Makes, Fault
  <2>5. CASE PostFails(p)
    BY <1>1, <2>1, <2>5 DEF PostFails, Refuses, Fault, ghosts
  <2> QED
    BY <2>2, <2>3, <2>4, <2>5
<1>4. /\ DrainsInShape'
      /\ \A q \in Page : drain'[q].todo = drain[q].todo
      /\ \A q \in Page : drain'[q].pc = IF q = p THEN pc ELSE drain[q].pc
  BY <1>2, <1>3, TurnsEffect
<1>5. /\ sold \in [Sale -> Nat] /\ sold' \in [Sale -> Nat]
      /\ \A x \in Sale \ {s} : sold'[x] = sold[x]
      /\ sold'[s] \in {sold[s], sold[s] + 1} /\ sold[s] \in Nat
      /\ unanswered \subseteq unanswered' /\ unanswered' \subseteq unanswered \cup {s}
      /\ dropped \subseteq dropped' /\ dropped' \subseteq dropped \cup {s}
      /\ pc = "clear" => sold'[s] > 0 \/ s \in dropped'
      /\ pc = "fail" => s \in unanswered' \/ sold'[s] = sold[s]
  BY <1>2, <1>3 DEF TypeOK
<1>6. TypeOK'
  <2>1. unanswered' \subseteq Sale /\ dropped' \subseteq Sale
    BY <1>2, <1>5 DEF TypeOK
  <2> QED
    BY <1>2, <1>3, <1>4, <1>5, <2>1 DEF TypeOK, DrainsInShape
<1>7. QueueHasRows' /\ DrainsAreApart'
  BY <1>2, <1>4 DEF OfflineInv, QueueInv, QueueHasRows, DrainsAreApart, Rows, Unsynced
\* Two sales of a row: the first was not answered or not marked, or another
\* drain has it.
<1>8. s \in unanswered \cup unrecorded \cup shared \/ sold[s] = 0
  <2>1. SUFFICES ASSUME s \notin unanswered, s \notin unrecorded, s \notin shared,
                        sold[s] # 0
                 PROVE  FALSE
    OBVIOUS
  <2>2. Unsynced(s)
    BY <1>1, <2>1 DEF OfflineInv, QueueInv, DrainsAreApart
  <2>3. PICK q \in Page : drain[q].pc = "clear" /\ Head(drain[q].todo) = s
    BY <1>5, <2>1, <2>2 DEF OfflineInv, WaitingIsUnsold
  <2>4. 1 \in Rows(q) /\ drain[q].todo[1] = s
    BY <1>2, <2>3, AtHand
  <2> QED
    BY <1>1, <1>2, <2>1, <2>3, <2>4 DEF OfflineInv, QueueInv, DrainsAreApart
<1>9. status[s] # "none" /\ s \in rung
  <2>1. status[s] # "none"
    BY <1>1 DEF OfflineInv, QueueInv, DrainsAreApart
  <2> QED
    BY <2>1 DEF OfflineInv, KeysAreApart
<1>10. KeysAreApart'
  BY <1>2, <1>5, <1>9 DEF OfflineInv, KeysAreApart, Uses
<1>11. TillsAreFresh'
  <2>1. \A q \in Page : till[q].key \in Sale \cup {NoSale}
    BY <1>2, Fields
  <2> QED
    BY <1>2, <1>5, <1>9, <2>1 DEF OfflineInv, TillsAreFresh, Unsold
<1>12. MarksAreKnown'
  <2>1. \A x \in Sale : sold[x] > 0 => sold'[x] > 0
    BY <1>5
  <2>2. \A q \in Page : drain[q].pc # "idle" => Head(drain[q].todo) \in Sale
    BY <1>2, AtHand
  <2> QED
    BY <1>1, <1>2, <1>4, <1>5, <2>1, <2>2 DEF OfflineInv, MarksAreKnown
<1>13. ReceiptIsKept'
  <2>1. \A x \in Sale : sold[x] > 0 => sold'[x] > 0
    BY <1>5
  <2>2. receipted \subseteq Sale
    BY <1>2 DEF TypeOK
  <2> QED
    BY <1>2, <1>5, <2>1, <2>2 DEF OfflineInv, ReceiptIsKept, Unsynced
<1>14. SoldTwiceUnawares'
  BY <1>2, <1>5, <1>8 DEF OfflineInv, SoldTwiceUnawares
<1>15. WaitingIsUnsold'
  <2>1. ASSUME NEW x \in Sale, Unsynced(x), sold'[x] > 0,
               x \notin unanswered' \cup unrecorded \cup shared
        PROVE  \E q \in Page : drain'[q].pc = "clear" /\ Head(drain'[q].todo) = x
    <3>1. CASE sold[x] > 0
      <4>1. PICK q \in Page : drain[q].pc = "clear" /\ Head(drain[q].todo) = x
        BY <1>5, <2>1, <3>1 DEF OfflineInv, WaitingIsUnsold
      <4> QED
        BY <1>2, <1>4, <4>1
    <3>2. CASE ~(sold[x] > 0)
      <4>1. x = s /\ pc = "clear"
        BY <1>3, <1>5, <2>1, <3>2
      <4> QED
        BY <1>1, <1>4, <4>1
    <3> QED
      BY <3>1, <3>2
  <2> QED
    BY <1>2, <2>1 DEF WaitingIsUnsold, Unsynced
<1> QED
  BY <1>6, <1>7, <1>10, <1>11, <1>12, <1>13, <1>14, <1>15 DEF OfflineInv, QueueInv

\* What a drain's mark does to the rows.
LEMMA MarkStep ==
    ASSUME OfflineInv, NEW p \in Page, Mark(p)
    PROVE  OfflineInv'
<1>1. TypeOK /\ drain[p].pc # "idle"
  BY DEF OfflineInv, QueueInv, Mark
<1>2. PICK s \in Sale : s = Head(drain[p].todo) /\ 1 \in Rows(p) /\ s = drain[p].todo[1]
  BY <1>1, AtHand
<1>3. /\ UNCHANGED <<online, session, mounted, rung, till, queue, sold, receipted,
                     unwritten, unanswered, unrecorded, shared, dropped, moves, faults>>
  BY DEF Mark, ghosts, bounds
<1>4. PICK mark \in {"synced", "failed"} :
        /\ Marks(p, mark)
        /\ mark = "synced" <=> drain[p].pc = "clear"
  BY DEF Mark
<1>5. /\ DrainsInShape'
      /\ \A q \in Page \ {p} : drain'[q] = drain[q]
      /\ drain'[p].todo = Tail(drain[p].todo) /\ drain'[p].pc \in {"idle", "post"}
      /\ status' \in [Sale -> {"none", "pending", "failed", "synced"}]
      /\ \A x \in Sale : status'[x] = IF x = s THEN mark ELSE status[x]
  BY <1>1, <1>2, <1>4, MarksEffect
<1>6. /\ status[s] # "none"
      /\ s \notin shared => Unsynced(s)
  BY <1>2 DEF OfflineInv, QueueInv, DrainsAreApart
<1>7. \A i \in DOMAIN drain'[p].todo :
        /\ i + 1 \in Rows(p) /\ drain'[p].todo[i] = drain[p].todo[i + 1] /\ i \in Nat \ {0}
  <2>1. drain[p].todo \in Seq(Sale) /\ drain[p].todo # <<>>
    BY <1>1, Fields DEF TypeOK
  <2> QED
    BY <1>5, <2>1, HeadAndTail DEF Rows
<1>8. TypeOK'
  BY <1>1, <1>3, <1>5 DEF TypeOK, DrainsInShape
<1>9. QueueHasRows'
  BY <1>3, <1>5, <1>6 DEF OfflineInv, QueueInv, QueueHasRows
<1>10. DrainsAreApart'
  <2> DEFINE at(q, i) == IF q = p THEN i + 1 ELSE i
  <2>1. \A q \in Page : \A i \in DOMAIN drain'[q].todo : i \in Nat
    <3>1. \A q \in Page : drain'[q].todo \in Seq(Sale)
      BY <1>5 DEF DrainsInShape, Drain
    <3>2. \A q \in Page : DOMAIN drain'[q].todo = 1..Len(drain'[q].todo)
      BY <3>1, LenProperties
    <3> QED
      BY <3>2
  <2>2. \A q \in Page : \A i \in DOMAIN drain'[q].todo :
          /\ at(q, i) \in Rows(q)
          /\ drain'[q].todo[i] = drain[q].todo[at(q, i)]
          /\ q = p => at(q, i) # 1
    <3>1. \A i \in DOMAIN drain'[p].todo : i + 1 # 1
      BY <1>7
    <3> QED
      BY <1>5, <1>7, <3>1 DEF Rows
  <2>3. \A q \in Page : \A i \in Rows(q) : drain[q].todo[i] \in Sale
    BY <1>1, Fields, ElementOfSeq, LenProperties DEF Rows
  <2>4. ASSUME NEW q \in Page, NEW i \in DOMAIN drain'[q].todo
        PROVE  /\ status'[drain'[q].todo[i]] # "none"
               /\ drain'[q].todo[i] \notin shared =>
                      status'[drain'[q].todo[i]] \in {"pending", "failed"}
    <3> DEFINE x == drain[q].todo[at(q, i)]
    <3>1. drain'[q].todo[i] = x /\ at(q, i) \in Rows(q) /\ (q = p => at(q, i) # 1)
      BY <2>2, <2>4
    <3>2. x \in Sale /\ status[x] # "none" /\ (x \notin shared => Unsynced(x))
      BY <2>3, <3>1 DEF OfflineInv, QueueInv, DrainsAreApart
    <3>3. x \notin shared => x # s
      BY <1>2, <3>1 DEF OfflineInv, QueueInv, DrainsAreApart
    <3> HIDE DEF x
    <3> QED
      BY <1>5, <3>1, <3>2, <3>3 DEF Unsynced
  <2>5. ASSUME NEW q \in Page, NEW r \in Page,
               NEW i \in DOMAIN drain'[q].todo, NEW j \in DOMAIN drain'[r].todo,
               drain'[q].todo[i] = drain'[r].todo[j], drain'[q].todo[i] \notin shared
        PROVE  q = r /\ i = j
    <3>1. /\ at(q, i) \in Rows(q) /\ drain'[q].todo[i] = drain[q].todo[at(q, i)]
          /\ at(r, j) \in Rows(r) /\ drain'[r].todo[j] = drain[r].todo[at(r, j)]
      BY <2>2, <2>5
    <3> HIDE DEF at
    <3>2. q = r /\ at(q, i) = at(r, j)
      <4>1. \A m \in Rows(q), n \in Rows(r) :
              drain[q].todo[m] = drain[r].todo[n] /\ drain[q].todo[m] \notin shared =>
                  q = r /\ m = n
        BY DEF OfflineInv, QueueInv, DrainsAreApart
      <4>2. /\ drain[q].todo[at(q, i)] = drain[r].todo[at(r, j)]
            /\ drain[q].todo[at(q, i)] \notin shared
        BY <2>5, <3>1
      <4> QED
        BY <3>1, <4>1, <4>2
    <3>3. i \in Nat /\ j \in Nat
      BY <2>1, <2>5
    <3> QED
      BY <3>2, <3>3 DEF at
  <2> QED
    BY <1>3, <2>4, <2>5 DEF DrainsAreApart, Rows, Unsynced
<1>11. KeysAreApart'
  BY <1>3, <1>5, <1>6 DEF OfflineInv, KeysAreApart, Uses
<1>12. TillsAreFresh'
  <2>1. \A q \in Page : till[q].key \in Sale \cup {NoSale}
    BY <1>1, Fields
  <2> QED
    BY <1>3, <1>5, <1>6, <2>1 DEF OfflineInv, TillsAreFresh, Unsold
<1>13. mark = "synced" => sold[s] > 0 \/ s \in dropped
  BY <1>2, <1>4 DEF OfflineInv, MarksAreKnown
<1>14. MarksAreKnown'
  BY <1>3, <1>5, <1>13 DEF OfflineInv, MarksAreKnown
<1>15. ReceiptIsKept'
  <2>1. receipted \subseteq Sale
    BY <1>1 DEF TypeOK
  <2> QED
    BY <1>3, <1>5, <1>13, <2>1 DEF OfflineInv, ReceiptIsKept, Unsynced
<1>16. SoldTwiceUnawares'
  BY <1>3 DEF OfflineInv, SoldTwiceUnawares
<1>17. WaitingIsUnsold'
  <2>1. ASSUME NEW x \in Sale, status'[x] \in {"pending", "failed"}, sold[x] > 0,
               x \notin unanswered \cup unrecorded \cup shared
        PROVE  \E q \in Page : drain'[q].pc = "clear" /\ Head(drain'[q].todo) = x
    <3>1. Unsynced(x)
      BY <1>5, <1>6, <2>1 DEF Unsynced
    <3>2. PICK q \in Page : drain[q].pc = "clear" /\ Head(drain[q].todo) = x
      BY <2>1, <3>1 DEF OfflineInv, WaitingIsUnsold
    <3>3. q # p
      BY <1>2, <1>4, <1>5, <2>1, <3>2
    <3> QED
      BY <1>5, <3>2, <3>3
  <2> QED
    BY <1>3, <2>1 DEF WaitingIsUnsold, Unsynced
<1> QED
  BY <1>8, <1>9, <1>10, <1>11, <1>12, <1>14, <1>15, <1>16, <1>17 DEF OfflineInv, QueueInv

\* The statement after the post fails: the row's sale becomes one that could
\* not be marked, or the drain ends.
LEMMA ClearFailsStep ==
    ASSUME OfflineInv, NEW p \in Page, ClearFails(p)
    PROVE  OfflineInv'
<1>1. PICK s \in Sale : s = Head(drain[p].todo)
  BY AtHand DEF OfflineInv, QueueInv, ClearFails
<1>2. /\ TypeOK /\ drain[p].pc = "clear" /\ Turns(p, "fail")
      /\ UNCHANGED <<online, session, mounted, rung, till, queue, status, sold, receipted,
                     unwritten, unanswered, shared, dropped, moves>>
      /\ unrecorded' = IF sold[s] > 0 THEN unrecorded \cup {s} ELSE unrecorded
  BY <1>1 DEF OfflineInv, QueueInv, ClearFails, db
<1>3. /\ DrainsInShape'
      /\ \A q \in Page : drain'[q].todo = drain[q].todo
      /\ \A q \in Page : drain'[q].pc = IF q = p THEN "fail" ELSE drain[q].pc
  BY <1>2, TurnsEffect
<1>4. TypeOK'
  <2>1. faults' \in 0..MaxFaults
    BY <1>2, BoundsAssumption DEF ClearFails, Fault, TypeOK
  <2>2. unrecorded' \subseteq Sale
    BY <1>2 DEF TypeOK
  <2> QED
    BY <1>2, <1>3, <2>1, <2>2 DEF TypeOK, DrainsInShape
<1>5. QueueHasRows' /\ DrainsAreApart'
  BY <1>2, <1>3 DEF OfflineInv, QueueInv, QueueHasRows, DrainsAreApart, Rows, Unsynced
<1>6. Selling'
  BY <1>2 DEF OfflineInv, Selling, KeysAreApart, TillsAreFresh, Uses, Unsold
<1>7. MarksAreKnown' /\ ReceiptIsKept' /\ SoldTwiceUnawares'
  BY <1>2, <1>3 DEF OfflineInv, MarksAreKnown, ReceiptIsKept, SoldTwiceUnawares, Unsynced
<1>8. WaitingIsUnsold'
  BY <1>1, <1>2, <1>3 DEF OfflineInv, WaitingIsUnsold, Unsynced
<1> QED
  BY <1>4, <1>5, <1>6, <1>7, <1>8 DEF OfflineInv, QueueInv, Selling

LEMMA MarkFailedFailsStep ==
    ASSUME OfflineInv, NEW p \in Page, MarkFailedFails(p)
    PROVE  OfflineInv'
<1>1. /\ TypeOK /\ drain[p].pc = "fail"
      /\ drain' = [drain EXCEPT ![p] = Resting]
      /\ UNCHANGED <<online, session, mounted, rung, till, queue, status, sold, ghosts,
                     moves>>
  BY DEF OfflineInv, QueueInv, MarkFailedFails, db
<1>2. /\ drain \in [Page -> Drain] /\ drain' \in [Page -> Drain]
      /\ \A q \in Page \ {p} : drain'[q] = drain[q]
      /\ drain'[p] = Resting
  BY <1>1 DEF TypeOK, Drain, Resting
<1>3. drain'[p].pc = "idle" /\ drain'[p].todo = <<>> /\ DOMAIN drain'[p].todo = {}
  BY <1>2 DEF Resting
<1>4. TypeOK'
  <2>1. faults' \in 0..MaxFaults
    BY <1>1, BoundsAssumption DEF MarkFailedFails, Fault, TypeOK
  <2> QED
    BY <1>1, <1>2, <1>3, <2>1 DEF TypeOK, ghosts
<1>5. QueueHasRows'
  BY <1>1 DEF OfflineInv, QueueInv, QueueHasRows
<1>6. DrainsAreApart'
  BY <1>1, <1>2, <1>3 DEF OfflineInv, QueueInv, DrainsAreApart, Rows, Unsynced, ghosts
<1>7. Selling'
  BY <1>1 DEF OfflineInv, Selling, KeysAreApart, TillsAreFresh, Uses, Unsold, ghosts
<1>8. MarksAreKnown' /\ ReceiptIsKept' /\ SoldTwiceUnawares'
  BY <1>1, <1>2, <1>3
     DEF OfflineInv, MarksAreKnown, ReceiptIsKept, SoldTwiceUnawares, Unsynced, ghosts
<1>9. WaitingIsUnsold'
  <2>1. \A q \in Page : drain[q].pc = "clear" => drain'[q] = drain[q]
    BY <1>1, <1>2
  <2> QED
    BY <1>1, <2>1 DEF OfflineInv, WaitingIsUnsold, Unsynced, ghosts
<1> QED
  BY <1>4, <1>5, <1>6, <1>7, <1>8, <1>9 DEF OfflineInv, QueueInv, Selling

-----------------------------------------------------------------------------
(* The theorems *)

LEMMA InitOffline == ASSUME Init PROVE OfflineInv
<1>1. TypeOK
  <2>1. /\ till \in [Page -> Till] /\ drain \in [Page -> Drain]
        /\ \A p \in Page : drain[p].todo = <<>> <=> drain[p].pc = "idle"
    BY DEF Init, Till, EmptyTill, Drain, Resting
  <2>2. moves \in 0..MaxMoves /\ faults \in 0..MaxFaults
    BY BoundsAssumption DEF Init
  <2>3. queue \in Seq(Sale) /\ DOMAIN queue = {}
    BY DEF Init
  <2> QED
    BY <2>1, <2>2, <2>3 DEF Init, TypeOK
<1>2. QueueHasRows /\ DrainsAreApart
  <2>1. ToSet(queue) = {} /\ \A p \in Page : Rows(p) = {}
    BY DEF Init, ToSet, Resting, Rows
  <2> QED
    BY <2>1 DEF Init, QueueHasRows, DrainsAreApart
<1>3. KeysAreApart /\ TillsAreFresh
  BY NamesAssumption DEF Init, KeysAreApart, TillsAreFresh, Uses, EmptyTill
<1>4. MarksAreKnown /\ ReceiptIsKept /\ SoldTwiceUnawares /\ WaitingIsUnsold
  BY DEF Init, MarksAreKnown, ReceiptIsKept, SoldTwiceUnawares, WaitingIsUnsold,
         Unsynced, Resting
<1> QED
  BY <1>1, <1>2, <1>3, <1>4 DEF OfflineInv, QueueInv

LEMMA OfflineStep == ASSUME OfflineInv, [Next]_vars PROVE OfflineInv'
<1>1. CASE GoOffline \/ Expire \/ LogIn \/ Refresh \/ Leave \/ UNCHANGED vars
  BY <1>1, AsideStep
<1>2. CASE GoOnline
  BY <1>2, GoOnlineStep
<1>3. CASE Restart
  BY <1>3, RestartStep
<1>4. ASSUME NEW p \in Page, Mount(p) \/ PageSteps(p)
      PROVE  OfflineInv'
  <2>1. CASE \E s \in Sale : SellOnline(p, s) \/ SellOffline(p, s)
    BY <2>1, SellOnlineStep, SellOfflineStep
  <2>2. CASE Mount(p) \/ ClearCart(p)
    BY <2>2, MountStep
  <2>3. CASE TillPost(p)
    BY <2>3, TillPostStep
  <2>4. CASE PostMakes(p) \/ PostDropped(p) \/ PostUnanswered(p) \/ PostFails(p)
    BY <2>4, PostStep
  <2>5. CASE Mark(p) \/ ClearFails(p) \/ MarkFailedFails(p)
    BY <2>5, MarkStep, ClearFailsStep, MarkFailedFailsStep
  <2> QED
    BY <1>4, <2>1, <2>2, <2>3, <2>4, <2>5 DEF PageSteps
<1> QED
  BY <1>1, <1>2, <1>3, <1>4 DEF Next

LEMMA OfflineIsInvariant == Spec => []OfflineInv
<1>1. Init => OfflineInv
  BY InitOffline
<1>2. OfflineInv /\ [Next]_vars => OfflineInv'
  BY OfflineStep
<1> QED
  BY <1>1, <1>2, PTL DEF Spec

\* The queue and the pages keep their shape, and a sale whose customer has a
\* receipt is on the server or waits in the queue, but for a failed INSERT and
\* for a row that a drain took off after its session had died.
THEOREM QueueStaysSound == Spec => []QueueIsSound
<1>1. OfflineInv => QueueIsSound
  BY DEF OfflineInv, QueueInv, QueueIsSound
<1> QED
  BY <1>1, OfflineIsInvariant, PTL

\* However the line, the session, the pages and the restarts interleave, the
\* server makes a sale twice only after an answer that was lost, when the queue
\* could not be told of the first, or when two drains had its row in hand at once.
THEOREM NoSaleTwice == Spec => []NoDoubleSale
<1>1. OfflineInv => NoDoubleSale
  BY DEF OfflineInv, NoDoubleSale
<1> QED
  BY <1>1, OfflineIsInvariant, PTL

\* The status of a row changes by the first INSERT of its key, which finds none,
\* and by a mark of the drain that has the row in hand, where it waits.
LEMMA MarkStays ==
    ASSUME OfflineInv, [Next]_vars, NEW s \in Sale,
           status[s] = "synced", status'[s] # "synced"
    PROVE  s \in shared
<1>1. TypeOK
  BY DEF OfflineInv, QueueInv
<1>2. status \in [Sale -> {"none", "pending", "failed", "synced"}]
  BY <1>1 DEF TypeOK
<1>3. status' # status
  OBVIOUS
<1>4. CASE \E p \in Page, x \in Sale : SellOffline(p, x)
  <2>1. PICK x \in Sale : status' = [status EXCEPT ![x] = "pending"] /\ status[x] = "none"
    BY <1>3, <1>4 DEF SellOffline, db
  <2> QED
    BY <1>2, <2>1
<1>5. CASE \E p \in Page : Mark(p)
  <2>1. PICK p \in Page : Mark(p)
    BY <1>5
  <2>2. drain[p].pc # "idle"
    BY <2>1 DEF Mark
  <2>3. PICK mark \in {"synced", "failed"} : Marks(p, mark)
    BY <2>1 DEF Mark
  <2>4. s = Head(drain[p].todo)
    BY <1>1, <2>2, <2>3, MarksEffect
  <2>5. 1 \in Rows(p) /\ s = drain[p].todo[1]
    BY <1>1, <2>2, <2>4, AtHand
  <2> QED
    BY <2>5 DEF OfflineInv, QueueInv, DrainsAreApart, Unsynced
<1>6. CASE ~ \/ \E p \in Page, x \in Sale : SellOffline(p, x)
             \/ \E p \in Page : Mark(p)
  <2>1. status' = status
    BY <1>6 DEF Next, GoOnline, GoOffline, Expire, LogIn, Refresh, Leave, Restart, Mount,
                PageSteps, SellOnline, ClearCart, TillPost, PostMakes, PostDropped,
                PostUnanswered, PostFails, ClearFails, MarkFailedFails, db, vars
  <2> QED
    BY <1>3, <2>1
<1> QED
  BY <1>4, <1>5, <1>6

\* A row marked as synced is marked otherwise only if two drains had it in hand.
THEOREM SyncedStaysFinal == Spec => SyncedIsFinal
<1>1. OfflineInv /\ [Next]_vars =>
        [\A s \in Sale : status[s] = "synced" /\ status'[s] # "synced" => s \in shared]_vars
  BY MarkStays
<1> QED
  BY <1>1, OfflineIsInvariant, PTL DEF Spec, SyncedIsFinal
=============================================================================
