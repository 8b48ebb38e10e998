------------------------- MODULE ProductCacheProofs -------------------------
(***************************************************************************)
(* Proofs about ProductCache, for every number of readers, writers and     *)
(* changes and every pair of TTLs: its types, how old an answer of Redis   *)
(* may be, and how the list may miss a change.                             *)
(***************************************************************************)
EXTENDS ProductCache, TLAPS

(***************************************************************************)
(* How old what a request or Redis holds can be.  Time that passes takes   *)
(* as much off what is left of a wait or a TTL as it adds to an age, so    *)
(* that the two bounds add up when a reader hands over to Redis.           *)
(***************************************************************************)
LatestIsFresh == \A v \in Version : v >= version => age[v] = 0

ReadersAreRecent ==
    \A r \in Reader : reader[r].pc = "set" =>
        age[reader[r].val] + reader[r].left <= FillTime

EntriesAreRecent ==
    \A k \in Key : Alive(k) =>
        age[entry[k].val] + entry[k].left <= TTL[k] + FillTime

AgeInv == TypeOK /\ LatestIsFresh /\ ReadersAreRecent /\ EntriesAreRecent

(***************************************************************************)
(* Which of them may miss a change whose invalidation got through.         *)
(***************************************************************************)
NoneAhead ==
    /\ floor <= version
    /\ \A w \in Writer : writer[w].val <= version

ReadersAreLate ==
    \A r \in Reader : reader[r].pc = "set" /\ reader[r].val < floor => reader[r].late

LateInv == TypeOK /\ NoneAhead /\ ReadersAreLate /\ OldListWasLate

USE TimesAssumption, BoundAssumption

-----------------------------------------------------------------------------
(* Types *)

LEMMA TimesAreNat ==
    /\ Oldest \in Nat
    /\ TTL \in [Key -> Nat \ {0}]
    /\ \A k \in Key : TTL[k] + FillTime < Oldest
BY DEF Oldest, TTL, Key

LEMMA TypeInit == Init => TypeOK
<1>1. Oldest \in Nat /\ TTL \in [Key -> Nat \ {0}]
  BY TimesAreNat
<1> QED
  BY <1>1 DEF Init, TypeOK, Version, Entry, Reading, Writing, Free, Done, Key

LEMMA TypeStep == TypeOK /\ [Next]_vars => TypeOK'
<1> SUFFICES ASSUME TypeOK, [Next]_vars PROVE TypeOK'
  OBVIOUS
<1> USE DEF TypeOK
<1>0. /\ Oldest \in Nat /\ TTL \in [Key -> Nat \ {0}]
      /\ \A k \in Key : TTL[k] + FillTime < Oldest
  BY TimesAreNat
<1>1. ASSUME NEW r \in Reader, NEW k \in Key, Miss(r, k) PROVE TypeOK'
  BY <1>1 DEF Miss, Reading, Version
<1>2. ASSUME NEW r \in Reader, Fill(r) PROVE TypeOK'
  <2> DEFINE k == reader[r].key
             new == [val |-> reader[r].val, left |-> TTL[k], late |-> reader[r].late]
  <2>1. k \in Key /\ reader[r].val \in Version /\ reader[r].late \in BOOLEAN
    BY DEF Reading
  <2>2. new \in Entry /\ new.left <= TTL[k]
    BY <2>1, <1>0 DEF Entry
  <2>3. entry' = [entry EXCEPT ![k] = new] /\ reader' = [reader EXCEPT ![r] = Free]
    BY <1>2 DEF Fill
  <2>4. Free \in Reading
    BY DEF Free, Reading, Key, Version
  <2> HIDE DEF new, k
  <2> QED
    BY <1>2, <2>1, <2>2, <2>3, <2>4 DEF Fill
<1>3. ASSUME NEW r \in Reader, FillFails(r) PROVE TypeOK'
  BY <1>3 DEF FillFails, Free, Reading, Key, Version
<1>4. ASSUME NEW w \in Writer, Write(w) PROVE TypeOK'
  BY <1>4 DEF Write, Writing, Version
<1>5. CASE WriteQuietly
  BY <1>5 DEF WriteQuietly, Version
<1>6. ASSUME NEW w \in Writer, Invalidate(w) PROVE TypeOK'
  <2>1. entry' \in [Key -> Entry] /\ \A k \in Key : entry'[k].left <= TTL[k]
    BY <1>6, <1>0 DEF Invalidate, Entry, Key
  <2>2. reader' \in [Reader -> Reading]
    BY <1>6 DEF Invalidate, Reading
  <2>3. writer' \in [Writer -> Writing] /\ floor' \in Version
    BY <1>6 DEF Invalidate, Writing, Done, Version
  <2> QED
    BY <1>6, <2>1, <2>2, <2>3 DEF Invalidate
<1>7. ASSUME NEW w \in Writer, InvalidateFails(w) PROVE TypeOK'
  BY <1>7 DEF InvalidateFails, Writing, Done, Version
<1>8. CASE Pass
  <2>1. age' \in [Version -> 0..Oldest]
    BY <1>8, <1>0 DEF Pass, Version
  <2>2. entry' \in [Key -> Entry] /\ \A k \in Key : entry'[k].left <= TTL[k]
    <3> SUFFICES ASSUME NEW k \in Key
                 PROVE  entry'[k] \in Entry /\ entry'[k].left <= TTL[k]
      BY <1>8 DEF Pass
    <3>1. entry[k] \in Entry /\ entry[k].left <= TTL[k] /\ TTL[k] \in Nat
      BY <1>0
    <3>2. entry'[k] = [entry[k] EXCEPT !.left = IF @ > 0 THEN @ - 1 ELSE 0]
      BY <1>8 DEF Pass
    <3> QED
      BY <3>1, <3>2, <1>0 DEF Entry
  <2>3. reader' \in [Reader -> Reading]
    BY <1>8 DEF Pass, Reading
  <2> QED
    BY <1>8, <2>1, <2>2, <2>3 DEF Pass
<1>9. CASE UNCHANGED vars
  BY <1>9 DEF vars
<1> QED
  BY <1>1, <1>2, <1>3, <1>4, <1>5, <1>6, <1>7, <1>8, <1>9 DEF Next

\* The versions, Redis and the requests of product reads and writes keep their
\* shape, and no TTL is longer than its key's (TypeOK).
THEOREM TypeCorrect == Spec => []TypeOK
<1>1. Init => TypeOK
  BY TypeInit
<1>2. TypeOK /\ [Next]_vars => TypeOK'
  BY TypeStep
<1> QED
  BY <1>1, <1>2, PTL DEF Spec

-----------------------------------------------------------------------------
(* Age *)

LEMMA AgeInit == Init => AgeInv
<1>1. Init => TypeOK
  BY TypeInit
<1> QED
  BY <1>1 DEF Init, AgeInv, LatestIsFresh, ReadersAreRecent, EntriesAreRecent, Alive,
     Free, Version

LEMMA AgeStep == AgeInv /\ [Next]_vars => AgeInv'
<1> SUFFICES ASSUME AgeInv, [Next]_vars PROVE AgeInv'
  OBVIOUS
<1>0. TypeOK /\ TypeOK' /\ Oldest \in Nat /\ TTL \in [Key -> Nat \ {0}]
  BY TypeStep, TimesAreNat DEF AgeInv
<1>t. /\ version \in Version /\ age \in [Version -> 0..Oldest]
      /\ \A k \in Key : entry[k] \in Entry
      /\ \A r \in Reader : reader[r] \in Reading
      /\ entry \in [Key -> Entry] /\ reader \in [Reader -> Reading]
  BY <1>0 DEF TypeOK
<1>f. LatestIsFresh /\ ReadersAreRecent /\ EntriesAreRecent
  BY DEF AgeInv
<1> SUFFICES LatestIsFresh' /\ ReadersAreRecent' /\ EntriesAreRecent'
  BY <1>0 DEF AgeInv
<1>1. ASSUME NEW r \in Reader, NEW k \in Key, Miss(r, k)
      PROVE  LatestIsFresh' /\ ReadersAreRecent' /\ EntriesAreRecent'
  <2>1. age[version] = 0
    BY <1>t, <1>f DEF LatestIsFresh, Version
  <2>2. ReadersAreRecent'
    BY <1>1, <1>t, <1>f, <2>1 DEF Miss, ReadersAreRecent, Reading
  <2> QED
    BY <1>1, <1>f, <2>2 DEF Miss, LatestIsFresh, EntriesAreRecent, Alive
<1>2. ASSUME NEW r \in Reader, Fill(r)
      PROVE  LatestIsFresh' /\ ReadersAreRecent' /\ EntriesAreRecent'
  <2> DEFINE k == reader[r].key
  <2>1. /\ k \in Key /\ reader[r].val \in Version /\ reader[r].left \in 0..FillTime
        /\ TTL[k] \in Nat /\ age[reader[r].val] \in Nat
    BY <1>t, <1>0 DEF Reading
  <2>2. age[reader[r].val] <= FillTime
    BY <1>2, <1>f, <2>1 DEF Fill, ReadersAreRecent
  <2>3. entry'[k].val = reader[r].val /\ entry'[k].left = TTL[k]
    BY <1>2, <1>t, <2>1 DEF Fill
  <2>4. \A j \in Key \ {k} : entry'[j] = entry[j]
    BY <1>2, <1>t DEF Fill
  <2>5. age' = age
    BY <1>2 DEF Fill
  <2>6. EntriesAreRecent'
    BY <2>1, <2>2, <2>3, <2>4, <2>5, <1>f DEF EntriesAreRecent, Alive
  <2>7. ReadersAreRecent'
    BY <1>2, <1>t, <1>f DEF Fill, ReadersAreRecent, Free
  <2> QED
    BY <1>2, <1>f, <2>6, <2>7 DEF Fill, LatestIsFresh
<1>3. ASSUME NEW r \in Reader, FillFails(r)
      PROVE  LatestIsFresh' /\ ReadersAreRecent' /\ EntriesAreRecent'
  BY <1>3, <1>t, <1>f DEF FillFails, LatestIsFresh, ReadersAreRecent, EntriesAreRecent,
     Alive, Free
<1>4. ASSUME version' = version + 1, UNCHANGED <<age, entry, reader>>
      PROVE  LatestIsFresh' /\ ReadersAreRecent' /\ EntriesAreRecent'
  BY <1>4, <1>t, <1>f DEF LatestIsFresh, ReadersAreRecent, EntriesAreRecent, Alive, Version
<1>5. ASSUME NEW w \in Writer, Invalidate(w)
      PROVE  LatestIsFresh' /\ ReadersAreRecent' /\ EntriesAreRecent'
  <2>1. age' = age /\ version' = version
    BY <1>5 DEF Invalidate
  <2>2. \A r \in Reader : /\ reader'[r].pc = reader[r].pc
                          /\ reader'[r].val = reader[r].val
                          /\ reader'[r].left = reader[r].left
    BY <1>5, <1>t DEF Invalidate, Reading
  <2>3. /\ entry'["list"].left = 0 /\ entry'["barcode"] = entry["barcode"]
    BY <1>5, <1>t DEF Invalidate, Entry, Key
  <2>4. EntriesAreRecent'
    BY <2>1, <2>3, <1>f DEF EntriesAreRecent, Alive, Key
  <2> QED
    BY <2>1, <2>2, <2>4, <1>f DEF LatestIsFresh, ReadersAreRecent
<1>6. ASSUME NEW w \in Writer, InvalidateFails(w)
      PROVE  LatestIsFresh' /\ ReadersAreRecent' /\ EntriesAreRecent'
  BY <1>6, <1>f DEF InvalidateFails, LatestIsFresh, ReadersAreRecent, EntriesAreRecent,
     Alive
<1>7. CASE Pass
  <2>1. version' = version
    BY <1>7 DEF Pass
  <2>2. \A v \in Version : /\ v >= version => age'[v] = age[v]
                           /\ age'[v] <= age[v] + 1
                           /\ age'[v] \in Nat
    BY <1>7, <1>t, <1>0 DEF Pass, Version
  <2>3. \A k \in Key : /\ entry'[k].val = entry[k].val
                       /\ entry'[k].left > 0 => /\ entry[k].left > 0
                                                /\ entry'[k].left = entry[k].left - 1
    BY <1>7, <1>t, <1>0 DEF Pass, Entry
  <2>4. \A r \in Reader : /\ reader'[r].pc = reader[r].pc
                          /\ reader'[r].val = reader[r].val
                          /\ reader[r].pc = "set" => reader'[r].left = reader[r].left - 1
    BY <1>7, <1>t DEF Pass, Reading
  <2>5. LatestIsFresh'
    BY <2>1, <2>2, <1>f DEF LatestIsFresh, Version
  <2>6. ReadersAreRecent'
    <3> SUFFICES ASSUME NEW r \in Reader, reader'[r].pc = "set"
                 PROVE  age'[reader'[r].val] + reader'[r].left <= FillTime
      BY DEF ReadersAreRecent
    <3>1. reader[r].val \in Version /\ reader[r].left \in Nat
      BY <1>t DEF Reading
    <3>2. age[reader[r].val] + reader[r].left <= FillTime
      BY <1>f, <2>4 DEF ReadersAreRecent
    <3>3. age[reader[r].val] \in Nat
      BY <1>t, <1>0, <3>1
    <3> QED
      BY <2>2, <2>4, <3>1, <3>2, <3>3
  <2>7. EntriesAreRecent'
    <3> SUFFICES ASSUME NEW k \in Key, entry'[k].left > 0
                 PROVE  age'[entry'[k].val] + entry'[k].left <= TTL[k] + FillTime
      BY DEF EntriesAreRecent, Alive
    <3>1. entry[k].val \in Version /\ entry[k].left \in Nat /\ TTL[k] \in Nat
      BY <1>t, <1>0 DEF Entry
    <3>2. age[entry[k].val] + entry[k].left <= TTL[k] + FillTime
      BY <1>f, <2>3 DEF EntriesAreRecent, Alive
    <3>3. age[entry[k].val] \in Nat
      BY <1>t, <1>0, <3>1
    <3> QED
      BY <2>2, <2>3, <3>1, <3>2, <3>3
  <2> QED
    BY <2>5, <2>6, <2>7
<1>8. CASE UNCHANGED vars
  BY <1>8, <1>f DEF vars, LatestIsFresh, ReadersAreRecent, EntriesAreRecent, Alive
<1>9. ASSUME NEW w \in Writer, Write(w)
      PROVE  LatestIsFresh' /\ ReadersAreRecent' /\ EntriesAreRecent'
  BY <1>9, <1>4 DEF Write
<1>10. CASE WriteQuietly
  BY <1>10, <1>4 DEF WriteQuietly
<1> QED
  BY <1>1, <1>2, <1>3, <1>5, <1>6, <1>7, <1>8, <1>9, <1>10 DEF Next

LEMMA AgeImplies == AgeInv => NoOlderThanTTL
<1> SUFFICES ASSUME AgeInv, NEW k \in Key, Alive(k)
             PROVE  age[entry[k].val] <= TTL[k] + FillTime
  BY DEF NoOlderThanTTL
<1>1. /\ entry[k].val \in Version /\ entry[k].left \in Nat
      /\ age \in [Version -> 0..Oldest]
      /\ Oldest \in Nat /\ TTL[k] \in Nat
  BY TimesAreNat DEF AgeInv, TypeOK, Entry
<1>2. age[entry[k].val] + entry[k].left <= TTL[k] + FillTime
  BY DEF AgeInv, EntriesAreRecent
<1> QED
  BY <1>1, <1>2

\* Whichever invalidations are lost and however slow the readers, Redis does
\* not answer with rows that were replaced longer ago than the TTL and one wait
\* for the SETEX (NoOlderThanTTL; cache.py).
THEOREM AnswersAreRecent == Spec => []NoOlderThanTTL
<1>1. Init => AgeInv
  BY AgeInit
<1>2. AgeInv /\ [Next]_vars => AgeInv'
  BY AgeStep
<1>3. AgeInv => NoOlderThanTTL
  BY AgeImplies
<1> QED
  BY <1>1, <1>2, <1>3, PTL DEF Spec

-----------------------------------------------------------------------------
(* Invalidation *)

LEMMA LateInit == Init => LateInv
<1>1. Init => TypeOK
  BY TypeInit
<1> QED
  BY <1>1 DEF Init, LateInv, NoneAhead, ReadersAreLate, OldListWasLate, Alive, Free, Done,
     Key

LEMMA LateStep == LateInv /\ [Next]_vars => LateInv'
<1> SUFFICES ASSUME LateInv, [Next]_vars PROVE LateInv'
  OBVIOUS
<1>0. TypeOK /\ TypeOK'
  BY TypeStep DEF LateInv
<1>t. /\ version \in Nat /\ floor \in Nat
      /\ entry \in [Key -> Entry] /\ reader \in [Reader -> Reading]
      /\ writer \in [Writer -> Writing]
      /\ \A w \in Writer : writer[w].val \in Nat
      /\ \A r \in Reader : reader[r].val \in Nat
  BY <1>0 DEF TypeOK, Version, Writing, Reading
<1>f. NoneAhead /\ ReadersAreLate /\ OldListWasLate
  BY DEF LateInv
<1> SUFFICES NoneAhead' /\ ReadersAreLate' /\ OldListWasLate'
  BY <1>0 DEF LateInv
<1>1. ASSUME NEW r \in Reader, NEW k \in Key, Miss(r, k)
      PROVE  NoneAhead' /\ ReadersAreLate' /\ OldListWasLate'
  BY <1>1, <1>t, <1>f DEF Miss, NoneAhead, ReadersAreLate, OldListWasLate, Alive
<1>2. ASSUME NEW r \in Reader, Fill(r)
      PROVE  NoneAhead' /\ ReadersAreLate' /\ OldListWasLate'
  <2>1. NoneAhead'
    BY <1>2, <1>f DEF Fill, NoneAhead
  <2>2. ReadersAreLate'
    BY <1>2, <1>t, <1>f DEF Fill, ReadersAreLate, Free
  <2>3. CASE reader[r].key = "list"
    <3>1. /\ entry'["list"].val = reader[r].val
          /\ entry'["list"].late = reader[r].late
          /\ floor' = floor /\ reader[r].pc = "set"
      BY <1>2, <1>t, <2>3 DEF Fill, Key
    <3> QED
      BY <2>1, <2>2, <3>1, <1>f DEF ReadersAreLate, OldListWasLate
  <2>4. CASE reader[r].key # "list"
    <3>1. entry'["list"] = entry["list"] /\ floor' = floor
      BY <1>2, <1>t, <2>4 DEF Fill, Key
    <3> QED
      BY <2>1, <2>2, <3>1, <1>f DEF OldListWasLate, Alive
  <2> QED
    BY <2>3, <2>4
<1>3. ASSUME NEW r \in Reader, FillFails(r)
      PROVE  NoneAhead' /\ ReadersAreLate' /\ OldListWasLate'
  BY <1>3, <1>t, <1>f DEF FillFails, NoneAhead, ReadersAreLate, OldListWasLate, Alive, Free
<1>4. ASSUME NEW w \in Writer, Write(w)
      PROVE  NoneAhead' /\ ReadersAreLate' /\ OldListWasLate'
  BY <1>4, <1>t, <1>f DEF Write, NoneAhead, ReadersAreLate, OldListWasLate, Alive
<1>5. CASE WriteQuietly
  BY <1>5, <1>t, <1>f DEF WriteQuietly, NoneAhead, ReadersAreLate, OldListWasLate, Alive
<1>6. ASSUME NEW w \in Writer, Invalidate(w)
      PROVE  NoneAhead' /\ ReadersAreLate' /\ OldListWasLate'
  <2>1. NoneAhead'
    BY <1>6, <1>t, <1>f DEF Invalidate, NoneAhead, Done
  <2>2. \A r \in Reader : reader'[r].pc = "set" => reader'[r].late
    BY <1>6, <1>t DEF Invalidate, Reading
  <2>3. entry'["list"].left = 0
    BY <1>6, <1>t DEF Invalidate, Entry, Key
  <2> QED
    BY <2>1, <2>2, <2>3 DEF ReadersAreLate, OldListWasLate, Alive
<1>7. ASSUME NEW w \in Writer, InvalidateFails(w)
      PROVE  NoneAhead' /\ ReadersAreLate' /\ OldListWasLate'
  BY <1>7, <1>t, <1>f DEF InvalidateFails, NoneAhead, ReadersAreLate, OldListWasLate,
     Alive, Done
<1>8. CASE Pass
  <2>1. \A r \in Reader : /\ reader'[r].pc = reader[r].pc
                          /\ reader'[r].val = reader[r].val
                          /\ reader'[r].late = reader[r].late
    BY <1>8, <1>t DEF Pass, Reading
  <2>2. /\ entry'["list"].val = entry["list"].val
        /\ entry'["list"].late = entry["list"].late
        /\ entry'["list"].left > 0 => entry["list"].left > 0
    BY <1>8, <1>t DEF Pass, Entry, Key
  <2>3. version' = version /\ writer' = writer /\ floor' = floor
    BY <1>8 DEF Pass
  <2> QED
    BY <2>1, <2>2, <2>3, <1>f DEF NoneAhead, ReadersAreLate, OldListWasLate, Alive
<1>9. CASE UNCHANGED vars
  BY <1>9, <1>f DEF vars, NoneAhead, ReadersAreLate, OldListWasLate, Alive
<1> QED
  BY <1>1, <1>2, <1>3, <1>4, <1>5, <1>6, <1>7, <1>8, <1>9 DEF Next

\* A list older than a change whose invalidation got through was read before
\* it and stored after it: invalidation misses no other (OldListWasLate).
THEOREM InvalidationMissesOnlyLateFills == Spec => []OldListWasLate
<1>1. Init => LateInv
  BY LateInit
<1>2. LateInv /\ [Next]_vars => LateInv'
  BY LateStep
<1>3. LateInv => OldListWasLate
  BY DEF LateInv
<1> QED
  BY <1>1, <1>2, <1>3, PTL DEF Spec
=============================================================================
