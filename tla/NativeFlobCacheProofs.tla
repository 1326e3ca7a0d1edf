------------------------ MODULE NativeFlobCacheProofs ------------------------
(***************************************************************************)
(* Proofs about the cache of native Flobs: that it is invisible, and that  *)
(* its account of the memory and its list stay right.                      *)
(***************************************************************************)
EXTENDS NativeFlobCache, SequenceTheorems, FiniteSetTheorems, WellFoundedInduction, TLAPS

-----------------------------------------------------------------------------
(* Slots.                                                                   *)

LEMMA Constants ==
    /\ MaxCells \in Nat \ {0} /\ SlotSize \in Nat \ {0} /\ Unwritten \notin Value
    /\ \A r \in Reads \cup Writes : r[1] \in Cell /\ r[2] \in 1..MaxCells
BY CacheConstants DEF Cell

LEMMA SlotBounds ==
    ASSUME NEW c \in Nat
    PROVE  /\ SlotOf(c) \in Nat
           /\ SlotOf(c) * SlotSize \in Nat
           /\ SlotOf(c) * SlotSize <= c
           /\ c < SlotOf(c) * SlotSize + SlotSize
BY Constants, SMT DEF SlotOf

LEMMA SlotOrder ==
    ASSUME NEW i \in Nat, NEW k \in Nat
    PROVE  /\ i * SlotSize \in Nat
           /\ (i + 1) * SlotSize = i * SlotSize + SlotSize
           /\ i < k => i * SlotSize + SlotSize <= k * SlotSize
BY Constants, SMT

LEMMA SlotUnique ==
    ASSUME NEW c \in Nat, NEW i \in Nat,
           i * SlotSize <= c, c < i * SlotSize + SlotSize
    PROVE  SlotOf(c) = i
<1> DEFINE k == SlotOf(c)
<1>1. k \in Nat /\ k * SlotSize \in Nat /\ k * SlotSize <= c /\ c < k * SlotSize + SlotSize
  BY SlotBounds
<1>2. /\ i * SlotSize \in Nat
      /\ i < k => i * SlotSize + SlotSize <= k * SlotSize
      /\ k < i => k * SlotSize + SlotSize <= i * SlotSize
  BY <1>1, SlotOrder
<1> HIDE DEF k
<1>3. SlotSize \in Nat
  BY Constants
<1>4. k = i
  BY <1>1, <1>2, <1>3, SMT
<1> QED
  BY <1>4 DEF k

(* The slots that begin before the end of n bytes.                          *)
LEMMA SlotWithin ==
    ASSUME NEW n \in Nat, NEW i \in Nat
    PROVE  /\ i * SlotSize <= n => i <= SlotOf(n)
           /\ i <= SlotOf(n) => i * SlotSize <= n
           /\ i < SlotOf(n) => i * SlotSize + SlotSize <= n
<1> DEFINE k == SlotOf(n)
<1>1. k \in Nat /\ k * SlotSize \in Nat /\ k * SlotSize <= n /\ n < k * SlotSize + SlotSize
  BY SlotBounds
<1>2. /\ i * SlotSize \in Nat
      /\ i < k => i * SlotSize + SlotSize <= k * SlotSize
      /\ k < i => k * SlotSize + SlotSize <= i * SlotSize
  BY <1>1, SlotOrder
<1>3. i = k => i * SlotSize = k * SlotSize
  OBVIOUS
<1> HIDE DEF k
<1>4. SlotSize \in Nat \ {0}
  BY Constants
<1>5. /\ i * SlotSize <= n => i <= k
      /\ i <= k => i * SlotSize <= n
      /\ i < k => i * SlotSize + SlotSize <= n
  BY <1>1, <1>2, <1>3, <1>4, SMT
<1> QED
  BY <1>5 DEF k

LEMMA AddressFacts ==
    ASSUME NEW p \in Address
    PROVE  /\ p[1] \in Flob /\ p[2] \in Nat /\ p[2] < MaxCells
           /\ EntryOf(p) \in Entry
           /\ EntryOf(p)[1] = p[1] /\ EntryOf(p)[2] = SlotOf(p[2])
<1>1. p[1] \in Flob /\ p[2] \in Nat /\ p[2] < MaxCells
  BY Constants, SMT DEF Address, Cell
<1>2. SlotOf(p[2]) \in Nat /\ SlotOf(MaxCells) \in Nat
  BY <1>1, SlotBounds, Constants
<1>3. SlotOf(p[2]) * SlotSize <= MaxCells
  <2>1. SlotOf(p[2]) * SlotSize \in Nat /\ SlotOf(p[2]) * SlotSize <= p[2]
    BY <1>1, SlotBounds
  <2> QED
    BY <1>1, <2>1, Constants, SMT
<1>4. SlotOf(p[2]) <= SlotOf(MaxCells)
  BY <1>2, <1>3, SlotWithin, Constants
<1> QED
  BY <1>1, <1>2, <1>4, SMT DEF EntryOf, Entry, Slot

LEMMA EntryFacts ==
    ASSUME NEW e \in Entry
    PROVE  e[1] \in Flob /\ e[2] \in Nat /\ e[2] * SlotSize \in Nat /\ e = <<e[1], e[2]>>
<1>1. e[1] \in Flob /\ e[2] \in Nat /\ e = <<e[1], e[2]>>
  BY SlotBounds, Constants, SMT DEF Entry, Slot
<1> QED
  BY <1>1, SlotOrder

LEMMA SlotLengthType ==
    ASSUME NEW n \in Nat, NEW i \in Nat, i * SlotSize < n
    PROVE  /\ SlotLength(n, i) \in 0..SlotSize
           /\ SlotLength(n, i) > 0
           /\ n >= i * SlotSize + SlotSize => SlotLength(n, i) = SlotSize
           /\ n < i * SlotSize + SlotSize => SlotLength(n, i) = n - i * SlotSize
           /\ \A c \in Nat : SlotOf(c) = i /\ c < n => c - i * SlotSize < SlotLength(n, i)
<1>1. i * SlotSize \in Nat /\ SlotSize \in Nat \ {0}
  BY SlotOrder, Constants
<1>2. \A c \in Nat : SlotOf(c) = i => c < i * SlotSize + SlotSize
  BY SlotBounds
<1> QED
  BY <1>1, <1>2, SMT DEF SlotLength

-----------------------------------------------------------------------------
(* The invariant.                                                           *)

(* Only bytes inside of a Flob count as written.                            *)
WrittenWithin == \A p \in written : p[1] \in live /\ p[2] < size[p[1]]

(* A slot that is not marked holds what is on disk.                         *)
CleanAgrees == \A p \in written : EntryOf(p) \in cached \ changed => mem[p] = disk[p]

(* A call stays inside of its Flob.                                         *)
CallFits ==
    call # NoCall =>
        /\ call.flob \in live /\ call.at < call.to /\ call.to <= size[call.flob]
        /\ call.op = "put" => call.value \in Value

CacheInv ==
    TypeOK /\ SlotsFit /\ IdsExclusive /\ WrittenWithin /\ CleanAgrees /\ CallFits

-----------------------------------------------------------------------------
(* What the pieces of the actions do.                                       *)

LEMMA SizeType ==
    ASSUME TypeOK, NEW f \in Flob
    PROVE  size[f] \in 0..MaxCells /\ size[f] \in Nat
BY Constants, SMT DEF TypeOK

LEMMA AtFrontType ==
    ASSUME TypeOK, NEW E \in SUBSET Entry
    PROVE  AtFront(E) \subseteq Entry \X Entry /\ Without(E) \subseteq Entry \X Entry
BY DEF TypeOK, AtFront, Without

LEMMA DropType ==
    ASSUME TypeOK, NEW E, Drop(E)
    PROVE  /\ cached' \subseteq Entry /\ changed' \subseteq cached'
           /\ newer' \subseteq Entry \X Entry
           /\ len' \in [Entry -> 0..SlotSize]
           /\ mem' \in [Address -> Byte]
<1>1. 0 \in 0..SlotSize
  BY Constants, SMT
<1>2. len' \in [Entry -> 0..SlotSize]
  BY <1>1 DEF TypeOK, Drop
<1>3. mem' \in [Address -> Byte]
  BY DEF TypeOK, Drop, Byte
<1> QED
  BY <1>2, <1>3 DEF TypeOK, Drop, Without

LEMMA AddType ==
    ASSUME TypeOK, NEW E \in SUBSET Entry, NEW n \in 0..MaxCells,
           \A e \in E : e[2] * SlotSize < n,
           AddEntries(E, n)
    PROVE  /\ cached' \subseteq Entry /\ changed \subseteq cached'
           /\ newer' \subseteq Entry \X Entry
           /\ len' \in [Entry -> 0..SlotSize]
           /\ mem' \in [Address -> Byte]
<1>1. \A e \in E : SlotLength(n, e[2]) \in 0..SlotSize
  BY EntryFacts, SlotLengthType, Constants
<1>2. len' \in [Entry -> 0..SlotSize]
  BY <1>1 DEF TypeOK, AddEntries
<1>3. mem' \in [Address -> Byte]
  BY DEF TypeOK, AddEntries, Byte
<1>4. newer' \subseteq Entry \X Entry
  BY AtFrontType DEF AddEntries
<1> QED
  BY <1>2, <1>3, <1>4 DEF TypeOK, AddEntries

LEMMA FullSlotsFit ==
    ASSUME NEW f \in Flob, NEW n \in 0..MaxCells
    PROVE  /\ FullSlots(f, n) \in SUBSET Entry
           /\ \A e \in FullSlots(f, n) : e[1] = f /\ e[2] * SlotSize < n
<1>1. n \in Nat /\ n \div SlotSize = SlotOf(n)
  BY Constants, SMT DEF SlotOf
<1>2. ASSUME NEW e \in FullSlots(f, n) PROVE e[1] = f /\ e[2] * SlotSize < n
  <2>1. e \in Entry /\ e[1] = f /\ e[2] < SlotOf(n)
    BY <1>1 DEF FullSlots
  <2>2. e[2] \in Nat /\ e[2] * SlotSize \in Nat
    BY <2>1, EntryFacts
  <2>3. e[2] * SlotSize + SlotSize <= n
    BY <1>1, <2>1, <2>2, SlotWithin
  <2> QED
    BY <1>1, <2>1, <2>2, <2>3, Constants, SMT
<1> QED
  BY <1>2 DEF FullSlots

(* erase finds all entries of a Flob.                                       *)
LEMMA ErasesAll ==
    ASSUME TypeOK, SlotsFit, NEW f \in Flob
    PROVE  Erasable(f) = {e \in cached : e[1] = f}
<1>1. ASSUME NEW e \in cached, e[1] = f PROVE e[2] <= size[f] \div SlotSize
  <2>1. e \in Entry /\ e[2] * SlotSize < size[f]
    BY <1>1 DEF TypeOK, SlotsFit
  <2>2. e[2] \in Nat /\ e[2] * SlotSize \in Nat /\ size[f] \in Nat
    BY <2>1, EntryFacts, SizeType
  <2>3. e[2] <= SlotOf(size[f])
    BY <2>1, <2>2, SlotWithin
  <2> QED
    BY <2>3 DEF SlotOf
<1> QED
  BY <1>1 DEF Erasable

LEMMA NoEntries ==
    ASSUME TypeOK, SlotsFit, NEW f \in Flob, f \notin live \/ size[f] = 0
    PROVE  \A e \in cached : e[1] # f
<1>1. ASSUME NEW e \in cached, e[1] = f PROVE FALSE
  <2>1. e \in Entry /\ f \in live /\ e[2] * SlotSize < size[f]
    BY <1>1 DEF TypeOK, SlotsFit
  <2>2. e[2] * SlotSize \in Nat /\ size[f] \in Nat
    BY <2>1, EntryFacts, SizeType
  <2> QED
    BY <2>1, <2>2, SMT
<1> QED
  BY <1>1
-----------------------------------------------------------------------------
(* The ids.                                                                 *)

LEMMA CreateIds ==
    ASSUME TypeOK, IdsExclusive, NEW f \in Flob, NEW n \in 0..MaxCells, Create(f, n)
    PROVE  f \notin live /\ appended' \subseteq Flob /\ destroyed' \in Seq(Flob) /\ IdsExclusive'
<1>1. live' = live \cup {f}
  BY DEF Create
<1>2. CASE /\ destroyed # <<>>
           /\ f = destroyed[Len(destroyed)]
           /\ destroyed' = SubSeq(destroyed, 1, Len(destroyed) - 1)
           /\ appended' = appended
  <2> DEFINE k == Len(destroyed)
             rest == SubSeq(destroyed, 1, k - 1)
  <2>1. k \in Nat /\ k > 0 /\ \A i \in 1..k : destroyed[i] \in Flob
    BY <1>2, LenProperties, EmptySeq, SMT DEF TypeOK
  <2>2. rest \in Seq(Flob)
    BY <2>1, SubSeqProperties
  <2>3. Len(rest) = k - 1 /\ \A i \in 1..(k - 1) : rest[i] = destroyed[i]
    <3>1. \A i \in 1..(k - 1) : destroyed[i] \in Flob
      BY <2>1
    <3>2. /\ Len(rest) = IF 1 <= k - 1 THEN (k - 1) - 1 + 1 ELSE 0
          /\ \A i \in 1..((k - 1) - 1 + 1) : rest[i] = destroyed[1 + i - 1]
      BY <3>1, <2>1, SubSeqProperties
    <3> HIDE DEF rest, k
    <3> QED
      BY <3>2, <2>1, SMT
  <2>4. f \in appended /\ f \notin live /\ \A i \in 1..(k - 1) : destroyed[i] # f
    BY <1>2, <2>1 DEF IdsExclusive
  <2>5. live' \subseteq appended'
    BY <1>1, <1>2, <2>4 DEF IdsExclusive
  <2>6. ASSUME NEW i \in 1..Len(rest)
        PROVE  /\ rest[i] \in appended' \ live'
               /\ \A j \in 1..Len(rest) : rest[i] = rest[j] => i = j
    <3>1. i \in 1..k /\ rest[i] = destroyed[i] /\ destroyed[i] # f
      BY <2>1, <2>3, <2>4
    <3>2. rest[i] \in appended' \ live'
      BY <3>1, <1>1, <1>2 DEF IdsExclusive
    <3>3. ASSUME NEW j \in 1..Len(rest), rest[i] = rest[j] PROVE i = j
      BY <3>1, <3>3, <2>1, <2>3 DEF IdsExclusive
    <3> QED
      BY <3>2, <3>3
  <2>7. destroyed' = rest
    BY <1>2
  <2> QED
    BY <1>2, <2>2, <2>4, <2>5, <2>6, <2>7 DEF IdsExclusive, TypeOK
<1>3. CASE /\ destroyed = <<>>
           /\ f \notin appended
           /\ appended' = appended \cup {f}
           /\ destroyed' = destroyed
  <2>1. f \notin live
    BY <1>3 DEF IdsExclusive
  <2>2. Len(destroyed') = 0
    BY <1>3, SMT
  <2> QED
    BY <1>1, <1>3, <2>1, <2>2, SMT DEF IdsExclusive, TypeOK
<1> QED
  BY <1>2, <1>3 DEF Create

LEMMA DestroyIds ==
    ASSUME TypeOK, IdsExclusive, NEW f \in Flob, Destroy(f)
    PROVE  destroyed' \in Seq(Flob) /\ IdsExclusive'
<1> DEFINE k == Len(destroyed)
           more == Append(destroyed, f)
<1>1. k \in Nat /\ more \in Seq(Flob) /\ Len(more) = k + 1 /\ more[k + 1] = f
      /\ \A i \in 1..k : more[i] = destroyed[i]
  BY AppendProperties, LenProperties DEF TypeOK
<1>2. destroyed' = more /\ appended' = appended /\ live' = live \ {f} /\ f \in live
  BY DEF Destroy
<1>3. \A i \in 1..k : destroyed[i] # f
  BY <1>2 DEF IdsExclusive
<1>4. ASSUME NEW i \in 1..Len(more)
      PROVE  /\ more[i] \in appended' \ live'
             /\ \A j \in 1..Len(more) : more[i] = more[j] => i = j
  <2>1. i \in 1..k \/ i = k + 1
    BY <1>1
  <2>2. more[i] \in appended' \ live'
    BY <2>1, <1>1, <1>2 DEF IdsExclusive
  <2>3. ASSUME NEW j \in 1..Len(more), more[i] = more[j] PROVE i = j
    <3>1. j \in 1..k \/ j = k + 1
      BY <1>1
    <3> QED
      BY <3>1, <2>1, <2>3, <1>1, <1>3 DEF IdsExclusive
  <2> QED
    BY <2>2, <2>3
<1>5. live' \subseteq appended'
  BY <1>2 DEF IdsExclusive
<1> HIDE DEF more, k
<1> QED
  BY <1>1, <1>2, <1>4, <1>5 DEF IdsExclusive

LEMMA SameIds ==
    ASSUME TypeOK, IdsExclusive, UNCHANGED <<live, appended, destroyed>>
    PROVE  IdsExclusive'
BY DEF IdsExclusive

LEMMA KillIds ==
    ASSUME KillNativeFlobs
    PROVE  destroyed' \in Seq(Flob) /\ IdsExclusive'
<1>1. destroyed' = <<>> /\ live' = {}
  BY DEF KillNativeFlobs, StackEmptied
<1>2. Len(destroyed') = 0
  BY <1>1, SMT
<1> QED
  BY <1>1, <1>2, EmptySeq, SMT DEF IdsExclusive
-----------------------------------------------------------------------------
(* Entries come and go without a change of the bytes written.               *)

(* The written bytes that remain keep their contents.                       *)
Kept == /\ written' \subseteq written
        /\ \A p \in written' :
              (IF EntryOf(p) \in cached' THEN mem'[p] ELSE disk'[p]) = Contents(p)

LEMMA WrittenFacts ==
    ASSUME TypeOK, WrittenWithin, NEW p \in written
    PROVE  /\ p \in Address /\ EntryOf(p) \in Entry
           /\ EntryOf(p)[1] = p[1] /\ EntryOf(p)[2] = SlotOf(p[2])
           /\ p[1] \in Flob /\ p[1] \in live /\ size[p[1]] \in Nat
           /\ p[2] \in Nat /\ p[2] < size[p[1]]
<1>1. p \in Address
  BY DEF TypeOK
<1> QED
  BY <1>1, AddressFacts, SizeType DEF WrittenWithin

(* The slots of a Flob that has none so far.                                *)
LEMMA FirstSlots ==
    ASSUME CacheInv, NEW f \in Flob, NEW n \in 0..MaxCells,
           f \notin live \/ size[f] = 0,
           CreateEntries(f, n),
           live' = live \cup {f}, size' = [size EXCEPT ![f] = n]
    PROVE  /\ cached' \subseteq Entry /\ changed' \subseteq cached'
           /\ newer' \subseteq Entry \X Entry
           /\ len' \in [Entry -> 0..SlotSize]
           /\ mem' \in [Address -> Byte]
           /\ SlotsFit' /\ WrittenWithin' /\ CleanAgrees' /\ Kept
           /\ \A p \in written : p[1] # f
<1> USE DEF CacheInv
<1> DEFINE E == FullSlots(f, n)
<1>1. /\ E \in SUBSET Entry
      /\ \A e \in E : e[1] = f /\ e[2] * SlotSize < n
  BY FullSlotsFit
<1>2. \A e \in cached : e[1] # f
  BY NoEntries
<1>3. \A p \in written : p[1] # f
  <2>1. ASSUME NEW p \in written, p[1] = f PROVE FALSE
    <3>1. p[2] \in Nat /\ p[2] < size[f] /\ f \in live /\ size[f] \in Nat
      BY <2>1, WrittenFacts
    <3> QED
      BY <3>1, SMT
  <2> QED
    BY <2>1
<1> HIDE DEF E
<1>4. AddEntries(E, n) /\ disk' = disk /\ changed' = changed /\ written' = written
  BY DEF CreateEntries, E
<1>5. /\ cached' \subseteq Entry /\ changed' \subseteq cached'
      /\ newer' \subseteq Entry \X Entry
      /\ len' \in [Entry -> 0..SlotSize]
      /\ mem' \in [Address -> Byte]
  BY <1>1, <1>4, AddType
<1>6. SlotsFit'
  <2> SUFFICES ASSUME NEW e \in cached'
               PROVE  /\ e[1] \in live'
                      /\ e[2] * SlotSize < size'[e[1]]
                      /\ len'[e] = SlotLength(size'[e[1]], e[2])
    BY DEF SlotsFit, SlotLength
  <2>1. e \in Entry /\ (e \in E \/ e \in cached)
    BY <1>4, <1>5 DEF AddEntries
  <2>2. CASE e \in E
    <3>1. e[1] = f /\ size'[f] = n /\ f \in live' /\ e[2] * SlotSize < n
      BY <2>2, <1>1 DEF TypeOK
    <3>2. len'[e] = SlotLength(n, e[2])
      BY <2>1, <2>2, <1>4 DEF AddEntries
    <3> QED
      BY <3>1, <3>2
  <2>3. CASE e \in cached
    <3>1. e[1] # f /\ e \notin E
      BY <2>3, <1>1, <1>2
    <3>2. len'[e] = len[e] /\ size'[e[1]] = size[e[1]]
      BY <3>1, <2>1, <1>4, EntryFacts DEF AddEntries, TypeOK
    <3> QED
      BY <2>3, <3>2 DEF SlotsFit
  <2> QED
    BY <2>1, <2>2, <2>3
<1>7. ASSUME NEW p \in written
      PROVE  /\ p[1] # f /\ size'[p[1]] = size[p[1]]
             /\ p \in Address /\ EntryOf(p) \notin E
             /\ EntryOf(p) \in cached' <=> EntryOf(p) \in cached
             /\ mem'[p] = mem[p]
  <2>1. p \in Address /\ p[1] \in Flob /\ p[1] # f /\ EntryOf(p)[1] = p[1]
    BY <1>3, WrittenFacts
  <2>2. EntryOf(p) \notin E
    BY <2>1, <1>1
  <2> QED
    BY <2>1, <2>2, <1>4 DEF AddEntries, TypeOK
<1>8. WrittenWithin'
  BY <1>4, <1>7 DEF WrittenWithin
<1>9. CleanAgrees'
  <2> SUFFICES ASSUME NEW p \in written, EntryOf(p) \in cached' \ changed'
               PROVE  mem'[p] = disk'[p]
    BY <1>4 DEF CleanAgrees, EntryOf, SlotOf
  <2> QED
    BY <1>4, <1>7 DEF CleanAgrees
<1>10. Kept
  BY <1>4, <1>7 DEF Kept, Contents
<1> QED
  BY <1>3, <1>5, <1>6, <1>8, <1>9, <1>10

(* All slots of a Flob are erased.                                          *)
LEMMA NoSlots ==
    ASSUME CacheInv, NEW f \in Flob, Drop(Erasable(f)),
           live' = live \/ live' = live \ {f},
           size' = [size EXCEPT ![f] = 0],
           written' = {p \in written : p[1] # f}, disk' = disk
    PROVE  SlotsFit' /\ WrittenWithin' /\ CleanAgrees' /\ Kept
<1> USE DEF CacheInv
<1> DEFINE E == Erasable(f)
<1>1. E = {e \in cached : e[1] = f}
  BY ErasesAll
<1> HIDE DEF E
<1>2. Drop(E)
  BY DEF E
<1>3. SlotsFit'
  <2> SUFFICES ASSUME NEW e \in cached'
               PROVE  /\ e[1] \in live'
                      /\ e[2] * SlotSize < size'[e[1]]
                      /\ len'[e] = SlotLength(size'[e[1]], e[2])
    BY DEF SlotsFit, SlotLength
  <2>1. e \in cached /\ e \notin E /\ e \in Entry /\ e[1] # f
    BY <1>1, <1>2 DEF Drop, TypeOK
  <2>2. len'[e] = len[e] /\ size'[e[1]] = size[e[1]]
    BY <2>1, <1>2, EntryFacts DEF Drop, TypeOK
  <2> QED
    BY <2>1, <2>2 DEF SlotsFit
<1>4. ASSUME NEW p \in written'
      PROVE  /\ p \in written /\ p[1] # f /\ size'[p[1]] = size[p[1]]
             /\ p \in Address /\ EntryOf(p) \notin E
             /\ EntryOf(p) \in cached' <=> EntryOf(p) \in cached
             /\ mem'[p] = mem[p]
  <2>1. p \in written /\ p[1] # f
    OBVIOUS
  <2>2. p \in Address /\ p[1] \in Flob /\ EntryOf(p)[1] = p[1]
    BY <2>1, WrittenFacts
  <2>3. EntryOf(p) \notin E
    BY <2>1, <2>2, <1>1
  <2> QED
    BY <2>1, <2>2, <2>3, <1>2 DEF Drop, TypeOK
<1>5. WrittenWithin'
  BY <1>4 DEF WrittenWithin
<1>6. CleanAgrees'
  <2> SUFFICES ASSUME NEW p \in written', EntryOf(p) \in cached' \ changed'
               PROVE  mem'[p] = disk'[p]
    BY DEF CleanAgrees, EntryOf, SlotOf
  <2>1. EntryOf(p) \in cached \ changed
    BY <1>2, <1>4 DEF Drop
  <2> QED
    BY <2>1, <1>4 DEF CleanAgrees
<1>7. Kept
  BY <1>4 DEF Kept, Contents
<1> QED
  BY <1>3, <1>5, <1>6, <1>7
LEMMA ShrinkSlots ==
    ASSUME CacheInv, NEW f \in live, NEW n \in 0..MaxCells, Shrink(f, n),
           live' = live, size' = [size EXCEPT ![f] = n]
    PROVE  /\ cached' \subseteq Entry /\ changed' \subseteq cached'
           /\ newer' \subseteq Entry \X Entry
           /\ len' \in [Entry -> 0..SlotSize]
           /\ mem' \in [Address -> Byte]
           /\ SlotsFit' /\ WrittenWithin' /\ CleanAgrees' /\ Kept
<1> USE DEF CacheInv
<1> DEFINE k    == n \div SlotSize
           gone == {e \in Erasable(f) : e[2] > k \/ e[2] * SlotSize = n}
           last == <<f, k>>
           rest == n - k * SlotSize
           cut  == last \in cached /\ rest > 0 /\ rest < len[last]
<1>1. /\ 0 < n /\ n < size[f]
      /\ cached' = cached \ gone
      /\ changed' = changed \ gone
      /\ newer' = Without(gone)
      /\ len' = [e \in Entry |-> IF e \in gone THEN 0
                                 ELSE IF cut /\ e = last THEN rest ELSE len[e]]
      /\ mem' = [p \in Address |->
                   IF EntryOf(p) \in gone \/ (cut /\ EntryOf(p) = last /\ p[2] >= n)
                   THEN Unwritten ELSE mem[p]]
      /\ written' = {p \in written : ~ (p[1] = f /\ p[2] >= n)}
      /\ disk' = disk
  BY DEF Shrink, Forgotten
<1>2. /\ f \in Flob /\ n \in Nat /\ size[f] \in Nat /\ SlotSize \in Nat \ {0}
      /\ k = SlotOf(n) /\ k \in Nat /\ k * SlotSize \in Nat
      /\ k * SlotSize <= n /\ n < k * SlotSize + SlotSize
  <2>1. f \in Flob /\ n \in Nat /\ size[f] \in Nat
    BY SizeType, Constants, SMT DEF TypeOK
  <2>2. k = SlotOf(n)
    BY DEF SlotOf
  <2> QED
    BY <2>1, <2>2, SlotBounds, Constants
<1>3. rest \in 0..SlotSize
  <2> HIDE DEF k
  <2> QED
    BY <1>2, SMT
<1>4. gone \subseteq cached /\ \A e \in cached :
          e \in gone <=> e[1] = f /\ (e[2] > k \/ e[2] * SlotSize = n)
  BY <1>2, ErasesAll
<1> HIDE DEF k, gone, rest, cut
(* What is left of the Flob begins before the new end.                      *)
<1>5. ASSUME NEW e \in cached, e \notin gone, e[1] = f
      PROVE  /\ e \in Entry /\ e[2] \in Nat /\ e[2] * SlotSize \in Nat
             /\ e[2] * SlotSize < n
             /\ e[2] < k \/ e = last
  <2>1. e \in Entry /\ e[2] \in Nat /\ e[2] * SlotSize \in Nat /\ e = <<f, e[2]>>
    BY <1>5, EntryFacts DEF TypeOK
  <2>2. e[2] <= k /\ e[2] * SlotSize # n
    BY <1>2, <1>4, <1>5, <2>1, SMT
  <2>3. e[2] * SlotSize <= n
    BY <2>1, <2>2, <1>2, SlotWithin
  <2>4. e[2] < k \/ e[2] = k
    BY <2>1, <2>2, <1>2, SMT
  <2> QED
    BY <2>1, <2>2, <2>3, <2>4, <1>2, SMT
<1>6. len' \in [Entry -> 0..SlotSize]
  <2>1. 0 \in 0..SlotSize
    BY <1>2, SMT
  <2> QED
    BY <1>1, <1>3, <2>1 DEF TypeOK
<1>7. mem' \in [Address -> Byte]
  BY <1>1 DEF TypeOK, Byte
<1>8. /\ cached' \subseteq Entry /\ changed' \subseteq cached'
      /\ newer' \subseteq Entry \X Entry
  BY <1>1 DEF TypeOK, Without
<1>9. SlotsFit'
  <2> SUFFICES ASSUME NEW e \in cached'
               PROVE  /\ e[1] \in live'
                      /\ e[2] * SlotSize < size'[e[1]]
                      /\ len'[e] = SlotLength(size'[e[1]], e[2])
    BY DEF SlotsFit, SlotLength
  <2>1. e \in cached /\ e \notin gone /\ e \in Entry
    BY <1>1 DEF TypeOK
  <2>2. /\ e[1] \in live /\ e[2] * SlotSize < size[e[1]]
        /\ len[e] = SlotLength(size[e[1]], e[2])
    BY <2>1 DEF SlotsFit
  <2>3. CASE e[1] # f
    <3>1. e # last /\ size'[e[1]] = size[e[1]]
      BY <2>1, <2>3, EntryFacts DEF TypeOK
    <3>2. len'[e] = len[e]
      BY <3>1, <2>1, <1>1
    <3> QED
      BY <2>2, <3>1, <3>2
  <2>4. CASE e[1] = f
    <3>1. /\ e[2] \in Nat /\ e[2] * SlotSize \in Nat /\ e[2] * SlotSize < n
          /\ e[2] < k \/ e = last
      BY <2>1, <2>4, <1>5
    <3>2. size'[f] = n
      BY <1>2 DEF TypeOK
    <3>3. CASE e[2] < k
      <4>1. e[2] * SlotSize + SlotSize <= k * SlotSize
        BY <3>1, <3>3, <1>2, SlotOrder
      <4>2. n >= e[2] * SlotSize + SlotSize /\ size[f] >= e[2] * SlotSize + SlotSize
        BY <4>1, <3>1, <1>1, <1>2, SMT
      <4>3. SlotLength(n, e[2]) = SlotSize /\ SlotLength(size[f], e[2]) = SlotSize
        BY <4>2, <3>1, <1>2, <2>2, <2>4, SlotLengthType
      <4>4. e # last
        BY <3>1, <3>3, <1>2, SMT
      <4>5. len'[e] = len[e]
        BY <4>4, <2>1, <1>1
      <4> QED
        BY <2>2, <2>4, <3>1, <3>2, <4>3, <4>5, <1>2
    <3>4. CASE e = last
      <4>1. e[2] = k
        BY <3>4
      <4>2. SlotLength(n, k) = rest /\ rest > 0 /\ rest < SlotSize
        <5>1. SlotLength(n, k) = n - k * SlotSize
          BY <4>1, <3>1, <1>2, SlotLengthType
        <5> QED
          BY <5>1, <4>1, <3>1, <1>2, SMT DEF rest
      <4>3. rest < len[last]
        <5>1. len[last] = SlotLength(size[f], k)
          BY <2>2, <2>4, <3>4, <4>1
        <5>2. size[f] - k * SlotSize > rest
          BY <1>1, <1>2, SMT DEF rest
        <5> QED
          BY <5>1, <5>2, <4>2, <1>2, <1>3, SMT DEF SlotLength
      <4>4. cut
        BY <2>1, <3>4, <4>2, <4>3 DEF cut
      <4>5. len'[e] = rest
        BY <4>4, <3>4, <2>1, <1>1
      <4> QED
        BY <4>1, <4>2, <4>5, <3>1, <3>2, <2>2, <2>4
    <3> QED
      BY <3>1, <3>3, <3>4
  <2> QED
    BY <2>3, <2>4
<1>10. ASSUME NEW p \in written'
       PROVE  /\ p \in written /\ p \in Address
              /\ p[1] \in live /\ p[2] < size'[p[1]]
              /\ EntryOf(p) \in cached' <=> EntryOf(p) \in cached
              /\ mem'[p] = mem[p]
  <2>1. p \in written /\ (p[1] # f \/ ~ (p[2] >= n))
    BY <1>1
  <2>2. /\ p \in Address /\ p[1] \in Flob /\ p[1] \in live /\ p[2] \in Nat
        /\ p[2] < size[p[1]] /\ EntryOf(p)[1] = p[1] /\ EntryOf(p)[2] = SlotOf(p[2])
        /\ EntryOf(p) \in Entry
    BY <2>1, WrittenFacts
  <2>3. CASE p[1] # f
    <3>1. EntryOf(p) \notin gone /\ EntryOf(p) # last
      BY <2>2, <2>3, <1>4
    <3>2. size'[p[1]] = size[p[1]]
      BY <2>2, <2>3 DEF TypeOK
    <3> QED
      BY <3>1, <3>2, <2>1, <2>2, <1>1
  <2>4. CASE p[1] = f /\ p[2] < n
    <3>1. /\ SlotOf(p[2]) \in Nat /\ SlotOf(p[2]) * SlotSize \in Nat
          /\ SlotOf(p[2]) * SlotSize <= p[2]
      BY <2>2, SlotBounds
    <3>2. SlotOf(p[2]) * SlotSize # n /\ SlotOf(p[2]) * SlotSize <= n
      BY <3>1, <2>2, <2>4, <1>2, SMT
    <3>3. SlotOf(p[2]) <= k
      BY <3>1, <3>2, <1>2, SlotWithin
    <3>4. EntryOf(p) \notin gone
      <4>1. ~ (SlotOf(p[2]) > k)
        BY <3>1, <3>3, <1>2, SMT
      <4> QED
        BY <4>1, <3>2, <2>2, <1>4
    <3>5. ~ (p[2] >= n)
      BY <2>2, <2>4, <1>2, SMT
    <3>6. size'[p[1]] = n
      BY <2>2, <2>4 DEF TypeOK
    <3> QED
      BY <3>4, <3>5, <3>6, <2>1, <2>2, <2>4, <1>1
  <2> QED
    BY <2>1, <2>2, <2>3, <2>4, <1>2, SMT
<1>11. WrittenWithin'
  BY <1>10 DEF WrittenWithin
<1>12. CleanAgrees'
  <2> SUFFICES ASSUME NEW p \in written', EntryOf(p) \in cached' \ changed'
               PROVE  mem'[p] = disk'[p]
    BY DEF CleanAgrees, EntryOf, SlotOf
  <2>1. EntryOf(p) \in cached \ changed
    BY <1>1, <1>10
  <2> QED
    BY <2>1, <1>1, <1>10 DEF CleanAgrees
<1>13. Kept
  BY <1>1, <1>10 DEF Kept, Contents
<1> QED
  BY <1>6, <1>7, <1>8, <1>9, <1>11, <1>12, <1>13
LEMMA EnlargeSlots ==
    ASSUME CacheInv, NEW f \in live, NEW n \in 0..MaxCells, Enlarge(f, n),
           live' = live, size' = [size EXCEPT ![f] = n]
    PROVE  /\ cached' \subseteq Entry /\ changed' \subseteq cached'
           /\ newer' \subseteq Entry \X Entry
           /\ len' \in [Entry -> 0..SlotSize]
           /\ mem' \in [Address -> Byte]
           /\ SlotsFit' /\ WrittenWithin' /\ CleanAgrees' /\ Kept
<1> USE DEF CacheInv
<1> DEFINE k     == size[f] \div SlotSize
           fresh == {e \in Entry : e[1] = f /\ e[2] > k /\ e[2] * SlotSize < n}
           grown == Enlarged(f, n)
<1>1. /\ 0 < size[f] /\ size[f] < n
      /\ cached' = cached \cup fresh
      /\ newer' = AtFront(fresh)
      /\ len' = [e \in Entry |-> IF e \in fresh \cup grown THEN SlotLength(n, e[2])
                                                          ELSE len[e]]
      /\ mem' = [p \in Address |-> IF EntryOf(p) \in fresh THEN Unwritten ELSE mem[p]]
      /\ disk' = disk /\ changed' = changed /\ written' = written
  BY DEF Enlarge
<1>2. /\ f \in Flob /\ n \in Nat /\ size[f] \in Nat /\ SlotSize \in Nat \ {0}
      /\ k = SlotOf(size[f]) /\ k \in Nat /\ k * SlotSize \in Nat
      /\ k * SlotSize <= size[f] /\ size[f] < k * SlotSize + SlotSize
  <2>1. f \in Flob /\ n \in Nat /\ size[f] \in Nat
    BY SizeType, Constants, SMT DEF TypeOK
  <2>2. k = SlotOf(size[f])
    BY DEF SlotOf
  <2> QED
    BY <2>1, <2>2, SlotBounds, Constants
<1>3. grown = {e \in cached : e = <<f, k>>}
  BY DEF Enlarged
<1>4. /\ fresh \in SUBSET Entry
      /\ \A e \in fresh : e[1] = f /\ e[2] > k /\ e[2] * SlotSize < n
  OBVIOUS
<1> HIDE DEF k, fresh, grown
<1>5. ASSUME NEW e \in cached, e[1] = f
      PROVE  /\ e \in Entry /\ e[2] \in Nat /\ e[2] * SlotSize \in Nat
             /\ e[2] * SlotSize < n /\ e \notin fresh
             /\ len[e] = SlotLength(size[f], e[2])
             /\ (e[2] < k /\ e \notin grown) \/ e \in grown
  <2>1. e \in Entry /\ e[2] \in Nat /\ e[2] * SlotSize \in Nat /\ e = <<f, e[2]>>
    BY <1>5, EntryFacts DEF TypeOK
  <2>2. e[2] * SlotSize < size[f] /\ len[e] = SlotLength(size[f], e[2])
    BY <1>5 DEF SlotsFit
  <2>3. e[2] * SlotSize <= size[f] /\ e[2] * SlotSize < n
    BY <2>1, <2>2, <1>1, <1>2, SMT
  <2>4. e[2] <= k
    BY <2>1, <2>3, <1>2, SlotWithin
  <2>5. e \notin fresh
    BY <2>1, <2>4, <1>2, <1>4, SMT
  <2>6. e[2] < k \/ e[2] = k
    BY <2>1, <2>4, <1>2, SMT
  <2>7. e[2] = k => e \in grown
    BY <2>1, <1>3, <1>5
  <2>8. e[2] < k => e \notin grown
    BY <2>1, <1>2, <1>3, SMT
  <2> QED
    BY <2>1, <2>2, <2>3, <2>5, <2>6, <2>7, <2>8
<1>6. \A e \in fresh \cup grown : e \in Entry /\ e[1] = f /\ SlotLength(n, e[2]) \in 0..SlotSize
  <2> SUFFICES ASSUME NEW e \in fresh \cup grown
               PROVE  e \in Entry /\ e[1] = f /\ SlotLength(n, e[2]) \in 0..SlotSize
    OBVIOUS
  <2>1. e \in Entry /\ e[1] = f /\ e[2] * SlotSize < n
    <3>1. CASE e \in fresh
      BY <3>1, <1>4
    <3>2. CASE e \in grown
      <4>1. e \in cached /\ e[1] = f
        BY <3>2, <1>3
      <4> QED
        BY <4>1, <1>5
    <3> QED
      BY <3>1, <3>2
  <2>2. e[2] \in Nat
    BY <2>1, EntryFacts
  <2> QED
    BY <2>1, <2>2, <1>2, SlotLengthType
<1>7. len' \in [Entry -> 0..SlotSize]
  BY <1>1, <1>6 DEF TypeOK
<1>8. mem' \in [Address -> Byte]
  BY <1>1 DEF TypeOK, Byte
<1>9. /\ cached' \subseteq Entry /\ changed' \subseteq cached'
      /\ newer' \subseteq Entry \X Entry
  BY <1>1, <1>4, AtFrontType DEF TypeOK
<1>10. size'[f] = n
  BY <1>2 DEF TypeOK
<1>11. SlotsFit'
  <2> SUFFICES ASSUME NEW e \in cached'
               PROVE  /\ e[1] \in live'
                      /\ e[2] * SlotSize < size'[e[1]]
                      /\ len'[e] = SlotLength(size'[e[1]], e[2])
    BY DEF SlotsFit, SlotLength
  <2>1. e \in Entry /\ (e \in fresh \/ e \in cached)
    BY <1>1, <1>9
  <2>2. CASE e \in fresh
    <3>1. len'[e] = SlotLength(n, e[2])
      BY <2>1, <2>2, <1>1
    <3> QED
      BY <2>2, <3>1, <1>4, <1>10
  <2>3. CASE e \in cached /\ e[1] # f
    <3>1. len'[e] = len[e] /\ size'[e[1]] = size[e[1]]
      BY <2>1, <2>3, <1>1, <1>6, EntryFacts DEF TypeOK
    <3> QED
      BY <2>3, <3>1 DEF SlotsFit
  <2>4. CASE e \in cached /\ e[1] = f
    <3>1. /\ e[2] \in Nat /\ e[2] * SlotSize \in Nat /\ e[2] * SlotSize < n
          /\ e \notin fresh /\ len[e] = SlotLength(size[f], e[2])
          /\ (e[2] < k /\ e \notin grown) \/ e \in grown
      BY <2>4, <1>5
    <3>2. CASE e \in grown
      <4>1. len'[e] = SlotLength(n, e[2])
        BY <2>1, <3>2, <1>1
      <4> QED
        BY <2>4, <3>1, <4>1, <1>10
    <3>3. CASE e[2] < k /\ e \notin grown
      <4>1. e[2] * SlotSize + SlotSize <= k * SlotSize
        BY <3>1, <3>3, <1>2, SlotOrder
      <4>2. /\ n >= e[2] * SlotSize + SlotSize /\ size[f] >= e[2] * SlotSize + SlotSize
            /\ e[2] * SlotSize < size[f]
        BY <4>1, <3>1, <1>1, <1>2, SMT
      <4>3. SlotLength(n, e[2]) = SlotSize /\ SlotLength(size[f], e[2]) = SlotSize
        BY <4>2, <3>1, <1>2, SlotLengthType
      <4>4. len'[e] = len[e]
        BY <3>1, <3>3, <2>1, <1>1
      <4> QED
        BY <2>4, <3>1, <4>3, <4>4, <1>10
    <3> QED
      BY <3>1, <3>2, <3>3
  <2> QED
    BY <2>1, <2>2, <2>3, <2>4
<1>12. ASSUME NEW p \in written
       PROVE  /\ p \in Address /\ p[1] \in live /\ p[2] < size'[p[1]]
              /\ EntryOf(p) \in cached' <=> EntryOf(p) \in cached
              /\ mem'[p] = mem[p]
  <2>1. /\ p \in Address /\ p[1] \in Flob /\ p[1] \in live /\ p[2] \in Nat
        /\ p[2] < size[p[1]] /\ EntryOf(p)[1] = p[1] /\ EntryOf(p)[2] = SlotOf(p[2])
    BY WrittenFacts
  <2>2. p[2] < size'[p[1]]
    <3>1. CASE p[1] = f
      BY <3>1, <2>1, <1>1, <1>2, <1>10, SMT
    <3>2. CASE p[1] # f
      BY <3>2, <2>1 DEF TypeOK
    <3> QED
      BY <3>1, <3>2
  <2>3. EntryOf(p) \notin fresh
    <3>1. CASE p[1] # f
      BY <3>1, <2>1, <1>4
    <3>2. CASE p[1] = f
      <4>1. /\ SlotOf(p[2]) \in Nat /\ SlotOf(p[2]) * SlotSize \in Nat
            /\ SlotOf(p[2]) * SlotSize <= p[2]
        BY <2>1, SlotBounds
      <4>2. SlotOf(p[2]) * SlotSize <= size[f]
        BY <3>2, <2>1, <4>1, <1>2, SMT
      <4>3. SlotOf(p[2]) <= k
        BY <4>1, <4>2, <1>2, SlotWithin
      <4>4. ~ (SlotOf(p[2]) > k)
        BY <4>1, <4>3, <1>2, SMT
      <4> QED
        BY <4>4, <2>1, <1>4
    <3> QED
      BY <3>1, <3>2
  <2> QED
    BY <2>1, <2>2, <2>3, <1>1
<1>13. WrittenWithin'
  BY <1>1, <1>12 DEF WrittenWithin
<1>14. CleanAgrees'
  <2> SUFFICES ASSUME NEW p \in written, EntryOf(p) \in cached' \ changed'
               PROVE  mem'[p] = disk'[p]
    BY <1>1 DEF CleanAgrees, EntryOf, SlotOf
  <2>1. EntryOf(p) \in cached \ changed
    BY <1>1, <1>12
  <2> QED
    BY <2>1, <1>1, <1>12 DEF CleanAgrees
<1>15. Kept
  BY <1>1, <1>12 DEF Kept, Contents
<1> QED
  BY <1>7, <1>8, <1>9, <1>11, <1>13, <1>14, <1>15
-----------------------------------------------------------------------------
(* Calls of getData and putData.                                            *)

LEMMA CallRuns ==
    ASSUME TypeOK, CallFits, call # NoCall
    PROVE  /\ call \in [op : {"get", "put"}, flob : Flob, at : Cell, to : 1..MaxCells,
                        value : Byte]
           /\ call.flob \in Flob /\ call.flob \in live
           /\ call.at \in Nat /\ call.to \in Nat
           /\ call.at < call.to /\ call.to <= size[call.flob] /\ size[call.flob] \in Nat
           /\ call.to <= MaxCells
<1>1. call \in [op : {"get", "put"}, flob : Flob, at : Cell, to : 1..MaxCells, value : Byte]
  BY DEF TypeOK, Call
<1>2. call.flob \in Flob /\ call.at \in Cell /\ call.to \in 1..MaxCells
  BY <1>1
<1>3. call.at \in Nat /\ call.to \in Nat /\ call.to <= MaxCells
  BY <1>2, Constants, SMT DEF Cell
<1> QED
  BY <1>1, <1>2, <1>3, SizeType DEF CallFits

(* A call copies from one slot at a time, and gets on.                      *)
LEMMA CopyStays ==
    ASSUME TypeOK, CallFits, call # NoCall
    PROVE  /\ NextPosition \in Nat
           /\ call.at < NextPosition /\ NextPosition <= call.to
           /\ Touched \in Entry /\ Touched[1] = call.flob /\ Touched[2] = SlotOf(call.at)
           /\ SlotOf(call.at) * SlotSize < size[call.flob]
           /\ \A c \in Nat : call.at <= c /\ c < NextPosition => SlotOf(c) = SlotOf(call.at)
<1> DEFINE k == SlotOf(call.at)
<1>1. /\ call.flob \in Flob /\ call.at \in Cell
      /\ call.at \in Nat /\ call.to \in Nat /\ size[call.flob] \in Nat
      /\ call.at < call.to /\ call.to <= size[call.flob]
  BY CallRuns
<1>2. /\ k \in Nat /\ k * SlotSize \in Nat /\ k * SlotSize <= call.at
      /\ call.at < k * SlotSize + SlotSize
      /\ (k + 1) * SlotSize = k * SlotSize + SlotSize
  BY <1>1, SlotBounds, SlotOrder
<1>3. NextPosition = IF k * SlotSize + SlotSize < call.to THEN k * SlotSize + SlotSize
                                                          ELSE call.to
  BY <1>2 DEF NextPosition
<1>4. <<call.flob, call.at>> \in Address
  BY <1>1 DEF Address
<1>5. Touched \in Entry /\ Touched[1] = call.flob /\ Touched[2] = k
  BY <1>4, AddressFacts DEF Touched, EntryOf
<1> HIDE DEF k
<1>6. SlotSize \in Nat \ {0}
  BY Constants
<1>7. NextPosition \in Nat /\ call.at < NextPosition /\ NextPosition <= call.to
      /\ NextPosition <= k * SlotSize + SlotSize
  BY <1>1, <1>2, <1>3, <1>6, SMT
<1>8. k * SlotSize < size[call.flob]
  BY <1>1, <1>2, SMT
<1>9. ASSUME NEW c \in Nat, call.at <= c, c < NextPosition PROVE SlotOf(c) = k
  <2>1. k * SlotSize <= c /\ c < k * SlotSize + SlotSize
    BY <1>1, <1>2, <1>6, <1>7, <1>9, SMT
  <2> QED
    BY <2>1, <1>2, SlotUnique
<1> QED
  BY <1>5, <1>7, <1>8, <1>9 DEF k

LEMMA AdvanceFits ==
    ASSUME TypeOK, CallFits, call # NoCall, Advance, UNCHANGED <<live, size>>
    PROVE  call' \in Call /\ CallFits'
<1>1. CASE call' = NoCall
  BY <1>1 DEF Call, CallFits, NoCall
<1>2. CASE NextPosition # call.to /\ call' = [call EXCEPT !.at = NextPosition]
  <2>1. /\ NextPosition \in Nat /\ call.at < NextPosition /\ NextPosition < call.to
        /\ call.to <= MaxCells /\ call.to <= size[call.flob]
    BY <1>2, CallRuns, CopyStays, SMT
  <2>2. NextPosition \in Cell
    BY <2>1, CallRuns, Constants, SMT DEF Cell
  <2>3. call' \in Call
    BY <1>2, <2>2, CallRuns DEF Call
  <2>4. /\ call'.flob = call.flob /\ call'.at = NextPosition /\ call'.to = call.to
        /\ call'.op = call.op /\ call'.value = call.value
    BY <1>2, CallRuns
  <2> QED
    BY <2>1, <2>3, <2>4 DEF CallFits
<1> QED
  BY <1>1, <1>2 DEF Advance

LEMMA BeginFits ==
    ASSUME TypeOK, NEW f \in live, NEW from \in Cell, NEW to \in 1..MaxCells,
           from < to, to <= size[f],
           NEW op \in {"get", "put"}, NEW v \in Byte, op = "put" => v \in Value,
           call' = [op |-> op, flob |-> f, at |-> from, to |-> to, value |-> v],
           UNCHANGED <<live, size>>
    PROVE  call' \in Call /\ CallFits'
<1>1. f \in Flob
  BY DEF TypeOK
<1>2. call' \in Call
  BY <1>1 DEF Call
<1>3. /\ call'.flob = f /\ call'.at = from /\ call'.to = to
      /\ call'.op = op /\ call'.value = v
  OBVIOUS
<1> QED
  BY <1>2, <1>3 DEF CallFits

LEMMA SameCall ==
    ASSUME call = NoCall, UNCHANGED call
    PROVE  CallFits'
BY DEF CallFits, NoCall

LEMMA SameFits ==
    ASSUME CallFits, UNCHANGED <<call, live, size>>
    PROVE  CallFits'
BY DEF CallFits, NoCall
-----------------------------------------------------------------------------
(* The steps of the cache.                                                  *)

LEMMA FetchSlot ==
    ASSUME CacheInv, Fetch
    PROVE  TypeOK' /\ SlotsFit' /\ WrittenWithin' /\ CleanAgrees' /\ Kept
<1> USE DEF CacheInv
<1> DEFINE t == Touched
           n == size[call.flob]
<1>1. /\ call # NoCall /\ t \notin cached
      /\ cached' = cached \cup {t}
      /\ newer' = AtFront({t})
      /\ len' = [len EXCEPT ![t] = SlotLength(n, t[2])]
      /\ mem' = [p \in Address |-> IF EntryOf(p) = t THEN disk[p] ELSE mem[p]]
      /\ UNCHANGED <<live, size, appended, destroyed, disk, changed, written, call>>
  BY DEF Fetch, flobVars
<1>2. t \in Entry /\ t[1] = call.flob /\ t[2] * SlotSize < n
  BY <1>1, CopyStays
<1>3. call.flob \in live /\ n \in Nat
  BY <1>1, CallRuns
<1> HIDE DEF t, n
<1>4. SlotLength(n, t[2]) \in 0..SlotSize
  BY <1>2, <1>3, EntryFacts, SlotLengthType
<1>5. len' \in [Entry -> 0..SlotSize]
  BY <1>1, <1>4 DEF TypeOK
<1>6. mem' \in [Address -> Byte]
  BY <1>1 DEF TypeOK
<1>7. newer' \subseteq Entry \X Entry
  BY <1>1, <1>2, AtFrontType
<1>8. TypeOK'
  BY <1>1, <1>2, <1>5, <1>6, <1>7 DEF TypeOK, Call
<1>9. SlotsFit'
  <2> SUFFICES ASSUME NEW e \in cached'
               PROVE  /\ e[1] \in live'
                      /\ e[2] * SlotSize < size'[e[1]]
                      /\ len'[e] = SlotLength(size'[e[1]], e[2])
    BY DEF SlotsFit, SlotLength
  <2>1. CASE e = t
    <3>1. len'[t] = SlotLength(n, t[2])
      BY <1>1, <1>2 DEF TypeOK
    <3> QED
      BY <3>1, <2>1, <1>1, <1>2, <1>3 DEF n
  <2>2. CASE e # t
    <3>1. e \in cached /\ len'[e] = len[e]
      BY <2>2, <1>1 DEF TypeOK
    <3> QED
      BY <3>1, <1>1 DEF SlotsFit
  <2> QED
    BY <2>1, <2>2
<1>10. ASSUME NEW p \in written
       PROVE  p \in Address /\ (EntryOf(p) # t => mem'[p] = mem[p])
              /\ (EntryOf(p) = t => mem'[p] = disk[p])
  BY <1>1, WrittenFacts
<1>11. WrittenWithin'
  BY <1>1 DEF WrittenWithin
<1>12. CleanAgrees'
  <2> SUFFICES ASSUME NEW p \in written, EntryOf(p) \in cached' \ changed'
               PROVE  mem'[p] = disk'[p]
    BY <1>1 DEF CleanAgrees, EntryOf, SlotOf
  <2> QED
    BY <1>1, <1>10 DEF CleanAgrees
<1>13. Kept
  BY <1>1, <1>10 DEF Kept, Contents
<1> QED
  BY <1>8, <1>9, <1>11, <1>12, <1>13

LEMMA CopyFrom ==
    ASSUME CacheInv, CopyFromSlot
    PROVE  TypeOK' /\ SlotsFit' /\ WrittenWithin' /\ CleanAgrees' /\ Kept
<1> USE DEF CacheInv
<1>1. /\ call # NoCall /\ newer' = AtFront({Touched}) /\ Advance
      /\ UNCHANGED <<live, size, appended, destroyed, disk, cached, len, mem, changed, written>>
  BY DEF CopyFromSlot, flobVars, NoCall
<1>2. call' \in Call
  BY <1>1, AdvanceFits
<1>3. newer' \subseteq Entry \X Entry
  BY <1>1, AtFrontType, CopyStays
<1>4. TypeOK'
  BY <1>1, <1>2, <1>3 DEF TypeOK
<1>5. SlotsFit'
  BY <1>1 DEF SlotsFit, SlotLength
<1>6. WrittenWithin'
  BY <1>1 DEF WrittenWithin
<1>7. CleanAgrees'
  BY <1>1 DEF CleanAgrees, EntryOf, SlotOf
<1>8. Kept
  BY <1>1 DEF Kept, Contents
<1> QED
  BY <1>4, <1>5, <1>6, <1>7, <1>8

(* The bytes that a step of putData copies.                                 *)
Range1 == {p \in Address : p[1] = call.flob /\ p[2] \in Copied}

LEMMA CopyTo ==
    ASSUME CacheInv, CopyToSlot
    PROVE  /\ TypeOK' /\ SlotsFit' /\ WrittenWithin' /\ CleanAgrees'
           /\ call # NoCall /\ call.value \in Value
           /\ written' = written \cup Range1
           /\ \A p \in written' :
                 (IF EntryOf(p) \in cached' THEN mem'[p] ELSE disk'[p])
                     = IF p \in Range1 THEN call.value ELSE Contents(p)
           /\ \A p \in Address : p \in Range1 <=>
                 p[1] = call.flob /\ call.at <= p[2] /\ p[2] < NextPosition
<1> USE DEF CacheInv
<1>1. /\ call # NoCall /\ call.op = "put" /\ Touched \in cached
      /\ mem' = [p \in Address |-> IF p \in Range1 THEN call.value ELSE mem[p]]
      /\ changed' = changed \cup {Touched}
      /\ written' = written \cup Range1
      /\ Advance
      /\ UNCHANGED <<live, size, appended, destroyed, disk, cached, newer, len>>
  BY DEF CopyToSlot, flobVars, listVars, NoCall, Range1
<1>2. /\ call.flob \in Flob /\ call.flob \in live /\ call.value \in Value
      /\ call.at \in Nat /\ NextPosition \in Nat /\ NextPosition <= size[call.flob]
      /\ size[call.flob] \in Nat
  <2>1. call.value \in Value
    BY <1>1 DEF CallFits
  <2> QED
    BY <2>1, <1>1, CallRuns, CopyStays, SMT
<1>3. \A p \in Address : p \in Range1 <=>
          p[1] = call.flob /\ call.at <= p[2] /\ p[2] < NextPosition
  <2> SUFFICES ASSUME NEW p \in Address
               PROVE  p \in Range1 <=>
                          p[1] = call.flob /\ call.at <= p[2] /\ p[2] < NextPosition
    OBVIOUS
  <2>1. p[2] \in Nat
    BY AddressFacts
  <2>2. p[2] \in Copied <=> call.at <= p[2] /\ p[2] < NextPosition
    BY <2>1, <1>2, SMT DEF Copied
  <2> QED
    BY <2>2 DEF Range1
<1>4. ASSUME NEW p \in Range1
      PROVE  p \in Address /\ EntryOf(p) = Touched /\ p[1] = call.flob
             /\ p[2] < size[call.flob]
  <2>1. p \in Address /\ p[1] = call.flob /\ call.at <= p[2] /\ p[2] < NextPosition
    BY <1>3 DEF Range1
  <2>2. p[2] \in Nat
    BY <2>1, AddressFacts
  <2>3. SlotOf(p[2]) = SlotOf(call.at)
    BY <1>1, <2>1, <2>2, CopyStays
  <2>4. p[2] < size[call.flob]
    BY <2>1, <2>2, <1>2, SMT
  <2> QED
    BY <2>1, <2>3, <2>4 DEF EntryOf, Touched
<1>5. call' \in Call
  BY <1>1, AdvanceFits
<1>6. mem' \in [Address -> Byte]
  BY <1>1, <1>2 DEF TypeOK, Byte
<1>7. TypeOK'
  <2>1. written' \subseteq Address
    BY <1>1 DEF TypeOK, Range1
  <2> QED
    BY <2>1, <1>1, <1>5, <1>6 DEF TypeOK
<1>8. SlotsFit'
  BY <1>1 DEF SlotsFit, SlotLength
<1>9. WrittenWithin'
  <2> SUFFICES ASSUME NEW p \in written'
               PROVE  p[1] \in live' /\ p[2] < size'[p[1]]
    BY DEF WrittenWithin
  <2> QED
    BY <1>1, <1>2, <1>4 DEF WrittenWithin
<1>10. CleanAgrees'
  <2> SUFFICES ASSUME NEW p \in written', EntryOf(p) \in cached' \ changed'
               PROVE  mem'[p] = disk'[p]
    BY DEF CleanAgrees, EntryOf, SlotOf
  <2>1. EntryOf(p) # Touched /\ EntryOf(p) \in cached \ changed
    BY <1>1
  <2>2. p \notin Range1 /\ p \in written
    BY <2>1, <1>1, <1>4
  <2>3. mem'[p] = mem[p] /\ disk'[p] = disk[p]
    BY <2>2, <1>1, WrittenFacts
  <2> QED
    BY <2>1, <2>2, <2>3 DEF CleanAgrees
<1>11. ASSUME NEW p \in written'
       PROVE  (IF EntryOf(p) \in cached' THEN mem'[p] ELSE disk'[p])
                  = IF p \in Range1 THEN call.value ELSE Contents(p)
  <2>1. CASE p \in Range1
    BY <2>1, <1>1, <1>4
  <2>2. CASE p \notin Range1
    <3>1. p \in written /\ p \in Address
      BY <2>2, <1>1, WrittenFacts
    <3> QED
      BY <3>1, <2>2, <1>1 DEF Contents
  <2> QED
    BY <2>1, <2>2
<1> QED
  BY <1>1, <1>2, <1>3, <1>7, <1>8, <1>9, <1>10, <1>11

(* A victim is saved if it has changed.                                     *)
LEMMA ReduceSaves ==
    ASSUME CacheInv, Reduce
    PROVE  TypeOK' /\ SlotsFit' /\ WrittenWithin' /\ CleanAgrees' /\ Kept
<1> USE DEF CacheInv
<1>1. UNCHANGED <<live, size, appended, destroyed, written, call>>
  BY DEF Reduce, flobVars
<1>2. PICK v \in Entry : v \in cached /\ SaveIfChanged(v) /\ Drop({v})
  BY DEF Reduce, IsLast
<1>3. /\ cached' = cached \ {v}
      /\ changed' = changed \ {v}
      /\ len' = [e \in Entry |-> IF e \in {v} THEN 0 ELSE len[e]]
      /\ mem' = [p \in Address |-> IF EntryOf(p) \in {v} THEN Unwritten ELSE mem[p]]
  BY <1>2 DEF Drop
<1>4. disk' = [p \in Address |->
                 IF v \in changed /\ EntryOf(p) = v /\ p[2] - v[2] * SlotSize < len[v]
                 THEN mem[p] ELSE disk[p]]
  BY <1>2 DEF SaveIfChanged
<1>5. disk' \in [Address -> Byte]
  BY <1>4 DEF TypeOK
<1>6. TypeOK'
  BY <1>1, <1>2, <1>5, DropType DEF TypeOK
<1>7. SlotsFit'
  <2> SUFFICES ASSUME NEW e \in cached'
               PROVE  /\ e[1] \in live'
                      /\ e[2] * SlotSize < size'[e[1]]
                      /\ len'[e] = SlotLength(size'[e[1]], e[2])
    BY DEF SlotsFit, SlotLength
  <2>1. e \in cached /\ len'[e] = len[e]
    BY <1>3 DEF TypeOK
  <2> QED
    BY <2>1, <1>1 DEF SlotsFit
<1>8. WrittenWithin'
  BY <1>1 DEF WrittenWithin
<1>9. ASSUME NEW p \in written
      PROVE  /\ EntryOf(p) = v => EntryOf(p) \notin cached' /\ disk'[p] = mem[p]
             /\ EntryOf(p) # v => /\ EntryOf(p) \in cached' <=> EntryOf(p) \in cached
                                  /\ disk'[p] = disk[p] /\ mem'[p] = mem[p]
  <2>1. /\ p \in Address /\ p[1] \in Flob /\ p[2] \in Nat /\ p[2] < size[p[1]]
        /\ size[p[1]] \in Nat /\ EntryOf(p)[1] = p[1] /\ EntryOf(p)[2] = SlotOf(p[2])
    BY WrittenFacts
  <2>2. CASE EntryOf(p) # v
    BY <2>1, <2>2, <1>3, <1>4
  <2>3. CASE EntryOf(p) = v
    <3>1. len[v] = SlotLength(size[p[1]], v[2]) /\ v[2] * SlotSize < size[p[1]]
      BY <2>1, <2>3, <1>2 DEF SlotsFit
    <3>2. v[2] \in Nat /\ SlotOf(p[2]) = v[2]
      BY <2>1, <2>3, EntryFacts
    <3>3. p[2] - v[2] * SlotSize < len[v]
      BY <2>1, <3>1, <3>2, SlotLengthType
    <3>4. CASE v \in changed
      BY <2>1, <2>3, <3>3, <3>4, <1>3, <1>4
    <3>5. CASE v \notin changed
      <4>1. disk'[p] = disk[p]
        BY <3>5, <2>1, <1>4
      <4>2. mem[p] = disk[p]
        BY <3>5, <2>3, <1>2 DEF CleanAgrees
      <4> QED
        BY <4>1, <4>2, <2>3, <1>3
    <3> QED
      BY <3>4, <3>5
  <2> QED
    BY <2>2, <2>3
<1>10. CleanAgrees'
  <2> SUFFICES ASSUME NEW p \in written, EntryOf(p) \in cached' \ changed'
               PROVE  mem'[p] = disk'[p]
    BY <1>1 DEF CleanAgrees, EntryOf, SlotOf
  <2> QED
    BY <1>3, <1>9 DEF CleanAgrees
<1>11. Kept
  <2> SUFFICES ASSUME NEW p \in written
               PROVE  (IF EntryOf(p) \in cached' THEN mem'[p] ELSE disk'[p])
                          = IF EntryOf(p) \in cached THEN mem[p] ELSE disk[p]
    BY <1>1 DEF Kept, Contents
  <2>1. CASE EntryOf(p) = v
    BY <2>1, <1>2, <1>9
  <2>2. CASE EntryOf(p) # v
    BY <2>2, <1>9
  <2> QED
    BY <2>1, <2>2
<1> QED
  BY <1>6, <1>7, <1>8, <1>10, <1>11

LEMMA KillClears ==
    ASSUME CacheInv, KillNativeFlobs
    PROVE  TypeOK' /\ SlotsFit' /\ WrittenWithin' /\ CleanAgrees'
<1> USE DEF CacheInv
<1>1. /\ live' = {} /\ size' = [f \in Flob |-> 0] /\ appended' = {}
      /\ disk' = [p \in Address |-> Unwritten] /\ written' = {}
      /\ Drop(cached) /\ UNCHANGED call
  BY DEF KillNativeFlobs
<1>2. cached' = {}
  BY <1>1 DEF Drop
<1>3. size' \in [Flob -> 0..MaxCells]
  BY <1>1, Constants, SMT
<1>4. disk' \in [Address -> Byte]
  BY <1>1 DEF Byte
<1>5. TypeOK'
  BY <1>1, <1>3, <1>4, DropType, KillIds DEF TypeOK
<1> QED
  BY <1>1, <1>2, <1>5 DEF SlotsFit, WrittenWithin, CleanAgrees

LEMMA BeginCall ==
    ASSUME CacheInv, NEW f \in Flob, NEW r,
           \/ r \in Reads /\ GetData(f, r[1], r[2])
           \/ r \in Writes /\ \E v \in Value : PutData(f, r[1], r[2], v)
    PROVE  TypeOK' /\ SlotsFit' /\ WrittenWithin' /\ CleanAgrees' /\ CallFits' /\ Kept
<1> USE DEF CacheInv
<1>1. UNCHANGED <<live, size, appended, destroyed, disk, cached, newer, len, mem,
                  changed, usedSize, written>>
  BY DEF GetData, PutData, flobVars, listVars
<1>2. call' \in Call /\ CallFits'
  <2>1. r[1] \in Cell /\ r[2] \in 1..MaxCells
    BY Constants
  <2>2. CASE GetData(f, r[1], r[2])
    <3>1. /\ f \in live /\ r[1] < r[2] /\ r[2] <= size[f] /\ Unwritten \in Byte
          /\ call' = [op |-> "get", flob |-> f, at |-> r[1], to |-> r[2],
                      value |-> Unwritten]
      BY <2>2 DEF GetData, Byte
    <3>2. \A op \in {"get", "put"}, v \in Byte :
             /\ op = "put" => v \in Value
             /\ call' = [op |-> op, flob |-> f, at |-> r[1], to |-> r[2], value |-> v]
             => call' \in Call /\ CallFits'
      BY <1>1, <2>1, <3>1, BeginFits
    <3>3. "get" \in {"get", "put"} /\ "get" # "put"
      OBVIOUS
    <3> QED
      BY <3>1, <3>2, <3>3
  <2>3. ASSUME NEW v \in Value, PutData(f, r[1], r[2], v) PROVE call' \in Call /\ CallFits'
    <3>1. /\ f \in live /\ r[1] < r[2] /\ r[2] <= size[f] /\ v \in Byte
          /\ call' = [op |-> "put", flob |-> f, at |-> r[1], to |-> r[2], value |-> v]
      BY <2>3 DEF PutData, Byte
    <3> QED
      BY <1>1, <2>1, <3>1, BeginFits
  <2> QED
    BY <2>2, <2>3
<1>3. TypeOK'
  BY <1>1, <1>2 DEF TypeOK
<1>4. SlotsFit'
  BY <1>1 DEF SlotsFit, SlotLength
<1>5. WrittenWithin' /\ CleanAgrees'
  BY <1>1 DEF WrittenWithin, CleanAgrees, EntryOf, SlotOf
<1>6. Kept
  BY <1>1 DEF Kept, Contents
<1> QED
  BY <1>2, <1>3, <1>4, <1>5, <1>6
-----------------------------------------------------------------------------
(* The invariant holds.                                                     *)

LEMMA CreateSlots ==
    ASSUME CacheInv, NEW f \in Flob, NEW n \in 0..MaxCells, Create(f, n)
    PROVE  CacheInv' /\ Kept /\ f \notin live
<1> USE DEF CacheInv
<1>1. /\ call = NoCall /\ UNCHANGED call /\ live' = live \cup {f}
      /\ size' = [size EXCEPT ![f] = n] /\ CreateEntries(f, n)
  BY DEF Create, Idle
<1>2. f \notin live /\ appended' \subseteq Flob /\ destroyed' \in Seq(Flob) /\ IdsExclusive'
  BY CreateIds
<1>3. /\ cached' \subseteq Entry /\ changed' \subseteq cached'
      /\ newer' \subseteq Entry \X Entry
      /\ len' \in [Entry -> 0..SlotSize]
      /\ mem' \in [Address -> Byte]
      /\ SlotsFit' /\ WrittenWithin' /\ CleanAgrees' /\ Kept
  BY <1>1, <1>2, FirstSlots
<1>4. disk' = disk /\ written' = written
  BY <1>1 DEF CreateEntries
<1>5. TypeOK'
  BY <1>1, <1>2, <1>3, <1>4 DEF TypeOK
<1> QED
  BY <1>1, <1>2, <1>3, <1>5, SameCall

LEMMA ResizeSlots ==
    ASSUME CacheInv, NEW f \in Flob, NEW n \in 0..MaxCells, Resize(f, n)
    PROVE  CacheInv' /\ Kept
           /\ written' = {p \in written : ~ (p[1] = f /\ p[2] >= n)}
<1> USE DEF CacheInv
<1>1. /\ call = NoCall /\ UNCHANGED call /\ f \in live /\ live' = live
      /\ size' = [size EXCEPT ![f] = n]
      /\ appended' = appended /\ destroyed' = destroyed
  BY DEF Resize, Idle
<1>2. IdsExclusive' /\ CallFits'
  BY <1>1, SameIds, SameCall
<1>3. ASSUME /\ cached' \subseteq Entry /\ changed' \subseteq cached'
             /\ newer' \subseteq Entry \X Entry
             /\ len' \in [Entry -> 0..SlotSize]
             /\ mem' \in [Address -> Byte]
             /\ disk' = disk /\ written' \subseteq written
      PROVE  TypeOK'
  BY <1>1, <1>3 DEF TypeOK
<1>4. CASE ResizeFromZero(f, n)
  <2>1. size[f] = 0 /\ CreateEntries(f, n) /\ live' = live \cup {f}
    BY <1>1, <1>4 DEF ResizeFromZero
  <2>2. disk' = disk /\ written' = written
    BY <2>1 DEF CreateEntries
  <2>3. /\ cached' \subseteq Entry /\ changed' \subseteq cached'
        /\ newer' \subseteq Entry \X Entry
        /\ len' \in [Entry -> 0..SlotSize]
        /\ mem' \in [Address -> Byte]
        /\ SlotsFit' /\ WrittenWithin' /\ CleanAgrees' /\ Kept
        /\ \A p \in written : p[1] # f
    BY <2>1, <1>1, FirstSlots
  <2>4. TypeOK'
    BY <1>3, <2>2, <2>3
  <2> QED
    BY <1>2, <2>2, <2>3, <2>4
<1>5. CASE ResizeToZero(f) /\ n = 0
  <2>1. /\ Drop(Erasable(f)) /\ disk' = disk
        /\ written' = {p \in written : ~ (p[1] = f /\ p[2] >= n)}
    BY <1>5 DEF ResizeToZero, Forgotten
  <2>2. \A p \in written : p[2] >= n
    BY <1>5, WrittenFacts, SMT
  <2>3. written' = {p \in written : p[1] # f}
    BY <2>1, <2>2
  <2>4. SlotsFit' /\ WrittenWithin' /\ CleanAgrees' /\ Kept
    BY <2>1, <2>3, <1>1, <1>5, NoSlots
  <2>5. TypeOK'
    BY <2>1, <1>3, DropType
  <2> QED
    BY <1>2, <2>1, <2>4, <2>5
<1>6. CASE Shrink(f, n)
  <2>1. disk' = disk /\ written' = {p \in written : ~ (p[1] = f /\ p[2] >= n)}
    BY <1>6 DEF Shrink, Forgotten
  <2>2. /\ cached' \subseteq Entry /\ changed' \subseteq cached'
        /\ newer' \subseteq Entry \X Entry
        /\ len' \in [Entry -> 0..SlotSize]
        /\ mem' \in [Address -> Byte]
        /\ SlotsFit' /\ WrittenWithin' /\ CleanAgrees' /\ Kept
    BY <1>1, <1>6, ShrinkSlots
  <2>3. TypeOK'
    BY <1>3, <2>1, <2>2
  <2> QED
    BY <1>2, <2>1, <2>2, <2>3
<1>7. CASE Enlarge(f, n)
  <2>1. disk' = disk /\ written' = written /\ size[f] < n
    BY <1>7 DEF Enlarge
  <2>2. /\ cached' \subseteq Entry /\ changed' \subseteq cached'
        /\ newer' \subseteq Entry \X Entry
        /\ len' \in [Entry -> 0..SlotSize]
        /\ mem' \in [Address -> Byte]
        /\ SlotsFit' /\ WrittenWithin' /\ CleanAgrees' /\ Kept
    BY <1>1, <1>7, EnlargeSlots
  <2>3. TypeOK'
    BY <1>3, <2>1, <2>2
  <2>4. \A p \in written : ~ (p[1] = f /\ p[2] >= n)
    BY <2>1, WrittenFacts, SMT
  <2> QED
    BY <1>2, <2>1, <2>2, <2>3, <2>4
<1> QED
  BY <1>4, <1>5, <1>6, <1>7 DEF Resize

LEMMA DestroySlots ==
    ASSUME CacheInv, NEW f \in Flob, Destroy(f)
    PROVE  CacheInv' /\ Kept
<1> USE DEF CacheInv
<1>1. /\ call = NoCall /\ UNCHANGED call /\ live' = live \ {f}
      /\ size' = [size EXCEPT ![f] = 0] /\ appended' = appended
      /\ Drop(Erasable(f)) /\ disk' = disk
      /\ written' = {p \in written : p[1] # f}
  BY DEF Destroy, Idle
<1>2. destroyed' \in Seq(Flob) /\ IdsExclusive'
  BY DestroyIds
<1>3. SlotsFit' /\ WrittenWithin' /\ CleanAgrees' /\ Kept
  BY <1>1, NoSlots
<1>4. size' \in [Flob -> 0..MaxCells]
  BY <1>1, Constants, SMT DEF TypeOK
<1>5. TypeOK'
  BY <1>1, <1>2, <1>4, DropType DEF TypeOK
<1> QED
  BY <1>1, <1>2, <1>3, <1>5, SameCall

LEMMA InitInv == Init => CacheInv
<1> SUFFICES ASSUME Init PROVE CacheInv
  OBVIOUS
<1>1. size \in [Flob -> 0..MaxCells] /\ len \in [Entry -> 0..SlotSize]
  BY Constants, SMT DEF Init
<1>2. disk \in [Address -> Byte] /\ mem \in [Address -> Byte]
  BY DEF Init, Byte
<1>3. destroyed \in Seq(Flob) /\ Len(destroyed) = 0
  BY EmptySeq, SMT DEF Init
<1>4. TypeOK
  BY <1>1, <1>2, <1>3 DEF Init, TypeOK, Call
<1>5. IdsExclusive
  BY <1>3, SMT DEF Init, IdsExclusive
<1> QED
  BY <1>4, <1>5 DEF Init, CacheInv, SlotsFit, WrittenWithin, CleanAgrees, CallFits

LEMMA NextInv == CacheInv /\ [Next]_vars => CacheInv'
<1> SUFFICES ASSUME CacheInv, [Next]_vars PROVE CacheInv'
  OBVIOUS
<1> USE DEF CacheInv
<1>1. CASE UNCHANGED vars
  BY <1>1 DEF vars, TypeOK, SlotsFit, SlotLength, IdsExclusive, WrittenWithin, CleanAgrees,
              EntryOf, SlotOf, CallFits, NoCall, Call
<1>2. ASSUME NEW f \in Flob, NEW n \in 0..MaxCells, Create(f, n) \/ Resize(f, n)
      PROVE  CacheInv'
  BY <1>2, CreateSlots, ResizeSlots
<1>3. ASSUME NEW f \in Flob, NEW r \in Reads, GetData(f, r[1], r[2]) PROVE CacheInv'
  <2>1. IdsExclusive'
    BY <1>3, SameIds DEF GetData, flobVars
  <2> QED
    BY <1>3, <2>1, BeginCall
<1>4. ASSUME NEW f \in Flob, NEW r \in Writes, NEW v \in Value, PutData(f, r[1], r[2], v)
      PROVE  CacheInv'
  <2>1. IdsExclusive'
    BY <1>4, SameIds DEF PutData, flobVars
  <2> QED
    BY <1>4, <2>1, BeginCall
<1>5. ASSUME NEW f \in Flob, Destroy(f) PROVE CacheInv'
  BY <1>5, DestroySlots
<1>6. CASE Fetch
  <2>1. IdsExclusive' /\ CallFits'
    BY <1>6, SameIds, SameFits DEF Fetch, flobVars
  <2> QED
    BY <1>6, <2>1, FetchSlot
<1>7. CASE CopyFromSlot
  <2>1. IdsExclusive' /\ CallFits'
    BY <1>7, SameIds, AdvanceFits DEF CopyFromSlot, flobVars, NoCall
  <2> QED
    BY <1>7, <2>1, CopyFrom
<1>8. CASE CopyToSlot
  <2>1. IdsExclusive' /\ CallFits'
    BY <1>8, SameIds, AdvanceFits DEF CopyToSlot, flobVars, NoCall
  <2> QED
    BY <1>8, <2>1, CopyTo
<1>9. CASE Reduce
  <2>1. IdsExclusive' /\ CallFits'
    BY <1>9, SameIds, SameFits DEF Reduce, flobVars
  <2> QED
    BY <1>9, <2>1, ReduceSaves
<1>10. CASE KillNativeFlobs
  <2>1. IdsExclusive' /\ CallFits'
    BY <1>10, KillIds, SameCall DEF KillNativeFlobs, Idle
  <2> QED
    BY <1>10, <2>1, KillClears
<1> QED
  BY <1>1, <1>2, <1>3, <1>4, <1>5, <1>6, <1>7, <1>8, <1>9, <1>10 DEF Next

LEMMA InvHolds == Spec => []CacheInv
BY InitInv, NextInv, PTL DEF Spec

(* Every variable but the account of the memory has its type.               *)
THEOREM TypeCorrect == Spec => []TypeOK
BY InvHolds, PTL DEF CacheInv

(* The cache holds slots that exist, with the memory that they need.        *)
THEOREM SlotsFitHolds == Spec => []SlotsFit
BY InvHolds, PTL DEF CacheInv

(* No id is given to two Flobs.                                             *)
THEOREM IdsExclusiveHolds == Spec => []IdsExclusive
BY InvHolds, PTL DEF CacheInv

-----------------------------------------------------------------------------
(* The cache is invisible.                                                  *)

LEMMA KeptStored ==
    ASSUME Kept
    PROVE  \A p \in Address : Stored(p)' = IF p \in written' THEN Stored(p) ELSE Unwritten
<1> SUFFICES ASSUME NEW p \in Address
             PROVE  Stored(p)' = IF p \in written' THEN Stored(p) ELSE Unwritten
  OBVIOUS
<1>1. Stored(p)' = IF p \in written'
                   THEN IF EntryOf(p) \in cached' THEN mem'[p] ELSE disk'[p]
                   ELSE Unwritten
  BY DEF Stored, Contents, EntryOf, SlotOf
<1> QED
  BY <1>1 DEF Kept, Stored
(* The bytes of the abstract store when nothing is written.                 *)
LEMMA SameBytes ==
    ASSUME Kept, written' = written
    PROVE  [p \in Address |-> Stored(p)]' = [p \in Address |-> Stored(p)]
<1>1. \A p \in Address : Stored(p)' = Stored(p)
  BY KeptStored DEF Stored
<1> QED
  BY <1>1 DEF Address, Cell

LEMMA InitStore == Init => Store!Init
<1> SUFFICES ASSUME Init PROVE Store!Init
  OBVIOUS
<1>1. \A p \in Address : Stored(p) = Unwritten
  BY DEF Init, Stored
<1>2. [p \in Address |-> Stored(p)] = [p \in Address |-> Unwritten]
  BY <1>1
<1> QED
  BY <1>2 DEF Init, Store!Init, Store!Cell, Address, Cell

LEMMA StepStore == CacheInv /\ [Next]_vars => [Store!Next]_(Store!vars)
<1> SUFFICES ASSUME CacheInv, [Next]_vars PROVE [Store!Next]_(Store!vars)
  OBVIOUS
<1> USE DEF CacheInv
<1> DEFINE bytes == [p \in Address |-> Stored(p)]
<1>0. ASSUME Kept, written' = written, UNCHANGED <<live, size>>
      PROVE  UNCHANGED Store!vars
  BY <1>0, SameBytes DEF Store!vars
<1>1. CASE UNCHANGED vars
  <2>1. Kept
    BY <1>1 DEF vars, Kept, Contents
  <2> QED
    BY <1>0, <1>1, <2>1 DEF vars
<1>2. ASSUME NEW f \in Flob, NEW n \in 0..MaxCells, Create(f, n)
      PROVE  Store!Next
  <2>1. Kept /\ f \notin live
    BY <1>2, CreateSlots
  <2>2. live' = live \cup {f} /\ size' = [size EXCEPT ![f] = n] /\ written' = written
    BY <1>2 DEF Create, CreateEntries
  <2>3. bytes' = bytes
    BY <2>1, <2>2, SameBytes
  <2>4. Store!Create(f, n)
    BY <2>1, <2>2, <2>3 DEF Store!Create
  <2> QED
    BY <2>4 DEF Store!Next
<1>3. ASSUME NEW f \in Flob, NEW n \in 0..MaxCells, Resize(f, n)
      PROVE  Store!Next
  <2>1. Kept /\ written' = {p \in written : ~ (p[1] = f /\ p[2] >= n)}
    BY <1>3, ResizeSlots
  <2>2. f \in live /\ live' = live /\ size' = [size EXCEPT ![f] = n]
    BY <1>3 DEF Resize
  <2>3. \A p \in Address : Stored(p)' = IF p[1] = f /\ p[2] >= n THEN Unwritten ELSE bytes[p]
    BY <2>1, KeptStored DEF Stored
  <2> HIDE DEF bytes
  <2>4. bytes' = [p \in Address |-> IF p[1] = f /\ p[2] >= n THEN Unwritten ELSE bytes[p]]
    BY <2>3 DEF bytes, Address, Cell
  <2>5. Store!Resize(f, n)
    BY <2>2, <2>4 DEF Store!Resize, Store!Cell, Address, Cell, bytes
  <2> QED
    BY <2>5 DEF Store!Next
<1>4. ASSUME NEW f \in Flob, Destroy(f) PROVE Store!Next
  <2>1. Kept
    BY <1>4, DestroySlots
  <2>2. /\ f \in live /\ live' = live \ {f} /\ size' = [size EXCEPT ![f] = 0]
        /\ written' = {p \in written : p[1] # f}
    BY <1>4 DEF Destroy
  <2>3. \A p \in Address : Stored(p)' = IF p[1] = f THEN Unwritten ELSE bytes[p]
    BY <2>1, <2>2, KeptStored DEF Stored
  <2> HIDE DEF bytes
  <2>4. bytes' = [p \in Address |-> IF p[1] = f THEN Unwritten ELSE bytes[p]]
    BY <2>3 DEF bytes, Address, Cell
  <2>5. Store!Destroy(f)
    BY <2>2, <2>4 DEF Store!Destroy, Store!Cell, Address, Cell, bytes
  <2> QED
    BY <2>5 DEF Store!Next
<1>5. ASSUME NEW f \in Flob, NEW r,
             \/ r \in Reads /\ GetData(f, r[1], r[2])
             \/ r \in Writes /\ \E v \in Value : PutData(f, r[1], r[2], v)
      PROVE  UNCHANGED Store!vars
  <2>1. Kept
    BY <1>5, BeginCall
  <2> QED
    BY <1>0, <1>5, <2>1 DEF GetData, PutData, flobVars
<1>6. CASE Fetch
  BY <1>0, <1>6, FetchSlot DEF Fetch, flobVars
<1>7. CASE CopyFromSlot
  BY <1>0, <1>7, CopyFrom DEF CopyFromSlot, flobVars
<1>8. CASE CopyToSlot
  <2>1. /\ call # NoCall /\ call.value \in Value
        /\ written' = written \cup Range1
        /\ \A p \in written' :
              (IF EntryOf(p) \in cached' THEN mem'[p] ELSE disk'[p])
                  = IF p \in Range1 THEN call.value ELSE Contents(p)
        /\ \A p \in Address : p \in Range1 <=>
              p[1] = call.flob /\ call.at <= p[2] /\ p[2] < NextPosition
    BY <1>8, CopyTo
  <2>2. live' = live /\ size' = size
    BY <1>8 DEF CopyToSlot, flobVars
  <2>3. ASSUME NEW p \in Address
        PROVE  Stored(p)' = IF p \in Range1 THEN call.value ELSE Stored(p)
    <3>1. Stored(p)' = IF p \in written'
                       THEN IF EntryOf(p) \in cached' THEN mem'[p] ELSE disk'[p]
                       ELSE Unwritten
      BY DEF Stored, Contents, EntryOf, SlotOf
    <3> QED
      BY <3>1, <2>1 DEF Stored
  <2>4. \A p \in Address :
            Stored(p)' = IF p[1] = call.flob /\ call.at <= p[2] /\ p[2] < NextPosition
                         THEN call.value ELSE bytes[p]
    BY <2>1, <2>3
  <2>5. /\ call.flob \in Flob /\ call.flob \in live /\ call.at \in Nat
        /\ NextPosition \in Nat /\ call.at < NextPosition
        /\ NextPosition <= size[call.flob] /\ NextPosition <= MaxCells
        /\ call.at < MaxCells
    BY <2>1, CallRuns, CopyStays, Constants, SMT
  <2>6. call.at \in 0..(MaxCells - 1) /\ NextPosition \in 1..MaxCells
    BY <2>5, Constants, SMT
  <2> DEFINE to == NextPosition
  <2>7. bytes' = [p \in Address |-> IF p[1] = call.flob /\ call.at <= p[2] /\ p[2] < to
                                    THEN call.value ELSE bytes[p]]
    BY <2>4 DEF Address, Cell
  <2> HIDE DEF bytes, to
  <2>8. Store!Write(call.flob, call.at, to, call.value)
    BY <2>2, <2>5, <2>7 DEF Store!Write, Store!Cell, Address, Cell, bytes, to
  <2> QED
    BY <2>1, <2>5, <2>6, <2>8 DEF Store!Next, Store!Cell, to
<1>9. CASE Reduce
  BY <1>0, <1>9, ReduceSaves DEF Reduce, flobVars
<1>10. CASE KillNativeFlobs
  <2>1. live' = {} /\ size' = [f \in Flob |-> 0] /\ written' = {}
    BY <1>10 DEF KillNativeFlobs
  <2>2. \A p \in Address : Stored(p)' = Unwritten
    BY <2>1 DEF Stored
  <2>3. bytes' = [p \in Address |-> Unwritten]
    BY <2>2 DEF Address, Cell
  <2>4. Store!DestroyAll
    BY <2>1, <2>3 DEF Store!DestroyAll, Store!Cell, Address, Cell
  <2> QED
    BY <2>4 DEF Store!Next
<1> QED
  BY <1>1, <1>2, <1>3, <1>4, <1>5, <1>6, <1>7, <1>8, <1>9, <1>10 DEF Next

(* Algebras see an array of bytes, whatever the cache does.                 *)
THEOREM CacheInvisible == Spec => StoreSpec
BY InvHolds, InitStore, StepStore, PTL DEF Spec, StoreSpec, Store!Spec

-----------------------------------------------------------------------------
(* The list.                                                                *)

ListOrders == \A x, y \in cached : x # y => (<<x, y>> \in newer) # (<<y, x>> \in newer)
Older == {p \in Entry \X Entry : <<p[2], p[1]>> \in newer}
ListEnds == IsWellFoundedOn(Older, Entry)

LEMMA OlderPair ==
    ASSUME NEW x \in Entry, NEW y \in Entry
    PROVE  /\ <<y, x>> \in Older <=> <<x, y>> \in newer
           /\ <<y, x>> \in Older' <=> <<x, y>> \in newer'
BY DEF Older

LEMMA FrontPairs ==
    ASSUME NEW E, NEW x, NEW y
    PROVE  <<x, y>> \in AtFront(E) <=> \/ <<x, y>> \in newer /\ x \notin E /\ y \notin E
                                       \/ x \in E /\ y \in cached \ E
                                       \/ x \in E /\ y \in E /\ x[2] > y[2]
<1>1. <<x, y>> \in Without(E) <=> <<x, y>> \in newer /\ x \notin E /\ y \notin E
  BY DEF Without
<1>2. <<x, y>> \in {<<e, z>> : e \in E, z \in cached \ E} <=> x \in E /\ y \in cached \ E
  OBVIOUS
<1>3. <<x, y>> \in {p \in E \X E : p[1][2] > p[2][2]} <=> x \in E /\ y \in E /\ x[2] > y[2]
  OBVIOUS
<1> QED
  BY <1>1, <1>2, <1>3 DEF AtFront

(* Slots of one Flob come to the front.                                     *)
LEMMA FrontOrders ==
    ASSUME ListOrders, NEW E \in SUBSET Entry, NEW f, \A e \in E : e[1] = f,
           newer' = AtFront(E), cached' = cached \cup E
    PROVE  ListOrders'
<1> SUFFICES ASSUME NEW x \in cached', NEW y \in cached', x # y
             PROVE  (<<x, y>> \in newer') # (<<y, x>> \in newer')
  BY DEF ListOrders
<1>1. /\ <<x, y>> \in newer' <=> \/ <<x, y>> \in newer /\ x \notin E /\ y \notin E
                                 \/ x \in E /\ y \in cached \ E
                                 \/ x \in E /\ y \in E /\ x[2] > y[2]
      /\ <<y, x>> \in newer' <=> \/ <<y, x>> \in newer /\ y \notin E /\ x \notin E
                                 \/ y \in E /\ x \in cached \ E
                                 \/ y \in E /\ x \in E /\ y[2] > x[2]
  BY FrontPairs
<1>2. CASE x \in E /\ y \in E
  <2>1. x[2] \in Nat /\ y[2] \in Nat /\ x = <<f, x[2]>> /\ y = <<f, y[2]>>
    BY <1>2, EntryFacts
  <2>2. x[2] # y[2]
    BY <2>1
  <2>3. (x[2] > y[2]) # (y[2] > x[2])
    BY <2>1, <2>2
  <2> QED
    BY <1>1, <1>2, <2>3
<1>3. CASE x \in E /\ y \notin E
  BY <1>1, <1>3
<1>4. CASE x \notin E /\ y \in E
  BY <1>1, <1>4
<1>5. CASE x \notin E /\ y \notin E
  <2>1. (<<x, y>> \in newer) # (<<y, x>> \in newer)
    BY <1>5 DEF ListOrders
  <2> QED
    BY <1>1, <1>5, <2>1
<1> QED
  BY <1>2, <1>3, <1>4, <1>5

LEMMA FewerOrdered ==
    ASSUME ListOrders, NEW E, newer' = Without(E), cached' = cached \ E
    PROVE  ListOrders'
<1> SUFFICES ASSUME NEW x \in cached', NEW y \in cached', x # y
             PROVE  (<<x, y>> \in newer') # (<<y, x>> \in newer')
  BY DEF ListOrders
<1>1. \A a, b : <<a, b>> \in newer' <=> <<a, b>> \in newer /\ a \notin E /\ b \notin E
  BY DEF Without
<1>2. (<<x, y>> \in newer) # (<<y, x>> \in newer)
  BY DEF ListOrders
<1> QED
  BY <1>1, <1>2

(* What comes to the front is not older than what was there, and has an end *)
(* itself, the lowest slot.                                                 *)
LEMMA FrontEnds ==
    ASSUME ListEnds, NEW E \in SUBSET Entry, newer' = AtFront(E)
    PROVE  ListEnds'
<1>1. ASSUME NEW T \in SUBSET Entry, T # {}
      PROVE  \E x \in T : \A y \in T : ~ (<<y, x>> \in Older')
  <2>1. CASE \E x \in T : x \notin E
    <3> DEFINE S == T \ E
    <3>1. S \subseteq Entry /\ S # {}
      BY <2>1
    <3> HIDE DEF S
    <3>2. PICK x \in S : \A y \in S : ~ (<<y, x>> \in Older)
      BY <3>1, WFMin DEF ListEnds
    <3>3. x \in T /\ x \notin E /\ x \in Entry
      BY DEF S
    <3>4. ASSUME NEW y \in T PROVE ~ (<<y, x>> \in Older')
      <4>1. <<x, y>> \in newer' => <<x, y>> \in newer /\ y \notin E
        BY <3>3, FrontPairs
      <4>2. y \notin E => <<x, y>> \notin newer
        BY <3>2, <3>3, OlderPair DEF S
      <4> QED
        BY <3>3, <4>1, <4>2, OlderPair
    <3> QED
      BY <3>3, <3>4
  <2>2. CASE T \subseteq E
    <3> DEFINE N == {x[2] : x \in T}
    <3>1. N \subseteq Nat /\ N # {}
      BY <1>1, EntryFacts
    <3> HIDE DEF N
    <3>2. PICK m \in N : \A j \in N : m <= j
      <4>1. PICK m \in N : \A j \in N : ~ (<<j, m>> \in OpToRel(<, Nat))
        BY <3>1, NatLessThanWellFounded, WFMin
      <4>2. \A j \in N : ~ (j < m) /\ j \in Nat /\ m \in Nat
        BY <4>1, <3>1 DEF OpToRel
      <4>3. \A j \in N : m <= j
        BY <4>2
      <4> QED
        BY <4>3
    <3>3. PICK x \in T : x[2] = m
      BY DEF N
    <3>4. ASSUME NEW y \in T PROVE ~ (<<y, x>> \in Older')
      <4>1. y[2] \in N /\ m <= y[2] /\ m \in Nat /\ y[2] \in Nat
        BY <3>1, <3>2 DEF N
      <4>2. ~ (x[2] > y[2])
        BY <3>3, <4>1
      <4>3. x \in E /\ y \in E
        BY <2>2
      <4>4. <<x, y>> \notin newer'
        BY <4>2, <4>3, FrontPairs
      <4> QED
        BY <4>4, OlderPair
    <3> QED
      BY <3>4
  <2> QED
    BY <2>1, <2>2
<1>2. IsWellFoundedOn(Older', Entry)
  BY <1>1, MinWF
<1> QED
  BY <1>2 DEF ListEnds

LEMMA FewerEnd ==
    ASSUME ListEnds, newer' \subseteq newer
    PROVE  ListEnds'
<1>1. Older' \cap (Entry \X Entry) \subseteq Older
  BY DEF Older
<1> QED
  BY <1>1, IsWellFoundedOnSubrelation DEF ListEnds

-----------------------------------------------------------------------------
(* The account of the memory.                                               *)

(* The bytes of Flobs that are in cached slots.                             *)
Inside == {p \in Address : EntryOf(p) \in cached /\ p[2] < size[p[1]]}

(* usedSize is the number of these bytes.                                   *)
Account == IsFiniteSet(Inside) /\ usedSize = Cardinality(Inside)

AccountInv == ListOrders /\ ListEnds /\ Account

LEMMA HeldInside ==
    ASSUME TypeOK, SlotsFit, NEW E \in SUBSET cached
    PROVE  HeldBy(E) = {p \in Inside : EntryOf(p) \in E}
<1>1. ASSUME NEW p \in Address, EntryOf(p) \in E
      PROVE  p[2] - EntryOf(p)[2] * SlotSize < len[EntryOf(p)] <=> p[2] < size[p[1]]
  <2> DEFINE i == SlotOf(p[2])
             n == size[p[1]]
             c == p[2]
  <2>1. /\ p[1] \in Flob /\ c \in Nat /\ EntryOf(p)[1] = p[1] /\ EntryOf(p)[2] = i
        /\ n \in Nat
    BY AddressFacts, SizeType
  <2>2. /\ i \in Nat /\ i * SlotSize \in Nat /\ i * SlotSize <= c /\ c < i * SlotSize + SlotSize
        /\ SlotSize \in Nat
    BY <2>1, SlotBounds, Constants
  <2>3. i * SlotSize < n /\ len[EntryOf(p)] = SlotLength(n, i)
    BY <1>1, <2>1 DEF SlotsFit
  <2>4. SlotLength(n, i) = IF n - i * SlotSize < SlotSize THEN n - i * SlotSize ELSE SlotSize
    BY DEF SlotLength
  <2> HIDE DEF i, n, c
  <2>5. c - i * SlotSize < SlotLength(n, i) <=> c < n
    BY <2>1, <2>2, <2>3, <2>4
  <2> QED
    BY <2>1, <2>3, <2>5 DEF n, c
<1> QED
  BY <1>1 DEF HeldBy, Inside

(* The bytes from a to b of a Flob.                                         *)
Bytes(f, a, b) == {p \in Address : p[1] = f /\ a <= p[2] /\ p[2] < b}

LEMMA BytesCount ==
    ASSUME NEW f \in Flob, NEW a \in Nat, NEW b \in Nat, a <= b, b <= MaxCells
    PROVE  IsFiniteSet(Bytes(f, a, b)) /\ Cardinality(Bytes(f, a, b)) = b - a
<1> DEFINE D == {f}
           C == a..(b - 1)
<1>1. IsFiniteSet(D) /\ Cardinality(D) = 1
  BY FS_Singleton
<1>2. IsFiniteSet(C) /\ Cardinality(C) = b - a
  <2>1. a \in Int /\ b - 1 \in Int
    OBVIOUS
  <2>2. IsFiniteSet(C) /\ Cardinality(C) = IF a > b - 1 THEN 0 ELSE (b - 1) - a + 1
    BY <2>1, FS_Interval
  <2> HIDE DEF C
  <2> QED
    BY <2>2
<1>3. Bytes(f, a, b) = D \X C
  <2>1. ASSUME NEW p \in Bytes(f, a, b) PROVE p \in D \X C
    <3>1. p \in Address /\ p[1] = f /\ a <= p[2] /\ p[2] < b
      BY DEF Bytes
    <3>2. p[2] \in Nat /\ p = <<p[1], p[2]>>
      BY <3>1, AddressFacts DEF Address
    <3> QED
      BY <3>1, <3>2
  <2>2. ASSUME NEW p \in D \X C PROVE p \in Bytes(f, a, b)
    <3>1. p = <<f, p[2]>> /\ p[2] \in Nat /\ a <= p[2] /\ p[2] < b
      OBVIOUS
    <3>2. p[2] \in Cell
      BY <3>1, Constants DEF Cell
    <3> QED
      BY <3>1, <3>2 DEF Bytes, Address
  <2> QED
    BY <2>1, <2>2
<1> HIDE DEF C, D
<1>4. IsFiniteSet(D \X C) /\ Cardinality(D \X C) = Cardinality(D) * Cardinality(C)
  BY <1>1, <1>2, FS_Product
<1>5. Cardinality(D) * Cardinality(C) = b - a
  BY <1>1, <1>2
<1> QED
  BY <1>3, <1>4, <1>5

LEMMA AccountAdds ==
    ASSUME Account, NEW B, IsFiniteSet(B), Inside \cap B = {}, Inside' = Inside \cup B,
           usedSize' = usedSize + Cardinality(B)
    PROVE  Account'
<1>1. /\ IsFiniteSet(Inside) /\ usedSize = Cardinality(Inside)
      /\ Cardinality(Inside) \in Nat /\ Cardinality(B) \in Nat /\ Cardinality({}) = 0
  BY FS_CardinalityType, FS_EmptySet DEF Account
<1>2. /\ IsFiniteSet(Inside \cup B)
      /\ Cardinality(Inside \cup B) = Cardinality(Inside) + Cardinality(B) - Cardinality(Inside \cap B)
  BY <1>1, FS_Union
<1>3. Cardinality(Inside \cap B) = 0
  BY <1>1
<1> QED
  BY <1>1, <1>2, <1>3 DEF Account

LEMMA AccountLoses ==
    ASSUME Account, NEW B, B \subseteq Inside, Inside' = Inside \ B,
           usedSize' = usedSize - Cardinality(B)
    PROVE  Account'
<1>1. IsFiniteSet(Inside) /\ usedSize = Cardinality(Inside)
  BY DEF Account
<1>2. /\ IsFiniteSet(Inside \ B)
      /\ Cardinality(Inside \ B) = Cardinality(Inside) - Cardinality(Inside \cap B)
  BY <1>1, FS_Difference
<1>3. Inside \cap B = B
  OBVIOUS
<1> QED
  BY <1>1, <1>2, <1>3 DEF Account

(* The bytes of a slot are those behind its begin.                          *)
LEMMA SlotLess ==
    ASSUME NEW c \in Nat, NEW k \in Nat
    PROVE  k * SlotSize \in Nat /\ (SlotOf(c) < k <=> c < k * SlotSize)
<1> DEFINE i == SlotOf(c)
<1>1. i \in Nat /\ i * SlotSize \in Nat /\ i * SlotSize <= c /\ c < i * SlotSize + SlotSize
  BY SlotBounds
<1>2. /\ k * SlotSize \in Nat
      /\ i < k => i * SlotSize + SlotSize <= k * SlotSize
      /\ k < i => k * SlotSize + SlotSize <= i * SlotSize
  BY <1>1, SlotOrder
<1>3. i = k => i * SlotSize = k * SlotSize
  OBVIOUS
<1>4. SlotSize \in Nat
  BY Constants
<1> HIDE DEF i
<1>5. i < k <=> c < k * SlotSize
  BY <1>1, <1>2, <1>3, <1>4, SMT
<1> QED
  BY <1>2, <1>5 DEF i

LEMMA EntryBytes ==
    ASSUME NEW p \in Address, NEW e \in Entry
    PROVE  EntryOf(p) = e <=> /\ p[1] = e[1] /\ e[2] * SlotSize <= p[2]
                              /\ p[2] < e[2] * SlotSize + SlotSize
<1>1. p[2] \in Nat /\ EntryOf(p) \in Entry /\ EntryOf(p)[1] = p[1] /\ EntryOf(p)[2] = SlotOf(p[2])
  BY AddressFacts
<1>2. EntryOf(p) = <<p[1], SlotOf(p[2])>> /\ e = <<e[1], e[2]>> /\ e[2] \in Nat
  BY EntryFacts DEF EntryOf
<1>3. /\ SlotOf(p[2]) * SlotSize <= p[2]
      /\ p[2] < SlotOf(p[2]) * SlotSize + SlotSize
  BY <1>1, SlotBounds
<1>4. ASSUME e[2] * SlotSize <= p[2], p[2] < e[2] * SlotSize + SlotSize
      PROVE  SlotOf(p[2]) = e[2]
  BY <1>1, <1>2, <1>4, SlotUnique
<1> QED
  BY <1>1, <1>2, <1>3, <1>4

(* A slot has as many bytes as its entry has room for.                      *)
LEMMA SlotBytes ==
    ASSUME NEW e \in Entry, NEW n \in 0..MaxCells, e[2] * SlotSize < n
    PROVE  /\ IsFiniteSet({p \in Address : EntryOf(p) = e /\ p[2] < n})
           /\ Cardinality({p \in Address : EntryOf(p) = e /\ p[2] < n}) = SlotLength(n, e[2])
<1> DEFINE a == e[2] * SlotSize
           L == SlotLength(n, e[2])
           B == {p \in Address : EntryOf(p) = e /\ p[2] < n}
<1>1. e[1] \in Flob /\ e[2] \in Nat /\ a \in Nat /\ n \in Nat /\ n <= MaxCells
      /\ SlotSize \in Nat /\ MaxCells \in Nat
  BY EntryFacts, Constants
<1>2. L = IF n - a < SlotSize THEN n - a ELSE SlotSize
  BY DEF SlotLength
<1>3. \A p \in Address : EntryOf(p) = e <=> p[1] = e[1] /\ a <= p[2] /\ p[2] < a + SlotSize
  BY EntryBytes
<1>4. \A p \in Address : p[2] \in Nat
  BY AddressFacts
<1>5. a < n
  OBVIOUS
<1> HIDE DEF a, L
<1>6. a + L \in Nat /\ a <= a + L /\ a + L <= MaxCells /\ (a + L) - a = L
  BY <1>1, <1>2, <1>5
<1>7. \A c \in Nat : c < a + SlotSize /\ c < n <=> c < a + L
  BY <1>1, <1>2, <1>5
<1>8. B = Bytes(e[1], a, a + L)
  BY <1>3, <1>4, <1>7 DEF Bytes
<1>9. IsFiniteSet(B) /\ Cardinality(B) = L
  BY <1>1, <1>6, <1>8, BytesCount
<1> QED
  BY <1>9 DEF L

LEMMA InsideNext ==
    \A p \in Address : p \in Inside' <=> EntryOf(p) \in cached' /\ p[2] < size'[p[1]]
BY DEF Inside, EntryOf, SlotOf, Address, Cell

(* Slots are dropped.                                                       *)
LEMMA AccountErases ==
    ASSUME CacheInv, Account, NEW E \in SUBSET cached, cached' = cached \ E,
           \A p \in Address : EntryOf(p) \in cached \ E => size'[p[1]] = size[p[1]],
           usedSize' = usedSize - SumOf(E)
    PROVE  Account'
<1>1. HeldBy(E) = {p \in Inside : EntryOf(p) \in E}
  BY HeldInside DEF CacheInv
<1>2. Inside' \subseteq Address /\ Inside \subseteq Address
  BY DEF Inside, Address, Cell
<1>3. \A p \in Address : p \in Inside <=> EntryOf(p) \in cached /\ p[2] < size[p[1]]
  BY DEF Inside
<1>4. Inside' = Inside \ HeldBy(E)
  BY <1>1, <1>2, <1>3, InsideNext
<1>5. HeldBy(E) \subseteq Inside
  BY <1>1
<1> QED
  BY <1>4, <1>5, AccountLoses DEF SumOf

LEMMA AccountSame ==
    ASSUME Account, UNCHANGED <<cached, size, usedSize>>
    PROVE  Account'
<1>1. Inside' = Inside
  BY DEF Inside, EntryOf, SlotOf, Address, Cell
<1> QED
  BY <1>1 DEF Account

LEMMA ListSame ==
    ASSUME ListOrders, ListEnds, UNCHANGED <<cached, newer>>
    PROVE  ListOrders' /\ ListEnds'
<1>1. ListOrders'
  BY DEF ListOrders
<1>2. ListEnds'
  BY FewerEnd
<1> QED
  BY <1>1, <1>2

(* Slots of a Flob that had none.                                           *)
LEMMA AccountFirst ==
    ASSUME CacheInv, Account, NEW f \in Flob, NEW n \in 0..MaxCells,
           f \notin live \/ size[f] = 0,
           CreateEntries(f, n), size' = [size EXCEPT ![f] = n]
    PROVE  Account'
<1> USE DEF CacheInv
<1> DEFINE k == SlotOf(n)
           a == k * SlotSize
           B == Bytes(f, 0, a)
<1>1. cached' = cached \cup FullSlots(f, n) /\ usedSize' = usedSize + a
  BY DEF CreateEntries, AddEntries, SlotOf
<1>2. \A e \in cached : e[1] # f
  BY NoEntries
<1>3. n \in Nat /\ k \in Nat /\ a \in Nat /\ a <= n /\ n <= MaxCells /\ MaxCells \in Nat
  BY SlotBounds, Constants
<1>4. \A e \in Entry : e \in FullSlots(f, n) <=> e[1] = f /\ e[2] < k
  BY DEF FullSlots, SlotOf
<1>5. \A p \in Address : /\ p[2] \in Nat /\ p[1] \in Flob /\ EntryOf(p) \in Entry
                         /\ EntryOf(p)[1] = p[1] /\ EntryOf(p)[2] = SlotOf(p[2])
                         /\ SlotOf(p[2]) < k <=> p[2] < a
  BY <1>3, AddressFacts, SlotLess
<1>6. \A g \in Flob : size'[g] = IF g = f THEN n ELSE size[g]
  BY DEF TypeOK
<1>7. Inside' \subseteq Address /\ Inside \subseteq Address /\ B \subseteq Address
  BY DEF Inside, Address, Cell, Bytes
<1>8. \A p \in Address : p \in Inside <=> EntryOf(p) \in cached /\ p[2] < size[p[1]]
  BY DEF Inside
<1> HIDE DEF k, a
<1>9. \A p \in Address : p \in B <=> p[1] = f /\ p[2] < a
  BY <1>5 DEF Bytes
<1>10. ASSUME NEW p \in Address
       PROVE  p \in Inside' <=> p \in Inside \cup B
  <2>1. p \in Inside' <=> EntryOf(p) \in cached' /\ p[2] < size'[p[1]]
    BY InsideNext
  <2>2. EntryOf(p) \in FullSlots(f, n) <=> p[1] = f /\ p[2] < a
    BY <1>4, <1>5
  <2>3. p[1] = f /\ p[2] < a => p[2] < size'[p[1]]
    BY <1>3, <1>5, <1>6
  <2>4. EntryOf(p) \in cached => p[1] # f /\ size'[p[1]] = size[p[1]]
    BY <1>2, <1>5, <1>6
  <2> QED
    BY <2>1, <2>2, <2>3, <2>4, <1>1, <1>8, <1>9
<1>11. Inside \cap B = {}
  BY <1>2, <1>5, <1>7, <1>8, <1>9
<1>12. Inside' = Inside \cup B
  BY <1>7, <1>10
<1>13. IsFiniteSet(B) /\ Cardinality(B) = a
  <2>1. 0 <= a /\ a <= MaxCells /\ a - 0 = a
    BY <1>3
  <2> QED
    BY <2>1, <1>3, BytesCount
<1> HIDE DEF B
<1> QED
  BY <1>1, <1>11, <1>12, <1>13, AccountAdds

LEMMA AccountShrinks ==
    ASSUME CacheInv, Account, NEW f \in live, NEW n \in 0..MaxCells, Shrink(f, n),
           size' = [size EXCEPT ![f] = n]
    PROVE  Account'
<1> USE DEF CacheInv
<1> DEFINE k    == n \div SlotSize
           gone == {e \in Erasable(f) : e[2] > k \/ e[2] * SlotSize = n}
           last == <<f, k>>
           a    == k * SlotSize
           rest == n - a
           cut  == last \in cached /\ rest > 0 /\ rest < len[last]
           C    == IF cut THEN Bytes(f, n, a + len[last]) ELSE {}
<1>1. /\ 0 < n /\ n < size[f]
      /\ cached' = cached \ gone
      /\ usedSize' = usedSize - SumOf(gone) - (IF cut THEN len[last] - rest ELSE 0)
  BY DEF Shrink
<1>2. /\ f \in Flob /\ n \in Nat /\ size[f] \in Nat /\ SlotSize \in Nat \ {0}
      /\ k = SlotOf(n) /\ k \in Nat /\ a \in Nat
      /\ a <= n /\ n < a + SlotSize /\ size[f] <= MaxCells /\ MaxCells \in Nat
  <2>1. f \in Flob /\ n \in Nat /\ size[f] \in Nat /\ size[f] <= MaxCells
    BY SizeType, Constants DEF TypeOK
  <2>2. k = SlotOf(n)
    BY DEF SlotOf
  <2> QED
    BY <2>1, <2>2, SlotBounds, Constants
<1>3. gone \subseteq cached /\ \A e \in cached :
          e \in gone <=> e[1] = f /\ (e[2] > k \/ e[2] * SlotSize = n)
  BY <1>2, ErasesAll
<1>4. HeldBy(gone) = {p \in Inside : EntryOf(p) \in gone}
  BY <1>3, HeldInside
<1>5. Inside' \subseteq Address /\ Inside \subseteq Address /\ C \subseteq Address
  BY DEF Inside, Address, Cell, Bytes
<1>6. \A p \in Address : p \in Inside <=> EntryOf(p) \in cached /\ p[2] < size[p[1]]
  BY DEF Inside
<1>7. \A g \in Flob : size'[g] = IF g = f THEN n ELSE size[g]
  BY DEF TypeOK
<1>8. \A p \in Address : /\ p[2] \in Nat /\ p[1] \in Flob /\ EntryOf(p) \in Entry
                         /\ EntryOf(p) = <<p[1], SlotOf(p[2])>>
                         /\ EntryOf(p)[1] = p[1] /\ EntryOf(p)[2] = SlotOf(p[2])
                         /\ SlotOf(p[2]) \in Nat
                         /\ SlotOf(p[2]) < k <=> p[2] < a
  BY <1>2, AddressFacts, SlotBounds, SlotLess DEF EntryOf
<1>9. last \in cached => /\ len[last] \in Nat
                         /\ len[last] = IF size[f] - a < SlotSize THEN size[f] - a ELSE SlotSize
  <2> SUFFICES ASSUME last \in cached
               PROVE  /\ len[last] \in Nat
                      /\ len[last] = IF size[f] - a < SlotSize THEN size[f] - a ELSE SlotSize
    OBVIOUS
  <2>1. len[last] = SlotLength(size[f], k) /\ last \in Entry
    BY DEF SlotsFit, TypeOK
  <2>2. len[last] \in 0..SlotSize
    BY <2>1 DEF TypeOK
  <2> QED
    BY <2>1, <2>2, <1>2 DEF SlotLength
(* The last slot that remains is cut if anything of it remains.             *)
<1>10. last \in cached /\ last \notin gone => cut
  <2> SUFFICES ASSUME last \in cached, last \notin gone PROVE cut
    OBVIOUS
  <2>1. a # n
    BY <1>3
  <2> HIDE DEF k, a, last
  <2> QED
    BY <2>1, <1>1, <1>2, <1>9
<1>11. \A p \in Address : p \in C <=> cut /\ p[1] = f /\ n <= p[2] /\ p[2] < a + len[last]
  BY DEF Bytes
<1> HIDE DEF k, a, gone, cut
<1>12. ASSUME NEW p \in Address, p[1] # f
       PROVE  p \in Inside' <=> p \in Inside /\ p \notin HeldBy(gone) /\ p \notin C
  <2>1. EntryOf(p) \notin gone /\ p \notin C /\ size'[p[1]] = size[p[1]]
    BY <1>3, <1>7, <1>8, <1>11, <1>12
  <2> QED
    BY <2>1, <1>1, <1>4, <1>6, InsideNext
<1>13. ASSUME NEW p \in Address, p[1] = f, p \in Inside, EntryOf(p) \notin gone
       PROVE  p \in C <=> ~ (p[2] < n)
  <2> DEFINE i == SlotOf(p[2])
  <2>1. /\ EntryOf(p) \in cached /\ p[2] < size[f] /\ EntryOf(p) = <<f, i>>
        /\ i \in Nat /\ p[2] \in Nat
        /\ i < k <=> p[2] < a
    BY <1>6, <1>8, <1>13
  <2>2. i <= k
    BY <2>1, <1>2, <1>3, <1>13
  <2>3. CASE i < k
    <3>1. p[2] < n
      BY <2>1, <2>3, <1>2
    <3>2. p \notin C
      BY <3>1, <2>1, <1>2, <1>11
    <3> QED
      BY <3>1, <3>2
  <2>4. CASE i = k
    <3>1. last \in cached /\ cut
      BY <2>1, <2>4, <1>10, <1>13
    <3>2. p[2] < a + SlotSize
      BY <2>1, <2>4, SlotBounds DEF a
    <3>3. p[2] < a + len[last]
      BY <3>1, <3>2, <2>1, <1>2, <1>9
    <3>4. p \in C <=> n <= p[2]
      BY <3>1, <3>3, <1>11, <1>13
    <3> QED
      BY <3>4, <2>1, <1>2
  <2> QED
    BY <2>1, <2>2, <2>3, <2>4, <1>2
<1>14. ASSUME NEW p \in Address, p[1] = f
       PROVE  p \in Inside' <=> p \in Inside /\ p \notin HeldBy(gone) /\ p \notin C
  <2>1. p \in Inside' <=> EntryOf(p) \in cached /\ EntryOf(p) \notin gone /\ p[2] < n
    BY <1>1, <1>2, <1>7, <1>14, InsideNext
  <2>2. p[2] < n => p[2] < size[p[1]]
    BY <1>1, <1>2, <1>8, <1>14
  <2> QED
    BY <2>1, <2>2, <1>4, <1>6, <1>13, <1>14
<1>15. Inside' = Inside \ (HeldBy(gone) \cup C)
  BY <1>5, <1>12, <1>14
(* What is cut off was held, by a slot that remains.                        *)
<1>16. ASSUME NEW p \in C
       PROVE  p \in Inside /\ p \notin HeldBy(gone)
  <2>1. p \in Address /\ cut /\ p[1] = f /\ n <= p[2] /\ p[2] < a + len[last] /\ p[2] \in Nat
    BY <1>5, <1>8, <1>11
  <2>2. last \in cached /\ n - a > 0 /\ len[last] \in Nat
    BY <2>1, <1>9 DEF cut
  <2>3. a <= p[2] /\ p[2] < a + SlotSize /\ p[2] < size[f]
    BY <2>1, <2>2, <1>2, <1>9
  <2>4. SlotOf(p[2]) = k
    BY <2>1, <2>3, <1>2, SlotUnique DEF a
  <2>5. EntryOf(p) = last
    BY <2>1, <2>4, <1>8
  <2>6. last \notin gone
    <3>1. last[2] = k /\ ~ (k > k) /\ a # n
      BY <2>2, <1>2
    <3> QED
      BY <3>1, <2>2, <1>3 DEF a
  <2> QED
    BY <2>1, <2>2, <2>3, <2>5, <2>6, <1>4, <1>6
<1>17. IsFiniteSet(C) /\ Cardinality(C) = IF cut THEN len[last] - rest ELSE 0
  <2>1. CASE cut
    <3>1. /\ last \in cached /\ rest < len[last] /\ rest \in Nat
          /\ len[last] \in Nat
          /\ len[last] = IF size[f] - a < SlotSize THEN size[f] - a ELSE SlotSize
      BY <2>1, <1>2, <1>9 DEF cut
    <3>2. n <= a + len[last] /\ a + len[last] \in Nat /\ a + len[last] <= MaxCells
          /\ (a + len[last]) - n = len[last] - rest
      BY <3>1, <1>2
    <3>3. /\ IsFiniteSet(Bytes(f, n, a + len[last]))
          /\ Cardinality(Bytes(f, n, a + len[last])) = (a + len[last]) - n
      BY <3>2, <1>2, BytesCount
    <3> QED
      BY <2>1, <3>2, <3>3
  <2>2. CASE ~ cut
    BY <2>2, FS_EmptySet
  <2> QED
    BY <2>1, <2>2
<1> HIDE DEF C
<1> DEFINE H == HeldBy(gone)
<1>18. IsFiniteSet(H) /\ Cardinality(H) \in Nat /\ H \cap C = {} /\ H \subseteq Inside
  <2>1. H \subseteq Inside /\ IsFiniteSet(Inside)
    BY <1>4 DEF Account
  <2>2. IsFiniteSet(H)
    BY <2>1, FS_Subset
  <2> QED
    BY <2>1, <2>2, <1>16, FS_CardinalityType
<1> HIDE DEF H
<1>19. Cardinality(H \cup C) = Cardinality(H) + Cardinality(C)
  <2>1. Cardinality(H \cup C) = Cardinality(H) + Cardinality(C) - Cardinality(H \cap C)
    BY <1>17, <1>18, FS_Union
  <2>2. Cardinality(H \cap C) = 0 /\ Cardinality(C) \in Nat
    BY <1>17, <1>18, FS_EmptySet, FS_CardinalityType
  <2> QED
    BY <2>1, <2>2, <1>18
<1>20. usedSize \in Nat
  BY FS_CardinalityType DEF Account
<1>21. Cardinality(C) \in Nat
  BY <1>17, FS_CardinalityType
<1>22. usedSize' = usedSize - Cardinality(H) - Cardinality(C)
  BY <1>1, <1>17 DEF H, SumOf
<1>23. usedSize' = usedSize - Cardinality(H \cup C)
  BY <1>18, <1>19, <1>20, <1>21, <1>22
<1>24. H \cup C \subseteq Inside /\ Inside' = Inside \ (H \cup C)
  BY <1>15, <1>16, <1>18 DEF H
<1> QED
  BY <1>23, <1>24, AccountLoses

LEMMA AccountGrows ==
    ASSUME CacheInv, Account, NEW f \in live, NEW n \in 0..MaxCells, Enlarge(f, n),
           size' = [size EXCEPT ![f] = n]
    PROVE  Account'
<1> USE DEF CacheInv
<1> DEFINE k     == size[f] \div SlotSize
           fresh == {e \in Entry : e[1] = f /\ e[2] > k /\ e[2] * SlotSize < n}
           last  == <<f, k>>
           a     == k * SlotSize
           b     == (k + 1) * SlotSize
           L     == SlotLength(n, k)
           B     == IF n > b THEN Bytes(f, b, n) ELSE {}
           C     == IF last \in cached THEN Bytes(f, size[f], a + L) ELSE {}
<1>1. /\ 0 < size[f] /\ size[f] < n
      /\ cached' = cached \cup fresh
      /\ usedSize' = usedSize + (IF n > b THEN n - b ELSE 0)
                              + (IF last \in cached THEN L - len[last] ELSE 0)
  <2>1. Enlarged(f, n) = {} <=> last \notin cached
    BY DEF Enlarged
  <2> QED
    BY <2>1 DEF Enlarge
<1>2. /\ f \in Flob /\ n \in Nat /\ size[f] \in Nat /\ SlotSize \in Nat \ {0}
      /\ k = SlotOf(size[f]) /\ k \in Nat /\ a \in Nat /\ b = a + SlotSize
      /\ a <= size[f] /\ size[f] < a + SlotSize /\ n <= MaxCells /\ MaxCells \in Nat
  <2>1. f \in Flob /\ n \in Nat /\ size[f] \in Nat
    BY SizeType, Constants DEF TypeOK
  <2>2. k = SlotOf(size[f])
    BY DEF SlotOf
  <2>3. k \in Nat
    BY <2>1, <2>2, SlotBounds
  <2>4. b = a + SlotSize
    BY <2>3, SlotOrder
  <2>5. a \in Nat /\ a <= size[f] /\ size[f] < a + SlotSize
    BY <2>1, <2>2, SlotBounds
  <2>6. n <= MaxCells /\ MaxCells \in Nat /\ SlotSize \in Nat \ {0}
    BY Constants
  <2> HIDE DEF k, a, b
  <2> QED
    BY <2>1, <2>2, <2>3, <2>4, <2>5, <2>6
<1>3. L = IF n - a < SlotSize THEN n - a ELSE SlotSize
  BY DEF SlotLength
<1>4. Inside' \subseteq Address /\ Inside \subseteq Address /\ B \subseteq Address /\ C \subseteq Address
  BY DEF Inside, Address, Cell, Bytes
<1>5. \A p \in Address : p \in Inside <=> EntryOf(p) \in cached /\ p[2] < size[p[1]]
  BY DEF Inside
<1>6. \A g \in Flob : size'[g] = IF g = f THEN n ELSE size[g]
  BY DEF TypeOK
<1>7. ASSUME NEW p \in Address
      PROVE  /\ p[2] \in Nat /\ p[1] \in Flob /\ EntryOf(p) \in Entry
             /\ EntryOf(p) = <<p[1], SlotOf(p[2])>>
             /\ EntryOf(p)[1] = p[1] /\ EntryOf(p)[2] = SlotOf(p[2])
             /\ SlotOf(p[2]) \in Nat /\ SlotOf(p[2]) * SlotSize \in Nat
             /\ SlotOf(p[2]) * SlotSize <= p[2]
             /\ SlotOf(p[2]) < k <=> p[2] < a
             /\ SlotOf(p[2]) < k + 1 <=> p[2] < b
  <2>1. p[2] \in Nat /\ k + 1 \in Nat
    BY <1>2, AddressFacts
  <2> QED
    BY <2>1, <1>2, AddressFacts, SlotBounds, SlotLess DEF EntryOf
<1>8. last \in cached => len[last] = size[f] - a /\ last \in Entry
  <2> SUFFICES ASSUME last \in cached PROVE len[last] = size[f] - a /\ last \in Entry
    OBVIOUS
  <2>1. len[last] = SlotLength(size[f], k) /\ last \in Entry
    BY DEF SlotsFit, TypeOK
  <2> QED
    BY <2>1, <1>2 DEF SlotLength
<1>9. /\ \A p \in Address : p \in B <=> n > b /\ p[1] = f /\ b <= p[2] /\ p[2] < n
      /\ \A p \in Address : p \in C <=> last \in cached /\ p[1] = f /\ size[f] <= p[2]
                                                        /\ p[2] < a + L
  BY DEF Bytes
<1>10. \A e \in Entry : e \in fresh <=> e[1] = f /\ e[2] > k /\ e[2] * SlotSize < n
  OBVIOUS
<1> HIDE DEF k, fresh, a, b, L
<1>11. ASSUME NEW p \in Address, p[1] # f
       PROVE  p \in Inside' <=> p \in Inside \cup (B \cup C)
  <2>1. p \notin B /\ p \notin C /\ EntryOf(p) \notin fresh /\ size'[p[1]] = size[p[1]]
    BY <1>6, <1>7, <1>9, <1>10, <1>11
  <2> QED
    BY <2>1, <1>1, <1>5, InsideNext
<1>12. ASSUME NEW p \in Address, p[1] = f
       PROVE  p \in Inside' <=> p \in Inside \cup (B \cup C)
  <2> DEFINE i == SlotOf(p[2])
             c == p[2]
  <2>1. /\ c \in Nat /\ EntryOf(p) \in Entry /\ EntryOf(p) = <<f, i>>
        /\ EntryOf(p)[1] = f /\ EntryOf(p)[2] = i
        /\ i \in Nat /\ i * SlotSize \in Nat /\ i * SlotSize <= c
        /\ i < k <=> c < a
        /\ i < k + 1 <=> c < b
    BY <1>7, <1>12
  <2>2. p \in Inside' <=> (<<f, i>> \in cached \/ <<f, i>> \in fresh) /\ c < n
    BY <1>1, <1>2, <1>6, <1>12, <2>1, InsideNext
  <2>3. p \in Inside <=> <<f, i>> \in cached /\ c < size[f]
    BY <1>5, <1>12, <2>1
  <2>4. <<f, i>> \in fresh <=> i > k /\ i * SlotSize < n
    BY <1>10, <2>1
  <2>5. /\ p \in B <=> n > b /\ b <= c /\ c < n
        /\ p \in C <=> last \in cached /\ size[f] <= c /\ c < a + L
    BY <1>9, <1>12
  <2>6. <<f, i>> \in cached => i * SlotSize < size[f]
    BY <2>1 DEF SlotsFit
  <2>7. <<f, i>> \in cached => i <= k
    BY <2>1, <2>6, <1>2, SlotWithin
  <2>8. i = k => <<f, i>> = last
    BY DEF last
  <2> HIDE DEF i, c
  <2> HIDE DEF B, C, last
  <2>9. CASE i > k
    <3>1. <<f, i>> \notin cached /\ b <= c /\ c >= size[f] /\ ~ (c < a + L)
      BY <2>1, <2>7, <2>9, <1>2, <1>3
    <3>2. c < n => i * SlotSize < n /\ n > b
      BY <3>1, <2>1, <1>2
    <3> QED
      BY <3>1, <3>2, <2>1, <2>2, <2>3, <2>4, <2>5, <2>9, <1>2
  <2>10. CASE i = k
    <3>1. c < b /\ ~ (i > k) /\ ~ (b <= c)
      BY <2>1, <2>10, <1>2
    <3>2. c < n <=> c < a + L
      BY <3>1, <2>1, <1>2, <1>3
    <3>3. c < size[f] => c < n
      BY <2>1, <1>1, <1>2
    <3>4. ~ (c < size[f]) <=> size[f] <= c
      BY <2>1, <1>2
    <3> QED
      BY <3>1, <3>2, <3>3, <3>4, <2>2, <2>3, <2>4, <2>5, <2>8, <2>10
  <2>11. CASE i < k
    <3>1. c < size[f] /\ c < n /\ ~ (size[f] <= c) /\ ~ (i > k) /\ ~ (b <= c)
      BY <2>1, <2>11, <1>1, <1>2
    <3> QED
      BY <3>1, <2>2, <2>3, <2>4, <2>5
  <2>12. i > k \/ i = k \/ i < k
    BY <2>1, <1>2
  <2> QED
    BY <2>9, <2>10, <2>11, <2>12
<1>13. Inside' = Inside \cup (B \cup C)
  BY <1>4, <1>11, <1>12
<1>14. IsFiniteSet(B) /\ Cardinality(B) = IF n > b THEN n - b ELSE 0
  <2>1. CASE n > b
    <3>1. b \in Nat /\ b <= n
      BY <2>1, <1>2
    <3> QED
      BY <2>1, <3>1, <1>2, BytesCount
  <2>2. CASE ~ (n > b)
    BY <2>2, FS_EmptySet
  <2> QED
    BY <2>1, <2>2
<1>15. IsFiniteSet(C) /\ Cardinality(C) = IF last \in cached THEN L - len[last] ELSE 0
  <2>1. CASE last \in cached
    <3>1. len[last] = size[f] - a
      BY <2>1, <1>8
    <3>2. /\ a + L \in Nat /\ size[f] <= a + L /\ a + L <= MaxCells
          /\ (a + L) - size[f] = L - len[last]
      BY <3>1, <1>1, <1>2, <1>3
    <3>3. /\ IsFiniteSet(Bytes(f, size[f], a + L))
          /\ Cardinality(Bytes(f, size[f], a + L)) = (a + L) - size[f]
      BY <3>2, <1>2, BytesCount
    <3> QED
      BY <2>1, <3>2, <3>3
  <2>2. CASE last \notin cached
    BY <2>2, FS_EmptySet
  <2> QED
    BY <2>1, <2>2
<1>16. B \cap C = {}
  <2> SUFFICES ASSUME NEW p \in Address, p \in B, p \in C PROVE FALSE
    BY <1>4
  <2>1. b <= p[2] /\ p[2] < a + L /\ p[2] \in Nat
    BY <1>7, <1>9
  <2> QED
    BY <2>1, <1>2, <1>3
<1>17. Inside \cap (B \cup C) = {}
  <2> SUFFICES ASSUME NEW p \in Address, p \in Inside, p \in B \cup C PROVE FALSE
    BY <1>4
  <2>1. p[1] = f /\ p[2] \in Nat /\ p[2] < size[f]
    BY <1>5, <1>7, <1>9
  <2>2. b <= p[2] \/ size[f] <= p[2]
    BY <1>9
  <2> QED
    BY <2>1, <2>2, <1>2
<1> HIDE DEF B, C
<1>18. /\ IsFiniteSet(B \cup C)
       /\ Cardinality(B \cup C) = Cardinality(B) + Cardinality(C) - Cardinality(B \cap C)
  BY <1>14, <1>15, FS_Union
<1>19. Cardinality(B \cap C) = 0 /\ Cardinality(B) \in Nat /\ Cardinality(C) \in Nat
  BY <1>14, <1>15, <1>16, FS_EmptySet, FS_CardinalityType
<1>20. usedSize \in Nat
  BY FS_CardinalityType DEF Account
<1>21. usedSize' = usedSize + Cardinality(B) + Cardinality(C)
  BY <1>1, <1>14, <1>15
<1>22. usedSize' = usedSize + Cardinality(B \cup C)
  BY <1>18, <1>19, <1>20, <1>21
<1> QED
  BY <1>13, <1>17, <1>18, <1>22, AccountAdds

-----------------------------------------------------------------------------
(* The account and the list stay right.                                     *)

LEMMA EraseSteps ==
    ASSUME CacheInv, AccountInv, NEW f \in Flob, Drop(Erasable(f)),
           usedSize' = usedSize - SumOf(Erasable(f)),
           size' = [size EXCEPT ![f] = 0]
    PROVE  AccountInv'
<1> USE DEF CacheInv, AccountInv
<1> DEFINE E == Erasable(f)
<1>1. E = {e \in cached : e[1] = f}
  BY ErasesAll
<1>2. cached' = cached \ E /\ newer' = Without(E)
  BY DEF Drop
<1>3. \A p \in Address : EntryOf(p) \in cached \ E => size'[p[1]] = size[p[1]]
  <2> SUFFICES ASSUME NEW p \in Address, EntryOf(p) \in cached \ E
               PROVE  size'[p[1]] = size[p[1]]
    OBVIOUS
  <2>1. p[1] \in Flob /\ p[1] # f
    BY <1>1, AddressFacts
  <2> QED
    BY <2>1 DEF TypeOK
<1>4. usedSize' = usedSize - SumOf(E) /\ E \in SUBSET cached
  BY <1>1
<1> HIDE DEF E
<1>5. Account'
  BY <1>2, <1>3, <1>4, AccountErases
<1>6. ListOrders'
  BY <1>2, FewerOrdered
<1>7. ListEnds'
  BY <1>2, FewerEnd DEF Without
<1> QED
  BY <1>5, <1>6, <1>7

LEMMA CreateSteps ==
    ASSUME CacheInv, AccountInv, NEW f \in Flob, NEW n \in 0..MaxCells,
           f \notin live \/ size[f] = 0,
           CreateEntries(f, n), size' = [size EXCEPT ![f] = n]
    PROVE  AccountInv'
<1> USE DEF CacheInv, AccountInv
<1> DEFINE E == FullSlots(f, n)
<1>1. cached' = cached \cup E /\ newer' = AtFront(E)
  BY DEF CreateEntries, AddEntries
<1>2. E \in SUBSET Entry /\ \A e \in E : e[1] = f
  BY FullSlotsFit
<1>3. Account'
  BY AccountFirst
<1> HIDE DEF E
<1>4. ListOrders'
  BY <1>1, <1>2, FrontOrders
<1>5. ListEnds'
  BY <1>1, <1>2, FrontEnds
<1> QED
  BY <1>3, <1>4, <1>5

LEMMA ResizeSteps ==
    ASSUME CacheInv, AccountInv, NEW f \in Flob, NEW n \in 0..MaxCells, Resize(f, n)
    PROVE  AccountInv'
<1> USE DEF CacheInv
<1>1. f \in live /\ size' = [size EXCEPT ![f] = n]
  BY DEF Resize
<1>2. CASE ResizeFromZero(f, n)
  BY <1>1, <1>2, CreateSteps DEF ResizeFromZero
<1>3. CASE ResizeToZero(f) /\ n = 0
  BY <1>1, <1>3, EraseSteps DEF ResizeToZero
<1>4. CASE Shrink(f, n)
  <2>1. Account'
    BY <1>1, <1>4, AccountShrinks DEF AccountInv
  <2>2. \E E : cached' = cached \ E /\ newer' = Without(E)
    BY <1>4 DEF Shrink
  <2>3. ListOrders'
    BY <2>2, FewerOrdered DEF AccountInv
  <2>4. ListEnds'
    BY <2>2, FewerEnd DEF AccountInv, Without
  <2> QED
    BY <2>1, <2>3, <2>4 DEF AccountInv
<1>5. CASE Enlarge(f, n)
  <2>1. Account'
    BY <1>1, <1>5, AccountGrows DEF AccountInv
  <2>2. PICK E \in SUBSET Entry : /\ \A e \in E : e[1] = f
                                  /\ cached' = cached \cup E /\ newer' = AtFront(E)
    <3> DEFINE fresh == {e \in Entry : e[1] = f /\ e[2] > size[f] \div SlotSize
                                       /\ e[2] * SlotSize < n}
    <3>1. cached' = cached \cup fresh /\ newer' = AtFront(fresh)
      BY <1>5 DEF Enlarge
    <3>2. fresh \in SUBSET Entry /\ \A e \in fresh : e[1] = f
      OBVIOUS
    <3> HIDE DEF fresh
    <3> QED
      BY <3>1, <3>2
  <2>3. ListOrders'
    BY <2>2, FrontOrders DEF AccountInv
  <2>4. ListEnds'
    BY <2>2, FrontEnds DEF AccountInv
  <2> QED
    BY <2>1, <2>3, <2>4 DEF AccountInv
<1> QED
  BY <1>2, <1>3, <1>4, <1>5 DEF Resize

LEMMA FetchSteps ==
    ASSUME CacheInv, AccountInv, Fetch
    PROVE  AccountInv'
<1> USE DEF CacheInv, AccountInv
<1> DEFINE t == Touched
           n == size[call.flob]
           B == {p \in Address : EntryOf(p) = t /\ p[2] < n}
<1>1. /\ call # NoCall /\ t \notin cached
      /\ cached' = cached \cup {t}
      /\ newer' = AtFront({t})
      /\ usedSize' = usedSize + SlotLength(n, t[2])
      /\ size' = size
  BY DEF Fetch, flobVars
<1>2. t \in Entry /\ t[1] = call.flob /\ t[2] * SlotSize < n
  BY <1>1, CopyStays
<1>3. call.flob \in Flob
  BY <1>1, CallRuns
<1>4. n \in 0..MaxCells
  BY <1>3, SizeType
<1>5. \A p \in Address : EntryOf(p) = t => size[p[1]] = n
  BY <1>2, AddressFacts
<1>6. Inside' \subseteq Address /\ Inside \subseteq Address /\ B \subseteq Address
  BY DEF Inside, Address, Cell
<1>7. \A p \in Address : p \in Inside <=> EntryOf(p) \in cached /\ p[2] < size[p[1]]
  BY DEF Inside
<1>8. \A p \in Address : p \in B <=> EntryOf(p) = t /\ p[2] < n
  OBVIOUS
<1>9. IsFiniteSet(B) /\ Cardinality(B) = SlotLength(n, t[2])
  BY <1>2, <1>4, SlotBytes
<1> HIDE DEF t, n, B
<1>10. Inside' = Inside \cup B
  BY <1>1, <1>5, <1>6, <1>7, <1>8, InsideNext
<1>11. Inside \cap B = {}
  BY <1>1, <1>6, <1>7, <1>8
<1>12. Account'
  BY <1>1, <1>9, <1>10, <1>11, AccountAdds
<1>13. {t} \in SUBSET Entry /\ \A e \in {t} : e[1] = t[1]
  BY <1>2
<1>14. ListOrders'
  BY <1>1, <1>13, FrontOrders
<1>15. ListEnds'
  BY <1>1, <1>13, FrontEnds
<1> QED
  BY <1>12, <1>14, <1>15

LEMMA CopyFromSteps ==
    ASSUME CacheInv, AccountInv, CopyFromSlot
    PROVE  AccountInv'
<1> USE DEF CacheInv, AccountInv
<1>1. /\ call # NoCall /\ Touched \in cached
      /\ newer' = AtFront({Touched}) /\ UNCHANGED <<cached, size, usedSize>>
  BY DEF CopyFromSlot, flobVars, NoCall
<1>2. {Touched} \in SUBSET Entry /\ \A e \in {Touched} : e[1] = Touched[1]
  BY <1>1, CopyStays
<1>3. cached' = cached \cup {Touched}
  BY <1>1
<1>4. Account'
  BY <1>1, AccountSame
<1>5. ListOrders'
  BY <1>1, <1>2, <1>3, FrontOrders
<1>6. ListEnds'
  BY <1>1, <1>2, FrontEnds
<1> QED
  BY <1>4, <1>5, <1>6

LEMMA ReduceSteps ==
    ASSUME CacheInv, AccountInv, Reduce
    PROVE  AccountInv'
<1> USE DEF CacheInv, AccountInv
<1>1. PICK v \in Entry : v \in cached /\ Drop({v}) /\ usedSize' = usedSize - len[v]
  BY DEF Reduce, IsLast
<1>2. cached' = cached \ {v} /\ newer' = Without({v}) /\ size' = size
  BY <1>1 DEF Drop, Reduce, flobVars
<1>3. SumOf({v}) = len[v]
  <2> DEFINE n == size[v[1]]
  <2>1. v[1] \in Flob /\ n \in 0..MaxCells /\ v[2] * SlotSize < n /\ len[v] = SlotLength(n, v[2])
    BY <1>1, EntryFacts, SizeType DEF SlotsFit
  <2>2. HeldBy({v}) = {p \in Inside : EntryOf(p) \in {v}}
    BY <1>1, HeldInside
  <2>3. \A p \in Address : EntryOf(p) = v => p[1] = v[1]
    BY AddressFacts
  <2>4. HeldBy({v}) = {p \in Address : EntryOf(p) = v /\ p[2] < n}
    BY <1>1, <2>2, <2>3 DEF Inside
  <2> HIDE DEF n
  <2>5. Cardinality({p \in Address : EntryOf(p) = v /\ p[2] < n}) = SlotLength(n, v[2])
    BY <2>1, SlotBytes
  <2> QED
    BY <2>1, <2>4, <2>5 DEF SumOf
<1>4. Account'
  BY <1>1, <1>2, <1>3, AccountErases
<1>5. ListOrders'
  BY <1>2, FewerOrdered
<1>6. ListEnds'
  BY <1>2, FewerEnd DEF Without
<1> QED
  BY <1>4, <1>5, <1>6

LEMMA KillSteps ==
    ASSUME AccountInv, KillNativeFlobs
    PROVE  AccountInv'
<1> USE DEF AccountInv
<1>1. cached' = {} /\ newer' = Without(cached) /\ usedSize' = 0
  BY DEF KillNativeFlobs, Drop
<1>2. Inside' = {}
  BY <1>1 DEF Inside
<1>3. Account'
  BY <1>1, <1>2, FS_EmptySet DEF Account
<1>4. ListOrders'
  BY <1>1 DEF ListOrders
<1>5. ListEnds'
  BY <1>1, FewerEnd DEF Without
<1> QED
  BY <1>3, <1>4, <1>5

LEMMA InitAccount == Init => AccountInv
<1> SUFFICES ASSUME Init PROVE AccountInv
  OBVIOUS
<1>1. cached = {} /\ newer = {} /\ usedSize = 0
  BY DEF Init
<1>2. Inside = {} /\ ListOrders
  BY <1>1 DEF Inside, ListOrders
<1>3. Older = {}
  BY <1>1 DEF Older
<1>4. ListEnds
  <2>1. \A T \in SUBSET Entry : T # {} => \E x \in T : \A y \in T : ~ (<<y, x>> \in Older)
    BY <1>3
  <2>2. IsWellFoundedOn(Older, Entry)
    BY <2>1, MinWF
  <2> QED
    BY <2>2 DEF ListEnds
<1> QED
  BY <1>1, <1>2, <1>4, FS_EmptySet DEF AccountInv, Account

LEMMA NextAccount == CacheInv /\ AccountInv /\ [Next]_vars => AccountInv'
<1> SUFFICES ASSUME CacheInv, AccountInv, [Next]_vars PROVE AccountInv'
  OBVIOUS
<1>1. ASSUME UNCHANGED <<cached, size, usedSize, newer>> PROVE AccountInv'
  BY <1>1, AccountSame, ListSame DEF AccountInv
<1>2. CASE UNCHANGED vars
  BY <1>1, <1>2 DEF vars
<1>3. ASSUME NEW f \in Flob, NEW n \in 0..MaxCells, Create(f, n)
      PROVE  AccountInv'
  <2>1. f \notin live
    BY <1>3, CreateSlots
  <2>2. CreateEntries(f, n) /\ size' = [size EXCEPT ![f] = n]
    BY <1>3 DEF Create
  <2> QED
    BY <2>1, <2>2, CreateSteps
<1>4. ASSUME NEW f \in Flob, NEW n \in 0..MaxCells, Resize(f, n)
      PROVE  AccountInv'
  BY <1>4, ResizeSteps
<1>5. ASSUME NEW f \in Flob, NEW r,
             GetData(f, r[1], r[2]) \/ \E v \in Value : PutData(f, r[1], r[2], v)
      PROVE  AccountInv'
  BY <1>1, <1>5 DEF GetData, PutData, flobVars, listVars
<1>6. ASSUME NEW f \in Flob, Destroy(f) PROVE AccountInv'
  BY <1>6, EraseSteps DEF Destroy
<1>7. CASE Fetch
  BY <1>7, FetchSteps
<1>8. CASE CopyFromSlot
  BY <1>8, CopyFromSteps
<1>9. CASE CopyToSlot
  BY <1>1, <1>9 DEF CopyToSlot, flobVars, listVars
<1>10. CASE Reduce
  BY <1>10, ReduceSteps
<1>11. CASE KillNativeFlobs
  BY <1>11, KillSteps
<1> QED
  BY <1>2, <1>3, <1>4, <1>5, <1>6, <1>7, <1>8, <1>9, <1>10, <1>11 DEF Next

LEMMA AccountTells == CacheInv /\ AccountInv => AccountRight
<1> SUFFICES ASSUME CacheInv, AccountInv PROVE AccountRight
  OBVIOUS
<1> USE DEF CacheInv, AccountInv
<1>1. usedSize = SumOf(cached)
  <2>1. HeldBy(cached) = {p \in Inside : EntryOf(p) \in cached}
    BY HeldInside
  <2>2. HeldBy(cached) = Inside
    BY <2>1 DEF Inside
  <2> QED
    BY <2>2 DEF Account, SumOf
<1>2. ASSUME usedSize > MaxSize
      PROVE  \E e \in cached : IsLast(e) /\ cached # {e}
  <2>1. MaxSize \in Nat /\ SlotSize \in Nat /\ MaxSize > SlotSize
    BY CacheConstants
  <2>2. cached # {}
    <3> SUFFICES ASSUME cached = {} PROVE FALSE
      OBVIOUS
    <3>1. Inside = {}
      BY DEF Inside
    <3>2. usedSize = 0
      BY <3>1, FS_EmptySet DEF Account
    <3> QED
      BY <3>2, <2>1, <1>2
  <2>3. cached \subseteq Entry
    BY DEF TypeOK
  <2>4. PICK e \in cached : \A y \in cached : ~ (<<y, e>> \in Older)
    BY <2>2, <2>3, WFMin DEF ListEnds
  <2>5. IsLast(e)
    BY <2>3, <2>4, OlderPair DEF IsLast
  <2>6. cached # {e}
    <3> SUFFICES ASSUME cached = {e} PROVE FALSE
      OBVIOUS
    <3> DEFINE n == size[e[1]]
    <3>1. /\ e \in Entry /\ e[1] \in Flob /\ n \in 0..MaxCells /\ n \in Nat
          /\ e[2] \in Nat /\ e[2] * SlotSize < n
      BY <2>3, EntryFacts, SizeType DEF SlotsFit
    <3>2. \A p \in Address : EntryOf(p) = e => p[1] = e[1]
      BY AddressFacts
    <3>3. Inside = {p \in Address : EntryOf(p) = e /\ p[2] < n}
      BY <3>2 DEF Inside
    <3> HIDE DEF n
    <3>4. usedSize = SlotLength(n, e[2])
      BY <3>1, <3>3, SlotBytes DEF Account
    <3>5. usedSize \in Nat /\ usedSize <= SlotSize
      BY <3>1, <3>4, <2>1, SlotLengthType
    <3> QED
      BY <3>5, <2>1, <1>2
  <2> QED
    BY <2>5, <2>6
<1> QED
  BY <1>1, <1>2 DEF AccountRight, ListOrders

(* The account of the cache counts the bytes it holds, its list orders all  *)
(* entries, and reduce always finds a victim that is not the only entry.    *)
THEOREM AccountRightHolds == Spec => []AccountRight
<1>1. CacheInv /\ AccountInv /\ [Next]_vars => (CacheInv /\ AccountInv)'
  BY NextInv, NextAccount
<1>2. Spec => [](CacheInv /\ AccountInv)
  BY <1>1, InitInv, InitAccount, PTL DEF Spec
<1> QED
  BY <1>2, AccountTells, PTL
=============================================================================
