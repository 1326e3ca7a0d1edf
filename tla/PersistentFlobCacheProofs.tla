---------------------- MODULE PersistentFlobCacheProofs ----------------------
(***************************************************************************)
(* Proofs about the cache of persistent Flobs. That the table, the list    *)
(* and the account of the memory fit together, that a victim can always be *)
(* found and that the cached bytes are those of the records, with the two  *)
(* exceptions that the module names, holds for any use of the cache and    *)
(* any commits, aborts and crashes; that the links in the chains are       *)
(* right, as long as a Flob that is written shares no chain.               *)
(***************************************************************************)
EXTENDS PersistentFlobCache, FiniteSetTheorems, WellFoundedInduction, SequenceTheorems, TLAPS

-----------------------------------------------------------------------------
(* Slots.                                                                   *)

LEMMA Constants ==
    /\ MaxCells \in Nat \ {0} /\ SlotSize \in Nat \ {0} /\ TableSize \in Nat \ {0}
    /\ MaxSize \in Nat /\ MaxSize > SlotSize
    /\ HashValue \in [Flob -> Nat]
    /\ Unwritten \notin Value /\ None \notin Entry
BY CacheConstants, NullPointer

(* A slot begins at a multiple of SlotSize.                                 *)
LEMMA SlotBegin ==
    ASSUME NEW c \in Nat
    PROVE  /\ SlotOf(c) \in Nat /\ SlotOf(c) * SlotSize \in Nat
           /\ SlotOf(c) * SlotSize <= c
           /\ c < SlotOf(c) * SlotSize + SlotSize
           /\ c % SlotSize = c - SlotOf(c) * SlotSize
           /\ c % SlotSize \in 0..(SlotSize - 1)
BY Constants, SMT DEF SlotOf

LEMMA SlotsInARow ==
    ASSUME NEW i \in Nat, NEW j \in Nat
    PROVE  /\ i * SlotSize \in Nat
           /\ (i + 1) * SlotSize = i * SlotSize + SlotSize
           /\ i < j => i * SlotSize + SlotSize <= j * SlotSize
BY Constants, SMT

LEMMA SlotIs ==
    ASSUME NEW c \in Nat, NEW i \in Nat
    PROVE  SlotOf(c) = i <=> i * SlotSize <= c /\ c < i * SlotSize + SlotSize
<1> DEFINE j == SlotOf(c)
<1>1. j \in Nat /\ j * SlotSize \in Nat /\ j * SlotSize <= c /\ c < j * SlotSize + SlotSize
  BY SlotBegin
<1>2. /\ i * SlotSize \in Nat
      /\ i < j => i * SlotSize + SlotSize <= j * SlotSize
      /\ j < i => j * SlotSize + SlotSize <= i * SlotSize
  BY <1>1, SlotsInARow
<1>3. SlotSize \in Nat
  BY Constants
<1> HIDE DEF j
<1>4. i * SlotSize <= c /\ c < i * SlotSize + SlotSize => j = i
  BY <1>1, <1>2, <1>3, SMT
<1> QED
  BY <1>1, <1>4 DEF j

LEMMA CellSlot ==
    ASSUME NEW f \in Flob, NEW c \in Cell
    PROVE  c \in Nat /\ c < MaxCells /\ SlotOf(c) \in Slot /\ <<f, SlotOf(c)>> \in Entry
BY Constants, SMT DEF Cell, Slot, Entry

LEMMA EntryParts ==
    ASSUME NEW e \in Entry
    PROVE  /\ e = <<e[1], e[2]>> /\ e[1] \in Flob /\ e[2] \in Slot /\ e[2] \in Nat
           /\ Index(e) \in 0..(TableSize - 1)
<1>1. e = <<e[1], e[2]>> /\ e[1] \in Flob /\ e[2] \in Slot
  BY DEF Entry
<1>2. e[2] \in Nat
  BY <1>1, SlotBegin, SMT DEF Slot, Cell
<1>3. HashValue[e[1]] + e[2] \in Nat
  BY <1>1, <1>2, Constants
<1> QED
  BY <1>1, <1>2, <1>3, Constants, SMT DEF Index

-----------------------------------------------------------------------------
(* The invariant of the table and the list.                                 *)

(* Every entry is in the chain that its hash value says, once.              *)
ChainsSound ==
    /\ chain \in [0..(TableSize - 1) -> Seq(Entry)]
    /\ \A i \in 0..(TableSize - 1) : \A k \in 1..Len(chain[i]) :
          /\ chain[i][k] \in Cached /\ Index(chain[i][k]) = i
          /\ \A j \in 1..(k - 1) : chain[i][j] # chain[i][k]
    /\ \A e \in Cached : Found(e)

(* The list orders the entries, and has an end.                             *)
ListOrders == \A x, y \in Cached : x # y => (<<x, y>> \in newer) # (<<y, x>> \in newer)
Older == {p \in Entry \X Entry : <<p[2], p[1]>> \in newer}
ListEnds == IsWellFoundedOn(Older, Entry)

(* usedSize is the number of bytes of all entries.                          *)
Bytes == {p \in Entry \X Nat : p[2] < len[p[1]]}
Account == IsFiniteSet(Bytes) /\ usedSize = Cardinality(Bytes)

TableSound == ChainsSound /\ ListOrders /\ ListEnds /\ Account

LEMMA CachedParts ==
    ASSUME TypeOK, NEW e \in Entry
    PROVE  /\ len[e] \in 0..SlotSize /\ len[e] \in Nat
           /\ e \in Cached <=> len[e] > 0
           /\ e \notin Cached <=> len[e] = 0
BY Constants, SMT DEF TypeOK, Cached

LEMMA FoundCached ==
    ASSUME ChainsSound, NEW e \in Entry
    PROVE  Found(e) <=> e \in Cached
<1>1. Index(e) \in 0..(TableSize - 1)
  BY EntryParts
<1>2. ASSUME NEW k \in 1..Len(chain[Index(e)]), chain[Index(e)][k] = e
      PROVE  e \in Cached
  BY <1>1, <1>2 DEF ChainsSound
<1> QED
  BY <1>2 DEF ChainsSound, Found

-----------------------------------------------------------------------------
(* The list.                                                                *)

LEMMA FrontOrders ==
    ASSUME ListOrders, NEW e \in Entry, newer' = AtFront(e), Cached' = Cached \cup {e}
    PROVE  ListOrders'
<1> SUFFICES ASSUME NEW x \in Cached', NEW y \in Cached', x # y
             PROVE  (<<x, y>> \in newer') # (<<y, x>> \in newer')
  BY DEF ListOrders
<1>1. ASSUME NEW a, NEW b
      PROVE  <<a, b>> \in newer' <=> \/ <<a, b>> \in newer /\ a # e /\ b # e
                                     \/ a = e /\ b \in Cached \ {e}
  <2>1. <<a, b>> \in Without(e) <=> <<a, b>> \in newer /\ a # e /\ b # e
    BY DEF Without
  <2>2. <<a, b>> \in {<<e, z>> : z \in Cached \ {e}} <=> a = e /\ b \in Cached \ {e}
    OBVIOUS
  <2> QED
    BY <2>1, <2>2 DEF AtFront
<1>2. CASE x = e
  BY <1>1, <1>2
<1>3. CASE y = e
  BY <1>1, <1>3
<1>4. CASE x # e /\ y # e
  BY <1>1, <1>4 DEF ListOrders
<1> QED
  BY <1>2, <1>3, <1>4

LEMMA WithoutOrders ==
    ASSUME ListOrders, NEW e \in Entry, newer' = Without(e), Cached' = Cached \ {e}
    PROVE  ListOrders'
<1> SUFFICES ASSUME NEW x \in Cached', NEW y \in Cached', x # y
             PROVE  (<<x, y>> \in newer') # (<<y, x>> \in newer')
  BY DEF ListOrders
<1>1. \A a, b : <<a, b>> \in newer' <=> <<a, b>> \in newer /\ a # e /\ b # e
  BY DEF Without
<1> QED
  BY <1>1 DEF ListOrders

LEMMA OlderPair ==
    ASSUME NEW x \in Entry, NEW y \in Entry
    PROVE  <<y, x>> \in Older <=> <<x, y>> \in newer
BY DEF Older

LEMMA OlderPairNext ==
    ASSUME NEW x \in Entry, NEW y \in Entry
    PROVE  <<y, x>> \in Older' <=> <<x, y>> \in newer'
BY DEF Older

(* A list without end would go on behind an entry that comes to the front.  *)
LEMMA FrontEnds ==
    ASSUME ListEnds, NEW e \in Entry, newer' = AtFront(e)
    PROVE  ListEnds'
<1> SUFFICES IsWellFoundedOn(Older', Entry)
  BY DEF ListEnds
<1> SUFFICES ASSUME NEW f \in [Nat -> Entry], \A n \in Nat : <<f[n + 1], f[n]>> \in Older'
             PROVE  FALSE
  BY DEF IsWellFoundedOn
<1>1. ASSUME NEW n \in Nat PROVE <<f[n], f[n + 1]>> \in newer'
  <2>1. f[n] \in Entry /\ f[n + 1] \in Entry /\ <<f[n + 1], f[n]>> \in Older'
    OBVIOUS
  <2> QED
    BY <2>1, OlderPairNext
<1>2. \A a, b : <<a, b>> \in newer' =>
          b # e /\ (a # e => <<a, b>> \in newer)
  BY DEF AtFront, Without
<1>3. \A n \in Nat : f[n + 1] # e
  BY <1>1, <1>2
<1> DEFINE g == [n \in Nat |-> f[n + 1]]
<1>4. g \in [Nat -> Entry]
  OBVIOUS
<1>5. ASSUME NEW n \in Nat PROVE <<g[n + 1], g[n]>> \in Older
  <2>1. n + 1 \in Nat /\ g[n] = f[n + 1] /\ g[n + 1] = f[(n + 1) + 1]
    OBVIOUS
  <2>2. <<f[n + 1], f[(n + 1) + 1]>> \in newer'
    BY <1>1, <2>1
  <2>3. <<g[n], g[n + 1]>> \in newer
    BY <1>2, <1>3, <2>1, <2>2
  <2> QED
    BY <1>4, <2>1, <2>3, OlderPair
<1> HIDE DEF g
<1> QED
  BY <1>4, <1>5 DEF ListEnds, IsWellFoundedOn

LEMMA WithoutEnds ==
    ASSUME ListEnds, newer' \subseteq newer
    PROVE  ListEnds'
<1>1. Older' \cap (Entry \X Entry) \subseteq Older
  BY DEF Older
<1> QED
  BY <1>1, IsWellFoundedOnSubrelation DEF ListEnds

(* If there are entries, one of them is the last.                           *)
LEMMA LastEntry ==
    ASSUME ListEnds, Cached # {}
    PROVE  \E e \in Cached : IsLast(e)
<1>1. Cached \subseteq Entry
  BY DEF Cached
<1>2. PICK e \in Cached : \A x \in Cached : ~(<<x, e>> \in Older)
  BY <1>1, WFMin DEF ListEnds
<1> QED
  BY <1>1, <1>2, OlderPair DEF IsLast

-----------------------------------------------------------------------------
(* The account of the memory.                                               *)

LEMMA BytesOfOne ==
    ASSUME NEW e, NEW n \in Nat
    PROVE  IsFiniteSet({e} \X (0..(n - 1))) /\ Cardinality({e} \X (0..(n - 1))) = n
<1>1. IsFiniteSet({e}) /\ Cardinality({e}) = 1
  BY FS_Singleton
<1> DEFINE C == 0..(n - 1)
           D == {e}
<1>2. IsFiniteSet(C) /\ Cardinality(C) = n
  BY FS_Interval
<1> HIDE DEF C, D
<1>3. IsFiniteSet(D) /\ Cardinality(D) = 1
  BY <1>1 DEF D
<1>4. IsFiniteSet(D \X C) /\ Cardinality(D \X C) = Cardinality(D) * Cardinality(C)
  BY <1>2, <1>3, FS_Product
<1>5. Cardinality(D) * Cardinality(C) = n
  BY <1>2, <1>3
<1> QED
  BY <1>4, <1>5 DEF C, D

LEMMA AccountInsert ==
    ASSUME TypeOK, Account, NEW e \in Entry, len[e] = 0, NEW n \in Nat,
           len' = [len EXCEPT ![e] = n], usedSize' = usedSize + n
    PROVE  Account'
<1> DEFINE B == Bytes
           E == {e} \X (0..(n - 1))
<1>1. IsFiniteSet(B) /\ usedSize = Cardinality(B)
  BY DEF Account
<1>2. IsFiniteSet(E) /\ Cardinality(E) = n
  BY BytesOfOne
<1>3. B \cap E = {}
  BY SMT DEF Bytes
<1>4. Bytes' = B \cup E
  <2>1. \A x \in Entry : len'[x] = IF x = e THEN n ELSE len[x]
    BY DEF TypeOK
  <2>2. ASSUME NEW p PROVE p \in Bytes' <=> p \in B \cup E
    <3>1. p \in Bytes' <=> p \in Entry \X Nat /\ p[2] < len'[p[1]]
      BY DEF Bytes
    <3>2. p \in B <=> p \in Entry \X Nat /\ p[2] < len[p[1]]
      BY DEF Bytes
    <3>3. p \in E <=> p \in Entry \X Nat /\ p[1] = e /\ p[2] < n
      BY SMT
    <3>4. p \in Entry \X Nat => p[1] \in Entry /\ p[2] \in Nat
      OBVIOUS
    <3> HIDE DEF B, E
    <3>5. CASE p \in Entry \X Nat
      <4> DEFINE x == p[1]
                 m == p[2]
      <4>1. x \in Entry /\ m \in Nat /\ len'[x] = IF x = e THEN n ELSE len[x]
        BY <2>1, <3>5
      <4>2. (m < len'[x]) <=> (m < len[x] \/ (x = e /\ m < n))
        <5> HIDE DEF x, m
        <5> QED
          BY <4>1
      <4> QED
        BY <3>1, <3>2, <3>3, <3>5, <4>2
    <3>6. CASE p \notin Entry \X Nat
      BY <3>1, <3>2, <3>3, <3>6
    <3> QED
      BY <3>5, <3>6
  <2> HIDE DEF B, E
  <2> QED
    BY <2>2
<1> HIDE DEF B, E
<1>5. Cardinality(B) \in Nat /\ Cardinality({}) = 0
  BY <1>1, FS_CardinalityType, FS_EmptySet
<1>6. IsFiniteSet(B \cup E) /\ Cardinality(B \cup E) = Cardinality(B) + n
  <2>1. /\ IsFiniteSet(B \cup E)
        /\ Cardinality(B \cup E) = Cardinality(B) + Cardinality(E) - Cardinality(B \cap E)
    BY <1>1, <1>2, FS_Union
  <2>2. Cardinality(B \cap E) = 0
    BY <1>3, <1>5
  <2> QED
    BY <1>2, <1>5, <2>1, <2>2
<1> QED
  BY <1>1, <1>4, <1>5, <1>6 DEF Account

LEMMA AccountRemove ==
    ASSUME TypeOK, Account, NEW e \in Entry,
           len' = [len EXCEPT ![e] = 0], usedSize' = usedSize - len[e]
    PROVE  Account' /\ usedSize' \in Nat
<1> DEFINE B == Bytes
           n == len[e]
           E == {e} \X (0..(n - 1))
<1>0. n \in Nat
  BY CachedParts
<1>1. IsFiniteSet(B) /\ usedSize = Cardinality(B)
  BY DEF Account
<1>2. IsFiniteSet(E) /\ Cardinality(E) = n
  BY <1>0, BytesOfOne
<1>3. B \cap E = E
  BY <1>0, SMT DEF Bytes
<1>4. Bytes' = B \ E
  <2>1. \A x \in Entry : len'[x] = IF x = e THEN 0 ELSE len[x]
    BY DEF TypeOK
  <2>2. ASSUME NEW p PROVE p \in Bytes' <=> p \in B \ E
    <3>1. p \in Bytes' <=> p \in Entry \X Nat /\ p[2] < len'[p[1]]
      BY DEF Bytes
    <3>2. p \in B <=> p \in Entry \X Nat /\ p[2] < len[p[1]]
      BY DEF Bytes
    <3>3. p \in E <=> p \in Entry \X Nat /\ p[1] = e /\ p[2] < n
      BY <1>0, SMT
    <3>4. p \in Entry \X Nat => p[1] \in Entry /\ p[2] \in Nat
      OBVIOUS
    <3> HIDE DEF B, E
    <3>5. CASE p \in Entry \X Nat
      <4> DEFINE x == p[1]
                 m == p[2]
      <4>1. x \in Entry /\ m \in Nat /\ len'[x] = IF x = e THEN 0 ELSE len[x]
        BY <2>1, <3>5
      <4>2. (m < len'[x]) <=> (m < len[x] /\ ~(x = e /\ m < n))
        <5> HIDE DEF x, m
        <5> QED
          BY <1>0, <4>1
      <4> QED
        BY <3>1, <3>2, <3>3, <3>5, <4>2
    <3>6. CASE p \notin Entry \X Nat
      BY <3>1, <3>2, <3>6
    <3> QED
      BY <3>5, <3>6
  <2> HIDE DEF B, E
  <2> QED
    BY <2>2
<1>5. usedSize' = usedSize - n
  OBVIOUS
<1> HIDE DEF B, E, n
<1>6. IsFiniteSet(B \ E) /\ Cardinality(B \ E) = Cardinality(B) - n
  <2>1. IsFiniteSet(B \ E) /\ Cardinality(B \ E) = Cardinality(B) - Cardinality(B \cap E)
    BY <1>1, FS_Difference
  <2> QED
    BY <1>2, <1>3, <2>1
<1>7. Cardinality(B \ E) \in Nat
  BY <1>6, FS_CardinalityType
<1> QED
  BY <1>1, <1>4, <1>5, <1>6, <1>7 DEF Account

(* When the cache is too large, it has two entries at least.                *)
LEMMA TooLarge ==
    ASSUME TypeOK, Account, NEW e \in Entry, usedSize > MaxSize
    PROVE  \E x \in Cached : x # e
<1> SUFFICES ASSUME \A x \in Cached : x = e PROVE FALSE
  OBVIOUS
<1> DEFINE n == len[e]
           E == {e} \X (0..(n - 1))
<1>1. n \in Nat /\ n <= SlotSize
  BY CachedParts, Constants
<1>2. IsFiniteSet(E) /\ Cardinality(E) = n
  BY <1>1, BytesOfOne
<1>3. Bytes = E
  <2>1. ASSUME NEW p PROVE p \in Bytes <=> p \in E
    <3>1. p \in Bytes => p \in Entry \X Nat /\ p[1] \in Entry /\ p[2] < len[p[1]]
      BY DEF Bytes
    <3>2. p \in Bytes => p[1] = e
      <4> SUFFICES ASSUME p \in Bytes PROVE p[1] = e
        OBVIOUS
      <4>1. len[p[1]] > 0
        BY <3>1, CachedParts, SMT
      <4> QED
        BY <3>1, <4>1, CachedParts
    <3> QED
      BY <1>1, <3>1, <3>2, SMT DEF Bytes
  <2> HIDE DEF E
  <2> QED
    BY <2>1
<1> HIDE DEF E, n
<1>4. usedSize = n
  BY <1>2, <1>3 DEF Account
<1> QED
  BY <1>1, <1>4, Constants

-----------------------------------------------------------------------------
(* The chains.                                                              *)

LEMMA ChainsInsert ==
    ASSUME TypeOK, ChainsSound, NEW e \in Entry, e \notin Cached,
           chain' = [chain EXCEPT ![Index(e)] = Append(@, e)], Cached' = Cached \cup {e}
    PROVE  ChainsSound'
<1> DEFINE c == chain[Index(e)]
           d == Append(c, e)
           h == Index(e)
<1>1. h \in 0..(TableSize - 1) /\ c \in Seq(Entry)
  BY EntryParts DEF ChainsSound
<1>2. /\ d \in Seq(Entry) /\ Len(c) \in Nat /\ Len(d) = Len(c) + 1
      /\ \A k \in 1..Len(c) : d[k] = c[k]
      /\ d[Len(c) + 1] = e
  BY <1>1, AppendProperties, LenProperties
<1>3. /\ chain' \in [0..(TableSize - 1) -> Seq(Entry)]
      /\ chain'[h] = d
      /\ \A i \in 0..(TableSize - 1) : i # h => chain'[i] = chain[i]
  BY <1>1, <1>2 DEF ChainsSound
<1>4. \A k \in 1..Len(c) : /\ c[k] \in Cached /\ Index(c[k]) = h
                           /\ \A j \in 1..(k - 1) : c[j] # c[k]
  BY <1>1 DEF ChainsSound
<1>5. ASSUME NEW i \in 0..(TableSize - 1), NEW k \in 1..Len(chain'[i])
      PROVE  /\ chain'[i][k] \in Cached' /\ Index(chain'[i][k]) = i
             /\ \A j \in 1..(k - 1) : chain'[i][j] # chain'[i][k]
  <2>1. CASE i # h
    BY <1>3, <2>1 DEF ChainsSound
  <2>2. CASE i = h
    <3>1. chain'[i] = d /\ k \in 1..(Len(c) + 1) /\ Index(e) = i
      BY <1>2, <1>3, <2>2
    <3> HIDE DEF c, d, h
    <3> QED
      BY <1>2, <1>4, <2>2, <3>1, SMTT(30)
  <2> QED
    BY <2>1, <2>2
<1>6. ASSUME NEW x \in Cached' PROVE Found(x)'
  <2>0. x \in Entry /\ Index(x) \in 0..(TableSize - 1)
    BY EntryParts DEF Cached
  <2>1. CASE x = e
    BY <1>2, <1>3, <2>1 DEF Found
  <2>2. CASE x # e
    <3>1. PICK k \in 1..Len(chain[Index(x)]) : chain[Index(x)][k] = x
      BY <2>2 DEF ChainsSound, Found
    <3>2. CASE Index(x) # h
      BY <1>3, <2>0, <3>1, <3>2 DEF Found
    <3>3. CASE Index(x) = h
      BY <1>2, <1>3, <3>1, <3>3 DEF Found
    <3> QED
      BY <3>2, <3>3
  <2> QED
    BY <2>1, <2>2
<1> QED
  BY <1>3, <1>5, <1>6 DEF ChainsSound

(* A chain without the entry at k.                                          *)
Cut(c, k) == SubSeq(c, 1, k - 1) \o SubSeq(c, k + 1, Len(c))

LEMMA CutFacts ==
    ASSUME NEW c \in Seq(Entry), NEW k \in 1..Len(c)
    PROVE  /\ Cut(c, k) \in Seq(Entry) /\ Len(c) \in Nat /\ Len(Cut(c, k)) = Len(c) - 1
           /\ \A j \in 1..(Len(c) - 1) : Cut(c, k)[j] = IF j < k THEN c[j] ELSE c[j + 1]
<1> DEFINE a == SubSeq(c, 1, k - 1)
           b == SubSeq(c, k + 1, Len(c))
<1>0. Len(c) \in Nat /\ \A j \in 1..Len(c) : c[j] \in Entry
  BY LenProperties, ElementOfSeq
<1>1. /\ a \in Seq(Entry) /\ Len(a) = k - 1
      /\ \A j \in 1..(k - 1) : a[j] = c[j]
  <2>1. \A j \in 1..(k - 1) : c[j] \in Entry
    BY <1>0
  <2>2. /\ a \in Seq(Entry) /\ Len(a) = IF 1 <= k - 1 THEN (k - 1) - 1 + 1 ELSE 0
        /\ \A j \in 1..((k - 1) - 1 + 1) : a[j] = c[1 + j - 1]
    BY <2>1, SubSeqProperties
  <2> HIDE DEF a
  <2> QED
    BY <1>0, <2>2
<1>2. /\ b \in Seq(Entry) /\ Len(b) = Len(c) - k
      /\ \A j \in 1..(Len(c) - k) : b[j] = c[j + k]
  <2>1. \A j \in (k + 1)..Len(c) : c[j] \in Entry
    BY <1>0
  <2>2. k + 1 \in Int /\ Len(c) \in Int
    BY <1>0
  <2>3. /\ b \in Seq(Entry) /\ Len(b) = IF k + 1 <= Len(c) THEN Len(c) - (k + 1) + 1 ELSE 0
        /\ \A j \in 1..(Len(c) - (k + 1) + 1) : b[j] = c[(k + 1) + j - 1]
    BY <2>1, <2>2, SubSeqProperties
  <2>4. \A j \in 1..(Len(c) - k) : (k + 1) + j - 1 = j + k
    OBVIOUS
  <2> HIDE DEF b
  <2> QED
    BY <1>0, <2>3, <2>4
<1> HIDE DEF a, b
<1>3. /\ a \o b \in Seq(Entry) /\ Len(a \o b) = Len(a) + Len(b)
      /\ \A j \in 1..(Len(a) + Len(b)) : (a \o b)[j] = IF j <= Len(a) THEN a[j] ELSE b[j - Len(a)]
  BY <1>1, <1>2, ConcatProperties
<1>4. Cut(c, k) = a \o b
  BY DEF Cut, a, b
<1>5. ASSUME NEW j \in 1..(Len(c) - 1)
      PROVE  (a \o b)[j] = IF j < k THEN c[j] ELSE c[j + 1]
  <2>1. CASE j < k
    BY <1>0, <1>1, <1>2, <1>3, <2>1
  <2>2. CASE ~(j < k)
    <3>1. j - (k - 1) \in 1..(Len(c) - k) /\ (j - (k - 1)) + k = j + 1
      BY <1>0, <2>2
    <3>2. b[j - (k - 1)] = c[j + 1]
      BY <1>2, <3>1
    <3>3. j \in 1..(Len(a) + Len(b)) /\ ~(j <= Len(a))
      BY <1>0, <1>1, <1>2, <2>2
    <3>4. (a \o b)[j] = b[j - Len(a)]
      BY <1>3, <3>3
    <3> QED
      BY <1>1, <2>2, <3>2, <3>4
  <2> QED
    BY <2>1, <2>2
<1>6. Len(a \o b) = Len(c) - 1
  BY <1>0, <1>1, <1>2, <1>3
<1> QED
  BY <1>0, <1>3, <1>4, <1>5, <1>6

LEMMA ChainsRemove ==
    ASSUME TypeOK, ChainsSound, NEW e \in Cached, NEW k \in 1..Len(chain[Index(e)]),
           chain[Index(e)][k] = e,
           chain' = [chain EXCEPT ![Index(e)] = Cut(@, k)], Cached' = Cached \ {e}
    PROVE  ChainsSound'
<1> DEFINE h == Index(e)
           c == chain[h]
           d == Cut(c, k)
<1>0. e \in Entry /\ h \in 0..(TableSize - 1) /\ c \in Seq(Entry)
  BY EntryParts DEF Cached, ChainsSound
<1>1. /\ d \in Seq(Entry) /\ Len(c) \in Nat /\ Len(d) = Len(c) - 1
      /\ \A j \in 1..(Len(c) - 1) : d[j] = IF j < k THEN c[j] ELSE c[j + 1]
  BY <1>0, CutFacts
<1>2. /\ chain' \in [0..(TableSize - 1) -> Seq(Entry)]
      /\ chain'[h] = d
      /\ \A i \in 0..(TableSize - 1) : i # h => chain'[i] = chain[i]
  BY <1>0, <1>1 DEF ChainsSound
<1>3. \A j \in 1..Len(c) : /\ c[j] \in Cached /\ Index(c[j]) = h
                           /\ \A i \in 1..(j - 1) : c[i] # c[j]
  BY <1>0 DEF ChainsSound
<1>4. \A j \in 1..Len(c) : c[j] = e => j = k
  <2> SUFFICES ASSUME NEW j \in 1..Len(c), c[j] = e, j # k PROVE FALSE
    OBVIOUS
  <2>1. j \in 1..(k - 1) \/ k \in 1..(j - 1)
    BY <1>1
  <2> QED
    BY <1>3, <2>1
<1>5. ASSUME NEW i \in 0..(TableSize - 1), NEW j \in 1..Len(chain'[i])
      PROVE  /\ chain'[i][j] \in Cached' /\ Index(chain'[i][j]) = i
             /\ \A l \in 1..(j - 1) : chain'[i][l] # chain'[i][j]
  <2>1. CASE i # h
    <3>1. chain'[i] = chain[i]
      BY <1>2, <2>1
    <3>2. Index(chain[i][j]) = i /\ chain[i][j] \in Cached
      BY <3>1 DEF ChainsSound
    <3>3. chain[i][j] # e
      BY <2>1, <3>2
    <3> QED
      BY <3>1, <3>2, <3>3 DEF ChainsSound
  <2>2. CASE i = h
    <3>1. chain'[i] = d /\ j \in 1..(Len(c) - 1)
      BY <1>1, <1>2, <2>2
    <3> DEFINE q == IF j < k THEN j ELSE j + 1
    <3>2. q \in 1..Len(c) /\ q # k /\ d[j] = c[q]
      BY <1>1, <3>1
    <3>3. d[j] \in Cached /\ Index(d[j]) = h /\ d[j] # e
      BY <1>3, <1>4, <3>2
    <3>4. ASSUME NEW l \in 1..(j - 1) PROVE d[l] # d[j]
      <4> DEFINE r == IF l < k THEN l ELSE l + 1
      <4>0. k \in Nat /\ l \in 1..(Len(c) - 1) /\ d[l] = c[r]
        BY <1>1, <3>1
      <4>1. r \in 1..(q - 1)
        BY <1>1, <3>1, <4>0
      <4> HIDE DEF r, q
      <4> QED
        BY <1>3, <3>2, <4>0, <4>1
    <3> QED
      BY <2>2, <3>1, <3>3, <3>4
  <2> QED
    BY <2>1, <2>2
<1>6. ASSUME NEW x \in Cached' PROVE Found(x)'
  <2>0. x \in Entry /\ x \in Cached /\ x # e /\ Index(x) \in 0..(TableSize - 1)
    BY EntryParts DEF Cached
  <2>1. PICK j \in 1..Len(chain[Index(x)]) : chain[Index(x)][j] = x
    BY <2>0 DEF ChainsSound, Found
  <2>2. CASE Index(x) # h
    BY <1>2, <2>0, <2>1, <2>2 DEF Found
  <2>3. CASE Index(x) = h
    <3>1. j \in 1..Len(c) /\ c[j] = x /\ j # k
      BY <2>0, <2>1, <2>3
    <3> DEFINE l == IF j < k THEN j ELSE j - 1
    <3>2. l \in 1..(Len(c) - 1) /\ d[l] = c[j]
      BY <1>1, <3>1
    <3>3. chain'[Index(x)][l] = x /\ l \in 1..Len(chain'[Index(x)])
      BY <1>1, <1>2, <2>3, <3>1, <3>2
    <3> QED
      BY <3>3 DEF Found
  <2> QED
    BY <2>2, <2>3
<1> QED
  BY <1>2, <1>5, <1>6 DEF ChainsSound

-----------------------------------------------------------------------------
(* What the pieces of the actions do to the table.                          *)

LEMMA InsertSound ==
    ASSUME TypeOK, TableSound, NEW e \in Entry, ~Found(e), SizeOf(e) \in 1..SlotSize,
           NEW bytes, InsertEntry(e, bytes)
    PROVE  TableSound' /\ usedSize' \in Nat /\ len' \in [Entry -> 0..SlotSize]
           /\ Cached' = Cached \cup {e}
<1> DEFINE n == SizeOf(e)
<1>0. SlotSize \in Nat \ {0} /\ n \in Nat /\ n > 0
  BY Constants
<1> HIDE DEF n
<1>1. e \notin Cached /\ len[e] = 0
  BY FoundCached, CachedParts DEF TableSound
<1>2. len' = [len EXCEPT ![e] = n] /\ usedSize' = usedSize + n
  BY DEF InsertEntry, n
<1>3. len' \in [Entry -> 0..SlotSize]
  BY <1>0, <1>2 DEF TypeOK, n
<1>4. Cached' = Cached \cup {e}
  <2>1. \A x \in Entry : len'[x] = IF x = e THEN n ELSE len[x]
    BY <1>2 DEF TypeOK
  <2> QED
    BY <1>0, <2>1 DEF Cached
<1>5. ChainsSound'
  BY <1>1, <1>4, ChainsInsert DEF TableSound, InsertEntry
<1>6. ListOrders' /\ ListEnds'
  BY <1>4, FrontOrders, FrontEnds DEF TableSound, InsertEntry
<1>7. Account'
  BY <1>0, <1>1, <1>2, AccountInsert DEF TableSound
<1>8. usedSize' \in Nat
  BY <1>0, <1>2 DEF TypeOK
<1> QED
  BY <1>3, <1>4, <1>5, <1>6, <1>7, <1>8 DEF TableSound

LEMMA RemoveSound ==
    ASSUME TypeOK, TableSound, NEW e \in Cached, RemoveEntry(e)
    PROVE  TableSound' /\ usedSize' \in Nat /\ len' \in [Entry -> 0..SlotSize]
           /\ Cached' = Cached \ {e}
<1>0. SlotSize \in Nat \ {0} /\ e \in Entry
  BY Constants DEF Cached
<1> DEFINE k == Position(e)
<1>1. k \in 1..Len(chain[Index(e)]) /\ chain[Index(e)][k] = e
  BY DEF TableSound, ChainsSound, Found, Position
<1>2. /\ len' = [len EXCEPT ![e] = 0] /\ usedSize' = usedSize - len[e]
      /\ newer' = Without(e)
      /\ chain' = [chain EXCEPT ![Index(e)] = Cut(@, k)]
  BY DEF RemoveEntry, Cut
<1> HIDE DEF k
<1>3. len' \in [Entry -> 0..SlotSize]
  BY <1>0, <1>2 DEF TypeOK
<1>4. Cached' = Cached \ {e}
  <2>1. \A x \in Entry : len'[x] = IF x = e THEN 0 ELSE len[x]
    BY <1>2 DEF TypeOK
  <2> QED
    BY <1>0, <2>1 DEF Cached
<1>5. ChainsSound'
  BY <1>1, <1>2, <1>4, ChainsRemove DEF TableSound
<1>6. ListOrders'
  BY <1>0, <1>2, <1>4, WithoutOrders DEF TableSound
<1>7. ListEnds'
  BY <1>2, WithoutEnds DEF TableSound, Without
<1>8. Account' /\ usedSize' \in Nat
  BY <1>0, <1>2, AccountRemove DEF TableSound
<1> QED
  BY <1>3, <1>4, <1>5, <1>6, <1>7, <1>8 DEF TableSound

LEMMA FrontSound ==
    ASSUME TypeOK, TableSound, NEW e \in Cached, newer' = AtFront(e),
           UNCHANGED <<chain, len, usedSize>>
    PROVE  TableSound' /\ Cached' = Cached
<1>1. Cached' = Cached /\ Bytes' = Bytes /\ e \in Entry
  BY DEF Cached, Bytes
<1>2. ChainsSound'
  BY <1>1 DEF TableSound, ChainsSound, Found
<1>3. Account'
  BY <1>1 DEF TableSound, Account
<1>4. Cached' = Cached \cup {e}
  BY <1>1
<1>5. ListOrders' /\ ListEnds'
  BY <1>1, <1>4, FrontOrders, FrontEnds DEF TableSound
<1> QED
  BY <1>1, <1>2, <1>3, <1>5 DEF TableSound

LEMMA UnchangedSound ==
    ASSUME TableSound, UNCHANGED <<chain, newer, len, usedSize>>
    PROVE  TableSound' /\ Cached' = Cached
<1>1. Cached' = Cached /\ Bytes' = Bytes /\ Older' = Older
  BY DEF Cached, Bytes, Older
<1> QED
  BY <1>1 DEF TableSound, ChainsSound, Found, ListOrders, ListEnds, Account

(* An empty table.                                                          *)
Emptied ==
    /\ chain = [i \in 0..(TableSize - 1) |-> <<>>] /\ newer = {}
    /\ len = [e \in Entry |-> 0] /\ usedSize = 0

LEMMA EmptiedSound == Emptied => TableSound /\ Cached = {}
<1> SUFFICES ASSUME Emptied PROVE TableSound /\ Cached = {}
  OBVIOUS
<1>1. Cached = {} /\ Bytes = {} /\ Older = {}
  <2>1. \A p \in Entry \X Nat : ~(p[2] < len[p[1]])
    BY SMT DEF Emptied
  <2> QED
    BY <2>1 DEF Emptied, Cached, Bytes, Older
<1>2. ChainsSound
  BY <1>1 DEF Emptied, ChainsSound
<1>3. ListEnds
  BY <1>1, EmptyIsWellFounded DEF ListEnds
<1>4. Account
  BY <1>1, FS_EmptySet DEF Account, Emptied
<1> QED
  BY <1>1, <1>2, <1>3, <1>4 DEF TableSound, ListOrders

-----------------------------------------------------------------------------
(* The invariant of the cache.                                              *)

(* A call stays inside of its Flob.                                         *)
CallFits ==
    call # NoCall =>
        /\ life[call.flob] = "live" /\ call.from <= call.at
        /\ call.at <= call.to /\ call.to <= size[call.flob]
        /\ call.op = "get" => call.at < call.to
        /\ call.op = "put" => call.flob \in Writable /\ call.value \in Value

(* Only Flobs that were once saved are cached, but for what was rolled back. *)
NoStrangers == \A e \in Cached \ stale : life[e[1]] # "none"

(* An entry has the memory of a full slot, or it is the one where its Flob  *)
(* ends and has all of the rest. The slots of a destroyed Flob keep it, as  *)
(* an abort brings the Flob back.                                           *)
SlotFits(e) ==
    \/ len[e] = SlotSize
    \/ e[2] = SlotOf(size[e[1]]) /\ len[e] = size[e[1]] - e[2] * SlotSize
SlotsWhole == \A e \in Cached \ stale : SlotFits(e)

AstrayStale == status = "astray" => Touched \in stale

CacheInv == TypeOK /\ TableSound /\ CallFits /\ NoStrangers /\ SlotsWhole /\ AstrayStale

LEMMA ChainsTyped ==
    ASSUME ChainsSound
    PROVE  \A i \in 0..(TableSize - 1) : \A k \in 1..Len(chain[i]) : chain[i][k] \in Entry
BY DEF ChainsSound, Cached

LEMMA CallFields ==
    ASSUME TypeOK, call.op \in {"get", "put"}
    PROVE  /\ call # NoCall /\ call.flob \in Flob /\ call.from \in Cell /\ call.to \in 1..MaxCells
           /\ call.at \in 0..MaxCells /\ call.value \in Byte
           /\ call \in [op : {"get", "put"}, flob : Flob, from : Cell, to : 1..MaxCells,
                        at : 0..MaxCells, value : Byte]
<1>1. call # NoCall
  BY DEF NoCall
<1> QED
  BY <1>1 DEF TypeOK, Call

LEMMA SizeType ==
    ASSUME TypeOK, NEW f \in Flob
    PROVE  size[f] \in 0..MaxCells /\ size[f] \in Nat
BY Constants, SMT DEF TypeOK

(* What a running call touches next.                                        *)
LEMMA TouchedFacts ==
    ASSUME TypeOK, CallFits, call.op \in {"get", "put"}, call.at < call.to
    PROVE  /\ call.at \in Cell /\ call.at \in Nat /\ call.to <= size[call.flob]
           /\ Touched \in Entry /\ Touched[1] = call.flob /\ Touched[2] = SlotOf(call.at)
           /\ life[Touched[1]] = "live"
<1>1. call \in Call /\ call # NoCall /\ call.at \in 0..MaxCells /\ call.to \in 1..MaxCells
      /\ call.flob \in Flob
  BY CallFields DEF TypeOK
<1>2. call.at \in Cell
  BY <1>1, Constants, SMT DEF Cell
<1>3. Touched \in Entry /\ Touched[1] = call.flob /\ Touched[2] = SlotOf(call.at)
  BY <1>1, <1>2, CellSlot DEF Touched
<1> QED
  BY <1>1, <1>2, <1>3, SMT DEF CallFits, Cell

LEMMA TouchedSize ==
    ASSUME TypeOK, CallFits, call.op \in {"get", "put"}, call.at < call.to
    PROVE  /\ SizeOf(Touched) \in 1..SlotSize
           /\ \/ SizeOf(Touched) = SlotSize
              \/ /\ Touched[2] = SlotOf(size[call.flob])
                 /\ SizeOf(Touched) = size[call.flob] - Touched[2] * SlotSize
<1> DEFINE i == SlotOf(call.at)
           a == call.at
           n == size[call.flob]
<1>1. /\ a \in Nat /\ n \in Nat /\ a < n /\ Touched[1] = call.flob /\ Touched[2] = i
      /\ SlotSize \in Nat \ {0}
  <2>1. call.flob \in Flob /\ call.to \in 1..MaxCells
    BY CallFields
  <2> QED
    BY <2>1, TouchedFacts, SizeType, Constants, SMT
<1>2. /\ i \in Nat /\ i * SlotSize \in Nat /\ i * SlotSize <= a /\ a < i * SlotSize + SlotSize
  BY <1>1, SlotBegin
<1>3. SlotOf(n) = i <=> i * SlotSize <= n /\ n < i * SlotSize + SlotSize
  BY <1>1, <1>2, SlotIs
<1>4. SizeOf(Touched) = IF n - i * SlotSize < SlotSize THEN n - i * SlotSize ELSE SlotSize
  BY <1>1 DEF SizeOf
<1> HIDE DEF i, a, n
<1>5. /\ SizeOf(Touched) \in 1..SlotSize
      /\ SizeOf(Touched) = SlotSize \/ (i = SlotOf(n) /\ SizeOf(Touched) = n - i * SlotSize)
  BY <1>1, <1>2, <1>3, <1>4, SMT
<1> QED
  BY <1>1, <1>5 DEF i, n

LEMMA PositionFacts ==
    ASSUME TypeOK, CallFits, call.op \in {"get", "put"}, call.at < call.to
    PROVE  /\ NextPosition \in Nat /\ call.at < NextPosition /\ NextPosition <= call.to
           /\ NextPosition \in 0..MaxCells
           /\ NextPosition < call.to => NextPosition = (SlotOf(call.at) + 1) * SlotSize
           /\ \A c \in Nat : c < NextPosition => SlotOf(c) <= SlotOf(call.at)
           /\ \A c \in Nat : call.at <= c /\ c < NextPosition => SlotOf(c) = SlotOf(call.at)
<1> DEFINE i == SlotOf(call.at)
           a == call.at
           t == call.to
           p == NextPosition
<1>1. a \in Nat /\ t \in Nat /\ a < t /\ t <= MaxCells /\ MaxCells \in Nat /\ SlotSize \in Nat \ {0}
  <2>1. t \in 1..MaxCells
    BY CallFields
  <2> QED
    BY <2>1, TouchedFacts, Constants, SMT
<1>2. /\ i \in Nat /\ i * SlotSize \in Nat /\ i * SlotSize <= a /\ a < i * SlotSize + SlotSize
      /\ (i + 1) * SlotSize = i * SlotSize + SlotSize
  BY <1>1, SlotBegin, SlotsInARow
<1>3. p = IF i * SlotSize + SlotSize < t THEN i * SlotSize + SlotSize ELSE t
  BY <1>2 DEF NextPosition
<1> HIDE DEF i, a, t, p
<1>4. p \in Nat /\ a < p /\ p <= t /\ p \in 0..MaxCells /\ p <= i * SlotSize + SlotSize
      /\ (p < t => p = i * SlotSize + SlotSize)
  BY <1>1, <1>2, <1>3, SMT
<1>5. ASSUME NEW c \in Nat, c < p PROVE SlotOf(c) <= i /\ (a <= c => SlotOf(c) = i)
  <2> DEFINE j == SlotOf(c)
  <2>1. j \in Nat /\ j * SlotSize \in Nat /\ j * SlotSize <= c /\ c < j * SlotSize + SlotSize
    BY SlotBegin
  <2>2. /\ i < j => i * SlotSize + SlotSize <= j * SlotSize
        /\ j < i => j * SlotSize + SlotSize <= i * SlotSize
    BY <1>2, <2>1, SlotsInARow
  <2> HIDE DEF j
  <2>3. j <= i /\ (a <= c => j = i)
    BY <1>1, <1>2, <1>4, <1>5, <2>1, <2>2, SMT
  <2> QED
    BY <2>3 DEF j
<1> QED
  BY <1>2, <1>4, <1>5 DEF i, a, t, p

-----------------------------------------------------------------------------
(* The steps keep the invariant.                                            *)

LEMMA CacheInit == Init => CacheInv
<1> SUFFICES ASSUME Init PROVE CacheInv
  OBVIOUS
<1>1. TableSound /\ Cached = {}
  BY EmptiedSound DEF Init, Emptied
<1>2. Blank \in [Cell -> Byte]
  BY DEF Blank, Byte
<1>3. TypeOK
  <2>1. \A i \in 0..(TableSize - 1) : \A k \in 1..Len(chain[i]) : chain[i][k] \in Entry
    BY <1>1, ChainsTyped DEF TableSound
  <2>2. 0 \in 0..MaxCells /\ 0 \in 0..SlotSize
    BY Constants
  <2>3. EmptyDisk \in Disk
    BY <1>2, <2>2 DEF EmptyDisk, Disk, Life
  <2> QED
    BY <1>2, <2>1, <2>2, <2>3 DEF Init, TypeOK, Call, Life
<1> QED
  BY <1>1, <1>3 DEF Init, CacheInv, CallFits, NoStrangers, SlotsWhole, AstrayStale

LEMMA MemType ==
    ASSUME TypeOK, NEW e \in Entry, NEW b \in [Cell -> Byte],
           mem' = [mem EXCEPT ![e[1]] = [c \in Cell |-> IF SlotOf(c) = e[2] THEN b[c] ELSE @[c]]]
    PROVE  mem' \in [Flob -> [Cell -> Byte]]
BY EntryParts DEF TypeOK

(* A slot is brought in.                                                    *)
LEMMA InsertStep ==
    ASSUME CacheInv, call.op \in {"get", "put"}, call.at < call.to, ~Found(Touched),
           NEW b \in [Cell -> Byte], InsertEntry(Touched, b),
           prev' \in [Entry -> Entry \cup {None}], call' \in Call, CallFits',
           unread' \subseteq unread \cup {Touched}, status = "running",
           UNCHANGED <<life, size, record, saved, stale, status>>
    PROVE  CacheInv'
<1> DEFINE e == Touched
<1>0. TypeOK /\ TableSound /\ CallFits
  BY DEF CacheInv
<1>1. e \in Entry /\ e[1] = call.flob /\ life[e[1]] = "live" /\ e[2] = SlotOf(call.at)
  BY <1>0, TouchedFacts
<1>2. /\ SizeOf(e) \in 1..SlotSize
      /\ SizeOf(e) = SlotSize \/ (e[2] = SlotOf(size[e[1]]) /\ SizeOf(e) = size[e[1]] - e[2] * SlotSize)
  BY <1>0, <1>1, TouchedSize
<1> HIDE DEF e
<1>3. /\ ~Found(e) /\ InsertEntry(e, b) /\ unread' \subseteq unread \cup {e}
  BY DEF e
<1>4. /\ TableSound' /\ usedSize' \in Nat /\ len' \in [Entry -> 0..SlotSize]
      /\ Cached' = Cached \cup {e}
  BY <1>0, <1>1, <1>2, <1>3, InsertSound
<1>5. TypeOK'
  <2>1. mem' \in [Flob -> [Cell -> Byte]]
    BY <1>0, <1>1, <1>3, MemType DEF InsertEntry
  <2>2. newer' \subseteq Entry \X Entry
    BY <1>0, <1>1, <1>3 DEF InsertEntry, AtFront, Without, TypeOK, Cached
  <2>3. ChainsSound'
    BY <1>4 DEF TableSound
  <2>4. \A i \in 0..(TableSize - 1) : \A k \in 1..Len(chain'[i]) : chain'[i][k] \in Entry
    BY <2>3 DEF ChainsSound, Cached
  <2>5. stale' \subseteq Cached' /\ unread' \subseteq Cached'
    BY <1>0, <1>3, <1>4 DEF TypeOK
  <2> QED
    BY <1>0, <1>4, <2>1, <2>2, <2>4, <2>5 DEF TypeOK
<1>6. \A x \in Entry : len'[x] = IF x = e THEN SizeOf(e) ELSE len[x]
  BY <1>0, <1>3 DEF InsertEntry, TypeOK
<1>7. NoStrangers'
  BY <1>1, <1>4 DEF CacheInv, NoStrangers
<1>8. SlotsWhole'
  <2> SUFFICES ASSUME NEW x \in Cached', x \notin stale PROVE SlotFits(x)'
    BY DEF SlotsWhole
  <2>1. x \in Entry
    BY DEF Cached
  <2>2. CASE x = e
    BY <1>2, <1>6, <2>1, <2>2 DEF SlotFits
  <2>3. CASE x # e
    <3>1. SlotFits(x)
      BY <1>4, <2>3 DEF CacheInv, SlotsWhole
    <3> QED
      BY <1>6, <2>1, <2>3, <3>1 DEF SlotFits
  <2> QED
    BY <2>2, <2>3
<1> QED
  BY <1>4, <1>5, <1>7, <1>8 DEF CacheInv, AstrayStale

(* An entry leaves the cache.                                               *)
LEMMA RemoveStep ==
    ASSUME CacheInv, NEW e \in Cached, RemoveEntry(e)
    PROVE  /\ TableSound' /\ usedSize' \in Nat /\ Cached' = Cached \ {e}
           /\ len' \in [Entry -> 0..SlotSize] /\ \A x \in Cached' : len'[x] = len[x]
           /\ mem' \in [Flob -> [Cell -> Byte]] /\ newer' \subseteq Entry \X Entry
           /\ prev' \in [Entry -> Entry \cup {None}]
           /\ stale' \subseteq Cached' /\ unread' \subseteq Cached'
           /\ Cached' \ stale' \subseteq Cached \ stale
           /\ \A i \in 0..(TableSize - 1) : \A k \in 1..Len(chain'[i]) : chain'[i][k] \in Entry
<1>0. TypeOK /\ TableSound /\ e \in Entry
  BY DEF CacheInv, Cached
<1>1. /\ TableSound' /\ usedSize' \in Nat /\ Cached' = Cached \ {e}
      /\ len' \in [Entry -> 0..SlotSize]
  BY <1>0, RemoveSound
<1>2. len' = [len EXCEPT ![e] = 0] /\ newer' = Without(e)
      /\ mem' = [mem EXCEPT ![e[1]] = [c2 \in Cell |-> IF SlotOf(c2) = e[2] THEN Unwritten ELSE @[c2]]]
  BY DEF RemoveEntry
<1>3. \A x \in Cached' : len'[x] = len[x]
  BY <1>0, <1>1, <1>2 DEF TypeOK, Cached
<1>4. mem' \in [Flob -> [Cell -> Byte]]
  BY <1>0, <1>2, EntryParts DEF TypeOK, Byte
<1>5. newer' \subseteq Entry \X Entry
  BY <1>0, <1>2 DEF Without, TypeOK
<1>6. \A i \in 0..(TableSize - 1) : \A k \in 1..Len(chain'[i]) : chain'[i][k] \in Entry
  BY <1>1 DEF TableSound, ChainsSound, Cached
<1>7. prev' \in [Entry -> Entry \cup {None}]
  BY <1>0 DEF RemoveEntry, TypeOK
<1>8. /\ stale' \subseteq Cached' /\ unread' \subseteq Cached'
      /\ Cached' \ stale' \subseteq Cached \ stale
  BY <1>0, <1>1 DEF RemoveEntry, TypeOK
<1> QED
  BY <1>1, <1>3, <1>4, <1>5, <1>6, <1>7, <1>8

(* An entry comes to the front of the list.                                 *)
LEMMA FrontStep ==
    ASSUME CacheInv, NEW e \in Cached, newer' = AtFront(e), mem' \in [Flob -> [Cell -> Byte]],
           call' \in Call, CallFits', status = "running",
           UNCHANGED <<life, size, record, saved, chain, prev, len, usedSize, stale, unread, status>>
    PROVE  CacheInv'
<1>0. TypeOK /\ TableSound /\ e \in Entry
  BY DEF CacheInv, Cached
<1>1. TableSound' /\ Cached' = Cached
  BY <1>0, FrontSound
<1>2. newer' \subseteq Entry \X Entry
  BY <1>0 DEF AtFront, Without, TypeOK, Cached
<1>3. TypeOK'
  BY <1>0, <1>1, <1>2 DEF TypeOK
<1> QED
  BY <1>1, <1>3 DEF CacheInv, NoStrangers, SlotsWhole, SlotFits, AstrayStale

(* A step that leaves the table as it is.                                   *)
LEMMA OtherStep ==
    ASSUME CacheInv, UNCHANGED tableVars, UNCHANGED status, status = "running",
           life' \in [Flob -> Life], size' \in [Flob -> 0..MaxCells],
           record' \in [Flob -> [Cell -> Byte]], saved' \in Disk, call' \in Call, CallFits',
           \A e \in Cached \ stale : life'[e[1]] # "none" /\ size'[e[1]] = size[e[1]]
    PROVE  CacheInv'
<1>0. TypeOK /\ TableSound
  BY DEF CacheInv
<1>1. UNCHANGED <<chain, prev, newer, len, mem, usedSize, stale, unread>>
  BY DEF tableVars
<1>2. TableSound' /\ Cached' = Cached
  BY <1>0, <1>1, UnchangedSound
<1>3. TypeOK'
  BY <1>0, <1>1, <1>2 DEF TypeOK
<1>4. NoStrangers' /\ SlotsWhole'
  BY <1>1, <1>2 DEF CacheInv, NoStrangers, SlotsWhole, SlotFits
<1> QED
  BY <1>2, <1>3, <1>4 DEF CacheInv, AstrayStale

LEMMA CallSteps ==
    ASSUME CacheInv, NEW f \in Flob, NEW from \in Cell, NEW to \in 1..MaxCells,
           GetData(f, from, to) \/ \E v \in Value : PutData(f, from, to, v)
    PROVE  CacheInv'
<1>0. TypeOK
  BY DEF CacheInv
<1>1. PICK op \in {"get", "put"}, v \in Byte :
         /\ call' = [op |-> op, flob |-> f, from |-> from, to |-> to, at |-> from, value |-> v]
         /\ life[f] = "live" /\ from < to /\ to <= size[f]
         /\ op = "put" => f \in Writable /\ v \in Value
         /\ UNCHANGED diskVars /\ UNCHANGED tableVars /\ UNCHANGED status /\ status = "running"
  <2>1. CASE GetData(f, from, to)
    BY <2>1 DEF GetData, Byte, Idle, Ready
  <2>2. CASE \E v \in Value : PutData(f, from, to, v)
    BY <2>2 DEF PutData, Byte, Idle, Ready
  <2> QED
    BY <2>1, <2>2
<1>2. from \in 0..MaxCells
  BY Constants DEF Cell
<1>3. call' \in Call
  <2> DEFINE R == [op : {"get", "put"}, flob : Flob, from : Cell, to : 1..MaxCells,
                   at : 0..MaxCells, value : Byte]
             r == [op |-> op, flob |-> f, from |-> from, to |-> to, at |-> from, value |-> v]
  <2>1. r \in R
    BY <1>2
  <2>2. Call = {NoCall} \cup R /\ call' = r
    BY <1>1 DEF Call
  <2> HIDE DEF R, r
  <2> QED
    BY <2>1, <2>2
<1>4. CallFits'
  <2>1. /\ call'.op = op /\ call'.flob = f /\ call'.to = to /\ call'.at = from /\ call'.value = v
        /\ call'.from = from
    BY <1>1
  <2>2. from <= from /\ from <= to /\ life' = life /\ size' = size
    BY <1>1, <1>2 DEF diskVars
  <2> QED
    BY <1>1, <2>1, <2>2 DEF CallFits
<1> QED
  BY <1>0, <1>1, <1>3, <1>4, OtherStep DEF diskVars, TypeOK, CacheInv, NoStrangers

LEMMA WriteThroughStep ==
    ASSUME CacheInv, WriteThrough
    PROVE  CacheInv'
<1>0. TypeOK /\ call.op = "put"
  BY DEF CacheInv, WriteThrough
<1>1. call.flob \in Flob /\ call.value \in Byte
  BY <1>0, CallFields
<1>2. record' \in [Flob -> [Cell -> Byte]]
  BY <1>0, <1>1 DEF WriteThrough, TypeOK
<1>3. call' = NoCall /\ call' \in Call /\ CallFits'
  BY DEF WriteThrough, Call, CallFits
<1> QED
  BY <1>0, <1>2, <1>3, OtherStep DEF WriteThrough, Ready, TypeOK, CacheInv, NoStrangers

LEMMA SaveToStep ==
    ASSUME CacheInv, NEW f \in Flob, NEW n \in 0..MaxCells, NEW v \in Value, SaveTo(f, n, v)
    PROVE  CacheInv'
<1>0. TypeOK /\ call = NoCall /\ call' = NoCall /\ life[f] = "none" /\ status = "running"
  BY DEF CacheInv, SaveTo, Idle, Ready
<1>1. [c \in Cell |-> IF c < n THEN v ELSE Unwritten] \in [Cell -> Byte]
  BY DEF Byte
<1>2. record' \in [Flob -> [Cell -> Byte]]
  BY <1>0, <1>1 DEF SaveTo, TypeOK
<1>3. \A e \in Cached \ stale : e[1] # f /\ e[1] \in Flob
  BY <1>0, EntryParts DEF CacheInv, NoStrangers, Cached
<1>4. \A e \in Cached \ stale : life'[e[1]] = life[e[1]] /\ size'[e[1]] = size[e[1]]
  BY <1>0, <1>3 DEF SaveTo, TypeOK
<1>5. life' \in [Flob -> Life] /\ size' \in [Flob -> 0..MaxCells]
  BY <1>0 DEF SaveTo, TypeOK, Life
<1>6. call' \in Call /\ CallFits'
  BY <1>0 DEF Call, CallFits
<1> QED
  BY <1>0, <1>2, <1>4, <1>5, <1>6, OtherStep DEF SaveTo, CacheInv, NoStrangers, TypeOK

LEMMA DestroyStep ==
    ASSUME CacheInv, NEW f \in Flob, Destroy(f)
    PROVE  CacheInv'
<1>0. /\ TypeOK /\ call = NoCall /\ call' = NoCall /\ status = "running"
      /\ UNCHANGED <<size, record, saved>>
  BY DEF CacheInv, Destroy, Idle, Ready
<1>1. life' \in [Flob -> Life]
  BY <1>0 DEF Destroy, TypeOK, Life
<1>2. \A e \in Cached : e[1] \in Flob
  BY EntryParts DEF Cached
<1>3. \A e \in Cached : life'[e[1]] = IF e[1] = f THEN "dead" ELSE life[e[1]]
  BY <1>0, <1>2 DEF Destroy, TypeOK
<1>4. call' \in Call /\ CallFits'
  BY <1>0 DEF Call, CallFits
<1> QED
  BY <1>0, <1>1, <1>3, <1>4, OtherStep DEF Destroy, CacheInv, NoStrangers, TypeOK

LEMMA CommitStep ==
    ASSUME CacheInv, Commit
    PROVE  CacheInv'
<1>0. /\ TypeOK /\ call = NoCall /\ call' = NoCall /\ status = "running"
      /\ UNCHANGED <<life, size, record>>
  BY DEF CacheInv, Commit, Idle, Ready
<1>1. saved' \in Disk
  BY <1>0 DEF Commit, Disk, TypeOK
<1>2. call' \in Call /\ CallFits'
  BY <1>0 DEF Call, CallFits
<1> QED
  BY <1>0, <1>1, <1>2, OtherStep DEF Commit, CacheInv, NoStrangers, TypeOK

(* The slots of the Flobs that rolling back changes become stale, the other *)
(* Flobs keep their size and exist.                                         *)
LEMMA AbortStep ==
    ASSUME CacheInv, Abort
    PROVE  CacheInv'
<1>0. /\ TypeOK /\ TableSound /\ call = NoCall /\ call' = NoCall /\ status = "running"
      /\ UNCHANGED <<saved, chain, prev, newer, len, mem, usedSize, unread, status>>
      /\ life' = saved.life /\ size' = saved.size /\ record' = saved.record
      /\ stale' = stale \cup {e \in Cached : RolledBack(e[1])}
  BY DEF CacheInv, Abort, Idle, Ready, SetDisk
<1>1. TableSound' /\ Cached' = Cached
  BY <1>0, UnchangedSound
<1>2. /\ life' \in [Flob -> Life] /\ size' \in [Flob -> 0..MaxCells]
      /\ record' \in [Flob -> [Cell -> Byte]]
  BY <1>0 DEF TypeOK, Disk
<1>3. stale' \subseteq Cached /\ unread' \subseteq Cached
  BY <1>0 DEF TypeOK
<1>4. TypeOK'
  BY <1>0, <1>1, <1>2, <1>3 DEF TypeOK
<1>5. CallFits' /\ AstrayStale'
  BY <1>0 DEF CallFits, AstrayStale
<1>6. ASSUME NEW e \in Cached, e \notin stale'
      PROVE  e \notin stale /\ life'[e[1]] # "none" /\ size'[e[1]] = size[e[1]]
  BY <1>0, <1>6 DEF RolledBack
<1>7. NoStrangers' /\ SlotsWhole'
  BY <1>0, <1>1, <1>6 DEF CacheInv, NoStrangers, SlotsWhole, SlotFits
<1> QED
  BY <1>1, <1>4, <1>5, <1>7 DEF CacheInv

LEMMA GetMissStep ==
    ASSUME CacheInv, GetMiss
    PROVE  CacheInv'
<1>0. TypeOK /\ CallFits /\ call.op = "get" /\ call # NoCall
  BY DEF CacheInv, GetMiss, NoCall
<1>1. call.at < call.to /\ call.flob \in Flob
  BY <1>0, CallFields DEF CallFits
<1>2. Touched \in Entry
  BY <1>0, <1>1, TouchedFacts
<1>3. record[call.flob] \in [Cell -> Byte]
  BY <1>0, <1>1 DEF TypeOK
<1>4. chain[Index(Touched)] \in Seq(Entry)
  BY <1>2, EntryParts DEF CacheInv, TableSound, ChainsSound
<1>5. Predecessor(chain[Index(Touched)]) \in Entry \cup {None}
  <2> DEFINE c == chain[Index(Touched)]
  <2>1. c # <<>> => Len(c) \in 1..Len(c)
    BY <1>4, EmptySeq, LenProperties
  <2>2. c # <<>> => c[Len(c)] \in Entry
    BY <1>4, <2>1, ElementOfSeq
  <2> QED
    BY <2>2 DEF Predecessor
<1>6. prev' \in [Entry -> Entry \cup {None}]
  BY <1>0, <1>5 DEF GetMiss, TypeOK
<1>7. call' \in Call /\ CallFits'
  BY <1>0 DEF GetMiss, TypeOK, CallFits, diskVars
<1> QED
  BY <1>0, <1>1, <1>3, <1>6, <1>7, InsertStep DEF GetMiss, Ready, diskVars

(* A call goes on at its next position.                                     *)
LEMMA AdvanceFits ==
    ASSUME TypeOK, CallFits, call.op \in {"get", "put"}, call.at < call.to,
           call' = [call EXCEPT !.at = NextPosition], UNCHANGED <<life, size>>,
           call.op = "get" => NextPosition # call.to
    PROVE  call' \in Call /\ CallFits'
<1> DEFINE p == NextPosition
<1>1. /\ p \in 0..MaxCells /\ p \in Nat /\ p <= call.to /\ call.at < p /\ call.at \in Nat
  BY PositionFacts, TouchedFacts
<1>2. /\ call \in [op : {"get", "put"}, flob : Flob, from : Cell, to : 1..MaxCells,
                   at : 0..MaxCells, value : Byte]
      /\ call # NoCall /\ call.to \in 1..MaxCells /\ call.from \in Cell
  BY CallFields
<1>3. call' = [call EXCEPT !.at = p]
  OBVIOUS
<1> HIDE DEF p
<1>4. /\ call' \in Call
      /\ call'.op = call.op /\ call'.flob = call.flob /\ call'.to = call.to /\ call'.at = p
      /\ call'.value = call.value /\ call'.from = call.from
  BY <1>1, <1>2, <1>3 DEF Call
<1>5. call.op = "get" => p # call.to
  BY DEF p
<1>6. call.op = "get" => p < call.to
  BY <1>1, <1>2, <1>5
<1>7. call.from <= p
  <2>1. call.from \in Nat /\ call.from <= call.at
    BY <1>2, CellSlot DEF CallFits
  <2> QED
    BY <1>1, <2>1
<1> QED
  BY <1>1, <1>2, <1>4, <1>6, <1>7 DEF CallFits

LEMMA GetHitStep ==
    ASSUME CacheInv, GetHit
    PROVE  CacheInv'
<1>0. TypeOK /\ CallFits /\ TableSound /\ call.op = "get" /\ call # NoCall
  BY DEF CacheInv, GetHit, NoCall
<1>1. call.at < call.to /\ Touched \in Entry
  BY <1>0, TouchedFacts DEF CallFits
<1>2. Touched \in Cached
  BY <1>0, <1>1, FoundCached DEF GetHit, TableSound
<1>3. call' \in Call /\ CallFits'
  <2>1. CASE NextPosition = call.to
    BY <2>1 DEF GetHit, Call, CallFits
  <2>2. CASE NextPosition # call.to
    BY <1>0, <1>1, <2>2, AdvanceFits DEF GetHit, diskVars
  <2> QED
    BY <2>1, <2>2
<1> QED
  BY <1>0, <1>2, <1>3, FrontStep DEF GetHit, Ready, diskVars, TypeOK

(* The bytes of a Flob with those that a write puts there.                  *)
LEMMA OverwrittenType ==
    ASSUME TypeOK, call.op = "put", NEW b \in [Cell -> Byte]
    PROVE  Overwritten(b) \in [Cell -> Byte]
BY CallFields DEF Overwritten

LEMMA PutMissStep ==
    ASSUME CacheInv, PutMiss
    PROVE  CacheInv'
<1>0. TypeOK /\ CallFits /\ call.op = "put" /\ call.at < call.to /\ ~Found(Touched)
  BY DEF CacheInv, PutMiss, Writing
<1>1. call.flob \in Flob /\ Touched \in Entry
  BY <1>0, CallFields, TouchedFacts
<1>2. record[call.flob] \in [Cell -> Byte] /\ Blank \in [Cell -> Byte]
  BY <1>0, <1>1 DEF TypeOK, Blank, Byte
<1> DEFINE b == Overwritten(IF ReadsSlot THEN record[call.flob] ELSE Blank)
<1>3. b \in [Cell -> Byte]
  BY <1>0, <1>2, OverwrittenType
<1>4. chain[Index(Touched)] \in Seq(Entry)
  BY <1>1, EntryParts DEF CacheInv, TableSound, ChainsSound
<1>5. prev' \in [Entry -> Entry \cup {None}]
  <2> DEFINE c == chain[Index(Touched)]
  <2>1. c # <<>> => Len(c) \in 1..Len(c)
    BY <1>4, EmptySeq, LenProperties
  <2>2. c # <<>> => c[Len(c)] \in Entry
    BY <1>4, <2>1, ElementOfSeq
  <2>3. prev' = IF c = <<>> THEN prev ELSE [prev EXCEPT ![c[Len(c)]] = c[Len(c)]]
    BY DEF PutMiss
  <2> HIDE DEF c
  <2> QED
    BY <1>0, <2>2, <2>3 DEF TypeOK
<1>6. InsertEntry(Touched, b)
  BY DEF PutMiss
<1> HIDE DEF b
<1>7. call' \in Call /\ CallFits'
  BY <1>0, AdvanceFits DEF PutMiss, diskVars
<1>8. unread' \subseteq unread \cup {Touched}
  BY DEF PutMiss
<1> QED
  BY <1>0, <1>3, <1>5, <1>6, <1>7, <1>8, InsertStep DEF PutMiss, Ready, diskVars

LEMMA PutHitStep ==
    ASSUME CacheInv, PutHit
    PROVE  CacheInv'
<1>0. TypeOK /\ CallFits /\ TableSound /\ call.op = "put" /\ call.at < call.to
  BY DEF CacheInv, PutHit, Writing
<1>1. call.flob \in Flob /\ Touched \in Entry
  BY <1>0, CallFields, TouchedFacts
<1>2. Touched \in Cached
  BY <1>0, <1>1, FoundCached DEF PutHit, TableSound
<1>3. mem' \in [Flob -> [Cell -> Byte]]
  <2>1. mem[call.flob] \in [Cell -> Byte]
    BY <1>0, <1>1 DEF TypeOK
  <2>2. Overwritten(mem[call.flob]) \in [Cell -> Byte]
    BY <1>0, <2>1, OverwrittenType
  <2> QED
    BY <1>0, <2>2 DEF PutHit, TypeOK
<1>4. call' \in Call /\ CallFits'
  BY <1>0, AdvanceFits DEF PutHit, diskVars
<1> QED
  BY <1>2, <1>3, <1>4, FrontStep DEF PutHit, Ready, diskVars

(* Memory that is not stale reaches to the end of the copy.                 *)
LEMMA FitsCovers ==
    ASSUME TypeOK, NEW f \in Flob, NEW c \in Nat, c < size[f], SlotFits(<<f, SlotOf(c)>>)
    PROVE  c % SlotSize < len[<<f, SlotOf(c)>>]
<1> DEFINE e == <<f, SlotOf(c)>>
           i == SlotOf(c)
           n == size[f]
<1>1. n \in Nat /\ e[1] = f /\ e[2] = i /\ c < n
  BY SizeType
<1>2. i \in Nat /\ i * SlotSize \in Nat /\ c % SlotSize = c - i * SlotSize
      /\ c % SlotSize \in 0..(SlotSize - 1)
  BY SlotBegin
<1>3. len[e] = SlotSize \/ len[e] = n - i * SlotSize
  BY <1>1 DEF SlotFits
<1>4. SlotSize \in Nat
  BY Constants
<1> HIDE DEF e, i, n
<1>5. c % SlotSize < len[e]
  BY <1>1, <1>2, <1>3, <1>4
<1> QED
  BY <1>5 DEF e, i

LEMMA GoAstrayStep ==
    ASSUME CacheInv, GoAstray
    PROVE  CacheInv'
<1>0. /\ TypeOK /\ TableSound /\ CallFits /\ Found(Touched) /\ ~CoversCopy
      /\ call.op \in {"get", "put"} /\ call.at < call.to /\ call # NoCall
      /\ UNCHANGED <<life, size, record, saved, call>> /\ UNCHANGED tableVars
      /\ status' = "astray"
  BY DEF CacheInv, GoAstray, Writing, CallFits, NoCall, diskVars
<1>1. UNCHANGED <<chain, prev, newer, len, mem, usedSize, stale, unread>>
  BY <1>0 DEF tableVars
<1>2. TableSound' /\ Cached' = Cached
  BY <1>0, <1>1, UnchangedSound
<1>3. Touched \in Cached /\ call.flob \in Flob
  BY <1>0, CallFields, TouchedFacts, FoundCached DEF TableSound
<1>4. Touched \in stale
  <2> SUFFICES ASSUME Touched \notin stale PROVE FALSE
    OBVIOUS
  <2>1. SlotFits(Touched)
    BY <1>3 DEF CacheInv, SlotsWhole
  <2>2. ASSUME NEW c \in Copied PROVE c % SlotSize < len[Touched]
    <3>1. /\ call.at \in Nat /\ NextPosition \in Nat /\ NextPosition <= call.to
          /\ call.to \in Nat /\ call.to <= size[call.flob] /\ size[call.flob] \in Nat
      BY <1>0, <1>3, CallFields, TouchedFacts, PositionFacts, SizeType
    <3>2. c \in Nat /\ call.at <= c /\ c < NextPosition /\ c < size[call.flob]
      BY <3>1 DEF Copied
    <3>3. Touched = <<call.flob, SlotOf(c)>>
      BY <1>0, <3>2, PositionFacts DEF Touched
    <3> QED
      BY <1>0, <1>3, <2>1, <3>2, <3>3, FitsCovers
  <2> QED
    BY <1>0, <2>2 DEF CoversCopy
<1>5. TypeOK'
  BY <1>0, <1>1, <1>2 DEF TypeOK
<1>6. AstrayStale'
  BY <1>0, <1>1, <1>4 DEF AstrayStale, Touched
<1> QED
  BY <1>0, <1>1, <1>2, <1>5, <1>6 DEF CacheInv, CallFits, NoStrangers, SlotsWhole, SlotFits

LEMMA ReduceStep ==
    ASSUME CacheInv, Reduce
    PROVE  CacheInv'
<1>1. PICK e \in Entry : IsLast(e) /\ RemoveEntry(e)
  BY DEF Reduce
<1>2. e \in Cached
  BY <1>1 DEF IsLast
<1>3. /\ TableSound' /\ usedSize' \in Nat /\ Cached' = Cached \ {e}
      /\ len' \in [Entry -> 0..SlotSize] /\ \A x \in Cached' : len'[x] = len[x]
      /\ mem' \in [Flob -> [Cell -> Byte]] /\ newer' \subseteq Entry \X Entry
      /\ prev' \in [Entry -> Entry \cup {None}]
      /\ stale' \subseteq Cached' /\ unread' \subseteq Cached'
      /\ Cached' \ stale' \subseteq Cached \ stale
      /\ \A i \in 0..(TableSize - 1) : \A k \in 1..Len(chain'[i]) : chain'[i][k] \in Entry
  BY <1>1, <1>2, RemoveStep
<1>4. UNCHANGED <<life, size, record, saved, call>> /\ status' \in {"running", "dangling", "assertion"}
  BY DEF Reduce, diskVars
<1>5. TypeOK'
  BY <1>3, <1>4 DEF CacheInv, TypeOK
<1>6. CallFits' /\ NoStrangers' /\ SlotsWhole' /\ AstrayStale'
  BY <1>3, <1>4 DEF CacheInv, CallFits, NoStrangers, SlotsWhole, SlotFits, AstrayStale
<1> QED
  BY <1>3, <1>5, <1>6 DEF CacheInv

LEMMA ResizeStep ==
    ASSUME CacheInv, NEW f \in Flob, NEW n \in 0..MaxCells, Resize(f, n)
    PROVE  CacheInv'
<1> DEFINE e == LastSlot(f, n)
<1>0. /\ TypeOK /\ TableSound /\ call = NoCall /\ call' = NoCall /\ UNCHANGED <<life, saved>>
      /\ status = "running" /\ e = <<f, SlotOf(size[f])>> /\ e[1] = f /\ e[2] = SlotOf(size[f])
  BY DEF CacheInv, Resize, Idle, Ready, LastSlot
<1>1. /\ size' = [size EXCEPT ![f] = n] /\ size' \in [Flob -> 0..MaxCells]
      /\ record' \in [Flob -> [Cell -> Byte]]
  BY <1>0 DEF Resize, TypeOK, Byte
<1>2. /\ TableSound' /\ usedSize' \in Nat /\ Cached' = Cached \ {e}
      /\ len' \in [Entry -> 0..SlotSize] /\ \A x \in Cached' : len'[x] = len[x]
      /\ mem' \in [Flob -> [Cell -> Byte]] /\ newer' \subseteq Entry \X Entry
      /\ prev' \in [Entry -> Entry \cup {None}]
      /\ stale' \subseteq Cached' /\ unread' \subseteq Cached'
      /\ Cached' \ stale' \subseteq Cached \ stale
      /\ status' \in {"running", "null", "dangling"}
      /\ \A i \in 0..(TableSize - 1) : \A k \in 1..Len(chain'[i]) : chain'[i][k] \in Entry
  <2>1. CASE e \in Entry /\ Found(e)
    <3>1. e \in Cached /\ KillSlot(e)
      BY <1>0, <2>1, FoundCached DEF TableSound, Resize
    <3> HIDE DEF e
    <3>2. RemoveEntry(e) /\ status' \in {"running", "null", "dangling"}
      BY <1>0, <3>1 DEF KillSlot
    <3> QED
      BY <3>1, <3>2, RemoveStep
  <2>2. CASE ~(e \in Entry /\ Found(e))
    <3>1. e \notin Cached
      BY <1>0, <2>2, FoundCached DEF TableSound, Cached
    <3>2. UNCHANGED <<chain, prev, newer, len, mem, usedSize, stale, unread, status>>
      BY <2>2 DEF Resize, tableVars
    <3> HIDE DEF e
    <3>3. TableSound' /\ Cached' = Cached
      BY <1>0, <3>2, UnchangedSound
    <3> QED
      BY <1>0, <3>1, <3>2, <3>3 DEF TypeOK
  <2> QED
    BY <2>1, <2>2
<1> HIDE DEF e
<1>3. TypeOK'
  BY <1>0, <1>1, <1>2 DEF TypeOK
<1>4. CallFits' /\ NoStrangers' /\ AstrayStale'
  BY <1>0, <1>2 DEF CacheInv, CallFits, NoStrangers, AstrayStale
<1>5. SlotsWhole'
  <2> SUFFICES ASSUME NEW x \in Cached', x \notin stale' PROVE SlotFits(x)'
    BY DEF SlotsWhole
  <2>1. x \in Cached /\ x # e /\ len'[x] = len[x] /\ x \in Entry /\ SlotFits(x)
    BY <1>0, <1>2 DEF CacheInv, SlotsWhole, Cached
  <2>2. CASE x[1] = f
    <3>1. x[2] # SlotOf(size[f])
      BY <1>0, <2>1, <2>2, EntryParts
    <3> QED
      BY <2>1, <2>2, <3>1 DEF SlotFits
  <2>3. CASE x[1] # f
    BY <1>0, <1>1, <2>1, <2>3, EntryParts DEF SlotFits, TypeOK
  <2> QED
    BY <2>2, <2>3
<1> QED
  BY <1>2, <1>3, <1>4, <1>5 DEF CacheInv

(* The cache is cleared and the disk becomes what d says.                   *)
LEMMA ClearStep ==
    ASSUME CacheInv, ClearCaches, NEW d \in Disk, SetDisk(d), saved' \in Disk,
           call' = NoCall, status' = "running"
    PROVE  CacheInv'
<1>0. /\ chain' = [i \in 0..(TableSize - 1) |-> <<>>] /\ newer' = {}
      /\ len' = [e \in Entry |-> 0] /\ usedSize' = 0
  BY DEF ClearCaches
<1>1. Emptied'
  BY <1>0 DEF Emptied
<1>2. TableSound' /\ Cached' = {}
  <2>1. (TableSound /\ Cached = {})'
    BY <1>1, EmptiedSound, PTL
  <2> QED
    BY <2>1
<1>3. /\ prev' = [e \in Entry |-> None] /\ mem' = [f \in Flob |-> Blank]
      /\ stale' = {} /\ unread' = {}
  BY DEF ClearCaches
<1>4. Blank \in [Cell -> Byte]
  BY DEF Blank, Byte
<1>5. /\ life' \in [Flob -> Life] /\ size' \in [Flob -> 0..MaxCells]
      /\ record' \in [Flob -> [Cell -> Byte]]
  BY DEF SetDisk, Disk
<1>6. TypeOK'
  <2>1. \A i \in 0..(TableSize - 1) : \A k \in 1..Len(chain'[i]) : chain'[i][k] \in Entry
    BY <1>2 DEF TableSound, ChainsSound, Cached
  <2>2. 0 \in 0..SlotSize
    BY Constants
  <2> QED
    BY <1>1, <1>3, <1>4, <1>5, <2>1, <2>2 DEF Emptied, TypeOK, Call
<1> QED
  BY <1>2, <1>6 DEF CacheInv, CallFits, NoStrangers, SlotsWhole, AstrayStale

LEMMA CloseDatabaseStep ==
    ASSUME CacheInv, CloseDatabase
    PROVE  CacheInv'
<1>1. EmptyDisk \in Disk
  <2>1. 0 \in 0..MaxCells
    BY Constants
  <2> QED
    BY <2>1 DEF EmptyDisk, Disk, Life, Blank, Byte
<1>2. /\ ClearCaches /\ SetDisk(EmptyDisk) /\ saved' = EmptyDisk
      /\ call' = NoCall /\ status' = "running"
  BY DEF CloseDatabase, Idle, Ready
<1> QED
  BY <1>1, <1>2, ClearStep

LEMMA CrashStep ==
    ASSUME CacheInv, Crash
    PROVE  CacheInv'
<1>1. saved \in Disk
  BY DEF CacheInv, TypeOK
<1>2. ClearCaches /\ SetDisk(saved) /\ saved' = saved /\ call' = NoCall /\ status' = "running"
  BY DEF Crash
<1> QED
  BY <1>1, <1>2, ClearStep

LEMMA CacheStep ==
    ASSUME CacheInv, [Next]_vars
    PROVE  CacheInv'
<1>1. ASSUME NEW f \in Flob, NEW from \in Cell, NEW to \in 1..MaxCells,
             GetData(f, from, to) \/ \E v \in Value : PutData(f, from, to, v)
      PROVE  CacheInv'
  BY <1>1, CallSteps
<1>2. ASSUME NEW f \in Flob, NEW n \in 0..MaxCells,
             Resize(f, n) \/ \E v \in Value : SaveTo(f, n, v)
      PROVE  CacheInv'
  BY <1>2, ResizeStep, SaveToStep
<1>3. ASSUME NEW f \in Flob, Destroy(f) PROVE CacheInv'
  BY <1>3, DestroyStep
<1>4. ASSUME \/ GetMiss \/ GetHit \/ PutMiss \/ PutHit \/ WriteThrough \/ GoAstray \/ Reduce
             \/ Commit \/ Abort \/ Crash \/ CloseDatabase
      PROVE  CacheInv'
  BY <1>4, GetMissStep, GetHitStep, PutMissStep, PutHitStep, WriteThroughStep, GoAstrayStep,
     ReduceStep, CommitStep, AbortStep, CrashStep, CloseDatabaseStep
<1>5. ASSUME UNCHANGED vars PROVE CacheInv'
  BY <1>5, UnchangedSound
  DEF vars, CacheInv, TypeOK, CallFits, NoStrangers, SlotsWhole, SlotFits, AstrayStale, Touched
<1> QED
  BY <1>1, <1>2, <1>3, <1>4, <1>5 DEF Next

LEMMA CacheAlways == Spec => []CacheInv
<1>1. CacheInv /\ [Next]_vars => CacheInv'
  BY CacheStep
<1> QED
  BY CacheInit, <1>1, PTL DEF Spec

(* Every value keeps its type; the calls stay inside of their Flobs.        *)
THEOREM TypeCorrect == Spec => []TypeOK
<1>1. CacheInv => TypeOK
  BY DEF CacheInv
<1> QED
  BY <1>1, CacheAlways, PTL

(* reduce finds a victim that is not the entry just brought in, whatever    *)
(* the sizes of the cache and its slots: a cache that is too large has two  *)
(* entries at least, the list orders them, and it has an end.               *)
THEOREM AlwaysVictim == Spec => []ReduceSparesNewest
<1>1. ASSUME CacheInv, usedSize > MaxSize
      PROVE  \E e \in Cached : IsLast(e) /\ \E x \in Cached : <<x, e>> \in newer
  <2>0. TypeOK /\ Account /\ ListEnds /\ ListOrders
    BY <1>1 DEF CacheInv, TableSound
  <2>1. Cached # {}
    <3> SUFFICES ASSUME Cached = {} PROVE FALSE
      OBVIOUS
    <3>1. Bytes = {}
      <4>1. ASSUME NEW p \in Entry \X Nat, p[2] < len[p[1]] PROVE FALSE
        BY <2>0, <4>1, CachedParts, SMT
      <4> QED
        BY <4>1 DEF Bytes
    <3>2. usedSize = 0
      BY <2>0, <3>1, FS_EmptySet DEF Account
    <3> QED
      BY <1>1, <3>2, Constants
  <2>2. PICK e \in Cached : IsLast(e)
    BY <2>0, <2>1, LastEntry
  <2>3. PICK x \in Cached : x # e
    <3>1. e \in Entry
      BY <2>2 DEF Cached
    <3> QED
      BY <1>1, <2>0, <3>1, TooLarge
  <2>4. <<x, e>> \in newer
    <3>1. (<<x, e>> \in newer) # (<<e, x>> \in newer)
      BY <2>0, <2>3 DEF ListOrders
    <3>2. <<e, x>> \notin newer
      BY <2>2 DEF IsLast
    <3> QED
      BY <3>1, <3>2
  <2> QED
    BY <2>2, <2>3, <2>4
<1>2. CacheInv => ReduceSparesNewest
  BY <1>1 DEF ReduceSparesNewest
<1> QED
  BY <1>2, CacheAlways, PTL

(* What getData and putData copy is inside of the memory of the entry, but  *)
(* for the slots of Flobs whose changes were rolled back.                   *)
THEOREM CopiesInside == Spec => []SlotsCoverFlob
<1>1. ASSUME CacheInv, NEW f \in Flob, life[f] = "live", NEW c \in 0..(size[f] - 1),
             <<f, SlotOf(c)>> \in Cached \ stale
      PROVE  c % SlotSize < len[<<f, SlotOf(c)>>]
  <2>1. TypeOK /\ SlotFits(<<f, SlotOf(c)>>)
    BY <1>1 DEF CacheInv, SlotsWhole
  <2>2. c \in Nat /\ c < size[f]
    <3>1. size[f] \in Nat
      BY <2>1, SizeType
    <3> QED
      BY <3>1
  <2> QED
    BY <2>1, <2>2, FitsCovers
<1>2. CacheInv => SlotsCoverFlob
  BY <1>1 DEF SlotsCoverFlob, CacheInv, AstrayStale
<1> QED
  BY <1>2, CacheAlways, PTL

-----------------------------------------------------------------------------
(* The links of the chains.                                                 *)

(* Every entry knows the one before it in its chain.                        *)
LinksSound ==
    /\ status \in {"running", "astray"}
    /\ \A e \in Entry : e \notin Cached => prev[e] = None
    /\ \A i \in 0..(TableSize - 1) : \A k \in 1..Len(chain[i]) :
          prev[chain[i][k]] = IF k = 1 THEN None ELSE chain[i][k - 1]

(* A chain without e stays as it is.                                        *)
LEMMA OtherChains ==
    ASSUME TypeOK, ChainsSound, LinksSound, NEW e \in Entry,
           NEW i \in 0..(TableSize - 1), i # Index(e), chain'[i] = chain[i],
           \A x \in Entry : x # e /\ Index(x) # Index(e) => prev'[x] = prev[x],
           NEW k \in 1..Len(chain'[i])
    PROVE  prev'[chain'[i][k]] = IF k = 1 THEN None ELSE chain'[i][k - 1]
<1>1. k \in 1..Len(chain[i])
  OBVIOUS
<1>2. chain[i][k] \in Entry /\ Index(chain[i][k]) = i
  BY <1>1 DEF ChainsSound, Cached
<1>3. prev'[chain[i][k]] = prev[chain[i][k]]
  BY <1>2
<1> QED
  BY <1>1, <1>3 DEF LinksSound

LEMMA LinksInsert ==
    ASSUME TypeOK, ChainsSound, LinksSound, NEW e \in Entry, e \notin Cached,
           chain' = [chain EXCEPT ![Index(e)] = Append(@, e)], Cached' = Cached \cup {e},
           prev' = [prev EXCEPT ![e] = Predecessor(chain[Index(e)])], status' = status
    PROVE  LinksSound'
<1> DEFINE c == chain[Index(e)]
           d == Append(c, e)
           h == Index(e)
<1>1. h \in 0..(TableSize - 1) /\ c \in Seq(Entry)
  BY EntryParts DEF ChainsSound
<1>2. /\ Len(c) \in Nat /\ Len(d) = Len(c) + 1
      /\ \A k \in 1..Len(c) : d[k] = c[k]
      /\ d[Len(c) + 1] = e
      /\ c = <<>> <=> Len(c) = 0
  BY <1>1, AppendProperties, LenProperties, EmptySeq
<1>3. /\ chain'[h] = d
      /\ \A i \in 0..(TableSize - 1) : i # h => chain'[i] = chain[i]
  BY <1>1 DEF ChainsSound
<1>4. \A x \in Entry : prev'[x] = IF x = e THEN (IF c = <<>> THEN None ELSE c[Len(c)]) ELSE prev[x]
  BY DEF TypeOK, Predecessor
<1>5. \A k \in 1..Len(c) : /\ c[k] \in Entry /\ c[k] # e
                           /\ prev[c[k]] = IF k = 1 THEN None ELSE c[k - 1]
  BY <1>1 DEF ChainsSound, LinksSound, Cached
<1>6. ASSUME NEW i \in 0..(TableSize - 1), NEW k \in 1..Len(chain'[i])
      PROVE  prev'[chain'[i][k]] = IF k = 1 THEN None ELSE chain'[i][k - 1]
  <2>1. CASE i # h
    BY <1>3, <1>4, <2>1, OtherChains
  <2>2. CASE i = h
    <3>1. chain'[i] = d /\ k \in 1..(Len(c) + 1)
      BY <1>2, <1>3, <2>2
    <3> HIDE DEF c, d, h
    <3>2. CASE k = Len(c) + 1
      <4>1. prev'[d[k]] = IF c = <<>> THEN None ELSE c[Len(c)]
        BY <1>2, <1>4, <3>2
      <4>2. k # 1 => k - 1 \in 1..Len(c) /\ k - 1 = Len(c)
        BY <1>2, <3>2
      <4> QED
        BY <1>2, <3>1, <3>2, <4>1, <4>2
    <3>3. CASE k \in 1..Len(c)
      <4>1. prev'[d[k]] = IF k = 1 THEN None ELSE c[k - 1]
        BY <1>2, <1>4, <1>5, <3>3
      <4>2. k # 1 => k - 1 \in 1..Len(c)
        BY <1>2, <3>3
      <4> QED
        BY <1>2, <3>1, <4>1, <4>2
    <3> QED
      BY <1>2, <3>1, <3>2, <3>3
  <2> QED
    BY <2>1, <2>2
<1>7. \A x \in Entry : x \notin Cached' => prev'[x] = None
  BY <1>4 DEF LinksSound
<1> QED
  BY <1>6, <1>7 DEF LinksSound

(* So an entry is its own predecessor never, and has one unless it is the   *)
(* first one.                                                               *)
LEMMA LinksKnown ==
    ASSUME ChainsSound, LinksSound, NEW e \in Cached
    PROVE  /\ Position(e) \in 1..Len(chain[Index(e)]) /\ chain[Index(e)][Position(e)] = e
           /\ prev[e] # e
           /\ prev[e] = None <=> Position(e) = 1
<1> DEFINE c == chain[Index(e)]
           k == Position(e)
<1>0. e \in Entry /\ Index(e) \in 0..(TableSize - 1) /\ c \in Seq(Entry)
  BY EntryParts DEF Cached, ChainsSound
<1>1. k \in 1..Len(c) /\ c[k] = e
  BY DEF ChainsSound, Found, Position
<1>2. prev[e] = IF k = 1 THEN None ELSE c[k - 1]
  BY <1>0, <1>1 DEF LinksSound
<1> HIDE DEF k
<1>3. k # 1 => k - 1 \in 1..Len(c) /\ k - 1 \in 1..(k - 1)
  BY <1>0, <1>1, LenProperties
<1>4. k # 1 => c[k - 1] # e /\ c[k - 1] \in Entry
  BY <1>0, <1>1, <1>3 DEF ChainsSound, Cached
<1>5. prev[e] # e /\ (prev[e] = None <=> k = 1)
  BY <1>0, <1>2, <1>4, Constants
<1> QED
  BY <1>1, <1>5 DEF k

LEMMA LinksRemove ==
    ASSUME TypeOK, ChainsSound, LinksSound, NEW e \in Cached, RemoveEntry(e),
           Cached' = Cached \ {e}, status' = status
    PROVE  LinksSound'
<1> DEFINE h == Index(e)
           c == chain[h]
           k == Position(e)
           d == Cut(c, k)
<1>0. e \in Entry /\ h \in 0..(TableSize - 1) /\ c \in Seq(Entry)
  BY EntryParts DEF Cached, ChainsSound
<1>1. k \in 1..Len(c) /\ c[k] = e /\ (k = 1 => prev[e] = None)
  BY LinksKnown
<1>2. /\ chain' = [chain EXCEPT ![h] = Cut(@, k)]
      /\ prev' = [x \in Entry |-> IF x = e THEN None
                                  ELSE IF k < Len(c) /\ x = c[k + 1] THEN prev[e] ELSE prev[x]]
  BY <1>1 DEF RemoveEntry, Cut
<1> HIDE DEF k
<1>3. /\ Len(c) \in Nat /\ Len(d) = Len(c) - 1
      /\ \A j \in 1..(Len(c) - 1) : d[j] = IF j < k THEN c[j] ELSE c[j + 1]
  BY <1>0, <1>1, CutFacts
<1>4. /\ chain'[h] = d
      /\ \A i \in 0..(TableSize - 1) : i # h => chain'[i] = chain[i]
  BY <1>0, <1>2 DEF ChainsSound
<1>5. \A j \in 1..Len(c) : /\ c[j] \in Entry /\ Index(c[j]) = h
                           /\ prev[c[j]] = IF j = 1 THEN None ELSE c[j - 1]
                           /\ \A i \in 1..(j - 1) : c[i] # c[j]
  BY <1>0 DEF ChainsSound, LinksSound, Cached
<1>6. prev[e] = IF k = 1 THEN None ELSE c[k - 1]
  BY <1>1, <1>5
<1>7. \A x \in Entry : x \notin Cached' => prev'[x] = None
  <2> SUFFICES ASSUME NEW x \in Entry, x \notin Cached' PROVE prev'[x] = None
    OBVIOUS
  <2>1. CASE x = e
    BY <1>2, <2>1
  <2>2. CASE x # e
    <3>1. x \notin Cached /\ prev[x] = None
      BY <2>2 DEF LinksSound
    <3>2. k < Len(c) => k + 1 \in 1..Len(c)
      BY <1>1, <1>3
    <3>3. ~(k < Len(c) /\ x = c[k + 1])
      BY <1>0, <3>1, <3>2 DEF ChainsSound
    <3> QED
      BY <1>2, <2>2, <3>1, <3>3
  <2> QED
    BY <2>1, <2>2
<1>8. ASSUME NEW i \in 0..(TableSize - 1), NEW j \in 1..Len(chain'[i])
      PROVE  prev'[chain'[i][j]] = IF j = 1 THEN None ELSE chain'[i][j - 1]
  <2>1. CASE i # h
    <3>1. \A x \in Entry : x # e /\ Index(x) # Index(e) => prev'[x] = prev[x]
      <4> SUFFICES ASSUME NEW x \in Entry, x # e, Index(x) # h PROVE prev'[x] = prev[x]
        OBVIOUS
      <4>1. k < Len(c) => k + 1 \in 1..Len(c)
        BY <1>1, <1>3
      <4>2. ~(k < Len(c) /\ x = c[k + 1])
        BY <1>5, <4>1
      <4> QED
        BY <1>2, <4>2
    <3> QED
      BY <1>0, <1>4, <2>1, <3>1, OtherChains
  <2>2. CASE i = h
    <3>1. chain'[i] = d /\ j \in 1..(Len(c) - 1)
      BY <1>3, <1>4, <2>2
    <3> HIDE DEF c, d, h
    <3>2. CASE j < k
      <4>1. j \in 1..Len(c) /\ j \in 1..(k - 1) /\ d[j] = c[j]
        BY <1>1, <1>3, <3>1, <3>2
      <4>2. c[j] # e
        BY <1>1, <1>5, <4>1
      <4>3. ~(k < Len(c) /\ c[j] = c[k + 1])
        <5> SUFFICES ASSUME k < Len(c) PROVE c[j] # c[k + 1]
          OBVIOUS
        <5>1. k + 1 \in 1..Len(c) /\ j \in 1..((k + 1) - 1)
          BY <1>1, <1>3, <4>1
        <5> QED
          BY <1>5, <5>1
      <4>4. prev'[d[j]] = IF j = 1 THEN None ELSE c[j - 1]
        <5>1. c[j] \in Entry /\ prev[c[j]] = IF j = 1 THEN None ELSE c[j - 1]
          BY <1>5, <4>1
        <5>2. prev'[c[j]] = prev[c[j]]
          BY <1>2, <4>2, <4>3, <5>1
        <5> QED
          BY <4>1, <5>1, <5>2
      <4>5. j # 1 => j - 1 \in 1..(Len(c) - 1) /\ j - 1 < k
        BY <1>1, <1>3, <3>1, <3>2
      <4> QED
        BY <1>3, <3>1, <4>4, <4>5
    <3>3. CASE j = k
      <4>1. k < Len(c) /\ k + 1 \in 1..Len(c) /\ k \in 1..((k + 1) - 1) /\ d[j] = c[k + 1]
        BY <1>1, <1>3, <3>1, <3>3
      <4>2. c[k + 1] # e /\ c[k + 1] \in Entry
        BY <1>1, <1>5, <4>1
      <4>3. prev'[d[j]] = prev[e]
        BY <1>2, <4>1, <4>2
      <4>4. k # 1 => k - 1 \in 1..(Len(c) - 1) /\ k - 1 < k
        BY <1>1, <1>3, <4>1
      <4> QED
        BY <1>3, <1>6, <3>1, <3>3, <4>3, <4>4
    <3>4. CASE k < j
      <4>1. /\ j + 1 \in 1..Len(c) /\ k \in 1..((j + 1) - 1) /\ d[j] = c[j + 1]
            /\ k + 1 \in 1..((j + 1) - 1) /\ j - 1 \in 1..(Len(c) - 1) /\ ~(j - 1 < k)
            /\ (j - 1) + 1 = j /\ j # 1 /\ j + 1 # 1 /\ (j + 1) - 1 = j
        BY <1>1, <1>3, <3>1, <3>4
      <4>2. c[j + 1] # e /\ c[j + 1] \in Entry /\ c[j + 1] # c[k + 1] /\ prev[c[j + 1]] = c[j]
        BY <1>1, <1>5, <4>1
      <4>3. prev'[d[j]] = c[j]
        BY <1>2, <4>1, <4>2
      <4>4. d[j - 1] = c[j]
        BY <1>3, <4>1
      <4> QED
        BY <3>1, <4>1, <4>3, <4>4
    <3> QED
      BY <1>1, <1>3, <3>1, <3>2, <3>3, <3>4
  <2> QED
    BY <2>1, <2>2
<1> QED
  BY <1>7, <1>8 DEF LinksSound

LEMMA LinksUnchanged ==
    ASSUME LinksSound, UNCHANGED <<chain, prev, len>>, status' \in {status, "astray"}
    PROVE  LinksSound'
<1>1. Cached' = Cached
  BY DEF Cached
<1> QED
  BY <1>1 DEF LinksSound

LEMMA LinksInit == Init => LinksSound
<1> SUFFICES ASSUME Init PROVE LinksSound
  OBVIOUS
<1>1. \A i \in 0..(TableSize - 1) : chain[i] = <<>> /\ 1..Len(chain[i]) = {}
  BY DEF Init
<1>2. \A e \in Entry : prev[e] = None
  BY DEF Init
<1>3. status = "running"
  BY DEF Init
<1> QED
  BY <1>1, <1>2, <1>3 DEF LinksSound

LEMMA LinksEmptied ==
    ASSUME ClearCaches, status' = "running"
    PROVE  LinksSound'
<1>1. \A i \in 0..(TableSize - 1) : chain'[i] = <<>> /\ 1..Len(chain'[i]) = {}
  BY DEF ClearCaches
<1>2. \A e \in Entry : prev'[e] = None
  BY DEF ClearCaches
<1> QED
  BY <1>1, <1>2 DEF LinksSound

LEMMA LinksStep ==
    ASSUME WritersApart, CacheInv, LinksSound, [Next]_vars
    PROVE  LinksSound'
<1>0. TypeOK /\ TableSound /\ ChainsSound /\ CallFits
  BY DEF CacheInv, TableSound
<1>1. ASSUME NEW f \in Flob, NEW from \in Cell, NEW to \in 1..MaxCells,
             GetData(f, from, to) \/ \E v \in Value : PutData(f, from, to, v)
      PROVE  LinksSound'
  BY <1>1, LinksUnchanged DEF GetData, PutData, tableVars
<1>2. ASSUME NEW f \in Flob, NEW n \in 0..MaxCells, NEW v \in Value, SaveTo(f, n, v)
      PROVE  LinksSound'
  BY <1>2, LinksUnchanged DEF SaveTo, tableVars
<1>3. ASSUME NEW f \in Flob, NEW n \in 0..MaxCells, Resize(f, n)
      PROVE  LinksSound'
  <2> DEFINE e == LastSlot(f, n)
  <2>1. CASE e \in Entry /\ Found(e)
    <3>1. e \in Cached /\ KillSlot(e)
      BY <1>0, <1>3, <2>1, FoundCached DEF Resize
    <3> HIDE DEF e
    <3>2. RemoveEntry(e) /\ status' = status
      BY <1>0, <3>1, LinksKnown DEF KillSlot
    <3>3. Cached' = Cached \ {e}
      BY <1>0, <3>1, <3>2, RemoveSound
    <3> QED
      BY <1>0, <3>1, <3>2, <3>3, LinksRemove
  <2>2. CASE ~(e \in Entry /\ Found(e))
    BY <1>3, <2>2, LinksUnchanged DEF Resize, tableVars
  <2> QED
    BY <2>1, <2>2
<1>4. ASSUME NEW f \in Flob, Destroy(f) PROVE LinksSound'
  BY <1>4, LinksUnchanged DEF Destroy, tableVars
<1>5. ASSUME GetMiss PROVE LinksSound'
  <2> DEFINE e == Touched
  <2>0. call.op = "get" /\ call # NoCall
    BY <1>5 DEF GetMiss, NoCall
  <2>1. e \in Entry /\ ~Found(e) /\ SizeOf(e) \in 1..SlotSize
    BY <1>0, <1>5, <2>0, TouchedFacts, TouchedSize DEF GetMiss, CallFits
  <2>2. /\ InsertEntry(e, record[call.flob]) /\ status' = status
        /\ prev' = [prev EXCEPT ![e] = Predecessor(chain[Index(e)])]
    BY <1>5 DEF GetMiss
  <2> HIDE DEF e
  <2>3. Cached' = Cached \cup {e} /\ e \notin Cached
    BY <1>0, <2>1, <2>2, InsertSound, FoundCached
  <2> QED
    BY <1>0, <2>1, <2>2, <2>3, LinksInsert DEF InsertEntry
<1>6. ASSUME PutMiss PROVE LinksSound'
  <2> DEFINE e == Touched
             c == chain[Index(e)]
             b == Overwritten(IF ReadsSlot THEN record[call.flob] ELSE Blank)
  <2>0. call.op = "put" /\ call # NoCall /\ call.at < call.to
    BY <1>6 DEF PutMiss, Writing, NoCall
  <2>1. e \in Entry /\ e[1] \in Writable /\ ~Found(e) /\ SizeOf(e) \in 1..SlotSize
    BY <1>0, <1>6, <2>0, TouchedFacts, TouchedSize DEF PutMiss, CallFits
  <2>2. /\ InsertEntry(e, b) /\ status' = status
        /\ prev' = IF c = <<>> THEN prev ELSE [prev EXCEPT ![c[Len(c)]] = c[Len(c)]]
    BY <1>6 DEF PutMiss
  <2> HIDE DEF e, b
  <2>3. Cached' = Cached \cup {e} /\ e \notin Cached
    BY <1>0, <2>1, <2>2, InsertSound, FoundCached
  <2>4. c = <<>>
    <3>1. Index(e) \in 0..(TableSize - 1) /\ c \in Seq(Entry)
      BY <1>0, <2>1, EntryParts DEF ChainsSound
    <3>2. ASSUME NEW k \in 1..Len(c) PROVE FALSE
      <4>1. c[k] \in Cached /\ Index(c[k]) = Index(e)
        BY <1>0, <3>1 DEF ChainsSound
      <4>2. c[k] = e
        BY <2>1, <4>1 DEF WritersApart, Cached
      <4> QED
        BY <2>3, <4>1, <4>2
    <3> HIDE DEF c
    <3> QED
      BY <3>1, <3>2, EmptySeq, LenProperties
  <2>5. prev' = [prev EXCEPT ![e] = Predecessor(c)]
    <3>1. prev[e] = None /\ prev' = prev /\ Predecessor(c) = None
      BY <2>1, <2>2, <2>3, <2>4 DEF LinksSound, Predecessor
    <3> QED
      BY <1>0, <2>1, <3>1 DEF TypeOK
  <2> QED
    BY <1>0, <2>1, <2>2, <2>3, <2>5, LinksInsert DEF InsertEntry
<1>7. ASSUME GetHit \/ PutHit \/ WriteThrough \/ GoAstray \/ Commit \/ Abort PROVE LinksSound'
  BY <1>7, LinksUnchanged DEF GetHit, PutHit, WriteThrough, GoAstray, Commit, Abort, tableVars
<1>8. ASSUME Reduce PROVE LinksSound'
  <2>1. PICK e \in Cached : RemoveEntry(e) /\ status' = status
    <3>1. PICK e \in Cached :
             /\ RemoveEntry(e)
             /\ status' = IF prev[e] = e THEN "dangling"
                          ELSE IF prev[e] = None /\ Position(e) > 1 THEN "assertion" ELSE status
      BY <1>8 DEF Reduce, IsLast
    <3>2. prev[e] # e /\ ~(prev[e] = None /\ Position(e) > 1)
      BY <1>0, LinksKnown
    <3> QED
      BY <3>1, <3>2
  <2>2. Cached' = Cached \ {e}
    BY <1>0, <2>1, RemoveSound
  <2> QED
    BY <1>0, <2>1, <2>2, LinksRemove
<1>9. ASSUME CloseDatabase \/ Crash \/ UNCHANGED vars PROVE LinksSound'
  BY <1>9, LinksEmptied, LinksUnchanged DEF CloseDatabase, Idle, Ready, Crash, vars
<1> QED
  BY <1>1, <1>2, <1>3, <1>4, <1>5, <1>6, <1>7, <1>8, <1>9 DEF Next

LEMMA LinksAlways ==
    ASSUME WritersApart
    PROVE  Spec => [](CacheInv /\ LinksSound)
<1>1. Init => CacheInv /\ LinksSound
  BY CacheInit, LinksInit
<1>2. CacheInv /\ LinksSound /\ [Next]_vars => CacheInv' /\ LinksSound'
  BY CacheStep, LinksStep
<1> QED
  BY <1>1, <1>2, PTL DEF Spec

(* As long as a Flob that is written shares its chains with no other, no    *)
(* assertion of reduce fails, no missing predecessor is followed and no     *)
(* entry is freed that is still in a chain: in a process that only reads,   *)
(* for any hash values.                                                     *)
THEOREM ProcessStaysSound ==
    ASSUME WritersApart
    PROVE  Spec => []ProcessSound
<1>1. LinksSound => ProcessSound
  BY DEF LinksSound, ProcessSound
<1> QED
  BY <1>1, LinksAlways, PTL

(* The table and the list hold the same entries, each once, and the entries *)
(* of a chain are linked as check() expects, under the same condition.      *)
THEOREM TableStaysMatched ==
    ASSUME WritersApart
    PROVE  Spec => []TableMatchesList
<1>1. CacheInv /\ LinksSound => TableMatchesList
  BY DEF CacheInv, LinksSound, TableSound, ChainsSound, ListOrders, TableMatchesList
<1> QED
  BY <1>1, LinksAlways, PTL

-----------------------------------------------------------------------------
(* The cached bytes and the records.                                        *)

(* The slots whose bytes are relied on.                                     *)
Kept == Cached \ (stale \cup unread)

(* What a byte of f is going to be when the running write is on disk, as    *)
(* far as the write has come.                                               *)
Expected(f, c) ==
    IF call.op = "put" /\ call.flob = f /\ c \in call.from..(call.at - 1)
    THEN call.value ELSE record[f][c]

(* Also of the Flobs that are destroyed, as an abort brings them back.      *)
BytesInv ==
    \A f \in Flob : \A c \in 0..(size[f] - 1) :
        (<<f, SlotOf(c)>> \in Kept /\ Expected(f, c) # Unwritten) => mem[f][c] = Expected(f, c)

LEMMA CellInside ==
    ASSUME TypeOK, NEW f \in Flob, NEW c \in 0..(size[f] - 1)
    PROVE  c \in Cell /\ c \in Nat /\ c < size[f] /\ <<f, SlotOf(c)>> \in Entry
<1>1. size[f] \in Nat /\ size[f] <= MaxCells /\ MaxCells \in Nat
  BY SizeType, Constants
<1>2. c \in Cell /\ c < size[f]
  BY <1>1 DEF Cell
<1> QED
  BY <1>2, CellSlot

LEMMA InsertedBytes ==
    ASSUME TypeOK, TableSound, NEW e \in Entry, ~Found(e), SizeOf(e) \in 1..SlotSize,
           NEW b \in [Cell -> Byte], InsertEntry(e, b)
    PROVE  /\ Cached' = Cached \cup {e}
           /\ \A f \in Flob, c \in Cell :
                 mem'[f][c] = IF <<f, SlotOf(c)>> = e THEN b[c] ELSE mem[f][c]
<1>1. e[1] \in Flob /\ e = <<e[1], e[2]>>
  BY EntryParts
<1>2. mem' = [mem EXCEPT ![e[1]] = [c \in Cell |-> IF SlotOf(c) = e[2] THEN b[c] ELSE @[c]]]
  BY DEF InsertEntry
<1>3. ASSUME NEW f \in Flob, NEW c \in Cell
      PROVE  mem'[f][c] = IF <<f, SlotOf(c)>> = e THEN b[c] ELSE mem[f][c]
  <2>1. <<f, SlotOf(c)>> = e <=> f = e[1] /\ SlotOf(c) = e[2]
    BY <1>1
  <2> QED
    BY <1>1, <1>2, <2>1 DEF TypeOK
<1> QED
  BY <1>3, InsertSound

LEMMA KeptBytes ==
    ASSUME TypeOK, TableSound, NEW e \in Cached, RemoveEntry(e)
    PROVE  /\ Kept' = Kept \ {e}
           /\ \A f \in Flob, c \in Cell : <<f, SlotOf(c)>> # e => mem'[f][c] = mem[f][c]
<1>1. e[1] \in Flob /\ e = <<e[1], e[2]>>
  BY EntryParts DEF Cached
<1>2. mem' = [mem EXCEPT ![e[1]] = [c2 \in Cell |-> IF SlotOf(c2) = e[2] THEN Unwritten ELSE @[c2]]]
      /\ stale' = stale \ {e} /\ unread' = unread \ {e}
  BY DEF RemoveEntry
<1>3. ASSUME NEW f \in Flob, NEW c \in Cell, <<f, SlotOf(c)>> # e
      PROVE  mem'[f][c] = mem[f][c]
  <2>1. ~(f = e[1] /\ SlotOf(c) = e[2])
    BY <1>1, <1>3
  <2> QED
    BY <1>1, <1>2, <2>1 DEF TypeOK
<1>4. Cached' = Cached \ {e}
  BY RemoveSound
<1> QED
  BY <1>2, <1>3, <1>4 DEF Kept

(* A step after which no other slots are relied on, whose bytes were not    *)
(* changed, of Flobs that stay as they are.                                 *)
LEMMA BytesKept ==
    ASSUME TypeOK, BytesInv, Kept' \subseteq Kept,
           \A f \in Flob, c \in Cell :
               <<f, SlotOf(c)>> \in Kept' =>
                   /\ size'[f] = size[f] /\ mem'[f][c] = mem[f][c]
                   /\ Expected(f, c)' = Expected(f, c)
    PROVE  BytesInv'
<1> SUFFICES ASSUME NEW f \in Flob, NEW c \in 0..(size'[f] - 1), <<f, SlotOf(c)>> \in Kept',
                    Expected(f, c)' # Unwritten
             PROVE  mem'[f][c] = Expected(f, c)'
  BY DEF BytesInv
<1>1. <<f, SlotOf(c)>> \in Entry /\ SlotOf(c) \in Slot
  BY DEF Kept, Cached, Entry
<1>2. PICK d \in Cell : SlotOf(d) = SlotOf(c)
  BY <1>1 DEF Slot
<1>3. size'[f] = size[f]
  BY <1>2
<1>4. c \in 0..(size[f] - 1) /\ c \in Cell
  BY <1>3, CellInside
<1> QED
  BY <1>4 DEF BytesInv

LEMMA BytesUnchanged ==
    ASSUME TypeOK, BytesInv, UNCHANGED <<size, record, len, mem, call, stale, unread>>
    PROVE  BytesInv'
<1>1. Kept' = Kept
  BY DEF Kept, Cached
<1> QED
  BY <1>1 DEF BytesInv, Expected

LEMMA BytesCall ==
    ASSUME CacheInv, BytesInv,
           NEW f \in Flob, NEW from \in Cell, NEW to \in 1..MaxCells,
           GetData(f, from, to) \/ \E v \in Value : PutData(f, from, to, v)
    PROVE  BytesInv'
<1>1. /\ UNCHANGED <<size, record, len, mem, stale, unread>> /\ call = NoCall
      /\ call'.from = from /\ call'.at = from
  <2>1. CASE GetData(f, from, to)
    BY <2>1 DEF GetData, Idle, diskVars, tableVars
  <2>2. CASE \E v \in Value : PutData(f, from, to, v)
    BY <2>2 DEF PutData, Idle, diskVars, tableVars
  <2> QED
    BY <2>1, <2>2
<1>2. Kept' = Kept
  BY <1>1 DEF Kept, Cached
<1>3. from..(from - 1) = {}
  <2>1. from \in Nat
    BY CellSlot DEF Cell
  <2> QED
    BY <2>1
<1>4. ASSUME NEW g, NEW c PROVE Expected(g, c)' = Expected(g, c)
  BY <1>1, <1>3 DEF Expected, NoCall
<1> QED
  BY <1>1, <1>2, <1>4 DEF BytesInv

LEMMA BytesGetMiss ==
    ASSUME CacheInv, BytesInv, GetMiss
    PROVE  BytesInv'
<1> DEFINE e == Touched
<1>0. TypeOK /\ CallFits /\ TableSound /\ call.op = "get" /\ call # NoCall /\ ~Found(e)
  BY DEF CacheInv, GetMiss, NoCall
<1>1. e \in Entry /\ SizeOf(e) \in 1..SlotSize /\ call.flob \in Flob /\ e[1] = call.flob
  BY <1>0, CallFields, TouchedFacts, TouchedSize DEF CallFits
<1>2. record[call.flob] \in [Cell -> Byte] /\ InsertEntry(e, record[call.flob])
  BY <1>0, <1>1 DEF TypeOK, GetMiss
<1>3. UNCHANGED <<size, record, call, stale, unread>>
  BY DEF GetMiss, diskVars
<1> HIDE DEF e
<1>4. /\ Cached' = Cached \cup {e}
      /\ \A f \in Flob, c \in Cell :
            mem'[f][c] = IF <<f, SlotOf(c)>> = e THEN record[call.flob][c] ELSE mem[f][c]
  BY <1>0, <1>1, <1>2, InsertedBytes
<1> SUFFICES ASSUME NEW f \in Flob, NEW c \in 0..(size[f] - 1), <<f, SlotOf(c)>> \in Kept',
                    record[f][c] # Unwritten
             PROVE  mem'[f][c] = record[f][c]
  BY <1>0, <1>3 DEF BytesInv, Expected
<1>5. c \in Cell
  BY <1>0, CellInside
<1>6. CASE <<f, SlotOf(c)>> = e
  <2>1. f = call.flob
    BY <1>1, <1>6
  <2> QED
    BY <1>4, <1>5, <1>6, <2>1
<1>7. CASE <<f, SlotOf(c)>> # e
  <2>1. <<f, SlotOf(c)>> \in Kept
    BY <1>3, <1>4, <1>7 DEF Kept
  <2> QED
    BY <1>0, <1>4, <1>5, <1>7, <2>1 DEF BytesInv, Expected
<1> QED
  BY <1>6, <1>7

LEMMA BytesGetHit ==
    ASSUME CacheInv, BytesInv, GetHit
    PROVE  BytesInv'
<1>1. call.op = "get" /\ call'.op # "put"
  BY DEF GetHit, NoCall, CacheInv, TypeOK, Call
<1>2. UNCHANGED <<size, record, mem>> /\ Kept' = Kept
  BY DEF GetHit, diskVars, Kept, Cached
<1>3. ASSUME NEW g, NEW c PROVE Expected(g, c)' = Expected(g, c)
  BY <1>1, <1>2 DEF Expected
<1> QED
  BY <1>2, <1>3 DEF BytesInv

(* What a write expects after its next copy.                                *)
LEMMA ExpectedNext ==
    ASSUME TypeOK, CallFits, call.op = "put", call.at < call.to, UNCHANGED record,
           call' = [call EXCEPT !.at = NextPosition], NEW f \in Flob, NEW c \in Nat
    PROVE  /\ Expected(f, c)' = IF f = call.flob /\ c \in Copied THEN call.value ELSE Expected(f, c)
           /\ c \in Copied <=> (call.at <= c /\ c < NextPosition)
           /\ c \in Copied => SlotOf(c) = SlotOf(call.at)
<1>1. /\ call \in [op : {"get", "put"}, flob : Flob, from : Cell, to : 1..MaxCells,
                   at : 0..MaxCells, value : Byte]
      /\ call # NoCall /\ call.from \in Nat
  BY CallFields, CellSlot
<1>2. call.at \in Nat /\ NextPosition \in Nat /\ call.at < NextPosition /\ call.from <= call.at
  BY <1>1, TouchedFacts, PositionFacts DEF CallFits
<1>3. /\ call'.op = "put" /\ call'.flob = call.flob /\ call'.from = call.from
      /\ call'.at = NextPosition /\ call'.value = call.value
  BY <1>1
<1>4. c \in Copied <=> (call.at <= c /\ c < NextPosition)
  BY <1>2 DEF Copied
<1>5. c \in call.from..(NextPosition - 1) <=> (c \in call.from..(call.at - 1) \/ c \in Copied)
  BY <1>1, <1>2, <1>4
<1>6. Expected(f, c)' = IF f = call.flob /\ c \in Copied THEN call.value ELSE Expected(f, c)
  BY <1>3, <1>5 DEF Expected
<1> QED
  BY <1>4, <1>6, PositionFacts

(* In a slot that is brought in, a write relies on what it copies, and on   *)
(* the rest when that was read.                                             *)
LEMMA BytesPutMiss ==
    ASSUME CacheInv, BytesInv, PutMiss
    PROVE  BytesInv'
<1> DEFINE e == Touched
           b == Overwritten(IF ReadsSlot THEN record[call.flob] ELSE Blank)
<1>0. /\ TypeOK /\ CallFits /\ TableSound /\ call.op = "put" /\ call.at < call.to /\ ~Found(e)
  BY DEF CacheInv, PutMiss, Writing
<1>1. /\ e \in Entry /\ SizeOf(e) \in 1..SlotSize /\ call.flob \in Flob /\ call.at \in Nat
      /\ e = <<call.flob, SlotOf(call.at)>>
  BY <1>0, CallFields, TouchedFacts, TouchedSize DEF Touched
<1>2. record[call.flob] \in [Cell -> Byte] /\ Blank \in [Cell -> Byte]
  BY <1>0, <1>1 DEF TypeOK, Blank, Byte
<1>3. b \in [Cell -> Byte]
  BY <1>0, <1>2, OverwrittenType
<1>4. \A c \in Cell : /\ c \in Copied => b[c] = call.value
                      /\ c \notin Copied /\ ReadsSlot => b[c] = record[call.flob][c]
  BY DEF Overwritten
<1>5. /\ InsertEntry(e, b) /\ UNCHANGED <<size, record, stale>>
      /\ call' = [call EXCEPT !.at = NextPosition]
      /\ unread' = IF ReadsSlot \/ FillsSlot THEN unread ELSE unread \cup {e}
  BY DEF PutMiss, diskVars
<1> HIDE DEF b, e
<1>6. /\ Cached' = Cached \cup {e}
      /\ \A f \in Flob, c \in Cell :
            mem'[f][c] = IF <<f, SlotOf(c)>> = e THEN b[c] ELSE mem[f][c]
  BY <1>0, <1>1, <1>3, <1>5, InsertedBytes DEF e
<1>7. Kept' \subseteq Kept \cup {e} /\ (e \in Kept' => ReadsSlot \/ FillsSlot)
  BY <1>5, <1>6 DEF Kept
<1> SUFFICES ASSUME NEW f \in Flob, NEW c \in 0..(size[f] - 1), <<f, SlotOf(c)>> \in Kept',
                    Expected(f, c)' # Unwritten
             PROVE  mem'[f][c] = Expected(f, c)'
  BY <1>5 DEF BytesInv
<1>8. c \in Cell /\ c \in Nat
  BY <1>0, CellInside
<1>9. /\ Expected(f, c)' = IF f = call.flob /\ c \in Copied THEN call.value ELSE Expected(f, c)
      /\ c \in Copied => SlotOf(c) = SlotOf(call.at)
  BY <1>0, <1>5, <1>8, ExpectedNext
<1>10. CASE <<f, SlotOf(c)>> = e
  <2>1. f = call.flob /\ SlotOf(c) = SlotOf(call.at) /\ mem'[f][c] = b[c]
    BY <1>1, <1>6, <1>8, <1>10
  <2>2. CASE c \in Copied
    BY <1>4, <1>8, <1>9, <2>1, <2>2
  <2>3. CASE c \notin Copied
    <3>1. ReadsSlot
      BY <1>7, <1>10, <2>1, <2>3 DEF FillsSlot
    <3>2. call.at <= c
      <4>1. call.at % SlotSize = 0
        BY <3>1 DEF ReadsSlot
      <4>2. /\ SlotOf(call.at) * SlotSize \in Nat
            /\ call.at % SlotSize = call.at - SlotOf(call.at) * SlotSize
            /\ SlotOf(c) * SlotSize <= c
        BY <1>1, <1>8, SlotBegin
      <4> QED
        BY <1>1, <1>8, <2>1, <4>1, <4>2
    <3>3. Expected(f, c) = record[f][c]
      BY <1>1, <1>8, <3>2 DEF Expected
    <3> QED
      BY <1>4, <1>8, <1>9, <2>1, <2>3, <3>1, <3>3
  <2> QED
    BY <2>2, <2>3
<1>11. CASE <<f, SlotOf(c)>> # e
  <2>1. <<f, SlotOf(c)>> \in Kept /\ Expected(f, c)' = Expected(f, c)
    BY <1>1, <1>7, <1>9, <1>11
  <2> QED
    BY <1>6, <1>8, <1>11, <2>1 DEF BytesInv
<1> QED
  BY <1>10, <1>11

LEMMA BytesPutHit ==
    ASSUME CacheInv, BytesInv, PutHit
    PROVE  BytesInv'
<1>0. TypeOK /\ CallFits /\ call.op = "put" /\ call.at < call.to
  BY DEF CacheInv, PutHit, Writing
<1>1. call.flob \in Flob
  BY <1>0, CallFields
<1>2. /\ UNCHANGED <<size, record>> /\ Kept' = Kept /\ call' = [call EXCEPT !.at = NextPosition]
  BY DEF PutHit, diskVars, Kept, Cached
<1>3. \A f \in Flob : mem'[f] = IF f = call.flob
                                THEN [c \in Cell |-> IF c \in Copied THEN call.value ELSE mem[f][c]]
                                ELSE mem[f]
  BY <1>0 DEF PutHit, Overwritten, TypeOK
<1> SUFFICES ASSUME NEW f \in Flob, NEW c \in 0..(size[f] - 1), <<f, SlotOf(c)>> \in Kept,
                    Expected(f, c)' # Unwritten
             PROVE  mem'[f][c] = Expected(f, c)'
  BY <1>2 DEF BytesInv
<1>4. c \in Cell /\ c \in Nat
  BY <1>0, CellInside
<1>5. Expected(f, c)' = IF f = call.flob /\ c \in Copied THEN call.value ELSE Expected(f, c)
  BY <1>0, <1>2, <1>4, ExpectedNext
<1>6. mem'[f][c] = IF f = call.flob /\ c \in Copied THEN call.value ELSE mem[f][c]
  BY <1>3, <1>4
<1> QED
  BY <1>5, <1>6 DEF BytesInv

(* The record becomes what the write expected.                              *)
LEMMA BytesWriteThrough ==
    ASSUME CacheInv, BytesInv, WriteThrough
    PROVE  BytesInv'
<1>0. TypeOK /\ call.op = "put" /\ call.at = call.to /\ call' = NoCall
  BY DEF CacheInv, WriteThrough
<1>1. UNCHANGED <<size, mem>> /\ Kept' = Kept
  BY DEF WriteThrough, tableVars, Kept, Cached
<1>2. \A f \in Flob : record'[f] = IF f = call.flob
                                   THEN [c \in Cell |-> IF c \in call.from..(call.to - 1)
                                                        THEN call.value ELSE record[f][c]]
                                   ELSE record[f]
  BY <1>0 DEF WriteThrough, TypeOK
<1>3. ASSUME NEW f \in Flob, NEW c \in 0..(size[f] - 1)
      PROVE  Expected(f, c)' = Expected(f, c)
  <2>1. c \in Cell
    BY <1>0, CellInside
  <2>2. Expected(f, c)' = record'[f][c]
    BY <1>0 DEF Expected, NoCall
  <2> QED
    BY <1>0, <1>2, <2>1, <2>2 DEF Expected
<1> QED
  BY <1>1, <1>3 DEF BytesInv

LEMMA BytesSaveTo ==
    ASSUME CacheInv, BytesInv, NEW f \in Flob, NEW n \in 0..MaxCells, NEW v \in Value,
           SaveTo(f, n, v)
    PROVE  BytesInv'
<1>0. TypeOK /\ UNCHANGED call /\ life[f] = "none"
  BY DEF CacheInv, SaveTo
<1>1. mem' = mem /\ Kept' = Kept
  BY DEF SaveTo, tableVars, Kept, Cached
<1>2. \A g \in Flob : g # f => size'[g] = size[g] /\ record'[g] = record[g]
  BY <1>0 DEF SaveTo, TypeOK
<1>3. \A e \in Kept : e[1] # f
  BY <1>0 DEF CacheInv, NoStrangers, Kept
<1>4. ASSUME NEW g \in Flob, NEW c \in Cell, <<g, SlotOf(c)>> \in Kept'
      PROVE  size'[g] = size[g] /\ Expected(g, c)' = Expected(g, c)
  <2>1. g # f
    BY <1>1, <1>3, <1>4
  <2> QED
    BY <1>0, <1>2, <2>1 DEF Expected
<1> QED
  BY <1>0, <1>1, <1>4, BytesKept

(* A resized Flob keeps what it had, and the slot where it ended leaves the *)
(* cache.                                                                   *)
LEMMA BytesResize ==
    ASSUME CacheInv, BytesInv, NEW f \in Flob, NEW n \in 0..MaxCells, Resize(f, n)
    PROVE  BytesInv'
<1> DEFINE e == LastSlot(f, n)
<1>0. TypeOK /\ TableSound /\ call = NoCall /\ call' = NoCall /\ NoCall.op = "none"
  BY DEF CacheInv, Resize, Idle, NoCall
<1>1. /\ Kept' \subseteq Kept
      /\ \A g \in Flob, c \in Cell : <<g, SlotOf(c)>> \in Kept' => mem'[g][c] = mem[g][c]
  <2>1. CASE e \in Entry /\ Found(e)
    <3>1. e \in Cached /\ RemoveEntry(e)
      BY <1>0, <2>1, FoundCached DEF TableSound, Resize, KillSlot
    <3> HIDE DEF e
    <3>2. /\ Kept' = Kept \ {e}
          /\ \A g \in Flob, c \in Cell : <<g, SlotOf(c)>> # e => mem'[g][c] = mem[g][c]
      BY <1>0, <3>1, KeptBytes
    <3> QED
      BY <3>2
  <2>2. CASE ~(e \in Entry /\ Found(e))
    BY <2>2 DEF Resize, tableVars, Kept, Cached
  <2> QED
    BY <2>1, <2>2
<1>2. /\ \A g \in Flob : g # f => size'[g] = size[g] /\ record'[g] = record[g]
      /\ size'[f] = n
      /\ \A c \in Cell : record'[f][c] = IF c < n /\ c < size[f] THEN record[f][c] ELSE Unwritten
  BY <1>0 DEF Resize, TypeOK
<1>3. \A g \in Flob : \A c : Expected(g, c) = record[g][c] /\ Expected(g, c)' = record'[g][c]
  BY <1>0 DEF Expected
<1> SUFFICES ASSUME NEW g \in Flob, NEW c \in 0..(size'[g] - 1), <<g, SlotOf(c)>> \in Kept',
                    record'[g][c] # Unwritten
             PROVE  mem'[g][c] = record'[g][c]
  BY <1>3 DEF BytesInv
<1>4. CASE g = f
  <2>1. c \in Nat /\ c < n /\ n <= MaxCells /\ MaxCells \in Nat
    BY <1>2, <1>4, Constants
  <2>2. c \in Cell
    BY <2>1 DEF Cell
  <2>3. c < size[f] /\ record'[f][c] = record[f][c] /\ size[f] \in Nat
    BY <1>0, <1>2, <1>4, <2>2, SizeType
  <2>4. c \in 0..(size[f] - 1)
    BY <2>1, <2>3
  <2> QED
    BY <1>1, <1>3, <1>4, <2>2, <2>3, <2>4 DEF BytesInv
<1>5. CASE g # f
  <2>1. c \in 0..(size[g] - 1) /\ record'[g] = record[g]
    BY <1>2, <1>5
  <2>2. c \in Cell
    BY <1>0, <2>1, CellInside
  <2> QED
    BY <1>1, <1>3, <2>1, <2>2 DEF BytesInv
<1> QED
  BY <1>4, <1>5

LEMMA BytesReduce ==
    ASSUME CacheInv, BytesInv, Reduce
    PROVE  BytesInv'
<1>0. TypeOK /\ TableSound
  BY DEF CacheInv
<1>1. PICK e \in Cached : RemoveEntry(e)
  BY DEF Reduce, IsLast
<1>2. /\ Kept' = Kept \ {e}
      /\ \A g \in Flob, c \in Cell : <<g, SlotOf(c)>> # e => mem'[g][c] = mem[g][c]
  BY <1>0, <1>1, KeptBytes
<1>3. UNCHANGED <<size, record, call>>
  BY DEF Reduce, diskVars
<1>4. \A g, c : Expected(g, c)' = Expected(g, c)
  BY <1>3 DEF Expected
<1> QED
  BY <1>0, <1>2, <1>3, <1>4, BytesKept

(* What is relied on after an abort belongs to Flobs that it did not change. *)
LEMMA BytesAbort ==
    ASSUME CacheInv, BytesInv, Abort
    PROVE  BytesInv'
<1>0. /\ TypeOK /\ call = NoCall /\ NoCall.op = "none" /\ UNCHANGED <<len, mem, unread, call>>
      /\ size' = saved.size /\ record' = saved.record
      /\ stale' = stale \cup {e \in Cached : RolledBack(e[1])}
  BY DEF CacheInv, Abort, Idle, SetDisk, NoCall
<1>1. Kept' \subseteq Kept /\ \A e \in Kept' : ~RolledBack(e[1])
  BY <1>0 DEF Kept, Cached
<1>2. ASSUME NEW f \in Flob, NEW c \in Cell, <<f, SlotOf(c)>> \in Kept'
      PROVE  size'[f] = size[f] /\ Expected(f, c)' = Expected(f, c)
  <2>1. ~RolledBack(f)
    BY <1>1, <1>2
  <2> QED
    BY <1>0, <2>1 DEF RolledBack, Expected
<1> QED
  BY <1>0, <1>1, <1>2, BytesKept

LEMMA BytesCleared ==
    ASSUME ClearCaches
    PROVE  BytesInv'
<1>1. len' = [e \in Entry |-> 0]
  BY DEF ClearCaches
<1>2. Kept' = {}
  BY <1>1, SMT DEF Kept, Cached
<1> QED
  BY <1>2 DEF BytesInv

LEMMA BytesInit == Init => BytesInv
<1> SUFFICES ASSUME Init PROVE BytesInv
  OBVIOUS
<1>1. len = [e \in Entry |-> 0]
  BY DEF Init
<1>2. Kept = {}
  BY <1>1, SMT DEF Kept, Cached
<1> QED
  BY <1>2 DEF BytesInv

LEMMA BytesStep ==
    ASSUME CacheInv, BytesInv, [Next]_vars
    PROVE  BytesInv'
<1>0. TypeOK
  BY DEF CacheInv
<1>1. ASSUME NEW f \in Flob, NEW from \in Cell, NEW to \in 1..MaxCells,
             GetData(f, from, to) \/ \E v \in Value : PutData(f, from, to, v)
      PROVE  BytesInv'
  BY <1>1, BytesCall
<1>2. ASSUME NEW f \in Flob, NEW n \in 0..MaxCells,
             Resize(f, n) \/ \E v \in Value : SaveTo(f, n, v)
      PROVE  BytesInv'
  BY <1>2, BytesResize, BytesSaveTo
<1>3. ASSUME (\E f \in Flob : Destroy(f)) \/ GoAstray \/ Commit
      PROVE  BytesInv'
  BY <1>0, <1>3, BytesUnchanged DEF Destroy, GoAstray, Commit, diskVars, tableVars
<1>4. ASSUME GetMiss \/ GetHit \/ PutMiss \/ PutHit \/ WriteThrough \/ Reduce \/ Abort
      PROVE  BytesInv'
  BY <1>4, BytesGetMiss, BytesGetHit, BytesPutMiss, BytesPutHit, BytesWriteThrough, BytesReduce,
     BytesAbort
<1>5. ASSUME Crash \/ CloseDatabase PROVE BytesInv'
  BY <1>5, BytesCleared DEF Crash, CloseDatabase
<1>6. ASSUME UNCHANGED vars PROVE BytesInv'
  BY <1>0, <1>6, BytesUnchanged DEF vars
<1> QED
  BY <1>1, <1>2, <1>3, <1>4, <1>5, <1>6 DEF Next

(* What is read through the cache is what was stored, for any writes of a   *)
(* part or the whole, replacements, resizes, commits, aborts and crashes,   *)
(* and all sizes of slots, cache and table: with the exception of slots of  *)
(* a Flob that a transaction changed which was rolled back, and of slots    *)
(* that a write of a part brought in.                                       *)
THEOREM CacheStaysRight == Spec => []CacheAgreesWithRecord
<1>1. Init => CacheInv /\ BytesInv
  BY CacheInit, BytesInit
<1>2. CacheInv /\ BytesInv /\ [Next]_vars => CacheInv' /\ BytesInv'
  BY CacheStep, BytesStep
<1>3. BytesInv => CacheAgreesWithRecord
  BY DEF BytesInv, Kept, Expected, CacheAgreesWithRecord, AgreesBut
<1> QED
  BY <1>1, <1>2, <1>3, PTL DEF Spec
=============================================================================
