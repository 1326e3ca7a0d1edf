--------------------------- MODULE NativeFlobCache ---------------------------
(***************************************************************************)
(* Native Flobs: the temporary Flobs of a command, which FlobManager keeps *)
(* in a temporary file behind a cache that writes back. The ids of         *)
(* destroyed Flobs are used again, and at the end of each command all      *)
(* native Flobs are gone and their file is created anew.                   *)
(*                                                                         *)
(* The hash table is left out: entries are found by Flob and slot. usedSize *)
(* is kept as the code keeps it, by additions and subtractions.            *)
(***************************************************************************)
EXTENDS Integers, Sequences, FiniteSets

CONSTANTS
    Flob,           \* ids: records of nativeFlobFile
    Value,
    MaxCells,       \* bound of the model: size of a Flob
    SlotSize, MaxSize,
    Reads, Writes,  \* <<from, to>>: the ranges that are read and written
    Unwritten       \* whatever is in memory or on disk before a byte is written

ASSUME CacheConstants ==
    /\ {MaxCells, SlotSize, MaxSize} \subseteq Nat \ {0}
    /\ MaxSize > SlotSize
    /\ Reads \cup Writes \subseteq (0..(MaxCells - 1)) \X (1..MaxCells)
    /\ Unwritten \notin Value

Cell == 0..(MaxCells - 1)
SlotOf(c) == c \div SlotSize
Slot == 0..SlotOf(MaxCells)
Entry == Flob \X Slot
Address == Flob \X Cell
EntryOf(p) == <<p[1], SlotOf(p[2])>>
Byte == Value \cup {Unwritten}

VARIABLES
    live,           \* the Flobs that exist
    size,           \* Flob::size
    appended,       \* the records of nativeFlobFile
    destroyed,      \* the stack DestroyedFlobs
    disk,           \* contents of nativeFlobFile
    cached,         \* the entries of the cache
    newer,          \* LRU list: pairs of entries, the more recent one first
    len,            \* NativeCacheEntry::size
    mem,            \* NativeCacheEntry::mem
    changed,        \* the entries with NativeCacheEntry::changed
    usedSize,
    written,        \* history: the bytes that the user has written
    call            \* the running call of getData or putData

vars == <<live, size, appended, destroyed, disk, cached, newer, len, mem,
          changed, usedSize, written, call>>
flobVars == <<live, size, appended, destroyed>>
listVars == <<newer, usedSize>>

NoCall == [op |-> "none"]
Call == {NoCall} \cup
        [op : {"get", "put"}, flob : Flob, at : Cell, to : 1..MaxCells, value : Byte]

TypeOK ==
    /\ live \subseteq Flob
    /\ size \in [Flob -> 0..MaxCells]
    /\ appended \subseteq Flob
    /\ destroyed \in Seq(Flob)
    /\ disk \in [Address -> Byte]
    /\ cached \subseteq Entry
    /\ newer \subseteq Entry \X Entry
    /\ len \in [Entry -> 0..SlotSize]
    /\ mem \in [Address -> Byte]
    /\ changed \subseteq cached
    /\ written \subseteq Address
    /\ call \in Call

Init ==
    /\ live = {}
    /\ size = [f \in Flob |-> 0]
    /\ appended = {}
    /\ destroyed = <<>>
    /\ disk = [p \in Address |-> Unwritten]
    /\ cached = {}
    /\ newer = {}
    /\ len = [e \in Entry |-> 0]
    /\ mem = [p \in Address |-> Unwritten]
    /\ changed = {}
    /\ usedSize = 0
    /\ written = {}
    /\ call = NoCall

-----------------------------------------------------------------------------
(* The cache.                                                               *)

(* Mutant: the last slot is taken for a full one.                           *)
SlotLengthOfRest(n, i) == n - i * SlotSize

(* The size of slot i of a Flob of n bytes, if it has that slot.            *)
SlotLength(n, i) == IF n - i * SlotSize < SlotSize THEN n - i * SlotSize ELSE SlotSize

(* The bytes that the entries of E hold, and how many these are.            *)
HeldBy(E) == {p \in Address : EntryOf(p) \in E /\ p[2] - EntryOf(p)[2] * SlotSize < len[EntryOf(p)]}
SumOf(E) == Cardinality(HeldBy(E))

Without(E) == {p \in newer : p[1] \notin E /\ p[2] \notin E}

(* Mutant: entries that are made together are not ordered.                  *)
AtFrontUnordered(E) == Without(E) \cup {<<e, x>> : e \in E, x \in cached \ E}

(* The entries of E go to the front of the list, the last slot first.       *)
AtFront(E) == Without(E) \cup {<<e, x>> : e \in E, x \in cached \ E}
                         \cup {p \in E \X E : p[1][2] > p[2][2]}

(* The entries of E leave the table and the list, and their memory is freed. *)
Drop(E) ==
    /\ cached' = cached \ E
    /\ changed' = changed \ E
    /\ newer' = Without(E)
    /\ len' = [e \in Entry |-> IF e \in E THEN 0 ELSE len[e]]
    /\ mem' = [p \in Address |-> IF EntryOf(p) \in E THEN Unwritten ELSE mem[p]]

(* Mutant: a changed slot is not saved when it is replaced.                 *)
NeverSaved(e) == UNCHANGED disk

(* saveToDisk *)
SaveIfChanged(e) ==
    disk' = [p \in Address |->
               IF e \in changed /\ EntryOf(p) = e /\ p[2] - e[2] * SlotSize < len[e]
               THEN mem[p] ELSE disk[p]]

IsLast(e) == e \in cached /\ \A x \in cached : <<e, x>> \notin newer

(* reduce: one victim after the other, until the cache fits.                *)
Reduce ==
    /\ usedSize > MaxSize
    /\ \E e \in Entry :
          /\ IsLast(e)
          /\ SaveIfChanged(e)
          /\ Drop({e})
          /\ usedSize' = usedSize - len[e]
    /\ UNCHANGED flobVars /\ UNCHANGED <<written, call>>

Ready == usedSize <= MaxSize
Idle == Ready /\ call = NoCall

(* What a call copies at once: from its position to the end of the slot.    *)
NextPosition == LET end == (SlotOf(call.at) + 1) * SlotSize
                IN  IF end < call.to THEN end ELSE call.to
Touched == <<call.flob, SlotOf(call.at)>>
Copied == call.at..(NextPosition - 1)
Advance == call' = IF NextPosition = call.to THEN NoCall ELSE [call EXCEPT !.at = NextPosition]

-----------------------------------------------------------------------------
(* Reading and writing.                                                     *)

GetData(f, from, to) ==
    /\ Idle /\ f \in live /\ from < to /\ to <= size[f]
    /\ call' = [op |-> "get", flob |-> f, at |-> from, to |-> to, value |-> Unwritten]
    /\ UNCHANGED flobVars /\ UNCHANGED listVars
    /\ UNCHANGED <<disk, cached, len, mem, changed, written>>

PutData(f, from, to, v) ==
    /\ Idle /\ f \in live /\ from < to /\ to <= size[f]
    /\ call' = [op |-> "put", flob |-> f, at |-> from, to |-> to, value |-> v]
    /\ UNCHANGED flobVars /\ UNCHANGED listVars
    /\ UNCHANGED <<disk, cached, len, mem, changed, written>>

(* createEntry: a slot that is not cached is read from disk, also when it   *)
(* is going to be written.                                                  *)
Fetch ==
    /\ Ready /\ call # NoCall /\ Touched \notin cached
    /\ cached' = cached \cup {Touched}
    /\ newer' = AtFront({Touched})
    /\ len' = [len EXCEPT ![Touched] = SlotLength(size[call.flob], Touched[2])]
    /\ mem' = [p \in Address |-> IF EntryOf(p) = Touched THEN disk[p] ELSE mem[p]]
    /\ usedSize' = usedSize + SlotLength(size[call.flob], Touched[2])
    /\ UNCHANGED flobVars /\ UNCHANGED <<disk, changed, written, call>>

CopyFromSlot ==
    /\ Ready /\ call.op = "get" /\ Touched \in cached
    /\ newer' = AtFront({Touched})
    /\ Advance
    /\ UNCHANGED flobVars
    /\ UNCHANGED <<disk, cached, len, mem, changed, usedSize, written>>

(* putDataToFlobSlot does not bring the slot to the front.                  *)
CopyToSlot ==
    /\ Ready /\ call.op = "put" /\ Touched \in cached
    /\ mem' = [p \in Address |-> IF p[1] = call.flob /\ p[2] \in Copied THEN call.value
                                                                       ELSE mem[p]]
    /\ changed' = changed \cup {Touched}
    /\ written' = written \cup {p \in Address : p[1] = call.flob /\ p[2] \in Copied}
    /\ Advance
    /\ UNCHANGED flobVars /\ UNCHANGED listVars
    /\ UNCHANGED <<disk, cached, len>>

-----------------------------------------------------------------------------
(* Creating, resizing and destroying Flobs.                                 *)

(* New entries get memory that is not initialised and are not marked.       *)
AddEntries(E, n) ==
    /\ cached' = cached \cup E
    /\ newer' = AtFront(E)
    /\ len' = [e \in Entry |-> IF e \in E THEN SlotLength(n, e[2]) ELSE len[e]]
    /\ mem' = [p \in Address |-> IF EntryOf(p) \in E THEN Unwritten ELSE mem[p]]

FullSlots(f, n) == {e \in Entry : e[1] = f /\ e[2] < n \div SlotSize}

(* NativeFlobCache::create makes entries for the slots that are full.       *)
CreateEntries(f, n) ==
    /\ AddEntries(FullSlots(f, n), n)
    /\ usedSize' = usedSize + (n \div SlotSize) * SlotSize
    /\ UNCHANGED <<disk, changed, written>>

(* FlobManager::create takes an id from the stack, or else a new record,    *)
(* without which it gives up and has changed nothing.                       *)
Create(f, n) ==
    /\ Idle
    /\ \/ /\ destroyed # <<>>
          /\ f = destroyed[Len(destroyed)]
          /\ destroyed' = SubSeq(destroyed, 1, Len(destroyed) - 1)
          /\ UNCHANGED appended
       \/ /\ destroyed = <<>>
          /\ f \notin appended
          /\ appended' = appended \cup {f}
          /\ UNCHANGED destroyed
    /\ live' = live \cup {f}
    /\ size' = [size EXCEPT ![f] = n]
    /\ CreateEntries(f, n)
    /\ UNCHANGED call

(* Mutant: the last slot stays in the cache.                                *)
ErasableButLast(f) == {e \in cached : e[1] = f /\ e[2] < size[f] \div SlotSize}

(* erase: the slots of a Flob of this size, without saving them.            *)
Erasable(f) == {e \in cached : e[1] = f /\ e[2] <= size[f] \div SlotSize}

Forgotten(f, n) == {p \in written : p[1] = f /\ p[2] >= n}

ResizeFromZero(f, n) ==
    /\ size[f] = 0
    /\ CreateEntries(f, n)

ResizeToZero(f) ==
    /\ size[f] > 0
    /\ Drop(Erasable(f))
    /\ usedSize' = usedSize - SumOf(Erasable(f))
    /\ written' = written \ Forgotten(f, 0)
    /\ UNCHANGED disk

(* The slots behind the new last one are erased, and that one is shortened  *)
(* or, when nothing is left of it, erased, too.                             *)
Shrink(f, n) ==
    LET k    == n \div SlotSize
        gone == {e \in Erasable(f) : e[2] > k \/ e[2] * SlotSize = n}
        last == <<f, k>>
        rest == n - k * SlotSize
        cut  == last \in cached /\ rest > 0 /\ rest < len[last]
    IN  /\ 0 < n /\ n < size[f]
        /\ cached' = cached \ gone
        /\ changed' = changed \ gone
        /\ newer' = Without(gone)
        /\ len' = [e \in Entry |-> IF e \in gone THEN 0
                                   ELSE IF cut /\ e = last THEN rest ELSE len[e]]
        /\ mem' = [p \in Address |->
                     IF EntryOf(p) \in gone \/ (cut /\ EntryOf(p) = last /\ p[2] >= n)
                     THEN Unwritten ELSE mem[p]]
        /\ usedSize' = usedSize - SumOf(gone) - (IF cut THEN len[last] - rest ELSE 0)
        /\ written' = written \ Forgotten(f, n)
        /\ UNCHANGED disk

(* The last slot so far, which resizeSlot enlarges.                         *)
Enlarged(f, n) == {e \in cached : e = <<f, size[f] \div SlotSize>>}

(* New entries are made for all slots behind the last one so far.           *)
Enlarge(f, n) ==
    LET k     == size[f] \div SlotSize
        fresh == {e \in Entry : e[1] = f /\ e[2] > k /\ e[2] * SlotSize < n}
        grown == Enlarged(f, n)
        extra(e) == SlotLength(n, k) - len[e]
    IN  /\ 0 < size[f] /\ size[f] < n
        /\ cached' = cached \cup fresh
        /\ newer' = AtFront(fresh)
        /\ len' = [e \in Entry |-> IF e \in fresh \cup grown THEN SlotLength(n, e[2])
                                                            ELSE len[e]]
        /\ mem' = [p \in Address |-> IF EntryOf(p) \in fresh THEN Unwritten ELSE mem[p]]
        /\ usedSize' = usedSize + (IF n > (k + 1) * SlotSize THEN n - (k + 1) * SlotSize ELSE 0)
                                + (IF grown = {} THEN 0 ELSE extra(<<f, k>>))
        /\ UNCHANGED <<disk, changed, written>>

(* FlobManager::resize of a native Flob.                                    *)
Resize(f, n) ==
    /\ Idle /\ f \in live
    /\ \/ ResizeFromZero(f, n) /\ n > 0
       \/ ResizeToZero(f) /\ n = 0
       \/ Shrink(f, n)
       \/ Enlarge(f, n)
    /\ size' = [size EXCEPT ![f] = n]
    /\ UNCHANGED <<live, appended, destroyed, call>>

Destroy(f) ==
    /\ Idle /\ f \in live
    /\ live' = live \ {f}
    /\ size' = [size EXCEPT ![f] = 0]
    /\ destroyed' = Append(destroyed, f)
    /\ Drop(Erasable(f))
    /\ usedSize' = usedSize - SumOf(Erasable(f))
    /\ written' = {p \in written : p[1] # f}
    /\ UNCHANGED <<appended, disk, call>>

(* Mutant: the stack keeps the ids of the old file.                         *)
StackKept == destroyed

StackEmptied == <<>>

(* killNativeFlobs, at the end of each command: the cache is cleared, the   *)
(* file is created anew.                                                    *)
KillNativeFlobs ==
    /\ Idle
    /\ live' = {}
    /\ size' = [f \in Flob |-> 0]
    /\ appended' = {}
    /\ destroyed' = StackEmptied
    /\ disk' = [p \in Address |-> Unwritten]
    /\ Drop(cached)
    /\ usedSize' = 0
    /\ written' = {}
    /\ UNCHANGED call

Next ==
    \/ \E f \in Flob :
          \/ \E n \in 0..MaxCells : Create(f, n) \/ Resize(f, n)
          \/ \E r \in Reads : GetData(f, r[1], r[2])
          \/ \E r \in Writes, v \in Value : PutData(f, r[1], r[2], v)
          \/ Destroy(f)
    \/ Fetch \/ CopyFromSlot \/ CopyToSlot
    \/ Reduce
    \/ KillNativeFlobs

Spec == Init /\ [][Next]_vars

-----------------------------------------------------------------------------
(* Properties.                                                              *)

(* The account of the memory is right (the comparison in check()), the list *)
(* orders all entries, and reduce finds a victim other than the entry that  *)
(* has just been brought in, so the slot a call is about to copy is there.  *)
AccountRight ==
    /\ usedSize = SumOf(cached)
    /\ \A x, y \in cached : x # y => (<<x, y>> \in newer) # (<<y, x>> \in newer)
    /\ usedSize > MaxSize => \E e \in cached : IsLast(e) /\ cached # {e}

(* The entries of a Flob are the slots it has, each with the memory for it; *)
(* copies stay inside of it, no slot is entered twice when a Flob grows,    *)
(* and an id that is used again brings no old slots with it.                *)
SlotsFit ==
    \A e \in cached :
        /\ e[1] \in live
        /\ e[2] * SlotSize < size[e[1]]
        /\ len[e] = SlotLength(size[e[1]], e[2])

(* An id is given to one Flob at a time: the ids on the stack belong to     *)
(* records of the file, to no Flob, and are there once.                     *)
IdsExclusive ==
    /\ live \subseteq appended
    /\ \A i \in 1..Len(destroyed) :
          /\ destroyed[i] \in appended \ live
          /\ \A j \in 1..Len(destroyed) : destroyed[i] = destroyed[j] => i = j

(* Flobs behave as if there were no cache and no file: whatever is replaced,*)
(* saved, erased and resized, a byte keeps what was written last.           *)
Contents(p) == IF EntryOf(p) \in cached THEN mem[p] ELSE disk[p]
Stored(p) == IF p \in written THEN Contents(p) ELSE Unwritten
Store == INSTANCE FlobStore WITH byte <- [p \in Address |-> Stored(p)]
StoreSpec == Store!Spec
=============================================================================
