------------------------- MODULE PersistentFlobCache -------------------------
(***************************************************************************)
(* The cache of a server process for persistent Flobs. A Flob is read in   *)
(* slots; the cached slots are chained in a hash table and linked in a     *)
(* list for LRU replacement. A write changes the slots and goes to the     *)
(* record of the Flob at once. The records belong to a transaction, the    *)
(* cache does not: it is kept when the transaction is rolled back.         *)
(*                                                                         *)
(* A process has one thread, so while a call of getData or putData runs    *)
(* slot by slot, nothing happens but the replacement it causes.            *)
(***************************************************************************)
EXTENDS Integers, Sequences, FiniteSets

CONSTANTS
    Flob,           \* Flob ids: file, record and offset 0
    HashValue,      \* FlobId::hashValue of each
    Writable,       \* the Flobs that are written and resized
    Value,
    MaxCells,       \* bound of the model: size of a Flob
    Mark,           \* bound of the model: where each Flob, reads and writes end
    SlotSize, MaxSize, TableSize,
    Unwritten,      \* a byte that nobody has written
    None            \* a null pointer

ASSUME CacheConstants ==
    /\ HashValue \in [Flob -> Nat]
    /\ Writable \subseteq Flob
    /\ {MaxCells, SlotSize, MaxSize, TableSize} \subseteq Nat \ {0}
    /\ MaxSize > SlotSize
    /\ Mark \in [Flob -> SUBSET (0..MaxCells)]
    /\ Unwritten \notin Value

Cell == 0..(MaxCells - 1)
SlotOf(c) == c \div SlotSize
Slot == {SlotOf(c) : c \in Cell}
Entry == Flob \X Slot
Byte == Value \cup {Unwritten}

(* No entry lies at the address null.                                       *)
ASSUME NullPointer == None \notin Entry

VARIABLES
    life,           \* whether the record of the Flob exists
    size,           \* Flob::size
    record,         \* the record, as the running transaction sees it
    saved,          \* life, size and record as last committed
    chain,          \* hashtable: the entries along tableNext
    prev,           \* CacheEntry::tablePrev
    newer,          \* LRU list: pairs of entries, the more recent one first
    len,            \* CacheEntry::size, 0 when the slot is not cached
    mem,            \* CacheEntry::mem
    usedSize,
    call,           \* the running call of getData or putData
    stale,          \* history: slots of a Flob that was rolled back
    unread,         \* history: slots written in part and never read
    status          \* of the process

diskVars == <<life, size, record, saved>>
tableVars == <<chain, prev, newer, len, mem, usedSize, stale, unread>>
vars == <<life, size, record, saved, chain, prev, newer, len, mem, usedSize,
          stale, unread, call, status>>

Life == {"none", "live", "dead"}
Disk == [life : [Flob -> Life], size : [Flob -> 0..MaxCells],
         record : [Flob -> [Cell -> Byte]]]
NoCall == [op |-> "none"]
Call == {NoCall} \cup
        [op : {"get", "put"}, flob : Flob, from : Cell, to : 1..MaxCells,
         at : 0..MaxCells, value : Byte]

Cached == {e \in Entry : len[e] > 0}
Index(e) == (HashValue[e[1]] + e[2]) % TableSize
Blank == [c \in Cell |-> Unwritten]
EmptyDisk == [life |-> [f \in Flob |-> "none"], size |-> [f \in Flob |-> 0],
              record |-> [f \in Flob |-> Blank]]

TypeOK ==
    /\ life \in [Flob -> Life]
    /\ size \in [Flob -> 0..MaxCells]
    /\ record \in [Flob -> [Cell -> Byte]]
    /\ saved \in Disk
    /\ \A i \in 0..(TableSize - 1) : \A k \in 1..Len(chain[i]) : chain[i][k] \in Entry
    /\ prev \in [Entry -> Entry \cup {None}]
    /\ newer \subseteq Entry \X Entry
    /\ len \in [Entry -> 0..SlotSize]
    /\ mem \in [Flob -> [Cell -> Byte]]
    /\ usedSize \in Nat
    /\ stale \subseteq Cached
    /\ unread \subseteq Cached
    /\ call \in Call
    /\ status \in {"running", "assertion", "null", "dangling", "astray"}

Init ==
    /\ life = [f \in Flob |-> "none"]
    /\ size = [f \in Flob |-> 0]
    /\ record = [f \in Flob |-> Blank]
    /\ saved = EmptyDisk
    /\ chain = [i \in 0..(TableSize - 1) |-> <<>>]
    /\ prev = [e \in Entry |-> None]
    /\ newer = {}
    /\ len = [e \in Entry |-> 0]
    /\ mem = [f \in Flob |-> Blank]
    /\ usedSize = 0
    /\ stale = {}
    /\ unread = {}
    /\ call = NoCall
    /\ status = "running"

-----------------------------------------------------------------------------
(* The table and the list.                                                  *)

Found(e) == \E k \in 1..Len(chain[Index(e)]) : chain[Index(e)][k] = e

(* Mutant: a slot is as large as the rest of the Flob.                      *)
SizeOfRest(e) == size[e[1]] - e[2] * SlotSize

SizeOf(e) == LET rest == size[e[1]] - e[2] * SlotSize
             IN  IF rest < SlotSize THEN rest ELSE SlotSize

Without(e) == {p \in newer : p[1] # e /\ p[2] # e}

(* Mutant: an entry is not taken out of the list before it goes to the front. *)
AtFrontTwice(e) == newer \cup {<<e, x>> : x \in Cached \ {e}}

AtFront(e) == Without(e) \cup {<<e, x>> : x \in Cached \ {e}}

(* What a call copies at once: from its position to the end of the slot.    *)
NextPosition == LET end == (SlotOf(call.at) + 1) * SlotSize
                IN  IF end < call.to THEN end ELSE call.to
Touched == <<call.flob, SlotOf(call.at)>>
Copied == call.at..(NextPosition - 1)

(* The memory of the entry reaches to the end of the copy.                  *)
CoversCopy == \A c \in Copied : c % SlotSize < len[Touched]

(* The copy fills the slot, as far as the Flob reaches.                     *)
FillsSlot == Copied = {c \in 0..(size[call.flob] - 1) : SlotOf(c) = SlotOf(call.at)}

(* A new entry goes to the end of its chain and to the front of the list.   *)
(* Its memory is filled from the record or left as malloc returns it.       *)
InsertEntry(e, bytes) ==
    /\ chain' = [chain EXCEPT ![Index(e)] = Append(@, e)]
    /\ newer' = AtFront(e)
    /\ len' = [len EXCEPT ![e] = SizeOf(e)]
    /\ mem' = [mem EXCEPT ![e[1]] = [c \in Cell |-> IF SlotOf(c) = e[2] THEN bytes[c]
                                                                        ELSE @[c]]]
    /\ usedSize' = usedSize + SizeOf(e)

Position(e) == CHOOSE k \in 1..Len(chain[Index(e)]) : chain[Index(e)][k] = e

(* The links of e are taken out of its chain and of the list.               *)
RemoveEntry(e) ==
    LET c == chain[Index(e)]
        k == Position(e)
    IN  /\ chain' = [chain EXCEPT ![Index(e)] = SubSeq(@, 1, k - 1) \o SubSeq(@, k + 1, Len(@))]
        /\ prev' = [x \in Entry |-> IF x = e THEN None
                                    ELSE IF k < Len(c) /\ x = c[k + 1]
                                    THEN IF k = 1 THEN None ELSE prev[e]
                                    ELSE prev[x]]
        /\ newer' = Without(e)
        /\ len' = [len EXCEPT ![e] = 0]
        /\ mem' = [mem EXCEPT ![e[1]] = [c2 \in Cell |-> IF SlotOf(c2) = e[2] THEN Unwritten
                                                                             ELSE @[c2]]]
        /\ usedSize' = usedSize - len[e]
        /\ stale' = stale \ {e}
        /\ unread' = unread \ {e}

IsLast(e) == e \in Cached /\ \A x \in Cached : <<e, x>> \notin newer

(* reduce: one victim after the other, until the cache fits. It takes an    *)
(* entry without predecessor for the first one, which an assertion checks;  *)
(* an entry that is its own predecessor stays in the chain when it is freed.*)
Reduce ==
    /\ status = "running"
    /\ usedSize > MaxSize
    /\ \E e \in Entry :
          /\ IsLast(e) /\ RemoveEntry(e)
          /\ status' = IF prev[e] = e THEN "dangling"
                       ELSE IF prev[e] = None /\ Position(e) > 1 THEN "assertion"
                       ELSE status
    /\ UNCHANGED diskVars /\ UNCHANGED call

Ready == status = "running" /\ usedSize <= MaxSize
Idle == Ready /\ call = NoCall

-----------------------------------------------------------------------------
(* Reading.                                                                 *)

GetData(f, from, to) ==
    /\ Idle
    /\ life[f] = "live" /\ from < to /\ to <= size[f] /\ {from, to} \subseteq Mark[f]
    /\ call' = [op |-> "get", flob |-> f, from |-> from, to |-> to, at |-> from,
                value |-> Unwritten]
    /\ UNCHANGED diskVars /\ UNCHANGED tableVars /\ UNCHANGED status

(* Mutant: a new entry does not learn its predecessor.                      *)
NoPredecessor(c) == None

Predecessor(c) == IF c = <<>> THEN None ELSE c[Len(c)]

(* getDataFromSlot without a hit: the slot is read from disk, and the data  *)
(* is copied after reduce.                                                  *)
GetMiss ==
    /\ Ready /\ call.op = "get" /\ ~Found(Touched)
    /\ InsertEntry(Touched, record[call.flob])
    /\ prev' = [prev EXCEPT ![Touched] = Predecessor(chain[Index(Touched)])]
    /\ UNCHANGED diskVars /\ UNCHANGED <<stale, unread, call, status>>

GetHit ==
    /\ Ready /\ call.op = "get" /\ Found(Touched) /\ CoversCopy
    /\ newer' = AtFront(Touched)
    /\ call' = IF NextPosition = call.to THEN NoCall ELSE [call EXCEPT !.at = NextPosition]
    /\ UNCHANGED diskVars /\ UNCHANGED <<chain, prev, len, mem, usedSize, stale, unread, status>>

-----------------------------------------------------------------------------
(* Writing.                                                                 *)

PutData(f, from, to, v) ==
    /\ Idle
    /\ life[f] = "live" /\ f \in Writable
    /\ from < to /\ to <= size[f] /\ {from, to} \subseteq Mark[f]
    /\ call' = [op |-> "put", flob |-> f, from |-> from, to |-> to, at |-> from, value |-> v]
    /\ UNCHANGED diskVars /\ UNCHANGED tableVars /\ UNCHANGED status

Writing == call.op = "put" /\ call.at < call.to

(* What putData copies, over the bytes given.                               *)
Overwritten(bytes) == [c \in Cell |-> IF c \in Copied THEN call.value ELSE bytes[c]]

(* putDataToFlobSlot reads the slot when the call starts at its begin and   *)
(* is longer than a slot.                                                   *)
ReadsSlot == call.at % SlotSize = 0 /\ call.to - call.from >= SlotSize

(* A new entry behind others does not learn its predecessor; the entry      *)
(* before it becomes its own one.                                           *)
PutMiss ==
    /\ Ready /\ Writing /\ ~Found(Touched)
    /\ InsertEntry(Touched, Overwritten(IF ReadsSlot THEN record[call.flob] ELSE Blank))
    /\ LET c == chain[Index(Touched)]
       IN  prev' = IF c = <<>> THEN prev ELSE [prev EXCEPT ![c[Len(c)]] = c[Len(c)]]
    /\ unread' = IF ReadsSlot \/ FillsSlot THEN unread ELSE unread \cup {Touched}
    /\ call' = [call EXCEPT !.at = NextPosition]
    /\ UNCHANGED diskVars /\ UNCHANGED <<stale, status>>

PutHit ==
    /\ Ready /\ Writing /\ Found(Touched) /\ CoversCopy
    /\ mem' = [mem EXCEPT ![call.flob] = Overwritten(@)]
    /\ newer' = AtFront(Touched)
    /\ call' = [call EXCEPT !.at = NextPosition]
    /\ UNCHANGED diskVars /\ UNCHANGED <<chain, prev, len, usedSize, stale, unread, status>>

(* The slot found is shorter than the copy: the bytes available in it are   *)
(* fewer than zero, or the rest of the call is copied to and from the wrong *)
(* slots.                                                                   *)
GoAstray ==
    /\ Ready /\ (call.op = "get" \/ Writing) /\ Found(Touched) /\ ~CoversCopy
    /\ status' = "astray"
    /\ UNCHANGED diskVars /\ UNCHANGED tableVars /\ UNCHANGED call

(* At last the whole part is written to disk.                               *)
WriteThrough ==
    /\ Ready /\ call.op = "put" /\ call.at = call.to
    /\ record' = [record EXCEPT ![call.flob] =
                     [c \in Cell |-> IF c \in call.from..(call.to - 1) THEN call.value ELSE @[c]]]
    /\ call' = NoCall
    /\ UNCHANGED <<life, size, saved, status>> /\ UNCHANGED tableVars

-----------------------------------------------------------------------------
(* FlobManager: operations on persistent Flobs.                             *)

(* saveTo writes a Flob into a new record, past the cache. The number of a  *)
(* record whose appending was rolled back is given again.                   *)
SaveTo(f, n, v) ==
    /\ Idle /\ life[f] = "none" /\ n \in Mark[f]
    /\ life' = [life EXCEPT ![f] = "live"]
    /\ size' = [size EXCEPT ![f] = n]
    /\ record' = [record EXCEPT ![f] = [c \in Cell |-> IF c < n THEN v ELSE Unwritten]]
    /\ UNCHANGED tableVars /\ UNCHANGED <<saved, call, status>>

(* Mutant: the slot where the new end is.                                   *)
NewLastSlot(f, n) == <<f, SlotOf(n)>>

(* killLastSlot: the slot where the Flob ends so far.                       *)
LastSlot(f, n) == <<f, SlotOf(size[f])>>

(* An entry that is not the first one is removed by way of its predecessor, *)
(* which may be a null pointer or the entry itself.                         *)
KillSlot(e) ==
    /\ RemoveEntry(e)
    /\ status' = IF Position(e) = 1 \/ prev[e] \notin {e, None} THEN status
                 ELSE IF prev[e] = e THEN "dangling" ELSE "null"

Resize(f, n) ==
    /\ Idle /\ life[f] = "live" /\ f \in Writable /\ n # size[f] /\ n \in Mark[f]
    /\ LET e == LastSlot(f, n)
       IN  IF e \in Entry /\ Found(e) THEN KillSlot(e)
                                     ELSE UNCHANGED tableVars /\ UNCHANGED status
    /\ record' = [record EXCEPT ![f] = [c \in Cell |-> IF c < n /\ c < size[f] THEN @[c]
                                                                               ELSE Unwritten]]
    /\ size' = [size EXCEPT ![f] = n]
    /\ UNCHANGED <<life, saved, call>>

(* destroy deletes the record and leaves the slots to replacement. Nobody   *)
(* reads what record says of it, unless the transaction is rolled back.     *)
Destroy(f) ==
    /\ Idle /\ life[f] = "live"
    /\ life' = [life EXCEPT ![f] = "dead"]
    /\ UNCHANGED <<size, record, saved, call, status>> /\ UNCHANGED tableVars

(* Mutant: the cache is kept.                                               *)
KeepCache == UNCHANGED tableVars

(* Mutant: usedSize keeps its value.                                        *)
ClearEntriesOnly ==
    /\ chain' = [i \in 0..(TableSize - 1) |-> <<>>]
    /\ prev' = [e \in Entry |-> None]
    /\ newer' = {}
    /\ len' = [e \in Entry |-> 0]
    /\ mem' = [f \in Flob |-> Blank]
    /\ stale' = {} /\ unread' = {}
    /\ UNCHANGED usedSize

ClearCaches ==
    /\ chain' = [i \in 0..(TableSize - 1) |-> <<>>]
    /\ prev' = [e \in Entry |-> None]
    /\ newer' = {}
    /\ len' = [e \in Entry |-> 0]
    /\ mem' = [f \in Flob |-> Blank]
    /\ usedSize' = 0
    /\ stale' = {} /\ unread' = {}

(* The disk becomes what d says.                                            *)
SetDisk(d) == life' = d.life /\ size' = d.size /\ record' = d.record

(* The command "close database" ends the transaction and clears the caches; *)
(* in the next database the ids stand for other Flobs.                      *)
CloseDatabase ==
    /\ Idle
    /\ ClearCaches
    /\ SetDisk(EmptyDisk) /\ saved' = EmptyDisk
    /\ UNCHANGED <<call, status>>

-----------------------------------------------------------------------------
(* Transactions: each command, or all from "begin transaction" on, runs in  *)
(* one.                                                                     *)

Commit ==
    /\ Idle
    /\ saved' = [life |-> life, size |-> size, record |-> record]
    /\ UNCHANGED <<life, size, record, call, status>> /\ UNCHANGED tableVars

(* The Flobs that rolling back changes.                                     *)
RolledBack(f) ==
    \/ saved.life[f] = "none"
    \/ size[f] # saved.size[f]
    \/ record[f] # saved.record[f]

(* Berkeley DB takes the records back, also of a transaction whose commit   *)
(* fails; the cache is kept.                                                *)
Abort ==
    /\ Idle
    /\ SetDisk(saved)
    /\ stale' = stale \cup {e \in Cached : RolledBack(e[1])}
    /\ UNCHANGED <<saved, chain, prev, newer, len, mem, usedSize, unread, call, status>>

(* The process ends, whatever it is doing. Recovery rolls its transaction   *)
(* back, and the next process begins with an empty cache.                   *)
Crash ==
    /\ ClearCaches
    /\ SetDisk(saved)
    /\ call' = NoCall
    /\ status' = "running"
    /\ UNCHANGED saved

Next ==
    \/ \E f \in Flob :
          \/ \E from \in Cell, to \in 1..MaxCells :
                \/ GetData(f, from, to)
                \/ \E v \in Value : PutData(f, from, to, v)
          \/ \E n \in 0..MaxCells :
                \/ \E v \in Value : SaveTo(f, n, v)
                \/ Resize(f, n)
          \/ Destroy(f)
    \/ GetMiss \/ GetHit
    \/ PutMiss \/ PutHit \/ WriteThrough
    \/ GoAstray
    \/ Reduce
    \/ Commit \/ Abort \/ Crash
    \/ CloseDatabase

Spec == Init /\ [][Next]_vars

-----------------------------------------------------------------------------
(* Properties.                                                              *)

(* A condition on the use of the cache, under which the next two properties *)
(* hold: a slot of a Flob that is written has a chain of its own (as in a   *)
(* process that only reads).                                                *)
WritersApart == \A e, x \in Entry : e[1] \in Writable /\ Index(x) = Index(e) => x = e

(* No assertion of reduce fails, no missing predecessor is followed, and no *)
(* entry is freed that is still in a chain.                                 *)
ProcessSound == status \notin {"assertion", "null", "dangling"}

(* What the debugging function check() looks for, and the account of the    *)
(* memory: the same entries are in the table, where their hash value says,  *)
(* and in the list, each once, with the right predecessors.                 *)
TableMatchesList ==
    /\ \A i \in 0..(TableSize - 1) : \A k \in 1..Len(chain[i]) :
          LET e == chain[i][k] IN
          /\ e \in Cached /\ Index(e) = i
          /\ prev[e] = IF k = 1 THEN None ELSE chain[i][k - 1]
          /\ \A j \in 1..(k - 1) : chain[i][j] # e
    /\ \A e \in Cached : Found(e)
    /\ \A x, y \in Cached : x # y => (<<x, y>> \in newer) # (<<y, x>> \in newer)

(* reduce finds a victim that is not the entry just brought in, so the data *)
(* copied after it is still there, and it stops.                            *)
ReduceSparesNewest ==
    usedSize > MaxSize => \E e \in Cached : IsLast(e) /\ \E x \in Cached : <<x, e>> \in newer

(* The copies of getData and putData stay inside of the memory of an entry, *)
(* unless the Flob had another size before a transaction was rolled back.   *)
SlotsCoverFlob ==
    /\ \A f \in Flob : life[f] = "live" =>
          \A c \in 0..(size[f] - 1) :
              LET e == <<f, SlotOf(c)>> IN e \in Cached \ stale => c % SlotSize < len[e]
    /\ status = "astray" => Touched \in stale

(* Between calls the cached bytes of the Flobs, but of the slots in S, are  *)
(* those of their records, as far as these were ever written.               *)
AgreesBut(S) ==
    call.op # "put" =>
        \A f \in Flob : life[f] = "live" =>
            \A c \in 0..(size[f] - 1) :
                /\ <<f, SlotOf(c)>> \in Cached \ S
                /\ record[f][c] # Unwritten
                => mem[f][c] = record[f][c]

(* What is read is what was stored, whatever was written in part or as a    *)
(* whole, resized, replaced, destroyed and rolled back before, with two     *)
(* exceptions: the slots of a Flob whose changes were rolled back, and the  *)
(* slots that a write brought in without reading the rest of them.          *)
CacheAgreesWithRecord == AgreesBut(stale \cup unread)

(* Claim of SecondoInterface.h: an abort revokes all changes to the         *)
(* database. It does not hold, since the cache keeps the slots it has read. *)
AbortRevokesChanges == AgreesBut(unread)

(* Claim of PersistentFlobCache.h: a write puts its data into the cache and *)
(* writes them to disk. Then the rest of the slot should still be what the  *)
(* record holds, which it is not: a slot written in part is not read.       *)
WritesKeepTheRest == AgreesBut(stale)
=============================================================================
