------------------------- MODULE SecondoCatalogProofs -------------------------
(***************************************************************************)
(* Type correctness of SecondoCatalog, for any sessions, objects, types    *)
(* and values: what the caches note about an object, a killed or renamed   *)
(* record on its way, and what CleanUp makes of them are always records of *)
(* the catalog, and no data is on disk of a value that was never created.  *)
(***************************************************************************)
EXTENDS SecondoCatalog, SequenceTheorems, TLAPS

(* The parts of TypeOK that the commands on objects and types disturb.     *)
CacheTypeOK ==
    /\ types \in [Session -> [NamedType -> State \cup {Absent}]]
    /\ objects \in [Session -> [Name -> Entry \cup {Absent}]]
    /\ made \in Seq(Type) /\ Len(made) <= MaxValue
    /\ files \subseteq 1..Len(made)
    /\ created \in [Session -> SUBSET ValueId]
    /\ drops \in [Session -> SUBSET ValueId]

LEMMA TypeInit == Init => TypeOK
<1> SUFFICES ASSUME Init PROVE TypeOK
  OBVIOUS
<1>1. made \in Seq(Type) /\ Len(made) = 0
  BY DEF Init
<1>2. Empty.objects \in Objects /\ Empty.values \in Values /\ Empty.types = {}
  BY CatalogConstants DEF Empty, Objects, Values, NoValue
<1>3. /\ objCatalogFile \in Objects /\ objValueFile \in Values /\ typeCatalogFile = {}
      /\ saved \in [objects : Objects, values : Values, types : SUBSET NamedType]
  BY <1>2 DEF Init, Empty
<1>4. /\ types \in [Session -> [NamedType -> State \cup {Absent}]]
      /\ objects \in [Session -> [Name -> Entry \cup {Absent}]]
      /\ pending \in [Session -> Pending \cup {Absent}]
  BY DEF Init, NoTypes, NoEntries
<1> QED
  BY <1>1, <1>3, <1>4, CatalogConstants DEF Init, TypeOK

(* A stored object that is defined leads to a value or to none.            *)
LEMMA StoredValues ==
    ASSUME TypeOK, NEW n \in Name, objCatalogFile[n] # Absent
    PROVE  /\ objCatalogFile[n] \in Record
           /\ StoredValue(n) \in ValueId \cup {NoValue}
<1>1. objCatalogFile[n] \in Record
  BY DEF TypeOK, Objects
<1>2. objCatalogFile[n].rec \in ValueId \cup {NoValue}
  BY <1>1 DEF Record
<1> QED
  BY <1>1, <1>2 DEF StoredValue, TypeOK, Values

LEMMA NewValues ==
    ASSUME TypeOK, NEW s \in Session, NEW t \in Type, NewValue(s, t)
    PROVE  /\ made' \in Seq(Type) /\ Len(made') <= MaxValue
           /\ files' \subseteq 1..Len(made')
           /\ created' \in [Session -> SUBSET ValueId]
           /\ Latest \in ValueId
<1>1. /\ made \in Seq(Type) /\ Len(made) \in Nat /\ Len(made) < MaxValue
      /\ made' = Append(made, t)
      /\ files' = files \cup {Len(made) + 1} /\ files \subseteq 1..Len(made)
      /\ MaxValue \in Nat
  BY CatalogConstants DEF TypeOK, NewValue
<1>2. made' \in Seq(Type) /\ Len(made') = Len(made) + 1
  BY <1>1, AppendProperties
<1>3. Latest \in ValueId
  BY <1>1 DEF Latest, ValueId
<1>4. created' \in [Session -> SUBSET ValueId]
  BY <1>3 DEF NewValue, TypeOK, Latest
<1>5. files' \subseteq 1..Len(made')
  <2> SUFFICES ASSUME NEW v \in files' PROVE v \in 1..Len(made')
    OBVIOUS
  <2>1. v \in 1..Len(made) \/ v = Len(made) + 1
    BY <1>1
  <2> QED
    BY <1>1, <1>2, <2>1
<1> QED
  BY <1>1, <1>2, <1>3, <1>4, <1>5
LEMMA Entries ==
    ASSUME TypeOK, NEW s \in Session, NEW n \in Name,
           NEW entry \in Entry \cup {Absent}, PutEntry(s, n, entry)
    PROVE  objects' \in [Session -> [Name -> Entry \cup {Absent}]]
BY DEF TypeOK, PutEntry

(* The type and value of an object that a session sees.                    *)
LEMMA KnownObjects ==
    ASSUME TypeOK, NEW s \in Session, NEW n \in Name, IsObjectName(s, n)
    PROVE  /\ Cached(s, n) => objects[s][n] \in Entry
           /\ ~Cached(s, n) => /\ objCatalogFile[n] \in Record
                               /\ StoredValue(n) \in ValueId \cup {NoValue}
           /\ OldValue(s, n) \in ValueId \cup {NoValue}
<1>1. Cached(s, n) => objects[s][n] \in Entry
  BY DEF TypeOK, Cached
<1>2. ~Cached(s, n) => /\ objCatalogFile[n] \in Record
                       /\ StoredValue(n) \in ValueId \cup {NoValue}
  BY StoredValues DEF IsObjectName
<1>3. OldValue(s, n) \in ValueId \cup {NoValue}
  BY <1>1, <1>2 DEF OldValue, Entry
<1> QED
  BY <1>1, <1>2, <1>3

LEMMA UpdateEntries ==
    ASSUME TypeOK, NEW n \in Name, objCatalogFile[n] \in Record, NEW v \in ValueId
    PROVE  UpdateEntry(n, v) \in Entry
<1>1. objCatalogFile[n].type \in Type /\ objCatalogFile[n].rec \in ValueId \cup {NoValue}
  BY DEF Record
<1> QED
  BY <1>1 DEF UpdateEntry, Entry, State

LEMMA CacheTypes ==
    ASSUME TypeOK, CacheTypeOK',
           UNCHANGED <<objCatalogFile, objValueFile, typeCatalogFile, saved, phase, todo,
                       locks, mustAbort, pending>>
    PROVE  TypeOK'
BY DEF TypeOK, CacheTypeOK

LEMMA CacheStepTypes ==
    ASSUME TypeOK, NEW s \in Session, CacheStep(s)
    PROVE  TypeOK'
<1> USE DEF dbVars, cacheVars, txnVars
<1>1. ASSUME NEW n \in Name, NEW t \in Type, NEW defined \in BOOLEAN,
             InsertObject(s, n, t, defined)
      PROVE  TypeOK'
  <2>1. /\ made' \in Seq(Type) /\ Len(made') <= MaxValue
        /\ files' \subseteq 1..Len(made')
        /\ created' \in [Session -> SUBSET ValueId]
        /\ (IF defined THEN Latest ELSE NoValue) \in ValueId \cup {NoValue}
    <3>1. CASE defined
      BY <1>1, <3>1, NewValues DEF InsertObject
    <3>2. CASE ~defined
      BY <1>1, <3>2 DEF InsertObject, TypeOK
    <3> QED
      BY <3>1, <3>2
  <2>2. objects' \in [Session -> [Name -> Entry \cup {Absent}]]
    BY <1>1, <2>1, Entries DEF InsertObject, Entry, State
  <2>3. CacheTypeOK'
    BY <1>1, <2>1, <2>2 DEF InsertObject, TypeOK, CacheTypeOK
  <2> QED
    BY <1>1, <2>3, CacheTypes DEF InsertObject
<1>2. ASSUME NEW n \in Name, UpdateObject(s, n) PROVE TypeOK'
  <2>1. IsObjectName(s, n)
    BY <1>2 DEF UpdateObject
  <2> DEFINE t == IF Cached(s, n) THEN objects[s][n].type ELSE objCatalogFile[n].type
  <2>2. t \in Type /\ NewValue(s, t)
    BY <1>2, <2>1, KnownObjects DEF UpdateObject, Entry, Record
  <2>3. /\ made' \in Seq(Type) /\ Len(made') <= MaxValue
        /\ files' \subseteq 1..Len(made')
        /\ created' \in [Session -> SUBSET ValueId]
        /\ Latest \in ValueId
    BY <2>2, NewValues
  <2>4. (IF Cached(s, n) THEN [objects[s][n] EXCEPT !.value = Latest]
                         ELSE UpdateEntry(n, Latest)) \in Entry
    <3>1. CASE Cached(s, n)
      BY <2>1, <2>3, <3>1, KnownObjects DEF Entry
    <3>2. CASE ~Cached(s, n)
      BY <2>1, <2>3, <3>2, KnownObjects, UpdateEntries
    <3> QED
      BY <3>1, <3>2
  <2>5. objects' \in [Session -> [Name -> Entry \cup {Absent}]]
    BY <1>2, <2>4, Entries DEF UpdateObject
  <2>6. drops' \in [Session -> SUBSET ValueId]
    BY <1>2, <2>1, KnownObjects DEF UpdateObject, TypeOK
  <2>7. CacheTypeOK'
    BY <1>2, <2>3, <2>5, <2>6 DEF UpdateObject, TypeOK, CacheTypeOK
  <2> QED
    BY <1>2, <2>7, CacheTypes DEF UpdateObject
<1>3. ASSUME NEW n \in Name, ModifyObject(s, n) PROVE TypeOK'
  <2>1. UpdateEntry(n, StoredValue(n)) \in Entry
    BY <1>3, KnownObjects, UpdateEntries DEF ModifyObject
  <2>2. objects' \in [Session -> [Name -> Entry \cup {Absent}]]
    BY <1>3, <2>1, Entries DEF ModifyObject
  <2>3. CacheTypeOK'
    BY <1>3, <2>2 DEF ModifyObject, TypeOK, CacheTypeOK
  <2> QED
    BY <1>3, <2>3, CacheTypes DEF ModifyObject
<1>4. ASSUME NEW n \in Name, DeleteObject(s, n) PROVE TypeOK'
  <2>1. IsObjectName(s, n)
    BY <1>4 DEF DeleteObject
  <2>2. objects' \in [Session -> [Name -> Entry \cup {Absent}]]
    <3>1. CASE Cached(s, n) /\ objects[s][n].state = "EntryInsert"
      BY <1>4, <3>1, Entries DEF DeleteObject
    <3>2. CASE ~(Cached(s, n) /\ objects[s][n].state = "EntryInsert")
      <4> DEFINE entry == IF Cached(s, n)
                          THEN [objects[s][n] EXCEPT !.state = "EntryDelete"]
                          ELSE [state |-> "EntryDelete", value |-> StoredValue(n),
                                type |-> objCatalogFile[n].type, rec |-> NoValue]
      <4>1. entry \in Entry
        BY <2>1, KnownObjects DEF Entry, State, Record
      <4>2. PutEntry(s, n, entry)
        BY <1>4, <3>2 DEF DeleteObject
      <4> QED
        BY <4>1, <4>2, Entries
    <3> QED
      BY <3>1, <3>2
  <2>3. drops' \in [Session -> SUBSET ValueId]
    <3>1. CASE Cached(s, n) /\ objects[s][n].state = "EntryInsert"
      <4>1. objects[s][n].value \in ValueId \cup {NoValue}
        BY <2>1, <3>1, KnownObjects DEF Entry
      <4>2. drops' = [drops EXCEPT ![s] = @ \cup ({objects[s][n].value} \ {NoValue})]
        BY <1>4, <3>1 DEF DeleteObject
      <4> QED
        BY <4>1, <4>2 DEF TypeOK
    <3>2. CASE ~(Cached(s, n) /\ objects[s][n].state = "EntryInsert")
      BY <1>4, <3>2 DEF DeleteObject, TypeOK
    <3> QED
      BY <3>1, <3>2
  <2>4. CacheTypeOK'
    BY <1>4, <2>2, <2>3 DEF DeleteObject, TypeOK, CacheTypeOK
  <2> QED
    BY <1>4, <2>4, CacheTypes DEF DeleteObject
<1>5. ASSUME NEW t \in NamedType, InsertType(s, t) \/ DeleteType(s, t) PROVE TypeOK'
  <2>1. types' \in [Session -> [NamedType -> State \cup {Absent}]]
    <3>1. PICK state \in State \cup {Absent} : types' = [types EXCEPT ![s][t] = state]
      BY <1>5 DEF InsertType, DeleteType, State
    <3> QED
      BY <3>1 DEF TypeOK
  <2>2. CacheTypeOK'
    BY <1>5, <2>1 DEF InsertType, DeleteType, TypeOK, CacheTypeOK
  <2> QED
    BY <1>5, <2>2, CacheTypes DEF InsertType, DeleteType
<1> QED
  BY <1>1, <1>2, <1>3, <1>4, <1>5 DEF CacheStep-----------------------------------------------------------------------------
LEMMA Keys ==
    /\ \A n \in Name : ObjectKey(n) \in Key
    /\ \A t \in NamedType : <<"type", t>> \in Key
    /\ \A r : ValueKeys(r) \subseteq Key
BY DEF Key, ObjectKey, ValueKeys

LEMMA Locks ==
    ASSUME TypeOK, NEW s \in Session, NEW K \in SUBSET Key,
           Lock(s, K) \/ UNCHANGED locks
    PROVE  locks' \in [Session -> SUBSET Key]
BY DEF TypeOK, Lock

(* A record is written or deleted, in a transaction or outside of one.     *)
LEMMA WrittenObjects ==
    ASSUME TypeOK, NEW s \in Session, NEW n \in Name,
           NEW record \in Record \cup {Absent}, WriteObject(s, n, record)
    PROVE  /\ objCatalogFile' \in Objects
           /\ saved' \in [objects : Objects, values : Values, types : SUBSET NamedType]
<1>1. objCatalogFile' \in Objects
  BY DEF TypeOK, WriteObject, Objects
<1>2. CASE phase[s] = "none"
  <2>1. /\ saved.objects \in Objects /\ saved.values \in Values
        /\ saved.types \in SUBSET NamedType
        /\ saved = [objects |-> saved.objects, values |-> saved.values,
                    types |-> saved.types]
    BY DEF TypeOK
  <2>2. [saved.objects EXCEPT ![n] = record] \in Objects
    BY <2>1 DEF Objects
  <2>3. saved' = [objects |-> [saved.objects EXCEPT ![n] = record],
                  values |-> saved.values, types |-> saved.types]
    BY <1>2, <2>1 DEF WriteObject
  <2> QED
    BY <1>1, <2>1, <2>2, <2>3
<1>3. CASE phase[s] # "none"
  BY <1>1, <1>3 DEF WriteObject, TypeOK
<1> QED
  BY <1>2, <1>3

LEMMA PendingTypes ==
    ASSUME TypeOK, NEW s \in Session, NEW p \in Pending \cup {Absent},
           pending' = [pending EXCEPT ![s] = p],
           UNCHANGED <<dbVars, cacheVars, phase, todo, locks, mustAbort, created, drops>>
    PROVE  TypeOK'
BY DEF TypeOK, dbVars, cacheVars

LEMMA FileStepTypes ==
    ASSUME TypeOK, NEW s \in Session, FileStep(s)
    PROVE  TypeOK'
<1>1. ASSUME NEW n \in Name, KillCached(s, n) PROVE TypeOK'
  <2>1. objects[s][n] \in Entry
    BY <1>1 DEF KillCached, Cached, TypeOK
  <2>2. [objects[s][n] EXCEPT !.state = "EntryDelete"] \in Entry
    BY <2>1 DEF Entry, State
  <2>3. objects' \in [Session -> [Name -> Entry \cup {Absent}]]
    BY <1>1, <2>2, Entries DEF KillCached
  <2>4. CacheTypeOK'
    BY <1>1, <2>3 DEF KillCached, TypeOK, CacheTypeOK, dbVars, txnVars
  <2> QED
    BY <1>1, <2>4, CacheTypes DEF KillCached, dbVars, txnVars
<1>2. ASSUME NEW n \in Name, KillStored(s, n) PROVE TypeOK'
  <2>1. objCatalogFile[n] \in Record
    BY <1>2, KnownObjects DEF KillStored
  <2>2. [op |-> "kill", old |-> n, new |-> n, record |-> objCatalogFile[n]] \in Pending
    BY <2>1 DEF Pending
  <2> QED
    BY <1>2, <2>2, PendingTypes DEF KillStored
<1>3. ASSUME NEW old \in Name, NEW new \in Name, RenameCached(s, old, new) PROVE TypeOK'
  <2> DEFINE entry == objects[s][old]
  <2>0. entry \in Entry \cup {Absent}
    BY DEF TypeOK
  <2>1. objects' = [objects EXCEPT ![s][new] = entry, ![s][old] = Absent]
    BY <1>3 DEF RenameCached
  <2>2. objects' \in [Session -> [Name -> Entry \cup {Absent}]]
    <3> DEFINE moved == [objects EXCEPT ![s][new] = entry]
    <3>1. moved \in [Session -> [Name -> Entry \cup {Absent}]]
      BY <2>0 DEF TypeOK
    <3>2. objects' = [moved EXCEPT ![s][old] = Absent]
      BY <2>1
    <3> HIDE DEF moved
    <3> QED
      BY <3>1, <3>2
  <2>3. CacheTypeOK'
    BY <1>3, <2>2 DEF RenameCached, TypeOK, CacheTypeOK, dbVars, txnVars
  <2> QED
    BY <1>3, <2>3, CacheTypes DEF RenameCached, dbVars, txnVars
<1>4. ASSUME NEW old \in Name, NEW new \in Name, RenameStored(s, old, new) PROVE TypeOK'
  <2>1. objCatalogFile[old] \in Record
    BY <1>4, KnownObjects DEF RenameStored, RenameAllowed
  <2>2. [op |-> "delete", old |-> old, new |-> new, record |-> objCatalogFile[old]]
        \in Pending
    BY <2>1 DEF Pending
  <2> QED
    BY <1>4, <2>2, PendingTypes DEF RenameStored
<1>5. ASSUME DeleteOld(s) PROVE TypeOK'
  <2> DEFINE old == pending[s].old
             keys == IF pending[s].op = "kill" /\ objCatalogFile[old] # Absent
                     THEN ValueKeys(pending[s].record.rec) ELSE {}
  <2>1. pending[s] \in Pending /\ old \in Name
    BY <1>5 DEF DeleteOld, TypeOK, Pending
  <2>2. /\ objCatalogFile' \in Objects
        /\ saved' \in [objects : Objects, values : Values, types : SUBSET NamedType]
    BY <1>5, <2>1, WrittenObjects DEF DeleteOld
  <2>3. {ObjectKey(old)} \cup keys \in SUBSET Key
    BY <2>1, Keys
  <2>4. locks' \in [Session -> SUBSET Key]
    BY <1>5, <2>3, Locks DEF DeleteOld
  <2>5. objValueFile' \in Values
    BY <1>5 DEF DeleteOld, TypeOK, Values
  <2>6. pending' \in [Session -> Pending \cup {Absent}]
    <3>1. [pending[s] EXCEPT !.op = "insert"] \in Pending
      BY <2>1 DEF Pending
    <3> QED
      BY <1>5, <3>1 DEF DeleteOld, TypeOK
  <2> QED
    BY <1>5, <2>2, <2>4, <2>5, <2>6 DEF DeleteOld, TypeOK, cacheVars
<1>6. ASSUME InsertNew(s) PROVE TypeOK'
  <2> DEFINE new == pending[s].new
             record == IF objCatalogFile[new] = Absent THEN pending[s].record
                                                       ELSE objCatalogFile[new]
  <2>1. pending[s] \in Pending /\ new \in Name
    BY <1>6 DEF InsertNew, TypeOK, Pending
  <2>2. record \in Record \cup {Absent}
    BY <2>1 DEF TypeOK, Objects, Pending
  <2>3. /\ objCatalogFile' \in Objects
        /\ saved' \in [objects : Objects, values : Values, types : SUBSET NamedType]
    BY <1>6, <2>1, <2>2, WrittenObjects DEF InsertNew
  <2>4. locks' \in [Session -> SUBSET Key]
    <3>1. {ObjectKey(new)} \in SUBSET Key
      BY <2>1, Keys
    <3> QED
      BY <1>6, <3>1, Locks DEF InsertNew
  <2>5. pending' \in [Session -> Pending \cup {Absent}]
    BY <1>6 DEF InsertNew, TypeOK
  <2> QED
    BY <1>6, <2>3, <2>4, <2>5 DEF InsertNew, TypeOK, cacheVars
<1> QED
  BY <1>1, <1>2, <1>3, <1>4, <1>5, <1>6 DEF FileStep-----------------------------------------------------------------------------
LEMMA DoneTypes ==
    ASSUME TypeOK, NEW s \in Session, NEW e, Done(s, e)
    PROVE  /\ phase' \in [Session -> {"none", "active", "types", "first", "second"}]
           /\ todo' \in [Session -> SUBSET (NamedType \cup Name)]
<1>1. CachedNames(s) \subseteq Name
  BY DEF CachedNames
<1>2. CASE todo[s] = {e} /\ phase[s] # "second"
  <2>1. phase' \in [Session -> {"none", "active", "types", "first", "second"}]
    <3>1. PICK p \in {"first", "second"} : phase' = [phase EXCEPT ![s] = p]
      BY <1>2 DEF Done
    <3> QED
      BY <3>1 DEF TypeOK
  <2>2. todo' = [todo EXCEPT ![s] = CachedNames(s)]
    BY <1>2 DEF Done
  <2> QED
    BY <1>1, <2>1, <2>2 DEF TypeOK
<1>3. CASE ~(todo[s] = {e} /\ phase[s] # "second")
  BY <1>3 DEF Done, TypeOK
<1> QED
  BY <1>2, <1>3

LEMMA WritesTypes ==
    ASSUME TypeOK, NEW s \in Session, NEW K \in SUBSET Key, Writes(s, K)
    PROVE  locks' \in [Session -> SUBSET Key]
BY Locks DEF Writes

LEMMA FirstRecords ==
    ASSUME NEW entry \in Entry, NEW there \in Record \cup {Absent}
    PROVE  FirstRecord(entry, there) \in Record \cup {Absent}
<1>1. [type |-> entry.type, defined |-> FALSE, rec |-> NoValue] \in Record
  BY DEF Entry, Record
<1>2. there # Absent =>
        [there EXCEPT !.type = entry.type, !.defined = FALSE] \in Record
  BY DEF Entry, Record
<1>3. entry.state \in State
  BY DEF Entry
<1>4. CASE entry.state = "EntryInsert"
  BY <1>1, <1>4 DEF FirstRecord
<1>5. CASE entry.state = "EntryUpdate"
  BY <1>2, <1>5 DEF FirstRecord
<1>6. CASE entry.state = "EntryDelete"
  BY <1>6 DEF FirstRecord
<1> QED
  BY <1>3, <1>4, <1>5, <1>6 DEF State

LEMMA SecondRecords ==
    ASSUME NEW entry \in Entry, entry.value # NoValue, NEW there \in Record
    PROVE  /\ SecondRecord(entry, there) \in Record
           /\ ValueRecord(entry) \in ValueId /\ entry.value \in ValueId
<1>1. entry.value \in ValueId /\ entry.rec \in ValueId \cup {NoValue}
  BY DEF Entry
<1>2. [there EXCEPT !.defined = TRUE, !.rec = entry.value] \in Record
  BY <1>1 DEF Record
<1>3. [there EXCEPT !.defined = TRUE] \in Record
  BY DEF Record
<1> QED
  BY <1>1, <1>2, <1>3 DEF SecondRecord, ValueRecord

(* An entry that the iteration comes to is in the cache.                   *)
CachedTodo ==
    \A s \in Session : phase[s] \in {"first", "second"} =>
        \A n \in todo[s] : n \in Name /\ Cached(s, n)

LEMMA CleanUpTypes ==
    ASSUME TypeOK, CachedTodo, NEW s \in Session, CleanUp(s)
    PROVE  TypeOK'
<1> USE DEF cacheVars
<1>1. ASSUME NEW t \in NamedType, CleanUpType(s, t) PROVE TypeOK'
  <2>1. /\ phase' \in [Session -> {"none", "active", "types", "first", "second"}]
        /\ todo' \in [Session -> SUBSET (NamedType \cup Name)]
    BY <1>1, DoneTypes DEF CleanUpType
  <2>2. locks' \in [Session -> SUBSET Key]
    <3>1. {<<"type", t>>} \in SUBSET Key
      BY Keys
    <3> QED
      BY <1>1, <3>1, WritesTypes DEF CleanUpType
  <2>3. typeCatalogFile' \subseteq NamedType
    BY <1>1 DEF CleanUpType, TypeOK
  <2> QED
    BY <1>1, <2>1, <2>2, <2>3 DEF CleanUpType, TypeOK
<1>2. ASSUME NEW n \in Name, FirstIteration(s, n) PROVE TypeOK'
  <2>1. /\ phase' \in [Session -> {"none", "active", "types", "first", "second"}]
        /\ todo' \in [Session -> SUBSET (NamedType \cup Name)]
    BY <1>2, DoneTypes DEF FirstIteration
  <2>2. locks' \in [Session -> SUBSET Key]
    <3>1. FirstKeys(s, n) \in SUBSET Key
      BY Keys DEF FirstKeys
    <3> QED
      BY <1>2, <3>1, WritesTypes DEF FirstIteration
  <2>3. objCatalogFile' \in Objects /\ objValueFile' \in Values
    <3>1. CASE mustAbort[s]
      BY <1>2, <3>1 DEF FirstIteration, TypeOK
    <3>2. CASE ~mustAbort[s]
      <4>1. objects[s][n] \in Entry
        BY <1>2 DEF FirstIteration, CachedTodo, Cached, TypeOK, NextNames
      <4>2. FirstRecord(objects[s][n], objCatalogFile[n]) \in Record \cup {Absent}
        BY <4>1, FirstRecords DEF TypeOK, Objects
      <4>3. objCatalogFile' \in Objects
        BY <1>2, <3>2, <4>2 DEF FirstIteration, TypeOK, Objects
      <4>4. objValueFile' \in Values
        BY <1>2, <3>2 DEF FirstIteration, TypeOK, Values
      <4> QED
        BY <4>3, <4>4
    <3> QED
      BY <3>1, <3>2
  <2> QED
    BY <1>2, <2>1, <2>2, <2>3 DEF FirstIteration, TypeOK
<1>3. ASSUME NEW n \in Name, SecondIteration(s, n) PROVE TypeOK'
  <2>1. /\ phase' \in [Session -> {"none", "active", "types", "first", "second"}]
        /\ todo' \in [Session -> SUBSET (NamedType \cup Name)]
    BY <1>3, DoneTypes DEF SecondIteration
  <2>2. locks' \in [Session -> SUBSET Key]
    <3>1. SecondKeys(s, n) \in SUBSET Key
      BY Keys DEF SecondKeys
    <3> QED
      BY <1>3, <3>1, WritesTypes DEF SecondIteration
  <2>3. objects[s][n] \in Entry
    BY <1>3 DEF SecondIteration, CachedTodo, Cached, TypeOK, NextNames
  <2>4. objCatalogFile' \in Objects /\ objValueFile' \in Values
    <3>1. CASE Saves(s, n) /\ ~mustAbort[s]
      <4>1. objCatalogFile[n] \in Record
        BY <3>1 DEF Saves, TypeOK, Objects
      <4>2. /\ SecondRecord(objects[s][n], objCatalogFile[n]) \in Record
            /\ ValueRecord(objects[s][n]) \in ValueId /\ objects[s][n].value \in ValueId
        BY <2>3, <3>1, <4>1, SecondRecords DEF Saves
      <4>3. objCatalogFile' \in Objects
        BY <1>3, <3>1, <4>2 DEF SecondIteration, TypeOK, Objects
      <4>4. objValueFile' \in Values
        BY <1>3, <3>1, <4>2 DEF SecondIteration, TypeOK, Values
      <4> QED
        BY <4>3, <4>4
    <3>2. CASE ~(Saves(s, n) /\ ~mustAbort[s])
      BY <1>3, <3>2 DEF SecondIteration, TypeOK
    <3> QED
      BY <3>1, <3>2
  <2>5. drops' \in [Session -> SUBSET ValueId]
    BY <1>3, <2>3 DEF SecondIteration, TypeOK, Entry
  <2> QED
    BY <1>3, <2>1, <2>2, <2>4, <2>5 DEF SecondIteration, TypeOK
<1> QED
  BY <1>1, <1>2, <1>3 DEF CleanUp
LEMMA MergedContents ==
    ASSUME NEW S, NEW new, NEW old,
           new \in [objects : Objects, values : Values, types : SUBSET NamedType],
           old \in [objects : Objects, values : Values, types : SUBSET NamedType]
    PROVE  Merge(S, new, old)
           \in [objects : Objects, values : Values, types : SUBSET NamedType]
<1>1. /\ new.objects \in Objects /\ old.objects \in Objects
      /\ new.values \in Values /\ old.values \in Values
      /\ new.types \in SUBSET NamedType /\ old.types \in SUBSET NamedType
  OBVIOUS
<1> DEFINE Mine(k) == \E s \in S : k \in locks[s]
<1>2. [n \in Name |-> IF Mine(ObjectKey(n)) THEN new.objects[n] ELSE old.objects[n]]
      \in Objects
  BY <1>1 DEF Objects
<1>3. [r \in ValueId |-> IF Mine(<<"value", r>>) THEN new.values[r] ELSE old.values[r]]
      \in Values
  BY <1>1 DEF Values
<1> QED
  BY <1>2, <1>3 DEF Merge

LEMMA CurrentContents ==
    ASSUME TypeOK
    PROVE  Current \in [objects : Objects, values : Values, types : SUBSET NamedType]
BY DEF TypeOK, Current

LEMMA RollBackTypes ==
    ASSUME TypeOK, NEW S, RollBack(S)
    PROVE  /\ objCatalogFile' \in Objects /\ objValueFile' \in Values
           /\ typeCatalogFile' \subseteq NamedType
           /\ saved' \in [objects : Objects, values : Values, types : SUBSET NamedType]
<1>1. Merge(S, saved, Current)
      \in [objects : Objects, values : Values, types : SUBSET NamedType]
  BY MergedContents, CurrentContents DEF TypeOK
<1> QED
  BY <1>1 DEF RollBack, TypeOK

LEMMA ResetTypes ==
    ASSUME TypeOK, NEW S, Reset(S)
    PROVE  /\ phase' \in [Session -> {"none", "active", "types", "first", "second"}]
           /\ todo' \in [Session -> SUBSET (NamedType \cup Name)]
           /\ types' \in [Session -> [NamedType -> State \cup {Absent}]]
           /\ objects' \in [Session -> [Name -> Entry \cup {Absent}]]
           /\ locks' \in [Session -> SUBSET Key]
           /\ mustAbort' \in [Session -> BOOLEAN]
           /\ created' \in [Session -> SUBSET ValueId]
           /\ drops' \in [Session -> SUBSET ValueId]
<1>1. /\ phase' \in [Session -> {"none", "active", "types", "first", "second"}]
      /\ todo' \in [Session -> SUBSET (NamedType \cup Name)]
      /\ locks' \in [Session -> SUBSET Key]
      /\ mustAbort' \in [Session -> BOOLEAN]
      /\ created' \in [Session -> SUBSET ValueId]
      /\ drops' \in [Session -> SUBSET ValueId]
  BY DEF TypeOK, Reset, Cleared
<1>2. types' \in [Session -> [NamedType -> State \cup {Absent}]]
  BY DEF TypeOK, Reset, Cleared, NoTypes
<1>3. objects' \in [Session -> [Name -> Entry \cup {Absent}]]
  BY DEF TypeOK, Reset, Cleared, NoEntries
<1> QED
  BY <1>1, <1>2, <1>3

LEMMA EndTypes ==
    ASSUME TypeOK, NEW s \in Session, EndTransaction(s) \/ AbortTransaction(s)
    PROVE  TypeOK'
<1>1. /\ made' = made /\ pending' = pending /\ Reset({s}) /\ files' \subseteq files
  BY DEF EndTransaction, AbortTransaction
<1>2. /\ objCatalogFile' \in Objects /\ objValueFile' \in Values
      /\ typeCatalogFile' \subseteq NamedType
      /\ saved' \in [objects : Objects, values : Values, types : SUBSET NamedType]
  <2>1. CASE RollBack({s})
    BY <2>1, RollBackTypes
  <2>2. CASE /\ saved' = Merge({s}, Current, saved)
             /\ UNCHANGED <<objCatalogFile, objValueFile, typeCatalogFile>>
    BY <2>2, MergedContents, CurrentContents DEF TypeOK
  <2> QED
    BY <2>1, <2>2 DEF EndTransaction, AbortTransaction
<1> QED
  BY <1>1, <1>2, ResetTypes DEF TypeOK

LEMMA CrashTypes ==
    ASSUME TypeOK, Crash
    PROVE  TypeOK'
<1>1. /\ made' = made /\ Reset(Session) /\ RollBack(Session) /\ files' \subseteq files
      /\ pending' \in [Session -> Pending \cup {Absent}]
  BY DEF Crash
<1> QED
  BY <1>1, ResetTypes, RollBackTypes DEF TypeOK
-----------------------------------------------------------------------------
(* A step of one session that leaves the iterations of the others alone.   *)
LEMMA CachedFrame ==
    ASSUME CachedTodo, NEW s \in Session,
           \A t \in Session \ {s} :
              phase'[t] = phase[t] /\ todo'[t] = todo[t] /\ objects'[t] = objects[t],
           phase'[s] \in {"first", "second"} =>
              \A n \in todo'[s] : n \in Name /\ objects'[s][n] # Absent
    PROVE  CachedTodo'
BY DEF CachedTodo, Cached

LEMMA CachedStep ==
    ASSUME TypeOK, TypeOK', CachedTodo, [Next]_vars
    PROVE  CachedTodo'
<1> USE DEF dbVars, cacheVars, txnVars
<1>1. ASSUME NEW s \in Session, CacheStep(s) PROVE CachedTodo'
  <2>1. /\ phase[s] = "active" /\ phase' = phase /\ todo' = todo
        /\ \A t \in Session \ {s} : objects'[t] = objects[t]
    BY <1>1 DEF CacheStep, InsertObject, UpdateObject, ModifyObject, DeleteObject,
       InsertType, DeleteType, Running, PutEntry, TypeOK
  <2> QED
    BY <2>1, CachedFrame
<1>2. ASSUME NEW s \in Session, FileStep(s) PROVE CachedTodo'
  <2>1. CASE objects' = objects
    <3>1. phase' = phase /\ todo' = todo
      BY <1>2 DEF FileStep, KillCached, KillStored, RenameCached, RenameStored,
         DeleteOld, InsertNew
    <3> QED
      BY <2>1, <3>1 DEF CachedTodo, Cached
  <2>2. CASE objects' # objects
    <3>1. /\ phase[s] \in {"none", "active"} /\ phase' = phase /\ todo' = todo
          /\ \A t \in Session \ {s} : objects'[t] = objects[t]
      BY <1>2, <2>2 DEF FileStep, KillCached, KillStored, RenameCached, RenameStored,
         DeleteOld, InsertNew, Running, RenameAllowed, PutEntry, TypeOK
    <3> QED
      BY <3>1, CachedFrame
  <2> QED
    BY <2>1, <2>2
<1>3. ASSUME NEW s \in Session, CommitTransaction(s) PROVE CachedTodo'
  <2>1. /\ objects' = objects
        /\ phase'[s] \in {"first", "second"} => todo'[s] = CachedNames(s)
        /\ \A t \in Session \ {s} : phase'[t] = phase[t] /\ todo'[t] = todo[t]
    BY <1>3 DEF CommitTransaction, TypeOK
  <2>2. \A n \in CachedNames(s) : n \in Name /\ objects'[s][n] # Absent
    BY <2>1 DEF CachedNames, Cached
  <2> QED
    BY <2>1, <2>2, CachedFrame
<1>4. ASSUME NEW s \in Session, CleanUp(s) PROVE CachedTodo'
  <2>1. /\ objects' = objects /\ phase[s] \in {"types", "first", "second"}
        /\ \E e : Done(s, e)
    BY <1>4 DEF CleanUp, CleanUpType, FirstIteration, SecondIteration
  <2>2. /\ \A t \in Session \ {s} : phase'[t] = phase[t] /\ todo'[t] = todo[t]
        /\ \/ todo'[s] = CachedNames(s)
           \/ phase'[s] = phase[s] /\ todo'[s] \subseteq todo[s]
    BY <2>1 DEF Done, TypeOK
  <2>3. \A n \in CachedNames(s) : n \in Name /\ objects'[s][n] # Absent
    BY <2>1 DEF CachedNames, Cached
  <2>4. phase[s] \in {"first", "second"} =>
           \A n \in todo[s] : n \in Name /\ objects'[s][n] # Absent
    BY <2>1 DEF CachedTodo, Cached
  <2> QED
    BY <2>1, <2>2, <2>3, <2>4, CachedFrame
<1>5. ASSUME NEW s \in Session, BeginTransaction(s) \/ DeadlockVictim(s)
      PROVE  CachedTodo'
  <2>1. /\ objects' = objects /\ todo' = todo
        /\ \A t \in Session \ {s} : phase'[t] = phase[t]
        /\ phase'[s] \in {"first", "second"} => phase'[s] = phase[s]
    BY <1>5 DEF BeginTransaction, DeadlockVictim, TypeOK
  <2> QED
    BY <2>1 DEF CachedTodo, Cached
<1>6. ASSUME NEW S, Reset(S) PROVE CachedTodo'
  <2>1. \A t \in Session :
           \/ phase'[t] = "none"
           \/ phase'[t] = phase[t] /\ todo'[t] = todo[t] /\ objects'[t] = objects[t]
    BY <1>6 DEF Reset, Cleared
  <2> QED
    BY <2>1 DEF CachedTodo, Cached
<1>7. ASSUME Crash \/ \E s \in Session : EndTransaction(s) \/ AbortTransaction(s)
      PROVE  CachedTodo'
  BY <1>6, <1>7 DEF Crash, EndTransaction, AbortTransaction
<1>8. ASSUME UNCHANGED vars PROVE CachedTodo'
  BY <1>8 DEF vars, CachedTodo, Cached
<1> QED
  BY <1>1, <1>2, <1>3, <1>4, <1>5, <1>7, <1>8 DEF Next

LEMMA TypeStep ==
    ASSUME TypeOK, CachedTodo, [Next]_vars
    PROVE  TypeOK'
<1> USE DEF dbVars, cacheVars, txnVars
<1>1. ASSUME NEW s \in Session, BeginTransaction(s) PROVE TypeOK'
  BY <1>1 DEF BeginTransaction, TypeOK
<1>2. ASSUME NEW s \in Session, CommitTransaction(s) PROVE TypeOK'
  <2>1. CachedNames(s) \subseteq Name
    BY DEF CachedNames
  <2>2. /\ phase' \in [Session -> {"none", "active", "types", "first", "second"}]
        /\ todo' \in [Session -> SUBSET (NamedType \cup Name)]
    BY <1>2, <2>1 DEF CommitTransaction, TypeOK
  <2> QED
    BY <1>2, <2>2 DEF CommitTransaction, TypeOK
<1>3. ASSUME NEW s \in Session, DeadlockVictim(s) PROVE TypeOK'
  BY <1>3 DEF DeadlockVictim, TypeOK
<1>4. ASSUME UNCHANGED vars PROVE TypeOK'
  BY <1>4 DEF vars, TypeOK
<1> QED
  BY <1>1, <1>2, <1>3, <1>4, CacheStepTypes, FileStepTypes, CleanUpTypes, EndTypes,
     CrashTypes DEF Next

(* Every variable of the catalog stays in its range: an iteration of       *)
(* CleanUp only comes to entries that are in the cache, and the data on    *)
(* disk are those of values that have been created.                        *)
THEOREM TypeCorrect == Spec => []TypeOK
<1>1. Init => TypeOK /\ CachedTodo
  BY TypeInit DEF Init, CachedTodo
<1>2. TypeOK /\ CachedTodo /\ [Next]_vars => TypeOK' /\ CachedTodo'
  BY TypeStep, CachedStep
<1> QED
  BY <1>1, <1>2, PTL DEF Spec
=============================================================================
