---------------------------- MODULE SecondoCatalog ----------------------------
(***************************************************************************)
(* The catalog of the objects and types of a database (SecondoCatalog.cpp),*)
(* as several sessions use it.  A session notes what its transaction does  *)
(* in two caches in main memory, types and objects, and CleanUp writes     *)
(* them to the catalog files when the transaction ends; killing and        *)
(* renaming an object go to the files at once.  The files are read dirty:  *)
(* a session sees what others have written but not committed.              *)
(*                                                                         *)
(* A value is a number.  Its data on disk outside the record in            *)
(* objValueFile (files) is dropped by DeleteObj when the transaction ends. *)
(* Berkeley DB is external; its locks are taken here to be one per record. *)
(***************************************************************************)
EXTENDS Naturals, Sequences

CONSTANTS
    Session,
    Name,           \* names of objects, numbers for the order of the cache
    Type,           \* type expressions
    NamedType,      \* those that are the name of a type of the database
    MaxValue,       \* bound: values that are ever created
    SharedObjects,  \* whether two transactions may change the same object
    RenameUse,      \* when users rename: objects "created", "untouched" or
                    \* else "touched" by the running transaction, or "outside"
                    \* of a transaction
    Absent,         \* no entry, no record
    Unchanged       \* an object that a transaction has not changed

ValueId == 1..MaxValue
NoValue == 0

ASSUME CatalogConstants ==
    /\ Name \subseteq Nat /\ NamedType \subseteq Type
    /\ MaxValue \in Nat
    /\ SharedObjects \in BOOLEAN
    /\ RenameUse \subseteq {"created", "touched", "untouched", "outside"}
    /\ Absent # Unchanged

VARIABLES
    made,            \* types of the values created so far, in their order
    files,           \* values whose data is on disk
    objCatalogFile,  \* Name -> [type, defined, rec], as dirty readers see it
    objValueFile,    \* record -> value; a record is named by its first value
    typeCatalogFile, \* types in the catalog of types
    saved,           \* the committed contents of these three files
    \* per session
    phase,           \* "none", "active"; CleanUp: "types", "first", "second"
    todo,            \* entries that the iteration has still to come to
    types,           \* cache of types, NamedType -> state
    objects,         \* cache of objects, Name -> entry
    locks,           \* records write locked by the transaction
    mustAbort,       \* the lock detector has chosen this transaction
    created,         \* values it has created
    drops,           \* values whose data is to go when it ends
    pending          \* what is left of killing or renaming a stored object

dbVars == <<made, files, objCatalogFile, objValueFile, typeCatalogFile, saved>>
cacheVars == <<types, objects>>
txnVars == <<phase, todo, locks, mustAbort, created, drops, pending>>
vars == <<dbVars, cacheVars, txnVars>>

State == {"EntryInsert", "EntryUpdate", "EntryDelete"}
Entry == [state : State, type : Type, value : ValueId \cup {NoValue},
          rec : ValueId \cup {NoValue}]
Record == [type : Type, defined : BOOLEAN, rec : ValueId \cup {NoValue}]
Pending == [op : {"kill", "delete", "insert"}, old : Name, new : Name,
            record : Record]
Key == ({"object"} \X Name) \cup ({"value"} \X ValueId) \cup
       ({"type"} \X NamedType)
Objects == [Name -> Record \cup {Absent}]
Values == [ValueId -> ValueId \cup {NoValue}]

NoTypes == [t \in NamedType |-> Absent]
NoEntries == [n \in Name |-> Absent]
(* Absent and Unchanged are neither entries nor records nor objects.       *)
ASSUME AbsentIsNothing ==
    /\ Absent \notin State \cup Entry \cup Record \cup Pending
    /\ {Absent, Unchanged} \cap [type : Type, value : ValueId \cup {NoValue}] = {}

Empty == [objects |-> [n \in Name |-> Absent],
          values  |-> [r \in ValueId |-> NoValue], types |-> {}]

TypeOK ==
    /\ made \in Seq(Type) /\ Len(made) <= MaxValue
    /\ files \subseteq 1..Len(made)
    /\ objCatalogFile \in Objects /\ objValueFile \in Values
    /\ typeCatalogFile \subseteq NamedType
    /\ saved \in [objects : Objects, values : Values, types : SUBSET NamedType]
    /\ phase \in [Session -> {"none", "active", "types", "first", "second"}]
    /\ todo \in [Session -> SUBSET (NamedType \cup Name)]
    /\ types \in [Session -> [NamedType -> State \cup {Absent}]]
    /\ objects \in [Session -> [Name -> Entry \cup {Absent}]]
    /\ locks \in [Session -> SUBSET Key]
    /\ mustAbort \in [Session -> BOOLEAN]
    /\ created \in [Session -> SUBSET ValueId]
    /\ drops \in [Session -> SUBSET ValueId]
    /\ pending \in [Session -> Pending \cup {Absent}]

Init ==
    /\ made = << >> /\ files = {}
    /\ objCatalogFile = Empty.objects
    /\ objValueFile = Empty.values
    /\ typeCatalogFile = {}
    /\ saved = Empty
    /\ phase = [s \in Session |-> "none"]
    /\ todo = [s \in Session |-> {}]
    /\ types = [s \in Session |-> NoTypes]
    /\ objects = [s \in Session |-> NoEntries]
    /\ locks = [s \in Session |-> {}]
    /\ mustAbort = [s \in Session |-> FALSE]
    /\ created = [s \in Session |-> {}]
    /\ drops = [s \in Session |-> {}]
    /\ pending = [s \in Session |-> Absent]
----------------------------------------------------------------------------
Cached(s, n) == objects[s][n] # Absent
Holds(s, n) == <<"object", n>> \in locks[s]

(* Commands run in a transaction: the user's or, with StartCommand and     *)
(* FinishCommand, one of their own.                                        *)
Running(s) == phase[s] = "active" /\ ~mustAbort[s] /\ pending[s] = Absent

(* The users' part when SharedObjects is FALSE: an object that one         *)
(* transaction has changed is left alone by all others.                    *)
Touches(s, n) ==
    \/ Cached(s, n) \/ Holds(s, n)
    \/ pending[s] # Absent /\ n \in {pending[s].old, pending[s].new}
MayTouch(s, n) == SharedObjects \/ \A t \in Session \ {s} : ~Touches(t, n)

IsObjectName(s, n) ==
    IF Cached(s, n) THEN objects[s][n].state # "EntryDelete"
                    ELSE objCatalogFile[n] # Absent

MemberType(s, t) ==
    IF types[s][t] # Absent THEN types[s][t] # "EntryDelete"
                            ELSE t \in typeCatalogFile

(* GetObject for an object that is not cached.                             *)
StoredValue(n) ==
    LET record == objCatalogFile[n]
    IN  IF record.defined /\ record.rec # NoValue
        THEN objValueFile[record.rec] ELSE NoValue

BeginTransaction(s) ==
    /\ phase[s] = "none" /\ pending[s] = Absent
    /\ phase' = [phase EXCEPT ![s] = "active"]
    /\ UNCHANGED <<dbVars, cacheVars, todo, locks, mustAbort, created, drops,
                   pending>>

(* A command computes a new value of type t.                               *)
NewValue(s, t) ==
    /\ Len(made) < MaxValue
    /\ made' = Append(made, t)
    /\ files' = files \cup {Len(made) + 1}
    /\ created' = [created EXCEPT ![s] = @ \cup {Len(made) + 1}]
Latest == Len(made) + 1

PutEntry(s, n, entry) == objects' = [objects EXCEPT ![s][n] = entry]

(* InsertObject, with a value (let, restore) or without one (create, where *)
(* a type name must be that of a type).  The name must be free.            *)
InsertObject(s, n, t, defined) ==
    /\ Running(s) /\ MayTouch(s, n) /\ ~IsObjectName(s, n)
    /\ IF defined THEN NewValue(s, t)
                  ELSE UNCHANGED <<made, files, created>>
    /\ t \in NamedType => ~defined /\ MemberType(s, t)
    /\ PutEntry(s, n, [state |-> IF Cached(s, n) THEN "EntryUpdate"
                                                 ELSE "EntryInsert",
                       type |-> t, rec |-> NoValue,
                       value |-> IF defined THEN Latest ELSE NoValue])
    /\ UNCHANGED <<objCatalogFile, objValueFile, typeCatalogFile, saved,
                   types, phase, todo, locks, mustAbort, drops, pending>>

(* Mutant: the state of the entry is left as the constructor has set it.   *)
UpdateEntryUndefined(n, v) ==
    [state |-> "Undefined", type |-> objCatalogFile[n].type, value |-> v,
     rec |-> objCatalogFile[n].rec]

(* The entry for an object of the files that is to be overwritten.         *)
UpdateEntry(n, v) ==
    [state |-> "EntryUpdate", type |-> objCatalogFile[n].type, value |-> v,
     rec |-> objCatalogFile[n].rec]

OldValue(s, n) == IF Cached(s, n) THEN objects[s][n].value ELSE StoredValue(n)

(* UpdateObject and CloneObject: the old value is deleted now, so that its *)
(* data goes when the transaction commits.                                 *)
UpdateObject(s, n) ==
    /\ Running(s) /\ MayTouch(s, n) /\ IsObjectName(s, n)
    /\ NewValue(s, IF Cached(s, n) THEN objects[s][n].type
                                   ELSE objCatalogFile[n].type)
    /\ PutEntry(s, n, IF Cached(s, n)
                      THEN [objects[s][n] EXCEPT !.value = Latest]
                      ELSE UpdateEntry(n, Latest))
    /\ drops' = [drops EXCEPT ![s] = @ \cup ({OldValue(s, n)} \ {NoValue})]
    /\ UNCHANGED <<objCatalogFile, objValueFile, typeCatalogFile, saved,
                   types, phase, todo, locks, mustAbort, pending>>

(* ModifyObject: a query has changed the value of an object in place.      *)
ModifyObject(s, n) ==
    /\ Running(s) /\ MayTouch(s, n) /\ ~Cached(s, n) /\ IsObjectName(s, n)
    /\ StoredValue(n) # NoValue
    /\ PutEntry(s, n, UpdateEntry(n, StoredValue(n)))
    /\ UNCHANGED <<dbVars, types, txnVars>>

(* DeleteObject leaves the deletion of a value to CleanUp, except that of  *)
(* an object that the transaction has created.  The entry for an object    *)
(* that was not cached knows its value, but not the record it is in.       *)
DeleteObject(s, n) ==
    /\ Running(s) /\ MayTouch(s, n) /\ IsObjectName(s, n)
    /\ IF Cached(s, n) /\ objects[s][n].state = "EntryInsert"
       THEN /\ PutEntry(s, n, Absent)
            /\ drops' = [drops EXCEPT ![s] =
                           @ \cup ({objects[s][n].value} \ {NoValue})]
       ELSE /\ PutEntry(s, n,
                  IF Cached(s, n)
                  THEN [objects[s][n] EXCEPT !.state = "EntryDelete"]
                  ELSE [state |-> "EntryDelete", value |-> StoredValue(n),
                        type |-> objCatalogFile[n].type, rec |-> NoValue])
            /\ UNCHANGED drops
    /\ UNCHANGED <<dbVars, types, phase, todo, locks, mustAbort, created,
                   pending>>
----------------------------------------------------------------------------
Free(s, k) == \A t \in Session \ {s} : k \notin locks[t]
Lock(s, K) == locks' = [locks EXCEPT ![s] = @ \cup K]
ObjectKey(n) == <<"object", n>>
ValueKeys(r) == {<<"value", r>>} \cap Key

(* KillObject of a cached object.                                          *)
KillCached(s, n) ==
    /\ Running(s) /\ MayTouch(s, n) /\ Cached(s, n) /\ IsObjectName(s, n)
    /\ PutEntry(s, n, IF objects[s][n].state = "EntryInsert" THEN Absent
                      ELSE [objects[s][n] EXCEPT !.state = "EntryDelete"])
    /\ UNCHANGED <<dbVars, types, txnVars>>

(* Of any other object it first reads the record, which takes no lock.     *)
KillStored(s, n) ==
    /\ Running(s) /\ MayTouch(s, n) /\ ~Cached(s, n) /\ IsObjectName(s, n)
    /\ pending' = [pending EXCEPT
                     ![s] = [op |-> "kill", old |-> n, new |-> n,
                             record |-> objCatalogFile[n]]]
    /\ UNCHANGED <<dbVars, cacheVars, phase, todo, locks, mustAbort, created,
                   drops>>

(* RenameObject moves the entry of a cached object to the new name, as it  *)
(* is.  Other objects are renamed in the file, and so they are outside of  *)
(* a transaction: changename does not start one.                           *)
RenameAllowed(s, old, new) ==
    /\ IsObjectName(s, old) /\ ~IsObjectName(s, new)
    /\ MayTouch(s, old) /\ MayTouch(s, new) /\ pending[s] = Absent
    /\ LET touched == {n \in {old, new} : Touches(s, n)}
           use == IF phase[s] = "none" THEN "outside"
                  ELSE IF touched = {} THEN "untouched"
                  ELSE IF touched = {old} /\ Cached(s, old) /\
                          objects[s][old].state = "EntryInsert" THEN "created"
                  ELSE "touched"
       IN  use \in RenameUse /\ (phase[s] = "none" \/ Running(s))

RenameCached(s, old, new) ==
    /\ RenameAllowed(s, old, new) /\ Cached(s, old)
    /\ objects' = [objects EXCEPT ![s][new] = objects[s][old],
                                  ![s][old] = Absent]
    /\ UNCHANGED <<dbVars, types, txnVars>>

RenameStored(s, old, new) ==
    /\ RenameAllowed(s, old, new) /\ ~Cached(s, old)
    /\ pending' = [pending EXCEPT
                     ![s] = [op |-> "delete", old |-> old, new |-> new,
                             record |-> objCatalogFile[old]]]
    /\ UNCHANGED <<dbVars, cacheVars, phase, todo, locks, mustAbort, created,
                   drops>>

(* The record under a name is replaced, for good if there is no transaction*)
WriteObject(s, n, record) ==
    /\ Free(s, ObjectKey(n))
    /\ objCatalogFile' = [objCatalogFile EXCEPT ![n] = record]
    /\ saved' = IF phase[s] = "none"
                THEN [saved EXCEPT !.objects[n] = record] ELSE saved

(* The record is deleted, and that of the value as it was read before; or  *)
(* it is next to be inserted under the new name.                           *)
DeleteOld(s) ==
    LET old == pending[s].old
        keys == IF pending[s].op = "kill" /\ objCatalogFile[old] # Absent
                THEN ValueKeys(pending[s].record.rec) ELSE {}
    IN  /\ pending[s] # Absent /\ pending[s].op \in {"kill", "delete"}
        /\ WriteObject(s, old, Absent)
        /\ \A k \in keys : Free(s, k)
        /\ IF phase[s] = "none" THEN UNCHANGED locks
                                ELSE Lock(s, {ObjectKey(old)} \cup keys)
        /\ objValueFile' = [r \in ValueId |->
                IF <<"value", r>> \in keys THEN NoValue ELSE objValueFile[r]]
        /\ pending' = [pending EXCEPT
                ![s] = IF @.op = "kill" \/ objCatalogFile[old] = Absent
                       THEN Absent ELSE [@ EXCEPT !.op = "insert"]]
        /\ UNCHANGED <<made, files, typeCatalogFile, cacheVars, phase, todo,
                       mustAbort, created, drops>>

(* Inserting fails if there is a record under the new name by now.         *)
InsertNew(s) ==
    LET new == pending[s].new
    IN  /\ pending[s] # Absent /\ pending[s].op = "insert"
        /\ WriteObject(s, new, IF objCatalogFile[new] = Absent
                               THEN pending[s].record ELSE objCatalogFile[new])
        /\ IF phase[s] = "none" THEN UNCHANGED locks
                                ELSE Lock(s, {ObjectKey(new)})
        /\ pending' = [pending EXCEPT ![s] = Absent]
        /\ UNCHANGED <<made, files, objValueFile, typeCatalogFile, cacheVars,
                       phase, todo, mustAbort, created, drops>>
----------------------------------------------------------------------------
InsertType(s, t) ==
    /\ Running(s) /\ ~MemberType(s, t)
    /\ types' = [types EXCEPT ![s][t] = IF @ = Absent THEN "EntryInsert"
                                                      ELSE "EntryUpdate"]
    /\ UNCHANGED <<dbVars, objects, txnVars>>

(* Mutant: only the objects in the cache are looked at.                    *)
TypeUsedByCached(s, t) ==
    \E n \in Name : /\ Cached(s, n) /\ objects[s][n].state # "EntryDelete"
                    /\ objects[s][n].type = t

TypeUsedByObject(s, t) ==
    \/ \E n \in Name : /\ Cached(s, n) /\ objects[s][n].state # "EntryDelete"
                       /\ objects[s][n].type = t
    \/ \E n \in Name : objCatalogFile[n] # Absent /\ objCatalogFile[n].type = t

DeleteType(s, t) ==
    /\ Running(s) /\ MemberType(s, t) /\ ~TypeUsedByObject(s, t)
    /\ types' = [types EXCEPT ![s][t] =
                    IF @ = "EntryInsert" THEN Absent ELSE "EntryDelete"]
    /\ UNCHANGED <<dbVars, objects, txnVars>>
----------------------------------------------------------------------------
CachedNames(s) == {n \in Name : Cached(s, n)}

(* The iteration of the cache of objects comes to the names in their order.*)
NextNames(s) == {n \in todo[s] : \A m \in todo[s] : n <= m}

(* CommitTransaction starts with CleanUp(FALSE), which goes through the    *)
(* cache of types and then twice through the cache of objects.             *)
CommitTransaction(s) ==
    LET cachedTypes == {t \in NamedType : types[s][t] # Absent}
    IN  /\ phase[s] = "active" /\ pending[s] = Absent
        /\ phase' = [phase EXCEPT ![s] = IF cachedTypes = {} THEN "first"
                                                            ELSE "types"]
        /\ todo' = [todo EXCEPT ![s] = IF cachedTypes = {} THEN CachedNames(s)
                                                          ELSE cachedTypes]
        /\ UNCHANGED <<dbVars, cacheVars, locks, mustAbort, created, drops,
                       pending>>

(* The loops come to their next entry, the last but one ends in the last.  *)
Done(s, e) ==
    IF todo[s] = {e} /\ phase[s] # "second"
    THEN /\ phase' = [phase EXCEPT ![s] = IF @ = "types" THEN "first"
                                                        ELSE "second"]
         /\ todo' = [todo EXCEPT ![s] = CachedNames(s)]
    ELSE todo' = [todo EXCEPT ![s] = @ \ {e}] /\ UNCHANGED phase

(* Mutant: a write that fails is tried again.                              *)
WritesRepeated(s, keys) ==
    ~mustAbort[s] /\ (\A k \in keys : Free(s, k)) /\ Lock(s, keys)

(* A write of a transaction that must abort fails; CleanUp goes on.        *)
Writes(s, keys) ==
    /\ mustAbort[s] \/ \A k \in keys : Free(s, k)
    /\ IF mustAbort[s] THEN UNCHANGED locks ELSE Lock(s, keys)

CleanUpType(s, t) ==
    /\ phase[s] = "types" /\ t \in todo[s]
    /\ Done(s, t) /\ Writes(s, {<<"type", t>>})
    /\ typeCatalogFile' = IF mustAbort[s] THEN typeCatalogFile
                          ELSE IF types[s][t] = "EntryDelete"
                               THEN typeCatalogFile \ {t}
                          ELSE IF types[s][t] = "EntryInsert"
                               THEN typeCatalogFile \cup {t}
                          ELSE typeCatalogFile
    /\ UNCHANGED <<made, files, objCatalogFile, objValueFile, saved,
                   cacheVars, mustAbort, created, drops, pending>>

(* First iteration: the records are written, without values, and those of  *)
(* deleted objects go, together with the record of the value if its number *)
(* is known.  Inserting fails where there is a record, updating and        *)
(* deleting where there is none.                                           *)
FirstKeys(s, n) ==
    {ObjectKey(n)} \cup
    IF objects[s][n].state = "EntryDelete" /\ objCatalogFile[n] # Absent
    THEN ValueKeys(objects[s][n].rec) ELSE {}

(* Mutant: an object that was created is written like one that was changed.*)
FirstRecordUpdates(entry, there) ==
    IF entry.state = "EntryDelete" \/ there = Absent THEN Absent
    ELSE [there EXCEPT !.type = entry.type, !.defined = FALSE]

FirstRecord(entry, there) ==
    CASE entry.state = "EntryInsert" ->
            IF there # Absent THEN there
            ELSE [type |-> entry.type, defined |-> FALSE, rec |-> NoValue]
      [] entry.state = "EntryUpdate" ->
            IF there = Absent THEN Absent
            ELSE [there EXCEPT !.type = entry.type, !.defined = FALSE]
      [] entry.state = "EntryDelete" -> Absent

FirstIteration(s, n) ==
    /\ phase[s] = "first" /\ n \in NextNames(s)
    /\ Done(s, n) /\ Writes(s, FirstKeys(s, n))
    /\ IF mustAbort[s] THEN UNCHANGED <<objCatalogFile, objValueFile>>
       ELSE /\ objCatalogFile' = [objCatalogFile EXCEPT
                                    ![n] = FirstRecord(objects[s][n], @)]
            /\ objValueFile' = [r \in ValueId |->
                                  IF <<"value", r>> \in FirstKeys(s, n)
                                  THEN NoValue ELSE objValueFile[r]]
    /\ UNCHANGED <<made, files, typeCatalogFile, saved, cacheVars, mustAbort,
                   created, drops, pending>>

(* Second iteration: the values are saved, in a new record if the entry    *)
(* has none, and the values of deleted objects are deleted.  Of a record   *)
(* that has been inserted before, by whomever, only the value is written.  *)
Saves(s, n) ==
    /\ objects[s][n].state # "EntryDelete" /\ objects[s][n].value # NoValue
    /\ objCatalogFile[n] # Absent
ValueRecord(entry) == IF entry.rec = NoValue THEN entry.value ELSE entry.rec
SecondKeys(s, n) ==
    {ObjectKey(n)} \cup
    IF Saves(s, n) THEN ValueKeys(ValueRecord(objects[s][n])) ELSE {}

(* Mutant: the number of a new record for the value is not noted.          *)
SecondRecordKeepsId(entry, there) == [there EXCEPT !.defined = TRUE]

SecondRecord(entry, there) ==
    IF entry.rec = NoValue
    THEN [there EXCEPT !.defined = TRUE, !.rec = entry.value]
    ELSE [there EXCEPT !.defined = TRUE]

SecondIteration(s, n) ==
    /\ phase[s] = "second" /\ n \in NextNames(s)
    /\ Done(s, n) /\ Writes(s, SecondKeys(s, n))
    /\ LET entry == objects[s][n]
           r == ValueRecord(entry)
       IN  /\ IF Saves(s, n) /\ ~mustAbort[s]
              THEN /\ objCatalogFile' = [objCatalogFile EXCEPT
                                           ![n] = SecondRecord(entry, @)]
                   /\ objValueFile' =
                        IF entry.rec # NoValue /\ objValueFile[r] = NoValue
                        THEN objValueFile
                        ELSE [objValueFile EXCEPT ![r] = entry.value]
              ELSE UNCHANGED <<objCatalogFile, objValueFile>>
           /\ drops' = [drops EXCEPT ![s] =
                          IF entry.state = "EntryDelete"
                          THEN @ \cup ({entry.value} \ {NoValue}) ELSE @]
    /\ UNCHANGED <<made, files, typeCatalogFile, saved, cacheVars, mustAbort,
                   created, pending>>

(* Two transactions that wait for each other's records: the lock detector  *)
(* chooses one of them, whose write fails.                                 *)
Wanted(s) ==
    CASE phase[s] = "active" /\ pending[s] # Absent ->
            IF pending[s].op = "insert" THEN {ObjectKey(pending[s].new)}
            ELSE {ObjectKey(pending[s].old)}
      [] phase[s] = "types" -> {<<"type", t>> : t \in todo[s]}
      [] phase[s] = "first" -> UNION {FirstKeys(s, n) : n \in NextNames(s)}
      [] phase[s] = "second" -> UNION {SecondKeys(s, n) : n \in NextNames(s)}
      [] OTHER -> {}

DeadlockVictim(s) ==
    /\ ~mustAbort[s] /\ locks[s] # {}
    /\ \E k \in Wanted(s) : ~Free(s, k)
    /\ mustAbort' = [mustAbort EXCEPT ![s] = TRUE]
    /\ pending' = [pending EXCEPT ![s] = Absent]
    /\ UNCHANGED <<dbVars, cacheVars, phase, todo, locks, created, drops>>
----------------------------------------------------------------------------
Current == [objects |-> objCatalogFile, values |-> objValueFile,
            types |-> typeCatalogFile]

(* Mutant: everything is taken from new.                                   *)
MergeAll(S, new, old) == IF S = {} THEN old ELSE new

(* What the sessions S have locked is taken from new, the rest from old.   *)
Merge(S, new, old) ==
    LET Mine(k) == \E s \in S : k \in locks[s]
    IN  [objects |-> [n \in Name |->
            IF Mine(ObjectKey(n)) THEN new.objects[n] ELSE old.objects[n]],
         values |-> [r \in ValueId |->
            IF Mine(<<"value", r>>) THEN new.values[r] ELSE old.values[r]],
         types |-> {t \in NamedType :
            t \in IF Mine(<<"type", t>>) THEN new.types ELSE old.types}]

RollBack(S) ==
    LET contents == Merge(S, saved, Current)
    IN  /\ objCatalogFile' = contents.objects
        /\ objValueFile' = contents.values
        /\ typeCatalogFile' = contents.types
        /\ UNCHANGED saved

Cleared(f, S, none) == [s \in Session |-> IF s \in S THEN none ELSE f[s]]
Reset(S) ==
    /\ phase' = Cleared(phase, S, "none")
    /\ todo' = Cleared(todo, S, {})
    /\ types' = Cleared(types, S, NoTypes)
    /\ objects' = Cleared(objects, S, NoEntries)
    /\ locks' = Cleared(locks, S, {})
    /\ mustAbort' = Cleared(mustAbort, S, FALSE)
    /\ created' = Cleared(created, S, {})
    /\ drops' = Cleared(drops, S, {})

Ended(s) == phase[s] \in {"first", "second"} /\ todo[s] = {}

(* CleanUp clears the caches, and the storage manager ends the transaction *)
(* (see SmiEnvironment): it aborts that of a victim, but erases the files  *)
(* that were to be dropped in either case.                                 *)
EndTransaction(s) ==
    /\ Ended(s)
    /\ IF mustAbort[s]
       THEN /\ RollBack({s})
            /\ files' = (files \ created[s]) \ drops[s]
       ELSE /\ saved' = Merge({s}, Current, saved)
            /\ files' = files \ drops[s]
            /\ UNCHANGED <<objCatalogFile, objValueFile, typeCatalogFile>>
    /\ Reset({s})
    /\ UNCHANGED <<made, pending>>

(* Mutant: an abort erases the dropped files.                              *)
AbortDrops(s) ==
    /\ phase[s] = "active" /\ pending[s] = Absent
    /\ RollBack({s})
    /\ files' = (files \ created[s]) \ drops[s]
    /\ Reset({s})
    /\ UNCHANGED <<made, pending>>

(* CleanUp(TRUE) only clears the caches.                                   *)
AbortTransaction(s) ==
    /\ phase[s] = "active" /\ pending[s] = Absent
    /\ RollBack({s})
    /\ files' = files \ created[s]
    /\ Reset({s})
    /\ UNCHANGED <<made, pending>>

(* All servers go down, and recovery aborts what had not been committed.   *)
Crash ==
    /\ RollBack(Session)
    /\ files' = files \ UNION {created[s] : s \in Session}
    /\ Reset(Session)
    /\ pending' = [s \in Session |-> Absent]
    /\ UNCHANGED made
----------------------------------------------------------------------------
CacheStep(s) ==
    \/ \E n \in Name :
          \/ \E t \in Type, defined \in BOOLEAN :
                InsertObject(s, n, t, defined)
          \/ UpdateObject(s, n)
          \/ ModifyObject(s, n)
          \/ DeleteObject(s, n)
    \/ \E t \in NamedType : InsertType(s, t) \/ DeleteType(s, t)

FileStep(s) ==
    \/ \E n \in Name : KillCached(s, n) \/ KillStored(s, n)
    \/ \E old, new \in Name :
          RenameCached(s, old, new) \/ RenameStored(s, old, new)
    \/ DeleteOld(s)
    \/ InsertNew(s)

CleanUp(s) ==
    \/ \E t \in NamedType : CleanUpType(s, t)
    \/ \E n \in Name : FirstIteration(s, n) \/ SecondIteration(s, n)

Next ==
    \/ \E s \in Session :
          \/ BeginTransaction(s)
          \/ CacheStep(s)
          \/ FileStep(s)
          \/ CommitTransaction(s)
          \/ CleanUp(s)
          \/ DeadlockVictim(s)
          \/ EndTransaction(s)
          \/ AbortTransaction(s)
    \/ Crash

Spec == Init /\ [][Next]_vars

(* A command that has begun runs on.  Berkeley DB grants a lock to those   *)
(* that wait for it in their order, and so to everyone in the end; the     *)
(* lock detector looks at every request that has to wait.                  *)
Committing(s) == phase[s] \in {"types", "first", "second"}
FairSpec ==
    /\ Spec
    /\ \A s \in Session :
          /\ SF_vars(CleanUp(s))
          /\ WF_vars(EndTransaction(s))
          /\ SF_vars(DeleteOld(s) \/ InsertNew(s))
          /\ WF_vars(DeadlockVictim(s))
----------------------------------------------------------------------------
AsObject(contents, n) ==
    LET record == contents.objects[n]
    IN  IF record = Absent THEN Absent
        ELSE [type |-> record.type,
              value |-> IF record.defined /\ record.rec # NoValue
                        THEN contents.values[record.rec] ELSE NoValue]

(* Every object of the database is whole: its record leads to a value of   *)
(* its own, of its type, whose data is on disk, whatever the commands,     *)
(* commits, aborts and crashes that made it.                               *)
Value(n) == saved.values[saved.objects[n].rec]
Defined(n) == saved.objects[n] # Absent /\ saved.objects[n].defined
ObjectsIntact ==
    \A n \in Name : Defined(n) =>
        /\ saved.objects[n].rec # NoValue
        /\ Value(n) \in files
        /\ made[Value(n)] = saved.objects[n].type
        /\ \A m \in Name \ {n} : Defined(m) => Value(m) # Value(n)

(* DeleteType: a type is only deleted if it is not used by an object.      *)
TypesExist ==
    \A n \in Name :
        saved.objects[n] # Absent /\ saved.objects[n].type \in NamedType
        => saved.objects[n].type \in saved.types

(* An object that a transaction has created, changed or renamed is in the  *)
(* database under its name once the transaction has committed.             *)
CommitStoresObjects ==
    [][\A s \in Session : EndTransaction(s) /\ ~mustAbort[s] =>
          \A n \in Name : Cached(s, n) /\ IsObjectName(s, n) =>
              saved'.objects[n] # Absent]_vars

(* A commit ends, although CleanUp waits for the records of other sessions *)
(* and they for its records, unless a user leaves a transaction open that  *)
(* holds them.                                                             *)
CommitsEnd ==
    (\A s \in Session : []<>(phase[s] # "active"))
        => \A s \in Session : Committing(s) ~> phase[s] = "none"

(* The catalog implements ObjectStore as long as transactions change       *)
(* different objects and objects are renamed before anything else.         *)
Changed(s, n) ==
    IF Cached(s, n)
    THEN IF IsObjectName(s, n) THEN [type |-> objects[s][n].type,
                                     value |-> objects[s][n].value]
                               ELSE Absent
    ELSE IF Holds(s, n) THEN AsObject(Current, n) ELSE Unchanged

Store == INSTANCE ObjectStore WITH
    Object <- [type : Type, value : ValueId \cup {NoValue}],
    NoObject <- Absent,
    stored <- [n \in Name |-> AsObject(saved, n)],
    running <- [s \in Session |-> phase[s] # "none"],
    changes <- [s \in Session |-> [n \in Name |-> Changed(s, n)]]
StoreSpec == Store!Spec
=============================================================================
