# Secondo: the storage manager, the catalog and the Flob caches

Secondo is an extensible database system. A server process runs the commands
of one client; the servers of all clients share a Berkeley DB environment
through the *storage manager interface* (SMI). This directory holds TLA+
specifications of the part on which everything else depends: databases and who
may erase them, transactions, the files of a database, the catalog of its
objects, and the caches for their large data (*Flobs*). They were written from
the source code, and line numbers below refer to it.

## 1. Inventory

| Component | Source | State | Operations | Modelled |
|---|---|---|---|---|
| SMI environment | `StorageManager/bdbEnvironment.cpp`, `SmiBDB.h` | the running transaction, `bdbFilesToDrop`, `bdbFilesToCatalog`, `txnMustAbort`; shared: file catalog, file id sequence, database folder | Begin-, Commit-, AbortTransaction, GetFileId, SetFileId, CorrectFileId, LookUpCatalog, InsertIntoCatalog, UpdateCatalog, EraseFiles, Open-, CloseDatabase | `SmiEnvironment` |
| Database handles | the same, `StorageManager/bdbFile.cpp` | `dbHandles`, `firstFreeDbHandle`; per SmiFile `bdbHandle`, `noHandle`, `opened` | AllocateDbHandle, FindOpen, FreeDbHandle, CloseDbHandles; SmiFile's Create, Open, Close, Drop, destructor | `DbHandles` |
| Secondo catalog | `QueryProcessor/SecondoCatalog.cpp` | caches `types` and `objects`; files `typeCatalogFile`, `objCatalogFile`, `objValueFile` | InsertObject (CreateObject), UpdateObject, ModifyObject, DeleteObject, KillObject, RenameObject, InsertType, DeleteType, CleanUp | `SecondoCatalog`, `ObjectStore` |
| System and command interpreter | `QueryProcessor/SecondoSystem.cpp`, `SecondoInterfaceTTY.cpp` | `activeTransaction` | begin, commit, abort transaction; StartCommand and FinishCommand around every command; open and close database | in the guards of the others |
| Database lifecycle, registrar | `StorageManager/smiEnvironment.cpp`, `bdbEnvironment.cpp`, `ClientServer/SecondoRegistrar.cpp` | `dbRegister`, `dbLocks` of the registrar; directory of databases, a folder for each; per session `database`, `dbOpened` and the handles | CreateDatabase, OpenDatabase, CloseDatabase, EraseDatabase, RestoreDatabase; ExecRegister, ExecUnregister, ExecLock, ExecUnlock | `DatabaseLifecycle` |
| Native Flobs | `Tools/Flob/NativeFlobCache.h`, `FlobManager.cpp` | cached slots, LRU list, `usedSize`; the temporary file; the stack `DestroyedFlobs` | create, resize, getData, putData, destroy, killNativeFlobs; reduce | `NativeFlobCache`, `FlobStore` |
| Persistent Flobs | `Tools/Flob/PersistentFlobCache.cpp`, `FlobManager.cpp` | hash table with chains, LRU list, `usedSize`; the records of a transaction | saveTo, resize, getData, putData, destroy, clearCaches; reduce; commit, abort, crash | `PersistentFlobCache` |
| Records, keys, iterators | `bdbRecord.cpp`, `bdbKeyedFile.cpp`, ... | none of their own | wrappers around Berkeley DB | as atomic steps of the others |
| Server, client interface, monitor, listener, checkpoint | `ClientServer/` | sockets, child processes | protocol of one client and one server; restart after a crash | the restart only |
| Query processor | `QueryProcessor.cpp` | operator tree | annotate, evaluate streams | no: sequential and dominated by data |
| Algebras, optimizer, user interfaces, nested lists, main memory catalog | | | | no: clients of the above, or conversions of data |

How they interact. A command of the user arrives at the interpreter, which
begins a transaction (`StartCommand`) unless the user has begun one. The
command changes the caches of the catalog and creates, opens and drops
SmiFiles. `FinishCommand` commits or aborts: `SecondoSystem::CommitTransaction`
calls `SecondoCatalog::CleanUp`, which writes the caches to the catalog files
under the transaction, and then `SmiEnvironment::CommitTransaction`, which
enters new named files into the file catalog, lets Berkeley DB commit, closes
the handles nobody uses any more and erases the files whose drop was requested.
Before a session may work, it opens a database and registers it with the
registrar, a process of its own; whoever deletes a database asks the registrar
for a lock first. The algebras keep large values in Flobs: those of a running
command are native, in a temporary file that is emptied when the command ends,
those of stored objects are persistent, in records of SmiFiles. Each server has a
cache for either kind.

What is hard about it:

- *interleaving*: all servers read the shared files with `DB_DIRTY_READ`, so a
  decision is taken on data that may be rolled back; locks are held from a
  write to the end of the transaction only;
- *deferred effects*: caches, drop requests and entries of the file catalog
  live outside of Berkeley DB's transaction and are carried out before or after
  its commit, so they can be out of step with it; the cache of persistent Flobs is
  not told of a rollback at all;
- *partial failure*: the results of `UpdateCatalog`, `CleanUp`, `SetFileId` and
  of `DbTxn::abort` are ignored or mistaken for something else;
- *deadlocks*: the lock detector turns any write into a failure and any commit
  into an abort;
- *crashes*: the queues are lost, recovery aborts what was not committed, and
  the registrar is not told of a server that dies;
- *replacement*: any read of a Flob may push out the slots of others, changed
  ones among them, and Flob ids are used again.

The correctness properties of each component are listed with its runs in
section 4; `PROJECT.json` lists the hazards line by line, those not covered
with the reason.

## 2. Plan

Done, in this order:

1. `SmiEnvironment`, its runs, `SmiEnvironmentProofs` and `SmiReferencesProofs`: everything persistent
   depends on files being created, named and erased at the right time.
2. `ObjectStore`, `SecondoCatalog`, `SecondoCatalogProofs` and
   `CatalogObjectsProofs`: what the catalog promises, and how CleanUp keeps the
   promise.
3. `DbHandles` and `DbHandlesProofs`: the handle array under both of them.
4. `DatabaseLifecycle` and `DatabaseLifecycleProofs`: whether a database can be
   erased while somebody has it open.
5. `FlobStore`, `NativeFlobCache` and `NativeFlobCacheProofs`: what Flobs promise,
   and that the cache that writes back keeps the promise.
6. `PersistentFlobCache` and `PersistentFlobCacheProofs`: the same question for the
   cache that writes through, with its hash table, as its defects lie there.

What could follow: the transaction commands of the interpreter with the error
paths of FinishCommand, composing 1 and 2; ReCreate and temporary files in
`DbHandles`; `FlobManager::dropFile` and its map of open files.

## 3. Modules

**SmiEnvironment.** One SmiEnvironment per session (a server process) and the
database they share.

| Model | Code |
|---|---|
| `seq`, `disk`, `catalog` | record of the FileId sequence, files in the database folder, named file catalog |
| `store` | the committed records of some catalog file that hold ids of SmiFiles |
| `conn`, `scan`, `bound` | how far opening the database has come, what CorrectFileId has seen, the open named files |
| `phase`, `erasing`, `outcome`, `mustAbort` | where Begin/Commit/AbortTransaction stand, EraseFiles' argument, Berkeley DB's verdict, `txnMustAbort` |
| `created`, `locked`, `writes`, `inserted` | the part of the Berkeley DB transaction that matters here |
| `toDrop`, `toCatalog` | `bdbFilesToDrop`, `bdbFilesToCatalog` |

Commit and abort take three steps (`CommitTransaction`/`AbortTransaction`,
`EndTransaction`, `EraseFiles`), between which other sessions run and the system
may crash; opening a database takes one step for each named file it looks up,
each id it takes, each file it creates, the scan of the folder and the
correction of the sequence. `ReplaceRecord` stands for whatever a catalog does
with a record: insert, update or delete it, and drop the file it referred to.

Abstractions: a lock is per record, where Berkeley DB's are per page. `Restart`
is a crash of all servers with recovery; the crash of one server without
recovery leaves its locks behind and blocks the others, which is left to the
operator. SetFileId raises the sequence to one above the highest number found,
so that one id is skipped; the model does the same. Without transactions
(`UseTransactions = FALSE`) there is only one session (`SmiConstants`), which is
how Secondo is run then.

**ObjectStore.** What a user may expect of the objects of a database: a
transaction's changes become visible all at once, in the step that commits.

**SecondoCatalog.** The caches of each session, the three catalog files as dirty
readers see them, and their committed contents (`saved`). CleanUp is a loop over
the types and two loops over the objects: one step for each entry, in the order
of the map. `Writes` waits for a lock or takes it, `DeadlockVictim` makes a
waiting call fail. RenameObject and KillObject of objects that are not cached
go to the file in several steps (`pending`).

Abstractions: a value is a number in the order of creation and its data outside
of the value record is `files`; a value record is named by the first value
written to it. Types are names without structure; those of `NamedType` have a
record in the type catalog. `SharedObjects = FALSE` expresses that users do not
let two transactions change one object at a time; `RenameUse` says when they use
`changename`. What happens otherwise is shown by the runs `catalog_rename` and
`catalog_waits`.

**DbHandles.** The array of handles of one process, the SmiFiles that refer to
it, and the part of the end of a transaction that closes handles and erases
files. The loop of CloseDbHandles is one step per entry, and no SmiFile is used
meanwhile, as there is one thread. Opening may fail at the call of Berkeley DB
and leaves the SmiFile with a handle that is not open. A handle stands for the
file and the flags it was opened with, as FindOpen compares them. `Drop` is
called only by an owner that has the file open alone (`FlobManager::dropFile` and
the delete functions of the algebras). `LateDestroy` says whether an SmiFile may
outlive its Close for a while: the destructor marks the entry as unused once
more, and by then it may belong to somebody else. The callers read so far delete
an SmiFile as soon as they have closed it, so the runs and the theorem about
open files have it FALSE.

**DatabaseLifecycle.** All sessions, the registrar and the databases.

| Model | Code |
|---|---|
| `databases`, `folder` | `bdbDatabases`, the folder of a database and whether anything was stored in it |
| `registered`, `lock` | the registrar's `dbRegister` (a multimap: how often each user is in it) and `dbLocks` |
| `pc`, `command`, `database`, `dbOpened` | the next step of the command, `SmiEnvironment::database`, `dbOpened` |
| `handle`, `leaked` | `bdbSeq`, `bdbCatalog`, `bdbCatalogIndex` are open; such handles that CreateDatabase has left behind |
| `granted` | history: the registrar has confirmed the registration |

CreateDatabase looks the name up, creates the files, inserts the name into the
directory, registers, and opens the catalog; OpenDatabase does the same without
inserting; EraseDatabase looks the name up, locks, deletes the record, removes the
files and unlocks. Each of these is an action, as other sessions run in
between. RestoreDatabase erases, whatever comes of it, and creates. CreateDatabase
of the system closes and erases a database whose catalog it cannot open.
A call of the registrar is one action, because the registrar serves one request
at a time and the caller waits for the answer.

Faults. `Failures` says what may go wrong, at most `MaxFaults` times: a call of
Berkeley DB fails (in InitializeDatabase, whose result is then the one of closing
the files, so that its callers go on, unless that fails as well; in DeleteDatabase; in
removing one of the files, when those with the data may be gone or not; in opening the catalog), a
restore meets an error, a request to the registrar or its answer is lost, or a
server dies. The registrar does not learn of the latter, as in the code.

User ids. The registrar knows a session by its user id, "-UNKNOWN-" when there is
none, and several sessions may have the same. `UserOf` gives them; the run and the
theorems about registrations assume different ones (`DistinctUsers`), and with equal
ones TLC violates RegistrationsKept: a session whose registration was refused
unregisters nevertheless and removes the entry of the other session.

**FlobStore.** What Flobs promise: arrays of bytes that can be created, resized,
written and destroyed, where a byte keeps what was written last. Bytes that were
never written have no value that anybody may rely on.

**NativeFlobCache.** `live` and `size` are the Flobs; `appended`, `destroyed` and
`disk` are `nativeFlobFile` with its records and the stack of ids to be used again;
`cached`, `len`, `mem`, `changed` are the entries of the cache; `newer` is the LRU list
as a set of pairs, the more recent one first, in which bringToFront is one set
expression; `usedSize` is kept as the code keeps it, by adding and subtracting,
while AccountRight counts the bytes that the entries hold (`HeldBy`), so that it
says something. A call of getData or putData takes a step to
fetch a slot and one to copy, and `Reduce` replaces one entry at a time whenever
usedSize is too large; nothing else happens meanwhile, as a server has one thread.
create and resize make several entries and call reduce after each; the model
makes all of them and then reduces, which leaves the same ones, since both keep the
entries at the front of the list that fit. The hash table is left out; entries
are found by Flob and slot.

`written` is a history variable: the bytes a user has written. With it, the
refinement mapping to FlobStore gives a byte its cached value, or else the one on
disk, if it was written at all.

**PersistentFlobCache.** One server process and the records its transactions see.

| Model | Code |
|---|---|
| `life`, `size`, `record` | the Flobs in their records, as the running transaction sees them |
| `saved` | the same as last committed (Berkeley DB) |
| `chain`, `prev` | `hashtable` with `tableNext`, and `tablePrev` |
| `newer`, `len`, `mem`, `usedSize` | the LRU list, the entries and the account, as above |
| `call` | the slots a call of getData or putData has come through |
| `stale`, `unread` | history: cached slots of a Flob that was rolled back; cached slots that a write has brought in without reading the rest of them |
| `status` | history: what went wrong in the process |

A write goes to the cached slots and then to the record (`WriteThrough`), a new Flob
past the cache (`SaveTo`), and destroying a Flob leaves its slots in the cache.
`Commit`, `Abort` and `Crash` end a transaction. Neither `abort transaction`
(`SecondoInterfaceTTY.cpp:945`) nor FinishCommand after a failed command (`:2634`) nor
`SecondoSystem::AbortTransaction` touches the cache, so `Abort` changes the records only.
A record's number is not used again while the record of it was committed,
but a rollback of its appending gives it free (`DB_APPEND`, `bdbRecordFile.cpp:343`),
and then SaveTo may take the same id. `Crash` loses the process with its cache
at any moment, also in the midst of a call; the next one starts with an empty
cache on what recovery leaves. Writes to Berkeley DB that fail end the process by an
assertion, so they need no action of their own. The command that closes the
database commits and clears the cache (`CloseDatabase`).

`status` tells apart what a wrong link leads to: `assertion` is the one of reduce
that an entry without predecessor is the first one of its chain, `null` a missing
predecessor that killLastSlot follows, `dangling` an entry that is its own
predecessor and stays in the chain when it is freed. `astray` (`GoAstray`) is a copy
to or from a cached slot that is too short for it: the size of the Flob has
been rolled back to a larger one, and the code computes with the bytes
available in the slot as if they were there.

`Writable` names the Flobs that are written and resized (FlobManager warns of it, and
does it). `Mark` bounds the sizes of each Flob and where reads and writes of it begin and
end. `WritersApart`
says that a slot of a Flob that is written has a chain of its own. It is no
assumption of the module but of two theorems, because of line 538 (section 5);
the run satisfies it, and `PersistentChain.cfg` does not.
`None`, the null pointer in `prev`, is no entry (`NullPointer`).

**MC modules** (`MC` and the name of a module) define the small sets and the
symmetry for TLC.

In all modules, definitions called a mutant in their comment are plausible
mistakes in the code. They are not part of the specification; replacing the
real definition by one of them shows that a property can tell them apart.

## 4. Runs

| Run | Instance | States | Shows |
|---|---|---|---|
| `smi_transactions` | 2 sessions, 2 records, 2 named files, 5 ids, 1 crash | 406 768 | TypeOK, NoDanglingFile, NoSharedFile, FreshIds, CounterCoversFiles, NameStable, DropOnlyAfterCommit hold without deadlock victims |
| `smi_progress` | 2 sessions, 2 records, 1 named file, 4 ids, deadlock victims, fair | 306 760 | OpeningEnds, DroppedFilesErased |
| `smi_drop_rollback` | 2 sessions, 2 records, deadlock victims | violated | DropOnlyAfterCommit fails for a victim |
| `catalog_alone` | 1 session, 2 objects, a type with a name, 2 values | 1 760 131 | TypeOK, ObjectsIntact, TypesExist, CommitStoresObjects |
| `catalog_disjoint` | 2 sessions, 2 objects, 2 values | 224 749 | ObjectsIntact, and that SecondoCatalog implements ObjectStore |
| `catalog_waits` | 2 sessions that share 2 objects, fair | 63 702 | CommitsEnd |
| `catalog_rename` | 1 session that renames what it has changed | violated | CommitStoresObjects |
| `db_handles` | 3 SmiFiles, 2 files, 2 kinds of flags, 3 entries | 113 190 | TypeOK, FreeListSound, OpenFilesHaveHandles, ErasedFilesAreClosed |
| `db_lifecycle` | 3 sessions, 1 database, 1 fault of any kind | 1 207 730 | TypeOK, EraserAlone, RegistrationsKept, RegisteredNotErased |
| `db_erase_race` | 2 sessions, 1 database, no fault | violated | ProtectedWhileOpen |
| `native_flobs` | 2 Flobs of up to 4 bytes, slots of 2, cache of 3 | 1 090 306 | TypeOK, AccountRight, SlotsFit, IdsExclusive, and that NativeFlobCache implements FlobStore |
| `persistent_flobs` | 3 Flobs, one of up to 4 bytes that is written, slots of 2, cache of 3, table of 4 | 793 331 | TypeOK, ProcessSound, TableMatchesList, ReduceSparesNewest, SlotsCoverFlob, CacheAgreesWithRecord |

Bounds. Two sessions show every conflict the code has: each is between one
session and "some other". Two records are what a deadlock needs. CorrectFileId
skips one id after the named files, so that two are left for the records in both
runs; in `smi_progress` one name is enough for sessions to wait for each other's
entries. `MaxFileId` is reached in the runs, so the error path
of GetFileId is taken. One crash suffices because recovery resets all that a
crash could build on. Two values let an object be updated once; with
`catalog_waits` there are none, as locks are taken without regard to values.
In `db_lifecycle` a third session matters, as one may erase while another is
refused and a third one opens; one database suffices, since a session works on one
at a time and nothing the registrar keeps is shared by two. One fault is enough
to lose any one message or fail any one call. The caches hold less than two
full slots, so misses replace something; Flobs of two slots let a call touch both and let
one be cut off or grown in the middle of a slot. In `persistent_flobs` calls and Flobs
begin and end at the bytes 0, 1, 2 and 4 (`Mark`): in the midst of a slot and at its ends.
f1 is written and resized, f2 and f3 are read, and their first slots share a chain. The
constraint `FewFlobs` keeps the run small by what is there at a time: f1 alone with its two
slots, which replace each other; f1 and f2 with one slot each, so that another Flob
replaces the slot that is written; or f2 and f3 with three slots, where a victim
is the first or the second one of its chain.
The transactions of the persistent Flobs are not counted: any number of commits,
rollbacks and crashes may follow each other, as all of them lead back to the same finite
set of states. One value is enough for native Flobs, since a
byte that was not written is distinct from it; persistent Flobs have two, as
what is read must be the last of two writes.
Three entries of the handle array for three SmiFiles allow the list to grow, be
emptied and be reused, and make the limit of the model (`MaxHandles`, the vector
in the code grows) reachable.

Fairness. In SmiEnvironment a session that has begun to open a database or to
end a transaction runs on (WF of its next step, `RunsOn`): a server is one thread in
a loop, and the steps wait for nothing but other sessions' uncommitted entries,
which are removed without waiting in turn. In SecondoCatalog the steps that
take locks have SF, because Berkeley DB grants a lock in the order of the
requests; the lock detector runs at every request that has to wait (WF). The
end of a user's own transaction is not assumed: CommitsEnd is conditional on
no session leaving a transaction open for ever. DroppedFilesErased counts as
discharged when any transaction aborts, as the request of an aborted one is
withdrawn by design.

Deadlock of the specifications is checked in every run: some command is always
possible.

## 5. Disagreements found

Each of the three violated runs stops at a behaviour of the code that a comment
of its own contradicts; `PROJECT.json` quotes them.

- *A victim's dropped files are erased* (`bdbEnvironment.cpp:1911`).
  CommitTransaction aborts the transaction of a deadlock victim; `rc` is 0, as
  the abort succeeded, and EraseFiles takes that for a commit. The records that
  come back refer to files that are gone.
- *Renaming a changed object* (`SecondoCatalog.cpp:1367`) leaves an entry to update a
  record that does not exist; the object keeps its old name and has lost its value.
- *A refused registration is ignored* (`bdbEnvironment.cpp:1665`). OpenDatabase has
  looked the database up and opened its files before it registers. If somebody
  has locked it for erasing meanwhile, the registrar refuses, and the session
  works on a database whose record is deleted. RegisteredNotErased shows
  that a confirmed registration does protect.

The cache of persistent Flobs has three more, each with a configuration of
`MCPersistentFlobCache` that is no run of the project, but ends with a
violation within a minute:

- *A rollback leaves the cache* (`PersistentRollback.cfg`, AbortRevokesChanges; `SecondoSystem.cpp:957`). A Flob is saved and read,
  the transaction is aborted, the next Flob gets the number of the record that was
  revoked (`DB_APPEND`), and who reads it finds the slots of the revoked one in the
  cache. With a Flob that is written, a rolled back `putData` is enough; with one that is
  resized, copies run over the end of a cached slot (`GoAstray`). `include/SecondoInterface.h:514`
  says of an abort that all changes to the database will be revoked.
- *A write to a part of a slot* (`PersistentPartial.cfg`, WritesKeepTheRest; `PersistentFlobCache.cpp:512`, `:534`). The condition `rd`
  reads a slot from disk when it is going to be overwritten and does not when
  a part of it is kept, so the rest of the cached slot is what malloc returned. On
  disk the Flob is right, but the next read takes the cached bytes.
- *A chain with a writer* (`PersistentChain.cfg`, ProcessSound; `PersistentFlobCache.cpp:538`). The assignment
  `entry->tablePrev = entry` is meant for the new entry. That one seems to be the first
  one of its chain, and reduce fails at its assertion (`:480`) when it is replaced, or
  frees the other one while it still is in the chain.

CacheAgreesWithRecord says that the first two are all that is wrong with the
contents of the cache: it exempts the slots of Flobs whose changes were rolled
back, and the slots that were brought in without reading the rest, and holds
for every other slot, however Flobs are written, resized, replaced, destroyed,
rolled back and saved again. AbortRevokesChanges and WritesKeepTheRest are the same
statement without the one or the other exemption.

The other instances keep away from some behaviours of the code, which are listed
as hazards: a sequence record that is lost without transactions is not repaired
(`bdbEnvironment.cpp:466`); two sessions that create the same named file or the same
object (`:1889`, `SecondoCatalog.cpp:3470`) both commit. NameStable holds all the same for
the former: it says that the entry of the one who came first is kept, not that the
other one is told. Sessions with one user id unregister each other. CreateDatabase
that comes second to insert a name leaves its handles open (`bdbEnvironment.cpp:1607`);
`leaked` shows them and no property forbids them.

## 6. Theorems

`SmiEnvironmentProofs` is checked by TLAPS for any number of sessions, records,
names, ids and crashes.

- `TypeCorrect`: `Spec => []TypeOK`, with no assumption but `SmiConstants`.
- `FreshIdsHold`, `CounterCoversFilesHolds` (assuming `UseTransactions`). FreshIds is
  not inductive: whether an id is new depends on the sequence. `IdInv` adds
  `SeqAhead`, that neither a file nor a reserved id is ahead of the sequence, and
  that the sequence exists once a session is past SetFileId. CorrectFileId's
  stale scan does no harm since SetFileId only raises. Without transactions the
  sequence may fall back in a crash, and both properties fail.
- `DropOnlyAfterCommitHolds` (assuming `~Deadlocks`). `VerdictInv` says that without
  victims Berkeley DB's verdict and the argument of EraseFiles agree; with
  victims they do not, which is the first disagreement of section 5.

`SmiReferencesProofs` goes on from there.

- `NoDanglingFileHolds`, `NoSharedFileHolds` (assuming `UseTransactions` and
  `~Deadlocks`). Whether a file may be erased depends on who else could refer to it,
  so `ReferenceInv` says to whom every file belongs: a file that a running
  transaction has created is on disk, nothing committed refers to it, and no other
  running transaction has created it (`NewFilesPrivate`); what a transaction writes
  are files of its own, each in one record, that it has not dropped (`WritesNew`);
  what it drops is its own or was referred to by a record it has locked (`DropsOwn`);
  and what EraseFiles is about to erase is nobody's (`ErasesUnreferred`). NoSharedFile
  is a part of it, as replacing one reference must remove the last. New ids are
  needed twice: GetFileId's id is the file of nobody (FreshIds), and not one whose
  drop has been requested. TLC has checked ReferenceInv on the instance of
  `smi_transactions`. With victims the requests of an aborted transaction are carried
  out, ErasesUnreferred fails, and so does NoDanglingFile.
- `NameStableHolds` (assuming `UseTransactions`, also with victims). An uncommitted
  entry is for a name that the catalog does not have and that no other session has
  entered (`EntersFreeName`).

`SecondoCatalogProofs` is checked for any number of sessions, objects, types and
values.

- `TypeCorrect`: `Spec => []TypeOK`, with no assumption but `CatalogConstants`. CleanUp
  writes the record of an entry from what the cache says, which is a record only
  if the entry is there: `CachedTodo` says that every name the iterations have still
  to come to is in the cache.

`CatalogObjectsProofs` goes on from there, for any number of sessions, objects,
types and values as well. Its assumptions are about how users work, not about
the catalog; the instance of `catalog_alone` satisfies those of
`ObjectsStayIntactApart`, `CommitsStoreObjects` and `TypesStayExisting`, and that
of `catalog_disjoint` those of `ObjectsStayIntactApart`, `CommitsStoreObjects` and
`CatalogImplementsStore`.

- `ExclusiveUse`, for all of them: nobody touches what the running transaction of
  somebody else has changed, and nobody renames what the own one has touched,
  unless it has created it. Without the first, two entries are about one record;
  the second is the disagreement of section 5.
- `CatalogInvariant`: `CatalogInv`, which holds with deadlock victims and crashes.
  What it takes to see that CleanUp writes an object whole is spread over two iterations,
  the caches of all sessions, and what an abort would bring back:
  - a name that is cached or locked by a session, and the record of a value, belongs to no
    other session (`SessionsApart`), and nothing else differs from what was
    committed (`UnlockedCommitted`), so a rollback by one session does not
    take from another;
  - different objects have different records of values (`RecordsApart`) and
    these have different values (`ValuesApart`), both among what dirty readers
    see and among what was committed, and from the one to the other, because a rollback
    restores some of them and leaves the rest;
  - who has locked the record of a value has locked its object (`ValueLocks`), and a
    record leads to a value of its type (`RecordsRight`);
  - a value that a transaction has created is in nothing committed, and in no record but
    one that CleanUp has written in its second iteration (`CreatedPrivate`);
  - an object that is renamed or killed in the files stays as it was read
    until the step that uses it (`PendingRight`);
  - an entry fits the record in the file before the first iteration comes to it, after
    it, and after the second (`EntriesRight`), and its value is a new one or that of
    the record;
  - a value that is to be erased on commit is of no object but those that this
    transaction has still to write (`DoomedRight`).
- `ObjectsStayIntact`, `ObjectsStayIntactApart`. `FilesKept` adds that the data
  on disk of every value in a record or an entry is there. This needs that no
  transaction must abort (`NoVictims`): what a victim wanted to drop is erased although
  its transaction is aborted (section 5), and the objects it had deleted are back
  without their data. The first theorem speaks of behaviours without victims.
  In the second there cannot be any: sessions that keep to their own objects
  only wait for the records of types, and one session waits for nobody.
- `CommitsStoreObjects`, with victims. `EntriesRight` of an entry that both iterations
  have passed says that the record is there; the commit saves what is locked.
- `CatalogImplementsStore` (`StoreUse`: objects are renamed only when the
  transaction has not touched them, and inside of transactions): `Spec => StoreSpec`.
  `StoreInv` adds that a command on the files is inside of a transaction
  (`PendingInside`) and that the first iteration only stands at its end when nothing is
  cached (`FirstRuns`), so that a commit from there loses nothing. Then what a session would commit, an entry
  if there is one and else the locked record, does not change while CleanUp writes it;
  each command is a step of the store, the commit, the abort and the crash end
  its transactions, and all others are stutters. KillObject and RenameObject of the
  files are steps of the store where the record is deleted or inserted. Renaming
  an object of the cache changes two objects in one step, which no step of ObjectStore
  does; for that there is the weaker CommitStoresObjects.
- `TypesStayExisting`, for one session (`Alone`). `TypeInv` relates the type
  catalog, its committed contents and the cache: a type that an object sees or that a
  committed object has is one that the session finds, and the committed objects
  have committed types (`KnownTypes`); entries of types agree with the type catalog
  before and after CleanUp comes to them (`TypeEntries`), and types nobody has
  locked are as committed (`TypesCommitted`). For several sessions the theorem
  does not hold: DeleteType looks for objects of the type in the files and in its own
  cache, not in that of others (the hazard at `SecondoCatalog.cpp:469`).

They use that `Absent` and `Unchanged` are none of the records, entries and objects
(`AbsentIsNothing`).

`DbHandlesProofs` is checked for any number of SmiFiles, files, flags and entries.

- `TypeCorrect`: `Spec => []TypeOK`, with no assumption but `HandleConstants`.
- `FreeListSoundHolds`, `OpenFilesHaveHandlesHolds`, `ErasedFilesAreClosedHolds`
  (assuming `~LateDestroy`). They depend on each other: an open SmiFile keeps its
  handle because CloseDbHandles passes by entries in use, entries in use are not
  on the free list, and nobody but the owner frees an entry. `HandleInv` says so:
  every owner (an SmiFile that is open, or that has a handle it failed to open)
  has an entry of the array in use (`OwnersHaveHandles`), no two have the same
  (`ExclusiveOwners`), every entry in use has an owner (`InUseOwned`), no open file
  is to be erased (`DroppedUnopened`), and the entries that CloseDbHandles has come
  past are closed or in use (`Swept`). TLC has checked HandleInv on the instance
  of `db_handles` too. With `LateDestroy` the destructor frees an entry it does not
  own, and ExclusiveOwners no longer implies that the owner keeps it: TLC then
  violates OpenFilesHaveHandles.

`DatabaseLifecycleProofs` is checked for any number of sessions, databases, users and
faults of all kinds.

- `TypeCorrect`: `Spec => []TypeOK`. That counts do not fall below zero is what
  needs the guard of ExecUnregister.
- `RegistrationsKeptHolds`, `EraserAloneHolds`, `RegisteredNotErasedHolds` (assuming
  `DistinctUsers`). `LifecycleInv` adds that a locked database has no
  entry (`LockExcludes`), that the database is locked while a session is between
  locking and unlocking (`ErasersLock`), that there is one such session at most
  (`OneEraser`), and that only an open database has a confirmed registration
  (`GrantedOpen`). ExecUnlock does not look at the owner of the lock, so OneEraser is
  needed to see that nobody else takes it away. A lost answer is harmless because it
  leaves the sender with less than the registrar thinks: a lock that nobody uses or
  an entry that nobody relies on.

`NativeFlobCacheProofs` is checked for any number of Flobs and any size of Flobs,
slots and cache.

- `TypeCorrect`, `SlotsFitHolds`, `IdsExclusiveHolds`, and `CacheInvisible`: `Spec =>
  StoreSpec`, the cache implements FlobStore. `CacheInv` adds that written bytes belong
  to a Flob of that size (`WrittenWithin`), that an entry which is not marked as changed
  agrees with the disk on the written bytes (`CleanAgrees`), and that a running call
  stays inside of its Flob (`CallFits`). Replacement then keeps the contents: a clean
  entry may go, since the disk agrees, and a changed one is saved as far as it reaches,
  which is as far as the Flob does, by SlotsFit. Resizing needs SlotsFit to know that
  no slot is made twice and that none is left behind the end. `StepStore` maps each
  action: the last copy of a write, like every other one, is a Write of the bytes
  copied; fetching, replacing and reading are stutters.

- `AccountRightHolds`. `AccountInv` says that `usedSize` is the number of bytes of Flobs
  that lie in cached slots (`Account`, where `Inside` is defined by the sizes of the
  Flobs and not by those of the entries), that the list orders any two entries
  (`ListOrders`) and that it is well-founded (`ListEnds`). By SlotsFit the bytes inside are
  those that the entries hold, so each action adds or takes away intervals of
  bytes: a slot, all full slots, what lies between two ends. Shrinking takes the
  erased slots and a part of the last one, which do not overlap; enlarging adds
  the rest of the last slot and the slots behind it. A victim exists since a
  well-founded list has an end, and it is not the only entry because one slot is
  smaller than the cache.

`PersistentFlobCacheProofs` is checked for any number of Flobs, any hash values, and
any size of slots, cache and table.

- `TypeCorrect`, `AlwaysVictim` (ReduceSparesNewest) and `CopiesInside`
  (SlotsCoverFlob), with no assumption but `CacheConstants` and `NullPointer`: these hold
  however Flobs are written and transactions end. `CacheInv` adds to TypeOK that every
  entry is once in the
  chain of its hash value (`ChainsSound`), that the list orders the entries and
  is well-founded (`ListOrders`, `ListEnds`), that `usedSize` is the number of bytes of all
  entries (`Account`), that a running call stays inside of its Flob (`CallFits`), and, of
  the entries that no rollback has made stale, that their Flob was saved
  (`NoStrangers`) and that they have a full slot or are the last one of their Flob with all
  that is left for it (`SlotsWhole`); only in a stale one can a call go astray
  (`AstrayStale`). That
  `usedSize` does not fall below zero needs Account, and Account needs that an entry
  inserted is not there yet, which is what ChainsSound is for. AlwaysVictim needs
  that the cache has room for more than one slot.
- `ProcessStaysSound`, `TableStaysMatched` (assuming `WritersApart`: a slot of a Flob
  that is written has a chain of its own; a process that only reads satisfies it with any
  hash values). `LinksSound` says that every entry knows its predecessor in its chain.
  Getting a slot on reading sets the link right, taking an entry out passes its
  predecessor on, and the wrong assignment of putDataToFlobSlot (section 5) does no harm
  to an entry that is alone in its chain. `PersistentChain.cfg` shows that
  the assumption cannot be dropped.
- `CacheStaysRight`, with no further assumption: whatever parts are written, committed, rolled
  back and lost in crashes. `BytesInv` says of every entry that is neither stale nor unread
  (`Kept`) that its bytes are those of the record, or those that the running write is going to
  put there, as far as it has come (`Expected`). It speaks of destroyed Flobs, too, because a
  rollback brings them back. An abort keeps it since the entries of every
  Flob whose size or record it changes become stale; a write that brings a slot
  in keeps it since the slot is read, filled or marked as unread, and replacement since the
  record has everything but the running write.

Each proof follows the same pattern: `Init => Inv`, one step for each action
under `Inv /\ [Next]_vars => Inv'`, and `Inv => property`.

Only model-checked: the liveness properties (TLAPS does not treat fairness and
ENABLED). Every invariant and every other action property of a passing run is
stated by a theorem, under the assumptions given here.

## 7. Not modelled

Page locks and the log of Berkeley DB, which is taken to implement transactions;
temporary SmiFiles; the caches of other server processes, which do not learn of a write to a
persistent Flob; a restore that fails and closes the database without clearing the caches
(`SecondoInterfaceTTY.cpp:1124`); FlobManager's map of open files, dropFile, Flobs in external
files and in main memory; logging in at the registrar; the single user mode of
the database lifecycle; builds with THREAD_SAFE; records, keys and iterators beyond insert, update and delete;
data of values; the interface to the algebras (the functions `Open`, `Save`, `Close`
and `Delete` of a type are taken to do what their names say); listings; the
processes of monitor, listener and checkpoint; sockets; query processing; the
optimizer and the user interfaces. `PROJECT.json` gives the reason for each
component.
