--------------------------- MODULE SmiEnvironment ---------------------------
(***************************************************************************)
(* The transaction layer of the storage manager (StorageManager/), as the  *)
(* server processes of one database see it.  Every session owns one        *)
(* SmiEnvironment with at most one user transaction (usrTxn) and queues    *)
(* the requests that may only take effect when it ends: files to drop and  *)
(* named files to enter in the file catalog.  The database itself is       *)
(* shared: the files on disk, the file catalog, the FileId sequence and    *)
(* the records of the keyed catalog files, which refer to files by id.     *)
(*                                                                         *)
(* Berkeley DB is external: a transaction's writes are locked until it     *)
(* ends, file creations inside it are undone by an abort, Db::remove is    *)
(* not transactional, recovery aborts every unresolved transaction.        *)
(***************************************************************************)
EXTENDS Naturals, FiniteSets

CONSTANTS
    Session,          \* server processes, each with its own SmiEnvironment
    Record,           \* keys of the records that hold the id of an SmiFile
    Name,             \* names of the named SmiFiles
    Anonymous,        \* stands for the empty name of SmiFile::Create
    MaxFileId,        \* bound: no file id above it is handed out
    MaxRestarts,      \* bound: crashes of the whole system
    UseTransactions,  \* SmiEnvironment::useTransactions
    Deadlocks         \* whether the lock detector may pick a victim

NoFile == 0
FileId == 1..MaxFileId
FileIdOrNone == 0..MaxFileId
DropEntry == [fileId : FileId, dropOnCommit : BOOLEAN]

ASSUME SmiConstants ==
    /\ MaxFileId \in Nat /\ MaxRestarts \in Nat
    /\ UseTransactions \in BOOLEAN /\ Deadlocks \in BOOLEAN
    /\ Anonymous \notin Name
    /\ UseTransactions \/ \A s, t \in Session : s = t

VARIABLES
    \* the database
    seq,         \* the FileId sequence: the id handed out last
    disk,        \* ids of the files in the database folder
    catalog,     \* named file catalog, Name -> file
    store,       \* committed records, Record -> file
    restarts,
    \* one SmiEnvironment per session
    conn,        \* "closed", "scanned" (inside CorrectFileId), "ready" or
                 \* "failed" (what Open returned), "open"
    scan,        \* highest file number + 1 that CorrectFileId saw
    bound,       \* file on which the session holds each named file open
    reserved,    \* file id from GetFileId whose file does not exist yet
    phase,       \* "none", "active", "commit", "abort", "erase"
    erasing,     \* argument onCommit of the pending EraseFiles
    outcome,     \* how Berkeley DB ended the transaction that ends
    mustAbort,   \* txnMustAbort
    created,     \* files created by the running transaction
    locked,      \* records write locked by the running transaction
    writes,      \* their uncommitted values
    toDrop,      \* bdbFilesToDrop
    toCatalog,   \* bdbFilesToCatalog
    inserted     \* catalog entries inserted but not committed

dbVars  == <<seq, disk, catalog, store, restarts>>
openVars == <<conn, scan, bound>>
txnVars == <<phase, erasing, outcome, mustAbort, created, locked, writes,
             toDrop, toCatalog, inserted>>
vars == <<dbVars, openVars, reserved, txnVars>>

NoNames == [n \in Name |-> NoFile]
NoReservation == [fileId |-> NoFile, name |-> Anonymous]

TypeOK ==
    /\ seq \in 0..(MaxFileId + 1)
    /\ disk \subseteq FileId
    /\ catalog \in [Name -> FileIdOrNone]
    /\ store \in [Record -> FileIdOrNone]
    /\ restarts \in 0..MaxRestarts
    /\ conn \in [Session -> {"closed", "scanned", "ready", "failed", "open"}]
    /\ scan \in [Session -> 0..(MaxFileId + 1)]
    /\ bound \in [Session -> [Name -> FileIdOrNone]]
    /\ reserved \in [Session -> [fileId : FileIdOrNone,
                                 name : Name \cup {Anonymous}]]
    /\ phase \in [Session -> {"none", "active", "commit", "abort", "erase"}]
    /\ erasing \in [Session -> BOOLEAN]
    /\ outcome \in [Session -> {"none", "committed", "aborted"}]
    /\ mustAbort \in [Session -> BOOLEAN]
    /\ created \in [Session -> SUBSET FileId]
    /\ locked \in [Session -> SUBSET Record]
    /\ writes \in [Session -> [Record -> FileIdOrNone]]
    /\ toDrop \in [Session -> SUBSET DropEntry]
    /\ toCatalog \in [Session -> [Name -> FileIdOrNone]]
    /\ inserted \in [Session -> [Name -> FileIdOrNone]]

Init ==
    /\ seq = 0 /\ disk = {} /\ restarts = 0
    /\ catalog = NoNames
    /\ store = [r \in Record |-> NoFile]
    /\ conn = [s \in Session |-> "closed"]
    /\ scan = [s \in Session |-> 0]
    /\ bound = [s \in Session |-> NoNames]
    /\ reserved = [s \in Session |-> NoReservation]
    /\ phase = [s \in Session |-> "none"]
    /\ erasing = [s \in Session |-> FALSE]
    /\ outcome = [s \in Session |-> "none"]
    /\ mustAbort = [s \in Session |-> FALSE]
    /\ created = [s \in Session |-> {}]
    /\ locked = [s \in Session |-> {}]
    /\ writes = [s \in Session |-> [r \in Record |-> NoFile]]
    /\ toDrop = [s \in Session |-> {}]
    /\ toCatalog = [s \in Session |-> NoNames]
    /\ inserted = [s \in Session |-> NoNames]

Running(s) == phase[s] = "active" /\ reserved[s] = NoReservation
Opening(s) == Running(s) /\ conn[s] = "closed"
Unresolved(s) == phase[s] \in {"active", "commit", "abort"}
----------------------------------------------------------------------------
(* BeginTransaction: E_SMI_TXN_RUNNING when one has been started already.  *)
BeginTransaction(s) ==
    /\ phase[s] = "none"
    /\ phase' = [phase EXCEPT ![s] = "active"]
    /\ UNCHANGED <<dbVars, openVars, reserved, erasing, outcome, mustAbort,
                   created, locked, writes, toDrop, toCatalog, inserted>>

(* LookUpCatalog reads under a transaction of its own and waits while some *)
(* session holds an uncommitted entry for the name.                        *)
NameFree(n) == \A t \in Session : inserted[t][n] = NoFile

LookUp(s, n) == IF catalog[n] # NoFile THEN catalog[n] ELSE toCatalog[s][n]

(* SmiFile::Open by name, the file being known: the session opens it.      *)
OpenExisting(s, n) ==
    /\ Opening(s) /\ bound[s][n] = NoFile
    /\ NameFree(n) /\ LookUp(s, n) # NoFile
    /\ bound' = [bound EXCEPT ![s][n] = LookUp(s, n)]
    /\ UNCHANGED <<dbVars, conn, scan, reserved, txnVars>>

(* Whether the session may ask for the id of a new file: a named file that *)
(* neither catalog knows, or any file once the database is open.           *)
MayCreate(s, n) ==
    IF n \in Name
    THEN /\ conn[s] = "closed" /\ bound[s][n] = NoFile
         /\ NameFree(n) /\ LookUp(s, n) = NoFile
    ELSE conn[s] = "open"

(* GetFileId: a transaction of its own increments the sequence, so the id  *)
(* is used up whatever becomes of the user transaction.                    *)
GetFileId(s, n) ==
    /\ Running(s) /\ ~mustAbort[s] /\ MayCreate(s, n)
    /\ seq < MaxFileId
    /\ seq' = seq + 1
    /\ reserved' = [reserved EXCEPT ![s] = [fileId |-> seq + 1, name |-> n]]
    /\ UNCHANGED <<disk, catalog, store, restarts, openVars, txnVars>>

(* The file is opened with DB_CREATE, but without DB_EXCL, in the user     *)
(* transaction, and is to be dropped if that aborts.                       *)
NewFile(s, f) ==
    /\ disk' = disk \cup {f}
    /\ created' = [created EXCEPT ![s] = @ \cup ({f} \ disk)]
    /\ toDrop' = [toDrop EXCEPT ![s] =
                    @ \cup {[fileId |-> f, dropOnCommit |-> FALSE]}]
    /\ reserved' = [reserved EXCEPT ![s] = NoReservation]
    /\ UNCHANGED <<seq, catalog, store, restarts, conn, scan, phase, erasing,
                   outcome, mustAbort, locked, writes, inserted>>

(* The rest of SmiFile::Create, for an anonymous file.                     *)
Create(s) ==
    /\ reserved[s].fileId # NoFile /\ reserved[s].name = Anonymous
    /\ NewFile(s, reserved[s].fileId)
    /\ UNCHANGED <<bound, toCatalog>>

(* The rest of SmiFile::Open by name: the file is also to be catalogued.   *)
OpenNew(s) ==
    LET f == reserved[s].fileId
        n == reserved[s].name
    IN  /\ f # NoFile /\ n \in Name
        /\ NewFile(s, f)
        /\ bound' = [bound EXCEPT ![s][n] = f]
        /\ toCatalog' = [toCatalog EXCEPT ![s][n] = f]

Visible(s, r) == IF r \in locked[s] THEN writes[s][r] ELSE store[r]

(* Mutant: a record without a file asks for dropping it all the same.      *)
DropRequestUnchecked(f) == {[fileId |-> f, dropOnCommit |-> TRUE]}

DropRequest(f) ==
    IF f = NoFile THEN {} ELSE {[fileId |-> f, dropOnCommit |-> TRUE]}

(* Anonymous files of the running transaction that no record refers to.    *)
Unattached(s) ==
    {e.fileId : e \in {d \in toDrop[s] : ~d.dropOnCommit}}
              \ ({writes[s][r] : r \in locked[s]} \cup
                  {bound[s][n] : n \in Name} \cup
                  {e.fileId : e \in {d \in toDrop[s] : d.dropOnCommit}})

(* One record of a catalog file is written under the transaction: inserted *)
(* or updated to refer to a new file, or deleted (f = NoFile).  The file   *)
(* it referred to is dropped: SmiFile::Drop only queues the request.       *)
ReplaceRecord(s, r, f) ==
    /\ Running(s) /\ conn[s] = "open" /\ ~mustAbort[s]
    /\ \A t \in Session \ {s} : r \notin locked[t]
    /\ <<Visible(s, r), f>> # <<NoFile, NoFile>>
    /\ locked' = [locked EXCEPT ![s] = @ \cup {r}]
    /\ writes' = [writes EXCEPT ![s][r] = f]
    /\ toDrop' = [toDrop EXCEPT ![s] = @ \cup DropRequest(Visible(s, r))]
    /\ UNCHANGED <<dbVars, openVars, reserved, phase, erasing, outcome,
                   mustAbort, created, toCatalog, inserted>>

(* The session waits for a record that another one has locked and is made  *)
(* the victim: SetSmiError notes DB_LOCK_DEADLOCK in txnMustAbort.  The    *)
(* record is not written, but the caller goes on to delete the object, and *)
(* so its file, all the same.                                              *)
DeadlockVictim(s, r) ==
    /\ Deadlocks /\ Running(s) /\ conn[s] = "open" /\ ~mustAbort[s]
    /\ locked[s] # {} /\ \E t \in Session \ {s} : r \in locked[t]
    /\ mustAbort' = [mustAbort EXCEPT ![s] = TRUE]
    /\ toDrop' = [toDrop EXCEPT ![s] = @ \cup DropRequest(store[r])]
    /\ UNCHANGED <<dbVars, openVars, reserved, phase, erasing, outcome,
                   created, locked, writes, toCatalog, inserted>>
----------------------------------------------------------------------------
(* Mutant: an entry of the file catalog is overwritten.                    *)
InsertIntoCatalogOverwrites(n) == n \in Name

(* InsertIntoCatalog: DB_NOOVERWRITE, and the index on the names is unique.*)
InsertIntoCatalog(n) == catalog[n] = NoFile

(* UpdateCatalog enters the new named files in a nested transaction, which *)
(* is aborted when one of them cannot be entered; the queue is cleared in  *)
(* either case.  onCommit is not looked at, nor is the result.             *)
UpdateCatalog(s) ==
    LET new == {n \in Name : toCatalog[s][n] # NoFile}
        ok  == \A n \in new : InsertIntoCatalog(n)
    IN  /\ \A n \in new : NameFree(n)
        /\ inserted' = [inserted EXCEPT
                          ![s] = IF ok /\ ~mustAbort[s] THEN toCatalog[s]
                                                        ELSE NoNames]
        /\ toCatalog' = [toCatalog EXCEPT ![s] = NoNames]

(* CommitTransaction and AbortTransaction come in three steps, between     *)
(* which other sessions run and the system may crash.                      *)
CommitTransaction(s) ==
    /\ Running(s) /\ conn[s] \in {"ready", "open"}
    /\ UpdateCatalog(s)
    /\ phase' = [phase EXCEPT ![s] = "commit"]
    /\ UNCHANGED <<dbVars, openVars, reserved, erasing, outcome, mustAbort,
                   created, locked, writes, toDrop>>

(* The interface aborts when a command fails, OpenDatabase when Open does. *)
AbortTransaction(s) ==
    /\ Running(s) /\ conn[s] \in {"failed", "open"}
    /\ UpdateCatalog(s)
    /\ phase' = [phase EXCEPT ![s] = "abort"]
    /\ UNCHANGED <<dbVars, openVars, reserved, erasing, outcome, mustAbort,
                   created, locked, writes, toDrop>>

(* usrTxn->abort() for a transaction that must abort, on either path.      *)
Commits(s) == phase[s] = "commit" /\ (UseTransactions => ~mustAbort[s])

(* Berkeley DB ends the transaction.  An abort that Berkeley DB carries    *)
(* out returns 0 as a commit does, and 0 is all that EraseFiles is told.   *)
EndTransaction(s) ==
    /\ phase[s] \in {"commit", "abort"}
    /\ IF Commits(s) \/ ~UseTransactions
       THEN /\ store' = [r \in Record |-> Visible(s, r)]
            /\ catalog' = [n \in Name |-> IF inserted[s][n] # NoFile
                                          THEN inserted[s][n] ELSE catalog[n]]
            /\ UNCHANGED disk
       ELSE /\ disk' = disk \ created[s]
            /\ UNCHANGED <<store, catalog>>
    /\ outcome' = [outcome EXCEPT ![s] = IF Commits(s) THEN "committed"
                                                       ELSE "aborted"]
    /\ erasing' = [erasing EXCEPT ![s] = phase[s] = "commit"]
    /\ phase' = [phase EXCEPT ![s] = "erase"]
    /\ locked' = [locked EXCEPT ![s] = {}]
    /\ writes' = [writes EXCEPT ![s] = [r \in Record |-> NoFile]]
    /\ inserted' = [inserted EXCEPT ![s] = NoNames]
    /\ UNCHANGED <<seq, restarts, openVars, reserved, mustAbort, created,
                   toDrop, toCatalog>>

(* Mutants: EraseFiles looks at one of the two flags only, or considers a  *)
(* file done with the first of its requests.                               *)
ErasedWithoutFlag(s, onCommit) ==
    {e.fileId : e \in {d \in toDrop[s] : onCommit}}
ErasedOnAbort(s, onCommit) ==
    {e.fileId : e \in {d \in toDrop[s] : d.dropOnCommit}}
ErasedFirstOnly(s, onCommit) ==
    {e.fileId : e \in {d \in toDrop[s] : onCommit /\ d.dropOnCommit}}
        \ created[s]

(* The drop-on-abort requests are discarded whatever happens.              *)
Erased(s, onCommit) ==
    {e.fileId : e \in {d \in toDrop[s] : onCommit /\ d.dropOnCommit}}

(* EraseFiles, and the reset of the transaction state.  OpenDatabase ends  *)
(* here: the database is open, or closed again when opening it failed.     *)
EraseFiles(s) ==
    /\ phase[s] = "erase"
    /\ disk' = disk \ Erased(s, erasing[s])
    /\ toDrop' = [toDrop EXCEPT ![s] = {}]
    /\ created' = [created EXCEPT ![s] = {}]
    /\ mustAbort' = [mustAbort EXCEPT ![s] = FALSE]
    /\ phase' = [phase EXCEPT ![s] = "none"]
    /\ erasing' = [erasing EXCEPT ![s] = FALSE]
    /\ outcome' = [outcome EXCEPT ![s] = "none"]
    /\ IF conn[s] = "failed"
       THEN /\ conn' = [conn EXCEPT ![s] = "closed"]
            /\ bound' = [bound EXCEPT ![s] = NoNames]
       ELSE /\ conn' = [conn EXCEPT ![s] = "open"]
            /\ bound' = bound
    /\ UNCHANGED <<seq, catalog, store, restarts, scan, reserved, locked,
                   writes, toCatalog, inserted>>
----------------------------------------------------------------------------
(* The highest number in the names of the files, 0 if there are none.      *)
HighestOnDisk == {m \in disk \cup {0} : \A f \in disk : f <= m}

(* SecondoCatalog::Open stops opening the named files when one of them can *)
(* not be opened, here: when there is no id left for it.                   *)
AllOpen(s) == \A n \in Name : bound[s][n] # NoFile
OpenFails(s) == seq >= MaxFileId /\ \E n \in Name : MayCreate(s, n)

(* In either case it calls CorrectFileId, which scans the folder first ... *)
ScanFolder(s) ==
    /\ Opening(s) /\ (AllOpen(s) \/ OpenFails(s))
    /\ \E m \in HighestOnDisk : scan' = [scan EXCEPT ![s] = m + 1]
    /\ conn' = [conn EXCEPT ![s] = "scanned"]
    /\ UNCHANGED <<dbVars, bound, reserved, txnVars>>

(* Mutants: the sequence is set whatever its value is; Open goes on only   *)
(* when the sequence has been raised.                                      *)
SetFileIdLowers(s) ==
    /\ conn[s] = "scanned"
    /\ seq' = IF seq # 0 THEN scan[s] ELSE seq
    /\ conn' = [conn EXCEPT ![s] = IF AllOpen(s) THEN "ready" ELSE "failed"]
    /\ scan' = [scan EXCEPT ![s] = 0]
    /\ UNCHANGED <<disk, catalog, store, restarts, bound, reserved, txnVars>>

SetFileIdMustRaise(s) ==
    /\ conn[s] = "scanned"
    /\ seq' = IF seq # 0 /\ scan[s] > seq THEN scan[s] ELSE seq
    /\ conn' = [conn EXCEPT ![s] = IF seq' = seq THEN "scanned"
                                   ELSE IF AllOpen(s) THEN "ready" ELSE "failed"]
    /\ scan' = [scan EXCEPT ![s] = 0]
    /\ UNCHANGED <<disk, catalog, store, restarts, bound, reserved, txnVars>>

(* ... and then raises the sequence, which it never lowers.  It fails when *)
(* the sequence has no record yet.  Open does not look at the result.      *)
SetFileId(s) ==
    /\ conn[s] = "scanned"
    /\ seq' = IF seq # 0 /\ scan[s] > seq THEN scan[s] ELSE seq
    /\ conn' = [conn EXCEPT ![s] = IF AllOpen(s) THEN "ready" ELSE "failed"]
    /\ scan' = [scan EXCEPT ![s] = 0]
    /\ UNCHANGED <<disk, catalog, store, restarts, bound, reserved, txnVars>>

CloseDatabase(s) ==
    /\ conn[s] = "open" /\ phase[s] = "none"
    /\ conn' = [conn EXCEPT ![s] = "closed"]
    /\ bound' = [bound EXCEPT ![s] = NoNames]
    /\ UNCHANGED <<dbVars, scan, reserved, txnVars>>

(* The system crashes and the monitor starts it again: recovery aborts the *)
(* unresolved transactions.  Without transactions nothing is undone or     *)
(* redone: of the records and the sequence, what had been written back.    *)
Restart ==
    /\ restarts < MaxRestarts
    /\ restarts' = restarts + 1
    /\ IF UseTransactions
       THEN /\ disk' = disk \ UNION {created[s] :
                                       s \in {t \in Session : Unresolved(t)}}
            /\ UNCHANGED <<seq, catalog, store>>
       ELSE /\ disk' = disk
            /\ seq' \in 0..seq
            /\ catalog' \in {catalog, NoNames}
            /\ \E s \in Session :
                  store' \in {store, [r \in Record |-> Visible(s, r)]}
    /\ conn' = [s \in Session |-> "closed"]
    /\ scan' = [s \in Session |-> 0]
    /\ bound' = [s \in Session |-> NoNames]
    /\ reserved' = [s \in Session |-> NoReservation]
    /\ phase' = [s \in Session |-> "none"]
    /\ erasing' = [s \in Session |-> FALSE]
    /\ outcome' = [s \in Session |-> "none"]
    /\ mustAbort' = [s \in Session |-> FALSE]
    /\ created' = [s \in Session |-> {}]
    /\ locked' = [s \in Session |-> {}]
    /\ writes' = [s \in Session |-> [r \in Record |-> NoFile]]
    /\ toDrop' = [s \in Session |-> {}]
    /\ toCatalog' = [s \in Session |-> NoNames]
    /\ inserted' = [s \in Session |-> NoNames]
----------------------------------------------------------------------------
OpenStep(s) ==
    \/ \E n \in Name : OpenExisting(s, n)
    \/ \E n \in Name \cup {Anonymous} : GetFileId(s, n)
    \/ Create(s)
    \/ OpenNew(s)
    \/ ScanFolder(s)
    \/ SetFileId(s)
    \/ CloseDatabase(s)

WriteStep(s) ==
    \/ \E r \in Record, f \in Unattached(s) \cup {NoFile} :
          ReplaceRecord(s, r, f)
    \/ \E r \in Record : DeadlockVictim(s, r)

TransactionStep(s) ==
    \/ BeginTransaction(s)
    \/ CommitTransaction(s)
    \/ AbortTransaction(s)
    \/ EndTransaction(s)
    \/ EraseFiles(s)

Next ==
    \/ \E s \in Session : OpenStep(s) \/ WriteStep(s) \/ TransactionStep(s)
    \/ Restart

Spec == Init /\ [][Next]_vars

(* A session is one thread, which runs on: it creates the file whose id it *)
(* has taken, opens a database to the end, and FinishCommand ends the      *)
(* transaction of every command.                                           *)
OpenNamed(s) == \E n \in Name : OpenExisting(s, n) \/ GetFileId(s, n)
RunsOn(s) ==
    \/ OpenNamed(s) \/ Create(s) \/ OpenNew(s)
    \/ ScanFolder(s) \/ SetFileId(s)
    \/ AbortTransaction(s) \/ CommitTransaction(s)
    \/ EndTransaction(s) \/ EraseFiles(s)
Fairness == \A s \in Session : WF_vars(RunsOn(s))

FairSpec == Spec /\ Fairness
----------------------------------------------------------------------------
(* No committed record and no entry of the file catalog refers to a file   *)
(* that is gone: dropping is deferred past the commit that removes the     *)
(* reference, whatever the sessions and crashes in between.                *)
NoDanglingFile ==
    /\ \A r \in Record : store[r] # NoFile => store[r] \in disk
    /\ \A n \in Name : catalog[n] # NoFile => catalog[n] \in disk

(* GetFileId and CorrectFileId, run by several sessions and after crashes: *)
(* an id that was handed out belongs to no file and to no other session.   *)
FreshIds ==
    \A s \in Session : reserved[s].fileId # NoFile =>
        /\ reserved[s].fileId \notin disk
        /\ \A t \in Session \ {s} : reserved[t].fileId # reserved[s].fileId

(* A file serves one purpose: no two committed references share it.        *)
NoSharedFile ==
    /\ \A r, q \in Record : store[r] = store[q] => r = q \/ store[r] = NoFile
    /\ \A r \in Record, n \in Name : store[r] = catalog[n] => store[r] = NoFile

(* A file catalogued under a name stays the file of that name: of several  *)
(* sessions that create it, the catalog keeps the first.                   *)
NameStable ==
    [][\A n \in Name : catalog[n] # NoFile => catalog'[n] = catalog[n]]_vars

(* SecondoSMI.h: requests for deleting files are carried out only if the   *)
(* transaction completes successfully.                                     *)
Ends(s) == phase[s] = "erase" /\ phase'[s] = "none" /\ restarts' = restarts
DropOnlyAfterCommit ==
    [][\A s \in Session :
          Ends(s) /\ outcome[s] = "aborted" => disk' = disk]_vars

(* CorrectFileId sets the counter to the highest number in use: once it    *)
(* has run, no file has an id that the sequence has still to hand out.     *)
CounterCoversFiles ==
    \A s \in Session : conn[s] \in {"ready", "open"} =>
        \A f \in disk : f <= seq

(* Opening a database ends, although sessions wait in LookUpCatalog and in *)
(* UpdateCatalog for each other's uncommitted entries.                     *)
OpeningEnds ==
    \A s \in Session :
        phase[s] = "active" /\ conn[s] = "closed" ~> phase[s] = "none"

(* A file whose drop was requested is erased in the end, unless some       *)
(* transaction does not commit or the system crashes on the way.           *)
Requested(f) == \E s \in Session : DropRequest(f) \subseteq toDrop[s]
DroppedFilesErased ==
    \A f \in FileId :
        Requested(f) ~> \/ f \notin disk \/ restarts > 0
                        \/ \E s \in Session : outcome[s] = "aborted"
=============================================================================
