------------------------------ MODULE DbHandles ------------------------------
(***************************************************************************)
(* The Berkeley DB handles of one process (StorageManager/).  Berkeley DB  *)
(* wants a handle to stay open until the transaction that used it has      *)
(* ended, but an SmiFile may be closed or destroyed before.  So the        *)
(* SmiEnvironment keeps the handles in an array of its own, SmiFiles refer *)
(* to them by their index and only mark them as unused, and CloseDbHandles *)
(* closes the unused ones after a transaction.                             *)
(*                                                                         *)
(* Index 0 of the array is a dummy and stands for no handle.               *)
(***************************************************************************)
EXTENDS Naturals, Sequences

CONSTANTS
    SmiFile,       \* the objects of class SmiFile for permanent files
    Db,            \* the files of the database
    Flags,         \* combinations of flags a file can be opened with
    MaxHandles,    \* bound: size of the array
    LateDestroy,   \* whether an SmiFile may be destroyed some time after it
                   \* has been closed and not in the same breath
    Closed,        \* an entry of the array without a handle
    Unopened       \* a handle on which no file has been opened yet

ASSUME HandleConstants ==
    /\ MaxHandles \in Nat /\ LateDestroy \in BOOLEAN
    /\ {Closed, Unopened} \cap (Db \X Flags) = {}
    /\ Closed # Unopened /\ Unopened \notin Db

Index == 1..MaxHandles
NoIndex == 0

VARIABLES
    \* the array dbHandles
    allocated,   \* number of its entries, without the dummy
    handle,      \* the handle of an entry: the file it is open on, and how
    inUse,
    freeList,    \* entries without a handle, firstFreeDbHandle is the last
    closing,     \* the entry CloseDbHandles has come to, 0 when it is not run
    \* the files of the database
    exists,
    toDrop,      \* bdbFilesToDrop
    \* per SmiFile
    status,      \* "none" before it is constructed, "closed", "open"
    bdbHandle,   \* index of its handle
    noHandle,    \* it has given its handle back
    file         \* the file it is open on

arrayVars == <<allocated, handle, inUse, freeList, closing>>
dbVars == <<exists, toDrop>>
fileVars == <<status, bdbHandle, noHandle, file>>
vars == <<arrayVars, dbVars, fileVars>>

Handle == (Db \X Flags) \cup {Closed, Unopened}

TypeOK ==
    /\ allocated \in 0..MaxHandles
    /\ handle \in [Index -> Handle]
    /\ inUse \in [Index -> BOOLEAN]
    /\ freeList \in Seq(Index)
    /\ closing \in 0..(MaxHandles + 1)
    /\ exists \subseteq Db /\ toDrop \subseteq Db
    /\ status \in [SmiFile -> {"none", "closed", "open"}]
    /\ bdbHandle \in [SmiFile -> Index \cup {NoIndex}]
    /\ noHandle \in [SmiFile -> BOOLEAN]
    /\ file \in [SmiFile -> Db \cup {Unopened}]

Init ==
    /\ allocated = 0
    /\ handle = [i \in Index |-> Closed]
    /\ inUse = [i \in Index |-> FALSE]
    /\ freeList = << >>
    /\ closing = 0
    /\ exists = {} /\ toDrop = {}
    /\ status = [f \in SmiFile |-> "none"]
    /\ bdbHandle = [f \in SmiFile |-> NoIndex]
    /\ noHandle = [f \in SmiFile |-> TRUE]
    /\ file = [f \in SmiFile |-> Unopened]

Entries == 1..allocated
----------------------------------------------------------------------------
Construct(f) ==
    /\ closing = 0 /\ status[f] = "none"
    /\ status' = [status EXCEPT ![f] = "closed"]
    /\ UNCHANGED <<arrayVars, dbVars, bdbHandle, noHandle, file>>

(* The entry AllocateDbHandle takes: the first of the free list or, where  *)
(* there is none, a new one at the end of the array.                       *)
Allocatable == freeList # << >> \/ allocated < MaxHandles
Allocated ==
    IF freeList = << >> THEN allocated + 1 ELSE freeList[Len(freeList)]

(* Mutant: an entry of the free list is counted as a new one, too.         *)
AllocateGrows(db) ==
    /\ handle' = [handle EXCEPT ![Allocated] = db]
    /\ inUse' = [inUse EXCEPT ![Allocated] = TRUE]
    /\ allocated' = allocated + 1
    /\ freeList' = SubSeq(freeList, 1, Len(freeList) - 1)

(* Mutant: the entry stays on the free list.                               *)
AllocateKeepsList(db) ==
    /\ handle' = [handle EXCEPT ![Allocated] = db]
    /\ inUse' = [inUse EXCEPT ![Allocated] = TRUE]
    /\ allocated' = IF freeList = << >> THEN allocated + 1 ELSE allocated
    /\ UNCHANGED freeList

AllocateDbHandle(db) ==
    /\ handle' = [handle EXCEPT ![Allocated] = db]
    /\ inUse' = [inUse EXCEPT ![Allocated] = TRUE]
    /\ IF freeList = << >>
       THEN /\ allocated' = allocated + 1
            /\ UNCHANGED freeList
       ELSE /\ freeList' = SubSeq(freeList, 1, Len(freeList) - 1)
            /\ UNCHANGED allocated

(* CheckDbHandles and then Db::open: the SmiFile allocates a handle unless *)
(* it has one that could not be opened before.  Opening it may fail again. *)
OpenHandle(f, db, fl, ok) ==
    LET result == IF ok THEN <<db, fl>> ELSE Unopened
    IN  /\ IF noHandle[f]
           THEN /\ Allocatable
                /\ AllocateDbHandle(result)
                /\ bdbHandle' = [bdbHandle EXCEPT ![f] = Allocated]
           ELSE /\ handle' = [handle EXCEPT ![bdbHandle[f]] = result]
                /\ UNCHANGED <<inUse, allocated, freeList, bdbHandle>>
        /\ noHandle' = [noHandle EXCEPT ![f] = FALSE]
        /\ status' = [status EXCEPT ![f] = IF ok THEN "open" ELSE "closed"]
        /\ file' = [file EXCEPT ![f] = IF ok THEN db ELSE Unopened]

(* SmiFile::Create: the file is new.                                       *)
Create(f, db, fl, ok) ==
    /\ closing = 0 /\ status[f] = "closed"
    /\ db \notin exists /\ db \notin toDrop
    /\ OpenHandle(f, db, fl, ok)
    /\ exists' = IF ok THEN exists \cup {db} ELSE exists
    /\ UNCHANGED <<closing, toDrop>>

(* Mutant: an entry in use is taken all the same.                          *)
FindOpenInUse(db, fl) ==
    {i \in Entries : handle[i] = <<db, fl>>}

(* FindOpen: entries with an unused handle that is open on the file, and   *)
(* with the same flags, which depend on whether the file is opened by name *)
(* or by id and on whether a transaction is running.                       *)
FindOpen(db, fl) ==
    {i \in Entries : ~inUse[i] /\ handle[i] = <<db, fl>>}

(* SmiFile::Open where FindOpen has found a handle, the first one.  If the *)
(* SmiFile had one of its own, that is marked as unused.                   *)
OpenFound(f, db, fl) ==
    /\ closing = 0 /\ status[f] = "closed" /\ db \in exists
    /\ \E i \in FindOpen(db, fl) :
          /\ \A j \in FindOpen(db, fl) : i <= j
          /\ inUse' = [j \in Index |->
                j = i \/ (inUse[j] /\ (j = bdbHandle[f] => noHandle[f]))]
          /\ bdbHandle' = [bdbHandle EXCEPT ![f] = i]
    /\ status' = [status EXCEPT ![f] = "open"]
    /\ file' = [file EXCEPT ![f] = db]
    /\ UNCHANGED <<allocated, handle, freeList, closing, dbVars, noHandle>>

(* SmiFile::Open where it has not.                                         *)
OpenHandleOf(f, db, fl, ok) ==
    /\ closing = 0 /\ status[f] = "closed" /\ db \in exists
    /\ FindOpen(db, fl) = {}
    /\ OpenHandle(f, db, fl, ok)
    /\ UNCHANGED <<closing, dbVars>>

FreeDbHandle(f) ==
    inUse' = [i \in Index |-> inUse[i] /\ i # bdbHandle[f]]

(* SmiFile::Close; what it does to a file that is not open is nothing.     *)
Close(f) ==
    /\ closing = 0 /\ status[f] = "open"
    /\ FreeDbHandle(f)
    /\ status' = [status EXCEPT ![f] = "closed"]
    /\ noHandle' = [noHandle EXCEPT ![f] = TRUE]
    /\ file' = [file EXCEPT ![f] = Unopened]
    /\ UNCHANGED <<allocated, handle, freeList, closing, dbVars, bdbHandle>>

(* SmiFile::Drop closes the file and asks for erasing it.  Its owner sees  *)
(* to it that nobody else has it open or opens it again (Flob::dropFile).  *)
Drop(f) ==
    /\ closing = 0 /\ status[f] = "open" /\ file[f] \in exists
    /\ \A g \in SmiFile \ {f} : status[g] = "open" => file[g] # file[f]
    /\ FreeDbHandle(f)
    /\ status' = [status EXCEPT ![f] = "closed"]
    /\ noHandle' = [noHandle EXCEPT ![f] = TRUE]
    /\ toDrop' = toDrop \cup {file[f]}
    /\ exists' = exists \ {file[f]}
    /\ file' = [file EXCEPT ![f] = Unopened]
    /\ UNCHANGED <<allocated, handle, freeList, closing, bdbHandle>>

(* The destructor marks the handle as unused, whether the SmiFile is open, *)
(* has been closed just before, or some time ago.                          *)
Destroy(f) ==
    /\ closing = 0 /\ status[f] # "none"
    /\ \/ LateDestroy
       \/ status[f] = "open" \/ ~noHandle[f] \/ bdbHandle[f] = NoIndex
    /\ FreeDbHandle(f)
    /\ status' = [status EXCEPT ![f] = "none"]
    /\ bdbHandle' = [bdbHandle EXCEPT ![f] = NoIndex]
    /\ noHandle' = [noHandle EXCEPT ![f] = TRUE]
    /\ file' = [file EXCEPT ![f] = Unopened]
    /\ UNCHANGED <<allocated, handle, freeList, closing, dbVars>>
----------------------------------------------------------------------------
(* Mutant: the files are erased before the handles are closed.             *)
EndTransactionErases ==
    /\ closing = 0
    /\ closing' = allocated + 1
    /\ UNCHANGED <<allocated, handle, inUse, freeList, dbVars, fileVars>>

(* The transaction has ended, by CommitTransaction or AbortTransaction.    *)
EndTransaction ==
    /\ closing = 0
    /\ closing' = 1
    /\ UNCHANGED <<allocated, handle, inUse, freeList, dbVars, fileVars>>

(* One round of the loop of CloseDbHandles.                                *)
CloseDbHandle ==
    /\ closing \in Entries
    /\ IF ~inUse[closing] /\ handle[closing] # Closed
       THEN /\ handle' = [handle EXCEPT ![closing] = Closed]
            /\ freeList' = Append(freeList, closing)
       ELSE UNCHANGED <<handle, freeList>>
    /\ closing' = closing + 1
    /\ UNCHANGED <<allocated, inUse, dbVars, fileVars>>

(* EraseFiles, after the last round; an aborted transaction drops nothing. *)
EraseFiles ==
    /\ closing > allocated
    /\ closing' = 0
    /\ exists' \in {exists, exists \cup toDrop}
    /\ toDrop' = {}
    /\ UNCHANGED <<allocated, handle, inUse, freeList, fileVars>>
----------------------------------------------------------------------------
FileStep(f) ==
    \/ Construct(f)
    \/ \E db \in Db, fl \in Flags :
          \/ \E ok \in BOOLEAN : Create(f, db, fl, ok)
          \/ OpenFound(f, db, fl)
          \/ \E ok \in BOOLEAN : OpenHandleOf(f, db, fl, ok)
    \/ Close(f)
    \/ Drop(f)
    \/ Destroy(f)

Next ==
    \/ \E f \in SmiFile : FileStep(f)
    \/ EndTransaction
    \/ CloseDbHandle
    \/ EraseFiles

Spec == Init /\ [][Next]_vars
----------------------------------------------------------------------------
(* SmiBDB.h: the free elements, and no others, are on the free list, each  *)
(* of them once, so that no entry is handed out to two SmiFiles.           *)
FreeListSound ==
    /\ \A i, j \in 1..Len(freeList) : freeList[i] = freeList[j] => i = j
    /\ \A i \in Index : handle[i] = Closed /\ i <= allocated
                           <=> \E k \in 1..Len(freeList) : freeList[k] = i

(* The SmiFiles that have a handle: the open ones, and those that have     *)
(* tried to open a file and failed.                                        *)
Owns(f) == status[f] = "open" \/ (status[f] = "closed" /\ ~noHandle[f])

(* An SmiFile that is open has a handle for itself, which is open on its   *)
(* file, however long ago it was opened and whatever transactions have     *)
(* ended and SmiFiles have been closed or destroyed since.                 *)
OpenFilesHaveHandles ==
    \A f \in SmiFile : status[f] = "open" =>
        /\ bdbHandle[f] \in Entries
        /\ \E fl \in Flags : handle[bdbHandle[f]] = <<file[f], fl>>
        /\ inUse[bdbHandle[f]]
        /\ \A g \in SmiFile \ {f} : Owns(g) => bdbHandle[g] # bdbHandle[f]

(* EraseFiles removes a file only after all handles on it are closed: no   *)
(* entry stays in use that no SmiFile could ever give back.                *)
ErasedFilesAreClosed ==
    closing > allocated =>
        \A db \in toDrop, fl \in Flags, i \in Index : handle[i] # <<db, fl>>
=============================================================================
