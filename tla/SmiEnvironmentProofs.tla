------------------------ MODULE SmiEnvironmentProofs ------------------------
(***************************************************************************)
(* Theorems about SmiEnvironment for every number of sessions, records,    *)
(* names and files.                                                        *)
(***************************************************************************)
EXTENDS SmiEnvironment, TLAPS

(* Type correctness: every variable stays in its range; in particular no   *)
(* request for dropping a file is ever queued without a file id, which is  *)
(* what the constructor of SmiDropFilesEntry asserts.                      *)
LEMMA TypeInit == Init => TypeOK
BY SmiConstants DEF Init, TypeOK, NoNames, NoReservation, NoFile, FileIdOrNone

LEMMA DropEntries ==
    ASSUME NEW f \in FileId, NEW b \in BOOLEAN
    PROVE  [fileId |-> f, dropOnCommit |-> b] \in DropEntry
BY DEF DropEntry

LEMMA DropRequests ==
    ASSUME NEW f \in FileIdOrNone, MaxFileId \in Nat
    PROVE  DropRequest(f) \subseteq DropEntry
<1>1. CASE f = NoFile
  BY <1>1 DEF DropRequest
<1>2. CASE f # NoFile
  <2>1. f \in FileId
    BY <1>2 DEF NoFile, FileId, FileIdOrNone
  <2> QED
    BY <1>2, <2>1, DropEntries DEF DropRequest
<1> QED
  BY <1>1, <1>2

(* The variables that NewFile changes.                                     *)
NewFileTypeOK ==
    /\ disk \subseteq FileId
    /\ created \in [Session -> SUBSET FileId]
    /\ toDrop \in [Session -> SUBSET DropEntry]
    /\ reserved \in [Session -> [fileId : FileIdOrNone,
                                 name : Name \cup {Anonymous}]]

LEMMA NewFileTypes ==
    ASSUME TypeOK, NEW s \in Session, NEW f \in FileId, NewFile(s, f)
    PROVE  NewFileTypeOK'
<1>1. disk' \subseteq FileId
  BY DEF TypeOK, NewFile
<1>2. created' \in [Session -> SUBSET FileId]
  BY DEF TypeOK, NewFile
<1>3. toDrop' \in [Session -> SUBSET DropEntry]
  <2>1. [fileId |-> f, dropOnCommit |-> FALSE] \in DropEntry
    BY DropEntries
  <2> QED
    BY <2>1 DEF TypeOK, NewFile
<1>4. reserved' \in [Session -> [fileId : FileIdOrNone,
                                name : Name \cup {Anonymous}]]
  BY SmiConstants DEF TypeOK, NewFile, NoReservation, NoFile, FileIdOrNone
<1> QED
  BY <1>1, <1>2, <1>3, <1>4 DEF NewFileTypeOK

LEMMA TypeStep == TypeOK /\ [Next]_vars => TypeOK'
<1> SUFFICES ASSUME TypeOK, [Next]_vars PROVE TypeOK'
  OBVIOUS
<1> USE SmiConstants DEF TypeOK, dbVars, openVars, txnVars, NoFile, FileId,
        FileIdOrNone
<1>1. ASSUME NEW s \in Session, OpenStep(s) PROVE TypeOK'
  <2>1. ASSUME NEW n \in Name, OpenExisting(s, n) PROVE TypeOK'
    BY <2>1 DEF OpenExisting, LookUp
  <2>2. ASSUME NEW n \in Name \cup {Anonymous}, GetFileId(s, n) PROVE TypeOK'
    BY <2>2 DEF GetFileId
  <2>3. CASE Create(s)
    <3>1. reserved[s].fileId \in FileId
      BY <2>3 DEF Create
    <3>3. TypeOK' <=> NewFileTypeOK'
      BY <2>3 DEF Create, NewFile, NewFileTypeOK
    <3>4. NewFile(s, reserved[s].fileId)
      BY <2>3 DEF Create
    <3> QED
      BY <3>1, <3>3, <3>4, NewFileTypes
  <2>4. CASE OpenNew(s)
    <3>1. reserved[s].fileId \in FileId
      BY <2>4 DEF OpenNew
    <3>3. TypeOK' <=> NewFileTypeOK'
      BY <2>4, <3>1 DEF OpenNew, NewFile, NewFileTypeOK
    <3>4. NewFile(s, reserved[s].fileId)
      BY <2>4 DEF OpenNew
    <3> QED
      BY <3>1, <3>3, <3>4, NewFileTypes
  <2>5. CASE ScanFolder(s)
    BY <2>5 DEF ScanFolder, HighestOnDisk
  <2>6. CASE SetFileId(s)
    BY <2>6 DEF SetFileId
  <2>7. CASE CloseDatabase(s)
    BY <2>7 DEF CloseDatabase, NoNames
  <2> QED
    BY <1>1, <2>1, <2>2, <2>3, <2>4, <2>5, <2>6, <2>7 DEF OpenStep
<1>2. ASSUME NEW s \in Session, WriteStep(s) PROVE TypeOK'
  <2>1. ASSUME NEW r \in Record, NEW f \in Unattached(s) \cup {NoFile},
               ReplaceRecord(s, r, f)
        PROVE  TypeOK'
    <3>1. f \in FileIdOrNone
      <4>1. toDrop[s] \subseteq DropEntry
        OBVIOUS
      <4>2. ASSUME NEW e \in toDrop[s] PROVE e.fileId \in FileIdOrNone
        BY <4>1 DEF DropEntry
      <4>3. f = NoFile \/ \E e \in toDrop[s] : f = e.fileId
        BY DEF Unattached
      <4> QED
        BY <4>2, <4>3
    <3>2. DropRequest(Visible(s, r)) \subseteq DropEntry
      BY DropRequests DEF Visible
    <3> QED
      BY <2>1, <3>1, <3>2 DEF ReplaceRecord
  <2>2. ASSUME NEW r \in Record, DeadlockVictim(s, r) PROVE TypeOK'
    <3>1. DropRequest(store[r]) \subseteq DropEntry
      BY DropRequests
    <3> QED
      BY <2>2, <3>1 DEF DeadlockVictim
  <2> QED
    BY <1>2, <2>1, <2>2 DEF WriteStep
<1>3. ASSUME NEW s \in Session, TransactionStep(s) PROVE TypeOK'
  <2>1. CASE BeginTransaction(s)
    BY <2>1 DEF BeginTransaction
  <2>2. CASE CommitTransaction(s)
    BY <2>2 DEF CommitTransaction, UpdateCatalog, NoNames
  <2>3. CASE AbortTransaction(s)
    BY <2>3 DEF AbortTransaction, UpdateCatalog, NoNames
  <2>4. CASE EndTransaction(s)
    <3>1. /\ store' \in [Record -> FileIdOrNone]
          /\ catalog' \in [Name -> FileIdOrNone]
          /\ disk' \subseteq FileId
      <4>1. CASE Commits(s) \/ ~UseTransactions
        <5>1. \A r \in Record : Visible(s, r) \in FileIdOrNone
          BY DEF Visible
        <5>2. store' \in [Record -> FileIdOrNone]
          BY <2>4, <4>1, <5>1 DEF EndTransaction
        <5>3. catalog' \in [Name -> FileIdOrNone]
          <6>1. catalog' = [n \in Name |-> IF inserted[s][n] # NoFile
                                           THEN inserted[s][n]
                                           ELSE catalog[n]]
            BY <2>4, <4>1 DEF EndTransaction
          <6>2. \A n \in Name : inserted[s][n] \in FileIdOrNone
            OBVIOUS
          <6> QED
            BY <6>1, <6>2
        <5>4. disk' = disk
          BY <2>4, <4>1 DEF EndTransaction
        <5> QED
          BY <5>2, <5>3, <5>4
      <4>2. CASE ~(Commits(s) \/ ~UseTransactions)
        BY <2>4, <4>2 DEF EndTransaction
      <4> QED
        BY <4>1, <4>2
    <3>2. /\ phase' \in [Session -> {"none", "active", "commit", "abort", "erase"}]
          /\ outcome' \in [Session -> {"none", "committed", "aborted"}]
          /\ erasing' \in [Session -> BOOLEAN]
      BY <2>4 DEF EndTransaction
    <3>3. /\ locked' \in [Session -> SUBSET Record]
          /\ writes' \in [Session -> [Record -> FileIdOrNone]]
          /\ inserted' \in [Session -> [Name -> FileIdOrNone]]
      BY <2>4 DEF EndTransaction, NoNames
    <3> QED
      BY <2>4, <3>1, <3>2, <3>3 DEF EndTransaction
  <2>5. CASE EraseFiles(s)
    <3>1. /\ conn' \in [Session ->
                       {"closed", "scanned", "ready", "failed", "open"}]
          /\ bound' \in [Session -> [Name -> FileIdOrNone]]
      <4>1. CASE conn[s] = "failed"
        <5>1. /\ conn' = [conn EXCEPT ![s] = "closed"]
              /\ bound' = [bound EXCEPT ![s] = NoNames]
          BY <2>5, <4>1 DEF EraseFiles
        <5> QED
          BY <5>1 DEF NoNames
      <4>2. CASE conn[s] # "failed"
        BY <2>5, <4>2 DEF EraseFiles
      <4> QED
        BY <4>1, <4>2
    <3>2. /\ disk' \subseteq FileId
          /\ toDrop' \in [Session -> SUBSET DropEntry]
          /\ created' \in [Session -> SUBSET FileId]
      BY <2>5 DEF EraseFiles
    <3>3. /\ mustAbort' \in [Session -> BOOLEAN]
          /\ phase' \in [Session -> {"none", "active", "commit", "abort", "erase"}]
      BY <2>5 DEF EraseFiles
    <3> QED
      BY <2>5, <3>1, <3>2, <3>3 DEF EraseFiles
  <2> QED
    BY <1>3, <2>1, <2>2, <2>3, <2>4, <2>5 DEF TransactionStep
<1>4. CASE Restart
  <2>1. /\ seq' \in 0..(MaxFileId + 1) /\ disk' \subseteq FileId
        /\ catalog' \in [Name -> FileIdOrNone]
        /\ restarts' \in 0..MaxRestarts
    <3>1. catalog' \in {catalog, NoNames} /\ seq' \in 0..seq
      BY <1>4 DEF Restart
    <3>2. catalog' \in [Name -> FileIdOrNone]
      BY <3>1 DEF NoNames
    <3>3. disk' \subseteq disk /\ restarts' = restarts + 1 /\ restarts < MaxRestarts
      BY <1>4 DEF Restart
    <3> QED
      BY <3>1, <3>2, <3>3
  <2>2. store' \in [Record -> FileIdOrNone]
    <3>1. CASE UseTransactions
      BY <1>4, <3>1 DEF Restart
    <3>2. CASE ~UseTransactions
      <4>1. PICK s \in Session :
                store' \in {store, [r \in Record |-> Visible(s, r)]}
        BY <1>4, <3>2 DEF Restart
      <4>2. \A r \in Record : Visible(s, r) \in FileIdOrNone
        BY DEF Visible
      <4> QED
        BY <4>1, <4>2
    <3> QED
      BY <3>1, <3>2
  <2>3. /\ conn' \in [Session ->
                     {"closed", "scanned", "ready", "failed", "open"}]
        /\ scan' \in [Session -> 0..(MaxFileId + 1)]
        /\ bound' \in [Session -> [Name -> FileIdOrNone]]
        /\ reserved' \in [Session -> [fileId : FileIdOrNone,
                                      name : Name \cup {Anonymous}]]
    BY <1>4 DEF Restart, NoNames, NoReservation
  <2>4. /\ phase' \in [Session -> {"none", "active", "commit", "abort", "erase"}]
        /\ erasing' \in [Session -> BOOLEAN]
        /\ outcome' \in [Session -> {"none", "committed", "aborted"}]
        /\ mustAbort' \in [Session -> BOOLEAN]
        /\ created' \in [Session -> SUBSET FileId]
        /\ locked' \in [Session -> SUBSET Record]
    BY <1>4 DEF Restart
  <2>5. /\ writes' \in [Session -> [Record -> FileIdOrNone]]
        /\ toDrop' \in [Session -> SUBSET DropEntry]
        /\ toCatalog' \in [Session -> [Name -> FileIdOrNone]]
        /\ inserted' \in [Session -> [Name -> FileIdOrNone]]
    BY <1>4 DEF Restart, NoNames
  <2> QED
    BY <2>1, <2>2, <2>3, <2>4, <2>5
<1>5. CASE UNCHANGED vars
  BY <1>5 DEF vars
<1> QED
  BY <1>1, <1>2, <1>3, <1>4, <1>5 DEF Next

THEOREM TypeCorrect == Spec => []TypeOK
BY TypeInit, TypeStep, PTL DEF Spec
----------------------------------------------------------------------------
(* What makes fresh ids fresh when Berkeley DB has transactions: the ids   *)
(* on disk and those handed out are never ahead of the sequence, which     *)
(* survives a crash and which CorrectFileId only raises.                   *)
SeqAhead ==
    /\ \A f \in disk : f <= seq
    /\ \A s \in Session : reserved[s].fileId <= seq

IdInv == TypeOK /\ SeqAhead /\ FreshIds

LEMMA IdInit == Init => IdInv
<1> SUFFICES ASSUME Init PROVE IdInv
  OBVIOUS
<1>1. TypeOK
  BY TypeInit
<1>2. disk = {} /\ seq = 0 /\ \A s \in Session : reserved[s].fileId = 0
  BY DEF Init, NoReservation, NoFile
<1> QED
  BY <1>1, <1>2 DEF IdInv, SeqAhead, FreshIds, NoFile

(* Steps that hand out no id and create no file: the sequence is not       *)
(* lowered, files only disappear, and reservations are kept or given up.   *)
Quiet ==
    /\ seq' >= seq
    /\ disk' \subseteq disk
    /\ \A s \in Session : reserved'[s] \in {reserved[s], NoReservation}

LEMMA IdQuiet == ASSUME IdInv, TypeOK', Quiet PROVE IdInv'
<1>1. /\ seq \in Nat /\ seq' \in Nat /\ disk \subseteq Nat
      /\ \A s \in Session : reserved[s].fileId \in Nat
  BY SmiConstants DEF IdInv, TypeOK, FileId, FileIdOrNone
<1>2. SeqAhead'
  BY <1>1 DEF IdInv, SeqAhead, Quiet, NoReservation, NoFile
<1>3. FreshIds'
  BY <1>1 DEF IdInv, FreshIds, Quiet, NoReservation, NoFile
<1> QED
  BY <1>2, <1>3 DEF IdInv

LEMMA IdNewFile ==
    ASSUME IdInv, TypeOK', NEW s \in Session, reserved[s].fileId # NoFile,
           NewFile(s, reserved[s].fileId)
    PROVE  IdInv'
<1>1. /\ seq' = seq
      /\ disk' = disk \cup {reserved[s].fileId}
      /\ reserved' = [reserved EXCEPT ![s] = NoReservation]
  BY DEF NewFile
<1>2. /\ seq \in Nat /\ disk \subseteq Nat
      /\ \A t \in Session : reserved[t].fileId \in Nat
      /\ \A t \in Session : reserved'[t] =
            IF t = s THEN NoReservation ELSE reserved[t]
  BY <1>1, SmiConstants DEF IdInv, TypeOK, FileId, FileIdOrNone
<1>3. SeqAhead'
  BY <1>1, <1>2 DEF IdInv, SeqAhead, NoReservation, NoFile
<1>4. FreshIds'
  BY <1>1, <1>2 DEF IdInv, FreshIds, NoReservation, NoFile
<1> QED
  BY <1>3, <1>4 DEF IdInv

LEMMA IdStep == UseTransactions /\ IdInv /\ [Next]_vars => IdInv'
<1> SUFFICES ASSUME UseTransactions, IdInv, [Next]_vars PROVE IdInv'
  OBVIOUS
<1>1. TypeOK /\ TypeOK'
  BY TypeStep DEF IdInv
<1>2. seq \in Nat /\ scan \in [Session -> Nat]
  BY <1>1, SmiConstants DEF TypeOK
<1> USE DEF dbVars, openVars, txnVars
<1>3. ASSUME NEW s \in Session, NEW n \in Name \cup {Anonymous}, GetFileId(s, n)
      PROVE  IdInv'
  <2>1. /\ seq' = seq + 1 /\ disk' = disk
        /\ reserved' = [reserved EXCEPT
                           ![s] = [fileId |-> seq + 1, name |-> n]]
    BY <1>3 DEF GetFileId
  <2>2. /\ disk \subseteq Nat
        /\ \A t \in Session : reserved[t].fileId \in Nat
        /\ \A t \in Session : reserved'[t].fileId =
              IF t = s THEN seq + 1 ELSE reserved[t].fileId
    BY <1>1, <2>1, SmiConstants DEF TypeOK, FileId, FileIdOrNone
  <2>3. SeqAhead'
    BY <1>2, <2>1, <2>2 DEF IdInv, SeqAhead
  <2>4. FreshIds'
    BY <1>2, <2>1, <2>2 DEF IdInv, SeqAhead, FreshIds
  <2> QED
    BY <1>1, <2>3, <2>4 DEF IdInv
<1>4. ASSUME NEW s \in Session, Create(s) \/ OpenNew(s) PROVE IdInv'
  BY <1>1, <1>4, IdNewFile DEF Create, OpenNew
<1>5. ASSUME NEW s \in Session, SetFileId(s) PROVE Quiet
  BY <1>1, <1>2, <1>5 DEF SetFileId, Quiet
<1>6. ASSUME NEW s \in Session, EndTransaction(s) PROVE Quiet
  BY <1>1, <1>2, <1>6 DEF EndTransaction, Quiet
<1>7. ASSUME NEW s \in Session, EraseFiles(s) PROVE Quiet
  BY <1>1, <1>2, <1>7 DEF EraseFiles, Quiet
<1>8. ASSUME Restart PROVE Quiet
  BY <1>1, <1>2, <1>8 DEF Restart, Quiet
<1>9. ASSUME NEW s \in Session,
             \/ \E n \in Name : OpenExisting(s, n)
             \/ ScanFolder(s) \/ CloseDatabase(s) \/ WriteStep(s)
             \/ BeginTransaction(s) \/ CommitTransaction(s)
             \/ AbortTransaction(s)
      PROVE  Quiet
  <2>1. UNCHANGED <<seq, disk, reserved>>
    BY <1>9 DEF OpenExisting, ScanFolder, CloseDatabase, WriteStep,
         ReplaceRecord, DeadlockVictim, BeginTransaction, CommitTransaction,
         AbortTransaction
  <2> QED
    BY <1>2, <2>1 DEF Quiet
<1>10. CASE UNCHANGED vars
  BY <1>1, <1>2, <1>10, IdQuiet DEF vars, Quiet
<1> QED
  BY <1>1, <1>3, <1>4, <1>5, <1>6, <1>7, <1>8, <1>9, <1>10, IdQuiet
     DEF Next, OpenStep, TransactionStep

(* GetFileId never hands out an id that a file or another session has, and *)
(* a database that is open has no file ahead of its sequence, for every    *)
(* number of sessions and crashes, provided Berkeley DB has transactions.  *)
THEOREM FreshIdsHold == UseTransactions => (Spec => []FreshIds)
<1> SUFFICES ASSUME UseTransactions PROVE Spec => []FreshIds
  OBVIOUS
<1>1. IdInv /\ [Next]_vars => IdInv'
  BY IdStep
<1>2. IdInv => FreshIds
  BY DEF IdInv
<1> QED
  BY IdInit, <1>1, <1>2, PTL DEF Spec

(* Once CorrectFileId has run, no file is ahead of the sequence.           *)
THEOREM CounterCoversFilesHolds ==
    UseTransactions => (Spec => []CounterCoversFiles)
<1> SUFFICES ASSUME UseTransactions PROVE Spec => []CounterCoversFiles
  OBVIOUS
<1>1. IdInv /\ [Next]_vars => IdInv'
  BY IdStep
<1>2. IdInv => CounterCoversFiles
  BY DEF IdInv, SeqAhead, CounterCoversFiles
<1> QED
  BY IdInit, <1>1, <1>2, PTL DEF Spec
----------------------------------------------------------------------------
(* Without deadlock victims CommitTransaction commits, so that EraseFiles  *)
(* is told to carry out the requests only when Berkeley DB has committed.  *)
VerdictInv ==
    /\ TypeOK
    /\ \A s \in Session : ~mustAbort[s]
    /\ \A s \in Session :
          phase[s] = "erase" /\ outcome[s] = "aborted" => ~erasing[s]

LEMMA VerdictInit == Init => VerdictInv
BY TypeInit DEF Init, VerdictInv

LEMMA VerdictStep == ~Deadlocks /\ VerdictInv /\ [Next]_vars => VerdictInv'
<1> SUFFICES ASSUME ~Deadlocks, VerdictInv, [Next]_vars PROVE VerdictInv'
  OBVIOUS
<1>1. TypeOK /\ TypeOK'
  BY TypeStep DEF VerdictInv
<1> USE DEF dbVars, openVars, txnVars
<1>2. ASSUME UNCHANGED <<phase, erasing, outcome, mustAbort>> PROVE VerdictInv'
  BY <1>1, <1>2 DEF VerdictInv
<1>3. ASSUME NEW s \in Session, EndTransaction(s) PROVE VerdictInv'
  <2>1. /\ mustAbort' = mustAbort
        /\ phase' = [phase EXCEPT ![s] = "erase"]
        /\ outcome' = [outcome EXCEPT ![s] = IF Commits(s) THEN "committed"
                                                           ELSE "aborted"]
        /\ erasing' = [erasing EXCEPT ![s] = phase[s] = "commit"]
    BY <1>3 DEF EndTransaction
  <2>2. Commits(s) \/ phase[s] # "commit"
    BY DEF VerdictInv, Commits
  <2>3. outcome'[s] = "aborted" => ~erasing'[s]
    BY <1>1, <2>1, <2>2 DEF TypeOK
  <2>4. \A t \in Session \ {s} : /\ phase'[t] = phase[t]
                                /\ outcome'[t] = outcome[t]
                                /\ erasing'[t] = erasing[t]
    BY <1>1, <2>1 DEF TypeOK
  <2> QED
    BY <1>1, <2>1, <2>3, <2>4 DEF VerdictInv
<1>4. ASSUME NEW s \in Session,
             \/ BeginTransaction(s) \/ CommitTransaction(s)
             \/ AbortTransaction(s) \/ EraseFiles(s)
      PROVE  VerdictInv'
  <2>1. /\ mustAbort' \in {mustAbort, [mustAbort EXCEPT ![s] = FALSE]}
        /\ \A t \in Session \ {s} : /\ phase'[t] = phase[t]
                                      /\ outcome'[t] = outcome[t]
                                      /\ erasing'[t] = erasing[t]
        /\ phase'[s] # "erase"
    BY <1>1, <1>4 DEF BeginTransaction, CommitTransaction, AbortTransaction,
         EraseFiles, TypeOK
  <2>2. \A t \in Session : ~mustAbort'[t]
    BY <1>1, <2>1 DEF VerdictInv, TypeOK
  <2>3. \A t \in Session : phase'[t] = "erase" /\ outcome'[t] = "aborted" => ~erasing'[t]
    BY <2>1 DEF VerdictInv
  <2> QED
    BY <1>1, <2>2, <2>3 DEF VerdictInv
<1>5. ASSUME NEW s \in Session, OpenStep(s) PROVE VerdictInv'
  BY <1>2, <1>5 DEF OpenStep, OpenExisting, GetFileId, Create, OpenNew, NewFile,
     ScanFolder, SetFileId, CloseDatabase
<1>6. ASSUME NEW s \in Session, WriteStep(s) PROVE VerdictInv'
  BY <1>2, <1>6 DEF WriteStep, ReplaceRecord, DeadlockVictim
<1>7. CASE Restart
  BY <1>1, <1>7 DEF Restart, VerdictInv
<1>8. CASE UNCHANGED vars
  BY <1>2, <1>8 DEF vars
<1> QED
  BY <1>3, <1>4, <1>5, <1>6, <1>7, <1>8 DEF Next, TransactionStep

(* The end of an aborted transaction leaves the files on disk alone.       *)
LEMMA AbortedKeepsFiles ==
    ASSUME VerdictInv, [Next]_vars, NEW s \in Session, Ends(s),
           outcome[s] = "aborted"
    PROVE  disk' = disk
<1>1. phase[s] = "erase" /\ phase'[s] = "none" /\ restarts' = restarts
  BY DEF Ends
<1>2. TypeOK /\ ~erasing[s]
  BY <1>1 DEF VerdictInv
<1> USE DEF dbVars, openVars, txnVars
<1>3. ~Restart
  BY <1>1, <1>2, SmiConstants DEF Restart, TypeOK
<1>4. phase' # phase
  BY <1>1
<1>5. PICK t \in Session : OpenStep(t) \/ WriteStep(t) \/ TransactionStep(t)
  BY <1>3, <1>4 DEF Next, vars
<1>6. TransactionStep(t)
  BY <1>4, <1>5 DEF OpenStep, OpenExisting, GetFileId, Create, OpenNew, NewFile,
     ScanFolder, SetFileId, CloseDatabase, WriteStep, ReplaceRecord,
     DeadlockVictim
<1>7. EraseFiles(t) /\ t = s
  BY <1>1, <1>2, <1>6 DEF TransactionStep, BeginTransaction, CommitTransaction,
     AbortTransaction, EndTransaction, EraseFiles, TypeOK
<1> QED
  BY <1>2, <1>7 DEF EraseFiles, Erased

(* A request for deleting a file is carried out only after a commit, for   *)
(* every number of sessions and crashes, as long as the lock detector      *)
(* picks no victim: the finding of SmiDropRollback has no other cause.     *)
THEOREM DropOnlyAfterCommitHolds ==
    ~Deadlocks => (Spec => DropOnlyAfterCommit)
<1> SUFFICES ASSUME ~Deadlocks PROVE Spec => DropOnlyAfterCommit
  OBVIOUS
<1>1. VerdictInv /\ [Next]_vars => VerdictInv'
  BY VerdictStep
<1>2. VerdictInv /\ [Next]_vars =>
        [\A s \in Session :
            Ends(s) /\ outcome[s] = "aborted" => disk' = disk]_vars
  BY AbortedKeepsFiles
<1> QED
  BY VerdictInit, <1>1, <1>2, PTL DEF Spec, DropOnlyAfterCommit
=============================================================================
