------------------------- MODULE SmiReferencesProofs -------------------------
(***************************************************************************)
(* What keeps the references of a database sound when Berkeley DB has      *)
(* transactions and the lock detector picks no victim: every file belongs  *)
(* to the committed data, to one transaction that has created it, or is    *)
(* about to be erased.                                                     *)
(***************************************************************************)
EXTENDS SmiEnvironmentProofs

(* The files whose drop session s has requested.                           *)
Doomed(s) == {f \in FileId : [fileId |-> f, dropOnCommit |-> TRUE] \in toDrop[s]}

(* A committed record or an entry of the file catalog refers to f.         *)
Referred(f) == (\E r \in Record : store[r] = f) \/ (\E n \in Name : catalog[n] = f)

Carries(s) == phase[s] = "erase" /\ erasing[s]

(* Named files are created before the database is open, records are        *)
(* written after, and nothing is left when no transaction runs.            *)
PhaseInv ==
    \A s \in Session :
        /\ phase[s] # "active" => \A n \in Name : toCatalog[s][n] = NoFile
        /\ ~Unresolved(s) => /\ locked[s] = {}
                             /\ \A n \in Name : inserted[s][n] = NoFile
        /\ phase[s] = "none" => toDrop[s] = {} /\ created[s] = {}
        /\ reserved[s] # NoReservation => phase[s] = "active"
        /\ reserved[s].name \in Name => conn[s] # "open"
        /\ conn[s] = "open" => \A n \in Name : toCatalog[s][n] = NoFile /\ inserted[s][n] = NoFile
        /\ conn[s] # "open" => locked[s] = {} /\ (Unresolved(s) => Doomed(s) = {})

(* The new files of a transaction are its own.                             *)
NewFilesPrivate ==
    \A s \in Session :
        /\ \A e \in toDrop[s] : ~e.dropOnCommit => e.fileId \in created[s]
        /\ Unresolved(s) => \A f \in created[s] :
              /\ f \in disk /\ ~Referred(f)
              /\ \A t \in Session \ {s} : Unresolved(t) => f \notin created[t]

(* What a transaction writes are its new files, each once, and not dropped. *)
WritesNew ==
    \A s \in Session :
        /\ \A r \in locked[s] : writes[s][r] # NoFile =>
              /\ writes[s][r] \in created[s] \ Doomed(s)
              /\ \A q \in locked[s] : writes[s][q] = writes[s][r] => q = r
        /\ \A r \in locked[s] : \A t \in Session \ {s} : r \notin locked[t]
        /\ \A n \in Name : /\ toCatalog[s][n] # NoFile => toCatalog[s][n] \in created[s]
                           /\ inserted[s][n] # NoFile => inserted[s][n] \in created[s]

(* What it drops is its own or was referred to by a record it has locked.  *)
DropsOwn ==
    \A s \in Session : \A f \in Doomed(s) :
        /\ f <= seq
        /\ \A t \in Session : reserved[t].fileId # f
        /\ Unresolved(s) => f \in created[s] \/ \E r \in locked[s] : store[r] = f

(* What EraseFiles is about to erase is nobody's.                          *)
ErasesUnreferred ==
    \A s \in Session : Carries(s) => \A f \in Doomed(s) :
        /\ ~Referred(f)
        /\ \A t \in Session : Unresolved(t) => f \notin created[t]

ReferenceInv ==
    /\ IdInv /\ VerdictInv
    /\ PhaseInv /\ NewFilesPrivate /\ WritesNew /\ DropsOwn /\ ErasesUnreferred
    /\ NoDanglingFile /\ NoSharedFile
-----------------------------------------------------------------------------
LEMMA ReferenceInit == Init => ReferenceInv
<1> SUFFICES ASSUME Init PROVE ReferenceInv
  OBVIOUS
<1>1. IdInv /\ VerdictInv
  BY IdInit, VerdictInit
<1>2. /\ disk = {} /\ seq = 0
      /\ \A r \in Record : store[r] = NoFile
      /\ \A n \in Name : catalog[n] = NoFile
      /\ \A s \in Session : /\ conn[s] = "closed" /\ phase[s] = "none"
                            /\ reserved[s] = NoReservation
                            /\ created[s] = {} /\ locked[s] = {} /\ toDrop[s] = {}
                            /\ \A n \in Name : toCatalog[s][n] = NoFile /\ inserted[s][n] = NoFile
  BY DEF Init, NoNames
<1>3. \A s \in Session : Doomed(s) = {}
  BY <1>2 DEF Doomed
<1>4. PhaseInv
  BY <1>2, <1>3, SmiConstants DEF PhaseInv, Unresolved, NoReservation, NoFile
<1>5. NewFilesPrivate /\ WritesNew /\ DropsOwn /\ ErasesUnreferred
  BY <1>2, <1>3 DEF NewFilesPrivate, WritesNew, DropsOwn, ErasesUnreferred, Unresolved
<1>6. NoDanglingFile /\ NoSharedFile
  BY <1>2 DEF NoDanglingFile, NoSharedFile
<1> QED
  BY <1>1, <1>4, <1>5, <1>6 DEF ReferenceInv

LEMMA ErasedDoomed ==
    ASSUME TypeOK, NEW s \in Session
    PROVE  Erased(s, TRUE) \subseteq Doomed(s)
<1> SUFFICES ASSUME NEW e \in toDrop[s], e.dropOnCommit PROVE e.fileId \in Doomed(s)
  BY DEF Erased
<1>1. e \in DropEntry
  BY DEF TypeOK
<1>2. e = [fileId |-> e.fileId, dropOnCommit |-> TRUE] /\ e.fileId \in FileId
  BY <1>1 DEF DropEntry
<1> QED
  BY <1>2 DEF Doomed

LEMMA SameDoomed ==
    ASSUME NEW s, toDrop'[s] = toDrop[s]
    PROVE  Doomed(s)' = Doomed(s)
BY DEF Doomed

(* The parts of the invariant that are new here.                           *)
References ==
    /\ PhaseInv /\ NewFilesPrivate /\ WritesNew /\ DropsOwn /\ ErasesUnreferred
    /\ NoDanglingFile /\ NoSharedFile

(* Every file on disk or dropped is known to the sequence, and nobody has  *)
(* it reserved.                                                            *)
LEMMA KnownFiles ==
    ASSUME ReferenceInv, NEW f \in disk
    PROVE  f \in FileId /\ f <= seq /\ \A s \in Session : reserved[s].fileId # f
<1>1. f \in FileId /\ f # NoFile
  BY SmiConstants DEF ReferenceInv, IdInv, TypeOK, FileId, NoFile
<1>2. f <= seq
  BY DEF ReferenceInv, IdInv, SeqAhead
<1>3. \A s \in Session : reserved[s].fileId # f
  BY <1>1 DEF ReferenceInv, IdInv, FreshIds
<1> QED
  BY <1>1, <1>2, <1>3

(* Steps that concern only the opening of the database.                    *)
LEMMA Undisturbed ==
    ASSUME ReferenceInv, TypeOK', PhaseInv',
           UNCHANGED <<disk, catalog, store, phase, erasing, created, locked, writes,
                       toDrop, toCatalog, inserted>>,
           seq' >= seq,
           \A t \in Session : reserved'[t].fileId \in {NoFile, reserved[t].fileId}
                              \/ reserved'[t].fileId > seq
    PROVE  References'
<1>1. \A t \in Session : Doomed(t)' = Doomed(t)
  BY DEF Doomed
<1>2. \A f : Referred(f)' <=> Referred(f)
  BY DEF Referred
<1>3. \A t \in Session : (Unresolved(t)' <=> Unresolved(t)) /\ (Carries(t)' <=> Carries(t))
  BY DEF Unresolved, Carries
<1>4. NewFilesPrivate' /\ WritesNew' /\ ErasesUnreferred' /\ NoDanglingFile' /\ NoSharedFile'
  BY <1>1, <1>2, <1>3 DEF ReferenceInv, NewFilesPrivate, WritesNew, ErasesUnreferred,
     NoDanglingFile, NoSharedFile
<1>5. DropsOwn'
  <2> SUFFICES ASSUME NEW t \in Session, NEW f \in Doomed(t)
               PROVE  /\ f <= seq'
                      /\ \A u \in Session : reserved'[u].fileId # f
                      /\ Unresolved(t) => f \in created[t] \/ \E r \in locked[t] : store[r] = f
    BY <1>1, <1>3 DEF DropsOwn
  <2>1. /\ f <= seq /\ \A u \in Session : reserved[u].fileId # f
        /\ Unresolved(t) => f \in created[t] \/ \E r \in locked[t] : store[r] = f
    BY DEF ReferenceInv, DropsOwn
  <2>2. f \in Nat \ {NoFile} /\ seq \in Nat /\ seq' \in Nat
        /\ \A u \in Session : reserved'[u].fileId \in Nat
    BY SmiConstants DEF ReferenceInv, IdInv, TypeOK, Doomed, FileId, FileIdOrNone, NoFile
  <2> QED
    BY <2>1, <2>2
<1> QED
  BY <1>4, <1>5 DEF References

LEMMA OpenKeeps ==
    ASSUME ReferenceInv, TypeOK', NEW s \in Session,
           \/ \E n \in Name : OpenExisting(s, n)
           \/ \E n \in Name \cup {Anonymous} : GetFileId(s, n)
           \/ ScanFolder(s) \/ SetFileId(s) \/ CloseDatabase(s)
    PROVE  References'
<1> USE DEF dbVars, openVars, txnVars
<1>1. TypeOK /\ PhaseInv
  BY DEF ReferenceInv, IdInv
<1>0. seq \in Nat /\ scan \in [Session -> Nat]
  BY <1>1, SmiConstants DEF TypeOK
<1>2. UNCHANGED <<disk, catalog, store, phase, erasing, created, locked, writes,
                  toDrop, toCatalog, inserted>>
  BY DEF OpenExisting, GetFileId, ScanFolder, SetFileId, CloseDatabase
<1>3. \A t \in Session : Doomed(t)' = Doomed(t) /\ (Unresolved(t)' <=> Unresolved(t))
  BY <1>2 DEF Doomed, Unresolved
<1>4. ASSUME NEW n \in Name \cup {Anonymous}, GetFileId(s, n) PROVE References'
  <2>1. /\ seq' = seq + 1 /\ conn' = conn
        /\ reserved' = [reserved EXCEPT ![s] = [fileId |-> seq + 1, name |-> n]]
        /\ phase[s] = "active" /\ (n \in Name => conn[s] = "closed")
    BY <1>4 DEF GetFileId, Running, MayCreate
  <2>2. \A t \in Session : /\ t # s => reserved'[t] = reserved[t]
                           /\ t = s => reserved'[t].fileId = seq + 1 /\ reserved'[t].name = n
    BY <1>1, <2>1 DEF TypeOK
  <2>3. PhaseInv'
    BY <1>1, <1>2, <1>3, <2>1, <2>2 DEF PhaseInv
  <2> QED
    BY <1>0, <1>2, <2>1, <2>2, <2>3, Undisturbed
<1>5. ASSUME NEW n \in Name, OpenExisting(s, n) PROVE References'
  <2>1. UNCHANGED <<seq, conn, reserved>>
    BY <1>5 DEF OpenExisting
  <2>2. PhaseInv'
    BY <1>1, <1>2, <1>3, <2>1 DEF PhaseInv
  <2> QED
    BY <1>0, <1>2, <2>1, <2>2, Undisturbed
<1>6. ASSUME ScanFolder(s) \/ SetFileId(s) PROVE References'
  <2>1. /\ seq' >= seq /\ reserved' = reserved
        /\ conn[s] # "open" /\ conn'[s] # "open"
        /\ \A t \in Session \ {s} : conn'[t] = conn[t]
    BY <1>0, <1>1, <1>6 DEF ScanFolder, SetFileId, Opening, TypeOK
  <2>2. PhaseInv'
    BY <1>1, <1>2, <1>3, <2>1 DEF PhaseInv
  <2> QED
    BY <1>0, <1>2, <2>1, <2>2, Undisturbed
<1>7. ASSUME CloseDatabase(s) PROVE References'
  <2>1. /\ seq' = seq /\ reserved' = reserved /\ phase[s] = "none"
        /\ conn'[s] = "closed"
        /\ \A t \in Session \ {s} : conn'[t] = conn[t]
    BY <1>1, <1>7 DEF CloseDatabase, TypeOK
  <2>2. PhaseInv'
    BY <1>1, <1>2, <1>3, <2>1 DEF PhaseInv, Unresolved
  <2> QED
    BY <1>0, <1>2, <2>1, <2>2, Undisturbed
<1> QED
  BY <1>4, <1>5, <1>6, <1>7-----------------------------------------------------------------------------
LEMMA BeginKeeps ==
    ASSUME ReferenceInv, TypeOK', NEW s \in Session, BeginTransaction(s)
    PROVE  References'
<1>1. /\ phase[s] = "none" /\ phase'[s] = "active"
      /\ \A t \in Session \ {s} : phase'[t] = phase[t]
      /\ UNCHANGED <<seq, disk, catalog, store, conn, reserved, erasing, created,
                     locked, writes, toDrop, toCatalog, inserted>>
  BY DEF BeginTransaction, ReferenceInv, IdInv, TypeOK, dbVars, openVars
<1>2. /\ created[s] = {} /\ Doomed(s) = {} /\ reserved[s] = NoReservation
      /\ locked[s] = {} /\ toDrop[s] = {}
      /\ \A n \in Name : toCatalog[s][n] = NoFile /\ inserted[s][n] = NoFile
  BY <1>1 DEF ReferenceInv, PhaseInv, Doomed, Unresolved
<1>3. /\ \A t \in Session : Doomed(t)' = Doomed(t)
      /\ \A f : Referred(f)' <=> Referred(f)
      /\ \A t \in Session \ {s} : /\ Unresolved(t)' <=> Unresolved(t)
                                  /\ Carries(t)' <=> Carries(t)
      /\ ~Carries(s)'
  BY <1>1 DEF Doomed, Referred, Unresolved, Carries
<1>4. PhaseInv'
  BY <1>1, <1>2, <1>3 DEF ReferenceInv, PhaseInv, Unresolved
<1>5. NewFilesPrivate' /\ WritesNew' /\ DropsOwn' /\ ErasesUnreferred'
  BY <1>1, <1>2, <1>3 DEF ReferenceInv, NewFilesPrivate, WritesNew, DropsOwn,
     ErasesUnreferred
<1> QED
  BY <1>1, <1>4, <1>5 DEF References, ReferenceInv, NoDanglingFile, NoSharedFile

LEMMA UpdateKeeps ==
    ASSUME ReferenceInv, TypeOK', NEW s \in Session,
           CommitTransaction(s) \/ AbortTransaction(s)
    PROVE  References'
<1>1. /\ phase[s] = "active" /\ phase'[s] \in {"commit", "abort"}
      /\ \A t \in Session \ {s} : phase'[t] = phase[t]
      /\ reserved[s] = NoReservation
      /\ UNCHANGED <<seq, disk, catalog, store, conn, reserved, erasing, created,
                     locked, writes, toDrop>>
      /\ UpdateCatalog(s)
  BY DEF CommitTransaction, AbortTransaction, Running, ReferenceInv, IdInv, TypeOK,
     dbVars, openVars
<1>2. /\ \A n \in Name : /\ inserted'[s][n] \in {toCatalog[s][n], NoFile}
                         /\ toCatalog'[s][n] = NoFile
      /\ \A t \in Session \ {s} : inserted'[t] = inserted[t] /\ toCatalog'[t] = toCatalog[t]
  BY <1>1 DEF UpdateCatalog, NoNames, ReferenceInv, IdInv, TypeOK
<1>3. /\ \A t \in Session : Doomed(t)' = Doomed(t)
      /\ \A f : Referred(f)' <=> Referred(f)
      /\ \A t \in Session : /\ Unresolved(t)' <=> Unresolved(t)
                            /\ Carries(t)' <=> Carries(t)
  BY <1>1 DEF Doomed, Referred, Unresolved, Carries
<1>4. PhaseInv'
  BY <1>1, <1>2, <1>3 DEF ReferenceInv, PhaseInv, Unresolved
<1>5. WritesNew'
  BY <1>1, <1>2, <1>3 DEF ReferenceInv, WritesNew
<1>6. NewFilesPrivate' /\ DropsOwn' /\ ErasesUnreferred'
  BY <1>1, <1>3 DEF ReferenceInv, NewFilesPrivate, DropsOwn, ErasesUnreferred
<1> QED
  BY <1>1, <1>4, <1>5, <1>6 DEF References, ReferenceInv, NoDanglingFile, NoSharedFile

(* A file that did not exist becomes the transaction's own.                *)
LEMMA NewFileKeeps ==
    ASSUME ReferenceInv, TypeOK', NEW s \in Session, Create(s) \/ OpenNew(s)
    PROVE  References'
<1> DEFINE f == reserved[s].fileId
           n == reserved[s].name
<1>1. TypeOK /\ f # NoFile /\ NewFile(s, f)
  BY DEF ReferenceInv, IdInv, Create, OpenNew
<1>2. f \in FileId /\ f \notin disk /\ phase[s] = "active"
  BY <1>1, SmiConstants DEF ReferenceInv, IdInv, FreshIds, TypeOK, FileId, FileIdOrNone, NoFile,
     PhaseInv, NoReservation
<1>3. /\ UNCHANGED <<seq, catalog, store, conn, phase, erasing, locked, writes, inserted>>
      /\ disk' = disk \cup {f}
      /\ created'[s] = created[s] \cup {f}
      /\ toDrop'[s] = toDrop[s] \cup {[fileId |-> f, dropOnCommit |-> FALSE]}
      /\ reserved'[s] = NoReservation
      /\ \A t \in Session \ {s} : /\ created'[t] = created[t] /\ toDrop'[t] = toDrop[t]
                                  /\ reserved'[t] = reserved[t]
  BY <1>1, <1>2 DEF NewFile, TypeOK
<1>4. \/ toCatalog' = toCatalog
      \/ /\ n \in Name /\ toCatalog'[s][n] = f
         /\ \A m \in Name \ {n} : toCatalog'[s][m] = toCatalog[s][m]
         /\ \A t \in Session \ {s} : toCatalog'[t] = toCatalog[t]
  BY <1>1 DEF Create, OpenNew, TypeOK
<1>5. /\ \A t \in Session : Doomed(t)' = Doomed(t) /\ f \notin Doomed(t)
      /\ \A g : Referred(g)' <=> Referred(g)
      /\ \A t \in Session : /\ Unresolved(t)' <=> Unresolved(t)
                            /\ Carries(t)' <=> Carries(t)
  <2>1. \A t \in Session : Doomed(t)' = Doomed(t)
    BY <1>3 DEF Doomed
  <2>2. \A t \in Session : f \notin Doomed(t)
    BY DEF ReferenceInv, DropsOwn
  <2> QED
    BY <1>3, <2>1, <2>2 DEF Referred, Unresolved, Carries
<1>6. ~Referred(f) /\ \A t \in Session : Unresolved(t) => f \notin created[t]
  BY <1>1, <1>2 DEF ReferenceInv, Referred, NoDanglingFile, NewFilesPrivate
<1>7. PhaseInv'
  BY <1>2, <1>3, <1>4, <1>5, SmiConstants DEF ReferenceInv, PhaseInv, Unresolved, NoReservation
<1>8. NewFilesPrivate'
  BY <1>2, <1>3, <1>5, <1>6 DEF ReferenceInv, NewFilesPrivate
<1>9. WritesNew'
  BY <1>3, <1>4, <1>5 DEF ReferenceInv, WritesNew
<1>10. DropsOwn' /\ ErasesUnreferred'
  <2>1. \A t \in Session : NoFile \notin Doomed(t)
    BY SmiConstants DEF Doomed, FileId, NoFile
  <2> QED
    BY <1>3, <1>5, <2>1 DEF ReferenceInv, DropsOwn, ErasesUnreferred, NoReservation
<1> QED
  BY <1>3, <1>7, <1>8, <1>9, <1>10 DEF References, ReferenceInv, NoDanglingFile, NoSharedFile-----------------------------------------------------------------------------
(* The record refers to a new file that nothing refers to yet, and the     *)
(* file it referred to is dropped.                                         *)
LEMMA ReplaceKeeps ==
    ASSUME ReferenceInv, TypeOK', NEW s \in Session, NEW r \in Record,
           NEW f \in Unattached(s) \cup {NoFile}, ReplaceRecord(s, r, f)
    PROVE  References'
<1> DEFINE v == Visible(s, r)
<1>1. TypeOK /\ phase[s] = "active" /\ conn[s] = "open"
  BY DEF ReferenceInv, IdInv, ReplaceRecord, Running
<1>2. /\ UNCHANGED <<seq, disk, catalog, store, conn, reserved, phase, erasing,
                     created, toCatalog, inserted>>
      /\ locked'[s] = locked[s] \cup {r} /\ writes'[s][r] = f
      /\ \A q \in Record \ {r} : writes'[s][q] = writes[s][q]
      /\ toDrop'[s] = toDrop[s] \cup DropRequest(v)
      /\ \A t \in Session \ {s} : /\ locked'[t] = locked[t] /\ writes'[t] = writes[t]
                                  /\ toDrop'[t] = toDrop[t] /\ r \notin locked[t]
  BY <1>1 DEF ReplaceRecord, TypeOK, dbVars, openVars
<1>3. locked[s] \subseteq Record /\ v \in FileIdOrNone /\ Unresolved(s)
  BY <1>1 DEF TypeOK, Visible, Unresolved
<1>4. v # NoFile => /\ v \in disk /\ v \in FileId
                    /\ IF r \in locked[s] THEN v \in created[s] ELSE store[r] = v
  <2>1. disk \subseteq FileId
    BY <1>1 DEF TypeOK
  <2>2. CASE r \in locked[s]
    <3>1. v = writes[s][r]
      BY <2>2 DEF Visible
    <3>2. v # NoFile => v \in created[s]
      BY <2>2, <3>1 DEF ReferenceInv, WritesNew
    <3> QED
      BY <1>3, <2>1, <2>2, <3>2 DEF ReferenceInv, NewFilesPrivate
  <2>3. CASE r \notin locked[s]
    BY <2>1, <2>3 DEF ReferenceInv, Visible, NoDanglingFile
  <2> QED
    BY <2>2, <2>3
<1>5. /\ Doomed(s)' = IF v = NoFile THEN Doomed(s) ELSE Doomed(s) \cup {v}
      /\ \A t \in Session \ {s} : Doomed(t)' = Doomed(t)
      /\ \A e \in DropRequest(v) : e.dropOnCommit
  <2>1. CASE v = NoFile
    BY <1>2, <2>1 DEF Doomed, DropRequest
  <2>2. CASE v # NoFile
    <3>1. DropRequest(v) = {[fileId |-> v, dropOnCommit |-> TRUE]} /\ v \in FileId
      BY <1>4, <2>2 DEF DropRequest
    <3>2. \A g \in FileId : [fileId |-> g, dropOnCommit |-> TRUE] \in toDrop'[s]
                            <=> g \in Doomed(s) \/ g = v
      BY <1>2, <3>1 DEF Doomed
    <3>3. Doomed(s)' = {g \in FileId : g \in Doomed(s) \/ g = v}
      BY <3>2 DEF Doomed
    <3>4. {g \in FileId : g \in Doomed(s) \/ g = v} = Doomed(s) \cup {v}
      BY <3>1 DEF Doomed
    <3>5. \A t \in Session \ {s} : Doomed(t)' = Doomed(t)
      BY <1>2 DEF Doomed
    <3>6. \A e \in DropRequest(v) : e.dropOnCommit
      BY <3>1
    <3> QED
      BY <2>2, <3>3, <3>4, <3>5, <3>6
  <2> QED
    BY <2>1, <2>2
<1>6. f # NoFile => /\ f \in created[s] \ Doomed(s) /\ f # v
                    /\ \A q \in locked[s] : writes[s][q] # f
  <2> SUFFICES ASSUME f # NoFile
               PROVE  /\ f \in created[s] \ Doomed(s) /\ f # v
                      /\ \A q \in locked[s] : writes[s][q] # f
    OBVIOUS
  <2>1. /\ \E e \in toDrop[s] : ~e.dropOnCommit /\ e.fileId = f
        /\ \A q \in locked[s] : writes[s][q] # f
        /\ \A e \in toDrop[s] : e.dropOnCommit => e.fileId # f
    BY DEF Unattached
  <2>2. f \in created[s] /\ ~Referred(f)
    BY <1>3, <2>1 DEF ReferenceInv, NewFilesPrivate
  <2>3. f \notin Doomed(s)
    BY <2>1 DEF Doomed
  <2>4. f # v
    BY <2>1, <2>2 DEF Visible, Referred
  <2> QED
    BY <2>1, <2>2, <2>3, <2>4
<1>7. \A q \in locked[s] : q # r /\ writes[s][q] # NoFile =>
         writes[s][q] \in created[s] \ Doomed(s) /\ writes[s][q] # v
  <2> SUFFICES ASSUME NEW q \in locked[s], q # r, writes[s][q] # NoFile
               PROVE  writes[s][q] \in created[s] \ Doomed(s) /\ writes[s][q] # v
    OBVIOUS
  <2>1. /\ writes[s][q] \in created[s] \ Doomed(s)
        /\ \A p \in locked[s] : writes[s][p] = writes[s][q] => p = q
    BY DEF ReferenceInv, WritesNew
  <2>2. ~Referred(writes[s][q])
    BY <1>3, <2>1 DEF ReferenceInv, NewFilesPrivate
  <2> QED
    BY <2>1, <2>2 DEF Visible, Referred
<1>8. \A t \in Session : /\ Unresolved(t)' <=> Unresolved(t)
                         /\ Carries(t)' <=> Carries(t)
  BY <1>2 DEF Unresolved, Carries
<1>9. \A g : Referred(g)' <=> Referred(g)
  BY <1>2 DEF Referred
<1>10. PhaseInv'
  BY <1>1, <1>2, <1>3, <1>5, <1>8 DEF ReferenceInv, PhaseInv
<1>11. NewFilesPrivate'
  BY <1>2, <1>5, <1>8, <1>9 DEF ReferenceInv, NewFilesPrivate
<1>12. WritesNew'
  <2>1. \A t \in Session \ {s} : \A q \in locked[t] :
           writes[t][q] # NoFile =>
              /\ writes[t][q] \in created[t] \ Doomed(t)
              /\ \A p \in locked[t] : writes[t][p] = writes[t][q] => p = q
    BY DEF ReferenceInv, WritesNew
  <2>2. \A q \in locked'[s] : writes'[s][q] # NoFile =>
              /\ writes'[s][q] \in created[s] \ Doomed(s)'
              /\ \A p \in locked'[s] : writes'[s][p] = writes'[s][q] => p = q
    <3>1. \A q, p \in locked[s] : writes[s][q] # NoFile /\ writes[s][p] = writes[s][q] => p = q
      BY DEF ReferenceInv, WritesNew
    <3> QED
      BY <1>2, <1>3, <1>5, <1>6, <1>7, <3>1
  <2>3. \A t \in Session : \A q \in locked'[t] : \A u \in Session \ {t} : q \notin locked'[u]
    BY <1>2 DEF ReferenceInv, WritesNew
  <2>4. \A t \in Session : \A n \in Name :
           /\ toCatalog[t][n] # NoFile => toCatalog[t][n] \in created[t]
           /\ inserted[t][n] # NoFile => inserted[t][n] \in created[t]
    BY DEF ReferenceInv, WritesNew
  <2> QED
    BY <1>2, <1>5, <2>1, <2>2, <2>3, <2>4 DEF WritesNew
<1>13. DropsOwn'
  <2>1. v # NoFile => /\ v <= seq /\ \A t \in Session : reserved[t].fileId # v
                      /\ v \in created[s] \/ store[r] = v
    BY <1>4, KnownFiles
  <2>2. \A t \in Session : \A g \in Doomed(t) :
           /\ g <= seq /\ \A u \in Session : reserved[u].fileId # g
           /\ Unresolved(t) => g \in created[t] \/ \E q \in locked[t] : store[q] = g
    BY DEF ReferenceInv, DropsOwn
  <2> QED
    BY <1>2, <1>5, <1>8, <2>1, <2>2 DEF DropsOwn
<1>14. ErasesUnreferred'
  <2>1. ~Carries(s)
    BY <1>1 DEF Carries
  <2> QED
    BY <1>2, <1>5, <1>8, <1>9, <2>1 DEF ReferenceInv, ErasesUnreferred
<1> QED
  BY <1>2, <1>10, <1>11, <1>12, <1>13, <1>14
     DEF References, ReferenceInv, NoDanglingFile, NoSharedFile-----------------------------------------------------------------------------
(* What EndTransaction does, whichever way the transaction ends.           *)
LEMMA EndFacts ==
    ASSUME ReferenceInv, NEW s \in Session, EndTransaction(s)
    PROVE  /\ Unresolved(s) /\ ~Unresolved(s)' /\ phase'[s] = "erase"
           /\ \A n \in Name : toCatalog'[s][n] = toCatalog[s][n]
           /\ locked'[s] = {} /\ \A n \in Name : inserted'[s][n] = NoFile
           /\ UNCHANGED <<seq, conn, reserved, created, toDrop, toCatalog>>
           /\ reserved[s] = NoReservation
           /\ \A t \in Session : Doomed(t)' = Doomed(t)
           /\ \A t \in Session \ {s} :
                 /\ phase'[t] = phase[t] /\ erasing'[t] = erasing[t]
                 /\ locked'[t] = locked[t] /\ writes'[t] = writes[t]
                 /\ inserted'[t] = inserted[t]
                 /\ Unresolved(t)' <=> Unresolved(t)
                 /\ Carries(t)' <=> Carries(t)
<1>1. TypeOK /\ phase[s] \in {"commit", "abort"} /\ phase'[s] = "erase"
  BY DEF ReferenceInv, IdInv, EndTransaction, TypeOK
<1>2. /\ UNCHANGED <<seq, conn, reserved, created, toDrop, toCatalog>>
      /\ \A t \in Session \ {s} :
            /\ phase'[t] = phase[t] /\ erasing'[t] = erasing[t]
            /\ locked'[t] = locked[t] /\ writes'[t] = writes[t]
            /\ inserted'[t] = inserted[t]
      /\ locked'[s] = {} /\ \A n \in Name : inserted'[s][n] = NoFile
  BY <1>1 DEF EndTransaction, TypeOK, openVars, NoNames
<1>3. reserved[s] = NoReservation
  BY <1>1 DEF ReferenceInv, PhaseInv
<1>4. \A t \in Session : Doomed(t)' = Doomed(t)
  BY <1>2 DEF Doomed
<1> QED
  BY <1>1, <1>2, <1>3, <1>4 DEF Unresolved, Carries

(* The new files of an aborted transaction go; nothing refers to them.     *)
LEMMA AbortKeeps ==
    ASSUME UseTransactions, ReferenceInv, TypeOK', NEW s \in Session,
           EndTransaction(s), ~Commits(s)
    PROVE  References'
<1>1. /\ disk' = disk \ created[s] /\ store' = store /\ catalog' = catalog
      /\ ~Carries(s)'
  <2>1. phase[s] = "abort"
    BY DEF EndTransaction, Commits, ReferenceInv, VerdictInv
  <2>2. ~erasing'[s]
    <3>1. erasing'[s] = (phase[s] = "commit")
      BY ZenonT(20) DEF EndTransaction, ReferenceInv, IdInv, TypeOK
    <3> QED
      BY <2>1, <3>1
  <2> QED
    BY <2>2 DEF EndTransaction, Carries
<1>2. \A g : Referred(g)' <=> Referred(g)
  BY <1>1 DEF Referred
<1>3. \A g \in created[s] :
        /\ ~Referred(g)
        /\ \A t \in Session \ {s} : Unresolved(t) => g \notin created[t]
  BY EndFacts DEF ReferenceInv, NewFilesPrivate
<1>4. PhaseInv'
  <2>1. PhaseInv
    BY DEF ReferenceInv
  <2>2. \A n \in Name : toCatalog[s][n] = NoFile
    BY DEF ReferenceInv, PhaseInv, EndTransaction
  <2> QED
    BY <2>1, <2>2, EndFacts DEF PhaseInv
<1>5. NewFilesPrivate'
  BY <1>1, <1>2, <1>3, EndFacts DEF ReferenceInv, NewFilesPrivate
<1>6. WritesNew'
  BY EndFacts DEF ReferenceInv, WritesNew
<1>7. DropsOwn' /\ ErasesUnreferred'
  BY <1>1, <1>2, EndFacts DEF ReferenceInv, DropsOwn, ErasesUnreferred
<1>8. NoDanglingFile'
  BY <1>1, <1>3 DEF ReferenceInv, NoDanglingFile, Referred
<1> QED
  BY <1>1, <1>4, <1>5, <1>6, <1>7, <1>8 DEF References, ReferenceInv, NoSharedFile
(* The new files of a committed transaction are referred to as it wrote,   *)
(* and what it drops is not referred to any longer.                        *)
LEMMA CommitKeeps ==
    ASSUME ReferenceInv, TypeOK', NEW s \in Session,
           EndTransaction(s), Commits(s)
    PROVE  References'
<1>0. TypeOK /\ Unresolved(s) /\ locked[s] \subseteq Record
  BY EndFacts DEF ReferenceInv, IdInv, TypeOK
<1>1. /\ disk' = disk
      /\ \A r \in Record : store'[r] = IF r \in locked[s] THEN writes[s][r] ELSE store[r]
      /\ \A n \in Name : catalog'[n] = IF inserted[s][n] # NoFile
                                       THEN inserted[s][n] ELSE catalog[n]
  BY DEF EndTransaction, Visible
<1>2. \A g \in created[s] :
        /\ g \in disk /\ ~Referred(g)
        /\ \A t \in Session \ {s} : Unresolved(t) => g \notin created[t]
  BY <1>0 DEF ReferenceInv, NewFilesPrivate
<1>3. /\ \A r \in locked[s] : writes[s][r] # NoFile =>
            /\ writes[s][r] \in created[s] \ Doomed(s)
            /\ \A q \in locked[s] : writes[s][q] = writes[s][r] => q = r
      /\ \A n \in Name : inserted[s][n] # NoFile => inserted[s][n] \in created[s]
  BY DEF ReferenceInv, WritesNew
<1>4. \/ \A n \in Name : inserted[s][n] = NoFile
      \/ locked[s] = {} /\ Doomed(s) = {}
  BY <1>0 DEF ReferenceInv, PhaseInv
<1>5. ASSUME NEW g, g # NoFile, Referred(g)'
      PROVE  \/ g \in created[s] /\ g \notin Doomed(s)
             \/ Referred(g) /\ \A r \in locked[s] : store[r] # g
  <2>1. ASSUME NEW r \in Record, store'[r] = g
        PROVE  \/ g \in created[s] /\ g \notin Doomed(s)
               \/ Referred(g) /\ \A q \in locked[s] : store[q] # g
    <3>1. CASE r \in locked[s]
      BY <1>1, <1>3, <1>5, <2>1, <3>1
    <3>2. CASE r \notin locked[s]
      <4>1. store[r] = g
        BY <1>1, <2>1, <3>2
      <4>2. \A q \in locked[s] : store[q] # g
        BY <1>0, <1>5, <3>2, <4>1 DEF ReferenceInv, NoSharedFile
      <4> QED
        BY <4>1, <4>2 DEF Referred
    <3> QED
      BY <3>1, <3>2
  <2>2. ASSUME NEW n \in Name, catalog'[n] = g
        PROVE  \/ g \in created[s] /\ g \notin Doomed(s)
               \/ Referred(g) /\ \A q \in locked[s] : store[q] # g
    <3>1. CASE inserted[s][n] # NoFile
      BY <1>1, <1>3, <1>4, <2>2, <3>1
    <3>2. CASE inserted[s][n] = NoFile
      <4>1. catalog[n] = g
        BY <1>1, <2>2, <3>2
      <4>2. \A q \in locked[s] : store[q] # g
        BY <1>0, <1>5, <4>1 DEF ReferenceInv, NoSharedFile
      <4> QED
        BY <4>1, <4>2 DEF Referred
    <3> QED
      BY <3>1, <3>2
  <2> QED
    BY <1>5, <2>1, <2>2 DEF Referred
<1>6. NoFile \notin disk /\ \A t \in Session : NoFile \notin Doomed(t)
  BY <1>0, SmiConstants DEF TypeOK, FileId, NoFile, Doomed
<1>7. PhaseInv'
  <2>1. PhaseInv
    BY DEF ReferenceInv
  <2>2. \A n \in Name : toCatalog[s][n] = NoFile
    BY DEF ReferenceInv, PhaseInv, EndTransaction
  <2> QED
    BY <2>1, <2>2, EndFacts DEF PhaseInv
<1>8. NewFilesPrivate'
  <2>1. \A t \in Session : \A e \in toDrop[t] : ~e.dropOnCommit => e.fileId \in created[t]
    BY DEF ReferenceInv, NewFilesPrivate
  <2>2. ASSUME NEW t \in Session, Unresolved(t)', NEW g \in created[t]
        PROVE  /\ g \in disk /\ ~Referred(g)'
               /\ \A u \in Session \ {t} : Unresolved(u)' => g \notin created[u]
    <3>1. t # s /\ Unresolved(t) /\ \A u \in Session : Unresolved(u)' => Unresolved(u)
      BY <2>2, EndFacts
    <3>2. /\ g \in disk /\ ~Referred(g)
          /\ \A u \in Session \ {t} : Unresolved(u) => g \notin created[u]
      BY <3>1 DEF ReferenceInv, NewFilesPrivate
    <3>3. g # NoFile /\ g \notin created[s]
      BY <1>0, <1>6, <3>1, <3>2
    <3> QED
      BY <1>5, <3>1, <3>2, <3>3
  <2> QED
    BY <1>1, <2>1, <2>2, EndFacts DEF NewFilesPrivate
<1>9. WritesNew'
  BY EndFacts DEF ReferenceInv, WritesNew
<1>10. DropsOwn'
  <2>1. \A t \in Session \ {s} : \A r \in locked[t] : r \notin locked[s]
    BY DEF ReferenceInv, WritesNew
  <2>2. \A t \in Session : locked[t] \subseteq Record
    BY <1>0 DEF TypeOK
  <2> QED
    BY <1>1, <2>1, <2>2, EndFacts DEF ReferenceInv, DropsOwn
<1>11. ErasesUnreferred'
  <2> SUFFICES ASSUME NEW t \in Session, Carries(t)', NEW g \in Doomed(t)
               PROVE  /\ ~Referred(g)'
                      /\ \A u \in Session \ {s} : Unresolved(u) => g \notin created[u]
    BY EndFacts DEF ErasesUnreferred
  <2>0. g # NoFile
    BY <1>6
  <2>1. CASE t = s
    <3>1. g \in created[s] \/ \E r \in locked[s] : store[r] = g
      BY <1>0, <2>1 DEF ReferenceInv, DropsOwn
    <3>2. CASE g \in created[s]
      BY <1>2, <1>5, <2>0, <2>1, <3>2
    <3>3. CASE g \notin created[s]
      <4>1. PICK r \in locked[s] : store[r] = g
        BY <3>1, <3>3
      <4>2. Referred(g)
        BY <1>0, <4>1 DEF Referred
      <4>3. \A u \in Session : Unresolved(u) => g \notin created[u]
        BY <4>2 DEF ReferenceInv, NewFilesPrivate
      <4> QED
        BY <1>5, <2>0, <3>3, <4>1, <4>3
    <3> QED
      BY <3>2, <3>3
  <2>2. CASE t # s
    <3>1. Carries(t)
      BY <2>2, EndFacts
    <3>2. ~Referred(g) /\ \A u \in Session : Unresolved(u) => g \notin created[u]
      BY <3>1 DEF ReferenceInv, ErasesUnreferred
    <3> QED
      BY <1>0, <1>5, <2>0, <3>2
  <2> QED
    BY <2>1, <2>2
<1>12. NoDanglingFile'
  BY <1>1, <1>2, <1>3 DEF ReferenceInv, NoDanglingFile
<1>13. NoSharedFile'
  <2>1. \A r, q \in Record : store'[r] = store'[q] => r = q \/ store'[r] = NoFile
    <3> SUFFICES ASSUME NEW r \in Record, NEW q \in Record, store'[r] = store'[q],
                        store'[r] # NoFile
                 PROVE  r = q
      OBVIOUS
    <3>1. \A p \in Record \ locked[s] : store[p] \notin created[s] /\ store'[p] = store[p]
      BY <1>1, <1>2 DEF Referred
    <3>2. \A p \in locked[s] : store'[p] = writes[s][p]
      BY <1>0, <1>1
    <3> QED
      BY <1>3, <3>1, <3>2 DEF ReferenceInv, NoSharedFile
  <2>2. \A r \in Record, n \in Name : store'[r] = catalog'[n] => store'[r] = NoFile
    <3> SUFFICES ASSUME NEW r \in Record, NEW n \in Name, store'[r] = catalog'[n],
                        store'[r] # NoFile
                 PROVE  FALSE
      OBVIOUS
    <3>1. store[r] \notin created[s] /\ catalog[n] \notin created[s]
      BY <1>2 DEF Referred
    <3> QED
      BY <1>1, <1>3, <1>4, <3>1 DEF ReferenceInv, NoSharedFile
  <2> QED
    BY <2>1, <2>2 DEF NoSharedFile
<1> QED
  BY <1>7, <1>8, <1>9, <1>10, <1>11, <1>12, <1>13 DEF References-----------------------------------------------------------------------------
(* Only files that nobody refers to or has created are erased.             *)
LEMMA EraseKeeps ==
    ASSUME ReferenceInv, TypeOK', NEW s \in Session, EraseFiles(s)
    PROVE  References'
<1>1. /\ TypeOK /\ phase[s] = "erase" /\ phase'[s] = "none"
      /\ UNCHANGED <<seq, catalog, store, reserved, locked, writes, toCatalog, inserted>>
      /\ toDrop'[s] = {} /\ created'[s] = {}
      /\ disk' = disk \ Erased(s, erasing[s])
      /\ \A t \in Session \ {s} :
            /\ phase'[t] = phase[t] /\ toDrop'[t] = toDrop[t]
            /\ created'[t] = created[t] /\ conn'[t] = conn[t]
            /\ erasing'[t] = erasing[t]
  BY DEF ReferenceInv, IdInv, EraseFiles, TypeOK
<1>2. /\ \A g : Referred(g)' <=> Referred(g)
      /\ \A t \in Session \ {s} : /\ Doomed(t)' = Doomed(t)
                                  /\ Unresolved(t)' <=> Unresolved(t)
                                  /\ Carries(t)' <=> Carries(t)
      /\ Doomed(s)' = {} /\ ~Unresolved(s)' /\ ~Carries(s)'
  BY <1>1 DEF Referred, Doomed, Unresolved, Carries
<1>3. \A g \in disk \ disk' : /\ ~Referred(g)
                              /\ \A t \in Session : Unresolved(t) => g \notin created[t]
  <2>1. CASE erasing[s] = TRUE
    <3>1. Carries(s) /\ disk \ disk' \subseteq Doomed(s)
      BY <1>1, <2>1, ErasedDoomed DEF Carries
    <3> QED
      BY <3>1 DEF ReferenceInv, ErasesUnreferred
  <2>2. CASE erasing[s] = FALSE
    <3>1. Erased(s, FALSE) = {}
      BY DEF Erased
    <3> QED
      BY <1>1, <2>2, <3>1
  <2>3. erasing[s] \in BOOLEAN
    BY <1>1 DEF TypeOK
  <2> QED
    BY <2>1, <2>2, <2>3
<1>4. PhaseInv'
  <2>1. /\ ~Unresolved(s) /\ locked[s] = {} /\ reserved[s] = NoReservation
        /\ \A n \in Name : toCatalog[s][n] = NoFile /\ inserted[s][n] = NoFile
    BY <1>1 DEF ReferenceInv, PhaseInv, Unresolved
  <2> QED
    BY <1>1, <1>2, <2>1, SmiConstants DEF ReferenceInv, PhaseInv, NoReservation
<1>5. NewFilesPrivate'
  BY <1>1, <1>2, <1>3 DEF ReferenceInv, NewFilesPrivate
<1>6. WritesNew'
  <2>1. /\ locked[s] = {}
        /\ \A n \in Name : toCatalog[s][n] = NoFile /\ inserted[s][n] = NoFile
    BY <1>1 DEF ReferenceInv, PhaseInv, Unresolved
  <2> QED
    BY <1>1, <1>2, <2>1 DEF ReferenceInv, WritesNew
<1>7. DropsOwn' /\ ErasesUnreferred'
  BY <1>1, <1>2 DEF ReferenceInv, DropsOwn, ErasesUnreferred
<1>8. NoDanglingFile'
  BY <1>1, <1>3 DEF ReferenceInv, NoDanglingFile, Referred
<1> QED
  BY <1>1, <1>4, <1>5, <1>6, <1>7, <1>8 DEF References, ReferenceInv, NoSharedFile

(* Recovery undoes the unresolved transactions and nothing else.           *)
LEMMA RestartKeeps ==
    ASSUME UseTransactions, ReferenceInv, TypeOK', Restart
    PROVE  References'
<1>1. /\ catalog' = catalog /\ store' = store
      /\ \A g \in disk \ disk' : \E t \in Session : Unresolved(t) /\ g \in created[t]
      /\ \A t \in Session :
            /\ conn'[t] = "closed" /\ phase'[t] = "none" /\ reserved'[t] = NoReservation
            /\ created'[t] = {} /\ locked'[t] = {} /\ toDrop'[t] = {}
            /\ \A n \in Name : toCatalog'[t][n] = NoFile /\ inserted'[t][n] = NoFile
  BY DEF Restart, NoNames
<1>2. \A t \in Session : Doomed(t)' = {} /\ ~Unresolved(t)' /\ ~Carries(t)'
  BY <1>1 DEF Doomed, Unresolved, Carries
<1>3. PhaseInv'
  BY <1>1, <1>2, SmiConstants DEF PhaseInv, NoReservation
<1>4. NewFilesPrivate' /\ WritesNew' /\ DropsOwn' /\ ErasesUnreferred'
  BY <1>1, <1>2 DEF NewFilesPrivate, WritesNew, DropsOwn, ErasesUnreferred
<1>5. NoDanglingFile'
  BY <1>1 DEF ReferenceInv, NoDanglingFile, NewFilesPrivate, Referred
<1> QED
  BY <1>1, <1>3, <1>4, <1>5 DEF References, ReferenceInv, NoSharedFile

LEMMA StutterKeeps ==
    ASSUME ReferenceInv, TypeOK', UNCHANGED vars
    PROVE  References'
<1>1. UNCHANGED <<disk, catalog, store, phase, erasing, created, locked, writes,
                  toDrop, toCatalog, inserted, seq, reserved, conn>>
  BY DEF vars, dbVars, openVars, txnVars
<1>2. \A t \in Session : Doomed(t)' = Doomed(t) /\ (Unresolved(t)' <=> Unresolved(t))
  BY <1>1 DEF Doomed, Unresolved
<1>3. PhaseInv'
  BY <1>1, <1>2 DEF ReferenceInv, PhaseInv
<1>4. seq \in Nat
  BY SmiConstants DEF ReferenceInv, IdInv, TypeOK
<1> QED
  BY <1>1, <1>3, <1>4, Undisturbed

LEMMA ReferenceStep ==
    ASSUME UseTransactions, ~Deadlocks, ReferenceInv, [Next]_vars
    PROVE  ReferenceInv'
<1>1. TypeOK' /\ IdInv' /\ VerdictInv'
  BY TypeStep, IdStep, VerdictStep DEF ReferenceInv, IdInv
<1>2. ASSUME NEW s \in Session, OpenStep(s) PROVE References'
  BY <1>1, <1>2, OpenKeeps, NewFileKeeps DEF OpenStep
<1>3. ASSUME NEW s \in Session, WriteStep(s) PROVE References'
  BY <1>1, <1>3, ReplaceKeeps DEF WriteStep, DeadlockVictim
<1>4. ASSUME NEW s \in Session, TransactionStep(s) PROVE References'
  BY <1>1, <1>4, BeginKeeps, UpdateKeeps, AbortKeeps, CommitKeeps, EraseKeeps
     DEF TransactionStep
<1>5. UseTransactions /\ Restart => References'
  BY <1>1, RestartKeeps
<1>6. UNCHANGED vars => References'
  BY <1>1, StutterKeeps
<1>7. References'
  BY <1>2, <1>3, <1>4, <1>5, <1>6 DEF Next
<1> QED
  BY <1>1, <1>7 DEF References, ReferenceInv
-----------------------------------------------------------------------------
(* Whatever the sessions and crashes in between, EraseFiles removes no file *)
(* that the committed data refer to.                                       *)
THEOREM NoDanglingFileHolds ==
    UseTransactions /\ ~Deadlocks => (Spec => []NoDanglingFile)
<1> SUFFICES ASSUME UseTransactions, ~Deadlocks PROVE Spec => []NoDanglingFile
  OBVIOUS
<1>1. ReferenceInv /\ [Next]_vars => ReferenceInv'
  BY ReferenceStep
<1>2. ReferenceInv => NoDanglingFile
  BY DEF ReferenceInv
<1> QED
  BY ReferenceInit, <1>1, <1>2, PTL DEF Spec

(* No two committed records, nor a record and the file catalog, share one. *)
THEOREM NoSharedFileHolds ==
    UseTransactions /\ ~Deadlocks => (Spec => []NoSharedFile)
<1> SUFFICES ASSUME UseTransactions, ~Deadlocks PROVE Spec => []NoSharedFile
  OBVIOUS
<1>1. ReferenceInv /\ [Next]_vars => ReferenceInv'
  BY ReferenceStep
<1>2. ReferenceInv => NoSharedFile
  BY DEF ReferenceInv
<1> QED
  BY ReferenceInit, <1>1, <1>2, PTL DEF Spec-----------------------------------------------------------------------------
(* Berkeley DB's locks: one session at a time has entered a name, and only *)
(* one that the catalog did not have.                                      *)
EntersFreeName ==
    \A s \in Session : \A n \in Name : inserted[s][n] # NoFile =>
        /\ catalog[n] = NoFile
        /\ \A t \in Session \ {s} : inserted[t][n] = NoFile

NameInv == TypeOK /\ EntersFreeName

LEMMA NameInit == Init => NameInv
<1> SUFFICES ASSUME Init PROVE NameInv
  OBVIOUS
<1>1. \A s \in Session : \A n \in Name : inserted[s][n] = NoFile
  BY DEF Init, NoNames
<1> QED
  BY <1>1, TypeInit DEF NameInv, EntersFreeName

LEMMA NameStep ==
    ASSUME UseTransactions, NameInv, [Next]_vars
    PROVE  /\ NameInv'
           /\ \A n \in Name : catalog[n] # NoFile => catalog'[n] = catalog[n]
<1> DEFINE Goal == /\ EntersFreeName'
                   /\ \A n \in Name : catalog[n] # NoFile => catalog'[n] = catalog[n]
<1>1. TypeOK /\ TypeOK'
  BY TypeStep DEF NameInv
<1>2. ASSUME inserted' = inserted, catalog' = catalog PROVE Goal
  BY <1>2 DEF NameInv, EntersFreeName
<1>3. ASSUME NEW s \in Session, CommitTransaction(s) \/ AbortTransaction(s) PROVE Goal
  <2>1. catalog' = catalog /\ UpdateCatalog(s)
    BY <1>3 DEF CommitTransaction, AbortTransaction, dbVars
  <2>2. \A t \in Session \ {s} : inserted'[t] = inserted[t]
    BY <1>1, <2>1 DEF UpdateCatalog, TypeOK
  <2>3. \A n \in Name : inserted'[s][n] # NoFile =>
           catalog[n] = NoFile /\ \A t \in Session : inserted[t][n] = NoFile
    <3> SUFFICES ASSUME NEW n \in Name, inserted'[s][n] # NoFile
                 PROVE  catalog[n] = NoFile /\ \A t \in Session : inserted[t][n] = NoFile
      OBVIOUS
    <3>1. /\ toCatalog[s][n] # NoFile
          /\ \A m \in Name : toCatalog[s][m] # NoFile => InsertIntoCatalog(m)
      BY <1>1, <2>1 DEF UpdateCatalog, NoNames, TypeOK
    <3>2. NameFree(n)
      BY <2>1, <3>1 DEF UpdateCatalog
    <3> QED
      BY <3>1, <3>2 DEF InsertIntoCatalog, NameFree
  <2> QED
    BY <2>1, <2>2, <2>3 DEF NameInv, EntersFreeName
<1>4. ASSUME NEW s \in Session, EndTransaction(s) PROVE Goal
  <2>1. /\ \A n \in Name : inserted'[s][n] = NoFile
        /\ \A t \in Session \ {s} : inserted'[t] = inserted[t]
    BY <1>1, <1>4 DEF EndTransaction, NoNames, TypeOK
  <2>2. \/ catalog' = catalog
        \/ \A n \in Name : catalog'[n] = IF inserted[s][n] # NoFile
                                         THEN inserted[s][n] ELSE catalog[n]
    BY <1>4 DEF EndTransaction
  <2> QED
    BY <2>1, <2>2 DEF NameInv, EntersFreeName
<1>5. ASSUME NEW s \in Session, BeginTransaction(s) \/ EraseFiles(s) PROVE Goal
  BY <1>2, <1>5 DEF BeginTransaction, EraseFiles, dbVars
<1>6. ASSUME NEW s \in Session, OpenStep(s) PROVE Goal
  BY <1>2, <1>6 DEF OpenStep, OpenExisting, GetFileId, Create, OpenNew, NewFile,
     ScanFolder, SetFileId, CloseDatabase, dbVars, txnVars
<1>7. ASSUME NEW s \in Session, WriteStep(s) PROVE Goal
  BY <1>2, <1>7 DEF WriteStep, ReplaceRecord, DeadlockVictim, dbVars
<1>8. ASSUME Restart PROVE Goal
  <2>1. /\ catalog' = catalog
        /\ \A s \in Session : \A n \in Name : inserted'[s][n] = NoFile
    BY <1>8 DEF Restart, NoNames
  <2> QED
    BY <2>1 DEF EntersFreeName
<1>9. ASSUME UNCHANGED vars PROVE Goal
  BY <1>2, <1>9 DEF vars, dbVars, txnVars
<1> QED
  BY <1>1, <1>3, <1>4, <1>5, <1>6, <1>7, <1>8, <1>9 DEF NameInv, Next, TransactionStep

(* A file catalogued under a name stays the file of that name, also when   *)
(* the lock detector picks victims.                                        *)
THEOREM NameStableHolds == UseTransactions => (Spec => NameStable)
<1> SUFFICES ASSUME UseTransactions PROVE Spec => NameStable
  OBVIOUS
<1>1. NameInv /\ [Next]_vars => NameInv'
  BY NameStep
<1>2. NameInv /\ [Next]_vars =>
        [\A n \in Name : catalog[n] # NoFile => catalog'[n] = catalog[n]]_vars
  BY NameStep
<1> QED
  BY NameInit, <1>1, <1>2, PTL DEF Spec, NameStable
=============================================================================
