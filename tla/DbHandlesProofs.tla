--------------------------- MODULE DbHandlesProofs ---------------------------
(***************************************************************************)
(* Proofs about DbHandles, for any number of SmiFiles, files, flags and    *)
(* entries of the array.                                                   *)
(***************************************************************************)
EXTENDS DbHandles, TLAPS

(* What popping from the free list and pushing to it does.                 *)
LEMMA Prefix ==
    ASSUME NEW S, NEW q \in Seq(S), NEW m \in Nat, m <= Len(q)
    PROVE  /\ SubSeq(q, 1, m) \in Seq(S)
           /\ Len(SubSeq(q, 1, m)) = m
           /\ \A k \in 1..m : SubSeq(q, 1, m)[k] = q[k]
<1>1. SubSeq(q, 1, m) \in Seq(S)
  OBVIOUS
<1>2. Len(SubSeq(q, 1, m)) = m
  OBVIOUS
<1>3. ASSUME NEW k \in 1..m PROVE SubSeq(q, 1, m)[k] = q[k]
  OBVIOUS
<1> QED
  BY <1>1, <1>2, <1>3

LEMMA Popped ==
    ASSUME NEW S, NEW q \in Seq(S), q # << >>
    PROVE  LET n == Len(q)
               r == SubSeq(q, 1, n - 1)
           IN  /\ n \in Nat \ {0} /\ q[n] \in S
               /\ r \in Seq(S) /\ Len(r) = n - 1
               /\ \A k \in 1..(n - 1) : r[k] = q[k]
<1>1. Len(q) \in Nat \ {0} /\ q[Len(q)] \in S
  OBVIOUS
<1>2. Len(q) - 1 \in Nat /\ Len(q) - 1 <= Len(q)
  BY <1>1
<1> QED
  BY <1>1, <1>2, Prefix, Zenon

LEMMA Pushed ==
    ASSUME NEW S, NEW q \in Seq(S), NEW i \in S
    PROVE  LET n == Len(q)
               r == Append(q, i)
           IN  /\ n \in Nat
               /\ r \in Seq(S) /\ Len(r) = n + 1 /\ r[n + 1] = i
               /\ \A k \in 1..n : r[k] = q[k]
OBVIOUS
----------------------------------------------------------------------------
LEMMA TypeInit == Init => TypeOK
BY HandleConstants DEF Init, TypeOK, Handle, NoIndex

LEMMA AllocatedType ==
    ASSUME TypeOK, Allocatable
    PROVE  /\ Allocated \in Index
           /\ freeList = << >> => Allocated = allocated + 1
           /\ freeList # << >> => Allocated = freeList[Len(freeList)]
<1>1. CASE freeList = << >>
  BY <1>1, HandleConstants DEF Allocatable, Allocated, TypeOK, Index
<1>2. CASE freeList # << >>
  <2>1. freeList[Len(freeList)] \in Index
    BY <1>2, Popped DEF TypeOK
  <2> QED
    BY <1>2, <2>1 DEF Allocated
<1> QED
  BY <1>1, <1>2

LEMMA OpenHandleType ==
    ASSUME TypeOK, NEW f \in SmiFile, NEW db \in Db, NEW fl \in Flags,
           NEW ok \in BOOLEAN, OpenHandle(f, db, fl, ok)
    PROVE  /\ allocated' \in 0..MaxHandles
           /\ handle' \in [Index -> Handle]
           /\ inUse' \in [Index -> BOOLEAN]
           /\ freeList' \in Seq(Index)
           /\ status' \in [SmiFile -> {"none", "closed", "open"}]
           /\ bdbHandle' \in [SmiFile -> Index \cup {NoIndex}]
           /\ noHandle' \in [SmiFile -> BOOLEAN]
           /\ file' \in [SmiFile -> Db \cup {Unopened}]
<1> DEFINE result == IF ok THEN <<db, fl>> ELSE Unopened
<1>1. result \in Handle
  BY DEF Handle
<1>2. /\ status' \in [SmiFile -> {"none", "closed", "open"}]
      /\ noHandle' \in [SmiFile -> BOOLEAN]
      /\ file' \in [SmiFile -> Db \cup {Unopened}]
  BY DEF OpenHandle, TypeOK
<1>3. CASE noHandle[f]
  <2>1. /\ Allocatable
        /\ AllocateDbHandle(result)
        /\ bdbHandle' = [bdbHandle EXCEPT ![f] = Allocated]
    BY <1>3 DEF OpenHandle
  <2>2. Allocated \in Index
    BY <2>1, AllocatedType
  <2>3. /\ handle' \in [Index -> Handle]
        /\ inUse' \in [Index -> BOOLEAN]
        /\ bdbHandle' \in [SmiFile -> Index \cup {NoIndex}]
    BY <1>1, <2>1, <2>2 DEF AllocateDbHandle, TypeOK
  <2>4. allocated' \in 0..MaxHandles /\ freeList' \in Seq(Index)
    <3>1. CASE freeList = << >>
      BY <2>1, <3>1, HandleConstants
         DEF AllocateDbHandle, Allocatable, TypeOK
    <3>2. CASE freeList # << >>
      BY <2>1, <3>2, Popped DEF AllocateDbHandle, TypeOK
    <3> QED
      BY <3>1, <3>2
  <2> QED
    BY <1>2, <2>3, <2>4
<1>4. CASE ~noHandle[f]
  BY <1>1, <1>2, <1>4 DEF OpenHandle, TypeOK
<1> QED
  BY <1>3, <1>4

LEMMA TypeStep == TypeOK /\ [Next]_vars => TypeOK'
<1> SUFFICES ASSUME TypeOK, [Next]_vars PROVE TypeOK'
  OBVIOUS
<1> USE DEF arrayVars, dbVars, fileVars
<1>1. ASSUME NEW f \in SmiFile, FileStep(f) PROVE TypeOK'
  <2>1. CASE Construct(f)
    BY <2>1 DEF Construct, TypeOK
  <2>2. ASSUME NEW db \in Db, NEW fl \in Flags, NEW ok \in BOOLEAN,
               Create(f, db, fl, ok)
        PROVE  TypeOK'
    <3>1. /\ OpenHandle(f, db, fl, ok)
          /\ UNCHANGED <<closing, toDrop>>
          /\ exists' \subseteq Db
      BY <2>2 DEF Create, TypeOK
    <3> QED
      BY <3>1, OpenHandleType DEF TypeOK
  <2>3. ASSUME NEW db \in Db, NEW fl \in Flags, OpenFound(f, db, fl)
        PROVE  TypeOK'
    <3>1. PICK i \in FindOpen(db, fl) :
              /\ inUse' = [j \in Index |->
                    j = i \/ (inUse[j] /\ (j = bdbHandle[f] => noHandle[f]))]
              /\ bdbHandle' = [bdbHandle EXCEPT ![f] = i]
      BY <2>3 DEF OpenFound
    <3>2. i \in Index
      BY HandleConstants DEF FindOpen, Entries, Index, TypeOK
    <3>3. inUse' \in [Index -> BOOLEAN]
      BY <3>1, ZenonT(30) DEF TypeOK
    <3> QED
      BY <2>3, <3>1, <3>2, <3>3 DEF OpenFound, TypeOK
  <2>4. ASSUME NEW db \in Db, NEW fl \in Flags, NEW ok \in BOOLEAN,
               OpenHandleOf(f, db, fl, ok)
        PROVE  TypeOK'
    <3>1. OpenHandle(f, db, fl, ok) /\ UNCHANGED <<closing, exists, toDrop>>
      BY <2>4 DEF OpenHandleOf
    <3> QED
      BY <3>1, OpenHandleType DEF TypeOK
  <2>5. ASSUME FreeDbHandle(f) PROVE inUse' \in [Index -> BOOLEAN]
    BY <2>5 DEF FreeDbHandle, TypeOK
  <2>6. CASE Close(f)
    BY <2>5, <2>6 DEF Close, TypeOK
  <2>7. CASE Drop(f)
    BY <2>5, <2>7 DEF Drop, TypeOK
  <2>8. CASE Destroy(f)
    BY <2>5, <2>8 DEF Destroy, TypeOK
  <2> QED
    BY <1>1, <2>1, <2>2, <2>3, <2>4, <2>6, <2>7, <2>8 DEF FileStep
<1>2. CASE EndTransaction
  BY <1>2, HandleConstants DEF EndTransaction, TypeOK
<1>3. CASE CloseDbHandle
  <2>1. closing \in Index /\ closing' \in 0..(MaxHandles + 1)
    BY <1>3, HandleConstants DEF CloseDbHandle, Entries, Index, TypeOK
  <2>2. handle' \in [Index -> Handle]
    BY <1>3, <2>1 DEF CloseDbHandle, Handle, TypeOK
  <2>3. freeList' \in Seq(Index)
    BY <1>3, <2>1, Pushed DEF CloseDbHandle, TypeOK
  <2> QED
    BY <1>3, <2>1, <2>2, <2>3 DEF CloseDbHandle, TypeOK
<1>4. CASE EraseFiles
  BY <1>4, HandleConstants DEF EraseFiles, TypeOK
<1>5. CASE UNCHANGED vars
  BY <1>5 DEF vars, TypeOK
<1> QED
  BY <1>1, <1>2, <1>3, <1>4, <1>5 DEF Next

(* All variables keep their types, also where SmiFiles are destroyed late. *)
THEOREM TypeCorrect == Spec => []TypeOK
BY TypeInit, TypeStep, PTL DEF Spec
----------------------------------------------------------------------------
(* Why an open SmiFile keeps its handle.  Every owner of a handle has an   *)
(* entry in use for itself, so that CloseDbHandles passes it by, FindOpen  *)
(* does not offer it and it is not on the free list; and every entry in    *)
(* use has an owner, who can give it back.                                 *)
OwnersHaveHandles ==
    \A f \in SmiFile : Owns(f) =>
        /\ bdbHandle[f] \in Entries /\ inUse[bdbHandle[f]]
        /\ status[f] = "open" =>
              /\ file[f] \in Db
              /\ \E fl \in Flags : handle[bdbHandle[f]] = <<file[f], fl>>
        /\ status[f] = "closed" => handle[bdbHandle[f]] = Unopened

ExclusiveOwners ==
    \A f, g \in SmiFile :
        Owns(f) /\ Owns(g) /\ bdbHandle[f] = bdbHandle[g] => f = g

InUseOwned ==
    \A i \in Index : inUse[i] => \E f \in SmiFile : Owns(f) /\ bdbHandle[f] = i

NewEntriesClosed == \A i \in Index : i > allocated => handle[i] = Closed

NoneOwnsNothing == \A f \in SmiFile : status[f] = "none" => noHandle[f]

DroppedUnopened ==
    /\ exists \cap toDrop = {}
    /\ \A f \in SmiFile : status[f] = "open" => file[f] \notin toDrop

Swept == \A i \in Index : i < closing => handle[i] = Closed \/ inUse[i]

ArrayInv ==
    /\ FreeListSound /\ OwnersHaveHandles /\ ExclusiveOwners
    /\ InUseOwned /\ NewEntriesClosed /\ NoneOwnsNothing

HandleInv == TypeOK /\ ArrayInv /\ DroppedUnopened /\ Swept

LEMMA HandleInit == Init => HandleInv
<1> SUFFICES ASSUME Init PROVE HandleInv
  OBVIOUS
<1>1. TypeOK
  BY TypeInit
<1>2. \A f \in SmiFile : ~Owns(f)
  BY DEF Init, Owns
<1>3. FreeListSound
  <2>1. Len(freeList) = 0 /\ allocated = 0
    BY DEF Init
  <2>2. \A i \in Index : ~(i <= allocated)
    BY <2>1, HandleConstants DEF Index
  <2> QED
    BY <2>1, <2>2 DEF FreeListSound
<1>4. OwnersHaveHandles /\ ExclusiveOwners
  BY <1>2 DEF OwnersHaveHandles, ExclusiveOwners
<1>5. InUseOwned /\ NewEntriesClosed /\ NoneOwnsNothing
  BY DEF Init, InUseOwned, NewEntriesClosed, NoneOwnsNothing
<1>6. DroppedUnopened /\ Swept
  BY DEF Init, DroppedUnopened, Swept
<1> QED
  BY <1>1, <1>3, <1>4, <1>5, <1>6 DEF HandleInv, ArrayInv

(* The entries of owners are part of the array and not closed.             *)
LEMMA OwnedEntries ==
    ASSUME HandleInv, NEW f \in SmiFile, Owns(f)
    PROVE  /\ bdbHandle[f] \in Index /\ bdbHandle[f] <= allocated
           /\ inUse[bdbHandle[f]]
           /\ handle[bdbHandle[f]] # Closed
<1>1. bdbHandle[f] \in Entries /\ inUse[bdbHandle[f]]
  BY DEF HandleInv, ArrayInv, OwnersHaveHandles
<1>2. bdbHandle[f] \in Index /\ bdbHandle[f] <= allocated
  BY <1>1, HandleConstants DEF HandleInv, TypeOK, Entries, Index
<1>3. CASE status[f] = "open"
  <2>1. PICK fl \in Flags : handle[bdbHandle[f]] = <<file[f], fl>>
    BY <1>3 DEF HandleInv, ArrayInv, OwnersHaveHandles
  <2>2. file[f] \in Db
    BY <1>3 DEF HandleInv, ArrayInv, OwnersHaveHandles
  <2> QED
    BY <1>1, <1>2, <2>1, <2>2, HandleConstants
<1>4. CASE status[f] = "closed"
  BY <1>1, <1>2, <1>4, HandleConstants
     DEF HandleInv, ArrayInv, OwnersHaveHandles
<1> QED
  BY <1>3, <1>4 DEF Owns

(* An entry that AllocateDbHandle takes belongs to nobody.                 *)
LEMMA AllocatedFree ==
    ASSUME HandleInv, Allocatable
    PROVE  /\ Allocated \in Index /\ handle[Allocated] = Closed
           /\ ~inUse[Allocated]
           /\ \A g \in SmiFile : Owns(g) => bdbHandle[g] # Allocated
<1>1. Allocated \in Index
  BY AllocatedType DEF HandleInv
<1>2. handle[Allocated] = Closed
  <2>1. CASE freeList = << >>
    <3>1. Allocated > allocated
      BY <2>1, AllocatedType DEF HandleInv, TypeOK
    <3> QED
      BY <1>1, <3>1 DEF HandleInv, ArrayInv, NewEntriesClosed
  <2>2. CASE freeList # << >>
    <3>1. /\ Len(freeList) \in 1..Len(freeList)
          /\ Allocated = freeList[Len(freeList)]
      BY <2>2, AllocatedType, Popped DEF HandleInv, TypeOK
    <3> QED
      BY <1>1, <3>1 DEF HandleInv, ArrayInv, FreeListSound
  <2> QED
    BY <2>1, <2>2
<1>3. \A g \in SmiFile : Owns(g) => bdbHandle[g] # Allocated
  BY <1>2, OwnedEntries
<1> QED
  BY <1>1, <1>2, <1>3 DEF HandleInv, ArrayInv, InUseOwned

(* Allocating takes the entry off the free list.                           *)
LEMMA AllocateFreeList ==
    ASSUME HandleInv, Allocatable, NEW h, h # Closed, AllocateDbHandle(h)
    PROVE  FreeListSound' /\ NewEntriesClosed' /\ allocated <= allocated'
           /\ Allocated <= allocated'
<1>1. /\ Allocated \in Index /\ handle[Allocated] = Closed
      /\ handle' = [handle EXCEPT ![Allocated] = h]
  BY AllocatedFree DEF AllocateDbHandle
<1>2. /\ allocated \in Nat /\ freeList \in Seq(Index)
      /\ handle \in [Index -> Handle] /\ Index \subseteq Nat
  BY HandleConstants DEF HandleInv, TypeOK, Index
<1>3. FreeListSound /\ NewEntriesClosed
  BY DEF HandleInv, ArrayInv
<1>4. CASE freeList = << >>
  <2>1. /\ allocated' = allocated + 1 /\ freeList' = freeList
        /\ Allocated = allocated + 1
    BY <1>4, AllocatedType DEF AllocateDbHandle, HandleInv
  <2>2. Len(freeList) = 0
    BY <1>4
  <2>3. \A i \in Index : ~(handle[i] = Closed /\ i <= allocated)
    BY <1>3, <2>2 DEF FreeListSound
  <2>4. \A i \in Index : ~(handle'[i] = Closed /\ i <= allocated')
    BY <1>1, <1>2, <2>1, <2>3
  <2>5. FreeListSound'
    BY <2>1, <2>2, <2>4 DEF FreeListSound
  <2>6. NewEntriesClosed'
    BY <1>1, <1>2, <1>3, <2>1 DEF NewEntriesClosed
  <2> QED
    BY <1>2, <2>1, <2>5, <2>6
<1>5. CASE freeList # << >>
  <2> DEFINE n == Len(freeList)
  <2>1. /\ allocated' = allocated /\ freeList' = SubSeq(freeList, 1, n - 1)
        /\ Allocated = freeList[n]
    BY <1>5, AllocatedType DEF AllocateDbHandle, HandleInv
  <2>2. /\ n \in Nat \ {0} /\ Len(freeList') = n - 1
        /\ \A k \in 1..(n - 1) : freeList'[k] = freeList[k]
    BY <1>2, <1>5, <2>1, Popped
  <2> HIDE DEF n
  <2>3. /\ \A i, j \in 1..n : freeList[i] = freeList[j] => i = j
        /\ \A i \in Index : handle[i] = Closed /\ i <= allocated
                               <=> \E k \in 1..n : freeList[k] = i
    BY <1>3 DEF FreeListSound, n
  <2>4. \A i, j \in 1..(n - 1) : freeList'[i] = freeList'[j] => i = j
    BY <2>2, <2>3
  <2>5. Allocated <= allocated
    BY <1>1, <2>1, <2>2, <2>3
  <2>6. ASSUME NEW i \in Index
        PROVE  handle'[i] = Closed /\ i <= allocated
                  <=> \E k \in 1..(n - 1) : freeList'[k] = i
    <3>1. CASE i = Allocated
      <4>1. handle'[i] # Closed
        BY <1>1, <1>2, <3>1
      <4>2. \A k \in 1..(n - 1) : freeList'[k] # i
        BY <2>1, <2>2, <2>3, <3>1
      <4> QED
        BY <4>1, <4>2
    <3>2. CASE i # Allocated
      <4>1. handle'[i] = handle[i]
        BY <1>1, <1>2, <3>2
      <4>2. \A k \in 1..n : freeList[k] = i => k \in 1..(n - 1)
        BY <2>1, <2>2, <3>2
      <4>3. \A k \in 1..(n - 1) : k \in 1..n
        BY <2>2
      <4> QED
        BY <2>2, <2>3, <4>1, <4>2, <4>3
    <3> QED
      BY <3>1, <3>2
  <2>7. FreeListSound'
    BY <2>1, <2>2, <2>4, <2>6 DEF FreeListSound
  <2>8. NewEntriesClosed'
    BY <1>1, <1>2, <1>3, <2>1, <2>5 DEF NewEntriesClosed
  <2> QED
    BY <1>2, <2>1, <2>5, <2>7, <2>8
<1> QED
  BY <1>4, <1>5

(* Opening a file with a handle of the SmiFile's own.                      *)
LEMMA OpenHandleInv ==
    ASSUME HandleInv, TypeOK', NEW f \in SmiFile, NEW db \in Db,
           NEW fl \in Flags, NEW ok \in BOOLEAN, status[f] = "closed",
           OpenHandle(f, db, fl, ok)
    PROVE  ArrayInv'
<1> DEFINE h == IF ok THEN <<db, fl>> ELSE Unopened
           i == bdbHandle'[f]
<1>1. h # Closed /\ h \in Handle
  BY HandleConstants DEF Handle
<1>2. /\ status' = [status EXCEPT ![f] = IF ok THEN "open" ELSE "closed"]
      /\ noHandle' = [noHandle EXCEPT ![f] = FALSE]
      /\ file' = [file EXCEPT ![f] = IF ok THEN db ELSE Unopened]
  BY DEF OpenHandle
<1>3. /\ status \in [SmiFile -> {"none", "closed", "open"}]
      /\ noHandle \in [SmiFile -> BOOLEAN]
      /\ file \in [SmiFile -> Db \cup {Unopened}]
      /\ bdbHandle \in [SmiFile -> Index \cup {NoIndex}]
      /\ handle \in [Index -> Handle] /\ inUse \in [Index -> BOOLEAN]
      /\ allocated \in Nat /\ allocated' \in Nat /\ Index \subseteq Nat
      /\ allocated' <= MaxHandles /\ MaxHandles \in Nat
  BY HandleConstants DEF HandleInv, TypeOK, Index
<1>4. \A g \in SmiFile : Owns(g)' <=> g = f \/ Owns(g)
  <2>1. Owns(f)'
    BY <1>2, <1>3 DEF Owns
  <2>2. \A g \in SmiFile \ {f} : status'[g] = status[g]
                                /\ noHandle'[g] = noHandle[g]
    BY <1>2, <1>3
  <2> QED
    BY <2>1, <2>2 DEF Owns
<1>5. /\ FreeListSound' /\ NewEntriesClosed'
      /\ i \in Index /\ i <= allocated' /\ allocated <= allocated'
      /\ bdbHandle' = [bdbHandle EXCEPT ![f] = i]
      /\ handle' = [handle EXCEPT ![i] = h]
      /\ inUse' = [inUse EXCEPT ![i] = TRUE]
      /\ \A g \in SmiFile \ {f} : Owns(g) => bdbHandle[g] # i
      /\ Owns(f) => bdbHandle[f] = i
  <2>1. CASE noHandle[f]
    <3>1. /\ Allocatable /\ AllocateDbHandle(h)
          /\ bdbHandle' = [bdbHandle EXCEPT ![f] = Allocated]
      BY <2>1 DEF OpenHandle
    <3>2. i = Allocated
      BY <1>3, <3>1
    <3>3. ~Owns(f)
      BY <2>1 DEF Owns
    <3> QED
      BY <1>1, <3>1, <3>2, <3>3, AllocatedFree, AllocateFreeList
         DEF AllocateDbHandle
  <2>2. CASE ~noHandle[f]
    <3>1. /\ handle' = [handle EXCEPT ![bdbHandle[f]] = h]
          /\ UNCHANGED <<inUse, allocated, freeList, bdbHandle>>
      BY <2>2 DEF OpenHandle
    <3>2. Owns(f) /\ i = bdbHandle[f]
      BY <2>2, <3>1 DEF Owns
    <3>3. /\ i \in Index /\ i <= allocated /\ inUse[i] /\ handle[i] # Closed
      BY <3>2, OwnedEntries
    <3>4. inUse' = [inUse EXCEPT ![i] = TRUE]
      BY <1>3, <3>1, <3>3, Zenon
    <3>5. \A g \in SmiFile \ {f} : Owns(g) => bdbHandle[g] # i
      BY <3>2 DEF HandleInv, ArrayInv, ExclusiveOwners
    <3>6. \A j \in Index : handle'[j] = Closed <=> handle[j] = Closed
      BY <1>1, <1>3, <3>1, <3>2, <3>3
    <3>7. FreeListSound' /\ NewEntriesClosed'
      BY <3>1, <3>6 DEF HandleInv, ArrayInv, FreeListSound, NewEntriesClosed
    <3>8. bdbHandle' = [bdbHandle EXCEPT ![f] = i]
      BY <1>3, <3>1, <3>2, Zenon
    <3>9. allocated <= allocated' /\ i <= allocated'
      BY <1>3, <3>1, <3>3
    <3>10. handle' = [handle EXCEPT ![i] = h]
      BY <3>1, <3>2
    <3> HIDE DEF i, h
    <3> QED
      BY <3>2, <3>3, <3>4, <3>5, <3>7, <3>8, <3>9, <3>10
  <2> QED
    BY <2>1, <2>2
<1> HIDE DEF i
<1>6. OwnersHaveHandles'
  <2> SUFFICES ASSUME NEW g \in SmiFile, Owns(g)'
               PROVE  /\ bdbHandle'[g] \in Entries' /\ inUse'[bdbHandle'[g]]
                      /\ status'[g] = "open" =>
                            /\ file'[g] \in Db
                            /\ \E l \in Flags :
                                  handle'[bdbHandle'[g]] = <<file'[g], l>>
                      /\ status'[g] = "closed" =>
                            handle'[bdbHandle'[g]] = Unopened
    BY DEF OwnersHaveHandles
  <2>1. CASE g = f
    <3>1. bdbHandle'[g] = i /\ handle'[i] = h /\ inUse'[i]
      BY <1>3, <1>5, <2>1
    <3>2. i \in Entries'
      BY <1>3, <1>5 DEF Entries, Index
    <3>3. /\ status'[g] = "open" => ok /\ file'[g] = db
          /\ status'[g] = "closed" => ~ok
      BY <1>2, <1>3, <2>1
    <3> QED
      BY <3>1, <3>2, <3>3
  <2>2. CASE g # f
    <3>1. /\ Owns(g) /\ bdbHandle'[g] = bdbHandle[g] /\ bdbHandle[g] # i
          /\ status'[g] = status[g] /\ file'[g] = file[g]
      BY <1>2, <1>3, <1>4, <1>5, <2>2
    <3>2. bdbHandle[g] \in Index /\ bdbHandle[g] <= allocated
      BY <3>1, OwnedEntries
    <3>3. /\ handle'[bdbHandle[g]] = handle[bdbHandle[g]]
          /\ inUse'[bdbHandle[g]] = inUse[bdbHandle[g]]
      BY <1>3, <1>5, <3>1, <3>2
    <3>4. bdbHandle[g] \in Entries'
      BY <1>3, <1>5, <3>2 DEF Entries, Index
    <3> QED
      BY <3>1, <3>3, <3>4 DEF HandleInv, ArrayInv, OwnersHaveHandles
  <2> QED
    BY <2>1, <2>2
<1>7. ExclusiveOwners'
  BY <1>3, <1>4, <1>5 DEF HandleInv, ArrayInv, ExclusiveOwners
<1>8. InUseOwned'
  <2> SUFFICES ASSUME NEW j \in Index, inUse'[j]
               PROVE  \E g \in SmiFile : Owns(g)' /\ bdbHandle'[g] = j
    BY DEF InUseOwned
  <2>1. CASE j = i
    BY <1>3, <1>4, <1>5, <2>1
  <2>2. CASE j # i
    <3>1. inUse[j]
      BY <1>3, <1>5, <2>2
    <3>2. PICK g \in SmiFile : Owns(g) /\ bdbHandle[g] = j
      BY <3>1 DEF HandleInv, ArrayInv, InUseOwned
    <3>3. g # f
      BY <1>5, <2>2, <3>2
    <3> QED
      BY <1>3, <1>4, <1>5, <3>2, <3>3
  <2> QED
    BY <2>1, <2>2
<1>9. NoneOwnsNothing'
  BY <1>2, <1>3 DEF HandleInv, ArrayInv, NoneOwnsNothing
<1> QED
  BY <1>5, <1>6, <1>7, <1>8, <1>9 DEF ArrayInv

(* Taking over an open handle, which nobody uses.                          *)
LEMMA OpenFoundInv ==
    ASSUME HandleInv, TypeOK', NEW f \in SmiFile, NEW db \in Db,
           NEW fl \in Flags, OpenFound(f, db, fl)
    PROVE  ArrayInv'
<1>1. PICK i \in FindOpen(db, fl) :
          /\ inUse' = [j \in Index |->
                j = i \/ (inUse[j] /\ (j = bdbHandle[f] => noHandle[f]))]
          /\ bdbHandle' = [bdbHandle EXCEPT ![f] = i]
  BY DEF OpenFound
<1>2. /\ status[f] = "closed"
      /\ status' = [status EXCEPT ![f] = "open"]
      /\ file' = [file EXCEPT ![f] = db]
      /\ UNCHANGED <<allocated, handle, freeList, noHandle>>
  BY DEF OpenFound
<1>3. /\ status \in [SmiFile -> {"none", "closed", "open"}]
      /\ file \in [SmiFile -> Db \cup {Unopened}]
      /\ bdbHandle \in [SmiFile -> Index \cup {NoIndex}]
      /\ allocated \in 0..MaxHandles /\ MaxHandles \in Nat
  BY HandleConstants DEF HandleInv, TypeOK
<1>4. /\ i \in Entries /\ i \in Index /\ ~inUse[i] /\ handle[i] = <<db, fl>>
  BY <1>3 DEF FindOpen, Entries, Index
<1>5. \A g \in SmiFile : Owns(g) => bdbHandle[g] # i
  BY <1>4, OwnedEntries
<1>6. \A g \in SmiFile : Owns(g)' <=> g = f \/ Owns(g)
  BY <1>2, <1>3 DEF Owns
<1>7. Owns(f) <=> ~noHandle[f]
  BY <1>2 DEF Owns
<1>8. FreeListSound' /\ NewEntriesClosed' /\ NoneOwnsNothing'
  BY <1>2, <1>3
     DEF HandleInv, ArrayInv, FreeListSound, NewEntriesClosed, NoneOwnsNothing
<1>9. OwnersHaveHandles'
  <2> SUFFICES ASSUME NEW g \in SmiFile, Owns(g)'
               PROVE  /\ bdbHandle'[g] \in Entries' /\ inUse'[bdbHandle'[g]]
                      /\ status'[g] = "open" =>
                            /\ file'[g] \in Db
                            /\ \E l \in Flags :
                                  handle'[bdbHandle'[g]] = <<file'[g], l>>
                      /\ status'[g] = "closed" =>
                            handle'[bdbHandle'[g]] = Unopened
    BY DEF OwnersHaveHandles
  <2>1. CASE g = f
    <3>1. bdbHandle'[g] = i /\ file'[g] = db /\ status'[g] = "open"
      BY <1>1, <1>2, <1>3, <2>1
    <3>2. inUse'[i]
      BY <1>1, <1>4, Zenon
    <3> QED
      BY <1>2, <1>4, <3>1, <3>2 DEF Entries
  <2>2. CASE g # f
    <3>1. /\ Owns(g) /\ bdbHandle'[g] = bdbHandle[g]
          /\ status'[g] = status[g] /\ file'[g] = file[g]
      BY <1>1, <1>2, <1>3, <1>6, <2>2
    <3>2. bdbHandle[g] \in Index /\ inUse[bdbHandle[g]]
      BY <3>1, OwnedEntries
    <3>3. bdbHandle[g] = bdbHandle[f] => noHandle[f]
      BY <1>7, <2>2, <3>1 DEF HandleInv, ArrayInv, ExclusiveOwners
    <3>4. inUse'[bdbHandle[g]]
      BY <1>1, <3>2, <3>3, Zenon
    <3> QED
      BY <1>2, <3>1, <3>4
         DEF HandleInv, ArrayInv, OwnersHaveHandles, Entries
  <2> QED
    BY <2>1, <2>2
<1>10. ExclusiveOwners'
  BY <1>1, <1>3, <1>5, <1>6 DEF HandleInv, ArrayInv, ExclusiveOwners
<1>11. InUseOwned'
  <2> SUFFICES ASSUME NEW j \in Index, inUse'[j]
               PROVE  \E g \in SmiFile : Owns(g)' /\ bdbHandle'[g] = j
    BY DEF InUseOwned
  <2>1. CASE j = i
    BY <1>1, <1>3, <1>6, <2>1
  <2>2. CASE j # i
    <3>1. inUse[j] /\ (j = bdbHandle[f] => noHandle[f])
      BY <1>1, <2>2, Zenon
    <3>2. PICK g \in SmiFile : Owns(g) /\ bdbHandle[g] = j
      BY <3>1 DEF HandleInv, ArrayInv, InUseOwned
    <3>3. g # f
      BY <1>7, <3>1, <3>2
    <3> QED
      BY <1>1, <1>3, <1>6, <3>2, <3>3
  <2> QED
    BY <2>1, <2>2
<1> QED
  BY <1>8, <1>9, <1>10, <1>11 DEF ArrayInv

(* Giving a handle back, if there is one: Close, Drop and the destructor.  *)
LEMMA FreeInv ==
    ASSUME HandleInv, NEW f \in SmiFile, FreeDbHandle(f),
           Owns(f) \/ bdbHandle[f] = NoIndex, ~Owns(f)', noHandle'[f],
           UNCHANGED <<allocated, handle, freeList>>,
           \A g \in SmiFile \ {f} :
              /\ status'[g] = status[g] /\ noHandle'[g] = noHandle[g]
              /\ bdbHandle'[g] = bdbHandle[g] /\ file'[g] = file[g]
    PROVE  ArrayInv'
<1>1. \A g \in SmiFile : Owns(g)' <=> g # f /\ Owns(g)
  BY DEF Owns
<1>2. inUse' = [i \in Index |-> inUse[i] /\ i # bdbHandle[f]]
  BY DEF FreeDbHandle
<1>3. \A g \in SmiFile \ {f} :
         Owns(g) => bdbHandle[g] # bdbHandle[f] /\ bdbHandle[g] \in Index
  <2>1. NoIndex \notin Index
    BY HandleConstants DEF NoIndex, Index
  <2> QED
    BY <2>1, OwnedEntries DEF HandleInv, ArrayInv, ExclusiveOwners
<1>4. FreeListSound' /\ NewEntriesClosed' /\ NoneOwnsNothing'
  BY DEF HandleInv, ArrayInv, FreeListSound, NewEntriesClosed, NoneOwnsNothing
<1>5. OwnersHaveHandles'
  <2> SUFFICES ASSUME NEW g \in SmiFile, Owns(g)'
               PROVE  /\ bdbHandle'[g] \in Entries' /\ inUse'[bdbHandle'[g]]
                      /\ status'[g] = "open" =>
                            /\ file'[g] \in Db
                            /\ \E l \in Flags :
                                  handle'[bdbHandle'[g]] = <<file'[g], l>>
                      /\ status'[g] = "closed" =>
                            handle'[bdbHandle'[g]] = Unopened
    BY DEF OwnersHaveHandles
  <2>1. g # f /\ Owns(g)
    BY <1>1
  <2>2. inUse[bdbHandle[g]]
    BY <2>1, OwnedEntries
  <2>3. inUse'[bdbHandle[g]]
    BY <1>2, <1>3, <2>1, <2>2, Zenon
  <2> QED
    BY <2>1, <2>3 DEF HandleInv, ArrayInv, OwnersHaveHandles, Entries
<1>6. ExclusiveOwners'
  BY <1>1 DEF HandleInv, ArrayInv, ExclusiveOwners
<1>7. InUseOwned'
  <2> SUFFICES ASSUME NEW j \in Index, inUse'[j]
               PROVE  \E g \in SmiFile : Owns(g)' /\ bdbHandle'[g] = j
    BY DEF InUseOwned
  <2>1. inUse[j] /\ j # bdbHandle[f]
    BY <1>2, Zenon
  <2>2. PICK g \in SmiFile : Owns(g) /\ bdbHandle[g] = j
    BY <2>1 DEF HandleInv, ArrayInv, InUseOwned
  <2> QED
    BY <1>1, <2>1, <2>2
<1> QED
  BY <1>4, <1>5, <1>6, <1>7 DEF ArrayInv

(* CloseDbHandles touches no entry in use, and no closed one again.        *)
LEMMA CloseDbHandleInv ==
    ASSUME HandleInv, CloseDbHandle
    PROVE  ArrayInv' /\ Swept'
<1>1. /\ closing \in Index /\ closing <= allocated /\ closing' = closing + 1
      /\ UNCHANGED <<allocated, inUse, exists, toDrop,
                     status, bdbHandle, noHandle, file>>
  BY HandleConstants
     DEF CloseDbHandle, Entries, Index, HandleInv, TypeOK, dbVars, fileVars
<1>2. /\ freeList \in Seq(Index) /\ handle \in [Index -> Handle]
      /\ Index \subseteq Nat
  BY DEF HandleInv, TypeOK, Index
<1>3. \A f \in SmiFile : Owns(f)' <=> Owns(f)
  BY <1>1 DEF Owns
<1>4. ExclusiveOwners' /\ InUseOwned' /\ NoneOwnsNothing'
  BY <1>1, <1>3
     DEF HandleInv, ArrayInv, ExclusiveOwners, InUseOwned, NoneOwnsNothing
<1>5. CASE ~inUse[closing] /\ handle[closing] # Closed
  <2> DEFINE n == Len(freeList)
  <2>1. /\ handle' = [handle EXCEPT ![closing] = Closed]
        /\ freeList' = Append(freeList, closing)
    BY <1>5 DEF CloseDbHandle
  <2>2. /\ n \in Nat /\ Len(freeList') = n + 1
        /\ freeList'[n + 1] = closing
        /\ \A k \in 1..n : freeList'[k] = freeList[k]
    BY <1>1, <1>2, <2>1, Pushed
  <2> HIDE DEF n
  <2>3. /\ \A i, j \in 1..n : freeList[i] = freeList[j] => i = j
        /\ \A i \in Index : handle[i] = Closed /\ i <= allocated
                               <=> \E k \in 1..n : freeList[k] = i
    BY DEF HandleInv, ArrayInv, FreeListSound, n
  <2>4. \A k \in 1..n : freeList[k] # closing
    BY <1>1, <1>5, <2>3
  <2>5. \A i, j \in 1..(n + 1) : freeList'[i] = freeList'[j] => i = j
    BY <2>2, <2>3, <2>4
  <2>6. ASSUME NEW i \in Index
        PROVE  handle'[i] = Closed /\ i <= allocated'
                  <=> \E k \in 1..(n + 1) : freeList'[k] = i
    <3>1. CASE i = closing
      <4>1. handle'[i] = Closed /\ i <= allocated'
        BY <1>1, <1>2, <2>1, <3>1
      <4>2. n + 1 \in 1..(n + 1) /\ freeList'[n + 1] = i
        BY <2>2, <3>1
      <4> QED
        BY <4>1, <4>2
    <3>2. CASE i # closing
      <4>1. handle'[i] = handle[i] /\ allocated' = allocated
        BY <1>1, <1>2, <2>1, <3>2
      <4>2. (\E k \in 1..(n + 1) : freeList'[k] = i)
               <=> \E k \in 1..n : freeList[k] = i
        BY <2>2, <3>2
      <4> QED
        BY <2>3, <4>1, <4>2
    <3> QED
      BY <3>1, <3>2
  <2>7. FreeListSound'
    BY <2>2, <2>5, <2>6 DEF FreeListSound
  <2>8. NewEntriesClosed'
    BY <1>1, <1>2, <2>1 DEF HandleInv, ArrayInv, NewEntriesClosed
  <2>9. OwnersHaveHandles'
    <3>1. \A f \in SmiFile : Owns(f) => bdbHandle[f] # closing
      BY <1>5, OwnedEntries
    <3>2. \A f \in SmiFile :
             Owns(f) => handle'[bdbHandle[f]] = handle[bdbHandle[f]]
      BY <1>2, <2>1, <3>1, OwnedEntries
    <3> QED
      BY <1>1, <1>3, <3>2
         DEF HandleInv, ArrayInv, OwnersHaveHandles, Entries
  <2>10. Swept'
    BY <1>1, <1>2, <2>1 DEF HandleInv, Swept
  <2> QED
    BY <1>4, <2>7, <2>8, <2>9, <2>10 DEF ArrayInv
<1>6. CASE ~(~inUse[closing] /\ handle[closing] # Closed)
  <2>1. UNCHANGED <<handle, freeList>>
    BY <1>6 DEF CloseDbHandle
  <2>2. FreeListSound' /\ NewEntriesClosed'
    BY <1>1, <2>1 DEF HandleInv, ArrayInv, FreeListSound, NewEntriesClosed
  <2>3. OwnersHaveHandles'
    BY <1>1, <1>3, <2>1 DEF HandleInv, ArrayInv, OwnersHaveHandles, Entries
  <2>4. Swept'
    BY <1>1, <1>2, <1>6, <2>1 DEF HandleInv, Swept
  <2> QED
    BY <1>4, <2>2, <2>3, <2>4 DEF ArrayInv
<1> QED
  BY <1>5, <1>6

(* ArrayInv does not depend on how far CloseDbHandles has come, nor on the *)
(* files that are to be erased.                                            *)
LEMMA ArrayQuiet ==
    ASSUME HandleInv, UNCHANGED <<allocated, handle, inUse, freeList, fileVars>>
    PROVE  ArrayInv'
<1> USE DEF fileVars
<1>1. \A f \in SmiFile : Owns(f)' <=> Owns(f)
  BY DEF Owns
<1>2. FreeListSound' /\ NewEntriesClosed' /\ NoneOwnsNothing'
  BY DEF HandleInv, ArrayInv, FreeListSound, NewEntriesClosed, NoneOwnsNothing
<1>3. OwnersHaveHandles'
  BY <1>1 DEF HandleInv, ArrayInv, OwnersHaveHandles, Entries
<1>4. ExclusiveOwners' /\ InUseOwned'
  BY <1>1 DEF HandleInv, ArrayInv, ExclusiveOwners, InUseOwned
<1> QED
  BY <1>2, <1>3, <1>4 DEF ArrayInv

(* A step of an SmiFile.  Without late destructors the one that frees an   *)
(* entry owns it.                                                          *)
LEMMA FileStepInv ==
    ASSUME ~LateDestroy, HandleInv, TypeOK', NEW f \in SmiFile, FileStep(f)
    PROVE  HandleInv'
<1> USE DEF arrayVars, dbVars
<1>1. TypeOK /\ DroppedUnopened
  BY DEF HandleInv
<1>2. /\ status \in [SmiFile -> {"none", "closed", "open"}]
      /\ bdbHandle \in [SmiFile -> Index \cup {NoIndex}]
      /\ noHandle \in [SmiFile -> BOOLEAN]
      /\ file \in [SmiFile -> Db \cup {Unopened}]
  BY <1>1 DEF TypeOK
<1>3. closing = 0 /\ closing' = 0
  BY DEF FileStep, Construct, Create, OpenFound, OpenHandleOf, Close, Drop,
         Destroy
<1>4. Swept'
  <2>1. \A i \in Index : ~(i < closing')
    BY <1>3, HandleConstants DEF Index
  <2> QED
    BY <2>1 DEF Swept
<1>5. CASE Construct(f)
  <2>1. /\ status[f] = "none" /\ noHandle[f]
        /\ status' = [status EXCEPT ![f] = "closed"]
        /\ UNCHANGED <<allocated, handle, inUse, freeList, exists, toDrop,
                       bdbHandle, noHandle, file>>
    BY <1>5 DEF Construct, HandleInv, ArrayInv, NoneOwnsNothing
  <2>2. \A g \in SmiFile : Owns(g)' <=> Owns(g)
    BY <1>2, <2>1 DEF Owns
  <2>3. \A g \in SmiFile : Owns(g) => status'[g] = status[g]
    BY <1>2, <2>1 DEF Owns
  <2>4. FreeListSound' /\ NewEntriesClosed'
    BY <2>1 DEF HandleInv, ArrayInv, FreeListSound, NewEntriesClosed
  <2>5. OwnersHaveHandles'
    BY <2>1, <2>2, <2>3 DEF HandleInv, ArrayInv, OwnersHaveHandles, Entries
  <2>6. ExclusiveOwners' /\ InUseOwned'
    BY <2>1, <2>2 DEF HandleInv, ArrayInv, ExclusiveOwners, InUseOwned
  <2>7. NoneOwnsNothing' /\ DroppedUnopened'
    BY <1>1, <1>2, <2>1
       DEF HandleInv, ArrayInv, NoneOwnsNothing, DroppedUnopened
  <2> QED
    BY <1>4, <2>4, <2>5, <2>6, <2>7 DEF HandleInv, ArrayInv
<1>6. ASSUME NEW db \in Db, NEW fl \in Flags, NEW ok \in BOOLEAN,
             Create(f, db, fl, ok)
      PROVE  HandleInv'
  <2>1. /\ OpenHandle(f, db, fl, ok) /\ status[f] = "closed"
        /\ db \notin toDrop /\ toDrop' = toDrop
        /\ exists' = IF ok THEN exists \cup {db} ELSE exists
    BY <1>6 DEF Create
  <2>2. /\ status' = [status EXCEPT ![f] = IF ok THEN "open" ELSE "closed"]
        /\ file' = [file EXCEPT ![f] = IF ok THEN db ELSE Unopened]
    BY <2>1 DEF OpenHandle
  <2>3. DroppedUnopened'
    BY <1>1, <1>2, <2>1, <2>2 DEF DroppedUnopened
  <2> QED
    BY <1>4, <2>1, <2>3, OpenHandleInv DEF HandleInv
<1>7. ASSUME NEW db \in Db, NEW fl \in Flags, OpenFound(f, db, fl)
      PROVE  HandleInv'
  <2>1. /\ db \in exists /\ UNCHANGED <<exists, toDrop>>
        /\ status' = [status EXCEPT ![f] = "open"]
        /\ file' = [file EXCEPT ![f] = db]
    BY <1>7 DEF OpenFound
  <2>2. DroppedUnopened'
    BY <1>1, <1>2, <2>1 DEF DroppedUnopened
  <2> QED
    BY <1>4, <1>7, <2>2, OpenFoundInv DEF HandleInv
<1>8. ASSUME NEW db \in Db, NEW fl \in Flags, NEW ok \in BOOLEAN,
             OpenHandleOf(f, db, fl, ok)
      PROVE  HandleInv'
  <2>1. /\ OpenHandle(f, db, fl, ok) /\ status[f] = "closed"
        /\ db \in exists /\ UNCHANGED <<exists, toDrop>>
    BY <1>8 DEF OpenHandleOf
  <2>2. /\ status' = [status EXCEPT ![f] = IF ok THEN "open" ELSE "closed"]
        /\ file' = [file EXCEPT ![f] = IF ok THEN db ELSE Unopened]
    BY <2>1 DEF OpenHandle
  <2>3. DroppedUnopened'
    BY <1>1, <1>2, <2>1, <2>2 DEF DroppedUnopened
  <2> QED
    BY <1>4, <2>1, <2>3, OpenHandleInv DEF HandleInv
<1>9. ASSUME NEW st \in {"none", "closed"}, FreeDbHandle(f),
              Owns(f) \/ bdbHandle[f] = NoIndex,
              status' = [status EXCEPT ![f] = st],
              noHandle' = [noHandle EXCEPT ![f] = TRUE],
              file' = [file EXCEPT ![f] = Unopened],
              UNCHANGED <<allocated, handle, freeList>>,
              \A g \in SmiFile \ {f} : bdbHandle'[g] = bdbHandle[g]
       PROVE  ArrayInv' /\ \A g \in SmiFile : status'[g] = "open" =>
                 g # f /\ status[g] = "open" /\ file'[g] = file[g]
  <2>1. /\ status'[f] = st /\ noHandle'[f]
        /\ \A g \in SmiFile \ {f} :
              /\ status'[g] = status[g] /\ noHandle'[g] = noHandle[g]
              /\ bdbHandle'[g] = bdbHandle[g] /\ file'[g] = file[g]
    BY <1>2, <1>9
  <2>2. ~Owns(f)'
    BY <2>1 DEF Owns
  <2>3. ArrayInv'
    BY <1>9, <2>1, <2>2, FreeInv
  <2> QED
    BY <2>1, <2>3
<1>10. CASE Close(f)
  <2>1. /\ Owns(f) /\ FreeDbHandle(f)
        /\ status' = [status EXCEPT ![f] = "closed"]
        /\ noHandle' = [noHandle EXCEPT ![f] = TRUE]
        /\ file' = [file EXCEPT ![f] = Unopened]
        /\ UNCHANGED <<allocated, handle, freeList, bdbHandle, exists, toDrop>>
    BY <1>10 DEF Close, Owns
  <2>2. ArrayInv' /\ DroppedUnopened'
    BY <1>1, <1>9, <2>1 DEF DroppedUnopened
  <2> QED
    BY <1>4, <2>2 DEF HandleInv
<1>11. CASE Drop(f)
  <2>1. /\ Owns(f) /\ FreeDbHandle(f)
        /\ status' = [status EXCEPT ![f] = "closed"]
        /\ noHandle' = [noHandle EXCEPT ![f] = TRUE]
        /\ file' = [file EXCEPT ![f] = Unopened]
        /\ UNCHANGED <<allocated, handle, freeList, bdbHandle>>
    BY <1>11 DEF Drop, Owns
  <2>2. /\ \A g \in SmiFile \ {f} : status[g] = "open" => file[g] # file[f]
        /\ toDrop' = toDrop \cup {file[f]}
        /\ exists' = exists \ {file[f]}
    BY <1>11 DEF Drop
  <2>3. ArrayInv' /\ \A g \in SmiFile : status'[g] = "open" =>
                        g # f /\ status[g] = "open" /\ file'[g] = file[g]
    BY <1>9, <2>1
  <2>4. DroppedUnopened'
    BY <1>1, <2>2, <2>3 DEF DroppedUnopened
  <2> QED
    BY <1>4, <2>3, <2>4 DEF HandleInv
<1>12. CASE Destroy(f)
  <2>1. /\ Owns(f) \/ bdbHandle[f] = NoIndex
        /\ FreeDbHandle(f)
        /\ status' = [status EXCEPT ![f] = "none"]
        /\ noHandle' = [noHandle EXCEPT ![f] = TRUE]
        /\ file' = [file EXCEPT ![f] = Unopened]
        /\ UNCHANGED <<allocated, handle, freeList, exists, toDrop>>
    BY <1>2, <1>12 DEF Destroy, Owns
  <2>2. \A g \in SmiFile \ {f} : bdbHandle'[g] = bdbHandle[g]
    BY <1>2, <1>12 DEF Destroy
  <2>3. ArrayInv' /\ \A g \in SmiFile : status'[g] = "open" =>
                        g # f /\ status[g] = "open" /\ file'[g] = file[g]
    BY <1>9, <2>1, <2>2
  <2>4. DroppedUnopened'
    BY <1>1, <2>1, <2>3 DEF DroppedUnopened
  <2> QED
    BY <1>4, <2>3, <2>4 DEF HandleInv
<1> QED
  BY <1>5, <1>6, <1>7, <1>8, <1>10, <1>11, <1>12 DEF FileStep

LEMMA HandleStep == ~LateDestroy /\ HandleInv /\ [Next]_vars => HandleInv'
<1> SUFFICES ASSUME ~LateDestroy, HandleInv, [Next]_vars PROVE HandleInv'
  OBVIOUS
<1> USE DEF dbVars
<1>1. TypeOK'
  BY TypeStep DEF HandleInv
<1>2. CASE \E f \in SmiFile : FileStep(f)
  BY <1>1, <1>2, FileStepInv
<1>3. CASE EndTransaction
  <2>1. ArrayInv'
    BY <1>3, ArrayQuiet DEF EndTransaction
  <2>2. DroppedUnopened'
    BY <1>3 DEF EndTransaction, fileVars, HandleInv, DroppedUnopened
  <2>3. Swept'
    <3>1. \A i \in Index : ~(i < closing')
      BY <1>3, HandleConstants DEF EndTransaction, Index
    <3> QED
      BY <3>1 DEF Swept
  <2> QED
    BY <1>1, <2>1, <2>2, <2>3 DEF HandleInv
<1>4. CASE CloseDbHandle
  <2>1. DroppedUnopened'
    BY <1>4 DEF CloseDbHandle, fileVars, HandleInv, DroppedUnopened
  <2> QED
    BY <1>1, <1>4, <2>1, CloseDbHandleInv DEF HandleInv
<1>5. CASE EraseFiles
  <2>1. ArrayInv'
    BY <1>5, ArrayQuiet DEF EraseFiles
  <2>2. DroppedUnopened'
    BY <1>5 DEF EraseFiles, fileVars, HandleInv, DroppedUnopened
  <2>3. Swept'
    <3>1. \A i \in Index : ~(i < closing')
      BY <1>5, HandleConstants DEF EraseFiles, Index
    <3> QED
      BY <3>1 DEF Swept
  <2> QED
    BY <1>1, <2>1, <2>2, <2>3 DEF HandleInv
<1>6. CASE UNCHANGED vars
  <2>1. ArrayInv'
    BY <1>6, ArrayQuiet DEF vars, arrayVars
  <2>2. DroppedUnopened' /\ Swept'
    BY <1>6 DEF vars, arrayVars, fileVars, HandleInv, DroppedUnopened, Swept
  <2> QED
    BY <1>1, <2>1, <2>2 DEF HandleInv
<1> QED
  BY <1>2, <1>3, <1>4, <1>5, <1>6 DEF Next

LEMMA Handles == ~LateDestroy => (Spec => []HandleInv)
<1> SUFFICES ASSUME ~LateDestroy PROVE Spec => []HandleInv
  OBVIOUS
<1>1. HandleInv /\ [Next]_vars => HandleInv'
  BY HandleStep
<1> QED
  BY <1>1, HandleInit, PTL DEF Spec

(* Where SmiFiles are destroyed with their Close, the entries of the array *)
(* without a handle are those on the free list, each of them once.         *)
THEOREM FreeListSoundHolds == ~LateDestroy => (Spec => []FreeListSound)
<1>1. HandleInv => FreeListSound
  BY DEF HandleInv, ArrayInv
<1> QED
  BY <1>1, Handles, PTL

LEMMA OpenFilesInv == HandleInv => OpenFilesHaveHandles
<1> SUFFICES ASSUME HandleInv, NEW f \in SmiFile, status[f] = "open"
             PROVE  /\ bdbHandle[f] \in Entries
                    /\ \E fl \in Flags : handle[bdbHandle[f]] = <<file[f], fl>>
                    /\ inUse[bdbHandle[f]]
                    /\ \A g \in SmiFile \ {f} :
                          Owns(g) => bdbHandle[g] # bdbHandle[f]
  BY DEF OpenFilesHaveHandles
<1>1. Owns(f)
  BY DEF Owns
<1> QED
  BY <1>1 DEF HandleInv, ArrayInv, OwnersHaveHandles, ExclusiveOwners

(* Under the same condition no end of a transaction, no sharing of handles *)
(* by FindOpen and no reuse of entries takes its handle from an SmiFile    *)
(* that is open.                                                           *)
THEOREM OpenFilesHaveHandlesHolds ==
    ~LateDestroy => (Spec => []OpenFilesHaveHandles)
BY OpenFilesInv, Handles, PTL

LEMMA ErasedInv == HandleInv => ErasedFilesAreClosed
<1> SUFFICES ASSUME HandleInv, closing > allocated,
                    NEW db \in toDrop, NEW fl \in Flags, NEW i \in Index,
                    handle[i] = <<db, fl>>
             PROVE  FALSE
  BY DEF ErasedFilesAreClosed
<1>1. db \in Db /\ closing \in Nat /\ allocated \in Nat /\ Index \subseteq Nat
  BY HandleConstants DEF HandleInv, TypeOK, Index
<1>2. handle[i] # Closed /\ handle[i] # Unopened
  BY <1>1, HandleConstants
<1>3. i <= allocated
  BY <1>1, <1>2 DEF HandleInv, ArrayInv, NewEntriesClosed
<1>4. inUse[i]
  BY <1>1, <1>2, <1>3 DEF HandleInv, Swept
<1>5. PICK f \in SmiFile : Owns(f) /\ bdbHandle[f] = i
  BY <1>4 DEF HandleInv, ArrayInv, InUseOwned
<1>6. status[f] = "open" /\ \E l \in Flags : handle[i] = <<file[f], l>>
  BY <1>2, <1>5 DEF HandleInv, ArrayInv, OwnersHaveHandles, Owns
<1>7. file[f] = db
  BY <1>6
<1> QED
  BY <1>6, <1>7 DEF HandleInv, DroppedUnopened

(* And when EraseFiles runs, every handle on the files it erases has been  *)
(* closed by CloseDbHandles.                                               *)
THEOREM ErasedFilesAreClosedHolds ==
    ~LateDestroy => (Spec => []ErasedFilesAreClosed)
BY ErasedInv, Handles, PTL
=============================================================================
