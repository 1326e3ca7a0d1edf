------------------------ MODULE CatalogObjectsProofs ------------------------
(***************************************************************************)
(* What keeps the objects of a database whole when users leave alone what  *)
(* the transaction of another session has changed, and do not rename what  *)
(* their own has touched, except for objects it has created: the records   *)
(* of values, the values and their data on disk each belong to one object. *)
(* What users see is an ObjectStore, and for one session every object has  *)
(* a type that exists.                                                     *)
(***************************************************************************)
EXTENDS SecondoCatalogProofs

ExclusiveUse == ~SharedObjects /\ "touched" \notin RenameUse

(* The record of an object that is on its way to the name n.               *)
Inserts(s, n) == pending[s] # Absent /\ pending[s].op = "insert" /\ pending[s].new = n
ValueLocked(s, r) == <<"value", r>> \in locks[s]

(* The record that the sessions see under a name, and the committed one.   *)
Live(n, x) ==
    \/ objCatalogFile[n] # Absent /\ x = objCatalogFile[n]
    \/ \E s \in Session : Inserts(s, n) /\ x = pending[s].record
Stored(n, x) == saved.objects[n] # Absent /\ x = saved.objects[n]

(* The first iteration has still to come to an entry; the second has come. *)
Early(s, n) == phase[s] \in {"active", "types"} \/ (phase[s] = "first" /\ n \in todo[s])
Late(s, n) == phase[s] = "second" /\ n \notin todo[s]

(* A session without transaction has nothing to write back or to undo.     *)
IdleRight(s) ==
    /\ phase[s] = "none" => /\ locks[s] = {} /\ created[s] = {} /\ drops[s] = {}
                            /\ ~mustAbort[s]
                            /\ \A n \in Name : ~Cached(s, n)
    /\ pending[s] # Absent => phase[s] \in {"none", "active"} /\ ~mustAbort[s]
IdleInv == \A s \in Session : IdleRight(s)

(* No two sessions touch the same name or have locked the same value.      *)
SessionsApart ==
    \A s, t \in Session :
        /\ \A n \in Name : Touches(s, n) /\ Touches(t, n) => s = t
        /\ \A r \in ValueId : ValueLocked(s, r) /\ ValueLocked(t, r) => s = t

(* What nobody has locked is as it was committed.                          *)
UnlockedCommitted ==
    /\ \A n \in Name :
          (\A s \in Session : ~Holds(s, n)) => objCatalogFile[n] = saved.objects[n]
    /\ \A r \in ValueId :
          (\A s \in Session : ~ValueLocked(s, r)) => objValueFile[r] = saved.values[r]

(* An object that is killed or renamed is still as it was read.            *)
PendingFits(s, p) ==
    /\ ~Cached(s, p.old) /\ ~Cached(s, p.new)
    /\ p.op = "kill" => p.new = p.old /\ phase[s] = "active"
    /\ p.op \in {"kill", "delete"} =>
          objCatalogFile[p.old] # Absent /\ p.record = objCatalogFile[p.old]
    /\ p.op \in {"delete", "insert"} =>
          p.old # p.new /\ objCatalogFile[p.new] = Absent /\ ~Holds(s, p.new)
    /\ p.op = "delete" => ~Holds(s, p.old)
    /\ p.op = "insert" => /\ objCatalogFile[p.old] = Absent
                          /\ phase[s] = "active" => Holds(s, p.old)
PendingRight ==
    \A s \in Session : pending[s] # Absent => PendingFits(s, pending[s])

(* Two objects have different records of values.  Only in the transaction  *)
(* that renames it an object has a record under two names.                 *)
RecordsApart ==
    \A n, m \in Name : \A x, y \in Record :
        x.rec = y.rec /\ x.rec # NoValue /\ n # m =>
            /\ ~(Live(n, x) /\ Live(m, y))
            /\ ~(Stored(n, x) /\ Stored(m, y))
            /\ Live(n, x) /\ Stored(m, y) =>
                  \E s \in Session : Holds(s, m) /\ (Holds(s, n) \/ Inserts(s, n))

(* Who has locked the record of a value has locked the object.             *)
ValueLocks ==
    \A s \in Session :
        /\ \A r \in ValueId : ValueLocked(s, r) => r <= Len(made)
        /\ \A n \in Name : \A x \in Record :
              (Live(n, x) \/ Stored(n, x)) /\ ValueLocked(s, x.rec) => Holds(s, n)

(* A record leads to a value, one that is defined to a value of its type.  *)
RecordRight(x, values) ==
    /\ x.rec # NoValue => x.rec <= Len(made) /\ values[x.rec] # NoValue
    /\ x.defined => x.rec # NoValue /\ made[values[x.rec]] = x.type

RecordsRight ==
    \A n \in Name : \A x \in Record :
        /\ Live(n, x) => RecordRight(x, objValueFile)
        /\ Stored(n, x) => RecordRight(x, saved.values)

(* A value is in one record, now and when last committed.                  *)
ValuesApart ==
    \A r, q \in ValueId :
        /\ objValueFile[r] <= Len(made) /\ saved.values[r] <= Len(made)
        /\ r # q => /\ objValueFile[r] # NoValue => objValueFile[r] # objValueFile[q]
                                                    /\ objValueFile[r] # saved.values[q]
                    /\ saved.values[r] # NoValue => saved.values[r] # saved.values[q]

(* Nothing committed, and no other session, knows of a value that a        *)
(* transaction has created.                                                *)
CreatedPrivate ==
    \A s \in Session : \A v \in created[s] :
        /\ v <= Len(made)
        /\ \A t \in Session : v \in created[t] \/ ValueLocked(t, v) => s = t
        /\ \A r \in ValueId :
              /\ saved.values[r] # v
              /\ objValueFile[r] = v => phase[s] = "second" /\ ValueLocked(s, r)
        /\ \A n \in Name : \A x \in Record :
              /\ Stored(n, x) => x.rec # v
              /\ Live(n, x) /\ x.rec = v => ValueLocked(s, v)

(* An entry and the record it is about, as the iterations go by.           *)
EntryRight(s, n) ==
    LET e == objects[s][n]
        there == objCatalogFile[n]
    IN  /\ e.state = "EntryInsert" => e.rec = NoValue
        /\ e.rec # NoValue /\ (e.state = "EntryDelete" => Early(s, n)) =>
              there # Absent /\ there.rec = e.rec
        /\ Early(s, n) => (there = Absent <=> e.state = "EntryInsert")
        /\ ~Early(s, n) /\ ~mustAbort[s] =>
              /\ Holds(s, n)
              /\ there = Absent <=> e.state = "EntryDelete"

(* The record of an object that has been written, and its value.           *)
WrittenRight(s, n) ==
    LET e == objects[s][n]
        there == objCatalogFile[n]
    IN  ~Early(s, n) /\ ~mustAbort[s] /\ e.state # "EntryDelete" =>
            /\ there.type = e.type
            /\ ~Late(s, n) \/ e.value = NoValue => ~there.defined
            /\ ~Late(s, n) /\ e.state = "EntryInsert" => there.rec = NoValue
            /\ Late(s, n) /\ e.value # NoValue =>
                  /\ there.defined
                  /\ there.rec = ValueRecord(e)
                  /\ objValueFile[ValueRecord(e)] = e.value

(* The value in an entry is a new one that is not yet written, or that of  *)
(* the stored object.                                                      *)
EntryValueRight(s, n) ==
    LET e == objects[s][n] IN e.value # NoValue =>
    /\ e.value <= Len(made) /\ made[e.value] = e.type
    /\ \A t \in Session \ {s} : e.value \notin created[t]
    /\ \A t \in Session : \A m \in Name \ {n} : Cached(t, m) => objects[t][m].value # e.value
    /\ e.value \in created[s] /\ (e.state = "EntryDelete" \/ ~Late(s, n) \/ mustAbort[s]) =>
          /\ \A r \in ValueId : objValueFile[r] # e.value
          /\ \A m \in Name : \A x \in Record : Live(m, x) => x.rec # e.value
    /\ e.value \notin created[s] =>
          /\ e.state = "EntryDelete" \/ (e.rec # NoValue /\ objValueFile[e.rec] = e.value)
          /\ Early(s, n) => objCatalogFile[n].defined /\ StoredValue(n) = e.value

EntriesRight ==
    \A s \in Session : \A n \in Name : Cached(s, n) =>
        phase[s] # "none" /\ EntryRight(s, n) /\ WrittenRight(s, n) /\ EntryValueRight(s, n)

(* A value whose data goes when the transaction commits is not that of an  *)
(* object, or the transaction has still to write that object.              *)
Deleted(s, n) == Cached(s, n) /\ objects[s][n].state = "EntryDelete"
Doomed(s, v) ==
    v \in drops[s] \/ \E n \in Name : Deleted(s, n) /\ v = objects[s][n].value
DoomedRight ==
    \A s \in Session : \A v \in ValueId : Doomed(s, v) =>
        /\ v <= Len(made)
        /\ \A t \in Session \ {s} : v \notin created[t]
        /\ \A t \in Session : \A n \in Name :
              Cached(t, n) /\ objects[t][n].value = v => t = s /\ Deleted(s, n)
        /\ \A n \in Name : \A x \in Record :
              /\ Live(n, x) /\ x.defined /\ objValueFile[x.rec] = v =>
                    Cached(s, n) /\ (mustAbort[s] \/ Early(s, n))
              /\ Stored(n, x) /\ x.defined /\ saved.values[x.rec] = v =>
                    Cached(s, n) \/ Holds(s, n)

RecordInv ==
    /\ IdleInv /\ SessionsApart /\ UnlockedCommitted /\ PendingRight
    /\ RecordsApart /\ ValueLocks /\ RecordsRight /\ ValuesApart /\ CreatedPrivate
CatalogInv == TypeOK /\ CachedTodo /\ RecordInv /\ EntriesRight /\ DoomedRight

(* The data on disk, as long as no transaction must abort.                 *)
NoVictims == \A s \in Session : ~mustAbort[s]
FilesKept ==
    /\ \A s \in Session : created[s] \subseteq files
    /\ \A s \in Session : \A n \in Name :
          Cached(s, n) /\ ~Deleted(s, n) /\ objects[s][n].value # NoValue =>
              objects[s][n].value \in files
    /\ \A n \in Name : \A x \in Record : x.defined =>
          /\ Live(n, x) => objValueFile[x.rec] \in files
          /\ Stored(n, x) => saved.values[x.rec] \in files
-----------------------------------------------------------------------------
(* What the types say.                                                      *)

LEMMA Numbers ==
    /\ NoValue = 0 /\ MaxValue \in Nat
    /\ \A v \in ValueId : v \in Nat /\ v # NoValue
BY CatalogConstants DEF NoValue, ValueId

LEMMA RecordFields ==
    ASSUME NEW x \in Record
    PROVE  /\ x.type \in Type /\ x.defined \in BOOLEAN /\ x.rec \in Nat
           /\ x.rec # NoValue => x.rec \in ValueId
           /\ x # Absent
BY Numbers, AbsentIsNothing DEF Record

LEMMA EntryFields ==
    ASSUME NEW e \in Entry
    PROVE  /\ e.state \in State /\ e.type \in Type /\ e.rec \in Nat /\ e.value \in Nat
           /\ e.rec # NoValue => e.rec \in ValueId
           /\ e.value # NoValue => e.value \in ValueId
           /\ e # Absent
BY Numbers, AbsentIsNothing DEF Entry

LEMMA TypeFacts ==
    ASSUME TypeOK
    PROVE  /\ Len(made) \in Nat
           /\ \A n \in Name : /\ objCatalogFile[n] # Absent => objCatalogFile[n] \in Record
                              /\ saved.objects[n] # Absent => saved.objects[n] \in Record
           /\ \A r \in ValueId : /\ objValueFile[r] \in Nat /\ saved.values[r] \in Nat
                                 /\ objValueFile[r] # NoValue => objValueFile[r] \in ValueId
                                 /\ saved.values[r] # NoValue => saved.values[r] \in ValueId
           /\ \A s \in Session : \A n \in Name : Cached(s, n) => objects[s][n] \in Entry
           /\ \A s \in Session : created[s] \subseteq ValueId /\ drops[s] \subseteq ValueId
           /\ \A s \in Session : pending[s] # Absent =>
                 /\ pending[s].op \in {"kill", "delete", "insert"}
                 /\ pending[s].old \in Name /\ pending[s].new \in Name
                 /\ pending[s].record \in Record
<1>1. Len(made) \in Nat
  BY LenProperties DEF TypeOK
<1>2. \A n \in Name : /\ objCatalogFile[n] # Absent => objCatalogFile[n] \in Record
                      /\ saved.objects[n] # Absent => saved.objects[n] \in Record
  BY DEF TypeOK, Objects
<1>3. \A r \in ValueId : /\ objValueFile[r] \in ValueId \cup {NoValue}
                         /\ saved.values[r] \in ValueId \cup {NoValue}
  BY DEF TypeOK, Values
<1>4. \A s \in Session : \A n \in Name : Cached(s, n) => objects[s][n] \in Entry
  BY DEF TypeOK, Cached
<1>5. \A s \in Session : created[s] \subseteq ValueId /\ drops[s] \subseteq ValueId
  BY DEF TypeOK
<1>6. \A s \in Session : pending[s] # Absent =>
         /\ pending[s].op \in {"kill", "delete", "insert"}
         /\ pending[s].old \in Name /\ pending[s].new \in Name
         /\ pending[s].record \in Record
  BY DEF TypeOK, Pending
<1> QED
  BY <1>1, <1>2, <1>3, <1>4, <1>5, <1>6, Numbers

LEMMA TouchFacts ==
    ASSUME TypeOK, NEW s \in Session, NEW n \in Name
    PROVE  /\ Cached(s, n) => Touches(s, n)
           /\ Holds(s, n) => Touches(s, n)
           /\ Inserts(s, n) => Touches(s, n)
           /\ pending[s] # Absent => Touches(s, pending[s].old) /\ Touches(s, pending[s].new)
BY DEF Touches, Inserts

(* There is one record under a name.                                        *)
LEMMA LiveFacts ==
    ASSUME TypeOK, RecordInv, NEW n \in Name
    PROVE  /\ objCatalogFile[n] # Absent => Live(n, objCatalogFile[n])
           /\ \A x : Live(n, x) => x \in Record
           /\ \A x : Stored(n, x) => x \in Record
           /\ \A s \in Session : Cached(s, n) \/ Holds(s, n) =>
                 /\ ~\E t \in Session : Inserts(t, n)
                 /\ \A x : Live(n, x) <=> (objCatalogFile[n] # Absent /\ x = objCatalogFile[n])
           /\ \A s \in Session : Inserts(s, n) =>
                 /\ objCatalogFile[n] = Absent
                 /\ \A x : Live(n, x) <=> x = pending[s].record
<1>1. objCatalogFile[n] # Absent => Live(n, objCatalogFile[n])
  BY DEF Live
<1>2. \A x : Live(n, x) => x \in Record
  BY TypeFacts DEF Live, Inserts
<1>3. \A x : Stored(n, x) => x \in Record
  BY TypeFacts DEF Stored
<1>4. ASSUME NEW s \in Session, Cached(s, n) \/ Holds(s, n), NEW t \in Session, Inserts(t, n)
      PROVE  FALSE
  <2>1. t = s
    BY <1>4, TouchFacts DEF RecordInv, SessionsApart
  <2>2. pending[s] # Absent /\ pending[s].op = "insert" /\ pending[s].new = n
    BY <1>4, <2>1 DEF Inserts
  <2>3. ~Cached(s, n) /\ ~Holds(s, n)
    BY <2>2 DEF RecordInv, PendingRight, PendingFits
  <2> QED
    BY <1>4, <2>3
<1>5. ASSUME NEW s \in Session, Inserts(s, n)
      PROVE  /\ objCatalogFile[n] = Absent
             /\ \A x : Live(n, x) <=> x = pending[s].record
  <2>1. objCatalogFile[n] = Absent
    BY <1>5 DEF Inserts, RecordInv, PendingRight, PendingFits
  <2>2. \A t \in Session : Inserts(t, n) => t = s
    BY <1>5, TouchFacts DEF RecordInv, SessionsApart
  <2> QED
    BY <1>5, <2>1, <2>2 DEF Live
<1> QED
  BY <1>1, <1>2, <1>3, <1>4, <1>5 DEF Live

(* Locks of a session on names and values.                                  *)
LEMMA LockEffect ==
    ASSUME TypeOK, NEW s \in Session, NEW K, Lock(s, K), NEW t \in Session
    PROVE  /\ \A n : Holds(t, n)' <=> Holds(t, n) \/ (t = s /\ ObjectKey(n) \in K)
           /\ \A r : ValueLocked(t, r)' <=> ValueLocked(t, r) \/ (t = s /\ <<"value", r>> \in K)
BY DEF TypeOK, Lock, Holds, ValueLocked, ObjectKey

LEMMA ValueKeyFacts ==
    ASSUME NEW r, NEW n
    PROVE  /\ \A q : <<"value", q>> \in ValueKeys(r) <=> q = r /\ r \in ValueId
           /\ ObjectKey(n) \notin ValueKeys(r)
<1>1. <<"value", r>> \in Key <=> r \in ValueId
  BY DEF Key
<1>2. ObjectKey(n) # <<"value", r>>
  BY DEF ObjectKey
<1> QED
  BY <1>1, <1>2 DEF ValueKeys

LEMMA KeyFacts ==
    ASSUME TypeOK', NEW s \in Session, NEW r, ValueLocked(s, r)'
    PROVE  r \in ValueId
<1>1. <<"value", r>> \in Key
  BY DEF TypeOK, ValueLocked
<1> QED
  BY <1>1 DEF Key

LEMMA FreeFacts ==
    ASSUME NEW s \in Session, NEW t \in Session \ {s}
    PROVE  /\ \A n : Free(s, ObjectKey(n)) => ~Holds(t, n)
           /\ \A r : Free(s, <<"value", r>>) => ~ValueLocked(t, r)
BY DEF Free, Holds, ValueLocked, ObjectKey

-----------------------------------------------------------------------------
(* A transaction writes under a name that it touches: all writes are of     *)
(* this kind but those that rename an object.                               *)

(* Session s writes the record x, or none, under the name n and, unless r   *)
(* is NoValue, the value v in the record r, and locks what it writes.       *)
WriteStep(s, n, x, r, v) ==
    /\ UNCHANGED <<made, created, saved, objects>>
    /\ objCatalogFile' = [objCatalogFile EXCEPT ![n] = x]
    /\ \A q \in ValueId : objValueFile'[q] = IF q = r THEN v ELSE objValueFile[q]
    /\ \A t \in Session :
          /\ t # s => /\ ~Holds(t, n) /\ (r \in ValueId => ~ValueLocked(t, r))
                      /\ pending'[t] = pending[t] /\ phase'[t] = phase[t]
          /\ \A m \in Name : Holds(t, m)' <=> Holds(t, m) \/ (t = s /\ m = n)
          /\ \A q \in ValueId : ValueLocked(t, q)' <=> ValueLocked(t, q) \/ (t = s /\ q = r)
    /\ pending'[s] = Absent /\ \A m \in Name : ~Inserts(s, m)
    /\ phase[s] # "none" /\ Touches(s, n)
    /\ phase[s] = "second" => phase'[s] = "second"

(* The record r belongs to n so far, or nothing knows of it.                *)
Fresh(s, r) == r \in created[s] /\ \A m \in Name : \A y \in Record : Live(m, y) => y.rec # r
Own(s, n, r) == (objCatalogFile[n] # Absent /\ objCatalogFile[n].rec = r) \/ Fresh(s, r)

(* What is written is right.                                                *)
WriteRight(s, n, x, r, v) ==
    /\ x \in Record \cup {Absent} /\ r \in ValueId \cup {NoValue}
    /\ r # NoValue =>
          /\ Own(s, n, r)
          /\ x = Absent => v = NoValue
          /\ x # Absent => /\ x.rec = r
                           /\ v \in ValueId /\ v <= Len(made)
                           /\ \/ v = objValueFile[r]
                              \/ /\ v \in created[s] /\ phase[s] = "second"
                                 /\ \A q \in ValueId : objValueFile[q] # v
    /\ x # Absent =>
          /\ x.rec \in {NoValue, r} \/ (objCatalogFile[n] # Absent /\ x.rec = objCatalogFile[n].rec)
          /\ x.defined => x.rec # NoValue /\ made[IF x.rec = r THEN v ELSE objValueFile[x.rec]] = x.type

LEMMA WriteLive ==
    ASSUME TypeOK, TypeOK', RecordInv, NEW s \in Session, NEW n \in Name, NEW x, NEW r, NEW v,
           WriteStep(s, n, x, r, v), WriteRight(s, n, x, r, v)
    PROVE  /\ \A m \in Name : \A y :
                 Live(m, y)' <=> IF m = n THEN x # Absent /\ y = x ELSE Live(m, y)
           /\ \A m \in Name : \A y : Stored(m, y)' <=> Stored(m, y)
           /\ \A m \in Name : \A t \in Session : Inserts(t, m)' <=> Inserts(t, m)
           /\ \A t \in Session : \A m \in Name : Touches(t, m)' => Touches(t, m)
<1>1. \A m \in Name : objCatalogFile'[m] = IF m = n THEN x ELSE objCatalogFile[m]
  BY DEF WriteStep, TypeOK, Objects
<1>2. \A m \in Name : \A y : Stored(m, y)' <=> Stored(m, y)
  BY DEF WriteStep, Stored
<1>3. \A m \in Name : \A t \in Session : Inserts(t, m)' <=> Inserts(t, m)
  BY DEF WriteStep, Inserts
<1>4. \A t \in Session : Inserts(t, n) => FALSE
  BY TouchFacts DEF WriteStep, RecordInv, SessionsApart
<1>5. \A t \in Session : \A m \in Name : Inserts(t, m) => pending'[t] = pending[t]
  BY DEF WriteStep
<1>6. \A m \in Name : \A y :
        Live(m, y)' <=> IF m = n THEN x # Absent /\ y = x ELSE Live(m, y)
  <2> SUFFICES ASSUME NEW m \in Name, NEW y
               PROVE  Live(m, y)' <=> IF m = n THEN x # Absent /\ y = x ELSE Live(m, y)
    OBVIOUS
  <2>1. CASE m = n
    BY <1>1, <1>3, <1>4, <2>1 DEF Live
  <2>2. CASE m # n
    BY <1>1, <1>3, <1>5, <2>2 DEF Live
  <2> QED
    BY <2>1, <2>2
<1>7. \A t \in Session : \A m \in Name : Touches(t, m)' => Touches(t, m)
  <2> SUFFICES ASSUME NEW t \in Session, NEW m \in Name, Touches(t, m)'
               PROVE  Touches(t, m)
    OBVIOUS
  <2>1. CASE Cached(t, m)'
    BY <2>1, TouchFacts DEF WriteStep, Cached
  <2>2. CASE Holds(t, m)'
    BY <2>2, TouchFacts DEF WriteStep
  <2>3. CASE pending'[t] # Absent /\ m \in {pending'[t].old, pending'[t].new}
    BY <2>3 DEF WriteStep, Touches
  <2> QED
    BY <2>1, <2>2, <2>3 DEF Touches
<1> QED
  BY <1>2, <1>3, <1>6, <1>7

LEMMA WriteApart ==
    ASSUME TypeOK, TypeOK', RecordInv, NEW s \in Session, NEW n \in Name, NEW x, NEW r, NEW v,
           WriteStep(s, n, x, r, v), WriteRight(s, n, x, r, v)
    PROVE  SessionsApart' /\ UnlockedCommitted' /\ PendingRight'
<1>1. SessionsApart'
  <2> SUFFICES ASSUME NEW t \in Session, NEW u \in Session
               PROVE  /\ \A m \in Name : Touches(t, m)' /\ Touches(u, m)' => t = u
                      /\ \A q \in ValueId : ValueLocked(t, q)' /\ ValueLocked(u, q)' => t = u
    BY DEF SessionsApart
  <2>1. \A m \in Name : Touches(t, m)' /\ Touches(u, m)' => t = u
    BY WriteLive DEF RecordInv, SessionsApart
  <2>2. \A q \in ValueId : ValueLocked(t, q) /\ ValueLocked(u, q) => t = u
    BY DEF RecordInv, SessionsApart
  <2>3. \A q \in ValueId : ValueLocked(t, q)' /\ ValueLocked(u, q)' => t = u
    BY <2>2 DEF WriteStep
  <2> QED
    BY <2>1, <2>3
<1>2. UnlockedCommitted'
  <2>1. ASSUME NEW m \in Name, \A t \in Session : ~Holds(t, m)'
        PROVE  objCatalogFile'[m] = saved'.objects[m]
    <3>1. m # n /\ \A t \in Session : ~Holds(t, m)
      BY <2>1 DEF WriteStep
    <3>2. objCatalogFile[m] = saved.objects[m]
      BY <3>1 DEF RecordInv, UnlockedCommitted
    <3> QED
      BY <3>1, <3>2 DEF WriteStep, TypeOK, Objects
  <2>2. ASSUME NEW q \in ValueId, \A t \in Session : ~ValueLocked(t, q)'
        PROVE  objValueFile'[q] = saved'.values[q]
    <3>1. q # r /\ \A t \in Session : ~ValueLocked(t, q)
      BY <2>2 DEF WriteStep
    <3> QED
      BY <3>1 DEF WriteStep, RecordInv, UnlockedCommitted
  <2> QED
    BY <2>1, <2>2 DEF UnlockedCommitted
<1>3. PendingRight'
  <2> SUFFICES ASSUME NEW t \in Session, pending'[t] # Absent
               PROVE  PendingFits(t, pending[t])'
    BY DEF PendingRight
  <2> DEFINE p == pending[t]
  <2>1. t # s /\ pending'[t] = p /\ phase'[t] = phase[t]
    BY DEF WriteStep
  <2>2. p.old \in Name /\ p.new \in Name
    BY <2>1, TypeFacts
  <2>3. p.old # n /\ p.new # n
    BY <2>1, <2>2, TouchFacts DEF WriteStep, RecordInv, SessionsApart
  <2>4. /\ objCatalogFile'[p.old] = objCatalogFile[p.old]
        /\ objCatalogFile'[p.new] = objCatalogFile[p.new]
    BY <2>2, <2>3 DEF WriteStep
  <2>5. \A m \in Name : (Holds(t, m)' <=> Holds(t, m)) /\ (Cached(t, m)' <=> Cached(t, m))
    BY <2>1 DEF WriteStep, Cached
  <2>6. PendingFits(t, p)
    BY <2>1 DEF RecordInv, PendingRight
  <2> QED
    BY <2>1, <2>2, <2>4, <2>5, <2>6 DEF PendingFits, Cached, Holds
<1> QED
  BY <1>1, <1>2, <1>3

(* What an own record is to the others.                                     *)
LEMMA OwnRecord ==
    ASSUME TypeOK, RecordInv, NEW s \in Session, NEW n \in Name, NEW r \in ValueId,
           Touches(s, n), Own(s, n, r),
           \A t \in Session : t # s => ~ValueLocked(t, r)
    PROVE  /\ \A m \in Name : \A y \in Record : m # n /\ y.rec = r =>
                 ~Live(m, y) /\ (Stored(m, y) => Holds(s, m))
           /\ \A t \in Session : r \in created[t] => t = s
<1>1. CASE Fresh(s, r)
  <2>1. \A m \in Name : \A y \in Record : y.rec = r => ~Live(m, y) /\ ~Stored(m, y)
    BY <1>1 DEF Fresh, RecordInv, CreatedPrivate
  <2>2. \A t \in Session : r \in created[t] => t = s
    BY <1>1 DEF Fresh, RecordInv, CreatedPrivate
  <2> QED
    BY <2>1, <2>2
<1>2. CASE objCatalogFile[n] # Absent /\ objCatalogFile[n].rec = r
  <2> DEFINE x == objCatalogFile[n]
  <2>1. x \in Record /\ Live(n, x) /\ x.rec = r /\ r # NoValue
    BY <1>2, LiveFacts, Numbers
  <2>2. ASSUME NEW m \in Name, NEW y \in Record, m # n, y.rec = r
        PROVE  ~Live(m, y) /\ (Stored(m, y) => Holds(s, m))
    <3>1. ~Live(m, y)
      BY <2>1, <2>2 DEF RecordInv, RecordsApart
    <3>2. ASSUME Stored(m, y) PROVE Holds(s, m)
      <4>1. PICK t \in Session : Holds(t, m) /\ (Holds(t, n) \/ Inserts(t, n))
        BY <2>1, <2>2, <3>2 DEF RecordInv, RecordsApart
      <4>2. t = s
        BY <4>1, TouchFacts DEF RecordInv, SessionsApart
      <4> QED
        BY <4>1, <4>2
    <3> QED
      BY <3>1, <3>2
  <2>3. \A t \in Session : r \in created[t] => t = s
    BY <2>1 DEF RecordInv, CreatedPrivate
  <2> QED
    BY <2>2, <2>3
<1> QED
  BY <1>1, <1>2 DEF Own

LEMMA WriteLocks ==
    ASSUME TypeOK, TypeOK', RecordInv, NEW s \in Session, NEW n \in Name, NEW x, NEW r, NEW v,
           WriteStep(s, n, x, r, v), WriteRight(s, n, x, r, v)
    PROVE  RecordsApart' /\ ValueLocks'
<1> DEFINE there == objCatalogFile[n]
<1>1. /\ there # Absent => there \in Record /\ Live(n, there)
      /\ x # Absent => x \in Record
      /\ r # NoValue => r \in ValueId
      /\ \A m \in Name : \A y : Stored(m, y) => y \in Record
  BY LiveFacts DEF WriteRight
<1>2. ASSUME r # NoValue
      PROVE  \A m \in Name : \A y \in Record : m # n /\ y.rec = r =>
                 ~Live(m, y) /\ (Stored(m, y) => Holds(s, m))
  BY <1>1, <1>2, OwnRecord DEF WriteStep, WriteRight
(* The record written is that of n before, or r.                            *)
<1>3. x # Absent /\ x.rec # NoValue =>
          (there # Absent /\ there.rec = x.rec) \/ (r # NoValue /\ x.rec = r)
  BY DEF WriteRight
<1>4. \A t \in Session : \A m \in Name : (Holds(t, m) => Holds(t, m)')
                                      /\ (Inserts(t, m) => Inserts(t, m)')
  <2>1. \A t \in Session : \A m \in Name : Holds(t, m) => Holds(t, m)'
    BY DEF WriteStep
  <2>2. \A t \in Session : \A m \in Name : Inserts(t, m) => Inserts(t, m)'
    BY WriteLive
  <2> QED
    BY <2>1, <2>2
<1>5. Holds(s, n)'
  BY DEF WriteStep
<1>6. RecordsApart'
  <2> SUFFICES ASSUME NEW m \in Name, NEW k \in Name, NEW y \in Record, NEW z \in Record,
                      y.rec = z.rec, y.rec # NoValue, m # k
               PROVE  /\ ~(Live(m, y)' /\ Live(k, z)')
                      /\ ~(Stored(m, y)' /\ Stored(k, z)')
                      /\ Live(m, y)' /\ Stored(k, z)' =>
                            \E t \in Session : Holds(t, k)' /\ (Holds(t, m)' \/ Inserts(t, m)')
    BY DEF RecordsApart
  <2>1. /\ ~(Live(m, y) /\ Live(k, z)) /\ ~(Stored(m, y) /\ Stored(k, z))
        /\ Live(m, y) /\ Stored(k, z) =>
              \E t \in Session : Holds(t, k)' /\ (Holds(t, m)' \/ Inserts(t, m)')
    BY <1>4 DEF RecordInv, RecordsApart
  <2>2. ASSUME NEW i \in Name, NEW j \in Name, i # j, NEW a \in Record, NEW b \in Record,
               a.rec = b.rec, a.rec # NoValue, Live(i, a)', Live(j, b)', i = n
        PROVE  FALSE
    <3>1. a = x /\ x # Absent /\ Live(j, b)
      BY <2>2, WriteLive
    <3>2. CASE there # Absent /\ there.rec = x.rec
      BY <1>1, <2>2, <3>1, <3>2 DEF RecordInv, RecordsApart
    <3>3. CASE r # NoValue /\ x.rec = r
      BY <1>2, <2>2, <3>1, <3>3
    <3> QED
      BY <1>3, <2>2, <3>1, <3>2, <3>3
  <2>3. ~(Live(m, y)' /\ Live(k, z)')
    <3>1. CASE m = n
      BY <2>2, <3>1
    <3>2. CASE k = n
      BY <2>2, <3>2
    <3>3. CASE m # n /\ k # n
      BY <2>1, <3>3, WriteLive
    <3> QED
      BY <3>1, <3>2, <3>3
  <2>4. ~(Stored(m, y)' /\ Stored(k, z)')
    BY <2>1, WriteLive
  <2>5. ASSUME Live(m, y)', Stored(k, z)'
        PROVE  \E t \in Session : Holds(t, k)' /\ (Holds(t, m)' \/ Inserts(t, m)')
    <3>1. Stored(k, z)
      BY <2>5, WriteLive
    <3>2. CASE m # n
      BY <2>1, <2>5, <3>1, <3>2, WriteLive
    <3>3. CASE m = n /\ there # Absent /\ there.rec = x.rec
      <4>1. y = x
        BY <2>5, <3>3, WriteLive
      <4>2. \E t \in Session : Holds(t, k) /\ (Holds(t, n) \/ Inserts(t, n))
        BY <1>1, <3>1, <3>3, <4>1 DEF RecordInv, RecordsApart
      <4> QED
        BY <1>4, <3>3, <4>2
    <3>4. CASE m = n /\ r # NoValue /\ x.rec = r
      <4>1. y = x
        BY <2>5, <3>4, WriteLive
      <4>2. Holds(s, k)
        BY <1>2, <3>1, <3>4, <4>1
      <4> QED
        BY <1>4, <1>5, <3>4, <4>2
    <3> QED
      BY <1>3, <2>5, <3>2, <3>3, <3>4, WriteLive
  <2> QED
    BY <2>3, <2>4, <2>5
<1>7. \A t \in Session : \A q \in ValueId : ValueLocked(t, q)' => q <= Len(made')
  <2>1. r # NoValue => r <= Len(made)
    BY <1>1, Numbers DEF WriteRight, Own, Fresh, RecordInv, RecordsRight, RecordRight, CreatedPrivate
  <2> QED
    BY <2>1, Numbers DEF WriteStep, RecordInv, ValueLocks
<1>8. ValueLocks'
  <2> SUFFICES ASSUME NEW t \in Session, NEW m \in Name, NEW y \in Record,
                      Live(m, y)' \/ Stored(m, y)', ValueLocked(t, y.rec)'
               PROVE  Holds(t, m)'
    BY <1>7 DEF ValueLocks
  <2>0. ValueLocked(t, y.rec)'
    OBVIOUS
  <2>1. CASE y.rec = NoValue
    <3>1. y.rec \notin ValueId
      BY <2>1, Numbers
    <3> QED
      BY <2>0, <3>1, KeyFacts
  <2>2. CASE y.rec # NoValue /\ t = s /\ y.rec = r
    BY <1>2, <1>4, <1>5, <2>2, WriteLive
  <2>3. CASE y.rec # NoValue /\ ~(t = s /\ y.rec = r)
    <3>1. y.rec \in ValueId /\ ValueLocked(t, y.rec)
      BY <2>3, RecordFields DEF WriteStep
    <3>2. CASE Stored(m, y)' \/ (Live(m, y)' /\ m # n)
      BY <1>4, <3>1, <3>2, WriteLive DEF RecordInv, ValueLocks
    <3>3. CASE Live(m, y)' /\ m = n /\ there # Absent /\ there.rec = x.rec
      <4>1. y = x
        BY <3>3, WriteLive
      <4> QED
        BY <1>1, <1>4, <3>1, <3>3, <4>1 DEF RecordInv, ValueLocks
    <3>4. CASE Live(m, y)' /\ m = n /\ r # NoValue /\ x.rec = r
      <4>1. y = x
        BY <3>4, WriteLive
      <4>2. t # s
        BY <2>3, <3>4, <4>1
      <4> QED
        BY <1>1, <3>1, <3>4, <4>1, <4>2 DEF WriteStep
    <3> QED
      BY <1>3, <2>3, <3>2, <3>3, <3>4, WriteLive
  <2> QED
    BY <2>1, <2>2, <2>3
<1> QED
  BY <1>6, <1>8

LEMMA WriteValues ==
    ASSUME TypeOK, TypeOK', RecordInv, NEW s \in Session, NEW n \in Name, NEW x, NEW r, NEW v,
           WriteStep(s, n, x, r, v), WriteRight(s, n, x, r, v)
    PROVE  RecordsRight' /\ ValuesApart' /\ CreatedPrivate'
<1> DEFINE there == objCatalogFile[n]
<1>1. /\ there # Absent => there \in Record /\ Live(n, there)
      /\ x # Absent => x \in Record
      /\ r # NoValue => r \in ValueId
      /\ \A m \in Name : \A y : Stored(m, y) \/ Live(m, y) => y \in Record
      /\ Len(made) \in Nat
  BY LiveFacts, TypeFacts DEF WriteRight
<1>2. ASSUME r # NoValue
      PROVE  /\ \A m \in Name : \A y \in Record : m # n /\ y.rec = r => ~Live(m, y)
             /\ \A t \in Session : r \in created[t] => t = s
  BY <1>1, <1>2, OwnRecord DEF WriteStep, WriteRight
<1>3. x # Absent /\ x.rec # NoValue =>
          (there # Absent /\ there.rec = x.rec) \/ (r # NoValue /\ x.rec = r)
  BY DEF WriteRight
<1>4. UNCHANGED <<made, saved, created>>
  BY DEF WriteStep
<1>5. RecordsRight'
  <2>1. ASSUME NEW m \in Name, NEW y \in Record, Live(m, y)'
        PROVE  RecordRight(y, objValueFile)'
    <3>1. CASE m # n
      <4>1. Live(m, y) /\ RecordRight(y, objValueFile)
        BY <2>1, <3>1, WriteLive DEF RecordInv, RecordsRight
      <4>2. y.rec # NoValue => y.rec \in ValueId /\ y.rec # r
        BY <1>2, <3>1, <4>1, RecordFields
      <4> QED
        BY <1>4, <4>1, <4>2 DEF WriteStep, RecordRight
    <3>2. CASE m = n
      <4>1. y = x /\ x # Absent
        BY <2>1, <3>2, WriteLive
      <4>2. CASE x.rec = NoValue
        BY <4>1, <4>2 DEF WriteRight, RecordRight
      <4>3. CASE x.rec # NoValue /\ x.rec = r
        <5>1. r # NoValue /\ r \in ValueId /\ v \in ValueId /\ Own(s, n, r)
          BY <1>1, <4>1, <4>3 DEF WriteRight
        <5>2. r <= Len(made)
          BY <1>1, <5>1 DEF Own, Fresh, RecordInv, RecordsRight, RecordRight, CreatedPrivate
        <5>3. objValueFile'[r] = v /\ v # NoValue
          BY <5>1, Numbers DEF WriteStep
        <5> QED
          BY <1>4, <4>1, <4>3, <5>2, <5>3 DEF WriteRight, RecordRight
      <4>4. CASE x.rec # NoValue /\ x.rec # r
        <5>1. there # Absent /\ there.rec = x.rec /\ x.rec \in ValueId
          BY <1>1, <1>3, <4>1, <4>4, RecordFields
        <5>2. x.rec <= Len(made) /\ objValueFile[x.rec] # NoValue
          BY <1>1, <4>4, <5>1 DEF RecordInv, RecordsRight, RecordRight
        <5>3. objValueFile'[x.rec] = objValueFile[x.rec]
          BY <4>4, <5>1 DEF WriteStep
        <5> QED
          BY <1>4, <4>1, <4>4, <5>2, <5>3 DEF WriteRight, RecordRight
      <4> QED
        BY <4>2, <4>3, <4>4
    <3> QED
      BY <3>1, <3>2
  <2>2. ASSUME NEW m \in Name, NEW y \in Record, Stored(m, y)'
        PROVE  RecordRight(y, saved.values)'
    BY <1>4, <2>2, WriteLive DEF RecordInv, RecordsRight, RecordRight
  <2> QED
    BY <2>1, <2>2 DEF RecordsRight
(* The value written is that of the record before, or in no record.         *)
<1>6. \A q \in ValueId : \/ objValueFile'[q] = objValueFile[q]
                         \/ q = r /\ objValueFile'[q] = NoValue
                         \/ /\ q = r /\ objValueFile'[q] = v /\ v \in created[s]
                            /\ phase[s] = "second"
                            /\ v <= Len(made) /\ \A p \in ValueId : objValueFile[p] # v
  BY Numbers DEF WriteStep, WriteRight
<1>7. ValuesApart'
  <2> SUFFICES ASSUME NEW p \in ValueId, NEW q \in ValueId
               PROVE  /\ objValueFile'[p] <= Len(made) /\ saved.values[p] <= Len(made)
                      /\ p # q => /\ objValueFile'[p] # NoValue =>
                                        objValueFile'[p] # objValueFile'[q]
                                        /\ objValueFile'[p] # saved.values[q]
                                  /\ saved.values[p] # NoValue =>
                                        saved.values[p] # saved.values[q]
    BY <1>4 DEF ValuesApart
  <2>1. /\ objValueFile[p] <= Len(made) /\ saved.values[p] <= Len(made)
        /\ NoValue <= Len(made)
        /\ p # q => /\ objValueFile[p] # NoValue => objValueFile[p] # objValueFile[q]
                                                    /\ objValueFile[p] # saved.values[q]
                    /\ saved.values[p] # NoValue => saved.values[p] # saved.values[q]
    BY <1>1, Numbers DEF RecordInv, ValuesApart
  <2>2. v \in created[s] => saved.values[q] # v
    BY DEF RecordInv, CreatedPrivate
  <2>3. objValueFile'[p] <= Len(made)
    BY <1>6, <2>1
  <2>4. p # q /\ objValueFile'[p] # NoValue =>
            objValueFile'[p] # objValueFile'[q] /\ objValueFile'[p] # saved.values[q]
    BY <1>6, <2>1, <2>2
  <2> QED
    BY <2>1, <2>3, <2>4
<1>8. CreatedPrivate'
  <2> SUFFICES ASSUME NEW t \in Session, NEW w \in created[t]
               PROVE  /\ w <= Len(made)
                      /\ \A u \in Session : w \in created[u] \/ ValueLocked(u, w)' => t = u
                      /\ \A q \in ValueId :
                            /\ saved.values[q] # w
                            /\ objValueFile'[q] = w =>
                                  phase'[t] = "second" /\ ValueLocked(t, q)'
                      /\ \A m \in Name : \A y \in Record :
                            /\ Stored(m, y)' => y.rec # w
                            /\ Live(m, y)' /\ y.rec = w => ValueLocked(t, w)'
    BY <1>4 DEF CreatedPrivate
  <2>1. /\ w <= Len(made) /\ w \in ValueId
        /\ \A u \in Session : w \in created[u] \/ ValueLocked(u, w) => t = u
        /\ \A q \in ValueId :
              /\ saved.values[q] # w
              /\ objValueFile[q] = w => phase[t] = "second" /\ ValueLocked(t, q)
        /\ \A m \in Name : \A y \in Record :
              /\ Stored(m, y) => y.rec # w
              /\ Live(m, y) /\ y.rec = w => ValueLocked(t, w)
    BY TypeFacts DEF RecordInv, CreatedPrivate
  <2>2. ASSUME NEW u \in Session, ValueLocked(u, w)' PROVE t = u
    BY <1>1, <1>2, <2>1, <2>2, Numbers DEF WriteStep
  <2>3. ASSUME NEW q \in ValueId, objValueFile'[q] = w
        PROVE  phase'[t] = "second" /\ ValueLocked(t, q)'
    <3>1. CASE objValueFile[q] = w
      BY <2>1, <3>1 DEF WriteStep
    <3>2. CASE objValueFile[q] # w
      BY <1>6, <2>1, <2>3, <3>2, Numbers DEF WriteStep
    <3> QED
      BY <3>1, <3>2
  <2>4. ASSUME NEW m \in Name, NEW y \in Record, Live(m, y)', y.rec = w
        PROVE  ValueLocked(t, w)'
    <3>1. CASE Live(m, y)
      BY <2>1, <2>4, <3>1 DEF WriteStep
    <3>2. CASE ~Live(m, y)
      <4>1. m = n /\ y = x /\ x # Absent /\ w # NoValue
        BY <2>1, <2>4, <3>2, WriteLive, Numbers
      <4>2. CASE there # Absent /\ there.rec = x.rec
        BY <1>1, <2>1, <2>4, <4>1, <4>2 DEF WriteStep
      <4>3. CASE r # NoValue /\ x.rec = r
        BY <1>2, <2>1, <2>4, <4>1, <4>3 DEF WriteStep
      <4> QED
        BY <1>3, <2>4, <4>1, <4>2, <4>3
    <3> QED
      BY <3>1, <3>2
  <2> QED
    BY <2>1, <2>2, <2>3, <2>4, WriteLive
<1> QED
  BY <1>5, <1>7, <1>8

-----------------------------------------------------------------------------
(* Steps that write no record: what a command notes in the cache, with new  *)
(* values, the steps of CleanUp between the writes, and a deadlock.         *)

LEMMA NewValueFacts ==
    ASSUME TypeOK, TypeOK', NEW s \in Session, NEW t \in Type, NewValue(s, t)
    PROVE  /\ Latest = Len(made) + 1 /\ Len(made') = Latest /\ Latest \in ValueId
           /\ made'[Latest] = t
           /\ \A v \in ValueId : v <= Len(made) => made'[v] = made[v]
           /\ created'[s] = created[s] \cup {Latest}
           /\ \A u \in Session \ {s} : created'[u] = created[u]
           /\ files' = files \cup {Latest}
<1>1. made \in Seq(Type) /\ made' = Append(made, t) /\ Len(made) \in Nat
  BY TypeFacts DEF NewValue, TypeOK
<1>2. Len(made') = Len(made) + 1 /\ made'[Len(made) + 1] = t
      /\ \A v \in 1..Len(made) : made'[v] = made[v]
  BY <1>1, AppendProperties
<1>3. Latest \in ValueId
  BY NewValues
<1> QED
  BY <1>1, <1>2, <1>3 DEF NewValue, Latest, TypeOK, ValueId

(* Values are created, if at all, by s.                                     *)
Creates(s) ==
    \/ UNCHANGED <<made, created>>
    \/ \E t \in Type : NewValue(s, t)

LEMMA CreatesFacts ==
    ASSUME TypeOK, TypeOK', NEW s \in Session, Creates(s)
    PROVE  /\ Len(made) \in Nat /\ Len(made') \in Nat /\ Len(made) <= Len(made')
           /\ \A v \in ValueId : v <= Len(made) => v <= Len(made') /\ made'[v] = made[v]
           /\ \A u \in Session : created[u] \subseteq created'[u]
           /\ \A u \in Session : \A v \in created'[u] :
                 v \in created[u] \/ (u = s /\ v > Len(made) /\ v <= Len(made'))
<1>1. Len(made) \in Nat /\ Len(made') \in Nat
  BY TypeFacts, LenProperties DEF TypeOK
<1>2. CASE UNCHANGED <<made, created>>
  BY <1>1, <1>2, Numbers
<1>3. CASE \E t \in Type : NewValue(s, t)
  <2>1. PICK t \in Type : NewValue(s, t)
    BY <1>3
  <2> QED
    BY <1>1, <2>1, NewValueFacts, Numbers
<1> QED
  BY <1>2, <1>3 DEF Creates

LEMMA RecordFrame ==
    ASSUME TypeOK, TypeOK', RecordInv, NEW s \in Session, Creates(s),
           UNCHANGED <<objCatalogFile, objValueFile, saved>>,
           \A t \in Session : phase[t] = "second" => phase'[t] = "second",
           \A t \in Session : \A n \in Name : Holds(t, n)' <=> Holds(t, n),
           \A t \in Session : \A r \in ValueId : ValueLocked(t, r)' <=> ValueLocked(t, r),
           \A n \in Name : \A x \in Record : Live(n, x)' =>
               Live(n, x) /\ \A t \in Session : Inserts(t, n) => Inserts(t, n)'
    PROVE  /\ UnlockedCommitted' /\ RecordsApart' /\ ValueLocks' /\ RecordsRight'
           /\ ValuesApart' /\ CreatedPrivate'
<1>1. \A n \in Name : \A x : Stored(n, x)' <=> Stored(n, x)
  BY DEF Stored
<1>2. UnlockedCommitted'
  BY DEF RecordInv, UnlockedCommitted
<1>3. RecordsApart'
  <2> SUFFICES ASSUME NEW n \in Name, NEW m \in Name, NEW x \in Record, NEW y \in Record,
                      x.rec = y.rec, x.rec # NoValue, n # m
               PROVE  /\ ~(Live(n, x)' /\ Live(m, y)')
                      /\ ~(Stored(n, x)' /\ Stored(m, y)')
                      /\ Live(n, x)' /\ Stored(m, y)' =>
                            \E t \in Session : Holds(t, m)' /\ (Holds(t, n)' \/ Inserts(t, n)')
    BY DEF RecordsApart
  <2>1. /\ ~(Live(n, x) /\ Live(m, y))
        /\ ~(Stored(n, x) /\ Stored(m, y))
        /\ Live(n, x) /\ Stored(m, y) =>
              \E t \in Session : Holds(t, m) /\ (Holds(t, n) \/ Inserts(t, n))
    BY DEF RecordInv, RecordsApart
  <2> QED
    BY <1>1, <2>1
<1>4. RecordsRight'
  <2>1. \A r \in ValueId :
           /\ objValueFile[r] \in Nat /\ objValueFile[r] <= Len(made)
           /\ saved.values[r] \in Nat /\ saved.values[r] <= Len(made)
           /\ objValueFile[r] # NoValue => objValueFile[r] \in ValueId
           /\ saved.values[r] # NoValue => saved.values[r] \in ValueId
    BY TypeFacts DEF RecordInv, ValuesApart
  <2>2. ASSUME NEW n \in Name, NEW x \in Record, Live(n, x)'
        PROVE  RecordRight(x, objValueFile)'
    <3>1. RecordRight(x, objValueFile)
      BY <2>2 DEF RecordInv, RecordsRight
    <3>2. x.rec # NoValue =>
             x.rec \in ValueId /\ objValueFile[x.rec] \in ValueId /\ objValueFile[x.rec] <= Len(made)
      BY <2>1, <3>1, RecordFields DEF RecordRight
    <3> QED
      BY <3>1, <3>2, CreatesFacts DEF RecordRight
  <2>3. ASSUME NEW n \in Name, NEW x \in Record, Stored(n, x)'
        PROVE  RecordRight(x, saved.values)'
    <3>1. RecordRight(x, saved.values)
      BY <1>1, <2>3 DEF RecordInv, RecordsRight
    <3>2. x.rec # NoValue =>
             x.rec \in ValueId /\ saved.values[x.rec] \in ValueId /\ saved.values[x.rec] <= Len(made)
      BY <2>1, <3>1, RecordFields DEF RecordRight
    <3> QED
      BY <3>1, <3>2, CreatesFacts DEF RecordRight
  <2> QED
    BY <2>2, <2>3 DEF RecordsRight
<1>5. ValuesApart'
  <2> SUFFICES ASSUME NEW r \in ValueId, NEW q \in ValueId
               PROVE  /\ objValueFile[r] <= Len(made') /\ saved.values[r] <= Len(made')
                      /\ r # q => /\ objValueFile[r] # NoValue =>
                                        /\ objValueFile[r] # objValueFile[q]
                                        /\ objValueFile[r] # saved.values[q]
                                  /\ saved.values[r] # NoValue =>
                                        saved.values[r] # saved.values[q]
    BY DEF ValuesApart
  <2>1. /\ objValueFile[r] <= Len(made) /\ saved.values[r] <= Len(made)
        /\ objValueFile[r] \in Nat /\ saved.values[r] \in Nat
    BY TypeFacts DEF RecordInv, ValuesApart
  <2>2. objValueFile[r] <= Len(made') /\ saved.values[r] <= Len(made')
    BY <2>1, CreatesFacts
  <2> QED
    BY <2>2 DEF RecordInv, ValuesApart
<1>6. CreatedPrivate'
  <2> SUFFICES ASSUME NEW t \in Session, NEW v \in created'[t]
               PROVE  /\ v <= Len(made')
                      /\ \A u \in Session : v \in created'[u] \/ ValueLocked(u, v)' => t = u
                      /\ \A r \in ValueId : /\ saved.values[r] # v
                                            /\ objValueFile[r] = v =>
                                                  phase'[t] = "second" /\ ValueLocked(t, r)'
                      /\ \A n \in Name : \A x \in Record :
                            /\ Stored(n, x)' => x.rec # v
                            /\ Live(n, x)' /\ x.rec = v => ValueLocked(t, v)'
    BY DEF CreatedPrivate
  <2>1. v \in ValueId
    BY DEF TypeOK
  <2>2. CASE v \in created[t]
    <3>1. /\ v <= Len(made)
          /\ \A u \in Session : v \in created[u] \/ ValueLocked(u, v) => t = u
          /\ \A r \in ValueId : /\ saved.values[r] # v
                                /\ objValueFile[r] = v =>
                                      phase[t] = "second" /\ ValueLocked(t, r)
          /\ \A n \in Name : \A x \in Record :
                /\ Stored(n, x) => x.rec # v
                /\ Live(n, x) /\ x.rec = v => ValueLocked(t, v)
      BY <2>2 DEF RecordInv, CreatedPrivate
    <3>2. \A u \in Session : v \in created'[u] => v \in created[u]
      <4>1. v \in Nat /\ Len(made) \in Nat /\ ~(v > Len(made))
        BY <2>1, <3>1, TypeFacts, Numbers
      <4> QED
        BY <4>1, CreatesFacts
    <3> QED
      BY <1>1, <2>1, <3>1, <3>2, CreatesFacts
  <2>3. CASE v \notin created[t]
    <3>1. t = s /\ v > Len(made) /\ v <= Len(made') /\ v \in Nat /\ Len(made) \in Nat
      BY <2>1, <2>3, CreatesFacts, Numbers
    <3>2. \A u \in Session : v \notin created[u] /\ ~ValueLocked(u, v)
      BY <2>1, <3>1 DEF RecordInv, CreatedPrivate, ValueLocks
    <3>3. \A u \in Session : v \in created'[u] => u = s
      BY <3>2, CreatesFacts
    <3>4. \A r \in ValueId : saved.values[r] # v /\ objValueFile[r] # v
      BY <3>1 DEF RecordInv, ValuesApart
    <3>5. \A n \in Name : \A x \in Record : Stored(n, x) \/ Live(n, x) => x.rec # v
      BY <3>1, Numbers DEF RecordInv, RecordsRight, RecordRight
    <3> QED
      BY <1>1, <2>1, <3>1, <3>2, <3>3, <3>4, <3>5
  <2> QED
    BY <2>2, <2>3
<1>7. ValueLocks'
  <2>1. \A t \in Session : \A r \in ValueId : ValueLocked(t, r)' => r <= Len(made')
    BY CreatesFacts DEF RecordInv, ValueLocks
  <2>2. ASSUME NEW t \in Session, NEW n \in Name, NEW x \in Record,
               Live(n, x)' \/ Stored(n, x)', ValueLocked(t, x.rec)'
        PROVE  Holds(t, n)'
    <3>1. CASE x.rec \in ValueId
      BY <1>1, <2>2, <3>1 DEF RecordInv, ValueLocks
    <3>2. CASE x.rec \notin ValueId
      BY <2>2, <3>2, KeyFacts
    <3> QED
      BY <3>1, <3>2
  <2> QED
    BY <2>1, <2>2 DEF ValueLocks
<1> QED
  BY <1>2, <1>3, <1>4, <1>5, <1>6, <1>7

(* Session s writes nothing, and the others do nothing.                     *)
QuietStep(s) ==
    /\ UNCHANGED <<objCatalogFile, objValueFile, saved>> /\ Creates(s)
    /\ phase[s] = "second" => phase'[s] = "second"
    /\ \A n \in Name : Holds(s, n)' <=> Holds(s, n)
    /\ \A r \in ValueId : ValueLocked(s, r)' <=> ValueLocked(s, r)
    /\ \A t \in Session \ {s} :
          /\ locks'[t] = locks[t] /\ objects'[t] = objects[t] /\ pending'[t] = pending[t]
          /\ phase'[t] = phase[t] /\ todo'[t] = todo[t] /\ mustAbort'[t] = mustAbort[t]
          /\ drops'[t] = drops[t]

LEMMA QuietOthers ==
    ASSUME TypeOK, TypeOK', NEW s \in Session, QuietStep(s), NEW t \in Session \ {s}
    PROVE  /\ created'[t] = created[t]
           /\ \A n \in Name : /\ Cached(t, n)' <=> Cached(t, n)
                              /\ Holds(t, n)' <=> Holds(t, n)
                              /\ Touches(t, n)' <=> Touches(t, n)
                              /\ Inserts(t, n)' <=> Inserts(t, n)
           /\ \A r \in ValueId : ValueLocked(t, r)' <=> ValueLocked(t, r)
<1>1. created'[t] = created[t]
  BY NewValueFacts DEF QuietStep, Creates
<1>2. \A n \in Name : /\ Cached(t, n)' <=> Cached(t, n)
                      /\ Holds(t, n)' <=> Holds(t, n)
                      /\ Inserts(t, n)' <=> Inserts(t, n)
  BY DEF QuietStep, Cached, Holds, Inserts
<1>3. \A n \in Name : Touches(t, n)' <=> Touches(t, n)
  BY <1>2 DEF Touches, QuietStep
<1>4. \A r \in ValueId : ValueLocked(t, r)' <=> ValueLocked(t, r)
  BY DEF QuietStep, ValueLocked
<1> QED
  BY <1>1, <1>2, <1>3, <1>4

LEMMA QuietRecords ==
    ASSUME TypeOK, TypeOK', RecordInv, ~SharedObjects, NEW s \in Session, QuietStep(s),
           IdleRight(s)',
           \A n \in Name : Touches(s, n)' => Touches(s, n) \/ MayTouch(s, n),
           pending'[s] = Absent \/ PendingFits(s, pending[s])',
           \A n \in Name : Inserts(s, n)' <=> Inserts(s, n) /\ pending'[s] = pending[s]
    PROVE  RecordInv'
<1>1. IdleInv'
  <2>1. ASSUME NEW t \in Session \ {s} PROVE IdleRight(t)'
    <3>1. IdleRight(t)
      BY DEF RecordInv, IdleInv
    <3>2. /\ created'[t] = created[t] /\ \A n \in Name : Cached(t, n)' <=> Cached(t, n)
      BY QuietOthers
    <3> QED
      BY <3>1, <3>2 DEF IdleRight, QuietStep
  <2> QED
    BY <2>1 DEF IdleInv
<1>2. SessionsApart'
  <2>1. \A t, u \in Session : \A r \in ValueId :
           ValueLocked(t, r)' /\ ValueLocked(u, r)' => t = u
    BY QuietOthers DEF QuietStep, RecordInv, SessionsApart
  <2>2. ASSUME NEW t \in Session \ {s}, NEW n \in Name, Touches(t, n)', Touches(s, n)'
        PROVE  FALSE
    <3>1. Touches(t, n)
      BY <2>2, QuietOthers
    <3> QED
      BY <2>2, <3>1 DEF RecordInv, SessionsApart, MayTouch
  <2>3. ASSUME NEW t \in Session \ {s}, NEW u \in Session \ {s}, NEW n \in Name,
               Touches(t, n)', Touches(u, n)'
        PROVE  t = u
    BY <2>3, QuietOthers DEF RecordInv, SessionsApart
  <2> QED
    BY <2>1, <2>2, <2>3 DEF SessionsApart
<1>3. PendingRight'
  <2>1. ASSUME NEW t \in Session \ {s}, pending'[t] # Absent PROVE PendingFits(t, pending[t])'
    <3> DEFINE p == pending[t]
    <3>1. pending'[t] = p /\ p # Absent /\ phase'[t] = phase[t] /\ objCatalogFile' = objCatalogFile
      BY <2>1 DEF QuietStep
    <3>2. p.old \in Name /\ p.new \in Name
      BY <3>1, TypeFacts
    <3>3. PendingFits(t, p)
      BY <3>1 DEF RecordInv, PendingRight
    <3>4. \A n \in Name : (Cached(t, n)' <=> Cached(t, n)) /\ (Holds(t, n)' <=> Holds(t, n))
      BY QuietOthers
    <3> QED
      BY <3>1, <3>2, <3>3, <3>4 DEF PendingFits, Cached, Holds
  <2>2. ASSUME pending'[s] # Absent PROVE PendingFits(s, pending[s])'
    BY <2>2
  <2> QED
    BY <2>1, <2>2 DEF PendingRight
<1>4. \A n \in Name : \A x \in Record : Live(n, x)' =>
          Live(n, x) /\ \A t \in Session : Inserts(t, n) => Inserts(t, n)'
  <2> SUFFICES ASSUME NEW n \in Name, NEW x \in Record, Live(n, x)'
               PROVE  Live(n, x) /\ \A t \in Session : Inserts(t, n) => Inserts(t, n)'
    OBVIOUS
  <2>1. \A t \in Session : Inserts(t, n)' => Inserts(t, n) /\ pending'[t] = pending[t]
    BY QuietOthers DEF QuietStep
  <2>2. Live(n, x)
    BY <2>1 DEF Live, QuietStep
  <2>3. ASSUME NEW t \in Session, Inserts(t, n) PROVE Inserts(t, n)'
    <3>1. objCatalogFile[n] = Absent
      BY <2>3, LiveFacts
    <3>2. PICK u \in Session : Inserts(u, n)'
      BY <3>1 DEF Live, QuietStep
    <3>3. t = u
      BY <2>1, <2>3, <3>2, TouchFacts DEF RecordInv, SessionsApart
    <3> QED
      BY <3>2, <3>3
  <2> QED
    BY <2>2, <2>3
<1>5. \A t \in Session : /\ \A n \in Name : Holds(t, n)' <=> Holds(t, n)
                         /\ \A r \in ValueId : ValueLocked(t, r)' <=> ValueLocked(t, r)
  BY QuietOthers DEF QuietStep
<1>6. /\ UnlockedCommitted' /\ RecordsApart' /\ ValueLocks' /\ RecordsRight'
      /\ ValuesApart' /\ CreatedPrivate'
  <2>1. \A t \in Session : phase[t] = "second" => phase'[t] = "second"
    BY DEF QuietStep
  <2> QED
    BY <1>4, <1>5, <2>1, RecordFrame DEF QuietStep
<1> QED
  BY <1>1, <1>2, <1>3, <1>6 DEF RecordInv

(* The commands that change the entry of a name, or move one.               *)
CacheCommand(s) ==
    /\ Running(s) /\ QuietStep(s)
    /\ UNCHANGED <<locks, phase, todo, mustAbort, pending>>
    /\ \A n \in Name : Cached(s, n)' => Cached(s, n) \/ MayTouch(s, n)

LEMMA CommandRecords ==
    ASSUME TypeOK, TypeOK', RecordInv, ~SharedObjects, NEW s \in Session, CacheCommand(s)
    PROVE  RecordInv'
<1>1. pending[s] = Absent /\ pending'[s] = Absent /\ phase'[s] = "active"
  BY DEF CacheCommand, Running
<1>2. IdleRight(s)'
  BY <1>1 DEF IdleRight
<1>3. \A n \in Name : Touches(s, n)' => Touches(s, n) \/ MayTouch(s, n)
  BY <1>1 DEF CacheCommand, QuietStep, Touches
<1>4. \A n \in Name : Inserts(s, n)' <=> Inserts(s, n) /\ pending'[s] = pending[s]
  BY <1>1 DEF Inserts
<1> QED
  BY <1>1, <1>2, <1>3, <1>4, QuietRecords DEF CacheCommand

-----------------------------------------------------------------------------
(* What the commands note in the cache.                                     *)

Active(s) == phase[s] = "active" /\ pending[s] = Absent

LEMMA ActiveEarly ==
    ASSUME NEW s \in Session, phase[s] = "active", NEW n \in Name
    PROVE  Early(s, n) /\ ~Late(s, n)
BY DEF Early, Late

(* The value of a stored object belongs to it alone.                        *)
LEMMA StoredValueFacts ==
    ASSUME CatalogInv, NEW s \in Session, Active(s), NEW n \in Name,
           \A t \in Session \ {s} : ~Touches(t, n),
           objCatalogFile[n] # Absent, StoredValue(n) # NoValue
    PROVE  LET there == objCatalogFile[n]
               v == StoredValue(n)
           IN  /\ there \in Record /\ Live(n, there) /\ there.defined
               /\ there.rec \in ValueId /\ v = objValueFile[there.rec]
               /\ v \in ValueId /\ v <= Len(made) /\ made[v] = there.type
               /\ \A t \in Session : v \notin created[t]
               /\ \A k \in Name : \A x \in Record :
                     /\ Live(k, x) /\ x.defined /\ objValueFile[x.rec] = v => k = n
                     /\ Stored(k, x) /\ x.defined /\ saved.values[x.rec] = v =>
                           k = n \/ Holds(s, k)
               /\ ~Cached(s, n) => \A t \in Session : \A m \in Name :
                     Cached(t, m) => objects[t][m].value # v
<1> DEFINE there == objCatalogFile[n]
           v == StoredValue(n)
<1>0. TypeOK /\ RecordInv
  BY DEF CatalogInv
<1>1. there \in Record /\ Live(n, there)
  BY <1>0, LiveFacts
<1>2. there.defined /\ there.rec # NoValue /\ v = objValueFile[there.rec]
  BY DEF StoredValue
<1>3. there.rec \in ValueId
  BY <1>1, <1>2, RecordFields
<1>4. v \in ValueId /\ v <= Len(made)
  BY <1>0, <1>2, <1>3, TypeFacts DEF RecordInv, ValuesApart
<1>5. made[v] = there.type
  BY <1>0, <1>1, <1>2 DEF RecordInv, RecordsRight, RecordRight
<1>6. \A t \in Session : v \notin created[t]
  <2> SUFFICES ASSUME NEW t \in Session, v \in created[t] PROVE FALSE
    OBVIOUS
  <2>1. phase[t] = "second" /\ ValueLocked(t, there.rec)
    BY <1>0, <1>2, <1>3 DEF RecordInv, CreatedPrivate
  <2>2. Holds(t, n)
    BY <1>0, <1>1, <2>1 DEF RecordInv, ValueLocks
  <2> QED
    BY <1>0, <2>1, <2>2, TouchFacts DEF Active
<1>7. ASSUME NEW k \in Name, NEW x \in Record, x.defined, Live(k, x), objValueFile[x.rec] = v
      PROVE  k = n
  <2>1. x.rec \in ValueId
    BY <1>0, <1>7, RecordFields DEF RecordInv, RecordsRight, RecordRight
  <2>2. x.rec = there.rec
    BY <1>0, <1>2, <1>3, <1>7, <2>1 DEF RecordInv, ValuesApart
  <2> QED
    BY <1>0, <1>1, <1>2, <1>7, <2>2 DEF RecordInv, RecordsApart
<1>8. ASSUME NEW k \in Name, NEW x \in Record, x.defined, Stored(k, x), saved.values[x.rec] = v
      PROVE  k = n \/ Holds(s, k)
  <2>1. x.rec \in ValueId
    BY <1>0, <1>8, RecordFields DEF RecordInv, RecordsRight, RecordRight
  <2>2. x.rec = there.rec
    BY <1>0, <1>2, <1>3, <1>8, <2>1 DEF RecordInv, ValuesApart
  <2>3. k = n \/ \E t \in Session : Holds(t, k) /\ (Holds(t, n) \/ Inserts(t, n))
    BY <1>0, <1>1, <1>2, <1>8, <2>2 DEF RecordInv, RecordsApart
  <2> QED
    BY <1>0, <2>3, TouchFacts
<1>9. ASSUME ~Cached(s, n), NEW t \in Session, NEW m \in Name, Cached(t, m),
             objects[t][m].value = v
      PROVE  FALSE
  <2> DEFINE e == objects[t][m]
  <2>1. m # n
    BY <1>0, <1>9, TouchFacts
  <2>2. CASE e.state = "EntryDelete"
    <3>1. Doomed(t, v)
      BY <1>9, <2>2 DEF Doomed, Deleted
    <3>2. Cached(t, n)
      BY <1>1, <1>2, <1>4, <3>1 DEF CatalogInv, DoomedRight
    <3> QED
      BY <1>0, <1>9, <3>2, TouchFacts
  <2>3. CASE e.state # "EntryDelete"
    <3>1. e.rec # NoValue /\ objValueFile[e.rec] = v
      BY <1>6, <1>9, <2>3 DEF CatalogInv, EntriesRight, EntryValueRight
    <3>2. e.rec \in ValueId
      BY <1>0, <1>9, <3>1, TypeFacts, EntryFields
    <3>3. e.rec = there.rec
      BY <1>0, <1>2, <1>3, <3>1, <3>2 DEF RecordInv, ValuesApart
    <3>4. objCatalogFile[m] # Absent /\ objCatalogFile[m].rec = e.rec
      BY <1>9, <2>3, <3>1 DEF CatalogInv, EntriesRight, EntryRight
    <3>5. objCatalogFile[m] \in Record /\ Live(m, objCatalogFile[m])
      BY <1>0, <3>4, LiveFacts
    <3> QED
      BY <1>0, <1>1, <1>2, <2>1, <3>3, <3>4, <3>5 DEF RecordInv, RecordsApart
  <2> QED
    BY <2>2, <2>3
<1> QED
  BY <1>1, <1>2, <1>3, <1>4, <1>5, <1>6, <1>7, <1>8, <1>9

(* The old value of an object belongs to it alone.                          *)
LEMMA OldValueFacts ==
    ASSUME CatalogInv, NEW s \in Session, Active(s), NEW n \in Name,
           \A t \in Session \ {s} : ~Touches(t, n),
           IsObjectName(s, n), OldValue(s, n) # NoValue
    PROVE  LET v == OldValue(s, n)
           IN  /\ v \in ValueId /\ v <= Len(made)
               /\ \A t \in Session \ {s} : v \notin created[t]
               /\ \A t \in Session : \A m \in Name :
                     Cached(t, m) /\ objects[t][m].value = v => t = s /\ m = n
               /\ \A k \in Name : \A x \in Record :
                     /\ Live(k, x) /\ x.defined /\ objValueFile[x.rec] = v => k = n
                     /\ Stored(k, x) /\ x.defined /\ saved.values[x.rec] = v =>
                           k = n \/ Holds(s, k)
               /\ Cached(s, n) /\ objects[s][n].state = "EntryInsert" =>
                     \A k \in Name : \A x \in Record :
                        Stored(k, x) /\ x.defined => saved.values[x.rec] # v
<1>0. TypeOK /\ RecordInv /\ EntriesRight
  BY DEF CatalogInv
<1>1. CASE ~Cached(s, n)
  <2>1. objCatalogFile[n] # Absent /\ OldValue(s, n) = StoredValue(n)
    BY <1>1 DEF IsObjectName, OldValue
  <2> QED
    BY <1>1, <2>1, StoredValueFacts
<1>2. CASE Cached(s, n)
  <2> DEFINE e == objects[s][n]
             v == e.value
  <2>1. OldValue(s, n) = v /\ v # NoValue /\ e \in Entry /\ v \in ValueId
    BY <1>0, <1>2, TypeFacts, EntryFields DEF OldValue
  <2>2. EntryRight(s, n) /\ EntryValueRight(s, n) /\ Early(s, n) /\ ~Late(s, n)
    BY <1>0, <1>2, ActiveEarly DEF EntriesRight, Active
  <2>3. /\ v <= Len(made) /\ \A t \in Session \ {s} : v \notin created[t]
        /\ \A t \in Session : \A m \in Name \ {n} : Cached(t, m) => objects[t][m].value # v
    BY <2>1, <2>2 DEF EntryValueRight
  <2>4. ASSUME NEW t \in Session, NEW m \in Name, Cached(t, m), objects[t][m].value = v
        PROVE  t = s /\ m = n
    BY <1>0, <2>3, <2>4, TouchFacts
  <2>5. \A k \in Name : \A x \in Record : (Live(k, x) \/ Stored(k, x)) /\ x.defined =>
            x.rec \in ValueId
    BY <1>0, RecordFields DEF RecordInv, RecordsRight, RecordRight
  <2>6. CASE v \in created[s]
    <3>1. \A r \in ValueId : objValueFile[r] # v /\ saved.values[r] # v
      BY <1>0, <2>1, <2>2, <2>6 DEF EntryValueRight, RecordInv, CreatedPrivate
    <3> QED
      BY <2>1, <2>3, <2>4, <2>5, <3>1
  <2>7. CASE v \notin created[s]
    <3>1. v = StoredValue(n) /\ objCatalogFile[n].defined
          /\ (e.state = "EntryDelete" \/ e.rec # NoValue)
      BY <2>1, <2>2, <2>7 DEF EntryValueRight
    <3>2. e.state # "EntryInsert" /\ objCatalogFile[n] # Absent
      BY <2>2, <3>1 DEF EntryRight
    <3> QED
      BY <2>1, <2>3, <2>4, <3>1, <3>2, StoredValueFacts
  <2> QED
    BY <2>6, <2>7
<1> QED
  BY <1>1, <1>2

-----------------------------------------------------------------------------
(* Commands that put one entry: the entry that s puts for n is about the    *)
(* object of the files, and has no value, a new one, that of the entry that *)
(* was there before or that of the stored object.                           *)
PutFits(s, n, e) ==
    LET there == objCatalogFile[n]
        before == objects[s][n]
    IN  /\ e.state = "EntryInsert" => e.rec = NoValue
        /\ e.rec # NoValue => there # Absent /\ there.rec = e.rec
        /\ there = Absent <=> e.state = "EntryInsert"
        /\ \/ e.value = NoValue
           \/ e.state # "EntryDelete" /\ NewValue(s, e.type) /\ e.value = Latest
           \/ /\ Cached(s, n) /\ before.state # "EntryDelete" /\ e.state = "EntryDelete"
              /\ e.value = before.value /\ e.type = before.type /\ e.rec = before.rec
              /\ UNCHANGED <<made, created>>
           \/ /\ ~Cached(s, n) /\ there # Absent
              /\ e.value = StoredValue(n) /\ e.type = there.type
              /\ e.state = "EntryDelete" \/ e.rec = there.rec
              /\ UNCHANGED <<made, created>>

PutStep(s, n, e) ==
    /\ CacheCommand(s) /\ \A t \in Session \ {s} : ~Touches(t, n)
    /\ \A t \in Session : \A m \in Name :
          objects'[t][m] = IF t = s /\ m = n THEN e ELSE objects[t][m]
    /\ \/ e = Absent /\ Cached(s, n) /\ objects[s][n].state = "EntryInsert"
       \/ e \in Entry /\ PutFits(s, n, e)
    /\ \A v \in drops'[s] : \/ v \in drops[s]
                            \/ /\ v = OldValue(s, n) /\ IsObjectName(s, n)
                               /\ e = Absent \/ e.value # v

LEMMA PutFacts ==
    ASSUME TypeOK, TypeOK', CatalogInv, NEW s \in Session, NEW n \in Name, NEW e, PutStep(s, n, e)
    PROVE  /\ Active(s)
           /\ \A t \in Session : \A m \in Name :
                 /\ Cached(t, m)' <=> IF t = s /\ m = n THEN e # Absent ELSE Cached(t, m)
                 /\ Early(t, m)' <=> Early(t, m)
                 /\ Late(t, m)' <=> Late(t, m)
                 /\ Holds(t, m)' <=> Holds(t, m)
           /\ \A m \in Name : /\ \A x : Live(m, x)' <=> Live(m, x)
                              /\ \A x : Stored(m, x)' <=> Stored(m, x)
                              /\ StoredValue(m)' = StoredValue(m)
           /\ phase' = phase /\ mustAbort' = mustAbort
           /\ objCatalogFile' = objCatalogFile /\ objValueFile' = objValueFile /\ saved' = saved
           /\ Creates(s) /\ \A t \in Session \ {s} : drops'[t] = drops[t]
<1>1. /\ UNCHANGED <<locks, phase, todo, mustAbort, pending>>
      /\ UNCHANGED <<objCatalogFile, objValueFile, saved>> /\ Creates(s)
      /\ \A t \in Session \ {s} : drops'[t] = drops[t]
  BY DEF PutStep, CacheCommand, QuietStep
<1>2. Active(s)
  BY DEF Active, PutStep, CacheCommand, Running
<1>3. \A t \in Session : \A m \in Name :
         Cached(t, m)' <=> IF t = s /\ m = n THEN e # Absent ELSE Cached(t, m)
  BY DEF PutStep, Cached
<1>4. \A t \in Session : \A m \in Name :
         /\ Early(t, m)' <=> Early(t, m)
         /\ Late(t, m)' <=> Late(t, m)
         /\ Holds(t, m)' <=> Holds(t, m)
  BY <1>1 DEF Early, Late, Holds
<1>5. \A m \in Name : /\ \A x : Live(m, x)' <=> Live(m, x)
                      /\ \A x : Stored(m, x)' <=> Stored(m, x)
                      /\ StoredValue(m)' = StoredValue(m)
  BY <1>1 DEF Live, Inserts, Stored, StoredValue
<1> QED
  BY <1>1, <1>2, <1>3, <1>4, <1>5

LEMMA PutOthers ==
    ASSUME NEW s \in Session, NEW n \in Name, NEW e, PutStep(s, n, e)
    PROVE  /\ objects'[s][n] = e /\ (Cached(s, n)' <=> e # Absent)
           /\ \A t \in Session : \A m \in Name : t # s \/ m # n =>
                 objects'[t][m] = objects[t][m] /\ (Cached(t, m)' <=> Cached(t, m))
           /\ e = Absent => Cached(s, n) /\ objects[s][n].state = "EntryInsert"
           /\ e # Absent => e \in Entry /\ PutFits(s, n, e)
<1>1. \A t \in Session : \A m \in Name :
          objects'[t][m] = IF t = s /\ m = n THEN e ELSE objects[t][m]
  BY DEF PutStep
<1>2. \/ e = Absent /\ Cached(s, n) /\ objects[s][n].state = "EntryInsert"
      \/ e \in Entry /\ PutFits(s, n, e)
  BY DEF PutStep
<1>3. e \in Entry => e # Absent
  BY AbsentIsNothing
<1> QED
  BY <1>1, <1>2, <1>3 DEF Cached

(* The value that the new entry has is that of no other entry.              *)
LEMMA PutValue ==
    ASSUME TypeOK, TypeOK', CatalogInv, NEW s \in Session, NEW n \in Name, NEW e,
           PutStep(s, n, e), e # Absent, e.value # NoValue
    PROVE  /\ EntryRight(s, n)' /\ WrittenRight(s, n)'
           /\ e.value <= Len(made') /\ made'[e.value] = e.type
           /\ \A t \in Session : e.value \in created'[t] => t = s
           /\ \A t \in Session : \A m \in Name :
                 Cached(t, m) /\ objects[t][m].value = e.value => t = s /\ m = n
           /\ e.value \in created'[s] =>
                 /\ \A r \in ValueId : objValueFile[r] # e.value
                 /\ \A m \in Name : \A x \in Record : Live(m, x) => x.rec # e.value
           /\ e.value \notin created'[s] =>
                 /\ e.state = "EntryDelete" \/ (e.rec # NoValue /\ objValueFile[e.rec] = e.value)
                 /\ objCatalogFile[n].defined /\ StoredValue(n) = e.value
           /\ e.value <= Len(made) =>
                 \/ /\ Cached(s, n) /\ objects[s][n].state # "EntryDelete"
                    /\ objects[s][n].value = e.value
                 \/ /\ ~Cached(s, n) /\ objCatalogFile[n] # Absent
                    /\ e.value = StoredValue(n)
           /\ e.state = "EntryDelete" => e.value = OldValue(s, n) /\ IsObjectName(s, n)
<1> DEFINE v == e.value
           there == objCatalogFile[n]
<1>1. /\ Active(s) /\ Early(s, n)' /\ ~Late(s, n)' /\ Early(s, n) /\ ~Late(s, n)
      /\ objects'[s][n] = e /\ e \in Entry /\ PutFits(s, n, e)
      /\ \A t \in Session \ {s} : ~Touches(t, n)
      /\ v \in ValueId
  BY PutFacts, ActiveEarly, EntryFields DEF PutStep, Active
<1>2. EntryRight(s, n)' /\ WrittenRight(s, n)'
  BY <1>1, PutFacts DEF PutFits, EntryRight, WrittenRight
<1>3. CASE e.state # "EntryDelete" /\ NewValue(s, e.type) /\ v = Latest
  <2>0. e.type \in Type /\ Len(made) \in Nat
    BY <1>1, EntryFields, TypeFacts
  <2>1. /\ v = Len(made) + 1 /\ v <= Len(made') /\ made'[v] = e.type
        /\ v \in created'[s] /\ \A t \in Session \ {s} : created'[t] = created[t]
    BY <1>3, <2>0, NewValueFacts
  <2>2. /\ \A r \in ValueId : objValueFile[r] <= Len(made)
        /\ \A m \in Name : \A x \in Record : Live(m, x) /\ x.rec # NoValue => x.rec <= Len(made)
        /\ \A t \in Session : \A u \in created[t] : u <= Len(made)
        /\ \A t \in Session : \A m \in Name :
              Cached(t, m) /\ objects[t][m].value # NoValue => objects[t][m].value <= Len(made)
    BY DEF CatalogInv, RecordInv, ValuesApart, RecordsRight, RecordRight, CreatedPrivate,
           EntriesRight, EntryValueRight
  <2>3. v # NoValue /\ ~(v <= Len(made))
    BY <1>1, <2>0, <2>1, Numbers
  <2>4. /\ \A t \in Session : v \in created'[t] => t = s
        /\ \A t \in Session : \A m \in Name : Cached(t, m) => objects[t][m].value # v
        /\ \A r \in ValueId : objValueFile[r] # v
        /\ \A m \in Name : \A x \in Record : Live(m, x) => x.rec # v
    BY <2>1, <2>2, <2>3
  <2> QED
    BY <1>2, <1>3, <2>1, <2>3, <2>4
<1>4. CASE /\ Cached(s, n) /\ objects[s][n].state # "EntryDelete" /\ e.state = "EntryDelete"
           /\ v = objects[s][n].value /\ e.type = objects[s][n].type
           /\ UNCHANGED <<made, created>>
  <2>1. EntryValueRight(s, n)
    BY <1>4 DEF CatalogInv, EntriesRight
  <2>2. /\ v <= Len(made) /\ made[v] = e.type
        /\ \A t \in Session \ {s} : v \notin created[t]
        /\ \A t \in Session : \A m \in Name \ {n} : Cached(t, m) => objects[t][m].value # v
        /\ v \in created[s] =>
              /\ \A r \in ValueId : objValueFile[r] # v
              /\ \A m \in Name : \A x \in Record : Live(m, x) => x.rec # v
        /\ v \notin created[s] => there.defined /\ StoredValue(n) = v
    BY <1>1, <1>4, <2>1 DEF EntryValueRight
  <2>3. \A t \in Session : \A m \in Name :
           Cached(t, m) /\ objects[t][m].value = v => t = s /\ m = n
    BY <1>1, <2>2, TouchFacts
  <2>4. OldValue(s, n) = v /\ IsObjectName(s, n)
    BY <1>4 DEF OldValue, IsObjectName
  <2>5. made' = made /\ created' = created
    BY <1>4
  <2>6. \A t \in Session : v \in created'[t] => t = s
    BY <2>2, <2>5
  <2> QED
    BY <1>2, <1>4, <2>2, <2>3, <2>4, <2>5, <2>6
<1>5. CASE /\ ~Cached(s, n) /\ there # Absent
           /\ v = StoredValue(n) /\ e.type = there.type
           /\ e.state = "EntryDelete" \/ e.rec = there.rec
           /\ UNCHANGED <<made, created>>
  <2>1. /\ there.defined /\ there.rec \in ValueId /\ v = objValueFile[there.rec]
        /\ v <= Len(made) /\ made[v] = there.type
        /\ \A t \in Session : v \notin created[t]
        /\ \A t \in Session : \A m \in Name : Cached(t, m) => objects[t][m].value # v
    BY <1>1, <1>5, StoredValueFacts
  <2> QED
    BY <1>2, <1>5, <2>1, Numbers DEF OldValue, IsObjectName
<1> QED
  BY <1>1, <1>3, <1>4, <1>5 DEF PutFits

LEMMA PutEntries ==
    ASSUME TypeOK, TypeOK', CatalogInv, NEW s \in Session, NEW n \in Name, NEW e, PutStep(s, n, e)
    PROVE  EntriesRight'
<1> SUFFICES ASSUME NEW t \in Session, NEW m \in Name, Cached(t, m)'
             PROVE  /\ phase'[t] # "none"
                    /\ EntryRight(t, m)' /\ WrittenRight(t, m)' /\ EntryValueRight(t, m)'
  BY DEF EntriesRight
<1>1. CASE t = s /\ m = n
  <2>1. objects'[s][n] = e /\ e # Absent /\ phase'[s] = "active"
    BY <1>1, PutFacts DEF PutStep, Active
  <2>2. e \in Entry /\ PutFits(s, n, e) /\ Early(s, n)' /\ ~Late(s, n)'
    BY <2>1, PutFacts, ActiveEarly DEF PutStep, Active
  <2>3. EntryRight(s, n)' /\ WrittenRight(s, n)'
    BY <2>1, <2>2, PutFacts DEF PutFits, EntryRight, WrittenRight
  <2>4. EntryValueRight(s, n)'
    <3>1. CASE e.value = NoValue
      BY <2>1, <3>1 DEF EntryValueRight
    <3>2. CASE e.value # NoValue
      <4>1. /\ e.value <= Len(made') /\ made'[e.value] = e.type
            /\ \A u \in Session : e.value \in created'[u] => u = s
            /\ e.value \in created'[s] =>
                  /\ \A r \in ValueId : objValueFile[r] # e.value
                  /\ \A k \in Name : \A x \in Record : Live(k, x) => x.rec # e.value
            /\ e.value \notin created'[s] =>
                  /\ e.state = "EntryDelete" \/ (e.rec # NoValue /\ objValueFile[e.rec] = e.value)
                  /\ objCatalogFile[n].defined /\ StoredValue(n) = e.value
        BY <2>1, <3>2, PutValue
      <4>2. \A u \in Session : \A k \in Name \ {n} :
                 Cached(u, k)' => objects'[u][k].value # e.value
        <5>1. \A u \in Session : \A k \in Name \ {n} :
                 Cached(u, k) => objects[u][k].value # e.value
          BY <2>1, <3>2, PutValue
        <5>2. \A u \in Session : \A k \in Name \ {n} :
                 objects'[u][k] = objects[u][k] /\ (Cached(u, k)' <=> Cached(u, k))
          BY PutFacts, SMTT(30) DEF PutStep
        <5> QED
          BY <5>1, <5>2
      <4>3. /\ objCatalogFile' = objCatalogFile /\ objValueFile' = objValueFile
            /\ StoredValue(n)' = StoredValue(n)
            /\ \A k \in Name : \A x \in Record : Live(k, x)' <=> Live(k, x)
        BY PutFacts
      <4> QED
        BY <2>1, <4>1, <4>2, <4>3 DEF EntryValueRight
    <3> QED
      BY <3>1, <3>2
  <2> QED
    BY <1>1, <2>1, <2>3, <2>4
<1>2. CASE ~(t = s /\ m = n)
  <2> DEFINE f == objects[t][m]
  <2>1. /\ objects'[t][m] = f /\ Cached(t, m) /\ f \in Entry
        /\ phase' = phase /\ mustAbort' = mustAbort
        /\ (Early(t, m)' <=> Early(t, m)) /\ (Late(t, m)' <=> Late(t, m))
        /\ (Holds(t, m)' <=> Holds(t, m))
        /\ objCatalogFile' = objCatalogFile /\ objValueFile' = objValueFile
        /\ StoredValue(m)' = StoredValue(m)
        /\ \A k \in Name : \A x \in Record : Live(k, x)' <=> Live(k, x)
    BY <1>2, PutFacts, PutOthers, TypeFacts
  <2>2. phase[t] # "none" /\ EntryRight(t, m) /\ WrittenRight(t, m) /\ EntryValueRight(t, m)
    BY <2>1 DEF CatalogInv, EntriesRight
  <2>3. EntryRight(t, m)'
    BY <2>1, <2>2 DEF EntryRight
  <2>4. WrittenRight(t, m)'
    BY <2>1, <2>2 DEF WrittenRight
  <2>5. EntryValueRight(t, m)'
    <3> SUFFICES ASSUME f.value # NoValue PROVE EntryValueRight(t, m)'
      BY <2>1 DEF EntryValueRight
    <3>1. f.value \in ValueId /\ f.value <= Len(made)
      BY <2>1, <2>2, EntryFields DEF EntryValueRight
    <3>2. f.value <= Len(made') /\ made'[f.value] = made[f.value]
      BY <3>1, PutFacts, CreatesFacts
    <3>3. \A u \in Session : f.value \in created'[u] <=> f.value \in created[u]
      <4>1. f.value \in Nat /\ Len(made) \in Nat /\ ~(f.value > Len(made))
        BY <3>1, Numbers, TypeFacts
      <4> QED
        BY <4>1, PutFacts, CreatesFacts
    <3>4. \A u \in Session : \A k \in Name \ {m} : Cached(u, k)' => objects'[u][k].value # f.value
      <4> SUFFICES ASSUME NEW u \in Session, NEW k \in Name \ {m}, Cached(u, k)',
                          objects'[u][k].value = f.value
                   PROVE  FALSE
        OBVIOUS
      <4>1. CASE u = s /\ k = n
        <5>1. objects'[u][k] = e /\ e # Absent
          BY <4>1, PutOthers
        <5> QED
          BY <2>1, <4>1, <5>1, PutValue
      <4>2. CASE ~(u = s /\ k = n)
        <5>1. objects'[u][k] = objects[u][k] /\ Cached(u, k)
          BY <4>2, PutOthers
        <5> QED
          BY <2>2, <5>1 DEF EntryValueRight
      <4> QED
        BY <4>1, <4>2
    <3> QED
      BY <2>1, <2>2, <3>2, <3>3, <3>4 DEF EntryValueRight
  <2> QED
    BY <2>1, <2>2, <2>3, <2>4, <2>5
<1> QED
  BY <1>1, <1>2

LEMMA PutDoomed ==
    ASSUME TypeOK, TypeOK', CatalogInv, NEW s \in Session, NEW n \in Name, NEW e, PutStep(s, n, e)
    PROVE  DoomedRight'
<1> SUFFICES ASSUME NEW t \in Session, NEW v \in ValueId, Doomed(t, v)'
             PROVE  /\ v <= Len(made')
                    /\ \A u \in Session \ {t} : v \notin created'[u]
                    /\ \A u \in Session : \A m \in Name :
                          Cached(u, m)' /\ objects'[u][m].value = v => u = t /\ Deleted(t, m)'
                    /\ \A m \in Name : \A x \in Record :
                          /\ Live(m, x)' /\ x.defined /\ objValueFile'[x.rec] = v =>
                                Cached(t, m)' /\ (mustAbort'[t] \/ Early(t, m)')
                          /\ Stored(m, x)' /\ x.defined /\ saved'.values[x.rec] = v =>
                                Cached(t, m)' \/ Holds(t, m)'
  BY DEF DoomedRight
<1>0. TypeOK /\ RecordInv
  BY DEF CatalogInv
<1>1. \/ Doomed(t, v)
      \/ t = s /\ v = OldValue(s, n) /\ IsObjectName(s, n) /\ (e = Absent \/ e.value # v \/ Deleted(s, n)')
  <2>1. CASE v \in drops'[t]
    BY <2>1, PutFacts, SMTT(30) DEF PutStep, Doomed
  <2>2. CASE v \notin drops'[t]
    <3>1. PICK m \in Name : Deleted(t, m)' /\ v = objects'[t][m].value
      BY <2>2 DEF Doomed
    <3>2. CASE t = s /\ m = n
      <4>1. e # Absent /\ objects'[s][n] = e /\ e.state = "EntryDelete" /\ v = e.value
        BY <3>1, <3>2, PutFacts DEF PutStep, Deleted
      <4>2. e.value # NoValue
        BY <4>1, Numbers
      <4> QED
        BY <3>1, <3>2, <4>1, <4>2, PutValue
    <3>3. CASE ~(t = s /\ m = n)
      BY <3>1, <3>3, PutOthers DEF Deleted, Doomed
    <3> QED
      BY <3>2, <3>3
  <2> QED
    BY <2>1, <2>2
<1>2. /\ Active(s) /\ \A u \in Session \ {s} : ~Touches(u, n)
      /\ Cached(s, n) => ~(e = Absent) \/ (objCatalogFile[n] = Absent)
      /\ \A k \in Name : Cached(s, k) /\ e = Absent /\ k = n =>
            objects[s][n].state = "EntryInsert"
      /\ v # NoValue
  <2>1. CASE e = Absent
    <3>1. Cached(s, n) /\ objects[s][n].state = "EntryInsert" /\ Early(s, n)
      BY <2>1, PutFacts, ActiveEarly, AbsentIsNothing DEF PutStep, Active
    <3> QED
      BY <3>1, PutFacts, Numbers DEF PutStep, CatalogInv, EntriesRight, EntryRight
  <2>2. CASE e # Absent
    BY <2>2, PutFacts, Numbers DEF PutStep
  <2> QED
    BY <2>1, <2>2
<1>3. v <= Len(made) /\ \A u \in Session \ {t} : v \notin created[u]
  BY <1>1, <1>2, OldValueFacts DEF CatalogInv, DoomedRight
<1>4. v <= Len(made') /\ \A u \in Session \ {t} : v \notin created'[u]
  <2>1. v \in Nat /\ Len(made) \in Nat /\ ~(v > Len(made))
    BY <1>3, Numbers, TypeFacts
  <2> QED
    BY <1>3, <2>1, PutFacts, CreatesFacts
<1>5. ASSUME NEW u \in Session, NEW m \in Name, Cached(u, m)', objects'[u][m].value = v
      PROVE  u = t /\ Deleted(t, m)'
  <2>1. CASE u = s /\ m = n
    <3>1. e # Absent /\ objects'[s][n] = e /\ e.value = v /\ e.value # NoValue
      BY <1>2, <1>5, <2>1, PutFacts DEF PutStep
    <3>2. CASE ~Doomed(t, v)
      BY <1>1, <2>1, <3>1, <3>2
    <3>3. CASE Doomed(t, v)
      <4>1. \/ /\ Cached(s, n) /\ objects[s][n].state # "EntryDelete"
               /\ objects[s][n].value = v
            \/ /\ ~Cached(s, n) /\ objCatalogFile[n] # Absent /\ v = StoredValue(n)
        BY <1>3, <3>1, PutValue
      <4>2. CASE Cached(s, n) /\ objects[s][n].state # "EntryDelete" /\ objects[s][n].value = v
        BY <3>3, <4>2 DEF CatalogInv, DoomedRight, Deleted
      <4>3. CASE ~Cached(s, n) /\ objCatalogFile[n] # Absent /\ v = StoredValue(n)
        <5>1. /\ objCatalogFile[n] \in Record /\ Live(n, objCatalogFile[n])
              /\ objCatalogFile[n].defined /\ objValueFile[objCatalogFile[n].rec] = v
          BY <1>2, <4>3, StoredValueFacts
        <5>2. Cached(t, n)
          BY <3>3, <5>1 DEF CatalogInv, DoomedRight
        <5> QED
          BY <1>0, <1>2, <4>3, <5>2, TouchFacts
      <4> QED
        BY <4>1, <4>2, <4>3
    <3> QED
      BY <3>2, <3>3
  <2>2. CASE ~(u = s /\ m = n)
    <3>1. objects'[u][m] = objects[u][m] /\ Cached(u, m)
      BY <1>5, <2>2, PutOthers
    <3>2. CASE Doomed(t, v)
      <4>1. u = t /\ Deleted(t, m)
        BY <1>5, <3>1, <3>2 DEF CatalogInv, DoomedRight
      <4> QED
        BY <1>5, <3>1, <4>1 DEF Deleted
    <3>3. CASE ~Doomed(t, v)
      BY <1>1, <1>2, <1>5, <2>2, <3>1, <3>3, OldValueFacts
    <3> QED
      BY <3>2, <3>3
  <2> QED
    BY <2>1, <2>2
<1>6. ASSUME NEW m \in Name, NEW x \in Record, Live(m, x)', x.defined, objValueFile'[x.rec] = v
      PROVE  Cached(t, m)' /\ (mustAbort'[t] \/ Early(t, m)')
  <2>1. Live(m, x) /\ objValueFile[x.rec] = v
    BY <1>6, PutFacts
  <2>2. Cached(s, n) /\ e = Absent => m # n
    BY <1>0, <1>2, <2>1, LiveFacts
  <2>3. CASE Doomed(t, v)
    <3>1. Cached(t, m) /\ (mustAbort[t] \/ Early(t, m))
      BY <1>6, <2>1, <2>3 DEF CatalogInv, DoomedRight
    <3> QED
      BY <2>2, <3>1, PutFacts
  <2>4. CASE ~Doomed(t, v)
    <3>0. t = s /\ v = OldValue(s, n) /\ IsObjectName(s, n)
      BY <1>1, <2>4
    <3>1. m = n /\ t = s
      BY <1>2, <1>6, <2>1, <3>0, OldValueFacts
    <3>2. e # Absent
      BY <2>2, <3>1, PutOthers
    <3> QED
      BY <1>2, <3>1, <3>2, PutFacts, ActiveEarly DEF Active
  <2> QED
    BY <2>3, <2>4
<1>7. ASSUME NEW m \in Name, NEW x \in Record, Stored(m, x)', x.defined, saved'.values[x.rec] = v
      PROVE  Cached(t, m)' \/ Holds(t, m)'
  <2>1. Stored(m, x) /\ saved.values[x.rec] = v
    BY <1>7, PutFacts
  <2>2. CASE Doomed(t, v)
    <3>1. Cached(t, m) \/ Holds(t, m)
      BY <1>7, <2>1, <2>2 DEF CatalogInv, DoomedRight
    <3>2. CASE t = s /\ m = n /\ e = Absent
      <4>1. objCatalogFile[n] = Absent /\ saved.objects[n] # Absent
        BY <1>2, <2>1, <3>2, PutOthers DEF Stored
      <4>2. \E u \in Session : Holds(u, n)
        BY <4>1 DEF CatalogInv, RecordInv, UnlockedCommitted
      <4> QED
        BY <1>0, <1>2, <3>2, <4>2, TouchFacts, PutFacts
    <3>3. CASE ~(t = s /\ m = n /\ e = Absent)
      BY <3>1, <3>3, PutFacts
    <3> QED
      BY <3>2, <3>3
  <2>3. CASE ~Doomed(t, v)
    <3>1. t = s /\ (m = n \/ Holds(s, m))
      BY <1>1, <1>2, <1>7, <2>1, <2>3, OldValueFacts
    <3>2. e = Absent => m # n
      BY <1>1, <1>2, <1>7, <2>1, <2>3, OldValueFacts, AbsentIsNothing DEF PutStep
    <3> QED
      BY <3>1, <3>2, PutFacts
  <2> QED
    BY <2>2, <2>3
<1> QED
  BY <1>4, <1>5, <1>6, <1>7

LEMMA PutFrame ==
    ASSUME TypeOK, ~SharedObjects, NEW s \in Session, NEW n \in Name, NEW e,
           Running(s), MayTouch(s, n), PutEntry(s, n, e), Creates(s),
           UNCHANGED <<objCatalogFile, objValueFile, saved, phase, todo, locks, mustAbort, pending>>,
           \/ e = Absent /\ Cached(s, n) /\ objects[s][n].state = "EntryInsert"
           \/ e \in Entry /\ PutFits(s, n, e),
           \/ UNCHANGED drops
           \/ /\ drops' = [drops EXCEPT ![s] = @ \cup ({OldValue(s, n)} \ {NoValue})]
              /\ IsObjectName(s, n)
              /\ e = Absent \/ e.value # OldValue(s, n)
    PROVE  PutStep(s, n, e)
<1>1. \A t \in Session \ {s} : ~Touches(t, n)
  BY DEF MayTouch
<1>2. \A t \in Session : \A m \in Name :
         objects'[t][m] = IF t = s /\ m = n THEN e ELSE objects[t][m]
  BY DEF PutEntry, TypeOK
<1>3. \A t \in Session \ {s} : objects'[t] = objects[t]
  BY DEF PutEntry, TypeOK
<1>4. /\ \A t \in Session \ {s} : drops'[t] = drops[t]
      /\ \A v \in drops'[s] : \/ v \in drops[s]
                              \/ /\ v = OldValue(s, n) /\ IsObjectName(s, n)
                                 /\ e = Absent \/ e.value # v
  BY DEF TypeOK
<1>5. QuietStep(s)
  BY <1>3, <1>4 DEF QuietStep, Holds, ValueLocked
<1>6. \A m \in Name : Cached(s, m)' => Cached(s, m) \/ MayTouch(s, m)
  BY <1>2 DEF Cached
<1>7. CacheCommand(s)
  BY <1>5, <1>6 DEF CacheCommand
<1> QED
  BY <1>1, <1>2, <1>4, <1>7 DEF PutStep

LEMMA PutRecords ==
    ASSUME TypeOK, TypeOK', ~SharedObjects, CatalogInv,
           NEW s \in Session, NEW n \in Name, NEW e, PutStep(s, n, e)
    PROVE  RecordInv' /\ EntriesRight' /\ DoomedRight'
<1>1. RecordInv'
  BY CommandRecords DEF CatalogInv, PutStep
<1> QED
  BY <1>1, PutEntries, PutDoomed

(* An object that is not cached, or is a new one, or one of the files.      *)
LEMMA ActiveEntry ==
    ASSUME CatalogInv, NEW s \in Session, Running(s), NEW n \in Name, Cached(s, n)
    PROVE  LET e == objects[s][n]
               there == objCatalogFile[n]
           IN  /\ e \in Entry
               /\ e.state = "EntryInsert" => e.rec = NoValue
               /\ e.rec # NoValue => there # Absent /\ there.rec = e.rec
               /\ there = Absent <=> e.state = "EntryInsert"
               /\ e.value # NoValue => e.value <= Len(made)
BY ActiveEarly, TypeFacts DEF Running, CatalogInv, EntriesRight, EntryRight, EntryValueRight

LEMMA CommandStep ==
    ASSUME TypeOK, TypeOK', ~SharedObjects, CatalogInv, NEW s \in Session, NEW n \in Name,
           \/ \E t \in Type : \E defined \in BOOLEAN : InsertObject(s, n, t, defined)
           \/ UpdateObject(s, n) \/ ModifyObject(s, n)
           \/ DeleteObject(s, n) \/ KillCached(s, n)
    PROVE  \E e : PutStep(s, n, e)
<1> DEFINE before == objects[s][n]
           there == objCatalogFile[n]
<1> USE DEF dbVars, txnVars
<1>1. ASSUME NEW t \in Type, NEW defined \in BOOLEAN, InsertObject(s, n, t, defined)
      PROVE  \E e : PutStep(s, n, e)
  <2> DEFINE e == [state |-> IF Cached(s, n) THEN "EntryUpdate" ELSE "EntryInsert",
                   type |-> t, rec |-> NoValue,
                   value |-> IF defined THEN Latest ELSE NoValue]
  <2>1. /\ Running(s) /\ MayTouch(s, n) /\ PutEntry(s, n, e) /\ ~IsObjectName(s, n)
        /\ IF defined THEN NewValue(s, t) ELSE UNCHANGED <<made, created>>
        /\ UNCHANGED <<objCatalogFile, objValueFile, saved, phase, todo, locks, mustAbort, pending>>
        /\ UNCHANGED drops
    BY <1>1 DEF InsertObject
  <2>2. Creates(s)
    BY <2>1 DEF Creates
  <2>3. defined => Latest \in ValueId
    BY <2>1, NewValueFacts
  <2>4. e \in Entry
    BY <2>3 DEF Entry, State
  <2>5. Cached(s, n) => before.state = "EntryDelete" /\ there # Absent
    BY <2>1, ActiveEntry DEF IsObjectName
  <2>6. ~Cached(s, n) => there = Absent
    BY <2>1 DEF IsObjectName
  <2>7. PutFits(s, n, e)
    BY <2>1, <2>5, <2>6 DEF PutFits
  <2>8. PutStep(s, n, e)
    BY <2>1, <2>2, <2>4, <2>7, PutFrame
  <2> QED
    BY <2>8
<1>2. ASSUME UpdateObject(s, n) PROVE \E e : PutStep(s, n, e)
  <2> DEFINE t == IF Cached(s, n) THEN before.type ELSE there.type
             e == IF Cached(s, n) THEN [before EXCEPT !.value = Latest] ELSE UpdateEntry(n, Latest)
  <2>1. /\ Running(s) /\ MayTouch(s, n) /\ PutEntry(s, n, e) /\ IsObjectName(s, n)
        /\ NewValue(s, t)
        /\ UNCHANGED <<objCatalogFile, objValueFile, saved, phase, todo, locks, mustAbort, pending>>
        /\ drops' = [drops EXCEPT ![s] = @ \cup ({OldValue(s, n)} \ {NoValue})]
    BY <1>2 DEF UpdateObject
  <2>2. Cached(s, n) => /\ before \in Entry /\ before.state # "EntryDelete"
                        /\ before.state = "EntryInsert" => before.rec = NoValue
                        /\ before.rec # NoValue => there # Absent /\ there.rec = before.rec
                        /\ there = Absent <=> before.state = "EntryInsert"
    BY <2>1, ActiveEntry DEF IsObjectName
  <2>3. ~Cached(s, n) => there # Absent /\ there \in Record
    BY <2>1, KnownObjects DEF IsObjectName
  <2>4. t \in Type
    BY <2>2, <2>3, EntryFields, RecordFields
  <2>5. Latest \in ValueId /\ Latest = Len(made) + 1 /\ Len(made) \in Nat
    BY <2>1, <2>4, NewValueFacts, TypeFacts
  <2>6. e \in Entry /\ e.value = Latest /\ e.type = t /\ e.state # "EntryDelete"
    BY <2>2, <2>3, <2>5, UpdateEntries DEF UpdateEntry, Entry
  <2>7. /\ e.state = "EntryInsert" => e.rec = NoValue
        /\ e.rec # NoValue => there # Absent /\ there.rec = e.rec
        /\ there = Absent <=> e.state = "EntryInsert"
    BY <2>2, <2>3 DEF UpdateEntry, Entry
  <2>8. PutFits(s, n, e)
    BY <2>1, <2>6, <2>7 DEF PutFits
  <2>9. OldValue(s, n) # NoValue => OldValue(s, n) <= Len(made)
    BY <2>1, OldValueFacts DEF Running, Active, MayTouch
  <2>10. OldValue(s, n) # Latest
    BY <2>5, <2>9, Numbers
  <2>11. PutStep(s, n, e)
    <3>1. Creates(s)
      BY <2>1, <2>4 DEF Creates
    <3> QED
      BY <2>1, <2>6, <2>8, <2>10, <3>1, PutFrame
  <2> QED
    BY <2>11
<1>3. ASSUME ModifyObject(s, n) PROVE \E e : PutStep(s, n, e)
  <2> DEFINE e == UpdateEntry(n, StoredValue(n))
  <2>1. /\ Running(s) /\ MayTouch(s, n) /\ PutEntry(s, n, e) /\ IsObjectName(s, n)
        /\ ~Cached(s, n) /\ StoredValue(n) # NoValue /\ UNCHANGED <<made, created, drops>>
        /\ UNCHANGED <<objCatalogFile, objValueFile, saved, phase, todo, locks, mustAbort, pending>>
    BY <1>3 DEF ModifyObject
  <2>2. there # Absent /\ there \in Record /\ StoredValue(n) \in ValueId
    BY <2>1, KnownObjects DEF IsObjectName
  <2>3. e \in Entry
    BY <2>2, UpdateEntries
  <2>4. PutFits(s, n, e)
    BY <2>1, <2>2 DEF PutFits, UpdateEntry
  <2>5. PutStep(s, n, e)
    BY <2>1, <2>3, <2>4, PutFrame DEF Creates
  <2> QED
    BY <2>5
<1>4. ASSUME DeleteObject(s, n) \/ KillCached(s, n), Cached(s, n) PROVE \E e : PutStep(s, n, e)
  <2>1. /\ Running(s) /\ MayTouch(s, n) /\ IsObjectName(s, n) /\ UNCHANGED <<made, created>>
        /\ UNCHANGED <<objCatalogFile, objValueFile, saved, phase, todo, locks, mustAbort, pending>>
        /\ PutEntry(s, n, IF before.state = "EntryInsert" THEN Absent
                          ELSE [before EXCEPT !.state = "EntryDelete"])
    BY <1>4 DEF DeleteObject, KillCached
  <2>2. /\ before \in Entry /\ before.state # "EntryDelete"
        /\ before.rec # NoValue => there # Absent /\ there.rec = before.rec
        /\ there = Absent <=> before.state = "EntryInsert"
    BY <1>4, <2>1, ActiveEntry DEF IsObjectName
  <2>3. CASE before.state = "EntryInsert"
    <3>1. \/ UNCHANGED drops
          \/ drops' = [drops EXCEPT ![s] = @ \cup ({OldValue(s, n)} \ {NoValue})]
      BY <1>4, <2>3 DEF DeleteObject, KillCached, OldValue
    <3>2. PutStep(s, n, Absent)
      BY <1>4, <2>1, <2>3, <3>1, PutFrame DEF Creates
    <3> QED
      BY <3>2
  <2>4. CASE before.state # "EntryInsert"
    <3> DEFINE e == [before EXCEPT !.state = "EntryDelete"]
    <3>1. UNCHANGED drops
      BY <1>4, <2>4 DEF DeleteObject, KillCached
    <3>2. e \in Entry /\ e.state = "EntryDelete" /\ e.rec = before.rec /\ e.value = before.value
          /\ e.type = before.type
      BY <2>2 DEF Entry, State
    <3>3. PutFits(s, n, e)
      BY <1>4, <2>1, <2>2, <2>4, <3>2 DEF PutFits
    <3>4. PutStep(s, n, e)
      BY <2>1, <2>4, <3>1, <3>2, <3>3, PutFrame DEF Creates
    <3> QED
      BY <3>4
  <2> QED
    BY <2>3, <2>4
<1>5. ASSUME DeleteObject(s, n), ~Cached(s, n) PROVE \E e : PutStep(s, n, e)
  <2> DEFINE e == [state |-> "EntryDelete", value |-> StoredValue(n),
                   type |-> objCatalogFile[n].type, rec |-> NoValue]
  <2>1. /\ Running(s) /\ MayTouch(s, n) /\ PutEntry(s, n, e) /\ IsObjectName(s, n)
        /\ UNCHANGED <<made, created, drops>>
        /\ UNCHANGED <<objCatalogFile, objValueFile, saved, phase, todo, locks, mustAbort, pending>>
    BY <1>5 DEF DeleteObject
  <2>2. there # Absent /\ there \in Record /\ StoredValue(n) \in ValueId \cup {NoValue}
    BY <1>5, <2>1, KnownObjects DEF IsObjectName
  <2>3. e \in Entry
    BY <2>2, RecordFields DEF Entry, State
  <2>4. PutFits(s, n, e)
    BY <1>5, <2>1, <2>2 DEF PutFits
  <2>5. PutStep(s, n, e)
    BY <2>1, <2>3, <2>4, PutFrame DEF Creates
  <2> QED
    BY <2>5
<1>6. KillCached(s, n) => Cached(s, n)
  BY DEF KillCached
<1> QED
  BY <1>1, <1>2, <1>3, <1>4, <1>5, <1>6

(* A cached object is renamed only if the transaction has created it.       *)
LEMMA RenamedEntry ==
    ASSUME TypeOK, TypeOK', ExclusiveUse, CatalogInv,
           NEW s \in Session, NEW old \in Name, NEW new \in Name, RenameCached(s, old, new)
    PROVE  /\ Running(s) /\ old # new /\ Cached(s, old) /\ ~Cached(s, new)
           /\ objects[s][old].state = "EntryInsert"
           /\ objCatalogFile[old] = Absent /\ objCatalogFile[new] = Absent
           /\ \A t \in Session \ {s} : ~Touches(t, old) /\ ~Touches(t, new)
           /\ CacheCommand(s)
           /\ UNCHANGED <<made, created, drops>>
           /\ objects'[s][new] = objects[s][old] /\ objects'[s][old] = Absent
           /\ \A t \in Session : \A m \in Name : t # s \/ m \notin {old, new} =>
                 objects'[t][m] = objects[t][m]
<1>1. /\ RenameAllowed(s, old, new) /\ Cached(s, old)
      /\ objects' = [objects EXCEPT ![s][new] = objects[s][old], ![s][old] = Absent]
      /\ UNCHANGED <<dbVars, types, txnVars>>
  BY DEF RenameCached
<1>2. phase[s] # "none"
  BY <1>1 DEF CatalogInv, EntriesRight
<1>3. Running(s) /\ Touches(s, old)
  BY <1>1, <1>2, TouchFacts DEF RenameAllowed, CatalogInv
<1>4. /\ IsObjectName(s, old) /\ ~IsObjectName(s, new)
      /\ MayTouch(s, old) /\ MayTouch(s, new)
  BY <1>1 DEF RenameAllowed
<1>5. old # new
  BY <1>4
<1>6. ~Touches(s, new) /\ objects[s][old].state = "EntryInsert"
  <2>1. {n \in {old, new} : Touches(s, n)} # {}
    BY <1>3
  <2>2. {n \in {old, new} : Touches(s, n)} = {old} /\ objects[s][old].state = "EntryInsert"
    BY <1>1, <1>2, <2>1 DEF RenameAllowed, ExclusiveUse
  <2> QED
    BY <1>5, <2>2
<1>7. ~Cached(s, new) /\ objCatalogFile[new] = Absent
  BY <1>4, <1>6, TouchFacts DEF IsObjectName, CatalogInv
<1>8. objCatalogFile[old] = Absent
  BY <1>1, <1>3, <1>6, ActiveEntry
<1>9. \A t \in Session \ {s} : ~Touches(t, old) /\ ~Touches(t, new)
  BY <1>4 DEF MayTouch, ExclusiveUse
<1>10. /\ objects'[s][new] = objects[s][old] /\ objects'[s][old] = Absent
       /\ \A t \in Session : \A m \in Name : t # s \/ m \notin {old, new} =>
             objects'[t][m] = objects[t][m]
       /\ \A t \in Session \ {s} : objects'[t] = objects[t]
  BY <1>1, <1>5 DEF TypeOK
<1>11. CacheCommand(s)
  <2>1. QuietStep(s)
    BY <1>1, <1>10 DEF QuietStep, Creates, dbVars, txnVars, Holds, ValueLocked
  <2>2. \A n \in Name : Cached(s, n)' => Cached(s, n) \/ MayTouch(s, n)
    BY <1>4, <1>10 DEF Cached
  <2> QED
    BY <1>1, <1>3, <2>1, <2>2 DEF CacheCommand, dbVars, txnVars
<1> QED
  BY <1>1, <1>3, <1>5, <1>6, <1>7, <1>8, <1>9, <1>10, <1>11 DEF dbVars, txnVars

LEMMA RenameEntries ==
    ASSUME TypeOK, TypeOK', ExclusiveUse, CatalogInv,
           NEW s \in Session, NEW old \in Name, NEW new \in Name, RenameCached(s, old, new)
    PROVE  RecordInv' /\ EntriesRight' /\ DoomedRight'
<1> DEFINE e == objects[s][old]
<1>0. TypeOK /\ RecordInv
  BY DEF CatalogInv
<1>1. /\ Running(s) /\ old # new /\ Cached(s, old) /\ ~Cached(s, new) /\ e.state = "EntryInsert"
      /\ objCatalogFile[old] = Absent /\ objCatalogFile[new] = Absent
      /\ \A t \in Session \ {s} : ~Touches(t, old) /\ ~Touches(t, new)
      /\ CacheCommand(s)
      /\ UNCHANGED <<made, created, drops>>
  BY RenamedEntry
<1>2. /\ objects'[s][new] = e /\ objects'[s][old] = Absent
      /\ \A t \in Session : \A m \in Name : t # s \/ m \notin {old, new} =>
            objects'[t][m] = objects[t][m]
  BY RenamedEntry
<1>3. UNCHANGED <<locks, phase, todo, mustAbort, pending, objCatalogFile, objValueFile, saved>>
  BY <1>1 DEF CacheCommand, QuietStep
<1>4. /\ \A t \in Session : \A m \in Name :
            /\ Early(t, m)' <=> Early(t, m)
            /\ Late(t, m)' <=> Late(t, m)
            /\ Holds(t, m)' <=> Holds(t, m)
      /\ \A m \in Name : /\ \A x : Live(m, x)' <=> Live(m, x)
                         /\ \A x : Stored(m, x)' <=> Stored(m, x)
                         /\ StoredValue(m)' = StoredValue(m)
  BY <1>3 DEF Early, Late, Holds, Live, Inserts, Stored, StoredValue
<1>5. ASSUME NEW t \in Session, NEW m \in Name, Cached(t, m)'
      PROVE  \/ t = s /\ m = new
             \/ /\ ~(t = s /\ m \in {old, new})
                /\ Cached(t, m) /\ objects'[t][m] = objects[t][m]
  BY <1>2, <1>5 DEF Cached
<1>6. \A t \in Session : \A m \in Name : Cached(t, m) /\ m # old => m # new
  <2> SUFFICES ASSUME NEW t \in Session, Cached(t, new) PROVE FALSE
    OBVIOUS
  <2> QED
    BY <1>0, <1>1, TouchFacts
<1>7. \A t \in Session : \A m \in Name : Cached(t, m) /\ ~(t = s /\ m = old) => m # old
  BY <1>0, <1>1, TouchFacts
<1>8. RecordInv'
  BY <1>0, <1>1, CommandRecords DEF ExclusiveUse
<1>9. phase[s] = "active" /\ EntryRight(s, old) /\ EntryValueRight(s, old)
      /\ (\A m \in Name : Early(s, m) /\ ~Late(s, m))
  BY <1>1, ActiveEarly DEF CatalogInv, EntriesRight, Running
<1>10. e.value # NoValue =>
          /\ e.value \in created[s]
          /\ e.value <= Len(made) /\ made[e.value] = e.type
          /\ \A t \in Session \ {s} : e.value \notin created[t]
          /\ \A t \in Session : \A m \in Name \ {old} :
                Cached(t, m) => objects[t][m].value # e.value
          /\ \A r \in ValueId : objValueFile[r] # e.value
          /\ \A m \in Name : \A x \in Record : Live(m, x) => x.rec # e.value
  BY <1>1, <1>9 DEF EntryRight, EntryValueRight
<1>11. EntriesRight'
  <2> SUFFICES ASSUME NEW t \in Session, NEW m \in Name, Cached(t, m)'
               PROVE  /\ phase'[t] # "none"
                      /\ EntryRight(t, m)' /\ WrittenRight(t, m)' /\ EntryValueRight(t, m)'
    BY DEF EntriesRight
  <2>1. CASE t = s /\ m = new
    <3>1. objects'[s][new] = e /\ phase'[s] = "active" /\ objCatalogFile'[new] = Absent
          /\ Early(s, new)' /\ ~Late(s, new)'
      BY <1>1, <1>2, <1>3, <1>4, <1>9
    <3>2. EntryRight(s, new)'
      BY <1>1, <1>9, <3>1 DEF EntryRight
    <3>3. WrittenRight(s, new)'
      BY <3>1 DEF WrittenRight
    <3>4. \A u \in Session : \A k \in Name \ {new} : Cached(u, k)' /\ e.value # NoValue =>
             objects'[u][k].value # e.value
      <4> SUFFICES ASSUME NEW u \in Session, NEW k \in Name \ {new}, Cached(u, k)',
                          e.value # NoValue
                   PROVE  objects'[u][k].value # e.value
        OBVIOUS
      <4>1. ~(u = s /\ k = old) /\ Cached(u, k) /\ objects'[u][k] = objects[u][k]
        BY <1>5
      <4> QED
        BY <1>7, <1>10, <4>1
    <3>5. EntryValueRight(s, new)'
      BY <1>1, <1>3, <1>4, <1>10, <3>1, <3>4 DEF EntryValueRight
    <3> QED
      BY <2>1, <3>1, <3>2, <3>3, <3>5
  <2>2. CASE ~(t = s /\ m = new)
    <3>1. Cached(t, m) /\ objects'[t][m] = objects[t][m] /\ ~(t = s /\ m = old)
      BY <1>5, <2>2
    <3>2. phase[t] # "none" /\ EntryRight(t, m) /\ WrittenRight(t, m) /\ EntryValueRight(t, m)
      BY <3>1 DEF CatalogInv, EntriesRight
    <3>3. EntryRight(t, m)'
      BY <1>3, <1>4, <3>1, <3>2 DEF EntryRight
    <3>4. WrittenRight(t, m)'
      BY <1>3, <1>4, <3>1, <3>2 DEF WrittenRight
    <3>5. \A u \in Session : \A k \in Name \ {m} : objects[t][m].value # NoValue /\ Cached(u, k)' =>
             objects'[u][k].value # objects[t][m].value
      <4> SUFFICES ASSUME NEW u \in Session, NEW k \in Name \ {m}, Cached(u, k)',
                          objects[t][m].value # NoValue
                   PROVE  objects'[u][k].value # objects[t][m].value
        OBVIOUS
      <4>1. CASE u = s /\ k = new
        BY <1>1, <1>2, <1>7, <3>1, <3>2, <4>1 DEF EntryValueRight
      <4>2. CASE ~(u = s /\ k = new)
        BY <1>5, <3>2, <4>2 DEF EntryValueRight
      <4> QED
        BY <4>1, <4>2
    <3>6. EntryValueRight(t, m)'
      BY <1>1, <1>3, <1>4, <3>1, <3>2, <3>5 DEF EntryValueRight
    <3> QED
      BY <1>3, <3>2, <3>3, <3>4, <3>6
  <2> QED
    BY <2>1, <2>2
<1>12. DoomedRight'
  <2>1. \A t \in Session : \A m \in Name : Deleted(t, m)' <=> Deleted(t, m)
    <3> SUFFICES ASSUME NEW t \in Session, NEW m \in Name PROVE Deleted(t, m)' <=> Deleted(t, m)
      OBVIOUS
    <3>1. CASE t = s /\ m \in {old, new}
      BY <1>1, <1>2, <3>1 DEF Deleted, Cached
    <3>2. CASE ~(t = s /\ m \in {old, new})
      BY <1>2, <3>2 DEF Deleted, Cached
    <3> QED
      BY <3>1, <3>2
  <2>2. \A t \in Session : \A v : Doomed(t, v)' => Doomed(t, v)
    <3> SUFFICES ASSUME NEW t \in Session, NEW v, Doomed(t, v)' PROVE Doomed(t, v)
      OBVIOUS
    <3>1. CASE v \in drops'[t]
      BY <1>1, <3>1 DEF Doomed
    <3>2. CASE v \notin drops'[t]
      <4>1. PICK m \in Name : Deleted(t, m)' /\ v = objects'[t][m].value
        BY <3>2 DEF Doomed
      <4>2. ~(t = s /\ m \in {old, new})
        BY <1>1, <1>2, <2>1, <4>1 DEF Deleted, Cached
      <4> QED
        BY <1>2, <2>1, <4>1, <4>2 DEF Doomed
    <3> QED
      BY <3>1, <3>2
  <2> SUFFICES ASSUME NEW t \in Session, NEW v \in ValueId, Doomed(t, v)'
               PROVE  /\ v <= Len(made')
                      /\ \A u \in Session \ {t} : v \notin created'[u]
                      /\ \A u \in Session : \A m \in Name :
                            Cached(u, m)' /\ objects'[u][m].value = v => u = t /\ Deleted(t, m)'
                      /\ \A m \in Name : \A x \in Record :
                            /\ Live(m, x)' /\ x.defined /\ objValueFile'[x.rec] = v =>
                                  Cached(t, m)' /\ (mustAbort'[t] \/ Early(t, m)')
                            /\ Stored(m, x)' /\ x.defined /\ saved'.values[x.rec] = v =>
                                  Cached(t, m)' \/ Holds(t, m)'
    BY DEF DoomedRight
  <2>3. Doomed(t, v)
    BY <2>2
  <2>4. v <= Len(made') /\ \A u \in Session \ {t} : v \notin created'[u]
    BY <1>1, <2>3 DEF CatalogInv, DoomedRight
  <2>5. ASSUME NEW u \in Session, NEW m \in Name, Cached(u, m)', objects'[u][m].value = v
        PROVE  u = t /\ Deleted(t, m)'
    <3>1. CASE u = s /\ m = new
      <4>1. Deleted(t, old) /\ s = t
        BY <1>1, <1>2, <2>3, <2>5, <3>1 DEF CatalogInv, DoomedRight
      <4> QED
        BY <1>1, <4>1 DEF Deleted
    <3>2. CASE ~(u = s /\ m = new)
      <4>1. Cached(u, m) /\ objects[u][m].value = v
        BY <1>5, <2>5, <3>2
      <4> QED
        BY <2>1, <2>3, <4>1 DEF CatalogInv, DoomedRight
    <3> QED
      BY <3>1, <3>2
  <2>6. \A m \in Name : t # s \/ m # old => (Cached(t, m) => Cached(t, m)')
    BY <1>1, <1>2 DEF Cached
  <2>7. ASSUME NEW m \in Name, NEW x \in Record, Live(m, x), x.defined, objValueFile[x.rec] = v
        PROVE  Cached(t, m)' /\ (mustAbort[t] \/ Early(t, m))
    <3>1. Cached(t, m) /\ (mustAbort[t] \/ Early(t, m))
      BY <2>3, <2>7 DEF CatalogInv, DoomedRight
    <3>2. m # old
      BY <1>0, <1>1, <2>7, LiveFacts
    <3> QED
      BY <2>6, <3>1, <3>2
  <2>8. ASSUME NEW m \in Name, NEW x \in Record, Stored(m, x), x.defined, saved.values[x.rec] = v
        PROVE  Cached(t, m)' \/ Holds(t, m)
    <3>1. Cached(t, m) \/ Holds(t, m)
      BY <2>3, <2>8 DEF CatalogInv, DoomedRight
    <3>2. CASE t = s /\ m = old
      <4>1. objCatalogFile[old] # saved.objects[old]
        BY <1>1, <2>8, <3>2 DEF Stored
      <4>2. PICK u \in Session : Holds(u, old)
        BY <1>0, <4>1 DEF RecordInv, UnlockedCommitted
      <4> QED
        BY <1>0, <1>1, <3>2, <4>2, TouchFacts
    <3>3. CASE ~(t = s /\ m = old)
      BY <2>6, <3>1, <3>3
    <3> QED
      BY <3>2, <3>3
  <2> QED
    BY <1>3, <1>4, <2>4, <2>5, <2>7, <2>8
<1> QED
  BY <1>8, <1>11, <1>12
-----------------------------------------------------------------------------
(* Steps that change neither files nor entries.                             *)
IdleStep(s) ==
    /\ QuietStep(s) /\ UNCHANGED <<made, created, objects>>
    /\ IdleRight(s)'
    /\ pending'[s] = Absent \/ PendingFits(s, pending[s])'
    /\ \A n \in Name : Touches(s, n)' => Touches(s, n) \/ MayTouch(s, n)
    /\ \A n \in Name : Inserts(s, n)' <=> Inserts(s, n) /\ pending'[s] = pending[s]
    /\ mustAbort[s] => mustAbort'[s]
    /\ \A n \in Name : Cached(s, n) =>
          /\ phase'[s] # "none"
          /\ Early(s, n)' => Early(s, n)
          /\ mustAbort'[s] \/ ((Early(s, n)' <=> Early(s, n)) /\ (Late(s, n)' <=> Late(s, n)))
          /\ Late(s, n) /\ ~mustAbort[s] => Late(s, n)' /\ ~mustAbort'[s]
    /\ \A v \in ValueId : Doomed(s, v)' => Doomed(s, v)

LEMMA IdleEntries ==
    ASSUME TypeOK, TypeOK', ~SharedObjects, CatalogInv, NEW s \in Session, IdleStep(s)
    PROVE  RecordInv' /\ EntriesRight' /\ DoomedRight'
<1>0. TypeOK /\ RecordInv /\ QuietStep(s) /\ UNCHANGED <<made, created, objects>>
  BY DEF CatalogInv, IdleStep
<1>1. RecordInv'
  BY <1>0, QuietRecords DEF IdleStep
<1>2. /\ objCatalogFile' = objCatalogFile /\ objValueFile' = objValueFile /\ saved' = saved
      /\ \A m \in Name : StoredValue(m)' = StoredValue(m)
      /\ \A m \in Name : \A x : Stored(m, x)' <=> Stored(m, x)
  BY <1>0 DEF QuietStep, StoredValue, Stored
<1>3. \A m \in Name : \A x : Live(m, x)' => Live(m, x)
  <2>1. \A t \in Session : \A m \in Name :
           Inserts(t, m)' => Inserts(t, m) /\ pending'[t] = pending[t]
    BY <1>0, QuietOthers DEF IdleStep, QuietStep
  <2> QED
    BY <1>2, <2>1 DEF Live
<1>4. \A t \in Session : \A m \in Name :
         /\ Cached(t, m)' <=> Cached(t, m)
         /\ Holds(t, m)' <=> Holds(t, m)
         /\ t # s => /\ (Early(t, m)' <=> Early(t, m)) /\ (Late(t, m)' <=> Late(t, m))
                     /\ phase'[t] = phase[t] /\ mustAbort'[t] = mustAbort[t]
  <2>1. \A t \in Session \ {s} :
           phase'[t] = phase[t] /\ todo'[t] = todo[t] /\ mustAbort'[t] = mustAbort[t]
    BY <1>0 DEF QuietStep
  <2>2. \A t \in Session : \A m \in Name : Holds(t, m)' <=> Holds(t, m)
    BY <1>0, QuietOthers DEF QuietStep
  <2> QED
    BY <1>0, <2>1, <2>2 DEF Cached, Early, Late
<1>5. ASSUME NEW t \in Session, NEW m \in Name, Cached(t, m)
      PROVE  /\ phase'[t] # "none"
             /\ Early(t, m)' => Early(t, m)
             /\ mustAbort'[t] \/ ((Early(t, m)' <=> Early(t, m)) /\ (Late(t, m)' <=> Late(t, m)))
             /\ Late(t, m) /\ ~mustAbort[t] => Late(t, m)' /\ ~mustAbort'[t]
             /\ mustAbort[t] => mustAbort'[t]
  <2>1. CASE t = s
    BY <1>5, <2>1 DEF IdleStep
  <2>2. CASE t # s
    BY <1>4, <1>5, <2>2 DEF CatalogInv, EntriesRight
  <2> QED
    BY <2>1, <2>2
<1>6. EntriesRight'
  <2> SUFFICES ASSUME NEW t \in Session, NEW m \in Name, Cached(t, m)'
               PROVE  EntryRight(t, m)' /\ WrittenRight(t, m)' /\ EntryValueRight(t, m)'
    BY <1>4, <1>5 DEF EntriesRight
  <2>1. Cached(t, m) /\ EntryRight(t, m) /\ WrittenRight(t, m) /\ EntryValueRight(t, m)
    BY <1>4 DEF CatalogInv, EntriesRight
  <2>2. EntryRight(t, m)'
    BY <1>0, <1>2, <1>4, <1>5, <2>1 DEF EntryRight
  <2>3. WrittenRight(t, m)'
    BY <1>0, <1>2, <1>5, <2>1 DEF WrittenRight
  <2>4. EntryValueRight(t, m)'
    BY <1>0, <1>2, <1>3, <1>4, <1>5, <2>1 DEF EntryValueRight
  <2> QED
    BY <2>2, <2>3, <2>4
<1>7. DoomedRight'
  <2>1. \A t \in Session : \A m \in Name : Deleted(t, m)' <=> Deleted(t, m)
    BY <1>0, <1>4 DEF Deleted
  <2>2. \A t \in Session : \A v \in ValueId : Doomed(t, v)' => Doomed(t, v)
    <3>1. \A t \in Session \ {s} : drops'[t] = drops[t]
      BY <1>0 DEF QuietStep
    <3>2. \A t \in Session \ {s} : \A v \in ValueId : Doomed(t, v)' => Doomed(t, v)
      BY <1>0, <2>1, <3>1 DEF Doomed
    <3> QED
      BY <3>2 DEF IdleStep
  <2> SUFFICES ASSUME NEW t \in Session, NEW v \in ValueId, Doomed(t, v)'
               PROVE  /\ v <= Len(made')
                      /\ \A u \in Session \ {t} : v \notin created'[u]
                      /\ \A u \in Session : \A m \in Name :
                            Cached(u, m)' /\ objects'[u][m].value = v => u = t /\ Deleted(t, m)'
                      /\ \A m \in Name : \A x \in Record :
                            /\ Live(m, x)' /\ x.defined /\ objValueFile'[x.rec] = v =>
                                  Cached(t, m)' /\ (mustAbort'[t] \/ Early(t, m)')
                            /\ Stored(m, x)' /\ x.defined /\ saved'.values[x.rec] = v =>
                                  Cached(t, m)' \/ Holds(t, m)'
    BY DEF DoomedRight
  <2>3. Doomed(t, v)
    BY <2>2
  <2>4. /\ v <= Len(made)
        /\ \A u \in Session \ {t} : v \notin created[u]
        /\ \A u \in Session : \A m \in Name :
              Cached(u, m) /\ objects[u][m].value = v => u = t /\ Deleted(t, m)
    BY <2>3 DEF CatalogInv, DoomedRight
  <2>5. \A m \in Name : \A x \in Record :
           /\ Live(m, x) /\ x.defined /\ objValueFile[x.rec] = v =>
                 Cached(t, m) /\ (mustAbort[t] \/ Early(t, m))
           /\ Stored(m, x) /\ x.defined /\ saved.values[x.rec] = v =>
                 Cached(t, m) \/ Holds(t, m)
    BY <2>3 DEF CatalogInv, DoomedRight
  <2>6. \A m \in Name : Cached(t, m) /\ (mustAbort[t] \/ Early(t, m)) =>
                            mustAbort'[t] \/ Early(t, m)'
    BY <1>5
  <2> QED
    BY <1>0, <1>2, <1>3, <1>4, <2>1, <2>4, <2>5, <2>6
<1> QED
  BY <1>1, <1>6, <1>7

(* How the iterations go by.                                                *)
LEMMA DoneFacts ==
    ASSUME TypeOK, NEW s \in Session, NEW e \in todo[s], Done(s, e),
           phase[s] \in {"types", "first", "second"}
    PROVE  /\ \A t \in Session \ {s} : phase'[t] = phase[t] /\ todo'[t] = todo[t]
           /\ phase'[s] \in {"types", "first", "second"}
           /\ phase[s] = "second" => phase'[s] = "second"
           /\ phase[s] # "second" => \A n \in Name : Cached(s, n) => ~Late(s, n)'
           /\ phase[s] = "types" => \A n \in Name : Cached(s, n) => Early(s, n)'
           /\ phase[s] = "first" => \A n \in Name : Early(s, n)' <=> Early(s, n) /\ n # e
           /\ phase[s] = "second" => \A n \in Name : /\ ~Early(s, n)'
                                                     /\ Late(s, n)' <=> Late(s, n) \/ n = e
<1>1. CASE todo[s] = {e} /\ phase[s] # "second"
  <2>1. /\ phase' = [phase EXCEPT ![s] = IF @ = "types" THEN "first" ELSE "second"]
        /\ todo' = [todo EXCEPT ![s] = CachedNames(s)]
    BY <1>1 DEF Done
  <2>2. /\ phase'[s] = IF phase[s] = "types" THEN "first" ELSE "second"
        /\ todo'[s] = CachedNames(s)
        /\ \A t \in Session \ {s} : phase'[t] = phase[t] /\ todo'[t] = todo[t]
    BY <2>1 DEF TypeOK
  <2>3. \A n \in Name : Cached(s, n) => n \in todo'[s]
    BY <2>2 DEF CachedNames
  <2> QED
    BY <1>1, <2>2, <2>3 DEF Early, Late
<1>2. CASE ~(todo[s] = {e} /\ phase[s] # "second")
  <2>1. phase' = phase /\ todo' = [todo EXCEPT ![s] = @ \ {e}]
    BY <1>2 DEF Done
  <2>2. /\ phase' = phase /\ todo'[s] = todo[s] \ {e}
        /\ \A t \in Session \ {s} : todo'[t] = todo[t]
    BY <2>1 DEF TypeOK
  <2> QED
    BY <1>2, <2>2 DEF Early, Late
<1> QED
  BY <1>1, <1>2

(* In the iterations nothing is killed or renamed.                          *)
LEMMA NoPending ==
    ASSUME RecordInv, NEW s \in Session, phase[s] \notin {"none", "active"} \/ mustAbort[s]
    PROVE  pending[s] = Absent
BY DEF RecordInv, IdleInv, IdleRight

LEMMA WritesFacts ==
    ASSUME TypeOK, NEW s \in Session, NEW K, Writes(s, K)
    PROVE  /\ \A t \in Session \ {s} : locks'[t] = locks[t]
           /\ mustAbort[s] => locks' = locks
           /\ ~mustAbort[s] => Lock(s, K) /\ \A k \in K : Free(s, k)
BY DEF Writes, Lock, TypeOK

LEMMA IdleSteps ==
    ASSUME TypeOK, TypeOK', CachedTodo, ExclusiveUse, CatalogInv, NEW s \in Session,
           \/ BeginTransaction(s) \/ CommitTransaction(s)
           \/ \E t \in NamedType : InsertType(s, t) \/ DeleteType(s, t) \/ CleanUpType(s, t)
           \/ \E n \in Name : mustAbort[s] /\ (FirstIteration(s, n) \/ SecondIteration(s, n))
    PROVE  IdleStep(s)
<1>0. TypeOK /\ RecordInv /\ IdleRight(s)
  BY DEF CatalogInv, RecordInv, IdleInv
<1>1. ASSUME BeginTransaction(s) PROVE IdleStep(s)
  <2>1. /\ phase[s] = "none" /\ phase' = [phase EXCEPT ![s] = "active"] /\ pending[s] = Absent
        /\ UNCHANGED <<dbVars, cacheVars, todo, locks, mustAbort, created, drops, pending>>
    BY <1>1 DEF BeginTransaction
  <2>2. phase'[s] = "active" /\ \A t \in Session \ {s} : phase'[t] = phase[t]
    BY <2>1 DEF TypeOK
  <2>3. QuietStep(s)
    BY <2>1, <2>2 DEF QuietStep, Creates, Holds, ValueLocked, dbVars, cacheVars
  <2>4. \A n \in Name : ~Cached(s, n)
    BY <1>0, <2>1 DEF IdleRight
  <2>5. \A v \in ValueId : Doomed(s, v)' => Doomed(s, v)
    BY <2>1 DEF Doomed, Deleted, Cached, cacheVars
  <2>6. \A n \in Name : (Touches(s, n)' <=> Touches(s, n)) /\ (Inserts(s, n)' <=> Inserts(s, n))
    BY <2>1 DEF Touches, Cached, Holds, Inserts, cacheVars
  <2>7. IdleRight(s)'
    BY <2>1, <2>2 DEF IdleRight
  <2> QED
    BY <2>1, <2>3, <2>4, <2>5, <2>6, <2>7 DEF IdleStep, dbVars, cacheVars
<1>2. ASSUME CommitTransaction(s) PROVE IdleStep(s)
  <2> DEFINE none == {t \in NamedType : types[s][t] # Absent} = {}
  <2>1. /\ phase[s] = "active" /\ pending[s] = Absent
        /\ phase' = [phase EXCEPT ![s] = IF none THEN "first" ELSE "types"]
        /\ todo' = [todo EXCEPT ![s] = IF none THEN CachedNames(s)
                                       ELSE {t \in NamedType : types[s][t] # Absent}]
        /\ UNCHANGED <<dbVars, cacheVars, locks, mustAbort, created, drops, pending>>
    BY <1>2 DEF CommitTransaction
  <2>2. /\ phase'[s] = IF none THEN "first" ELSE "types"
        /\ none => todo'[s] = CachedNames(s)
        /\ \A t \in Session \ {s} : phase'[t] = phase[t] /\ todo'[t] = todo[t]
    BY <2>1 DEF TypeOK
  <2>3. QuietStep(s)
    BY <2>1, <2>2 DEF QuietStep, Creates, Holds, ValueLocked, dbVars, cacheVars
  <2>4. \A n \in Name : Cached(s, n) => /\ Early(s, n) /\ ~Late(s, n)
                                        /\ Early(s, n)' /\ ~Late(s, n)'
    BY <2>1, <2>2, ActiveEarly DEF Early, Late, CachedNames
  <2>5. \A v \in ValueId : Doomed(s, v)' => Doomed(s, v)
    BY <2>1 DEF Doomed, Deleted, Cached, cacheVars
  <2>6. \A n \in Name : (Touches(s, n)' <=> Touches(s, n)) /\ (Inserts(s, n)' <=> Inserts(s, n))
    BY <2>1 DEF Touches, Cached, Holds, Inserts, cacheVars
  <2>7. IdleRight(s)'
    BY <2>1, <2>2 DEF IdleRight
  <2> QED
    BY <2>1, <2>2, <2>3, <2>4, <2>5, <2>6, <2>7 DEF IdleStep, dbVars, cacheVars
<1>3. ASSUME NEW t \in NamedType, InsertType(s, t) \/ DeleteType(s, t) PROVE IdleStep(s)
  <2>1. Running(s) /\ UNCHANGED <<dbVars, objects, txnVars>>
    BY <1>3 DEF InsertType, DeleteType
  <2>2. QuietStep(s)
    BY <2>1 DEF QuietStep, Creates, Holds, ValueLocked, dbVars, txnVars
  <2>3. \A n \in Name : (Early(s, n)' <=> Early(s, n)) /\ (Late(s, n)' <=> Late(s, n))
    BY <2>1 DEF Early, Late, txnVars
  <2>4. \A v \in ValueId : Doomed(s, v)' => Doomed(s, v)
    BY <2>1 DEF Doomed, Deleted, Cached, txnVars
  <2>5. \A n \in Name : (Touches(s, n)' <=> Touches(s, n)) /\ (Inserts(s, n)' <=> Inserts(s, n))
    BY <2>1 DEF Touches, Cached, Holds, Inserts, txnVars
  <2>6. IdleRight(s)'
    BY <1>0, <2>1 DEF IdleRight, Cached, txnVars
  <2> QED
    BY <2>1, <2>2, <2>3, <2>4, <2>5, <2>6 DEF IdleStep, Running, dbVars, txnVars
<1>4. ASSUME NEW t \in NamedType, CleanUpType(s, t) PROVE IdleStep(s)
  <2>1. /\ phase[s] = "types" /\ t \in todo[s] /\ Done(s, t) /\ Writes(s, {<<"type", t>>})
        /\ UNCHANGED <<made, objCatalogFile, objValueFile, saved,
                       cacheVars, mustAbort, created, drops, pending>>
    BY <1>4 DEF CleanUpType
  <2>2. /\ \A u \in Session \ {s} : phase'[u] = phase[u] /\ todo'[u] = todo[u]
        /\ phase'[s] \in {"types", "first", "second"}
        /\ \A n \in Name : Cached(s, n) => Early(s, n)' /\ ~Late(s, n)'
    BY <2>1, DoneFacts
  <2>3. /\ \A u \in Session \ {s} : locks'[u] = locks[u]
        /\ locks' = locks \/ Lock(s, {<<"type", t>>})
    BY <2>1, WritesFacts
  <2>4. /\ \A n : Holds(s, n)' <=> Holds(s, n)
        /\ \A r : ValueLocked(s, r)' <=> ValueLocked(s, r)
    <3>1. CASE locks' = locks
      BY <3>1 DEF Holds, ValueLocked
    <3>2. CASE Lock(s, {<<"type", t>>})
      <4>1. /\ \A n : ObjectKey(n) \notin {<<"type", t>>}
            /\ \A r : <<"value", r>> \notin {<<"type", t>>}
        BY DEF ObjectKey
      <4> QED
        BY <3>2, <4>1, LockEffect
    <3> QED
      BY <2>3, <3>1, <3>2
  <2>5. QuietStep(s)
    BY <2>1, <2>2, <2>3, <2>4 DEF QuietStep, Creates, cacheVars
  <2>6. \A n \in Name : Early(s, n) /\ ~Late(s, n)
    BY <2>1 DEF Early, Late
  <2>7. \A v \in ValueId : Doomed(s, v)' => Doomed(s, v)
    BY <2>1 DEF Doomed, Deleted, Cached, cacheVars
  <2>8. pending[s] = Absent /\ pending'[s] = Absent
    BY <1>0, <2>1, NoPending
  <2>9. \A n \in Name : (Touches(s, n)' <=> Touches(s, n)) /\ (Inserts(s, n)' <=> Inserts(s, n))
    BY <2>1, <2>4 DEF Touches, Cached, Inserts, cacheVars
  <2>10. IdleRight(s)'
    BY <2>2, <2>8 DEF IdleRight
  <2> QED
    BY <2>1, <2>2, <2>5, <2>6, <2>7, <2>8, <2>9, <2>10 DEF IdleStep, cacheVars
<1>5. ASSUME NEW n \in Name, mustAbort[s], FirstIteration(s, n) \/ SecondIteration(s, n)
      PROVE  IdleStep(s)
  <2>1. /\ phase[s] \in {"first", "second"} /\ n \in todo[s] /\ Done(s, n)
        /\ \E K : Writes(s, K)
        /\ UNCHANGED <<made, objCatalogFile, objValueFile, saved, cacheVars, mustAbort,
                       created, pending>>
    BY <1>5 DEF FirstIteration, SecondIteration, NextNames
  <2>2. /\ \A u \in Session \ {s} : phase'[u] = phase[u] /\ todo'[u] = todo[u]
        /\ phase'[s] \in {"types", "first", "second"}
        /\ phase[s] = "second" => phase'[s] = "second"
        /\ \A m \in Name : Early(s, m)' => Early(s, m)
    BY <2>1, DoneFacts
  <2>3. locks' = locks
    BY <1>5, <2>1, WritesFacts
  <2>4. \A u \in Session \ {s} : drops'[u] = drops[u]
    BY <1>5 DEF FirstIteration, SecondIteration, TypeOK
  <2>5. QuietStep(s)
    BY <2>1, <2>2, <2>3, <2>4 DEF QuietStep, Creates, Holds, ValueLocked, cacheVars
  <2>6. \A v \in ValueId : v \in drops'[s] => Doomed(s, v)
    <3>1. CASE FirstIteration(s, n)
      BY <3>1 DEF FirstIteration, Doomed
    <3>2. CASE SecondIteration(s, n)
      <4>1. objects[s][n] # Absent
        BY <2>1 DEF CachedTodo, Cached
      <4>2. drops'[s] \subseteq drops[s] \cup
               (IF objects[s][n].state = "EntryDelete" THEN {objects[s][n].value} ELSE {})
        BY <3>2 DEF SecondIteration, TypeOK
      <4> QED
        BY <4>1, <4>2 DEF Doomed, Deleted, Cached
    <3> QED
      BY <1>5, <3>1, <3>2
  <2>7. \A v \in ValueId : Doomed(s, v)' => Doomed(s, v)
    <3>1. \A m \in Name : Deleted(s, m)' <=> Deleted(s, m)
      BY <2>1 DEF Deleted, Cached, cacheVars
    <3> QED
      BY <2>1, <2>6, <3>1 DEF Doomed, cacheVars
  <2>8. pending[s] = Absent /\ pending'[s] = Absent
    BY <1>0, <2>1, NoPending
  <2>9. \A m \in Name : (Touches(s, m)' <=> Touches(s, m)) /\ (Inserts(s, m)' <=> Inserts(s, m))
    BY <2>1, <2>3 DEF Touches, Cached, Holds, Inserts, cacheVars
  <2>10. IdleRight(s)'
    BY <2>2, <2>8 DEF IdleRight
  <2> QED
    BY <1>5, <2>1, <2>2, <2>5, <2>7, <2>8, <2>9, <2>10 DEF IdleStep, cacheVars
<1> QED
  BY <1>1, <1>2, <1>3, <1>4, <1>5

(* An object that is to be killed or renamed was read as it is now.         *)
LEMMA RequestStep ==
    ASSUME TypeOK, TypeOK', ExclusiveUse, CatalogInv, NEW s \in Session,
           NEW old \in Name, NEW new \in Name,
           (KillStored(s, old) /\ new = old) \/ RenameStored(s, old, new)
    PROVE  IdleStep(s)
<1>0. TypeOK /\ RecordInv /\ IdleRight(s)
  BY DEF CatalogInv, RecordInv, IdleInv
<1>1. PICK p \in Pending :
         /\ pending[s] = Absent /\ ~mustAbort[s]
         /\ phase[s] \in {"none", "active"}
         /\ pending' = [pending EXCEPT ![s] = p]
         /\ p.op \in {"kill", "delete"} /\ p.old = old /\ p.new = new
         /\ p.record = objCatalogFile[old] /\ objCatalogFile[old] # Absent
         /\ ~Cached(s, old) /\ ~Cached(s, new)
         /\ p.op = "kill" => old = new /\ phase[s] = "active"
         /\ p.op = "delete" => /\ old # new /\ objCatalogFile[new] = Absent
                               /\ ~Holds(s, old) /\ ~Holds(s, new)
         /\ MayTouch(s, old) /\ MayTouch(s, new)
         /\ UNCHANGED <<dbVars, cacheVars, phase, todo, locks, mustAbort, created, drops>>
  <2>1. CASE KillStored(s, old) /\ new = old
    <3> DEFINE p == [op |-> "kill", old |-> old, new |-> old, record |-> objCatalogFile[old]]
    <3>1. objCatalogFile[old] # Absent /\ objCatalogFile[old] \in Record
      BY <1>0, <2>1, TypeFacts DEF KillStored, IsObjectName
    <3>2. p \in Pending
      BY <3>1 DEF Pending
    <3>3. /\ Running(s) /\ MayTouch(s, old) /\ ~Cached(s, old)
          /\ pending' = [pending EXCEPT ![s] = p]
          /\ UNCHANGED <<dbVars, cacheVars, phase, todo, locks, mustAbort, created, drops>>
      BY <2>1 DEF KillStored
    <3> QED
      BY <2>1, <3>1, <3>2, <3>3 DEF Running
  <2>2. CASE RenameStored(s, old, new)
    <3> DEFINE p == [op |-> "delete", old |-> old, new |-> new, record |-> objCatalogFile[old]]
    <3>1. /\ RenameAllowed(s, old, new) /\ ~Cached(s, old)
          /\ pending' = [pending EXCEPT ![s] = p]
          /\ UNCHANGED <<dbVars, cacheVars, phase, todo, locks, mustAbort, created, drops>>
      BY <2>2 DEF RenameStored
    <3>2. objCatalogFile[old] # Absent /\ objCatalogFile[old] \in Record /\ old # new
      BY <1>0, <3>1, TypeFacts DEF RenameAllowed, IsObjectName
    <3>3. p \in Pending
      BY <3>2 DEF Pending
    <3>4. /\ pending[s] = Absent /\ MayTouch(s, old) /\ MayTouch(s, new)
          /\ phase[s] = "none" \/ Running(s)
          /\ ~IsObjectName(s, new)
      BY <3>1 DEF RenameAllowed
    <3>5. /\ ~Holds(s, old) /\ ~Holds(s, new) /\ ~Cached(s, new)
      <4>1. CASE phase[s] = "none"
        BY <1>0, <4>1 DEF IdleRight, Holds
      <4>2. CASE phase[s] # "none"
        <5>1. {n \in {old, new} : Touches(s, n)} = {}
          BY <3>1, <4>2 DEF RenameAllowed, ExclusiveUse
        <5>2. ~Touches(s, old) /\ ~Touches(s, new)
          BY <5>1
        <5> QED
          BY <1>0, <5>2, TouchFacts
      <4> QED
        BY <4>1, <4>2
    <3>6. objCatalogFile[new] = Absent
      BY <3>4, <3>5 DEF IsObjectName
    <3>7. ~mustAbort[s] /\ phase[s] \in {"none", "active"}
      BY <1>0, <3>4 DEF Running, IdleRight
    <3> QED
      BY <3>1, <3>2, <3>3, <3>4, <3>5, <3>6, <3>7
  <2> QED
    BY <2>1, <2>2
<1>2. pending'[s] = p /\ p # Absent /\ \A t \in Session \ {s} : pending'[t] = pending[t]
  BY <1>1, AbsentIsNothing DEF TypeOK
<1>3. QuietStep(s)
  BY <1>1, <1>2 DEF QuietStep, Creates, Holds, ValueLocked, dbVars, cacheVars
<1>4. \A n \in Name : /\ Cached(s, n)' <=> Cached(s, n)
                      /\ Holds(s, n)' <=> Holds(s, n)
                      /\ Early(s, n)' <=> Early(s, n)
                      /\ Late(s, n)' <=> Late(s, n)
  BY <1>1 DEF Cached, Holds, Early, Late, cacheVars
<1>5. PendingFits(s, p)
  BY <1>1 DEF PendingFits
<1>6. PendingFits(s, pending[s])'
  BY <1>1, <1>2, <1>4, <1>5 DEF PendingFits, dbVars
<1>7. \A n \in Name : Touches(s, n)' => Touches(s, n) \/ MayTouch(s, n)
  BY <1>1, <1>2, <1>4 DEF Touches
<1>8. \A n \in Name : ~Inserts(s, n)' /\ ~Inserts(s, n)
  BY <1>1, <1>2 DEF Inserts
<1>9. \A v \in ValueId : Doomed(s, v)' => Doomed(s, v)
  BY <1>1 DEF Doomed, Deleted, Cached, cacheVars
<1>10. IdleRight(s)'
  BY <1>0, <1>1, <1>4 DEF IdleRight
<1>11. \A n \in Name : Cached(s, n) => phase'[s] # "none"
  BY <1>0, <1>1 DEF IdleRight
<1> QED
  BY <1>1, <1>2, <1>3, <1>4, <1>6, <1>7, <1>8, <1>9, <1>10, <1>11 DEF IdleStep, dbVars, cacheVars

(* In the second iteration a transaction wants only records that it alone   *)
(* can have locked.                                                         *)
LEMMA SecondFree ==
    ASSUME CatalogInv, CachedTodo, NEW s \in Session, phase[s] = "second", ~mustAbort[s],
           NEW n \in todo[s], NEW k \in SecondKeys(s, n)
    PROVE  Free(s, k)
<1> DEFINE e == objects[s][n]
<1>0. TypeOK /\ RecordInv
  BY DEF CatalogInv
<1>1. n \in Name /\ Cached(s, n) /\ e \in Entry
  BY <1>0, TypeFacts DEF CachedTodo
<1>2. ~Early(s, n) /\ ~Late(s, n)
  BY DEF Early, Late
<1>3. EntryRight(s, n) /\ EntryValueRight(s, n) /\ Holds(s, n)
  BY <1>1, <1>2 DEF CatalogInv, EntriesRight, EntryRight
<1>4. CASE k = ObjectKey(n)
  <2> SUFFICES ASSUME NEW t \in Session \ {s}, Holds(t, n) PROVE FALSE
    BY <1>4 DEF Free, Holds, ObjectKey
  <2> QED
    BY <1>0, <1>1, <1>3, TouchFacts DEF RecordInv, SessionsApart
<1>5. CASE k # ObjectKey(n)
  <2> DEFINE r == ValueRecord(e)
  <2>1. Saves(s, n) /\ k \in ValueKeys(r)
    BY <1>5 DEF SecondKeys
  <2>2. k = <<"value", r>> /\ r \in ValueId
    BY <2>1, ValueKeyFacts DEF ValueKeys
  <2> SUFFICES ASSUME NEW t \in Session \ {s}, ValueLocked(t, r) PROVE FALSE
    BY <2>2 DEF Free, ValueLocked
  <2>3. CASE e.rec # NoValue
    <3>1. r = e.rec /\ objCatalogFile[n] # Absent /\ objCatalogFile[n].rec = r
      BY <1>3, <2>1, <2>3 DEF ValueRecord, EntryRight, Saves
    <3>2. Live(n, objCatalogFile[n]) /\ objCatalogFile[n] \in Record
      BY <1>0, <1>1, <3>1, LiveFacts
    <3>3. Holds(t, n)
      BY <1>0, <1>1, <3>1, <3>2 DEF RecordInv, ValueLocks
    <3> QED
      BY <1>0, <1>1, <1>3, <3>3, TouchFacts DEF RecordInv, SessionsApart
  <2>4. CASE e.rec = NoValue
    <3>1. r = e.value /\ e.value # NoValue /\ e.state # "EntryDelete"
      BY <2>1, <2>4 DEF ValueRecord, Saves
    <3>2. e.value \in created[s]
      BY <1>3, <2>4, <3>1 DEF EntryValueRight
    <3> QED
      BY <1>0, <3>1, <3>2 DEF RecordInv, CreatedPrivate
  <2> QED
    BY <2>3, <2>4
<1> QED
  BY <1>4, <1>5

LEMMA VictimStep ==
    ASSUME TypeOK, TypeOK', CachedTodo, ExclusiveUse, CatalogInv,
           NEW s \in Session, DeadlockVictim(s)
    PROVE  IdleStep(s)
<1>0. TypeOK /\ RecordInv /\ IdleRight(s)
  BY DEF CatalogInv, RecordInv, IdleInv
<1>1. /\ ~mustAbort[s] /\ locks[s] # {}
      /\ mustAbort' = [mustAbort EXCEPT ![s] = TRUE]
      /\ pending' = [pending EXCEPT ![s] = Absent]
      /\ UNCHANGED <<dbVars, cacheVars, phase, todo, locks, created, drops>>
  BY DEF DeadlockVictim
<1>2. /\ mustAbort'[s] /\ pending'[s] = Absent
      /\ \A t \in Session \ {s} : mustAbort'[t] = mustAbort[t] /\ pending'[t] = pending[t]
  BY <1>1 DEF TypeOK
<1>3. phase[s] # "none"
  BY <1>0, <1>1 DEF IdleRight
<1>4. phase[s] # "second"
  <2> SUFFICES ASSUME phase[s] = "second" PROVE FALSE
    OBVIOUS
  <2>1. PICK k \in Wanted(s) : ~Free(s, k)
    BY DEF DeadlockVictim
  <2>2. Wanted(s) = UNION {SecondKeys(s, n) : n \in NextNames(s)}
    BY DEF Wanted
  <2>3. PICK n \in NextNames(s) : k \in SecondKeys(s, n)
    BY <2>1, <2>2
  <2>4. n \in todo[s]
    BY DEF NextNames
  <2> QED
    BY <1>1, <2>1, <2>3, <2>4, SecondFree
<1>5. QuietStep(s)
  BY <1>1, <1>2 DEF QuietStep, Creates, Holds, ValueLocked, dbVars, cacheVars
<1>6. \A n \in Name : (Early(s, n)' <=> Early(s, n)) /\ ~Late(s, n)
  BY <1>1, <1>4 DEF Early, Late
<1>7. \A n \in Name : Touches(s, n)' => Touches(s, n)
  BY <1>1, <1>2 DEF Touches, Cached, Holds, cacheVars
<1>8. \A n \in Name : Inserts(s, n)' <=> Inserts(s, n) /\ pending'[s] = pending[s]
  BY <1>2 DEF Inserts
<1>9. \A v \in ValueId : Doomed(s, v)' => Doomed(s, v)
  BY <1>1 DEF Doomed, Deleted, Cached, cacheVars
<1>10. IdleRight(s)'
  BY <1>0, <1>1, <1>2, <1>3 DEF IdleRight
<1> QED
  BY <1>1, <1>2, <1>3, <1>5, <1>6, <1>7, <1>8, <1>9, <1>10 DEF IdleStep, dbVars, cacheVars
-----------------------------------------------------------------------------
(* What a write leaves as it was: the entries for all other names, and that *)
(* values that are to go are in no other object.                            *)
WriteFrame(s, n) ==
    /\ ~mustAbort[s] /\ mustAbort' = mustAbort /\ phase'[s] # "none"
    /\ \A t \in Session \ {s} : locks'[t] = locks[t] /\ todo'[t] = todo[t] /\ drops'[t] = drops[t]
    /\ \A m \in Name \ {n} : Cached(s, m) =>
          (Early(s, m)' <=> Early(s, m)) /\ (Late(s, m)' <=> Late(s, m))
    /\ \A v \in ValueId : Doomed(s, v)' => Doomed(s, v)

(* The record of a new value is that of the entry, and so is a value.       *)
WriteEntry(s, n, x, r, v) ==
    /\ r # NoValue =>
          /\ \/ objCatalogFile[n] # Absent /\ objCatalogFile[n].rec = r
             \/ Cached(s, n) /\ objects[s][n].value = r
          /\ x # Absent => Cached(s, n) /\ objects[s][n].value = v
    /\ x # Absent /\ x.defined =>
          Cached(s, n) /\ ~Deleted(s, n) /\ x.rec = r /\ objects[s][n].value = v

LEMMA WriteRecords ==
    ASSUME TypeOK, TypeOK', RecordInv, NEW s \in Session, NEW n \in Name, NEW x, NEW r, NEW v,
           WriteStep(s, n, x, r, v), WriteRight(s, n, x, r, v), WriteFrame(s, n)
    PROVE  RecordInv'
<1>1. IdleInv'
  <2>1. ASSUME NEW t \in Session \ {s} PROVE IdleRight(t)'
    <3>1. IdleRight(t)
      BY DEF RecordInv, IdleInv
    <3>2. /\ created'[t] = created[t] /\ drops'[t] = drops[t] /\ objects'[t] = objects[t]
          /\ locks'[t] = locks[t] /\ mustAbort'[t] = mustAbort[t]
          /\ phase'[t] = phase[t] /\ pending'[t] = pending[t]
      BY DEF WriteStep, WriteFrame
    <3> QED
      BY <3>1, <3>2 DEF IdleRight, Cached
  <2>2. IdleRight(s)'
    BY DEF IdleRight, WriteStep, WriteFrame
  <2> QED
    BY <2>1, <2>2 DEF IdleInv
<1> QED
  BY <1>1, WriteApart, WriteLocks, WriteValues DEF RecordInv

LEMMA WriteOthers ==
    ASSUME TypeOK, TypeOK', CatalogInv, NEW s \in Session, NEW n \in Name, NEW x, NEW r, NEW v,
           WriteStep(s, n, x, r, v), WriteRight(s, n, x, r, v),
           WriteFrame(s, n), WriteEntry(s, n, x, r, v)
    PROVE  /\ \A t \in Session : \A m \in Name \ {n} : Cached(t, m)' =>
                 /\ phase'[t] # "none"
                 /\ EntryRight(t, m)' /\ WrittenRight(t, m)' /\ EntryValueRight(t, m)'
           /\ \A t \in Session \ {s} : ~Cached(t, n)'
           /\ DoomedRight'
<1>0. TypeOK /\ RecordInv
  BY DEF CatalogInv
<1>1. /\ UNCHANGED <<made, created, saved, objects>>
      /\ objCatalogFile' = [objCatalogFile EXCEPT ![n] = x]
      /\ \A m \in Name : objCatalogFile'[m] = IF m = n THEN x ELSE objCatalogFile[m]
      /\ \A q \in ValueId : objValueFile'[q] = IF q = r THEN v ELSE objValueFile[q]
      /\ mustAbort' = mustAbort
  BY DEF WriteStep, WriteFrame, TypeOK, Objects
<1>2. \A t \in Session : \A m \in Name :
         /\ Cached(t, m)' <=> Cached(t, m)
         /\ Holds(t, m) => Holds(t, m)'
         /\ Deleted(t, m)' <=> Deleted(t, m)
  BY <1>1 DEF WriteStep, Cached, Deleted
<1>3. \A t \in Session : \A m \in Name \ {n} : Cached(t, m) =>
         /\ (Early(t, m)' <=> Early(t, m)) /\ (Late(t, m)' <=> Late(t, m))
         /\ phase'[t] # "none"
  <2> SUFFICES ASSUME NEW t \in Session, NEW m \in Name \ {n}, Cached(t, m)
               PROVE  /\ (Early(t, m)' <=> Early(t, m)) /\ (Late(t, m)' <=> Late(t, m))
                      /\ phase'[t] # "none"
    OBVIOUS
  <2>1. CASE t = s
    BY <2>1 DEF WriteFrame
  <2>2. CASE t # s
    <3>1. phase'[t] = phase[t] /\ todo'[t] = todo[t]
      BY <2>2 DEF WriteStep, WriteFrame
    <3>2. phase[t] # "none"
      BY DEF CatalogInv, EntriesRight
    <3> QED
      BY <3>1, <3>2 DEF Early, Late
  <2> QED
    BY <2>1, <2>2
<1>4. \A t \in Session \ {s} : ~Cached(t, n)
  BY <1>0, TouchFacts DEF WriteStep, RecordInv, SessionsApart
<1>5. /\ r # NoValue => r \in ValueId
      /\ x # Absent => x \in Record
      /\ objCatalogFile[n] # Absent => objCatalogFile[n] \in Record /\ Live(n, objCatalogFile[n])
  BY <1>0, LiveFacts DEF WriteRight
<1>6. \A m \in Name \ {n} : \A y \in Record : Live(m, y) /\ y.rec # NoValue => y.rec # r
  <2> SUFFICES ASSUME NEW m \in Name \ {n}, NEW y \in Record, Live(m, y), y.rec # NoValue, y.rec = r
               PROVE  FALSE
    OBVIOUS
  <2>1. r \in ValueId /\ Own(s, n, r) /\ Touches(s, n)
    BY <1>5 DEF WriteRight, WriteStep
  <2>2. \A t \in Session : t # s => ~ValueLocked(t, r)
    BY <2>1 DEF WriteStep
  <2> QED
    BY <1>0, <2>1, <2>2, OwnRecord
<1>7. \A m \in Name : \A y :
         Live(m, y)' <=> IF m = n THEN x # Absent /\ y = x ELSE Live(m, y)
  BY <1>0, WriteLive
<1>8. \A m \in Name : \A y : Stored(m, y)' <=> Stored(m, y)
  BY <1>0, WriteLive
<1>9. ASSUME NEW t \in Session, NEW m \in Name \ {n}, Cached(t, m)
      PROVE  EntryRight(t, m)' /\ WrittenRight(t, m)' /\ EntryValueRight(t, m)'
  <2> DEFINE f == objects[t][m]
             there == objCatalogFile[m]
  <2>1. EntryRight(t, m) /\ WrittenRight(t, m) /\ EntryValueRight(t, m)
    BY <1>9 DEF CatalogInv, EntriesRight
  <2>2. /\ objects'[t][m] = f /\ objCatalogFile'[m] = there /\ f \in Entry
        /\ f.rec # NoValue => f.rec \in ValueId
        /\ f.value # NoValue => f.value \in ValueId
        /\ there # Absent => there \in Record /\ Live(m, there)
    BY <1>0, <1>1, <1>9, TypeFacts, EntryFields, LiveFacts
  <2>3. /\ (Early(t, m)' <=> Early(t, m)) /\ (Late(t, m)' <=> Late(t, m))
        /\ mustAbort'[t] = mustAbort[t] /\ (Holds(t, m) => Holds(t, m)')
    BY <1>1, <1>2, <1>3, <1>9
  <2>4. EntryRight(t, m)'
    BY <2>1, <2>2, <2>3 DEF EntryRight
  <2>5. ASSUME there # Absent, there.rec # NoValue
        PROVE  there.rec \in ValueId /\ objValueFile'[there.rec] = objValueFile[there.rec]
    BY <1>1, <1>6, <2>2, <2>5, RecordFields
  <2>6. WrittenRight(t, m)'
    <3>1. CASE ~Early(t, m) /\ ~mustAbort[t] /\ f.state # "EntryDelete"
      <4>1. there # Absent
        BY <2>1, <3>1 DEF EntryRight
      <4>2. Late(t, m) /\ f.value # NoValue =>
               there.rec = ValueRecord(f) /\ ValueRecord(f) # NoValue
        BY <2>1, <3>1 DEF WrittenRight, ValueRecord
      <4> QED
        BY <2>1, <2>2, <2>3, <2>5, <3>1, <4>1, <4>2 DEF WrittenRight
    <3>2. CASE ~(~Early(t, m) /\ ~mustAbort[t] /\ f.state # "EntryDelete")
      BY <2>2, <2>3, <3>2 DEF WrittenRight
    <3> QED
      BY <3>1, <3>2
  <2>7. EntryValueRight(t, m)'
    <3> SUFFICES ASSUME f.value # NoValue PROVE EntryValueRight(t, m)'
      BY <2>2 DEF EntryValueRight
    <3>1. Cached(s, n) => objects[s][n].value # f.value
      BY <2>1 DEF EntryValueRight
    <3>2. ASSUME f.value \in created[t],
                 f.state = "EntryDelete" \/ ~Late(t, m) \/ mustAbort[t]
          PROVE  /\ \A q \in ValueId : objValueFile'[q] # f.value
                 /\ \A k \in Name : \A y \in Record : Live(k, y)' => y.rec # f.value
      <4>1. /\ \A q \in ValueId : objValueFile[q] # f.value
            /\ \A k \in Name : \A y \in Record : Live(k, y) => y.rec # f.value
        BY <2>1, <3>2 DEF EntryValueRight
      <4>2. ASSUME NEW q \in ValueId PROVE objValueFile'[q] # f.value
        <5>1. CASE q # r
          BY <1>1, <4>1, <5>1
        <5>2. CASE q = r
          <6>1. r # NoValue /\ objValueFile'[q] = v
            BY <1>1, <5>2, Numbers
          <6>2. CASE x = Absent
            BY <6>1, <6>2 DEF WriteRight
          <6>3. CASE x # Absent
            BY <3>1, <6>1, <6>3 DEF WriteEntry
          <6> QED
            BY <6>2, <6>3
        <5> QED
          BY <5>1, <5>2
      <4>3. ASSUME NEW k \in Name, NEW y \in Record, Live(k, y)' PROVE y.rec # f.value
        <5>1. CASE k # n
          BY <1>7, <4>1, <4>3, <5>1
        <5>2. CASE k = n
          <6>1. y = x /\ x # Absent
            BY <1>7, <4>3, <5>2
          <6>2. \/ x.rec = NoValue \/ (r # NoValue /\ x.rec = r)
                \/ (objCatalogFile[n] # Absent /\ x.rec = objCatalogFile[n].rec)
            BY <6>1 DEF WriteRight
          <6>3. objCatalogFile[n] # Absent => objCatalogFile[n].rec # f.value
            BY <1>5, <4>1
          <6>4. r # NoValue => r # f.value
            BY <3>1, <6>3 DEF WriteEntry
          <6> QED
            BY <6>1, <6>2, <6>3, <6>4
        <5> QED
          BY <5>1, <5>2
      <4> QED
        BY <4>2, <4>3
    <3>3. ASSUME f.value \notin created[t]
          PROVE  /\ f.state = "EntryDelete" \/ (f.rec # NoValue /\ objValueFile'[f.rec] = f.value)
                 /\ Early(t, m) => there.defined /\ StoredValue(m)' = f.value
      <4>1. /\ f.state = "EntryDelete" \/ (f.rec # NoValue /\ objValueFile[f.rec] = f.value)
            /\ Early(t, m) => there.defined /\ StoredValue(m) = f.value
        BY <2>1, <3>3 DEF EntryValueRight
      <4>2. ASSUME f.state # "EntryDelete" PROVE f.rec # NoValue /\ objValueFile'[f.rec] = f.value
        <5>1. f.rec # NoValue /\ there # Absent /\ there.rec = f.rec
          BY <2>1, <4>1, <4>2 DEF EntryRight
        <5> QED
          BY <2>5, <4>1, <4>2, <5>1
      <4>3. ASSUME Early(t, m) PROVE StoredValue(m)' = f.value
        <5>1. there.defined /\ there.rec # NoValue /\ objValueFile[there.rec] = f.value
          BY <4>1, <4>3 DEF StoredValue
        <5>2. there # Absent
          <6>1. f.rec # NoValue \/ f.state = "EntryDelete"
            BY <4>1
          <6>2. f.state # "EntryInsert"
            BY <2>1, <6>1 DEF EntryRight
          <6> QED
            BY <2>1, <4>3, <6>2 DEF EntryRight
        <5> QED
          BY <2>2, <2>5, <5>1, <5>2 DEF StoredValue
      <4> QED
        BY <4>1, <4>2, <4>3
    <3>4. /\ f.value <= Len(made') /\ made'[f.value] = f.type
          /\ \A u \in Session \ {t} : f.value \notin created'[u]
          /\ \A u \in Session : \A k \in Name \ {m} : Cached(u, k)' => objects'[u][k].value # f.value
      BY <1>1, <1>2, <2>1 DEF EntryValueRight
    <3> QED
      BY <1>1, <2>2, <2>3, <3>2, <3>3, <3>4 DEF EntryValueRight
  <2> QED
    BY <2>4, <2>6, <2>7
<1>10. DoomedRight'
  <2>1. \A t \in Session : \A w \in ValueId : Doomed(t, w)' => Doomed(t, w)
    <3>1. \A t \in Session \ {s} : drops'[t] = drops[t]
      BY DEF WriteFrame
    <3>2. \A t \in Session \ {s} : \A w \in ValueId : Doomed(t, w)' => Doomed(t, w)
      BY <1>1, <1>2, <3>1 DEF Doomed
    <3> QED
      BY <3>2 DEF WriteFrame
  <2> SUFFICES ASSUME NEW t \in Session, NEW w \in ValueId, Doomed(t, w)'
               PROVE  /\ w <= Len(made')
                      /\ \A u \in Session \ {t} : w \notin created'[u]
                      /\ \A u \in Session : \A m \in Name :
                            Cached(u, m)' /\ objects'[u][m].value = w => u = t /\ Deleted(t, m)'
                      /\ \A m \in Name : \A y \in Record :
                            /\ Live(m, y)' /\ y.defined /\ objValueFile'[y.rec] = w =>
                                  Cached(t, m)' /\ (mustAbort'[t] \/ Early(t, m)')
                            /\ Stored(m, y)' /\ y.defined /\ saved'.values[y.rec] = w =>
                                  Cached(t, m)' \/ Holds(t, m)'
    BY DEF DoomedRight
  <2>2. Doomed(t, w)
    BY <2>1
  <2>3. /\ w <= Len(made')
        /\ \A u \in Session \ {t} : w \notin created'[u]
        /\ \A u \in Session : \A m \in Name :
              Cached(u, m)' /\ objects'[u][m].value = w => u = t /\ Deleted(t, m)'
    BY <1>1, <1>2, <2>2 DEF CatalogInv, DoomedRight
  <2>4. ASSUME NEW m \in Name, NEW y \in Record, Live(m, y)', y.defined, objValueFile'[y.rec] = w
        PROVE  Cached(t, m)' /\ (mustAbort'[t] \/ Early(t, m)')
    <3>1. CASE m # n
      <4>1. Live(m, y)
        BY <1>7, <2>4, <3>1
      <4>2. y.rec # NoValue
        BY <1>0, <2>4, <4>1 DEF RecordInv, RecordsRight, RecordRight
      <4>3. y.rec \in ValueId /\ y.rec # r
        BY <1>6, <3>1, <4>1, <4>2, RecordFields
      <4>4. objValueFile[y.rec] = w
        BY <1>1, <2>4, <4>3
      <4>5. Cached(t, m) /\ (mustAbort[t] \/ Early(t, m))
        BY <2>2, <2>4, <4>1, <4>4 DEF CatalogInv, DoomedRight
      <4> QED
        BY <1>1, <1>2, <1>3, <3>1, <4>5
    <3>2. CASE m = n
      <4>1. y = x /\ x # Absent /\ x.defined
        BY <1>7, <2>4, <3>2
      <4>2. Cached(s, n) /\ ~Deleted(s, n) /\ x.rec = r /\ objects[s][n].value = v
        BY <4>1 DEF WriteEntry
      <4>3. r \in ValueId
        BY <1>5, <4>1, <4>2 DEF WriteRight
      <4>4. v = w
        BY <1>1, <2>4, <4>1, <4>2, <4>3
      <4> QED
        BY <2>2, <4>2, <4>4 DEF CatalogInv, DoomedRight
    <3> QED
      BY <3>1, <3>2
  <2>5. ASSUME NEW m \in Name, NEW y \in Record, Stored(m, y)', y.defined, saved'.values[y.rec] = w
        PROVE  Cached(t, m)' \/ Holds(t, m)'
    <3>1. Stored(m, y) /\ saved.values[y.rec] = w
      BY <1>1, <1>8, <2>5
    <3> QED
      BY <1>2, <2>2, <2>5, <3>1 DEF CatalogInv, DoomedRight
  <2> QED
    BY <2>3, <2>4, <2>5
<1> QED
  BY <1>2, <1>3, <1>4, <1>9, <1>10
-----------------------------------------------------------------------------
(* The writes of a transaction: an object that is killed, and the entries   *)
(* in the two iterations of CleanUp.                                        *)
Kills(s, n, r) ==
    /\ pending[s] # Absent /\ pending[s].op = "kill" /\ DeleteOld(s)
    /\ n = pending[s].old /\ r = objCatalogFile[n].rec

LEMMA ObjectKeyFacts ==
    /\ \A n, m : ObjectKey(n) = ObjectKey(m) <=> n = m
    /\ \A n, q : ObjectKey(n) # <<"value", q>>
BY DEF ObjectKey

LEMMA RecordKeys ==
    ASSUME NEW r, NEW K, (K = {} /\ r = NoValue) \/ K = ValueKeys(r)
    PROVE  /\ \A m : ObjectKey(m) \notin K
           /\ \A q \in ValueId : <<"value", q>> \in K <=> q = r
<1>1. \A m : ObjectKey(m) \notin K
  BY ValueKeyFacts
<1>2. ASSUME NEW q \in ValueId PROVE <<"value", q>> \in K <=> q = r
  <2>1. CASE K = {} /\ r = NoValue
    BY <2>1, Numbers
  <2>2. CASE K = ValueKeys(r)
    BY <2>2, ValueKeyFacts
  <2> QED
    BY <2>1, <2>2
<1> QED
  BY <1>1, <1>2

LEMMA RecordLocks ==
    ASSUME TypeOK, NEW s \in Session, NEW n, NEW r, NEW K, Lock(s, {ObjectKey(n)} \cup K),
           (K = {} /\ r = NoValue) \/ K = ValueKeys(r), NEW t \in Session
    PROVE  /\ \A m \in Name : Holds(t, m)' <=> Holds(t, m) \/ (t = s /\ m = n)
           /\ \A q \in ValueId : ValueLocked(t, q)' <=> ValueLocked(t, q) \/ (t = s /\ q = r)
<1>1. \A m : ObjectKey(m) \notin K
  BY RecordKeys
<1>2. \A q \in ValueId : <<"value", q>> \in K <=> q = r
  BY RecordKeys
<1>3. \A m : ObjectKey(m) \in {ObjectKey(n)} \cup K <=> m = n
  BY <1>1, ObjectKeyFacts
<1>4. \A q \in ValueId : <<"value", q>> \in {ObjectKey(n)} \cup K <=> q = r
  BY <1>2, ObjectKeyFacts
<1> DEFINE L == {ObjectKey(n)} \cup K
<1>5. Lock(s, L)
  OBVIOUS
<1>6. /\ \A m : ObjectKey(m) \in L <=> m = n
      /\ \A q \in ValueId : <<"value", q>> \in L <=> q = r
  BY <1>3, <1>4
<1> HIDE DEF L
<1> QED
  BY <1>5, <1>6, LockEffect

LEMMA KillStep ==
    ASSUME TypeOK, TypeOK', CatalogInv, NEW s \in Session, NEW n, NEW r, Kills(s, n, r)
    PROVE  RecordInv' /\ EntriesRight' /\ DoomedRight'
<1> DEFINE there == objCatalogFile[n]
<1>0. TypeOK /\ RecordInv /\ IdleRight(s)
  BY DEF CatalogInv, RecordInv, IdleInv
<1>1. /\ n \in Name /\ ~Cached(s, n) /\ phase[s] = "active" /\ ~mustAbort[s]
      /\ there # Absent /\ pending[s].record = there /\ pending[s].new = n
      /\ pending[s] # Absent /\ pending[s].op = "kill" /\ n = pending[s].old /\ there.rec = r
  BY <1>0, TypeFacts DEF Kills, RecordInv, PendingRight, PendingFits, IdleRight
<1>2. /\ there \in Record /\ Live(n, there) /\ r \in ValueId \cup {NoValue}
  BY <1>0, <1>1, LiveFacts, RecordFields
<1>3. /\ objCatalogFile' = [objCatalogFile EXCEPT ![n] = Absent]
      /\ objValueFile' = [q \in ValueId |-> IF <<"value", q>> \in ValueKeys(r) THEN NoValue
                                                                   ELSE objValueFile[q]]
      /\ Lock(s, {ObjectKey(n)} \cup ValueKeys(r)) /\ Free(s, ObjectKey(n)) /\ \A k \in ValueKeys(r) : Free(s, k)
      /\ pending' = [pending EXCEPT ![s] = Absent]
      /\ UNCHANGED <<made, files, saved, typeCatalogFile, cacheVars, phase, todo, mustAbort,
                     created, drops>>
  BY <1>1 DEF Kills, DeleteOld, WriteObject
<1>4. \A q \in ValueId : objValueFile'[q] = IF q = r THEN NoValue ELSE objValueFile[q]
  BY <1>3, ValueKeyFacts
<1>5. /\ pending'[s] = Absent /\ \A t \in Session \ {s} : pending'[t] = pending[t]
      /\ \A t \in Session \ {s} : locks'[t] = locks[t]
  BY <1>3 DEF TypeOK, Lock
<1>6. \A t \in Session :
         /\ \A m \in Name : Holds(t, m)' <=> Holds(t, m) \/ (t = s /\ m = n)
         /\ \A q \in ValueId : ValueLocked(t, q)' <=> ValueLocked(t, q) \/ (t = s /\ q = r)
  <2>1. PICK K : /\ (K = {} /\ r = NoValue) \/ K = ValueKeys(r)
                 /\ Lock(s, {ObjectKey(n)} \cup K)
    BY <1>3
  <2> QED
    BY <2>1, RecordLocks
<1>7. \A t \in Session : t # s => ~Holds(t, n) /\ (r \in ValueId => ~ValueLocked(t, r))
  <2>1. r \in ValueId => Free(s, <<"value", r>>)
    BY <1>3, ValueKeyFacts
  <2> QED
    BY <1>3, <2>1, FreeFacts
<1>8. Touches(s, n) /\ \A m \in Name : ~Inserts(s, m)
  BY <1>0, <1>1, TouchFacts DEF Inserts
<1>9. WriteStep(s, n, Absent, r, NoValue)
  BY <1>1, <1>3, <1>4, <1>5, <1>6, <1>7, <1>8 DEF WriteStep, cacheVars
<1>10. WriteRight(s, n, Absent, r, NoValue)
  BY <1>1, <1>2 DEF WriteRight, Own
<1>11. \A m \in Name : (Early(s, m)' <=> Early(s, m)) /\ (Late(s, m)' <=> Late(s, m))
  BY <1>3 DEF Early, Late
<1>12. \A w \in ValueId : Doomed(s, w)' => Doomed(s, w)
  BY <1>3 DEF Doomed, Deleted, Cached, cacheVars
<1>13. WriteFrame(s, n)
  BY <1>1, <1>3, <1>5, <1>11, <1>12 DEF WriteFrame
<1>14. WriteEntry(s, n, Absent, r, NoValue)
  BY <1>1 DEF WriteEntry
<1>15. ~Cached(s, n)'
  BY <1>1, <1>3 DEF Cached, cacheVars
<1>16. RecordInv'
  BY <1>0, <1>1, <1>9, <1>10, <1>13, WriteRecords
<1>17. /\ \A t \in Session : \A m \in Name \ {n} : Cached(t, m)' =>
             /\ phase'[t] # "none"
             /\ EntryRight(t, m)' /\ WrittenRight(t, m)' /\ EntryValueRight(t, m)'
       /\ \A t \in Session \ {s} : ~Cached(t, n)'
       /\ DoomedRight'
  BY <1>1, <1>9, <1>10, <1>13, <1>14, WriteOthers
<1>18. EntriesRight'
  <2> SUFFICES ASSUME NEW t \in Session, NEW m \in Name, Cached(t, m)'
               PROVE  /\ phase'[t] # "none"
                      /\ EntryRight(t, m)' /\ WrittenRight(t, m)' /\ EntryValueRight(t, m)'
    BY DEF EntriesRight
  <2>1. m # n
    BY <1>15, <1>17
  <2> QED
    BY <1>17, <2>1
<1> QED
  BY <1>16, <1>17, <1>18

(* An iteration writes the entry that it comes to.                          *)
IterationWrite(s, n, x, r, v, K) ==
    /\ phase[s] \in {"first", "second"} /\ ~mustAbort[s] /\ n \in todo[s] /\ Done(s, n)
    /\ Writes(s, {ObjectKey(n)} \cup K)
    /\ (K = {} /\ r = NoValue) \/ K = ValueKeys(r)
    /\ objCatalogFile' = [objCatalogFile EXCEPT ![n] = x]
    /\ \A q \in ValueId : objValueFile'[q] = IF q = r THEN v ELSE objValueFile[q]
    /\ UNCHANGED <<made, saved, objects, mustAbort, created, pending>>
    /\ \A t \in Session \ {s} : drops'[t] = drops[t]
    /\ \A w \in ValueId : w \in drops'[s] => Doomed(s, w)

EntryKept(s, n) ==
    /\ EntryRight(s, n)' /\ WrittenRight(s, n)' /\ EntryValueRight(s, n)'

LEMMA IterationStep ==
    ASSUME TypeOK, TypeOK', CatalogInv, CachedTodo, NEW s \in Session, NEW n \in Name,
           NEW x, NEW r, NEW v, NEW K, IterationWrite(s, n, x, r, v, K),
           WriteRight(s, n, x, r, v), WriteEntry(s, n, x, r, v),
           WriteStep(s, n, x, r, v) => EntryKept(s, n)
    PROVE  RecordInv' /\ EntriesRight' /\ DoomedRight'
<1>0. TypeOK /\ RecordInv
  BY DEF CatalogInv
<1>a. /\ phase[s] \in {"first", "second"} /\ ~mustAbort[s] /\ n \in todo[s] /\ Done(s, n)
      /\ Writes(s, {ObjectKey(n)} \cup K)
      /\ (K = {} /\ r = NoValue) \/ K = ValueKeys(r)
      /\ objCatalogFile' = [objCatalogFile EXCEPT ![n] = x]
      /\ \A q \in ValueId : objValueFile'[q] = IF q = r THEN v ELSE objValueFile[q]
      /\ UNCHANGED <<made, saved, objects, mustAbort, created, pending>>
      /\ \A t \in Session \ {s} : drops'[t] = drops[t]
      /\ \A w \in ValueId : w \in drops'[s] => Doomed(s, w)
  BY DEF IterationWrite
<1>1. /\ Cached(s, n) /\ pending[s] = Absent
  BY <1>0, <1>a, NoPending DEF CachedTodo
<1>2. /\ \A t \in Session \ {s} : locks'[t] = locks[t]
      /\ Lock(s, {ObjectKey(n)} \cup K) /\ \A k \in {ObjectKey(n)} \cup K : Free(s, k)
  BY <1>a, WritesFacts
<1>3. /\ \A t \in Session \ {s} : phase'[t] = phase[t] /\ todo'[t] = todo[t]
      /\ phase'[s] # "none" /\ (phase[s] = "second" => phase'[s] = "second")
      /\ \A m \in Name \ {n} : Cached(s, m) =>
            (Early(s, m)' <=> Early(s, m)) /\ (Late(s, m)' <=> Late(s, m))
  <2>1. \A m \in Name : phase[s] = "first" => ~Late(s, m)
    BY DEF Late
  <2>2. \A m \in Name : phase[s] = "second" => ~Early(s, m)
    BY DEF Early
  <2> QED
    BY <1>a, <2>1, <2>2, DoneFacts
<1>4. \A t \in Session :
         /\ \A m \in Name : Holds(t, m)' <=> Holds(t, m) \/ (t = s /\ m = n)
         /\ \A q \in ValueId : ValueLocked(t, q)' <=> ValueLocked(t, q) \/ (t = s /\ q = r)
  <2>1. TypeOK /\ Lock(s, {ObjectKey(n)} \cup K) /\ ((K = {} /\ r = NoValue) \/ K = ValueKeys(r))
    BY <1>0, <1>a, <1>2
  <2> QED
    BY <2>1, RecordLocks, ZenonT(30)
<1>5. \A t \in Session : t # s => ~Holds(t, n) /\ (r \in ValueId => ~ValueLocked(t, r))
  <2>1. r \in ValueId => Free(s, <<"value", r>>)
    <3>1. r \in ValueId => <<"value", r>> \in K
      BY <1>a, RecordKeys
    <3> QED
      BY <1>2, <3>1
  <2> QED
    BY <1>2, <2>1, FreeFacts
<1>6. Touches(s, n) /\ \A m \in Name : ~Inserts(s, m)
  BY <1>0, <1>1, TouchFacts DEF Inserts
<1>7. WriteStep(s, n, x, r, v)
  BY <1>a, <1>1, <1>3, <1>4, <1>5, <1>6 DEF WriteStep
<1>8. \A w \in ValueId : Doomed(s, w)' => Doomed(s, w)
  <2>1. \A m \in Name : Deleted(s, m)' <=> Deleted(s, m)
    BY <1>a DEF Deleted, Cached
  <2> QED
    BY <1>a, <2>1 DEF Doomed
<1>9. WriteFrame(s, n)
  BY <1>a, <1>2, <1>3, <1>8 DEF WriteFrame
<1>10. RecordInv'
  BY <1>0, <1>7, <1>9, WriteRecords
<1>11. /\ \A t \in Session : \A m \in Name \ {n} : Cached(t, m)' =>
             /\ phase'[t] # "none"
             /\ EntryRight(t, m)' /\ WrittenRight(t, m)' /\ EntryValueRight(t, m)'
       /\ \A t \in Session \ {s} : ~Cached(t, n)'
       /\ DoomedRight'
  BY <1>7, <1>9, WriteOthers
<1>12. EntriesRight'
  <2> SUFFICES ASSUME NEW t \in Session, NEW m \in Name, Cached(t, m)'
               PROVE  /\ phase'[t] # "none"
                      /\ EntryRight(t, m)' /\ WrittenRight(t, m)' /\ EntryValueRight(t, m)'
    BY DEF EntriesRight
  <2>1. CASE m # n
    BY <1>11, <2>1
  <2>2. CASE m = n
    <3>1. t = s
      BY <1>11, <2>2
    <3> QED
      BY <1>3, <1>7, <2>2, <3>1 DEF EntryKept
  <2> QED
    BY <2>1, <2>2
<1> QED
  BY <1>10, <1>11, <1>12

LEMMA FirstStep ==
    ASSUME TypeOK, TypeOK', CatalogInv, CachedTodo, NEW s \in Session, NEW n \in Name,
           FirstIteration(s, n), ~mustAbort[s]
    PROVE  RecordInv' /\ EntriesRight' /\ DoomedRight'
<1> DEFINE e == objects[s][n]
           there == objCatalogFile[n]
<1>0. TypeOK /\ RecordInv
  BY DEF CatalogInv
<1>1. /\ phase[s] = "first" /\ n \in todo[s] /\ Done(s, n) /\ Writes(s, FirstKeys(s, n))
      /\ objCatalogFile' = [objCatalogFile EXCEPT ![n] = FirstRecord(e, there)]
      /\ objValueFile' = [q \in ValueId |-> IF <<"value", q>> \in FirstKeys(s, n)
                                            THEN NoValue ELSE objValueFile[q]]
      /\ UNCHANGED <<made, files, typeCatalogFile, saved, cacheVars, mustAbort,
                     created, drops, pending>>
  BY DEF FirstIteration, NextNames
<1>2. Cached(s, n) /\ e \in Entry /\ Early(s, n) /\ ~Late(s, n)
  BY <1>0, <1>1, TypeFacts DEF CachedTodo, Early, Late
<1>3. EntryRight(s, n) /\ EntryValueRight(s, n)
  BY <1>2 DEF CatalogInv, EntriesRight
<1>4. /\ there = Absent <=> e.state = "EntryInsert"
      /\ e.state = "EntryInsert" => e.rec = NoValue
      /\ e.rec # NoValue => there # Absent /\ there.rec = e.rec
  BY <1>2, <1>3 DEF EntryRight
<1>5. /\ there # Absent => there \in Record /\ Live(n, there)
      /\ e.state \in State /\ e.type \in Type /\ (e.rec # NoValue => e.rec \in ValueId)
  BY <1>0, <1>2, LiveFacts, EntryFields
<1>6. PICK K, r : /\ (K = {} /\ r = NoValue) \/ K = ValueKeys(r)
                  /\ FirstKeys(s, n) = {ObjectKey(n)} \cup K
                  /\ r = IF e.state = "EntryDelete" THEN e.rec ELSE NoValue
  BY <1>4 DEF FirstKeys
<1> DEFINE x == FirstRecord(e, there)
<1>7. \A q \in ValueId : objValueFile'[q] = IF q = r THEN NoValue ELSE objValueFile[q]
  <2>1. \A q \in ValueId : <<"value", q>> \in K <=> q = r
    <3>1. (K = {} /\ r = NoValue) \/ K = ValueKeys(r)
      BY <1>6
    <3> QED
      BY <3>1, RecordKeys
  <2>2. \A q \in ValueId : <<"value", q>> \in FirstKeys(s, n) <=> q = r
    BY <1>6, <2>1, ObjectKeyFacts
  <2> QED
    BY <1>1, <2>2
<1>8. /\ x \in Record \cup {Absent}
      /\ x = Absent <=> e.state = "EntryDelete"
      /\ x # Absent => /\ x.type = e.type /\ ~x.defined
                       /\ x.rec = IF there = Absent THEN NoValue ELSE there.rec
  <2>1. x \in Record \cup {Absent}
    BY <1>2, <1>5, FirstRecords
  <2>2. CASE e.state = "EntryInsert"
    <3>1. x = [type |-> e.type, defined |-> FALSE, rec |-> NoValue]
      BY <1>4, <2>2 DEF FirstRecord
    <3>2. x \in Record
      BY <1>5, <3>1 DEF Record
    <3>3. x # Absent
      BY <3>2, RecordFields
    <3> QED
      BY <1>4, <2>1, <2>2, <3>1, <3>3
  <2>3. CASE e.state = "EntryUpdate"
    <3>1. there \in Record /\ x = [there EXCEPT !.type = e.type, !.defined = FALSE]
      BY <1>4, <1>5, <2>3 DEF FirstRecord
    <3>2. x \in Record
      BY <1>5, <3>1 DEF Record
    <3>3. x # Absent /\ there # Absent
      BY <3>1, <3>2, RecordFields
    <3>4. x.type = e.type /\ x.defined = FALSE /\ x.rec = there.rec
      BY <3>1 DEF Record
    <3> QED
      BY <2>1, <2>3, <3>3, <3>4
  <2>4. CASE e.state = "EntryDelete"
    BY <2>4 DEF FirstRecord
  <2> QED
    BY <1>5, <2>2, <2>3, <2>4 DEF State
<1> HIDE DEF x
<1>9. WriteRight(s, n, x, r, NoValue)
  <2>1. r \in ValueId \cup {NoValue}
    BY <1>5, <1>6
  <2>2. r # NoValue => Own(s, n, r) /\ x = Absent
    BY <1>4, <1>6, <1>8 DEF Own
  <2> QED
    BY <1>8, <2>1, <2>2 DEF WriteRight
<1>10. WriteEntry(s, n, x, r, NoValue)
  BY <1>4, <1>6, <1>8 DEF WriteEntry
<1>11. ~Early(s, n)' /\ ~Late(s, n)'
  BY <1>1, <1>2, DoneFacts
<1>12. ASSUME WriteStep(s, n, x, r, NoValue) PROVE EntryKept(s, n)
  <2>1. /\ objects'[s][n] = e /\ objCatalogFile'[n] = x /\ Holds(s, n)'
        /\ UNCHANGED <<made, created, objects>>
        /\ \A t \in Session : \A m \in Name : Cached(t, m)' <=> Cached(t, m)
    BY <1>12 DEF WriteStep, TypeOK, Objects, Cached
  <2>2. EntryRight(s, n)'
    BY <1>4, <1>8, <1>11, <2>1 DEF EntryRight
  <2>3. WrittenRight(s, n)'
    BY <1>4, <1>8, <1>11, <2>1 DEF WrittenRight
  <2>4. EntryValueRight(s, n)'
    <3> SUFFICES ASSUME e.value # NoValue PROVE EntryValueRight(s, n)'
      BY <2>1 DEF EntryValueRight
    <3>1. ASSUME e.value \in created[s]
          PROVE  /\ \A q \in ValueId : objValueFile'[q] # e.value
                 /\ \A m \in Name : \A y \in Record : Live(m, y)' => y.rec # e.value
      <4>1. /\ \A q \in ValueId : objValueFile[q] # e.value
            /\ \A m \in Name : \A y \in Record : Live(m, y) => y.rec # e.value
        BY <1>2, <1>3, <3>1 DEF EntryValueRight
      <4>2. ASSUME NEW m \in Name, NEW y \in Record, Live(m, y)' PROVE y.rec # e.value
        <5>1. IF m = n THEN x # Absent /\ y = x ELSE Live(m, y)
          BY <1>0, <1>9, <1>12, <4>2, WriteLive
        <5> QED
          BY <1>5, <1>8, <4>1, <5>1
      <4> QED
        BY <1>7, <4>1, <4>2
    <3>2. e.value \notin created[s] =>
             e.state = "EntryDelete" \/ (e.rec # NoValue /\ objValueFile'[e.rec] = e.value)
      BY <1>3, <1>5, <1>6, <1>7 DEF EntryValueRight
    <3>3. /\ e.value <= Len(made') /\ made'[e.value] = e.type
          /\ \A u \in Session \ {s} : e.value \notin created'[u]
          /\ \A u \in Session : \A k \in Name \ {n} : Cached(u, k)' => objects'[u][k].value # e.value
      BY <1>3, <2>1 DEF EntryValueRight
    <3> QED
      BY <1>11, <2>1, <3>1, <3>2, <3>3 DEF EntryValueRight
  <2> QED
    BY <2>2, <2>3, <2>4 DEF EntryKept
<1>13. \A w \in ValueId : w \in drops'[s] => Doomed(s, w)
  BY <1>1 DEF Doomed
<1>14. objCatalogFile' = [objCatalogFile EXCEPT ![n] = x]
  BY <1>1 DEF x
<1>15. Writes(s, {ObjectKey(n)} \cup K)
  BY <1>1, <1>6
<1>16. (K = {} /\ r = NoValue) \/ K = ValueKeys(r)
  BY <1>6
<1>17. IterationWrite(s, n, x, r, NoValue, K)
  BY <1>1, <1>7, <1>13, <1>14, <1>15, <1>16 DEF IterationWrite, cacheVars
<1> QED
  BY <1>9, <1>10, <1>12, <1>17, IterationStep

LEMMA SecondStep ==
    ASSUME TypeOK, TypeOK', CatalogInv, CachedTodo, NEW s \in Session, NEW n \in Name,
           SecondIteration(s, n), ~mustAbort[s]
    PROVE  RecordInv' /\ EntriesRight' /\ DoomedRight'
<1> DEFINE e == objects[s][n]
           there == objCatalogFile[n]
<1>0. TypeOK /\ RecordInv
  BY DEF CatalogInv
<1>1. /\ phase[s] = "second" /\ n \in todo[s] /\ Done(s, n) /\ Writes(s, SecondKeys(s, n))
      /\ IF Saves(s, n)
         THEN /\ objCatalogFile' = [objCatalogFile EXCEPT ![n] = SecondRecord(e, there)]
              /\ objValueFile' = IF e.rec # NoValue /\ objValueFile[ValueRecord(e)] = NoValue
                                 THEN objValueFile
                                 ELSE [objValueFile EXCEPT ![ValueRecord(e)] = e.value]
         ELSE UNCHANGED <<objCatalogFile, objValueFile>>
      /\ drops' = [drops EXCEPT ![s] = IF e.state = "EntryDelete"
                                       THEN @ \cup ({e.value} \ {NoValue}) ELSE @]
      /\ UNCHANGED <<made, files, typeCatalogFile, saved, cacheVars, mustAbort, created, pending>>
  BY DEF SecondIteration, NextNames
<1>2. Cached(s, n) /\ e \in Entry /\ ~Early(s, n) /\ ~Late(s, n)
  BY <1>0, <1>1, TypeFacts DEF CachedTodo, Early, Late
<1>3. EntryRight(s, n) /\ WrittenRight(s, n) /\ EntryValueRight(s, n)
  BY <1>2 DEF CatalogInv, EntriesRight
<1>4. /\ there = Absent <=> e.state = "EntryDelete"
      /\ e.state = "EntryInsert" => e.rec = NoValue
      /\ e.rec # NoValue /\ e.state # "EntryDelete" => there.rec = e.rec
      /\ e.state # "EntryDelete" => there.type = e.type /\ ~there.defined
      /\ e.value # NoValue => e.value <= Len(made) /\ made[e.value] = e.type
  BY <1>2, <1>3 DEF EntryRight, WrittenRight, EntryValueRight
<1>5. /\ there # Absent => there \in Record /\ Live(n, there)
      /\ e.rec # NoValue => e.rec \in ValueId
      /\ e.value # NoValue => e.value \in ValueId
      /\ e.rec \in Nat /\ e.value \in Nat
  BY <1>0, <1>2, LiveFacts, EntryFields
<1>6. Saves(s, n) <=> e.state # "EntryDelete" /\ e.value # NoValue
  BY <1>4 DEF Saves
<1>7. /\ \A t \in Session \ {s} : drops'[t] = drops[t]
      /\ \A w \in ValueId : w \in drops'[s] => Doomed(s, w)
  <2>1. /\ \A t \in Session \ {s} : drops'[t] = drops[t]
        /\ \A w \in drops'[s] : w \in drops[s] \/ (e.state = "EntryDelete" /\ w = e.value)
    BY <1>1 DEF TypeOK
  <2> QED
    BY <1>2, <2>1 DEF Doomed, Deleted
<1>8. ~Early(s, n)' /\ Late(s, n)'
  BY <1>1, DoneFacts
<1>9. CASE Saves(s, n)
  <2> DEFINE r == ValueRecord(e)
             x == SecondRecord(e, there)
             v == e.value
  <2>1. /\ e.state # "EntryDelete" /\ v \in ValueId /\ v # NoValue
        /\ there \in Record /\ there # Absent /\ Live(n, there)
        /\ r = (IF e.rec = NoValue THEN v ELSE e.rec) /\ r \in ValueId /\ r # NoValue
    BY <1>4, <1>5, <1>6, <1>9, Numbers DEF ValueRecord
  <2>2. x \in Record /\ x.type = e.type /\ x.defined /\ x.rec = r
    <3>1. CASE e.rec = NoValue
      <4>1. x = [there EXCEPT !.defined = TRUE, !.rec = v] /\ r = v
        BY <2>1, <3>1 DEF SecondRecord
      <4> HIDE DEF x
      <4> QED
        BY <1>4, <2>1, <4>1 DEF Record
    <3>2. CASE e.rec # NoValue
      <4>1. x = [there EXCEPT !.defined = TRUE] /\ r = there.rec
        BY <1>4, <2>1, <3>2 DEF SecondRecord
      <4> HIDE DEF x
      <4> QED
        BY <1>4, <2>1, <4>1 DEF Record
    <3> QED
      BY <3>1, <3>2
  <2>3. x # Absent
    BY <2>2, RecordFields
  <2>4. e.rec # NoValue => objValueFile[r] # NoValue
    <3>1. e.rec # NoValue => there.rec = r
      BY <1>4, <2>1
    <3> QED
      BY <1>0, <2>1, <3>1 DEF RecordInv, RecordsRight, RecordRight
  <2>5. \A q \in ValueId : objValueFile'[q] = IF q = r THEN v ELSE objValueFile[q]
    <3>1. objValueFile' = [objValueFile EXCEPT ![r] = v]
      BY <1>1, <1>9, <2>4
    <3> QED
      BY <1>0, <2>1, <3>1 DEF TypeOK, Values
  <2>6. e.rec = NoValue => v \in created[s]
    BY <1>3, <2>1 DEF EntryValueRight
  <2>7. e.rec = NoValue => Fresh(s, r)
    BY <1>2, <1>3, <2>1, <2>6 DEF EntryValueRight, Fresh
  <2>8. v = objValueFile[r] \/ (v \in created[s] /\ \A q \in ValueId : objValueFile[q] # v)
    BY <1>2, <1>3, <2>1, <2>6 DEF EntryValueRight
  <2>9. WriteRight(s, n, x, r, v)
    <3>1. Own(s, n, r)
      BY <1>4, <2>1, <2>7 DEF Own
    <3>2. made[v] = x.type /\ v <= Len(made)
      BY <1>4, <2>1, <2>2
    <3> HIDE DEF x, r, v
    <3> QED
      BY <1>1, <2>1, <2>2, <2>3, <2>8, <3>1, <3>2 DEF WriteRight
  <2>10. WriteEntry(s, n, x, r, v)
    <3>1. (there # Absent /\ there.rec = r) \/ v = r
      BY <1>4, <2>1
    <3>2. ~Deleted(s, n)
      BY <2>1 DEF Deleted
    <3> HIDE DEF x, r
    <3> QED
      BY <1>2, <2>2, <3>1, <3>2 DEF WriteEntry
  <2>11. SecondKeys(s, n) = {ObjectKey(n)} \cup ValueKeys(r)
    BY <1>9 DEF SecondKeys
  <2>12. ASSUME WriteStep(s, n, x, r, v) PROVE EntryKept(s, n)
    <3>1. /\ objects'[s][n] = e /\ objCatalogFile'[n] = x /\ Holds(s, n)'
          /\ UNCHANGED <<made, created, objects>>
          /\ \A t \in Session : \A m \in Name : Cached(t, m)' <=> Cached(t, m)
      BY <1>0, <2>12 DEF WriteStep, TypeOK, Objects, Cached
    <3>2. objValueFile'[r] = v /\ mustAbort'[s] = mustAbort[s]
      BY <1>1, <2>1, <2>5
    <3>3. EntryRight(s, n)'
      BY <1>4, <1>8, <2>1, <2>2, <2>3, <3>1 DEF EntryRight
    <3>4. WrittenRight(s, n)'
      BY <1>8, <2>1, <2>2, <2>3, <3>1, <3>2 DEF WrittenRight
    <3>5. EntryValueRight(s, n)'
      <4>1. /\ v <= Len(made') /\ made'[v] = e.type
            /\ \A u \in Session \ {s} : v \notin created'[u]
            /\ \A u \in Session : \A k \in Name \ {n} : Cached(u, k)' => objects'[u][k].value # v
        BY <1>3, <2>1, <3>1 DEF EntryValueRight
      <4>2. v \notin created'[s] => e.rec # NoValue /\ objValueFile'[e.rec] = v
        BY <2>1, <2>6, <3>1, <3>2
      <4> QED
        BY <1>8, <2>1, <3>1, <3>2, <4>1, <4>2 DEF EntryValueRight
    <3> QED
      BY <3>3, <3>4, <3>5 DEF EntryKept
  <2>13. IterationWrite(s, n, x, r, v, ValueKeys(r))
    <3>1. Writes(s, {ObjectKey(n)} \cup ValueKeys(r))
      BY <1>1, <2>11
    <3>2. objCatalogFile' = [objCatalogFile EXCEPT ![n] = x]
      BY <1>1, <1>9
    <3> HIDE DEF x, r, v
    <3> QED
      BY <1>1, <1>7, <2>5, <3>1, <3>2 DEF IterationWrite, cacheVars
  <2> HIDE DEF x, r, v
  <2> QED
    BY <2>9, <2>10, <2>12, <2>13, IterationStep
<1>10. CASE ~Saves(s, n)
  <2>1. e.state = "EntryDelete" \/ e.value = NoValue
    BY <1>6, <1>10
  <2>2. SecondKeys(s, n) = {ObjectKey(n)} \cup {}
    BY <1>10 DEF SecondKeys
  <2>3. UNCHANGED <<objCatalogFile, objValueFile>>
    BY <1>1, <1>10
  <2>4. objCatalogFile' = [objCatalogFile EXCEPT ![n] = there]
    BY <1>0, <2>3 DEF TypeOK, Objects
  <2>5. \A q \in ValueId : objValueFile'[q] = IF q = NoValue THEN NoValue ELSE objValueFile[q]
    BY <2>3, Numbers
  <2>6. there # Absent => ~there.defined
    BY <1>4
  <2>7. WriteRight(s, n, there, NoValue, NoValue)
    BY <1>5, <2>6 DEF WriteRight
  <2>8. WriteEntry(s, n, there, NoValue, NoValue)
    BY <2>6 DEF WriteEntry
  <2>9. ASSUME WriteStep(s, n, there, NoValue, NoValue) PROVE EntryKept(s, n)
    <3>1. /\ objects'[s][n] = e /\ Holds(s, n)' /\ mustAbort'[s] = mustAbort[s]
          /\ UNCHANGED <<made, created, objects>>
          /\ \A t \in Session : \A m \in Name : Cached(t, m)' <=> Cached(t, m)
      BY <1>1, <2>9 DEF WriteStep, Cached
    <3>2. EntryRight(s, n)'
      BY <1>4, <1>8, <2>3, <3>1 DEF EntryRight
    <3>3. WrittenRight(s, n)'
      BY <1>4, <1>8, <2>1, <2>3, <3>1 DEF WrittenRight
    <3>4. EntryValueRight(s, n)'
      <4> SUFFICES ASSUME e.value # NoValue PROVE EntryValueRight(s, n)'
        BY <3>1 DEF EntryValueRight
      <4>1. e.state = "EntryDelete"
        BY <2>1
      <4>2. /\ e.value <= Len(made') /\ made'[e.value] = e.type
            /\ \A u \in Session \ {s} : e.value \notin created'[u]
            /\ \A u \in Session : \A k \in Name \ {n} :
                  Cached(u, k)' => objects'[u][k].value # e.value
        BY <1>3, <3>1 DEF EntryValueRight
      <4>3. e.value \in created[s] =>
               /\ \A q \in ValueId : objValueFile[q] # e.value
               /\ \A m \in Name : \A y \in Record : Live(m, y) => y.rec # e.value
        BY <1>3, <4>1 DEF EntryValueRight
      <4>4. \A m \in Name : \A y : Live(m, y)' => Live(m, y)
        <5>1. \A m \in Name : \A y : Live(m, y)' <=>
                 IF m = n THEN there # Absent /\ y = there ELSE Live(m, y)
          BY <1>0, <2>7, <2>9, WriteLive
        <5> QED
          BY <1>5, <5>1
      <4> QED
        BY <1>8, <2>3, <3>1, <4>1, <4>2, <4>3, <4>4 DEF EntryValueRight
    <3> QED
      BY <3>2, <3>3, <3>4 DEF EntryKept
  <2>10. IterationWrite(s, n, there, NoValue, NoValue, {})
    <3>1. Writes(s, {ObjectKey(n)} \cup {})
      BY <1>1, <2>2
    <3> QED
      BY <1>1, <1>7, <2>4, <2>5, <3>1 DEF IterationWrite, cacheVars
  <2> QED
    BY <2>7, <2>8, <2>9, <2>10, IterationStep
<1> QED
  BY <1>9, <1>10
-----------------------------------------------------------------------------
(* An object is renamed in the file, in a transaction or outside of one.    *)
MoveStep(s, old, new) ==
    /\ old \in Name /\ new \in Name /\ old # new
    /\ Touches(s, old) /\ Touches(s, new) /\ ~Cached(s, old) /\ ~Cached(s, new)
    /\ UNCHANGED <<made, created, objects, phase, todo, mustAbort, drops, objValueFile>>
    /\ saved'.values = saved.values
    /\ \A m \in Name \ {old, new} : /\ objCatalogFile'[m] = objCatalogFile[m]
                                    /\ saved'.objects[m] = saved.objects[m]
    /\ \A t \in Session \ {s} : locks'[t] = locks[t] /\ pending'[t] = pending[t]
    /\ \A m \in Name : Holds(s, m) => Holds(s, m)'
    /\ \A m \in Name : Holds(s, m)' => Touches(s, m)
    /\ \A r \in ValueId : ValueLocked(s, r)' <=> ValueLocked(s, r)
    /\ pending'[s] # Absent => /\ pending'[s].old = old /\ pending'[s].new = new
                               /\ phase[s] \in {"none", "active"} /\ ~mustAbort[s]
                               /\ PendingFits(s, pending[s])'
    /\ phase[s] = "none" => locks'[s] = locks[s]

LEMMA MoveFrame ==
    ASSUME TypeOK, TypeOK', CatalogInv, NEW s \in Session, NEW old, NEW new,
           MoveStep(s, old, new)
    PROVE  /\ IdleInv' /\ SessionsApart' /\ PendingRight'
           /\ \A t \in Session \ {s} : ~Touches(t, old) /\ ~Touches(t, new)
           /\ \A t \in Session : \A m \in Name :
                 /\ Cached(t, m)' <=> Cached(t, m)
                 /\ Holds(t, m) => Holds(t, m)'
                 /\ t # s => (Holds(t, m)' <=> Holds(t, m)) /\ (Inserts(t, m)' <=> Inserts(t, m))
                 /\ Cached(t, m) => m \notin {old, new}
           /\ \A t \in Session : \A r \in ValueId : ValueLocked(t, r)' <=> ValueLocked(t, r)
<1>0. /\ TypeOK /\ RecordInv
      /\ UNCHANGED <<made, created, objects, phase, todo, mustAbort, drops, objValueFile>>
      /\ \A t \in Session \ {s} : locks'[t] = locks[t] /\ pending'[t] = pending[t]
      /\ old \in Name /\ new \in Name
  BY DEF CatalogInv, MoveStep
<1>1. \A t \in Session \ {s} : ~Touches(t, old) /\ ~Touches(t, new)
  BY <1>0 DEF MoveStep, RecordInv, SessionsApart
<1>2. \A t \in Session : \A m \in Name :
         /\ Cached(t, m)' <=> Cached(t, m)
         /\ Holds(t, m) => Holds(t, m)'
         /\ t # s => (Holds(t, m)' <=> Holds(t, m)) /\ (Inserts(t, m)' <=> Inserts(t, m))
  <2>1. \A t \in Session : \A m \in Name : Cached(t, m)' <=> Cached(t, m)
    BY <1>0 DEF Cached
  <2>2. \A m \in Name : Holds(s, m) => Holds(s, m)'
    BY DEF MoveStep
  <2>3. \A t \in Session \ {s} : \A m \in Name :
           (Holds(t, m)' <=> Holds(t, m)) /\ (Inserts(t, m)' <=> Inserts(t, m))
    BY <1>0 DEF Holds, Inserts
  <2> QED
    BY <2>1, <2>2, <2>3
<1>3. \A t \in Session : \A m \in Name : Cached(t, m) => m \notin {old, new}
  BY <1>0, <1>1, TouchFacts DEF MoveStep
<1>4. \A t \in Session : \A r \in ValueId : ValueLocked(t, r)' <=> ValueLocked(t, r)
  BY <1>0 DEF MoveStep, ValueLocked
<1>5. IdleInv'
  <2>1. ASSUME NEW t \in Session PROVE IdleRight(t)'
    <3>1. IdleRight(t)
      BY <1>0 DEF RecordInv, IdleInv
    <3>2. CASE t # s
      BY <1>0, <1>2, <3>1, <3>2 DEF IdleRight
    <3>3. CASE t = s
      BY <1>0, <1>2, <3>1, <3>3 DEF IdleRight, MoveStep
    <3> QED
      BY <3>2, <3>3
  <2> QED
    BY <2>1 DEF IdleInv
<1>6. \A t \in Session : \A m \in Name : Touches(t, m)' => Touches(t, m)
  <2> SUFFICES ASSUME NEW t \in Session, NEW m \in Name, Touches(t, m)' PROVE Touches(t, m)
    OBVIOUS
  <2>1. CASE t # s
    BY <1>0, <1>2, <2>1 DEF Touches
  <2>2. CASE t = s
    <3>1. CASE Cached(s, m)'
      BY <1>0, <1>2, <2>2, <3>1, TouchFacts
    <3>2. CASE Holds(s, m)'
      BY <2>2, <3>2 DEF MoveStep
    <3>3. CASE pending'[s] # Absent /\ m \in {pending'[s].old, pending'[s].new}
      BY <2>2, <3>3 DEF MoveStep
    <3> QED
      BY <2>2, <3>1, <3>2, <3>3 DEF Touches
  <2> QED
    BY <2>1, <2>2
<1>7. SessionsApart'
  <2>1. \A t, u \in Session : \A m \in Name : Touches(t, m)' /\ Touches(u, m)' => t = u
    BY <1>0, <1>6 DEF RecordInv, SessionsApart
  <2>2. \A t, u \in Session : \A r \in ValueId :
           ValueLocked(t, r)' /\ ValueLocked(u, r)' => t = u
    BY <1>0, <1>4 DEF RecordInv, SessionsApart
  <2> QED
    BY <2>1, <2>2 DEF SessionsApart
<1>8. PendingRight'
  <2>1. ASSUME NEW t \in Session \ {s}, pending'[t] # Absent PROVE PendingFits(t, pending[t])'
    <3> DEFINE p == pending[t]
    <3>1. pending'[t] = p /\ p # Absent /\ phase'[t] = phase[t]
      BY <1>0, <2>1
    <3>2. p.old \in Name /\ p.new \in Name /\ Touches(t, p.old) /\ Touches(t, p.new)
      BY <1>0, <3>1, TypeFacts, TouchFacts
    <3>3. p.old \notin {old, new} /\ p.new \notin {old, new}
      BY <1>1, <3>2
    <3>4. /\ objCatalogFile'[p.old] = objCatalogFile[p.old]
          /\ objCatalogFile'[p.new] = objCatalogFile[p.new]
      BY <3>2, <3>3 DEF MoveStep
    <3>5. PendingFits(t, p)
      BY <1>0, <3>1 DEF RecordInv, PendingRight
    <3>6. \A n \in Name : (Cached(t, n)' <=> Cached(t, n)) /\ (Holds(t, n)' <=> Holds(t, n))
      BY <1>2
    <3> QED
      BY <3>1, <3>2, <3>4, <3>5, <3>6 DEF PendingFits, Cached, Holds
  <2>2. ASSUME pending'[s] # Absent PROVE PendingFits(s, pending[s])'
    BY <2>2 DEF MoveStep
  <2> QED
    BY <2>1, <2>2 DEF PendingRight
<1> QED
  BY <1>1, <1>2, <1>3, <1>4, <1>5, <1>7, <1>8

(* The entries are for other names.                                         *)
LEMMA MoveEntries ==
    ASSUME TypeOK, TypeOK', CatalogInv, NEW s \in Session, NEW old, NEW new,
           MoveStep(s, old, new),
           \A m \in Name : \A y \in Record : Live(m, y)' =>
               Live(m, y) \/ (m = new /\ Live(old, y)),
           \A m \in Name : \A y \in Record : Stored(m, y)' =>
               Stored(m, y) \/
               (m = new /\ Live(new, y) /\ (y.defined => saved.values[y.rec] = objValueFile[y.rec]))
    PROVE  EntriesRight' /\ DoomedRight'
<1>0. /\ TypeOK /\ RecordInv
      /\ UNCHANGED <<made, created, objects, phase, todo, mustAbort, drops, objValueFile>>
      /\ saved'.values = saved.values /\ old \in Name /\ new \in Name
  BY DEF CatalogInv, MoveStep
<1>1. \A t \in Session : \A m \in Name :
         /\ Cached(t, m)' <=> Cached(t, m)
         /\ Holds(t, m) => Holds(t, m)'
         /\ Cached(t, m) => m \notin {old, new}
         /\ Early(t, m)' <=> Early(t, m)
         /\ Late(t, m)' <=> Late(t, m)
         /\ Deleted(t, m)' <=> Deleted(t, m)
  <2>1. \A t \in Session : \A m \in Name :
           /\ Cached(t, m)' <=> Cached(t, m)
           /\ Holds(t, m) => Holds(t, m)'
           /\ Cached(t, m) => m \notin {old, new}
    BY MoveFrame
  <2> QED
    BY <1>0, <2>1 DEF Early, Late, Deleted
<1>2. EntriesRight'
  <2> SUFFICES ASSUME NEW t \in Session, NEW m \in Name, Cached(t, m)'
               PROVE  /\ phase'[t] # "none"
                      /\ EntryRight(t, m)' /\ WrittenRight(t, m)' /\ EntryValueRight(t, m)'
    BY DEF EntriesRight
  <2>1. /\ Cached(t, m) /\ m \notin {old, new} /\ objCatalogFile'[m] = objCatalogFile[m]
        /\ (Early(t, m)' <=> Early(t, m)) /\ (Late(t, m)' <=> Late(t, m))
        /\ (Holds(t, m) => Holds(t, m)')
    BY <1>1 DEF MoveStep
  <2>2. phase[t] # "none" /\ EntryRight(t, m) /\ WrittenRight(t, m) /\ EntryValueRight(t, m)
    BY <2>1 DEF CatalogInv, EntriesRight
  <2>3. EntryRight(t, m)'
    BY <1>0, <2>1, <2>2 DEF EntryRight
  <2>4. WrittenRight(t, m)'
    BY <1>0, <2>1, <2>2 DEF WrittenRight
  <2>5. StoredValue(m)' = StoredValue(m)
    BY <1>0, <2>1 DEF StoredValue
  <2>6. EntryValueRight(t, m)'
    BY <1>0, <1>1, <2>1, <2>2, <2>5 DEF EntryValueRight
  <2> QED
    BY <1>0, <2>2, <2>3, <2>4, <2>6
<1>3. DoomedRight'
  <2> SUFFICES ASSUME NEW t \in Session, NEW w \in ValueId, Doomed(t, w)'
               PROVE  /\ w <= Len(made')
                      /\ \A u \in Session \ {t} : w \notin created'[u]
                      /\ \A u \in Session : \A m \in Name :
                            Cached(u, m)' /\ objects'[u][m].value = w => u = t /\ Deleted(t, m)'
                      /\ \A m \in Name : \A y \in Record :
                            /\ Live(m, y)' /\ y.defined /\ objValueFile'[y.rec] = w =>
                                  Cached(t, m)' /\ (mustAbort'[t] \/ Early(t, m)')
                            /\ Stored(m, y)' /\ y.defined /\ saved'.values[y.rec] = w =>
                                  Cached(t, m)' \/ Holds(t, m)'
    BY DEF DoomedRight
  <2>1. Doomed(t, w)
    BY <1>0, <1>1 DEF Doomed
  <2>2. /\ w <= Len(made)
        /\ \A u \in Session \ {t} : w \notin created[u]
        /\ \A u \in Session : \A m \in Name :
              Cached(u, m) /\ objects[u][m].value = w => u = t /\ Deleted(t, m)
    BY <2>1 DEF CatalogInv, DoomedRight
  <2>3. \A m \in Name : \A y \in Record :
           Live(m, y) /\ y.defined /\ objValueFile[y.rec] = w =>
                 Cached(t, m) /\ (mustAbort[t] \/ Early(t, m))
    BY <2>1 DEF CatalogInv, DoomedRight
  <2>4. \A m \in Name : \A y \in Record :
           Stored(m, y) /\ y.defined /\ saved.values[y.rec] = w => Cached(t, m) \/ Holds(t, m)
    BY <2>1 DEF CatalogInv, DoomedRight
  <2>5. ASSUME NEW m \in Name, NEW y \in Record, Live(m, y)', y.defined, objValueFile[y.rec] = w
        PROVE  Cached(t, m) /\ (mustAbort[t] \/ Early(t, m))
    <3>1. ~(m = new /\ Live(old, y))
      BY <1>0, <1>1, <2>3, <2>5
    <3> QED
      BY <2>3, <2>5, <3>1
  <2>6. ASSUME NEW m \in Name, NEW y \in Record, Stored(m, y)', y.defined, saved.values[y.rec] = w
        PROVE  Cached(t, m) \/ Holds(t, m)
    <3>1. ~(m = new /\ Live(new, y) /\ (y.defined => saved.values[y.rec] = objValueFile[y.rec]))
      BY <1>0, <1>1, <2>3, <2>6
    <3> QED
      BY <2>4, <2>6, <3>1
  <2> QED
    BY <1>0, <1>1, <2>2, <2>5, <2>6
<1> QED
  BY <1>2, <1>3

(* The old record goes.                                                     *)
MovesOut(s, old, new) ==
    /\ pending[s] # Absent /\ pending[s].op = "delete" /\ DeleteOld(s)
    /\ old = pending[s].old /\ new = pending[s].new

LEMMA ObjectLock ==
    ASSUME TypeOK, NEW s \in Session, NEW n, Lock(s, {ObjectKey(n)})
    PROVE  /\ \A m \in Name : Holds(s, m)' <=> Holds(s, m) \/ m = n
           /\ \A r \in ValueId : ValueLocked(s, r)' <=> ValueLocked(s, r)
<1> DEFINE L == {ObjectKey(n)}
<1>1. /\ \A m : ObjectKey(m) \in L <=> m = n
      /\ \A r \in ValueId : <<"value", r>> \in L <=> FALSE
  BY ObjectKeyFacts
<1>2. Lock(s, L)
  OBVIOUS
<1> HIDE DEF L
<1> QED
  BY <1>1, <1>2, LockEffect

LEMMA MoveOutStep ==
    ASSUME TypeOK, TypeOK', CatalogInv, NEW s \in Session, NEW old, NEW new, MovesOut(s, old, new)
    PROVE  RecordInv' /\ EntriesRight' /\ DoomedRight'
<1> DEFINE there == objCatalogFile[old]
<1>0. TypeOK /\ RecordInv /\ IdleRight(s)
  BY DEF CatalogInv, RecordInv, IdleInv
<1>1. PICK p \in Record :
         /\ old \in Name /\ new \in Name /\ old # new /\ ~Cached(s, old) /\ ~Cached(s, new)
         /\ phase[s] \in {"none", "active"} /\ ~mustAbort[s]
         /\ there # Absent /\ p = there /\ pending[s].record = there
         /\ objCatalogFile[new] = Absent /\ ~Holds(s, old) /\ ~Holds(s, new)
         /\ pending[s] # Absent /\ pending[s] \in Pending /\ pending[s].op = "delete"
         /\ pending[s].old = old /\ pending[s].new = new
  <2>1. PendingFits(s, pending[s]) /\ pending[s] \in Pending
    BY <1>0 DEF MovesOut, RecordInv, PendingRight, TypeOK
  <2>2. old \in Name /\ new \in Name /\ there \in Record
    BY <1>0, <2>1, TypeFacts DEF MovesOut, PendingFits
  <2> QED
    BY <1>0, <2>1, <2>2 DEF MovesOut, PendingFits, IdleRight
<1>2. /\ objCatalogFile' = [objCatalogFile EXCEPT ![old] = Absent]
      /\ saved' = IF phase[s] = "none" THEN [saved EXCEPT !.objects[old] = Absent] ELSE saved
      /\ Free(s, ObjectKey(old))
      /\ IF phase[s] = "none" THEN UNCHANGED locks ELSE Lock(s, {ObjectKey(old)} \cup {})
      /\ objValueFile' = [q \in ValueId |-> IF <<"value", q>> \in {} THEN NoValue
                                                                     ELSE objValueFile[q]]
      /\ pending' = [pending EXCEPT ![s] = [@ EXCEPT !.op = "insert"]]
      /\ UNCHANGED <<made, files, typeCatalogFile, cacheVars, phase, todo, mustAbort,
                     created, drops>>
  BY <1>1 DEF MovesOut, DeleteOld, WriteObject
<1>3. /\ objValueFile' = objValueFile
      /\ \A m \in Name : objCatalogFile'[m] = IF m = old THEN Absent ELSE objCatalogFile[m]
      /\ saved'.values = saved.values
      /\ \A m \in Name : saved'.objects[m] = IF m = old /\ phase[s] = "none" THEN Absent
                                             ELSE saved.objects[m]
  BY <1>0, <1>1, <1>2 DEF TypeOK, Objects, Values
<1>4. /\ \A t \in Session \ {s} : locks'[t] = locks[t] /\ pending'[t] = pending[t]
      /\ pending'[s] = [pending[s] EXCEPT !.op = "insert"]
  BY <1>0, <1>1, <1>2 DEF TypeOK, Lock
<1>5. /\ pending'[s] # Absent /\ pending'[s].op = "insert" /\ pending'[s].old = old
      /\ pending'[s].new = new /\ pending'[s].record = there
  <2>1. /\ pending'[s].op = "insert" /\ pending'[s].old = old
        /\ pending'[s].new = new /\ pending'[s].record = there
    BY <1>1, <1>4 DEF Pending
  <2>2. pending'[s] \in Pending
    BY <1>1, <1>4 DEF Pending
  <2> QED
    BY <2>1, <2>2, AbsentIsNothing
<1>6. /\ \A m \in Name : Holds(s, m)' <=> Holds(s, m) \/ (m = old /\ phase[s] # "none")
      /\ \A r \in ValueId : ValueLocked(s, r)' <=> ValueLocked(s, r)
  <2>1. CASE phase[s] = "none"
    BY <1>2, <2>1 DEF Holds, ValueLocked
  <2>2. CASE phase[s] # "none"
    <3>1. Lock(s, {ObjectKey(old)})
      <4>1. {ObjectKey(old)} \cup {} = {ObjectKey(old)}
        OBVIOUS
      <4> QED
        BY <1>2, <2>2, <4>1
    <3> QED
      BY <1>0, <2>2, <3>1, ObjectLock
  <2> QED
    BY <2>1, <2>2
<1>7. Touches(s, old) /\ Touches(s, new)
  BY <1>0, <1>1, TouchFacts
<1>8. MoveStep(s, old, new)
  <2>1. PendingFits(s, pending[s])'
    <3>1. ~Cached(s, old)' /\ ~Cached(s, new)'
      BY <1>1, <1>2 DEF Cached, cacheVars
    <3>2. ~Holds(s, new)' /\ (phase'[s] = "active" => Holds(s, old)')
      BY <1>1, <1>2, <1>6
    <3> QED
      BY <1>1, <1>3, <1>5, <3>1, <3>2 DEF PendingFits, Cached, Holds
  <2>2. \A m \in Name : Holds(s, m)' => Touches(s, m)
    BY <1>0, <1>6, <1>7, TouchFacts
  <2>3. phase[s] = "none" => locks'[s] = locks[s]
    BY <1>2
  <2> QED
    BY <1>1, <1>2, <1>3, <1>4, <1>5, <1>6, <1>7, <2>1, <2>2, <2>3 DEF MoveStep, cacheVars
<1>9. /\ IdleInv' /\ SessionsApart' /\ PendingRight'
      /\ \A t \in Session \ {s} : ~Touches(t, old) /\ ~Touches(t, new)
      /\ \A t \in Session : \A m \in Name :
            /\ Cached(t, m)' <=> Cached(t, m)
            /\ Holds(t, m) => Holds(t, m)'
            /\ t # s => (Holds(t, m)' <=> Holds(t, m)) /\ (Inserts(t, m)' <=> Inserts(t, m))
            /\ Cached(t, m) => m \notin {old, new}
      /\ \A t \in Session : \A r \in ValueId : ValueLocked(t, r)' <=> ValueLocked(t, r)
  BY <1>0, <1>8, MoveFrame
<1>10. \A m \in Name : ~Inserts(s, m) /\ (Inserts(s, m)' <=> m = new)
  BY <1>1, <1>5 DEF Inserts
<1>11. \A t \in Session \ {s} : ~Inserts(t, old) /\ ~Inserts(t, new)
  BY <1>0, <1>1, <1>9, TouchFacts
<1>12. \A y : (Live(old, y) <=> y = there) /\ ~Live(new, y)
  BY <1>1, <1>10, <1>11 DEF Live
<1>13. \A m \in Name : \A y : Live(m, y)' <=>
          IF m = new THEN Live(old, y) ELSE m # old /\ Live(m, y)
  <2> SUFFICES ASSUME NEW m \in Name, NEW y
               PROVE  Live(m, y)' <=> IF m = new THEN Live(old, y) ELSE m # old /\ Live(m, y)
    OBVIOUS
  <2>1. CASE m = new
    BY <1>1, <1>3, <1>5, <1>9, <1>10, <1>11, <1>12, <2>1 DEF Live
  <2>2. CASE m = old
    BY <1>1, <1>3, <1>9, <1>10, <1>11, <2>2 DEF Live
  <2>3. CASE m \notin {old, new}
    BY <1>3, <1>4, <1>9, <1>10, <2>3 DEF Live
  <2> QED
    BY <2>1, <2>2, <2>3
<1>14. \A m \in Name : \A y : Stored(m, y)' <=> Stored(m, y) /\ ~(m = old /\ phase[s] = "none")
  BY <1>3 DEF Stored
<1>15. EntriesRight' /\ DoomedRight'
  BY <1>0, <1>8, <1>13, <1>14, MoveEntries
<1>16. UnlockedCommitted'
  <2>1. ASSUME NEW m \in Name, \A t \in Session : ~Holds(t, m)'
        PROVE  objCatalogFile'[m] = saved'.objects[m]
    <3>1. \A t \in Session : ~Holds(t, m)
      BY <1>9, <2>1
    <3>2. m = old => phase[s] = "none"
      BY <1>6, <2>1
    <3>3. objCatalogFile[m] = saved.objects[m]
      BY <1>0, <3>1 DEF RecordInv, UnlockedCommitted
    <3> QED
      BY <1>3, <3>2, <3>3
  <2>2. ASSUME NEW q \in ValueId, \A t \in Session : ~ValueLocked(t, q)'
        PROVE  objValueFile'[q] = saved'.values[q]
    BY <1>0, <1>3, <1>9, <2>2 DEF RecordInv, UnlockedCommitted
  <2> QED
    BY <2>1, <2>2 DEF UnlockedCommitted
<1>17. RecordsApart'
  <2> SUFFICES ASSUME NEW n \in Name, NEW m \in Name, NEW x \in Record, NEW y \in Record,
                      x.rec = y.rec, x.rec # NoValue, n # m
               PROVE  /\ ~(Live(n, x)' /\ Live(m, y)')
                      /\ ~(Stored(n, x)' /\ Stored(m, y)')
                      /\ Live(n, x)' /\ Stored(m, y)' =>
                            \E t \in Session : Holds(t, m)' /\ (Holds(t, n)' \/ Inserts(t, n)')
    BY DEF RecordsApart
  <2>1. \A k, l \in Name : k # l =>
           /\ ~(Live(k, x) /\ Live(l, y))
           /\ ~(Stored(k, x) /\ Stored(l, y))
           /\ Live(k, x) /\ Stored(l, y) =>
                 \E t \in Session : Holds(t, l) /\ (Holds(t, k) \/ Inserts(t, k))
    BY <1>0 DEF RecordInv, RecordsApart
  <2>2. ~(Live(n, x)' /\ Live(m, y)')
    BY <1>1, <1>13, <2>1
  <2>3. ~(Stored(n, x)' /\ Stored(m, y)')
    BY <1>14, <2>1
  <2>4. ASSUME Live(n, x)', Stored(m, y)'
        PROVE  \E t \in Session : Holds(t, m)' /\ (Holds(t, n)' \/ Inserts(t, n)')
    <3>1. Stored(m, y) /\ ~(m = old /\ phase[s] = "none")
      BY <1>14, <2>4
    <3>2. CASE n = new /\ m = old
      BY <1>6, <1>10, <3>1, <3>2
    <3>3. CASE n = new /\ m # old
      <4>1. Live(old, x)
        BY <1>13, <2>4, <3>3
      <4>2. PICK t \in Session : Holds(t, old) \/ Inserts(t, old)
        BY <1>1, <2>1, <3>1, <3>3, <4>1
      <4>3. Touches(t, old)
        BY <1>0, <1>1, <4>2, TouchFacts
      <4> QED
        BY <1>1, <1>9, <1>10, <4>2, <4>3
    <3>4. CASE n # new
      <4>1. Live(n, x)
        BY <1>13, <2>4, <3>4
      <4>2. PICK t \in Session : Holds(t, m) /\ (Holds(t, n) \/ Inserts(t, n))
        BY <2>1, <3>1, <4>1
      <4> QED
        BY <1>9, <1>10, <4>2
    <3> QED
      BY <3>2, <3>3, <3>4
  <2> QED
    BY <2>2, <2>3, <2>4
<1>18. ValueLocks'
  <2>1. \A t \in Session : \A r \in ValueId : ValueLocked(t, r)' => r <= Len(made')
    BY <1>0, <1>2, <1>9 DEF RecordInv, ValueLocks
  <2>2. ASSUME NEW t \in Session, NEW k \in Name, NEW x \in Record,
               Live(k, x)' \/ Stored(k, x)', ValueLocked(t, x.rec)'
        PROVE  Holds(t, k)'
    <3>1. x.rec \in ValueId
      BY <2>2, KeyFacts
    <3>2. \A l \in Name : Live(l, x) \/ Stored(l, x) => Holds(t, l)
      BY <1>0, <1>9, <2>2, <3>1 DEF RecordInv, ValueLocks
    <3>3. ~Holds(t, old)
      BY <1>0, <1>1, <1>9, TouchFacts
    <3>4. Live(k, x) \/ Stored(k, x)
      BY <1>1, <1>13, <1>14, <2>2, <3>2, <3>3
    <3> QED
      BY <1>9, <3>2, <3>4
  <2> QED
    BY <2>1, <2>2 DEF ValueLocks
<1>19. RecordsRight'
  <2>1. UNCHANGED <<made, objValueFile>> /\ saved'.values = saved.values
    BY <1>2, <1>3
  <2>2. \A m \in Name : \A x \in Record : Live(m, x)' => RecordRight(x, objValueFile)'
    BY <1>0, <1>1, <1>13, <2>1 DEF RecordInv, RecordsRight, RecordRight
  <2>3. \A m \in Name : \A x \in Record : Stored(m, x)' => RecordRight(x, saved.values)'
    BY <1>0, <1>14, <2>1 DEF RecordInv, RecordsRight, RecordRight
  <2> QED
    BY <2>2, <2>3 DEF RecordsRight
<1>20. ValuesApart'
  BY <1>0, <1>2, <1>3 DEF RecordInv, ValuesApart
<1>21. CreatedPrivate'
  BY <1>0, <1>1, <1>2, <1>3, <1>9, <1>13, <1>14 DEF RecordInv, CreatedPrivate, TypeOK
<1> QED
  BY <1>9, <1>15, <1>16, <1>17, <1>18, <1>19, <1>20, <1>21 DEF RecordInv

(* The record comes back under the new name.                                *)
MovesIn(s, old, new, x) ==
    /\ pending[s] # Absent /\ InsertNew(s)
    /\ old = pending[s].old /\ new = pending[s].new /\ x = pending[s].record

LEMMA MoveInStep ==
    ASSUME TypeOK, TypeOK', CatalogInv, NEW s \in Session, NEW old, NEW new, NEW x,
           MovesIn(s, old, new, x)
    PROVE  RecordInv' /\ EntriesRight' /\ DoomedRight'
<1>0. TypeOK /\ RecordInv /\ IdleRight(s)
  BY DEF CatalogInv, RecordInv, IdleInv
<1>1. /\ old \in Name /\ new \in Name /\ old # new /\ ~Cached(s, old) /\ ~Cached(s, new)
      /\ phase[s] \in {"none", "active"} /\ ~mustAbort[s]
      /\ objCatalogFile[new] = Absent /\ ~Holds(s, new)
      /\ pending[s] # Absent /\ pending[s].op = "insert"
      /\ pending[s].old = old /\ pending[s].new = new
      /\ x = pending[s].record /\ x \in Record /\ x # Absent
  <2>1. PendingFits(s, pending[s]) /\ pending[s] # Absent /\ pending[s].op = "insert"
    BY <1>0 DEF MovesIn, InsertNew, RecordInv, PendingRight
  <2>2. old \in Name /\ new \in Name /\ x = pending[s].record /\ x \in Record
    BY <1>0, <2>1, TypeFacts DEF MovesIn
  <2>3. x # Absent
    BY <2>2, AbsentIsNothing
  <2> QED
    BY <1>0, <2>1, <2>2, <2>3 DEF MovesIn, PendingFits, IdleRight
<1>2. /\ objCatalogFile' = [objCatalogFile EXCEPT ![new] = x]
      /\ saved' = IF phase[s] = "none" THEN [saved EXCEPT !.objects[new] = x] ELSE saved
      /\ IF phase[s] = "none" THEN UNCHANGED locks ELSE Lock(s, {ObjectKey(new)})
      /\ pending' = [pending EXCEPT ![s] = Absent]
      /\ UNCHANGED <<made, files, objValueFile, typeCatalogFile, cacheVars, phase, todo,
                     mustAbort, created, drops>>
  BY <1>1 DEF MovesIn, InsertNew, WriteObject
<1>3. /\ \A m \in Name : objCatalogFile'[m] = IF m = new THEN x ELSE objCatalogFile[m]
      /\ saved'.values = saved.values
      /\ \A m \in Name : saved'.objects[m] = IF m = new /\ phase[s] = "none" THEN x
                                             ELSE saved.objects[m]
  BY <1>0, <1>1, <1>2 DEF TypeOK, Objects, Values
<1>4. /\ \A t \in Session \ {s} : locks'[t] = locks[t] /\ pending'[t] = pending[t]
      /\ pending'[s] = Absent
  BY <1>0, <1>1, <1>2 DEF TypeOK, Lock
<1>5. /\ \A m \in Name : Holds(s, m)' <=> Holds(s, m) \/ (m = new /\ phase[s] # "none")
      /\ \A r \in ValueId : ValueLocked(s, r)' <=> ValueLocked(s, r)
  <2>1. CASE phase[s] = "none"
    BY <1>2, <2>1 DEF Holds, ValueLocked
  <2>2. CASE phase[s] # "none"
    BY <1>0, <1>2, <2>2, ObjectLock
  <2> QED
    BY <2>1, <2>2
<1>6. Touches(s, old) /\ Touches(s, new)
  BY <1>0, <1>1, TouchFacts
<1>7. MoveStep(s, old, new)
  <2>1. \A m \in Name : Holds(s, m)' => Touches(s, m)
    BY <1>0, <1>5, <1>6, TouchFacts
  <2>2. phase[s] = "none" => locks'[s] = locks[s]
    BY <1>2
  <2> QED
    BY <1>1, <1>2, <1>3, <1>4, <1>5, <1>6, <2>1, <2>2 DEF MoveStep, cacheVars
<1>8. /\ IdleInv' /\ SessionsApart' /\ PendingRight'
      /\ \A t \in Session \ {s} : ~Touches(t, old) /\ ~Touches(t, new)
      /\ \A t \in Session : \A m \in Name :
            /\ Cached(t, m)' <=> Cached(t, m)
            /\ Holds(t, m) => Holds(t, m)'
            /\ t # s => (Holds(t, m)' <=> Holds(t, m)) /\ (Inserts(t, m)' <=> Inserts(t, m))
            /\ Cached(t, m) => m \notin {old, new}
      /\ \A t \in Session : \A r \in ValueId : ValueLocked(t, r)' <=> ValueLocked(t, r)
  BY <1>0, <1>7, MoveFrame
<1>9. \A m \in Name : (Inserts(s, m) <=> m = new) /\ ~Inserts(s, m)'
  BY <1>1, <1>4 DEF Inserts
<1>10. \A t \in Session \ {s} : ~Inserts(t, new) /\ ~Inserts(t, old)
  BY <1>0, <1>1, <1>8, TouchFacts
<1>11. \A y : Live(new, y) <=> y = x
  BY <1>1, <1>9, <1>10 DEF Live
<1>12. \A m \in Name : \A y : Live(m, y)' <=> Live(m, y)
  <2> SUFFICES ASSUME NEW m \in Name, NEW y PROVE Live(m, y)' <=> Live(m, y)
    OBVIOUS
  <2>1. CASE m = new
    BY <1>1, <1>3, <1>8, <1>9, <1>10, <1>11, <2>1 DEF Live
  <2>2. CASE m # new
    BY <1>1, <1>3, <1>4, <1>8, <1>9, <2>2 DEF Live
  <2> QED
    BY <2>1, <2>2
<1>13. \A m \in Name : \A y : Stored(m, y)' <=>
          IF m = new /\ phase[s] = "none" THEN y = x ELSE Stored(m, y)
  BY <1>1, <1>3 DEF Stored
(* Outside of a transaction nobody has locked the record of the value.      *)
<1>14. ASSUME phase[s] = "none"
       PROVE  /\ locks[s] = {}
              /\ \A t \in Session : ~ValueLocked(t, x.rec) /\ ~Holds(t, new)
  <2>1. locks[s] = {}
    BY <1>0, <1>14 DEF IdleRight
  <2>2. \A t \in Session : ~Holds(t, new)
    BY <1>0, <1>1, <1>8, TouchFacts
  <2>3. ASSUME NEW t \in Session, ValueLocked(t, x.rec) PROVE FALSE
    <3>1. Live(new, x)
      BY <1>11
    <3> QED
      BY <1>0, <1>1, <2>2, <2>3, <3>1 DEF RecordInv, ValueLocks
  <2> QED
    BY <2>1, <2>2, <2>3
<1>15. phase[s] = "none" /\ x.rec # NoValue => saved.values[x.rec] = objValueFile[x.rec]
  <2> SUFFICES ASSUME phase[s] = "none", x.rec # NoValue
               PROVE  saved.values[x.rec] = objValueFile[x.rec]
    OBVIOUS
  <2>1. x.rec \in ValueId
    BY <1>1, RecordFields
  <2> QED
    BY <1>0, <1>14, <2>1 DEF RecordInv, UnlockedCommitted
<1>16. RecordRight(x, objValueFile)
  BY <1>0, <1>1, <1>11 DEF RecordInv, RecordsRight
<1>17. EntriesRight' /\ DoomedRight'
  <2>1. \A m \in Name : \A y \in Record : Live(m, y)' =>
            Live(m, y) \/ (m = new /\ Live(old, y))
    BY <1>12
  <2>2. \A m \in Name : \A y \in Record : Stored(m, y)' =>
            Stored(m, y) \/
            (m = new /\ Live(new, y) /\ (y.defined => saved.values[y.rec] = objValueFile[y.rec]))
    BY <1>11, <1>13, <1>15, <1>16 DEF RecordRight
  <2> QED
    BY <1>0, <1>7, <2>1, <2>2, MoveEntries
<1>18. UnlockedCommitted'
  <2>1. ASSUME NEW m \in Name, \A t \in Session : ~Holds(t, m)'
        PROVE  objCatalogFile'[m] = saved'.objects[m]
    <3>1. \A t \in Session : ~Holds(t, m)
      BY <1>8, <2>1
    <3>2. m = new => phase[s] = "none"
      BY <1>5, <2>1
    <3>3. objCatalogFile[m] = saved.objects[m]
      BY <1>0, <3>1 DEF RecordInv, UnlockedCommitted
    <3> QED
      BY <1>3, <3>2, <3>3
  <2>2. ASSUME NEW q \in ValueId, \A t \in Session : ~ValueLocked(t, q)'
        PROVE  objValueFile'[q] = saved'.values[q]
    BY <1>0, <1>2, <1>3, <1>8, <2>2 DEF RecordInv, UnlockedCommitted
  <2> QED
    BY <2>1, <2>2 DEF UnlockedCommitted
<1>19. RecordsApart'
  <2> SUFFICES ASSUME NEW n \in Name, NEW m \in Name, NEW y \in Record, NEW z \in Record,
                      y.rec = z.rec, y.rec # NoValue, n # m
               PROVE  /\ ~(Live(n, y)' /\ Live(m, z)')
                      /\ ~(Stored(n, y)' /\ Stored(m, z)')
                      /\ Live(n, y)' /\ Stored(m, z)' =>
                            \E t \in Session : Holds(t, m)' /\ (Holds(t, n)' \/ Inserts(t, n)')
    BY DEF RecordsApart
  <2>1. \A k, l \in Name : \A a, b \in Record : k # l /\ a.rec = b.rec /\ a.rec # NoValue =>
           /\ ~(Live(k, a) /\ Live(l, b))
           /\ ~(Stored(k, a) /\ Stored(l, b))
           /\ Live(k, a) /\ Stored(l, b) =>
                 \E t \in Session : Holds(t, l) /\ (Holds(t, k) \/ Inserts(t, k))
    BY <1>0 DEF RecordInv, RecordsApart
  <2>2. ~(Live(n, y)' /\ Live(m, z)')
    BY <1>12, <2>1
  <2>3. ASSUME phase[s] = "none", NEW l \in Name \ {new}, NEW b \in Record, Stored(l, b),
               b.rec = x.rec, b.rec # NoValue
        PROVE  FALSE
    <3>1. PICK t \in Session : Holds(t, l) /\ (Holds(t, new) \/ Inserts(t, new))
      BY <1>1, <1>11, <2>1, <2>3
    <3>2. t = s
      BY <1>10, <1>14, <2>3, <3>1
    <3> QED
      BY <1>14, <2>3, <3>1, <3>2 DEF Holds
  <2>4. ~(Stored(n, y)' /\ Stored(m, z)')
    BY <1>13, <2>1, <2>3
  <2>5. ASSUME Live(n, y)', Stored(m, z)'
        PROVE  \E t \in Session : Holds(t, m)' /\ (Holds(t, n)' \/ Inserts(t, n)')
    <3>1. Live(n, y)
      BY <1>12, <2>5
    <3>2. Stored(m, z)
      BY <1>11, <1>13, <2>1, <2>5, <3>1
    <3>3. PICK t \in Session : Holds(t, m) /\ (Holds(t, n) \/ Inserts(t, n))
      BY <2>1, <3>1, <3>2
    <3>4. CASE t = s
      <4>1. phase[s] # "none"
        BY <1>14, <3>3, <3>4 DEF Holds
      <4> QED
        BY <1>5, <1>9, <3>3, <3>4, <4>1
    <3> QED
      BY <1>8, <3>3, <3>4
  <2> QED
    BY <2>2, <2>4, <2>5
<1>20. ValueLocks'
  <2>1. \A t \in Session : \A r \in ValueId : ValueLocked(t, r)' => r <= Len(made')
    BY <1>0, <1>2, <1>8 DEF RecordInv, ValueLocks
  <2>2. ASSUME NEW t \in Session, NEW k \in Name, NEW y \in Record,
               Live(k, y)' \/ Stored(k, y)', ValueLocked(t, y.rec)'
        PROVE  Holds(t, k)'
    <3>1. y.rec \in ValueId
      BY <2>2, KeyFacts
    <3>2. Live(k, y) \/ Stored(k, y)
      BY <1>11, <1>12, <1>13, <2>2
    <3>3. Holds(t, k)
      BY <1>0, <1>8, <2>2, <3>1, <3>2 DEF RecordInv, ValueLocks
    <3> QED
      BY <1>8, <3>3
  <2> QED
    BY <2>1, <2>2 DEF ValueLocks
<1>21. RecordsRight'
  <2>1. UNCHANGED <<made, objValueFile>> /\ saved'.values = saved.values
    BY <1>2, <1>3
  <2>2. \A m \in Name : \A y \in Record : Live(m, y)' => RecordRight(y, objValueFile)'
    BY <1>0, <1>12, <2>1 DEF RecordInv, RecordsRight, RecordRight
  <2>3. phase[s] = "none" => RecordRight(x, saved.values)'
    BY <1>15, <1>16, <2>1 DEF RecordRight
  <2>4. ASSUME NEW m \in Name, NEW y \in Record, Stored(m, y)' PROVE RecordRight(y, saved.values)'
    <3>1. CASE m = new /\ phase[s] = "none"
      BY <1>13, <2>3, <2>4, <3>1
    <3>2. CASE ~(m = new /\ phase[s] = "none")
      <4>1. Stored(m, y)
        BY <1>13, <2>4, <3>2
      <4>2. RecordRight(y, saved.values)
        BY <1>0, <4>1 DEF RecordInv, RecordsRight
      <4> QED
        BY <2>1, <4>2 DEF RecordRight
    <3> QED
      BY <3>1, <3>2
  <2> QED
    BY <2>2, <2>4 DEF RecordsRight
<1>22. ValuesApart'
  BY <1>0, <1>2, <1>3 DEF RecordInv, ValuesApart
<1>23. CreatedPrivate'
  <2>1. UNCHANGED <<made, created, phase, objValueFile>> /\ saved'.values = saved.values
    BY <1>2, <1>3
  <2> SUFFICES ASSUME NEW t \in Session, NEW v \in created[t]
               PROVE  /\ v <= Len(made')
                      /\ \A u \in Session : v \in created'[u] \/ ValueLocked(u, v)' => t = u
                      /\ \A r \in ValueId :
                            /\ saved'.values[r] # v
                            /\ objValueFile'[r] = v => phase'[t] = "second" /\ ValueLocked(t, r)'
                      /\ \A n \in Name : \A y \in Record :
                            /\ Stored(n, y)' => y.rec # v
                            /\ Live(n, y)' /\ y.rec = v => ValueLocked(t, v)'
    BY <2>1 DEF CreatedPrivate
  <2>2. v \in ValueId
    BY <1>0 DEF TypeOK
  <2>3. /\ v <= Len(made)
        /\ \A u \in Session : v \in created[u] \/ ValueLocked(u, v) => t = u
        /\ \A r \in ValueId :
              /\ saved.values[r] # v
              /\ objValueFile[r] = v => phase[t] = "second" /\ ValueLocked(t, r)
    BY <1>0 DEF RecordInv, CreatedPrivate
  <2>4. \A n \in Name : \A y \in Record :
              /\ Stored(n, y) => y.rec # v
              /\ Live(n, y) /\ y.rec = v => ValueLocked(t, v)
    BY <1>0 DEF RecordInv, CreatedPrivate
  <2>5. phase[s] = "none" => x.rec # v
    BY <1>1, <1>11, <1>14, <2>4
  <2>6. \A n \in Name : \A y \in Record :
              /\ Stored(n, y)' => y.rec # v
              /\ Live(n, y)' /\ y.rec = v => ValueLocked(t, v)'
    BY <1>8, <1>12, <1>13, <2>2, <2>4, <2>5
  <2> QED
    BY <1>8, <2>1, <2>2, <2>3, <2>6
<1> QED
  BY <1>8, <1>17, <1>18, <1>19, <1>20, <1>21, <1>22, <1>23 DEF RecordInv
-----------------------------------------------------------------------------
(* Transactions end: S are their sessions.                                  *)
HeldBy(S, m) == \E s \in S : Holds(s, m)
LockedBy(S, r) == \E s \in S : ValueLocked(s, r)

Ends(S) ==
    /\ UNCHANGED made
    /\ \A t \in S : /\ phase'[t] = "none" /\ locks'[t] = {} /\ created'[t] = {}
                    /\ drops'[t] = {} /\ ~mustAbort'[t] /\ pending'[t] = Absent
                    /\ \A m \in Name : ~Cached(t, m)'
    /\ \A t \in Session \ S :
          /\ phase'[t] = phase[t] /\ todo'[t] = todo[t] /\ objects'[t] = objects[t]
          /\ locks'[t] = locks[t] /\ mustAbort'[t] = mustAbort[t]
          /\ created'[t] = created[t] /\ drops'[t] = drops[t] /\ pending'[t] = pending[t]
          /\ \A m \in Name : Touches(t, m) => objCatalogFile'[m] = objCatalogFile[m]

(* What they have locked goes back to the committed state, or becomes it.   *)
EndRecords(S) ==
    /\ \A m \in Name : \A y \in Record :
          /\ Live(m, y)' =>
                \/ /\ Live(m, y)
                   /\ y.rec # NoValue => objValueFile'[y.rec] = objValueFile[y.rec]
                \/ /\ HeldBy(S, m) /\ Stored(m, y)
                   /\ y.rec # NoValue => objValueFile'[y.rec] = saved.values[y.rec]
          /\ Stored(m, y)' =>
                \/ /\ Stored(m, y)
                   /\ y.rec # NoValue => saved'.values[y.rec] = saved.values[y.rec]
                \/ /\ HeldBy(S, m) /\ Live(m, y)
                   /\ y.rec # NoValue => saved'.values[y.rec] = objValueFile[y.rec]
    /\ \A r \in ValueId :
          /\ objValueFile'[r] \in {objValueFile[r], saved.values[r]}
          /\ \/ saved'.values[r] = saved.values[r]
             \/ saved'.values[r] = objValueFile[r] /\ LockedBy(S, r)

LEMMA EndFrame ==
    ASSUME TypeOK, TypeOK', CatalogInv, NEW S \in SUBSET Session, Ends(S)
    PROVE  /\ IdleInv' /\ SessionsApart' /\ PendingRight'
           /\ \A t \in Session : \A m \in Name :
                 /\ Cached(t, m)' <=> Cached(t, m) /\ t \notin S
                 /\ Holds(t, m)' <=> Holds(t, m) /\ t \notin S
                 /\ Inserts(t, m)' <=> Inserts(t, m) /\ t \notin S
                 /\ Deleted(t, m)' <=> Deleted(t, m) /\ t \notin S
           /\ \A t \in Session : \A r : ValueLocked(t, r)' <=> ValueLocked(t, r) /\ t \notin S
           /\ \A t \in Session \ S : \A m \in Name :
                 /\ Early(t, m)' <=> Early(t, m)
                 /\ Late(t, m)' <=> Late(t, m)
                 /\ Touches(t, m) => ~HeldBy(S, m)
<1>0. TypeOK /\ RecordInv
  BY DEF CatalogInv
<1>1. \A t \in Session : \A m \in Name :
         /\ Cached(t, m)' <=> Cached(t, m) /\ t \notin S
         /\ Holds(t, m)' <=> Holds(t, m) /\ t \notin S
         /\ Inserts(t, m)' <=> Inserts(t, m) /\ t \notin S
         /\ Deleted(t, m)' <=> Deleted(t, m) /\ t \notin S
  <2> SUFFICES ASSUME NEW t \in Session, NEW m \in Name
               PROVE  /\ Cached(t, m)' <=> Cached(t, m) /\ t \notin S
                      /\ Holds(t, m)' <=> Holds(t, m) /\ t \notin S
                      /\ Inserts(t, m)' <=> Inserts(t, m) /\ t \notin S
                      /\ Deleted(t, m)' <=> Deleted(t, m) /\ t \notin S
    OBVIOUS
  <2>1. CASE t \in S
    <3>1. ~Cached(t, m)' /\ locks'[t] = {} /\ pending'[t] = Absent
      BY <2>1 DEF Ends
    <3> QED
      BY <2>1, <3>1 DEF Holds, Inserts, Deleted
  <2>2. CASE t \notin S
    <3>1. objects'[t] = objects[t] /\ locks'[t] = locks[t] /\ pending'[t] = pending[t]
      BY <2>2 DEF Ends
    <3> QED
      BY <2>2, <3>1 DEF Cached, Holds, Inserts, Deleted
  <2> QED
    BY <2>1, <2>2
<1>2. \A t \in Session : \A r : ValueLocked(t, r)' <=> ValueLocked(t, r) /\ t \notin S
  BY DEF Ends, ValueLocked
<1>3. \A t \in Session \ S : \A m \in Name :
         /\ Early(t, m)' <=> Early(t, m)
         /\ Late(t, m)' <=> Late(t, m)
         /\ Touches(t, m)' <=> Touches(t, m)
  BY DEF Ends, Early, Late, Touches, Cached, Holds
<1>4. \A t \in Session \ S : \A m \in Name : Touches(t, m) => ~HeldBy(S, m)
  BY <1>0, TouchFacts DEF RecordInv, SessionsApart, HeldBy
<1>5. \A t \in S : \A m \in Name : ~Touches(t, m)'
  <2> SUFFICES ASSUME NEW t \in S, NEW m \in Name PROVE ~Touches(t, m)'
    OBVIOUS
  <2>1. ~Cached(t, m)' /\ locks'[t] = {} /\ pending'[t] = Absent
    BY DEF Ends
  <2> QED
    BY <2>1 DEF Touches, Holds
<1>6. IdleInv'
  <2> SUFFICES ASSUME NEW t \in Session PROVE IdleRight(t)'
    BY DEF IdleInv
  <2>1. CASE t \in S
    BY <2>1 DEF IdleRight, Ends
  <2>2. CASE t \notin S
    <3>1. IdleRight(t)
      BY <1>0 DEF RecordInv, IdleInv
    <3>2. /\ phase'[t] = phase[t] /\ locks'[t] = locks[t] /\ mustAbort'[t] = mustAbort[t]
          /\ created'[t] = created[t] /\ drops'[t] = drops[t] /\ pending'[t] = pending[t]
      BY <2>2 DEF Ends
    <3> QED
      BY <1>1, <2>2, <3>1, <3>2 DEF IdleRight
  <2> QED
    BY <2>1, <2>2
<1>7. SessionsApart'
  <2>1. \A t, u \in Session : \A m \in Name : Touches(t, m)' /\ Touches(u, m)' => t = u
    BY <1>0, <1>3, <1>5 DEF RecordInv, SessionsApart
  <2>2. \A t, u \in Session : \A r \in ValueId :
           ValueLocked(t, r)' /\ ValueLocked(u, r)' => t = u
    BY <1>0, <1>2 DEF RecordInv, SessionsApart
  <2> QED
    BY <2>1, <2>2 DEF SessionsApart
<1>8. PendingRight'
  <2> SUFFICES ASSUME NEW t \in Session, pending'[t] # Absent PROVE PendingFits(t, pending[t])'
    BY DEF PendingRight
  <2>1. /\ t \notin S /\ pending'[t] = pending[t] /\ pending[t] # Absent /\ phase'[t] = phase[t]
        /\ \A m \in Name : Touches(t, m) => objCatalogFile'[m] = objCatalogFile[m]
    BY DEF Ends
  <2>2. /\ pending[t].old \in Name /\ pending[t].new \in Name
        /\ Touches(t, pending[t].old) /\ Touches(t, pending[t].new)
    BY <1>0, <2>1, TypeFacts, TouchFacts
  <2>3. PendingFits(t, pending[t])
    BY <1>0, <2>1 DEF RecordInv, PendingRight
  <2>4. /\ objCatalogFile'[pending[t].old] = objCatalogFile[pending[t].old]
        /\ objCatalogFile'[pending[t].new] = objCatalogFile[pending[t].new]
    BY <2>1, <2>2
  <2>5. \A n \in Name : (Cached(t, n)' <=> Cached(t, n)) /\ (Holds(t, n)' <=> Holds(t, n))
    BY <1>1, <2>1
  <2> QED
    BY <2>1, <2>2, <2>3, <2>4, <2>5 DEF PendingFits, Cached, Holds
<1> QED
  BY <1>1, <1>2, <1>3, <1>4, <1>6, <1>7, <1>8

LEMMA EndValues ==
    ASSUME TypeOK, TypeOK', CatalogInv, NEW S \in SUBSET Session, Ends(S), EndRecords(S)
    PROVE  ValueLocks' /\ RecordsRight' /\ ValuesApart' /\ CreatedPrivate'
<1>0. TypeOK /\ RecordInv /\ made' = made
  BY DEF CatalogInv, Ends
<1>1. /\ \A t \in Session : \A m \in Name : Holds(t, m)' <=> Holds(t, m) /\ t \notin S
      /\ \A t \in Session : \A r : ValueLocked(t, r)' <=> ValueLocked(t, r) /\ t \notin S
      /\ \A t \in Session \ S : \A m \in Name : Touches(t, m) => ~HeldBy(S, m)
  BY EndFrame
<1>2. \A m \in Name : \A y \in Record :
          /\ Live(m, y)' =>
                \/ /\ Live(m, y)
                   /\ y.rec # NoValue => objValueFile'[y.rec] = objValueFile[y.rec]
                \/ /\ HeldBy(S, m) /\ Stored(m, y)
                   /\ y.rec # NoValue => objValueFile'[y.rec] = saved.values[y.rec]
          /\ Stored(m, y)' =>
                \/ /\ Stored(m, y)
                   /\ y.rec # NoValue => saved'.values[y.rec] = saved.values[y.rec]
                \/ /\ HeldBy(S, m) /\ Live(m, y)
                   /\ y.rec # NoValue => saved'.values[y.rec] = objValueFile[y.rec]
  BY DEF EndRecords
<1>3. \A r \in ValueId :
          /\ objValueFile'[r] \in {objValueFile[r], saved.values[r]}
          /\ \/ saved'.values[r] = saved.values[r]
             \/ saved'.values[r] = objValueFile[r] /\ LockedBy(S, r)
  BY DEF EndRecords
<1>4. ValueLocks'
  <2>1. \A t \in Session : \A r \in ValueId : ValueLocked(t, r)' => r <= Len(made')
    BY <1>0, <1>1 DEF RecordInv, ValueLocks
  <2>2. ASSUME NEW t \in Session, NEW k \in Name, NEW y \in Record,
               Live(k, y)' \/ Stored(k, y)', ValueLocked(t, y.rec)'
        PROVE  Holds(t, k)'
    <3>1. y.rec \in ValueId
      BY <2>2, KeyFacts
    <3>2. Live(k, y) \/ Stored(k, y)
      BY <1>2, <2>2
    <3>3. ValueLocked(t, y.rec) /\ t \notin S
      BY <1>1, <2>2
    <3>4. Holds(t, k)
      BY <1>0, <3>1, <3>2, <3>3 DEF RecordInv, ValueLocks
    <3> QED
      BY <1>1, <3>3, <3>4
  <2> QED
    BY <2>1, <2>2 DEF ValueLocks
<1>5. RecordsRight'
  <2> SUFFICES ASSUME NEW m \in Name, NEW y \in Record
               PROVE  /\ Live(m, y)' => RecordRight(y, objValueFile)'
                      /\ Stored(m, y)' => RecordRight(y, saved.values)'
    BY DEF RecordsRight
  <2>1. /\ Live(m, y) => RecordRight(y, objValueFile)
        /\ Stored(m, y) => RecordRight(y, saved.values)
    BY <1>0 DEF RecordInv, RecordsRight
  <2>2. /\ Live(m, y)' => RecordRight(y, objValueFile)'
    BY <1>0, <1>2, <2>1 DEF RecordRight
  <2>3. Stored(m, y)' => RecordRight(y, saved.values)'
    BY <1>0, <1>2, <2>1 DEF RecordRight
  <2> QED
    BY <2>2, <2>3
<1>6. ValuesApart'
  <2> SUFFICES ASSUME NEW r \in ValueId, NEW q \in ValueId
               PROVE  /\ objValueFile'[r] <= Len(made') /\ saved'.values[r] <= Len(made')
                      /\ r # q =>
                            /\ objValueFile'[r] # NoValue =>
                                  /\ objValueFile'[r] # objValueFile'[q]
                                  /\ objValueFile'[r] # saved'.values[q]
                            /\ saved'.values[r] # NoValue => saved'.values[r] # saved'.values[q]
    BY DEF ValuesApart
  <2>1. \A a, b \in ValueId :
           /\ objValueFile[a] <= Len(made) /\ saved.values[a] <= Len(made)
           /\ a # b => /\ objValueFile[a] # NoValue => /\ objValueFile[a] # objValueFile[b]
                                                       /\ objValueFile[a] # saved.values[b]
                       /\ saved.values[a] # NoValue => saved.values[a] # saved.values[b]
    BY <1>0 DEF RecordInv, ValuesApart
  <2>2. \A a \in ValueId : /\ objValueFile'[a] \in {objValueFile[a], saved.values[a]}
                           /\ saved'.values[a] \in {objValueFile[a], saved.values[a]}
    BY <1>3
  <2>3. \A x \in {objValueFile[r], saved.values[r]} : \A y \in {objValueFile[q], saved.values[q]} :
           r # q /\ x # NoValue => x # y
    BY <2>1
  <2> QED
    BY <1>0, <2>1, <2>2, <2>3
<1>7. CreatedPrivate'
  <2> SUFFICES ASSUME NEW t \in Session, NEW v \in created'[t]
               PROVE  /\ v <= Len(made')
                      /\ \A u \in Session : v \in created'[u] \/ ValueLocked(u, v)' => t = u
                      /\ \A r \in ValueId :
                            /\ saved'.values[r] # v
                            /\ objValueFile'[r] = v => phase'[t] = "second" /\ ValueLocked(t, r)'
                      /\ \A n \in Name : \A y \in Record :
                            /\ Stored(n, y)' => y.rec # v
                            /\ Live(n, y)' /\ y.rec = v => ValueLocked(t, v)'
    BY DEF CreatedPrivate
  <2>1. /\ t \notin S /\ v \in created[t] /\ v \in ValueId /\ phase'[t] = phase[t]
        /\ \A u \in Session : v \in created'[u] => v \in created[u]
    BY <1>0 DEF Ends, TypeOK
  <2>2. /\ v <= Len(made)
        /\ \A u \in Session : v \in created[u] \/ ValueLocked(u, v) => t = u
        /\ \A r \in ValueId :
              /\ saved.values[r] # v
              /\ objValueFile[r] = v => phase[t] = "second" /\ ValueLocked(t, r)
    BY <1>0, <2>1 DEF RecordInv, CreatedPrivate
  <2>3. \A n \in Name : \A y \in Record :
           /\ Stored(n, y) => y.rec # v
           /\ Live(n, y) /\ y.rec = v => ValueLocked(t, v)
    BY <1>0, <2>1 DEF RecordInv, CreatedPrivate
  <2>4. ASSUME NEW r \in ValueId
        PROVE  /\ saved'.values[r] # v
               /\ objValueFile'[r] = v => phase'[t] = "second" /\ ValueLocked(t, r)'
    <3>1. objValueFile[r] = v => ~LockedBy(S, r)
      BY <1>0, <2>1, <2>2 DEF LockedBy, RecordInv, SessionsApart
    <3> QED
      BY <1>1, <1>3, <2>1, <2>2, <3>1
  <2>5. ASSUME NEW n \in Name, NEW y \in Record, y.rec = v
        PROVE  ~Stored(n, y)' /\ (Live(n, y)' => ValueLocked(t, v)')
    <3>1. ~Stored(n, y) /\ (Live(n, y) => ValueLocked(t, v))
      BY <2>3, <2>5
    <3>2. Live(n, y) => Holds(t, n)
      BY <1>0, <2>1, <2>5, <3>1 DEF RecordInv, ValueLocks
    <3>3. Live(n, y) => ~HeldBy(S, n)
      BY <1>0, <1>1, <2>1, <3>2, TouchFacts
    <3> QED
      BY <1>1, <1>2, <2>1, <3>1, <3>3
  <2> QED
    BY <1>0, <1>1, <2>1, <2>2, <2>4, <2>5
<1> QED
  BY <1>4, <1>5, <1>6, <1>7

(* The entries of the other sessions and what they are about stay.          *)
LEMMA EndEntries ==
    ASSUME TypeOK, TypeOK', CatalogInv, NEW S \in SUBSET Session, Ends(S), EndRecords(S)
    PROVE  EntriesRight' /\ DoomedRight'
<1>0. TypeOK /\ RecordInv /\ made' = made
  BY DEF CatalogInv, Ends
<1>1. /\ \A t \in Session : \A m \in Name :
            /\ Cached(t, m)' <=> Cached(t, m) /\ t \notin S
            /\ Holds(t, m)' <=> Holds(t, m) /\ t \notin S
            /\ Deleted(t, m)' <=> Deleted(t, m) /\ t \notin S
      /\ \A t \in Session \ S : \A m \in Name :
            /\ Early(t, m)' <=> Early(t, m)
            /\ Late(t, m)' <=> Late(t, m)
            /\ Touches(t, m) => ~HeldBy(S, m)
  BY EndFrame
<1>2. \A m \in Name : \A y \in Record :
          /\ Live(m, y)' =>
                \/ /\ Live(m, y)
                   /\ y.rec # NoValue => objValueFile'[y.rec] = objValueFile[y.rec]
                \/ /\ HeldBy(S, m) /\ Stored(m, y)
                   /\ y.rec # NoValue => objValueFile'[y.rec] = saved.values[y.rec]
          /\ Stored(m, y)' =>
                \/ /\ Stored(m, y)
                   /\ y.rec # NoValue => saved'.values[y.rec] = saved.values[y.rec]
                \/ /\ HeldBy(S, m) /\ Live(m, y)
                   /\ y.rec # NoValue => saved'.values[y.rec] = objValueFile[y.rec]
  BY DEF EndRecords
<1>3. \A t \in Session : created'[t] \subseteq created[t] /\ (t \notin S => created'[t] = created[t])
  BY DEF Ends
<1>4. EntriesRight'
  <2> SUFFICES ASSUME NEW t \in Session, NEW m \in Name, Cached(t, m)'
               PROVE  /\ phase'[t] # "none"
                      /\ EntryRight(t, m)' /\ WrittenRight(t, m)' /\ EntryValueRight(t, m)'
    BY DEF EntriesRight
  <2>1. /\ t \notin S /\ Cached(t, m) /\ Touches(t, m) /\ objects'[t] = objects[t]
        /\ objCatalogFile'[m] = objCatalogFile[m] /\ phase'[t] = phase[t]
        /\ mustAbort'[t] = mustAbort[t]
        /\ (Early(t, m)' <=> Early(t, m)) /\ (Late(t, m)' <=> Late(t, m))
        /\ (Holds(t, m)' <=> Holds(t, m)) /\ ~HeldBy(S, m)
    BY <1>0, <1>1, TouchFacts DEF Ends
  <2>2. /\ phase[t] # "none" /\ EntryRight(t, m) /\ WrittenRight(t, m) /\ EntryValueRight(t, m)
        /\ objects[t][m] \in Entry
    BY <1>0, <2>1, TypeFacts DEF CatalogInv, EntriesRight
  <2>3. EntryRight(t, m)'
    BY <2>1, <2>2 DEF EntryRight
  <2>4. ASSUME objCatalogFile[m] # Absent
        PROVE  /\ objCatalogFile[m] \in Record
               /\ objCatalogFile[m].rec # NoValue =>
                     objValueFile'[objCatalogFile[m].rec] = objValueFile[objCatalogFile[m].rec]
    <3>1. objCatalogFile[m] \in Record
      BY <1>0, <2>4, TypeFacts
    <3>2. Live(m, objCatalogFile[m])'
      BY <2>1, <2>4 DEF Live
    <3> QED
      BY <1>2, <2>1, <3>1, <3>2
  <2>5. WrittenRight(t, m)'
    <3>1. ASSUME Late(t, m), objects[t][m].value # NoValue, ~Early(t, m), ~mustAbort[t],
                 objects[t][m].state # "EntryDelete"
          PROVE  /\ objCatalogFile[m] # Absent
                 /\ objValueFile'[ValueRecord(objects[t][m])] = objects[t][m].value
      <4>1. objCatalogFile[m] # Absent
        BY <2>2, <3>1 DEF EntryRight
      <4>2. objCatalogFile[m].rec = ValueRecord(objects[t][m])
        BY <2>2, <3>1 DEF WrittenRight
      <4>3. ValueRecord(objects[t][m]) # NoValue
        BY <2>2, <3>1, EntryFields DEF ValueRecord
      <4> QED
        BY <2>2, <2>4, <3>1, <4>1, <4>2, <4>3 DEF WrittenRight
    <3> QED
      BY <2>1, <2>2, <3>1 DEF WrittenRight
  <2>6. EntryValueRight(t, m)'
    <3> DEFINE e == objects[t][m]
    <3> SUFFICES ASSUME e.value # NoValue
                 PROVE  /\ e.value <= Len(made) /\ made[e.value] = e.type
                        /\ \A u \in Session \ {t} : e.value \notin created'[u]
                        /\ \A u \in Session : \A k \in Name \ {m} :
                              Cached(u, k)' => objects'[u][k].value # e.value
                        /\ e.value \in created'[t] /\
                           (e.state = "EntryDelete" \/ ~Late(t, m)' \/ mustAbort'[t]) =>
                              /\ \A r \in ValueId : objValueFile'[r] # e.value
                              /\ \A k \in Name : \A x \in Record : Live(k, x)' => x.rec # e.value
                        /\ e.value \notin created'[t] =>
                              /\ e.state = "EntryDelete" \/
                                    (e.rec # NoValue /\ objValueFile'[e.rec] = e.value)
                              /\ Early(t, m)' =>
                                    objCatalogFile'[m].defined /\ StoredValue(m)' = e.value
      <4> QED
        BY <1>0, <2>1 DEF EntryValueRight
    <3>1. /\ e.value <= Len(made) /\ made[e.value] = e.type
          /\ \A u \in Session \ {t} : e.value \notin created[u]
          /\ \A u \in Session : \A k \in Name \ {m} : Cached(u, k) => objects[u][k].value # e.value
      BY <2>2 DEF EntryValueRight
    <3>2. /\ e.value \in created[t] /\ (e.state = "EntryDelete" \/ ~Late(t, m) \/ mustAbort[t]) =>
                /\ \A r \in ValueId : objValueFile[r] # e.value
                /\ \A k \in Name : \A x \in Record : Live(k, x) => x.rec # e.value
      BY <2>2 DEF EntryValueRight
    <3>3. e.value \notin created[t] =>
             /\ e.state = "EntryDelete" \/ (e.rec # NoValue /\ objValueFile[e.rec] = e.value)
             /\ Early(t, m) => objCatalogFile[m].defined /\ StoredValue(m) = e.value
      BY <2>2 DEF EntryValueRight
    <3>4. \A u \in Session : \A k \in Name \ {m} :
             Cached(u, k)' => objects'[u][k].value # e.value
      BY <1>1, <3>1 DEF Ends
    <3>5. ASSUME e.value \in created[t], e.state = "EntryDelete" \/ ~Late(t, m) \/ mustAbort[t]
          PROVE  /\ \A r \in ValueId : objValueFile'[r] # e.value
                 /\ \A k \in Name : \A x \in Record : Live(k, x)' => x.rec # e.value
      <4>1. /\ \A r \in ValueId : saved.values[r] # e.value
            /\ \A k \in Name : \A x \in Record : Stored(k, x) => x.rec # e.value
        BY <1>0, <3>5 DEF RecordInv, CreatedPrivate
      <4>2. \A r \in ValueId : objValueFile'[r] \in {objValueFile[r], saved.values[r]}
        BY DEF EndRecords
      <4> QED
        BY <1>2, <3>2, <3>5, <4>1, <4>2
    <3>6. ASSUME e.value \notin created[t], e.state # "EntryDelete"
          PROVE  e.rec # NoValue /\ objValueFile'[e.rec] = e.value
      <4>1. e.rec # NoValue /\ objValueFile[e.rec] = e.value
        BY <3>3, <3>6
      <4>2. objCatalogFile[m] # Absent /\ objCatalogFile[m].rec = e.rec
        BY <2>2, <3>6, <4>1 DEF EntryRight
      <4> QED
        BY <2>4, <4>1, <4>2
    <3>7. ASSUME e.value \notin created[t], Early(t, m)
          PROVE  objCatalogFile'[m].defined /\ StoredValue(m)' = e.value
      <4>1. objCatalogFile[m].defined /\ StoredValue(m) = e.value
        BY <3>3, <3>7
      <4>2. objCatalogFile[m].rec # NoValue
        BY <4>1 DEF StoredValue
      <4>3. objCatalogFile[m] # Absent
        BY <2>2, <3>7, EntryFields DEF EntryRight, EntryValueRight
      <4> QED
        BY <2>1, <2>4, <4>1, <4>2, <4>3 DEF StoredValue
    <3> QED
      BY <1>3, <2>1, <3>1, <3>4, <3>5, <3>6, <3>7
  <2> QED
    BY <2>1, <2>2, <2>3, <2>5, <2>6
<1>5. DoomedRight'
  <2> SUFFICES ASSUME NEW t \in Session, NEW w \in ValueId, Doomed(t, w)'
               PROVE  /\ w <= Len(made')
                      /\ \A u \in Session \ {t} : w \notin created'[u]
                      /\ \A u \in Session : \A m \in Name :
                            Cached(u, m)' /\ objects'[u][m].value = w => u = t /\ Deleted(t, m)'
                      /\ \A m \in Name : \A y \in Record :
                            /\ Live(m, y)' /\ y.defined /\ objValueFile'[y.rec] = w =>
                                  Cached(t, m)' /\ (mustAbort'[t] \/ Early(t, m)')
                            /\ Stored(m, y)' /\ y.defined /\ saved'.values[y.rec] = w =>
                                  Cached(t, m)' \/ Holds(t, m)'
    BY DEF DoomedRight
  <2>1. t \notin S /\ mustAbort'[t] = mustAbort[t] /\ Doomed(t, w)
    BY <1>1 DEF Doomed, Ends
  <2>2. /\ w <= Len(made)
        /\ \A u \in Session \ {t} : w \notin created[u]
        /\ \A u \in Session : \A m \in Name :
              Cached(u, m) /\ objects[u][m].value = w => u = t /\ Deleted(t, m)
    BY <2>1 DEF CatalogInv, DoomedRight
  <2>3. \A m \in Name : \A y \in Record :
           Live(m, y) /\ y.defined /\ objValueFile[y.rec] = w =>
                 Cached(t, m) /\ (mustAbort[t] \/ Early(t, m))
    BY <2>1 DEF CatalogInv, DoomedRight
  <2>4. \A m \in Name : \A y \in Record :
           Stored(m, y) /\ y.defined /\ saved.values[y.rec] = w => Cached(t, m) \/ Holds(t, m)
    BY <2>1 DEF CatalogInv, DoomedRight
  <2>5. \A m \in Name : Cached(t, m) \/ Holds(t, m) => ~HeldBy(S, m)
    BY <1>0, <1>1, <2>1, TouchFacts
  <2>6. \A m \in Name : \A y \in Record :
           /\ Live(m, y) /\ y.defined => y.rec # NoValue
           /\ Stored(m, y) /\ y.defined => y.rec # NoValue
    BY <1>0 DEF RecordInv, RecordsRight, RecordRight
  <2>7. ASSUME NEW m \in Name, NEW y \in Record, Live(m, y)', y.defined, objValueFile'[y.rec] = w
        PROVE  Cached(t, m) /\ (mustAbort[t] \/ Early(t, m))
    <3>1. y.rec # NoValue
      BY <1>2, <2>6, <2>7
    <3>2. CASE HeldBy(S, m) /\ Stored(m, y) /\ objValueFile'[y.rec] = saved.values[y.rec]
      BY <2>4, <2>5, <2>7, <3>2
    <3> QED
      BY <1>2, <2>3, <2>7, <3>1, <3>2
  <2>8. ASSUME NEW m \in Name, NEW y \in Record, Stored(m, y)', y.defined, saved'.values[y.rec] = w
        PROVE  Cached(t, m) \/ Holds(t, m)
    <3>1. y.rec # NoValue
      BY <1>2, <2>6, <2>8
    <3>2. CASE HeldBy(S, m) /\ Live(m, y) /\ saved'.values[y.rec] = objValueFile[y.rec]
      BY <2>3, <2>5, <2>8, <3>2
    <3> QED
      BY <1>2, <2>4, <2>8, <3>1, <3>2
  <2>9. \A u \in Session : \A m \in Name :
           Cached(u, m)' /\ objects'[u][m].value = w => u = t /\ Deleted(t, m)'
    BY <1>1, <2>1, <2>2 DEF Ends
  <2> QED
    BY <1>0, <1>1, <1>3, <2>1, <2>2, <2>7, <2>8, <2>9
<1> QED
  BY <1>4, <1>5

(* A rollback: what the sessions have locked is as it was committed.        *)
RollsBack(S) ==
    /\ RollBack(S) /\ Reset(S) /\ UNCHANGED made
    /\ \A t \in S : pending'[t] = Absent
    /\ \A t \in Session \ S : pending'[t] = pending[t]

LEMMA ResetFacts ==
    ASSUME TypeOK, NEW S \in SUBSET Session, Reset(S)
    PROVE  /\ \A t \in S : /\ phase'[t] = "none" /\ locks'[t] = {} /\ created'[t] = {}
                           /\ drops'[t] = {} /\ ~mustAbort'[t]
                           /\ \A m \in Name : ~Cached(t, m)'
           /\ \A t \in Session \ S :
                 /\ phase'[t] = phase[t] /\ todo'[t] = todo[t] /\ objects'[t] = objects[t]
                 /\ locks'[t] = locks[t] /\ mustAbort'[t] = mustAbort[t]
                 /\ created'[t] = created[t] /\ drops'[t] = drops[t]
<1>1. /\ \A t \in S : /\ phase'[t] = "none" /\ locks'[t] = {} /\ created'[t] = {}
                      /\ drops'[t] = {} /\ ~mustAbort'[t] /\ objects'[t] = NoEntries
  BY DEF Reset, Cleared
<1>2. \A t \in Session \ S :
                 /\ phase'[t] = phase[t] /\ todo'[t] = todo[t] /\ objects'[t] = objects[t]
                 /\ locks'[t] = locks[t] /\ mustAbort'[t] = mustAbort[t]
                 /\ created'[t] = created[t] /\ drops'[t] = drops[t]
  BY DEF Reset, Cleared
<1>3. \A m \in Name : NoEntries[m] = Absent
  BY DEF NoEntries
<1> QED
  BY <1>1, <1>2, <1>3 DEF Cached

LEMMA RollBackFiles ==
    ASSUME NEW S \in SUBSET Session, RollBack(S)
    PROVE  /\ \A m \in Name : objCatalogFile'[m] =
                                IF HeldBy(S, m) THEN saved.objects[m] ELSE objCatalogFile[m]
           /\ \A r \in ValueId : objValueFile'[r] =
                                IF LockedBy(S, r) THEN saved.values[r] ELSE objValueFile[r]
           /\ saved' = saved
<1> DEFINE M == Merge(S, saved, Current)
<1>1. objCatalogFile' = M.objects /\ objValueFile' = M.values /\ saved' = saved
  BY DEF RollBack
<1>2. /\ \A m \in Name : M.objects[m] =
                            IF HeldBy(S, m) THEN saved.objects[m] ELSE Current.objects[m]
      /\ \A r \in ValueId : M.values[r] =
                            IF LockedBy(S, r) THEN saved.values[r] ELSE Current.values[r]
  BY DEF Merge, HeldBy, LockedBy, Holds, ValueLocked, ObjectKey
<1>3. Current.objects = objCatalogFile /\ Current.values = objValueFile
  BY DEF Current
<1> HIDE DEF M
<1> QED
  BY <1>1, <1>2, <1>3

LEMMA RollBackRecords ==
    ASSUME TypeOK, TypeOK', CatalogInv, NEW S \in SUBSET Session, RollsBack(S)
    PROVE  /\ Ends(S) /\ EndRecords(S)
           /\ \A m \in Name : \A y :
                 /\ Live(m, y)' /\ HeldBy(S, m) => Stored(m, y)
                 /\ Live(m, y)' /\ ~HeldBy(S, m) => Live(m, y) /\ \A t \in S : ~Inserts(t, m)
                 /\ Stored(m, y)' <=> Stored(m, y)
<1>0. TypeOK /\ RecordInv /\ RollBack(S) /\ Reset(S)
  BY DEF CatalogInv, RollsBack
<1>1. /\ \A m \in Name : objCatalogFile'[m] =
                            IF HeldBy(S, m) THEN saved.objects[m] ELSE objCatalogFile[m]
      /\ \A r \in ValueId : objValueFile'[r] =
                            IF LockedBy(S, r) THEN saved.values[r] ELSE objValueFile[r]
      /\ saved' = saved
  BY <1>0, RollBackFiles
<1>2. \A t \in Session \ S : \A m \in Name : Touches(t, m) => ~HeldBy(S, m)
  BY <1>0, TouchFacts DEF RecordInv, SessionsApart, HeldBy
<1>3. Ends(S)
  BY <1>0, <1>1, <1>2, ResetFacts DEF Ends, RollsBack
<1>4. /\ IdleInv' /\ SessionsApart' /\ PendingRight'
      /\ \A t \in Session : \A m \in Name :
            /\ Holds(t, m)' <=> Holds(t, m) /\ t \notin S
            /\ Inserts(t, m)' <=> Inserts(t, m) /\ t \notin S
      /\ \A t \in Session : \A r : ValueLocked(t, r)' <=> ValueLocked(t, r) /\ t \notin S
  BY <1>0, <1>3, EndFrame
<1>5. \A m \in Name : \A y :
         /\ Live(m, y)' /\ HeldBy(S, m) => Stored(m, y)
         /\ Live(m, y)' /\ ~HeldBy(S, m) => Live(m, y) /\ \A t \in S : ~Inserts(t, m)
         /\ Stored(m, y)' <=> Stored(m, y)
  <2> SUFFICES ASSUME NEW m \in Name, NEW y
               PROVE  /\ Live(m, y)' /\ HeldBy(S, m) => Stored(m, y)
                      /\ Live(m, y)' /\ ~HeldBy(S, m) => Live(m, y) /\ \A t \in S : ~Inserts(t, m)
                      /\ Stored(m, y)' <=> Stored(m, y)
    OBVIOUS
  <2>1. Stored(m, y)' <=> Stored(m, y)
    BY <1>1 DEF Stored
  <2>2. ASSUME Live(m, y)', HeldBy(S, m) PROVE Stored(m, y)
    <3>1. \A t \in Session : ~Inserts(t, m)'
      BY <1>0, <1>2, <1>4, <2>2, TouchFacts
    <3> QED
      BY <1>1, <2>2, <3>1 DEF Live, Stored
  <2>3. ASSUME Live(m, y)', ~HeldBy(S, m) PROVE Live(m, y) /\ \A t \in S : ~Inserts(t, m)
    <3>1. CASE objCatalogFile'[m] # Absent /\ y = objCatalogFile'[m]
      <4>1. objCatalogFile[m] # Absent /\ y = objCatalogFile[m]
        BY <1>1, <2>3, <3>1
      <4>2. \A t \in Session : ~Inserts(t, m)
        BY <1>0, <4>1 DEF RecordInv, PendingRight, PendingFits, Inserts
      <4> QED
        BY <4>1, <4>2 DEF Live
    <3>2. CASE \E u \in Session : Inserts(u, m)' /\ y = pending'[u].record
      <4>1. PICK u \in Session : Inserts(u, m)' /\ y = pending'[u].record
        BY <3>2
      <4>2. u \notin S /\ Inserts(u, m) /\ pending'[u] = pending[u]
        BY <1>4, <4>1 DEF RollsBack
      <4>3. \A t \in Session : Inserts(t, m) => t = u
        BY <1>0, <4>2, TouchFacts DEF RecordInv, SessionsApart
      <4> QED
        BY <4>1, <4>2, <4>3 DEF Live
    <3> QED
      BY <2>3, <3>1, <3>2 DEF Live
  <2> QED
    BY <2>1, <2>2, <2>3
<1>6. EndRecords(S)
  <2>1. ASSUME NEW m \in Name, NEW y \in Record, Live(m, y)'
        PROVE  \/ /\ Live(m, y)
                  /\ y.rec # NoValue => objValueFile'[y.rec] = objValueFile[y.rec]
               \/ /\ HeldBy(S, m) /\ Stored(m, y)
                  /\ y.rec # NoValue => objValueFile'[y.rec] = saved.values[y.rec]
    <3>1. CASE HeldBy(S, m)
      <4>1. Stored(m, y)
        BY <1>5, <2>1, <3>1
      <4>2. ASSUME y.rec # NoValue PROVE objValueFile'[y.rec] = saved.values[y.rec]
        <5>1. y.rec \in ValueId
          BY <4>2, RecordFields
        <5>2. ASSUME NEW t \in Session, ValueLocked(t, y.rec) PROVE LockedBy(S, y.rec)
          <6>1. Holds(t, m)
            BY <1>0, <4>1, <5>2 DEF RecordInv, ValueLocks
          <6>2. t \in S
            BY <1>0, <1>2, <3>1, <6>1, TouchFacts
          <6> QED
            BY <5>2, <6>2 DEF LockedBy
        <5> QED
          BY <1>0, <1>1, <5>1, <5>2 DEF RecordInv, UnlockedCommitted
      <4> QED
        BY <3>1, <4>1, <4>2
    <3>2. CASE ~HeldBy(S, m)
      <4>1. Live(m, y)
        BY <1>5, <2>1, <3>2
      <4>2. ~LockedBy(S, y.rec)
        BY <1>0, <3>2, <4>1 DEF RecordInv, ValueLocks, LockedBy, HeldBy
      <4>3. y.rec # NoValue => y.rec \in ValueId
        BY RecordFields
      <4> QED
        BY <1>1, <4>1, <4>2, <4>3
    <3> QED
      BY <3>1, <3>2
  <2>2. \A m \in Name : \A y \in Record : Stored(m, y)' => Stored(m, y)
    BY <1>5
  <2> QED
    BY <1>1, <2>1, <2>2 DEF EndRecords
<1> QED
  BY <1>3, <1>5, <1>6

LEMMA RollBackStep ==
    ASSUME TypeOK, TypeOK', CatalogInv, NEW S \in SUBSET Session, RollsBack(S)
    PROVE  RecordInv' /\ EntriesRight' /\ DoomedRight'
<1>0. TypeOK /\ RecordInv /\ RollBack(S) /\ Reset(S)
  BY DEF CatalogInv, RollsBack
<1>1. /\ \A m \in Name : objCatalogFile'[m] =
                            IF HeldBy(S, m) THEN saved.objects[m] ELSE objCatalogFile[m]
      /\ \A r \in ValueId : objValueFile'[r] =
                            IF LockedBy(S, r) THEN saved.values[r] ELSE objValueFile[r]
      /\ saved' = saved
  BY <1>0, RollBackFiles
<1>2. \A t \in Session \ S : \A m \in Name : Touches(t, m) => ~HeldBy(S, m)
  BY <1>0, TouchFacts DEF RecordInv, SessionsApart, HeldBy
<1>3. Ends(S) /\ EndRecords(S)
  BY RollBackRecords
<1>4. /\ IdleInv' /\ SessionsApart' /\ PendingRight'
      /\ \A t \in Session : \A m \in Name :
            /\ Holds(t, m)' <=> Holds(t, m) /\ t \notin S
            /\ Inserts(t, m)' <=> Inserts(t, m) /\ t \notin S
      /\ \A t \in Session : \A r : ValueLocked(t, r)' <=> ValueLocked(t, r) /\ t \notin S
  BY <1>0, <1>3, EndFrame
<1>5. \A m \in Name : \A y :
         /\ Live(m, y)' /\ HeldBy(S, m) => Stored(m, y)
         /\ Live(m, y)' /\ ~HeldBy(S, m) => Live(m, y) /\ \A t \in S : ~Inserts(t, m)
         /\ Stored(m, y)' <=> Stored(m, y)
  BY RollBackRecords
<1>7. ValueLocks' /\ RecordsRight' /\ ValuesApart' /\ CreatedPrivate' /\ EntriesRight' /\ DoomedRight'
  BY <1>3, EndValues, EndEntries
<1>8. UnlockedCommitted'
  <2>1. ASSUME NEW m \in Name, \A t \in Session : ~Holds(t, m)'
        PROVE  objCatalogFile'[m] = saved'.objects[m]
    <3>1. ~HeldBy(S, m) => \A t \in Session : ~Holds(t, m)
      BY <1>4, <2>1 DEF HeldBy
    <3> QED
      BY <1>0, <1>1, <3>1 DEF RecordInv, UnlockedCommitted
  <2>2. ASSUME NEW r \in ValueId, \A t \in Session : ~ValueLocked(t, r)'
        PROVE  objValueFile'[r] = saved'.values[r]
    <3>1. ~LockedBy(S, r) => \A t \in Session : ~ValueLocked(t, r)
      BY <1>4, <2>2 DEF LockedBy
    <3> QED
      BY <1>0, <1>1, <3>1 DEF RecordInv, UnlockedCommitted
  <2> QED
    BY <2>1, <2>2 DEF UnlockedCommitted
<1>9. RecordsApart'
  <2> SUFFICES ASSUME NEW n \in Name, NEW m \in Name, NEW x \in Record, NEW y \in Record,
                      x.rec = y.rec, x.rec # NoValue, n # m
               PROVE  /\ ~(Live(n, x)' /\ Live(m, y)')
                      /\ ~(Stored(n, x)' /\ Stored(m, y)')
                      /\ Live(n, x)' /\ Stored(m, y)' =>
                            \E t \in Session : Holds(t, m)' /\ (Holds(t, n)' \/ Inserts(t, n)')
    BY DEF RecordsApart
  <2>1. \A k, l \in Name : \A a, b \in Record : k # l /\ a.rec = b.rec /\ a.rec # NoValue =>
           /\ ~(Live(k, a) /\ Live(l, b))
           /\ ~(Stored(k, a) /\ Stored(l, b))
           /\ Live(k, a) /\ Stored(l, b) =>
                 \E t \in Session : Holds(t, l) /\ (Holds(t, k) \/ Inserts(t, k))
    BY <1>0 DEF RecordInv, RecordsApart
  <2>2. ASSUME NEW k \in Name, NEW l \in Name, NEW a \in Record, NEW b \in Record,
               k # l, a.rec = b.rec, a.rec # NoValue, ~HeldBy(S, k), Live(k, a)', Stored(l, b)
        PROVE  \E t \in Session \ S : Holds(t, l) /\ (Holds(t, k) \/ Inserts(t, k))
    <3>1. Live(k, a) /\ \A t \in S : ~Inserts(t, k)
      BY <1>5, <2>2
    <3>2. PICK t \in Session : Holds(t, l) /\ (Holds(t, k) \/ Inserts(t, k))
      BY <2>1, <2>2, <3>1
    <3> QED
      BY <2>2, <3>1, <3>2 DEF HeldBy
  <2>3. ASSUME NEW k \in Name, NEW l \in Name, NEW a \in Record, NEW b \in Record,
               k # l, a.rec = b.rec, a.rec # NoValue, Live(k, a)', Live(l, b)',
               ~HeldBy(S, k)
        PROVE  FALSE
    <3>1. CASE HeldBy(S, l)
      <4>1. PICK t \in Session \ S : Holds(t, l)
        BY <1>5, <2>2, <2>3, <3>1
      <4> QED
        BY <1>0, <1>2, <3>1, <4>1, TouchFacts
    <3>2. CASE ~HeldBy(S, l)
      BY <1>5, <2>1, <2>3, <3>2
    <3> QED
      BY <3>1, <3>2
  <2>4. ~(Live(n, x)' /\ Live(m, y)')
    BY <1>5, <2>1, <2>3
  <2>5. ~(Stored(n, x)' /\ Stored(m, y)')
    BY <1>5, <2>1
  <2>6. ASSUME Live(n, x)', Stored(m, y)'
        PROVE  \E t \in Session : Holds(t, m)' /\ (Holds(t, n)' \/ Inserts(t, n)')
    <3>1. ~HeldBy(S, n)
      BY <1>5, <2>1, <2>6
    <3>2. PICK t \in Session \ S : Holds(t, m) /\ (Holds(t, n) \/ Inserts(t, n))
      BY <1>5, <2>2, <2>6, <3>1
    <3> QED
      BY <1>4, <3>2
  <2> QED
    BY <2>4, <2>5, <2>6
<1> QED
  BY <1>4, <1>7, <1>8, <1>9 DEF RecordInv

(* A commit: what the session has locked is now committed.                  *)
Commits(s) ==
    /\ saved' = Merge({s}, Current, saved) /\ Reset({s})
    /\ pending[s] = Absent
    /\ UNCHANGED <<made, objCatalogFile, objValueFile, pending>>

LEMMA CommitRecords ==
    ASSUME TypeOK, TypeOK', CatalogInv, NEW s \in Session, Commits(s)
    PROVE  /\ Ends({s}) /\ EndRecords({s})
           /\ \A m \in Name : \A y :
                 /\ Live(m, y)' <=> Live(m, y)
                 /\ Stored(m, y)' /\ Holds(s, m) => Live(m, y)
                 /\ Stored(m, y)' /\ ~Holds(s, m) => Stored(m, y)
           /\ \A m \in Name : \A y \in Record :
                 Stored(m, y)' /\ Holds(s, m) /\ y.rec # NoValue =>
                     saved'.values[y.rec] = objValueFile[y.rec]
<1> DEFINE S == {s}
<1>0. TypeOK /\ RecordInv /\ S \in SUBSET Session /\ Reset(S)
  BY DEF CatalogInv, Commits
<1>1. /\ \A m \in Name : saved'.objects[m] =
                            IF HeldBy(S, m) THEN objCatalogFile[m] ELSE saved.objects[m]
      /\ \A r \in ValueId : saved'.values[r] =
                            IF LockedBy(S, r) THEN objValueFile[r] ELSE saved.values[r]
      /\ objCatalogFile' = objCatalogFile /\ objValueFile' = objValueFile
      /\ pending' = pending /\ pending[s] = Absent /\ made' = made
  <2>1. saved' = Merge(S, Current, saved)
    BY DEF Commits
  <2>2. Current.objects = objCatalogFile /\ Current.values = objValueFile
    BY DEF Current
  <2>3. /\ \A m \in Name : Merge(S, Current, saved).objects[m] =
                            IF HeldBy(S, m) THEN Current.objects[m] ELSE saved.objects[m]
        /\ \A r \in ValueId : Merge(S, Current, saved).values[r] =
                            IF LockedBy(S, r) THEN Current.values[r] ELSE saved.values[r]
    BY DEF Merge, HeldBy, LockedBy, Holds, ValueLocked, ObjectKey
  <2> QED
    BY <2>1, <2>2, <2>3 DEF Commits
<1>2. \A t \in Session \ S : \A m \in Name : Touches(t, m) => ~HeldBy(S, m)
  BY <1>0, TouchFacts DEF RecordInv, SessionsApart, HeldBy
<1>a. \A m \in Name : HeldBy(S, m) <=> Holds(s, m)
  BY DEF HeldBy
<1>b. \A r : LockedBy(S, r) <=> ValueLocked(s, r)
  BY DEF LockedBy
<1>3. Ends(S)
  <2>1. pending'[s] = Absent /\ \A t \in Session \ S : pending'[t] = pending[t]
    BY <1>1
  <2> QED
    BY <1>0, <1>1, <2>1, ResetFacts DEF Ends
<1>c. s \in S
  OBVIOUS
<1> HIDE DEF S
<1>4. /\ IdleInv' /\ SessionsApart' /\ PendingRight'
      /\ \A t \in Session : \A m \in Name :
            /\ Holds(t, m)' <=> Holds(t, m) /\ t \notin S
            /\ Inserts(t, m)' <=> Inserts(t, m) /\ t \notin S
      /\ \A t \in Session : \A r : ValueLocked(t, r)' <=> ValueLocked(t, r) /\ t \notin S
  BY <1>0, <1>3, EndFrame
<1>5. \A m \in Name : \A y :
         /\ Live(m, y)' <=> Live(m, y)
         /\ Stored(m, y)' /\ HeldBy(S, m) => Live(m, y)
         /\ Stored(m, y)' /\ ~HeldBy(S, m) => Stored(m, y)
  <2>1. \A t \in Session : \A m \in Name : Inserts(t, m)' <=> Inserts(t, m)
    BY <1>1 DEF Inserts
  <2>2. \A m \in Name : \A y : Live(m, y)' <=> Live(m, y)
    BY <1>1, <2>1 DEF Live
  <2>3. \A m \in Name : \A y :
         /\ Stored(m, y)' /\ HeldBy(S, m) => Live(m, y)
         /\ Stored(m, y)' /\ ~HeldBy(S, m) => Stored(m, y)
    BY <1>1 DEF Live, Stored
  <2> QED
    BY <2>2, <2>3
<1>6. ASSUME NEW m \in Name, NEW y \in Record, Stored(m, y)', HeldBy(S, m), y.rec # NoValue
      PROVE  saved'.values[y.rec] = objValueFile[y.rec]
  <2>1. Live(m, y)
    BY <1>5, <1>6
  <2>2. y.rec \in ValueId
    BY <1>6, RecordFields
  <2>3. ASSUME NEW t \in Session, ValueLocked(t, y.rec) PROVE LockedBy(S, y.rec)
    <3>1. Holds(t, m)
      BY <1>0, <2>1, <2>3 DEF RecordInv, ValueLocks
    <3>2. t \in S
      BY <1>0, <1>2, <1>6, <3>1, TouchFacts
    <3> QED
      BY <2>3, <3>2 DEF LockedBy
  <2> QED
    BY <1>0, <1>1, <2>2, <2>3 DEF RecordInv, UnlockedCommitted
<1>7. EndRecords(S)
  <2>1. ASSUME NEW m \in Name, NEW y \in Record, Stored(m, y)'
        PROVE  \/ /\ Stored(m, y)
                  /\ y.rec # NoValue => saved'.values[y.rec] = saved.values[y.rec]
               \/ /\ HeldBy(S, m) /\ Live(m, y)
                  /\ y.rec # NoValue => saved'.values[y.rec] = objValueFile[y.rec]
    <3>1. CASE HeldBy(S, m)
      <4>1. Live(m, y)
        BY <1>5, <2>1, <3>1
      <4> QED
        BY <1>6, <2>1, <3>1, <4>1
    <3>2. CASE ~HeldBy(S, m)
      <4>1. Stored(m, y)
        BY <1>5, <2>1, <3>2
      <4>2. ~LockedBy(S, y.rec)
        BY <1>0, <1>a, <1>b, <3>2, <4>1 DEF RecordInv, ValueLocks
      <4>3. y.rec # NoValue => y.rec \in ValueId
        BY RecordFields
      <4> QED
        BY <1>1, <4>1, <4>2, <4>3
    <3> QED
      BY <3>1, <3>2
  <2>2. \A m \in Name : \A y \in Record : Live(m, y)' => Live(m, y)
    BY <1>5
  <2> QED
    BY <1>1, <2>1, <2>2 DEF EndRecords
<1> QED
  BY <1>a, <1>3, <1>5, <1>6, <1>7 DEF S

LEMMA CommitStep ==
    ASSUME TypeOK, TypeOK', CatalogInv, NEW s \in Session, Commits(s)
    PROVE  RecordInv' /\ EntriesRight' /\ DoomedRight'
<1> DEFINE S == {s}
<1>0. TypeOK /\ RecordInv /\ S \in SUBSET Session /\ Reset(S)
  BY DEF CatalogInv, Commits
<1>1. /\ \A m \in Name : saved'.objects[m] =
                            IF HeldBy(S, m) THEN objCatalogFile[m] ELSE saved.objects[m]
      /\ \A r \in ValueId : saved'.values[r] =
                            IF LockedBy(S, r) THEN objValueFile[r] ELSE saved.values[r]
      /\ objCatalogFile' = objCatalogFile /\ objValueFile' = objValueFile
      /\ pending' = pending /\ pending[s] = Absent /\ made' = made
  <2>1. saved' = Merge(S, Current, saved)
    BY DEF Commits
  <2>2. Current.objects = objCatalogFile /\ Current.values = objValueFile
    BY DEF Current
  <2>3. /\ \A m \in Name : Merge(S, Current, saved).objects[m] =
                            IF HeldBy(S, m) THEN Current.objects[m] ELSE saved.objects[m]
        /\ \A r \in ValueId : Merge(S, Current, saved).values[r] =
                            IF LockedBy(S, r) THEN Current.values[r] ELSE saved.values[r]
    BY DEF Merge, HeldBy, LockedBy, Holds, ValueLocked, ObjectKey
  <2> QED
    BY <2>1, <2>2, <2>3 DEF Commits
<1>2. \A t \in Session \ S : \A m \in Name : Touches(t, m) => ~HeldBy(S, m)
  BY <1>0, TouchFacts DEF RecordInv, SessionsApart, HeldBy
<1>a. \A m \in Name : HeldBy(S, m) <=> Holds(s, m)
  BY DEF HeldBy
<1>b. \A r : LockedBy(S, r) <=> ValueLocked(s, r)
  BY DEF LockedBy
<1>3. Ends(S) /\ EndRecords(S)
  BY CommitRecords
<1>c. s \in S
  OBVIOUS
<1>5. \A m \in Name : \A y :
         /\ Live(m, y)' <=> Live(m, y)
         /\ Stored(m, y)' /\ HeldBy(S, m) => Live(m, y)
         /\ Stored(m, y)' /\ ~HeldBy(S, m) => Stored(m, y)
  BY <1>a, CommitRecords
<1> HIDE DEF S
<1>4. /\ IdleInv' /\ SessionsApart' /\ PendingRight'
      /\ \A t \in Session : \A m \in Name :
            /\ Holds(t, m)' <=> Holds(t, m) /\ t \notin S
            /\ Inserts(t, m)' <=> Inserts(t, m) /\ t \notin S
      /\ \A t \in Session : \A r : ValueLocked(t, r)' <=> ValueLocked(t, r) /\ t \notin S
  BY <1>0, <1>3, EndFrame
<1>7. ValueLocks' /\ RecordsRight' /\ ValuesApart' /\ CreatedPrivate' /\ EntriesRight' /\ DoomedRight'
  BY <1>0, <1>3, EndValues, EndEntries
<1>8. UnlockedCommitted'
  <2>1. ASSUME NEW m \in Name, \A t \in Session : ~Holds(t, m)'
        PROVE  objCatalogFile'[m] = saved'.objects[m]
    <3>1. ~HeldBy(S, m) => \A t \in Session : ~Holds(t, m)
      BY <1>4, <2>1 DEF HeldBy
    <3> QED
      BY <1>0, <1>1, <3>1 DEF RecordInv, UnlockedCommitted
  <2>2. ASSUME NEW r \in ValueId, \A t \in Session : ~ValueLocked(t, r)'
        PROVE  objValueFile'[r] = saved'.values[r]
    <3>1. ~LockedBy(S, r) => \A t \in Session : ~ValueLocked(t, r)
      BY <1>4, <2>2 DEF LockedBy
    <3> QED
      BY <1>0, <1>1, <3>1 DEF RecordInv, UnlockedCommitted
  <2> QED
    BY <2>1, <2>2 DEF UnlockedCommitted
<1>9. RecordsApart'
  <2> SUFFICES ASSUME NEW n \in Name, NEW m \in Name, NEW x \in Record, NEW y \in Record,
                      x.rec = y.rec, x.rec # NoValue, n # m
               PROVE  /\ ~(Live(n, x)' /\ Live(m, y)')
                      /\ ~(Stored(n, x)' /\ Stored(m, y)')
                      /\ Live(n, x)' /\ Stored(m, y)' =>
                            \E t \in Session : Holds(t, m)' /\ (Holds(t, n)' \/ Inserts(t, n)')
    BY DEF RecordsApart
  <2>1. \A k, l \in Name : \A a, b \in Record : k # l /\ a.rec = b.rec /\ a.rec # NoValue =>
           /\ ~(Live(k, a) /\ Live(l, b))
           /\ ~(Stored(k, a) /\ Stored(l, b))
           /\ Live(k, a) /\ Stored(l, b) =>
                 \E t \in Session : Holds(t, l) /\ (Holds(t, k) \/ Inserts(t, k))
    BY <1>0 DEF RecordInv, RecordsApart
  <2>2. ASSUME NEW k \in Name, NEW l \in Name, NEW a \in Record, NEW b \in Record,
               k # l, a.rec = b.rec, a.rec # NoValue, Live(k, a), Stored(l, b), ~HeldBy(S, l)
        PROVE  \E t \in Session \ S : Holds(t, l) /\ (Holds(t, k) \/ Inserts(t, k))
    <3>1. PICK t \in Session : Holds(t, l) /\ (Holds(t, k) \/ Inserts(t, k))
      BY <2>1, <2>2
    <3> QED
      BY <2>2, <3>1 DEF HeldBy
  <2>3. ASSUME NEW k \in Name, NEW l \in Name, NEW a \in Record, NEW b \in Record,
               k # l, a.rec = b.rec, a.rec # NoValue, Stored(k, a)', Stored(l, b)',
               HeldBy(S, k)
        PROVE  FALSE
    <3>1. CASE HeldBy(S, l)
      BY <1>5, <2>1, <2>3, <3>1
    <3>2. CASE ~HeldBy(S, l)
      <4>1. PICK t \in Session \ S : Holds(t, k) \/ Inserts(t, k)
        BY <1>5, <2>2, <2>3, <3>2
      <4> QED
        BY <1>0, <1>2, <2>3, <4>1, TouchFacts
    <3> QED
      BY <3>1, <3>2
  <2>4. ~(Live(n, x)' /\ Live(m, y)')
    BY <1>5, <2>1
  <2>5. ~(Stored(n, x)' /\ Stored(m, y)')
    BY <1>5, <2>1, <2>3
  <2>6. ASSUME Live(n, x)', Stored(m, y)'
        PROVE  \E t \in Session : Holds(t, m)' /\ (Holds(t, n)' \/ Inserts(t, n)')
    <3>1. Live(n, x) /\ ~HeldBy(S, m) /\ Stored(m, y)
      BY <1>5, <2>1, <2>6
    <3>2. PICK t \in Session \ S : Holds(t, m) /\ (Holds(t, n) \/ Inserts(t, n))
      BY <2>2, <3>1
    <3> QED
      BY <1>4, <3>2
  <2> QED
    BY <2>4, <2>5, <2>6
<1> QED
  BY <1>4, <1>7, <1>8, <1>9 DEF RecordInv

LEMMA EndStep ==
    ASSUME TypeOK, TypeOK', CatalogInv,
           Crash \/ \E s \in Session : EndTransaction(s) \/ AbortTransaction(s)
    PROVE  RecordInv' /\ EntriesRight' /\ DoomedRight'
<1>0. TypeOK /\ RecordInv
  BY DEF CatalogInv
<1>1. CASE Crash
  <2>1. RollsBack(Session)
    BY <1>1 DEF Crash, RollsBack
  <2> QED
    BY <2>1, RollBackStep
<1>2. ASSUME NEW s \in Session, EndTransaction(s) \/ AbortTransaction(s)
      PROVE  RecordInv' /\ EntriesRight' /\ DoomedRight'
  <2>1. pending[s] = Absent /\ pending' = pending
    BY <1>0, <1>2, NoPending DEF EndTransaction, AbortTransaction, Ended
  <2>2. CASE RollBack({s})
    <3>1. RollsBack({s})
      BY <1>2, <2>1, <2>2 DEF RollsBack, EndTransaction, AbortTransaction
    <3> QED
      BY <3>1, RollBackStep
  <2>3. CASE ~RollBack({s})
    <3>1. Commits(s)
      BY <1>2, <2>1, <2>3 DEF Commits, EndTransaction, AbortTransaction
    <3> QED
      BY <3>1, CommitStep
  <2> QED
    BY <2>2, <2>3
<1> QED
  BY <1>1, <1>2
-----------------------------------------------------------------------------
LEMMA RecordsInit == Init => CatalogInv
<1> SUFFICES ASSUME Init PROVE CatalogInv
  OBVIOUS
<1>1. TypeOK /\ CachedTodo
  BY TypeInit DEF Init, CachedTodo
<1>2. /\ \A s \in Session : /\ phase[s] = "none" /\ pending[s] = Absent /\ locks[s] = {}
                            /\ created[s] = {} /\ drops[s] = {} /\ ~mustAbort[s]
      /\ \A s \in Session : \A n \in Name : ~Cached(s, n)
      /\ \A n \in Name : objCatalogFile[n] = Absent /\ saved.objects[n] = Absent
      /\ \A r \in ValueId : objValueFile[r] = NoValue /\ saved.values[r] = NoValue
      /\ Len(made) \in Nat
  BY <1>1 DEF Init, Empty, NoEntries, Cached
<1>3. \A n \in Name : \A x : ~Live(n, x) /\ ~Stored(n, x)
  BY <1>2 DEF Live, Stored, Inserts
<1>4. \A s \in Session : /\ \A n \in Name : ~Holds(s, n) /\ ~Touches(s, n) /\ ~Deleted(s, n)
                         /\ \A r : ~ValueLocked(s, r)
                         /\ \A v : ~Doomed(s, v)
  BY <1>2 DEF Holds, Touches, ValueLocked, Deleted, Doomed
<1>5. IdleInv /\ SessionsApart /\ UnlockedCommitted /\ PendingRight
  BY <1>2, <1>4 DEF IdleInv, IdleRight, SessionsApart, UnlockedCommitted, PendingRight
<1>6. RecordsApart /\ ValueLocks /\ RecordsRight
  BY <1>3, <1>4 DEF RecordsApart, ValueLocks, RecordsRight
<1>7. ValuesApart /\ CreatedPrivate
  BY <1>2, Numbers DEF ValuesApart, CreatedPrivate
<1>8. EntriesRight /\ DoomedRight
  BY <1>2, <1>4 DEF EntriesRight, DoomedRight
<1> QED
  BY <1>1, <1>5, <1>6, <1>7, <1>8 DEF CatalogInv, RecordInv

LEMMA StutterStep ==
    ASSUME CatalogInv, UNCHANGED vars
    PROVE  RecordInv' /\ EntriesRight' /\ DoomedRight'
<1> USE DEF vars, dbVars, cacheVars, txnVars
<1>1. RecordInv'
  <2>1. IdleInv' /\ SessionsApart' /\ UnlockedCommitted' /\ PendingRight'
    BY DEF CatalogInv, RecordInv, IdleInv, IdleRight, SessionsApart, UnlockedCommitted,
       PendingRight, PendingFits, ValueLocked, Touches, Holds, Cached
  <2>2. RecordsApart' /\ RecordsRight' /\ ValuesApart'
    BY DEF CatalogInv, RecordInv, RecordsApart, RecordsRight, RecordRight, ValuesApart,
       Live, Stored, Inserts, Holds
  <2>3. /\ \A n \in Name : \A x : (Live(n, x)' <=> Live(n, x)) /\ (Stored(n, x)' <=> Stored(n, x))
        /\ \A s \in Session : \A r : ValueLocked(s, r)' <=> ValueLocked(s, r)
        /\ \A s \in Session : \A n \in Name : Holds(s, n)' <=> Holds(s, n)
    BY DEF Live, Stored, Inserts, ValueLocked, Holds
  <2>4. ValueLocks'
    BY <2>3 DEF CatalogInv, RecordInv, ValueLocks
  <2>5. CreatedPrivate'
    BY <2>3 DEF CatalogInv, RecordInv, CreatedPrivate
  <2> QED
    BY <2>1, <2>2, <2>4, <2>5 DEF RecordInv
<1>2. EntriesRight'
  BY DEF CatalogInv, EntriesRight, EntryRight, WrittenRight, EntryValueRight, Early, Late,
     Live, Inserts, Holds, Cached, StoredValue
<1>3. DoomedRight'
  BY DEF CatalogInv, DoomedRight, Doomed, Deleted, Live, Stored, Inserts, Cached, Early, Holds
<1> QED
  BY <1>1, <1>2, <1>3

LEMMA RecordsStep ==
    ASSUME ExclusiveUse, TypeOK', CachedTodo', CatalogInv, [Next]_vars
    PROVE  RecordInv' /\ EntriesRight' /\ DoomedRight'
<1> DEFINE Right == RecordInv' /\ EntriesRight' /\ DoomedRight'
<1>0. TypeOK /\ CachedTodo /\ ~SharedObjects
  BY DEF CatalogInv, ExclusiveUse
<1>1. ASSUME NEW s \in Session, IdleStep(s) PROVE Right
  BY <1>0, <1>1, IdleEntries
<1>2. ASSUME NEW s \in Session, NEW n \in Name, NEW e, PutStep(s, n, e) PROVE Right
  BY <1>0, <1>2, PutRecords
<1>3. ASSUME NEW s \in Session, CacheStep(s) PROVE Right
  <2>1. CASE \E n \in Name :
                \/ \E t \in Type, defined \in BOOLEAN : InsertObject(s, n, t, defined)
                \/ UpdateObject(s, n) \/ ModifyObject(s, n) \/ DeleteObject(s, n)
    BY <1>0, <1>2, <2>1, CommandStep
  <2>2. CASE \E t \in NamedType : InsertType(s, t) \/ DeleteType(s, t)
    BY <1>0, <1>1, <2>2, IdleSteps
  <2> QED
    BY <1>3, <2>1, <2>2 DEF CacheStep
<1>4. ASSUME NEW s \in Session, FileStep(s) PROVE Right
  <2>1. CASE \E n \in Name : KillCached(s, n)
    BY <1>0, <1>2, <2>1, CommandStep
  <2>2. ASSUME NEW old \in Name, NEW new \in Name,
               (KillStored(s, old) /\ new = old) \/ RenameStored(s, old, new)
        PROVE  Right
    BY <1>0, <1>1, <2>2, RequestStep
  <2>3. ASSUME NEW old \in Name, NEW new \in Name, RenameCached(s, old, new) PROVE Right
    BY <1>0, <2>3, RenameEntries
  <2>4. CASE DeleteOld(s)
    <3>1. CASE pending[s].op = "kill"
      <4> DEFINE n == pending[s].old
      <4>1. Kills(s, n, objCatalogFile[n].rec)
        BY <2>4, <3>1 DEF Kills, DeleteOld
      <4> HIDE DEF n
      <4> QED
        BY <1>0, <4>1, KillStep
    <3>2. CASE pending[s].op = "delete"
      <4>1. MovesOut(s, pending[s].old, pending[s].new)
        BY <2>4, <3>2 DEF MovesOut, DeleteOld
      <4> QED
        BY <1>0, <4>1, MoveOutStep
    <3> QED
      BY <2>4, <3>1, <3>2 DEF DeleteOld
  <2>5. CASE InsertNew(s)
    <3>1. MovesIn(s, pending[s].old, pending[s].new, pending[s].record)
      BY <2>5 DEF MovesIn, InsertNew
    <3> QED
      BY <1>0, <3>1, MoveInStep
  <2> QED
    BY <1>4, <2>1, <2>2, <2>3, <2>4, <2>5 DEF FileStep
<1>5. ASSUME NEW s \in Session, CleanUp(s) PROVE Right
  <2>1. CASE \E t \in NamedType : CleanUpType(s, t)
    BY <1>0, <1>1, <2>1, IdleSteps
  <2>2. ASSUME NEW n \in Name, mustAbort[s], FirstIteration(s, n) \/ SecondIteration(s, n)
        PROVE  Right
    BY <1>0, <1>1, <2>2, IdleSteps
  <2>3. ASSUME NEW n \in Name, ~mustAbort[s], FirstIteration(s, n) PROVE Right
    BY <1>0, <2>3, FirstStep
  <2>4. ASSUME NEW n \in Name, ~mustAbort[s], SecondIteration(s, n) PROVE Right
    BY <1>0, <2>4, SecondStep
  <2> QED
    BY <1>5, <2>1, <2>2, <2>3, <2>4 DEF CleanUp
<1>6. ASSUME NEW s \in Session, BeginTransaction(s) \/ CommitTransaction(s) PROVE Right
  BY <1>0, <1>1, <1>6, IdleSteps
<1>7. ASSUME NEW s \in Session, DeadlockVictim(s) PROVE Right
  BY <1>0, <1>1, <1>7, VictimStep
<1>8. ASSUME Crash \/ \E s \in Session : EndTransaction(s) \/ AbortTransaction(s) PROVE Right
  BY <1>0, <1>8, EndStep
<1>9. ASSUME UNCHANGED vars PROVE Right
  BY <1>9, StutterStep
<1> HIDE DEF Right
<1>10. Right
  BY <1>3, <1>4, <1>5, <1>6, <1>7, <1>8, <1>9 DEF Next
<1> QED
  BY <1>10 DEF Right

LEMMA CatalogStep ==
    ASSUME ExclusiveUse, CatalogInv, [Next]_vars
    PROVE  CatalogInv'
<1>1. TypeOK' /\ CachedTodo'
  BY TypeStep, CachedStep DEF CatalogInv
<1>2. RecordInv' /\ EntriesRight' /\ DoomedRight'
  BY <1>1, RecordsStep
<1> QED
  BY <1>1, <1>2 DEF CatalogInv

(* The caches of the sessions, the records, the values and their locks fit  *)
(* together, in the midst of CleanUp and of a command as well, and after    *)
(* deadlocks and crashes.                                                   *)
THEOREM CatalogInvariant ==
    ASSUME ExclusiveUse
    PROVE  Spec => []CatalogInv
<1>1. CatalogInv /\ [Next]_vars => CatalogInv'
  BY CatalogStep
<1> QED
  BY <1>1, RecordsInit, PTL DEF Spec
-----------------------------------------------------------------------------
(* The data on disk.  A step that keeps it: every value that a record or an *)
(* entry leads to afterwards has been there before, or is on disk now.      *)
Keeps ==
    /\ files \subseteq files'
    /\ \A t \in Session : created'[t] \subseteq created[t] \cup files'
    /\ \A t \in Session : \A n \in Name : Cached(t, n)' /\ ~Deleted(t, n)' =>
          \/ objects'[t][n].value \in files' \cup {NoValue}
          \/ \E m \in Name : /\ Cached(t, m) /\ ~Deleted(t, m)
                             /\ objects[t][m].value = objects'[t][n].value
    /\ \A r \in ValueId : objValueFile'[r] \in {objValueFile[r], NoValue} \cup files'
    /\ \A n \in Name : \A x \in Record : x.defined =>
          /\ Live(n, x)' => objValueFile'[x.rec] \in files' \/ \E m \in Name : Live(m, x)
          /\ Stored(n, x)' => \E m \in Name :
                \/ Stored(m, x) /\ saved'.values[x.rec] = saved.values[x.rec]
                \/ Live(m, x) /\ saved'.values[x.rec] = objValueFile[x.rec]

LEMMA KeepsFiles ==
    ASSUME CatalogInv, CatalogInv', FilesKept, Keeps
    PROVE  FilesKept'
<1>1. \A t \in Session : created'[t] \subseteq files'
  BY DEF FilesKept, Keeps
<1>2. \A t \in Session : \A n \in Name :
         Cached(t, n)' /\ ~Deleted(t, n)' /\ objects'[t][n].value # NoValue =>
             objects'[t][n].value \in files'
  BY DEF FilesKept, Keeps
<1>3. ASSUME NEW n \in Name, NEW x \in Record, x.defined, Live(n, x)'
      PROVE  objValueFile'[x.rec] \in files'
  <2>1. RecordRight(x, objValueFile)'
    BY <1>3 DEF CatalogInv, RecordInv, RecordsRight
  <2>2. x.rec \in ValueId /\ objValueFile'[x.rec] # NoValue
    BY <1>3, <2>1, RecordFields DEF RecordRight
  <2>3. objValueFile'[x.rec] \in {objValueFile[x.rec]} \cup files'
    BY <2>2 DEF Keeps
  <2> QED
    BY <1>3, <2>3 DEF FilesKept, Keeps
<1>4. \A n \in Name : \A x \in Record : x.defined /\ Stored(n, x)' => saved'.values[x.rec] \in files'
  BY DEF FilesKept, Keeps
<1> QED
  BY <1>1, <1>2, <1>3, <1>4 DEF FilesKept

LEMMA CommandKeeps ==
    ASSUME CatalogInv, CatalogInv', FilesKept, NEW s \in Session, NEW n \in Name, NEW e,
           PutStep(s, n, e), files \subseteq files'
    PROVE  FilesKept'
<1>0. TypeOK /\ TypeOK' /\ RecordInv
  BY DEF CatalogInv
<1>1. /\ \A m \in Name : /\ \A x : Live(m, x)' <=> Live(m, x)
                         /\ \A x : Stored(m, x)' <=> Stored(m, x)
      /\ objValueFile' = objValueFile /\ saved' = saved /\ Creates(s)
  BY <1>0, PutFacts
<1>2. \A t \in Session : created'[t] \subseteq created[t] \cup files'
  <2>1. CASE UNCHANGED <<made, created>>
    BY <2>1
  <2>2. CASE \E t \in Type : NewValue(s, t)
    BY <1>0, <2>2, NewValueFacts
  <2> QED
    BY <1>1, <2>1, <2>2 DEF Creates
<1>3. ASSUME e \in Entry, PutFits(s, n, e), e.state # "EntryDelete", e.value # NoValue
      PROVE  e.value \in files'
  <2>1. CASE NewValue(s, e.type) /\ e.value = Latest
    BY <1>0, <1>3, <2>1, NewValueFacts, EntryFields
  <2>2. CASE ~Cached(s, n) /\ objCatalogFile[n] # Absent /\ e.value = StoredValue(n)
    <3> DEFINE there == objCatalogFile[n]
    <3>1. there \in Record /\ Live(n, there)
      BY <1>0, <2>2, LiveFacts
    <3>2. there.defined /\ e.value = objValueFile[there.rec]
      BY <1>3, <2>2 DEF StoredValue
    <3> QED
      BY <3>1, <3>2 DEF FilesKept
  <2> QED
    BY <1>3, <2>1, <2>2 DEF PutFits
<1>4. \A t \in Session : \A m \in Name : Cached(t, m)' /\ ~Deleted(t, m)' =>
         \/ objects'[t][m].value \in files' \cup {NoValue}
         \/ /\ Cached(t, m) /\ ~Deleted(t, m)
            /\ objects[t][m].value = objects'[t][m].value
  <2> SUFFICES ASSUME NEW t \in Session, NEW m \in Name, Cached(t, m)', ~Deleted(t, m)'
               PROVE  \/ objects'[t][m].value \in files' \cup {NoValue}
                      \/ /\ Cached(t, m) /\ ~Deleted(t, m)
                         /\ objects[t][m].value = objects'[t][m].value
    OBVIOUS
  <2>1. objects'[t][m] = IF t = s /\ m = n THEN e ELSE objects[t][m]
    BY DEF PutStep
  <2>2. CASE t = s /\ m = n
    <3>1. e # Absent /\ e.state # "EntryDelete"
      BY <2>1, <2>2 DEF Cached, Deleted
    <3>2. e \in Entry /\ PutFits(s, n, e)
      BY <3>1 DEF PutStep
    <3> QED
      BY <1>3, <2>1, <2>2, <3>1, <3>2
  <2>3. CASE ~(t = s /\ m = n)
    BY <2>1, <2>3 DEF Cached, Deleted
  <2> QED
    BY <2>2, <2>3
<1>5. Keeps
  BY <1>1, <1>2, <1>4 DEF Keeps
<1> QED
  BY <1>5, KeepsFiles

(* Steps that change neither the entries nor the values.                    *)
LEMMA StillKeeps ==
    ASSUME CatalogInv, CatalogInv', FilesKept,
           UNCHANGED <<files, created, objects, objCatalogFile, objValueFile, saved>>,
           \A t \in Session : pending'[t] \in {pending[t], Absent} \/ pending'[t].op # "insert"
    PROVE  FilesKept'
<1>1. \A t \in Session : \A n \in Name :
         (Cached(t, n)' <=> Cached(t, n)) /\ (Deleted(t, n)' <=> Deleted(t, n))
  BY DEF Cached, Deleted
<1>2. \A n \in Name : \A x : (Live(n, x)' => Live(n, x)) /\ (Stored(n, x)' <=> Stored(n, x))
  BY DEF Live, Inserts, Stored
<1>3. Keeps
  BY <1>1, <1>2 DEF Keeps
<1> QED
  BY <1>3, KeepsFiles

LEMMA RenameKeeps ==
    ASSUME CatalogInv, CatalogInv', FilesKept,
           NEW s \in Session, NEW old \in Name, NEW new \in Name, RenameCached(s, old, new)
    PROVE  FilesKept'
<1>0. /\ Cached(s, old) /\ TypeOK
      /\ objects' = [objects EXCEPT ![s][new] = objects[s][old], ![s][old] = Absent]
      /\ UNCHANGED <<files, created, objCatalogFile, objValueFile, saved, pending>>
  BY DEF RenameCached, dbVars, txnVars, CatalogInv
<1>1. \A t \in Session : \A m \in Name : objects'[t][m] =
         IF t = s /\ m = old THEN Absent
         ELSE IF t = s /\ m = new THEN objects[s][old] ELSE objects[t][m]
  BY <1>0 DEF TypeOK
<1>2. \A n \in Name : \A x : (Live(n, x)' <=> Live(n, x)) /\ (Stored(n, x)' <=> Stored(n, x))
  BY <1>0 DEF Live, Inserts, Stored
<1>3. \A t \in Session : \A n \in Name : Cached(t, n)' /\ ~Deleted(t, n)' =>
         \E m \in Name : /\ Cached(t, m) /\ ~Deleted(t, m)
                         /\ objects[t][m].value = objects'[t][n].value
  <2> SUFFICES ASSUME NEW t \in Session, NEW n \in Name, Cached(t, n)', ~Deleted(t, n)'
               PROVE  \E m \in Name : /\ Cached(t, m) /\ ~Deleted(t, m)
                                      /\ objects[t][m].value = objects'[t][n].value
    OBVIOUS
  <2>1. PICK m \in Name : objects'[t][n] = objects[t][m]
    BY <1>1 DEF Cached
  <2> QED
    BY <2>1 DEF Cached, Deleted
<1>4. Keeps
  BY <1>0, <1>2, <1>3 DEF Keeps
<1> QED
  BY <1>4, KeepsFiles

(* What is written has been live before, or is the value of an entry.       *)
LEMMA WriteKeeps ==
    ASSUME CatalogInv, CatalogInv', FilesKept, UNCHANGED <<files, created, objects>>,
           saved'.values = saved.values,
           \A r \in ValueId : objValueFile'[r] \in {objValueFile[r], NoValue} \cup files,
           \A n \in Name : \A x \in Record : x.defined =>
               /\ Live(n, x)' => objValueFile'[x.rec] \in files \/ \E m \in Name : Live(m, x)
               /\ Stored(n, x)' => \E m \in Name :
                     \/ Stored(m, x)
                     \/ Live(m, x) /\ saved.values[x.rec] = objValueFile[x.rec]
    PROVE  FilesKept'
<1>1. \A t \in Session : \A n \in Name :
         (Cached(t, n)' <=> Cached(t, n)) /\ (Deleted(t, n)' <=> Deleted(t, n))
  BY DEF Cached, Deleted
<1>2. Keeps
  BY <1>1 DEF Keeps
<1> QED
  BY <1>2, KeepsFiles

(* Under a name that nobody has locked the value is the committed one.      *)
LEMMA UnlockedValue ==
    ASSUME CatalogInv, NEW n \in Name, NEW x \in Record, Live(n, x), x.defined,
           \A t \in Session : ~Holds(t, n)
    PROVE  saved.values[x.rec] = objValueFile[x.rec]
<1>1. x.rec \in ValueId
  BY RecordFields DEF CatalogInv, RecordInv, RecordsRight, RecordRight
<1>2. \A t \in Session : ~ValueLocked(t, x.rec)
  BY DEF CatalogInv, RecordInv, ValueLocks
<1> QED
  BY <1>1, <1>2 DEF CatalogInv, RecordInv, UnlockedCommitted

LEMMA DeleteKeeps ==
    ASSUME CatalogInv, CatalogInv', FilesKept, NEW s \in Session, NEW old, DeleteOld(s),
           old = pending[s].old
    PROVE  FilesKept'
<1>0. TypeOK /\ RecordInv /\ pending[s] # Absent /\ UNCHANGED <<files, created, objects>>
  BY DEF CatalogInv, DeleteOld, cacheVars
<1>1. old \in Name /\ PendingFits(s, pending[s]) /\ pending[s].op \in {"kill", "delete"}
  BY <1>0, TypeFacts DEF RecordInv, PendingRight, DeleteOld
<1>2. /\ objCatalogFile' = [objCatalogFile EXCEPT ![old] = Absent]
      /\ saved' = IF phase[s] = "none" THEN [saved EXCEPT !.objects[old] = Absent] ELSE saved
      /\ pending' = [pending EXCEPT ![s] =
            IF @.op = "kill" \/ objCatalogFile[old] = Absent THEN Absent
            ELSE [@ EXCEPT !.op = "insert"]]
  BY DEF DeleteOld, WriteObject
<1>3. \A r \in ValueId : objValueFile'[r] \in {objValueFile[r], NoValue}
  BY DEF DeleteOld
<1>4. /\ \A m \in Name : objCatalogFile'[m] \in {objCatalogFile[m], Absent}
      /\ saved'.values = saved.values
      /\ \A m \in Name : saved'.objects[m] \in {saved.objects[m], Absent}
  BY <1>0, <1>1, <1>2 DEF TypeOK, Objects, Values
<1>5. /\ \A t \in Session \ {s} : pending'[t] = pending[t]
      /\ pending'[s] # Absent => /\ objCatalogFile[old] # Absent
                                 /\ pending'[s].record = objCatalogFile[old]
  <2>1. /\ \A t \in Session \ {s} : pending'[t] = pending[t]
        /\ pending'[s] # Absent => /\ objCatalogFile[old] # Absent
                                   /\ pending'[s] = [pending[s] EXCEPT !.op = "insert"]
    BY <1>0, <1>2 DEF TypeOK
  <2>2. pending[s].record = objCatalogFile[old] /\ pending[s] \in Pending
    BY <1>0, <1>1 DEF PendingFits, TypeOK
  <2> QED
    BY <2>1, <2>2 DEF Pending
<1>6. \A n \in Name : \A x : /\ Live(n, x)' => \E m \in Name : Live(m, x)
                             /\ Stored(n, x)' => Stored(n, x)
  <2> SUFFICES ASSUME NEW n \in Name, NEW x
               PROVE  /\ Live(n, x)' => \E m \in Name : Live(m, x)
                      /\ Stored(n, x)' => Stored(n, x)
    OBVIOUS
  <2>1. Stored(n, x)' => Stored(n, x)
    BY <1>4 DEF Stored
  <2>2. objCatalogFile'[n] # Absent /\ x = objCatalogFile'[n] => Live(n, x)
    BY <1>4 DEF Live
  <2>3. ASSUME NEW t \in Session, Inserts(t, n)', x = pending'[t].record
        PROVE  \E m \in Name : Live(m, x)
    <3>1. CASE t = s
      BY <1>1, <1>5, <2>3, <3>1 DEF Live, Inserts
    <3>2. CASE t # s
      BY <1>5, <2>3, <3>2 DEF Live, Inserts
    <3> QED
      BY <3>1, <3>2
  <2> QED
    BY <2>1, <2>2, <2>3 DEF Live
<1> QED
  BY <1>0, <1>3, <1>4, <1>6, WriteKeeps

LEMMA InsertKeeps ==
    ASSUME CatalogInv, CatalogInv', FilesKept, NEW s \in Session, NEW new, NEW x,
           InsertNew(s), new = pending[s].new, x = pending[s].record
    PROVE  FilesKept'
<1>0. /\ TypeOK /\ RecordInv /\ IdleRight(s) /\ pending[s] # Absent
      /\ UNCHANGED <<files, created, objects, objValueFile>>
  BY DEF CatalogInv, RecordInv, IdleInv, InsertNew, cacheVars
<1>1. new \in Name /\ PendingFits(s, pending[s]) /\ pending[s].op = "insert"
  BY <1>0, TypeFacts DEF RecordInv, PendingRight, InsertNew
<1>2. Inserts(s, new) /\ Live(new, x) /\ x \in Record /\ objCatalogFile[new] = Absent
  BY <1>0, <1>1, TypeFacts DEF Inserts, Live, PendingFits
<1>3. /\ objCatalogFile' = [objCatalogFile EXCEPT ![new] = x]
      /\ saved' = IF phase[s] = "none" THEN [saved EXCEPT !.objects[new] = x] ELSE saved
      /\ pending' = [pending EXCEPT ![s] = Absent]
  BY <1>2 DEF InsertNew, WriteObject
<1>4. /\ \A m \in Name : objCatalogFile'[m] = IF m = new THEN x ELSE objCatalogFile[m]
      /\ saved'.values = saved.values
      /\ \A m \in Name : \/ saved'.objects[m] = saved.objects[m]
                         \/ m = new /\ phase[s] = "none" /\ saved'.objects[m] = x
  BY <1>0, <1>1, <1>3 DEF TypeOK, Objects, Values
<1>5. \A t \in Session : pending'[t] \in {pending[t], Absent}
  BY <1>0, <1>3 DEF TypeOK
<1>6. \A n \in Name : \A y : Live(n, y)' => Live(n, y)
  BY <1>2, <1>4, <1>5 DEF Live, Inserts
<1>7. phase[s] = "none" => \A t \in Session : ~Holds(t, new)
  <2>1. phase[s] = "none" => ~Holds(s, new)
    BY <1>0 DEF IdleRight, Holds
  <2>2. \A t \in Session \ {s} : ~Holds(t, new)
    BY <1>0, <1>1, <1>2, TouchFacts DEF RecordInv, SessionsApart
  <2> QED
    BY <2>1, <2>2
<1>8. \A n \in Name : \A y \in Record : y.defined /\ Stored(n, y)' =>
          \E m \in Name : \/ Stored(m, y)
                          \/ Live(m, y) /\ saved.values[y.rec] = objValueFile[y.rec]
  <2> SUFFICES ASSUME NEW n \in Name, NEW y \in Record, y.defined, Stored(n, y)'
               PROVE  \E m \in Name : \/ Stored(m, y)
                                      \/ Live(m, y) /\ saved.values[y.rec] = objValueFile[y.rec]
    OBVIOUS
  <2>1. CASE saved'.objects[n] = saved.objects[n]
    BY <2>1 DEF Stored
  <2>2. CASE phase[s] = "none" /\ y = x
    <3>1. saved.values[y.rec] = objValueFile[y.rec]
      BY <1>1, <1>2, <1>7, <2>2, UnlockedValue
    <3> QED
      BY <1>1, <1>2, <2>2, <3>1
  <2> QED
    BY <1>4, <2>1, <2>2 DEF Stored
<1> QED
  BY <1>0, <1>4, <1>6, <1>8, WriteKeeps

LEMMA FirstKeeps ==
    ASSUME CatalogInv, CatalogInv', FilesKept, NEW s \in Session, NEW n \in Name,
           FirstIteration(s, n), ~mustAbort[s]
    PROVE  FilesKept'
<1> DEFINE e == objects[s][n]
           there == objCatalogFile[n]
<1>0. /\ TypeOK /\ RecordInv
      /\ UNCHANGED <<files, created, objects, saved, pending>>
      /\ objCatalogFile' = [objCatalogFile EXCEPT ![n] = FirstRecord(e, there)]
      /\ \A r \in ValueId : objValueFile'[r] \in {objValueFile[r], NoValue}
  BY DEF CatalogInv, FirstIteration, cacheVars
<1>1. \A m \in Name : objCatalogFile'[m] = IF m = n THEN FirstRecord(e, there) ELSE objCatalogFile[m]
  BY <1>0 DEF TypeOK, Objects
<1>2. /\ n \in todo[s] /\ Cached(s, n) /\ e \in Entry
  <2>1. phase[s] = "first" /\ n \in todo[s]
    BY DEF FirstIteration, NextNames
  <2>2. Cached(s, n)
    BY <2>1 DEF CatalogInv, CachedTodo
  <2> QED
    BY <1>0, <2>1, <2>2, TypeFacts
<1>3. there # Absent => there \in Record
  BY <1>0, TypeFacts
<1>4. \A x : x = FirstRecord(e, there) /\ x # Absent =>
          ~x.defined \/ (there # Absent /\ x = there)
  <2>1. e.state \in {"EntryInsert", "EntryUpdate", "EntryDelete"}
    BY <1>2, EntryFields DEF State
  <2> QED
    BY <1>3, <2>1 DEF FirstRecord, Record
<1>5. \A m \in Name : \A x \in Record : x.defined /\ Live(m, x)' => Live(m, x)
  BY <1>0, <1>1, <1>4 DEF Live, Inserts
<1>6. \A m \in Name : \A x : Stored(m, x)' => Stored(m, x)
  BY <1>0 DEF Stored
<1> QED
  BY <1>0, <1>5, <1>6, WriteKeeps

LEMMA SecondKeeps ==
    ASSUME CatalogInv, CatalogInv', FilesKept, NEW s \in Session, NEW n \in Name,
           SecondIteration(s, n), ~mustAbort[s]
    PROVE  FilesKept'
<1> DEFINE e == objects[s][n]
           there == objCatalogFile[n]
           r == ValueRecord(e)
<1>0. /\ TypeOK /\ RecordInv /\ UNCHANGED <<files, created, objects, saved, pending>>
  BY DEF CatalogInv, SecondIteration, cacheVars
<1>1. /\ n \in todo[s] /\ Cached(s, n) /\ e \in Entry
  <2>1. phase[s] = "second" /\ n \in todo[s]
    BY DEF SecondIteration, NextNames
  <2>2. Cached(s, n)
    BY <2>1 DEF CatalogInv, CachedTodo
  <2> QED
    BY <1>0, <2>1, <2>2, TypeFacts
<1>2. \A m \in Name : \A x : Stored(m, x)' <=> Stored(m, x)
  BY <1>0 DEF Stored
<1>3. CASE ~Saves(s, n)
  <2>1. objCatalogFile' = objCatalogFile /\ objValueFile' = objValueFile
    BY <1>3 DEF SecondIteration
  <2>2. \A m \in Name : \A x : Live(m, x)' <=> Live(m, x)
    BY <1>0, <2>1 DEF Live, Inserts
  <2> QED
    BY <1>0, <1>2, <2>1, <2>2, WriteKeeps
<1>4. CASE Saves(s, n)
  <2>1. /\ objCatalogFile' = [objCatalogFile EXCEPT ![n] = SecondRecord(e, there)]
        /\ objValueFile' = IF e.rec # NoValue /\ objValueFile[r] = NoValue THEN objValueFile
                           ELSE [objValueFile EXCEPT ![r] = e.value]
    BY <1>4 DEF SecondIteration
  <2>2. e.value # NoValue /\ e.value \in files /\ there # Absent /\ there \in Record
    <3>1. e.value # NoValue /\ e.state # "EntryDelete" /\ there # Absent
      BY <1>4 DEF Saves
    <3>2. ~Deleted(s, n)
      BY <3>1 DEF Deleted
    <3> QED
      BY <1>0, <1>1, <3>1, <3>2, TypeFacts DEF FilesKept
  <2>3. r \in ValueId
    BY <1>1, <2>2, EntryFields DEF ValueRecord
  <2>4. \A q \in ValueId : objValueFile'[q] \in {objValueFile[q]} \cup files
    BY <1>0, <2>1, <2>2, <2>3 DEF TypeOK, Values
  <2>5. SecondRecord(e, there).rec = r
    <3>1. e.rec = NoValue => SecondRecord(e, there).rec = e.value
      BY <2>2 DEF SecondRecord, Record
    <3>2. e.rec # NoValue => SecondRecord(e, there).rec = there.rec
      BY <2>2 DEF SecondRecord, Record
    <3>3. e.rec # NoValue => there.rec = e.rec
      BY <1>1, <1>4 DEF CatalogInv, EntriesRight, EntryRight, Saves
    <3> QED
      BY <3>1, <3>2, <3>3 DEF ValueRecord
  <2>6. ASSUME NEW m \in Name, NEW x \in Record, x.defined, Live(m, x)'
        PROVE  objValueFile'[x.rec] \in files \/ Live(m, x)
    <3>1. CASE m = n /\ x = SecondRecord(e, there)
      <4>1. x.rec = r
        BY <2>5, <3>1
      <4>2. objValueFile'[r] # NoValue
        BY <2>6, <4>1 DEF CatalogInv, RecordInv, RecordsRight, RecordRight
      <4>3. objValueFile'[r] = e.value
        BY <1>0, <2>1, <2>3, <4>2 DEF TypeOK, Values
      <4> QED
        BY <2>2, <4>1, <4>3
    <3>2. CASE ~(m = n /\ x = SecondRecord(e, there))
      <4>1. objCatalogFile'[m] = IF m = n THEN SecondRecord(e, there) ELSE objCatalogFile[m]
        BY <1>0, <2>1 DEF TypeOK, Objects
      <4> QED
        BY <1>0, <2>6, <3>2, <4>1 DEF Live, Inserts
    <3> QED
      BY <3>1, <3>2
  <2> QED
    BY <1>0, <1>2, <2>4, <2>6, WriteKeeps
<1> QED
  BY <1>3, <1>4

(* What a transaction that ends takes from the disk: D.                     *)
LEMMA EndKeeps ==
    ASSUME CatalogInv, CatalogInv', FilesKept, NEW S \in SUBSET Session, Ends(S), EndRecords(S),
           NEW D, files' = files \ D,
           \A t \in Session \ S : \A v \in D :
               /\ v \notin created[t]
               /\ \A n \in Name : Cached(t, n) => objects[t][n].value # v,
           \A n \in Name : \A x \in Record : x.defined =>
               /\ Live(n, x)' => objValueFile'[x.rec] \notin D
               /\ Stored(n, x)' => saved'.values[x.rec] \notin D
    PROVE  FilesKept'
<1>1. /\ \A t \in Session : \A m \in Name :
            /\ Cached(t, m)' <=> Cached(t, m) /\ t \notin S
            /\ Deleted(t, m)' <=> Deleted(t, m) /\ t \notin S
  BY EndFrame DEF CatalogInv
<1>2. \A t \in Session : created'[t] \subseteq files'
  <2>1. \A t \in S : created'[t] = {}
    BY DEF Ends
  <2>2. \A t \in Session \ S : created'[t] = created[t]
    BY DEF Ends
  <2> QED
    BY <2>1, <2>2 DEF FilesKept
<1>3. \A t \in Session : \A n \in Name :
         Cached(t, n)' /\ ~Deleted(t, n)' /\ objects'[t][n].value # NoValue =>
             objects'[t][n].value \in files'
  <2>1. \A t \in Session \ S : objects'[t] = objects[t]
    BY DEF Ends
  <2> QED
    BY <1>1, <2>1 DEF FilesKept
<1>4. ASSUME NEW n \in Name, NEW x \in Record, x.defined
      PROVE  /\ Live(n, x)' => objValueFile'[x.rec] \in files'
             /\ Stored(n, x)' => saved'.values[x.rec] \in files'
  <2>1. /\ Live(n, x)' => x.rec # NoValue
        /\ Stored(n, x)' => x.rec # NoValue
    BY <1>4 DEF CatalogInv, RecordInv, RecordsRight, RecordRight
  <2>2. /\ Live(n, x) => objValueFile[x.rec] \in files
        /\ Stored(n, x) => saved.values[x.rec] \in files
    BY <1>4 DEF FilesKept
  <2>3. Live(n, x)' => objValueFile'[x.rec] \in files
    BY <2>1, <2>2 DEF EndRecords
  <2>4. Stored(n, x)' => saved'.values[x.rec] \in files
    BY <2>1, <2>2 DEF EndRecords
  <2> QED
    BY <1>4, <2>3, <2>4
<1> QED
  BY <1>2, <1>3, <1>4 DEF FilesKept

LEMMA RollBackKeeps ==
    ASSUME CatalogInv, CatalogInv', FilesKept, NEW S \in SUBSET Session, RollsBack(S),
           NEW D, D = UNION {created[t] : t \in S}, files' = files \ D
    PROVE  FilesKept'
<1>0. TypeOK /\ TypeOK' /\ RecordInv
  BY DEF CatalogInv
<1>1. Ends(S) /\ EndRecords(S)
  BY <1>0, RollBackRecords
<1>2. /\ saved' = saved
      /\ \A r \in ValueId : objValueFile'[r] =
                              IF LockedBy(S, r) THEN saved.values[r] ELSE objValueFile[r]
  BY RollBackFiles DEF RollsBack
<1>3. ASSUME NEW t \in Session \ S, NEW v \in D
      PROVE  /\ v \notin created[t]
             /\ \A n \in Name : Cached(t, n) => objects[t][n].value # v
  <2>1. PICK u \in S : v \in created[u]
    BY <1>3
  <2>2. v \notin created[t]
    BY <1>0, <2>1 DEF RecordInv, CreatedPrivate
  <2>3. v # NoValue
    BY <1>0, <2>1, TypeFacts, Numbers
  <2>4. \A n \in Name : Cached(t, n) => objects[t][n].value # v
    BY <2>1, <2>3 DEF CatalogInv, EntriesRight, EntryValueRight
  <2> QED
    BY <2>2, <2>4
<1>4. \A r \in ValueId : objValueFile'[r] \notin D /\ saved'.values[r] \notin D
  <2> SUFFICES ASSUME NEW r \in ValueId, NEW u \in S
               PROVE  objValueFile'[r] \notin created[u] /\ saved'.values[r] \notin created[u]
    OBVIOUS
  <2>1. saved.values[r] \notin created[u]
    BY <1>0 DEF RecordInv, CreatedPrivate
  <2>2. objValueFile[r] \in created[u] => LockedBy(S, r)
    BY <1>0 DEF RecordInv, CreatedPrivate, LockedBy
  <2> QED
    BY <1>2, <2>1, <2>2
<1>5. \A n \in Name : \A x \in Record : x.defined =>
               /\ Live(n, x)' => objValueFile'[x.rec] \notin D
               /\ Stored(n, x)' => saved'.values[x.rec] \notin D
  BY <1>4, RecordFields DEF CatalogInv, RecordInv, RecordsRight, RecordRight
<1> QED
  BY <1>1, <1>3, <1>5, EndKeeps

(* Every object whose old value is dropped has been written by now.         *)
LEMMA CommitKeeps ==
    ASSUME CatalogInv, CatalogInv', FilesKept, NEW s \in Session, Ended(s), ~mustAbort[s],
           Commits(s), NEW D, D = drops[s], files' = files \ D
    PROVE  FilesKept'
<1>0. TypeOK /\ TypeOK' /\ RecordInv
  BY DEF CatalogInv
<1>1. /\ Ends({s}) /\ EndRecords({s})
      /\ \A m \in Name : \A y :
            /\ Live(m, y)' <=> Live(m, y)
            /\ Stored(m, y)' /\ Holds(s, m) => Live(m, y)
            /\ Stored(m, y)' /\ ~Holds(s, m) => Stored(m, y)
      /\ \A m \in Name : \A y \in Record :
            Stored(m, y)' /\ Holds(s, m) /\ y.rec # NoValue =>
                saved'.values[y.rec] = objValueFile[y.rec]
  BY <1>0, CommitRecords
<1>2. objValueFile' = objValueFile
  BY DEF Commits
<1>3. \A m \in Name : Cached(s, m) => ~Early(s, m) /\ Holds(s, m)
  BY DEF Ended, Early, CatalogInv, EntriesRight, EntryRight
<1>4. ASSUME NEW v \in D
      PROVE  /\ \A t \in Session \ {s} : v \notin created[t]
             /\ \A t \in Session \ {s} : \A n \in Name : Cached(t, n) => objects[t][n].value # v
             /\ \A n \in Name : \A x \in Record :
                   /\ Live(n, x) /\ x.defined => objValueFile[x.rec] # v
                   /\ Stored(n, x) /\ x.defined /\ saved.values[x.rec] = v => Holds(s, n)
  <2>1. v \in ValueId /\ Doomed(s, v)
    BY <1>0, TypeFacts DEF Doomed
  <2> QED
    BY <1>3, <2>1 DEF CatalogInv, DoomedRight
<1>5. ASSUME NEW n \in Name, NEW x \in Record, x.defined
      PROVE  /\ Live(n, x)' => objValueFile'[x.rec] \notin D
             /\ Stored(n, x)' => saved'.values[x.rec] \notin D
  <2>1. Live(n, x)' => objValueFile'[x.rec] \notin D
    BY <1>1, <1>2, <1>4, <1>5
  <2>2. ASSUME Stored(n, x)' PROVE saved'.values[x.rec] \notin D
    <3>1. x.rec # NoValue
      BY <1>5, <2>2 DEF CatalogInv, RecordInv, RecordsRight, RecordRight
    <3>2. CASE Holds(s, n)
      BY <1>1, <1>4, <1>5, <2>2, <3>1, <3>2
    <3>3. CASE ~Holds(s, n)
      <4>1. Stored(n, x) /\ ~HeldBy({s}, n)
        BY <1>1, <2>2, <3>3 DEF HeldBy
      <4>2. saved'.values[x.rec] = saved.values[x.rec]
        BY <1>1, <2>2, <3>1, <4>1 DEF EndRecords
      <4> QED
        BY <1>4, <1>5, <3>3, <4>1, <4>2
    <3> QED
      BY <3>2, <3>3
  <2> QED
    BY <2>1, <2>2
<1> QED
  BY <1>1, <1>4, <1>5, EndKeeps

LEMMA FilesStep ==
    ASSUME ExclusiveUse, CatalogInv, CatalogInv', NoVictims, FilesKept, [Next]_vars
    PROVE  FilesKept'
<1>0. TypeOK /\ TypeOK' /\ RecordInv /\ ~SharedObjects
  BY DEF CatalogInv, ExclusiveUse
<1> USE DEF dbVars, cacheVars, txnVars
<1>1. ASSUME NEW s \in Session, NEW n \in Name,
             \/ \E t \in Type : \E defined \in BOOLEAN : InsertObject(s, n, t, defined)
             \/ UpdateObject(s, n) \/ ModifyObject(s, n)
             \/ DeleteObject(s, n) \/ KillCached(s, n)
      PROVE  FilesKept'
  <2>1. PICK e : PutStep(s, n, e)
    BY <1>0, <1>1, CommandStep
  <2>2. files \subseteq files'
    BY <1>1 DEF InsertObject, UpdateObject, ModifyObject, DeleteObject, KillCached, NewValue
  <2> QED
    BY <2>1, <2>2, CommandKeeps
<1>2. ASSUME NEW s \in Session, NEW t \in NamedType, InsertType(s, t) \/ DeleteType(s, t)
      PROVE  FilesKept'
  <2>1. UNCHANGED <<files, created, objects, objCatalogFile, objValueFile, saved, pending>>
    BY <1>2 DEF InsertType, DeleteType
  <2> QED
    BY <2>1, StillKeeps
<1>3. ASSUME NEW s \in Session, FileStep(s), ~\E n \in Name : KillCached(s, n) PROVE FilesKept'
  <2>1. ASSUME NEW old \in Name, NEW new \in Name, NEW op \in {"kill", "delete"}, NEW r,
               pending' = [pending EXCEPT ![s] =
                             [op |-> op, old |-> old, new |-> new, record |-> r]],
               UNCHANGED <<files, created, objects, objCatalogFile, objValueFile, saved>>
        PROVE  FilesKept'
    <3>1. \A t \in Session : pending'[t] \in {pending[t], Absent} \/ pending'[t].op # "insert"
      BY <1>0, <2>1 DEF TypeOK
    <3> QED
      BY <2>1, <3>1, StillKeeps
  <2>2. CASE \E n \in Name : KillStored(s, n)
    BY <2>1, <2>2 DEF KillStored
  <2>3. CASE \E old, new \in Name : RenameStored(s, old, new)
    BY <2>1, <2>3 DEF RenameStored
  <2>4. CASE \E old, new \in Name : RenameCached(s, old, new)
    BY <2>4, RenameKeeps
  <2>5. CASE DeleteOld(s)
    BY <2>5, DeleteKeeps
  <2>6. CASE InsertNew(s)
    BY <2>6, InsertKeeps
  <2> QED
    BY <1>3, <2>2, <2>3, <2>4, <2>5, <2>6 DEF FileStep
<1>4. ASSUME NEW s \in Session, CleanUp(s) PROVE FilesKept'
  <2>1. ~mustAbort[s]
    BY DEF NoVictims
  <2>2. ASSUME NEW t \in NamedType, CleanUpType(s, t) PROVE FilesKept'
    <3>1. UNCHANGED <<files, created, objects, objCatalogFile, objValueFile, saved, pending>>
      BY <2>2 DEF CleanUpType
    <3> QED
      BY <3>1, StillKeeps
  <2>3. ASSUME NEW n \in Name, FirstIteration(s, n) PROVE FilesKept'
    BY <2>1, <2>3, FirstKeeps
  <2>4. ASSUME NEW n \in Name, SecondIteration(s, n) PROVE FilesKept'
    BY <2>1, <2>4, SecondKeeps
  <2> QED
    BY <1>4, <2>2, <2>3, <2>4 DEF CleanUp
<1>5. ASSUME NEW s \in Session, BeginTransaction(s) \/ CommitTransaction(s) PROVE FilesKept'
  <2>1. UNCHANGED <<files, created, objects, objCatalogFile, objValueFile, saved, pending>>
    BY <1>5 DEF BeginTransaction, CommitTransaction
  <2> QED
    BY <2>1, StillKeeps
<1>6. ASSUME NEW s \in Session, DeadlockVictim(s) PROVE FilesKept'
  <2>1. /\ UNCHANGED <<files, created, objects, objCatalogFile, objValueFile, saved>>
        /\ \A t \in Session : pending'[t] \in {pending[t], Absent}
    BY <1>0, <1>6 DEF DeadlockVictim, TypeOK
  <2> QED
    BY <2>1, StillKeeps
<1>7. ASSUME NEW s \in Session, EndTransaction(s) PROVE FilesKept'
  <2>1. ~mustAbort[s] /\ Ended(s) /\ pending[s] = Absent
    BY <1>0, <1>7, NoPending DEF NoVictims, EndTransaction, Ended
  <2>2. Commits(s) /\ files' = files \ drops[s]
    BY <1>7, <2>1 DEF EndTransaction, Commits
  <2> QED
    BY <2>1, <2>2, CommitKeeps
<1>8. ASSUME NEW s \in Session, AbortTransaction(s) PROVE FilesKept'
  <2>1. /\ RollsBack({s})
        /\ files' = files \ UNION {created[t] : t \in {s}}
    <3>1. UNION {created[t] : t \in {s}} = created[s]
      OBVIOUS
    <3> QED
      BY <1>8, <3>1 DEF AbortTransaction, RollsBack
  <2> QED
    BY <2>1, RollBackKeeps
<1>9. ASSUME Crash PROVE FilesKept'
  <2>1. /\ RollsBack(Session)
        /\ files' = files \ UNION {created[t] : t \in Session}
    BY <1>9 DEF Crash, RollsBack
  <2> QED
    BY <2>1, RollBackKeeps
<1>10. ASSUME UNCHANGED vars PROVE FilesKept'
  <2>1. UNCHANGED <<files, created, objects, objCatalogFile, objValueFile, saved, pending>>
    BY <1>10 DEF vars
  <2> QED
    BY <2>1, StillKeeps
<1> QED
  BY <1>1, <1>2, <1>3, <1>4, <1>5, <1>6, <1>7, <1>8, <1>9, <1>10 DEF Next, CacheStep, FileStep

LEMMA FilesInit == Init => FilesKept
<1> SUFFICES ASSUME Init PROVE FilesKept
  OBVIOUS
<1>1. /\ \A s \in Session : created[s] = {} /\ pending[s] = Absent
      /\ \A s \in Session : \A n \in Name : ~Cached(s, n)
      /\ \A n \in Name : objCatalogFile[n] = Absent /\ saved.objects[n] = Absent
  BY DEF Init, Empty, NoEntries, Cached
<1> QED
  BY <1>1 DEF FilesKept, Live, Stored, Inserts

LEMMA IntactObjects ==
    ASSUME CatalogInv, FilesKept
    PROVE  ObjectsIntact
<1> SUFFICES ASSUME NEW n \in Name, Defined(n)
             PROVE  /\ saved.objects[n].rec # NoValue
                    /\ Value(n) \in files
                    /\ made[Value(n)] = saved.objects[n].type
                    /\ \A m \in Name \ {n} : Defined(m) => Value(m) # Value(n)
  BY DEF ObjectsIntact
<1>1. ASSUME NEW m \in Name, Defined(m)
      PROVE  /\ Stored(m, saved.objects[m]) /\ saved.objects[m] \in Record
             /\ saved.objects[m].defined
             /\ RecordRight(saved.objects[m], saved.values)
             /\ saved.objects[m].rec \in ValueId
  <2>1. Stored(m, saved.objects[m]) /\ saved.objects[m] \in Record /\ saved.objects[m].defined
    BY <1>1, TypeFacts DEF CatalogInv, Defined, Stored
  <2>2. RecordRight(saved.objects[m], saved.values)
    BY <2>1 DEF CatalogInv, RecordInv, RecordsRight
  <2> QED
    BY <2>1, <2>2, RecordFields DEF RecordRight
<1>2. Value(n) \in files /\ Value(n) # NoValue /\ made[Value(n)] = saved.objects[n].type
  BY <1>1 DEF FilesKept, RecordRight, Value
<1>3. \A m \in Name \ {n} : Defined(m) => Value(m) # Value(n)
  <2> SUFFICES ASSUME NEW m \in Name \ {n}, Defined(m) PROVE Value(m) # Value(n)
    OBVIOUS
  <2>1. saved.objects[m].rec # saved.objects[n].rec
    BY <1>1 DEF CatalogInv, RecordInv, RecordsApart, RecordRight
  <2> QED
    BY <1>1, <1>2, <2>1 DEF CatalogInv, RecordInv, ValuesApart, Value
<1> QED
  BY <1>1, <1>2, <1>3 DEF RecordRight

(* Every object of the database is whole: its record leads to a value of    *)
(* its own, of its type, whose data is on disk, whatever commands, commits, *)
(* aborts and crashes there have been, as long as the lock detector has     *)
(* chosen no victim.                                                        *)
THEOREM ObjectsStayIntact ==
    ASSUME ExclusiveUse
    PROVE  Spec /\ []NoVictims => []ObjectsIntact
<1>1. Init => CatalogInv /\ FilesKept
  BY RecordsInit, FilesInit
<1>2. CatalogInv /\ FilesKept /\ NoVictims /\ [Next]_vars => CatalogInv' /\ FilesKept'
  BY CatalogStep, FilesStep
<1>3. CatalogInv /\ FilesKept => ObjectsIntact
  BY IntactObjects
<1> QED
  BY <1>1, <1>2, <1>3, PTL DEF Spec
-----------------------------------------------------------------------------
(* Transactions that leave each other's objects alone only wait for each    *)
(* other's types.                                                           *)
LEMMA FirstFree ==
    ASSUME CatalogInv, NEW s \in Session, phase[s] = "first",
           NEW n \in todo[s], NEW k \in FirstKeys(s, n)
    PROVE  Free(s, k)
<1> DEFINE e == objects[s][n]
           there == objCatalogFile[n]
<1>0. TypeOK /\ RecordInv /\ CachedTodo
  BY DEF CatalogInv
<1>1. n \in Name /\ Cached(s, n) /\ Touches(s, n) /\ Early(s, n) /\ EntryRight(s, n) /\ e \in Entry
  <2>1. n \in Name /\ Cached(s, n)
    BY <1>0 DEF CachedTodo
  <2>2. EntryRight(s, n) /\ e \in Entry
    BY <1>0, <2>1, TypeFacts DEF CatalogInv, EntriesRight
  <2> QED
    BY <1>0, <2>1, <2>2, TouchFacts DEF Early
<1>2. \A t \in Session \ {s} : ~Holds(t, n)
  BY <1>0, <1>1, TouchFacts DEF RecordInv, SessionsApart
<1>3. CASE k = ObjectKey(n)
  BY <1>2, <1>3 DEF Free, Holds, ObjectKey
<1>4. CASE k # ObjectKey(n)
  <2>1. e.state = "EntryDelete" /\ there # Absent /\ k \in ValueKeys(e.rec)
    BY <1>4 DEF FirstKeys
  <2>2. k = <<"value", e.rec>> /\ e.rec \in ValueId
    BY <2>1, ValueKeyFacts DEF ValueKeys
  <2>3. there.rec = e.rec /\ there \in Record /\ Live(n, there)
    BY <1>0, <1>1, <2>1, <2>2, LiveFacts, Numbers DEF EntryRight
  <2>4. \A t \in Session \ {s} : ~ValueLocked(t, e.rec)
    BY <1>0, <1>1, <1>2, <2>3 DEF RecordInv, ValueLocks
  <2> QED
    BY <2>2, <2>4 DEF Free, ValueLocked
<1> QED
  BY <1>3, <1>4

LEMMA NobodyWaits ==
    ASSUME ExclusiveUse, CatalogInv, NoVictims, NEW s \in Session, NEW k \in Wanted(s),
           NamedType = {} \/ \A t \in Session : t = s
    PROVE  Free(s, k)
<1>0. TypeOK /\ RecordInv /\ CachedTodo /\ ~mustAbort[s]
  BY DEF CatalogInv, NoVictims
<1>1. CASE \A t \in Session : t = s
  BY <1>1 DEF Free
<1>2. ASSUME NamedType = {}, phase[s] = "active", pending[s] # Absent PROVE Free(s, k)
  <2>1. PICK n \in Name : k = ObjectKey(n) /\ Touches(s, n)
    BY <1>0, <1>2, TypeFacts, TouchFacts DEF Wanted
  <2> QED
    BY <1>0, <2>1, TouchFacts DEF RecordInv, SessionsApart, Free, Holds, ObjectKey
<1>3. ASSUME NamedType = {}, phase[s] = "types" PROVE Free(s, k)
  <2>1. PICK t : k = <<"type", t>>
    BY <1>3 DEF Wanted
  <2>2. k \notin Key
    BY <1>3, <2>1 DEF Key
  <2> QED
    BY <1>0, <2>2 DEF Free, TypeOK
<1>4. ASSUME phase[s] = "first" PROVE Free(s, k)
  <2>1. PICK n \in NextNames(s) : k \in FirstKeys(s, n)
    BY <1>4 DEF Wanted
  <2> QED
    BY <1>4, <2>1, FirstFree DEF NextNames
<1>5. ASSUME phase[s] = "second" PROVE Free(s, k)
  <2>1. PICK n \in NextNames(s) : k \in SecondKeys(s, n)
    BY <1>5 DEF Wanted
  <2> QED
    BY <1>0, <1>5, <2>1, SecondFree DEF NextNames
<1>6. \/ phase[s] = "active" /\ pending[s] # Absent
      \/ phase[s] \in {"types", "first", "second"}
  BY DEF Wanted
<1> QED
  BY <1>1, <1>2, <1>3, <1>4, <1>5, <1>6

LEMMA VictimsStep ==
    ASSUME ExclusiveUse, NamedType = {} \/ \A s, t \in Session : s = t,
           CatalogInv, NoVictims, [Next]_vars
    PROVE  NoVictims'
<1>0. TypeOK
  BY DEF CatalogInv
<1> USE DEF dbVars, cacheVars, txnVars
<1>1. \A s \in Session : ~DeadlockVictim(s)
  BY NobodyWaits DEF DeadlockVictim
<1>2. mustAbort' = mustAbort \/ \E S \in SUBSET Session : Reset(S)
  <2>1. ASSUME NEW s \in Session, CacheStep(s) \/ FileStep(s) PROVE mustAbort' = mustAbort
    BY <2>1 DEF CacheStep, InsertObject, UpdateObject, ModifyObject, DeleteObject, InsertType,
       DeleteType, FileStep, KillCached, KillStored, RenameCached, RenameStored, DeleteOld,
       InsertNew
  <2>2. ASSUME NEW s \in Session, BeginTransaction(s) \/ CommitTransaction(s) \/ CleanUp(s)
        PROVE  mustAbort' = mustAbort
    BY <2>2 DEF BeginTransaction, CommitTransaction, CleanUp, CleanUpType, FirstIteration,
       SecondIteration
  <2>3. ASSUME Crash \/ \E s \in Session : EndTransaction(s) \/ AbortTransaction(s)
        PROVE  \E S \in SUBSET Session : Reset(S)
    BY <2>3 DEF Crash, EndTransaction, AbortTransaction
  <2>4. UNCHANGED vars => mustAbort' = mustAbort
    BY DEF vars
  <2> QED
    BY <1>1, <2>1, <2>2, <2>3, <2>4 DEF Next
<1> QED
  BY <1>0, <1>2, ResetFacts DEF NoVictims

(* With one session, or without types that have a name, there is no victim. *)
THEOREM ObjectsStayIntactApart ==
    ASSUME ExclusiveUse, NamedType = {} \/ \A s, t \in Session : s = t
    PROVE  Spec => []ObjectsIntact
<1>1. Init => CatalogInv /\ FilesKept /\ NoVictims
  BY RecordsInit, FilesInit DEF Init, NoVictims
<1>2. CatalogInv /\ FilesKept /\ NoVictims /\ [Next]_vars =>
          CatalogInv' /\ FilesKept' /\ NoVictims'
  BY CatalogStep, FilesStep, VictimsStep
<1>3. CatalogInv /\ FilesKept => ObjectsIntact
  BY IntactObjects
<1> QED
  BY <1>1, <1>2, <1>3, PTL DEF Spec

(* What a transaction has created, changed or renamed and not deleted is in *)
(* the database once it has committed.                                      *)
THEOREM CommitsStoreObjects ==
    ASSUME ExclusiveUse
    PROVE  Spec => CommitStoresObjects
<1> DEFINE Stores == \A s \in Session : EndTransaction(s) /\ ~mustAbort[s] =>
                        \A n \in Name : Cached(s, n) /\ IsObjectName(s, n) =>
                            saved'.objects[n] # Absent
<1>1. CatalogInv /\ [Next]_vars => Stores
  <2> SUFFICES ASSUME CatalogInv, NEW s \in Session, EndTransaction(s), ~mustAbort[s],
                      NEW n \in Name, Cached(s, n), IsObjectName(s, n)
               PROVE  saved'.objects[n] # Absent
    OBVIOUS
  <2>1. saved' = Merge({s}, Current, saved) /\ Ended(s)
    BY DEF EndTransaction
  <2>2. ~Early(s, n) /\ EntryRight(s, n) /\ objects[s][n].state # "EntryDelete"
    BY <2>1 DEF CatalogInv, EntriesRight, Ended, Early, IsObjectName
  <2>3. Holds(s, n) /\ objCatalogFile[n] # Absent
    BY <2>2 DEF EntryRight
  <2> QED
    BY <2>1, <2>3 DEF Merge, Current, Holds, ObjectKey
<1>2. Spec => []CatalogInv
  BY CatalogInvariant
<1>3. Spec => [][Stores]_vars
  BY <1>1, <1>2, PTL DEF Spec
<1> QED
  BY <1>3 DEF CommitStoresObjects
-----------------------------------------------------------------------------
(* The catalog implements ObjectStore.  Objects are renamed before anything *)
(* else is done to them; then killing and renaming is always a part of the  *)
(* transaction, and when the first iteration is over, so is the second or   *)
(* there was nothing to iterate over.                                       *)
StoreUse == ~SharedObjects /\ RenameUse \subseteq {"untouched"}
PendingInside == \A s \in Session : pending[s] # Absent => phase[s] = "active"
FirstRuns ==
    \A s \in Session : phase[s] = "first" /\ todo[s] = {} => \A n \in Name : ~Cached(s, n)
StoreInv == CatalogInv /\ PendingInside /\ FirstRuns

LEMMA RenamesInside ==
    ASSUME StoreUse, NEW s \in Session, NEW old, NEW new, RenameAllowed(s, old, new)
    PROVE  Running(s) /\ ~Touches(s, old) /\ ~Touches(s, new)
BY DEF StoreUse, RenameAllowed

(* A step at which the iterations of no session go by or end.               *)
Stays ==
    /\ phase' = phase /\ todo' = todo
    /\ \A t \in Session : pending'[t] # Absent => phase[t] = "active"
    /\ \A t \in Session : phase[t] # "active" => objects'[t] = objects[t]

LEMMA StaysInside ==
    ASSUME StoreInv, Stays
    PROVE  PendingInside' /\ FirstRuns'
BY DEF StoreInv, Stays, PendingInside, FirstRuns, Cached

LEMMA CommandStays ==
    ASSUME StoreUse, StoreInv, NEW s \in Session, CacheStep(s) \/ FileStep(s)
    PROVE  Stays
<1> USE DEF dbVars, cacheVars, txnVars
<1>0. TypeOK /\ PendingInside
  BY DEF StoreInv, CatalogInv
<1>1. ASSUME NEW n \in Name, NEW e, Running(s), PutEntry(s, n, e),
             UNCHANGED <<phase, todo, pending>>
      PROVE  Stays
  <2>1. \A t \in Session : t # s => objects'[t] = objects[t]
    BY <1>0, <1>1 DEF PutEntry, TypeOK
  <2> QED
    BY <1>0, <1>1, <2>1 DEF Stays, PendingInside, Running
<1>2. ASSUME UNCHANGED <<phase, todo, objects>>,
             \A t \in Session : pending'[t] # Absent => phase[t] = "active"
      PROVE  Stays
  BY <1>2 DEF Stays
<1>3. ASSUME NEW n \in Name, NEW t \in Type, NEW defined \in BOOLEAN, InsertObject(s, n, t, defined)
      PROVE  Stays
  BY <1>1, <1>3 DEF InsertObject
<1>4. ASSUME NEW n \in Name, UpdateObject(s, n) \/ ModifyObject(s, n) PROVE Stays
  BY <1>1, <1>4 DEF UpdateObject, ModifyObject
<1>5. ASSUME NEW n \in Name, DeleteObject(s, n) \/ KillCached(s, n) PROVE Stays
  BY <1>1, <1>5 DEF DeleteObject, KillCached
<1>6. ASSUME NEW t \in NamedType, InsertType(s, t) \/ DeleteType(s, t) PROVE Stays
  BY <1>0, <1>2, <1>6 DEF InsertType, DeleteType, PendingInside
<1>7. ASSUME NEW n \in Name, KillStored(s, n) PROVE Stays
  BY <1>0, <1>2, <1>7 DEF KillStored, PendingInside, Running, TypeOK
<1>8. ASSUME NEW old \in Name, NEW new \in Name, RenameStored(s, old, new) PROVE Stays
  <2>1. Running(s)
    BY <1>8, RenamesInside DEF RenameStored
  <2> QED
    BY <1>0, <1>2, <1>8, <2>1 DEF RenameStored, PendingInside, Running, TypeOK
<1>9. \A old, new \in Name : ~RenameCached(s, old, new)
  BY RenamesInside DEF RenameCached, Touches
<1>10. ASSUME DeleteOld(s) \/ InsertNew(s) PROVE Stays
  <2>1. UNCHANGED <<phase, todo, objects>> /\ pending[s] # Absent
    BY <1>10 DEF DeleteOld, InsertNew
  <2>2. \A t \in Session \ {s} : pending'[t] = pending[t]
    BY <1>0, <1>10 DEF DeleteOld, InsertNew, TypeOK
  <2> QED
    BY <1>0, <1>2, <2>1, <2>2 DEF PendingInside
<1> QED
  BY <1>3, <1>4, <1>5, <1>6, <1>7, <1>8, <1>9, <1>10 DEF CacheStep, FileStep

LEMMA InsideStep ==
    ASSUME StoreUse, StoreInv, CatalogInv', [Next]_vars
    PROVE  StoreInv'
<1> USE DEF dbVars, cacheVars, txnVars
<1>0. TypeOK /\ PendingInside /\ FirstRuns /\ CachedTodo /\ RecordInv
  BY DEF StoreInv, CatalogInv
<1> DEFINE Inside == PendingInside' /\ FirstRuns'
<1>1. ASSUME NEW s \in Session, CacheStep(s) \/ FileStep(s) PROVE Inside
  BY <1>1, CommandStays, StaysInside
<1>2. ASSUME NEW s \in Session, BeginTransaction(s) PROVE Inside
  BY <1>0, <1>2 DEF BeginTransaction, PendingInside, FirstRuns, TypeOK, Cached
<1>3. ASSUME NEW s \in Session, CommitTransaction(s) PROVE Inside
  <2>1. /\ pending[s] = Absent /\ pending' = pending /\ objects' = objects
        /\ \A t \in Session \ {s} : phase'[t] = phase[t] /\ todo'[t] = todo[t]
        /\ phase'[s] = "first" => todo'[s] = CachedNames(s)
    BY <1>0, <1>3 DEF CommitTransaction, TypeOK
  <2> QED
    BY <1>0, <2>1 DEF PendingInside, FirstRuns, CachedNames, Cached
<1>4. ASSUME NEW s \in Session, CleanUp(s) PROVE Inside
  <2>1. PICK e \in todo[s] : Done(s, e)
    BY <1>4 DEF CleanUp, CleanUpType, FirstIteration, SecondIteration, NextNames
  <2>2. /\ phase[s] \in {"types", "first", "second"}
        /\ pending' = pending /\ objects' = objects
    BY <1>4 DEF CleanUp, CleanUpType, FirstIteration, SecondIteration
  <2>3. /\ \A t \in Session \ {s} : phase'[t] = phase[t] /\ todo'[t] = todo[t]
        /\ \/ todo'[s] = CachedNames(s)
           \/ phase'[s] = phase[s] /\ (todo'[s] # {} \/ phase[s] = "second")
    <3>1. CASE todo[s] = {e} /\ phase[s] # "second"
      BY <1>0, <3>1, <2>1 DEF Done, TypeOK
    <3>2. CASE ~(todo[s] = {e} /\ phase[s] # "second")
      <4>1. phase' = phase /\ todo'[s] = todo[s] \ {e}
            /\ \A t \in Session \ {s} : todo'[t] = todo[t]
        BY <1>0, <3>2, <2>1 DEF Done, TypeOK
      <4> QED
        BY <2>1, <3>2, <4>1
    <3> QED
      BY <3>1, <3>2
  <2>4. pending[s] = Absent
    BY <1>0, <2>2 DEF PendingInside
  <2> QED
    BY <1>0, <2>2, <2>3, <2>4 DEF PendingInside, FirstRuns, CachedNames, Cached
<1>5. ASSUME NEW s \in Session, DeadlockVictim(s) PROVE Inside
  <2>1. Stays
    BY <1>0, <1>5 DEF DeadlockVictim, Stays, PendingInside, TypeOK
  <2> QED
    BY <2>1, StaysInside
<1>6. ASSUME NEW S \in SUBSET Session, Reset(S),
             \A t \in Session : pending'[t] # Absent => pending[t] # Absent /\ t \notin S
      PROVE  Inside
  <2>1. /\ \A t \in S : phase'[t] = "none"
        /\ \A t \in Session \ S : phase'[t] = phase[t] /\ todo'[t] = todo[t]
                                  /\ objects'[t] = objects[t]
    BY <1>0, <1>6, ResetFacts
  <2> QED
    BY <1>0, <1>6, <2>1 DEF PendingInside, FirstRuns, Cached
<1>7. ASSUME NEW s \in Session, EndTransaction(s) \/ AbortTransaction(s) PROVE Inside
  <2>1. Reset({s}) /\ pending' = pending /\ pending[s] = Absent
    BY <1>0, <1>7 DEF EndTransaction, AbortTransaction, Ended, PendingInside
  <2> QED
    BY <1>6, <2>1
<1>8. ASSUME Crash PROVE Inside
  BY <1>6, <1>8 DEF Crash
<1>9. ASSUME UNCHANGED vars PROVE Inside
  BY <1>0, <1>9 DEF vars, PendingInside, FirstRuns, Cached
<1> HIDE DEF Inside
<1>10. Inside
  BY <1>1, <1>2, <1>3, <1>4, <1>5, <1>7, <1>8, <1>9 DEF Next
<1> QED
  BY <1>10 DEF Inside, StoreInv

-----------------------------------------------------------------------------
(* What the store sees of the catalog.                                      *)
FileObject(n) ==
    IF objCatalogFile[n] = Absent THEN Absent
    ELSE [type |-> objCatalogFile[n].type, value |-> StoredValue(n)]
EntryObject(s, n) ==
    IF IsObjectName(s, n) THEN [type |-> objects[s][n].type, value |-> objects[s][n].value]
                          ELSE Absent
ObjectSet == [type : Type, value : ValueId \cup {NoValue}]

LEMMA ChangedFacts ==
    /\ \A n : AsObject(Current, n) = FileObject(n)
    /\ \A s, n : Changed(s, n) = IF Cached(s, n) THEN EntryObject(s, n)
                                 ELSE IF Holds(s, n) THEN FileObject(n) ELSE Unchanged
    /\ \A s, n : Changed(s, n)' = IF Cached(s, n)' THEN EntryObject(s, n)'
                                  ELSE IF Holds(s, n)' THEN FileObject(n)' ELSE Unchanged
<1>1. \A n : AsObject(Current, n) = FileObject(n)
  BY DEF AsObject, Current, FileObject, StoredValue
<1>2. \A n : AsObject(Current, n)' = FileObject(n)'
  BY DEF AsObject, Current, FileObject, StoredValue
<1> QED
  BY <1>1, <1>2 DEF Changed, EntryObject

LEMMA ObjectValues ==
    ASSUME TypeOK
    PROVE  /\ \A n \in Name : FileObject(n) \in ObjectSet \cup {Absent}
           /\ \A s \in Session : \A n \in Name :
                 Cached(s, n) => EntryObject(s, n) \in ObjectSet \cup {Absent}
           /\ Unchanged \notin ObjectSet \cup {Absent}
<1>1. \A n \in Name : FileObject(n) \in ObjectSet \cup {Absent}
  BY StoredValues, RecordFields DEF FileObject, ObjectSet
<1>2. ASSUME NEW s \in Session, NEW n \in Name, Cached(s, n)
      PROVE  EntryObject(s, n) \in ObjectSet \cup {Absent}
  <2>1. objects[s][n] \in Entry
    BY <1>2, TypeFacts
  <2> QED
    BY <2>1 DEF EntryObject, ObjectSet, Entry
<1>3. Unchanged \notin ObjectSet \cup {Absent}
  BY AbsentIsNothing, CatalogConstants DEF ObjectSet
<1> QED
  BY <1>1, <1>2, <1>3

LEMMA NewFileObjects ==
    ASSUME TypeOK'
    PROVE  \A n \in Name : FileObject(n)' \in ObjectSet \cup {Absent}
<1> SUFFICES ASSUME NEW n \in Name PROVE FileObject(n)' \in ObjectSet \cup {Absent}
  OBVIOUS
<1>1. objCatalogFile'[n] \in Record \cup {Absent} /\ objValueFile' \in Values
  BY DEF TypeOK, Objects
<1>2. objCatalogFile'[n] # Absent => StoredValue(n)' \in ValueId \cup {NoValue}
  BY <1>1, RecordFields DEF StoredValue, Values
<1> QED
  BY <1>1, <1>2, RecordFields DEF FileObject, ObjectSet

(* The committed objects and the transactions are as they were, and so is   *)
(* what these make of the objects, except for what s makes of n.            *)
ShowsOnly(s, n) ==
    /\ \A m \in Name : AsObject(saved, m)' = AsObject(saved, m)
    /\ \A t \in Session : phase'[t] = "none" <=> phase[t] = "none"
    /\ \A t \in Session : \A m \in Name :
          t # s \/ m # n => Changed(t, m)' = Changed(t, m)

LEMMA ShowsChange ==
    ASSUME NEW s \in Session, NEW n \in Name, ShowsOnly(s, n)
    PROVE  /\ Changed(s, n)' = Changed(s, n) => UNCHANGED Store!vars
           /\ phase[s] # "none" /\ Changed(s, n)' \in ObjectSet \cup {Absent} => Store!Next
           /\ phase[s] # "none" /\ Changed(s, n)' = Unchanged /\ AsObject(saved, n) = Absent
                => Store!Next
<1> DEFINE stored == [m \in Name |-> AsObject(saved, m)]
           running == [t \in Session |-> phase[t] # "none"]
           changes == [t \in Session |-> [m \in Name |-> Changed(t, m)]]
<1>1. stored' = stored
  BY DEF ShowsOnly
<1>2. running' = running
  BY DEF ShowsOnly
<1>3. ASSUME NEW o, Changed(s, n)' = o
      PROVE  changes' = [changes EXCEPT ![s][n] = o]
  BY <1>3 DEF ShowsOnly
<1>4. Changed(s, n)' = Changed(s, n) => UNCHANGED Store!vars
  <2> SUFFICES ASSUME Changed(s, n)' = Changed(s, n) PROVE UNCHANGED Store!vars
    OBVIOUS
  <2>1. changes' = changes
    BY DEF ShowsOnly
  <2> QED
    BY <1>1, <1>2, <2>1 DEF Store!vars
<1>5. phase[s] # "none" => running[s]
  OBVIOUS
<1>6. ASSUME phase[s] # "none", NEW o, o = Changed(s, n)' PROVE Store!Change(s, n, o)
  <2>1. changes' = [changes EXCEPT ![s][n] = o]
    BY <1>3, <1>6
  <2> QED
    BY <1>1, <1>2, <1>5, <1>6, <2>1 DEF Store!Change
<1>7. ASSUME phase[s] # "none", Changed(s, n)' \in ObjectSet \cup {Absent} PROVE Store!Next
  BY <1>6, <1>7 DEF Store!Next, ObjectSet
<1>8. ASSUME phase[s] # "none", Changed(s, n)' = Unchanged, AsObject(saved, n) = Absent
      PROVE  Store!Next
  <2>1. Store!Change(s, n, Unchanged)
    BY <1>6, <1>8
  <2>2. stored[n] = Absent
    BY <1>8
  <2>3. Store!Undo(s, n)
    BY <2>1, <2>2 DEF Store!Undo
  <2> QED
    BY <2>3 DEF Store!Next
<1> QED
  BY <1>4, <1>7, <1>8

(* What a session has made of an object, of which nothing changes.          *)
LEMMA SameObject ==
    ASSUME NEW s \in Session, NEW n \in Name,
           Cached(s, n)' <=> Cached(s, n), Holds(s, n)' <=> Holds(s, n),
           Cached(s, n) => objects'[s][n] = objects[s][n],
           ~Cached(s, n) /\ Holds(s, n) => FileObject(n)' = FileObject(n)
    PROVE  Changed(s, n)' = Changed(s, n)
<1>1. Changed(s, n)' = IF Cached(s, n)' THEN EntryObject(s, n)'
                       ELSE IF Holds(s, n)' THEN FileObject(n)' ELSE Unchanged
  BY ChangedFacts
<1>2. Cached(s, n) => EntryObject(s, n)' = EntryObject(s, n)
  BY DEF EntryObject, IsObjectName
<1> QED
  BY <1>1, <1>2, ChangedFacts

LEMMA SameFiles ==
    ASSUME UNCHANGED <<objCatalogFile, objValueFile>>
    PROVE  \A n : FileObject(n)' = FileObject(n)
BY DEF FileObject, StoredValue

(* The commands on objects.                                                 *)
LEMMA PutShows ==
    ASSUME CatalogInv, CatalogInv', NEW s \in Session, NEW n \in Name, NEW e, PutStep(s, n, e)
    PROVE  Store!Next
<1>0. TypeOK /\ TypeOK' /\ RecordInv
  BY DEF CatalogInv
<1>1. /\ Active(s) /\ phase' = phase /\ saved' = saved
      /\ objCatalogFile' = objCatalogFile /\ objValueFile' = objValueFile
      /\ \A t \in Session : \A m \in Name : Holds(t, m)' <=> Holds(t, m)
  BY <1>0, PutFacts
<1>2. /\ objects'[s][n] = e /\ (Cached(s, n)' <=> e # Absent)
      /\ \A t \in Session : \A m \in Name : t # s \/ m # n =>
            objects'[t][m] = objects[t][m] /\ (Cached(t, m)' <=> Cached(t, m))
      /\ e = Absent => Cached(s, n) /\ objects[s][n].state = "EntryInsert"
  BY PutOthers
<1>3. \A m : FileObject(m)' = FileObject(m)
  BY <1>1, SameFiles
<1>4. ASSUME NEW t \in Session, NEW m \in Name, t # s \/ m # n
      PROVE  Changed(t, m)' = Changed(t, m)
  BY <1>1, <1>2, <1>3, <1>4, SameObject
<1>5. ShowsOnly(s, n) /\ phase[s] # "none"
  BY <1>1, <1>4 DEF ShowsOnly, AsObject, Active
<1>6. Changed(s, n)' = IF Cached(s, n)' THEN EntryObject(s, n)'
                       ELSE IF Holds(s, n)' THEN FileObject(n)' ELSE Unchanged
  BY ChangedFacts
<1>7. CASE e # Absent
  <2>1. EntryObject(s, n)' \in ObjectSet \cup {Absent}
    <3>1. e \in Entry
      BY <1>7, PutOthers
    <3> QED
      BY <1>2, <3>1 DEF EntryObject, ObjectSet, Entry
  <2> QED
    BY <1>2, <1>5, <1>6, <1>7, <2>1, ShowsChange
<1>8. CASE e = Absent
  <2>1. Cached(s, n) /\ EntryRight(s, n) /\ Early(s, n)
    BY <1>0, <1>1, <1>2, <1>8, ActiveEarly DEF CatalogInv, EntriesRight, Active
  <2>2. objCatalogFile[n] = Absent
    BY <1>2, <1>8, <2>1 DEF EntryRight
  <2>3. FileObject(n)' = Absent
    BY <1>3, <2>2 DEF FileObject
  <2>4. ASSUME ~Holds(s, n) PROVE AsObject(saved, n) = Absent
    <3>1. \A t \in Session : ~Holds(t, n)
      BY <1>0, <2>1, <2>4, TouchFacts DEF RecordInv, SessionsApart
    <3>2. saved.objects[n] = Absent
      BY <1>0, <2>2, <3>1 DEF RecordInv, UnlockedCommitted
    <3> QED
      BY <3>2 DEF AsObject
  <2> QED
    BY <1>1, <1>2, <1>5, <1>6, <1>8, <2>3, <2>4, ShowsChange
<1> QED
  BY <1>7, <1>8

-----------------------------------------------------------------------------
(* A write is seen by nobody but the session that writes: the records of    *)
(* all other objects lead where they did.                                   *)
FileWrite(s, n) ==
    /\ UNCHANGED <<saved, objects>> /\ Touches(s, n)
    /\ \A t \in Session : phase'[t] = "none" <=> phase[t] = "none"
    /\ \A m \in Name \ {n} : objCatalogFile'[m] = objCatalogFile[m]
    /\ \A q \in ValueId :
          \/ objValueFile'[q] = objValueFile[q]
          \/ objCatalogFile[n] # Absent /\ objCatalogFile[n].rec = q
          \/ \A m \in Name : \A x \in Record : Live(m, x) => x.rec # q
    /\ \A t \in Session : \A m \in Name :
          t # s \/ m # n => (Holds(t, m)' <=> Holds(t, m))

LEMMA WriteShows ==
    ASSUME CatalogInv, NEW s \in Session, NEW n \in Name, FileWrite(s, n)
    PROVE  ShowsOnly(s, n)
<1>0. TypeOK /\ RecordInv
  BY DEF CatalogInv
<1>1. ASSUME NEW m \in Name \ {n} PROVE FileObject(m)' = FileObject(m)
  <2>1. objCatalogFile'[m] = objCatalogFile[m]
    BY DEF FileWrite
  <2>2. ASSUME NEW x, x = objCatalogFile[m], x # Absent, x.rec # NoValue
        PROVE  objValueFile'[x.rec] = objValueFile[x.rec]
    <3>1. x \in Record /\ Live(m, x) /\ x.rec \in ValueId
      BY <1>0, <2>2, LiveFacts, RecordFields
    <3>2. ~(objCatalogFile[n] # Absent /\ objCatalogFile[n].rec = x.rec)
      <4>1. objCatalogFile[n] # Absent => /\ Live(n, objCatalogFile[n])
                                          /\ objCatalogFile[n] \in Record
        BY <1>0, LiveFacts
      <4> QED
        BY <1>0, <2>2, <3>1, <4>1 DEF RecordInv, RecordsApart
    <3> QED
      BY <3>1, <3>2 DEF FileWrite
  <2> QED
    BY <2>1, <2>2 DEF FileObject, StoredValue
<1>2. \A t \in Session \ {s} : ~Touches(t, n)
  BY <1>0 DEF FileWrite, RecordInv, SessionsApart
<1>3. ASSUME NEW t \in Session, NEW m \in Name, t # s \/ m # n
      PROVE  Changed(t, m)' = Changed(t, m)
  <2>1. /\ Cached(t, m)' <=> Cached(t, m)
        /\ Holds(t, m)' <=> Holds(t, m)
        /\ objects'[t][m] = objects[t][m]
    BY <1>3 DEF FileWrite, Cached
  <2>2. ~Cached(t, m) /\ Holds(t, m) => FileObject(m)' = FileObject(m)
    BY <1>0, <1>1, <1>2, <1>3, TouchFacts
  <2> QED
    BY <2>1, <2>2, SameObject
<1>4. \A m \in Name : AsObject(saved, m)' = AsObject(saved, m)
  BY DEF FileWrite, AsObject
<1> QED
  BY <1>3, <1>4 DEF ShowsOnly, FileWrite

(* The object that an entry is for is what the entry says.                  *)
LEMMA EntryWriteShows ==
    ASSUME CatalogInv, NEW s \in Session, NEW n \in Name, FileWrite(s, n), Cached(s, n)
    PROVE  UNCHANGED Store!vars
<1>1. ShowsOnly(s, n)
  BY WriteShows
<1>2. objects' = objects
  BY DEF FileWrite
<1>3. Cached(s, n)' /\ EntryObject(s, n)' = EntryObject(s, n)
  BY <1>2 DEF Cached, EntryObject, IsObjectName
<1> QED
  BY <1>1, <1>3, ChangedFacts, ShowsChange

(* Killing and renaming.                                                    *)
LEMMA MoveShows ==
    ASSUME StoreInv, CatalogInv', NEW s \in Session, DeleteOld(s) \/ InsertNew(s),
           NEW n \in Name, NEW p, p = pending[s], n = IF p.op = "insert" THEN p.new ELSE p.old
    PROVE  Store!Next
<1> USE DEF cacheVars
<1>0. TypeOK /\ TypeOK' /\ RecordInv /\ CatalogInv
  BY DEF StoreInv, CatalogInv
<1>1. /\ p # Absent /\ PendingFits(s, p) /\ phase[s] = "active" /\ p.record \in Record
      /\ p.op \in {"kill", "delete", "insert"} /\ p.old \in Name /\ p.new \in Name
  BY <1>0, TypeFacts DEF DeleteOld, InsertNew, StoreInv, PendingInside, RecordInv, PendingRight
<1>2. ~Cached(s, n) /\ Touches(s, n)
  BY <1>0, <1>1, TouchFacts DEF PendingFits
<1>3. PICK K, r : /\ (K = {} /\ r = NoValue) \/ K = ValueKeys(r)
                  /\ Lock(s, {ObjectKey(n)} \cup K)
                  /\ \A q \in ValueId : q # r => objValueFile'[q] = objValueFile[q]
                  /\ r # NoValue => objCatalogFile[n] # Absent /\ objCatalogFile[n].rec = r
  <2>1. CASE p.op = "insert"
    <3>1. Lock(s, {ObjectKey(n)} \cup {}) /\ objValueFile' = objValueFile
      BY <1>1, <2>1 DEF DeleteOld, InsertNew
    <3> QED
      BY <3>1
  <2>2. CASE p.op # "insert"
    <3> DEFINE keys == IF p.op = "kill" /\ objCatalogFile[n] # Absent
                       THEN ValueKeys(p.record.rec) ELSE {}
    <3>1. /\ DeleteOld(s) /\ n = p.old
          /\ Lock(s, {ObjectKey(n)} \cup keys)
          /\ objValueFile' = [q \in ValueId |->
                IF <<"value", q>> \in keys THEN NoValue ELSE objValueFile[q]]
      BY <1>1, <2>2 DEF DeleteOld, InsertNew
    <3>2. objCatalogFile[n] # Absent /\ p.record = objCatalogFile[n]
      BY <1>1, <2>2, <3>1 DEF PendingFits
    <3>3. CASE p.op = "kill"
      <4> DEFINE r == p.record.rec
      <4>1. keys = ValueKeys(r)
        BY <3>2, <3>3
      <4>2. \A q \in ValueId : q # r => objValueFile'[q] = objValueFile[q]
        BY <3>1, <4>1, ValueKeyFacts
      <4> QED
        BY <3>1, <3>2, <4>1, <4>2
    <3>4. CASE p.op # "kill"
      <4>1. keys = {}
        BY <3>4
      <4>2. \A q \in ValueId : objValueFile'[q] = objValueFile[q]
        BY <3>1, <4>1
      <4> QED
        BY <3>1, <4>1, <4>2
    <3> QED
      BY <3>3, <3>4
  <2> QED
    BY <2>1, <2>2
<1>4. \A t \in Session : \A m \in Name : Holds(t, m)' <=> Holds(t, m) \/ (t = s /\ m = n)
  <2>1. TypeOK /\ Lock(s, {ObjectKey(n)} \cup K)
    BY <1>0, <1>3
  <2>2. \A m : ObjectKey(m) \in {ObjectKey(n)} \cup K <=> m = n
    BY <1>3, RecordKeys, ObjectKeyFacts
  <2> DEFINE L == {ObjectKey(n)} \cup K
  <2>3. Lock(s, L) /\ \A m : ObjectKey(m) \in L <=> m = n
    BY <2>1, <2>2
  <2> HIDE DEF L
  <2> QED
    BY <2>1, <2>3, LockEffect
<1>5. /\ objects' = objects /\ phase' = phase /\ saved' = saved
      /\ \A m \in Name \ {n} : objCatalogFile'[m] = objCatalogFile[m]
  BY <1>0, <1>1 DEF DeleteOld, InsertNew, WriteObject, TypeOK, Objects
<1>6. \A q \in ValueId : objValueFile'[q] = objValueFile[q] \/
                         (objCatalogFile[n] # Absent /\ objCatalogFile[n].rec = q)
  BY <1>3, Numbers
<1>7. FileWrite(s, n)
  BY <1>2, <1>4, <1>5, <1>6 DEF FileWrite
<1>8. ShowsOnly(s, n)
  BY <1>0, <1>7, WriteShows
<1>9. Changed(s, n)' = FileObject(n)'
  <2>1. ~Cached(s, n)' /\ Holds(s, n)'
    BY <1>2, <1>4, <1>5 DEF Cached
  <2> QED
    BY <2>1, ChangedFacts
<1>10. FileObject(n)' \in ObjectSet \cup {Absent}
  BY <1>0, <1>1, NewFileObjects
<1> QED
  BY <1>1, <1>8, <1>9, <1>10, ShowsChange

(* CleanUp writes what the entries say.                                     *)
LEMMA IterationShows ==
    ASSUME CatalogInv, NEW s \in Session, NEW n \in Name, ~mustAbort[s],
           FirstIteration(s, n) \/ SecondIteration(s, n)
    PROVE  UNCHANGED Store!vars
<1> DEFINE e == objects[s][n]
           there == objCatalogFile[n]
<1> USE DEF cacheVars
<1>0. TypeOK /\ RecordInv
  BY DEF CatalogInv
<1>1. /\ phase[s] \in {"first", "second"} /\ n \in todo[s] /\ Done(s, n)
      /\ UNCHANGED <<saved, objects>>
  BY DEF FirstIteration, SecondIteration, NextNames
<1>2. Cached(s, n) /\ e \in Entry /\ Touches(s, n) /\ (phase[s] = "first" <=> Early(s, n)) /\ ~Late(s, n)
  <2>1. Cached(s, n)
    BY <1>1 DEF CatalogInv, CachedTodo
  <2> QED
    BY <1>0, <1>1, <2>1, TypeFacts, TouchFacts DEF Early, Late
<1>3. EntryRight(s, n) /\ EntryValueRight(s, n)
  BY <1>2 DEF CatalogInv, EntriesRight
<1>4. \A t \in Session : phase'[t] = "none" <=> phase[t] = "none"
  <2>1. /\ \A t \in Session \ {s} : phase'[t] = phase[t]
        /\ phase'[s] \in {"types", "first", "second"}
    BY <1>0, <1>1, DoneFacts
  <2> QED
    BY <1>1, <2>1
<1>5. /\ e.rec # NoValue => e.rec \in ValueId
      /\ e.value # NoValue => e.value \in ValueId
  BY <1>2, EntryFields
<1>6. \A q \in ValueId :
          \/ objValueFile'[q] = objValueFile[q]
          \/ there # Absent /\ there.rec = q
          \/ \A m \in Name : \A x \in Record : Live(m, x) => x.rec # q
  <2>1. CASE FirstIteration(s, n)
    <3>1. \A q \in ValueId : objValueFile'[q] = objValueFile[q] \/ <<"value", q>> \in FirstKeys(s, n)
      BY <2>1 DEF FirstIteration
    <3>2. ASSUME NEW q \in ValueId, <<"value", q>> \in FirstKeys(s, n)
          PROVE  there # Absent /\ there.rec = q
      <4>1. there # Absent /\ <<"value", q>> \in ValueKeys(e.rec)
        BY <3>2, ObjectKeyFacts DEF FirstKeys
      <4>2. q = e.rec /\ e.rec # NoValue
        BY <4>1, ValueKeyFacts, Numbers
      <4>3. Early(s, n)
        BY <1>2, <2>1 DEF FirstIteration
      <4> QED
        BY <1>3, <4>1, <4>2, <4>3 DEF EntryRight
    <3> QED
      BY <3>1, <3>2
  <2>2. CASE SecondIteration(s, n)
    <3>1. CASE ~Saves(s, n)
      BY <2>2, <3>1 DEF SecondIteration
    <3>2. CASE Saves(s, n)
      <4> DEFINE r == ValueRecord(e)
      <4>1. /\ e.state # "EntryDelete" /\ e.value # NoValue /\ there # Absent
            /\ \/ objValueFile' = objValueFile
               \/ objValueFile' = [objValueFile EXCEPT ![r] = e.value]
        BY <2>2, <3>2 DEF SecondIteration, Saves
      <4>2. \A q \in ValueId : q # r => objValueFile'[q] = objValueFile[q]
        BY <1>0, <4>1 DEF TypeOK, Values
      <4>3. CASE e.rec # NoValue
        <5>1. there.rec = r
          BY <1>3, <4>1, <4>3 DEF EntryRight, ValueRecord
        <5> QED
          BY <4>1, <4>2, <5>1
      <4>4. CASE e.rec = NoValue
        <5>1. r = e.value /\ e.value \in created[s]
          BY <1>3, <4>1, <4>4 DEF EntryValueRight, ValueRecord
        <5>2. \A m \in Name : \A x \in Record : Live(m, x) => x.rec # r
          BY <1>2, <1>3, <4>1, <5>1 DEF EntryValueRight
        <5> QED
          BY <4>2, <5>2
      <4> QED
        BY <4>3, <4>4
    <3> QED
      BY <3>1, <3>2
  <2> QED
    BY <2>1, <2>2
<1>7. \A t \in Session : \A m \in Name : t # s \/ m # n => (Holds(t, m)' <=> Holds(t, m))
  <2>1. PICK K : Lock(s, K) /\ \A m : ObjectKey(m) \in K <=> m = n
    <3>1. \A m : /\ ObjectKey(m) \in FirstKeys(s, n) <=> m = n
                 /\ ObjectKey(m) \in SecondKeys(s, n) <=> m = n
      BY ValueKeyFacts, ObjectKeyFacts DEF FirstKeys, SecondKeys
    <3>2. Lock(s, FirstKeys(s, n)) \/ Lock(s, SecondKeys(s, n))
      BY <1>0, WritesFacts DEF FirstIteration, SecondIteration
    <3> QED
      BY <3>1, <3>2
  <2> QED
    BY <1>0, <2>1, LockEffect
<1>8. \A m \in Name \ {n} : objCatalogFile'[m] = objCatalogFile[m]
  BY <1>0 DEF FirstIteration, SecondIteration, TypeOK, Objects
<1>9. FileWrite(s, n)
  BY <1>1, <1>2, <1>4, <1>6, <1>7, <1>8 DEF FileWrite
<1> QED
  BY <1>2, <1>9, EntryWriteShows

(* Steps that change neither objects nor their entries.                     *)
LEMMA QuietShows ==
    ASSUME UNCHANGED <<objCatalogFile, objValueFile, saved, objects>>,
           \A t \in Session : \A n \in Name : Holds(t, n)' <=> Holds(t, n),
           \A t \in Session : phase'[t] = "none" <=> phase[t] = "none"
    PROVE  UNCHANGED Store!vars
<1> DEFINE stored == [m \in Name |-> AsObject(saved, m)]
           running == [t \in Session |-> phase[t] # "none"]
           changes == [t \in Session |-> [m \in Name |-> Changed(t, m)]]
<1>1. \A n : FileObject(n)' = FileObject(n)
  BY SameFiles
<1>2. ASSUME NEW t \in Session, NEW n \in Name PROVE Changed(t, n)' = Changed(t, n)
  <2>1. (Cached(t, n)' <=> Cached(t, n)) /\ objects'[t][n] = objects[t][n]
    BY DEF Cached
  <2> QED
    BY <1>1, <2>1, SameObject
<1>3. stored' = stored
  BY DEF AsObject
<1>4. running' = running
  OBVIOUS
<1>5. changes' = changes
  BY <1>2
<1> QED
  BY <1>3, <1>4, <1>5 DEF Store!vars

LEMMA IdleShows ==
    ASSUME TypeOK, TypeOK', NEW s \in Session, IdleStep(s), phase'[s] = "none" <=> phase[s] = "none"
    PROVE  UNCHANGED Store!vars
<1>1. /\ UNCHANGED <<objCatalogFile, objValueFile, saved, objects>>
      /\ \A n \in Name : Holds(s, n)' <=> Holds(s, n)
      /\ \A t \in Session \ {s} : locks'[t] = locks[t] /\ phase'[t] = phase[t]
  BY DEF IdleStep, QuietStep
<1>2. \A t \in Session : \A n \in Name : Holds(t, n)' <=> Holds(t, n)
  BY <1>1 DEF Holds
<1> QED
  BY <1>1, <1>2, QuietShows

LEMMA BeginShows ==
    ASSUME NEW s \in Session, TypeOK, BeginTransaction(s)
    PROVE  Store!Next
<1> DEFINE stored == [m \in Name |-> AsObject(saved, m)]
           running == [t \in Session |-> phase[t] # "none"]
           changes == [t \in Session |-> [m \in Name |-> Changed(t, m)]]
<1>1. /\ phase[s] = "none" /\ phase' = [phase EXCEPT ![s] = "active"]
      /\ UNCHANGED <<objCatalogFile, objValueFile, saved, objects, locks>>
  BY DEF BeginTransaction, dbVars, cacheVars
<1>2. ASSUME NEW t \in Session, NEW n \in Name PROVE Changed(t, n)' = Changed(t, n)
  <2>1. /\ (Cached(t, n)' <=> Cached(t, n)) /\ objects'[t][n] = objects[t][n]
        /\ (Holds(t, n)' <=> Holds(t, n)) /\ FileObject(n)' = FileObject(n)
    BY <1>1, SameFiles DEF Cached, Holds
  <2> QED
    BY <2>1, SameObject
<1>3. stored' = stored /\ ~running[s]
  BY <1>1 DEF AsObject
<1>4. running' = [running EXCEPT ![s] = TRUE]
  BY <1>1 DEF TypeOK
<1>5. changes' = changes
  BY <1>2
<1>6. Store!Begin(s)
  BY <1>3, <1>4, <1>5 DEF Store!Begin
<1> QED
  BY <1>6 DEF Store!Next

-----------------------------------------------------------------------------
(* Transactions end: what the others have made of the objects stays.        *)
LEMMA EndShows ==
    ASSUME CatalogInv, CatalogInv', NEW S \in SUBSET Session, Ends(S), EndRecords(S)
    PROVE  /\ \A t \in S : /\ phase'[t] = "none"
                           /\ \A m \in Name : Changed(t, m)' = Unchanged
           /\ \A t \in Session \ S : /\ phase'[t] = phase[t]
                                     /\ \A m \in Name : Changed(t, m)' = Changed(t, m)
<1>0. TypeOK /\ TypeOK' /\ RecordInv
  BY DEF CatalogInv
<1>1. /\ \A t \in Session : \A m \in Name :
            /\ Cached(t, m)' <=> Cached(t, m) /\ t \notin S
            /\ Holds(t, m)' <=> Holds(t, m) /\ t \notin S
      /\ \A t \in Session \ S : \A m \in Name : Touches(t, m) => ~HeldBy(S, m)
  BY <1>0, EndFrame
<1>2. ASSUME NEW t \in S, NEW m \in Name PROVE Changed(t, m)' = Unchanged
  BY <1>1, ChangedFacts
<1>3. ASSUME NEW t \in Session \ S, NEW m \in Name PROVE Changed(t, m)' = Changed(t, m)
  <2>1. ASSUME Holds(t, m) PROVE FileObject(m)' = FileObject(m)
    <3>1. objCatalogFile'[m] = objCatalogFile[m] /\ ~HeldBy(S, m)
      BY <1>0, <1>1, <2>1, TouchFacts DEF Ends
    <3>2. ASSUME NEW x, x = objCatalogFile[m], x # Absent, x.rec # NoValue
          PROVE  objValueFile'[x.rec] = objValueFile[x.rec]
      <4>1. x \in Record /\ Live(m, x)'
        BY <1>0, <3>1, <3>2, TypeFacts DEF Live
      <4> QED
        BY <3>1, <3>2, <4>1 DEF EndRecords
    <3> QED
      BY <3>1, <3>2 DEF FileObject, StoredValue
  <2>2. objects'[t] = objects[t]
    BY DEF Ends
  <2> QED
    BY <1>1, <2>1, <2>2, SameObject
<1>4. /\ \A t \in S : phase'[t] = "none"
      /\ \A t \in Session \ S : phase'[t] = phase[t]
  BY DEF Ends
<1> QED
  BY <1>2, <1>3, <1>4

LEMMA RollBackShows ==
    ASSUME CatalogInv, CatalogInv', NEW S \in SUBSET Session, RollsBack(S)
    PROVE  Store!Next
<1> DEFINE stored == [m \in Name |-> AsObject(saved, m)]
           running == [t \in Session |-> phase[t] # "none"]
           changes == [t \in Session |-> [m \in Name |-> Changed(t, m)]]
           none == [m \in Name |-> Unchanged]
<1>0. TypeOK /\ TypeOK' /\ Ends(S) /\ EndRecords(S) /\ saved' = saved
  BY RollBackRecords DEF CatalogInv, RollsBack, RollBack
<1>1. /\ \A t \in S : /\ phase'[t] = "none"
                      /\ \A m \in Name : Changed(t, m)' = Unchanged
      /\ \A t \in Session \ S : /\ phase'[t] = phase[t]
                                /\ \A m \in Name : Changed(t, m)' = Changed(t, m)
  BY <1>0, EndShows
<1>2. stored' = stored
  BY <1>0 DEF AsObject
<1>3. running' = [t \in Session |-> running[t] /\ t \notin S]
  BY <1>1
<1>4. \A t \in Session : changes'[t] = IF t \in S THEN none ELSE changes[t]
  BY <1>1
<1>5. changes' = [t \in Session |-> IF t \in S THEN none ELSE changes[t]]
  <2> DEFINE c == changes'
  <2>1. c = [t \in Session |-> c[t]]
    OBVIOUS
  <2>2. \A t \in Session : c[t] = IF t \in S THEN none ELSE changes[t]
    BY <1>4
  <2> HIDE DEF c
  <2>3. c = [t \in Session |-> IF t \in S THEN none ELSE changes[t]]
    BY <2>1, <2>2
  <2> QED
    BY <2>3 DEF c
<1>6. Store!GiveUp(S)
  BY <1>2, <1>3, <1>5 DEF Store!GiveUp, Store!NoChanges
<1> QED
  BY <1>6 DEF Store!Next

(* The commit: the database takes over what the transaction has made of the *)
(* objects, those that CleanUp has written and those that were killed or    *)
(* renamed.                                                                 *)
LEMMA CommittedObject ==
    ASSUME StoreInv, CatalogInv', NEW s \in Session, EndTransaction(s), Commits(s), ~mustAbort[s],
           NEW n \in Name
    PROVE  AsObject(saved, n)' = IF Changed(s, n) = Unchanged THEN AsObject(saved, n)
                                                               ELSE Changed(s, n)
<1> DEFINE there == objCatalogFile[n]
           after == saved'.objects[n]
<1>0. TypeOK /\ TypeOK' /\ RecordInv /\ CatalogInv /\ FirstRuns
  BY DEF StoreInv, CatalogInv
<1>1. /\ Ends({s}) /\ EndRecords({s})
      /\ \A m \in Name : \A y \in Record :
            Stored(m, y)' /\ Holds(s, m) /\ y.rec # NoValue =>
                saved'.values[y.rec] = objValueFile[y.rec]
  BY <1>0, CommitRecords
<1>2. after = IF Holds(s, n) THEN there ELSE saved.objects[n]
  BY DEF Commits, Merge, Current, Holds, ObjectKey
<1>3. AsObject(saved, n)' =
        IF after = Absent THEN Absent
        ELSE [type |-> after.type,
              value |-> IF after.defined /\ after.rec # NoValue
                        THEN saved'.values[after.rec] ELSE NoValue]
  BY DEF AsObject
<1>4. ASSUME after # Absent, after.rec # NoValue
      PROVE  /\ Holds(s, n) => saved'.values[after.rec] = objValueFile[after.rec]
             /\ ~Holds(s, n) => saved'.values[after.rec] = saved.values[after.rec]
  <2>1. PICK x : x = after
    OBVIOUS
  <2>2. x \in Record /\ Stored(n, x)' /\ x.rec # NoValue
    BY <1>0, <1>4, <2>1 DEF TypeOK, Objects, Stored
  <2>3. Holds(s, n) => saved'.values[x.rec] = objValueFile[x.rec]
    BY <1>1, <2>2
  <2>4. ~Holds(s, n) => saved'.values[x.rec] = saved.values[x.rec]
    BY <1>1, <2>2 DEF EndRecords, HeldBy
  <2> QED
    BY <2>1, <2>3, <2>4
<1>5. FileObject(n) \in ObjectSet \cup {Absent} /\ Unchanged \notin ObjectSet \cup {Absent}
      /\ (Cached(s, n) => EntryObject(s, n) \in ObjectSet \cup {Absent})
  BY <1>0, ObjectValues
<1>6. CASE Cached(s, n)
  <2> DEFINE e == objects[s][n]
  <2>1. phase[s] = "second" /\ todo[s] = {} /\ ~Early(s, n) /\ Late(s, n)
    BY <1>0, <1>6 DEF EndTransaction, Ended, FirstRuns, Early, Late
  <2>2. EntryRight(s, n) /\ WrittenRight(s, n) /\ e \in Entry
    BY <1>0, <1>6, TypeFacts DEF CatalogInv, EntriesRight
  <2>3. Holds(s, n) /\ after = there /\ (there = Absent <=> e.state = "EntryDelete")
    BY <1>2, <2>1, <2>2 DEF EntryRight
  <2>4. Changed(s, n) = EntryObject(s, n) /\ Changed(s, n) # Unchanged
    BY <1>5, <1>6, ChangedFacts
  <2>5. CASE e.state = "EntryDelete"
    BY <1>3, <1>6, <2>3, <2>4, <2>5 DEF EntryObject, IsObjectName
  <2>6. CASE e.state # "EntryDelete"
    <3>1. EntryObject(s, n) = [type |-> e.type, value |-> e.value]
      BY <1>6, <2>6 DEF EntryObject, IsObjectName
    <3>2. after # Absent /\ after.type = e.type
      BY <2>1, <2>2, <2>3, <2>6 DEF WrittenRight
    <3>3. CASE e.value = NoValue
      BY <1>3, <2>1, <2>2, <2>3, <2>4, <2>6, <3>1, <3>2, <3>3 DEF WrittenRight
    <3>4. CASE e.value # NoValue
      <4>1. /\ after.defined /\ after.rec = ValueRecord(e)
            /\ objValueFile[after.rec] = e.value
        BY <2>1, <2>2, <2>3, <2>6, <3>4 DEF WrittenRight
      <4>2. after.rec # NoValue
        BY <3>4, <4>1 DEF ValueRecord
      <4>3. saved'.values[after.rec] = e.value
        BY <1>4, <2>3, <3>2, <4>1, <4>2
      <4> QED
        BY <1>3, <2>4, <3>1, <3>2, <4>1, <4>2, <4>3
    <3> QED
      BY <3>3, <3>4
  <2> QED
    BY <2>5, <2>6
<1>7. CASE ~Cached(s, n) /\ Holds(s, n)
  <2>1. Changed(s, n) = FileObject(n) /\ Changed(s, n) # Unchanged /\ after = there
    BY <1>2, <1>5, <1>7, ChangedFacts
  <2>2. after # Absent /\ after.rec # NoValue => saved'.values[after.rec] = objValueFile[after.rec]
    BY <1>4, <1>7
  <2> QED
    BY <1>3, <2>1, <2>2 DEF FileObject, StoredValue
<1>8. CASE ~Cached(s, n) /\ ~Holds(s, n)
  <2>1. Changed(s, n) = Unchanged /\ after = saved.objects[n]
    BY <1>2, <1>8, ChangedFacts
  <2>2. after # Absent /\ after.rec # NoValue => saved'.values[after.rec] = saved.values[after.rec]
    BY <1>4, <1>8
  <2> QED
    BY <1>3, <2>1, <2>2 DEF AsObject
<1> QED
  BY <1>6, <1>7, <1>8

LEMMA CommitShows ==
    ASSUME StoreInv, CatalogInv', NEW s \in Session, EndTransaction(s), Commits(s), ~mustAbort[s]
    PROVE  Store!Next
<1> DEFINE stored == [m \in Name |-> AsObject(saved, m)]
           running == [t \in Session |-> phase[t] # "none"]
           changes == [t \in Session |-> [m \in Name |-> Changed(t, m)]]
           none == [m \in Name |-> Unchanged]
<1>0. TypeOK /\ TypeOK' /\ CatalogInv /\ Ends({s}) /\ EndRecords({s})
  BY CommitRecords DEF StoreInv, CatalogInv
<1>1. /\ phase'[s] = "none" /\ \A m \in Name : Changed(s, m)' = Unchanged
      /\ \A t \in Session \ {s} : /\ phase'[t] = phase[t]
                                  /\ \A m \in Name : Changed(t, m)' = Changed(t, m)
  BY <1>0, EndShows
<1>2. running[s]
  BY DEF EndTransaction, Ended
<1>3. stored' = [m \in Name |-> IF changes[s][m] = Unchanged THEN stored[m] ELSE changes[s][m]]
  BY CommittedObject
<1>4. running' = [running EXCEPT ![s] = FALSE]
  BY <1>1
<1>5. changes' = [changes EXCEPT ![s] = none]
  BY <1>1
<1>6. Store!Commit(s)
  BY <1>2, <1>3, <1>4, <1>5 DEF Store!Commit, Store!View, Store!NoChanges
<1> QED
  BY <1>6 DEF Store!Next

-----------------------------------------------------------------------------
LEMMA StoreInit == Init => Store!Init
<1> SUFFICES ASSUME Init PROVE Store!Init
  OBVIOUS
<1>1. /\ \A n \in Name : AsObject(saved, n) = Absent
      /\ \A s \in Session : phase[s] = "none" /\ \A n \in Name : ~Cached(s, n) /\ ~Holds(s, n)
  BY DEF Init, Empty, AsObject, NoEntries, Cached, Holds
<1>2. \A s \in Session : \A n \in Name : Changed(s, n) = Unchanged
  BY <1>1, ChangedFacts
<1> QED
  BY <1>1, <1>2 DEF Store!Init, Store!NoChanges

LEMMA StoreStep ==
    ASSUME StoreUse, StoreInv, CatalogInv', [Next]_vars
    PROVE  [Store!Next]_(Store!vars)
<1> DEFINE Maps == Store!Next \/ UNCHANGED Store!vars
<1>0. TypeOK /\ TypeOK' /\ CatalogInv /\ CachedTodo /\ RecordInv /\ PendingInside
      /\ ~SharedObjects /\ ExclusiveUse
  BY DEF StoreInv, CatalogInv, StoreUse, ExclusiveUse
<1>1. ASSUME NEW s \in Session, IdleStep(s), phase'[s] = "none" <=> phase[s] = "none" PROVE Maps
  BY <1>0, <1>1, IdleShows
<1>2. ASSUME NEW s \in Session, CacheStep(s) \/ FileStep(s), phase[s] # "none" PROVE Maps
  <2>a. phase' = phase
    <3>1. Stays
      BY <1>2, CommandStays
    <3> QED
      BY <3>1 DEF Stays
  <2>1. ASSUME NEW n \in Name,
               \/ \E t \in Type : \E defined \in BOOLEAN : InsertObject(s, n, t, defined)
               \/ UpdateObject(s, n) \/ ModifyObject(s, n)
               \/ DeleteObject(s, n) \/ KillCached(s, n)
        PROVE  Maps
    <3>1. PICK e : PutStep(s, n, e)
      BY <1>0, <2>1, CommandStep
    <3> QED
      BY <1>0, <3>1, PutShows
  <2>2. ASSUME NEW t \in NamedType, InsertType(s, t) \/ DeleteType(s, t) PROVE Maps
    <3>1. IdleStep(s)
      BY <1>0, <2>2, IdleSteps
    <3> QED
      BY <1>1, <2>a, <3>1
  <2>3. ASSUME NEW old \in Name, NEW new \in Name,
               (KillStored(s, old) /\ new = old) \/ RenameStored(s, old, new)
        PROVE  Maps
    <3>1. IdleStep(s)
      BY <1>0, <2>3, RequestStep
    <3> QED
      BY <1>1, <2>a, <3>1
  <2>4. \A old, new \in Name : ~RenameCached(s, old, new)
    BY RenamesInside DEF RenameCached, Touches
  <2>5. ASSUME DeleteOld(s) \/ InsertNew(s) PROVE Maps
    <3>1. PICK p : p = pending[s]
      OBVIOUS
    <3>2. p \in Pending
      BY <1>0, <2>5, <3>1 DEF DeleteOld, InsertNew, TypeOK
    <3>3. PICK n \in Name : n = IF p.op = "insert" THEN p.new ELSE p.old
      BY <3>2 DEF Pending
    <3> QED
      BY <2>5, <3>1, <3>3, MoveShows
  <2> HIDE DEF Maps
  <2> QED
    BY <1>2, <2>1, <2>2, <2>3, <2>4, <2>5 DEF CacheStep, FileStep
<1>3. ASSUME NEW s \in Session, CacheStep(s) \/ FileStep(s) PROVE phase[s] # "none"
  <2>1. Running(s) \/ pending[s] # Absent
    BY <1>3, RenamesInside DEF CacheStep, FileStep, InsertObject, UpdateObject, ModifyObject,
       DeleteObject, InsertType, DeleteType, KillCached, KillStored, RenameCached, RenameStored,
       DeleteOld, InsertNew
  <2> QED
    BY <1>0, <2>1 DEF Running, PendingInside
<1>4. ASSUME NEW s \in Session, CleanUp(s) \/ CommitTransaction(s) PROVE Maps
  <2>1. phase'[s] # "none" /\ phase[s] # "none"
    <3>1. CASE CommitTransaction(s)
      BY <1>0, <3>1 DEF CommitTransaction, TypeOK
    <3>2. CASE CleanUp(s)
      <4>1. PICK e \in todo[s] : Done(s, e) /\ phase[s] \in {"types", "first", "second"}
        BY <3>2 DEF CleanUp, CleanUpType, FirstIteration, SecondIteration, NextNames
      <4> QED
        BY <1>0, <4>1, DoneFacts
    <3> QED
      BY <1>4, <3>1, <3>2
  <2>2. ASSUME NEW n \in Name, ~mustAbort[s], FirstIteration(s, n) \/ SecondIteration(s, n)
        PROVE  Maps
    BY <1>0, <2>2, IterationShows
  <2>3. ASSUME ~\E n \in Name : ~mustAbort[s] /\ (FirstIteration(s, n) \/ SecondIteration(s, n))
        PROVE  Maps
    <3>1. IdleStep(s)
      BY <1>0, <1>4, <2>3, IdleSteps DEF CleanUp
    <3> QED
      BY <1>1, <2>1, <3>1
  <2> QED
    BY <2>2, <2>3
<1>5. ASSUME NEW s \in Session, BeginTransaction(s) PROVE Maps
  BY <1>0, <1>5, BeginShows
<1>6. ASSUME NEW s \in Session, DeadlockVictim(s) PROVE Maps
  <2>1. UNCHANGED <<objCatalogFile, objValueFile, saved, objects, locks, phase>>
    BY <1>6 DEF DeadlockVictim, dbVars, cacheVars
  <2>2. \A t \in Session : \A n \in Name : Holds(t, n)' <=> Holds(t, n)
    BY <2>1 DEF Holds
  <2> QED
    BY <2>1, <2>2, QuietShows
<1>7. ASSUME NEW s \in Session, EndTransaction(s) \/ AbortTransaction(s) PROVE Maps
  <2>1. pending[s] = Absent /\ pending' = pending
    BY <1>0, <1>7, NoPending DEF EndTransaction, AbortTransaction, Ended
  <2>2. CASE RollBack({s})
    <3>1. RollsBack({s})
      BY <1>7, <2>1, <2>2 DEF RollsBack, EndTransaction, AbortTransaction
    <3> QED
      BY <1>0, <3>1, RollBackShows
  <2>3. CASE ~RollBack({s})
    <3>1. Commits(s) /\ EndTransaction(s) /\ ~mustAbort[s]
      BY <1>7, <2>1, <2>3 DEF Commits, EndTransaction, AbortTransaction
    <3> QED
      BY <3>1, CommitShows
  <2> QED
    BY <2>2, <2>3
<1>8. ASSUME Crash PROVE Maps
  <2>1. RollsBack(Session)
    BY <1>8 DEF Crash, RollsBack
  <2> QED
    BY <1>0, <2>1, RollBackShows
<1>9. ASSUME UNCHANGED vars PROVE Maps
  <2>1. UNCHANGED <<objCatalogFile, objValueFile, saved, objects, locks, phase>>
    BY <1>9 DEF vars, dbVars, cacheVars, txnVars
  <2>2. \A t \in Session : \A n \in Name : Holds(t, n)' <=> Holds(t, n)
    BY <2>1 DEF Holds
  <2> QED
    BY <2>1, <2>2, QuietShows
<1> HIDE DEF Maps
<1>10. Maps
  BY <1>2, <1>3, <1>4, <1>5, <1>6, <1>7, <1>8, <1>9 DEF Next
<1> QED
  BY <1>10 DEF Maps

(* Users see of the catalog that an object is created, replaced or removed  *)
(* inside a transaction, which takes over all of it when it commits, or     *)
(* none: the caches, the two iterations of CleanUp, killing and renaming in *)
(* two steps, and what a crash or an abort leaves behind, are invisible.    *)
THEOREM CatalogImplementsStore ==
    ASSUME StoreUse
    PROVE  Spec => StoreSpec
<1>1. Init => StoreInv /\ Store!Init
  <2>1. Init => PendingInside /\ FirstRuns
    BY DEF Init, PendingInside, FirstRuns
  <2> QED
    BY <2>1, RecordsInit, StoreInit DEF StoreInv
<1>2. StoreInv /\ [Next]_vars => StoreInv' /\ [Store!Next]_(Store!vars)
  <2> SUFFICES ASSUME StoreInv, [Next]_vars PROVE StoreInv' /\ [Store!Next]_(Store!vars)
    OBVIOUS
  <2>1. CatalogInv'
    BY CatalogStep DEF StoreInv, StoreUse, ExclusiveUse
  <2> QED
    BY <2>1, InsideStep, StoreStep
<1> QED
  BY <1>1, <1>2, PTL DEF Spec, StoreSpec, Store!Spec

-----------------------------------------------------------------------------
(* The types of a database that one session uses.  What it has locked of    *)
(* the catalog of types is on its way from the cache to the committed file. *)
TypeLocked(s, t) == <<"type", t>> \in locks[s]
EarlyType(s, t) == phase[s] = "active" \/ (phase[s] = "types" /\ t \in todo[s])

TypesCommitted ==
    \A t \in NamedType : (\A s \in Session : ~TypeLocked(s, t)) =>
        (t \in typeCatalogFile <=> t \in saved.types)

TypeEntryRight(s, t) ==
    /\ phase[s] = "none" => types[s][t] = Absent
    /\ phase[s] = "types" /\ t \in todo[s] => types[s][t] # Absent
    /\ types[s][t] # Absent /\ EarlyType(s, t) =>
          (types[s][t] = "EntryInsert" <=> t \notin typeCatalogFile)
    /\ ~EarlyType(s, t) => (MemberType(s, t) <=> t \in typeCatalogFile)
TypeEntries == \A s \in Session : \A t \in NamedType : TypeEntryRight(s, t)

(* The type of every object of the files and of the cache is one of the     *)
(* types that the session sees, that of a committed object is committed.    *)
UsedType(t) ==
    \/ \E n \in Name : \E x \in Record : Live(n, x) /\ x.type = t
    \/ \E s \in Session : \E n \in Name :
          Cached(s, n) /\ ~Deleted(s, n) /\ objects[s][n].type = t
StoredType(t) == \E n \in Name : saved.objects[n] # Absent /\ saved.objects[n].type = t
KnownTypes ==
    \A t \in NamedType : /\ UsedType(t) => \A s \in Session : MemberType(s, t)
                         /\ StoredType(t) => t \in saved.types

TypeInv == TypesCommitted /\ TypeEntries /\ KnownTypes
Alone == \A s, t \in Session : s = t

LEMMA StoredTypes == KnownTypes => TypesExist
BY DEF KnownTypes, TypesExist, StoredType

(* Locks on objects and on their values are not locks on types.             *)
LEMMA TypeKeyFacts ==
    \A t : /\ \A n : <<"type", t>> # ObjectKey(n)
           /\ \A r : <<"type", t>> \notin ValueKeys(r)
           /\ \A s, n : <<"type", t>> \notin FirstKeys(s, n) /\ <<"type", t>> \notin SecondKeys(s, n)
<1>1. \A t : /\ \A n : <<"type", t>> # ObjectKey(n)
             /\ \A r : <<"type", t>> \notin ValueKeys(r)
  BY DEF ObjectKey, ValueKeys
<1> QED
  BY <1>1 DEF FirstKeys, SecondKeys

LEMMA TypeLockEffect ==
    ASSUME TypeOK, NEW s \in Session, NEW K, Lock(s, K), NEW t \in Session, NEW u
    PROVE  TypeLocked(t, u)' <=> TypeLocked(t, u) \/ (t = s /\ <<"type", u>> \in K)
BY DEF TypeOK, Lock, TypeLocked

(* A step that leaves the types alone, and does not use another one.        *)
TypesKept(s) ==
    /\ UNCHANGED <<typeCatalogFile, types>> /\ saved'.types = saved.types
    /\ \A t \in Session : phase'[t] = "none" <=> phase[t] = "none"
    /\ \A t \in Session : phase'[t] = "types" => phase[t] = "types"
    /\ \A t \in Session : \A u \in NamedType :
          /\ TypeLocked(t, u)' <=> TypeLocked(t, u)
          /\ EarlyType(t, u)' <=> EarlyType(t, u)
    /\ \A t \in NamedType :
          /\ UsedType(t)' => UsedType(t) \/ MemberType(s, t)
          /\ StoredType(t)' => StoredType(t) \/ (UsedType(t) /\ phase[s] = "none")

LEMMA KeptTypes ==
    ASSUME Alone, CatalogInv, TypeInv, NEW s \in Session, TypesKept(s)
    PROVE  TypeInv'
<1>1. \A t \in Session : \A u \in NamedType : MemberType(t, u)' <=> MemberType(t, u)
  BY DEF MemberType, TypesKept
<1>2. TypesCommitted'
  BY DEF TypesCommitted, TypesKept, TypeInv
<1>3. TypeEntries'
  <2> SUFFICES ASSUME NEW t \in Session, NEW u \in NamedType PROVE TypeEntryRight(t, u)'
    BY DEF TypeEntries
  <2>1. TypeEntryRight(t, u)
    BY DEF TypeInv, TypeEntries
  <2>2. phase'[t] = "types" /\ u \in todo'[t] => phase[t] = "types" /\ u \in todo[t]
    BY DEF TypesKept, EarlyType
  <2> QED
    BY <1>1, <2>1, <2>2 DEF TypeEntryRight, TypesKept
<1>4. KnownTypes'
  <2> SUFFICES ASSUME NEW t \in NamedType
               PROVE  /\ UsedType(t)' => \A u \in Session : MemberType(u, t)'
                      /\ StoredType(t)' => t \in saved'.types
    BY DEF KnownTypes
  <2>1. UsedType(t) => \A u \in Session : MemberType(u, t)
    BY DEF TypeInv, KnownTypes
  <2>2. UsedType(t)' => \A u \in Session : MemberType(u, t)'
    BY <1>1, <2>1 DEF TypesKept, Alone
  <2>3. ASSUME UsedType(t), phase[s] = "none" PROVE t \in saved.types
    <3>1. types[s][t] = Absent
      BY <2>3 DEF TypeInv, TypeEntries, TypeEntryRight
    <3>2. t \in typeCatalogFile
      BY <2>1, <2>3, <3>1 DEF MemberType
    <3>3. \A u \in Session : ~TypeLocked(u, t)
      BY <2>3 DEF CatalogInv, RecordInv, IdleInv, IdleRight, TypeLocked, Alone
    <3> QED
      BY <3>2, <3>3 DEF TypeInv, TypesCommitted
  <2> QED
    BY <2>2, <2>3 DEF TypesKept, TypeInv, KnownTypes
<1> QED
  BY <1>2, <1>3, <1>4 DEF TypeInv

(* The commands that put an entry in the cache.                             *)
LEMMA PutTypes ==
    ASSUME Alone, CatalogInv, TypeInv, NEW s \in Session, NEW n \in Name,
           NEW e \in Entry \cup {Absent}, PutEntry(s, n, e),
           UNCHANGED <<objCatalogFile, typeCatalogFile, saved, types, phase, todo, locks, pending>>,
           e # Absent /\ e.state # "EntryDelete" =>
               \/ e.type \in NamedType => MemberType(s, e.type)
               \/ IsObjectName(s, n) /\ e.type = IF Cached(s, n) THEN objects[s][n].type
                                                 ELSE objCatalogFile[n].type
    PROVE  TypeInv'
<1>0. TypeOK
  BY DEF CatalogInv
<1>1. \A t \in Session : \A m \in Name :
          objects'[t][m] = IF t = s /\ m = n THEN e ELSE objects[t][m]
  BY <1>0 DEF PutEntry, TypeOK
<1>2. \A m \in Name : \A x : Live(m, x)' <=> Live(m, x)
  BY DEF Live, Inserts
<1>3. IsObjectName(s, n) /\ ~Cached(s, n) =>
          Live(n, objCatalogFile[n]) /\ objCatalogFile[n] \in Record
  BY <1>0, LiveFacts DEF IsObjectName, CatalogInv
<1>4. IsObjectName(s, n) /\ Cached(s, n) => ~Deleted(s, n)
  BY DEF IsObjectName, Deleted
<1>5. ASSUME NEW t \in NamedType, UsedType(t)' PROVE UsedType(t) \/ MemberType(s, t)
  <2>1. CASE \E m \in Name : \E x \in Record : Live(m, x)' /\ x.type = t
    BY <1>2, <2>1 DEF UsedType
  <2>2. ASSUME NEW u \in Session, NEW m \in Name,
               Cached(u, m)' /\ ~Deleted(u, m)' /\ objects'[u][m].type = t
        PROVE  UsedType(t) \/ MemberType(s, t)
    <3>1. CASE u # s \/ m # n
      BY <1>1, <2>2, <3>1 DEF UsedType, Cached, Deleted
    <3>2. CASE u = s /\ m = n
      <4>1. e # Absent /\ e.state # "EntryDelete" /\ e.type = t
        BY <1>1, <2>2, <3>2 DEF Cached, Deleted
      <4> QED
        BY <1>3, <1>4, <4>1 DEF UsedType
    <3> QED
      BY <3>1, <3>2
  <2> QED
    BY <1>5, <2>1, <2>2 DEF UsedType
<1>6. TypesKept(s)
  BY <1>5 DEF TypesKept, StoredType, EarlyType, TypeLocked
<1> QED
  BY <1>6, KeptTypes

LEMMA CommandTypes ==
    ASSUME Alone, CatalogInv, TypeInv, CatalogInv', NEW s \in Session, NEW n \in Name,
           \/ \E t \in Type : \E defined \in BOOLEAN : InsertObject(s, n, t, defined)
           \/ UpdateObject(s, n) \/ ModifyObject(s, n)
           \/ DeleteObject(s, n) \/ KillCached(s, n)
    PROVE  TypeInv'
<1> DEFINE before == objects[s][n]
           there == objCatalogFile[n]
           here == IF Cached(s, n) THEN before.type ELSE there.type
<1> USE DEF dbVars, txnVars
<1>0. /\ TypeOK /\ TypeOK'
      /\ Cached(s, n) => before \in Entry
      /\ there # Absent => there \in Record /\ there.type \in Type
  BY TypeFacts, RecordFields DEF CatalogInv
<1>1. ASSUME NEW e, PutEntry(s, n, e),
             UNCHANGED <<objCatalogFile, typeCatalogFile, saved, types, phase, todo, locks, pending>>,
             e # Absent /\ e.state # "EntryDelete" =>
                 \/ e.type \in NamedType => MemberType(s, e.type)
                 \/ IsObjectName(s, n) /\ e.type = here
      PROVE  TypeInv'
  <2>1. e \in Entry \cup {Absent}
    <3>1. objects'[s][n] = e
      BY <1>0, <1>1 DEF PutEntry, TypeOK
    <3> QED
      BY <1>0, <3>1 DEF TypeOK
  <2> QED
    BY <1>1, <2>1, PutTypes
<1>2. ASSUME NEW t \in Type, NEW defined \in BOOLEAN, InsertObject(s, n, t, defined) PROVE TypeInv'
  <2> DEFINE e == [state |-> IF Cached(s, n) THEN "EntryUpdate" ELSE "EntryInsert",
                   type |-> t, rec |-> NoValue,
                   value |-> IF defined THEN Latest ELSE NoValue]
  <2>1. /\ PutEntry(s, n, e) /\ (t \in NamedType => MemberType(s, t))
        /\ UNCHANGED <<objCatalogFile, typeCatalogFile, saved, types, phase, todo, locks, pending>>
    BY <1>2 DEF InsertObject
  <2>2. e.type = t
    OBVIOUS
  <2> HIDE DEF e
  <2> QED
    BY <1>1, <2>1, <2>2
<1>3. CASE UpdateObject(s, n)
  <2> DEFINE e == IF Cached(s, n) THEN [before EXCEPT !.value = Latest] ELSE UpdateEntry(n, Latest)
  <2>1. /\ PutEntry(s, n, e) /\ IsObjectName(s, n)
        /\ UNCHANGED <<objCatalogFile, typeCatalogFile, saved, types, phase, todo, locks, pending>>
    BY <1>3 DEF UpdateObject
  <2>2. e.type = here
    BY <1>0 DEF UpdateEntry, Entry
  <2> HIDE DEF e, here
  <2> QED
    BY <1>1, <2>1, <2>2
<1>4. CASE ModifyObject(s, n)
  <2> DEFINE e == UpdateEntry(n, StoredValue(n))
  <2>1. /\ PutEntry(s, n, e) /\ IsObjectName(s, n) /\ ~Cached(s, n)
        /\ UNCHANGED <<objCatalogFile, typeCatalogFile, saved, types, phase, todo, locks, pending>>
    BY <1>4 DEF ModifyObject
  <2>2. e.type = here
    BY <2>1 DEF UpdateEntry
  <2> HIDE DEF e, here
  <2> QED
    BY <1>1, <2>1, <2>2
<1>5. CASE DeleteObject(s, n) \/ KillCached(s, n)
  <2> DEFINE e == objects'[s][n]
  <2>1. UNCHANGED <<objCatalogFile, typeCatalogFile, saved, types, phase, todo, locks, pending>>
    BY <1>5 DEF DeleteObject, KillCached
  <2>2. PICK x : PutEntry(s, n, x) /\ (x = Absent \/ x.state = "EntryDelete")
    <3> DEFINE y == IF Cached(s, n)
                    THEN [before EXCEPT !.state = "EntryDelete"]
                    ELSE [state |-> "EntryDelete", value |-> StoredValue(n),
                          type |-> there.type, rec |-> NoValue]
    <3>1. PutEntry(s, n, Absent) \/ (PutEntry(s, n, y) /\ (Cached(s, n) \/ DeleteObject(s, n)))
      BY <1>5 DEF DeleteObject, KillCached
    <3>2. y.state = "EntryDelete"
      BY <1>0 DEF Entry
    <3> HIDE DEF y
    <3> QED
      BY <3>1, <3>2
  <2> QED
    BY <1>1, <2>1, <2>2
<1> QED
  BY <1>2, <1>3, <1>4, <1>5

LEMMA MoveTypes ==
    ASSUME Alone, CatalogInv, TypeInv, CatalogInv', NEW s \in Session,
           NEW old \in Name, NEW new \in Name,
           RenameCached(s, old, new) \/ KillStored(s, old) \/ RenameStored(s, old, new)
    PROVE  TypeInv'
<1> USE DEF dbVars, cacheVars, txnVars
<1>0. TypeOK /\ RecordInv
  BY DEF CatalogInv
<1>1. UNCHANGED <<objCatalogFile, typeCatalogFile, saved, types, phase, todo, locks>>
  BY DEF RenameCached, KillStored, RenameStored
<1>2. \A n \in Name : \A x : Live(n, x)' => Live(n, x)
  <2>1. \A u \in Session : pending'[u] = pending[u] \/ pending'[u].op \in {"kill", "delete"}
    BY <1>0 DEF RenameCached, KillStored, RenameStored, TypeOK
  <2>2. \A u \in Session : \A n \in Name : Inserts(u, n)' => Inserts(u, n) /\ pending'[u] = pending[u]
    BY <2>1 DEF Inserts
  <2> QED
    BY <1>1, <2>2 DEF Live
<1>3. \A u \in Session : \A n \in Name :
          \/ objects'[u][n] \in {objects[u][n], Absent}
          \/ u = s /\ objects'[u][n] = objects[s][old]
  BY <1>0 DEF RenameCached, KillStored, RenameStored, TypeOK
<1>4. ASSUME NEW t \in NamedType, UsedType(t)' PROVE UsedType(t)
  <2>1. CASE \E m \in Name : \E x \in Record : Live(m, x)' /\ x.type = t
    BY <1>2, <2>1 DEF UsedType
  <2>2. ASSUME NEW u \in Session, NEW m \in Name,
               Cached(u, m)' /\ ~Deleted(u, m)' /\ objects'[u][m].type = t
        PROVE  UsedType(t)
    BY <1>3, <2>2 DEF UsedType, Cached, Deleted
  <2> QED
    BY <1>4, <2>1, <2>2 DEF UsedType
<1>5. TypesKept(s)
  BY <1>1, <1>4 DEF TypesKept, StoredType, EarlyType, TypeLocked
<1> QED
  BY <1>5, KeptTypes

(* A record is written, one that there was before under one name or another.*)
LEMMA WriteTypes ==
    ASSUME Alone, CatalogInv, TypeInv, NEW s \in Session, NEW n \in Name,
           UNCHANGED <<typeCatalogFile, types, objects>>, saved'.types = saved.types,
           \A t \in Session : phase'[t] = "none" <=> phase[t] = "none",
           \A t \in Session : phase'[t] = "types" => phase[t] = "types",
           \A t \in Session : \A u \in NamedType : TypeLocked(t, u)' <=> TypeLocked(t, u),
           \A t \in Session : \A u \in NamedType : EarlyType(t, u)' <=> EarlyType(t, u),
           \A m \in Name : \A x \in Record : Live(m, x)' => UsedType(x.type),
           saved' = saved \/ (phase[s] = "none" /\ \A m \in Name \ {n} : saved'.objects[m] = saved.objects[m]),
           saved' # saved /\ saved'.objects[n] # Absent => UsedType(saved'.objects[n].type)
    PROVE  TypeInv'
<1>1. ASSUME NEW t \in NamedType, UsedType(t)' PROVE UsedType(t)
  <2>1. CASE \E m \in Name : \E x \in Record : Live(m, x)' /\ x.type = t
    BY <2>1
  <2>2. CASE \E u \in Session : \E m \in Name :
                Cached(u, m)' /\ ~Deleted(u, m)' /\ objects'[u][m].type = t
    BY <2>2 DEF UsedType, Cached, Deleted
  <2> QED
    BY <1>1, <2>1, <2>2 DEF UsedType
<1>2. ASSUME NEW t \in NamedType, StoredType(t)'
      PROVE  StoredType(t) \/ (UsedType(t) /\ phase[s] = "none")
  BY <1>2 DEF StoredType
<1>3. TypesKept(s)
  BY <1>1, <1>2 DEF TypesKept
<1> QED
  BY <1>3, KeptTypes

LEMMA FileTypes ==
    ASSUME Alone, CatalogInv, TypeInv, CatalogInv', NEW s \in Session, DeleteOld(s) \/ InsertNew(s),
           NEW n \in Name, NEW p \in Pending, p = pending[s],
           n = IF p.op = "insert" THEN p.new ELSE p.old
    PROVE  TypeInv'
<1> USE DEF cacheVars
<1>0. TypeOK /\ RecordInv
  BY DEF CatalogInv
<1>1. p # Absent /\ PendingFits(s, p) /\ p.op \in {"kill", "delete", "insert"} /\ p.record \in Record
  BY <1>0, TypeFacts DEF DeleteOld, InsertNew, RecordInv, PendingRight
<1>2. /\ UNCHANGED <<typeCatalogFile, types, objects, phase, todo>>
      /\ \A m \in Name \ {n} : objCatalogFile'[m] = objCatalogFile[m]
      /\ saved' = IF phase[s] = "none"
                  THEN [saved EXCEPT !.objects[n] = objCatalogFile'[n]] ELSE saved
      /\ objCatalogFile'[n] \in {Absent, p.record}
      /\ objCatalogFile'[n] # Absent => Inserts(s, n)
      /\ \A u \in Session : pending'[u] = Absent \/ pending'[u] = pending[u]
                            \/ pending'[u].record = objCatalogFile[n]
  <2>1. CASE p.op = "insert"
    <3>1. InsertNew(s) /\ n = p.new /\ objCatalogFile[n] = Absent /\ Inserts(s, n)
      BY <1>1, <2>1 DEF DeleteOld, InsertNew, PendingFits, Inserts
    <3>2. WriteObject(s, n, p.record) /\ pending' = [pending EXCEPT ![s] = Absent]
      BY <3>1 DEF InsertNew
    <3> QED
      BY <1>0, <3>1, <3>2 DEF InsertNew, WriteObject, TypeOK, Objects
  <2>2. CASE p.op # "insert"
    <3>1. /\ DeleteOld(s) /\ n = p.old /\ objCatalogFile[n] # Absent
          /\ p.record = objCatalogFile[n]
      BY <1>1, <2>2 DEF DeleteOld, InsertNew, PendingFits
    <3>2. /\ WriteObject(s, n, Absent)
          /\ pending' = [pending EXCEPT ![s] = IF p.op = "kill" THEN Absent
                                               ELSE [p EXCEPT !.op = "insert"]]
      BY <3>1 DEF DeleteOld
    <3>3. [p EXCEPT !.op = "insert"].record = p.record
      BY DEF Pending
    <3> QED
      BY <1>0, <3>1, <3>2, <3>3 DEF DeleteOld, WriteObject, TypeOK, Objects
  <2> QED
    BY <2>1, <2>2
<1>3. \A t \in Session : \A u \in NamedType : TypeLocked(t, u)' <=> TypeLocked(t, u)
  <2>1. PICK K : (locks' = locks \/ Lock(s, K)) /\ \A u : <<"type", u>> \notin K
    <3>1. CASE InsertNew(s)
      <4>1. locks' = locks \/ Lock(s, {ObjectKey(p.new)})
        BY <3>1 DEF InsertNew
      <4> QED
        BY <4>1, TypeKeyFacts
    <3>2. CASE DeleteOld(s)
      <4> DEFINE keys == IF p.op = "kill" /\ objCatalogFile[p.old] # Absent
                         THEN ValueKeys(p.record.rec) ELSE {}
      <4>1. locks' = locks \/ Lock(s, {ObjectKey(p.old)} \cup keys)
        BY <3>2 DEF DeleteOld
      <4>2. \A u : <<"type", u>> \notin {ObjectKey(p.old)} \cup keys
        BY TypeKeyFacts
      <4> HIDE DEF keys
      <4> QED
        BY <4>1, <4>2
    <3> QED
      BY <3>1, <3>2
  <2> QED
    BY <1>0, <2>1, TypeLockEffect DEF TypeLocked
<1>4. \A m \in Name : \A x \in Record : Live(m, x)' => UsedType(x.type)
  <2> SUFFICES ASSUME NEW m \in Name, NEW x \in Record, Live(m, x)' PROVE UsedType(x.type)
    OBVIOUS
  <2>1. PICK k \in Name : Live(k, x)
    <3>1. CASE objCatalogFile'[m] # Absent /\ x = objCatalogFile'[m]
      <4>1. CASE m # n
        BY <1>2, <3>1, <4>1 DEF Live
      <4>2. CASE m = n
        BY <1>2, <3>1, <4>2 DEF Live
      <4> QED
        BY <4>1, <4>2
    <3>2. ASSUME NEW u \in Session, Inserts(u, m)', x = pending'[u].record PROVE \E k \in Name : Live(k, x)
      <4>1. CASE pending'[u] = pending[u]
        BY <3>2, <4>1 DEF Inserts, Live
      <4>2. CASE pending'[u].record = objCatalogFile[n]
        BY <3>2, <4>2, RecordFields DEF Live
      <4> QED
        BY <1>2, <3>2, <4>1, <4>2 DEF Inserts
    <3> QED
      BY <3>1, <3>2 DEF Live
  <2> QED
    BY <2>1 DEF UsedType
<1>5. saved' # saved /\ saved'.objects[n] # Absent => UsedType(saved'.objects[n].type)
  <2>1. saved' # saved => saved'.objects[n] = objCatalogFile'[n]
    BY <1>0, <1>2 DEF TypeOK, Objects
  <2>2. objCatalogFile'[n] # Absent => Live(n, p.record)
    BY <1>2 DEF Live, Inserts
  <2> QED
    BY <1>1, <1>2, <2>1, <2>2 DEF UsedType
<1>6. /\ saved'.types = saved.types
      /\ saved' = saved \/ (phase[s] = "none" /\ \A m \in Name \ {n} : saved'.objects[m] = saved.objects[m])
  BY <1>0, <1>2 DEF TypeOK, Objects
<1>7. \A t \in Session : \A u \in NamedType : EarlyType(t, u)' <=> EarlyType(t, u)
  BY <1>2 DEF EarlyType
<1> QED
  BY <1>2, <1>3, <1>4, <1>5, <1>6, <1>7, WriteTypes, SMTT(30)

LEMMA IterationTypes ==
    ASSUME Alone, CatalogInv, TypeInv, CatalogInv', NEW s \in Session, NEW n \in Name,
           ~mustAbort[s], FirstIteration(s, n) \/ SecondIteration(s, n)
    PROVE  TypeInv'
<1> USE DEF cacheVars
<1> DEFINE e == objects[s][n]
           there == objCatalogFile[n]
<1>0. TypeOK /\ RecordInv
  BY DEF CatalogInv
<1>1. /\ phase[s] \in {"first", "second"} /\ n \in todo[s] /\ Done(s, n)
      /\ UNCHANGED <<typeCatalogFile, types, saved, objects, pending>>
  BY DEF FirstIteration, SecondIteration, NextNames
<1>2. Cached(s, n) /\ e \in Entry
  <2>1. Cached(s, n)
    BY <1>1 DEF CatalogInv, CachedTodo
  <2> QED
    BY <1>0, <2>1, TypeFacts
<1>3. /\ phase'[s] \in {"first", "second"}
      /\ \A t \in Session \ {s} : phase'[t] = phase[t] /\ todo'[t] = todo[t]
  BY <1>0, <1>1 DEF Done, TypeOK
<1>4. \A t \in Session : /\ phase'[t] = "none" <=> phase[t] = "none"
                         /\ phase'[t] = "types" => phase[t] = "types"
                         /\ \A u \in NamedType : EarlyType(t, u)' <=> EarlyType(t, u)
  BY <1>1, <1>3 DEF EarlyType
<1>5. \A t \in Session : \A u \in NamedType : TypeLocked(t, u)' <=> TypeLocked(t, u)
  <2>1. PICK K : Lock(s, K) /\ \A u : <<"type", u>> \notin K
    <3>1. Lock(s, FirstKeys(s, n)) \/ Lock(s, SecondKeys(s, n))
      BY <1>0, WritesFacts DEF FirstIteration, SecondIteration
    <3> QED
      BY <3>1, TypeKeyFacts
  <2> QED
    BY <1>0, <2>1, TypeLockEffect
<1>6. /\ \A m \in Name \ {n} : objCatalogFile'[m] = objCatalogFile[m]
      /\ objCatalogFile'[n] # Absent =>
            \/ there # Absent /\ objCatalogFile'[n].type = there.type
            \/ e.state # "EntryDelete" /\ objCatalogFile'[n].type = e.type
  <2>1. /\ \A m \in Name \ {n} : objCatalogFile'[m] = objCatalogFile[m]
        /\ \/ objCatalogFile'[n] = FirstRecord(e, there)
           \/ Saves(s, n) /\ objCatalogFile'[n] = SecondRecord(e, there)
           \/ objCatalogFile'[n] = there
    BY <1>0 DEF FirstIteration, SecondIteration, TypeOK, Objects
  <2>2. there # Absent => there \in Record
    BY <1>0, TypeFacts
  <2>3. CASE objCatalogFile'[n] = FirstRecord(e, there)
    <3>1. e.state \in {"EntryInsert", "EntryUpdate", "EntryDelete"}
      BY <1>2, EntryFields DEF State
    <3> QED
      BY <2>1, <2>2, <2>3, <3>1 DEF FirstRecord, Record
  <2>4. CASE Saves(s, n) /\ objCatalogFile'[n] = SecondRecord(e, there)
    BY <2>1, <2>2, <2>4 DEF Saves, SecondRecord, Record
  <2> QED
    BY <2>1, <2>3, <2>4
<1>7. \A m \in Name : \A x \in Record : Live(m, x)' => UsedType(x.type)
  <2> SUFFICES ASSUME NEW m \in Name, NEW x \in Record, Live(m, x)' PROVE UsedType(x.type)
    OBVIOUS
  <2>1. CASE Live(m, x)
    BY <2>1 DEF UsedType
  <2>2. CASE ~Live(m, x)
    <3>1. m = n /\ objCatalogFile'[n] # Absent /\ x = objCatalogFile'[n]
      BY <1>1, <1>6, <2>2 DEF Live, Inserts
    <3>2. CASE there # Absent /\ x.type = there.type
      <4>1. Live(n, there) /\ there \in Record
        BY <1>0, <3>2, LiveFacts
      <4> QED
        BY <3>2, <4>1 DEF UsedType
    <3>3. CASE e.state # "EntryDelete" /\ x.type = e.type
      BY <1>2, <3>3 DEF UsedType, Deleted
    <3> QED
      BY <1>6, <3>1, <3>2, <3>3
  <2> QED
    BY <2>1, <2>2
<1> QED
  BY <1>1, <1>4, <1>5, <1>7, WriteTypes

-----------------------------------------------------------------------------
(* The commands on types, and how CleanUp writes them.                      *)
LEMMA NewTypes ==
    ASSUME Alone, CatalogInv, TypeInv, NEW s \in Session, NEW u \in NamedType,
           InsertType(s, u) \/ DeleteType(s, u)
    PROVE  TypeInv'
<1> USE DEF dbVars, txnVars
<1>0. TypeOK /\ RecordInv
  BY DEF CatalogInv
<1>1. /\ phase[s] = "active" /\ pending[s] = Absent
      /\ UNCHANGED <<objCatalogFile, typeCatalogFile, saved, objects, phase, todo, locks, pending>>
  BY DEF InsertType, DeleteType, Running
<1>2. \A t \in NamedType : (UsedType(t)' <=> UsedType(t)) /\ (StoredType(t)' <=> StoredType(t))
  BY <1>1 DEF UsedType, StoredType, Live, Inserts, Cached, Deleted
<1>3. TypeEntryRight(s, u)
  BY DEF TypeInv, TypeEntries
<1>4. /\ \A t \in NamedType \ {u} : types'[s][t] = types[s][t]
      /\ types'[s][u] # Absent =>
            (types'[s][u] = "EntryInsert" <=> u \notin typeCatalogFile)
      /\ MemberType(s, u)' <=> InsertType(s, u)
  <2>1. types[s][u] \in State \cup {Absent} /\ Absent \notin State
    BY <1>0, AbsentIsNothing DEF TypeOK
  <2>2. types[s][u] # Absent => (types[s][u] = "EntryInsert" <=> u \notin typeCatalogFile)
    BY <1>1, <1>3 DEF TypeEntryRight, EarlyType
  <2>3. CASE InsertType(s, u)
    <3>1. /\ ~MemberType(s, u)
          /\ types' = [types EXCEPT ![s][u] = IF @ = Absent THEN "EntryInsert" ELSE "EntryUpdate"]
      BY <2>3 DEF InsertType
    <3>2. /\ \A t \in NamedType \ {u} : types'[s][t] = types[s][t]
          /\ types'[s][u] = IF types[s][u] = Absent THEN "EntryInsert" ELSE "EntryUpdate"
      BY <1>0, <3>1 DEF TypeOK
    <3>3. "EntryInsert" # Absent /\ "EntryUpdate" # Absent
      BY <2>1 DEF State
    <3> QED
      BY <1>1, <2>1, <2>2, <2>3, <3>1, <3>2, <3>3 DEF MemberType, State
  <2>4. CASE DeleteType(s, u)
    <3>1. /\ MemberType(s, u)
          /\ types' = [types EXCEPT ![s][u] = IF @ = "EntryInsert" THEN Absent ELSE "EntryDelete"]
      BY <2>4 DEF DeleteType
    <3>2. /\ \A t \in NamedType \ {u} : types'[s][t] = types[s][t]
          /\ types'[s][u] = IF types[s][u] = "EntryInsert" THEN Absent ELSE "EntryDelete"
      BY <1>0, <3>1 DEF TypeOK
    <3>3. "EntryDelete" # Absent
      BY <2>1 DEF State
    <3>4. ~InsertType(s, u)
      BY <3>1 DEF InsertType
    <3> QED
      BY <1>1, <2>1, <2>2, <2>4, <3>1, <3>2, <3>3, <3>4 DEF MemberType, State
  <2> QED
    BY <2>3, <2>4
<1>5. \A t \in NamedType \ {u} : MemberType(s, t)' <=> MemberType(s, t)
  BY <1>1, <1>4 DEF MemberType
<1>6. UsedType(u) => InsertType(s, u)
  <2> SUFFICES ASSUME DeleteType(s, u), UsedType(u) PROVE FALSE
    OBVIOUS
  <2>1. ~TypeUsedByObject(s, u)
    BY DEF DeleteType
  <2>2. \A t \in Session : \A n \in Name : ~Inserts(t, n)
    BY <1>1 DEF Inserts, Alone
  <2> QED
    BY <2>1, <2>2 DEF UsedType, TypeUsedByObject, Live, Deleted, Alone
<1>7. TypeEntries'
  <2> SUFFICES ASSUME NEW t \in NamedType PROVE TypeEntryRight(s, t)'
    BY DEF TypeEntries, Alone
  <2>1. EarlyType(s, t) /\ EarlyType(s, t)' /\ phase'[s] = "active"
    BY <1>1 DEF EarlyType
  <2>2. TypeEntryRight(s, t)
    BY DEF TypeInv, TypeEntries
  <2>3. types'[s][t] # Absent => (types'[s][t] = "EntryInsert" <=> t \notin typeCatalogFile)
    BY <1>4, <2>1, <2>2 DEF TypeEntryRight
  <2> QED
    BY <1>1, <2>1, <2>3 DEF TypeEntryRight
<1>8. TypesCommitted'
  BY <1>1 DEF TypeInv, TypesCommitted, TypeLocked
<1>9. KnownTypes'
  <2> SUFFICES ASSUME NEW t \in NamedType
               PROVE  /\ UsedType(t)' => MemberType(s, t)'
                      /\ StoredType(t)' => t \in saved'.types
    BY DEF KnownTypes, Alone
  <2>1. UsedType(t)' => MemberType(s, t)'
    BY <1>2, <1>4, <1>5, <1>6 DEF TypeInv, KnownTypes
  <2> QED
    BY <1>1, <1>2, <2>1 DEF TypeInv, KnownTypes
<1> QED
  BY <1>7, <1>8, <1>9 DEF TypeInv

LEMMA CleanUpTypeTypes ==
    ASSUME Alone, CatalogInv, TypeInv, NEW s \in Session, NEW u \in NamedType,
           ~mustAbort[s], CleanUpType(s, u)
    PROVE  TypeInv'
<1> USE DEF cacheVars
<1>0. TypeOK /\ RecordInv
  BY DEF CatalogInv
<1>1. /\ phase[s] = "types" /\ u \in todo[s] /\ Done(s, u)
      /\ UNCHANGED <<objCatalogFile, saved, types, objects, pending>>
      /\ Lock(s, {<<"type", u>>})
  BY <1>0, WritesFacts DEF CleanUpType
<1>2. \A t \in NamedType : (UsedType(t)' <=> UsedType(t)) /\ (StoredType(t)' <=> StoredType(t))
  BY <1>1 DEF UsedType, StoredType, Live, Inserts, Cached, Deleted
<1>3. /\ types[s][u] \in State
      /\ types[s][u] = "EntryInsert" <=> u \notin typeCatalogFile
  <2>1. TypeEntryRight(s, u)
    BY DEF TypeInv, TypeEntries
  <2>2. types[s][u] # Absent
    BY <1>1, <2>1 DEF TypeEntryRight
  <2> QED
    BY <1>0, <1>1, <2>1, <2>2 DEF TypeEntryRight, EarlyType, TypeOK
<1>4. /\ \A t \in NamedType \ {u} : t \in typeCatalogFile' <=> t \in typeCatalogFile
      /\ u \in typeCatalogFile' <=> types[s][u] # "EntryDelete"
  BY <1>3 DEF CleanUpType, State
<1>5. \A t \in NamedType : MemberType(s, t)' <=> MemberType(s, t)
  <2>1. types[s][u] # Absent
    BY <1>3, AbsentIsNothing
  <2> QED
    BY <1>1, <1>4, <2>1 DEF MemberType
<1>6. MemberType(s, u) <=> types[s][u] # "EntryDelete"
  BY <1>3, AbsentIsNothing DEF MemberType
<1>7. \A t \in NamedType : EarlyType(s, t)' <=> EarlyType(s, t) /\ t # u
  <2>1. CASE todo[s] = {u}
    <3>1. phase'[s] = "first"
      BY <1>0, <1>1, <2>1 DEF Done, TypeOK
    <3> QED
      BY <1>1, <2>1, <3>1 DEF EarlyType
  <2>2. CASE todo[s] # {u}
    <3>1. phase'[s] = "types" /\ todo'[s] = todo[s] \ {u}
      BY <1>0, <1>1, <2>2 DEF Done, TypeOK
    <3> QED
      BY <1>1, <3>1 DEF EarlyType
  <2> QED
    BY <2>1, <2>2
<1>8. TypeEntries'
  <2> SUFFICES ASSUME NEW t \in NamedType PROVE TypeEntryRight(s, t)'
    BY DEF TypeEntries, Alone
  <2>1. TypeEntryRight(s, t)
    BY DEF TypeInv, TypeEntries
  <2>2. phase'[s] # "none"
    BY <1>0, <1>1 DEF Done, TypeOK
  <2>3. phase'[s] = "types" /\ t \in todo'[s] => types[s][t] # Absent
    <3>1. phase'[s] = "types" /\ t \in todo'[s] => EarlyType(s, t)'
      BY DEF EarlyType
    <3> QED
      BY <1>1, <1>7, <2>1, <3>1 DEF EarlyType, TypeEntryRight
  <2>4. CASE t = u
    BY <1>1, <1>4, <1>5, <1>6, <1>7, <2>2, <2>3, <2>4 DEF TypeEntryRight
  <2>5. CASE t # u
    BY <1>1, <1>4, <1>5, <1>7, <2>1, <2>2, <2>3, <2>5 DEF TypeEntryRight
  <2> QED
    BY <2>4, <2>5
<1>9. TypesCommitted'
  <2> SUFFICES ASSUME NEW t \in NamedType, ~TypeLocked(s, t)'
               PROVE  t \in typeCatalogFile' <=> t \in saved'.types
    BY DEF TypesCommitted
  <2>1. ~TypeLocked(s, t) /\ t # u
    BY <1>0, <1>1, TypeLockEffect
  <2> QED
    BY <1>1, <1>4, <2>1 DEF TypeInv, TypesCommitted, Alone
<1>10. KnownTypes'
  <2> SUFFICES ASSUME NEW t \in NamedType
               PROVE  /\ UsedType(t)' => MemberType(s, t)'
                      /\ StoredType(t)' => t \in saved'.types
    BY DEF KnownTypes, Alone
  <2> QED
    BY <1>1, <1>2, <1>5 DEF TypeInv, KnownTypes
<1> QED
  BY <1>8, <1>9, <1>10 DEF TypeInv

LEMMA PhaseTypes ==
    ASSUME Alone, CatalogInv, TypeInv, NEW s \in Session,
           BeginTransaction(s) \/ CommitTransaction(s)
    PROVE  TypeInv'
<1> USE DEF dbVars, cacheVars
<1>0. TypeOK
  BY DEF CatalogInv
<1>1. /\ phase[s] \in {"none", "active"} /\ phase'[s] # "none"
      /\ UNCHANGED <<objCatalogFile, typeCatalogFile, saved, types, objects, locks, pending>>
  BY <1>0 DEF BeginTransaction, CommitTransaction, TypeOK
<1>2. \A t \in NamedType : /\ UsedType(t)' <=> UsedType(t)
                           /\ StoredType(t)' <=> StoredType(t)
                           /\ MemberType(s, t)' <=> MemberType(s, t)
  BY <1>1 DEF UsedType, StoredType, MemberType, Live, Inserts, Cached, Deleted
<1>3. \A t \in NamedType : phase'[s] = "types" => (t \in todo'[s] <=> types[s][t] # Absent)
  <2> DEFINE cachedTypes == {t \in NamedType : types[s][t] # Absent}
  <2>1. phase'[s] = "types" => todo'[s] = cachedTypes
    BY <1>0 DEF BeginTransaction, CommitTransaction, TypeOK
  <2> QED
    BY <2>1
<1>4. \A t \in NamedType : ~EarlyType(s, t)' => types[s][t] = Absent
  <2>1. CASE phase'[s] \in {"active", "types"}
    BY <1>3, <2>1 DEF EarlyType
  <2>2. CASE phase'[s] \notin {"active", "types"}
    BY <1>0, <2>2 DEF BeginTransaction, CommitTransaction, TypeOK
  <2> QED
    BY <2>1, <2>2
<1>5. TypeEntries'
  <2> SUFFICES ASSUME NEW t \in NamedType PROVE TypeEntryRight(s, t)'
    BY DEF TypeEntries, Alone
  <2>1. TypeEntryRight(s, t)
    BY DEF TypeInv, TypeEntries
  <2>2. types[s][t] # Absent => (types[s][t] = "EntryInsert" <=> t \notin typeCatalogFile)
    BY <1>1, <2>1 DEF TypeEntryRight, EarlyType
  <2>3. ~EarlyType(s, t)' => (MemberType(s, t)' <=> t \in typeCatalogFile)
    BY <1>2, <1>4 DEF MemberType
  <2> QED
    BY <1>1, <1>3, <2>2, <2>3 DEF TypeEntryRight
<1> QED
  BY <1>1, <1>2, <1>5 DEF TypeInv, TypesCommitted, TypeLocked, KnownTypes, Alone

(* When the transaction has ended, all is as committed.                     *)
LEMMA ClearedTypes ==
    ASSUME Alone, CatalogInv', NEW s \in Session,
           phase'[s] = "none", pending'[s] = Absent, types'[s] = NoTypes,
           \A t \in NamedType : t \in typeCatalogFile' <=> t \in saved'.types,
           \A t \in NamedType : StoredType(t)' => t \in saved'.types
    PROVE  TypeInv'
<1>0. TypeOK' /\ RecordInv' /\ IdleRight(s)'
  BY DEF CatalogInv, RecordInv, IdleInv
<1>1. locks'[s] = {} /\ \A n \in Name : ~Cached(s, n)'
  BY <1>0 DEF IdleRight
<1>2. \A n \in Name : objCatalogFile'[n] = saved'.objects[n]
  BY <1>0, <1>1 DEF RecordInv, UnlockedCommitted, Holds, Alone
<1>3. \A t \in NamedType : UsedType(t)' => StoredType(t)'
  BY <1>1, <1>2 DEF UsedType, StoredType, Live, Inserts, Alone
<1>4. \A t \in NamedType : types'[s][t] = Absent
  BY DEF NoTypes
<1>5. \A t \in NamedType : MemberType(s, t)' <=> t \in typeCatalogFile'
  BY <1>4 DEF MemberType
<1>6. TypeEntries'
  <2> SUFFICES ASSUME NEW t \in NamedType PROVE TypeEntryRight(s, t)'
    BY DEF TypeEntries, Alone
  <2> QED
    BY <1>4, <1>5 DEF TypeEntryRight, EarlyType
<1>7. KnownTypes'
  <2> SUFFICES ASSUME NEW t \in NamedType
               PROVE  /\ UsedType(t)' => MemberType(s, t)'
                      /\ StoredType(t)' => t \in saved'.types
    BY DEF KnownTypes, Alone
  <2> QED
    BY <1>3, <1>5
<1> QED
  BY <1>6, <1>7 DEF TypeInv, TypesCommitted

LEMMA RollBackOfTypes ==
    ASSUME Alone, CatalogInv, TypeInv, CatalogInv', NEW s \in Session,
           NEW S \in SUBSET Session, s \in S, RollsBack(S)
    PROVE  TypeInv'
<1> DEFINE M == Merge(S, saved, Current)
<1>0. TypeOK /\ RollBack(S) /\ Reset(S) /\ pending'[s] = Absent
  BY DEF CatalogInv, RollsBack
<1>1. typeCatalogFile' = M.types /\ saved' = saved
  BY <1>0 DEF RollBack
<1>2. \A t \in NamedType : t \in M.types <=>
          IF \E u \in S : TypeLocked(u, t) THEN t \in saved.types ELSE t \in typeCatalogFile
  BY DEF Merge, Current, TypeLocked
<1>3. \A t \in NamedType : t \in typeCatalogFile' <=> t \in saved'.types
  BY <1>1, <1>2 DEF TypeInv, TypesCommitted, Alone
<1>4. \A t \in NamedType : StoredType(t)' => t \in saved'.types
  BY <1>1 DEF StoredType, TypeInv, KnownTypes
<1>5. phase'[s] = "none" /\ types'[s] = NoTypes
  BY <1>0 DEF Reset, Cleared
<1> QED
  BY <1>0, <1>3, <1>4, <1>5, ClearedTypes

LEMMA CommitTypes ==
    ASSUME Alone, CatalogInv, TypeInv, CatalogInv', NEW s \in Session,
           EndTransaction(s), ~mustAbort[s]
    PROVE  TypeInv'
<1>0. /\ TypeOK /\ TypeOK' /\ RecordInv /\ RecordInv' /\ IdleRight(s)'
      /\ phase[s] \in {"first", "second"} /\ Reset({s}) /\ pending' = pending
      /\ saved' = Merge({s}, Current, saved)
      /\ UNCHANGED <<objCatalogFile, typeCatalogFile>>
  BY DEF CatalogInv, RecordInv, IdleInv, EndTransaction, Ended
<1>1. pending[s] = Absent
  BY <1>0, NoPending
<1>2. phase'[s] = "none" /\ types'[s] = NoTypes
  BY <1>0 DEF Reset, Cleared
<1>3. \A t \in NamedType : t \in saved'.types <=> t \in typeCatalogFile
  <2>1. \A t \in NamedType : t \in saved'.types <=>
           IF TypeLocked(s, t) THEN t \in typeCatalogFile ELSE t \in saved.types
    BY <1>0 DEF Merge, Current, TypeLocked
  <2> QED
    BY <2>1 DEF TypeInv, TypesCommitted, Alone
<1>4. locks'[s] = {} /\ \A n \in Name : saved'.objects[n] = objCatalogFile[n]
  <2>1. locks'[s] = {}
    BY <1>0, <1>2 DEF IdleRight
  <2> QED
    BY <1>0, <2>1 DEF RecordInv, UnlockedCommitted, Holds, Alone
<1>5. ASSUME NEW t \in NamedType, StoredType(t)' PROVE t \in typeCatalogFile
  <2>1. PICK n \in Name : objCatalogFile[n] # Absent /\ objCatalogFile[n].type = t
    BY <1>4, <1>5 DEF StoredType
  <2>2. UsedType(t)
    BY <1>0, <2>1, LiveFacts DEF UsedType
  <2>3. MemberType(s, t)
    BY <2>2 DEF TypeInv, KnownTypes
  <2> QED
    BY <1>0, <2>3 DEF TypeInv, TypeEntries, TypeEntryRight, EarlyType
<1> QED
  BY <1>0, <1>1, <1>2, <1>3, <1>5, ClearedTypes

LEMMA EndOfTypes ==
    ASSUME Alone, CatalogInv, TypeInv, CatalogInv', NoVictims, NEW s \in Session,
           EndTransaction(s) \/ AbortTransaction(s)
    PROVE  TypeInv'
<1>0. TypeOK /\ RecordInv
  BY DEF CatalogInv
<1>1. CASE EndTransaction(s)
  BY <1>1, CommitTypes DEF NoVictims
<1>2. CASE AbortTransaction(s)
  <2>1. RollsBack({s})
    BY <1>2 DEF AbortTransaction, RollsBack
  <2> QED
    BY <2>1, RollBackOfTypes
<1> QED
  BY <1>1, <1>2

LEMMA NobodyIsVictim ==
    ASSUME Alone, NEW s \in Session
    PROVE  ~DeadlockVictim(s)
<1> SUFFICES ASSUME NEW k \in Wanted(s) PROVE Free(s, k)
  BY DEF DeadlockVictim
<1> QED
  BY DEF Free, Alone

LEMMA TypesStep ==
    ASSUME Alone, ExclusiveUse, CatalogInv, NoVictims, TypeInv, CatalogInv', [Next]_vars
    PROVE  TypeInv'
<1>0. TypeOK /\ RecordInv
  BY DEF CatalogInv
<1>1. ASSUME NEW s \in Session, CacheStep(s) PROVE TypeInv'
  BY <1>1, CommandTypes, NewTypes DEF CacheStep
<1>2. ASSUME NEW s \in Session, FileStep(s) PROVE TypeInv'
  <2>1. ASSUME DeleteOld(s) \/ InsertNew(s) PROVE TypeInv'
    <3>1. PICK p \in Pending : p = pending[s]
      BY <1>0, <2>1 DEF DeleteOld, InsertNew, TypeOK
    <3>2. PICK n \in Name : n = IF p.op = "insert" THEN p.new ELSE p.old
      BY DEF Pending
    <3> QED
      BY <2>1, <3>1, <3>2, FileTypes
  <2> QED
    BY <1>2, <2>1, CommandTypes, MoveTypes DEF FileStep
<1>3. ASSUME NEW s \in Session, CleanUp(s) PROVE TypeInv'
  BY <1>3, CleanUpTypeTypes, IterationTypes DEF CleanUp, NoVictims
<1>4. ASSUME NEW s \in Session, BeginTransaction(s) \/ CommitTransaction(s) PROVE TypeInv'
  BY <1>4, PhaseTypes
<1>5. ASSUME NEW s \in Session, DeadlockVictim(s) PROVE TypeInv'
  BY <1>5, NobodyIsVictim
<1>6. ASSUME NEW s \in Session, EndTransaction(s) \/ AbortTransaction(s) PROVE TypeInv'
  BY <1>6, EndOfTypes
<1>7. ASSUME Crash PROVE TypeInv'
  <2>1. RollsBack(Session)
    BY <1>7 DEF Crash, RollsBack
  <2>2. CASE \E s \in Session : TRUE
    <3>1. PICK s \in Session : TRUE
      BY <2>2
    <3>2. s \in Session /\ Session \in SUBSET Session
      OBVIOUS
    <3> QED
      BY <2>1, <3>2, RollBackOfTypes
  <2>3. CASE ~\E s \in Session : TRUE
    <3> DEFINE M == Merge(Session, saved, Current)
    <3>1. typeCatalogFile' = M.types /\ objCatalogFile' = M.objects /\ saved' = saved
      BY <2>1 DEF RollsBack, RollBack
    <3>2. /\ \A t \in NamedType : t \in M.types <=> t \in typeCatalogFile
          /\ \A n \in Name : M.objects[n] = objCatalogFile[n]
      BY <2>3 DEF Merge, Current
    <3>3. \A t \in NamedType : StoredType(t)' <=> StoredType(t)
      BY <3>1 DEF StoredType
    <3> HIDE DEF M
    <3> QED
      BY <2>3, <3>1, <3>2, <3>3 DEF TypeInv, TypesCommitted, TypeEntries, KnownTypes
  <2> QED
    BY <2>2, <2>3
<1>8. ASSUME UNCHANGED vars PROVE TypeInv'
  <2>1. UNCHANGED <<objCatalogFile, typeCatalogFile, saved, types, objects, locks, pending, phase, todo>>
    BY <1>8 DEF vars, dbVars, cacheVars, txnVars
  <2>2. \A t \in NamedType : /\ UsedType(t)' <=> UsedType(t)
                             /\ StoredType(t)' <=> StoredType(t)
                             /\ \A s \in Session : MemberType(s, t)' <=> MemberType(s, t)
    BY <2>1 DEF UsedType, StoredType, MemberType, Live, Inserts, Cached, Deleted
  <2>3. TypesCommitted' /\ KnownTypes'
    BY <2>1, <2>2 DEF TypeInv, TypesCommitted, TypeLocked, KnownTypes
  <2>4. TypeEntries'
    BY <2>1, <2>2 DEF TypeInv, TypeEntries, TypeEntryRight, EarlyType
  <2> QED
    BY <2>3, <2>4 DEF TypeInv
<1> QED
  BY <1>1, <1>2, <1>3, <1>4, <1>5, <1>6, <1>7, <1>8 DEF Next

(* A database that one session uses has every type that an object of it is  *)
(* of: DeleteType looks at the objects of the cache and at those of the     *)
(* files, CleanUp writes the types and then the objects, and nothing but a  *)
(* commit lets go of what either has written.                               *)
THEOREM TypesStayExisting ==
    ASSUME ExclusiveUse, Alone
    PROVE  Spec => []TypesExist
<1>1. Init => CatalogInv /\ NoVictims /\ TypeInv
  <2>1. Init => TypesCommitted /\ TypeEntries
    BY AbsentIsNothing DEF Init, Empty, NoTypes, TypesCommitted, TypeEntries, TypeEntryRight,
       EarlyType, MemberType
  <2>2. Init => KnownTypes
    BY DEF Init, Empty, NoEntries, KnownTypes, UsedType, StoredType, Live, Inserts, Cached
  <2> QED
    BY <2>1, <2>2, RecordsInit DEF Init, NoVictims, TypeInv
<1>2. CatalogInv /\ NoVictims /\ TypeInv /\ [Next]_vars =>
          CatalogInv' /\ NoVictims' /\ TypeInv'
  BY CatalogStep, VictimsStep, TypesStep DEF Alone
<1>3. TypeInv => TypesExist
  BY StoredTypes DEF TypeInv
<1> QED
  BY <1>1, <1>2, <1>3, PTL DEF Spec

=============================================================================
