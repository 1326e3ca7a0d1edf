------------------------ MODULE DatabaseLifecycleProofs ------------------------
(***************************************************************************)
(* Proofs about DatabaseLifecycle, for any number of sessions, databases,  *)
(* users and faults.                                                       *)
(***************************************************************************)
EXTENDS DatabaseLifecycle, TLAPS

(* What the changes of several actions do to the types.                    *)
LEMMA FaultType ==
    ASSUME TypeOK, NEW k, NoFault \/ Fault(k)
    PROVE  faults' \in 0..MaxFaults
BY LifecycleConstants DEF TypeOK, NoFault, Fault

LEMMA GotoType ==
    ASSUME TypeOK, NEW s \in Session, NEW step \in Steps, Goto(s, step)
    PROVE  pc' \in [Session -> Steps]
BY DEF TypeOK, Goto

LEMMA AfterEraseType ==
    ASSUME TypeOK, NEW s \in Session, AfterErase(s)
    PROVE  pc' \in [Session -> Steps]
BY DEF TypeOK, AfterErase, Goto, Steps

LEMMA ExchangeType ==
    ASSUME TypeOK, NEW accepted, NEW done, NEW ok, Exchange(accepted, done, ok)
    PROVE  faults' \in 0..MaxFaults /\ (done => accepted) /\ (ok => done)
BY FaultType DEF Exchange

LEMMA WithFilesType ==
    ASSUME TypeOK, NEW d \in Name
    PROVE  WithFiles(d) \in [Name -> {"none", "empty", "used"}]
BY DEF TypeOK, WithFiles

(* A step of session s that leaves the type of every variable intact.      *)
LEMMA TypeStep == TypeOK /\ [Next]_vars => TypeOK'
<1> SUFFICES ASSUME TypeOK, [Next]_vars PROVE TypeOK'
  OBVIOUS
<1> USE LifecycleConstants
<1>0. CASE UNCHANGED vars
  BY <1>0 DEF vars, TypeOK
<1>1. ASSUME NEW s \in Session, NEW c \in Commands, NEW d \in Name, Begin(s, c, d)
      PROVE  TypeOK'
  BY <1>1 DEF Begin, Goto, TypeOK, Steps, Commands, unchangedRegistrar, unchangedStorage
<1>2. ASSUME NEW s \in Session, BeginClose(s) PROVE TypeOK'
  BY <1>2 DEF BeginClose, Goto, TypeOK, Steps, Commands, unchangedRegistrar, unchangedStorage
<1>3. ASSUME NEW s \in Session, Use(s) PROVE TypeOK'
  BY <1>3 DEF Use, TypeOK, unchangedRegistrar, unchangedSession
<1>4. ASSUME NEW s \in Session, LookUpDatabase(s) PROVE TypeOK'
  BY <1>4 DEF LookUpDatabase, Goto, NoFault, TypeOK, Steps, unchangedRegistrar,
              unchangedSession, unchangedStorage
<1>5. ASSUME NEW s \in Session, InitializeDatabase(s) PROVE TypeOK'
  <2>1. database[s] \in Name
    BY DEF TypeOK
  <2>2. folder' \in [Name -> {"none", "empty", "used"}]
    BY <1>5, <2>1, WithFilesType DEF InitializeDatabase, TypeOK
  <2>3. handle' \in [Session -> BOOLEAN]
    BY <1>5 DEF InitializeDatabase, TypeOK
  <2>4. faults' \in 0..MaxFaults
    BY <1>5, FaultType DEF InitializeDatabase
  <2>5. pc' \in [Session -> Steps]
    BY <1>5, GotoType DEF InitializeDatabase, Steps
  <2> QED
    BY <1>5, <2>2, <2>3, <2>4, <2>5 DEF InitializeDatabase, TypeOK, unchangedRegistrar
<1>6. ASSUME NEW s \in Session, InsertDatabase(s) PROVE TypeOK'
  <2>1. leaked' \in [Session -> SUBSET Name]
    <3> DEFINE more == IF handle[s] THEN leaked[s] \cup {database[s]} ELSE leaked[s]
    <3>1. more \in SUBSET Name
      BY DEF TypeOK
    <3>2. leaked' = leaked \/ leaked' = [leaked EXCEPT ![s] = more]
      BY <1>6 DEF InsertDatabase
    <3> QED
      BY <3>1, <3>2 DEF TypeOK
  <2>2. pc' \in [Session -> Steps]
    BY <1>6, GotoType DEF InsertDatabase, Steps
  <2>3. handle' \in [Session -> BOOLEAN]
    BY <1>6 DEF InsertDatabase, TypeOK
  <2>4. databases' \subseteq Name
    BY <1>6 DEF InsertDatabase, TypeOK
  <2> QED
    BY <1>6, <2>1, <2>2, <2>3, <2>4 DEF InsertDatabase, TypeOK, unchangedRegistrar
<1>7. ASSUME NEW s \in Session, RegisterDatabase(s) PROVE TypeOK'
  <2> DEFINE d == database[s]
  <2>1. d \in Name /\ UserOf[s] \in User
    BY DEF TypeOK
  <2>2. PICK done \in BOOLEAN, ok \in BOOLEAN :
          /\ Exchange(lock[d] = NoUser, done, ok)
          /\ registered' = IF done THEN [registered EXCEPT ![d][UserOf[s]] = @ + 1]
                                    ELSE registered
          /\ granted' = [granted EXCEPT ![s] = ok]
    BY <1>7 DEF RegisterDatabase
  <2>3. registered' \in [Name -> [User -> Nat]]
    BY <2>1, <2>2 DEF TypeOK
  <2>4. granted' \in [Session -> BOOLEAN]
    BY <2>2 DEF TypeOK
  <2>5. faults' \in 0..MaxFaults
    BY <2>2, ExchangeType
  <2>6. pc' \in [Session -> Steps]
    BY <1>7, GotoType DEF RegisterDatabase, Steps
  <2>7. dbOpened' \in [Session -> BOOLEAN]
    BY <1>7 DEF RegisterDatabase, TypeOK
  <2> QED
    BY <1>7, <2>3, <2>4, <2>5, <2>6, <2>7 DEF RegisterDatabase, TypeOK, unchangedStorage
<1>8. ASSUME NEW s \in Session, OpenCatalog(s) PROVE TypeOK'
  <2>1. faults' \in 0..MaxFaults
    BY <1>8, FaultType DEF OpenCatalog
  <2>2. pc' \in [Session -> Steps]
    <3>1. PICK step \in Steps : Goto(s, step)
      BY <1>8, Zenon DEF OpenCatalog, Steps
    <3> QED
      BY <3>1, GotoType
  <2>3. command' \in [Session -> Commands]
    BY <1>8 DEF OpenCatalog, TypeOK, Commands
  <2> QED
    BY <1>8, <2>1, <2>2, <2>3 DEF OpenCatalog, TypeOK, unchangedRegistrar, unchangedStorage
<1>9. ASSUME NEW s \in Session, RestoreCatalog(s) PROVE TypeOK'
  <2>1. folder' \in [Name -> {"none", "empty", "used"}]
    BY <1>9 DEF RestoreCatalog, TypeOK
  <2>2. faults' \in 0..MaxFaults
    BY <1>9, FaultType DEF RestoreCatalog
  <2>3. pc' \in [Session -> Steps]
    BY <1>9, GotoType DEF RestoreCatalog, Steps
  <2> QED
    BY <1>9, <2>1, <2>2, <2>3 DEF RestoreCatalog, TypeOK, unchangedSession, unchangedRegistrar
<1>10. ASSUME NEW s \in Session, CloseDatabase(s) PROVE TypeOK'
  BY <1>10 DEF CloseDatabase, Goto, TypeOK, Steps, unchangedRegistrar, unchangedStorage
<1>11. ASSUME NEW s \in Session, UnregisterDatabase(s) PROVE TypeOK'
  <2> DEFINE d == database[s]
  <2>1. d \in Name /\ UserOf[s] \in User
    BY DEF TypeOK
  <2>2. PICK done \in BOOLEAN, ok \in BOOLEAN :
          /\ Exchange(registered[d][UserOf[s]] > 0, done, ok)
          /\ registered' = IF done THEN [registered EXCEPT ![d][UserOf[s]] = @ - 1]
                                    ELSE registered
    BY <1>11 DEF UnregisterDatabase
  <2>3. done => registered[d][UserOf[s]] > 0
    BY <2>2, Zenon DEF Exchange
  <2>4. registered' \in [Name -> [User -> Nat]]
    BY <2>1, <2>2, <2>3 DEF TypeOK
  <2>5. faults' \in 0..MaxFaults
    BY <2>2, ExchangeType
  <2>6. pc' \in [Session -> Steps]
    BY <1>11, GotoType DEF UnregisterDatabase, Steps
  <2>7. dbOpened' \in [Session -> BOOLEAN] /\ granted' \in [Session -> BOOLEAN]
    BY <1>11 DEF UnregisterDatabase, TypeOK
  <2> QED
    BY <1>11, <2>4, <2>5, <2>6, <2>7 DEF UnregisterDatabase, TypeOK, unchangedStorage
<1>12. ASSUME NEW s \in Session, EraseLookUp(s) PROVE TypeOK'
  BY <1>12 DEF EraseLookUp, AfterErase, Goto, NoFault, TypeOK, Steps, unchangedRegistrar,
               unchangedSession, unchangedStorage
<1>13. ASSUME NEW s \in Session, LockDatabase(s) PROVE TypeOK'
  <2> DEFINE d == database[s]
  <2>1. d \in Name /\ UserOf[s] \in User
    BY DEF TypeOK
  <2>2. PICK done \in BOOLEAN, ok \in BOOLEAN :
          /\ Exchange(lock[d] = NoUser /\ ~InUse(d), done, ok)
          /\ lock' = IF done THEN [lock EXCEPT ![d] = UserOf[s]] ELSE lock
          /\ IF ok THEN Goto(s, "delete") ELSE AfterErase(s)
    BY <1>13 DEF LockDatabase
  <2>3. lock' \in [Name -> User \cup {NoUser}]
    BY <2>1, <2>2 DEF TypeOK
  <2>4. faults' \in 0..MaxFaults
    BY <2>2, ExchangeType
  <2>5. pc' \in [Session -> Steps]
    BY <2>2, GotoType, AfterEraseType DEF Steps, Erasing
  <2> QED
    BY <1>13, <2>3, <2>4, <2>5 DEF LockDatabase, TypeOK, unchangedSession, unchangedStorage
<1>14. ASSUME NEW s \in Session, DeleteDatabase(s) PROVE TypeOK'
  BY <1>14 DEF DeleteDatabase, Goto, NoFault, Fault, TypeOK, Steps, Erasing,
               unchangedRegistrar, unchangedSession
<1>15. ASSUME NEW s \in Session, RemoveFiles(s) PROVE TypeOK'
  <2>1. folder' \in [Name -> {"none", "empty", "used"}]
    BY <1>15 DEF RemoveFiles, TypeOK
  <2>2. faults' \in 0..MaxFaults
    BY <1>15, FaultType DEF RemoveFiles
  <2>3. pc' \in [Session -> Steps]
    BY <1>15, GotoType, AfterEraseType DEF RemoveFiles, Steps, Erasing
  <2> QED
    BY <1>15, <2>1, <2>2, <2>3 DEF RemoveFiles, TypeOK, unchangedSession, unchangedRegistrar
<1>16. ASSUME NEW s \in Session, UnlockDatabase(s) PROVE TypeOK'
  <2>1. lock' \in [Name -> User \cup {NoUser}]
    BY <1>16 DEF UnlockDatabase, TypeOK
  <2>2. faults' \in 0..MaxFaults
    BY <1>16, ExchangeType DEF UnlockDatabase
  <2>3. pc' \in [Session -> Steps]
    BY <1>16, AfterEraseType DEF UnlockDatabase
  <2> QED
    BY <1>16, <2>1, <2>2, <2>3 DEF UnlockDatabase, TypeOK, unchangedSession, unchangedStorage
<1>17. ASSUME NEW s \in Session, Crash(s) PROVE TypeOK'
  BY <1>17 DEF Crash, Goto, Fault, TypeOK, Steps, Commands, unchangedRegistrar, unchangedStorage
<1> QED
  BY <1>0, <1>1, <1>2, <1>3, <1>4, <1>5, <1>6, <1>7, <1>8, <1>9, <1>10, <1>11, <1>12,
     <1>13, <1>14, <1>15, <1>16, <1>17 DEF Next

LEMMA TypeInit == Init => TypeOK
BY LifecycleConstants DEF Init, TypeOK, Steps, Commands

(* The variables of the registrar and of the sessions keep their types.    *)
THEOREM TypeCorrect == Spec => []TypeOK
BY TypeInit, TypeStep, PTL DEF Spec
----------------------------------------------------------------------------
(* The registrar never has a database both locked and registered; who is   *)
(* about to erase has the lock, nobody shares it, and a confirmed          *)
(* registration is still there while the database is open.                 *)
LockExcludes ==
    \A d \in Name, u \in User : lock[d] # NoUser => registered[d][u] = 0

ErasersLock ==
    \A s \in Session : pc[s] \in Erasing => lock[database[s]] # NoUser

OneEraser ==
    \A s, t \in Session :
        pc[s] \in Erasing /\ pc[t] \in Erasing /\ database[s] = database[t] => s = t

GrantedOpen == \A s \in Session : granted[s] => dbOpened[s]

LifecycleInv ==
    /\ TypeOK
    /\ LockExcludes
    /\ ErasersLock
    /\ OneEraser
    /\ GrantedOpen
    /\ RegistrationsKept

DistinctUsers == \A s, t \in Session : UserOf[s] = UserOf[t] => s = t

(* Most steps leave the registrar alone, let nobody begin to erase and     *)
(* confirm nothing.                                                        *)
Quiet ==
    /\ registered' = registered /\ lock' = lock
    /\ \A t \in Session :
          /\ pc'[t] \in Erasing => pc[t] \in Erasing /\ database'[t] = database[t]
          /\ granted'[t] => granted[t] /\ dbOpened'[t] /\ database'[t] = database[t]

LEMMA QuietKeeps ==
    ASSUME LifecycleInv, TypeOK', Quiet
    PROVE  LifecycleInv'
<1>1. LockExcludes'
  BY DEF LifecycleInv, LockExcludes, Quiet
<1>2. ErasersLock'
  BY DEF LifecycleInv, ErasersLock, Quiet
<1>3. OneEraser'
  BY DEF LifecycleInv, OneEraser, Quiet
<1>4. GrantedOpen'
  BY DEF GrantedOpen, Quiet
<1>5. RegistrationsKept'
  BY DEF LifecycleInv, RegistrationsKept, Quiet
<1> QED
  BY <1>1, <1>2, <1>3, <1>4, <1>5 DEF LifecycleInv

LEMMA LifecycleInit == Init => LifecycleInv
BY TypeInit, LifecycleConstants
   DEF Init, LifecycleInv, LockExcludes, ErasersLock, OneEraser, GrantedOpen,
       RegistrationsKept, Erasing

LEMMA LifecycleStep ==
    ASSUME DistinctUsers, LifecycleInv, [Next]_vars
    PROVE  LifecycleInv'
<1>0. TypeOK'
  BY TypeStep DEF LifecycleInv
<1> USE <1>0 DEF LifecycleInv
<1>1. CASE UNCHANGED vars
  BY <1>1, QuietKeeps DEF vars, Quiet, GrantedOpen
<1>2. ASSUME NEW s \in Session, NEW c \in Commands, NEW d \in Name, Begin(s, c, d)
      PROVE  LifecycleInv'
  <2>1. Quiet
    BY <1>2 DEF Begin, Goto, Quiet, GrantedOpen, TypeOK, Erasing, unchangedRegistrar
  <2> QED
    BY <2>1, QuietKeeps
<1>3. ASSUME NEW s \in Session,
             \/ BeginClose(s) \/ Use(s) \/ LookUpDatabase(s) \/ InitializeDatabase(s)
             \/ InsertDatabase(s) \/ OpenCatalog(s) \/ RestoreCatalog(s)
             \/ CloseDatabase(s) \/ EraseLookUp(s)
      PROVE  LifecycleInv'
  <2>1. /\ registered' = registered /\ lock' = lock /\ granted' = granted
        /\ database' = database /\ dbOpened' = dbOpened
    BY <1>3 DEF BeginClose, Use, LookUpDatabase, InitializeDatabase, InsertDatabase,
         OpenCatalog, RestoreCatalog, CloseDatabase, EraseLookUp, unchangedRegistrar,
         unchangedSession
  <2>2. pc' = pc \/ \E step \in Steps \ Erasing : pc' = [pc EXCEPT ![s] = step]
    BY <1>3, Zenon DEF BeginClose, Use, LookUpDatabase, InitializeDatabase, InsertDatabase,
         OpenCatalog, RestoreCatalog, CloseDatabase, EraseLookUp, AfterErase, Goto, Steps,
         Erasing
  <2>3. Quiet
    BY <2>1, <2>2 DEF Quiet, GrantedOpen, TypeOK
  <2> QED
    BY <2>3, QuietKeeps
<1>4. ASSUME NEW s \in Session, DeleteDatabase(s) \/ RemoveFiles(s)
      PROVE  LifecycleInv'
  <2>1. /\ registered' = registered /\ lock' = lock /\ granted' = granted
        /\ database' = database /\ dbOpened' = dbOpened
    BY <1>4 DEF DeleteDatabase, RemoveFiles, unchangedRegistrar, unchangedSession
  <2>2. pc[s] \in Erasing /\ \E step \in Steps : pc' = [pc EXCEPT ![s] = step]
    BY <1>4, Zenon DEF DeleteDatabase, RemoveFiles, AfterErase, Goto, Steps, Erasing
  <2>3. Quiet
    BY <2>1, <2>2 DEF Quiet, GrantedOpen, TypeOK
  <2> QED
    BY <2>3, QuietKeeps
<1>5. ASSUME NEW s \in Session, Crash(s) PROVE LifecycleInv'
  <2>1. Quiet
    BY <1>5 DEF Crash, Goto, Quiet, GrantedOpen, TypeOK, Erasing, unchangedRegistrar
  <2> QED
    BY <2>1, QuietKeeps
<1>6. ASSUME NEW s \in Session, RegisterDatabase(s) PROVE LifecycleInv'
  <2> DEFINE e == database[s]
  <2>1. e \in Name /\ UserOf[s] \in User
    BY LifecycleConstants DEF TypeOK
  <2>2. PICK done \in BOOLEAN, ok \in BOOLEAN :
          /\ Exchange(lock[e] = NoUser, done, ok)
          /\ registered' = IF done THEN [registered EXCEPT ![e][UserOf[s]] = @ + 1]
                                    ELSE registered
          /\ granted' = [granted EXCEPT ![s] = ok]
    BY <1>6 DEF RegisterDatabase
  <2>3. (done => lock[e] = NoUser) /\ (ok => done)
    BY <2>2, Zenon DEF Exchange
  <2>4. /\ lock' = lock /\ database' = database
        /\ dbOpened' = [dbOpened EXCEPT ![s] = TRUE]
        /\ pc' = [pc EXCEPT ![s] = "catalog"]
    BY <1>6 DEF RegisterDatabase, Goto
  <2>5. \A d \in Name, u \in User :
          /\ registered[d][u] \in Nat /\ registered'[d][u] \in Nat
          /\ registered'[d][u] >= registered[d][u]
          /\ d # e => registered'[d][u] = registered[d][u]
          /\ ~done => registered'[d][u] = registered[d][u]
    BY <2>1, <2>2 DEF TypeOK
  <2>6. done => registered'[e][UserOf[s]] > 0
    BY <2>1, <2>2 DEF TypeOK
  <2>7. \A t \in Session : pc'[t] \in Erasing => pc[t] \in Erasing
    BY <2>4 DEF TypeOK, Erasing
  <2>8. LockExcludes'
    BY <2>3, <2>4, <2>5 DEF LockExcludes
  <2>9. ErasersLock' /\ OneEraser'
    BY <2>4, <2>7 DEF ErasersLock, OneEraser
  <2>10. GrantedOpen'
    BY <2>2, <2>4 DEF GrantedOpen, TypeOK
  <2>11. RegistrationsKept'
    <3>1. ASSUME NEW t \in Session, granted'[t]
          PROVE  registered'[database'[t]][UserOf[t]] > 0
      <4>1. database[t] \in Name /\ UserOf[t] \in User
        BY LifecycleConstants DEF TypeOK
      <4>2. CASE t = s
        BY <4>2, <3>1, <2>2, <2>3, <2>4, <2>6 DEF TypeOK
      <4>3. CASE t # s
        <5>1. granted[t]
          BY <4>3, <3>1, <2>2 DEF TypeOK
        <5> QED
          BY <5>1, <4>1, <2>4, <2>5 DEF RegistrationsKept
      <4> QED
        BY <4>2, <4>3
    <3> QED
      BY <3>1 DEF RegistrationsKept
  <2> QED
    BY <2>8, <2>9, <2>10, <2>11
<1>7. ASSUME NEW s \in Session, UnregisterDatabase(s) PROVE LifecycleInv'
  <2> DEFINE e == database[s]
  <2>1. e \in Name /\ UserOf[s] \in User
    BY LifecycleConstants DEF TypeOK
  <2>2. PICK done \in BOOLEAN, ok \in BOOLEAN :
          /\ Exchange(registered[e][UserOf[s]] > 0, done, ok)
          /\ registered' = IF done THEN [registered EXCEPT ![e][UserOf[s]] = @ - 1]
                                    ELSE registered
    BY <1>7 DEF UnregisterDatabase
  <2>3. done => registered[e][UserOf[s]] > 0
    BY <2>2, Zenon DEF Exchange
  <2>4. /\ lock' = lock /\ database' = database
        /\ granted' = [granted EXCEPT ![s] = FALSE]
        /\ dbOpened' = [dbOpened EXCEPT ![s] = FALSE]
    BY <1>7 DEF UnregisterDatabase
  <2>5. \A d \in Name, u \in User :
          /\ registered[d][u] = 0 => registered'[d][u] = 0
          /\ u # UserOf[s] => registered'[d][u] = registered[d][u]
    BY <2>1, <2>2, <2>3 DEF TypeOK
  <2>6. \A t \in Session : pc'[t] \in Erasing => pc[t] \in Erasing
    BY <1>7 DEF UnregisterDatabase, Goto, TypeOK, Erasing
  <2>7. LockExcludes'
    BY <2>4, <2>5 DEF LockExcludes
  <2>8. ErasersLock' /\ OneEraser'
    BY <2>4, <2>6 DEF ErasersLock, OneEraser
  <2>9. GrantedOpen'
    BY <2>4 DEF GrantedOpen, TypeOK
  <2>10. RegistrationsKept'
    <3>1. ASSUME NEW t \in Session, granted'[t]
          PROVE  registered'[database'[t]][UserOf[t]] > 0
      <4>1. database[t] \in Name /\ UserOf[t] \in User
        BY LifecycleConstants DEF TypeOK
      <4>2. t # s /\ granted[t]
        BY <3>1, <2>4 DEF TypeOK
      <4>3. UserOf[t] # UserOf[s]
        BY <4>2 DEF DistinctUsers
      <4> QED
        BY <4>1, <4>2, <4>3, <2>4, <2>5 DEF RegistrationsKept
    <3> QED
      BY <3>1 DEF RegistrationsKept
  <2> QED
    BY <2>7, <2>8, <2>9, <2>10
<1>8. ASSUME NEW s \in Session, LockDatabase(s) PROVE LifecycleInv'
  <2> DEFINE e == database[s]
  <2>1. e \in Name /\ UserOf[s] \in User /\ UserOf[s] # NoUser
    BY LifecycleConstants DEF TypeOK
  <2>2. PICK done \in BOOLEAN, ok \in BOOLEAN :
          /\ Exchange(lock[e] = NoUser /\ ~InUse(e), done, ok)
          /\ lock' = IF done THEN [lock EXCEPT ![e] = UserOf[s]] ELSE lock
          /\ IF ok THEN Goto(s, "delete") ELSE AfterErase(s)
    BY <1>8 DEF LockDatabase
  <2>3. (done => lock[e] = NoUser /\ ~InUse(e)) /\ (ok => done)
    BY <2>2, Zenon DEF Exchange
  <2>4. /\ registered' = registered /\ database' = database /\ granted' = granted
        /\ dbOpened' = dbOpened
    BY <1>8 DEF LockDatabase, unchangedSession
  <2>5. \A d \in Name : lock'[d] # NoUser => lock[d] # NoUser \/ (d = e /\ done)
    BY <2>1, <2>2 DEF TypeOK
  <2>6. done => lock'[e] # NoUser
    BY <2>1, <2>2 DEF TypeOK
  <2>7. \A d \in Name : lock[d] # NoUser => lock'[d] # NoUser
    BY <2>1, <2>2 DEF TypeOK
  <2>8. \A t \in Session : pc'[t] \in Erasing => pc[t] \in Erasing \/ (t = s /\ ok)
    BY <2>2 DEF Goto, AfterErase, TypeOK, Erasing
  <2>9. LockExcludes'
    <3>1. done => \A u \in User : registered[e][u] = 0
      BY <2>1, <2>3 DEF InUse, TypeOK
    <3> QED
      BY <3>1, <2>4, <2>5 DEF LockExcludes
  <2>10. ErasersLock'
    <3>1. ASSUME NEW t \in Session, pc'[t] \in Erasing
          PROVE  lock'[database'[t]] # NoUser
      <4>1. database[t] \in Name
        BY DEF TypeOK
      <4> QED
        BY <4>1, <3>1, <2>3, <2>4, <2>6, <2>7, <2>8 DEF ErasersLock
    <3> QED
      BY <3>1 DEF ErasersLock
  <2>11. OneEraser'
    BY <2>3, <2>4, <2>8 DEF ErasersLock, OneEraser
  <2>12. GrantedOpen' /\ RegistrationsKept'
    BY <2>4 DEF GrantedOpen, RegistrationsKept
  <2> QED
    BY <2>9, <2>10, <2>11, <2>12
<1>9. ASSUME NEW s \in Session, UnlockDatabase(s) PROVE LifecycleInv'
  <2>1. /\ registered' = registered /\ database' = database /\ granted' = granted
        /\ dbOpened' = dbOpened
    BY <1>9 DEF UnlockDatabase, unchangedSession
  <2>2. \A d \in Name : /\ d # database[s] => lock'[d] = lock[d]
                        /\ lock'[d] # NoUser => lock[d] # NoUser
    BY <1>9 DEF UnlockDatabase, TypeOK
  <2>3. pc[s] \in Erasing /\ pc'[s] \notin Erasing
        /\ \A t \in Session \ {s} : pc'[t] = pc[t]
    BY <1>9 DEF UnlockDatabase, AfterErase, Goto, TypeOK, Erasing
  <2>4. LockExcludes'
    BY <2>1, <2>2 DEF LockExcludes
  <2>5. ErasersLock'
    <3>1. ASSUME NEW t \in Session, pc'[t] \in Erasing
          PROVE  lock'[database'[t]] # NoUser
      <4>1. t # s /\ pc[t] \in Erasing /\ database[t] \in Name
        BY <3>1, <2>3 DEF TypeOK
      <4>2. database[t] # database[s]
        BY <4>1, <2>3 DEF OneEraser
      <4> QED
        BY <4>1, <4>2, <2>1, <2>2 DEF ErasersLock
    <3> QED
      BY <3>1 DEF ErasersLock
  <2>6. OneEraser'
    BY <2>1, <2>3 DEF OneEraser
  <2>7. GrantedOpen' /\ RegistrationsKept'
    BY <2>1 DEF GrantedOpen, RegistrationsKept
  <2> QED
    BY <2>4, <2>5, <2>6, <2>7
<1> QED
  BY <1>1, <1>2, <1>3, <1>4, <1>5, <1>6, <1>7, <1>8, <1>9 DEF Next

LEMMA Lifecycle == DistinctUsers => (Spec => []LifecycleInv)
<1>1. DistinctUsers /\ LifecycleInv /\ [Next]_vars => LifecycleInv'
  BY LifecycleStep
<1>2. CASE DistinctUsers
  <2>1. LifecycleInv /\ [Next]_vars => LifecycleInv'
    BY <1>1, <1>2
  <2> QED
    BY <2>1, LifecycleInit, PTL DEF Spec
<1> QED
  BY <1>2

(* If no two sessions share a user id, a confirmed registration is never   *)
(* removed by somebody else's UNREGISTER.                                  *)
THEOREM RegistrationsKeptHolds == DistinctUsers => (Spec => []RegistrationsKept)
<1>1. LifecycleInv => RegistrationsKept
  BY DEF LifecycleInv
<1> QED
  BY <1>1, Lifecycle, PTL

LEMMA ErasingUngranted ==
    ASSUME LifecycleInv, NEW s \in Session, NEW t \in Session, pc[s] \in Erasing,
           database[s] = database[t]
    PROVE  ~granted[t]
<1>1. database[t] \in Name /\ UserOf[t] \in User
  BY LifecycleConstants DEF LifecycleInv, TypeOK
<1>2. registered[database[t]][UserOf[t]] = 0
  BY <1>1 DEF LifecycleInv, LockExcludes, ErasersLock
<1> QED
  BY <1>2 DEF LifecycleInv, RegistrationsKept

(* Who has the lock erases alone, also when messages are lost and servers  *)
(* crash.                                                                  *)
THEOREM EraserAloneHolds == DistinctUsers => (Spec => []EraserAlone)
<1>1. LifecycleInv => EraserAlone
  BY ErasingUngranted DEF EraserAlone, LifecycleInv, OneEraser
<1> QED
  BY <1>1, Lifecycle, PTL

LEMMA RegisteredStep ==
    ASSUME LifecycleInv, [Next]_vars, NEW s \in Session, granted[s]
    PROVE  LET d == database[s] IN
             /\ d \in databases => d \in databases'
             /\ folder'[d] = "none" => folder[d] = "none"
<1> DEFINE d == database[s]
<1>1. d \in Name
  BY DEF LifecycleInv, TypeOK
<1>2. ASSUME NEW t \in Session, DeleteDatabase(t) \/ RemoveFiles(t)
      PROVE  database[t] # d
  <2>1. pc[t] \in Erasing
    BY <1>2 DEF DeleteDatabase, RemoveFiles, Erasing
  <2> QED
    BY <2>1, ErasingUngranted
<1>3. d \in databases => d \in databases'
  BY <1>2 DEF Next, vars, Begin, BeginClose, Use, LookUpDatabase, InitializeDatabase,
       InsertDatabase, RegisterDatabase, OpenCatalog, RestoreCatalog, CloseDatabase,
       UnregisterDatabase, EraseLookUp, LockDatabase, DeleteDatabase, RemoveFiles,
       UnlockDatabase, Crash, unchangedStorage
<1>4. CASE UNCHANGED folder
  BY <1>3, <1>4
<1>5. ASSUME NEW t \in Session, RemoveFiles(t) PROVE folder'[d] = folder[d]
  BY <1>1, <1>2, <1>5 DEF RemoveFiles, LifecycleInv, TypeOK
<1>6. ASSUME NEW t \in Session, Use(t) \/ RestoreCatalog(t) \/ InitializeDatabase(t)
      PROVE  folder'[d] = "none" => folder[d] = "none"
  BY <1>1, <1>6 DEF Use, RestoreCatalog, InitializeDatabase, WithFiles, LifecycleInv, TypeOK
<1>7. \/ UNCHANGED folder
      \/ \E t \in Session : RemoveFiles(t)
      \/ \E t \in Session : Use(t) \/ RestoreCatalog(t) \/ InitializeDatabase(t)
  BY Zenon DEF Next, vars, Begin, BeginClose, LookUpDatabase,
       InsertDatabase, RegisterDatabase, OpenCatalog, CloseDatabase,
       UnregisterDatabase, EraseLookUp, LockDatabase, DeleteDatabase,
       UnlockDatabase, Crash, unchangedStorage
<1> QED
  BY <1>3, <1>4, <1>5, <1>6, <1>7

(* A database that a session has open with a confirmed registration keeps  *)
(* its record and its files.                                               *)
THEOREM RegisteredNotErasedHolds == DistinctUsers => (Spec => RegisteredNotErased)
<1>1. LifecycleInv /\ [Next]_vars =>
        [\A s \in Session : LET d == database[s] IN
           granted[s] =>
             /\ d \in databases => d \in databases'
             /\ folder'[d] = "none" => folder[d] = "none"]_vars
  BY RegisteredStep
<1> QED
  BY <1>1, Lifecycle, PTL DEF RegisteredNotErased, Spec
=============================================================================
