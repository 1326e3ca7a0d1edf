--------------------------- MODULE DatabaseLifecycle ---------------------------
(***************************************************************************)
(* The databases of one Secondo installation: the directory of databases   *)
(* in Berkeley DB, the folder of each database, the registrar process,     *)
(* which knows what database is in use by whom, and the sessions that      *)
(* create, open, close, restore and delete databases.                      *)
(*                                                                         *)
(* SmiEnvironment::CreateDatabase, OpenDatabase, CloseDatabase and         *)
(* EraseDatabase take one step for every access to something shared; a     *)
(* call of the registrar is one step, as the registrar serves one request  *)
(* at a time.                                                              *)
(***************************************************************************)
EXTENDS Integers, FiniteSets

CONSTANTS
    Session,        \* server processes
    Name,           \* names of databases
    User,           \* user ids as the registrar sees them
    NoUser,
    UserOf,         \* the user id of each session
    Failures,       \* what may go wrong, see Failure
    MaxFaults       \* bound of the model: how often something goes wrong

(* What may go wrong: a call of Berkeley DB fails in InitializeDatabase, in *)
(* DeleteDatabase, when the files are removed or when the catalog is        *)
(* opened; RestoreCatalog fails; the registrar does not get a request, or   *)
(* the server does not get the answer; a server crashes.                    *)
Failure == {"initialize", "delete", "remove", "catalog", "restore",
            "request", "answer", "crash"}

ASSUME LifecycleConstants ==
    /\ NoUser \notin User
    /\ UserOf \in [Session -> User]
    /\ Failures \subseteq Failure
    /\ MaxFaults \in Nat

VARIABLES
    databases,      \* directory of databases (bdbDatabases)
    folder,         \* per database: the files in its folder
    registered,     \* registrar: dbRegister, how often a user is in it
    lock,           \* registrar: dbLocks
    pc,             \* per session: the next step of its command
    command,        \* per session: the command
    database,       \* per session: SmiEnvironment::database
    dbOpened,       \* per session: SmiEnvironment::dbOpened
    handle,         \* per session: bdbSeq, bdbCatalog, bdbCatalogIndex are open
    leaked,         \* per session: databases with handles nobody will close
    granted,        \* history: the registrar has confirmed the registration
    faults          \* how often something has gone wrong

vars == <<databases, folder, registered, lock, pc, command, database, dbOpened,
          handle, leaked, granted, faults>>

Erasing == {"delete", "remove", "unlock"}
Steps == {"idle", "lookup", "initialize", "insert", "register", "catalog",
          "restore", "close", "unregister", "eraseLookup", "lock"} \cup Erasing
Commands == {"create", "open", "close", "delete", "restore", "cleanup"}

TypeOK ==
    /\ databases \subseteq Name
    /\ folder \in [Name -> {"none", "empty", "used"}]
    /\ registered \in [Name -> [User -> Nat]]
    /\ lock \in [Name -> User \cup {NoUser}]
    /\ pc \in [Session -> Steps]
    /\ command \in [Session -> Commands]
    /\ database \in [Session -> Name]
    /\ dbOpened \in [Session -> BOOLEAN]
    /\ handle \in [Session -> BOOLEAN]
    /\ leaked \in [Session -> SUBSET Name]
    /\ granted \in [Session -> BOOLEAN]
    /\ faults \in 0..MaxFaults

Init ==
    /\ databases = {}
    /\ folder = [d \in Name |-> "none"]
    /\ registered = [d \in Name |-> [u \in User |-> 0]]
    /\ lock = [d \in Name |-> NoUser]
    /\ pc = [s \in Session |-> "idle"]
    /\ command = [s \in Session |-> "close"]
    /\ database \in [Session -> Name]
    /\ dbOpened = [s \in Session |-> FALSE]
    /\ handle = [s \in Session |-> FALSE]
    /\ leaked = [s \in Session |-> {}]
    /\ granted = [s \in Session |-> FALSE]
    /\ faults = 0

-----------------------------------------------------------------------------
(* Steps of a command.                                                      *)

Goto(s, step) == pc' = [pc EXCEPT ![s] = step]

(* RestoreDatabase ignores the result of erasing and creates the database.  *)
AfterErase(s) == Goto(s, IF command[s] = "restore" THEN "lookup" ELSE "idle")

(* Something of the given kind goes wrong.                                  *)
Fault(kind) ==
    /\ kind \in Failures
    /\ faults < MaxFaults
    /\ faults' = faults + 1

NoFault == faults' = faults

unchangedRegistrar == UNCHANGED <<registered, lock>>
unchangedStorage == UNCHANGED <<databases, folder>>
unchangedSession == UNCHANGED <<command, database, dbOpened, handle, leaked, granted>>

(* A user's command. The interpreter and the functions of SmiEnvironment    *)
(* refuse all but close while a database is open. SetDatabaseName sets the  *)
(* name for the functions to come.                                          *)
Begin(s, c, d) ==
    /\ pc[s] = "idle"
    /\ c \in Commands \ {"cleanup", "close"}
    /\ ~dbOpened[s]
    /\ command' = [command EXCEPT ![s] = c]
    /\ database' = [database EXCEPT ![s] = d]
    /\ Goto(s, IF c \in {"delete", "restore"} THEN "eraseLookup" ELSE "lookup")
    /\ UNCHANGED <<dbOpened, handle, leaked, granted, faults>>
    /\ unchangedStorage
    /\ unchangedRegistrar

BeginClose(s) ==
    /\ pc[s] = "idle"
    /\ dbOpened[s]
    /\ command' = [command EXCEPT ![s] = "close"]
    /\ Goto(s, "close")
    /\ UNCHANGED <<database, dbOpened, handle, leaked, granted, faults>>
    /\ unchangedStorage
    /\ unchangedRegistrar

(* Any command that stores something in the open database.                  *)
Use(s) ==
    /\ pc[s] = "idle"
    /\ dbOpened[s]
    /\ folder' = [folder EXCEPT ![database[s]] = "used"]
    /\ UNCHANGED <<databases, pc, faults>>
    /\ unchangedSession
    /\ unchangedRegistrar

(* CreateDatabase goes on when the name is new, OpenDatabase when it is not. *)
LookUpDatabase(s) ==
    /\ pc[s] = "lookup"
    /\ Goto(s, IF (database[s] \in databases) = (command[s] = "open")
               THEN "initialize" ELSE "idle")
    /\ NoFault
    /\ unchangedSession
    /\ unchangedStorage
    /\ unchangedRegistrar

WithFiles(d) == [folder EXCEPT ![d] = IF @ = "none" THEN "empty" ELSE @]

(* InitializeDatabase creates the files that are missing. When that fails,  *)
(* it closes what it has opened, and it returns the outcome of closing, so  *)
(* that its callers go on unless closing fails as well. The folder then     *)
(* removed by CreateDatabase stays when there are files in it.              *)
InitializeDatabase(s) ==
    LET next == IF command[s] = "open" THEN "register" ELSE "insert" IN
    /\ pc[s] = "initialize"
    /\ \/ /\ folder' = WithFiles(database[s])
          /\ handle' = [handle EXCEPT ![s] = TRUE]
          /\ Goto(s, next)
          /\ NoFault
       \/ /\ folder' \in {folder, WithFiles(database[s])}
          /\ handle' = [handle EXCEPT ![s] = FALSE]
          /\ Goto(s, next) \/ Goto(s, "idle")
          /\ Fault("initialize")
    /\ UNCHANGED <<databases, command, database, dbOpened, leaked, granted>>
    /\ unchangedRegistrar

(* Another session may have inserted the name meanwhile. Then CreateDatabase *)
(* gives up and leaves its handles open.                                    *)
InsertDatabase(s) ==
    /\ pc[s] = "insert"
    /\ databases' = databases \cup {database[s]}
    /\ \/ /\ database[s] \notin databases
          /\ Goto(s, "register")
          /\ UNCHANGED <<handle, leaked>>
       \/ /\ database[s] \in databases
          /\ Goto(s, "idle")
          /\ leaked' = [leaked EXCEPT ![s] = IF handle[s] THEN @ \cup {database[s]} ELSE @]
          /\ handle' = [handle EXCEPT ![s] = FALSE]
    /\ UNCHANGED <<folder, command, database, dbOpened, granted, faults>>
    /\ unchangedRegistrar

-----------------------------------------------------------------------------
(* Calls of the registrar.                                                  *)

(* CallRegistrar: the request is carried out if the registrar accepts it,   *)
(* unless it is lost; the caller learns so, unless the answer is lost.      *)
Exchange(accepted, done, ok) ==
    \/ done = accepted /\ ok = accepted /\ NoFault
    \/ done = FALSE /\ ok = FALSE /\ Fault("request")
    \/ done = accepted /\ ok = FALSE /\ Fault("answer")

(* Mutant: a single registration does not count.                            *)
InUseByMany(d) == \E u \in User : registered[d][u] > 1

InUse(d) == \E u \in User : registered[d][u] > 0

(* ExecRegister refuses a locked database. CreateDatabase and OpenDatabase  *)
(* ignore the answer.                                                       *)
RegisterDatabase(s) ==
    LET d == database[s] IN
    /\ pc[s] = "register"
    /\ \E done, ok \in BOOLEAN :
          /\ Exchange(lock[d] = NoUser, done, ok)
          /\ registered' = IF done THEN [registered EXCEPT ![d][UserOf[s]] = @ + 1]
                                    ELSE registered
          /\ granted' = [granted EXCEPT ![s] = ok]
    /\ dbOpened' = [dbOpened EXCEPT ![s] = TRUE]
    /\ Goto(s, "catalog")
    /\ UNCHANGED <<lock, command, database, handle, leaked>>
    /\ unchangedStorage

(* Mutant: all entries for the database are removed, erase(database) in     *)
(* place of erase(pos).                                                     *)
UnregisterAll(s) ==
    /\ pc[s] = "unregister"
    /\ registered' = [registered EXCEPT ![database[s]] = [u \in User |-> 0]]
    /\ dbOpened' = [dbOpened EXCEPT ![s] = FALSE]
    /\ granted' = [granted EXCEPT ![s] = FALSE]
    /\ Goto(s, IF command[s] = "cleanup" THEN "eraseLookup" ELSE "idle")
    /\ UNCHANGED <<lock, command, database, handle, leaked, faults>>
    /\ unchangedStorage

(* Mutant: an entry is removed without a look whether there is one.         *)
UnregisterUnseen(s) ==
    /\ pc[s] = "unregister"
    /\ registered' = [registered EXCEPT ![database[s]][UserOf[s]] = @ - 1]
    /\ dbOpened' = [dbOpened EXCEPT ![s] = FALSE]
    /\ granted' = [granted EXCEPT ![s] = FALSE]
    /\ Goto(s, IF command[s] = "cleanup" THEN "eraseLookup" ELSE "idle")
    /\ UNCHANGED <<lock, command, database, handle, leaked, faults>>
    /\ unchangedStorage

(* ExecUnregister removes one entry of the user, if there is one. The       *)
(* answer is ignored again. CreateDatabase goes on to erase a database      *)
(* whose catalog it could not open.                                         *)
UnregisterDatabase(s) ==
    LET d == database[s] IN
    /\ pc[s] = "unregister"
    /\ \E done, ok \in BOOLEAN :
          /\ Exchange(registered[d][UserOf[s]] > 0, done, ok)
          /\ registered' = IF done THEN [registered EXCEPT ![d][UserOf[s]] = @ - 1]
                                    ELSE registered
    /\ dbOpened' = [dbOpened EXCEPT ![s] = FALSE]
    /\ granted' = [granted EXCEPT ![s] = FALSE]
    /\ Goto(s, IF command[s] = "cleanup" THEN "eraseLookup" ELSE "idle")
    /\ UNCHANGED <<lock, command, database, handle, leaked>>
    /\ unchangedStorage

(* ExecLock refuses a database that is locked or registered.                *)
LockDatabase(s) ==
    LET d == database[s] IN
    /\ pc[s] = "lock"
    /\ \E done, ok \in BOOLEAN :
          /\ Exchange(lock[d] = NoUser /\ ~InUse(d), done, ok)
          /\ lock' = IF done THEN [lock EXCEPT ![d] = UserOf[s]] ELSE lock
          /\ IF ok THEN Goto(s, "delete") ELSE AfterErase(s)
    /\ UNCHANGED registered
    /\ unchangedSession
    /\ unchangedStorage

(* ExecUnlock removes the lock of the database, whosever it is.             *)
UnlockDatabase(s) ==
    LET d == database[s] IN
    /\ pc[s] = "unlock"
    /\ \E done, ok \in BOOLEAN :
          /\ Exchange(lock[d] # NoUser, done, ok)
          /\ lock' = IF done THEN [lock EXCEPT ![d] = NoUser] ELSE lock
    /\ AfterErase(s)
    /\ UNCHANGED registered
    /\ unchangedSession
    /\ unchangedStorage

-----------------------------------------------------------------------------
(* The rest of opening, closing and erasing.                                *)

(* SecondoSystem opens the files of the catalog in a transaction. A created *)
(* database is closed at once by the interpreter, a restored one is filled. *)
(* Without the files of SmiEnvironment, the catalog cannot be opened.       *)
OpenCatalog(s) ==
    /\ pc[s] = "catalog"
    /\ \/ /\ handle[s]
          /\ NoFault
          /\ Goto(s, CASE command[s] = "create" -> "close"
                       [] command[s] = "restore" -> "restore"
                       [] OTHER -> "idle")
          /\ UNCHANGED command
       \/ /\ IF handle[s] THEN Fault("catalog") ELSE NoFault
          /\ Goto(s, "close")
          /\ command' = [command EXCEPT ![s] = IF @ = "open" THEN @ ELSE "cleanup"]
    /\ UNCHANGED <<database, dbOpened, handle, leaked, granted>>
    /\ unchangedRegistrar
    /\ unchangedStorage

(* RestoreCatalog stores the types and objects; after an error in one of    *)
(* them the interpreter closes the database.                                *)
RestoreCatalog(s) ==
    /\ pc[s] = "restore"
    /\ folder' = [folder EXCEPT ![database[s]] = "used"]
    /\ \/ Goto(s, "idle") /\ NoFault
       \/ Goto(s, "close") /\ Fault("restore")
    /\ UNCHANGED databases
    /\ unchangedSession
    /\ unchangedRegistrar

CloseDatabase(s) ==
    /\ pc[s] = "close"
    /\ handle' = [handle EXCEPT ![s] = FALSE]
    /\ Goto(s, "unregister")
    /\ UNCHANGED <<command, database, dbOpened, leaked, granted, faults>>
    /\ unchangedRegistrar
    /\ unchangedStorage

(* Mutant: the database is erased without a lock.                           *)
EraseUnlocked(s) ==
    /\ pc[s] = "eraseLookup"
    /\ IF database[s] \in databases THEN Goto(s, "delete") ELSE AfterErase(s)
    /\ NoFault
    /\ unchangedSession
    /\ unchangedRegistrar
    /\ unchangedStorage

EraseLookUp(s) ==
    /\ pc[s] = "eraseLookup"
    /\ IF database[s] \in databases THEN Goto(s, "lock") ELSE AfterErase(s)
    /\ NoFault
    /\ unchangedSession
    /\ unchangedRegistrar
    /\ unchangedStorage

(* The result of DeleteDatabase is ignored.                                 *)
DeleteDatabase(s) ==
    /\ pc[s] = "delete"
    /\ \/ databases' = databases \ {database[s]} /\ NoFault
       \/ UNCHANGED databases /\ Fault("delete")
    /\ Goto(s, "remove")
    /\ UNCHANGED folder
    /\ unchangedSession
    /\ unchangedRegistrar

HasHandle(s, d) == (handle[s] /\ database[s] = d) \/ d \in leaked[s]

(* Db::remove waits for handles of other processes. When one of the files   *)
(* cannot be removed, EraseDatabase goes on with the others, of which those *)
(* with the data may be, but it does not come to UnlockDatabase.            *)
RemoveFiles(s) ==
    LET d == database[s] IN
    /\ pc[s] = "remove"
    /\ \/ /\ \A t \in Session \ {s} : ~HasHandle(t, d)
          /\ folder' = [folder EXCEPT ![d] = "none"]
          /\ Goto(s, "unlock")
          /\ NoFault
       \/ /\ folder[d] # "none"
          /\ folder' \in {folder, [folder EXCEPT ![d] = "empty"]}
          /\ AfterErase(s)
          /\ Fault("remove")
    /\ UNCHANGED databases
    /\ unchangedSession
    /\ unchangedRegistrar

(* A server dies. The registrar is not told.                                *)
Crash(s) ==
    /\ Fault("crash")
    /\ Goto(s, "idle")
    /\ command' = [command EXCEPT ![s] = "close"]
    /\ dbOpened' = [dbOpened EXCEPT ![s] = FALSE]
    /\ handle' = [handle EXCEPT ![s] = FALSE]
    /\ leaked' = [leaked EXCEPT ![s] = {}]
    /\ granted' = [granted EXCEPT ![s] = FALSE]
    /\ UNCHANGED database
    /\ unchangedRegistrar
    /\ unchangedStorage

Next == \E s \in Session :
    \/ \E c \in Commands, d \in Name : Begin(s, c, d)
    \/ BeginClose(s)
    \/ Use(s)
    \/ LookUpDatabase(s)
    \/ InitializeDatabase(s)
    \/ InsertDatabase(s)
    \/ RegisterDatabase(s)
    \/ OpenCatalog(s)
    \/ RestoreCatalog(s)
    \/ CloseDatabase(s)
    \/ UnregisterDatabase(s)
    \/ EraseLookUp(s)
    \/ LockDatabase(s)
    \/ DeleteDatabase(s)
    \/ RemoveFiles(s)
    \/ UnlockDatabase(s)
    \/ Crash(s)

Spec == Init /\ [][Next]_vars

-----------------------------------------------------------------------------
(* Properties.                                                              *)

(* The state of a session that may use the database d.                      *)
Works(s, d) == dbOpened[s] /\ database[s] = d

(* Whoever has got the lock erases alone: no other session is about to      *)
(* erase the same database or has a confirmed registration of it, whatever  *)
(* is lost or crashes. This is what ExecLock and ExecRegister are for.      *)
EraserAlone ==
    \A s, t \in Session :
        s # t /\ pc[s] \in Erasing /\ database[s] = database[t]
            => ~granted[t] /\ pc[t] \notin Erasing

(* A confirmed registration stays with the registrar until its owner closes *)
(* the database, whatever other sessions register and unregister.           *)
RegistrationsKept ==
    \A s \in Session : granted[s] => registered[database[s]][UserOf[s]] > 0

(* A database that a session has open with a confirmed registration loses   *)
(* neither its record nor its files.                                        *)
RegisteredNotErased ==
    [][\A s \in Session : LET d == database[s] IN
         granted[s] =>
             /\ d \in databases => d \in databases'
             /\ folder'[d] = "none" => folder[d] = "none"]_vars

(* SecondoSMI.h:1219: the registration protects a database from deletion by *)
(* another user. No session that has a database open loses its record.      *)
ProtectedWhileOpen ==
    [][\A s \in Session, d \in Name :
         Works(s, d) /\ d \in databases => d \in databases']_vars
=============================================================================
