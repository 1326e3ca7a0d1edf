----------------------------- MODULE ObjectStore -----------------------------
(***************************************************************************)
(* What the object catalog promises to the users of a database: a session  *)
(* changes objects inside a transaction, sees its own changes at once, and *)
(* the database takes over all of them in the step that commits, or none.  *)
(***************************************************************************)
CONSTANTS
    Session, Name,
    Object,       \* an object as the catalog describes it
    NoObject,     \* there is no object of that name
    Unchanged     \* the transaction has not changed the object of that name

VARIABLES
    stored,       \* Name -> object of the database
    running,      \* whether the session is in a transaction
    changes       \* what its transaction has made of the objects

vars == <<stored, running, changes>>

View(s) == [n \in Name |-> IF changes[s][n] = Unchanged THEN stored[n]
                                                        ELSE changes[s][n]]
NoChanges == [n \in Name |-> Unchanged]

Init ==
    /\ stored = [n \in Name |-> NoObject]
    /\ running = [s \in Session |-> FALSE]
    /\ changes = [s \in Session |-> NoChanges]

Begin(s) ==
    /\ ~running[s]
    /\ running' = [running EXCEPT ![s] = TRUE]
    /\ UNCHANGED <<stored, changes>>

(* An object is created, replaced or removed (o = NoObject).               *)
Change(s, n, o) ==
    /\ running[s]
    /\ changes' = [changes EXCEPT ![s][n] = o]
    /\ UNCHANGED <<stored, running>>

(* Removing an object that the transaction has created undoes the change.  *)
Undo(s, n) ==
    /\ stored[n] = NoObject /\ Change(s, n, Unchanged)

Commit(s) ==
    /\ running[s]
    /\ stored' = View(s)
    /\ running' = [running EXCEPT ![s] = FALSE]
    /\ changes' = [changes EXCEPT ![s] = NoChanges]

(* Several transactions are given up at once by a crash.                   *)
GiveUp(S) ==
    /\ running' = [s \in Session |-> running[s] /\ s \notin S]
    /\ changes' = [s \in Session |-> IF s \in S THEN NoChanges ELSE changes[s]]
    /\ UNCHANGED stored

Next ==
    \/ \E s \in Session :
          \/ Begin(s)
          \/ \E n \in Name :
                \/ \E o \in Object \cup {NoObject} : Change(s, n, o)
                \/ Undo(s, n)
          \/ Commit(s)
    \/ \E S \in SUBSET Session : GiveUp(S)

Spec == Init /\ [][Next]_vars
=============================================================================
