------------------------------ MODULE FlobStore ------------------------------
(***************************************************************************)
(* What Flobs promise to the algebras: a Flob is an array of bytes that is *)
(* created with a size, resized, read, written and destroyed; a byte keeps *)
(* what was written last.  Nothing is promised of a byte before.           *)
(***************************************************************************)
EXTENDS Integers

CONSTANTS Flob, Value, MaxCells, Unwritten

Cell == 0..(MaxCells - 1)

VARIABLES live, size, byte

vars == <<live, size, byte>>

Init ==
    /\ live = {}
    /\ size = [f \in Flob |-> 0]
    /\ byte = [p \in Flob \X Cell |-> Unwritten]

Create(f, n) ==
    /\ f \notin live
    /\ live' = live \cup {f}
    /\ size' = [size EXCEPT ![f] = n]
    /\ UNCHANGED byte

Write(f, from, to, v) ==
    /\ f \in live
    /\ from < to /\ to <= size[f]
    /\ byte' = [p \in Flob \X Cell |->
                  IF p[1] = f /\ from <= p[2] /\ p[2] < to THEN v ELSE byte[p]]
    /\ UNCHANGED <<live, size>>

(* Bytes beyond the new end are lost.                                      *)
Resize(f, n) ==
    /\ f \in live
    /\ size' = [size EXCEPT ![f] = n]
    /\ byte' = [p \in Flob \X Cell |-> IF p[1] = f /\ p[2] >= n THEN Unwritten ELSE byte[p]]
    /\ UNCHANGED live

Destroy(f) ==
    /\ f \in live
    /\ live' = live \ {f}
    /\ size' = [size EXCEPT ![f] = 0]
    /\ byte' = [p \in Flob \X Cell |-> IF p[1] = f THEN Unwritten ELSE byte[p]]

DestroyAll ==
    /\ live' = {}
    /\ size' = [f \in Flob |-> 0]
    /\ byte' = [p \in Flob \X Cell |-> Unwritten]

Next ==
    \/ \E f \in Flob :
          \/ \E n \in 0..MaxCells : Create(f, n) \/ Resize(f, n)
          \/ \E from \in Cell, to \in 1..MaxCells, v \in Value : Write(f, from, to, v)
          \/ Destroy(f)
    \/ DestroyAll

Spec == Init /\ [][Next]_vars
=============================================================================
