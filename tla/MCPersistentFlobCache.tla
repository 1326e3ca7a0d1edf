------------------------ MODULE MCPersistentFlobCache ------------------------
(* Instances of PersistentFlobCache for TLC. f1 is written and has up to    *)
(* two slots, each in a chain of its own; f2 and f3 are read, and their     *)
(* first slots share a chain.                                               *)
EXTENDS PersistentFlobCache, TLC
CONSTANTS f1, f2, f3, v1, v2

Hash   == [f \in Flob |-> IF f = f1 THEN 0 ELSE 2]
Marks  == [f \in Flob |-> CASE f = f1 -> {0, 1, 2, 4}
                            [] f = f2 -> {0, 1, 2}
                            [] f = f3 -> {0, 2, 4}]
Values == Permutations({v1, v2})

(* The largest size of a Flob that is stored or may come back.              *)
Stored(f) == IF size[f] < saved.size[f] THEN saved.size[f] ELSE size[f]

(* The bound of the run: f1 alone, f1 and f2 with one slot each, or f2 and  *)
(* f3 are there at a time.                                                  *)
Only(F) == \A f \in Flob \ F : Stored(f) = 0 /\ \A e \in Cached : e[1] # f
FewFlobs ==
    /\ \/ Only({f1})
       \/ Only({f1, f2}) /\ Stored(f1) <= 2 /\ Stored(f2) = 2 /\ <<f1, 1>> \notin Cached
       \/ Only({f2, f3}) /\ Stored(f2) <= 1
    /\ \A f \in {f2, f3} : life[f] # "none" => size[f] > 0
    /\ size[f3] \in {0, 4}
=============================================================================
