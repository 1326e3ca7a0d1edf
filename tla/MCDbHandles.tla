----------------------------- MODULE MCDbHandles -----------------------------
(* Instances of DbHandles for TLC.                                         *)
EXTENDS DbHandles, TLC
CONSTANTS f1, f2, f3, a, b

Files    == {f1, f2, f3}
TwoDbs   == {a, b}
Symmetry == Permutations(Files) \cup Permutations(TwoDbs)
=============================================================================
