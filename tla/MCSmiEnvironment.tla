-------------------------- MODULE MCSmiEnvironment --------------------------
(* Instances of SmiEnvironment for TLC.                                    *)
EXTENDS SmiEnvironment, TLC
CONSTANTS s1, s2, r1, r2, objects, types, anonymous

TwoSessions == {s1, s2}
TwoRecords  == {r1, r2}
Symmetry    == Permutations(TwoSessions) \cup Permutations(TwoRecords)
=============================================================================
