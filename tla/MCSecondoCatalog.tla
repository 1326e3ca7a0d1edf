--------------------------- MODULE MCSecondoCatalog ---------------------------
EXTENDS SecondoCatalog, TLC

CONSTANTS s1, s2, plain, named

OneSession == {s1}
TwoSessions == {s1, s2}
Names == {1, 2}
Types == {plain, named}
OneType == {plain}
NoNamedType == {}
OneNamedType == {named}
SessionSymmetry == Permutations(TwoSessions)
TypeSymmetry == Permutations(Types)
=============================================================================
