-------------------------- MODULE MCNativeFlobCache --------------------------
(* Instances of NativeFlobCache for TLC.                                    *)
EXTENDS NativeFlobCache, TLC
CONSTANTS a, b

TwoFlobs == {a, b}
Symmetry == Permutations(TwoFlobs)

(* Flobs of up to two slots; a read matters by the slots that it brings in.  *)
ReadRanges == {<<0,1>>, <<0,3>>}
WriteRanges == {<<0,1>>, <<1,3>>}
=============================================================================
