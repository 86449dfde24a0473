------------------------ MODULE MC_GeneratedModels ------------------------
(* Model-checking instance of GeneratedModels: three uuids.                *)
EXTENDS GeneratedModels, TLC

CONSTANTS u1, u2, u3

MCUuids == {u1, u2, u3}

\* Uuids are opaque: any permutation of them is a behaviour of the code.
MCSymmetry == Permutations(MCUuids)

=============================================================================
