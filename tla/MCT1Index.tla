----------------------------- MODULE MCT1Index -----------------------------
(* Small instances of T1Index for TLC.                                     *)
EXTENDS T1Index, TLC
CONSTANTS w1, w2, r1, inlineA, offsetB

\* An inline value and a T2 offset carry different raw hashes.
HashOfDef == (inlineA :> "inline") @@ (offsetB :> "clean") @@ (NotFound :> "clean")
Symmetry == Permutations({w1, w2})
OneAndDeleted == {inlineA, NotFound}
LivePayloads == {inlineA, offsetB}
GetAndScan == {"get", "scan"}
OneKey == {1}
TwoKeys == {1, 2}
=============================================================================
