---------------------------- MODULE MCT2Capture ----------------------------
(* Small instances of T2Capture for TLC.                                   *)
EXTENDS T2Capture, TLC

CONSTANTS w1, w2, k1, k2, small, large

\* small fits in the space of large, not the other way round.
LenDef == (small :> 1) @@ (large :> 2)
WriterSymmetry == Permutations({w1, w2})
=============================================================================
