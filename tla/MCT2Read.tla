------------------------------ MODULE MCT2Read ------------------------------
(* Small instances of T2Read for TLC.                                      *)
EXTENDS T2Read, TLC

CONSTANTS w1, k1, v1, v2, r1

\* Two values of one size: every update may go in place.
LenDef == (v1 :> 1) @@ (v2 :> 1)
=============================================================================
