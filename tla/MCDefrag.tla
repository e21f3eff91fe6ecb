----------------------------- MODULE MCDefrag -------------------------------
(* Small instance of Defrag for TLC.                                       *)
EXTENDS Defrag
CONSTANTS k1, k2, w1

\* The record of k2 starts in segment 0 and ends in segment 1, which counts as
\* empty; the first two records of k1 are garbage.
Straddling == << [key |-> k1, len |-> 1], [key |-> k2, len |-> 2],
                 [key |-> k1, len |-> 1], [key |-> k1, len |-> 1] >>
=============================================================================
