--------------------------- MODULE MCReorgFlight ----------------------------
(* Small instance of ReorgFlight for TLC.                                  *)
EXTENDS ReorgFlight
CONSTANTS c1, c2
=============================================================================
