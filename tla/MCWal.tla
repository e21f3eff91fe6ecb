-------------------------------- MODULE MCWal -------------------------------
(* Small instance of Wal for TLC.                                          *)
EXTENDS Wal
CONSTANTS w1, w2

AllFaults == {"io", "truncate", "open"}
=============================================================================
