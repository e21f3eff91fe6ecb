---------------------------- MODULE MCShardedT1 -----------------------------
(* Instances of ShardedT1.                                                 *)
EXTENDS ShardedT1, TLC

TwoKeys == 1 .. 2

\* Each key has a prefix of its own.
Distinct == [k \in Keys |-> k]

\* Writers call for every key and readers for the least, or all for the greatest.
ReadFirst == [t \in Writers \cup Readers |-> IF t \in Readers THEN {1} ELSE Keys]
GreatestKey == [t \in Writers \cup Readers |-> {Max(Keys)}]

\* The store was loaded with one shard of the least and the greatest key.
OneShard == << {1, Max(Keys)} >>
NoBoundaries == << >>

WorkerSymmetry == Permutations(Workers)
=============================================================================
