-------------------------------- MODULE MCTable --------------------------------
(* The keys of the TLC instances of the hash table, and their hashes.      *)
EXTENDS Probing, TLC

CONSTANTS k1, k2, k3, k4

\* Homes 0, 1, 0 (and 0): setting k1, k2, k3 makes k3 swap with k2 as soon as
\* three keys are in the table, which is at capacity 8.
CollidingHash == [k \in Keys |->
  CASE k = k1 -> 0 [] k = k2 -> 1 [] k = k3 -> 8 [] k = k4 -> 16]

\* A home slot for every key, at every capacity.
DistinctHash == [k \in Keys |->
  CASE k = k1 -> 0 [] k = k2 -> 1 [] k = k3 -> 3 [] k = k4 -> 2]
=============================================================================
