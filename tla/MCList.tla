-------------------------------- MODULE MCList --------------------------------
(* An instance of List for TLC.                                              *)
EXTENDS List, TLC

\* Indices that count from either end, inside a list of three, at its limits
\* and beyond them.
Positions == -4 .. 3

\* Addresses are only compared for equality.
Addresses == Permutations(Nodes)
=============================================================================
