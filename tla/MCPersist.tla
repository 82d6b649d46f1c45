------------------------------- MODULE MCPersist -------------------------------
(* Instances of Persist for TLC.                                            *)
EXTENDS Persist, TLC

CONSTANTS k1, k2

TwoKeys == <<k1, k2>>

\* A list of two elements and a string with a deadline.
SomeVals ==
  {[type |-> "list", parts |-> <<"x", "y">>, timed |-> FALSE],
   [type |-> "str", parts |-> <<"y">>, timed |-> TRUE]}
=============================================================================
