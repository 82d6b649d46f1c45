--------------------------------- MODULE Map ---------------------------------
(***************************************************************************)
(* What src/src/hashtable.h promises: a map from keys to values.           *)
(***************************************************************************)
EXTENDS Integers

CONSTANTS Keys, Values, NoVal

VARIABLES
  map,   \* the value of every key, NoVal for a key that is not there
  res    \* what the last call returned

mvars == <<map, res>>

Present(k) == map[k] # NoVal

Init ==
  /\ map = [k \in Keys |-> NoVal]
  /\ res = 0

\* ht_set returns 1 for a new key, 0 for an update.
Set(k, v) ==
  /\ map' = [map EXCEPT ![k] = v]
  /\ res' = IF Present(k) THEN 0 ELSE 1

Get(k) ==
  /\ res' = map[k]
  /\ UNCHANGED map

\* ht_delete returns 1 when it deleted something.
Delete(k) ==
  /\ map' = [map EXCEPT ![k] = NoVal]
  /\ res' = IF Present(k) THEN 1 ELSE 0

Flush ==
  /\ map' = [k \in Keys |-> NoVal]
  /\ UNCHANGED res

Next ==
  \/ \E k \in Keys, v \in Values : Set(k, v)
  \/ \E k \in Keys : Get(k) \/ Delete(k)
  \/ Flush

Spec == Init /\ [][Next]_mvars
=============================================================================
