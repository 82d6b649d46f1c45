------------------------------ MODULE TableCalls ------------------------------
(***************************************************************************)
(* HashTableSteps with a history variable that remembers the table as it   *)
(* was when the running call began, to compare a whole call with the       *)
(* operators of HashTableOps.                                              *)
(***************************************************************************)
EXTENDS HashTableSteps

VARIABLE before

Now == [ht  |-> [cap |-> cap, slots |-> slots, size |-> size, tombs |-> tombs],
        res |-> ret]

HInit == Init /\ before = Now
HNext == Next /\ before' = IF pc' = "idle" THEN Now' ELSE before
HSpec ==
  HInit /\ [][HNext]_<<vars, before>> /\ WF_<<vars, before>>(Step /\ HNext)

\* While a call runs, its effect has not happened yet.
Whole == INSTANCE HashTable WITH ht <- before.ht, res <- before.res

\* Every call of hashtable.c, run to its end loop by loop, does to the table
\* it started from what the operator of HashTableOps with its name says.
CallsAreWhole == Whole!HtSpec
=============================================================================
