---------------------------- MODULE HashTableSteps ----------------------------
(***************************************************************************)
(* src/src/hashtable.c, one step per loop iteration.                       *)
(*                                                                         *)
(* A call (ht_set, ht_find for ht_get / ht_exists / ht_get_entry, and      *)
(* ht_delete) runs alone: the server is single threaded.  Its loops are    *)
(* steps here because what matters about them is that they stop, what the  *)
(* array looks like between two iterations (a signal handler may walk it   *)
(* there), and that no entry is dropped or freed twice on the way.         *)
(*                                                                         *)
(* pc says which loop is running:                                          *)
(*   "idle"    no call, or the call has returned with result ret           *)
(*   "probe"   the for loop of ht_set                                      *)
(*   "find"    the for loop of ht_find                                     *)
(*   "resize"  the outer loop of ht_resize, over the old array             *)
(*   "move"    the inner loop of ht_resize, placing one old entry          *)
(***************************************************************************)
EXTENDS Probing

VARIABLES
  cap, slots, size, tombs,  \* hashtable_t
  pc,                       \* the loop that is running
  op, arg,                  \* the running call: "set", "get", "delete"
  carry,                    \* new_key / new_value (ht_set), k / v (ht_resize)
  i,                        \* the probe counter of the running loop
  old, pos,                 \* ht_resize: the old array and its next index
  ret,                      \* what the last call returned
  owner                     \* history: the key a live value was set for;
                            \* NoKey when the pointer is free or freed

table    == <<cap, slots, size, tombs>>
resizing == <<old, pos>>
vars     == <<cap, slots, size, tombs, pc, op, arg, carry, i, old, pos, ret,
              owner>>

NoPair   == [key |-> NoKey, val |-> NoVal]
NotFound == 0

-----------------------------------------------------------------------------
Init ==
  /\ cap = MinCap
  /\ slots = EmptySlots(MinCap)
  /\ size = 0
  /\ tombs = 0
  /\ pc = "idle"
  /\ op = "none"
  /\ arg = NoPair
  /\ carry = NoPair
  /\ i = 0
  /\ old = EmptySlots(0)
  /\ pos = 0
  /\ ret = NotFound
  /\ owner = [v \in Values |-> NoKey]

-----------------------------------------------------------------------------
\* Fault: `ht->tombstones = 0` is missing.
BeginResizeKeepingTombs(c) ==
  /\ old' = slots
  /\ pos' = 0
  /\ cap' = ResizedCap(c)
  /\ slots' = EmptySlots(ResizedCap(c))
  /\ size' = 0
  /\ tombs' = tombs
  /\ pc' = "resize"

(* ht_resize, up to its outer loop: a zeroed array of the new capacity.    *)
BeginResize(c) ==
  /\ old' = slots
  /\ pos' = 0
  /\ cap' = ResizedCap(c)
  /\ slots' = EmptySlots(ResizedCap(c))
  /\ size' = 0
  /\ tombs' = 0
  /\ pc' = "resize"

\* Enter the for loop of ht_set with the pair of the call.
BeginProbe(pair) ==
  /\ carry' = pair
  /\ i' = 0
  /\ pc' = "probe"

\* ht_set(ht, k, v): v is a pointer the caller just allocated.
SetCall(k, v) ==
  /\ pc = "idle"
  /\ owner[v] = NoKey
  /\ owner' = [owner EXCEPT ![v] = k]
  /\ op' = "set"
  /\ arg' = [key |-> k, val |-> v]
  /\ UNCHANGED ret
  /\ \/ /\ MustGrow(cap, size + tombs)
        /\ ResizedCap(2 * cap) \in Caps          \* BOUND: memory
        /\ BeginResize(2 * cap)
        /\ UNCHANGED <<carry, i>>
     \/ /\ ~MustGrow(cap, size + tombs)
        /\ BeginProbe(arg')
        /\ UNCHANGED <<table, resizing>>

\* The call is over: its local variables are dead.
Leave ==
  /\ pc' = "idle"
  /\ op' = "none"
  /\ arg' = NoPair
  /\ carry' = NoPair
  /\ i' = 0

Return(r) == Leave /\ ret' = r

\* The slot a loop looks at, for the key it is placing or looking for.
At(k) == ProbeIndex(cap, k, i)

\* Fault: an insertion always counts as the reuse of a tombstone.
SetInsertUncounting ==
  /\ pc = "probe"
  /\ slots[At(carry.key)].occ # 1
  /\ tombs' = tombs - 1
  /\ slots' = With(slots, At(carry.key), carry.key, carry.val)
  /\ size' = size + 1
  /\ Return(1)
  /\ UNCHANGED <<cap, resizing, owner>>

\* Empty or tombstone slot: insert here.
SetInsert ==
  /\ pc = "probe"
  /\ slots[At(carry.key)].occ # 1
  /\ tombs' = tombs - (IF slots[At(carry.key)].occ = 2 THEN 1 ELSE 0)
  /\ slots' = With(slots, At(carry.key), carry.key, carry.val)
  /\ size' = size + 1
  /\ Return(1)
  /\ UNCHANGED <<cap, resizing, owner>>

\* Fault: an update is reported as a new key.
SetUpdateAsNew ==
  LET e == slots[At(carry.key)] IN
  /\ pc = "probe"
  /\ e.occ = 1
  /\ Matches(e, carry.key, arg.key)
  /\ owner' = [owner EXCEPT ![e.val] = NoKey]
  /\ slots' = With(slots, At(carry.key), e.key, carry.val)
  /\ Return(1)
  /\ UNCHANGED <<cap, size, tombs, resizing>>

\* Key exists: free the old value, keep the entry.
SetUpdate ==
  LET e == slots[At(carry.key)] IN
  /\ pc = "probe"
  /\ e.occ = 1
  /\ Matches(e, carry.key, arg.key)
  /\ owner' = [owner EXCEPT ![e.val] = NoKey]
  /\ slots' = With(slots, At(carry.key), e.key, carry.val)
  /\ Return(0)
  /\ UNCHANGED <<cap, size, tombs, resizing>>

\* Fault: the entry taken out of the slot is not carried on.
ProbeOnDropping(e) ==
  /\ IF Poorer(cap, carry.key, e, At(carry.key))
       THEN slots' = With(slots, At(carry.key), carry.key, carry.val)
       ELSE UNCHANGED slots
  /\ i' = i + 1
  /\ UNCHANGED carry

\* Another key's entry: swap with it when it sits closer to its home than
\* the carried one would, and probe on.  The counter i is kept, although
\* from here on it is added to the hash of the entry taken out.
ProbeOn(e) ==
  /\ IF Poorer(cap, carry.key, e, At(carry.key))
       THEN /\ slots' = With(slots, At(carry.key), carry.key, carry.val)
            /\ carry' = [key |-> e.key, val |-> e.val]
       ELSE UNCHANGED <<slots, carry>>
  /\ i' = i + 1

SetProbeOn ==
  LET e == slots[At(carry.key)] IN
  /\ pc = "probe"
  /\ e.occ = 1
  /\ ~Matches(e, carry.key, arg.key)
  /\ ProbeOn(e)
  /\ UNCHANGED <<cap, size, tombs, pc, op, arg, resizing, ret, owner>>

-----------------------------------------------------------------------------
(* ht_resize: the outer loop takes the next occupied old entry, the inner  *)
(* loop places it.  The new array holds no tombstone.                      *)
ResizeSkip ==
  /\ pc = "resize"
  /\ pos \in DOMAIN old
  /\ old[pos].occ # 1
  /\ pos' = pos + 1
  /\ UNCHANGED <<table, pc, op, arg, carry, i, old, ret, owner>>

ResizeTake ==
  /\ pc = "resize"
  /\ pos \in DOMAIN old
  /\ old[pos].occ = 1
  /\ carry' = [key |-> old[pos].key, val |-> old[pos].val]
  /\ i' = 0
  /\ pc' = "move"
  /\ pos' = pos + 1
  /\ UNCHANGED <<table, op, arg, old, ret, owner>>

MovePlace ==
  /\ pc = "move"
  /\ slots[At(carry.key)].occ = 0
  /\ slots' = With(slots, At(carry.key), carry.key, carry.val)
  /\ size' = size + 1
  /\ carry' = NoPair
  /\ i' = 0
  /\ pc' = "resize"
  /\ UNCHANGED <<cap, tombs, op, arg, resizing, ret, owner>>

MoveOn ==
  /\ pc = "move"
  /\ slots[At(carry.key)].occ # 0
  /\ ProbeOn(slots[At(carry.key)])
  /\ UNCHANGED <<cap, size, tombs, pc, op, arg, resizing, ret, owner>>

\* The old array is freed; ht_set goes on to its own loop, ht_delete returns.
ResizeDone ==
  /\ pc = "resize"
  /\ pos \notin DOMAIN old
  /\ old' = EmptySlots(0)
  /\ pos' = 0
  /\ IF op = "set"
       THEN BeginProbe(arg) /\ UNCHANGED <<op, arg>>
       ELSE Leave
  /\ UNCHANGED <<table, ret, owner>>

-----------------------------------------------------------------------------
(* ht_find, for ht_get, ht_exists, ht_get_entry ("get") and ht_delete.     *)
FindCall(o, k) ==
  /\ pc = "idle"
  /\ op' = o
  /\ arg' = [key |-> k, val |-> NoVal]
  /\ i' = 0
  /\ pc' = "find"
  /\ UNCHANGED <<table, carry, resizing, ret, owner>>

\* An empty slot, or an entry closer to its home than i: key not present.
FindMiss ==
  LET e == slots[At(arg.key)] IN
  /\ pc = "find"
  /\ \/ e.occ = 0
     \/ e.occ = 1 /\ i > ProbeDistance(cap, e.key, At(arg.key))
  /\ Return(IF op = "get" THEN NoVal ELSE NotFound)
  /\ UNCHANGED <<table, resizing, owner>>

FindsHere(e) ==
  /\ e.occ = 1
  /\ i <= ProbeDistance(cap, e.key, At(arg.key))
  /\ Matches(e, arg.key, arg.key)

FindHit ==
  /\ pc = "find"
  /\ op = "get"
  /\ FindsHere(slots[At(arg.key)])
  /\ Return(slots[At(arg.key)].val)
  /\ UNCHANGED <<table, resizing, owner>>

\* ht_delete frees the entry, leaves a tombstone and may shrink the table.
DeleteHit ==
  LET e == slots[At(arg.key)]
      buried == Without(slots, At(arg.key))
  IN
  /\ pc = "find"
  /\ op = "delete"
  /\ FindsHere(e)
  /\ owner' = [owner EXCEPT ![e.val] = NoKey]
  /\ ret' = 1
  /\ IF MustShrink(cap, size - 1)
       THEN /\ old' = buried
            /\ pos' = 0
            /\ cap' = ResizedCap(cap \div 2)
            /\ slots' = EmptySlots(ResizedCap(cap \div 2))
            /\ size' = 0
            /\ tombs' = 0
            /\ pc' = "resize"
            /\ i' = 0
            /\ UNCHANGED <<op, arg, carry>>
       ELSE /\ slots' = buried
            /\ size' = size - 1
            /\ tombs' = tombs + 1
            /\ Leave
            /\ UNCHANGED <<cap, resizing>>

\* Fault: a tombstone is probed again and again.
FindNextStuck ==
  LET e == slots[At(arg.key)] IN
  /\ pc = "find"
  /\ \/ e.occ = 2
     \/ /\ e.occ = 1
        /\ i <= ProbeDistance(cap, e.key, At(arg.key))
        /\ ~Matches(e, arg.key, arg.key)
  /\ i' = IF e.occ = 2 THEN i ELSE i + 1
  /\ UNCHANGED <<table, pc, op, arg, carry, resizing, ret, owner>>

\* A tombstone, or another key at least as far from its home: keep probing.
FindNext ==
  LET e == slots[At(arg.key)] IN
  /\ pc = "find"
  /\ \/ e.occ = 2
     \/ /\ e.occ = 1
        /\ i <= ProbeDistance(cap, e.key, At(arg.key))
        /\ ~Matches(e, arg.key, arg.key)
  /\ i' = i + 1
  /\ UNCHANGED <<table, pc, op, arg, carry, resizing, ret, owner>>

\* db_flush: ht_destroy frees every occupied entry, ht_create starts afresh.
Recreate ==
  /\ pc = "idle"
  /\ cap' = MinCap
  /\ slots' = EmptySlots(MinCap)
  /\ size' = 0
  /\ tombs' = 0
  /\ owner' = [v \in Values |->
                IF \E s \in Occupied(slots) : slots[s].val = v
                  THEN NoKey ELSE owner[v]]
  /\ UNCHANGED <<pc, op, arg, carry, i, resizing, ret>>

-----------------------------------------------------------------------------
Call ==
  \/ \E k \in Keys, v \in Values : SetCall(k, v)
  \/ \E k \in Keys : FindCall("get", k) \/ FindCall("delete", k)
  \/ Recreate

Step ==
  \/ SetInsert \/ SetUpdate \/ SetProbeOn
  \/ ResizeSkip \/ ResizeTake \/ MovePlace \/ MoveOn \/ ResizeDone
  \/ FindMiss \/ FindHit \/ DeleteHit \/ FindNext

Next == Call \/ Step

Spec == Init /\ [][Next]_vars

\* The thread that runs a call keeps running; nobody is obliged to call.
FairSpec == Spec /\ WF_vars(Step)

-----------------------------------------------------------------------------
(* Invariants                                                              *)

\* Every variable has its type, and the loop counters belong to their loops.
TypeOK ==
  /\ cap \in Caps
  /\ slots \in [0 .. cap - 1 -> Slot]
  /\ size \in Nat
  /\ tombs \in Nat
  /\ pc \in {"idle", "probe", "find", "resize", "move"}
  /\ op \in {"none", "set", "get", "delete"}
  /\ arg \in [key : Keys \cup {NoKey}, val : Values \cup {NoVal}]
  /\ carry \in Pair \cup {NoPair}
  /\ i \in Nat
  /\ \E n \in Caps \cup {0} : old \in [0 .. n - 1 -> Slot]
  /\ pos \in Nat
  /\ ret \in Values \cup {NoVal, 0, 1}
  /\ owner \in [Values -> Keys \cup {NoKey}]

\* size and tombstones are decremented and incremented in four places and
\* recounted by ht_resize; the load test of ht_set (and with it the end of
\* every probe loop) and the DBSIZE reply rest on them being the true counts.
Accounting ==
  /\ size = Cardinality(Occupied(slots))
  /\ tombs = Cardinality(Tombstones(slots))

\* None of the loops `for (i = 0; ; i++)` has a bound of its own: ht_set and
\* the inner loop of ht_resize stop at a free slot, ht_find stops at an empty
\* one.  So the array must never fill up with entries and tombstones, not
\* while growing and not right after shrinking.
RoomToProbe == \E s \in DOMAIN slots : slots[s].occ = 0

\* Where a live pair may be held between two steps: a slot, an entry of the
\* old array not reinserted yet, the local variables of the running loop, the
\* arguments of an ht_set that is still resizing.
Places ==
  ({"slot"} \X Occupied(slots))
    \cup ({"old"} \X {s \in Occupied(old) : s >= pos})
    \cup (IF pc \in {"probe", "move"} THEN {<<"carry", 0>>} ELSE {})
    \cup (IF op = "set" /\ pc \in {"resize", "move"} THEN {<<"arg", 0>>} ELSE {})

PairAt(p) ==
  CASE p[1] = "slot"  -> slots[p[2]]
    [] p[1] = "old"   -> old[p[2]]
    [] p[1] = "carry" -> carry
    [] p[1] = "arg"   -> arg

\* Every value that was handed to ht_set and not freed since is held in
\* exactly one place, next to the key it was set for: no leak, no double
\* free, no two keys sharing a value, through swaps and resizes.
Ownership ==
  /\ \A p \in Places : owner[PairAt(p).val] = PairAt(p).key
  /\ \A p, q \in Places : PairAt(p).val = PairAt(q).val => p = q
  /\ \A v \in Values : owner[v] # NoKey => \E p \in Places : PairAt(p).val = v

-----------------------------------------------------------------------------
(* Progress: what a running call has still to do, in numbers.              *)

\* The loops it has not left.
LoopsLeft ==
  CASE pc = "idle" -> 0 [] pc = "probe" -> 1 [] pc \in {"resize", "move"} -> 2
    [] pc = "find" -> 3

\* The old entries ht_resize has to place; one in the hand is half done.
OldLeft ==
  2 * Cardinality({s \in DOMAIN old : s >= pos}) + (IF pc = "move" THEN 1 ELSE 0)

\* The distances from home that no entry has reached: a swap puts an entry
\* into a slot that is farther from its home than the one taken out.
RoomToMove ==
  Cardinality({p \in (0 .. cap - 1) \X (0 .. cap - 1) :
                 LET e == slots[p[1]]
                 IN  e.occ = 1 => ProbeDistance(cap, e.key, p[1]) <= p[2]})

\* The slots to probe before one where the loop stops whatever key is there.
Sought   == IF pc = "find" THEN arg.key ELSE carry.key
Stops(e) == e.occ = 0 \/ (e.occ = 2 /\ pc = "probe")
Gap ==
  IF pc \notin {"probe", "find", "move"} THEN 0 ELSE
    LET Free == {n \in 0 .. cap - 1 : Stops(slots[ProbeIndex(cap, Sought, i + n)])}
    IN  CHOOSE n \in Free : \A m \in Free : n <= m

ToDo == <<LoopsLeft, OldLeft, RoomToMove, Gap>>

Ranks == Nat \X Nat \X Nat \X Nat
Below(a, b) == \E n \in 1 .. 4 : a[n] < b[n] /\ \A m \in 1 .. n - 1 : a[m] = b[m]

\* The loops of ht_set, ht_find and ht_resize have no bound of their own (`for
\* (i = 0; ; i++)`).  Every iteration leaves less to do: fewer loops, fewer old
\* entries, less room for swaps, or a free slot closer by.
EveryStepIsProgress ==
  [][pc # "idle" => ToDo \in Ranks /\ Below(ToDo', ToDo)]_vars

-----------------------------------------------------------------------------
(* Liveness                                                                *)

\* Every call returns: the swaps of a probe come to an end (each moves an
\* entry farther from its home) and then a free slot is reached.
CallReturns == (pc # "idle") ~> (pc = "idle")
=============================================================================
