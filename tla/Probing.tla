------------------------------- MODULE Probing -------------------------------
(***************************************************************************)
(* The slot array of src/src/hashtable.c and the arithmetic every table    *)
(* operation shares: where a probe looks next, how far an entry sits from  *)
(* its home slot, and when the array grows or shrinks.                     *)
(*                                                                         *)
(* A key is an opaque member of Keys; its FNV-1a hash is given by the      *)
(* constant Hash, so that an instance chooses which keys collide.  The     *)
(* cached e->hash always travels with e->key and is read as Hash[e.key].   *)
(* A value is the pointer the caller hands over (a db_entry_t).            *)
(***************************************************************************)
EXTENDS Integers, FiniteSets

CONSTANTS
  Keys,      \* the keys (char strings)
  Values,    \* the value pointers
  NoKey,     \* the NULL key pointer
  NoVal,     \* the NULL value pointer
  Hash,      \* ht_hash, as a function of the key
  MinCap,    \* HT_MIN_CAP = HT_INITIAL_CAP (64 in the code)
  Caps       \* the capacities memory allows (BOUND: finite for TLC)

ASSUME KeysAssumption == NoKey \notin Keys /\ NoVal \notin Values
ASSUME HashAssumption == Hash \in [Keys -> Nat]
ASSUME CapsAssumption ==
  /\ MinCap \in Caps
  /\ \A c \in Caps : c \in Nat /\ c >= MinCap
  /\ MinCap >= 2
  /\ \A c \in Caps : c > MinCap => c \div 2 \in Caps /\ 2 * (c \div 2) = c

-----------------------------------------------------------------------------
(* ht_entry_t.  occ is the field `occupied`: 0 empty, 1 occupied,          *)
(* 2 tombstone.                                                            *)
Entry(k, v) == [occ |-> 1, key |-> k, val |-> v]
EmptySlot   == [occ |-> 0, key |-> NoKey, val |-> NoVal]
Tombstone   == [occ |-> 2, key |-> NoKey, val |-> NoVal]

Slot ==
  [occ : {1}, key : Keys, val : Values] \cup {EmptySlot, Tombstone}

\* A key and the value that goes with it: what a probe loop carries around.
Pair == [key : Keys, val : Values]

EmptySlots(c) == [s \in 0 .. c - 1 |-> EmptySlot]

\* The array a with an entry, or a tombstone, in slot s.
With(a, s, k, v) == [a EXCEPT ![s] = Entry(k, v)]
Without(a, s)    == [a EXCEPT ![s] = Tombstone]

Occupied(a)   == {s \in DOMAIN a : a[s].occ = 1}
Tombstones(a) == {s \in DOMAIN a : a[s].occ = 2}

-----------------------------------------------------------------------------
(* The masks `& (capacity - 1)` of a power of two are `% capacity`.        *)
ProbeIndex(c, k, i) == (Hash[k] + i) % c

ProbeDistance(c, k, s) == ((s + c) - (Hash[k] % c)) % c

\* Fault: the comparison of the two distances is the wrong way round.
Richer(c, k, e, s) == ProbeDistance(c, k, s) < ProbeDistance(c, e.key, s)

\* The carried key k is farther from its home than the entry e in slot s.
Poorer(c, k, e, s) == ProbeDistance(c, k, s) > ProbeDistance(c, e.key, s)

\* hash equal and strcmp equal: h is the hash of the carried key, key the
\* argument of the call.
Matches(e, carried, key) == Hash[e.key] = Hash[carried] /\ e.key = key

\* Fault: the array only grows once it is full.
MustGrowWhenFull(c, used) == used >= c

\* ht_set resizes first when size + tombstones + 1 would pass HT_LOAD_HIGH.
MustGrow(c, used) == ((used + 1) * 100) \div c > 70

\* ht_delete shrinks afterwards below HT_LOAD_LOW.
MustShrink(c, sz) == c > MinCap /\ (sz * 100) \div c < 20

\* ht_resize never goes below HT_MIN_CAP.
ResizedCap(c) == IF c < MinCap THEN MinCap ELSE c
=============================================================================
