----------------------------- MODULE HashTableOps -----------------------------
(***************************************************************************)
(* src/src/hashtable.c with every call taken whole: ht_set, ht_find,       *)
(* ht_delete, ht_resize and ht_iter_next as operators on a table value.    *)
(* HashTable and DbOps are built from these; HashTableSteps, which runs    *)
(* the loops one iteration at a time, comes to the same (TableCalls).      *)
(***************************************************************************)
EXTENDS Probing, Sequences

Cleared(c) == [cap |-> c, slots |-> EmptySlots(c), size |-> 0, tombs |-> 0]
EmptyTable == Cleared(MinCap)

Put(t, s, k, v) == [t EXCEPT !.slots = With(@, s, k, v)]

\* A pair in a free slot, which may hold a tombstone where ht_set puts one.
Place(t, s, k, v)  == [Put(t, s, k, v) EXCEPT !.size = @ + 1]
Insert(t, s, k, v) ==
  [Place(t, s, k, v) EXCEPT !.tombs = @ - (IF t.slots[s].occ = 2 THEN 1 ELSE 0)]

\* The tables of capacity c with slots in S, and what a loop over one of them
\* holds: the table, the pair it carries and the probe counter.
Tables(c, S) == [cap : {c}, slots : [0 .. c - 1 -> S], size : Nat, tombs : Nat]
Loops(c, S)  == [t : Tables(c, S), k : Keys, v : Values, i : Nat]

Fresh == Slot \ {Tombstone}

Begin(t, k, v) == [t |-> t, k |-> k, v |-> v, i |-> 0]
Index(l)       == ProbeIndex(l.t.cap, l.k, l.i)

\* The end of an iteration: to the next slot, with the pair or, where that is
\* farther from its home, with the one it takes the place of.
Onward(l) ==
  LET s == Index(l)
      e == l.t.slots[s]
  IN  IF Poorer(l.t.cap, l.k, e, s)
        THEN [t |-> Put(l.t, s, l.k, l.v), k |-> e.key, v |-> e.val, i |-> l.i + 1]
        ELSE [l EXCEPT !.i = @ + 1]

\* The inner loop of ht_resize: place a pair in a table without tombstones.
Reinsertion(place, l) ==
  IF l.t.slots[Index(l)].occ = 0
    THEN Place(l.t, Index(l), l.k, l.v)
    ELSE place[Onward(l)]

Reinsert(t, k, v) ==
  LET place[l \in Loops(t.cap, Fresh)] == Reinsertion(place, l)
  IN  place[Begin(t, k, v)]

\* The outer loop: the occupied entries of the old array, in slot order.
Moved(t, e) == IF e.occ = 1 THEN Reinsert(t, e.key, e.val) ELSE t

\* Fault: the old array is walked from its second slot.
HtResizeFromOne(t, c) ==
  LET moved[n \in 0 .. t.cap] ==
        IF n <= 1 THEN Cleared(ResizedCap(c)) ELSE Moved(moved[n - 1], t.slots[n - 1])
  IN  moved[t.cap]

HtResize(t, c) ==
  LET moved[n \in 0 .. t.cap] ==
        IF n = 0 THEN Cleared(ResizedCap(c)) ELSE Moved(moved[n - 1], t.slots[n - 1])
  IN  moved[t.cap]

\* The loop of ht_set: [table, isNew] once a slot has taken the carried pair.
Setting(set, l, key) ==
  LET s == Index(l)
      e == l.t.slots[s]
  IN  IF e.occ # 1
        THEN [table |-> Insert(l.t, s, l.k, l.v), isNew |-> 1]
        ELSE IF Matches(e, l.k, key)
               THEN [table |-> Put(l.t, s, e.key, l.v), isNew |-> 0]
               ELSE set[Onward(l)]

SetLoop(t, k, v) ==
  LET set[l \in Loops(t.cap, Slot)] == Setting(set, l, k)
  IN  set[Begin(t, k, v)]

SetResult(t, k, v) ==
  SetLoop(IF MustGrow(t.cap, t.size + t.tombs) THEN HtResize(t, 2 * t.cap) ELSE t,
          k, v)

HtSet(t, k, v) == SetResult(t, k, v).table

\* Memory for the array ht_set may have to allocate (BOUND).
Fits(t) ==
  MustGrow(t.cap, t.size + t.tombs) => ResizedCap(2 * t.cap) \in Caps

\* Fault: the search ends at a tombstone too.
FindingEndsAtTombstone(find, t, k, i) ==
  LET s == ProbeIndex(t.cap, k, i)
      e == t.slots[s]
  IN  IF e.occ # 1 \/ i > ProbeDistance(t.cap, e.key, s) THEN -1
        ELSE IF Matches(e, k, k) THEN s
        ELSE find[i + 1]

\* ht_find: the slot that holds k, or -1.
Finding(find, t, k, i) ==
  LET s == ProbeIndex(t.cap, k, i)
      e == t.slots[s]
  IN  IF e.occ = 0 \/ (e.occ = 1 /\ i > ProbeDistance(t.cap, e.key, s)) THEN -1
        ELSE IF e.occ = 1 /\ Matches(e, k, k) THEN s
        ELSE find[i + 1]

HtFind(t, k) ==
  LET find[i \in Nat] == Finding(find, t, k, i)
  IN  find[0]

HtExists(t, k) == HtFind(t, k) # -1
HtGet(t, k) == IF HtExists(t, k) THEN t.slots[HtFind(t, k)].val ELSE NoVal

\* A tombstone in the place of an entry.
Bury(t, s) == [t EXCEPT !.slots = Without(@, s), !.size = @ - 1, !.tombs = @ + 1]

\* Fault: the two counters are swapped.
HtDeleteSwapped(t, k) ==
  IF ~HtExists(t, k)
    THEN t
    ELSE LET d == [t EXCEPT !.slots = Without(@, HtFind(t, k)),
                            !.size = @ + 1, !.tombs = @ - 1]
         IN  IF MustShrink(d.cap, d.size)
               THEN HtResize(d, d.cap \div 2) ELSE d

HtDelete(t, k) ==
  IF ~HtExists(t, k)
    THEN t
    ELSE LET d == Bury(t, HtFind(t, k))
         IN  IF MustShrink(d.cap, d.size)
               THEN HtResize(d, d.cap \div 2) ELSE d

\* ht_iter_next from index n on: the next occupied slot, or cap (the end).
HtNext(t, n) ==
  IF \E s \in Occupied(t.slots) : s >= n
    THEN CHOOSE s \in Occupied(t.slots) :
           s >= n /\ \A r \in Occupied(t.slots) : r >= n => s <= r
    ELSE t.cap
=============================================================================
