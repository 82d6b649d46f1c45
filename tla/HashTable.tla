------------------------------- MODULE HashTable -------------------------------
(***************************************************************************)
(* The hash table as its callers see it: one step per call of              *)
(* src/src/hashtable.c.                                                    *)
(***************************************************************************)
EXTENDS HashTableOps

VARIABLES
  ht,    \* the hashtable_t
  res    \* what the last call returned

htvars == <<ht, res>>

Live(t) == {t.slots[s].val : s \in Occupied(t.slots)}

HtInit ==
  /\ ht = EmptyTable
  /\ res = 0

\* ht_set: a new pointer v for key k; returns whether the key was new.
Set(k, v) ==
  /\ v \notin Live(ht)
  /\ Fits(ht)
  /\ ht' = SetResult(ht, k, v).table
  /\ res' = SetResult(ht, k, v).isNew

\* ht_get, ht_get_entry, ht_exists.
Get(k) ==
  /\ res' = HtGet(ht, k)
  /\ UNCHANGED ht

Delete(k) ==
  /\ res' = IF HtExists(ht, k) THEN 1 ELSE 0
  /\ ht' = HtDelete(ht, k)

\* db_flush: ht_destroy and ht_create.
Flush ==
  /\ ht' = EmptyTable
  /\ UNCHANGED res

HtNextState ==
  \/ \E k \in Keys, v \in Values : Set(k, v)
  \/ \E k \in Keys : Get(k) \/ Delete(k)
  \/ Flush

HtSpec == HtInit /\ [][HtNextState]_htvars

-----------------------------------------------------------------------------
\* The table is well formed.
HtTypeOK ==
  /\ DOMAIN ht = {"cap", "slots", "size", "tombs"}
  /\ ht.cap \in Caps
  /\ ht.slots \in [0 .. ht.cap - 1 -> Slot]
  /\ ht.size \in Nat /\ ht.tombs \in Nat
  /\ res \in Values \cup {NoVal, 0, 1}

\* Every entry that is stored can be found again: what Robin Hood probing
\* promises, and what GET, DEL and the expiry of a key rely on.
EveryEntryIsFound ==
  \A s \in Occupied(ht.slots) : HtExists(ht, ht.slots[s].key)

-----------------------------------------------------------------------------
\* What the table stands for: a finite map from keys to values.
Contents ==
  [k \in Keys |->
     IF \E s \in Occupied(ht.slots) : ht.slots[s].key = k
       THEN ht.slots[CHOOSE s \in Occupied(ht.slots) : ht.slots[s].key = k].val
       ELSE NoVal]

AsMap == INSTANCE Map WITH map <- Contents, res <- res

-----------------------------------------------------------------------------
\* With colliding homes the table is not always a map: an entry can end up
\* where ht_find does not look.  Each slot's entry is the one its key is found
\* at.
Findable(t) == \A s \in Occupied(t.slots) : HtFind(t, t.slots[s].key) = s

\* The table ht_set works on.
Grown(t) == IF MustGrow(t.cap, t.size + t.tombs) THEN HtResize(t, 2 * t.cap) ELSE t

\* A call on a table whose entries are all found does what it does to a map,
\* collisions, swaps, tombstones and resizes included, unless it leaves an entry
\* that is not found, or growing did (hashtable.c:97-107, :148-181).
MapUnlessLost ==
  [][Findable(ht) /\ Findable(ht')
       => \/ AsMap!Next
          \/ /\ ~Findable(Grown(ht))
             /\ \E k \in Keys, v \in Values : Set(k, v)]_htvars

\* An entry gets out of reach only by a call that moves an entry (a swap, a
\* resize) or puts one where a tombstone was: never by plain probing.
Stays(s) == ht'.slots[s].occ = 1 /\ ht'.slots[s].key = ht.slots[s].key
LossHasACause ==
  [][Findable(ht) /\ ~Findable(ht')
       => \/ ht'.cap # ht.cap
          \/ ht'.tombs < ht.tombs
          \/ \E s \in Occupied(ht.slots) : ht'.slots[s].occ = 1 /\ ~Stays(s)]_htvars
=============================================================================
