--------------------------- MODULE HashTableProofs ---------------------------
(***************************************************************************)
(* Theorems about the hash table, for every set of keys and values, every  *)
(* hash function and every chain of capacities: call by call (HashTable),  *)
(* and loop by loop (HashTableSteps), as two machines.                     *)
(***************************************************************************)
EXTENDS HashTable, TableCalls, TableProofs

-----------------------------------------------------------------------------
(* Call by call                                                            *)

HtInv ==
  /\ ht \in Good(Values) /\ ht.cap \in Caps
  /\ res \in Values \cup {NoVal, 0, 1}

LEMMA HtInvInit == HtInit => HtInv
  BY EmptyGood DEF HtInit, HtInv

LEMMA HtInvNext == HtInv /\ [HtNextState]_htvars => HtInv'
<1> SUFFICES ASSUME HtInv, [HtNextState]_htvars PROVE HtInv'
  OBVIOUS
<1> USE DEF HtInv
<1>1. ASSUME NEW k \in Keys, NEW v \in Values, Set(k, v) PROVE HtInv'
  <2> DEFINE r == SetResult(ht, k, v)
  <2>1. /\ r.table \in Good(Values) /\ r.isNew \in {0, 1}
        /\ r.table.cap = IF MustGrow(ht.cap, ht.size + ht.tombs)
                           THEN ResizedCap(2 * ht.cap) ELSE ht.cap
    BY SetGood
  <2>2. ht' = r.table /\ res' = r.isNew /\ Fits(ht)
    BY <1>1 DEF Set
  <2> HIDE DEF r
  <2> QED
    BY <2>1, <2>2 DEF Fits
<1>2. ASSUME NEW k \in Keys, Get(k) PROVE HtInv'
  <2>1. HtExists(ht, k) => HtGet(ht, k) \in Values
    BY FindGood
  <2>2. ~HtExists(ht, k) => HtGet(ht, k) = NoVal
    BY DEF HtGet
  <2> QED
    BY <1>2, <2>1, <2>2 DEF Get
<1>3. ASSUME NEW k \in Keys, Delete(k) PROVE HtInv'
  BY <1>3, DeleteGood DEF Delete
<1>4. CASE Flush
  BY <1>4, EmptyGood DEF Flush
<1>5. CASE UNCHANGED htvars
  BY <1>5 DEF htvars
<1> QED
  BY <1>1, <1>2, <1>3, <1>4, <1>5 DEF HtNextState

LEMMA HtInvariance == HtSpec => []HtInv
  BY HtInvInit, HtInvNext, PTL DEF HtSpec

\* After every call of hashtable.h the table is an array of one of the sizes
\* that memory allows, of slots that are free, tombstones or entries.
THEOREM TableStaysWellFormed == HtSpec => []HtTypeOK
<1>1. HtInv => HtTypeOK
  <2> SUFFICES ASSUME HtInv PROVE HtTypeOK
    OBVIOUS
  <2>1. /\ ht \in Tables(ht.cap, Slot) /\ ht.slots \in [0 .. ht.cap - 1 -> Slot]
        /\ ht.size \in Nat /\ ht.tombs \in Nat
    BY GoodFields DEF HtInv
  <2>2. DOMAIN ht = {"cap", "slots", "size", "tombs"}
    BY <2>1 DEF Tables
  <2> QED
    BY <2>1, <2>2 DEF HtInv, HtTypeOK
<1> QED
  BY <1>1, HtInvariance, PTL

-----------------------------------------------------------------------------
(* The table is a map, unless it loses an entry                            *)

\* The table ht_set works on holds the same pairs.
LEMMA GrownHolds ==
  ASSUME NEW t \in Good(Values)
  PROVE  LET g == Grown(t)
         IN  /\ g.cap \in Nat /\ g.cap > 0 /\ g \in Sound(g.cap, Slot, Values)
             /\ g.size < g.cap /\ g.size + g.tombs < g.cap
             /\ PairsOf(g.slots) = PairsOf(t.slots)
             /\ \A k, v : SetResult(t, k, v) = SetLoop(g, k, v)
<1> DEFINE c == t.cap
           d == ResizedCap(2 * c)
           g == Grown(t)
<1>1. /\ c \in Nat /\ c > 1 /\ c >= MinCap /\ t \in Sound(c, Slot, Values)
      /\ t.size \in Nat /\ t.tombs \in Nat /\ t.size < c /\ t.size + t.tombs < c
      /\ MinCap \in Nat
  BY GoodFields, CapsAssumption
<1>2. \A k, v : SetResult(t, k, v) = SetLoop(g, k, v)
  BY DEF SetResult, Grown
<1>3. CASE MustGrow(c, t.size + t.tombs)
  <2>1. d \in Nat /\ d > 0 /\ t.size < d
    BY <1>1 DEF ResizedCap
  <2>2. g = HtResize(t, 2 * c)
    BY <1>3 DEF Grown
  <2>3. g \in Sound(d, Slot, Values) /\ g.size = t.size /\ g.tombs = 0
    BY <1>1, <2>1, <2>2, ResizeSound
  <2>4. PairsOf(g.slots) = PairsOf(t.slots)
    BY <1>1, <2>1, <2>2, ResizePairs
  <2> HIDE DEF c, d, g
  <2>5. g.cap = d
    BY <2>1, <2>3, SoundFields
  <2> QED
    BY <1>1, <1>2, <2>1, <2>3, <2>4, <2>5 DEF g
<1>4. CASE ~MustGrow(c, t.size + t.tombs)
  <2>1. g = t
    BY <1>4 DEF Grown
  <2> QED
    BY <1>1, <1>2, <2>1
<1> QED
  BY <1>3, <1>4

\* ht_set, where it leaves one entry for each key.
LEMMA SetPairs ==
  ASSUME HashesDiffer, NEW t \in Good(Values), Findable(Grown(t)),
         NEW k \in Keys, NEW v \in Values, OnePerKey(SetResult(t, k, v).table.slots)
  PROVE  LET r == SetResult(t, k, v)
             P == PairsOf(t.slots)
             Q == PairsOf(r.table.slots)
         IN  /\ r.isNew = IF \E w : <<k, w>> \in P THEN 0 ELSE 1
             /\ <<k, v>> \in Q
             /\ \A j, w : j # k => (<<j, w>> \in Q <=> <<j, w>> \in P)
<1> DEFINE g == Grown(t)
           r == SetResult(t, k, v)
           a == g.slots
           b == r.table.slots
           c == g.cap
<1>1. /\ c \in Nat /\ c > 0 /\ g \in Sound(c, Slot, Values)
      /\ g.size < c /\ g.size + g.tombs < c
      /\ PairsOf(a) = PairsOf(t.slots) /\ r = SetLoop(g, k, v)
  BY GrownHolds
<1>2. a \in [0 .. c - 1 -> Slot] /\ OnePerKey(b) /\ Findable(g)
  BY <1>1, SoundFields
<1>3. OnePerKey(a)
  BY <1>2 DEF Findable, OnePerKey
<1> HIDE DEF g, r, c
<1>4. /\ (\E w : <<k, w>> \in PairsOf(a)) <=> \E s \in Occupied(a) : a[s].key = k
      /\ Occupied(a) \subseteq 0 .. c - 1
  <2> HIDE DEF a, b
  <2>1. (\E w : <<k, w>> \in PairsOf(a)) <=> \E s \in Occupied(a) : a[s].key = k
    BY DEF PairsOf
  <2>2. Occupied(a) \subseteq 0 .. c - 1
    BY <1>2 DEF Occupied
  <2> QED
    BY <2>1, <2>2
<1>5. CASE \A s \in Occupied(a) : a[s].key # k
  <2>1. LET x == SetLoop(g, k, v)
        IN  x.isNew = 1 /\ PairsOf(x.table.slots) = PairsOf(g.slots) \cup {<<k, v>>}
    BY <1>1, <1>3, <1>5, SetNewKey
  <2>3. r.isNew = 1 /\ PairsOf(b) = PairsOf(a) \cup {<<k, v>>}
    BY <1>1, <2>1
  <2> HIDE DEF a, b
  <2>2. \A j, w : j # k => (<<j, w>> \in PairsOf(b) <=> <<j, w>> \in PairsOf(a))
    BY <2>3
  <2> QED
    BY <1>1, <1>4, <1>5, <2>2, <2>3 DEF r, b
<1>6. CASE \E s \in Occupied(a) : a[s].key = k
  <2>1. PICK q \in Occupied(a) : a[q].key = k
    BY <1>6
  <2>2. HtFind(g, k) = q /\ q \in 0 .. c - 1
    BY <1>2, <1>4, <2>1 DEF Findable
  <2>3. HtFind(g, k) # -1
    BY <1>1, <2>2
  <2>4. /\ a[q].occ = 1
        /\ \/ r.isNew = 0 /\ b = With(a, q, k, v)
           \/ \E u \in 0 .. c - 1 : u # q /\ b = With(a, u, k, v)
    BY <1>1, <2>2, <2>3, SetFoundKey
  <2>5. ASSUME NEW u \in 0 .. c - 1, u # q, b = With(a, u, k, v) PROVE FALSE
    <3>1. b[u].key = k /\ b[q] = a[q]
      <4>1. b[u] = Entry(k, v) /\ b[q] = a[q]
        BY <1>2, <2>2, <2>5 DEF With
      <4> QED
        BY <4>1 DEF Entry
    <3>2. u \in Occupied(b) /\ q \in Occupied(b)
      <4>1. Occupied(b) = Occupied(a) \cup {u}
        BY <1>1, <1>2, <2>5, Stored
      <4> QED
        BY <2>1, <4>1
    <3> QED
      BY <1>2, <2>1, <2>5, <3>1, <3>2 DEF OnePerKey
  <2>6. r.isNew = 0 /\ b = With(a, q, k, v)
    BY <2>4, <2>5
  <2>7. PairsOf(b) \cup {<<k, a[q].val>>} = PairsOf(a) \cup {<<k, v>>}
    <3> HIDE DEF a, b
    <3>0. c \in Nat /\ a \in [0 .. c - 1 -> Slot] /\ q \in 0 .. c - 1
      BY <1>1, <1>2, <2>2
    <3>1. a[q].occ = 1 => PairsOf(With(a, q, k, v)) \cup {<<a[q].key, a[q].val>>}
                            = PairsOf(a) \cup {<<k, v>>}
      BY <3>0, PairsStored
    <3> QED
      BY <2>1, <2>4, <2>6, <3>1
  <2>8. <<k, v>> \in PairsOf(b)
    <3>1. Occupied(b) = Occupied(a) \cup {q}
      BY <1>1, <1>2, <2>2, <2>6, Stored
    <3>2. b[q].key = k /\ b[q].val = v
      <4>1. b[q] = Entry(k, v)
        BY <1>2, <2>2, <2>6 DEF With
      <4> QED
        BY <4>1 DEF Entry
    <3> QED
      BY <3>1, <3>2 DEF PairsOf
  <2> HIDE DEF a, b
  <2>9. \A j, w : j # k => (<<j, w>> \in PairsOf(b) <=> <<j, w>> \in PairsOf(a))
    BY <2>7
  <2> QED
    BY <1>1, <1>4, <1>6, <2>6, <2>8, <2>9 DEF r, b
<1> QED
  BY <1>5, <1>6

\* ht_delete.
LEMMA DeletePairs ==
  ASSUME NEW t \in Good(Values), Findable(t), NEW k \in Keys
  PROVE  LET P == PairsOf(t.slots)
             Q == PairsOf(HtDelete(t, k).slots)
         IN  /\ HtExists(t, k) <=> \E w : <<k, w>> \in P
             /\ \A j, w : <<j, w>> \in Q <=> j # k /\ <<j, w>> \in P
<1> DEFINE a == t.slots
           c == t.cap
           s == HtFind(t, k)
           d == Bury(t, s)
<1>1. /\ c \in Nat /\ c > 1 /\ c >= MinCap /\ t \in Sound(c, Slot, Values)
      /\ a \in [0 .. c - 1 -> Slot]
      /\ t.size \in Nat /\ t.size < c /\ MinCap \in Nat /\ MinCap >= 2
  BY GoodFields, CapsAssumption
<1>2. /\ \A j, w : <<j, w>> \in PairsOf(a) <=>
                     \E r \in Occupied(a) : a[r].key = j /\ a[r].val = w
      /\ Occupied(a) \subseteq 0 .. c - 1
  <2> HIDE DEF a, c, s, d
  <2>1. \A j, w : <<j, w>> \in PairsOf(a) <=>
                     \E r \in Occupied(a) : a[r].key = j /\ a[r].val = w
    BY DEF PairsOf
  <2>2. Occupied(a) \subseteq 0 .. c - 1
    BY <1>1 DEF Occupied
  <2> QED
    BY <2>1, <2>2
<1>3. \A r \in Occupied(a) : a[r].key = k => s = r
  BY DEF Findable
<1>4. HtExists(t, k) => s \in 0 .. c - 1 /\ s \in Occupied(a) /\ a[s].occ = 1 /\ a[s].key = k
  BY <1>1, FindGood DEF Occupied
<1>5. HtExists(t, k) <=> \E r \in Occupied(a) : a[r].key = k
  <2>1. ASSUME NEW r \in Occupied(a), a[r].key = k PROVE HtExists(t, k)
    <3>1. r # -1
      BY <1>1, <1>2
    <3> QED
      BY <1>3, <2>1, <3>1 DEF HtExists
  <2> QED
    BY <1>4, <2>1
<1>6. HtExists(t, k) <=> \E w : <<k, w>> \in PairsOf(a)
  BY <1>2, <1>5
<1>7. CASE ~HtExists(t, k)
  <2>1. HtDelete(t, k) = t
    BY <1>7 DEF HtDelete
  <2> QED
    BY <1>6, <1>7, <2>1
<1>8. CASE HtExists(t, k)
  <2> DEFINE b == Without(a, s)
  <2>1. d \in Sound(c, Slot, Values) /\ d.slots = b /\ d.size = t.size - 1
    BY <1>1, <1>4, <1>8, BuriedSound
  <2>2. /\ b \in [0 .. c - 1 -> Slot] /\ Occupied(b) = Occupied(a) \ {s}
        /\ \A r \in 0 .. c - 1 : r # s => b[r] = a[r]
    BY <1>1, <1>4, <1>8, Buried DEF Without
  <2>3. HtDelete(t, k) = IF MustShrink(d.cap, d.size) THEN HtResize(d, d.cap \div 2) ELSE d
    BY <1>8 DEF HtDelete
  <2>4. \A j, w : <<j, w>> \in PairsOf(b) <=>
                    \E r \in Occupied(b) : b[r].key = j /\ b[r].val = w
    <3> HIDE DEF b
    <3> QED
      BY DEF PairsOf
  <2> HIDE DEF b, s, a
  <2>5. ASSUME NEW j, NEW w
        PROVE  <<j, w>> \in PairsOf(b) <=> j # k /\ <<j, w>> \in PairsOf(a)
    <3>1. \A r \in Occupied(a) : r # s <=> a[r].key # k
      BY <1>3, <1>4, <1>8
    <3> QED
      BY <1>2, <2>2, <2>4, <3>1
  <2>6. PairsOf(HtDelete(t, k).slots) = PairsOf(b)
    <3>1. CASE ~MustShrink(d.cap, d.size)
      BY <2>1, <2>3, <3>1
    <3>2. CASE MustShrink(d.cap, d.size)
      <4> DEFINE h == d.cap \div 2
                 e == ResizedCap(h)
      <4>1. d.cap = c /\ d.size \in Nat
        BY <1>1, <2>1, SoundFields
      <4>2. d.size * 100 < 20 * c
        BY <1>1, <3>2, <4>1, ShrinkLoad
      <4>3. h \in Nat /\ c <= 2 * h + 1
        BY <1>1, <4>1
      <4> HIDE DEF h
      <4>4. e \in Nat /\ e > 0 /\ e >= h
        BY <1>1, <4>3 DEF ResizedCap
      <4>5. d.size <= e
        <5> HIDE DEF e
        <5> QED
          BY <1>1, <4>1, <4>2, <4>3, <4>4
      <4>6. PairsOf(HtResize(d, h).slots) = PairsOf(d.slots)
        BY <1>1, <2>1, <4>4, <4>5, ResizePairs
      <4> QED
        BY <2>1, <2>3, <3>2, <4>6 DEF h
    <3> QED
      BY <3>1, <3>2
  <2> QED
    BY <1>6, <2>5, <2>6 DEF a
<1> QED
  BY <1>7, <1>8

\* What the table stands for, in terms of its pairs.
ContentsOf(t) ==
  [k \in Keys |->
     IF \E s \in Occupied(t.slots) : t.slots[s].key = k
       THEN t.slots[CHOOSE s \in Occupied(t.slots) : t.slots[s].key = k].val
       ELSE NoVal]

LEMMA ContentsAre ==
  ASSUME NEW t \in Good(Values), OnePerKey(t.slots), NEW k \in Keys
  PROVE  /\ \A w : <<k, w>> \in PairsOf(t.slots) => w \in Values /\ ContentsOf(t)[k] = w
         /\ (~\E w : <<k, w>> \in PairsOf(t.slots)) => ContentsOf(t)[k] = NoVal
<1> DEFINE a == t.slots
           c == t.cap
           at == CHOOSE s \in Occupied(a) : a[s].key = k
<1>1. c \in Nat /\ a \in [0 .. c - 1 -> Slot]
  BY GoodFields
<1>2. /\ \A w : <<k, w>> \in PairsOf(a) <=>
                  \E s \in Occupied(a) : a[s].key = k /\ a[s].val = w
      /\ (\E w : <<k, w>> \in PairsOf(a)) <=> \E s \in Occupied(a) : a[s].key = k
      /\ \A s \in Occupied(a) : a[s].val \in Values
  <2> HIDE DEF a, c, at
  <2>1. \A w : <<k, w>> \in PairsOf(a) <=>
                  \E s \in Occupied(a) : a[s].key = k /\ a[s].val = w
    BY DEF PairsOf
  <2>2. (\E w : <<k, w>> \in PairsOf(a)) <=> \E s \in Occupied(a) : a[s].key = k
    BY <2>1
  <2>3. \A s \in Occupied(a) : s \in 0 .. c - 1
    BY <1>1 DEF Occupied
  <2>4. \A s \in Occupied(a) : a[s].val \in Values
    BY <1>1, <2>3, SlotFields DEF Occupied
  <2> QED
    BY <2>1, <2>2, <2>4
<1>3. ContentsOf(t)[k] = IF \E s \in Occupied(a) : a[s].key = k THEN a[at].val ELSE NoVal
  BY DEF ContentsOf
<1>4. ASSUME NEW s \in Occupied(a), a[s].key = k PROVE at = s
  <2>1. at \in Occupied(a) /\ a[at].key = k
    BY <1>4
  <2> QED
    BY <1>4, <2>1 DEF OnePerKey
<1> HIDE DEF at, a
<1>5. \A w : <<k, w>> \in PairsOf(a) => w \in Values /\ ContentsOf(t)[k] = w
  BY <1>2, <1>3, <1>4
<1>6. (~\E w : <<k, w>> \in PairsOf(a)) => ContentsOf(t)[k] = NoVal
  BY <1>2, <1>3
<1> QED
  BY <1>5, <1>6 DEF a

\* Contents before and after, from the pairs.
LEMMA Seen ==
  ASSUME NEW t \in Good(Values), NEW u \in Good(Values), OnePerKey(t.slots),
         OnePerKey(u.slots), NEW k \in Keys, NEW v,
         \A j, w : j # k => (<<j, w>> \in PairsOf(u.slots) <=> <<j, w>> \in PairsOf(t.slots)),
         IF v = NoVal THEN ~\E w : <<k, w>> \in PairsOf(u.slots)
                      ELSE <<k, v>> \in PairsOf(u.slots)
  PROVE  /\ ContentsOf(u) = [ContentsOf(t) EXCEPT ![k] = v]
         /\ (\E w : <<k, w>> \in PairsOf(t.slots)) <=> ContentsOf(t)[k] # NoVal
<1>1. \A j \in Keys :
        /\ \A w : <<j, w>> \in PairsOf(t.slots) => w \in Values /\ ContentsOf(t)[j] = w
        /\ (~\E w : <<j, w>> \in PairsOf(t.slots)) => ContentsOf(t)[j] = NoVal
  BY ContentsAre
<1>2. \A j \in Keys :
        /\ \A w : <<j, w>> \in PairsOf(u.slots) => w \in Values /\ ContentsOf(u)[j] = w
        /\ (~\E w : <<j, w>> \in PairsOf(u.slots)) => ContentsOf(u)[j] = NoVal
  BY ContentsAre
<1>3. \A j \in Keys : ContentsOf(u)[j] = IF j = k THEN v ELSE ContentsOf(t)[j]
  <2> TAKE j \in Keys
  <2>1. CASE j = k
    BY <1>2, <2>1
  <2>2. CASE j # k
    BY <1>1, <1>2, <2>2
  <2> QED
    BY <2>1, <2>2
<1>4. /\ ContentsOf(t) = [j \in Keys |-> ContentsOf(t)[j]]
      /\ ContentsOf(u) = [j \in Keys |-> ContentsOf(u)[j]]
  BY DEF ContentsOf
<1>5. ContentsOf(u) = [ContentsOf(t) EXCEPT ![k] = v]
  BY <1>3, <1>4
<1>6. (\E w : <<k, w>> \in PairsOf(t.slots)) <=> ContentsOf(t)[k] # NoVal
  BY <1>1, KeysAssumption
<1> QED
  BY <1>5, <1>6

LEMMA MapStep ==
  ASSUME HashesDiffer, HtInv, HtNextState, Findable(ht), Findable(ht')
  PROVE  \/ AsMap!Next
         \/ /\ ~Findable(Grown(ht))
            /\ \E k \in Keys, v \in Values : Set(k, v)
<1>1. HtInv' /\ ht \in Good(Values) /\ ht' \in Good(Values)
  BY HtInvNext DEF HtInv
<1>2. OnePerKey(ht.slots) /\ OnePerKey(ht'.slots)
  BY DEF Findable, OnePerKey
<1>3. Contents = ContentsOf(ht) /\ Contents' = ContentsOf(ht')
  BY DEF Contents, ContentsOf
<1> DEFINE P == PairsOf(ht.slots)
           Q == PairsOf(ht'.slots)
<1>4. ASSUME NEW k \in Keys, NEW v \in Values, Set(k, v), Findable(Grown(ht))
      PROVE  AsMap!Set(k, v)
  <2> DEFINE r == SetResult(ht, k, v)
  <2>1. ht' = r.table /\ res' = r.isNew
    BY <1>4 DEF Set
  <2>2. /\ r.isNew = IF \E w : <<k, w>> \in P THEN 0 ELSE 1
        /\ <<k, v>> \in Q
        /\ \A j, w : j # k => (<<j, w>> \in Q <=> <<j, w>> \in P)
    BY <1>1, <1>2, <1>4, <2>1, SetPairs
  <2> HIDE DEF r
  <2>3. v # NoVal
    BY KeysAssumption
  <2>4. /\ ContentsOf(ht') = [ContentsOf(ht) EXCEPT ![k] = v]
        /\ (\E w : <<k, w>> \in P) <=> ContentsOf(ht)[k] # NoVal
    BY <1>1, <1>2, <2>2, <2>3, Seen
  <2> QED
    BY <1>3, <2>1, <2>2, <2>4 DEF AsMap!Set, AsMap!Present
<1>5. ASSUME NEW k \in Keys, Delete(k) PROVE AsMap!Delete(k)
  <2>1. ht' = HtDelete(ht, k) /\ res' = IF HtExists(ht, k) THEN 1 ELSE 0
    BY <1>5 DEF Delete
  <2>2. /\ HtExists(ht, k) <=> \E w : <<k, w>> \in P
        /\ \A j, w : <<j, w>> \in Q <=> j # k /\ <<j, w>> \in P
    BY <1>1, <2>1, DeletePairs
  <2>3. /\ ContentsOf(ht') = [ContentsOf(ht) EXCEPT ![k] = NoVal]
        /\ (\E w : <<k, w>> \in P) <=> ContentsOf(ht)[k] # NoVal
    BY <1>1, <1>2, <2>2, Seen
  <2> QED
    BY <1>3, <2>1, <2>2, <2>3 DEF AsMap!Delete, AsMap!Present
<1>6. ASSUME NEW k \in Keys, Get(k) PROVE AsMap!Get(k)
  <2>1. ht' = ht /\ res' = HtGet(ht, k)
    BY <1>6 DEF Get
  <2>2. HtExists(ht, k) <=> \E w : <<k, w>> \in P
    BY <1>1, DeletePairs
  <2>3. ContentsOf(ht)[k] = HtGet(ht, k)
    <3>1. CASE ~HtExists(ht, k)
      BY <1>1, <1>2, <2>2, <3>1, ContentsAre DEF HtGet
    <3>2. CASE HtExists(ht, k)
      <4>1. /\ HtFind(ht, k) \in 0 .. ht.cap - 1
            /\ ht.slots[HtFind(ht, k)].occ = 1 /\ ht.slots[HtFind(ht, k)].key = k
            /\ HtGet(ht, k) = ht.slots[HtFind(ht, k)].val
            /\ ht.slots \in [0 .. ht.cap - 1 -> Slot]
        BY <1>1, <3>2, FindGood, GoodFields
      <4>2. HtFind(ht, k) \in Occupied(ht.slots)
        BY <4>1 DEF Occupied
      <4>3. <<k, HtGet(ht, k)>> \in P
        BY <4>1, <4>2 DEF PairsOf
      <4> QED
        BY <1>1, <1>2, <4>3, ContentsAre
    <3> QED
      BY <3>1, <3>2
  <2>4. Contents' = Contents
    BY <1>3, <2>1
  <2> QED
    BY <1>3, <2>1, <2>3, <2>4 DEF AsMap!Get
<1>7. ASSUME Flush PROVE AsMap!Flush
  <2>1. Occupied(ht'.slots) = {}
    BY <1>7, Zeroed, CapsAssumption DEF Flush, EmptyTable, Cleared
  <2>2. ContentsOf(ht') = [k \in Keys |-> NoVal]
    BY <2>1 DEF ContentsOf
  <2> QED
    BY <1>3, <1>7, <2>2 DEF Flush, AsMap!Flush
<1> QED
  BY <1>4, <1>5, <1>6, <1>7 DEF HtNextState, AsMap!Next

\* hashtable.h promises a map.  Robin Hood probing with swaps that carry the
\* wrong counter can put an entry where ht_find does not look
\* (hashtable.c:97-107), and that is all that is wrong with it: for every hash
\* that tells the keys apart, whichever of them share home slots, a call that
\* starts from and ends with a table whose entries are all found, the one that
\* growing leads to included, does exactly what it does to a map.
THEOREM MapButForLosses ==
  ASSUME HashesDiffer
  PROVE  HtSpec => MapUnlessLost
<1>1. HtInv /\ HtInv' /\ [HtNextState]_htvars =>
        [Findable(ht) /\ Findable(ht')
           => \/ AsMap!Next
              \/ /\ ~Findable(Grown(ht))
                 /\ \E k \in Keys, v \in Values : Set(k, v)]_htvars
  BY MapStep
<1> QED
  BY <1>1, HtInvariance, PTL DEF HtSpec, MapUnlessLost

-----------------------------------------------------------------------------
(* Loop by loop                                                            *)
(*                                                                         *)
(* RoomToProbe is not inductive: ht_resize empties the counters and fills  *)
(* them again, and what keeps the new array from filling up is what is     *)
(* still on its way into it.  Load counts that too.                        *)

\* The old entries that ht_resize has not taken yet.
Waiting == WaitingFrom(old, pos)

\* The used slots, with every pair that is still to get one.
Load == ((size + tombs) + Cardinality(Waiting))
          + ((IF pc = "move" THEN 1 ELSE 0) + (IF op = "set" THEN 1 ELSE 0))

\* Load stays below the share HT_LOAD_HIGH (as ht_set rounds it) of the array.
LoadBounded == Load * 100 < 71 * cap

\* What the local variables of the running loop hold.
Phases ==
  /\ pc = "idle" => op = "none"
  /\ pc = "probe" => op = "set"
  /\ pc = "find" => op \in {"get", "delete"} /\ arg.key \in Keys
  /\ pc \in {"resize", "move"} => op \in {"set", "delete"} /\ tombs = 0
  /\ pc \notin {"resize", "move"} => old = EmptySlots(0) /\ pos = 0
  /\ op = "set" => arg \in Pair
  /\ pc \in {"probe", "move"} => carry \in Pair

IInv == TypeOK /\ Phases /\ Accounting /\ LoadBounded

\* Outside ht_resize there is no old array.
LEMMA NoneWaiting ==
  /\ EmptySlots(0) \in [0 .. 0 - 1 -> Slot]
  /\ Cardinality(WaitingFrom(EmptySlots(0), 0)) = 0
<1>1. EmptySlots(0) \in [0 .. 0 - 1 -> Slot]
  BY Zeroed
<1>2. 0 \notin DOMAIN EmptySlots(0)
  BY <1>1
<1> QED
  BY <1>1, <1>2, WaitingCounts

-----------------------------------------------------------------------------
(* What the invariant says about the running step                          *)

LEMMA Facts ==
  ASSUME IInv
  PROVE  /\ cap \in Caps /\ cap \in Nat /\ cap >= 2
         /\ slots \in [0 .. cap - 1 -> Slot]
         /\ size \in Nat /\ tombs \in Nat /\ i \in Nat /\ pos \in Nat
         /\ size = Cardinality(Occupied(slots))
         /\ tombs = Cardinality(Tombstones(slots))
         /\ Cardinality(Waiting) \in Nat
         /\ Load \in Nat /\ Load * 100 < 71 * cap
         /\ pc \notin {"resize", "move"} => Cardinality(Waiting) = 0
<1>1. /\ cap \in Caps /\ slots \in [0 .. cap - 1 -> Slot]
      /\ size \in Nat /\ tombs \in Nat /\ i \in Nat /\ pos \in Nat
  BY DEF IInv, TypeOK
<1>2. cap \in Nat /\ cap >= 2
  BY <1>1, CapsAssumption
<1>3. size = Cardinality(Occupied(slots)) /\ tombs = Cardinality(Tombstones(slots))
  BY DEF IInv, Accounting
<1>4. Cardinality(Waiting) \in Nat
  <2>1. PICK n \in Caps \cup {0} : old \in [0 .. n - 1 -> Slot]
    BY DEF IInv, TypeOK
  <2>2. n \in Nat
    BY CapsAssumption
  <2> QED
    BY <1>1, <2>1, <2>2, WaitingCounts DEF Waiting
<1>5. pc \notin {"resize", "move"} => Cardinality(Waiting) = 0
  BY NoneWaiting DEF IInv, Phases, Waiting
<1>6. Load \in Nat /\ Load * 100 < 71 * cap
  BY <1>1, <1>4 DEF IInv, LoadBounded, Load
<1> QED
  BY <1>1, <1>2, <1>3, <1>4, <1>5, <1>6

\* The slot a loop looks at.
LEMMA LookedAt ==
  ASSUME IInv, NEW k \in Keys
  PROVE  At(k) \in 0 .. cap - 1 /\ slots[At(k)] \in Slot
<1>1. At(k) \in 0 .. cap - 1
  <2>1. cap \in Nat /\ cap > 0 /\ i \in Nat
    BY Facts
  <2> QED
    BY <2>1, ProbeInArray DEF At
<1> QED
  BY <1>1, Facts

-----------------------------------------------------------------------------
(* One lemma per action                                                    *)

LEMMA SetCallStep ==
  ASSUME IInv, NEW k \in Keys, NEW v \in Values, SetCall(k, v)
  PROVE  IInv'
<1>1. pc = "idle" /\ op = "none"
  BY DEF SetCall, IInv, Phases
<1>2. (size + tombs) * 100 < 71 * cap
  BY <1>1, Facts DEF Load
<1>3. /\ op' = "set" /\ arg' = [key |-> k, val |-> v] /\ ret' = ret
      /\ owner' = [owner EXCEPT ![v] = k]
      /\ arg' \in Pair
  BY DEF SetCall, Pair
<1>4. CASE /\ MustGrow(cap, size + tombs)
           /\ ResizedCap(2 * cap) \in Caps
           /\ BeginResize(2 * cap)
           /\ UNCHANGED <<carry, i>>
  <2>1. ResizedCap(2 * cap) = 2 * cap /\ 2 * cap \in Nat
    BY Facts, CapsAssumption DEF ResizedCap
  <2>2. /\ old' = slots /\ pos' = 0 /\ cap' = 2 * cap /\ cap' \in Caps
        /\ slots' = EmptySlots(2 * cap)
        /\ size' = 0 /\ tombs' = 0 /\ pc' = "resize" /\ carry' = carry /\ i' = i
    BY <1>4, <2>1 DEF BeginResize
  <2>3. /\ slots' \in [0 .. cap' - 1 -> Slot]
        /\ Cardinality(Occupied(slots')) = 0 /\ Cardinality(Tombstones(slots')) = 0
    BY <2>1, <2>2, Zeroed
  <2>4. TypeOK'
    BY <1>3, <2>2, <2>3, Facts DEF IInv, TypeOK, Pair
  <2>5. Phases'
    BY <1>3, <2>2 DEF Phases
  <2>6. Accounting'
    BY <2>2, <2>3 DEF Accounting
  <2>7. Cardinality(Waiting') = size
    BY <2>2, Facts, WaitingCounts DEF Waiting
  <2>8. Load' = size + 1
    BY <1>3, <2>2, <2>7, Facts DEF Load
  <2>9. (size + 1) * 100 < 71 * (2 * cap)
    BY <1>2, Facts
  <2>10. LoadBounded'
    BY <2>2, <2>8, <2>9 DEF LoadBounded
  <2> QED
    BY <2>4, <2>5, <2>6, <2>10 DEF IInv
<1>5. CASE /\ ~MustGrow(cap, size + tombs)
           /\ BeginProbe(arg')
           /\ UNCHANGED <<table, resizing>>
  <2>1. /\ carry' = arg' /\ i' = 0 /\ pc' = "probe"
        /\ cap' = cap /\ slots' = slots /\ size' = size /\ tombs' = tombs
        /\ old' = old /\ pos' = pos
    BY <1>5 DEF BeginProbe, table, resizing
  <2>2. TypeOK'
    BY <1>3, <2>1 DEF IInv, TypeOK, Pair
  <2>3. Phases'
    BY <1>1, <1>3, <2>1 DEF IInv, Phases
  <2>4. Accounting'
    BY <2>1 DEF IInv, Accounting
  <2>5. Cardinality(Waiting') = 0
    BY <1>1, <2>1, Facts DEF Waiting
  <2>6. ((size + tombs) + 1) * 100 < 71 * cap
    <3>1. cap \in Nat /\ cap > 0 /\ size + tombs \in Nat
      BY Facts
    <3>2. MustGrow(cap, size + tombs) <=> ((size + tombs) + 1) * 100 >= 71 * cap
      BY <3>1, GrowTest
    <3> QED
      BY <1>5, <3>1, <3>2
  <2>7. Load' = (size + tombs) + 1
    BY <1>3, <2>1, <2>5, Facts DEF Load
  <2>8. LoadBounded'
    BY <2>1, <2>6, <2>7 DEF LoadBounded
  <2> QED
    BY <2>2, <2>3, <2>4, <2>8 DEF IInv
<1> QED
  BY <1>4, <1>5 DEF SetCall

LEMMA SetInsertStep ==
  ASSUME IInv, SetInsert
  PROVE  IInv'
<1> DEFINE s == At(carry.key)
<1>1. /\ pc = "probe" /\ op = "set" /\ carry \in Pair
      /\ carry.key \in Keys /\ carry.val \in Values
  BY DEF SetInsert, IInv, Phases, Pair
<1>2. s \in 0 .. cap - 1 /\ slots[s] \in Slot /\ slots[s].occ # 1
  BY <1>1, LookedAt DEF SetInsert
<1>3. /\ tombs' = tombs - (IF slots[s].occ = 2 THEN 1 ELSE 0)
      /\ slots' = With(slots, s, carry.key, carry.val)
      /\ size' = size + 1 /\ cap' = cap /\ old' = old /\ pos' = pos
      /\ owner' = owner
      /\ pc' = "idle" /\ op' = "none" /\ arg' = NoPair /\ carry' = NoPair
      /\ i' = 0 /\ ret' = 1
  BY DEF SetInsert, Return, Leave, resizing
<1> HIDE DEF s
<1>4. slots' \in [0 .. cap - 1 -> Slot]
  BY <1>1, <1>2, <1>3, Facts, Stored
<1>5. /\ Cardinality(Occupied(slots')) = size + 1
      /\ Cardinality(Tombstones(slots')) = tombs'
  <2>1. cap \in Nat /\ slots \in [0 .. cap - 1 -> Slot]
    BY Facts
  <2>2. /\ Cardinality(Occupied(slots')) = Cardinality(Occupied(slots)) + 1
        /\ slots[s].occ = 2 =>
             Cardinality(Tombstones(slots')) = Cardinality(Tombstones(slots)) - 1
        /\ slots[s].occ # 2 =>
             Cardinality(Tombstones(slots')) = Cardinality(Tombstones(slots))
    BY <1>1, <1>2, <1>3, <2>1, StoredCounts
  <2> QED
    BY <1>3, <2>2, Facts
<1>6. tombs' \in Nat
  BY <1>4, <1>5, Facts, Countable
<1>7. TypeOK'
  BY <1>3, <1>4, <1>6 DEF IInv, TypeOK, NoPair
<1>8. Phases'
  BY <1>1, <1>3 DEF IInv, Phases
<1>9. Accounting'
  BY <1>3, <1>5 DEF Accounting
<1>10. Cardinality(Waiting') = 0
  BY <1>1, <1>3, Facts DEF Waiting
<1>11. Load = (size + tombs) + 1 /\ Load' = size' + tombs'
  <2>1. size \in Nat /\ tombs \in Nat /\ size' \in Nat /\ Cardinality(Waiting) = 0
    BY <1>1, <1>3, Facts
  <2>2. Load = ((size + tombs) + 0) + (0 + 1)
    BY <1>1, <2>1 DEF Load
  <2>3. Load' = ((size' + tombs') + 0) + (0 + 0)
    BY <1>3, <1>10 DEF Load
  <2> QED
    BY <1>6, <2>1, <2>2, <2>3
<1>12. size' + tombs' <= (size + tombs) + 1
  <2>1. size' = size + 1 /\ (tombs' = tombs \/ tombs' = tombs - 1)
    BY <1>3, Facts
  <2> QED
    BY <2>1, Facts
<1>13. LoadBounded'
  BY <1>3, <1>6, <1>11, <1>12, Facts DEF LoadBounded
<1> QED
  BY <1>7, <1>8, <1>9, <1>13 DEF IInv

LEMMA SetUpdateStep ==
  ASSUME IInv, SetUpdate
  PROVE  IInv'
<1> DEFINE s == At(carry.key)
           e == slots[s]
<1>1. /\ pc = "probe" /\ op = "set" /\ carry \in Pair
      /\ carry.key \in Keys /\ carry.val \in Values
  BY DEF SetUpdate, IInv, Phases, Pair
<1>2. s \in 0 .. cap - 1 /\ e \in Slot /\ e.occ = 1 /\ e.key \in Keys /\ e.val \in Values
  BY <1>1, LookedAt, SlotFields DEF SetUpdate
<1>3. /\ slots' = With(slots, s, e.key, carry.val)
      /\ owner' = [owner EXCEPT ![e.val] = NoKey]
      /\ cap' = cap /\ size' = size /\ tombs' = tombs /\ old' = old /\ pos' = pos
      /\ pc' = "idle" /\ op' = "none" /\ arg' = NoPair /\ carry' = NoPair
      /\ i' = 0 /\ ret' = 0
  BY DEF SetUpdate, Return, Leave, resizing
<1> HIDE DEF s, e
<1>4. slots[s] = e
  BY DEF e
<1>5. slots' \in [0 .. cap - 1 -> Slot]
  BY <1>1, <1>2, <1>3, Facts, Stored
<1>6. /\ Cardinality(Occupied(slots')) = size
      /\ Cardinality(Tombstones(slots')) = tombs
  <2>1. cap \in Nat /\ slots \in [0 .. cap - 1 -> Slot] /\ slots[s].occ = 1
    BY <1>2, <1>4, Facts
  <2>2. /\ Cardinality(Occupied(slots')) = Cardinality(Occupied(slots))
        /\ Cardinality(Tombstones(slots')) = Cardinality(Tombstones(slots))
    BY <1>1, <1>2, <1>3, <2>1, StoredCounts
  <2> QED
    BY <2>1, <2>2, Facts
<1>7. TypeOK'
  BY <1>3, <1>5 DEF IInv, TypeOK, NoPair
<1>8. Phases'
  BY <1>1, <1>3 DEF IInv, Phases
<1>9. Accounting'
  BY <1>3, <1>6 DEF Accounting
<1>10. Cardinality(Waiting') = 0
  BY <1>1, <1>3, Facts DEF Waiting
<1>11. LoadBounded'
  BY <1>1, <1>3, <1>10, Facts DEF LoadBounded, Load
<1> QED
  BY <1>7, <1>8, <1>9, <1>11 DEF IInv

\* Probing on past an entry, with or without a swap.
LEMMA ProbedOn ==
  ASSUME IInv, carry \in Pair, slots[At(carry.key)].occ = 1,
         ProbeOn(slots[At(carry.key)])
  PROVE  /\ slots' \in [0 .. cap - 1 -> Slot]
         /\ carry' \in Pair
         /\ i' \in Nat
         /\ Cardinality(Occupied(slots')) = size
         /\ Cardinality(Tombstones(slots')) = tombs
<1> DEFINE s == At(carry.key)
<1>1. carry.key \in Keys /\ carry.val \in Values
  BY DEF Pair
<1>2. s \in 0 .. cap - 1 /\ slots[s] \in Slot
  BY <1>1, LookedAt
<1>3. [key |-> slots[s].key, val |-> slots[s].val] \in Pair
  BY <1>2, SlotFields
<1>4. i' \in Nat
  BY Facts DEF ProbeOn
<1>5. CASE /\ slots' = With(slots, s, carry.key, carry.val)
           /\ carry' = [key |-> slots[s].key, val |-> slots[s].val]
  <2>1. slots' \in [0 .. cap - 1 -> Slot]
    BY <1>1, <1>2, <1>5, Facts, Stored
  <2>2. /\ Cardinality(Occupied(slots')) = Cardinality(Occupied(slots))
        /\ Cardinality(Tombstones(slots')) = Cardinality(Tombstones(slots))
    BY <1>1, <1>2, <1>5, Facts, StoredCounts
  <2> QED
    BY <1>3, <1>4, <1>5, <2>1, <2>2, Facts
<1>6. CASE slots' = slots /\ carry' = carry
  BY <1>4, <1>6, Facts
<1> QED
  BY <1>5, <1>6 DEF ProbeOn

LEMMA SetProbeOnStep ==
  ASSUME IInv, SetProbeOn
  PROVE  IInv'
<1>1. /\ pc = "probe" /\ op = "set" /\ carry \in Pair
      /\ slots[At(carry.key)].occ = 1
      /\ ProbeOn(slots[At(carry.key)])
  BY DEF SetProbeOn, IInv, Phases
<1>2. /\ slots' \in [0 .. cap - 1 -> Slot] /\ carry' \in Pair /\ i' \in Nat
      /\ Cardinality(Occupied(slots')) = size
      /\ Cardinality(Tombstones(slots')) = tombs
  BY <1>1, ProbedOn
<1>3. /\ cap' = cap /\ size' = size /\ tombs' = tombs /\ pc' = pc /\ op' = op
      /\ arg' = arg /\ old' = old /\ pos' = pos /\ ret' = ret /\ owner' = owner
  BY DEF SetProbeOn, resizing
<1>4. TypeOK'
  BY <1>2, <1>3 DEF IInv, TypeOK
<1>5. Phases'
  BY <1>2, <1>3 DEF IInv, Phases
<1>6. Accounting'
  BY <1>2, <1>3 DEF Accounting
<1>7. LoadBounded'
  BY <1>3 DEF IInv, LoadBounded, Load, Waiting
<1> QED
  BY <1>4, <1>5, <1>6, <1>7 DEF IInv

LEMMA ResizeSkipStep ==
  ASSUME IInv, ResizeSkip
  PROVE  IInv'
<1>1. /\ pc = "resize" /\ pos \in DOMAIN old /\ old[pos].occ # 1
      /\ pos' = pos + 1
      /\ cap' = cap /\ slots' = slots /\ size' = size /\ tombs' = tombs
      /\ pc' = pc /\ op' = op /\ arg' = arg /\ carry' = carry /\ i' = i
      /\ old' = old /\ ret' = ret /\ owner' = owner
  BY DEF ResizeSkip, table
<1>2. TypeOK'
  BY <1>1, Facts DEF IInv, TypeOK
<1>3. Phases'
  BY <1>1 DEF IInv, Phases
<1>4. Accounting'
  BY <1>1 DEF IInv, Accounting
<1>5. Waiting' = Waiting
  <2>1. PICK n \in Caps \cup {0} : old \in [0 .. n - 1 -> Slot]
    BY DEF IInv, TypeOK
  <2>2. n \in Nat /\ pos \in Nat
    BY Facts, CapsAssumption
  <2>3. WaitingFrom(old, pos + 1) = WaitingFrom(old, pos)
    BY <1>1, <2>1, <2>2, WaitingCounts
  <2> QED
    BY <1>1, <2>3 DEF Waiting
<1>6. LoadBounded'
  BY <1>1, <1>5 DEF IInv, LoadBounded, Load
<1> QED
  BY <1>2, <1>3, <1>4, <1>6 DEF IInv

LEMMA ResizeTakeStep ==
  ASSUME IInv, ResizeTake
  PROVE  IInv'
<1>1. /\ pc = "resize" /\ pos \in DOMAIN old /\ old[pos].occ = 1
      /\ carry' = [key |-> old[pos].key, val |-> old[pos].val]
      /\ i' = 0 /\ pc' = "move" /\ pos' = pos + 1
      /\ cap' = cap /\ slots' = slots /\ size' = size /\ tombs' = tombs
      /\ op' = op /\ arg' = arg
      /\ old' = old /\ ret' = ret /\ owner' = owner
  BY DEF ResizeTake, table
<1>2. PICK n \in Caps \cup {0} : old \in [0 .. n - 1 -> Slot]
  BY DEF IInv, TypeOK
<1>3. n \in Nat /\ pos \in Nat
  BY Facts, CapsAssumption
<1>4. carry' \in Pair
  <2>1. old[pos] \in Slot
    BY <1>1, <1>2
  <2> QED
    BY <1>1, <2>1, SlotFields
<1>5. TypeOK'
  BY <1>1, <1>4, Facts DEF IInv, TypeOK
<1>6. Phases'
  BY <1>1, <1>4 DEF IInv, Phases
<1>7. Accounting'
  BY <1>1 DEF IInv, Accounting
<1>8. Cardinality(Waiting') = Cardinality(Waiting) - 1
  BY <1>1, <1>2, <1>3, WaitingCounts DEF Waiting
<1>9. Load' = Load
  BY <1>1, <1>8, Facts DEF Load
<1>10. LoadBounded'
  BY <1>1, <1>9 DEF IInv, LoadBounded
<1> QED
  BY <1>5, <1>6, <1>7, <1>10 DEF IInv

LEMMA MovePlaceStep ==
  ASSUME IInv, MovePlace
  PROVE  IInv'
<1> DEFINE s == At(carry.key)
<1>1. /\ pc = "move" /\ carry \in Pair
      /\ carry.key \in Keys /\ carry.val \in Values
  BY DEF MovePlace, IInv, Phases, Pair
<1>2. s \in 0 .. cap - 1 /\ slots[s] \in Slot /\ slots[s].occ = 0
  BY <1>1, LookedAt DEF MovePlace
<1>3. /\ slots' = With(slots, s, carry.key, carry.val)
      /\ size' = size + 1 /\ tombs' = tombs /\ cap' = cap
      /\ carry' = NoPair /\ i' = 0 /\ pc' = "resize"
      /\ op' = op /\ arg' = arg /\ old' = old /\ pos' = pos
      /\ ret' = ret /\ owner' = owner
  BY DEF MovePlace, resizing
<1> HIDE DEF s
<1>4. slots' \in [0 .. cap - 1 -> Slot]
  BY <1>1, <1>2, <1>3, Facts, Stored
<1>5. /\ Cardinality(Occupied(slots')) = Cardinality(Occupied(slots)) + 1
      /\ Cardinality(Tombstones(slots')) = Cardinality(Tombstones(slots))
  <2>1. cap \in Nat /\ slots \in [0 .. cap - 1 -> Slot]
    BY Facts
  <2>2. slots[s].occ # 1 /\ slots[s].occ # 2
    BY <1>2
  <2> QED
    BY <1>1, <1>2, <1>3, <2>1, <2>2, StoredCounts
<1>6. TypeOK'
  BY <1>3, <1>4, Facts DEF IInv, TypeOK
<1>7. Phases'
  BY <1>1, <1>3 DEF IInv, Phases
<1>8. Accounting'
  BY <1>3, <1>5, Facts DEF Accounting
<1>9. Waiting' = Waiting
  BY <1>3 DEF Waiting
<1>10. Load' = Load
  <2>1. size \in Nat /\ tombs \in Nat /\ Cardinality(Waiting) \in Nat
    BY Facts
  <2>2. Load = ((size + tombs) + Cardinality(Waiting))
                 + (1 + (IF op = "set" THEN 1 ELSE 0))
    BY <1>1 DEF Load
  <2>3. Load' = (((size + 1) + tombs) + Cardinality(Waiting))
                  + (0 + (IF op = "set" THEN 1 ELSE 0))
    BY <1>3, <1>9 DEF Load
  <2> QED
    BY <2>1, <2>2, <2>3
<1>11. LoadBounded'
  BY <1>3, <1>10 DEF IInv, LoadBounded
<1> QED
  BY <1>6, <1>7, <1>8, <1>11 DEF IInv

LEMMA MoveOnStep ==
  ASSUME IInv, MoveOn
  PROVE  IInv'
<1>1. /\ pc = "move" /\ carry \in Pair /\ carry.key \in Keys
      /\ tombs = 0
      /\ slots[At(carry.key)].occ # 0
      /\ ProbeOn(slots[At(carry.key)])
  BY DEF MoveOn, IInv, Phases, Pair
<1>2. slots[At(carry.key)].occ = 1
  <2>1. At(carry.key) \in 0 .. cap - 1 /\ slots[At(carry.key)] \in Slot
    BY <1>1, LookedAt
  <2>2. Tombstones(slots) = {}
    BY <1>1, Facts, Countable, FS_EmptySet
  <2> QED
    BY <1>1, <2>1, <2>2, Facts, SlotFields DEF Tombstones
<1>3. /\ slots' \in [0 .. cap - 1 -> Slot] /\ carry' \in Pair /\ i' \in Nat
      /\ Cardinality(Occupied(slots')) = size
      /\ Cardinality(Tombstones(slots')) = tombs
  BY <1>1, <1>2, ProbedOn
<1>4. /\ cap' = cap /\ size' = size /\ tombs' = tombs /\ pc' = pc /\ op' = op
      /\ arg' = arg /\ old' = old /\ pos' = pos /\ ret' = ret /\ owner' = owner
  BY DEF MoveOn, resizing
<1>5. TypeOK'
  BY <1>3, <1>4 DEF IInv, TypeOK
<1>6. Phases'
  BY <1>3, <1>4 DEF IInv, Phases
<1>7. Accounting'
  BY <1>3, <1>4 DEF Accounting
<1>8. LoadBounded'
  BY <1>4 DEF IInv, LoadBounded, Load, Waiting
<1> QED
  BY <1>5, <1>6, <1>7, <1>8 DEF IInv


LEMMA ResizeDoneStep ==
  ASSUME IInv, ResizeDone
  PROVE  IInv'
<1>1. /\ pc = "resize" /\ op \in {"set", "delete"} /\ pos \notin DOMAIN old
      /\ op = "set" => arg \in Pair
      /\ old' = EmptySlots(0) /\ pos' = 0
      /\ cap' = cap /\ slots' = slots /\ size' = size /\ tombs' = tombs
      /\ ret' = ret /\ owner' = owner
  BY DEF ResizeDone, table, IInv, Phases
<1>2. \/ /\ op = "set" /\ carry' = arg /\ i' = 0 /\ pc' = "probe"
         /\ op' = op /\ arg' = arg
      \/ /\ op # "set" /\ pc' = "idle" /\ op' = "none" /\ arg' = NoPair
         /\ carry' = NoPair /\ i' = 0
  BY DEF ResizeDone, BeginProbe, Leave
<1>3. old' \in [0 .. 0 - 1 -> Slot] /\ Cardinality(Waiting') = 0
  BY <1>1, NoneWaiting DEF Waiting
<1>4. TypeOK'
  <2>1. \E n \in Caps \cup {0} : old' \in [0 .. n - 1 -> Slot]
    BY <1>3
  <2>2. /\ arg' \in [key : Keys \cup {NoKey}, val : Values \cup {NoVal}]
        /\ carry' \in Pair \cup {NoPair}
    BY <1>1, <1>2 DEF IInv, TypeOK, NoPair
  <2> QED
    BY <1>1, <1>2, <2>1, <2>2 DEF IInv, TypeOK
<1>5. Phases'
  BY <1>1, <1>2 DEF Phases
<1>6. Accounting'
  BY <1>1 DEF IInv, Accounting
<1>7. Load' <= Load
  <2>1. size \in Nat /\ tombs \in Nat /\ Cardinality(Waiting) \in Nat
    BY Facts
  <2>2. CASE op = "set"
    <3>1. Load = ((size + tombs) + Cardinality(Waiting)) + (0 + 1)
      BY <1>1, <2>2 DEF Load
    <3>2. Load' = ((size + tombs) + 0) + (0 + 1)
      BY <1>1, <1>2, <1>3, <2>2 DEF Load
    <3> QED
      BY <2>1, <3>1, <3>2
  <2>3. CASE op # "set"
    <3>1. Load = ((size + tombs) + Cardinality(Waiting)) + (0 + 0)
      BY <1>1, <2>3 DEF Load
    <3>2. Load' = ((size + tombs) + 0) + (0 + 0)
      BY <1>1, <1>2, <1>3, <2>3 DEF Load
    <3> QED
      BY <2>1, <3>1, <3>2
  <2> QED
    BY <2>2, <2>3
<1>8. LoadBounded'
  <2>1. Load' \in Int
    BY <1>1, <1>3, Facts DEF Load
  <2> QED
    BY <1>1, <1>7, <2>1, Facts DEF LoadBounded
<1> QED
  BY <1>4, <1>5, <1>6, <1>8 DEF IInv

LEMMA FindCallStep ==
  ASSUME IInv, NEW o \in {"get", "delete"}, NEW k \in Keys, FindCall(o, k)
  PROVE  IInv'
<1>1. /\ pc = "idle" /\ op = "none" /\ op' = o
      /\ arg' = [key |-> k, val |-> NoVal] /\ i' = 0 /\ pc' = "find"
      /\ cap' = cap /\ slots' = slots /\ size' = size /\ tombs' = tombs
      /\ carry' = carry /\ old' = old /\ pos' = pos
      /\ ret' = ret /\ owner' = owner
  BY DEF FindCall, table, resizing, IInv, Phases
<1>2. TypeOK'
  BY <1>1 DEF IInv, TypeOK
<1>3. Phases'
  BY <1>1 DEF IInv, Phases
<1>4. Accounting'
  BY <1>1 DEF IInv, Accounting
<1>5. Load' = Load
  BY <1>1 DEF Load, Waiting
<1>6. LoadBounded'
  BY <1>1, <1>5 DEF IInv, LoadBounded
<1> QED
  BY <1>2, <1>3, <1>4, <1>6 DEF IInv

\* The calls that only look return without touching the table.
LEMMA ReturnStep ==
  ASSUME IInv, pc = "find", NEW r \in Values \cup {NoVal, 0, 1}, Return(r),
         UNCHANGED <<table, resizing, owner>>
  PROVE  IInv'
<1>1. /\ op \in {"get", "delete"}
      /\ pc' = "idle" /\ op' = "none" /\ arg' = NoPair /\ carry' = NoPair
      /\ i' = 0 /\ ret' = r
      /\ cap' = cap /\ slots' = slots /\ size' = size /\ tombs' = tombs
      /\ old' = old /\ pos' = pos /\ owner' = owner
  BY DEF Return, Leave, table, resizing, IInv, Phases
<1>2. TypeOK'
  BY <1>1 DEF IInv, TypeOK, NoPair
<1>3. Phases'
  BY <1>1 DEF IInv, Phases
<1>4. Accounting'
  BY <1>1 DEF IInv, Accounting
<1>5. Load' = Load
  BY <1>1 DEF Load, Waiting
<1>6. LoadBounded'
  BY <1>1, <1>5 DEF IInv, LoadBounded
<1> QED
  BY <1>2, <1>3, <1>4, <1>6 DEF IInv

LEMMA FindMissStep ==
  ASSUME IInv, FindMiss
  PROVE  IInv'
<1>1. /\ pc = "find" /\ UNCHANGED <<table, resizing, owner>>
      /\ Return(IF op = "get" THEN NoVal ELSE NotFound)
  BY DEF FindMiss
<1>2. (IF op = "get" THEN NoVal ELSE NotFound) \in Values \cup {NoVal, 0, 1}
  BY DEF NotFound
<1> QED
  BY <1>1, <1>2, ReturnStep

LEMMA FindHitStep ==
  ASSUME IInv, FindHit
  PROVE  IInv'
<1>1. /\ pc = "find" /\ arg.key \in Keys
      /\ slots[At(arg.key)].occ = 1
      /\ Return(slots[At(arg.key)].val)
      /\ UNCHANGED <<table, resizing, owner>>
  BY DEF FindHit, FindsHere, IInv, Phases
<1>2. slots[At(arg.key)].val \in Values
  BY <1>1, LookedAt, SlotFields
<1> QED
  BY <1>1, <1>2, ReturnStep

LEMMA FindNextStep ==
  ASSUME IInv, FindNext
  PROVE  IInv'
<1>1. /\ i' = i + 1
      /\ pc' = pc /\ op' = op /\ arg' = arg /\ carry' = carry
      /\ cap' = cap /\ slots' = slots /\ size' = size /\ tombs' = tombs
      /\ old' = old /\ pos' = pos /\ ret' = ret /\ owner' = owner
  BY DEF FindNext, table, resizing
<1>2. TypeOK'
  BY <1>1 DEF IInv, TypeOK
<1>3. Phases'
  BY <1>1 DEF IInv, Phases
<1>4. Accounting'
  BY <1>1 DEF IInv, Accounting
<1>5. LoadBounded'
  BY <1>1 DEF IInv, LoadBounded, Load, Waiting
<1> QED
  BY <1>2, <1>3, <1>4, <1>5 DEF IInv


LEMMA DeleteHitStep ==
  ASSUME IInv, DeleteHit
  PROVE  IInv'
<1> DEFINE s == At(arg.key)
           e == slots[s]
           b == Without(slots, s)
<1>1. /\ pc = "find" /\ op = "delete" /\ arg.key \in Keys
      /\ slots[s].occ = 1
  BY DEF DeleteHit, FindsHere, IInv, Phases
<1>2. /\ s \in 0 .. cap - 1 /\ slots[s] \in Slot /\ slots[s].val \in Values
  BY <1>1, LookedAt, SlotFields
<1>3. /\ owner' = [owner EXCEPT ![slots[s].val] = NoKey] /\ ret' = 1
      /\ \/ /\ MustShrink(cap, size - 1)
            /\ old' = b /\ pos' = 0 /\ cap' = ResizedCap(cap \div 2)
            /\ slots' = EmptySlots(ResizedCap(cap \div 2))
            /\ size' = 0 /\ tombs' = 0 /\ pc' = "resize" /\ i' = 0
            /\ op' = op /\ arg' = arg /\ carry' = carry
         \/ /\ slots' = b /\ size' = size - 1 /\ tombs' = tombs + 1
            /\ pc' = "idle" /\ op' = "none" /\ arg' = NoPair
            /\ carry' = NoPair /\ i' = 0
            /\ cap' = cap /\ old' = old /\ pos' = pos
  BY DEF DeleteHit, Leave, resizing
<1> HIDE DEF s, e, b
<1>4. cap \in Caps /\ cap \in Nat /\ slots \in [0 .. cap - 1 -> Slot]
  BY Facts
<1>5. /\ b \in [0 .. cap - 1 -> Slot]
      /\ Cardinality(Occupied(b)) = Cardinality(Occupied(slots)) - 1
      /\ Cardinality(Tombstones(b)) = Cardinality(Tombstones(slots)) + 1
  BY <1>1, <1>2, <1>4, Buried, BuriedCounts DEF b
<1>6. Cardinality(Occupied(b)) \in Nat
  BY <1>4, <1>5, Countable
<1>7. size - 1 \in Nat /\ Cardinality(Occupied(b)) = size - 1
  BY <1>5, <1>6, Facts
<1>8. Load = size + tombs /\ (size + tombs) * 100 < 71 * cap
  BY <1>1, Facts DEF Load
<1>9. owner' \in [Values -> Keys \cup {NoKey}]
  BY <1>2, <1>3 DEF IInv, TypeOK
<1>10. CASE /\ MustShrink(cap, size - 1)
            /\ old' = b /\ pos' = 0 /\ cap' = ResizedCap(cap \div 2)
            /\ slots' = EmptySlots(ResizedCap(cap \div 2))
            /\ size' = 0 /\ tombs' = 0 /\ pc' = "resize" /\ i' = 0
            /\ op' = op /\ arg' = arg /\ carry' = carry
  <2>1. /\ (size - 1) * 100 < 20 * cap
        /\ ResizedCap(cap \div 2) = cap \div 2
        /\ cap \div 2 \in Caps /\ 2 * (cap \div 2) = cap
    BY <1>4, <1>7, <1>10, ShrinkTest
  <2>2. cap' \in Caps /\ cap' \in Nat /\ 2 * cap' = cap /\ slots' = EmptySlots(cap')
    BY <1>10, <2>1, CapsAssumption
  <2>3. /\ slots' \in [0 .. cap' - 1 -> Slot]
        /\ Cardinality(Occupied(slots')) = 0 /\ Cardinality(Tombstones(slots')) = 0
    BY <2>2, Zeroed
  <2>4. TypeOK'
    <3>1. \E n \in Caps \cup {0} : old' \in [0 .. n - 1 -> Slot]
      BY <1>4, <1>5, <1>10
    <3> QED
      BY <1>3, <1>9, <1>10, <2>2, <2>3, <3>1 DEF IInv, TypeOK
  <2>5. Phases'
    BY <1>1, <1>10 DEF Phases
  <2>6. Accounting'
    BY <1>10, <2>3 DEF Accounting
  <2>7. Cardinality(Waiting') = size - 1
    <3>1. WaitingFrom(b, 0) = Occupied(b)
      BY <1>4, <1>5, WaitingCounts
    <3> QED
      BY <1>7, <1>10, <3>1 DEF Waiting
  <2>8. Load' = size - 1
    BY <1>1, <1>7, <1>10, <2>7 DEF Load
  <2>9. LoadBounded'
    BY <1>7, <2>1, <2>2, <2>8 DEF LoadBounded
  <2> QED
    BY <2>4, <2>5, <2>6, <2>9 DEF IInv
<1>11. CASE /\ slots' = b /\ size' = size - 1 /\ tombs' = tombs + 1
            /\ pc' = "idle" /\ op' = "none" /\ arg' = NoPair
            /\ carry' = NoPair /\ i' = 0
            /\ cap' = cap /\ old' = old /\ pos' = pos
  <2>1. TypeOK'
    BY <1>3, <1>5, <1>7, <1>9, <1>11, Facts DEF IInv, TypeOK, NoPair
  <2>2. Phases'
    BY <1>1, <1>11 DEF IInv, Phases
  <2>3. Accounting'
    BY <1>5, <1>7, <1>11, Facts DEF Accounting
  <2>4. Cardinality(Waiting') = 0
    BY <1>1, <1>11, Facts DEF Waiting
  <2>5. Load' = (size - 1) + (tombs + 1)
    BY <1>11, <2>4, Facts DEF Load
  <2>6. Load' = size + tombs
    BY <2>5, Facts
  <2>7. LoadBounded'
    BY <1>8, <1>11, <2>6 DEF LoadBounded
  <2> QED
    BY <2>1, <2>2, <2>3, <2>7 DEF IInv
<1> QED
  BY <1>3, <1>10, <1>11

LEMMA RecreateStep ==
  ASSUME IInv, Recreate
  PROVE  IInv'
<1>1. /\ pc = "idle" /\ op = "none"
      /\ cap' = MinCap /\ slots' = EmptySlots(MinCap) /\ size' = 0 /\ tombs' = 0
      /\ pc' = pc /\ op' = op /\ arg' = arg /\ carry' = carry /\ i' = i
      /\ old' = old /\ pos' = pos /\ ret' = ret
  BY DEF Recreate, resizing, IInv, Phases
<1>2. MinCap \in Nat /\ MinCap \in Caps /\ MinCap >= 2
  BY CapsAssumption
<1>3. /\ slots' \in [0 .. cap' - 1 -> Slot]
      /\ Cardinality(Occupied(slots')) = 0 /\ Cardinality(Tombstones(slots')) = 0
  BY <1>1, <1>2, Zeroed
<1>4. owner' \in [Values -> Keys \cup {NoKey}]
  BY DEF Recreate, IInv, TypeOK
<1>5. TypeOK'
  BY <1>1, <1>2, <1>3, <1>4 DEF IInv, TypeOK
<1>6. Phases'
  BY <1>1 DEF IInv, Phases
<1>7. Accounting'
  BY <1>1, <1>3 DEF Accounting
<1>8. Cardinality(Waiting') = 0
  BY <1>1, Facts DEF Waiting
<1>9. Load' = 0
  BY <1>1, <1>8 DEF Load
<1>10. LoadBounded'
  BY <1>1, <1>2, <1>9 DEF LoadBounded
<1> QED
  BY <1>5, <1>6, <1>7, <1>10 DEF IInv

-----------------------------------------------------------------------------
(* The invariant                                                           *)

LEMMA InitInv == Init => IInv
<1> SUFFICES ASSUME Init PROVE IInv
  OBVIOUS
<1>1. MinCap \in Nat /\ MinCap \in Caps /\ MinCap >= 2
  BY CapsAssumption
<1>2. /\ slots \in [0 .. MinCap - 1 -> Slot]
      /\ Cardinality(Occupied(slots)) = 0 /\ Cardinality(Tombstones(slots)) = 0
  BY <1>1, Zeroed DEF Init
<1>3. EmptySlots(0) \in [0 .. 0 - 1 -> Slot] /\ Cardinality(Waiting) = 0
  BY NoneWaiting DEF Init, Waiting
<1>4. TypeOK
  BY <1>1, <1>2, <1>3 DEF Init, TypeOK, NoPair, NotFound
<1>5. Phases
  BY DEF Init, Phases
<1>6. Accounting
  BY <1>2 DEF Init, Accounting
<1>7. LoadBounded
  BY <1>1, <1>3 DEF Init, LoadBounded, Load
<1> QED
  BY <1>4, <1>5, <1>6, <1>7 DEF IInv

LEMMA StutterInv == IInv /\ UNCHANGED vars => IInv'
  BY DEF IInv, vars, TypeOK, Phases, Accounting, LoadBounded, Load, Waiting

LEMMA NextInv == IInv /\ [Next]_vars => IInv'
<1> SUFFICES ASSUME IInv, [Next]_vars PROVE IInv'
  OBVIOUS
<1>1. CASE Call
  <2>1. ASSUME NEW k \in Keys, NEW v \in Values, SetCall(k, v) PROVE IInv'
    BY <2>1, SetCallStep
  <2>2. ASSUME NEW k \in Keys, FindCall("get", k) \/ FindCall("delete", k)
        PROVE  IInv'
    BY <2>2, FindCallStep
  <2>3. CASE Recreate
    BY <2>3, RecreateStep
  <2> QED
    BY <1>1, <2>1, <2>2, <2>3 DEF Call
<1>2. CASE Step
  BY <1>2, SetInsertStep, SetUpdateStep, SetProbeOnStep, ResizeSkipStep,
     ResizeTakeStep, MovePlaceStep, MoveOnStep, ResizeDoneStep, FindMissStep,
     FindHitStep, DeleteHitStep, FindNextStep
  DEF Step
<1>3. CASE UNCHANGED vars
  BY <1>3, StutterInv
<1> QED
  BY <1>1, <1>2, <1>3 DEF Next

THEOREM Invariance == Spec => []IInv
  BY InitInv, NextInv, PTL DEF Spec

\* Every variable keeps its type: in particular the counters never go below
\* zero and no probe of ht_set, ht_find or ht_resize leaves the array.
THEOREM TypeCorrect == Spec => []TypeOK
<1>1. IInv => TypeOK
  BY DEF IInv
<1> QED
  BY <1>1, Invariance, PTL

\* size and tombstones are the true counts at every iteration of every loop.
THEOREM CountersAreTrue == Spec => []Accounting
<1>1. IInv => Accounting
  BY DEF IInv
<1> QED
  BY <1>1, Invariance, PTL

\* Entries and tombstones never make up the whole array.
LEMMA HasRoom ==
  ASSUME IInv
  PROVE  RoomToProbe
<1> SUFFICES ASSUME ~RoomToProbe PROVE FALSE
  OBVIOUS
<1>1. /\ cap \in Nat /\ cap >= 2 /\ slots \in [0 .. cap - 1 -> Slot]
      /\ size \in Nat /\ tombs \in Nat /\ Cardinality(Waiting) \in Nat
      /\ size = Cardinality(Occupied(slots))
      /\ tombs = Cardinality(Tombstones(slots))
  BY Facts
<1>2. Occupied(slots) \cup Tombstones(slots) = 0 .. cap - 1
  <2>1. \A n \in 0 .. cap - 1 : slots[n].occ \in {1, 2}
    <3>1. \A n \in 0 .. cap - 1 : slots[n] \in Slot /\ slots[n].occ # 0
      BY <1>1 DEF RoomToProbe
    <3> QED
      BY <3>1, SlotFields
  <2> QED
    BY <1>1, <2>1 DEF Occupied, Tombstones
<1>3. Cardinality(Occupied(slots) \cap Tombstones(slots)) = 0
  <2>1. Occupied(slots) \cap Tombstones(slots) = {}
    BY DEF Occupied, Tombstones
  <2> QED
    BY <2>1, FS_EmptySet
<1>4. /\ IsFiniteSet(Occupied(slots)) /\ IsFiniteSet(Tombstones(slots))
      /\ Cardinality(0 .. cap - 1) = cap
  BY <1>1, Countable
<1>5. Cardinality(Occupied(slots) \cup Tombstones(slots)) =
        Cardinality(Occupied(slots)) + Cardinality(Tombstones(slots))
          - Cardinality(Occupied(slots) \cap Tombstones(slots))
  BY <1>4, FS_Union
<1>6. cap = size + tombs
  <2>1. Cardinality(Occupied(slots) \cup Tombstones(slots)) = cap
    BY <1>2, <1>4
  <2>2. cap = (size + tombs) - 0
    BY <1>1, <1>3, <1>5, <2>1
  <2> QED
    BY <1>1, <2>2
<1>7. Load >= size + tombs
  BY <1>1 DEF Load
<1>8. Load \in Nat /\ Load * 100 < 71 * cap
  BY Facts
<1> QED
  BY <1>1, <1>6, <1>7, <1>8

\* The array never fills up: whatever the keys hash to, the loops of ht_set,
\* ht_find and ht_resize always have an empty slot ahead of them.
THEOREM NeverFull == Spec => []RoomToProbe
  BY HasRoom, Invariance, PTL

-----------------------------------------------------------------------------
(***************************************************************************)
(* The loops of hashtable.c come to an end, for every hash function and    *)
(* every chain of capacities: each iteration leaves less to do.  ToDo is   *)
(* made of natural numbers that are compared in their order, so it cannot  *)
(* fall for ever.                                                          *)
(*                                                                         *)
(* A probe that does not swap comes closer to a free slot, and there is    *)
(* one (RoomToProbe).  A probe that swaps goes on with another key, maybe  *)
(* farther from a free slot; but it leaves an entry that is farther from   *)
(* its home than the one it took out, and no entry is ever as far from its *)
(* home as the array is long.                                              *)
(***************************************************************************)

-----------------------------------------------------------------------------
(* The numbers                                                             *)

InLoop == {"probe", "find", "move"}

Free ==
  {n \in 0 .. cap - 1 : Stops(slots[ProbeIndex(cap, Sought, i + n)])}

LEMMA Seeking ==
  ASSUME IInv, pc \in InLoop
  PROVE  Sought \in Keys /\ At(Sought) \in 0 .. cap - 1 /\ slots[At(Sought)] \in Slot
         /\ \A n \in Nat : ProbeIndex(cap, Sought, i + n) \in 0 .. cap - 1
<1>1. Sought \in Keys
  <2>1. CASE pc = "find"
    BY <2>1 DEF IInv, Phases, Sought
  <2>2. CASE pc \in {"probe", "move"}
    <3>1. carry \in Pair
      BY <2>2 DEF IInv, Phases
    <3> QED
      BY <2>2, <3>1 DEF Sought, Pair
  <2> QED
    BY <2>1, <2>2 DEF InLoop
<1>2. At(Sought) \in 0 .. cap - 1 /\ slots[At(Sought)] \in Slot
  BY <1>1, LookedAt
<1>3. ASSUME NEW n \in Nat
      PROVE  ProbeIndex(cap, Sought, i + n) \in 0 .. cap - 1
  <2>1. cap \in Nat /\ cap > 0 /\ i + n \in Nat
    BY Facts
  <2> QED
    BY <1>1, <2>1, ProbeInArray
<1> QED
  BY <1>1, <1>2, <1>3

LEMMA EmptySlotSomewhere ==
  ASSUME IInv
  PROVE  \E s \in 0 .. cap - 1 : slots[s].occ = 0
<1>1. \E s \in DOMAIN slots : slots[s].occ = 0
  BY HasRoom DEF RoomToProbe
<1> QED
  BY <1>1, Facts

LEMMA GapIsLeast ==
  ASSUME IInv, pc \in InLoop
  PROVE  Gap \in Free /\ \A m \in Free : Gap <= m
<1>1. PICK s \in 0 .. cap - 1 : slots[s].occ = 0
  BY EmptySlotSomewhere
<1>2. cap \in Nat /\ cap > 0 /\ i \in Nat
  BY Facts
<1>3. Hash[Sought] + i \in Nat
  BY <1>2, Seeking, HashAssumption
<1>4. PICK n \in 0 .. cap - 1 : ((Hash[Sought] + i) + n) % cap = s
  BY <1>2, <1>3, Probes
<1>5. ProbeIndex(cap, Sought, i + n) = s
  <2>1. Hash[Sought] \in Nat /\ n \in Nat
    BY Seeking, HashAssumption, <1>2
  <2>2. Hash[Sought] + (i + n) = (Hash[Sought] + i) + n
    BY <2>1, <1>2
  <2> QED
    BY <1>4, <2>2 DEF ProbeIndex
<1>6. n \in Free
  BY <1>1, <1>5 DEF Free, Stops
<1>7. Free \subseteq Nat
  BY <1>2 DEF Free
<1>8. PICK x \in Free : \A y \in Free : x <= y
  BY <1>6, <1>7, Smallest
<1>9. Gap = CHOOSE w \in Free : \A m \in Free : w <= m
  BY DEF Gap, Free, InLoop
<1> QED
  BY <1>8, <1>9

LEMMA OldCounted ==
  ASSUME IInv
  PROVE  /\ IsFiniteSet({s \in DOMAIN old : s >= pos})
         /\ Cardinality({s \in DOMAIN old : s >= pos}) \in Nat
<1>1. PICK n \in Caps \cup {0} : old \in [0 .. n - 1 -> Slot]
  BY DEF IInv, TypeOK
<1>2. n \in Nat
  BY CapsAssumption
<1>3. IsFiniteSet(0 .. n - 1)
  BY <1>2, FS_Interval
<1>4. {s \in DOMAIN old : s >= pos} \subseteq 0 .. n - 1
  BY <1>1
<1> QED
  BY <1>3, <1>4, FS_Subset, FS_CardinalityType

LEMMA ToDoType ==
  ASSUME IInv
  PROVE  /\ LoopsLeft \in Nat /\ OldLeft \in Nat /\ RoomToMove \in Nat /\ Gap \in Nat
         /\ ToDo \in Ranks
<1>1. LoopsLeft \in Nat
  BY DEF IInv, TypeOK, LoopsLeft
<1>2. OldLeft \in Nat
  BY OldCounted DEF OldLeft
<1>3. RoomToMove \in Nat
  <2>1. RoomToMove = Cardinality(RoomIn(cap, slots))
    BY DEF RoomToMove, RoomIn
  <2> QED
    BY <2>1, Facts, RoomCounted
<1>4. Gap \in Nat
  <2>1. CASE pc \in InLoop
    BY <2>1, GapIsLeast, Facts DEF Free
  <2>2. CASE pc \notin InLoop
    BY <2>2 DEF Gap, InLoop
  <2> QED
    BY <2>1, <2>2
<1> QED
  BY <1>1, <1>2, <1>3, <1>4 DEF ToDo, Ranks

\* The order of their weights.
LEMMA Weights ==
  ASSUME \/ LoopsLeft' < LoopsLeft
         \/ LoopsLeft' = LoopsLeft /\ OldLeft' < OldLeft
         \/ LoopsLeft' = LoopsLeft /\ OldLeft' = OldLeft /\ RoomToMove' < RoomToMove
         \/ /\ LoopsLeft' = LoopsLeft /\ OldLeft' = OldLeft
            /\ RoomToMove' = RoomToMove /\ Gap' < Gap
  PROVE  Below(ToDo', ToDo)
<1>1. /\ ToDo[1] = LoopsLeft /\ ToDo[2] = OldLeft /\ ToDo[3] = RoomToMove /\ ToDo[4] = Gap
      /\ ToDo'[1] = LoopsLeft' /\ ToDo'[2] = OldLeft'
      /\ ToDo'[3] = RoomToMove' /\ ToDo'[4] = Gap'
  BY DEF ToDo
<1> HIDE DEF ToDo
<1>2. CASE LoopsLeft' < LoopsLeft
  <2>1. ToDo'[1] < ToDo[1] /\ \A m \in 1 .. 1 - 1 : ToDo'[m] = ToDo[m]
    BY <1>1, <1>2
  <2> QED
    BY <2>1 DEF Below
<1>3. CASE LoopsLeft' = LoopsLeft /\ OldLeft' < OldLeft
  <2>1. ToDo'[2] < ToDo[2] /\ \A m \in 1 .. 2 - 1 : ToDo'[m] = ToDo[m]
    BY <1>1, <1>3
  <2> QED
    BY <2>1 DEF Below
<1>4. CASE LoopsLeft' = LoopsLeft /\ OldLeft' = OldLeft /\ RoomToMove' < RoomToMove
  <2>1. ToDo'[3] < ToDo[3] /\ \A m \in 1 .. 3 - 1 : ToDo'[m] = ToDo[m]
    BY <1>1, <1>4
  <2> QED
    BY <2>1 DEF Below
<1>5. CASE /\ LoopsLeft' = LoopsLeft /\ OldLeft' = OldLeft
           /\ RoomToMove' = RoomToMove /\ Gap' < Gap
  <2>1. ToDo'[4] < ToDo[4] /\ \A m \in 1 .. 4 - 1 : ToDo'[m] = ToDo[m]
    BY <1>1, <1>5
  <2> QED
    BY <2>1 DEF Below
<1> QED
  BY <1>2, <1>3, <1>4, <1>5

-----------------------------------------------------------------------------
(* One lemma per kind of step                                              *)

\* A loop is left, or the next one entered.
LEMMA NextLoop ==
  ASSUME IInv, SetInsert \/ SetUpdate \/ FindMiss \/ FindHit \/ DeleteHit \/ ResizeDone
  PROVE  LoopsLeft' < LoopsLeft
<1>1. CASE SetInsert \/ SetUpdate
  BY <1>1 DEF SetInsert, SetUpdate, Return, Leave, LoopsLeft
<1>2. CASE FindMiss \/ FindHit
  BY <1>2 DEF FindMiss, FindHit, Return, Leave, LoopsLeft
<1>3. CASE DeleteHit
  BY <1>3 DEF DeleteHit, Leave, LoopsLeft
<1>4. CASE ResizeDone
  BY <1>4 DEF ResizeDone, BeginProbe, Leave, LoopsLeft
<1> QED
  BY <1>1, <1>2, <1>3, <1>4

\* ht_resize goes on to the next old entry.
LEMMA NextOld ==
  ASSUME IInv, ResizeSkip \/ ResizeTake \/ MovePlace
  PROVE  LoopsLeft' = LoopsLeft /\ OldLeft' < OldLeft
<1> DEFINE W(n) == {s \in DOMAIN old : s >= n}
<1>1. IsFiniteSet(W(pos)) /\ Cardinality(W(pos)) \in Nat
  BY OldCounted
<1>2. CASE ResizeSkip \/ ResizeTake
  <2>1. pos \in DOMAIN old /\ pos \in Nat /\ pc = "resize" /\ old' = old /\ pos' = pos + 1
    BY <1>2, Facts DEF ResizeSkip, ResizeTake
  <2>2. \A s \in DOMAIN old : s \in Int
    <3>1. PICK n \in Caps \cup {0} : old \in [0 .. n - 1 -> Slot]
      BY DEF IInv, TypeOK
    <3> QED
      BY <3>1
  <2>3. W(pos + 1) = W(pos) \ {pos} /\ pos \in W(pos)
    BY <2>1, <2>2
  <2>4. Cardinality(W(pos + 1)) = Cardinality(W(pos)) - 1
    BY <1>1, <2>3, FS_RemoveElement
  <2>5. pc' \in {"resize", "move"}
    BY <1>2, <2>1 DEF ResizeSkip, ResizeTake
  <2>6. OldLeft = 2 * Cardinality(W(pos)) + 0
    BY <2>1 DEF OldLeft
  <2>7. OldLeft' = 2 * Cardinality(W(pos + 1)) + (IF pc' = "move" THEN 1 ELSE 0)
    BY <2>1 DEF OldLeft
  <2> HIDE DEF W
  <2> QED
    BY <1>1, <2>1, <2>4, <2>5, <2>6, <2>7 DEF LoopsLeft
<1>3. CASE MovePlace
  <2>1. pc = "move" /\ pc' = "resize" /\ old' = old /\ pos' = pos
    BY <1>3 DEF MovePlace, resizing
  <2>2. OldLeft = 2 * Cardinality(W(pos)) + 1 /\ OldLeft' = 2 * Cardinality(W(pos)) + 0
    BY <2>1 DEF OldLeft
  <2> HIDE DEF W
  <2> QED
    BY <1>1, <2>1, <2>2 DEF LoopsLeft
<1> QED
  BY <1>2, <1>3

\* A swap.
LEMMA Swaps ==
  ASSUME IInv, NEW k \in Keys, NEW v \in Values, NEW s \in 0 .. cap - 1,
         slots[s].occ = 1, Poorer(cap, k, slots[s], s)
  PROVE  Cardinality(RoomIn(cap, With(slots, s, k, v))) < Cardinality(RoomIn(cap, slots))
<1>1. slots \in [0 .. cap - 1 -> Slot] /\ cap \in Nat /\ cap > 0
  BY Facts
<1> QED
  BY <1>1, Swapped

\* A probe without a swap.
LEMMA Nearer ==
  ASSUME IInv, IInv', pc \in InLoop, ~Stops(slots[At(Sought)]),
         slots' = slots, cap' = cap, pc' = pc, carry' = carry, arg' = arg, i' = i + 1
  PROVE  Gap' < Gap
<1>1. Gap \in Free /\ \A m \in Free : Gap <= m
  BY GapIsLeast
<1>3. cap \in Nat /\ i \in Nat /\ Free \subseteq 0 .. cap - 1 /\ Free' \subseteq 0 .. cap - 1
  BY Facts DEF Free
<1>4. Sought' = Sought /\ \A e : Stops(e)' <=> Stops(e)
  BY DEF Sought, Stops
<1>5. Gap # 0
  <2>1. i + 0 = i
    BY <1>3
  <2> QED
    BY <1>1, <2>1 DEF Free, At
<1>6. Gap - 1 \in 0 .. cap - 1 /\ (i + 1) + (Gap - 1) = i + Gap
  BY <1>1, <1>3, <1>5
<1>7. Stops(slots[ProbeIndex(cap, Sought, (i + 1) + (Gap - 1))])
  BY <1>1, <1>6 DEF Free
<1>8. Gap - 1 \in Free'
  BY <1>4, <1>6, <1>7 DEF Free
<1>9. PICK n \in Free' : \A m \in Free' : n <= m
  <2>1. Free' \subseteq Nat /\ Free' # {}
    BY <1>3, <1>8
  <2> QED
    BY <2>1, Smallest
<1>10. Gap' = CHOOSE w \in Free' : \A m \in Free' : w <= m
  BY DEF Gap, Free, InLoop
<1>11. Gap' \in Free' /\ \A m \in Free' : Gap' <= m
  BY <1>9, <1>10
<1> QED
  BY <1>1, <1>3, <1>6, <1>8, <1>11

LEMMA ProbesOn ==
  ASSUME IInv, IInv', SetProbeOn \/ MoveOn
  PROVE  /\ LoopsLeft' = LoopsLeft /\ OldLeft' = OldLeft
         /\ \/ RoomToMove' < RoomToMove
            \/ RoomToMove' = RoomToMove /\ Gap' < Gap
<1>1. /\ pc \in {"probe", "move"} /\ pc' = pc /\ cap' = cap /\ arg' = arg
      /\ old' = old /\ pos' = pos /\ ProbeOn(slots[At(carry.key)]) /\ carry \in Pair
  BY DEF SetProbeOn, MoveOn, resizing, IInv, Phases
<1>2. carry.key \in Keys /\ carry.val \in Values
  BY <1>1 DEF Pair
<1> DEFINE s == At(carry.key)
<1>3. s \in 0 .. cap - 1 /\ slots[s] \in Slot
  BY <1>2, LookedAt
<1>4. slots[s].occ = 1
  <2>1. CASE SetProbeOn
    BY <2>1 DEF SetProbeOn
  <2>2. CASE MoveOn
    <3>1. tombs = 0 /\ slots[s].occ # 0
      BY <2>2 DEF MoveOn, IInv, Phases
    <3>2. Tombstones(slots) = {}
      BY <3>1, Facts, Countable, FS_EmptySet
    <3>3. slots[s].occ # 2
      BY <1>3, <3>2, Facts DEF Tombstones
    <3> QED
      BY <1>3, <3>1, <3>3, SlotFields
  <2> QED
    BY <2>1, <2>2
<1>5. LoopsLeft' = LoopsLeft /\ OldLeft' = OldLeft
  BY <1>1 DEF LoopsLeft, OldLeft
<1>6. /\ RoomToMove = Cardinality(RoomIn(cap, slots))
      /\ RoomToMove' = Cardinality(RoomIn(cap, slots'))
  BY <1>1 DEF RoomToMove, RoomIn
<1>7. CASE Poorer(cap, carry.key, slots[s], s)
  <2>1. slots' = With(slots, s, carry.key, carry.val)
    BY <1>1, <1>7 DEF ProbeOn
  <2>2. RoomToMove' < RoomToMove
    BY <1>2, <1>3, <1>4, <1>6, <1>7, <2>1, Swaps
  <2> QED
    BY <1>5, <2>2
<1>8. CASE ~Poorer(cap, carry.key, slots[s], s)
  <2>1. slots' = slots /\ carry' = carry /\ i' = i + 1
    BY <1>1, <1>8 DEF ProbeOn
  <2>2. Sought = carry.key /\ pc \in InLoop
    BY <1>1 DEF Sought, InLoop
  <2>3. ~Stops(slots[At(Sought)])
    BY <1>4, <2>2 DEF Stops
  <2>4. Gap' < Gap
    BY <1>1, <2>1, <2>2, <2>3, Nearer
  <2> QED
    BY <1>5, <1>6, <2>1, <2>4
<1> QED
  BY <1>7, <1>8

LEMMA FindsOn ==
  ASSUME IInv, IInv', FindNext
  PROVE  /\ LoopsLeft' = LoopsLeft /\ OldLeft' = OldLeft /\ RoomToMove' = RoomToMove
         /\ Gap' < Gap
<1>1. /\ pc = "find" /\ pc' = pc /\ cap' = cap /\ arg' = arg /\ slots' = slots
      /\ old' = old /\ pos' = pos /\ carry' = carry /\ i' = i + 1
      /\ slots[At(arg.key)].occ \in {1, 2}
  BY DEF FindNext, table, resizing
<1>2. LoopsLeft' = LoopsLeft /\ OldLeft' = OldLeft /\ RoomToMove' = RoomToMove
  BY <1>1 DEF LoopsLeft, OldLeft, RoomToMove
<1>3. Sought = arg.key /\ pc \in InLoop
  BY <1>1 DEF Sought, InLoop
<1>4. ~Stops(slots[At(Sought)])
  BY <1>1, <1>3 DEF Stops
<1> QED
  BY <1>1, <1>2, <1>3, <1>4, Nearer

\* Every iteration of the loops of ht_set, ht_find and ht_resize leaves less to
\* do, for every hash function: there is no endless probe and no endless chain
\* of swaps (hashtable.c:70-112, :118-135, :180-214).
THEOREM LoopsComeToAnEnd == Spec => EveryStepIsProgress
<1>1. IInv /\ IInv' /\ [Next]_vars =>
         [pc # "idle" => ToDo \in Ranks /\ Below(ToDo', ToDo)]_vars
  <2> SUFFICES ASSUME IInv, IInv', Next, pc # "idle"
               PROVE  ToDo \in Ranks /\ Below(ToDo', ToDo)
    OBVIOUS
  <2>1. ~Call
    BY DEF Call, SetCall, FindCall, Recreate
  <2>2. Step
    BY <2>1 DEF Next
  <2>3. CASE SetInsert \/ SetUpdate \/ FindMiss \/ FindHit \/ DeleteHit \/ ResizeDone
    BY <2>3, NextLoop, Weights, ToDoType
  <2>4. CASE ResizeSkip \/ ResizeTake \/ MovePlace
    BY <2>4, NextOld, Weights, ToDoType
  <2>5. CASE SetProbeOn \/ MoveOn
    BY <2>5, ProbesOn, Weights, ToDoType
  <2>6. CASE FindNext
    BY <2>6, FindsOn, Weights, ToDoType
  <2> QED
    BY <2>2, <2>3, <2>4, <2>5, <2>6 DEF Step
<1> QED
  BY <1>1, Invariance, PTL DEF Spec, EveryStepIsProgress

-----------------------------------------------------------------------------
(* Who holds the values: through swaps, updates, deletions and resizes,    *)
(* every value handed to ht_set and not freed since is held in exactly one *)
(* place.                                                                  *)
(*                                                                         *)
(* The invariant speaks of four sets of values: those in the array, those  *)
(* in the part of the old array that ht_resize has not taken yet, the one  *)
(* a loop carries, and the one an ht_set that resizes has still to insert. *)
(* They are disjoint, and together they are the live values.               *)
(*                                                                         *)
(* That a value is held next to the key it was set for needs more: ht_set  *)
(* updates an entry when the entry has the hash of the key it carries and  *)
(* the name of the key it was called with, and after a swap these are two  *)
(* keys.  They cannot be told apart only when no two keys have all 32 bits *)
(* of their hash in common.                                                *)

\* The values of the entries of an array from slot n on.
Vals(a, n) == {a[s].val : s \in WaitingFrom(a, n)}

\* No two of them are the same pointer.
Distinct(a, n) ==
  \A s, t \in WaitingFrom(a, n) : a[s].val = a[t].val => s = t

Carried == IF pc \in {"probe", "move"} THEN {carry.val} ELSE {}
Given   == IF op = "set" /\ pc \in {"resize", "move"} THEN {arg.val} ELSE {}

LiveValues == {v \in Values : owner[v] # NoKey}

HeldOnce ==
  /\ Distinct(slots, 0) /\ Distinct(old, pos)
  /\ LiveValues = Vals(slots, 0) \cup Vals(old, pos) \cup Carried \cup Given
  /\ Vals(slots, 0) \cap Vals(old, pos) = {}
  /\ Vals(slots, 0) \cap Carried = {} /\ Vals(slots, 0) \cap Given = {}
  /\ Vals(old, pos) \cap Carried = {} /\ Vals(old, pos) \cap Given = {}
  /\ Carried \cap Given = {}

-----------------------------------------------------------------------------
(* The values of an array                                                  *)
LEMMA ValsStored ==
  ASSUME NEW c \in Nat, NEW a \in [0 .. c - 1 -> Slot], NEW s \in 0 .. c - 1,
         NEW k \in Keys, NEW v \in Values,
         a[s].occ # 1, Distinct(a, 0), v \notin Vals(a, 0)
  PROVE  /\ Vals(With(a, s, k, v), 0) = Vals(a, 0) \cup {v}
         /\ Distinct(With(a, s, k, v), 0)
<1> DEFINE b == With(a, s, k, v)
<1>1. Occupied(b) = Occupied(a) \cup {s} /\ s \notin Occupied(a)
  BY Stored DEF Occupied
<1>2. /\ \A t \in Occupied(a) : t \in 0 .. c - 1 /\ b[t].val = a[t].val
      /\ b[s].val = v
  BY <1>1 DEF With, Entry, Occupied
<1> HIDE DEF b
<1>3. /\ WaitingFrom(b, 0) = WaitingFrom(a, 0) \cup {s}
      /\ WaitingFrom(a, 0) = Occupied(a)
  BY <1>1, <1>2 DEF WaitingFrom
<1>4. Vals(b, 0) = Vals(a, 0) \cup {v}
  BY <1>2, <1>3 DEF Vals
<1>5. Distinct(b, 0)
  BY <1>2, <1>3 DEF Distinct, Vals
<1> QED
  BY <1>4, <1>5 DEF b

LEMMA ValsReplaced ==
  ASSUME NEW c \in Nat, NEW a \in [0 .. c - 1 -> Slot], NEW s \in 0 .. c - 1,
         NEW k \in Keys, NEW v \in Values,
         a[s].occ = 1, Distinct(a, 0), v \notin Vals(a, 0)
  PROVE  /\ a[s].val \in Vals(a, 0) /\ a[s].val \in Values
         /\ Vals(With(a, s, k, v), 0) = (Vals(a, 0) \ {a[s].val}) \cup {v}
         /\ Distinct(With(a, s, k, v), 0)
<1> DEFINE b == With(a, s, k, v)
<1>1. Occupied(b) = Occupied(a) /\ s \in Occupied(a) /\ a[s].val \in Values
  <2>1. s \in Occupied(a)
    BY DEF Occupied
  <2>2. a[s].val \in Values
    BY SlotFields
  <2>3. Occupied(b) = Occupied(a) \cup {s}
    BY Stored
  <2> QED
    BY <2>1, <2>2, <2>3
<1>2. /\ \A t \in Occupied(a) : t \in 0 .. c - 1 /\ (t # s => b[t].val = a[t].val)
      /\ b[s].val = v
  BY <1>1 DEF With, Entry, Occupied
<1> HIDE DEF b
<1>3. WaitingFrom(b, 0) = Occupied(a) /\ WaitingFrom(a, 0) = Occupied(a)
  <2>1. \A t \in Occupied(a) : t >= 0
    BY <1>2
  <2> QED
    BY <1>1, <2>1 DEF WaitingFrom
<1>4. a[s].val \in Vals(a, 0)
  BY <1>1, <1>3 DEF Vals
<1>5. Vals(b, 0) = (Vals(a, 0) \ {a[s].val}) \cup {v}
  <2>1. ASSUME NEW w PROVE w \in Vals(b, 0) <=> w \in (Vals(a, 0) \ {a[s].val}) \cup {v}
    <3>1. \A t \in Occupied(a) : a[t].val = a[s].val => t = s
      BY <1>1, <1>3 DEF Distinct
    <3> QED
      BY <1>1, <1>2, <1>3, <3>1 DEF Vals
  <2> QED
    BY <2>1
<1>6. Distinct(b, 0)
  <2>1. \A t \in Occupied(a) : a[t].val # v
    BY <1>3 DEF Vals
  <2>2. \A t, u \in Occupied(a) : a[t].val = a[u].val => t = u
    BY <1>3 DEF Distinct
  <2>3. \A t, u \in Occupied(a) : b[t].val = b[u].val => t = u
    BY <1>2, <2>1, <2>2
  <2> QED
    BY <1>3, <2>3 DEF Distinct
<1> QED
  BY <1>1, <1>4, <1>5, <1>6 DEF b

LEMMA ValsBuried ==
  ASSUME NEW c \in Nat, NEW a \in [0 .. c - 1 -> Slot], NEW s \in 0 .. c - 1,
         a[s].occ = 1, Distinct(a, 0)
  PROVE  /\ a[s].val \in Vals(a, 0) /\ a[s].val \in Values
         /\ Vals(Without(a, s), 0) = Vals(a, 0) \ {a[s].val}
         /\ Distinct(Without(a, s), 0)
<1> DEFINE b == Without(a, s)
<1>1. /\ Occupied(b) = Occupied(a) \ {s} /\ s \in Occupied(a)
      /\ a[s].val \in Values
  <2>1. s \in Occupied(a)
    BY DEF Occupied
  <2>2. a[s].val \in Values
    BY SlotFields
  <2> QED
    BY <2>1, <2>2, Buried
<1>2. \A t \in Occupied(a) : t \in 0 .. c - 1 /\ (t # s => b[t].val = a[t].val)
  BY <1>1 DEF Without, Occupied
<1> HIDE DEF b
<1>3. /\ WaitingFrom(b, 0) = WaitingFrom(a, 0) \ {s}
      /\ WaitingFrom(a, 0) = Occupied(a)
  <2>1. \A t \in Occupied(a) : t >= 0
    BY <1>2
  <2> QED
    BY <1>1, <2>1 DEF WaitingFrom
<1>4. a[s].val \in Vals(a, 0)
  BY <1>1, <1>3 DEF Vals
<1>5. Vals(b, 0) = Vals(a, 0) \ {a[s].val}
  BY <1>1, <1>2, <1>3 DEF Vals, Distinct
<1>6. Distinct(b, 0)
  BY <1>1, <1>2, <1>3 DEF Distinct
<1> QED
  BY <1>1, <1>4, <1>5, <1>6 DEF b

\* ht_resize passes slot n of the old array.
LEMMA ValsPassed ==
  ASSUME NEW c \in Nat, NEW a \in [0 .. c - 1 -> Slot], NEW n \in 0 .. c - 1,
         Distinct(a, n)
  PROVE  /\ Distinct(a, n + 1)
         /\ a[n].occ # 1 => Vals(a, n + 1) = Vals(a, n)
         /\ a[n].occ = 1 => /\ a[n].val \in Vals(a, n) /\ a[n].val \in Values
                            /\ Vals(a, n + 1) = Vals(a, n) \ {a[n].val}
<1>1. \A s \in Occupied(a) : s \in Nat /\ s \in 0 .. c - 1
  BY DEF Occupied
<1>2. CASE a[n].occ # 1
  <2>1. WaitingFrom(a, n + 1) = WaitingFrom(a, n)
    BY <1>1, <1>2 DEF WaitingFrom, Occupied
  <2> QED
    BY <1>2, <2>1 DEF Vals, Distinct
<1>3. CASE a[n].occ = 1
  <2>1. /\ WaitingFrom(a, n + 1) = WaitingFrom(a, n) \ {n}
        /\ n \in WaitingFrom(a, n)
    BY <1>1, <1>3 DEF WaitingFrom, Occupied
  <2>2. a[n].val \in Values
    BY <1>3, SlotFields
  <2> QED
    BY <1>3, <2>1, <2>2 DEF Vals, Distinct
<1> QED
  BY <1>2, <1>3

LEMMA ValsNone ==
  ASSUME NEW c \in Nat, NEW n \in Nat
  PROVE  /\ \A a \in [0 .. c - 1 -> Slot] :
              n \notin 0 .. c - 1 => Vals(a, n) = {}
         /\ Vals(EmptySlots(c), n) = {} /\ Distinct(EmptySlots(c), n)
<1>1. ASSUME NEW a \in [0 .. c - 1 -> Slot], n \notin 0 .. c - 1
      PROVE  Vals(a, n) = {}
  <2>1. WaitingFrom(a, n) = {}
    BY <1>1 DEF WaitingFrom, Occupied
  <2> QED
    BY <2>1 DEF Vals
<1>2. WaitingFrom(EmptySlots(c), n) = {}
  BY Zeroed DEF WaitingFrom
<1> QED
  BY <1>1, <1>2 DEF Vals, Distinct
\* While ht_resize runs, the new array has no tombstones.
LEMMA NoTombstone ==
  ASSUME IInv, tombs = 0
  PROVE  Tombstones(slots) = {}
<1>1. IsFiniteSet(Tombstones(slots)) /\ Cardinality(Tombstones(slots)) = 0
  BY Facts, Countable
<1> QED
  BY <1>1, FS_EmptySet

\* Outside of ht_resize nothing waits in an old array.
LEMMA NothingOld ==
  /\ Vals(EmptySlots(0), 0) = {} /\ Distinct(EmptySlots(0), 0)
  /\ \A c \in Caps : Vals(EmptySlots(c), 0) = {} /\ Distinct(EmptySlots(c), 0)
BY ValsNone, CapsAssumption

LEMMA LiveChanges ==
  ASSUME IInv, NEW v \in Values
  PROVE  /\ \A k \in Keys : owner' = [owner EXCEPT ![v] = k] => LiveValues' = LiveValues \cup {v}
         /\ owner' = [owner EXCEPT ![v] = NoKey] => LiveValues' = LiveValues \ {v}
         /\ owner' = owner => LiveValues' = LiveValues
BY KeysAssumption DEF IInv, TypeOK, LiveValues

-----------------------------------------------------------------------------
(* One lemma per action                                                    *)
LEMMA HeldInit == Init => HeldOnce
<1> SUFFICES ASSUME Init PROVE HeldOnce
  OBVIOUS
<1>1. /\ Vals(slots, 0) = {} /\ Distinct(slots, 0)
      /\ Vals(old, pos) = {} /\ Distinct(old, pos)
  BY NothingOld, CapsAssumption DEF Init
<1>2. LiveValues = {} /\ Carried = {} /\ Given = {}
  BY DEF Init, LiveValues, Carried, Given
<1> QED
  BY <1>1, <1>2 DEF HeldOnce

LEMMA HeldSetCall ==
  ASSUME IInv, HeldOnce, NEW k \in Keys, NEW v \in Values, SetCall(k, v)
  PROVE  HeldOnce'
<1>1. /\ pc = "idle" /\ op = "none" /\ old = EmptySlots(0) /\ pos = 0
      /\ v \notin LiveValues
      /\ owner' = [owner EXCEPT ![v] = k]
      /\ op' = "set" /\ arg' = [key |-> k, val |-> v]
  BY DEF SetCall, IInv, Phases, LiveValues
<1>2. /\ LiveValues' = LiveValues \cup {v}
      /\ Carried = {} /\ Given = {} /\ Vals(old, pos) = {} /\ Distinct(old, pos)
  BY <1>1, LiveChanges, NothingOld DEF Carried, Given
<1>3. /\ LiveValues = Vals(slots, 0) /\ Distinct(slots, 0)
  BY <1>2 DEF HeldOnce
<1>4. CASE ResizedCap(2 * cap) \in Caps /\ BeginResize(2 * cap)
  <2>1. /\ old' = slots /\ pos' = 0 /\ pc' = "resize"
        /\ slots' = EmptySlots(ResizedCap(2 * cap))
    BY <1>4 DEF BeginResize
  <2>2. /\ Vals(slots', 0) = {} /\ Distinct(slots', 0)
        /\ Vals(old', pos') = Vals(slots, 0) /\ Distinct(old', pos')
    BY <1>3, <1>4, <2>1, NothingOld
  <2>3. Carried' = {} /\ Given' = {v}
    BY <1>1, <2>1 DEF Carried, Given
  <2> QED
    BY <1>1, <1>2, <1>3, <2>2, <2>3 DEF HeldOnce
<1>5. CASE BeginProbe(arg') /\ UNCHANGED <<table, resizing>>
  <2>1. slots' = slots /\ old' = old /\ pos' = pos /\ pc' = "probe" /\ carry'.val = v
    BY <1>1, <1>5 DEF BeginProbe, table, resizing
  <2>2. Carried' = {v} /\ Given' = {}
    BY <2>1 DEF Carried, Given
  <2> QED
    BY <1>1, <1>2, <1>3, <2>1, <2>2 DEF HeldOnce
<1> QED
  BY <1>4, <1>5 DEF SetCall

\* The pair that is carried goes into a free slot, for ht_set and ht_resize.
LEMMA HeldPlaced ==
  ASSUME IInv, HeldOnce, pc \in {"probe", "move"},
         slots[At(carry.key)].occ # 1,
         slots' = With(slots, At(carry.key), carry.key, carry.val),
         UNCHANGED <<owner, old, pos>>, Carried' = {}, Given' = Given
  PROVE  HeldOnce'
<1>1. carry.key \in Keys /\ carry.val \in Values
  BY DEF IInv, Phases, Pair
<1>2. At(carry.key) \in 0 .. cap - 1 /\ cap \in Nat /\ slots \in [0 .. cap - 1 -> Slot]
  BY <1>1, LookedAt, Facts
<1>3. Carried = {carry.val} /\ carry.val \notin Vals(slots, 0)
  BY DEF HeldOnce, Carried
<1>4. /\ Vals(slots', 0) = Vals(slots, 0) \cup {carry.val} /\ Distinct(slots', 0)
  BY <1>1, <1>2, <1>3, ValsStored DEF HeldOnce
<1>5. LiveValues' = LiveValues
  BY <1>1, LiveChanges
<1> QED
  BY <1>3, <1>4, <1>5 DEF HeldOnce

LEMMA HeldSetInsert ==
  ASSUME IInv, HeldOnce, SetInsert
  PROVE  HeldOnce'
<1>1. /\ pc = "probe" /\ pc' = "idle" /\ UNCHANGED <<owner, old, pos>>
      /\ slots[At(carry.key)].occ # 1
      /\ slots' = With(slots, At(carry.key), carry.key, carry.val)
  BY DEF SetInsert, Return, Leave, resizing
<1>2. Carried' = {} /\ Given = {} /\ Given' = {}
  BY <1>1 DEF Carried, Given
<1> QED
  BY <1>1, <1>2, HeldPlaced

LEMMA HeldMovePlace ==
  ASSUME IInv, HeldOnce, MovePlace
  PROVE  HeldOnce'
<1>1. /\ pc = "move" /\ pc' = "resize" /\ UNCHANGED <<owner, old, pos, op, arg>>
      /\ slots[At(carry.key)].occ # 1
      /\ slots' = With(slots, At(carry.key), carry.key, carry.val)
  BY DEF MovePlace, resizing
<1>2. Carried' = {} /\ Given' = Given
  BY <1>1 DEF Carried, Given
<1> QED
  BY <1>1, <1>2, HeldPlaced

\* An update frees the value it takes out.
LEMMA HeldSetUpdate ==
  ASSUME IInv, HeldOnce, SetUpdate
  PROVE  HeldOnce'
<1> DEFINE s == At(carry.key)
<1>1. /\ pc = "probe" /\ pc' = "idle" /\ UNCHANGED <<old, pos>> /\ slots[s].occ = 1
      /\ owner' = [owner EXCEPT ![slots[s].val] = NoKey]
      /\ slots' = With(slots, s, slots[s].key, carry.val)
  BY DEF SetUpdate, Return, Leave, resizing
<1>2. carry.key \in Keys /\ carry.val \in Values
  BY <1>1 DEF IInv, Phases, Pair
<1>3. s \in 0 .. cap - 1 /\ cap \in Nat /\ slots \in [0 .. cap - 1 -> Slot]
  BY <1>2, LookedAt, Facts
<1>4. slots[s].key \in Keys
  BY <1>1, <1>3, SlotFields
<1> HIDE DEF s
<1>5. Carried = {carry.val} /\ carry.val \notin Vals(slots, 0)
  BY <1>1 DEF HeldOnce, Carried
<1>6. /\ slots[s].val \in Vals(slots, 0) /\ slots[s].val \in Values
      /\ Vals(slots', 0) = (Vals(slots, 0) \ {slots[s].val}) \cup {carry.val}
      /\ Distinct(slots', 0)
  BY <1>1, <1>2, <1>3, <1>4, <1>5, ValsReplaced DEF HeldOnce
<1>7. LiveValues' = LiveValues \ {slots[s].val}
  BY <1>1, <1>6, LiveChanges
<1>8. Carried' = {} /\ Given = {} /\ Given' = {}
  BY <1>1 DEF Carried, Given
<1> QED
  BY <1>1, <1>5, <1>6, <1>7, <1>8 DEF HeldOnce

\* A swap exchanges the carried value with the one in the slot.
LEMMA HeldProbeOn ==
  ASSUME IInv, HeldOnce, SetProbeOn \/ MoveOn
  PROVE  HeldOnce'
<1> DEFINE s == At(carry.key)
<1>1. /\ pc \in {"probe", "move"} /\ ProbeOn(slots[s])
      /\ UNCHANGED <<pc, op, arg, old, pos, owner>>
  BY DEF SetProbeOn, MoveOn, resizing
<1>2. carry.key \in Keys /\ carry.val \in Values
  BY <1>1 DEF IInv, Phases, Pair
<1>3. /\ s \in 0 .. cap - 1 /\ cap \in Nat /\ slots \in [0 .. cap - 1 -> Slot]
      /\ slots[s] \in Slot
  BY <1>2, LookedAt, Facts
<1>4. slots[s].occ = 1
  <2>1. CASE SetProbeOn
    BY <2>1 DEF SetProbeOn
  <2>2. CASE MoveOn
    <3>1. tombs = 0 /\ slots[s].occ # 0
      BY <2>2 DEF MoveOn, IInv, Phases
    <3>2. s \notin Tombstones(slots)
      BY <1>3, <3>1, NoTombstone
    <3> QED
      BY <1>3, <3>1, <3>2, SlotFields DEF Tombstones
  <2> QED
    BY <2>1, <2>2
<1> HIDE DEF s
<1>5. Carried = {carry.val} /\ carry.val \notin Vals(slots, 0)
  BY <1>1 DEF HeldOnce, Carried
<1>6. Given' = Given /\ LiveValues' = LiveValues
  BY <1>1, <1>2, LiveChanges DEF Given
<1>7. CASE /\ slots' = With(slots, s, carry.key, carry.val)
           /\ carry' = [key |-> slots[s].key, val |-> slots[s].val]
  <2>1. /\ slots[s].val \in Vals(slots, 0) /\ slots[s].val \in Values
        /\ Vals(slots', 0) = (Vals(slots, 0) \ {slots[s].val}) \cup {carry.val}
        /\ Distinct(slots', 0)
    BY <1>2, <1>3, <1>4, <1>5, <1>7, ValsReplaced DEF HeldOnce
  <2>2. Carried' = {slots[s].val}
    BY <1>1, <1>7 DEF Carried
  <2> QED
    BY <1>1, <1>5, <1>6, <2>1, <2>2 DEF HeldOnce
<1>8. CASE slots' = slots /\ carry' = carry
  <2>1. Carried' = Carried
    BY <1>1, <1>8 DEF Carried
  <2> QED
    BY <1>1, <1>6, <1>8, <2>1 DEF HeldOnce
<1> QED
  BY <1>1, <1>7, <1>8 DEF ProbeOn, s
\* The outer loop of ht_resize, over slots without and with an entry.
LEMMA HeldResizing ==
  ASSUME IInv, HeldOnce, ResizeSkip \/ ResizeTake
  PROVE  HeldOnce'
<1>1. PICK n \in Caps \cup {0} : old \in [0 .. n - 1 -> Slot]
  BY DEF IInv, TypeOK
<1>2. n \in Nat /\ pos \in 0 .. n - 1
  BY <1>1, CapsAssumption DEF ResizeSkip, ResizeTake
<1>3. /\ pc = "resize" /\ pos' = pos + 1
      /\ UNCHANGED <<slots, op, arg, old, owner>>
  BY DEF ResizeSkip, ResizeTake, table
<1>4. /\ Distinct(old', pos')
      /\ old[pos].occ # 1 => Vals(old', pos') = Vals(old, pos)
      /\ old[pos].occ = 1 => /\ old[pos].val \in Vals(old, pos)
                             /\ old[pos].val \in Values
                             /\ Vals(old', pos') = Vals(old, pos) \ {old[pos].val}
  BY <1>1, <1>2, <1>3, ValsPassed DEF HeldOnce
<1>5. LiveValues' = LiveValues /\ Carried = {}
  BY <1>3 DEF LiveValues, Carried
<1>6. CASE ResizeSkip
  <2>1. Carried' = {} /\ Given' = Given
    BY <1>3, <1>6 DEF ResizeSkip, Carried, Given
  <2> QED
    BY <1>3, <1>4, <1>5, <1>6, <2>1 DEF ResizeSkip, HeldOnce
<1>7. CASE ResizeTake
  <2>1. /\ pc' = "move" /\ carry' = [key |-> old[pos].key, val |-> old[pos].val]
        /\ old[pos].occ = 1
    BY <1>7 DEF ResizeTake
  <2>2. Carried' = {old[pos].val} /\ Given' = Given
    BY <1>3, <2>1 DEF Carried, Given
  <2> QED
    BY <1>3, <1>4, <1>5, <2>1, <2>2 DEF HeldOnce
<1> QED
  BY <1>6, <1>7

\* ht_set goes on with the pair it was given; ht_delete is done.
LEMMA HeldResizeDone ==
  ASSUME IInv, HeldOnce, ResizeDone
  PROVE  HeldOnce'
<1>1. PICK n \in Caps \cup {0} : old \in [0 .. n - 1 -> Slot]
  BY DEF IInv, TypeOK
<1>2. n \in Nat /\ pos \in Nat /\ pos \notin 0 .. n - 1
  BY <1>1, CapsAssumption DEF ResizeDone, IInv, TypeOK
<1>3. Vals(old, pos) = {}
  BY <1>1, <1>2, ValsNone
<1>4. /\ pc = "resize" /\ old' = EmptySlots(0) /\ pos' = 0
      /\ slots' = slots /\ owner' = owner
  BY DEF ResizeDone, table
<1>5. Vals(old', pos') = {} /\ Distinct(old', pos') /\ LiveValues' = LiveValues /\ Carried = {}
  BY <1>4, NothingOld DEF LiveValues, Carried
<1>6. Carried' = Given /\ Given' = {}
  <2>1. CASE op = "set"
    <3>1. pc' = "probe" /\ carry' = arg
      BY <2>1 DEF ResizeDone, BeginProbe
    <3> QED
      BY <1>4, <2>1, <3>1 DEF Carried, Given
  <2>2. CASE op # "set"
    <3>1. pc' = "idle"
      BY <2>2 DEF ResizeDone, Leave
    <3> QED
      BY <2>2, <3>1 DEF Carried, Given
  <2> QED
    BY <2>1, <2>2
<1> QED
  BY <1>3, <1>4, <1>5, <1>6 DEF HeldOnce

\* A step of ht_find changes nothing that is held.
LEMMA HeldFinding ==
  ASSUME IInv, HeldOnce,
         UNCHANGED <<slots, old, pos, owner>>,
         pc \in {"idle", "find"}, pc' \in {"idle", "find"}
  PROVE  HeldOnce'
<1>1. Carried = {} /\ Given = {} /\ Carried' = {} /\ Given' = {} /\ LiveValues' = LiveValues
  BY DEF Carried, Given, LiveValues
<1> QED
  BY <1>1 DEF HeldOnce

LEMMA HeldDeleteHit ==
  ASSUME IInv, HeldOnce, DeleteHit
  PROVE  HeldOnce'
<1> DEFINE s == At(arg.key)
           b == Without(slots, s)
<1>1. /\ pc = "find" /\ op = "delete" /\ slots[s].occ = 1
      /\ owner' = [owner EXCEPT ![slots[s].val] = NoKey]
      /\ old = EmptySlots(0) /\ pos = 0 /\ arg.key \in Keys
  BY DEF DeleteHit, FindsHere, IInv, Phases
<1>2. s \in 0 .. cap - 1 /\ cap \in Nat /\ slots \in [0 .. cap - 1 -> Slot]
  BY <1>1, LookedAt, Facts
<1>3. /\ slots[s].val \in Vals(slots, 0) /\ slots[s].val \in Values
      /\ Vals(b, 0) = Vals(slots, 0) \ {slots[s].val} /\ Distinct(b, 0)
  BY <1>1, <1>2, ValsBuried DEF HeldOnce
<1>4. /\ LiveValues' = LiveValues \ {slots[s].val}
      /\ Vals(old, pos) = {} /\ Carried = {} /\ Given = {}
  BY <1>1, <1>3, LiveChanges, NothingOld DEF Carried, Given
<1>5. CASE MustShrink(cap, size - 1)
  <2>1. /\ old' = b /\ pos' = 0 /\ pc' = "resize" /\ op' = op
        /\ slots' = EmptySlots(ResizedCap(cap \div 2))
    BY <1>5 DEF DeleteHit
  <2>2. size - 1 \in Nat
    <3>1. s \in Occupied(slots)
      BY <1>1, <1>2 DEF Occupied
    <3>2. size # 0
      BY <3>1, Facts, Countable, FS_EmptySet
    <3> QED
      BY <3>2, Facts
  <2>3. ResizedCap(cap \div 2) \in Caps
    BY <1>5, <2>2, Facts, ShrinkTest
  <2>4. /\ Vals(slots', 0) = {} /\ Distinct(slots', 0)
    BY <2>1, <2>3, NothingOld
  <2>5. Carried' = {} /\ Given' = {}
    BY <1>1, <2>1 DEF Carried, Given
  <2> HIDE DEF b
  <2> QED
    BY <1>3, <1>4, <2>1, <2>4, <2>5 DEF HeldOnce
<1>6. CASE ~MustShrink(cap, size - 1)
  <2>1. old' = old /\ pos' = pos /\ pc' = "idle" /\ slots' = b
    BY <1>6 DEF DeleteHit, Leave, resizing
  <2>2. Carried' = {} /\ Given' = {}
    BY <2>1 DEF Carried, Given
  <2> HIDE DEF b
  <2> QED
    BY <1>3, <1>4, <2>1, <2>2 DEF HeldOnce
<1> QED
  BY <1>5, <1>6

\* db_flush frees all that the array holds, and nothing is held elsewhere.
LEMMA HeldRecreate ==
  ASSUME IInv, HeldOnce, Recreate
  PROVE  HeldOnce'
<1>1. /\ pc = "idle" /\ op = "none" /\ UNCHANGED <<pc, op, arg, carry, old, pos>>
      /\ old = EmptySlots(0) /\ pos = 0
      /\ slots' = EmptySlots(MinCap)
      /\ owner' = [v \in Values |->
                     IF \E s \in Occupied(slots) : slots[s].val = v
                       THEN NoKey ELSE owner[v]]
  BY DEF Recreate, IInv, Phases, resizing
<1>2. /\ Vals(slots', 0) = {} /\ Distinct(slots', 0)
      /\ Vals(old, pos) = {} /\ Carried = {} /\ Given = {}
      /\ Carried' = {} /\ Given' = {}
  BY <1>1, NothingOld, CapsAssumption DEF Carried, Given
<1>3. LiveValues' = {}
  <2>1. WaitingFrom(slots, 0) = Occupied(slots)
    BY Facts DEF WaitingFrom, Occupied
  <2>2. \A v \in Values : owner[v] # NoKey => \E s \in Occupied(slots) : slots[s].val = v
    BY <1>2, <2>1 DEF HeldOnce, LiveValues, Vals
  <2> QED
    BY <1>1, <2>2 DEF LiveValues
<1> QED
  BY <1>1, <1>2, <1>3 DEF HeldOnce

LEMMA HeldStep ==
  ASSUME IInv, HeldOnce, [Next]_vars
  PROVE  HeldOnce'
<1>1. CASE \E k \in Keys, v \in Values : SetCall(k, v)
  BY <1>1, HeldSetCall
<1>2. CASE \E k \in Keys : FindCall("get", k) \/ FindCall("delete", k)
  <2>1. /\ UNCHANGED <<slots, old, pos, owner>>
        /\ pc \in {"idle", "find"} /\ pc' \in {"idle", "find"}
    BY <1>2 DEF FindCall, table, resizing
  <2> QED
    BY <2>1, HeldFinding
<1>3. CASE Recreate
  BY <1>3, HeldRecreate
<1>4. CASE SetInsert
  BY <1>4, HeldSetInsert
<1>5. CASE SetUpdate
  BY <1>5, HeldSetUpdate
<1>6. CASE SetProbeOn \/ MoveOn
  BY <1>6, HeldProbeOn
<1>7. CASE ResizeSkip \/ ResizeTake
  BY <1>7, HeldResizing
<1>8. CASE MovePlace
  BY <1>8, HeldMovePlace
<1>9. CASE ResizeDone
  BY <1>9, HeldResizeDone
<1>10. CASE FindMiss \/ FindHit \/ FindNext
  <2>1. /\ UNCHANGED <<slots, old, pos, owner>>
        /\ pc \in {"idle", "find"} /\ pc' \in {"idle", "find"}
    BY <1>10 DEF FindMiss, FindHit, FindNext, Return, Leave, table, resizing
  <2> QED
    BY <2>1, HeldFinding
<1>11. CASE DeleteHit
  BY <1>11, HeldDeleteHit
<1>12. CASE UNCHANGED vars
  BY <1>12 DEF vars, HeldOnce, LiveValues, Carried, Given
<1> QED
  BY <1>1, <1>2, <1>3, <1>4, <1>5, <1>6, <1>7, <1>8, <1>9, <1>10, <1>11, <1>12
  DEF Next, Call, Step

\* No value that ht_set was given leaks, is freed twice or ends up in two
\* places, for every hash function, colliding keys included.
THEOREM ValuesAreHeldOnce == Spec => []HeldOnce
<1>1. IInv /\ HeldOnce /\ [Next]_vars => HeldOnce'
  BY HeldStep
<1> QED
  BY <1>1, HeldInit, Invariance, PTL DEF Spec
-----------------------------------------------------------------------------
(* Values and their keys                                                   *)
Labels(a, n, f) == \A s \in WaitingFrom(a, n) : f[a[s].val] = a[s].key

Labelled ==
  /\ Labels(slots, 0, owner) /\ Labels(old, pos, owner)
  /\ pc \in {"probe", "move"} => owner[carry.val] = carry.key
  /\ op = "set" /\ pc \in {"resize", "move"} => owner[arg.val] = arg.key

LEMMA LabelsStored ==
  ASSUME NEW c \in Nat, NEW a \in [0 .. c - 1 -> Slot], NEW s \in 0 .. c - 1,
         NEW k \in Keys, NEW v \in Values, NEW f, Labels(a, 0, f), f[v] = k
  PROVE  Labels(With(a, s, k, v), 0, f)
<1> DEFINE b == With(a, s, k, v)
<1>1. Occupied(b) = Occupied(a) \cup {s}
  BY Stored
<1>2. /\ \A t \in Occupied(a) : /\ t \in 0 .. c - 1
                                /\ t # s => b[t].val = a[t].val /\ b[t].key = a[t].key
      /\ b[s].val = v /\ b[s].key = k
  BY DEF With, Entry, Occupied
<1> HIDE DEF b
<1>3. \A t \in Occupied(a) : f[a[t].val] = a[t].key
  BY <1>2 DEF Labels, WaitingFrom
<1>4. \A t \in WaitingFrom(b, 0) : f[b[t].val] = b[t].key
  BY <1>1, <1>2, <1>3 DEF WaitingFrom
<1> QED
  BY <1>4 DEF Labels, b

LEMMA LabelsBuried ==
  ASSUME NEW c \in Nat, NEW a \in [0 .. c - 1 -> Slot], NEW s \in 0 .. c - 1,
         NEW f, Labels(a, 0, f)
  PROVE  Labels(Without(a, s), 0, f)
<1> DEFINE b == Without(a, s)
<1>1. Occupied(b) = Occupied(a) \ {s}
  BY Buried
<1>2. \A t \in Occupied(a) : /\ t \in 0 .. c - 1
                             /\ t # s => b[t].val = a[t].val /\ b[t].key = a[t].key
  BY DEF Without, Occupied
<1> HIDE DEF b
<1>3. \A t \in WaitingFrom(b, 0) : f[b[t].val] = b[t].key
  BY <1>1, <1>2 DEF WaitingFrom, Labels
<1> QED
  BY <1>3 DEF Labels, b

\* A history that changes for one value only does not matter to the others.
LEMMA LabelsKept ==
  ASSUME NEW a, NEW n, NEW f, NEW v \in Values, NEW k,
         f \in [Values -> Keys \cup {NoKey}], Labels(a, n, f), v \notin Vals(a, n)
  PROVE  Labels(a, n, [f EXCEPT ![v] = k])
BY DEF Labels, Vals

LEMMA LabelsNone ==
  ASSUME NEW f
  PROVE  /\ Labels(EmptySlots(0), 0, f)
         /\ \A c \in Caps : Labels(EmptySlots(c), 0, f)
<1>1. \A c \in Caps \cup {0} : Occupied(EmptySlots(c)) = {}
  BY Zeroed, CapsAssumption
<1> QED
  BY <1>1 DEF Labels, WaitingFrom

LEMMA LabelsPassed ==
  ASSUME NEW a, NEW c \in Nat, a \in [0 .. c - 1 -> Slot], NEW n \in Nat, NEW f,
         Labels(a, n, f)
  PROVE  Labels(a, n + 1, f)
<1>1. \A s \in Occupied(a) : s \in Nat
  BY DEF Occupied
<1> QED
  BY <1>1 DEF Labels, WaitingFrom

\* LiveValues values only are held.
LEMMA HeldAreLive ==
  ASSUME IInv, HeldOnce
  PROVE  /\ \A v \in Values : owner[v] = NoKey =>
              v \notin Vals(slots, 0) /\ v \notin Vals(old, pos)
         /\ owner \in [Values -> Keys \cup {NoKey}]
BY DEF HeldOnce, LiveValues, IInv, TypeOK

LEMMA LabelledSetCall ==
  ASSUME IInv, HeldOnce, Labelled, NEW k \in Keys, NEW v \in Values, SetCall(k, v)
  PROVE  Labelled'
<1>1. /\ pc = "idle" /\ old = EmptySlots(0) /\ pos = 0 /\ owner[v] = NoKey
      /\ owner' = [owner EXCEPT ![v] = k]
      /\ op' = "set" /\ arg' = [key |-> k, val |-> v]
  BY DEF SetCall, IInv, Phases
<1>2. Labels(slots, 0, owner') /\ Labels(old, pos, owner') /\ owner'[v] = k
  BY <1>1, HeldAreLive, LabelsKept DEF Labelled
<1>3. CASE ResizedCap(2 * cap) \in Caps /\ BeginResize(2 * cap)
  <2>1. /\ old' = slots /\ pos' = 0 /\ pc' = "resize"
        /\ slots' = EmptySlots(ResizedCap(2 * cap))
    BY <1>3 DEF BeginResize
  <2>2. Labels(slots', 0, owner') /\ Labels(old', pos', owner')
    BY <1>2, <1>3, <2>1, LabelsNone
  <2> QED
    BY <1>1, <1>2, <2>1, <2>2 DEF Labelled
<1>4. CASE BeginProbe(arg') /\ UNCHANGED <<table, resizing>>
  <2>1. slots' = slots /\ old' = old /\ pos' = pos /\ pc' = "probe" /\ carry' = arg'
    BY <1>4 DEF BeginProbe, table, resizing
  <2>2. Labels(slots', 0, owner') /\ Labels(old', pos', owner')
    BY <1>2, <2>1
  <2>3. owner'[carry'.val] = carry'.key
    BY <1>1, <1>2, <2>1
  <2> QED
    BY <2>1, <2>2, <2>3 DEF Labelled
<1> QED
  BY <1>3, <1>4 DEF SetCall

\* The pair that is carried goes into a slot.
LEMMA LabelledPlaced ==
  ASSUME IInv, Labelled, SetInsert \/ MovePlace
  PROVE  Labelled'
<1> DEFINE s == At(carry.key)
<1>1. /\ pc \in {"probe", "move"} /\ UNCHANGED <<owner, old, pos>>
      /\ slots' = With(slots, s, carry.key, carry.val)
      /\ \/ pc' = "idle"
         \/ pc = "move" /\ pc' = "resize" /\ op' = op /\ arg' = arg
  BY DEF SetInsert, MovePlace, Return, Leave, resizing
<1>2. carry.key \in Keys /\ carry.val \in Values
  BY <1>1 DEF IInv, Phases, Pair
<1>3. s \in 0 .. cap - 1 /\ cap \in Nat /\ slots \in [0 .. cap - 1 -> Slot]
  BY <1>2, LookedAt, Facts
<1>4. owner[carry.val] = carry.key
  BY <1>1 DEF Labelled
<1> HIDE DEF s
<1>5. Labels(slots', 0, owner)
  BY <1>1, <1>2, <1>3, <1>4, LabelsStored DEF Labelled
<1> QED
  BY <1>1, <1>5 DEF Labelled

\* The one step that needs the hashes to differ: the entry that is updated has
\* the key of the value that is put into it.
LEMMA LabelledSetUpdate ==
  ASSUME HashesDiffer, IInv, HeldOnce, Labelled, SetUpdate
  PROVE  Labelled'
<1> DEFINE s == At(carry.key)
           e == slots[s]
           f == owner'
<1>1. /\ pc = "probe" /\ pc' = "idle" /\ UNCHANGED <<old, pos>> /\ e.occ = 1
      /\ owner' = [owner EXCEPT ![e.val] = NoKey]
      /\ slots' = With(slots, s, e.key, carry.val)
      /\ Hash[e.key] = Hash[carry.key]
      /\ old = EmptySlots(0) /\ pos = 0
  BY DEF SetUpdate, Return, Leave, resizing, Matches, IInv, Phases
<1>2. carry.key \in Keys /\ carry.val \in Values
  BY <1>1 DEF IInv, Phases, Pair
<1>3. s \in 0 .. cap - 1 /\ cap \in Nat /\ slots \in [0 .. cap - 1 -> Slot]
  BY <1>2, LookedAt, Facts
<1>4. e.key \in Keys /\ e.val \in Values
  BY <1>1, <1>3, SlotFields
<1>5. e.key = carry.key
  BY <1>1, <1>2, <1>4 DEF HashesDiffer
<1>6. owner[carry.val] = carry.key /\ carry.val \notin Vals(slots, 0)
  BY <1>1 DEF Labelled, HeldOnce, Carried
<1>7. e.val \in Vals(slots, 0) /\ Distinct(slots, 0)
  BY <1>1, <1>2, <1>3, <1>6, ValsReplaced DEF HeldOnce
<1>8. Labels(slots', 0, owner)
  BY <1>1, <1>2, <1>3, <1>5, <1>6, LabelsStored DEF Labelled
<1>9. e.val \notin Vals(slots', 0)
  <2>1. Vals(slots', 0) = (Vals(slots, 0) \ {e.val}) \cup {carry.val}
    BY <1>1, <1>2, <1>3, <1>4, <1>6, <1>7, ValsReplaced
  <2>2. e.val # carry.val
    BY <1>6, <1>7
  <2> QED
    BY <2>1, <2>2
<1> HIDE DEF e
<1>10. Labels(slots', 0, owner')
  BY <1>1, <1>4, <1>8, <1>9, HeldAreLive, LabelsKept
<1>11. Labels(old', pos', owner')
  BY <1>1, LabelsNone
<1> QED
  BY <1>1, <1>10, <1>11 DEF Labelled

LEMMA LabelledProbeOn ==
  ASSUME IInv, Labelled, SetProbeOn \/ MoveOn
  PROVE  Labelled'
<1> DEFINE s == At(carry.key)
<1>1. /\ pc \in {"probe", "move"} /\ ProbeOn(slots[s])
      /\ UNCHANGED <<pc, op, arg, old, pos, owner>>
      /\ slots[s].occ # 0
  BY DEF SetProbeOn, MoveOn, resizing
<1>2. carry.key \in Keys /\ carry.val \in Values
  BY <1>1 DEF IInv, Phases, Pair
<1>3. /\ s \in 0 .. cap - 1 /\ cap \in Nat /\ slots \in [0 .. cap - 1 -> Slot]
      /\ slots[s] \in Slot
  BY <1>2, LookedAt, Facts
<1>4. slots[s].occ = 1
  <2>1. CASE SetProbeOn
    BY <2>1 DEF SetProbeOn
  <2>2. CASE MoveOn
    <3>1. s \notin Tombstones(slots)
      BY <1>3, <2>2, NoTombstone DEF MoveOn, IInv, Phases
    <3> QED
      BY <1>1, <1>3, <3>1, SlotFields DEF Tombstones
  <2> QED
    BY <2>1, <2>2
<1>5. owner[carry.val] = carry.key
  BY <1>1 DEF Labelled
<1> HIDE DEF s
<1>6. owner[slots[s].val] = slots[s].key
  BY <1>3, <1>4 DEF Labelled, Labels, WaitingFrom, Occupied
<1>7. CASE /\ slots' = With(slots, s, carry.key, carry.val)
           /\ carry' = [key |-> slots[s].key, val |-> slots[s].val]
  <2>1. Labels(slots', 0, owner)
    BY <1>2, <1>3, <1>5, <1>7, LabelsStored DEF Labelled
  <2> QED
    BY <1>1, <1>6, <1>7, <2>1 DEF Labelled
<1>8. CASE slots' = slots /\ carry' = carry
  BY <1>1, <1>8 DEF Labelled
<1> QED
  BY <1>1, <1>7, <1>8 DEF ProbeOn, s
LEMMA LabelledResizing ==
  ASSUME IInv, Labelled, ResizeSkip \/ ResizeTake
  PROVE  Labelled'
<1>1. PICK n \in Caps \cup {0} : old \in [0 .. n - 1 -> Slot]
  BY DEF IInv, TypeOK
<1>2. n \in Nat /\ pos \in Nat /\ pos \in 0 .. n - 1
  BY <1>1, CapsAssumption DEF ResizeSkip, ResizeTake, IInv, TypeOK
<1>3. /\ pc = "resize" /\ pos' = pos + 1 /\ UNCHANGED <<slots, op, arg, old, owner>>
  BY DEF ResizeSkip, ResizeTake, table
<1>4. Labels(old', pos', owner')
  BY <1>1, <1>2, <1>3, LabelsPassed DEF Labelled
<1>5. CASE ResizeSkip
  <2>1. pc' = "resize"
    BY <1>3, <1>5 DEF ResizeSkip
  <2> QED
    BY <1>3, <1>4, <2>1 DEF Labelled
<1>6. CASE ResizeTake
  <2>1. /\ pc' = "move" /\ carry' = [key |-> old[pos].key, val |-> old[pos].val]
        /\ old[pos].occ = 1
    BY <1>6 DEF ResizeTake
  <2>2. owner[old[pos].val] = old[pos].key
    BY <1>1, <1>2, <2>1 DEF Labelled, Labels, WaitingFrom, Occupied
  <2> QED
    BY <1>3, <1>4, <2>1, <2>2 DEF Labelled
<1> QED
  BY <1>5, <1>6

LEMMA LabelledResizeDone ==
  ASSUME IInv, Labelled, ResizeDone
  PROVE  Labelled'
<1>1. /\ pc = "resize" /\ old' = EmptySlots(0) /\ pos' = 0
      /\ slots' = slots /\ owner' = owner
  BY DEF ResizeDone, table
<1>2. Labels(slots', 0, owner') /\ Labels(old', pos', owner')
  BY <1>1, LabelsNone DEF Labelled
<1>3. CASE op = "set"
  <2>1. pc' = "probe" /\ carry' = arg
    BY <1>3 DEF ResizeDone, BeginProbe
  <2> QED
    BY <1>1, <1>2, <1>3, <2>1 DEF Labelled
<1>4. CASE op # "set"
  <2>1. pc' = "idle"
    BY <1>4 DEF ResizeDone, Leave
  <2> QED
    BY <1>2, <2>1 DEF Labelled
<1> QED
  BY <1>3, <1>4

LEMMA LabelledDeleteHit ==
  ASSUME IInv, HeldOnce, Labelled, DeleteHit
  PROVE  Labelled'
<1> DEFINE s == At(arg.key)
           b == Without(slots, s)
<1>1. /\ pc = "find" /\ op = "delete" /\ slots[s].occ = 1
      /\ owner' = [owner EXCEPT ![slots[s].val] = NoKey]
      /\ old = EmptySlots(0) /\ pos = 0 /\ arg.key \in Keys
  BY DEF DeleteHit, FindsHere, IInv, Phases
<1>2. s \in 0 .. cap - 1 /\ cap \in Nat /\ slots \in [0 .. cap - 1 -> Slot]
  BY <1>1, LookedAt, Facts
<1>3. slots[s].val \in Values /\ slots[s].val \notin Vals(b, 0)
  BY <1>1, <1>2, ValsBuried DEF HeldOnce
<1>4. Labels(b, 0, owner)
  BY <1>2, LabelsBuried DEF Labelled
<1> HIDE DEF b
<1>5. Labels(b, 0, owner')
  BY <1>1, <1>3, <1>4, HeldAreLive, LabelsKept
<1>6. CASE MustShrink(cap, size - 1)
  <2>1. /\ old' = b /\ pos' = 0 /\ pc' = "resize" /\ op' = op
        /\ slots' = EmptySlots(ResizedCap(cap \div 2))
    BY <1>6 DEF DeleteHit, b
  <2>2. size - 1 \in Nat
    <3>1. s \in Occupied(slots)
      BY <1>1, <1>2 DEF Occupied
    <3>2. size # 0
      BY <3>1, Facts, Countable, FS_EmptySet
    <3> QED
      BY <3>2, Facts
  <2>3. ResizedCap(cap \div 2) \in Caps
    BY <1>6, <2>2, Facts, ShrinkTest
  <2>4. Labels(slots', 0, owner') /\ Labels(old', pos', owner')
    BY <1>5, <2>1, <2>3, LabelsNone
  <2> QED
    BY <1>1, <2>1, <2>4 DEF Labelled
<1>7. CASE ~MustShrink(cap, size - 1)
  <2>1. old' = old /\ pos' = pos /\ pc' = "idle" /\ slots' = b
    BY <1>7 DEF DeleteHit, Leave, resizing, b
  <2>2. Labels(old', pos', owner')
    BY <1>1, <2>1, LabelsNone
  <2> QED
    BY <1>5, <2>1, <2>2 DEF Labelled
<1> QED
  BY <1>6, <1>7

LEMMA LabelledStep ==
  ASSUME HashesDiffer, IInv, HeldOnce, Labelled, [Next]_vars
  PROVE  Labelled'
<1>1. CASE \E k \in Keys, v \in Values : SetCall(k, v)
  BY <1>1, LabelledSetCall
<1>2. CASE \E k \in Keys : FindCall("get", k) \/ FindCall("delete", k)
  <2>1. UNCHANGED <<slots, old, pos, owner>> /\ pc' = "find"
    BY <1>2 DEF FindCall, table, resizing
  <2> QED
    BY <2>1 DEF Labelled
<1>3. CASE Recreate
  <2>1. /\ pc = "idle" /\ pc' = pc /\ slots' = EmptySlots(MinCap)
        /\ old' = EmptySlots(0) /\ pos' = 0
    BY <1>3 DEF Recreate, resizing, IInv, Phases
  <2>2. Labels(slots', 0, owner') /\ Labels(old', pos', owner')
    BY <2>1, LabelsNone, CapsAssumption
  <2> QED
    BY <2>1, <2>2 DEF Labelled
<1>4. CASE SetInsert \/ MovePlace
  BY <1>4, LabelledPlaced
<1>5. CASE SetUpdate
  BY <1>5, LabelledSetUpdate
<1>6. CASE SetProbeOn \/ MoveOn
  BY <1>6, LabelledProbeOn
<1>7. CASE ResizeSkip \/ ResizeTake
  BY <1>7, LabelledResizing
<1>8. CASE ResizeDone
  BY <1>8, LabelledResizeDone
<1>9. CASE FindMiss \/ FindHit \/ FindNext
  <2>1. UNCHANGED <<slots, old, pos, owner>> /\ pc' \in {"idle", "find"}
    BY <1>9 DEF FindMiss, FindHit, FindNext, Return, Leave, table, resizing
  <2> QED
    BY <2>1 DEF Labelled
<1>10. CASE DeleteHit
  BY <1>10, LabelledDeleteHit
<1>11. CASE UNCHANGED vars
  BY <1>11 DEF vars, Labelled
<1> QED
  BY <1>1, <1>2, <1>3, <1>4, <1>5, <1>6, <1>7, <1>8, <1>9, <1>10, <1>11
  DEF Next, Call, Step

\* What the two invariants say of sets and arrays, said of places.
LEMMA OwnershipFollows ==
  ASSUME IInv, HeldOnce, Labelled
  PROVE  Ownership
<1> DEFINE S == WaitingFrom(slots, 0)
           O == WaitingFrom(old, pos)
           C == pc \in {"probe", "move"}
           G == op = "set" /\ pc \in {"resize", "move"}
<1>1. S = Occupied(slots) /\ O = {s \in Occupied(old) : s >= pos}
  BY Facts DEF WaitingFrom, Occupied
<1>2. ASSUME NEW p \in Places
      PROVE  \/ \E s \in S : p = <<"slot", s>> /\ PairAt(p) = slots[s]
             \/ \E s \in O : p = <<"old", s>> /\ PairAt(p) = old[s]
             \/ C /\ p = <<"carry", 0>> /\ PairAt(p) = carry
             \/ G /\ p = <<"arg", 0>> /\ PairAt(p) = arg
  BY <1>1 DEF Places, PairAt
<1>3. /\ \A s \in S : <<"slot", s>> \in Places /\ PairAt(<<"slot", s>>) = slots[s]
      /\ \A s \in O : <<"old", s>> \in Places /\ PairAt(<<"old", s>>) = old[s]
      /\ C => <<"carry", 0>> \in Places /\ PairAt(<<"carry", 0>>) = carry
      /\ G => <<"arg", 0>> \in Places /\ PairAt(<<"arg", 0>>) = arg
  BY <1>1 DEF Places, PairAt
<1>4. /\ Vals(slots, 0) = {slots[s].val : s \in S}
      /\ Vals(old, pos) = {old[s].val : s \in O}
      /\ Carried = IF C THEN {carry.val} ELSE {}
      /\ Given = IF G THEN {arg.val} ELSE {}
  BY DEF Vals, Carried, Given
<1> HIDE DEF S, O, C, G
<1>5. ASSUME NEW p \in Places
      PROVE  owner[PairAt(p).val] = PairAt(p).key
  BY <1>2 DEF Labelled, Labels, S, O, C, G
<1>6. ASSUME NEW p \in Places, NEW q \in Places, PairAt(p).val = PairAt(q).val
      PROVE  p = q
  BY <1>2, <1>4, <1>6 DEF HeldOnce, Distinct, S, O, C, G
<1>7. ASSUME NEW v \in Values, owner[v] # NoKey
      PROVE  \E p \in Places : PairAt(p).val = v
  <2>1. v \in Vals(slots, 0) \cup Vals(old, pos) \cup Carried \cup Given
    BY <1>7 DEF HeldOnce, LiveValues
  <2> QED
    BY <1>3, <1>4, <2>1
<1> QED
  BY <1>5, <1>6, <1>7 DEF Ownership

\* Every value that was set and not freed since is held in exactly one place,
\* next to the key it was set for, at every step of every loop: as long as no
\* two keys have the same 32 bits of hash.
THEOREM ValuesAreOwned ==
  ASSUME HashesDiffer
  PROVE  Spec => []Ownership
<1>1. Init => Labelled
  <2> SUFFICES ASSUME Init PROVE Labelled
    OBVIOUS
  <2>1. Labels(slots, 0, owner) /\ Labels(old, pos, owner)
    BY LabelsNone, CapsAssumption DEF Init
  <2> QED
    BY <2>1 DEF Init, Labelled
<1>2. IInv /\ HeldOnce /\ Labelled /\ [Next]_vars => Labelled'
  BY LabelledStep
<1>3. IInv /\ HeldOnce /\ Labelled => Ownership
  BY OwnershipFollows
<1> QED
  BY <1>1, <1>2, <1>3, Invariance, ValuesAreHeldOnce, PTL DEF Spec
-----------------------------------------------------------------------------
(* Whole calls: what the loops of a call come to is what the operator with *)
(* its name says.  In every state the rest of the running loop, begun from *)
(* where it is now, has the result of the whole call, begun from the table *)
(* it found; each step is one turn of one of the recursive functions.      *)

Current == Now.ht
Start   == before.ht
Running == [t |-> Current, k |-> carry.key, v |-> carry.val, i |-> i]

\* What a call that resizes passes to ht_resize.
WithoutEntry(t, k) == Bury(t, HtFind(t, k))
Source == IF op = "set" THEN Start ELSE WithoutEntry(Start, arg.key)
Target == IF op = "set" THEN 2 * Start.cap ELSE Start.cap \div 2

Resizes ==
  IF op = "set"
    THEN MustGrow(Start.cap, Start.size + Start.tombs)
    ELSE /\ arg.key \in Keys /\ HtExists(Start, arg.key)
         /\ MustShrink(Start.cap, Start.size - 1)
         /\ ret = 1

Going ==
  /\ Start \in Good(Values) /\ Start.cap \in Caps
  /\ pc = "idle" => before = Now
  /\ op = "set" => Fits(Start) /\ arg.val \notin Live(Start)
  /\ pc = "probe" =>
       SetFrom(cap, arg.key)[Running] = SetResult(Start, arg.key, arg.val)
  /\ pc = "find" =>
       Current = Start /\ FindFrom(Start, arg.key)[i] = HtFind(Start, arg.key)
  /\ pc \in {"resize", "move"} =>
       Resizes /\ old = Source.slots /\ cap = ResizedCap(Target) /\ pos \in 0 .. Start.cap
  /\ pc = "resize" => Current = MoveFrom(Source, Target)[pos]
  /\ pc = "move" =>
       pos > 0 /\ PlaceFrom(cap)[Running] = MoveFrom(Source, Target)[pos]

\* The operators of the instance are those of HashTableOps.
LEMMA SameCalls ==
  /\ \A t, k : /\ Whole!HtExists(t, k) = HtExists(t, k)
               /\ Whole!HtGet(t, k) = HtGet(t, k)
               /\ Whole!HtDelete(t, k) = HtDelete(t, k)
  /\ \A t, k, v : Whole!SetResult(t, k, v) = SetResult(t, k, v)
  /\ \A t : Whole!Fits(t) = Fits(t) /\ Whole!Live(t) = Live(t)
  /\ Whole!EmptyTable = EmptyTable
<1> USE DEF Whole!ProbeIndex, ProbeIndex, Whole!ProbeDistance, ProbeDistance,
            Whole!Poorer, Poorer, Whole!Matches, Matches, Whole!MustGrow, MustGrow,
            Whole!MustShrink, MustShrink, Whole!ResizedCap, ResizedCap,
            Whole!Entry, Entry, Whole!EmptySlot, EmptySlot, Whole!Tombstone, Tombstone,
            Whole!Slot, Slot, Whole!EmptySlots, EmptySlots, Whole!With, With,
            Whole!Without, Without, Whole!Occupied, Occupied, Whole!Cleared, Cleared,
            Whole!EmptyTable, EmptyTable, Whole!Put, Put, Whole!Place, Place,
            Whole!Onward, Onward, Whole!Index, Index, Whole!Begin, Begin,
            Whole!Loops, Loops, Whole!Tables, Tables, Whole!Fresh, Fresh
<1>1. ASSUME NEW t, NEW k
      PROVE  Whole!HtExists(t, k) = HtExists(t, k) /\ Whole!HtGet(t, k) = HtGet(t, k)
  BY Zenon DEF Whole!HtExists, HtExists, Whole!HtGet, HtGet, Whole!HtFind, HtFind,
               Whole!Finding, Finding
<1>2. ASSUME NEW t, NEW k PROVE Whole!HtDelete(t, k) = HtDelete(t, k)
  BY Zenon DEF Whole!HtDelete, HtDelete, Whole!HtExists, HtExists, Whole!HtFind, HtFind,
               Whole!Finding, Finding, Whole!Bury, Bury, Whole!HtResize, HtResize,
               Whole!Moved, Moved, Whole!Reinsert, Reinsert, Whole!Reinsertion, Reinsertion
<1>3. ASSUME NEW t, NEW k, NEW v PROVE Whole!SetResult(t, k, v) = SetResult(t, k, v)
  BY Zenon DEF Whole!SetResult, SetResult, Whole!SetLoop, SetLoop, Whole!Setting, Setting,
               Whole!Insert, Insert, Whole!HtResize, HtResize, Whole!Moved, Moved,
               Whole!Reinsert, Reinsert, Whole!Reinsertion, Reinsertion
<1>4. ASSUME NEW t PROVE Whole!Fits(t) = Fits(t) /\ Whole!Live(t) = Live(t)
  BY Zenon DEF Whole!Fits, Fits, Whole!Live, Live
<1>5. Whole!EmptyTable = EmptyTable
  BY Zenon
<1> QED
  BY <1>1, <1>2, <1>3, <1>4, <1>5

\* ht_resize as a call that resizes runs it: the loop over the old array.
LEMMA Resizing ==
  ASSUME NEW t \in Good(Values), NEW s, NEW n,
         \/ s = t /\ n = 2 * t.cap
         \/ \E k \in Keys : /\ HtExists(t, k) /\ s = WithoutEntry(t, k) /\ n = t.cap \div 2
                            /\ MustShrink(t.cap, t.size - 1)
  PROVE  /\ s.cap = t.cap /\ s.slots \in [0 .. t.cap - 1 -> Slot] /\ t.cap \in Nat
         /\ MoveFrom(s, n)[0] = Cleared(ResizedCap(n))
         /\ \A m \in 0 .. t.cap - 1 :
              MoveFrom(s, n)[m + 1] = Moved(MoveFrom(s, n)[m], s.slots[m])
         /\ HtResize(s, n) = MoveFrom(s, n)[t.cap]
<1> DEFINE c == t.cap
           d == ResizedCap(n)
<1>1. /\ c \in Nat /\ c > 1 /\ c >= MinCap /\ t \in Sound(c, Slot, Values)
      /\ t.size \in Nat /\ t.size < c /\ MinCap \in Nat
  BY GoodFields, CapsAssumption
<1>2. s \in Sound(c, Slot, Values) /\ d \in Nat /\ d > 0 /\ s.size <= d
  <2>1. CASE s = t /\ n = 2 * t.cap
    BY <1>1, <2>1 DEF ResizedCap
  <2>2. CASE \E k \in Keys : /\ HtExists(t, k) /\ s = WithoutEntry(t, k) /\ n = t.cap \div 2
                             /\ MustShrink(t.cap, t.size - 1)
    <3>1. PICK k \in Keys : /\ HtExists(t, k) /\ s = WithoutEntry(t, k) /\ n = c \div 2
                            /\ MustShrink(c, t.size - 1)
      BY <2>2
    <3>2. HtFind(t, k) \in 0 .. c - 1 /\ t.slots[HtFind(t, k)].occ = 1
      BY <3>1, FindGood
    <3>3. Values \in SUBSET Values
      OBVIOUS
    <3>4. s \in Sound(c, Slot, Values) /\ s.size = t.size - 1
      BY <1>1, <3>1, <3>2, <3>3, BuriedSound DEF WithoutEntry
    <3>5. s.size \in Nat
      BY <1>1, <3>4, SoundFields
    <3>6. s.size * 100 < 20 * c
      BY <1>1, <3>1, <3>4, <3>5, ShrinkLoad
    <3>7. n \in Nat /\ c <= 2 * n + 1
      BY <1>1, <3>1
    <3>8. d \in Nat /\ d > 0 /\ d >= n
      BY <1>1, <3>7 DEF ResizedCap
    <3> HIDE DEF c, d
    <3> QED
      BY <1>1, <3>4, <3>5, <3>6, <3>7, <3>8
  <2> QED
    BY <2>1, <2>2
<1>3. s.cap = c /\ s.slots \in [0 .. c - 1 -> Slot]
  BY <1>1, <1>2, SoundFields
<1> DEFINE g == MoveFrom(s, n)
<1>4. /\ MovesOn(g, s, c, Values, d)
      /\ \A m \in 1 .. c : g[m] = Moved(g[m - 1], s.slots[m - 1])
  <2>1. Values \in SUBSET Values /\ d = ResizedCap(n)
    OBVIOUS
  <2> HIDE DEF c, d
  <2> QED
    BY <1>1, <1>2, <2>1, MoveIteration
<1>5. HtResize(s, n) = g[c]
  BY <1>3, ResizeMoves
<1> HIDE DEF g
<1>6. ASSUME NEW m \in 0 .. c - 1 PROVE g[m + 1] = Moved(g[m], s.slots[m])
  <2>1. m + 1 \in 1 .. c /\ (m + 1) - 1 = m
    BY <1>1
  <2> QED
    BY <1>4, <2>1
<1> QED
  BY <1>1, <1>3, <1>4, <1>5, <1>6 DEF MovesOn, g

\* The same for the call that is running.
LEMMA SourceMoves ==
  ASSUME Going, pc \in {"resize", "move"}
  PROVE  /\ Source.cap = Start.cap /\ Source.slots \in [0 .. Start.cap - 1 -> Slot]
         /\ Start.cap \in Nat
         /\ \A m \in 0 .. Start.cap - 1 :
              MoveFrom(Source, Target)[m + 1]
                = Moved(MoveFrom(Source, Target)[m], Source.slots[m])
         /\ HtResize(Source, Target) = MoveFrom(Source, Target)[Start.cap]
<1>1. Start \in Good(Values) /\ Resizes
  BY DEF Going
<1>2. \/ Source = Start /\ Target = 2 * Start.cap
      \/ \E k \in Keys : /\ HtExists(Start, k) /\ Source = WithoutEntry(Start, k)
                         /\ Target = Start.cap \div 2
                         /\ MustShrink(Start.cap, Start.size - 1)
  BY <1>1 DEF Source, Target, Resizes
<1> QED
  BY <1>1, <1>2, Resizing

\* The table between two calls.
LEMMA CurrentGood ==
  ASSUME IInv
  PROVE  /\ Current \in Sound(cap, Slot, Values) /\ Current \in Tables(cap, Slot)
         /\ Current.cap = cap /\ Current.slots = slots
         /\ Current.size = size /\ Current.tombs = tombs
         /\ cap \in Caps /\ cap \in Nat /\ cap > 0
         /\ pc = "idle" => Current \in Good(Values)
<1>1. /\ cap \in Caps /\ cap \in Nat /\ cap >= 2 /\ slots \in [0 .. cap - 1 -> Slot]
      /\ size \in Nat /\ tombs \in Nat
      /\ size = Cardinality(Occupied(slots)) /\ tombs = Cardinality(Tombstones(slots))
      /\ Cardinality(Waiting) \in Nat /\ Load * 100 < 71 * cap
      /\ pc \notin {"resize", "move"} => Cardinality(Waiting) = 0
  BY Facts
<1>2. /\ Current.cap = cap /\ Current.slots = slots
      /\ Current.size = size /\ Current.tombs = tombs
      /\ Current \in Tables(cap, Slot)
  BY <1>1 DEF Current, Now, Tables
<1>3. \A s \in Occupied(slots) : slots[s].val \in Values
  BY <1>1, SlotFields DEF Occupied
<1>4. Current \in Sound(cap, Slot, Values)
  BY <1>1, <1>2, <1>3 DEF Sound
<1>5. ASSUME pc = "idle" PROVE Current \in Good(Values)
  <2>1. op = "none"
    BY <1>5 DEF IInv, Phases
  <2>2. Load = size + tombs
    BY <1>1, <1>5, <2>1 DEF Load
  <2>3. cap >= MinCap
    BY <1>1, CapsAssumption
  <2> QED
    BY <1>1, <1>2, <1>4, <2>2, <2>3, GoodTable
<1> QED
  BY <1>1, <1>2, <1>4, <1>5

LEMMA RunningLoop ==
  ASSUME IInv, pc \in {"probe", "move"}
  PROVE  /\ Running \in Loops(cap, Slot)
         /\ pc = "move" => Running \in Loops(cap, Fresh)
         /\ Index(Running) = At(carry.key) /\ Spot(Running) = slots[At(carry.key)]
         /\ carry.key \in Keys /\ carry.val \in Values
<1>1. carry.key \in Keys /\ carry.val \in Values /\ i \in Nat
  BY Facts DEF IInv, Phases, Pair
<1>2. Current \in Tables(cap, Slot) /\ Current.cap = cap /\ Current.slots = slots
  BY CurrentGood
<1>3. ASSUME pc = "move" PROVE Current \in Tables(cap, Fresh)
  <2>1. tombs = 0
    BY <1>3 DEF IInv, Phases
  <2>2. Tombstones(slots) = {}
    BY <2>1, NoTombstone
  <2>3. slots \in [0 .. cap - 1 -> Slot]
    BY Facts
  <2>4. \A s \in 0 .. cap - 1 : slots[s] # Tombstone
    BY <2>2, <2>3 DEF Tombstones, Tombstone
  <2>5. slots \in [0 .. cap - 1 -> Fresh]
    BY <2>3, <2>4 DEF Fresh
  <2> QED
    BY <1>2, <2>5 DEF Tables
<1>4. Running \in Loops(cap, Slot) /\ (pc = "move" => Running \in Loops(cap, Fresh))
  BY <1>1, <1>2, <1>3 DEF Running, Loops
<1>5. Index(Running) = At(carry.key) /\ Spot(Running) = slots[At(carry.key)]
  BY <1>2 DEF Running, Index, At, Spot
<1> QED
  BY <1>1, <1>4, <1>5

-----------------------------------------------------------------------------
(* The calls, step by step                                                 *)

\* The effect of a call is seen when it has returned.
Turn == before' = IF pc' = "idle" THEN Now' ELSE before

\* What a step of the loops does to the table of the whole calls.
Follows == Going' /\ (Whole!HtNextState \/ UNCHANGED Whole!htvars)

LEMMA GoingInit == HInit => Going /\ Whole!HtInit
<1> SUFFICES ASSUME HInit PROVE Going /\ Whole!HtInit
  OBVIOUS
<1>1. /\ pc = "idle" /\ op = "none" /\ before = Now
      /\ Start = EmptyTable /\ before.res = 0
  BY DEF HInit, Init, Now, Start, EmptyTable, Cleared, NotFound
<1>2. Start \in Good(Values) /\ Start.cap \in Caps
  BY <1>1, EmptyGood
<1>3. Whole!HtInit
  BY <1>1, SameCalls DEF Whole!HtInit, Start
<1> QED
  BY <1>1, <1>2, <1>3 DEF Going

\* A whole call leaves a table that the next one can begin from.
LEMMA WholeKeeps ==
  ASSUME Start \in Good(Values), Start.cap \in Caps, Whole!HtNextState
  PROVE  Start' \in Good(Values) /\ Start'.cap \in Caps
<1>1. ASSUME NEW k \in Keys, NEW v \in Values, Whole!Set(k, v)
      PROVE  Start' \in Good(Values) /\ Start'.cap \in Caps
  <2> DEFINE r == SetResult(Start, k, v)
  <2>1. /\ r.table \in Good(Values)
        /\ r.table.cap = IF MustGrow(Start.cap, Start.size + Start.tombs)
                           THEN ResizedCap(2 * Start.cap) ELSE Start.cap
    BY SetGood
  <2>2. Start' = r.table /\ Fits(Start)
    BY <1>1, SameCalls DEF Whole!Set, Start
  <2> HIDE DEF r
  <2> QED
    BY <2>1, <2>2 DEF Fits
<1>2. ASSUME NEW k \in Keys, Whole!Get(k)
      PROVE  Start' \in Good(Values) /\ Start'.cap \in Caps
  BY <1>2 DEF Whole!Get, Start
<1>3. ASSUME NEW k \in Keys, Whole!Delete(k)
      PROVE  Start' \in Good(Values) /\ Start'.cap \in Caps
  <2>1. Start' = HtDelete(Start, k)
    BY <1>3, SameCalls DEF Whole!Delete, Start
  <2> QED
    BY <2>1, DeleteGood
<1>4. CASE Whole!Flush
  <2>1. Start' = EmptyTable
    BY <1>4, SameCalls DEF Whole!Flush, Start
  <2> QED
    BY <2>1, EmptyGood
<1> QED
  BY <1>1, <1>2, <1>3, <1>4 DEF Whole!HtNextState

\* A step after which no call is running.
LEMMA Returns ==
  ASSUME Going, Turn, pc' = "idle", op' = "none",
         Whole!HtNextState \/ Start' = Start
  PROVE  Going'
<1>1. Start' \in Good(Values) /\ Start'.cap \in Caps
  BY WholeKeeps DEF Going
<1>2. before' = Now'
  BY DEF Turn
<1> QED
  BY <1>1, <1>2 DEF Going

\* A step of a call that goes on.
LEMMA GoesAlong ==
  ASSUME Going, Turn, pc' # "idle",
         op' = "set" => Fits(Start) /\ arg'.val \notin Live(Start),
         pc' = "probe" =>
           SetFrom(cap, arg.key)'[Running'] = SetResult(Start, arg'.key, arg'.val),
         pc' = "find" =>
           Current' = Start /\ FindFrom(Start, arg'.key)[i'] = HtFind(Start, arg'.key),
         pc' \in {"resize", "move"} =>
           Resizes' /\ old' = Source'.slots /\ cap' = ResizedCap(Target')
             /\ pos' \in 0 .. Start.cap,
         pc' = "resize" => Current' = MoveFrom(Source', Target')[pos'],
         pc' = "move" =>
           pos' > 0 /\ PlaceFrom(cap')[Running'] = MoveFrom(Source', Target')[pos']
  PROVE  Follows
<1>1. before' = before
  BY DEF Turn
<1>2. Start' = Start /\ UNCHANGED Whole!htvars
  BY <1>1 DEF Start, Whole!htvars
<1>3. Going'
  BY <1>2 DEF Going
<1> QED
  BY <1>2, <1>3 DEF Follows

\* The same when the arguments of the call stay what they were.
LEMMA Unmoved ==
  ASSUME Turn, pc' # "idle", UNCHANGED <<op, arg, ret>>
  PROVE  /\ Source' = Source /\ Target' = Target /\ Resizes' = Resizes
         /\ Start' = Start
<1>1. Start' = Start
  BY DEF Turn, Start
<1> QED
  BY <1>1 DEF Source, Target, Resizes

LEMMA SetCallFollows ==
  ASSUME IInv, HeldOnce, Going, Turn, NEW k \in Keys, NEW v \in Values, SetCall(k, v)
  PROVE  Follows
<1>1. /\ pc = "idle" /\ owner[v] = NoKey /\ op' = "set" /\ pc' \in {"resize", "probe"}
      /\ arg' = [key |-> k, val |-> v] /\ arg'.key = k /\ arg'.val = v
  BY DEF SetCall, BeginResize, BeginProbe
<1>2. /\ Start = Current /\ Start \in Good(Values) /\ Start' = Start /\ Start.slots = slots
      /\ Start.cap = cap /\ Start.size = size /\ Start.tombs = tombs
      /\ cap \in Nat /\ cap > 0 /\ slots \in [0 .. cap - 1 -> Slot]
  <2>1. Start = Current /\ Start \in Good(Values)
    BY <1>1 DEF Going, Start, Current
  <2>2. Start' = Start
    BY <1>1 DEF Turn, Start
  <2> QED
    BY <2>1, <2>2, CurrentGood, Facts
<1>3. Fits(Start)
  BY <1>2 DEF SetCall, Fits
<1>4. v \notin Live(Start)
  <2>1. v \notin Vals(slots, 0)
    BY <1>1, KeysAssumption DEF HeldOnce, LiveValues
  <2>2. WaitingFrom(slots, 0) = Occupied(slots)
    BY <1>2, WaitingCounts
  <2> QED
    BY <1>2, <2>1, <2>2 DEF Vals, Live
<1>5. CASE MustGrow(cap, size + tombs) /\ BeginResize(2 * cap)
  <2>1. /\ pc' = "resize" /\ old' = slots /\ pos' = 0 /\ cap' = ResizedCap(2 * cap)
        /\ slots' = EmptySlots(ResizedCap(2 * cap)) /\ size' = 0 /\ tombs' = 0
    BY <1>5 DEF BeginResize
  <2>2. Source' = Start /\ Target' = 2 * cap /\ Resizes'
    BY <1>1, <1>2, <1>5 DEF Source, Target, Resizes
  <2>3. Current' = Cleared(ResizedCap(2 * cap))
    BY <2>1 DEF Current, Now, Cleared
  <2>4. MoveFrom(Start, 2 * cap)[0] = Cleared(ResizedCap(2 * cap))
    BY <1>2, Resizing
  <2>5. 0 \in 0 .. Start.cap
    BY <1>2
  <2> QED
    BY <1>1, <1>2, <1>3, <1>4, <2>1, <2>2, <2>3, <2>4, <2>5, GoesAlong
<1>6. CASE ~MustGrow(cap, size + tombs) /\ BeginProbe(arg') /\ UNCHANGED table
  <2>1. pc' = "probe" /\ Running' = Begin(Start, k, v) /\ cap' = cap
    <3>1. pc' = "probe" /\ carry' = arg' /\ i' = 0
      BY <1>6 DEF BeginProbe
    <3>2. Current' = Current /\ cap' = cap
      BY <1>6 DEF table, Current, Now
    <3> QED
      BY <1>1, <1>2, <3>1, <3>2 DEF Running, Begin
  <2>2. SetFrom(cap, k)[Begin(Start, k, v)] = SetLoop(Start, k, v)
    BY <1>2, SetBegins
  <2>3. SetResult(Start, k, v) = SetLoop(Start, k, v)
    BY <1>2, <1>6 DEF SetResult
  <2>4. SetFrom(cap, arg.key)' = SetFrom(cap, k)
    BY <1>1, <2>1
  <2> QED
    BY <1>1, <1>2, <1>3, <1>4, <2>1, <2>2, <2>3, <2>4, GoesAlong
<1> QED
  BY <1>1, <1>5, <1>6 DEF SetCall

\* The slot that ht_set stops at takes the pair it carries.
LEMMA SetEndFollows ==
  ASSUME IInv, Going, Turn, SetInsert \/ SetUpdate
  PROVE  Follows
<1>1. /\ pc = "probe" /\ op = "set" /\ arg.key \in Keys /\ arg.val \in Values
      /\ pc' = "idle" /\ op' = "none" /\ cap' = cap
      /\ cap \in Nat /\ cap > 0
  <2>1. pc = "probe" /\ pc' = "idle" /\ op' = "none" /\ cap' = cap
    BY DEF SetInsert, SetUpdate, Return, Leave
  <2> QED
    BY <2>1, Facts DEF IInv, Phases, Pair
<1>2. /\ Running \in Loops(cap, Slot) /\ Index(Running) = At(carry.key)
      /\ Spot(Running) = slots[At(carry.key)]
  BY <1>1, RunningLoop
<1>3. Running.t = Current /\ Running.k = carry.key /\ Running.v = carry.val
  BY DEF Running
<1>4. SetStops(Spot(Running), Running.k, arg.key)
  BY <1>2, <1>3 DEF SetStops, SetInsert, SetUpdate
<1>5. SetResult(Start, arg.key, arg.val) = SetEnd(Running)
  BY <1>1, <1>2, <1>4, SetIteration DEF Going
<1>6. Now'.ht = SetEnd(Running).table /\ ret' = SetEnd(Running).isNew
  <2>1. CASE SetInsert
    <3>1. SetEnd(Running) = [table |-> Insert(Current, At(carry.key), carry.key, carry.val),
                             isNew |-> 1]
      BY <1>2, <1>3, <2>1 DEF SetEnd, SetInsert
    <3>2. Now'.ht = Insert(Current, At(carry.key), carry.key, carry.val)
      <4> DEFINE t == [cap |-> cap, slots |-> slots, size |-> size, tombs |-> tombs]
                 d == IF slots[At(carry.key)].occ = 2 THEN 1 ELSE 0
                 a == With(slots, At(carry.key), carry.key, carry.val)
      <4>1. Current = t
        BY DEF Current, Now
      <4>2. Insert(t, At(carry.key), carry.key, carry.val) =
              [cap |-> cap, slots |-> a, size |-> size + 1, tombs |-> tombs - d]
        <5>1. Put(t, At(carry.key), carry.key, carry.val) =
                [cap |-> cap, slots |-> a, size |-> size, tombs |-> tombs]
          BY DEF Put
        <5>2. Place(t, At(carry.key), carry.key, carry.val) =
                [cap |-> cap, slots |-> a, size |-> size + 1, tombs |-> tombs]
          BY <5>1 DEF Place
        <5>3. t.slots = slots
          OBVIOUS
        <5> HIDE DEF t
        <5> QED
          BY <5>2, <5>3 DEF Insert
      <4>3. cap' = cap /\ slots' = a /\ size' = size + 1 /\ tombs' = tombs - d
        BY <1>1, <2>1 DEF SetInsert
      <4> QED
        BY <4>1, <4>2, <4>3 DEF Now
    <3>3. ret' = 1
      BY <2>1 DEF SetInsert, Return
    <3> QED
      BY <3>1, <3>2, <3>3
  <2>2. CASE SetUpdate
    <3> DEFINE e == slots[At(carry.key)]
    <3>1. SetEnd(Running) = [table |-> Put(Current, At(carry.key), e.key, carry.val),
                             isNew |-> 0]
      BY <1>2, <1>3, <2>2 DEF SetEnd, SetUpdate
    <3>2. Now'.ht = Put(Current, At(carry.key), e.key, carry.val)
      BY <1>1, <2>2 DEF Now, Current, Put, SetUpdate
    <3>3. ret' = 0
      BY <2>2 DEF SetUpdate, Return
    <3> QED
      BY <3>1, <3>2, <3>3
  <2> QED
    BY <2>1, <2>2
<1>7. before' = Now' /\ before'.res = ret'
  BY <1>1 DEF Turn, Now
<1>8. Whole!Set(arg.key, arg.val)
  <2>1. Fits(Start) /\ arg.val \notin Live(Start)
    BY <1>1 DEF Going
  <2> QED
    BY <1>5, <1>6, <1>7, <2>1, SameCalls DEF Whole!Set, Start
<1>9. Whole!HtNextState
  BY <1>1, <1>8 DEF Whole!HtNextState
<1> QED
  BY <1>1, <1>9, Returns DEF Follows

\* A slot that holds another key.
LEMMA RunsOnward ==
  ASSUME IInv, pc \in {"probe", "move"}, ProbeOn(slots[At(carry.key)]),
         UNCHANGED <<cap, size, tombs>>
  PROVE  Running' = Onward(Running)
<1>1. Index(Running) = At(carry.key) /\ Spot(Running) = slots[At(carry.key)]
  BY RunningLoop
<1>2. /\ Running.t = Current /\ Running.k = carry.key /\ Running.v = carry.val
      /\ Running.i = i /\ Current.cap = cap /\ Current.slots = slots
  BY DEF Running, Current, Now
<1> DEFINE e == slots[At(carry.key)]
<1>3. CASE Poorer(cap, carry.key, e, At(carry.key))
  <2>1. Onward(Running) =
          [t |-> Put(Current, At(carry.key), carry.key, carry.val),
           k |-> e.key, v |-> e.val, i |-> i + 1]
    BY <1>1, <1>2, <1>3 DEF Onward, Spot
  <2>2. Current' = Put(Current, At(carry.key), carry.key, carry.val)
    BY <1>3 DEF Current, Now, Put, ProbeOn
  <2>3. carry'.key = e.key /\ carry'.val = e.val /\ i' = i + 1
    BY <1>3 DEF ProbeOn
  <2> QED
    BY <2>1, <2>2, <2>3 DEF Running
<1>4. CASE ~Poorer(cap, carry.key, e, At(carry.key))
  <2>1. Onward(Running) = [Running EXCEPT !.i = @ + 1]
    BY <1>1, <1>2, <1>4 DEF Onward, Spot
  <2>2. Current' = Current /\ carry' = carry /\ i' = i + 1
    BY <1>4 DEF Current, Now, ProbeOn
  <2> QED
    BY <2>1, <2>2 DEF Running
<1> QED
  BY <1>3, <1>4

LEMMA SetProbeOnFollows ==
  ASSUME IInv, Going, Turn, SetProbeOn
  PROVE  Follows
<1>1. /\ pc = "probe" /\ pc' = pc /\ op = "set" /\ arg.key \in Keys
      /\ UNCHANGED <<cap, size, tombs, op, arg, ret>>
      /\ cap \in Nat /\ cap > 0
  <2>1. pc = "probe" /\ pc' = pc /\ UNCHANGED <<cap, size, tombs, op, arg, ret>>
    BY DEF SetProbeOn
  <2> QED
    BY <2>1, Facts DEF IInv, Phases, Pair
<1>2. Running' = Onward(Running)
  BY <1>1, RunsOnward DEF SetProbeOn
<1>3. Running \in Loops(cap, Slot) /\ Spot(Running) = slots[At(carry.key)]
  BY <1>1, RunningLoop
<1>4. Running.k = carry.key
  BY DEF Running
<1>5. ~SetStops(Spot(Running), Running.k, arg.key)
  BY <1>3, <1>4 DEF SetStops, SetProbeOn
<1>6. SetFrom(cap, arg.key)[Running] = SetFrom(cap, arg.key)[Onward(Running)]
  BY <1>1, <1>3, <1>5, SetIteration
<1>7. SetFrom(cap, arg.key)' = SetFrom(cap, arg.key)
  BY <1>1
<1>8. /\ Fits(Start) /\ arg.val \notin Live(Start)
      /\ SetFrom(cap, arg.key)[Running] = SetResult(Start, arg.key, arg.val)
  BY <1>1 DEF Going
<1> QED
  BY <1>1, <1>2, <1>6, <1>7, <1>8, GoesAlong

-----------------------------------------------------------------------------
(* The steps of ht_resize                                                  *)

\* The old array and the capacity, while ht_resize runs.
LEMMA Moving ==
  ASSUME IInv, Going, pc \in {"resize", "move"}
  PROVE  /\ old = Source.slots /\ cap = ResizedCap(Target) /\ Resizes
         /\ pos \in 0 .. Start.cap /\ Start.cap \in Nat
         /\ DOMAIN old = 0 .. Start.cap - 1
         /\ pos \in DOMAIN old =>
              MoveFrom(Source, Target)[pos + 1]
                = Moved(MoveFrom(Source, Target)[pos], old[pos])
         /\ cap \in Nat /\ cap > 0
         /\ op = "set" => Fits(Start) /\ arg.val \notin Live(Start)
<1>1. /\ old = Source.slots /\ cap = ResizedCap(Target) /\ Resizes
      /\ pos \in 0 .. Start.cap
      /\ op = "set" => Fits(Start) /\ arg.val \notin Live(Start)
  BY DEF Going
<1>2. /\ Source.slots \in [0 .. Start.cap - 1 -> Slot] /\ Start.cap \in Nat
      /\ \A m \in 0 .. Start.cap - 1 :
           MoveFrom(Source, Target)[m + 1]
             = Moved(MoveFrom(Source, Target)[m], Source.slots[m])
  BY SourceMoves
<1>3. DOMAIN old = 0 .. Start.cap - 1
  BY <1>1, <1>2
<1>4. cap \in Nat /\ cap > 0
  BY Facts
<1> QED
  BY <1>1, <1>2, <1>3, <1>4

LEMMA ResizeSkipFollows ==
  ASSUME IInv, Going, Turn, ResizeSkip
  PROVE  Follows
<1>1. /\ pc = "resize" /\ pc' = "resize" /\ pos \in DOMAIN old /\ old[pos].occ # 1
      /\ pos' = pos + 1 /\ UNCHANGED <<cap, slots, size, tombs, op, arg, old, ret>>
  BY DEF ResizeSkip, table
<1>2. Source' = Source /\ Target' = Target /\ Resizes' = Resizes
  BY <1>1, Unmoved
<1>3. Current' = Current
  BY <1>1 DEF Current, Now
<1>4. MoveFrom(Source, Target)[pos + 1] = Current
  BY <1>1, Moving DEF Moved, Going
<1>5. pos + 1 \in 0 .. Start.cap
  BY <1>1, Moving
<1> QED
  BY <1>1, <1>2, <1>3, <1>4, <1>5, Moving, GoesAlong

LEMMA ResizeTakeFollows ==
  ASSUME IInv, Going, Turn, ResizeTake
  PROVE  Follows
<1>1. /\ pc = "resize" /\ pc' = "move" /\ pos \in DOMAIN old /\ old[pos].occ = 1
      /\ carry' = [key |-> old[pos].key, val |-> old[pos].val] /\ i' = 0
      /\ pos' = pos + 1 /\ UNCHANGED <<cap, slots, size, tombs, op, arg, old, ret>>
  BY DEF ResizeTake, table
<1>2. Source' = Source /\ Target' = Target /\ Resizes' = Resizes
  BY <1>1, Unmoved
<1>3. Current' = Current /\ Current.cap = cap
  BY <1>1 DEF Current, Now
<1>4. Running' = Begin(Current, old[pos].key, old[pos].val)
  BY <1>1, <1>3 DEF Running, Begin
<1>5. MoveFrom(Source, Target)[pos + 1] = Reinsert(Current, old[pos].key, old[pos].val)
  BY <1>1, Moving DEF Moved, Going
<1>6. Reinsert(Current, old[pos].key, old[pos].val)
        = PlaceFrom(cap)[Begin(Current, old[pos].key, old[pos].val)]
  BY <1>3, PlaceBegins
<1>7. pos + 1 \in 0 .. Start.cap /\ pos + 1 > 0
  BY <1>1, Moving
<1> QED
  BY <1>1, <1>2, <1>4, <1>5, <1>6, <1>7, Moving, GoesAlong

LEMMA MovePlaceFollows ==
  ASSUME IInv, Going, Turn, MovePlace
  PROVE  Follows
<1>1. /\ pc = "move" /\ pc' = "resize" /\ slots[At(carry.key)].occ = 0
      /\ slots' = With(slots, At(carry.key), carry.key, carry.val) /\ size' = size + 1
      /\ UNCHANGED <<cap, tombs, op, arg, old, pos, ret>>
  BY DEF MovePlace, resizing
<1>2. Source' = Source /\ Target' = Target /\ Resizes' = Resizes
  BY <1>1, Unmoved
<1>3. Running \in Loops(cap, Fresh) /\ Index(Running) = At(carry.key)
      /\ Spot(Running) = slots[At(carry.key)]
  BY <1>1, RunningLoop
<1>4. Running.t = Current /\ Running.k = carry.key /\ Running.v = carry.val
  BY DEF Running
<1>5. Current' = Place(Current, At(carry.key), carry.key, carry.val)
  <2> DEFINE t == [cap |-> cap, slots |-> slots, size |-> size, tombs |-> tombs]
             a == With(slots, At(carry.key), carry.key, carry.val)
  <2>1. Current = t
    BY DEF Current, Now
  <2>2. Place(t, At(carry.key), carry.key, carry.val) =
          [cap |-> cap, slots |-> a, size |-> size + 1, tombs |-> tombs]
    <3>1. Put(t, At(carry.key), carry.key, carry.val) =
            [cap |-> cap, slots |-> a, size |-> size, tombs |-> tombs]
      BY DEF Put
    <3> QED
      BY <3>1 DEF Place
  <2> QED
    BY <1>1, <2>1, <2>2 DEF Current, Now
<1>6. PlaceFrom(cap)[Running] = Place(Current, At(carry.key), carry.key, carry.val)
  BY <1>1, <1>3, <1>4, Moving, PlaceIteration
<1>7. MoveFrom(Source, Target)[pos] = PlaceFrom(cap)[Running]
  BY <1>1 DEF Going
<1> QED
  BY <1>1, <1>2, <1>5, <1>6, <1>7, Moving, GoesAlong

LEMMA MoveOnFollows ==
  ASSUME IInv, Going, Turn, MoveOn
  PROVE  Follows
<1>1. /\ pc = "move" /\ pc' = "move" /\ slots[At(carry.key)].occ # 0
      /\ UNCHANGED <<cap, size, tombs, op, arg, old, pos, ret>>
  BY DEF MoveOn, resizing
<1>2. Source' = Source /\ Target' = Target /\ Resizes' = Resizes
  BY <1>1, Unmoved
<1>3. Running' = Onward(Running)
  BY <1>1, RunsOnward DEF MoveOn
<1>4. Running \in Loops(cap, Fresh) /\ Spot(Running) = slots[At(carry.key)]
  BY <1>1, RunningLoop
<1>5. PlaceFrom(cap)[Running] = PlaceFrom(cap)[Onward(Running)]
  BY <1>1, <1>4, Moving, PlaceIteration
<1>6. MoveFrom(Source, Target)[pos] = PlaceFrom(cap)[Running] /\ pos > 0
  BY <1>1 DEF Going
<1> QED
  BY <1>1, <1>2, <1>3, <1>5, <1>6, Moving, GoesAlong

\* The old array has been walked: the new one is what ht_resize makes of it.
LEMMA ResizeDoneFollows ==
  ASSUME IInv, Going, Turn, ResizeDone
  PROVE  Follows
<1>1. /\ pc = "resize" /\ pos \notin DOMAIN old
      /\ UNCHANGED <<cap, slots, size, tombs, ret>> /\ op \in {"set", "delete"}
  BY DEF ResizeDone, table, IInv, Phases
<1>2. pos = Start.cap
  BY <1>1, Moving
<1>3. Current = HtResize(Source, Target) /\ Current.cap = cap /\ Current' = Current
  <2>1. Current = MoveFrom(Source, Target)[Start.cap]
    BY <1>1, <1>2 DEF Going
  <2>2. Current.cap = cap /\ Current' = Current
    BY <1>1 DEF Current, Now
  <2> QED
    BY <1>1, <2>1, <2>2, SourceMoves
<1>4. CASE op = "set"
  <2>1. /\ pc' = "probe" /\ carry' = arg /\ i' = 0 /\ UNCHANGED <<op, arg>>
    BY <1>4 DEF ResizeDone, BeginProbe
  <2>2. Running' = Begin(Current, arg.key, arg.val)
    BY <1>3, <2>1 DEF Running, Begin
  <2>3. SetLoop(Current, arg.key, arg.val) = SetFrom(cap, arg.key)[Begin(Current, arg.key, arg.val)]
    BY <1>3, SetBegins
  <2>4. /\ MustGrow(Start.cap, Start.size + Start.tombs)
        /\ Source = Start /\ Target = 2 * Start.cap
    BY <1>1, <1>4, Moving DEF Resizes, Source, Target
  <2>5. SetResult(Start, arg.key, arg.val) = SetLoop(Current, arg.key, arg.val)
    BY <1>3, <2>4 DEF SetResult
  <2>6. SetFrom(cap, arg.key)' = SetFrom(cap, arg.key)
    BY <1>1, <2>1
  <2>7. Fits(Start) /\ arg.val \notin Live(Start)
    BY <1>1, <1>4, Moving
  <2> QED
    BY <2>1, <2>2, <2>3, <2>5, <2>6, <2>7, GoesAlong
<1>5. CASE op = "delete"
  <2>1. pc' = "idle" /\ op' = "none"
    BY <1>5 DEF ResizeDone, Leave
  <2>2. /\ arg.key \in Keys /\ HtExists(Start, arg.key) /\ ret = 1
        /\ MustShrink(Start.cap, Start.size - 1)
        /\ Source = Bury(Start, HtFind(Start, arg.key)) /\ Target = Start.cap \div 2
    BY <1>1, <1>5, Moving DEF Resizes, Source, Target, WithoutEntry
  <2>3. Source.cap = Start.cap /\ Source.size = Start.size - 1
    <3>1. Start \in Good(Values)
      BY DEF Going
    <3>2. Start \in Sound(Start.cap, Slot, Values) /\ Start.cap \in Nat
      BY <3>1, GoodFields
    <3>3. /\ HtFind(Start, arg.key) \in 0 .. Start.cap - 1
          /\ Start.slots[HtFind(Start, arg.key)].occ = 1
      BY <2>2, <3>1, FindGood
    <3>4. Source \in Sound(Start.cap, Slot, Values) /\ Source.size = Start.size - 1
      BY <2>2, <3>2, <3>3, BuriedSound
    <3> QED
      BY <3>2, <3>4, SoundFields
  <2>4. HtDelete(Start, arg.key) = HtResize(Source, Target)
    BY <2>2, <2>3 DEF HtDelete
  <2>5. before' = Now' /\ Now'.ht = Current /\ Now'.res = 1
    BY <1>1, <1>3, <2>1, <2>2 DEF Turn, Now, Current
  <2>6. Whole!Delete(arg.key)
    BY <1>3, <2>2, <2>4, <2>5, SameCalls DEF Whole!Delete, Start
  <2>7. Whole!HtNextState
    BY <2>2, <2>6 DEF Whole!HtNextState
  <2> QED
    BY <2>1, <2>7, Returns DEF Follows
<1> QED
  BY <1>1, <1>4, <1>5

-----------------------------------------------------------------------------
(* The steps of ht_find and ht_delete                                      *)

LEMMA FindCallFollows ==
  ASSUME IInv, Going, Turn, NEW o \in {"get", "delete"}, NEW k \in Keys, FindCall(o, k)
  PROVE  Follows
<1>1. /\ pc = "idle" /\ pc' = "find" /\ op' = o /\ arg'.key = k /\ i' = 0
      /\ UNCHANGED <<cap, slots, size, tombs>>
  BY DEF FindCall, table
<1>2. Current' = Current /\ Start = Current
  BY <1>1 DEF Going, Start, Current, Now
<1>3. FindFrom(Start, k)[0] = HtFind(Start, k)
  BY FindBegins
<1> QED
  BY <1>1, <1>2, <1>3, GoesAlong

\* What ht_find sees where it stands.
LEMMA Finds ==
  ASSUME IInv, Going, pc = "find"
  PROVE  /\ Start = Current /\ Start.cap = cap /\ Start.slots = slots /\ Start.size = size
         /\ arg.key \in Keys /\ op \in {"get", "delete"} /\ i \in Nat
         /\ ProbeIndex(Start.cap, arg.key, i) = At(arg.key)
         /\ HtFind(Start, arg.key) =
              IF FindStops(Start, arg.key, i)
                THEN FindEnd(Start, arg.key, i) ELSE FindFrom(Start, arg.key)[i + 1]
<1>1. Start = Current /\ FindFrom(Start, arg.key)[i] = HtFind(Start, arg.key)
  BY DEF Going
<1>2. Start.cap = cap /\ Start.slots = slots /\ Start.size = size
  BY <1>1 DEF Current, Now
<1>3. arg.key \in Keys /\ op \in {"get", "delete"} /\ i \in Nat
  BY Facts DEF IInv, Phases
<1>4. ProbeIndex(Start.cap, arg.key, i) = At(arg.key)
  BY <1>2 DEF At
<1> QED
  BY <1>1, <1>2, <1>3, <1>4, FindIteration

LEMMA SlotSeen ==
  ASSUME IInv, Going, pc = "find"
  PROVE  /\ At(arg.key) \in 0 .. cap - 1 /\ slots[At(arg.key)] \in Slot /\ i \in Nat
         /\ slots[At(arg.key)].occ = 1 =>
              ProbeDistance(cap, slots[At(arg.key)].key, At(arg.key)) \in Nat
<1>1. cap \in Nat /\ cap > 0 /\ arg.key \in Keys /\ i \in Nat
  BY Facts, Finds
<1>2. At(arg.key) \in 0 .. cap - 1
  BY <1>1, ProbeInArray DEF At
<1>3. slots[At(arg.key)] \in Slot
  BY <1>2, Facts
<1>4. ASSUME slots[At(arg.key)].occ = 1
      PROVE  ProbeDistance(cap, slots[At(arg.key)].key, At(arg.key)) \in Nat
  <2>1. slots[At(arg.key)].key \in Keys
    BY <1>3, <1>4, SlotFields
  <2>2. ProbeDistance(cap, slots[At(arg.key)].key, At(arg.key)) \in 0 .. cap - 1
    BY <1>1, <1>2, <2>1, DistanceInArray
  <2> QED
    BY <1>1, <2>2
<1> QED
  BY <1>1, <1>2, <1>3, <1>4

LEMMA FindNextFollows ==
  ASSUME IInv, Going, Turn, FindNext
  PROVE  Follows
<1>1. /\ pc = "find" /\ pc' = "find" /\ i' = i + 1
      /\ UNCHANGED <<cap, slots, size, tombs, op, arg>>
  BY DEF FindNext, table
<1>2. ~FindStops(Start, arg.key, i)
  <2> DEFINE e == slots[At(arg.key)]
  <2>1. \/ e.occ = 2
        \/ /\ e.occ = 1 /\ i <= ProbeDistance(cap, e.key, At(arg.key))
           /\ ~Matches(e, arg.key, arg.key)
    BY DEF FindNext
  <2>2. /\ e \in Slot /\ i \in Nat
        /\ e.occ = 1 => ProbeDistance(cap, e.key, At(arg.key)) \in Nat
    BY <1>1, SlotSeen
  <2> HIDE DEF e
  <2>3. /\ e.occ # 0
        /\ e.occ = 1 => ~(i > ProbeDistance(cap, e.key, At(arg.key)))
                        /\ ~Matches(e, arg.key, arg.key)
    BY <2>1, <2>2
  <2> QED
    BY <1>1, <2>3, Finds DEF FindStops, e
<1>3. FindFrom(Start, arg.key)[i + 1] = HtFind(Start, arg.key)
  BY <1>1, <1>2, Finds
<1>4. Current' = Start
  BY <1>1, Finds DEF Current, Now
<1> QED
  BY <1>1, <1>3, <1>4, Finds, GoesAlong

\* A call that ends in ht_find.
LEMMA FindMissFollows ==
  ASSUME IInv, Going, Turn, FindMiss
  PROVE  Follows
<1>1. /\ pc = "find" /\ pc' = "idle" /\ op' = "none"
      /\ UNCHANGED <<cap, slots, size, tombs>>
      /\ ret' = IF op = "get" THEN NoVal ELSE NotFound
  BY DEF FindMiss, Return, Leave, table
<1>2. HtFind(Start, arg.key) = -1
  <2> DEFINE e == slots[At(arg.key)]
  <2>1. e.occ = 0 \/ (e.occ = 1 /\ i > ProbeDistance(cap, e.key, At(arg.key)))
    BY DEF FindMiss
  <2> HIDE DEF e
  <2>2. FindStops(Start, arg.key, i) /\ FindEnd(Start, arg.key, i) = -1
    BY <1>1, <2>1, Finds DEF FindStops, FindEnd, e
  <2> QED
    BY <1>1, <2>2, Finds
<1>3. before' = Now' /\ Now'.ht = Start /\ Now'.res = ret'
  <2>1. Now'.ht = Current
    BY <1>1 DEF Now, Current
  <2> QED
    BY <1>1, <2>1, Finds DEF Turn, Now
<1>4. HtGet(Start, arg.key) = NoVal /\ HtDelete(Start, arg.key) = Start
      /\ ~HtExists(Start, arg.key)
  BY <1>2 DEF HtGet, HtDelete, HtExists
<1>5. Whole!Get(arg.key) \/ Whole!Delete(arg.key)
  <2>1. CASE op = "get"
    BY <1>1, <1>3, <1>4, <2>1, SameCalls DEF Whole!Get, Start
  <2>2. CASE op = "delete"
    BY <1>1, <1>3, <1>4, <2>2, SameCalls DEF Whole!Delete, Start, NotFound
  <2> QED
    BY <1>1, <2>1, <2>2, Finds
<1>6. Whole!HtNextState
  BY <1>1, <1>5, Finds DEF Whole!HtNextState
<1> QED
  BY <1>1, <1>6, Returns DEF Follows

\* Where ht_find hits.
LEMMA HitIsFound ==
  ASSUME IInv, Going, pc = "find", FindsHere(slots[At(arg.key)])
  PROVE  HtFind(Start, arg.key) = At(arg.key) /\ HtExists(Start, arg.key)
<1> DEFINE e == slots[At(arg.key)]
<1>1. /\ e.occ = 1 /\ i <= ProbeDistance(cap, e.key, At(arg.key))
      /\ Matches(e, arg.key, arg.key)
  BY DEF FindsHere
<1>2. At(arg.key) \in 0 .. cap - 1 /\ cap \in Nat
  BY Facts, SlotSeen
<1>3. ProbeDistance(cap, e.key, At(arg.key)) \in Nat /\ i \in Nat
  BY <1>1, SlotSeen
<1> HIDE DEF e
<1>4. ~(i > ProbeDistance(cap, e.key, At(arg.key)))
  BY <1>1, <1>3
<1>5. FindStops(Start, arg.key, i) /\ FindEnd(Start, arg.key, i) = At(arg.key)
  BY <1>1, <1>4, Finds DEF FindStops, FindEnd, e
<1>6. HtFind(Start, arg.key) = At(arg.key) /\ At(arg.key) # -1
  BY <1>2, <1>5, Finds
<1> QED
  BY <1>6 DEF HtExists

LEMMA FindHitFollows ==
  ASSUME IInv, Going, Turn, FindHit
  PROVE  Follows
<1>1. /\ pc = "find" /\ pc' = "idle" /\ op' = "none"
      /\ UNCHANGED <<cap, slots, size, tombs>>
      /\ FindsHere(slots[At(arg.key)]) /\ ret' = slots[At(arg.key)].val
  BY DEF FindHit, Return, Leave, table
<1>2. HtGet(Start, arg.key) = slots[At(arg.key)].val
  BY <1>1, HitIsFound, Finds DEF HtGet
<1>3. before' = Now' /\ Now'.ht = Start /\ Now'.res = ret'
  <2>1. Now'.ht = Current
    BY <1>1 DEF Now, Current
  <2> QED
    BY <1>1, <2>1, Finds DEF Turn, Now
<1>4. Whole!Get(arg.key)
  BY <1>1, <1>2, <1>3, SameCalls DEF Whole!Get, Start
<1>5. Whole!HtNextState
  BY <1>1, <1>4, Finds DEF Whole!HtNextState
<1> QED
  BY <1>1, <1>5, Returns DEF Follows

LEMMA DeleteHitFollows ==
  ASSUME IInv, Going, Turn, DeleteHit
  PROVE  Follows
<1> DEFINE s == At(arg.key)
           b == Without(slots, s)
<1>1. pc = "find" /\ op = "delete" /\ FindsHere(slots[s]) /\ ret' = 1
  BY DEF DeleteHit, Leave
<1>2. /\ HtFind(Start, arg.key) = s /\ HtExists(Start, arg.key) /\ arg.key \in Keys
      /\ Start = Current /\ Start.cap = cap /\ Start.slots = slots /\ Start.size = size
  BY <1>1, HitIsFound, Finds
<1>3. /\ WithoutEntry(Start, arg.key) = Bury(Start, s)
      /\ Bury(Start, s) = [cap |-> cap, slots |-> b, size |-> size - 1, tombs |-> tombs + 1]
  <2> DEFINE t == [cap |-> cap, slots |-> slots, size |-> size, tombs |-> tombs]
  <2>1. Start = t
    BY <1>2 DEF Current, Now
  <2>2. /\ t.size = size /\ t.tombs = tombs /\ t.slots = slots
    OBVIOUS
  <2>3. [t EXCEPT !.slots = b] = [cap |-> cap, slots |-> b, size |-> size, tombs |-> tombs]
    OBVIOUS
  <2>4. Bury(t, s) = [[[t EXCEPT !.slots = b] EXCEPT !.size = size - 1]
                         EXCEPT !.tombs = tombs + 1]
    <3> HIDE DEF t
    <3> QED
      BY <2>2 DEF Bury
  <2> DEFINE n == size - 1
             m == tombs + 1
  <2> HIDE DEF s, b, n, m
  <2>5. [[cap |-> cap, slots |-> b, size |-> size, tombs |-> tombs] EXCEPT !.size = n]
          = [cap |-> cap, slots |-> b, size |-> n, tombs |-> tombs]
    OBVIOUS
  <2>6. [[cap |-> cap, slots |-> b, size |-> n, tombs |-> tombs] EXCEPT !.tombs = m]
          = [cap |-> cap, slots |-> b, size |-> n, tombs |-> m]
    OBVIOUS
  <2>7. Bury(t, s) = [cap |-> cap, slots |-> b, size |-> size - 1, tombs |-> tombs + 1]
    BY <2>3, <2>4, <2>5, <2>6, Zenon DEF n, m
  <2> QED
    BY <1>2, <2>1, <2>7 DEF WithoutEntry
<1> HIDE DEF s, b
<1>4. CASE MustShrink(cap, size - 1)
  <2>1. /\ pc' = "resize" /\ old' = b /\ pos' = 0 /\ cap' = ResizedCap(cap \div 2)
        /\ slots' = EmptySlots(ResizedCap(cap \div 2)) /\ size' = 0 /\ tombs' = 0
        /\ UNCHANGED <<op, arg>>
    BY <1>4 DEF DeleteHit, s, b
  <2>2. Start' = Start
    BY <2>1 DEF Turn, Start
  <2>3. Source' = Bury(Start, s) /\ Target' = cap \div 2
    BY <1>1, <1>2, <1>3, <2>1, <2>2 DEF Source, Target
  <2>4. Resizes'
    BY <1>1, <1>2, <1>4, <2>1, <2>2 DEF Resizes
  <2>5. Current' = Cleared(ResizedCap(cap \div 2))
    BY <2>1 DEF Current, Now, Cleared
  <2>6. MoveFrom(Bury(Start, s), cap \div 2)[0] = Cleared(ResizedCap(cap \div 2))
    <3>1. Start \in Good(Values)
      BY DEF Going
    <3>2. \E k \in Keys : /\ HtExists(Start, k) /\ Bury(Start, s) = WithoutEntry(Start, k)
                          /\ cap \div 2 = Start.cap \div 2
                          /\ MustShrink(Start.cap, Start.size - 1)
      BY <1>2, <1>3, <1>4
    <3> QED
      BY <3>1, <3>2, Resizing
  <2>7. 0 \in 0 .. Start.cap
    BY <1>2, Facts
  <2>8. Source'.slots = b
    BY <1>3, <2>3
  <2> QED
    BY <1>1, <2>1, <2>3, <2>4, <2>5, <2>6, <2>7, <2>8, GoesAlong
<1>5. CASE ~MustShrink(cap, size - 1)
  <2>1. /\ pc' = "idle" /\ op' = "none" /\ cap' = cap
        /\ slots' = b /\ size' = size - 1 /\ tombs' = tombs + 1
    BY <1>5 DEF DeleteHit, Leave, s, b
  <2>2. before' = Now' /\ Now'.ht = Bury(Start, s) /\ Now'.res = 1
    BY <1>1, <1>3, <2>1 DEF Turn, Now
  <2>3. HtDelete(Start, arg.key) = Bury(Start, s)
    BY <1>2, <1>3, <1>5 DEF HtDelete
  <2>4. Whole!Delete(arg.key)
    BY <1>2, <2>2, <2>3, SameCalls DEF Whole!Delete, Start
  <2>5. Whole!HtNextState
    BY <1>2, <2>4 DEF Whole!HtNextState
  <2> QED
    BY <2>1, <2>5, Returns DEF Follows
<1> QED
  BY <1>4, <1>5

LEMMA RecreateFollows ==
  ASSUME IInv, Going, Turn, Recreate
  PROVE  Follows
<1>1. /\ pc = "idle" /\ pc' = "idle" /\ op' = "none" /\ ret' = ret
      /\ cap' = MinCap /\ slots' = EmptySlots(MinCap) /\ size' = 0 /\ tombs' = 0
  BY DEF Recreate, IInv, Phases
<1>2. before' = Now' /\ before = Now
  BY <1>1 DEF Turn, Going
<1>3. Now'.ht = EmptyTable /\ Now'.res = ret /\ Now.res = ret
  BY <1>1 DEF Now, EmptyTable, Cleared
<1>4. Whole!HtNextState
  BY <1>2, <1>3, SameCalls DEF Whole!HtNextState, Whole!Flush
<1> QED
  BY <1>1, <1>4, Returns DEF Follows

LEMMA StepFollows ==
  ASSUME IInv, HeldOnce, Going, [HNext]_<<vars, before>>
  PROVE  Follows
<1>1. CASE UNCHANGED <<vars, before>>
  <2>1. UNCHANGED <<Start, Current, Running, Source, Target, Resizes>>
    BY <1>1 DEF vars, Start, Current, Running, Now, Source, Target, Resizes
  <2>2. UNCHANGED <<cap, pc, op, arg, i, old, pos, before, Now>>
    BY <1>1 DEF vars, Now
  <2>3. UNCHANGED Whole!htvars
    BY <2>2 DEF Whole!htvars
  <2>4. Going'
    BY <2>1, <2>2 DEF Going
  <2> QED
    BY <2>3, <2>4 DEF Follows
<1>2. CASE HNext
  <2>1. Turn
    BY <1>2 DEF HNext, Turn
  <2>2. Next
    BY <1>2 DEF HNext
  <2>3. ASSUME NEW k \in Keys, NEW v \in Values, SetCall(k, v) PROVE Follows
    BY <2>1, <2>3, SetCallFollows
  <2>4. ASSUME NEW k \in Keys, FindCall("get", k) \/ FindCall("delete", k) PROVE Follows
    BY <2>1, <2>4, FindCallFollows
  <2>5. CASE Recreate
    BY <2>1, <2>5, RecreateFollows
  <2>6. CASE SetInsert \/ SetUpdate
    BY <2>1, <2>6, SetEndFollows
  <2>7. CASE SetProbeOn
    BY <2>1, <2>7, SetProbeOnFollows
  <2>8. CASE ResizeSkip
    BY <2>1, <2>8, ResizeSkipFollows
  <2>9. CASE ResizeTake
    BY <2>1, <2>9, ResizeTakeFollows
  <2>10. CASE MovePlace
    BY <2>1, <2>10, MovePlaceFollows
  <2>11. CASE MoveOn
    BY <2>1, <2>11, MoveOnFollows
  <2>12. CASE ResizeDone
    BY <2>1, <2>12, ResizeDoneFollows
  <2>13. CASE FindMiss
    BY <2>1, <2>13, FindMissFollows
  <2>14. CASE FindHit
    BY <2>1, <2>14, FindHitFollows
  <2>15. CASE DeleteHit
    BY <2>1, <2>15, DeleteHitFollows
  <2>16. CASE FindNext
    BY <2>1, <2>16, FindNextFollows
  <2> QED
    BY <2>2, <2>3, <2>4, <2>5, <2>6, <2>7, <2>8, <2>9, <2>10, <2>11, <2>12, <2>13,
       <2>14, <2>15, <2>16 DEF Next, Call, Step
<1> QED
  BY <1>1, <1>2

\* Run loop by loop, every call of hashtable.c does to the table what the
\* operator with its name says: the machine of one step per iteration
\* implements the machine of one step per call.
THEOREM LoopsMakeCalls == HSpec => CallsAreWhole
<1>1. HInit => IInv /\ HeldOnce /\ Going
  BY InitInv, HeldInit, GoingInit DEF HInit
<1>2. IInv /\ HeldOnce /\ Going /\ [HNext]_<<vars, before>>
        => (IInv /\ HeldOnce /\ Going)' /\ [Whole!HtNextState]_Whole!htvars
  <2> SUFFICES ASSUME IInv, HeldOnce, Going, [HNext]_<<vars, before>>
               PROVE  (IInv /\ HeldOnce /\ Going)' /\ [Whole!HtNextState]_Whole!htvars
    OBVIOUS
  <2>1. [Next]_vars
    BY DEF HNext
  <2>2. IInv' /\ HeldOnce'
    BY <2>1, NextInv, HeldStep
  <2>3. Going' /\ [Whole!HtNextState]_Whole!htvars
    BY StepFollows DEF Follows
  <2> QED
    BY <2>2, <2>3
<1>3. HInit => Whole!HtInit
  BY GoingInit
<1> QED
  BY <1>1, <1>2, <1>3, PTL DEF HSpec, CallsAreWhole, Whole!HtSpec

=============================================================================
