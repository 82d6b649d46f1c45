------------------------------ MODULE TableProofs ------------------------------
(***************************************************************************)
(* What the calls of src/src/hashtable.c, taken whole (HashTableOps), do   *)
(* to a table: lemmas for the modules about the hash table and about the   *)
(* commands, for every set of keys and values and every hash function.     *)
(*                                                                         *)
(* The loops of HashTableOps are recursive functions, each the solution of *)
(* an equation.  That there is one is shown here, by well-founded          *)
(* recursion (Recursion) for the probe loops, which end because a free     *)
(* slot lies ahead and every swap uses up some of a finite room, and by    *)
(* induction on a counter (Iteration) for the loop over the old array.     *)
(***************************************************************************)
EXTENDS HashTableOps, FiniteSetTheorems, WellFoundedInduction, TLAPS

-----------------------------------------------------------------------------
(* Arithmetic of the array                                                 *)

LEMMA Smallest ==
  ASSUME NEW T, T \subseteq Nat, T # {}
  PROVE  \E x \in T : \A y \in T : x <= y
<1>1. PICK x \in T : \A y \in T : ~ (<<y, x>> \in OpToRel(<, Nat))
  BY NatLessThanWellFounded, WFMin
<1>2. \A y \in T : ~ (y < x)
  BY <1>1 DEF OpToRel
<1> QED
  BY <1>2

\* A probe never leaves the array.
LEMMA ProbeInArray ==
  ASSUME NEW c \in Nat, c > 0, NEW k \in Keys, NEW n \in Nat
  PROVE  ProbeIndex(c, k, n) \in 0 .. c - 1
<1>1. Hash[k] + n \in Nat
  BY HashAssumption
<1>2. \A a \in Nat : a % c \in 0 .. c - 1
  OBVIOUS
<1> QED
  BY <1>1, <1>2 DEF ProbeIndex

\* Probing n slots on, for some n, leads to any slot.
LEMMA Probes ==
  ASSUME NEW c \in Nat, c > 0, NEW a \in Nat, NEW s \in 0 .. c - 1
  PROVE  \E n \in 0 .. c - 1 : (a + n) % c = s
<1>1. PICK q \in Nat, r \in 0 .. c - 1 : a = c * q + r
  <2>1. a % c \in 0 .. c - 1 /\ a \div c \in Nat /\ a = c * (a \div c) + (a % c)
    OBVIOUS
  <2> QED
    BY <2>1
<1>2. CASE s >= r
  <2>1. s - r \in 0 .. c - 1 /\ a + (s - r) = c * q + s
    BY <1>1, <1>2
  <2>2. (c * q + s) % c = s
    OBVIOUS
  <2> QED
    BY <2>1, <2>2
<1>3. CASE s < r
  <2>1. s - r + c \in 0 .. c - 1 /\ a + (s - r + c) = c * (q + 1) + s
    BY <1>1, <1>3
  <2>2. (c * (q + 1) + s) % c = s
    OBVIOUS
  <2> QED
    BY <2>1, <2>2
<1> QED
  BY <1>2, <1>3

\* Distances from home are shorter than the array.
LEMMA DistanceInArray ==
  ASSUME NEW c \in Nat, c > 0, NEW k \in Keys, NEW s \in 0 .. c - 1
  PROVE  ProbeDistance(c, k, s) \in 0 .. c - 1
<1>1. Hash[k] \in Nat
  BY HashAssumption
<1>2. \A a \in Nat : a % c \in 0 .. c - 1
  OBVIOUS
<1>3. (s + c) - (Hash[k] % c) \in Nat
  BY <1>1, <1>2
<1> QED
  BY <1>2, <1>3 DEF ProbeDistance

\* ht_set grows exactly when one more slot would pass the load.
LEMMA GrowTest ==
  ASSUME NEW c \in Nat, c > 0, NEW n \in Nat
  PROVE  MustGrow(c, n) <=> (n + 1) * 100 >= 71 * c
<1>1. \A a \in Nat : (a \div c > 70) <=> a >= 71 * c
  OBVIOUS
<1> QED
  BY <1>1 DEF MustGrow

\* A table that shrinks is less than a fifth full, ...
LEMMA ShrinkLoad ==
  ASSUME NEW c \in Nat, c > 0, NEW n \in Nat, MustShrink(c, n)
  PROVE  c > MinCap /\ n * 100 < 20 * c
<1>1. \A a \in Nat : (a \div c < 20) <=> a < 20 * c
  OBVIOUS
<1> QED
  BY <1>1 DEF MustShrink

\* ... and halves exactly if memory allows what it needs.
LEMMA ShrinkTest ==
  ASSUME NEW c \in Caps, NEW n \in Nat, MustShrink(c, n)
  PROVE  /\ n * 100 < 20 * c
         /\ ResizedCap(c \div 2) = c \div 2
         /\ c \div 2 \in Caps
         /\ 2 * (c \div 2) = c
<1>1. c \in Nat /\ c > 0 /\ MinCap \in Nat
  BY CapsAssumption
<1>2. c > MinCap /\ n * 100 < 20 * c
  BY <1>1, ShrinkLoad
<1>3. c \div 2 \in Caps /\ 2 * (c \div 2) = c
  BY <1>2, CapsAssumption
<1>4. c \div 2 \in Nat /\ c \div 2 >= MinCap
  BY <1>3, CapsAssumption
<1>5. ResizedCap(c \div 2) = c \div 2
  BY <1>1, <1>4 DEF ResizedCap
<1> QED
  BY <1>2, <1>3, <1>5

-----------------------------------------------------------------------------
(* Counting slots                                                          *)

\* The fields of a slot follow from its mark.
LEMMA SlotFields ==
  ASSUME NEW e \in Slot
  PROVE  /\ e.occ \in {0, 1, 2}
         /\ e.occ = 1 => /\ e.key \in Keys
                         /\ e.val \in Values
                         /\ [key |-> e.key, val |-> e.val] \in Pair
  BY DEF Slot, Entry, EmptySlot, Tombstone, Pair

\* The used slots of an array can be counted.
LEMMA Countable ==
  ASSUME NEW c \in Nat, NEW a \in [0 .. c - 1 -> Slot]
  PROVE  /\ IsFiniteSet(0 .. c - 1) /\ Cardinality(0 .. c - 1) = c
         /\ IsFiniteSet(Occupied(a)) /\ Cardinality(Occupied(a)) \in Nat
         /\ IsFiniteSet(Tombstones(a)) /\ Cardinality(Tombstones(a)) \in Nat
         /\ Occupied(a) \in SUBSET (0 .. c - 1)
         /\ Tombstones(a) \in SUBSET (0 .. c - 1)
<1>1. IsFiniteSet(0 .. c - 1) /\ Cardinality(0 .. c - 1) = c
  BY FS_Interval
<1>2. Occupied(a) \in SUBSET (0 .. c - 1) /\ Tombstones(a) \in SUBSET (0 .. c - 1)
  BY DEF Occupied, Tombstones
<1> QED
  BY <1>1, <1>2, FS_Subset, FS_CardinalityType

\* Storing an entry.
LEMMA Stored ==
  ASSUME NEW c \in Nat, NEW a \in [0 .. c - 1 -> Slot], NEW s \in 0 .. c - 1,
         NEW k \in Keys, NEW v \in Values
  PROVE  /\ With(a, s, k, v) \in [0 .. c - 1 -> Slot]
         /\ Occupied(With(a, s, k, v)) = Occupied(a) \cup {s}
         /\ Tombstones(With(a, s, k, v)) = Tombstones(a) \ {s}
  BY DEF With, Occupied, Tombstones, Entry, Slot

\* Leaving a tombstone.
LEMMA Buried ==
  ASSUME NEW c \in Nat, NEW a \in [0 .. c - 1 -> Slot], NEW s \in 0 .. c - 1
  PROVE  /\ Without(a, s) \in [0 .. c - 1 -> Slot]
         /\ Occupied(Without(a, s)) = Occupied(a) \ {s}
         /\ Tombstones(Without(a, s)) = Tombstones(a) \cup {s}
  BY DEF Without, Occupied, Tombstones, Tombstone, Slot

\* A zeroed array.
LEMMA Zeroed ==
  ASSUME NEW c \in Nat
  PROVE  /\ EmptySlots(c) \in [0 .. c - 1 -> Slot]
         /\ Occupied(EmptySlots(c)) = {}
         /\ Tombstones(EmptySlots(c)) = {}
         /\ Cardinality(Occupied(EmptySlots(c))) = 0
         /\ Cardinality(Tombstones(EmptySlots(c))) = 0
<1>1. /\ EmptySlots(c) \in [0 .. c - 1 -> Slot]
      /\ Occupied(EmptySlots(c)) = {}
      /\ Tombstones(EmptySlots(c)) = {}
  BY DEF EmptySlots, Occupied, Tombstones, EmptySlot, Slot
<1> QED
  BY <1>1, FS_EmptySet

\* The counters ht_set adjusts are the counts it changes.
LEMMA StoredCounts ==
  ASSUME NEW c \in Nat, NEW a \in [0 .. c - 1 -> Slot], NEW s \in 0 .. c - 1,
         NEW k \in Keys, NEW v \in Values
  PROVE  /\ a[s].occ = 1 =>
              /\ Cardinality(Occupied(With(a, s, k, v))) = Cardinality(Occupied(a))
              /\ Cardinality(Tombstones(With(a, s, k, v))) = Cardinality(Tombstones(a))
         /\ a[s].occ # 1 =>
              Cardinality(Occupied(With(a, s, k, v))) = Cardinality(Occupied(a)) + 1
         /\ a[s].occ = 2 =>
              Cardinality(Tombstones(With(a, s, k, v))) = Cardinality(Tombstones(a)) - 1
         /\ a[s].occ # 2 =>
              Cardinality(Tombstones(With(a, s, k, v))) = Cardinality(Tombstones(a))
<1>1. Occupied(With(a, s, k, v)) = Occupied(a) \cup {s} /\ Tombstones(With(a, s, k, v)) = Tombstones(a) \ {s}
  BY DEF With, Occupied, Tombstones, Entry, Slot
<1>2. /\ IsFiniteSet(Occupied(a)) /\ IsFiniteSet(Tombstones(a))
      /\ Cardinality(Occupied(a)) \in Nat /\ Cardinality(Tombstones(a)) \in Nat
  BY Countable
<1>3. (s \in Occupied(a) <=> a[s].occ = 1) /\ (s \in Tombstones(a) <=> a[s].occ = 2)
  BY DEF Occupied, Tombstones
<1>4. Cardinality(Occupied(With(a, s, k, v))) =
        IF s \in Occupied(a) THEN Cardinality(Occupied(a))
                             ELSE Cardinality(Occupied(a)) + 1
  BY <1>1, <1>2, FS_AddElement
<1>5. Cardinality(Tombstones(With(a, s, k, v))) =
        IF s \in Tombstones(a) THEN Cardinality(Tombstones(a)) - 1
                               ELSE Cardinality(Tombstones(a))
  BY <1>1, <1>2, FS_RemoveElement
<1>6. CASE a[s].occ = 1
  BY <1>2, <1>3, <1>4, <1>5, <1>6
<1>7. CASE a[s].occ = 2
  BY <1>2, <1>3, <1>4, <1>5, <1>7
<1>8. CASE a[s].occ # 1 /\ a[s].occ # 2
  BY <1>2, <1>3, <1>4, <1>5, <1>8
<1> QED
  BY <1>6, <1>7, <1>8

\* The counters ht_delete adjusts are the counts it changes.
LEMMA BuriedCounts ==
  ASSUME NEW c \in Nat, NEW a \in [0 .. c - 1 -> Slot], NEW s \in 0 .. c - 1,
         a[s].occ = 1
  PROVE  /\ Cardinality(Occupied(Without(a, s))) = Cardinality(Occupied(a)) - 1
         /\ Cardinality(Tombstones(Without(a, s))) = Cardinality(Tombstones(a)) + 1
<1>1. Occupied(Without(a, s)) = Occupied(a) \ {s} /\ Tombstones(Without(a, s)) = Tombstones(a) \cup {s}
  BY DEF Without, Occupied, Tombstones, Tombstone, Slot
<1>2. IsFiniteSet(Occupied(a)) /\ IsFiniteSet(Tombstones(a))
  BY Countable
<1>3. s \in Occupied(a) /\ s \notin Tombstones(a)
  BY DEF Occupied, Tombstones
<1>4. Cardinality(Occupied(a) \ {s}) = Cardinality(Occupied(a)) - 1
  BY <1>2, <1>3, FS_RemoveElement
<1>5. Cardinality(Tombstones(a) \cup {s}) = Cardinality(Tombstones(a)) + 1
  BY <1>2, <1>3, FS_AddElement
<1> QED
  BY <1>1, <1>4, <1>5

\* The entries of an array from slot n on.
WaitingFrom(a, n) == {s \in Occupied(a) : s >= n}

\* What ht_resize has still to move, before, during and after its outer loop.
LEMMA WaitingCounts ==
  ASSUME NEW c \in Nat, NEW a \in [0 .. c - 1 -> Slot], NEW n \in Nat
  PROVE  /\ Cardinality(WaitingFrom(a, n)) \in Nat
         /\ WaitingFrom(a, 0) = Occupied(a)
         /\ n \notin DOMAIN a => Cardinality(WaitingFrom(a, n)) = 0
         /\ n \in DOMAIN a /\ a[n].occ # 1 => WaitingFrom(a, n + 1) = WaitingFrom(a, n)
         /\ n \in DOMAIN a /\ a[n].occ = 1 =>
              Cardinality(WaitingFrom(a, n + 1)) = Cardinality(WaitingFrom(a, n)) - 1
<1>1. Occupied(a) \in SUBSET (0 .. c - 1) /\ IsFiniteSet(Occupied(a))
  BY Countable
<1>2. IsFiniteSet(WaitingFrom(a, n)) /\ Cardinality(WaitingFrom(a, n)) \in Nat
  <2>1. WaitingFrom(a, n) \in SUBSET Occupied(a)
    BY DEF WaitingFrom
  <2> QED
    BY <2>1, <1>1, FS_Subset, FS_CardinalityType
<1>3. WaitingFrom(a, 0) = Occupied(a)
  BY <1>1 DEF WaitingFrom
<1>4. ASSUME n \notin DOMAIN a PROVE Cardinality(WaitingFrom(a, n)) = 0
  <2>1. WaitingFrom(a, n) = {}
    BY <1>1, <1>4 DEF WaitingFrom
  <2> QED
    BY <2>1, FS_EmptySet
<1>5. ASSUME n \in DOMAIN a, a[n].occ # 1
      PROVE  WaitingFrom(a, n + 1) = WaitingFrom(a, n)
  BY <1>1, <1>5 DEF WaitingFrom, Occupied
<1>6. ASSUME n \in DOMAIN a, a[n].occ = 1
      PROVE  Cardinality(WaitingFrom(a, n + 1)) = Cardinality(WaitingFrom(a, n)) - 1
  <2>1. n \in WaitingFrom(a, n) /\ WaitingFrom(a, n + 1) = WaitingFrom(a, n) \ {n}
    BY <1>1, <1>6 DEF WaitingFrom, Occupied
  <2> QED
    BY <2>1, <1>2, FS_RemoveElement
<1> QED
  BY <1>2, <1>3, <1>4, <1>5, <1>6

-----------------------------------------------------------------------------
(* Recursive functions                                                     *)

GoesOn(f, D, S, out, next) ==
  /\ f = [x \in D |-> f[x]]
  /\ \A x \in D : f[x] = IF x \in S THEN out[x] ELSE f[next[x]]

\* A function that goes on from x at next[x], or ends there with out[x], exists,
\* whether or not it always ends.
LEMMA Recursion ==
  ASSUME NEW D, NEW S \in SUBSET D, NEW out, NEW next \in [D \ S -> D]
  PROVE  \E f : GoesOn(f, D, S, out, next)
<1> DEFINE R == {out[x] : x \in S}
           Gives(Q, x, r) ==
             \/ x \in S /\ r = out[x]
             \/ x \notin S /\ <<next[x], r>> \in Q
           Closed(Q) ==
             \A x \in D : \A r \in R : Gives(Q, x, r) => <<x, r>> \in Q
           P == {p \in D \X R : \A Q \in SUBSET (D \X R) : Closed(Q) => p \in Q}
           Of(x) == {r \in R : <<x, r>> \in P}
           f == [x \in D |-> CHOOSE r : r \in Of(x)]
<1>1. P \subseteq D \X R
  OBVIOUS
<1>2. Closed(P)
  <2> SUFFICES ASSUME NEW x \in D, NEW r \in R, Gives(P, x, r),
                      NEW Q \in SUBSET (D \X R), Closed(Q)
               PROVE  <<x, r>> \in Q
    OBVIOUS
  <2>1. Gives(Q, x, r)
    OBVIOUS
  <2> QED
    BY <2>1
<1>3. ASSUME NEW x \in D, NEW r \in R, <<x, r>> \in P
      PROVE  Gives(P, x, r)
  <2> SUFFICES ASSUME ~Gives(P, x, r) PROVE FALSE
    OBVIOUS
  <2> DEFINE Q == P \ {<<x, r>>}
  <2>1. Closed(Q)
    <3> SUFFICES ASSUME NEW y \in D, NEW z \in R, Gives(Q, y, z)
                 PROVE  <<y, z>> \in Q
      OBVIOUS
    <3>1. Gives(P, y, z)
      OBVIOUS
    <3>2. <<y, z>> \in P
      BY <3>1, <1>2
    <3>3. <<y, z>> # <<x, r>>
      BY <3>1
    <3> QED
      BY <3>2, <3>3
  <2>2. Q \in SUBSET (D \X R)
    BY <1>1
  <2>3. <<x, r>> \in Q
    BY <1>3, <2>1, <2>2
  <2> QED
    BY <2>3
<1> HIDE DEF P, Closed
<1>4. ASSUME NEW x \in S PROVE Of(x) = {out[x]}
  <2>1. x \in D /\ out[x] \in R
    OBVIOUS
  <2>2. Gives(P, x, out[x])
    OBVIOUS
  <2>3. <<x, out[x]>> \in P
    BY <1>2, <2>1, <2>2 DEF Closed
  <2>4. \A r \in R : <<x, r>> \in P => r = out[x]
    BY <1>3, <2>1
  <2> QED
    BY <2>1, <2>3, <2>4
<1>5. ASSUME NEW x \in D \ S PROVE Of(x) = Of(next[x])
  <2>1. \A r \in R : <<next[x], r>> \in P => <<x, r>> \in P
    <3> TAKE r \in R
    <3> HAVE <<next[x], r>> \in P
    <3>1. x \in D /\ Gives(P, x, r)
      OBVIOUS
    <3> QED
      BY <1>2, <3>1 DEF Closed
  <2>2. \A r \in R : <<x, r>> \in P => <<next[x], r>> \in P
    BY <1>3
  <2> QED
    BY <2>1, <2>2
<1> HIDE DEF Of
<1>6. ASSUME NEW x \in D
      PROVE  f[x] = IF x \in S THEN out[x] ELSE f[next[x]]
  <2>1. CASE x \in S
    BY <1>4, <2>1
  <2>2. CASE x \notin S
    <3>1. next[x] \in D
      BY <2>2
    <3>2. f[next[x]] = CHOOSE r : r \in Of(next[x])
      BY <3>1
    <3>3. Of(x) = Of(next[x])
      BY <1>5, <2>2
    <3> QED
      BY <2>2, <3>2, <3>3
  <2> QED
    BY <2>1, <2>2
<1>7. f = [x \in D |-> f[x]]
  OBVIOUS
<1> HIDE DEF f
<1>8. GoesOn(f, D, S, out, next)
  BY <1>6, <1>7 DEF GoesOn
<1> QED
  BY <1>8

\* Upwards to N.
LEMMA Upwards ==
  ASSUME NEW S, NEW N \in Nat, 0 \in S,
         \A n \in 0 .. N - 1 : n \in S => n + 1 \in S
  PROVE  \A n \in 0 .. N : n \in S
<1> SUFFICES ASSUME {n \in 0 .. N : n \notin S} # {} PROVE FALSE
  OBVIOUS
<1>1. {n \in 0 .. N : n \notin S} \subseteq Nat
  OBVIOUS
<1>2. PICK x \in {n \in 0 .. N : n \notin S} :
        \A y \in {n \in 0 .. N : n \notin S} : x <= y
  BY <1>1, Smallest
<1>3. x # 0 /\ x - 1 \in 0 .. N - 1 /\ (x - 1) + 1 = x
  BY <1>2
<1>4. x - 1 \in S
  BY <1>2, <1>3
<1> QED
  BY <1>2, <1>3, <1>4

Iterates(f, N, T, b, step) ==
  /\ f = [n \in 0 .. N |-> f[n]] /\ f \in [0 .. N -> T]
  /\ f[0] = b /\ \A n \in 1 .. N : f[n] = step[<<n, f[n - 1]>>]

\* A function on 0 .. N whose values go on from one another in T exists.
LEMMA Iteration ==
  ASSUME NEW N \in Nat, NEW T, NEW b \in T, NEW step \in [(1 .. N) \X T -> T]
  PROVE  \E f : Iterates(f, N, T, b, step)
<1> DEFINE Sol(m, f) ==
             /\ f \in [0 .. m -> T]
             /\ f[0] = b /\ \A n \in 1 .. m : f[n] = step[<<n, f[n - 1]>>]
           S == {m \in 0 .. N : \E f : Sol(m, f)}
<1>1. 0 \in S
  <2>1. Sol(0, [n \in 0 .. 0 |-> b])
    OBVIOUS
  <2>2. 0 \in 0 .. N
    OBVIOUS
  <2> HIDE DEF Sol
  <2> QED
    BY <2>1, <2>2
<1>2. ASSUME NEW m \in 0 .. N - 1, m \in S PROVE m + 1 \in S
  <2>1. PICK f : Sol(m, f)
    BY <1>2
  <2>2. m + 1 \in 1 .. N /\ f[m] \in T
    BY <2>1
  <2>3. step[<<m + 1, f[m]>>] \in T
    BY <2>2
  <2> DEFINE g == [n \in 0 .. m + 1 |-> IF n = m + 1 THEN step[<<m + 1, f[m]>>] ELSE f[n]]
  <2>4. g \in [0 .. m + 1 -> T]
    BY <2>1, <2>3
  <2>5. g[0] = b /\ g[m + 1] = step[<<m + 1, g[(m + 1) - 1]>>]
    BY <2>1
  <2>6. \A n \in 1 .. m : g[n] = step[<<n, g[n - 1]>>]
    BY <2>1
  <2> HIDE DEF g
  <2>7. \A n \in 1 .. m + 1 : g[n] = step[<<n, g[n - 1]>>]
    BY <2>5, <2>6
  <2>8. Sol(m + 1, g)
    BY <2>4, <2>5, <2>7
  <2> QED
    BY <2>2, <2>8
<1>3. N \in S
  <2> HIDE DEF S
  <2> QED
    BY <1>1, <1>2, Upwards
<1>4. PICK f : Sol(N, f)
  BY <1>3
<1>5. f = [n \in 0 .. N |-> f[n]]
  BY <1>4
<1>6. Iterates(f, N, T, b, step)
  BY <1>4, <1>5 DEF Iterates
<1> QED
  BY <1>6

-----------------------------------------------------------------------------
(* The probe loops come to an end                                          *)

\* How far the entries of an array can still be moved from their homes.
RoomIn(c, a) ==
  {p \in (0 .. c - 1) \X (0 .. c - 1) :
     LET e == a[p[1]]
     IN  e.occ = 1 => ProbeDistance(c, e.key, p[1]) <= p[2]}

LEMMA RoomCounted ==
  ASSUME NEW c \in Nat, NEW a
  PROVE  IsFiniteSet(RoomIn(c, a)) /\ Cardinality(RoomIn(c, a)) \in Nat
<1>1. IsFiniteSet(0 .. c - 1)
  BY FS_Interval
<1>2. IsFiniteSet((0 .. c - 1) \X (0 .. c - 1))
  BY <1>1, FS_Product
<1>3. RoomIn(c, a) \subseteq (0 .. c - 1) \X (0 .. c - 1)
  BY DEF RoomIn
<1> QED
  BY <1>2, <1>3, FS_Subset, FS_CardinalityType

\* A swap leaves less of it.
LEMMA Swapped ==
  ASSUME NEW c \in Nat, c > 0, NEW a \in [0 .. c - 1 -> Slot],
         NEW k \in Keys, NEW v \in Values, NEW s \in 0 .. c - 1,
         a[s].occ = 1, Poorer(c, k, a[s], s)
  PROVE  Cardinality(RoomIn(c, With(a, s, k, v))) < Cardinality(RoomIn(c, a))
<1> DEFINE b == With(a, s, k, v)
           d == ProbeDistance(c, a[s].key, s)
<1>1. a[s] \in Slot /\ a[s].key \in Keys
  BY SlotFields
<1>2. d \in 0 .. c - 1 /\ ProbeDistance(c, k, s) \in 0 .. c - 1
  BY <1>1, DistanceInArray
<1>3. d < ProbeDistance(c, k, s)
  BY <1>2 DEF Poorer
<1>4. b[s].occ = 1 /\ b[s].key = k /\ \A r \in 0 .. c - 1 : r # s => b[r] = a[r]
  BY DEF With, Entry
<1> HIDE DEF b
<1>5. RoomIn(c, b) \subseteq RoomIn(c, a)
  <2> SUFFICES ASSUME NEW p \in RoomIn(c, b) PROVE p \in RoomIn(c, a)
    OBVIOUS
  <2>1. p \in (0 .. c - 1) \X (0 .. c - 1) /\ p[1] \in 0 .. c - 1 /\ p[2] \in Int
    BY DEF RoomIn
  <2>2. CASE p[1] = s
    <3>1. ProbeDistance(c, k, s) <= p[2]
      BY <1>4, <2>2 DEF RoomIn
    <3>2. d <= p[2]
      BY <1>2, <1>3, <2>1, <3>1
    <3> QED
      BY <2>1, <2>2, <3>2 DEF RoomIn
  <2>3. CASE p[1] # s
    BY <1>4, <2>1, <2>3 DEF RoomIn
  <2> QED
    BY <2>2, <2>3
<1>6. <<s, d>> \in RoomIn(c, a) /\ <<s, d>> \notin RoomIn(c, b)
  <2>1. <<s, d>> \in (0 .. c - 1) \X (0 .. c - 1) /\ <<s, d>>[1] = s /\ <<s, d>>[2] = d
    BY <1>2
  <2>2. <<s, d>> \in RoomIn(c, a)
    BY <1>2, <2>1 DEF RoomIn
  <2>3. ~ (ProbeDistance(c, k, s) <= d)
    BY <1>2, <1>3
  <2> QED
    BY <1>4, <2>1, <2>2, <2>3 DEF RoomIn
<1>7. RoomIn(c, b) # RoomIn(c, a)
  BY <1>6
<1> QED
  BY <1>5, <1>7, RoomCounted, FS_Subset DEF b

Spot(l) == l.t.slots[Index(l)]

\* What a loop holds.
LEMMA LoopAt ==
  ASSUME NEW c \in Nat, c > 0, NEW l \in Loops(c, Slot)
  PROVE  /\ l.t \in Tables(c, Slot) /\ l.t.cap = c
         /\ l.t.slots \in [0 .. c - 1 -> Slot] /\ l.t.size \in Nat /\ l.t.tombs \in Nat
         /\ l.k \in Keys /\ l.v \in Values /\ l.i \in Nat
         /\ Index(l) \in 0 .. c - 1 /\ Spot(l) \in Slot
<1>1. /\ l.t \in Tables(c, Slot) /\ l.k \in Keys /\ l.v \in Values /\ l.i \in Nat
  BY DEF Loops
<1>2. /\ l.t.cap = c /\ l.t.slots \in [0 .. c - 1 -> Slot]
      /\ l.t.size \in Nat /\ l.t.tombs \in Nat
  BY <1>1 DEF Tables
<1>3. Index(l) \in 0 .. c - 1
  BY <1>1, <1>2, ProbeInArray DEF Index
<1> QED
  BY <1>1, <1>2, <1>3 DEF Spot

LEMMA FreshSlots ==
  ASSUME NEW c \in Nat
  PROVE  Tables(c, Fresh) \subseteq Tables(c, Slot) /\ Loops(c, Fresh) \subseteq Loops(c, Slot)
<1>1. [0 .. c - 1 -> Fresh] \subseteq [0 .. c - 1 -> Slot]
  BY DEF Fresh
<1>2. Tables(c, Fresh) \subseteq Tables(c, Slot)
  BY <1>1 DEF Tables
<1> QED
  BY <1>2 DEF Loops

LEMMA EntrySlots ==
  ASSUME NEW S \in {Slot, Fresh}, NEW k \in Keys, NEW v \in Values
  PROVE  Entry(k, v) \in S
  BY DEF Slot, Fresh, Entry, Tombstone

LEMMA PutTyped ==
  ASSUME NEW c \in Nat, NEW S \in {Slot, Fresh}, NEW t \in Tables(c, S),
         NEW s \in 0 .. c - 1, NEW k \in Keys, NEW v \in Values
  PROVE  /\ Put(t, s, k, v) \in Tables(c, S)
         /\ Put(t, s, k, v).slots = With(t.slots, s, k, v)
         /\ Put(t, s, k, v).size = t.size /\ Put(t, s, k, v).tombs = t.tombs
<1>1. Entry(k, v) \in S
  BY EntrySlots
<1>2. With(t.slots, s, k, v) \in [0 .. c - 1 -> S]
  BY <1>1 DEF With, Tables
<1> QED
  BY <1>2 DEF Put, Tables

\* The next iteration.
LEMMA OnwardTyped ==
  ASSUME NEW c \in Nat, c > 0, NEW S \in {Slot, Fresh}, NEW l \in Loops(c, S),
         Spot(l).occ = 1
  PROVE  /\ Onward(l) \in Loops(c, S)
         /\ \/ /\ Poorer(c, l.k, Spot(l), Index(l))
               /\ Onward(l).t = Put(l.t, Index(l), l.k, l.v)
               /\ Onward(l).k = Spot(l).key /\ Onward(l).v = Spot(l).val
            \/ /\ Onward(l).t = l.t /\ Onward(l).k = l.k /\ Onward(l).v = l.v
               /\ Onward(l).i = l.i + 1
<1>1. l \in Loops(c, Slot)
  BY FreshSlots
<1>2. /\ l.t.cap = c /\ l.k \in Keys /\ l.v \in Values /\ l.i \in Nat
      /\ Index(l) \in 0 .. c - 1 /\ Spot(l) \in Slot
  BY <1>1, LoopAt
<1>3. Spot(l).key \in Keys /\ Spot(l).val \in Values
  BY <1>2, SlotFields
<1>4. l.t \in Tables(c, S) /\ l = [t |-> l.t, k |-> l.k, v |-> l.v, i |-> l.i]
  BY DEF Loops
<1>5. Put(l.t, Index(l), l.k, l.v) \in Tables(c, S)
  BY <1>2, <1>4, PutTyped
<1>6. l.i + 1 \in Nat
  BY <1>2
<1>7. CASE Poorer(c, l.k, Spot(l), Index(l))
  <2>1. Onward(l) = [t |-> Put(l.t, Index(l), l.k, l.v), k |-> Spot(l).key,
                     v |-> Spot(l).val, i |-> l.i + 1]
    BY <1>2, <1>7 DEF Onward, Spot
  <2> QED
    BY <1>3, <1>5, <1>6, <1>7, <2>1 DEF Loops
<1>8. CASE ~Poorer(c, l.k, Spot(l), Index(l))
  <2>1. Onward(l) = [t |-> l.t, k |-> l.k, v |-> l.v, i |-> l.i + 1]
    BY <1>2, <1>4, <1>8 DEF Onward, Spot
  <2> QED
    BY <1>2, <1>4, <1>6, <2>1 DEF Loops
<1> QED
  BY <1>7, <1>8

\* The loops with a slot left that is not an entry.
Roomy(c, S) == {l \in Loops(c, S) : \E s \in 0 .. c - 1 : l.t.slots[s].occ # 1}

LEMMA RoomyOnward ==
  ASSUME NEW c \in Nat, c > 0, NEW S \in {Slot, Fresh}, NEW l \in Roomy(c, S),
         Spot(l).occ = 1
  PROVE  Onward(l) \in Roomy(c, S)
<1>1. l \in Loops(c, S) /\ l \in Loops(c, Slot)
  BY FreshSlots DEF Roomy
<1>2. Index(l) \in 0 .. c - 1 /\ l.k \in Keys /\ l.v \in Values /\ l.t \in Tables(c, Slot)
  BY <1>1, LoopAt
<1>3. PICK s \in 0 .. c - 1 : l.t.slots[s].occ # 1
  BY DEF Roomy
<1>4. Onward(l).t.slots[s].occ # 1
  <2>1. s # Index(l)
    BY <1>3 DEF Spot
  <2>2. With(l.t.slots, Index(l), l.k, l.v)[s] = l.t.slots[s]
    BY <1>1, <1>2, <2>1, LoopAt DEF With
  <2>3. Put(l.t, Index(l), l.k, l.v).slots = With(l.t.slots, Index(l), l.k, l.v)
    BY <1>2, PutTyped
  <2> QED
    BY <1>1, <1>3, <2>2, <2>3, OnwardTyped
<1>5. Onward(l) \in Loops(c, S)
  BY <1>1, OnwardTyped
<1> QED
  BY <1>4, <1>5 DEF Roomy

\* Probing on from a loop to a free slot.
Ahead(c, l) ==
  {n \in 0 .. c - 1 : l.t.slots[ProbeIndex(c, l.k, l.i + n)].occ # 1}

LEMMA SomethingAhead ==
  ASSUME NEW c \in Nat, c > 0, NEW l \in Roomy(c, Slot)
  PROVE  Ahead(c, l) # {} /\ Ahead(c, l) \subseteq Nat
<1>1. l \in Loops(c, Slot)
  BY DEF Roomy
<1>2. PICK s \in 0 .. c - 1 : l.t.slots[s].occ # 1
  BY DEF Roomy
<1>3. l.k \in Keys /\ l.i \in Nat /\ Hash[l.k] \in Nat
  BY <1>1, LoopAt, HashAssumption
<1>4. Hash[l.k] + l.i \in Nat
  BY <1>3
<1>5. PICK n \in 0 .. c - 1 : ((Hash[l.k] + l.i) + n) % c = s
  BY <1>4, Probes
<1>6. Hash[l.k] + (l.i + n) = (Hash[l.k] + l.i) + n
  BY <1>3
<1>7. ProbeIndex(c, l.k, l.i + n) = s
  BY <1>5, <1>6 DEF ProbeIndex
<1>8. n \in Ahead(c, l)
  BY <1>2, <1>7 DEF Ahead
<1>9. Ahead(c, l) \subseteq Nat
  BY DEF Ahead
<1> QED
  BY <1>8, <1>9

\* What holds at the end of a loop, and before an iteration if after it, holds
\* of every loop that has room.
LEMMA LoopsEnd ==
  ASSUME NEW c \in Nat, c > 0, NEW S \in {Slot, Fresh}, NEW P,
         \A l \in Roomy(c, S) : Spot(l).occ # 1 => l \in P,
         \A l \in Roomy(c, S) : Spot(l).occ = 1 /\ Onward(l) \in P => l \in P
  PROVE  Roomy(c, S) \subseteq P
<1> SUFFICES ASSUME Roomy(c, S) \ P # {} PROVE FALSE
  OBVIOUS
<1> DEFINE B == Roomy(c, S) \ P
           R(l) == Cardinality(RoomIn(c, l.t.slots))
<1>1. \A l \in B : l \in Loops(c, S) /\ l \in Loops(c, Slot) /\ l \in Roomy(c, Slot)
  <2>1. Loops(c, S) \subseteq Loops(c, Slot)
    BY FreshSlots
  <2> QED
    BY <2>1 DEF Roomy
<1>2. \A l \in B : R(l) \in Nat
  BY RoomCounted
<1> DEFINE Rs == {R(l) : l \in B}
<1>3. PICK r \in Rs : \A q \in Rs : r <= q
  <2>1. Rs \subseteq Nat
    BY <1>2
  <2>2. Rs # {}
    OBVIOUS
  <2> HIDE DEF Rs
  <2> QED
    BY <2>1, <2>2, Smallest
<1> DEFINE C == {l \in B : R(l) = r}
           Ns == {n \in Nat : \E l \in C : n \in Ahead(c, l)}
<1>4. PICK n \in Ns : \A m \in Ns : n <= m
  <2>1. PICK l \in B : R(l) = r
    BY <1>3
  <2>2. l \in C
    BY <2>1
  <2>3. Ahead(c, l) # {} /\ Ahead(c, l) \subseteq Nat
    BY <1>1, SomethingAhead
  <2>4. Ns # {} /\ Ns \subseteq Nat
    BY <2>2, <2>3
  <2> HIDE DEF Ns
  <2> QED
    BY <2>4, Smallest
<1>5. PICK l \in C : n \in Ahead(c, l)
  BY <1>4
<1>6. l \in B /\ R(l) = r /\ l \in Roomy(c, S) /\ l \notin P
  BY <1>5
<1>7. Spot(l).occ = 1 /\ Onward(l) \notin P
  BY <1>6
<1>8. Onward(l) \in Roomy(c, S)
  BY <1>6, <1>7, RoomyOnward
<1>9. Onward(l) \in B
  BY <1>7, <1>8
<1>10. /\ l.t \in Tables(c, Slot) /\ l.t.cap = c /\ l.t.slots \in [0 .. c - 1 -> Slot]
       /\ l.k \in Keys /\ l.v \in Values /\ l.i \in Nat /\ Index(l) \in 0 .. c - 1
  BY <1>1, <1>6, LoopAt
<1>11. CASE /\ Poorer(c, l.k, Spot(l), Index(l))
            /\ Onward(l).t = Put(l.t, Index(l), l.k, l.v)
  <2>1. R(Onward(l)) < R(l)
    <3>1. Onward(l).t.slots = With(l.t.slots, Index(l), l.k, l.v)
      BY <1>10, <1>11, PutTyped
    <3> QED
      BY <1>7, <1>10, <1>11, <3>1, Swapped DEF Spot
  <2>2. R(Onward(l)) \in Rs
    BY <1>9
  <2>3. R(Onward(l)) \in Nat /\ r \in Nat
    BY <1>2, <1>6, <1>9
  <2> HIDE DEF R, Rs
  <2> QED
    BY <1>3, <1>6, <2>1, <2>2, <2>3
<1>12. CASE /\ Onward(l).t = l.t /\ Onward(l).k = l.k /\ Onward(l).i = l.i + 1
  <2>1. R(Onward(l)) = r
    BY <1>6, <1>12
  <2>2. Onward(l) \in C
    BY <1>9, <2>1
  <2>3. n \in 0 .. c - 1 /\ l.t.slots[ProbeIndex(c, l.k, l.i + n)].occ # 1
    BY <1>5 DEF Ahead
  <2>4. n # 0
    <3>1. l.i + 0 = l.i
      BY <1>10
    <3> QED
      BY <1>7, <1>10, <2>3, <3>1 DEF Spot, Index
  <2>5. n - 1 \in 0 .. c - 1 /\ (l.i + 1) + (n - 1) = l.i + n /\ n - 1 < n
    BY <1>10, <2>3, <2>4
  <2>6. n - 1 \in Ahead(c, Onward(l))
    BY <1>12, <2>3, <2>5 DEF Ahead
  <2>7. n - 1 \in Ns
    BY <2>2, <2>5, <2>6
  <2> QED
    BY <1>4, <2>3, <2>5, <2>7
<1>13. \/ /\ Poorer(c, l.k, Spot(l), Index(l))
          /\ Onward(l).t = Put(l.t, Index(l), l.k, l.v)
       \/ Onward(l).t = l.t /\ Onward(l).k = l.k /\ Onward(l).i = l.i + 1
  BY <1>1, <1>6, <1>7, OnwardTyped
<1> QED
  BY <1>11, <1>12, <1>13

\* A table without tombstones has free slots and entries.
LEMMA FreshSpot ==
  ASSUME NEW c \in Nat, c > 0, NEW l \in Loops(c, Fresh)
  PROVE  Spot(l).occ \in {0, 1}
<1>1. l.t \in Tables(c, Fresh) /\ l.t.cap = c /\ Index(l) \in 0 .. c - 1
  BY FreshSlots, LoopAt DEF Loops
<1>2. Spot(l) \in Fresh
  BY <1>1 DEF Spot, Tables
<1> QED
  BY <1>2 DEF Fresh, Slot, Entry, EmptySlot, Tombstone

-----------------------------------------------------------------------------
(* The loops as functions of what they hold                                *)

SetFrom(c, key) == CHOOSE set : set = [l \in Loops(c, Slot) |-> Setting(set, l, key)]
PlaceFrom(c)    == CHOOSE place : place = [l \in Loops(c, Fresh) |-> Reinsertion(place, l)]
FindFrom(t, k)  == CHOOSE find : find = [i \in Nat |-> Finding(find, t, k, i)]

LEMMA SetBegins ==
  ASSUME NEW t, NEW k, NEW v
  PROVE  SetLoop(t, k, v) = SetFrom(t.cap, k)[Begin(t, k, v)]
  BY DEF SetLoop, SetFrom

LEMMA PlaceBegins ==
  ASSUME NEW t, NEW k, NEW v
  PROVE  Reinsert(t, k, v) = PlaceFrom(t.cap)[Begin(t, k, v)]
  BY DEF Reinsert, PlaceFrom

LEMMA FindBegins ==
  ASSUME NEW t, NEW k
  PROVE  HtFind(t, k) = FindFrom(t, k)[0]
  BY DEF HtFind, FindFrom

\* Where ht_set stops, and with what.
SetStops(e, carried, key) == e.occ # 1 \/ Matches(e, carried, key)
SetEnd(l) ==
  LET s == Index(l)
      e == Spot(l)
  IN  IF e.occ # 1
        THEN [table |-> Insert(l.t, s, l.k, l.v), isNew |-> 1]
        ELSE [table |-> Put(l.t, s, e.key, l.v), isNew |-> 0]

LEMMA SetIteration ==
  ASSUME NEW c \in Nat, c > 0, NEW key \in Keys, NEW l \in Loops(c, Slot)
  PROVE  SetFrom(c, key)[l] =
           IF SetStops(Spot(l), l.k, key) THEN SetEnd(l) ELSE SetFrom(c, key)[Onward(l)]
<1> DEFINE D == Loops(c, Slot)
           S == {m \in D : SetStops(Spot(m), m.k, key)}
           out == [m \in S |-> SetEnd(m)]
           next == [m \in D \ S |-> Onward(m)]
<1>1. next \in [D \ S -> D]
  <2> SUFFICES ASSUME NEW m \in D \ S PROVE Onward(m) \in D
    OBVIOUS
  <2>1. Spot(m).occ = 1
    BY DEF SetStops
  <2> QED
    BY <2>1, OnwardTyped
<1>2. PICK f : f = [m \in D |-> f[m]] /\ \A m \in D : f[m] = IF m \in S THEN out[m] ELSE f[next[m]]
  <2> HIDE DEF D, out, next
  <2>1. S \in SUBSET D
    OBVIOUS
  <2> HIDE DEF S
  <2>2. \E f : GoesOn(f, D, S, out, next)
    BY <1>1, <2>1, Recursion, Zenon
  <2> QED
    BY <2>2 DEF GoesOn
<1>3. ASSUME NEW m \in D, NEW g
      PROVE  Setting(g, m, key) = IF SetStops(Spot(m), m.k, key) THEN SetEnd(m) ELSE g[Onward(m)]
  BY DEF Setting, SetStops, SetEnd, Spot
<1>4. \A m \in D : f[m] = Setting(f, m, key)
  <2> TAKE m \in D
  <2>1. f[m] = IF m \in S THEN out[m] ELSE f[next[m]]
    <3> HIDE DEF S, D, out, next
    <3> QED
      BY <1>2
  <2> QED
    BY <1>3, <2>1
<1>5. f = [m \in D |-> Setting(f, m, key)]
  BY <1>2, <1>4
<1>6. \E g : g = [m \in D |-> Setting(g, m, key)]
  BY <1>5
<1>7. SetFrom(c, key) = [m \in D |-> Setting(SetFrom(c, key), m, key)]
  BY <1>6, Zenon DEF SetFrom
<1>8. SetFrom(c, key)[l] = Setting(SetFrom(c, key), l, key)
  BY <1>7
<1> QED
  BY <1>3, <1>8

LEMMA PlaceIteration ==
  ASSUME NEW c \in Nat, c > 0, NEW l \in Loops(c, Fresh)
  PROVE  PlaceFrom(c)[l] =
           IF Spot(l).occ = 0
             THEN Place(l.t, Index(l), l.k, l.v)
             ELSE PlaceFrom(c)[Onward(l)]
<1> DEFINE D == Loops(c, Fresh)
           S == {m \in D : Spot(m).occ = 0}
           End(m) == Place(m.t, Index(m), m.k, m.v)
           out == [m \in S |-> End(m)]
           next == [m \in D \ S |-> Onward(m)]
<1>1. next \in [D \ S -> D]
  <2> SUFFICES ASSUME NEW m \in D \ S PROVE Onward(m) \in D
    OBVIOUS
  <2>1. Spot(m).occ = 1
    BY FreshSpot
  <2> QED
    BY <2>1, OnwardTyped
<1>2. PICK f : f = [m \in D |-> f[m]] /\ \A m \in D : f[m] = IF m \in S THEN out[m] ELSE f[next[m]]
  <2> HIDE DEF D, out, next
  <2>1. S \in SUBSET D
    OBVIOUS
  <2> HIDE DEF S
  <2>2. \E f : GoesOn(f, D, S, out, next)
    BY <1>1, <2>1, Recursion, Zenon
  <2> QED
    BY <2>2 DEF GoesOn
<1>3. ASSUME NEW m \in D, NEW g
      PROVE  Reinsertion(g, m) = IF Spot(m).occ = 0 THEN End(m) ELSE g[Onward(m)]
  BY DEF Reinsertion, Spot
<1> HIDE DEF End
<1>4. \A m \in D : f[m] = Reinsertion(f, m)
  <2> TAKE m \in D
  <2>1. f[m] = IF m \in S THEN out[m] ELSE f[next[m]]
    <3> HIDE DEF S, D, out, next
    <3> QED
      BY <1>2
  <2> QED
    BY <1>3, <2>1
<1>5. f = [m \in D |-> Reinsertion(f, m)]
  BY <1>2, <1>4
<1>6. \E g : g = [m \in D |-> Reinsertion(g, m)]
  BY <1>5
<1>7. PlaceFrom(c) = [m \in D |-> Reinsertion(PlaceFrom(c), m)]
  BY <1>6, Zenon DEF PlaceFrom
<1>8. PlaceFrom(c)[l] = Reinsertion(PlaceFrom(c), l)
  BY <1>7
<1> QED
  BY <1>3, <1>8 DEF End

\* Where ht_find stops, and with what.
FindStops(t, k, i) ==
  LET s == ProbeIndex(t.cap, k, i)
      e == t.slots[s]
  IN  \/ e.occ = 0
      \/ e.occ = 1 /\ (i > ProbeDistance(t.cap, e.key, s) \/ Matches(e, k, k))
FindEnd(t, k, i) ==
  LET s == ProbeIndex(t.cap, k, i)
      e == t.slots[s]
  IN  IF e.occ = 0 \/ (e.occ = 1 /\ i > ProbeDistance(t.cap, e.key, s)) THEN -1 ELSE s

LEMMA FindIteration ==
  ASSUME NEW t, NEW k, NEW i \in Nat
  PROVE  FindFrom(t, k)[i] =
           IF FindStops(t, k, i) THEN FindEnd(t, k, i) ELSE FindFrom(t, k)[i + 1]
<1> DEFINE S == {m \in Nat : FindStops(t, k, m)}
           out == [m \in S |-> FindEnd(t, k, m)]
           next == [m \in Nat \ S |-> m + 1]
<1>1. next \in [Nat \ S -> Nat]
  OBVIOUS
<1>2. PICK f : f = [m \in Nat |-> f[m]] /\ \A m \in Nat : f[m] = IF m \in S THEN out[m] ELSE f[next[m]]
  <2> HIDE DEF out, next
  <2>1. S \in SUBSET Nat
    OBVIOUS
  <2> HIDE DEF S
  <2>2. \E f : GoesOn(f, Nat, S, out, next)
    BY <1>1, <2>1, Recursion, Zenon
  <2> QED
    BY <2>2 DEF GoesOn
<1>3. ASSUME NEW m \in Nat, NEW g
      PROVE  Finding(g, t, k, m) = IF FindStops(t, k, m) THEN FindEnd(t, k, m) ELSE g[m + 1]
  BY DEF Finding, FindStops, FindEnd
<1>4. \A m \in Nat : f[m] = Finding(f, t, k, m)
  <2> TAKE m \in Nat
  <2>1. f[m] = IF m \in S THEN out[m] ELSE f[next[m]]
    <3> HIDE DEF S, out, next
    <3> QED
      BY <1>2
  <2> QED
    BY <1>3, <2>1
<1>5. f = [m \in Nat |-> Finding(f, t, k, m)]
  BY <1>2, <1>4
<1>6. \E g : g = [m \in Nat |-> Finding(g, t, k, m)]
  BY <1>5
<1>7. FindFrom(t, k) = [m \in Nat |-> Finding(FindFrom(t, k), t, k, m)]
  BY <1>6, Zenon DEF FindFrom
<1>8. FindFrom(t, k)[i] = Finding(FindFrom(t, k), t, k, i)
  BY <1>7
<1> QED
  BY <1>3, <1>8

-----------------------------------------------------------------------------
(* Whole calls keep a table sound                                          *)

\* A table that counts its slots truly, with entries whose values are in V.
Sound(c, S, V) ==
  {t \in Tables(c, S) :
     /\ t.size = Cardinality(Occupied(t.slots))
     /\ t.tombs = Cardinality(Tombstones(t.slots))
     /\ \A s \in Occupied(t.slots) : t.slots[s].val \in V}

LEMMA SoundFields ==
  ASSUME NEW c \in Nat, NEW S \in {Slot, Fresh}, NEW V, NEW t \in Sound(c, S, V)
  PROVE  /\ t \in Tables(c, S) /\ t \in Tables(c, Slot) /\ t \in Sound(c, Slot, V)
         /\ t.cap = c /\ t.slots \in [0 .. c - 1 -> Slot]
         /\ t.size \in Nat /\ t.tombs \in Nat
         /\ t.size = Cardinality(Occupied(t.slots))
         /\ t.tombs = Cardinality(Tombstones(t.slots))
         /\ \A s \in 0 .. c - 1 : t.slots[s].occ = 1 => t.slots[s].val \in V
<1>1. t \in Tables(c, S) /\ t \in Tables(c, Slot)
  BY FreshSlots DEF Sound
<1>2. t.cap = c /\ t.slots \in [0 .. c - 1 -> Slot] /\ t.size \in Nat /\ t.tombs \in Nat
  BY <1>1 DEF Tables
<1>3. \A s \in 0 .. c - 1 : t.slots[s].occ = 1 => t.slots[s].val \in V
  BY <1>2 DEF Sound, Occupied
<1> QED
  BY <1>1, <1>2, <1>3 DEF Sound

\* A pair put in the place of another, into a free slot, into a tombstone.
LEMMA Exchanged ==
  ASSUME NEW c \in Nat, NEW S \in {Slot, Fresh}, NEW V \in SUBSET Values,
         NEW t \in Sound(c, S, V), NEW s \in 0 .. c - 1, NEW k \in Keys, NEW v \in V,
         t.slots[s].occ = 1
  PROVE  /\ Put(t, s, k, v) \in Sound(c, S, V)
         /\ Put(t, s, k, v).size = t.size /\ Put(t, s, k, v).tombs = t.tombs
<1> DEFINE u == Put(t, s, k, v)
           a == With(t.slots, s, k, v)
<1>1. /\ t \in Tables(c, S) /\ t.slots \in [0 .. c - 1 -> Slot] /\ v \in Values
      /\ t.size \in Nat /\ t.tombs \in Nat
      /\ t.size = Cardinality(Occupied(t.slots)) /\ t.tombs = Cardinality(Tombstones(t.slots))
      /\ \A r \in 0 .. c - 1 : t.slots[r].occ = 1 => t.slots[r].val \in V
  BY SoundFields
<1>2. u \in Tables(c, S) /\ u.slots = a /\ u.size = t.size /\ u.tombs = t.tombs
  BY <1>1, PutTyped
<1>3. \A r \in Occupied(a) : a[r].val \in V
  BY <1>1 DEF With, Occupied, Entry
<1>4. Cardinality(Occupied(a)) = t.size /\ Cardinality(Tombstones(a)) = t.tombs
  BY <1>1, StoredCounts
<1> HIDE DEF u, a
<1>5. u \in Sound(c, S, V)
  BY <1>2, <1>3, <1>4 DEF Sound
<1> QED
  BY <1>2, <1>5 DEF u

LEMMA Inserted ==
  ASSUME NEW c \in Nat, NEW S \in {Slot, Fresh}, NEW V \in SUBSET Values,
         NEW t \in Sound(c, S, V), NEW s \in 0 .. c - 1, NEW k \in Keys, NEW v \in V,
         t.slots[s].occ # 1
  PROVE  /\ Insert(t, s, k, v) \in Sound(c, S, V)
         /\ Insert(t, s, k, v).slots = With(t.slots, s, k, v)
         /\ Insert(t, s, k, v).size + Insert(t, s, k, v).tombs <= t.size + t.tombs + 1
<1> DEFINE u == Put(t, s, k, v)
           p == Place(t, s, k, v)
           w == Insert(t, s, k, v)
           a == With(t.slots, s, k, v)
           d == IF t.slots[s].occ = 2 THEN 1 ELSE 0
<1>1. /\ t \in Tables(c, S) /\ t.slots \in [0 .. c - 1 -> Slot] /\ v \in Values
      /\ t.size \in Nat /\ t.tombs \in Nat
      /\ t.size = Cardinality(Occupied(t.slots)) /\ t.tombs = Cardinality(Tombstones(t.slots))
      /\ \A r \in 0 .. c - 1 : t.slots[r].occ = 1 => t.slots[r].val \in V
  BY SoundFields
<1>2. u \in Tables(c, S) /\ u.slots = a /\ u.size = t.size /\ u.tombs = t.tombs
  BY <1>1, PutTyped
<1>3. \A r \in Occupied(a) : a[r].val \in V
  BY <1>1 DEF With, Occupied, Entry
<1>4. Cardinality(Occupied(a)) \in Nat /\ Cardinality(Tombstones(a)) \in Nat
  BY <1>1, Stored, Countable
<1>5. Cardinality(Occupied(a)) = t.size + 1 /\ Cardinality(Tombstones(a)) = t.tombs - d
  <2>1. Cardinality(Occupied(a)) = Cardinality(Occupied(t.slots)) + 1
    BY <1>1, StoredCounts
  <2>2. CASE t.slots[s].occ = 2
    BY <1>1, <2>1, <2>2, StoredCounts
  <2>3. CASE t.slots[s].occ # 2
    <3>1. Cardinality(Tombstones(a)) = Cardinality(Tombstones(t.slots))
      BY <1>1, <2>3, StoredCounts
    <3> QED
      BY <1>1, <2>1, <2>3, <3>1
  <2> QED
    BY <2>2, <2>3
<1>6. d \in {0, 1} /\ t.tombs - d \in Nat
  BY <1>4, <1>5
<1>7. p = [u EXCEPT !.size = u.size + 1] /\ w = [p EXCEPT !.tombs = p.tombs - d]
  BY DEF Place, Insert
<1> HIDE DEF u, p, w, a, d
<1>8. p \in Tables(c, S) /\ p.slots = a /\ p.size = t.size + 1 /\ p.tombs = t.tombs
  BY <1>1, <1>2, <1>7 DEF Tables
<1>9. w \in Tables(c, S) /\ w.slots = a /\ w.size = t.size + 1 /\ w.tombs = t.tombs - d
  BY <1>6, <1>7, <1>8 DEF Tables
<1>10. w \in Sound(c, S, V)
  BY <1>3, <1>5, <1>9 DEF Sound
<1>11. w.size + w.tombs <= t.size + t.tombs + 1
  BY <1>1, <1>6, <1>9
<1> QED
  BY <1>9, <1>10, <1>11 DEF w, a

LEMMA PlacedNew ==
  ASSUME NEW c \in Nat, NEW V \in SUBSET Values,
         NEW t \in Sound(c, Fresh, V), NEW s \in 0 .. c - 1, NEW k \in Keys, NEW v \in V,
         t.slots[s].occ = 0
  PROVE  /\ Place(t, s, k, v) \in Sound(c, Fresh, V)
         /\ Place(t, s, k, v).slots = With(t.slots, s, k, v)
         /\ Place(t, s, k, v).size = t.size + 1 /\ Place(t, s, k, v).tombs = t.tombs
<1> DEFINE u == Put(t, s, k, v)
           p == Place(t, s, k, v)
           a == With(t.slots, s, k, v)
<1>1. /\ t \in Tables(c, Fresh) /\ t.slots \in [0 .. c - 1 -> Slot] /\ v \in Values
      /\ t.size \in Nat /\ t.tombs \in Nat
      /\ t.size = Cardinality(Occupied(t.slots)) /\ t.tombs = Cardinality(Tombstones(t.slots))
      /\ \A r \in 0 .. c - 1 : t.slots[r].occ = 1 => t.slots[r].val \in V
  BY SoundFields
<1>2. u \in Tables(c, Fresh) /\ u.slots = a /\ u.size = t.size /\ u.tombs = t.tombs
  BY <1>1, PutTyped
<1>3. \A r \in Occupied(a) : a[r].val \in V
  BY <1>1 DEF With, Occupied, Entry
<1>4. t.slots[s].occ # 1 /\ t.slots[s].occ # 2
  OBVIOUS
<1>5. Cardinality(Occupied(a)) = Cardinality(Occupied(t.slots)) + 1
  BY <1>1, <1>4, StoredCounts
<1>6. Cardinality(Tombstones(a)) = Cardinality(Tombstones(t.slots))
  BY <1>1, <1>4, StoredCounts
<1>7. p = [u EXCEPT !.size = u.size + 1]
  BY DEF Place
<1> HIDE DEF u, p, a
<1>8. p \in Tables(c, Fresh) /\ p.slots = a /\ p.size = t.size + 1 /\ p.tombs = t.tombs
  BY <1>1, <1>2, <1>7 DEF Tables
<1>9. p \in Sound(c, Fresh, V)
  BY <1>1, <1>3, <1>5, <1>6, <1>8 DEF Sound
<1> QED
  BY <1>8, <1>9 DEF p, a

\* Room as the load test sees it.
LEMMA RoomLeft ==
  ASSUME NEW c \in Nat, NEW V, NEW t \in Sound(c, Slot, V)
  PROVE  /\ t.size < c => \E s \in 0 .. c - 1 : t.slots[s].occ # 1
         /\ t.size + t.tombs < c => \E s \in 0 .. c - 1 : t.slots[s].occ = 0
<1> DEFINE A == Occupied(t.slots)
           B == Tombstones(t.slots)
<1> HIDE DEF A, B
<1>1. /\ t.slots \in [0 .. c - 1 -> Slot] /\ t.size \in Nat /\ t.tombs \in Nat
      /\ t.size = Cardinality(A) /\ t.tombs = Cardinality(B)
  BY SoundFields DEF A, B
<1>2. /\ IsFiniteSet(A) /\ IsFiniteSet(B) /\ Cardinality(0 .. c - 1) = c
      /\ A \in SUBSET (0 .. c - 1) /\ B \in SUBSET (0 .. c - 1)
  BY <1>1, Countable DEF A, B
<1>3. ASSUME t.size < c PROVE \E s \in 0 .. c - 1 : t.slots[s].occ # 1
  <2>1. A # 0 .. c - 1
    BY <1>1, <1>2, <1>3
  <2> QED
    BY <1>1, <1>2, <2>1 DEF A, Occupied
<1>4. ASSUME t.size + t.tombs < c PROVE \E s \in 0 .. c - 1 : t.slots[s].occ = 0
  <2>1. A \cap B = {}
    BY DEF A, B, Occupied, Tombstones
  <2>2. Cardinality(A \cup B) = t.size + t.tombs
    <3>1. Cardinality(A \cup B) = Cardinality(A) + Cardinality(B) - Cardinality(A \cap B)
      BY <1>2, FS_Union
    <3>2. Cardinality(A \cap B) = 0
      BY <2>1, FS_EmptySet
    <3> QED
      BY <1>1, <3>1, <3>2
  <2>3. A \cup B # 0 .. c - 1
    <3> DEFINE C == A \cup B
    <3>1. Cardinality(C) = t.size + t.tombs
      BY <2>2
    <3> HIDE DEF C
    <3>2. C # 0 .. c - 1
      BY <1>1, <1>2, <1>4, <3>1
    <3> QED
      BY <3>2 DEF C
  <2>4. PICK s \in 0 .. c - 1 : s \notin A /\ s \notin B
    BY <1>2, <2>3
  <2>5. t.slots[s].occ \in {0, 1, 2}
    BY <1>1, SlotFields
  <2> QED
    BY <1>1, <2>4, <2>5 DEF A, B, Occupied, Tombstones
<1> QED
  BY <1>3, <1>4

\* The loop of ht_set.
LEMMA SetLoopSound ==
  ASSUME NEW c \in Nat, c > 0, NEW V \in SUBSET Values, NEW t \in Sound(c, Slot, V),
         t.size < c, NEW key \in Keys, NEW v \in V
  PROVE  LET r == SetLoop(t, key, v)
         IN  /\ r.table \in Sound(c, Slot, V) /\ r.isNew \in {0, 1}
             /\ r.table.size + r.table.tombs <= t.size + t.tombs + 1
<1> DEFINE N == t.size + t.tombs
           From(l) == SetFrom(c, key)[l]
           Result(r) == /\ r.table \in Sound(c, Slot, V) /\ r.isNew \in {0, 1}
                        /\ r.table.size + r.table.tombs <= N + 1
           Holds(l) == /\ l.t \in Sound(c, Slot, V) /\ l.v \in V
                       /\ l.t.size + l.t.tombs = N
           P == {l \in Loops(c, Slot) : Holds(l) => Result(From(l))}
<1>1. ASSUME NEW l \in Loops(c, Slot), Holds(l), SetStops(Spot(l), l.k, key)
      PROVE  Result(From(l))
  <2>1. /\ l.t.slots \in [0 .. c - 1 -> Slot] /\ l.k \in Keys
        /\ Index(l) \in 0 .. c - 1 /\ Spot(l) = l.t.slots[Index(l)] /\ Spot(l) \in Slot
    BY LoopAt DEF Spot
  <2>2. From(l) = SetEnd(l)
    BY <1>1, SetIteration
  <2> HIDE DEF N, From
  <2>3. CASE Spot(l).occ # 1
    <3> DEFINE w == Insert(l.t, Index(l), l.k, l.v)
    <3>1. w \in Sound(c, Slot, V) /\ w.size + w.tombs <= l.t.size + l.t.tombs + 1
      BY <1>1, <2>1, <2>3, Inserted
    <3>2. SetEnd(l) = [table |-> w, isNew |-> 1]
      BY <2>3 DEF SetEnd
    <3> HIDE DEF w
    <3> QED
      BY <1>1, <2>2, <3>1, <3>2
  <2>4. CASE Spot(l).occ = 1
    <3> DEFINE w == Put(l.t, Index(l), Spot(l).key, l.v)
    <3>1. Spot(l).key \in Keys
      BY <2>1, <2>4, SlotFields
    <3>2. w \in Sound(c, Slot, V) /\ w.size = l.t.size /\ w.tombs = l.t.tombs
      BY <1>1, <2>1, <2>4, <3>1, Exchanged
    <3>3. SetEnd(l) = [table |-> w, isNew |-> 0]
      BY <2>4 DEF SetEnd
    <3>4. w.size + w.tombs <= l.t.size + l.t.tombs + 1
      BY <1>1, <3>2, SoundFields
    <3> HIDE DEF w
    <3> QED
      BY <1>1, <2>2, <3>2, <3>3, <3>4
  <2> QED
    BY <2>3, <2>4
<1>2. ASSUME NEW l \in Loops(c, Slot), Holds(l), ~SetStops(Spot(l), l.k, key)
      PROVE  Holds(Onward(l)) /\ From(Onward(l)) = From(l) /\ Spot(l).occ = 1
  <2>1. /\ l.t.slots \in [0 .. c - 1 -> Slot] /\ l.k \in Keys
        /\ Index(l) \in 0 .. c - 1 /\ Spot(l) = l.t.slots[Index(l)]
    BY LoopAt DEF Spot
  <2>2. From(Onward(l)) = From(l)
    BY <1>2, SetIteration
  <2>3. Spot(l).occ = 1
    BY <1>2 DEF SetStops
  <2>4. Spot(l).val \in V
    BY <1>2, <2>1, <2>3, SoundFields
  <2>5. /\ Put(l.t, Index(l), l.k, l.v) \in Sound(c, Slot, V)
        /\ Put(l.t, Index(l), l.k, l.v).size = l.t.size
        /\ Put(l.t, Index(l), l.k, l.v).tombs = l.t.tombs
    BY <1>2, <2>1, <2>3, Exchanged
  <2>6. \/ Onward(l).t = Put(l.t, Index(l), l.k, l.v) /\ Onward(l).v = Spot(l).val
        \/ Onward(l).t = l.t /\ Onward(l).v = l.v
    BY <2>3, OnwardTyped
  <2> HIDE DEF N
  <2>7. Holds(Onward(l))
    BY <1>2, <2>4, <2>5, <2>6
  <2> QED
    BY <2>2, <2>3, <2>7
<1> HIDE DEF From, Holds, Result
<1>3. \A l \in Roomy(c, Slot) : Spot(l).occ # 1 => l \in P
  BY <1>1 DEF Roomy, SetStops
<1>4. \A l \in Roomy(c, Slot) : Spot(l).occ = 1 /\ Onward(l) \in P => l \in P
  BY <1>1, <1>2 DEF Roomy
<1>5. Roomy(c, Slot) \subseteq P
  <2> HIDE DEF P
  <2> QED
    BY <1>3, <1>4, LoopsEnd
<1> DEFINE b == Begin(t, key, v)
<1>6. b.t = t /\ b.k = key /\ b.v = v /\ b \in Loops(c, Slot)
  BY SoundFields DEF Begin, Loops
<1>7. b \in Roomy(c, Slot)
  BY <1>6, RoomLeft DEF Roomy
<1>8. Holds(b)
  BY <1>6 DEF Holds
<1>9. Result(From(b))
  BY <1>5, <1>7, <1>8
<1>10. SetLoop(t, key, v) = From(b)
  BY SetBegins, SoundFields DEF From
<1> QED
  BY <1>9, <1>10 DEF Result

\* The inner loop of ht_resize.
LEMMA ReinsertSound ==
  ASSUME NEW c \in Nat, c > 0, NEW V \in SUBSET Values, NEW t \in Sound(c, Fresh, V),
         t.size < c, NEW k \in Keys, NEW v \in V
  PROVE  /\ Reinsert(t, k, v) \in Sound(c, Fresh, V)
         /\ Reinsert(t, k, v).size = t.size + 1 /\ Reinsert(t, k, v).tombs = t.tombs
<1> DEFINE N == t.size
           M == t.tombs
           From(l) == PlaceFrom(c)[l]
           Result(u) == u \in Sound(c, Fresh, V) /\ u.size = N + 1 /\ u.tombs = M
           Holds(l) == l.t \in Sound(c, Fresh, V) /\ l.v \in V /\ l.t.size = N /\ l.t.tombs = M
           P == {l \in Loops(c, Fresh) : Holds(l) => Result(From(l))}
<1>1. ASSUME NEW l \in Loops(c, Fresh)
      PROVE  /\ l.t.slots \in [0 .. c - 1 -> Slot] /\ l.k \in Keys
             /\ Index(l) \in 0 .. c - 1 /\ Spot(l) = l.t.slots[Index(l)]
             /\ Spot(l).occ \in {0, 1}
  BY FreshSlots, LoopAt, FreshSpot DEF Spot
<1>2. ASSUME NEW l \in Loops(c, Fresh), Holds(l), Spot(l).occ # 1
      PROVE  Result(From(l))
  <2>1. From(l) = Place(l.t, Index(l), l.k, l.v)
    BY <1>1, <1>2, PlaceIteration
  <2> HIDE DEF N, M, From
  <2> QED
    BY <1>1, <1>2, <2>1, PlacedNew
<1>3. ASSUME NEW l \in Loops(c, Fresh), Holds(l), Spot(l).occ = 1
      PROVE  Holds(Onward(l)) /\ From(Onward(l)) = From(l)
  <2>1. From(Onward(l)) = From(l)
    BY <1>3, PlaceIteration
  <2>2. Spot(l).val \in V
    BY <1>1, <1>3, SoundFields
  <2>3. /\ Put(l.t, Index(l), l.k, l.v) \in Sound(c, Fresh, V)
        /\ Put(l.t, Index(l), l.k, l.v).size = l.t.size
        /\ Put(l.t, Index(l), l.k, l.v).tombs = l.t.tombs
    BY <1>1, <1>3, Exchanged
  <2>4. \/ Onward(l).t = Put(l.t, Index(l), l.k, l.v) /\ Onward(l).v = Spot(l).val
        \/ Onward(l).t = l.t /\ Onward(l).v = l.v
    BY <1>3, OnwardTyped
  <2> HIDE DEF N, M
  <2>5. Holds(Onward(l))
    BY <1>3, <2>2, <2>3, <2>4
  <2> QED
    BY <2>1, <2>5
<1> HIDE DEF From, Holds, Result
<1>4. \A l \in Roomy(c, Fresh) : Spot(l).occ # 1 => l \in P
  BY <1>2 DEF Roomy
<1>5. \A l \in Roomy(c, Fresh) : Spot(l).occ = 1 /\ Onward(l) \in P => l \in P
  BY <1>2, <1>3 DEF Roomy
<1>6. Roomy(c, Fresh) \subseteq P
  <2> HIDE DEF P
  <2> QED
    BY <1>4, <1>5, LoopsEnd
<1> DEFINE b == Begin(t, k, v)
<1>7. b.t = t /\ b.k = k /\ b.v = v /\ b \in Loops(c, Fresh)
  BY SoundFields DEF Begin, Loops
<1>8. b \in Roomy(c, Fresh)
  <2>1. t \in Sound(c, Slot, V)
    BY SoundFields
  <2> QED
    BY <1>7, <2>1, RoomLeft DEF Roomy
<1>9. Holds(b)
  BY <1>7 DEF Holds
<1>10. Result(From(b))
  BY <1>6, <1>8, <1>9
<1>11. Reinsert(t, k, v) = From(b)
  BY PlaceBegins, SoundFields DEF From
<1> QED
  BY <1>10, <1>11 DEF Result

LEMMA ClearedSound ==
  ASSUME NEW c \in Nat, NEW V
  PROVE  /\ Cleared(c) \in Sound(c, Fresh, V)
         /\ Cleared(c).size = 0 /\ Cleared(c).tombs = 0 /\ Cleared(c).cap = c
<1>1. Cleared(c) = [cap |-> c, slots |-> EmptySlots(c), size |-> 0, tombs |-> 0]
  BY DEF Cleared
<1>2. EmptySlots(c) \in [0 .. c - 1 -> Fresh]
  BY DEF EmptySlots, Fresh, Slot, EmptySlot, Tombstone
<1>3. Occupied(EmptySlots(c)) = {} /\ Cardinality(Occupied(EmptySlots(c))) = 0
      /\ Cardinality(Tombstones(EmptySlots(c))) = 0
  BY Zeroed
<1> DEFINE t == Cleared(c)
<1> HIDE DEF t
<1>4. t.cap = c /\ t.slots = EmptySlots(c) /\ t.size = 0 /\ t.tombs = 0
  BY <1>1 DEF t
<1>5. t \in Tables(c, Fresh)
  BY <1>1, <1>2 DEF Tables, t
<1>6. t \in Sound(c, Fresh, V)
  BY <1>3, <1>4, <1>5 DEF Sound
<1> QED
  BY <1>4, <1>6 DEF t

\* The outer loop, for any number of steps.
MoveFrom(t, c) ==
  CHOOSE moved : moved = [n \in 0 .. t.cap |->
    IF n = 0 THEN Cleared(ResizedCap(c)) ELSE Moved(moved[n - 1], t.slots[n - 1])]

LEMMA ResizeMoves ==
  ASSUME NEW t, NEW c
  PROVE  HtResize(t, c) = MoveFrom(t, c)[t.cap]
  BY DEF HtResize, MoveFrom

MovesOn(f, t, c, V, d) ==
  /\ f[0] = Cleared(d)
  /\ \A n \in 1 .. c : Moved(f[n - 1], t.slots[n - 1]) \in Sound(d, Fresh, V)
                         => f[n] = Moved(f[n - 1], t.slots[n - 1])

LEMMA MovesSound ==
  ASSUME NEW c \in Nat, NEW V \in SUBSET Values, NEW t \in Sound(c, Slot, V),
         NEW d \in Nat, d > 0, t.size <= d, NEW f, MovesOn(f, t, c, V, d)
  PROVE  \A n \in 0 .. c :
           /\ f[n] \in Sound(d, Fresh, V)
           /\ f[n].size + Cardinality(WaitingFrom(t.slots, n)) = t.size
           /\ f[n].tombs = 0
           /\ n > 0 => f[n] = Moved(f[n - 1], t.slots[n - 1])
<1> DEFINE W(n) == Cardinality(WaitingFrom(t.slots, n))
           Holds(n) == /\ f[n] \in Sound(d, Fresh, V)
                       /\ f[n].size + W(n) = t.size
                       /\ f[n].tombs = 0
                       /\ n > 0 => f[n] = Moved(f[n - 1], t.slots[n - 1])
           S == {n \in 0 .. c : Holds(n)}
<1>1. /\ t.slots \in [0 .. c - 1 -> Slot] /\ t.size \in Nat
      /\ t.size = Cardinality(Occupied(t.slots))
      /\ \A r \in 0 .. c - 1 : t.slots[r].occ = 1 => t.slots[r].val \in V
  BY SoundFields
<1>2. 0 \in S
  <2>1. W(0) = t.size
    BY <1>1, WaitingCounts
  <2> HIDE DEF W
  <2> QED
    BY <1>1, <2>1, ClearedSound DEF MovesOn
<1>3. ASSUME NEW m \in 0 .. c - 1, Holds(m) PROVE Holds(m + 1)
  <2> DEFINE e == t.slots[m]
             u == Moved(f[m], e)
  <2>1. m + 1 \in 1 .. c /\ (m + 1) - 1 = m /\ m \in Nat
    OBVIOUS
  <2>2. e \in Slot /\ m \in DOMAIN t.slots
    BY <1>1
  <2>3. W(m) \in Nat /\ f[m].size \in Nat
    <3>1. f[m].size \in Nat
      BY <1>3, SoundFields
    <3>2. W(m) \in Nat
      BY <1>1, <2>1, WaitingCounts
    <3> QED
      BY <3>1, <3>2
  <2>4. u \in Sound(d, Fresh, V) /\ u.size + W(m + 1) = t.size /\ u.tombs = 0
    <3>1. CASE e.occ = 1
      <4>1. e.key \in Keys /\ e.val \in V
        BY <1>1, <2>2, <3>1, SlotFields
      <4>2. W(m + 1) = W(m) - 1 /\ W(m + 1) \in Nat
        BY <1>1, <2>1, <2>2, <3>1, WaitingCounts
      <4>3. u = Reinsert(f[m], e.key, e.val)
        BY <3>1 DEF Moved
      <4> HIDE DEF W, e, u
      <4>4. f[m].size < d
        BY <1>1, <1>3, <2>3, <4>2
      <4>5. u \in Sound(d, Fresh, V) /\ u.size = f[m].size + 1 /\ u.tombs = f[m].tombs
        BY <1>3, <4>1, <4>3, <4>4, ReinsertSound
      <4> QED
        BY <1>1, <1>3, <2>3, <4>2, <4>5
    <3>2. CASE e.occ # 1
      <4>1. W(m + 1) = W(m)
        BY <1>1, <2>1, <2>2, <3>2, WaitingCounts
      <4>2. u = f[m]
        BY <3>2 DEF Moved
      <4> QED
        BY <1>3, <4>1, <4>2
    <3> QED
      BY <3>1, <3>2
  <2>5. f[m + 1] = u
    BY <2>1, <2>4 DEF MovesOn
  <2> HIDE DEF W
  <2> QED
    BY <2>1, <2>4, <2>5
<1>4. \A n \in 0 .. c : n \in S
  <2>1. \A n \in 0 .. c - 1 : n \in S => n + 1 \in S
    <3> HIDE DEF Holds
    <3> QED
      BY <1>3
  <2> HIDE DEF S
  <2> QED
    BY <1>2, <2>1, Upwards
<1> QED
  BY <1>4

\* The outer loop as a function of the next slot of the old array.
LEMMA MoveIteration ==
  ASSUME NEW c \in Nat, NEW V \in SUBSET Values, NEW t \in Sound(c, Slot, V),
         NEW n, NEW d \in Nat, d > 0, t.size <= d, d = ResizedCap(n)
  PROVE  /\ MovesOn(MoveFrom(t, n), t, c, V, d)
         /\ \A m \in 1 .. c :
              MoveFrom(t, n)[m] = Moved(MoveFrom(t, n)[m - 1], t.slots[m - 1])
<1> DEFINE T == Sound(d, Fresh, V)
           b == Cleared(d)
           step == [p \in (1 .. c) \X T |->
                      IF Moved(p[2], t.slots[p[1] - 1]) \in T
                        THEN Moved(p[2], t.slots[p[1] - 1]) ELSE b]
<1>1. t.cap = c
  BY SoundFields
<1>2. b \in T /\ step \in [(1 .. c) \X T -> T]
  BY ClearedSound
<1>3. PICK f : Iterates(f, c, T, b, step)
  <2> HIDE DEF T, b, step
  <2> QED
    BY <1>2, Iteration, Zenon
<1>4. /\ f = [m \in 0 .. c |-> f[m]] /\ f \in [0 .. c -> T] /\ f[0] = b
      /\ \A m \in 1 .. c : f[m] = step[<<m, f[m - 1]>>]
  BY <1>3 DEF Iterates
<1>5. \A m \in 1 .. c : f[m] = IF Moved(f[m - 1], t.slots[m - 1]) \in T
                                 THEN Moved(f[m - 1], t.slots[m - 1]) ELSE b
  <2> TAKE m \in 1 .. c
  <2>1. m - 1 \in 0 .. c
    OBVIOUS
  <2>2. f[m - 1] \in T
    BY <1>4, <2>1
  <2> HIDE DEF T, b
  <2>3. <<m, f[m - 1]>> \in (1 .. c) \X T
    BY <2>2
  <2> QED
    BY <1>4, <2>3
<1>6. MovesOn(f, t, c, V, d)
  BY <1>4, <1>5 DEF MovesOn
<1>7. \A m \in 1 .. c : f[m] = Moved(f[m - 1], t.slots[m - 1])
  <2> HIDE DEF T, b, step
  <2>1. \A m \in 0 .. c : m > 0 => f[m] = Moved(f[m - 1], t.slots[m - 1])
    BY <1>6, MovesSound
  <2> QED
    BY <2>1
<1>8. \A m \in 0 .. c : f[m] = IF m = 0 THEN Cleared(ResizedCap(n))
                                 ELSE Moved(f[m - 1], t.slots[m - 1])
  BY <1>4, <1>7
<1>9. f = [m \in 0 .. t.cap |-> IF m = 0 THEN Cleared(ResizedCap(n))
                                  ELSE Moved(f[m - 1], t.slots[m - 1])]
  <2>1. f = [m \in 0 .. c |-> f[m]]
    BY <1>4
  <2> DEFINE E(g, m) == IF m = 0 THEN Cleared(ResizedCap(n))
                                 ELSE Moved(g[m - 1], t.slots[m - 1])
  <2>2. \A m \in 0 .. c : f[m] = E(f, m)
    BY <1>8
  <2> HIDE DEF E
  <2>3. f = [m \in 0 .. c |-> E(f, m)]
    BY <2>1, <2>2
  <2>4. f = [m \in 0 .. t.cap |-> E(f, m)]
    BY <1>1, <2>3
  <2> QED
    BY <2>4 DEF E
<1>10. \E g : g = [m \in 0 .. t.cap |-> IF m = 0 THEN Cleared(ResizedCap(n))
                                         ELSE Moved(g[m - 1], t.slots[m - 1])]
  BY <1>9
<1> DEFINE g == MoveFrom(t, n)
<1>11. g = [m \in 0 .. t.cap |-> IF m = 0 THEN Cleared(ResizedCap(n))
                                   ELSE Moved(g[m - 1], t.slots[m - 1])]
  BY <1>10, Zenon DEF MoveFrom
<1> HIDE DEF g
<1>12. g[0] = Cleared(d) /\ \A m \in 1 .. c : g[m] = Moved(g[m - 1], t.slots[m - 1])
  BY <1>1, <1>11
<1> QED
  BY <1>12 DEF g, MovesOn

LEMMA ResizeSound ==
  ASSUME NEW c \in Nat, NEW V \in SUBSET Values, NEW t \in Sound(c, Slot, V),
         NEW n, NEW d \in Nat, d > 0, t.size <= d, d = ResizedCap(n)
  PROVE  /\ HtResize(t, n) \in Sound(d, Fresh, V) /\ HtResize(t, n) \in Sound(d, Slot, V)
         /\ HtResize(t, n).size = t.size /\ HtResize(t, n).tombs = 0
<1>1. t.cap = c /\ c \in 0 .. c /\ t.slots \in [0 .. c - 1 -> Slot] /\ t.size \in Nat
  BY SoundFields
<1> DEFINE g == MoveFrom(t, n)
<1>2. MovesOn(g, t, c, V, d)
  BY MoveIteration
<1>3. HtResize(t, n) = g[c]
  BY <1>1, ResizeMoves
<1> HIDE DEF g
<1>4. /\ g[c] \in Sound(d, Fresh, V)
      /\ g[c].size + Cardinality(WaitingFrom(t.slots, c)) = t.size /\ g[c].tombs = 0
  BY <1>1, <1>2, MovesSound
<1>5. Cardinality(WaitingFrom(t.slots, c)) = 0
  <2>1. c \notin DOMAIN t.slots
    BY <1>1
  <2> QED
    BY <1>1, <2>1, WaitingCounts
<1>6. g[c].size \in Nat /\ g[c] \in Sound(d, Slot, V)
  BY <1>4, SoundFields
<1> QED
  BY <1>3, <1>4, <1>5, <1>6

-----------------------------------------------------------------------------
(* The calls of hashtable.h                                                *)

\* ht_find comes to an end in a table with an empty slot, with the slot of an
\* entry for the key or with none.
LEMMA FindResult ==
  ASSUME NEW c \in Nat, c > 0, NEW t \in Tables(c, Slot), NEW k \in Keys,
         \E s \in 0 .. c - 1 : t.slots[s].occ = 0
  PROVE  HtFind(t, k) # -1 =>
           /\ HtFind(t, k) \in 0 .. c - 1
           /\ t.slots[HtFind(t, k)].occ = 1 /\ t.slots[HtFind(t, k)].key = k
<1> DEFINE Stops == {n \in Nat : FindStops(t, k, n)}
           f(n) == FindFrom(t, k)[n]
<1>1. t.cap = c /\ t.slots \in [0 .. c - 1 -> Slot]
  BY DEF Tables
<1>2. Stops # {}
  <2>1. PICK s \in 0 .. c - 1 : t.slots[s].occ = 0
    OBVIOUS
  <2>2. PICK n \in 0 .. c - 1 : (Hash[k] + n) % c = s
    BY Probes, HashAssumption
  <2>3. n \in Nat /\ FindStops(t, k, n)
    BY <1>1, <2>1, <2>2 DEF FindStops, ProbeIndex
  <2> QED
    BY <2>3
<1>3. PICK m \in Stops : \A n \in Stops : m <= n
  <2>1. Stops \subseteq Nat
    OBVIOUS
  <2> HIDE DEF Stops
  <2> QED
    BY <1>2, <2>1, Smallest
<1>4. m \in Nat /\ FindStops(t, k, m) /\ \A n \in 0 .. m - 1 : ~FindStops(t, k, n)
  BY <1>3
<1> HIDE DEF Stops
<1>5. \A n \in 0 .. m - 1 : f(n) = f(n + 1)
  BY <1>4, FindIteration
<1> DEFINE S == {n \in Nat : f(0) = f(n)}
<1>6. m \in S
  <2>1. \A n \in 0 .. m - 1 : n \in S => n + 1 \in S
    BY <1>5
  <2>2. 0 \in S
    OBVIOUS
  <2> HIDE DEF S
  <2>3. \A n \in 0 .. m : n \in S
    BY <1>4, <2>1, <2>2, Upwards
  <2> QED
    BY <1>4, <2>3
<1>7. HtFind(t, k) = FindEnd(t, k, m)
  BY <1>4, <1>6, FindBegins, FindIteration
<1>8. ProbeIndex(c, k, m) \in 0 .. c - 1
  BY <1>4, ProbeInArray
<1> QED
  BY <1>1, <1>4, <1>7, <1>8 DEF FindEnd, FindStops, Matches

\* The tables that the calls leave behind: sound, of any capacity from the
\* first on, and below the load where ht_set would have grown them.
Good(V) ==
  {t \in UNION {Sound(c, Slot, V) : c \in Nat} :
     t.cap >= MinCap /\ (t.size + t.tombs) * 100 < 71 * t.cap}

LEMMA GoodFields ==
  ASSUME NEW V, NEW t \in Good(V)
  PROVE  /\ t.cap \in Nat /\ t.cap >= MinCap /\ t.cap > 1
         /\ t \in Sound(t.cap, Slot, V) /\ t \in Tables(t.cap, Slot)
         /\ t.slots \in [0 .. t.cap - 1 -> Slot] /\ t.size \in Nat /\ t.tombs \in Nat
         /\ t.size + t.tombs < t.cap /\ t.size < t.cap
         /\ (t.size + t.tombs) * 100 < 71 * t.cap
         /\ \A s \in 0 .. t.cap - 1 : t.slots[s].occ = 1 => t.slots[s].val \in V
<1>1. PICK c \in Nat : t \in Sound(c, Slot, V)
  BY DEF Good
<1>2. /\ t.cap = c /\ t \in Tables(c, Slot)
      /\ t.slots \in [0 .. c - 1 -> Slot] /\ t.size \in Nat /\ t.tombs \in Nat
      /\ \A s \in 0 .. c - 1 : t.slots[s].occ = 1 => t.slots[s].val \in V
  BY <1>1, SoundFields
<1>3. t.cap >= MinCap /\ (t.size + t.tombs) * 100 < 71 * t.cap
  BY DEF Good
<1>4. MinCap \in Nat /\ MinCap >= 2
  BY CapsAssumption
<1>5. c >= MinCap /\ c > 1
  BY <1>2, <1>3, <1>4
<1>6. t.size + t.tombs < c /\ t.size < c
  BY <1>2, <1>3, <1>5
<1> QED
  BY <1>1, <1>2, <1>3, <1>5, <1>6

LEMMA GoodTable ==
  ASSUME NEW V, NEW c \in Nat, c >= MinCap, NEW t \in Sound(c, Slot, V),
         (t.size + t.tombs) * 100 < 71 * c
  PROVE  t \in Good(V) /\ t.cap = c
<1>1. t.cap = c
  BY SoundFields
<1> QED
  BY <1>1 DEF Good

LEMMA EmptyGood ==
  ASSUME NEW V
  PROVE  EmptyTable \in Good(V) /\ EmptyTable.cap \in Caps
<1>1. MinCap \in Nat /\ MinCap >= 2 /\ MinCap \in Caps
  BY CapsAssumption
<1>2. /\ Cleared(MinCap) \in Sound(MinCap, Fresh, V)
      /\ Cleared(MinCap).size = 0 /\ Cleared(MinCap).tombs = 0
  BY <1>1, ClearedSound
<1>3. Cleared(MinCap) \in Sound(MinCap, Slot, V)
  BY <1>1, <1>2, SoundFields
<1>4. (0 + 0) * 100 < 71 * MinCap
  BY <1>1
<1>5. Cleared(MinCap) \in Good(V) /\ Cleared(MinCap).cap = MinCap
  BY <1>1, <1>2, <1>3, <1>4, GoodTable
<1> QED
  BY <1>1, <1>5 DEF EmptyTable

LEMMA FindGood ==
  ASSUME NEW V, NEW t \in Good(V), NEW k \in Keys, HtExists(t, k)
  PROVE  /\ HtFind(t, k) \in 0 .. t.cap - 1
         /\ t.slots[HtFind(t, k)].occ = 1 /\ t.slots[HtFind(t, k)].key = k
         /\ HtGet(t, k) = t.slots[HtFind(t, k)].val /\ HtGet(t, k) \in V
<1>1. /\ t.cap \in Nat /\ t.cap > 0 /\ t \in Tables(t.cap, Slot) /\ t \in Sound(t.cap, Slot, V)
      /\ t.size + t.tombs < t.cap
      /\ \A s \in 0 .. t.cap - 1 : t.slots[s].occ = 1 => t.slots[s].val \in V
  BY GoodFields
<1>2. \E s \in 0 .. t.cap - 1 : t.slots[s].occ = 0
  BY <1>1, RoomLeft
<1>3. /\ HtFind(t, k) \in 0 .. t.cap - 1
      /\ t.slots[HtFind(t, k)].occ = 1 /\ t.slots[HtFind(t, k)].key = k
  BY <1>1, <1>2, FindResult DEF HtExists
<1> QED
  BY <1>1, <1>3 DEF HtGet

\* ht_set.
LEMMA SetGood ==
  ASSUME NEW V \in SUBSET Values, NEW t \in Good(V), NEW k \in Keys, NEW v \in V
  PROVE  LET r == SetResult(t, k, v)
         IN  /\ r.table \in Good(V) /\ r.isNew \in {0, 1}
             /\ r.table.cap = IF MustGrow(t.cap, t.size + t.tombs)
                                THEN ResizedCap(2 * t.cap) ELSE t.cap
<1> DEFINE c == t.cap
           u == t.size + t.tombs
           r == SetResult(t, k, v)
<1>1. /\ c \in Nat /\ c > 1 /\ c >= MinCap /\ t \in Sound(c, Slot, V)
      /\ t.size \in Nat /\ t.tombs \in Nat /\ t.size < c /\ u \in Nat
      /\ u * 100 < 71 * c /\ MinCap \in Nat
  BY GoodFields, CapsAssumption
<1>2. MustGrow(c, u) <=> (u + 1) * 100 >= 71 * c
  BY <1>1, GrowTest
<1>3. CASE MustGrow(c, u)
  <2> DEFINE d == ResizedCap(2 * c)
             g == HtResize(t, 2 * c)
  <2>1. d \in Nat /\ d > 0 /\ d >= MinCap /\ t.size < d /\ (t.size + 1) * 100 < 71 * d
    BY <1>1 DEF ResizedCap
  <2>2. g \in Sound(d, Slot, V) /\ g.size = t.size /\ g.tombs = 0
    BY <1>1, <2>1, ResizeSound
  <2>3. r = SetLoop(g, k, v)
    BY <1>3 DEF SetResult
  <2> HIDE DEF c, u, r, d, g
  <2>4. /\ r.table \in Sound(d, Slot, V) /\ r.isNew \in {0, 1}
        /\ r.table.size + r.table.tombs <= t.size + 0 + 1
    BY <2>1, <2>2, <2>3, SetLoopSound
  <2>5. r.table.size \in Nat /\ r.table.tombs \in Nat
    BY <2>1, <2>4, SoundFields
  <2>6. (r.table.size + r.table.tombs) * 100 < 71 * d
    BY <1>1, <2>1, <2>4, <2>5
  <2>7. r.table \in Good(V) /\ r.table.cap = d
    BY <2>1, <2>4, <2>6, GoodTable
  <2> QED
    BY <1>3, <2>4, <2>7 DEF c, u, r, d
<1>4. CASE ~MustGrow(c, u)
  <2>1. r = SetLoop(t, k, v)
    BY <1>4 DEF SetResult
  <2>2. c > 0
    BY <1>1
  <2> HIDE DEF c, r
  <2>3. /\ r.table \in Sound(c, Slot, V) /\ r.isNew \in {0, 1}
        /\ r.table.size + r.table.tombs <= t.size + t.tombs + 1
    BY <1>1, <2>1, <2>2, SetLoopSound
  <2>4. r.table.size \in Nat /\ r.table.tombs \in Nat
    BY <1>1, <2>3, SoundFields
  <2>5. (r.table.size + r.table.tombs) * 100 < 71 * c
    BY <1>1, <1>2, <1>4, <2>3, <2>4
  <2>6. r.table \in Good(V) /\ r.table.cap = c
    BY <1>1, <2>3, <2>5, GoodTable
  <2> QED
    BY <1>4, <2>3, <2>6 DEF c, r
<1> QED
  BY <1>3, <1>4

\* A tombstone in the place of an entry.
LEMMA BuriedSound ==
  ASSUME NEW c \in Nat, NEW V, NEW t \in Sound(c, Slot, V), NEW s \in 0 .. c - 1,
         t.slots[s].occ = 1
  PROVE  /\ Bury(t, s) \in Sound(c, Slot, V) /\ Bury(t, s).slots = Without(t.slots, s)
         /\ Bury(t, s).size = t.size - 1 /\ Bury(t, s).tombs = t.tombs + 1
<1> DEFINE a == Without(t.slots, s)
           n == t.size - 1
           m == t.tombs + 1
           d == [t EXCEPT !.slots = a, !.size = n, !.tombs = m]
<1>1. /\ t \in Tables(c, Slot) /\ t.slots \in [0 .. c - 1 -> Slot]
      /\ t.size \in Nat /\ t.tombs \in Nat
      /\ t.size = Cardinality(Occupied(t.slots)) /\ t.tombs = Cardinality(Tombstones(t.slots))
      /\ \A r \in 0 .. c - 1 : t.slots[r].occ = 1 => t.slots[r].val \in V
  BY SoundFields
<1>2. a \in [0 .. c - 1 -> Slot] /\ Occupied(a) = Occupied(t.slots) \ {s}
  BY <1>1, Buried
<1>3. Cardinality(Occupied(a)) = n /\ Cardinality(Tombstones(a)) = m
  BY <1>1, BuriedCounts
<1>4. Cardinality(Occupied(a)) \in Nat /\ Cardinality(Tombstones(a)) \in Nat
  BY <1>2, Countable
<1>5. \A r \in Occupied(a) : a[r].val \in V
  BY <1>1 DEF Without, Occupied, Tombstone
<1>6. n = t.size - 1 /\ m = t.tombs + 1
  OBVIOUS
<1> HIDE DEF a, n, m
<1>7. d \in Tables(c, Slot) /\ d.slots = a /\ d.size = n /\ d.tombs = m
  BY <1>1, <1>2, <1>3, <1>4 DEF Tables
<1>8. d \in Sound(c, Slot, V)
  <2> HIDE DEF d
  <2> QED
    BY <1>3, <1>5, <1>7 DEF Sound
<1> QED
  BY <1>6, <1>7, <1>8 DEF a, n, m, Bury

\* ht_delete.
LEMMA DeleteGood ==
  ASSUME NEW V \in SUBSET Values, NEW t \in Good(V), NEW k \in Keys
  PROVE  /\ HtDelete(t, k) \in Good(V)
         /\ t.cap \in Caps => HtDelete(t, k).cap \in Caps
<1>1. CASE ~HtExists(t, k)
  BY <1>1 DEF HtDelete
<1>2. CASE HtExists(t, k)
  <2> DEFINE c == t.cap
             s == HtFind(t, k)
             d == Bury(t, s)
  <2>1. /\ c \in Nat /\ c > 1 /\ c >= MinCap /\ t \in Sound(c, Slot, V)
        /\ t.size \in Nat /\ t.tombs \in Nat /\ t.size + t.tombs < c
        /\ (t.size + t.tombs) * 100 < 71 * c /\ MinCap \in Nat /\ MinCap >= 2
    BY GoodFields, CapsAssumption
  <2>2. s \in 0 .. c - 1 /\ t.slots[s].occ = 1
    BY <1>2, FindGood
  <2>3. d \in Sound(c, Slot, V) /\ d.size = t.size - 1 /\ d.tombs = t.tombs + 1
    BY <2>1, <2>2, BuriedSound
  <2>4. HtDelete(t, k) = IF MustShrink(d.cap, d.size) THEN HtResize(d, d.cap \div 2) ELSE d
    BY <1>2 DEF HtDelete
  <2> HIDE DEF c, s, d
  <2>5. d.cap = c /\ d.size \in Nat /\ d.tombs \in Nat
    BY <2>1, <2>3, SoundFields
  <2>6. CASE ~MustShrink(d.cap, d.size)
    <3>1. (d.size + d.tombs) * 100 < 71 * c
      BY <2>1, <2>3
    <3>2. d \in Good(V) /\ d.cap = c
      BY <2>1, <2>3, <3>1, GoodTable
    <3> QED
      BY <2>4, <2>6, <3>2 DEF c
  <2>7. CASE MustShrink(d.cap, d.size)
    <3> DEFINE h == c \div 2
               e == ResizedCap(h)
               g == HtResize(d, h)
    <3>1. d.size * 100 < 20 * c
      BY <2>1, <2>5, <2>7, ShrinkLoad
    <3>2. h \in Nat /\ c <= 2 * h + 1
      BY <2>1
    <3> HIDE DEF h
    <3>3. e \in Nat /\ e >= MinCap /\ e > 0 /\ e >= h
      BY <2>1, <3>2 DEF ResizedCap
    <3>10. e = ResizedCap(h)
      OBVIOUS
    <3> HIDE DEF e
    <3>4. d.size <= e /\ d.size * 100 < 71 * e
      BY <2>1, <2>5, <3>1, <3>2, <3>3
    <3>5. g \in Sound(e, Slot, V) /\ g.size = d.size /\ g.tombs = 0
      <4>1. c \in Nat /\ d \in Sound(c, Slot, V) /\ e \in Nat /\ e > 0 /\ d.size <= e
        BY <2>1, <2>3, <3>3, <3>4
      <4> QED
        BY <3>10, <4>1, ResizeSound
    <3> HIDE DEF g
    <3>6. (g.size + g.tombs) * 100 < 71 * e
      BY <2>5, <3>4, <3>5
    <3>7. g \in Good(V) /\ g.cap = e
      BY <3>3, <3>5, <3>6, GoodTable
    <3>8. HtDelete(t, k) = g
      BY <2>4, <2>5, <2>7 DEF g, h
    <3>9. ASSUME c \in Caps PROVE e \in Caps
      BY <2>5, <2>7, <3>9, ShrinkTest DEF e, h
    <3> QED
      BY <3>7, <3>8, <3>9 DEF c
  <2> QED
    BY <2>6, <2>7
<1> QED
  BY <1>1, <1>2

-----------------------------------------------------------------------------
(* The pairs a table holds                                                 *)

PairsOf(a) == {<<a[s].key, a[s].val>> : s \in Occupied(a)}

LEMMA PairsStored ==
  ASSUME NEW c \in Nat, NEW a \in [0 .. c - 1 -> Slot], NEW s \in 0 .. c - 1,
         NEW k \in Keys, NEW v \in Values
  PROVE  /\ a[s].occ # 1 => PairsOf(With(a, s, k, v)) = PairsOf(a) \cup {<<k, v>>}
         /\ a[s].occ = 1 => PairsOf(With(a, s, k, v)) \cup {<<a[s].key, a[s].val>>}
                              = PairsOf(a) \cup {<<k, v>>}
<1> DEFINE b == With(a, s, k, v)
<1>0. b[s] = Entry(k, v) /\ \A r \in 0 .. c - 1 : r # s => b[r] = a[r]
  BY DEF With
<1>1. /\ Occupied(b) = Occupied(a) \cup {s} /\ b[s].key = k /\ b[s].val = v
      /\ \A r \in 0 .. c - 1 : r # s => b[r] = a[r]
  <2>1. Occupied(b) = Occupied(a) \cup {s}
    BY Stored
  <2>2. b[s].key = k /\ b[s].val = v
    BY <1>0 DEF Entry
  <2> QED
    BY <1>0, <2>1, <2>2
<1>2. Occupied(a) \subseteq 0 .. c - 1 /\ (s \in Occupied(a) <=> a[s].occ = 1)
  BY DEF Occupied
<1> HIDE DEF b
<1>3. \A p : p \in PairsOf(b) <=> p = <<k, v>> \/ \E r \in Occupied(a) \ {s} :
                                                   p = <<a[r].key, a[r].val>>
  <2> TAKE p
  <2>1. p \in PairsOf(b) <=> \E r \in Occupied(b) : p = <<b[r].key, b[r].val>>
    BY DEF PairsOf
  <2> QED
    BY <1>1, <1>2, <2>1
<1>4. \A p : p \in PairsOf(a) <=> \E r \in Occupied(a) : p = <<a[r].key, a[r].val>>
  BY DEF PairsOf
<1>5. a[s].occ # 1 => PairsOf(b) = PairsOf(a) \cup {<<k, v>>}
  BY <1>2, <1>3, <1>4
<1>6. a[s].occ = 1 => PairsOf(b) \cup {<<a[s].key, a[s].val>>} = PairsOf(a) \cup {<<k, v>>}
  BY <1>2, <1>3, <1>4
<1> QED
  BY <1>5, <1>6 DEF b

\* What a loop holds, with the pair it carries.
PairsWith(l) == PairsOf(l.t.slots) \cup {<<l.k, l.v>>}

\* An iteration loses nothing.
LEMMA PairsOnward ==
  ASSUME NEW c \in Nat, c > 0, NEW l \in Loops(c, Slot), Spot(l).occ = 1
  PROVE  PairsWith(Onward(l)) = PairsWith(l)
<1>1. /\ l.t.slots \in [0 .. c - 1 -> Slot] /\ l.t \in Tables(c, Slot)
      /\ l.k \in Keys /\ l.v \in Values /\ Index(l) \in 0 .. c - 1
  BY LoopAt
<1>2. CASE /\ Onward(l).t = Put(l.t, Index(l), l.k, l.v)
           /\ Onward(l).k = Spot(l).key /\ Onward(l).v = Spot(l).val
  <2>1. Onward(l).t.slots = With(l.t.slots, Index(l), l.k, l.v)
    BY <1>1, <1>2, PutTyped
  <2> QED
    BY <1>1, <1>2, <2>1, PairsStored DEF PairsWith, Spot
<1>3. CASE Onward(l).t = l.t /\ Onward(l).k = l.k /\ Onward(l).v = l.v
  BY <1>3 DEF PairsWith
<1> QED
  BY <1>2, <1>3, OnwardTyped

\* The inner loop of ht_resize adds its pair to the new array, ...
LEMMA ReinsertPairs ==
  ASSUME NEW c \in Nat, c > 0, NEW V \in SUBSET Values, NEW t \in Sound(c, Fresh, V),
         t.size < c, NEW k \in Keys, NEW v \in V
  PROVE  PairsOf(Reinsert(t, k, v).slots) = PairsOf(t.slots) \cup {<<k, v>>}
<1> DEFINE From(l) == PlaceFrom(c)[l]
           Holds(l) == PairsOf(From(l).slots) = PairsWith(l)
           P == {l \in Loops(c, Fresh) : Holds(l)}
<1>1. ASSUME NEW l \in Loops(c, Fresh)
      PROVE  /\ l \in Loops(c, Slot) /\ l.t \in Tables(c, Slot)
             /\ l.t.slots \in [0 .. c - 1 -> Slot] /\ l.k \in Keys /\ l.v \in Values
             /\ Index(l) \in 0 .. c - 1 /\ Spot(l) = l.t.slots[Index(l)]
             /\ Spot(l).occ \in {0, 1}
  BY FreshSlots, LoopAt, FreshSpot DEF Spot
<1>2. ASSUME NEW l \in Loops(c, Fresh), Spot(l).occ # 1 PROVE Holds(l)
  <2>1. From(l) = Place(l.t, Index(l), l.k, l.v)
    BY <1>1, <1>2, PlaceIteration
  <2>2. Place(l.t, Index(l), l.k, l.v).slots = With(l.t.slots, Index(l), l.k, l.v)
    <3> DEFINE u == Put(l.t, Index(l), l.k, l.v)
    <3>1. u \in Tables(c, Slot) /\ u.slots = With(l.t.slots, Index(l), l.k, l.v)
      BY <1>1, PutTyped
    <3>2. Place(l.t, Index(l), l.k, l.v) = [u EXCEPT !.size = u.size + 1]
      BY DEF Place
    <3> HIDE DEF u
    <3> QED
      BY <3>1, <3>2 DEF Tables
  <2> HIDE DEF From
  <2> QED
    BY <1>1, <1>2, <2>1, <2>2, PairsStored DEF PairsWith
<1>3. ASSUME NEW l \in Loops(c, Fresh), Spot(l).occ = 1, Holds(Onward(l))
      PROVE  Holds(l)
  <2>1. From(Onward(l)) = From(l)
    BY <1>3, PlaceIteration
  <2>2. PairsWith(Onward(l)) = PairsWith(l)
    BY <1>1, <1>3, PairsOnward
  <2> HIDE DEF From
  <2> QED
    BY <1>3, <2>1, <2>2
<1> HIDE DEF From, Holds
<1>4. \A l \in Roomy(c, Fresh) : Spot(l).occ # 1 => l \in P
  BY <1>2 DEF Roomy
<1>5. \A l \in Roomy(c, Fresh) : Spot(l).occ = 1 /\ Onward(l) \in P => l \in P
  BY <1>3 DEF Roomy
<1>6. Roomy(c, Fresh) \subseteq P
  <2> HIDE DEF P
  <2> QED
    BY <1>4, <1>5, LoopsEnd
<1> DEFINE b == Begin(t, k, v)
<1>7. b.t = t /\ b.k = k /\ b.v = v /\ b \in Loops(c, Fresh)
  BY SoundFields DEF Begin, Loops
<1>8. b \in Roomy(c, Fresh)
  <2>1. t \in Sound(c, Slot, V)
    BY SoundFields
  <2> QED
    BY <1>7, <2>1, RoomLeft DEF Roomy
<1>9. Holds(b)
  BY <1>6, <1>8
<1>10. Reinsert(t, k, v) = From(b)
  BY PlaceBegins, SoundFields DEF From
<1> QED
  BY <1>7, <1>9, <1>10 DEF Holds, PairsWith

\* ... so that its outer loop moves all of them.
LEMMA ResizePairs ==
  ASSUME NEW c \in Nat, NEW V \in SUBSET Values, NEW t \in Sound(c, Slot, V),
         NEW n, NEW d \in Nat, d > 0, t.size <= d, d = ResizedCap(n)
  PROVE  PairsOf(HtResize(t, n).slots) = PairsOf(t.slots)
<1> DEFINE a == t.slots
           g == MoveFrom(t, n)
           Below(m) == {<<a[s].key, a[s].val>> : s \in {r \in Occupied(a) : r < m}}
           S == {m \in 0 .. c : PairsOf(g[m].slots) = Below(m)}
<1>1. /\ t.cap = c /\ a \in [0 .. c - 1 -> Slot] /\ t.size \in Nat
      /\ \A r \in 0 .. c - 1 : a[r].occ = 1 => a[r].val \in V
  BY SoundFields
<1>2. MovesOn(g, t, c, V, d)
  BY MoveIteration
<1>3. \A m \in 0 .. c :
        /\ g[m] \in Sound(d, Fresh, V)
        /\ g[m].size + Cardinality(WaitingFrom(a, m)) = t.size
        /\ m > 0 => g[m] = Moved(g[m - 1], a[m - 1])
  <2> HIDE DEF g
  <2> QED
    BY <1>2, MovesSound
<1>4. HtResize(t, n) = g[c]
  BY <1>1, ResizeMoves
<1>5. g[0] = Cleared(d)
  BY <1>2 DEF MovesOn
<1> HIDE DEF g, a
<1>6. 0 \in S
  <2>1. Occupied(Cleared(d).slots) = {}
    BY Zeroed DEF Cleared
  <2>2. \A r \in Occupied(a) : ~(r < 0)
    BY <1>1 DEF Occupied
  <2>3. Below(0) = {} /\ PairsOf(g[0].slots) = {}
    BY <1>5, <2>1, <2>2 DEF PairsOf
  <2> QED
    BY <2>3
<1>7. ASSUME NEW m \in 0 .. c - 1, m \in S PROVE m + 1 \in S
  <2>1. m + 1 \in 0 .. c /\ (m + 1) - 1 = m /\ m + 1 > 0 /\ m \in 0 .. c /\ m \in Nat
    OBVIOUS
  <2>2. g[m + 1] = Moved(g[m], a[m])
    BY <1>3, <2>1
  <2>3. PairsOf(g[m].slots) = Below(m)
    BY <1>7
  <2>4. a[m] \in Slot /\ m \in DOMAIN a
    BY <1>1
  <2>5. \A r \in Occupied(a) : r \in Int /\ (r < m + 1 <=> r < m \/ r = m)
    BY <1>1, <2>1 DEF Occupied
  <2>6. CASE a[m].occ = 1
    <3>1. a[m].key \in Keys /\ a[m].val \in V /\ m \in Occupied(a)
      BY <1>1, <2>4, <2>6, SlotFields DEF Occupied
    <3>2. g[m + 1] = Reinsert(g[m], a[m].key, a[m].val)
      BY <2>2, <2>6 DEF Moved
    <3>3. g[m].size < d
      <4> DEFINE W(j) == Cardinality(WaitingFrom(a, j))
      <4>5. W(m + 1) = W(m) - 1
        BY <1>1, <2>1, <2>4, <2>6, WaitingCounts
      <4>6. m + 1 \in Nat
        BY <2>1
      <4>7. W(m) \in Nat
        BY <1>1, <2>1, WaitingCounts
      <4>8. W(m + 1) \in Nat
        BY <1>1, <4>6, WaitingCounts
      <4>1. W(m + 1) = W(m) - 1 /\ W(m + 1) \in Nat /\ W(m) \in Nat
        BY <4>5, <4>7, <4>8
      <4>2. g[m].size \in Nat
        BY <1>3, <2>1, SoundFields
      <4>3. g[m].size + W(m) = t.size
        BY <1>3, <2>1
      <4> HIDE DEF W
      <4> QED
        BY <1>1, <4>1, <4>2, <4>3
    <3>4. PairsOf(g[m + 1].slots) = PairsOf(g[m].slots) \cup {<<a[m].key, a[m].val>>}
      BY <1>3, <2>1, <3>1, <3>2, <3>3, ReinsertPairs
    <3>5. Below(m + 1) = Below(m) \cup {<<a[m].key, a[m].val>>}
      BY <2>5, <3>1
    <3> HIDE DEF Below
    <3> QED
      BY <2>1, <2>3, <3>4, <3>5
  <2>7. CASE a[m].occ # 1
    <3>1. g[m + 1] = g[m]
      BY <2>2, <2>7 DEF Moved
    <3>2. Below(m + 1) = Below(m)
      BY <2>5, <2>7 DEF Occupied
    <3> HIDE DEF Below
    <3> QED
      BY <2>1, <2>3, <3>1, <3>2
  <2> QED
    BY <2>6, <2>7
<1>8. c \in S
  <2> HIDE DEF S
  <2> QED
    BY <1>6, <1>7, Upwards
<1>9. \A r \in Occupied(a) : r < c
  BY <1>1 DEF Occupied
<1>10. Below(c) = PairsOf(a)
  BY <1>9 DEF PairsOf
<1> QED
  BY <1>4, <1>8, <1>10 DEF a

-----------------------------------------------------------------------------
(* Setting a key in a table whose entries are all found                    *)

OnePerKey(a) == \A r, s \in Occupied(a) : a[r].key = a[s].key => r = s

\* Different keys have different 32-bit hashes (their homes may be the same).
HashesDiffer == \A a, b \in Keys : Hash[a] = Hash[b] => a = b

\* What find and set share: n slots from home, the distance from home is n.
LEMMA DistanceProbed ==
  ASSUME NEW c \in Nat, c > 0, NEW k \in Keys, NEW n \in 0 .. c - 1
  PROVE  ProbeDistance(c, k, ProbeIndex(c, k, n)) = n
<1> DEFINE h == Hash[k]
<1>1. h \in Nat
  BY HashAssumption
<1> HIDE DEF h
<1>2. PICK q \in Nat, r \in 0 .. c - 1 : h = c * q + r
  <2>1. h % c \in 0 .. c - 1 /\ h \div c \in Nat /\ h = c * (h \div c) + (h % c)
    BY <1>1
  <2> QED
    BY <2>1
<1>3. h % c = r
  <2>1. (c * q + r) % c = r
    OBVIOUS
  <2> QED
    BY <1>2, <2>1
<1>4. CASE r + n < c
  <2>1. h + n = c * q + (r + n) /\ r + n \in 0 .. c - 1
    BY <1>2, <1>4
  <2>2. (c * q + (r + n)) % c = r + n
    BY <2>1
  <2>3. ((r + n) + c) - r = c * 1 + n
    BY <1>2
  <2>4. (c * 1 + n) % c = n
    OBVIOUS
  <2> QED
    BY <1>3, <2>1, <2>2, <2>3, <2>4 DEF ProbeDistance, ProbeIndex, h
<1>5. CASE r + n >= c
  <2>1. h + n = c * (q + 1) + (r + n - c) /\ r + n - c \in 0 .. c - 1 /\ q + 1 \in Nat
    BY <1>2, <1>5
  <2>5. \A p \in Nat, m \in 0 .. c - 1 : (c * p + m) % c = m
    OBVIOUS
  <2>2. (c * (q + 1) + (r + n - c)) % c = r + n - c
    BY <2>1, <2>5
  <2>3. ((r + n - c) + c) - r = n
    BY <1>2
  <2>4. n % c = n
    OBVIOUS
  <2> QED
    BY <1>3, <2>1, <2>2, <2>3, <2>4 DEF ProbeDistance, ProbeIndex, h
<1> QED
  BY <1>2, <1>4, <1>5

\* A pair with a new key is added, whatever is swapped on the way.
LEMMA SetNewKey ==
  ASSUME HashesDiffer, NEW c \in Nat, c > 0, NEW V, NEW t \in Sound(c, Slot, V), t.size < c,
         OnePerKey(t.slots), NEW key \in Keys, NEW v \in Values,
         \A s \in Occupied(t.slots) : t.slots[s].key # key
  PROVE  LET r == SetLoop(t, key, v)
         IN  r.isNew = 1 /\ PairsOf(r.table.slots) = PairsOf(t.slots) \cup {<<key, v>>}
<1> DEFINE From(l) == SetFrom(c, key)[l]
           Apart(l) == /\ OnePerKey(l.t.slots)
                       /\ \A s \in Occupied(l.t.slots) : l.t.slots[s].key # l.k
           Result(l, r) == r.isNew = 1 /\ PairsOf(r.table.slots) = PairsWith(l)
           P == {l \in Loops(c, Slot) : Apart(l) => Result(l, From(l))}
<1>1. ASSUME NEW l \in Loops(c, Slot)
      PROVE  /\ l.t \in Tables(c, Slot)
             /\ l.t.slots \in [0 .. c - 1 -> Slot] /\ l.k \in Keys /\ l.v \in Values
             /\ Index(l) \in 0 .. c - 1 /\ Spot(l) = l.t.slots[Index(l)] /\ Spot(l) \in Slot
             /\ (Index(l) \in Occupied(l.t.slots) <=> Spot(l).occ = 1)
             /\ Spot(l).occ = 1 => Spot(l).key \in Keys /\ Spot(l).val \in Values
  <2>1. /\ l.t \in Tables(c, Slot)
        /\ l.t.slots \in [0 .. c - 1 -> Slot] /\ l.k \in Keys /\ l.v \in Values
        /\ Index(l) \in 0 .. c - 1 /\ Spot(l) = l.t.slots[Index(l)] /\ Spot(l) \in Slot
    BY LoopAt DEF Spot
  <2>2. Spot(l).occ = 1 => Spot(l).key \in Keys /\ Spot(l).val \in Values
    BY <2>1, SlotFields
  <2> QED
    BY <2>1, <2>2 DEF Occupied
<1>2. ASSUME NEW l \in Loops(c, Slot), Spot(l).occ # 1 PROVE Result(l, From(l))
  <2> DEFINE w == Insert(l.t, Index(l), l.k, l.v)
  <2>1. From(l) = SetEnd(l)
    BY <1>2, SetIteration DEF SetStops
  <2>2. SetEnd(l) = [table |-> w, isNew |-> 1]
    BY <1>2 DEF SetEnd
  <2>3. w.slots = With(l.t.slots, Index(l), l.k, l.v)
    <3> DEFINE u == Put(l.t, Index(l), l.k, l.v)
               p == Place(l.t, Index(l), l.k, l.v)
    <3>1. u \in Tables(c, Slot) /\ u.slots = With(l.t.slots, Index(l), l.k, l.v)
      BY <1>1, PutTyped
    <3>2. p = [u EXCEPT !.size = u.size + 1]
      BY DEF Place
    <3>3. w = [p EXCEPT !.tombs = p.tombs - (IF l.t.slots[Index(l)].occ = 2 THEN 1 ELSE 0)]
      BY DEF Insert
    <3> HIDE DEF u, p, w
    <3>4. p = [cap |-> u.cap, slots |-> u.slots, size |-> u.size + 1, tombs |-> u.tombs]
      BY <3>1, <3>2 DEF Tables
    <3> QED
      BY <3>1, <3>3, <3>4
  <2> HIDE DEF From, w
  <2> QED
    BY <1>1, <1>2, <2>1, <2>2, <2>3, PairsStored DEF PairsWith
<1>3. ASSUME NEW l \in Loops(c, Slot), Spot(l).occ = 1, Apart(l)
      PROVE  Apart(Onward(l)) /\ From(Onward(l)) = From(l)
  <2>1. Spot(l).key # l.k /\ Index(l) \in Occupied(l.t.slots)
    BY <1>1, <1>3
  <2>2. ~SetStops(Spot(l), l.k, key)
    BY <1>1, <1>3, <2>1 DEF SetStops, Matches, HashesDiffer
  <2>3. From(Onward(l)) = From(l)
    BY <2>2, SetIteration
  <2>4. CASE /\ Onward(l).t = Put(l.t, Index(l), l.k, l.v)
             /\ Onward(l).k = Spot(l).key
    <3>0. Put(l.t, Index(l), l.k, l.v).slots = With(l.t.slots, Index(l), l.k, l.v)
      <4>1. l.t \in Tables(c, Slot) /\ l.k \in Keys /\ l.v \in Values
            /\ Index(l) \in 0 .. c - 1
        BY <1>1
      <4> HIDE DEF From, Apart, Result, P
      <4> QED
        BY <4>1, PutTyped
    <3> DEFINE a == l.t.slots
               b == With(a, Index(l), l.k, l.v)
    <3>1. Onward(l).t.slots = b
      BY <2>4, <3>0
    <3>2. /\ \A r \in 0 .. c - 1 : r # Index(l) => b[r] = a[r]
          /\ b[Index(l)].key = l.k
      BY <1>1 DEF With, Entry
    <3>3. Occupied(b) = Occupied(a)
      <4>1. Occupied(b) = Occupied(a) \cup {Index(l)}
        BY <1>1, Stored
      <4> QED
        BY <2>1, <4>1
    <3>4. Occupied(a) \subseteq 0 .. c - 1
      BY <1>1 DEF Occupied
    <3>5. /\ \A r, s \in Occupied(a) : a[r].key = a[s].key => r = s
          /\ \A s \in Occupied(a) : a[s].key # l.k
      BY <1>3 DEF OnePerKey
    <3>6. Spot(l).key = a[Index(l)].key
      BY <1>1
    <3> HIDE DEF a, b
    <3>7. OnePerKey(b)
      BY <3>2, <3>3, <3>4, <3>5 DEF OnePerKey
    <3>8. \A s \in Occupied(b) : b[s].key # Spot(l).key
      BY <2>1, <3>2, <3>3, <3>4, <3>5, <3>6 DEF a
    <3> QED
      BY <2>3, <2>4, <3>1, <3>7, <3>8
  <2>5. CASE Onward(l).t = l.t /\ Onward(l).k = l.k
    BY <1>3, <2>3, <2>5
  <2> QED
    BY <1>3, <2>4, <2>5, OnwardTyped
<1>4. ASSUME NEW l \in Loops(c, Slot), Spot(l).occ = 1, Onward(l) \in P PROVE l \in P
  <2>1. PairsWith(Onward(l)) = PairsWith(l)
    BY <1>4, PairsOnward
  <2> HIDE DEF From, Apart
  <2> QED
    BY <1>3, <1>4, <2>1
<1> HIDE DEF From, Apart, Result
<1>5. \A l \in Roomy(c, Slot) : Spot(l).occ # 1 => l \in P
  BY <1>2 DEF Roomy
<1>6. \A l \in Roomy(c, Slot) : Spot(l).occ = 1 /\ Onward(l) \in P => l \in P
  <2> HIDE DEF P
  <2> QED
    BY <1>4 DEF Roomy
<1>7. Roomy(c, Slot) \subseteq P
  <2> HIDE DEF P
  <2> QED
    BY <1>5, <1>6, LoopsEnd
<1> DEFINE b == Begin(t, key, v)
<1>8. b.t = t /\ b.k = key /\ b.v = v /\ b \in Loops(c, Slot)
  BY SoundFields DEF Begin, Loops
<1>9. b \in Roomy(c, Slot)
  BY <1>8, RoomLeft DEF Roomy
<1>10. Apart(b)
  BY <1>8 DEF Apart
<1>11. Result(b, From(b))
  BY <1>7, <1>9, <1>10
<1>12. SetLoop(t, key, v) = From(b)
  BY SetBegins, SoundFields DEF From
<1> QED
  BY <1>8, <1>11, <1>12 DEF Result, PairsWith

\* The slot ht_find comes to, and what it passes on the way: tombstones, and
\* other entries that are as far from home as the key would be, or farther.
LEMMA FindPath ==
  ASSUME NEW c \in Nat, c > 0, NEW t \in Tables(c, Slot), NEW k \in Keys,
         \E s \in 0 .. c - 1 : t.slots[s].occ = 0, HtFind(t, k) # -1
  PROVE  \E n \in 0 .. c - 1 :
           /\ HtFind(t, k) = ProbeIndex(c, k, n)
           /\ t.slots[ProbeIndex(c, k, n)].occ = 1
           /\ Matches(t.slots[ProbeIndex(c, k, n)], k, k)
           /\ \A j \in 0 .. n - 1 :
                LET e == t.slots[ProbeIndex(c, k, j)]
                IN  /\ e.occ # 0
                    /\ e.occ = 1 => /\ j <= ProbeDistance(c, e.key, ProbeIndex(c, k, j))
                                    /\ ~Matches(e, k, k)
<1> DEFINE Stops == {n \in Nat : FindStops(t, k, n)}
           f(n) == FindFrom(t, k)[n]
<1>1. t.cap = c /\ t.slots \in [0 .. c - 1 -> Slot]
  BY DEF Tables
<1>2. Stops # {}
  <2>1. PICK s \in 0 .. c - 1 : t.slots[s].occ = 0
    OBVIOUS
  <2>2. PICK n \in 0 .. c - 1 : (Hash[k] + n) % c = s
    BY Probes, HashAssumption
  <2>3. n \in Nat /\ FindStops(t, k, n)
    BY <1>1, <2>1, <2>2 DEF FindStops, ProbeIndex
  <2> QED
    BY <2>3
<1>3. PICK m \in Stops : \A n \in Stops : m <= n
  <2>1. Stops \subseteq Nat
    OBVIOUS
  <2> HIDE DEF Stops
  <2> QED
    BY <1>2, <2>1, Smallest
<1>4. m \in Nat /\ FindStops(t, k, m) /\ \A n \in 0 .. m - 1 : ~FindStops(t, k, n)
  BY <1>3
<1> HIDE DEF Stops
<1>5. \A n \in 0 .. m - 1 : f(n) = f(n + 1)
  BY <1>4, FindIteration
<1> DEFINE S == {n \in Nat : f(0) = f(n)}
<1>6. m \in S
  <2>1. \A n \in 0 .. m - 1 : n \in S => n + 1 \in S
    BY <1>5
  <2>2. 0 \in S
    OBVIOUS
  <2> HIDE DEF S
  <2>3. \A n \in 0 .. m : n \in S
    BY <1>4, <2>1, <2>2, Upwards
  <2> QED
    BY <1>4, <2>3
<1>7. HtFind(t, k) = FindEnd(t, k, m)
  BY <1>4, <1>6, FindBegins, FindIteration
<1> DEFINE s == ProbeIndex(c, k, m)
           e == t.slots[s]
<1>8. s \in 0 .. c - 1
  BY <1>4, ProbeInArray
<1>9. /\ HtFind(t, k) = s /\ e.occ = 1 /\ Matches(e, k, k)
      /\ ~(m > ProbeDistance(c, e.key, s))
  BY <1>1, <1>4, <1>7 DEF FindEnd, FindStops
<1>10. e.key \in Keys
  BY <1>1, <1>8, <1>9, SlotFields
<1>11. m \in 0 .. c - 1
  <2>1. ProbeDistance(c, e.key, s) \in 0 .. c - 1
    BY <1>8, <1>10, DistanceInArray
  <2> QED
    BY <1>4, <1>9, <2>1
<1>12. ASSUME NEW j \in 0 .. m - 1
       PROVE  LET d == t.slots[ProbeIndex(c, k, j)]
              IN  /\ d.occ # 0
                  /\ d.occ = 1 => /\ j <= ProbeDistance(c, d.key, ProbeIndex(c, k, j))
                                  /\ ~Matches(d, k, k)
  <2> DEFINE r == ProbeIndex(c, k, j)
             d == t.slots[r]
  <2>1. ~FindStops(t, k, j) /\ j \in Nat
    BY <1>4
  <2>2. d.occ # 0 /\ (d.occ = 1 => ~(j > ProbeDistance(c, d.key, r)) /\ ~Matches(d, k, k))
    BY <1>1, <2>1 DEF FindStops
  <2>3. r \in 0 .. c - 1
    BY <2>1, ProbeInArray
  <2>4. d.occ = 1 => d.key \in Keys
    BY <1>1, <2>3, SlotFields
  <2>5. d.occ = 1 => ProbeDistance(c, d.key, r) \in 0 .. c - 1
    BY <2>3, <2>4, DistanceInArray
  <2> HIDE DEF r
  <2>6. d.occ = 1 => j <= ProbeDistance(c, d.key, r)
    BY <2>1, <2>2, <2>5
  <2> QED
    BY <2>2, <2>6 DEF r
<1> QED
  BY <1>9, <1>11, <1>12

\* A key that is found is found by ht_set too, on the same way and without a
\* swap, unless a tombstone comes first: then the key is stored twice.
LEMMA SetFoundKey ==
  ASSUME NEW c \in Nat, c > 0, NEW V, NEW t \in Sound(c, Slot, V),
         t.size + t.tombs < c, NEW key \in Keys, NEW v \in Values, HtFind(t, key) # -1
  PROVE  LET r == SetLoop(t, key, v)
             s == HtFind(t, key)
         IN  /\ s \in 0 .. c - 1 /\ t.slots[s].occ = 1 /\ t.slots[s].key = key
             /\ \/ r.isNew = 0 /\ r.table.slots = With(t.slots, s, key, v)
                \/ \E u \in 0 .. c - 1 :
                     u # s /\ r.table.slots = With(t.slots, u, key, v)
<1> DEFINE a == t.slots
<1>1. /\ t \in Tables(c, Slot) /\ t.cap = c /\ a \in [0 .. c - 1 -> Slot]
      /\ t.size \in Nat /\ t.tombs \in Nat
  BY SoundFields
<1>2. \E s \in 0 .. c - 1 : a[s].occ = 0
  BY RoomLeft
<1>3. PICK n \in 0 .. c - 1 :
        /\ HtFind(t, key) = ProbeIndex(c, key, n)
        /\ a[ProbeIndex(c, key, n)].occ = 1
        /\ Matches(a[ProbeIndex(c, key, n)], key, key)
        /\ \A j \in 0 .. n - 1 :
             LET e == a[ProbeIndex(c, key, j)]
             IN  /\ e.occ # 0
                 /\ e.occ = 1 => /\ j <= ProbeDistance(c, e.key, ProbeIndex(c, key, j))
                                 /\ ~Matches(e, key, key)
  BY <1>1, <1>2, FindPath
<1> DEFINE At(j) == ProbeIndex(c, key, j)
           Loop(j) == [t |-> t, k |-> key, v |-> v, i |-> j]
           From(j) == SetFrom(c, key)[Loop(j)]
           r == SetLoop(t, key, v)
           s == HtFind(t, key)
           Twice == \E u \in 0 .. c - 1 : u # s /\ r.table.slots = With(a, u, key, v)
           S == {j \in 0 .. n : r = From(j) \/ Twice}
<1>4. s \in 0 .. c - 1 /\ a[s].occ = 1 /\ a[s].key = key /\ s = At(n)
  <2>1. At(n) \in 0 .. c - 1
    BY ProbeInArray
  <2> QED
    BY <1>3, <2>1 DEF Matches
<1>5. ASSUME NEW j \in 0 .. n
      PROVE  /\ Loop(j) \in Loops(c, Slot) /\ j \in Nat
             /\ Index(Loop(j)) = At(j) /\ Spot(Loop(j)) = a[At(j)] /\ At(j) \in 0 .. c - 1
  <2>1. j \in Nat
    OBVIOUS
  <2>2. Loop(j) \in Loops(c, Slot)
    BY <1>1, <2>1 DEF Loops
  <2>3. Index(Loop(j)) = At(j)
    BY <1>1 DEF Index
  <2>4. Spot(Loop(j)) = a[At(j)]
    BY <2>3 DEF Spot
  <2>5. At(j) \in 0 .. c - 1
    BY <2>1, ProbeInArray
  <2> QED
    BY <2>1, <2>2, <2>3, <2>4, <2>5
<1>6. ASSUME NEW j \in 0 .. n
      PROVE  From(j) = IF SetStops(a[At(j)], key, key) THEN SetEnd(Loop(j))
                         ELSE SetFrom(c, key)[Onward(Loop(j))]
  <2>1. From(j) = IF SetStops(Spot(Loop(j)), Loop(j).k, key) THEN SetEnd(Loop(j))
                    ELSE SetFrom(c, key)[Onward(Loop(j))]
    <3> HIDE DEF Loop
    <3> QED
      BY <1>5, SetIteration
  <2> QED
    BY <1>5, <2>1
<1>7. 0 \in S
  <2>1. r = From(0)
    BY <1>1, SetBegins DEF Begin
  <2> QED
    BY <2>1
<1>8. ASSUME NEW j \in 0 .. n - 1, r = From(j)
      PROVE  r = From(j + 1) \/ Twice
  <2> DEFINE e == a[At(j)]
  <2>1. j \in 0 .. n /\ j \in 0 .. c - 1
    OBVIOUS
  <2>2. e \in Slot /\ e.occ # 0 /\ At(j) \in 0 .. c - 1
    BY <1>1, <1>3, <1>5, <2>1
  <2>3. CASE e.occ # 1
    <3> DEFINE w == Insert(t, At(j), key, v)
    <3>1. r = SetEnd(Loop(j))
      BY <1>6, <1>8, <2>1, <2>3 DEF SetStops
    <3>2. SetEnd(Loop(j)) = [table |-> w, isNew |-> 1]
      BY <1>5, <2>1, <2>3 DEF SetEnd
    <3>3. w.slots = With(a, At(j), key, v)
      <4> DEFINE u == Put(t, At(j), key, v)
                 p == Place(t, At(j), key, v)
      <4>1. u \in Tables(c, Slot) /\ u.slots = With(a, At(j), key, v)
        BY <1>1, <2>2, PutTyped
      <4>2. p = [u EXCEPT !.size = u.size + 1]
        BY DEF Place
      <4>3. w = [p EXCEPT !.tombs = p.tombs - (IF a[At(j)].occ = 2 THEN 1 ELSE 0)]
        BY DEF Insert
      <4> HIDE DEF u, p, w
      <4>4. p = [cap |-> u.cap, slots |-> u.slots, size |-> u.size + 1, tombs |-> u.tombs]
        BY <4>1, <4>2 DEF Tables
      <4> QED
        BY <4>1, <4>3, <4>4
    <3>4. At(j) # s
      BY <1>4, <2>3
    <3>5. r.table.slots = With(a, At(j), key, v)
      BY <3>1, <3>2, <3>3
    <3> QED
      BY <2>2, <3>4, <3>5
  <2>4. CASE e.occ = 1
    <3>1. ~Matches(e, key, key) /\ j <= ProbeDistance(c, e.key, At(j))
      BY <1>3, <2>4
    <3>2. e.key \in Keys
      BY <2>2, <2>4, SlotFields
    <3>3. ProbeDistance(c, e.key, At(j)) \in 0 .. c - 1
      BY <2>2, <3>2, DistanceInArray
    <3>4. ProbeDistance(c, key, At(j)) = j
      BY <2>1, DistanceProbed
    <3>5. ~Poorer(c, key, e, At(j))
      BY <3>1, <3>3, <3>4 DEF Poorer
    <3>6. Onward(Loop(j)) = [Loop(j) EXCEPT !.i = Loop(j).i + 1]
      BY <1>1, <1>5, <2>1, <3>5 DEF Onward
    <3>7. Onward(Loop(j)) = Loop(j + 1)
      BY <3>6
    <3>8. ~SetStops(e, key, key)
      BY <2>4, <3>1 DEF SetStops
    <3> QED
      BY <1>6, <1>8, <2>1, <3>7, <3>8
  <2> QED
    BY <2>3, <2>4
<1>9. n \in S
  <2>1. \A j \in 0 .. n - 1 : j \in S => j + 1 \in S
    <3> TAKE j \in 0 .. n - 1
    <3>1. j + 1 \in 0 .. n
      OBVIOUS
    <3> HIDE DEF From, r, Twice
    <3> QED
      BY <1>8, <3>1
  <2> HIDE DEF S
  <2>2. \A j \in 0 .. n : j \in S
    BY <1>7, <2>1, Upwards
  <2> QED
    BY <2>2
<1>10. r = From(n) => r.isNew = 0 /\ r.table.slots = With(a, s, key, v)
  <2>1. n \in 0 .. n
    OBVIOUS
  <2>2. SetStops(a[At(n)], key, key)
    BY <1>3 DEF SetStops
  <2>3. From(n) = SetEnd(Loop(n))
    BY <1>6, <2>1, <2>2
  <2>4. SetEnd(Loop(n)) = [table |-> Put(t, s, key, v), isNew |-> 0]
    BY <1>4, <1>5, <2>1 DEF SetEnd
  <2>5. Put(t, s, key, v).slots = With(a, s, key, v)
    BY <1>1, <1>4, PutTyped
  <2> QED
    BY <2>3, <2>4, <2>5
<1> QED
  BY <1>4, <1>9, <1>10
=============================================================================
