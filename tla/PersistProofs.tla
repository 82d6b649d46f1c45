------------------------------ MODULE PersistProofs ------------------------------
(***************************************************************************)
(* Theorems about Persist, for any keys and values: dump.rdb is never torn *)
(* whenever the process is killed or interrupted by a signal, also in the  *)
(* middle of another persist_save; a save that reports success is on disk. *)
(*                                                                         *)
(* Buffered writes are assumed not to be lost by fclose ("flush"), whose   *)
(* result persist_save does not look at.                                   *)
(*                                                                         *)
(* First, what persist_load reads of what persist_save wrote, for any keys *)
(* and any values.  Walk is a recursive function; that it satisfies its    *)
(* own equation, and what it computes, is shown by induction on the number *)
(* of slots still ahead, as a set of naturals that has no least exception. *)
(***************************************************************************)
EXTENDS Persist, SequenceTheorems, WellFoundedInduction, TLAPS

Tables == [Keys -> Vals \cup {NoVal}]

\* The units of files.
Units ==
  {Magic, Eof} \cup {KeyUnit(k, v) : k \in Keys, v \in Vals}
  \cup {Part(v.parts[n]) : v \in Vals, n \in Nat}

-----------------------------------------------------------------------------
(* Induction                                                               *)

LEMMA Least ==
  ASSUME NEW T, T \subseteq Nat, T # {}
  PROVE  \E x \in T : \A y \in T : x <= y
<1>1. PICK x \in T : \A y \in T : ~ (<<y, x>> \in OpToRel(<, Nat))
  BY NatLessThanWellFounded, WFMin
<1>2. \A y \in T : ~ (y < x)
  BY <1>1 DEF OpToRel
<1> QED
  BY <1>2

LEMMA Greatest ==
  ASSUME NEW n \in Nat, NEW T, T \subseteq 1 .. n, T # {}
  PROVE  \E x \in T : \A y \in T : y <= x
<1> DEFINE U == {n - x : x \in T}
<1>1. U \subseteq Nat /\ U # {}
  <2>1. \A x \in T : n - x \in Nat
    OBVIOUS
  <2>2. PICK x \in T : TRUE
    OBVIOUS
  <2>3. n - x \in U
    BY <2>2
  <2> QED
    BY <2>1, <2>3
<1>2. PICK u \in U : \A y \in U : u <= y
  BY <1>1, Least
<1>3. PICK x \in T : u = n - x
  OBVIOUS
<1>4. \A y \in T : n - y \in U
  OBVIOUS
<1>5. \A y \in T : u <= n - y
  BY <1>2, <1>4
<1>6. \A y \in T : y <= x
  BY <1>3, <1>5
<1> QED
  BY <1>6

LEMMA Induction ==
  ASSUME NEW S, S \subseteq Nat, 0 \in S, \A n \in S : n + 1 \in S
  PROVE  S = Nat
<1> SUFFICES ASSUME Nat \ S # {} PROVE FALSE
  OBVIOUS
<1>1. PICK x \in Nat \ S : \A y \in Nat \ S : x <= y
  BY Least
<1>2. x - 1 \in Nat /\ x - 1 \in S
  BY <1>1
<1> QED
  BY <1>1, <1>2

-----------------------------------------------------------------------------
(* The walk over the slots                                                 *)

\* The units of the slot i.
Chunk(m, K, i) ==
  IF KeyOrder[i] \in K THEN EntryUnits(KeyOrder[i], m[KeyOrder[i]]) ELSE <<>>

\* f is the walk from the slot i on.
WalksFrom(f, m, K, i) ==
  f[i] = IF i > Len(KeyOrder) THEN <<Eof>> ELSE Chunk(m, K, i) \o f[i + 1]

IsWalk(f, m, K) ==
  f = [i \in Nat |-> IF i > Len(KeyOrder) THEN <<Eof>>
                       ELSE Chunk(m, K, i) \o f[i + 1]]

LEMMA WalkExists ==
  ASSUME NEW m, NEW K
  PROVE  \E f : IsWalk(f, m, K)
<1> DEFINE L == Len(KeyOrder)
           S == {n \in Nat : \E f : /\ f = [i \in Nat |-> f[i]]
                                    /\ \A i \in Nat : i + n > L => WalksFrom(f, m, K, i)}
<1>1. L \in Nat
  BY PersistAssumption
<1>2. 0 \in S
  <2> DEFINE f == [i \in Nat |-> <<Eof>>]
  <2>1. \A i \in Nat : i + 0 > L => WalksFrom(f, m, K, i)
    BY DEF WalksFrom
  <2>2. f = [i \in Nat |-> f[i]]
    OBVIOUS
  <2> QED
    BY <2>1, <2>2
<1>3. ASSUME NEW n \in S PROVE n + 1 \in S
  <2>1. PICK f : /\ f = [i \in Nat |-> f[i]]
                 /\ \A i \in Nat : i + n > L => WalksFrom(f, m, K, i)
    BY <1>3
  <2>2. n \in Nat
    BY <1>3
  <2>3. CASE n > L
    <3>1. \A i \in Nat : i + (n + 1) > L => WalksFrom(f, m, K, i)
      BY <1>1, <2>1, <2>2, <2>3
    <3> QED
      BY <2>1, <2>2, <3>1
  <2>4. CASE n <= L
    <3> DEFINE j == L - n
               c == Chunk(m, K, j) \o f[j + 1]
               g == [i \in Nat |-> IF i = j THEN c ELSE f[i]]
    <3>1. j \in Nat /\ j <= L
      BY <1>1, <2>2, <2>4
    <3>2. g = [i \in Nat |-> g[i]]
      OBVIOUS
    <3>3. g[j] = c /\ g[j + 1] = f[j + 1]
      <4> HIDE DEF c
      <4>1. j + 1 \in Nat /\ j + 1 # j
        BY <3>1
      <4> QED
        BY <3>1, <4>1
    <3>4. WalksFrom(g, m, K, j)
      <4> HIDE DEF g
      <4>1. ~ (j > L)
        BY <3>1, <1>1
      <4>2. g[j] = Chunk(m, K, j) \o g[j + 1]
        BY <3>3
      <4> HIDE DEF j
      <4> QED
        BY <4>1, <4>2 DEF WalksFrom
    <3>5. ASSUME NEW i \in Nat, i > j PROVE WalksFrom(g, m, K, i)
      <4>1. g[i] = f[i] /\ g[i + 1] = f[i + 1]
        BY <3>1, <3>5
      <4>2. i + n > L
        BY <3>1, <3>5, <1>1, <2>2
      <4>3. WalksFrom(f, m, K, i)
        BY <2>1, <4>2
      <4> QED
        BY <4>1, <4>3 DEF WalksFrom
    <3> HIDE DEF g
    <3>6. \A i \in Nat : i + (n + 1) > L => i = j \/ i > j
      BY <1>1, <2>2, <3>1
    <3>7. \A i \in Nat : i + (n + 1) > L => WalksFrom(g, m, K, i)
      BY <3>4, <3>5, <3>6
    <3> QED
      BY <2>2, <3>2, <3>7
  <2> QED
    BY <1>1, <2>2, <2>3, <2>4
<1>4. L + 1 \in S
  <2> HIDE DEF S
  <2>1. S \subseteq Nat
    BY DEF S
  <2>2. S = Nat
    BY <1>2, <1>3, <2>1, Induction
  <2> QED
    BY <1>1, <2>2
<1>5. PICK f : /\ f = [i \in Nat |-> f[i]]
               /\ \A i \in Nat : i + (L + 1) > L => WalksFrom(f, m, K, i)
  BY <1>4
<1>6. \A i \in Nat : WalksFrom(f, m, K, i)
  BY <1>1, <1>5
<1>7. f = [i \in Nat |-> IF i > L THEN <<Eof>> ELSE Chunk(m, K, i) \o f[i + 1]]
  BY <1>5, <1>6 DEF WalksFrom
<1> QED
  BY <1>7 DEF IsWalk

\* The equation of the walk.
LEMMA WalkEquation ==
  ASSUME NEW m, NEW K
  PROVE  \A i \in Nat : WalksFrom(Walk(m, K), m, K, i)
<1>1. Walk(m, K) = CHOOSE f : IsWalk(f, m, K)
  BY Zenon DEF Walk, IsWalk, Chunk
<1>2. IsWalk(Walk(m, K), m, K)
  BY <1>1, WalkExists, Zenon
<1> QED
  BY <1>2 DEF IsWalk, WalksFrom

-----------------------------------------------------------------------------
(* What the walk writes                                                    *)

\* At p the file c has all of the entry that m holds for one of the keys K.
EntryIn(c, m, K, p) ==
  \E k \in K :
    /\ c[p] = KeyUnit(k, m[k])
    /\ \A n \in 1 .. Len(m[k].parts) :
         p + n <= Len(c) /\ c[p + n] = Part(m[k].parts[n])

\* The file c ends with the marker, and only there; its entries are entries
\* of m for keys of K, and the keys Q have one.
Saves(c, m, K, Q) ==
  /\ c \in Seq(Units)
  /\ Len(c) > 0 /\ c[Len(c)] = Eof
  /\ \A p \in 1 .. Len(c) - 1 : c[p].unit \notin {"eof", "hole"}
  /\ \A p \in 1 .. Len(c) : c[p].unit = "key" => EntryIn(c, m, K, p)
  /\ \A k \in Q : \E p \in 1 .. Len(c) : c[p].unit = "key" /\ c[p].key = k

LEMMA EntryUnitsProperties ==
  ASSUME NEW k \in Keys, NEW v \in Vals
  PROVE  /\ EntryUnits(k, v) \in Seq(Units)
         /\ Len(EntryUnits(k, v)) = Len(v.parts) + 1
         /\ EntryUnits(k, v)[1] = KeyUnit(k, v)
         /\ \A n \in 1 .. Len(v.parts) : EntryUnits(k, v)[n + 1] = Part(v.parts[n])
<1> DEFINE N  == Len(v.parts)
           ps == [i \in 1 .. N |-> Part(v.parts[i])]
           u  == KeyUnit(k, v)
<1>1. N \in Nat /\ v.parts = [n \in 1 .. N |-> v.parts[n]]
  BY PersistAssumption
<1>2. DOMAIN v.parts = 1 .. N
  BY <1>1
<1>3. EntryUnits(k, v) = <<u>> \o ps
  BY <1>2 DEF EntryUnits
<1>4. u \in Units
  BY DEF Units
<1>5. \A i \in 1 .. N : Part(v.parts[i]) \in Units
  BY <1>1 DEF Units
<1>6. ps \in Seq(Units) /\ Len(ps) = N
  <2> HIDE DEF N
  <2> QED
    BY <1>1, <1>5
<1>7. \A n \in 1 .. N : ps[n] = Part(v.parts[n])
  OBVIOUS
<1> HIDE DEF ps, u, N
<1>8. /\ <<u>> \o ps \in Seq(Units)
      /\ Len(<<u>> \o ps) = N + 1
      /\ (<<u>> \o ps)[1] = u
      /\ \A n \in 1 .. N : (<<u>> \o ps)[n + 1] = ps[n]
  BY <1>1, <1>4, <1>6
<1> QED
  BY <1>3, <1>7, <1>8 DEF u, N

LEMMA Join ==
  ASSUME NEW u \in Seq(Units), NEW c \in Seq(Units)
  PROVE  /\ u \o c \in Seq(Units) /\ Len(u \o c) = Len(u) + Len(c)
         /\ \A i \in 1 .. Len(c) : (u \o c)[Len(u) + i] = c[i]
         /\ \A i \in 1 .. Len(u) : (u \o c)[i] = u[i]
OBVIOUS

\* Units put before c leave its entries what they are.
LEMMA EntryMoves ==
  ASSUME NEW u \in Seq(Units), NEW c \in Seq(Units), NEW m, NEW K,
         m \in Tables, K \subseteq Present(m),
         NEW p \in 1 .. Len(c), EntryIn(c, m, K, p)
  PROVE  EntryIn(u \o c, m, K, Len(u) + p)
<1> DEFINE w == u \o c
<1>1. /\ w \in Seq(Units) /\ Len(w) = Len(u) + Len(c)
      /\ \A i \in 1 .. Len(c) : w[Len(u) + i] = c[i]
  OBVIOUS
<1>2. Len(u) \in Nat /\ Len(c) \in Nat
  OBVIOUS
<1> HIDE DEF w
<1>3. PICK k \in K : /\ c[p] = KeyUnit(k, m[k])
                     /\ \A n \in 1 .. Len(m[k].parts) :
                          p + n <= Len(c) /\ c[p + n] = Part(m[k].parts[n])
  BY DEF EntryIn
<1>4. w[Len(u) + p] = KeyUnit(k, m[k])
  BY <1>1, <1>3
<1>5. m[k] \in Vals
  BY DEF Tables, Present
<1>6. Len(m[k].parts) \in Nat
  BY <1>5, PersistAssumption
<1>7. ASSUME NEW n \in 1 .. Len(m[k].parts)
      PROVE  Len(u) + p + n <= Len(w) /\ w[Len(u) + p + n] = Part(m[k].parts[n])
  <2>1. p + n \in 1 .. Len(c) /\ n \in Nat
    BY <1>2, <1>3, <1>6
  <2>2. w[Len(u) + (p + n)] = Part(m[k].parts[n])
    BY <1>1, <1>3, <2>1
  <2>3. Len(u) + p + n = Len(u) + (p + n) /\ Len(u) + (p + n) <= Len(w)
    BY <1>1, <1>2, <2>1
  <2> QED
    BY <2>2, <2>3
<1> QED
  BY <1>4, <1>7 DEF EntryIn, w

LEMMA EmptySave ==
  ASSUME NEW m, NEW K
  PROVE  Saves(<<Eof>>, m, K, {})
<1>1. Eof \in Units
  BY DEF Units
<1>2. <<Eof>> \in Seq(Units) /\ Len(<<Eof>>) = 1 /\ <<Eof>>[1] = Eof
  BY <1>1
<1>3. Eof.unit # "key"
  BY DEF Eof
<1> QED
  BY <1>2, <1>3 DEF Saves

LEMMA MagicSave ==
  ASSUME NEW m \in Tables, NEW K, K \subseteq Present(m), NEW Q,
         NEW c, Saves(c, m, K, Q)
  PROVE  Saves(<<Magic>> \o c, m, K, Q) /\ (<<Magic>> \o c)[1] = Magic
<1> DEFINE u == <<Magic>>
           w == u \o c
<1>1. c \in Seq(Units) /\ u \in Seq(Units) /\ Len(u) = 1 /\ u[1] = Magic
  BY DEF Saves, Units
<1>2. /\ w \in Seq(Units) /\ Len(w) = 1 + Len(c) /\ w[1] = Magic
      /\ \A i \in 1 .. Len(c) : w[1 + i] = c[i]
  BY <1>1
<1>3. Len(c) \in Nat
  BY <1>1
<1>4. Magic.unit = "magic"
  BY DEF Magic
<1>5. \A p \in 1 .. Len(c) : c[p].unit = "key" => EntryIn(w, m, K, 1 + p)
  BY <1>1, EntryMoves DEF Saves
<1> HIDE DEF u, w
<1>6. \A q \in 1 .. Len(w) : q # 1 => q - 1 \in 1 .. Len(c) /\ q = 1 + (q - 1)
  BY <1>2, <1>3
<1>7. \A q \in 1 .. Len(w) : q # 1 => w[q] = c[q - 1]
  BY <1>2, <1>6
<1>8. Len(w) > 0 /\ w[Len(w)] = Eof
  BY <1>2, <1>3 DEF Saves
<1>9. \A q \in 1 .. Len(w) - 1 : w[q].unit \notin {"eof", "hole"}
  <2> TAKE q \in 1 .. Len(w) - 1
  <2>1. CASE q = 1
    BY <1>2, <1>4, <2>1
  <2>2. CASE q # 1
    <3>1. q - 1 \in 1 .. Len(c) - 1 /\ q \in 1 .. Len(w)
      BY <1>2, <1>3, <2>2
    <3> QED
      BY <1>7, <2>2, <3>1 DEF Saves
  <2> QED
    BY <2>1, <2>2
<1>10. \A q \in 1 .. Len(w) : w[q].unit = "key" => EntryIn(w, m, K, q)
  <2> SUFFICES ASSUME NEW q \in 1 .. Len(w), w[q].unit = "key"
               PROVE  EntryIn(w, m, K, q)
    OBVIOUS
  <2>1. q # 1
    BY <1>2, <1>4
  <2>2. EntryIn(w, m, K, 1 + (q - 1))
    BY <1>5, <1>6, <1>7, <2>1
  <2> QED
    BY <1>6, <2>1, <2>2
<1>11. \A k \in Q : \E q \in 1 .. Len(w) : w[q].unit = "key" /\ w[q].key = k
  <2> TAKE k \in Q
  <2>1. PICK p \in 1 .. Len(c) : c[p].unit = "key" /\ c[p].key = k
    BY DEF Saves
  <2>2. 1 + p \in 1 .. Len(w)
    BY <1>2, <1>3
  <2> QED
    BY <1>2, <2>1, <2>2
<1>12. Saves(w, m, K, Q)
  BY <1>2, <1>8, <1>9, <1>10, <1>11 DEF Saves
<1> QED
  BY <1>2, <1>12 DEF w, u

LEMMA EntrySave ==
  ASSUME NEW m \in Tables, NEW K, K \subseteq Present(m), NEW Q,
         NEW c, Saves(c, m, K, Q), NEW k \in K
  PROVE  Saves(EntryUnits(k, m[k]) \o c, m, K, Q \cup {k})
<1> DEFINE u == EntryUnits(k, m[k])
           w == u \o c
           N == Len(m[k].parts)
<1>1. k \in Keys /\ m[k] \in Vals
  BY DEF Tables, Present
<1>2. N \in Nat
  BY <1>1, PersistAssumption
<1>3. /\ c \in Seq(Units) /\ u \in Seq(Units) /\ Len(u) = N + 1
      /\ u[1] = KeyUnit(k, m[k])
      /\ \A n \in 1 .. N : u[n + 1] = Part(m[k].parts[n])
  BY <1>1, EntryUnitsProperties DEF Saves
<1>4. Len(c) \in Nat
  BY <1>3
<1>5. \A p \in 1 .. Len(c) : c[p].unit = "key" => EntryIn(w, m, K, Len(u) + p)
  BY <1>3, EntryMoves DEF Saves
<1> HIDE DEF u, N
<1>6. /\ w \in Seq(Units) /\ Len(w) = N + 1 + Len(c)
      /\ \A i \in 1 .. Len(c) : w[N + 1 + i] = c[i]
      /\ \A i \in 1 .. N + 1 : w[i] = u[i]
  <2>1. /\ w \in Seq(Units) /\ Len(w) = Len(u) + Len(c)
        /\ \A i \in 1 .. Len(c) : w[Len(u) + i] = c[i]
        /\ \A i \in 1 .. Len(u) : w[i] = u[i]
    BY <1>3, Join
  <2> HIDE DEF w
  <2> QED
    BY <1>3, <2>1
<1> HIDE DEF w
<1>7. /\ w[1] = KeyUnit(k, m[k])
      /\ \A n \in 1 .. N : w[1 + n] = Part(m[k].parts[n])
  <2>1. 1 \in 1 .. N + 1 /\ \A n \in 1 .. N : 1 + n \in 1 .. N + 1 /\ 1 + n = n + 1
    BY <1>2
  <2> QED
    BY <1>3, <1>6, <2>1
<1>8. w[1].unit = "key" /\ w[1].key = k /\ \A n \in 1 .. N : w[1 + n].unit = "part"
  <2>1. w[1].unit = "key" /\ w[1].key = k
    BY <1>7 DEF KeyUnit
  <2>2. \A x : Part(x).unit = "part"
    BY DEF Part
  <2> QED
    BY <1>7, <2>1, <2>2
<1>9. \A q \in 1 .. Len(w) :
        \/ q = 1
        \/ q - 1 \in 1 .. N /\ q = 1 + (q - 1)
        \/ q - (N + 1) \in 1 .. Len(c) /\ q = N + 1 + (q - (N + 1))
  BY <1>2, <1>4, <1>6
<1>10. EntryIn(w, m, K, 1)
  <2>1. \A n \in 1 .. N : 1 + n <= Len(w)
    BY <1>2, <1>4, <1>6
  <2> QED
    BY <1>7, <2>1 DEF EntryIn, N
<1>11. Len(w) > 0 /\ w[Len(w)] = Eof
  BY <1>2, <1>4, <1>6 DEF Saves
<1>12. \A q \in 1 .. Len(w) - 1 : w[q].unit \notin {"eof", "hole"}
  <2> TAKE q \in 1 .. Len(w) - 1
  <2>1. q \in 1 .. Len(w)
    BY <1>2, <1>4, <1>6
  <2>2. CASE q = 1
    BY <1>8, <2>2
  <2>3. CASE q - 1 \in 1 .. N /\ q = 1 + (q - 1)
    <3>1. w[q].unit = "part"
      BY <1>8, <2>3
    <3> QED
      BY <3>1
  <2>4. CASE q - (N + 1) \in 1 .. Len(c) /\ q = N + 1 + (q - (N + 1))
    <3>1. q - (N + 1) \in 1 .. Len(c) - 1
      BY <1>2, <1>4, <1>6, <2>4
    <3>2. w[q] = c[q - (N + 1)]
      BY <1>6, <2>4
    <3> QED
      BY <3>1, <3>2 DEF Saves
  <2> QED
    BY <1>9, <2>1, <2>2, <2>3, <2>4
<1>13. \A q \in 1 .. Len(w) : w[q].unit = "key" => EntryIn(w, m, K, q)
  <2> SUFFICES ASSUME NEW q \in 1 .. Len(w), w[q].unit = "key"
               PROVE  EntryIn(w, m, K, q)
    OBVIOUS
  <2>1. CASE q = 1
    BY <1>10, <2>1
  <2>2. CASE q - 1 \in 1 .. N /\ q = 1 + (q - 1)
    <3>1. w[q].unit = "part"
      BY <1>8, <2>2
    <3> QED
      BY <3>1
  <2>3. CASE q - (N + 1) \in 1 .. Len(c) /\ q = N + 1 + (q - (N + 1))
    <3>1. c[q - (N + 1)].unit = "key"
      BY <1>6, <2>3
    <3>2. EntryIn(w, m, K, N + 1 + (q - (N + 1)))
      BY <1>3, <1>5, <2>3, <3>1
    <3> QED
      BY <2>3, <3>2
  <2> QED
    BY <1>9, <2>1, <2>2, <2>3
<1>14. \A j \in Q \cup {k} : \E q \in 1 .. Len(w) : w[q].unit = "key" /\ w[q].key = j
  <2> TAKE j \in Q \cup {k}
  <2>1. CASE j = k
    <3>1. 1 \in 1 .. Len(w)
      BY <1>2, <1>4, <1>6
    <3> QED
      BY <1>8, <2>1, <3>1
  <2>2. CASE j \in Q
    <3>1. PICK p \in 1 .. Len(c) : c[p].unit = "key" /\ c[p].key = j
      BY <2>2 DEF Saves
    <3>2. N + 1 + p \in 1 .. Len(w)
      BY <1>2, <1>4, <1>6
    <3> QED
      BY <1>6, <3>1, <3>2
  <2> QED
    BY <2>1, <2>2
<1>15. Saves(w, m, K, Q \cup {k})
  BY <1>6, <1>11, <1>12, <1>13, <1>14 DEF Saves
<1> QED
  BY <1>15 DEF w, u

\* The keys of K whose slots are still ahead at the slot i.
Ahead(K, i) == {k \in K : \E j \in i .. Len(KeyOrder) : KeyOrder[j] = k}

LEMMA WalkSaves ==
  ASSUME NEW m \in Tables, NEW K, K \subseteq Present(m)
  PROVE  \A i \in Nat \ {0} : Saves(Walk(m, K)[i], m, K, Ahead(K, i))
<1> DEFINE L == Len(KeyOrder)
           w == Walk(m, K)
           S == {n \in Nat : \A i \in Nat \ {0} :
                   i + n > L => Saves(w[i], m, K, Ahead(K, i))}
<1>1. L \in Nat
  BY PersistAssumption
<1>2. \A i \in Nat : w[i] = IF i > L THEN <<Eof>> ELSE Chunk(m, K, i) \o w[i + 1]
  BY WalkEquation DEF WalksFrom
<1> HIDE DEF w
<1>3. ASSUME NEW i \in Nat \ {0}, i > L PROVE Saves(w[i], m, K, Ahead(K, i))
  <2>1. Ahead(K, i) = {}
    BY <1>1, <1>3 DEF Ahead
  <2>2. w[i] = <<Eof>>
    BY <1>2, <1>3
  <2> QED
    BY <2>1, <2>2, EmptySave
<1>4. 0 \in S
  BY <1>3
<1>5. ASSUME NEW n \in S PROVE n + 1 \in S
  <2>1. n \in Nat
    BY <1>5
  <2> SUFFICES ASSUME NEW i \in Nat \ {0}, i + (n + 1) > L, i <= L
               PROVE  Saves(w[i], m, K, Ahead(K, i))
    BY <1>1, <1>3, <2>1
  <2>2. i + 1 \in Nat \ {0} /\ (i + 1) + n > L
    BY <1>1, <2>1
  <2>3. Saves(w[i + 1], m, K, Ahead(K, i + 1))
    BY <1>5, <2>2
  <2>4. w[i] = Chunk(m, K, i) \o w[i + 1]
    <3>1. ~ (i > L) /\ i \in Nat
      BY <1>1
    <3> QED
      BY <1>2, <3>1, Zenon
  <2>5. i .. L = {i} \cup (i + 1 .. L)
    BY <1>1
  <2>6. CASE KeyOrder[i] \in K
    <3>1. Ahead(K, i) = Ahead(K, i + 1) \cup {KeyOrder[i]}
      <4> HIDE DEF L
      <4> QED
        BY <2>5, <2>6 DEF Ahead, L
    <3>2. Chunk(m, K, i) = EntryUnits(KeyOrder[i], m[KeyOrder[i]])
      BY <2>6 DEF Chunk
    <3>3. Saves(EntryUnits(KeyOrder[i], m[KeyOrder[i]]) \o w[i + 1], m, K,
                Ahead(K, i + 1) \cup {KeyOrder[i]})
      BY <2>3, <2>6, EntrySave
    <3> QED
      BY <2>4, <3>1, <3>2, <3>3, Zenon
  <2>7. CASE KeyOrder[i] \notin K
    <3>1. Ahead(K, i) = Ahead(K, i + 1)
      BY <2>5, <2>7 DEF Ahead
    <3>2. Chunk(m, K, i) = <<>>
      BY <2>7 DEF Chunk
    <3>3. w[i + 1] \in Seq(Units)
      BY <2>3 DEF Saves
    <3>4. <<>> \o w[i + 1] = w[i + 1]
      BY <3>3
    <3> QED
      BY <2>3, <2>4, <3>1, <3>2, <3>4
  <2> QED
    BY <2>6, <2>7
<1>6. S = Nat
  <2> HIDE DEF S
  <2>1. S \subseteq Nat
    BY DEF S
  <2> QED
    BY <1>4, <1>5, <2>1, Induction
<1>7. ASSUME NEW i \in Nat \ {0} PROVE Saves(w[i], m, K, Ahead(K, i))
  <2>1. L \in S /\ i + L > L
    BY <1>1, <1>6
  <2> QED
    BY <2>1
<1> QED
  BY <1>7 DEF w

\* A snapshot has the magic header, the EOF marker, and one whole entry for
\* every key that the walk met.
LEMMA StreamSaves ==
  ASSUME NEW m \in Tables, NEW K, K \subseteq Present(m)
  PROVE  Saves(Stream(m, K), m, K, K) /\ Stream(m, K)[1] = Magic
<1>1. Saves(Walk(m, K)[1], m, K, Ahead(K, 1))
  BY WalkSaves
<1>2. Ahead(K, 1) = K
  <2>1. DOMAIN KeyOrder = 1 .. Len(KeyOrder)
    BY PersistAssumption
  <2>2. \A k \in K : \E j \in 1 .. Len(KeyOrder) : KeyOrder[j] = k
    BY <2>1 DEF Present, Keys
  <2> QED
    BY <2>2 DEF Ahead
<1> QED
  BY <1>1, <1>2, MagicSave DEF Stream

-----------------------------------------------------------------------------
(* What persist_load reads                                                 *)

LEMMA EntryRead ==
  ASSUME NEW m \in Tables, NEW K, K \subseteq Present(m),
         NEW c, c \in Seq(Units), NEW p \in 1 .. Len(c), EntryIn(c, m, K, p)
  PROVE  \E k \in K : /\ c[p].unit = "key" /\ c[p].key = k
                      /\ PartsAt(c, p) = 1 .. c[p].count
                      /\ EntryAt(c, p) = m[k]
<1>1. PICK k \in K : /\ c[p] = KeyUnit(k, m[k])
                     /\ \A n \in 1 .. Len(m[k].parts) :
                          p + n <= Len(c) /\ c[p + n] = Part(m[k].parts[n])
  BY DEF EntryIn
<1> DEFINE v == m[k]
           N == Len(v.parts)
<1>2. v \in Vals
  BY DEF Tables, Present
<1>3. /\ v = [type |-> v.type, parts |-> v.parts, timed |-> v.timed]
      /\ N \in Nat
      /\ v.parts = [n \in 1 .. N |-> v.parts[n]]
  BY <1>2, PersistAssumption
<1>4. /\ c[p].unit = "key" /\ c[p].key = k /\ c[p].type = v.type
      /\ c[p].timed = v.timed /\ c[p].count = N
  BY <1>1 DEF KeyUnit
<1>5. \A n \in 1 .. N : p + n <= Len(c) /\ c[p + n].unit = "part"
                        /\ c[p + n].text = v.parts[n]
  <2>1. \A x : Part(x).unit = "part" /\ Part(x).text = x
    BY DEF Part
  <2> QED
    BY <1>1, <2>1
<1> HIDE DEF v, N
<1>6. PartsAt(c, p) = 1 .. N
  <2>1. \A n \in 1 .. N : \A i \in 1 .. n : i \in 1 .. N
    BY <1>3
  <2>2. \A n \in 1 .. N : \A i \in 1 .. n : p + i <= Len(c) /\ c[p + i].unit = "part"
    BY <1>5, <2>1
  <2> QED
    BY <1>4, <2>2 DEF PartsAt
<1>7. [n \in PartsAt(c, p) |-> c[p + n].text] = v.parts
  <2>1. [n \in 1 .. N |-> c[p + n].text] = [n \in 1 .. N |-> v.parts[n]]
    BY <1>5
  <2> QED
    BY <1>3, <1>6, <2>1
<1>8. EntryAt(c, p) = [type |-> v.type, timed |-> v.timed, parts |-> v.parts]
  BY <1>4, <1>7 DEF EntryAt
<1>9. EntryAt(c, p) = v
  BY <1>3, <1>8
<1> QED
  BY <1>4, <1>6, <1>9 DEF v

\* What persist_load reads of a snapshot is what persist_save met: for every
\* key the entry of m, with its type, its deadline and all its elements, and no
\* other entry (persist.c:63-142 read back by persist.c:144-229).
THEOREM RoundTrip ==
  ASSUME NEW m \in Tables, NEW K, K \subseteq Present(m)
  PROVE  Entries(Stream(m, K)) = [k \in Keys |-> IF k \in K THEN m[k] ELSE NoVal]
<1> DEFINE c == Stream(m, K)
<1>1. Saves(c, m, K, K) /\ c[1] = Magic
  BY StreamSaves
<1> HIDE DEF c
<1>2. c \in Seq(Units) /\ Len(c) \in Nat /\ Len(c) > 0 /\ c # <<>> /\ DOMAIN c = 1 .. Len(c)
  BY <1>1 DEF Saves
<1>3. ASSUME NEW p \in 1 .. Len(c), c[p].unit = "key"
      PROVE  \E k \in K : /\ c[p].key = k
                          /\ PartsAt(c, p) = 1 .. c[p].count
                          /\ EntryAt(c, p) = m[k]
  BY <1>1, <1>2, <1>3, EntryRead DEF Saves
<1>4. ASSUME NEW p \in 1 .. Len(c) PROVE Reached(c, p)
  <2>1. \A j \in 1 .. p - 1 : j \in 1 .. Len(c) - 1
    BY <1>2
  <2> QED
    BY <1>1, <2>1 DEF Saves, Reached
<1>5. ASSUME NEW k \in K
      PROVE  (IF ReadsAt(c, k) = {} THEN NoVal
                ELSE EntryAt(c, CHOOSE i \in ReadsAt(c, k) :
                                  \A j \in ReadsAt(c, k) : j <= i)) = m[k]
  <2> DEFINE R == ReadsAt(c, k)
             x == CHOOSE i \in R : \A j \in R : j <= i
  <2>1. PICK p \in 1 .. Len(c) : c[p].unit = "key" /\ c[p].key = k
    BY <1>1 DEF Saves
  <2>2. PartsAt(c, p) = 1 .. c[p].count
    BY <1>3, <2>1
  <2>3. p \in R
    BY <1>2, <1>4, <2>1, <2>2 DEF ReadsAt
  <2>4. R \subseteq 1 .. Len(c) /\ \A i \in R : c[i].unit = "key" /\ c[i].key = k
    BY <1>2 DEF ReadsAt
  <2> HIDE DEF R
  <2>5. x \in R
    <3>1. \E i \in R : \A j \in R : j <= i
      BY <1>2, <2>3, <2>4, Greatest
    <3> QED
      BY <3>1
  <2> HIDE DEF x
  <2>6. EntryAt(c, x) = m[k]
    BY <1>3, <2>4, <2>5
  <2> QED
    BY <2>3, <2>6 DEF R, x
<1>6. ASSUME NEW k \in Keys, k \notin K PROVE ReadsAt(c, k) = {}
  <2>1. \A i \in ReadsAt(c, k) : i \in 1 .. Len(c) /\ c[i].unit = "key" /\ c[i].key = k
    BY <1>2 DEF ReadsAt
  <2>2. \A i \in ReadsAt(c, k) : c[i].key \in K
    BY <1>3, <2>1
  <2> QED
    BY <1>6, <2>1, <2>2
<1>7. Entries(c) = [k \in Keys |->
                      IF ReadsAt(c, k) = {} THEN NoVal
                        ELSE EntryAt(c, CHOOSE i \in ReadsAt(c, k) :
                                          \A j \in ReadsAt(c, k) : j <= i)]
  BY <1>1, <1>2 DEF Entries
<1>8. \A k \in Keys :
        (IF ReadsAt(c, k) = {} THEN NoVal
           ELSE EntryAt(c, CHOOSE i \in ReadsAt(c, k) :
                             \A j \in ReadsAt(c, k) : j <= i))
        = IF k \in K THEN m[k] ELSE NoVal
  BY <1>5, <1>6
<1>9. Entries(c) = [k \in Keys |-> IF k \in K THEN m[k] ELSE NoVal]
  BY <1>7, <1>8
<1> QED
  BY <1>9 DEF c

\* A snapshot taken while the table shows every entry is the database.
LEMMA FullRoundTrip ==
  ASSUME NEW m \in Tables
  PROVE  Entries(Stream(m, Present(m))) = m
<1>1. Entries(Stream(m, Present(m))) =
        [k \in Keys |-> IF k \in Present(m) THEN m[k] ELSE NoVal]
  BY RoundTrip
<1>2. m = [k \in Keys |-> m[k]]
  BY DEF Tables
<1>3. \A k \in Keys : (IF k \in Present(m) THEN m[k] ELSE NoVal) = m[k]
  BY DEF Present
<1> QED
  BY <1>1, <1>2, <1>3

-----------------------------------------------------------------------------
(* Processes, calls and files                                              *)

RehashFrames == [at : {"rehash"}, key : Keys, val : Vals \cup {NoVal}]
SaveFrames ==
  [at : {"write", "remove", "rename"}, by : {"save", "shutdown", "signal"},
   file : Inodes, stream : Seq(Units), given : Nat, flushed : Nat]
Frames == RehashFrames \cup SaveFrames

MemOK ==
  /\ mem \in Tables /\ shown \subseteq Present(mem)
  /\ up \in BOOLEAN /\ running \in BOOLEAN
  /\ running => up
  /\ ~up => stack = <<>>

\* A command, and perhaps the signal handler on top of it.
StackOK ==
  /\ stack \in Seq(Frames)
  /\ Len(stack) <= 2
  /\ Len(stack) = 2 => stack[2] \in SaveFrames /\ stack[2].by = "signal"

\* Only a call of ht_resize hides entries from the iterator.
ShownOK == (stack = <<>> \/ stack[1].at # "rehash") => shown = Present(mem)

\* Every call of persist_save writes what the table shows now.  One whose file
\* has become dump.rdb, by the rename of a call on top of it, finds there
\* already what it goes on to write.
FrameOK(f) ==
  /\ f.stream = Stream(mem, shown)
  /\ f.flushed <= f.given /\ f.given <= Len(f.stream)
  /\ f.file = names.dump => inode[names.dump] = Stream(mem, shown)
FramesOK == \A i \in DOMAIN stack : stack[i].at # "rehash" => FrameOK(stack[i])

\* While the running call saves, dump.rdb.tmp is its file, if it still exists,
\* and holds what the call has written.
Progress(f) == IF f.at = "write" THEN SubSeq(f.stream, 1, f.flushed) ELSE f.stream
TmpOK ==
  stack # <<>> /\ Top.at # "rehash" /\ names.tmp # NoFile =>
    names.tmp = Top.file /\ inode[names.tmp] = Progress(Top)

Snapshot(c) == \E m \in Tables : \E K \in SUBSET Present(m) : c = Stream(m, K)
FilesOK ==
  /\ names \in [dump : Inodes \cup {NoFile}, tmp : Inodes \cup {NoFile}]
  /\ inode = [n \in Inodes |-> inode[n]]
  /\ names.dump # NoFile => names.dump # names.tmp /\ Snapshot(inode[names.dump])

PInv == MemOK /\ StackOK /\ ShownOK /\ FramesOK /\ TmpOK /\ FilesOK

-----------------------------------------------------------------------------
(* Operators                                                               *)

\* Writing on behind the prefix of a stream gives a longer prefix.
LEMMA WrittenPrefix ==
  ASSUME NEW s \in Seq(Units), NEW a \in Nat, NEW b \in Nat, a <= b, b <= Len(s)
  PROVE  Written(SubSeq(s, 1, a), s, a, b) = SubSeq(s, 1, b)
<1>1. /\ SubSeq(s, 1, a) \in Seq(Units) /\ Len(SubSeq(s, 1, a)) = a
      /\ \A i \in 1 .. a : SubSeq(s, 1, a)[i] = s[i]
  OBVIOUS
<1>2. SubSeq(s, 1, b) = [i \in 1 .. b |-> s[i]]
  OBVIOUS
<1>3. (IF b > a THEN b ELSE a) = b
  OBVIOUS
<1>4. Written(SubSeq(s, 1, a), s, a, b) = [i \in 1 .. b |-> s[i]]
  <2> DEFINE c == SubSeq(s, 1, a)
  <2> HIDE DEF c
  <2>1. Len(c) = a /\ \A i \in 1 .. a : c[i] = s[i]
    BY <1>1 DEF c
  <2>2. \A i \in 1 .. b : (CASE i \in a + 1 .. b                -> s[i]
                             [] i \notin a + 1 .. b /\ i <= Len(c) -> c[i]
                             [] OTHER                           -> Hole) = s[i]
    BY <2>1
  <2> QED
    BY <1>3, <2>1, <2>2 DEF Written, c
<1> QED
  BY <1>2, <1>4

\* Writing a stream again over itself changes nothing.
LEMMA WrittenAgain ==
  ASSUME NEW s \in Seq(Units), NEW a \in Nat, NEW b \in Nat, a <= b, b <= Len(s)
  PROVE  Written(s, s, a, b) = s
<1>1. (IF b > Len(s) THEN b ELSE Len(s)) = Len(s)
  OBVIOUS
<1>2. \A i \in 1 .. Len(s) : (CASE i \in a + 1 .. b                -> s[i]
                                [] i \notin a + 1 .. b /\ i <= Len(s) -> s[i]
                                [] OTHER                           -> Hole) = s[i]
  OBVIOUS
<1>3. s = [i \in 1 .. Len(s) |-> s[i]]
  OBVIOUS
<1> QED
  BY <1>1, <1>2, <1>3 DEF Written

LEMMA StreamType ==
  ASSUME MemOK
  PROVE  /\ Stream(mem, shown) \in Seq(Units) /\ Len(Stream(mem, shown)) \in Nat
         /\ Snapshot(Stream(mem, shown))
<1>1. Saves(Stream(mem, shown), mem, shown, shown)
  BY StreamSaves DEF MemOK
<1> QED
  BY <1>1 DEF Saves, Snapshot, MemOK

\* What is loaded is a table.
LEMMA ContentsType ==
  ASSUME FilesOK
  PROVE  Contents(names.dump) \in Tables
<1>1. CASE names.dump = NoFile
  BY <1>1 DEF Contents, Empty, Tables
<1>2. CASE names.dump # NoFile
  <2>1. PICK m \in Tables : \E K \in SUBSET Present(m) : inode[names.dump] = Stream(m, K)
    BY <1>2 DEF FilesOK, Snapshot
  <2>2. PICK K \in SUBSET Present(m) : inode[names.dump] = Stream(m, K)
    BY <2>1
  <2>3. Contents(names.dump) = [k \in Keys |-> IF k \in K THEN m[k] ELSE NoVal]
    BY <1>2, <2>2, RoundTrip DEF Contents
  <2> QED
    BY <2>3 DEF Tables
<1> QED
  BY <1>1, <1>2

-----------------------------------------------------------------------------
(* The stack                                                               *)

LEMMA OneOrTwo ==
  /\ \A n \in Nat : n <= 2 /\ n # 0 => n \in 1 .. 2
  /\ \A n \in 1 .. 2 : n - 1 <= 2 /\ n - 1 # 2
  /\ \A n \in {0, 1} : n <= 1
  /\ \A n \in {1, 2} : n <= 2
OBVIOUS

LEMMA Pushed ==
  ASSUME NEW s \in Seq(Frames), NEW f \in Frames
  PROVE  /\ Append(s, f) \in Seq(Frames) /\ Len(Append(s, f)) = Len(s) + 1
         /\ Append(s, f) # <<>> /\ Append(s, f)[Len(s) + 1] = f
         /\ \A i \in 1 .. Len(s) : Append(s, f)[i] = s[i]
OBVIOUS

LEMMA Popped ==
  ASSUME NEW s \in Seq(Frames), s # <<>>
  PROVE  LET r == SubSeq(s, 1, Len(s) - 1)
         IN  /\ r \in Seq(Frames) /\ Len(r) = Len(s) - 1 /\ Len(s) \in Nat \ {0}
             /\ \A i \in 1 .. Len(r) : r[i] = s[i]
<1>1. Len(s) \in Nat \ {0}
  OBVIOUS
<1>2. \A i \in 1 .. Len(s) - 1 : s[i] \in Frames
  BY <1>1
<1> DEFINE r == SubSeq(s, 1, Len(s) - 1)
<1>3. r \in Seq(Frames) /\ Len(r) = Len(s) - 1 /\ \A i \in 1 .. Len(s) - 1 : r[i] = s[i]
  <2> DEFINE n == Len(s) - 1
  <2>1. n \in Nat
    BY <1>1
  <2> HIDE DEF n
  <2>2. /\ SubSeq(s, 1, n) \in Seq(Frames)
        /\ Len(SubSeq(s, 1, n)) = IF 1 <= n THEN n - 1 + 1 ELSE 0
        /\ \A i \in 1 .. n - 1 + 1 : SubSeq(s, 1, n)[i] = s[1 + i - 1]
    BY <1>2, <2>1, SubSeqProperties DEF n
  <2>3. Len(SubSeq(s, 1, n)) = n
    BY <2>1, <2>2
  <2>4. \A i \in 1 .. n : i \in 1 .. n - 1 + 1 /\ 1 + i - 1 = i
    BY <2>1
  <2>5. \A i \in 1 .. n : SubSeq(s, 1, n)[i] = s[i]
    BY <2>2, <2>4
  <2> QED
    BY <2>2, <2>3, <2>5 DEF n
<1> QED
  BY <1>1, <1>3

LEMMA Replaced ==
  ASSUME NEW s \in Seq(Frames), s # <<>>, NEW f \in Frames
  PROVE  LET r == Append(SubSeq(s, 1, Len(s) - 1), f)
         IN  /\ r \in Seq(Frames) /\ Len(r) = Len(s) /\ r # <<>>
             /\ r[Len(s)] = f
             /\ \A i \in 1 .. Len(s) - 1 : r[i] = s[i]
<1>1. /\ SubSeq(s, 1, Len(s) - 1) \in Seq(Frames)
      /\ Len(SubSeq(s, 1, Len(s) - 1)) = Len(s) - 1 /\ Len(s) \in Nat \ {0}
      /\ \A i \in 1 .. Len(s) - 1 : SubSeq(s, 1, Len(s) - 1)[i] = s[i]
  BY Popped
<1>2. \A r \in Seq(Frames) : Len(r) = Len(s) - 1 =>
        /\ Append(r, f) \in Seq(Frames) /\ Len(Append(r, f)) = Len(s)
        /\ Append(r, f) # <<>> /\ Append(r, f)[Len(s)] = f
        /\ \A i \in 1 .. Len(s) - 1 : Append(r, f)[i] = r[i]
  BY <1>1, Pushed
<1> QED
  BY <1>1, <1>2

-----------------------------------------------------------------------------
(* The inductive invariant: calls of persist_save                          *)

\* The running call of persist_save.
LEMMA Running ==
  ASSUME PInv, Point \in {"write", "remove", "rename"}
  PROVE  /\ stack # <<>> /\ stack \in Seq(Frames) /\ Len(stack) \in 1 .. 2
         /\ Top = stack[Len(stack)] /\ Top \in SaveFrames /\ FrameOK(Top)
         /\ Point = Top.at
         /\ Rest = SubSeq(stack, 1, Len(stack) - 1)
<1>1. stack # <<>> /\ Point = Top.at
  BY DEF Point
<1>2. stack \in Seq(Frames) /\ Len(stack) \in 1 .. 2
  <2>1. stack \in Seq(Frames)
    BY DEF PInv, StackOK
  <2>2. Len(stack) \in Nat /\ Len(stack) # 0
    BY <1>1, <2>1, EmptySeq, LenProperties
  <2>3. Len(stack) <= 2
    BY DEF PInv, StackOK
  <2>4. Len(stack) \in 1 .. 2
    BY <2>2, <2>3, OneOrTwo
  <2> QED
    BY <2>1, <2>4
<1>3. Top = stack[Len(stack)] /\ Len(stack) \in DOMAIN stack
  BY <1>2 DEF Top
<1>4. Top \in Frames
  BY <1>2, <1>3
<1>5. Top \in SaveFrames /\ Top.at # "rehash"
  BY <1>1, <1>4 DEF Frames, RehashFrames
<1> QED
  BY <1>1, <1>2, <1>3, <1>5 DEF PInv, FramesOK, Rest

\* A call of persist_save returns.
LEMMA ReturnsTo ==
  ASSUME PInv, Point \in {"write", "remove", "rename"},
         NEW r, ReturnTo(Top.by, r),
         stack' = Rest, UNCHANGED memory
  PROVE  /\ MemOK' /\ StackOK' /\ ShownOK'
         /\ mem' = mem /\ shown' = shown
         /\ \A i \in DOMAIN stack' :
              i \in DOMAIN stack /\ stack'[i] = stack[i] /\ stack[i] \in Frames
<1>1. /\ stack # <<>> /\ stack \in Seq(Frames) /\ Len(stack) \in 1 .. 2
      /\ Top = stack[Len(stack)] /\ Top \in SaveFrames
      /\ Rest = SubSeq(stack, 1, Len(stack) - 1)
  BY Running
<1>2. /\ stack' \in Seq(Frames) /\ Len(stack') = Len(stack) - 1
      /\ \A i \in 1 .. Len(stack') : stack'[i] = stack[i]
  BY <1>1, Popped
<1>3. DOMAIN stack = 1 .. Len(stack) /\ DOMAIN stack' = 1 .. Len(stack')
  BY <1>1, <1>2
<1>4. mem' = mem /\ shown' = shown /\ up' = up /\ running' \in BOOLEAN /\ (running' => running)
  BY DEF ReturnTo, memory, PInv, MemOK
<1>5. up
  BY <1>1 DEF PInv, MemOK
<1>6. MemOK'
  BY <1>4, <1>5 DEF PInv, MemOK, Present
<1>7. StackOK'
  <2>1. Len(stack) \in 1 .. 2 /\ Len(stack') = Len(stack) - 1
    BY <1>1, <1>2
  <2>2. Len(stack') <= 2 /\ Len(stack') # 2
    BY <2>1, OneOrTwo
  <2> QED
    BY <1>2, <2>2 DEF StackOK
<1>8. ShownOK'
  <2>1. CASE Len(stack) = 1
    <3>1. stack[1].at # "rehash"
      BY <1>1, <2>1 DEF SaveFrames
    <3> QED
      BY <1>1, <1>4, <3>1 DEF PInv, ShownOK, Present
  <2>2. CASE Len(stack) = 2
    <3>1. Len(stack') = 1 /\ 1 \in 1 .. Len(stack')
      BY <1>2, <2>2
    <3>2. stack'[1] = stack[1] /\ stack' # <<>>
      BY <1>2, <3>1
    <3> QED
      BY <1>1, <1>4, <3>2 DEF PInv, ShownOK, Present
  <2> QED
    BY <1>1, <2>1, <2>2
<1>9. \A i \in DOMAIN stack' :
        i \in DOMAIN stack /\ stack'[i] = stack[i] /\ stack[i] \in Frames
  BY <1>1, <1>2, <1>3
<1> QED
  BY <1>4, <1>6, <1>7, <1>8, <1>9

\* It returns and leaves dump.rdb alone.
LEMMA Returns ==
  ASSUME PInv, Point \in {"write", "remove", "rename"},
         NEW r, ReturnTo(Top.by, r),
         stack' = Rest, UNCHANGED memory,
         names' = [names EXCEPT !.tmp = NoFile],
         inode' = [n \in Inodes |-> inode'[n]],
         names.dump # NoFile => inode'[names.dump] = inode[names.dump]
  PROVE  PInv'
<1>1. /\ MemOK' /\ StackOK' /\ ShownOK'
      /\ mem' = mem /\ shown' = shown
      /\ \A i \in DOMAIN stack' :
           i \in DOMAIN stack /\ stack'[i] = stack[i] /\ stack[i] \in Frames
  BY ReturnsTo
<1>2. names'.dump = names.dump /\ names'.tmp = NoFile
      /\ names' \in [dump : Inodes \cup {NoFile}, tmp : Inodes \cup {NoFile}]
  BY DEF PInv, FilesOK
<1>3. FramesOK'
  <2> SUFFICES ASSUME NEW i \in DOMAIN stack', stack'[i].at # "rehash"
               PROVE  FrameOK(stack[i])'
    BY DEF FramesOK
  <2>1. i \in DOMAIN stack /\ stack'[i] = stack[i]
    BY <1>1
  <2>2. FrameOK(stack[i])
    BY <2>1 DEF PInv, FramesOK
  <2>3. stack[i].file \in Inodes
    BY <1>1, <2>1 DEF Frames, SaveFrames, RehashFrames
  <2> QED
    BY <1>1, <1>2, <2>1, <2>2, <2>3, PersistAssumption DEF FrameOK
<1>4. TmpOK'
  BY <1>2 DEF TmpOK
<1>5. FilesOK'
  <2>1. names'.dump # NoFile => Snapshot(inode'[names'.dump])
    BY <1>2 DEF PInv, FilesOK
  <2>2. names'.dump # NoFile => names'.dump # names'.tmp
    BY <1>2
  <2> QED
    BY <1>2, <2>1, <2>2 DEF FilesOK, Snapshot, Tables, Present
<1> QED
  BY <1>1, <1>3, <1>4, <1>5 DEF PInv

\* A call of persist_save goes on: as f, with the same file and stream.
LEMMA GoesOn ==
  ASSUME PInv, Point \in {"write", "remove", "rename"},
         NEW f \in SaveFrames,
         f.by = Top.by, f.file = Top.file, f.stream = Top.stream,
         f.flushed <= f.given, f.given <= Len(f.stream),
         stack' = Append(Rest, f), UNCHANGED <<memory, process>>,
         names' \in [dump : {names.dump, NoFile}, tmp : {names.tmp}],
         inode' = [n \in Inodes |-> inode'[n]],
         names'.dump # NoFile => inode'[names.dump] = inode[names.dump],
         names.tmp # NoFile /\ inode[names.tmp] = Progress(Top)
           => inode'[names.tmp] = Progress(f)
  PROVE  PInv'
<1>1. /\ stack # <<>> /\ stack \in Seq(Frames) /\ Len(stack) \in 1 .. 2
      /\ Top = stack[Len(stack)] /\ Top \in SaveFrames /\ FrameOK(Top)
      /\ Rest = SubSeq(stack, 1, Len(stack) - 1)
  BY Running
<1>2. f \in Frames
  BY DEF Frames
<1>3. /\ stack' \in Seq(Frames) /\ Len(stack') = Len(stack) /\ stack' # <<>>
      /\ stack'[Len(stack)] = f
      /\ \A i \in 1 .. Len(stack) - 1 : stack'[i] = stack[i]
  BY <1>1, <1>2, Replaced
<1>4. DOMAIN stack = 1 .. Len(stack) /\ DOMAIN stack' = 1 .. Len(stack)
  BY <1>1, <1>3
<1>5. mem' = mem /\ shown' = shown /\ up' = up /\ running' = running
  BY DEF memory, process
<1>6. /\ names'.dump \in {names.dump, NoFile} /\ names'.tmp = names.tmp
      /\ names' \in [dump : Inodes \cup {NoFile}, tmp : Inodes \cup {NoFile}]
  BY DEF PInv, FilesOK
<1>7. up
  BY <1>1 DEF PInv, MemOK
<1>8. f.at # "rehash" /\ Top.at # "rehash"
  BY <1>1 DEF SaveFrames
<1>9. MemOK'
  BY <1>5, <1>7 DEF PInv, MemOK, Present
<1>10. StackOK'
  <2>1. Len(stack') <= 2
    BY <1>3 DEF PInv, StackOK
  <2>2. Len(stack') = 2 => stack'[2] = f /\ f.by = stack[2].by
    BY <1>1, <1>3
  <2>3. Len(stack') = 2 => stack[2].by = "signal"
    BY <1>3 DEF PInv, StackOK
  <2> QED
    BY <1>3, <2>1, <2>2, <2>3 DEF StackOK
<1>11. ShownOK'
  <2>1. CASE Len(stack) = 1
    BY <1>1, <1>3, <1>5, <1>8, <2>1 DEF PInv, ShownOK, Present
  <2>2. CASE Len(stack) = 2
    <3>1. stack'[1] = stack[1]
      BY <1>3, <2>2
    <3> QED
      BY <1>1, <1>5, <3>1 DEF PInv, ShownOK, Present
  <2> QED
    BY <1>1, <2>1, <2>2
<1>12. ASSUME NEW g \in SaveFrames, FrameOK(g)
       PROVE  g.file = names'.dump => inode'[names'.dump] = Stream(mem, shown)
  <2>1. g.file # NoFile
    BY PersistAssumption DEF SaveFrames
  <2> QED
    BY <1>6, <1>12, <2>1 DEF FrameOK
<1>13. FramesOK'
  <2> SUFFICES ASSUME NEW i \in DOMAIN stack', stack'[i].at # "rehash"
               PROVE  FrameOK(stack[i])'
    BY DEF FramesOK
  <2>1. CASE i = Len(stack)
    <3>1. stack'[i] = f
      BY <1>3, <2>1
    <3>2. f.file = names'.dump => inode'[names'.dump] = Stream(mem, shown)
      BY <1>1, <1>12
    <3>3. f.stream = Stream(mem, shown)
      BY <1>1 DEF FrameOK
    <3> QED
      BY <1>5, <3>1, <3>2, <3>3 DEF FrameOK
  <2>2. CASE i # Len(stack)
    <3>1. i \in 1 .. Len(stack) - 1 /\ i \in DOMAIN stack
      BY <1>1, <1>4, <2>2
    <3>2. stack'[i] = stack[i]
      BY <1>3, <3>1
    <3>3. FrameOK(stack[i]) /\ stack[i] \in Frames
      BY <1>1, <3>1, <3>2 DEF PInv, FramesOK
    <3>4. stack[i] \in SaveFrames
      BY <3>2, <3>3 DEF Frames, RehashFrames
    <3>5. stack[i].file = names'.dump => inode'[names'.dump] = Stream(mem, shown)
      BY <1>12, <3>3, <3>4
    <3> QED
      BY <1>5, <3>2, <3>3, <3>5 DEF FrameOK
  <2> QED
    BY <2>1, <2>2
<1>14. TmpOK'
  <2>1. Top' = f
    BY <1>3 DEF Top
  <2>2. names.tmp # NoFile => names.tmp = Top.file /\ inode[names.tmp] = Progress(Top)
    BY <1>1, <1>8 DEF PInv, TmpOK
  <2>3. names.tmp # NoFile => names.tmp = f.file /\ inode'[names.tmp] = Progress(f)
    BY <2>2
  <2> QED
    BY <1>6, <2>1, <2>3 DEF TmpOK
<1>15. FilesOK'
  <2>1. names'.dump # NoFile => names'.dump # names'.tmp /\ Snapshot(inode'[names'.dump])
    BY <1>6 DEF PInv, FilesOK
  <2> QED
    BY <1>6, <2>1 DEF FilesOK, Snapshot, Tables, Present
<1> QED
  BY <1>9, <1>10, <1>11, <1>13, <1>14, <1>15 DEF PInv

\* One of the three inodes is free for a file that does not exist yet.
LEMMA FreeInode ==
  ASSUME PInv, Len(stack) <= 1, names.tmp = NoFile
  PROVE  LET n == CHOOSE f \in Free : \A g \in Free : f <= g
         IN  n \in Inodes /\ n # names.dump
<1>1. stack \in Seq(Frames) /\ Len(stack) \in Nat /\ DOMAIN stack = 1 .. Len(stack)
  BY DEF PInv, StackOK
<1>2. \A i \in DOMAIN stack : i = 1
  <2>1. \A n \in Nat : n <= 1 => \A i \in 1 .. n : i = 1
    OBVIOUS
  <2> QED
    BY <1>1, <2>1
<1>3. InUse(names, stack) \subseteq {names.dump, NoFile, stack[1].file}
  BY <1>2 DEF InUse
<1>4. Free # {}
  <2>1. 1 \in Inodes /\ 2 \in Inodes /\ 3 \in Inodes /\ NoFile \notin Inodes
    BY PersistAssumption DEF Inodes
  <2>2. \E n \in {1, 2, 3} : n \notin {names.dump, NoFile, stack[1].file}
    BY <2>1
  <2> QED
    BY <1>3, <2>1, <2>2 DEF Free
<1>5. Free \subseteq Nat /\ Free \subseteq Inodes /\ names.dump \notin Free
  BY DEF Free, Inodes, InUse
<1>6. \E f \in Free : \A g \in Free : f <= g
  BY <1>4, <1>5, Least
<1> QED
  BY <1>5, <1>6

LEMMA BeginsSave ==
  ASSUME PInv, up, NEW by \in {"save", "shutdown", "signal"},
         stack = <<>> \/ (by = "signal" /\ Len(stack) = 1),
         BeginSave(by)
  PROVE  PInv'
<1>1. /\ stack \in Seq(Frames) /\ Len(stack) \in Nat /\ DOMAIN stack = 1 .. Len(stack)
      /\ stack = <<>> <=> Len(stack) = 0
  BY EmptySeq DEF PInv, StackOK
<1>2. Len(stack) \in {0, 1} /\ (Len(stack) = 1 => by = "signal")
  BY <1>1
<1>3. MemOK /\ Stream(mem, shown) \in Seq(Units) /\ Len(Stream(mem, shown)) \in Nat
  BY StreamType DEF PInv
<1>4. CASE UNCHANGED <<memory, stack, names, inode>> /\ ReturnTo(by, -1)
  <2>1. /\ mem' = mem /\ shown' = shown /\ stack' = stack /\ names' = names
        /\ inode' = inode /\ up' = up /\ running' \in BOOLEAN /\ (running' => running)
    BY <1>3, <1>4 DEF ReturnTo, memory, MemOK
  <2>2. MemOK'
    BY <1>3, <2>1 DEF MemOK, Present
  <2>3. StackOK' /\ ShownOK' /\ FilesOK'
    BY <2>1 DEF PInv, StackOK, ShownOK, FilesOK, Snapshot, Present
  <2>4. FramesOK' /\ TmpOK'
    BY <2>1 DEF PInv, FramesOK, FrameOK, TmpOK, Top, Progress
  <2> QED
    BY <2>2, <2>3, <2>4 DEF PInv
<1>5. ASSUME NEW n \in Inodes, n # names.dump,
             names' = [names EXCEPT !.tmp = n],
             inode' = [inode EXCEPT ![n] = <<>>],
             stack' = Append(stack,
               [at |-> "write", by |-> by, file |-> n,
                stream |-> Stream(mem, shown), given |-> 0, flushed |-> 0]),
             UNCHANGED <<memory, process>>
      PROVE  PInv'
  <2> DEFINE f == [at |-> "write", by |-> by, file |-> n,
                   stream |-> Stream(mem, shown), given |-> 0, flushed |-> 0]
  <2>1. f \in SaveFrames /\ f \in Frames
    BY <1>3 DEF SaveFrames, Frames
  <2>2. /\ f.at = "write" /\ f.by = by /\ f.file = n /\ f.stream = Stream(mem, shown)
        /\ f.given = 0 /\ f.flushed = 0
    OBVIOUS
  <2>3. stack' = Append(stack, f)
    BY <1>5
  <2> HIDE DEF f
  <2>4. /\ stack' \in Seq(Frames) /\ Len(stack') = Len(stack) + 1
        /\ stack' # <<>> /\ stack'[Len(stack) + 1] = f
        /\ \A i \in 1 .. Len(stack) : stack'[i] = stack[i]
    BY <1>1, <2>1, <2>3, Pushed
  <2>5. mem' = mem /\ shown' = shown /\ up' = up /\ running' = running
    BY <1>5 DEF memory, process
  <2>6. /\ names'.dump = names.dump /\ names'.tmp = n
        /\ names' \in [dump : Inodes \cup {NoFile}, tmp : Inodes \cup {NoFile}]
    BY <1>5 DEF PInv, FilesOK
  <2>7. /\ inode' = [x \in Inodes |-> inode'[x]] /\ inode'[n] = <<>>
        /\ names.dump # NoFile => inode'[names.dump] = inode[names.dump]
    BY <1>5 DEF PInv, FilesOK
  <2>8. MemOK'
    BY <1>3, <2>5 DEF MemOK, Present
  <2>9. StackOK'
    <3>1. Len(stack') \in {1, 2} /\ (Len(stack') = 2 => by = "signal" /\ Len(stack) + 1 = 2)
      BY <1>2, <2>4
    <3>2. Len(stack') <= 2
      BY <3>1, OneOrTwo
    <3>3. Len(stack') = 2 => stack'[2] = f /\ f.by = "signal"
      BY <2>2, <2>4, <3>1
    <3> QED
      BY <2>1, <2>4, <3>2, <3>3 DEF StackOK
  <2>10. ShownOK'
    <3>1. CASE Len(stack) = 0
      BY <1>1, <2>5, <3>1 DEF PInv, ShownOK, Present
    <3>2. CASE Len(stack) = 1
      <4>1. stack'[1] = stack[1] /\ stack # <<>>
        BY <1>1, <2>4, <3>2
      <4> QED
        BY <2>4, <2>5, <4>1 DEF PInv, ShownOK, Present
    <3> QED
      BY <1>2, <3>1, <3>2
  <2>11. FramesOK'
    <3> SUFFICES ASSUME NEW i \in DOMAIN stack', stack'[i].at # "rehash"
                 PROVE  FrameOK(stack[i])'
      BY DEF FramesOK
    <3>1. CASE i = Len(stack) + 1
      <4>1. stack'[i] = f
        BY <2>4, <3>1
      <4>2. n # names'.dump
        BY <1>5, <2>6
      <4> QED
        BY <1>3, <2>2, <2>5, <4>1, <4>2 DEF FrameOK
    <3>2. CASE i # Len(stack) + 1
      <4>1. i \in 1 .. Len(stack) /\ i \in DOMAIN stack
        BY <1>1, <2>4, <3>2
      <4>2. stack'[i] = stack[i]
        BY <2>4, <4>1
      <4>3. FrameOK(stack[i]) /\ stack[i] \in Frames
        BY <1>1, <4>1, <4>2 DEF PInv, FramesOK
      <4>4. stack[i].file # NoFile
        BY <4>2, <4>3, PersistAssumption DEF Frames, RehashFrames, SaveFrames
      <4> QED
        BY <2>5, <2>6, <2>7, <4>2, <4>3, <4>4 DEF FrameOK
    <3> QED
      BY <3>1, <3>2
  <2>12. TmpOK'
    <3>1. Top' = f
      BY <2>4 DEF Top
    <3>2. Progress(f) = <<>>
      BY <1>3, <2>2, SubSeqEmpty DEF Progress
    <3> QED
      BY <2>2, <2>6, <2>7, <3>1, <3>2 DEF TmpOK
  <2>13. FilesOK'
    <3>1. names'.dump # NoFile => names'.dump # names'.tmp /\ Snapshot(inode'[names'.dump])
      BY <1>5, <2>6, <2>7 DEF PInv, FilesOK
    <3> QED
      BY <2>6, <2>7, <3>1 DEF FilesOK, Snapshot, Tables, Present
  <2> QED
    BY <2>8, <2>9, <2>10, <2>11, <2>12, <2>13 DEF PInv
<1>6. CASE names.tmp # NoFile
  <2>1. names.tmp \in Inodes /\ names.tmp # names.dump
    BY <1>6 DEF PInv, FilesOK
  <2> QED
    BY <1>4, <1>5, <1>6, <2>1 DEF BeginSave
<1>7. CASE names.tmp = NoFile
  <2> DEFINE n == CHOOSE f \in Free : \A g \in Free : f <= g
  <2>1. Len(stack) <= 1
    BY <1>2, OneOrTwo
  <2>2. n \in Inodes /\ n # names.dump
    BY <1>7, <2>1, FreeInode
  <2> HIDE DEF n
  <2> QED
    BY <1>4, <1>5, <1>7, <2>2 DEF BeginSave, n
<1> QED
  BY <1>6, <1>7

\* The name dump.rdb keeps its inode whatever else is forgotten.
LEMMA DumpKept ==
  ASSUME NEW d, NEW c, d.dump \in Inodes
  PROVE  Kept(d, c) = [n \in Inodes |-> Kept(d, c)[n]] /\ Kept(d, c)[d.dump] = inode[d.dump]
BY DEF Kept, InUse

\* What is flushed to the file of a call of persist_save: nothing happens to
\* dump.rdb, and the tmp file gets the stream as far as b.
LEMMA Flushes ==
  ASSUME PInv, Point = "write", NEW b \in Nat, Top.flushed <= b, b <= Len(Top.stream),
         Flush(b)
  PROVE  /\ inode' = [n \in Inodes |-> inode'[n]]
         /\ names.dump # NoFile => inode'[names.dump] = inode[names.dump]
         /\ names.tmp # NoFile => inode'[names.tmp] = SubSeq(Top.stream, 1, b)
<1>1. /\ Top \in SaveFrames /\ FrameOK(Top) /\ Top.at = "write" /\ stack # <<>>
  BY Running
<1>2. Top.file \in Inodes /\ Top.stream \in Seq(Units) /\ Top.flushed \in Nat
  BY <1>1 DEF SaveFrames
<1>3. inode' = [n \in Inodes |->
                  IF n = Top.file THEN Written(inode[n], Top.stream, Top.flushed, b)
                    ELSE inode[n]]
  BY DEF Flush, PInv, FilesOK
<1>4. inode' = [n \in Inodes |-> inode'[n]]
  BY <1>3
<1>5. ASSUME names.dump # NoFile PROVE inode'[names.dump] = inode[names.dump]
  <2>1. names.dump \in Inodes
    BY <1>5 DEF PInv, FilesOK
  <2>2. CASE names.dump # Top.file
    BY <1>3, <2>1, <2>2
  <2>3. CASE names.dump = Top.file
    <3>1. inode[names.dump] = Top.stream
      BY <1>1, <2>3 DEF FrameOK
    <3>2. Written(Top.stream, Top.stream, Top.flushed, b) = Top.stream
      BY <1>2, WrittenAgain
    <3> QED
      BY <1>3, <2>1, <2>3, <3>1, <3>2
  <2> QED
    BY <2>2, <2>3
<1>6. ASSUME names.tmp # NoFile PROVE inode'[names.tmp] = SubSeq(Top.stream, 1, b)
  <2>1. names.tmp = Top.file /\ inode[names.tmp] = SubSeq(Top.stream, 1, Top.flushed)
    BY <1>1, <1>6 DEF PInv, TmpOK, Progress
  <2>2. Written(SubSeq(Top.stream, 1, Top.flushed), Top.stream, Top.flushed, b)
          = SubSeq(Top.stream, 1, b)
    BY <1>2, WrittenPrefix
  <2> QED
    BY <1>2, <1>3, <2>1, <2>2
<1> QED
  BY <1>4, <1>5, <1>6

LEMMA Advanced ==
  ASSUME NEW t \in SaveFrames, NEW b \in Nat
  PROVE  LET f == [t EXCEPT !.given = @ + 1, !.flushed = b]
         IN  /\ f \in SaveFrames /\ f.by = t.by /\ f.file = t.file /\ f.at = t.at
             /\ f.stream = t.stream /\ f.given = t.given + 1 /\ f.flushed = b
<1> DEFINE g == [t EXCEPT !.given = @ + 1]
<1>1. t.given \in Nat /\ t.given + 1 \in Nat
  BY DEF SaveFrames
<1>2. /\ g \in SaveFrames /\ g.by = t.by /\ g.file = t.file /\ g.at = t.at
      /\ g.stream = t.stream /\ g.given = t.given + 1
  BY <1>1 DEF SaveFrames
<1>3. [t EXCEPT !.given = @ + 1, !.flushed = b] = [g EXCEPT !.flushed = b]
  OBVIOUS
<1> HIDE DEF g
<1>4. LET f == [g EXCEPT !.flushed = b]
      IN  /\ f \in SaveFrames /\ f.by = g.by /\ f.file = g.file /\ f.at = g.at
          /\ f.stream = g.stream /\ f.given = g.given /\ f.flushed = b
  BY <1>2 DEF SaveFrames
<1> QED
  BY <1>2, <1>3, <1>4

LEMMA WriteUnitOK ==
  ASSUME PInv, WriteUnit
  PROVE  PInv'
<1>1. /\ Top \in SaveFrames /\ FrameOK(Top) /\ Top.at = "write"
  BY Running DEF WriteUnit
<1>2. /\ Point = "write" /\ Top.given < Len(Top.stream)
      /\ UNCHANGED <<memory, process, names, answer>>
  BY DEF WriteUnit
<1>3. PICK b \in {Top.flushed, Top.given + 1} :
        Flush(b) /\ stack' = Append(Rest, [Top EXCEPT !.given = @ + 1, !.flushed = b])
  BY DEF WriteUnit
<1>4. /\ Top.flushed \in Nat /\ Top.given \in Nat /\ Top.stream \in Seq(Units)
      /\ Top.flushed <= Top.given /\ Top.given <= Len(Top.stream)
      /\ Len(Top.stream) \in Nat
  BY <1>1 DEF SaveFrames, FrameOK
<1>5. b \in Nat /\ Top.flushed <= b /\ b <= Top.given + 1 /\ Top.given + 1 <= Len(Top.stream)
      /\ b <= Len(Top.stream)
  BY <1>2, <1>3, <1>4
<1>6. /\ inode' = [n \in Inodes |-> inode'[n]]
      /\ names.dump # NoFile => inode'[names.dump] = inode[names.dump]
      /\ names.tmp # NoFile => inode'[names.tmp] = SubSeq(Top.stream, 1, b)
  BY <1>2, <1>3, <1>5, Flushes
<1> DEFINE f == [Top EXCEPT !.given = @ + 1, !.flushed = b]
<1>7. /\ f \in SaveFrames /\ f.by = Top.by /\ f.file = Top.file
      /\ f.stream = Top.stream /\ f.given = Top.given + 1 /\ f.flushed = b
      /\ f.at = "write"
  BY <1>1, <1>5, Advanced
<1>8. stack' = Append(Rest, f)
  BY <1>3
<1> HIDE DEF f
<1>9. f.flushed <= f.given /\ f.given <= Len(f.stream)
  BY <1>5, <1>7
<1>10. Progress(f) = SubSeq(Top.stream, 1, b)
  BY <1>7 DEF Progress
<1>11. names' = names /\ names \in [dump : {names.dump, NoFile}, tmp : {names.tmp}]
  BY <1>2 DEF PInv, FilesOK
<1> QED
  BY <1>2, <1>6, <1>7, <1>8, <1>9, <1>10, <1>11, GoesOn

LEMMA CloseTmpOK ==
  ASSUME PInv, "flush" \notin Failing, CloseTmp
  PROVE  PInv'
<1>1. /\ Top \in SaveFrames /\ FrameOK(Top) /\ Top.at = "write"
  BY Running DEF CloseTmp
<1>2. /\ Point = "write" /\ Top.given = Len(Top.stream)
      /\ Flush(Top.given)
      /\ stack' = Append(Rest, [Top EXCEPT !.at = "remove"])
      /\ UNCHANGED <<memory, process, names, answer>>
  BY DEF CloseTmp
<1>3. /\ Top.flushed \in Nat /\ Top.given \in Nat /\ Top.stream \in Seq(Units)
      /\ Top.flushed <= Top.given /\ Top.given <= Len(Top.stream)
  BY <1>1 DEF SaveFrames, FrameOK
<1>4. /\ inode' = [n \in Inodes |-> inode'[n]]
      /\ names.dump # NoFile => inode'[names.dump] = inode[names.dump]
      /\ names.tmp # NoFile => inode'[names.tmp] = SubSeq(Top.stream, 1, Top.given)
  BY <1>2, <1>3, Flushes
<1>5. SubSeq(Top.stream, 1, Top.given) = Top.stream
  BY <1>2, <1>3
<1> DEFINE f == [Top EXCEPT !.at = "remove"]
<1>6. /\ f \in SaveFrames /\ f.by = Top.by /\ f.file = Top.file
      /\ f.stream = Top.stream /\ f.given = Top.given /\ f.flushed = Top.flushed
      /\ f.at = "remove"
  BY <1>1 DEF SaveFrames
<1>7. stack' = Append(Rest, f)
  BY <1>2
<1> HIDE DEF f
<1>8. f.flushed <= f.given /\ f.given <= Len(f.stream)
  BY <1>3, <1>6
<1>9. Progress(f) = Top.stream
  BY <1>6 DEF Progress
<1>10. names' = names /\ names \in [dump : {names.dump, NoFile}, tmp : {names.tmp}]
  BY <1>2 DEF PInv, FilesOK
<1> QED
  BY <1>2, <1>4, <1>5, <1>6, <1>7, <1>8, <1>9, <1>10, GoesOn

LEMMA RemoveDumpOK ==
  ASSUME PInv, RemoveDump
  PROVE  PInv'
<1>1. /\ Top \in SaveFrames /\ FrameOK(Top) /\ Top.at = "remove"
  BY Running DEF RemoveDump
<1>2. /\ Point = "remove"
      /\ names' = [names EXCEPT !.dump = NoFile]
      /\ stack' = Append(Rest, [Top EXCEPT !.at = "rename"])
      /\ inode' = Kept(names', stack')
      /\ UNCHANGED <<memory, process, answer>>
  BY DEF RemoveDump
<1>3. names' \in [dump : {NoFile}, tmp : {names.tmp}] /\ names'.tmp = names.tmp
      /\ names'.dump = NoFile
  BY <1>2 DEF PInv, FilesOK
<1>4. inode' = [n \in Inodes |-> inode'[n]]
  BY <1>2 DEF Kept
<1>5. names.tmp # NoFile => inode'[names.tmp] = inode[names.tmp]
  BY <1>2, <1>3 DEF Kept, InUse, PInv, FilesOK
<1> DEFINE f == [Top EXCEPT !.at = "rename"]
<1>6. /\ f \in SaveFrames /\ f.by = Top.by /\ f.file = Top.file
      /\ f.stream = Top.stream /\ f.given = Top.given /\ f.flushed = Top.flushed
      /\ f.at = "rename"
  BY <1>1 DEF SaveFrames
<1>7. stack' = Append(Rest, f)
  BY <1>2
<1> HIDE DEF f
<1>8. f.flushed <= f.given /\ f.given <= Len(f.stream)
  BY <1>1, <1>6 DEF FrameOK
<1>9. Progress(f) = Progress(Top)
  BY <1>1, <1>6 DEF Progress
<1>10. names' \in [dump : {names.dump, NoFile}, tmp : {names.tmp}]
  BY <1>3
<1> QED
  BY <1>2, <1>3, <1>4, <1>5, <1>6, <1>7, <1>8, <1>9, <1>10, GoesOn

LEMMA RenameFailsOK ==
  ASSUME PInv, RenameFails
  PROVE  PInv'
<1>1. /\ Point = "rename"
      /\ names' = [names EXCEPT !.tmp = NoFile]
      /\ stack' = Rest
      /\ inode' = Kept(names', stack')
      /\ ReturnTo(Top.by, -1)
      /\ UNCHANGED memory
  BY DEF RenameFails
<1>2. names'.dump = names.dump /\ names.dump \in Inodes \cup {NoFile}
  BY <1>1 DEF PInv, FilesOK
<1>3. inode' = [n \in Inodes |-> inode'[n]]
  BY <1>1 DEF Kept
<1>4. names.dump # NoFile => inode'[names.dump] = inode[names.dump]
  BY <1>1, <1>2, DumpKept
<1> QED
  BY <1>1, <1>3, <1>4, Returns

LEMMA WriteFailsKeepsDump ==
  ASSUME PInv, WriteFails
  PROVE  /\ inode' = [n \in Inodes |-> inode'[n]]
         /\ names.dump # NoFile => inode'[names.dump] = inode[names.dump]
<1>1. /\ Top \in SaveFrames /\ FrameOK(Top)
  BY Running DEF WriteFails
<1> DEFINE w(n) == Written(Kept(names', stack')[n], Top.stream, Top.flushed, Top.given)
<1>2. /\ Point = "write"
      /\ names' = [names EXCEPT !.tmp = NoFile]
      /\ stack' = Rest
      /\ inode' = [Kept(names', stack') EXCEPT
                     ![Top.file] =
                       IF Top.file \notin InUse(names', stack') THEN <<>>
                         ELSE w(Top.file)]
      /\ ReturnTo(Top.by, -1)
      /\ UNCHANGED memory
  BY DEF WriteFails
<1>3. names'.dump = names.dump /\ names.dump \in Inodes \cup {NoFile}
  BY <1>2 DEF PInv, FilesOK
<1>4. DOMAIN Kept(names', stack') = Inodes /\ Top.file \in Inodes
  BY <1>1 DEF Kept, SaveFrames
<1>5. inode' = [n \in Inodes |-> inode'[n]]
  BY <1>2, <1>4
<1>6. ASSUME names.dump # NoFile PROVE inode'[names.dump] = inode[names.dump]
  <2>1. names.dump \in Inodes /\ Kept(names', stack')[names.dump] = inode[names.dump]
    BY <1>3, <1>6, DumpKept
  <2>2. CASE names.dump # Top.file
    BY <1>2, <1>4, <2>1, <2>2
  <2>3. CASE names.dump = Top.file
    <3>1. Top.file \in InUse(names', stack')
      BY <1>3, <2>3 DEF InUse
    <3>2. inode[names.dump] = Top.stream
      BY <1>1, <2>3 DEF FrameOK
    <3>3. Written(Top.stream, Top.stream, Top.flushed, Top.given) = Top.stream
      BY <1>1, WrittenAgain DEF FrameOK, SaveFrames
    <3>4. w(Top.file) = inode[names.dump]
      BY <2>1, <2>3, <3>2, <3>3
    <3> HIDE DEF w
    <3> QED
      BY <1>2, <1>4, <2>3, <3>1, <3>4
  <2> QED
    BY <2>2, <2>3
<1> HIDE DEF w
<1> QED
  BY <1>5, <1>6

LEMMA WriteFailsOK ==
  ASSUME PInv, WriteFails
  PROVE  PInv'
BY WriteFailsKeepsDump, Returns DEF WriteFails

\* The rename puts the whole stream of the call in place.
LEMMA Renamed ==
  ASSUME PInv, RenameTmp
  PROVE  names'.dump \in Inodes /\ inode'[names'.dump] = Stream(mem, shown)
<1>1. /\ Top \in SaveFrames /\ FrameOK(Top) /\ Top.at = "rename" /\ stack # <<>>
  BY Running DEF RenameTmp
<1>2. /\ names.tmp # NoFile
      /\ names' = [dump |-> names.tmp, tmp |-> NoFile]
      /\ inode' = Kept(names', stack')
  BY DEF RenameTmp
<1>3. names.tmp \in Inodes /\ names'.dump = names.tmp
  BY <1>2 DEF PInv, FilesOK
<1>4. inode[names.tmp] = Stream(mem, shown)
  BY <1>1, <1>2 DEF PInv, TmpOK, FrameOK, Progress
<1> QED
  BY <1>2, <1>3, <1>4, DumpKept

LEMMA RenameTmpOK ==
  ASSUME PInv, RenameTmp
  PROVE  PInv'
<1>1. /\ Point = "rename"
      /\ names' = [dump |-> names.tmp, tmp |-> NoFile]
      /\ stack' = Rest
      /\ inode' = Kept(names', stack')
      /\ ReturnTo(Top.by, 0)
      /\ UNCHANGED memory
  BY DEF RenameTmp
<1>2. /\ MemOK' /\ StackOK' /\ ShownOK'
      /\ mem' = mem /\ shown' = shown
      /\ \A i \in DOMAIN stack' :
           i \in DOMAIN stack /\ stack'[i] = stack[i] /\ stack[i] \in Frames
  BY <1>1, ReturnsTo
<1>3. /\ names'.dump = names.tmp /\ names'.tmp = NoFile
      /\ names' \in [dump : Inodes \cup {NoFile}, tmp : Inodes \cup {NoFile}]
  BY <1>1 DEF PInv, FilesOK
<1>4. names'.dump \in Inodes /\ inode'[names'.dump] = Stream(mem, shown)
  BY Renamed
<1>5. inode' = [n \in Inodes |-> inode'[n]]
  BY <1>1 DEF Kept
<1>6. FramesOK'
  <2> SUFFICES ASSUME NEW i \in DOMAIN stack', stack'[i].at # "rehash"
               PROVE  FrameOK(stack[i])'
    BY DEF FramesOK
  <2>1. i \in DOMAIN stack /\ stack'[i] = stack[i]
    BY <1>2
  <2>2. FrameOK(stack[i])
    BY <2>1 DEF PInv, FramesOK
  <2> QED
    BY <1>2, <1>4, <2>1, <2>2 DEF FrameOK
<1>7. TmpOK'
  BY <1>3 DEF TmpOK
<1>8. FilesOK'
  <2>1. Snapshot(inode'[names'.dump])
    BY <1>4, StreamType DEF PInv
  <2>2. names'.dump # names'.tmp
    BY <1>3, <1>4, PersistAssumption
  <2> QED
    BY <1>3, <1>5, <2>1, <2>2 DEF FilesOK, Snapshot, Tables, Present
<1> QED
  BY <1>2, <1>6, <1>7, <1>8 DEF PInv

-----------------------------------------------------------------------------
(* The inductive invariant: the other actions                              *)

\* Without a call in progress, and with the files as they were.
LEMMA Quiet ==
  ASSUME PInv, MemOK', shown' = Present(mem'), stack' = <<>>,
         UNCHANGED <<names, inode>>
  PROVE  PInv'
<1>1. StackOK'
  BY DEF StackOK
<1>2. ShownOK'
  BY DEF ShownOK, Present
<1>3. FramesOK' /\ TmpOK'
  BY DEF FramesOK, TmpOK
<1>4. FilesOK'
  BY DEF PInv, FilesOK, Snapshot, Tables, Present
<1> QED
  BY <1>1, <1>2, <1>3, <1>4 DEF PInv

LEMMA StartOK ==
  ASSUME PInv, Start
  PROVE  PInv'
<1>1. Contents(names.dump) \in Tables
  BY ContentsType DEF PInv
<1>2. Living(Contents(names.dump)) \in Tables
  BY <1>1 DEF Living, Tables
<1>3. stack' = <<>> /\ MemOK'
  BY <1>2 DEF Start, PInv, MemOK, Present, Tables
<1> QED
  BY <1>3, Quiet DEF Start, Present

LEMMA TickOK ==
  ASSUME PInv, Tick
  PROVE  PInv'
<1>1. UNCHANGED <<mem, shown, up, running, stack, names, inode>>
  BY DEF Tick, process
<1>2. MemOK' /\ StackOK' /\ ShownOK' /\ FilesOK'
  BY <1>1 DEF PInv, MemOK, StackOK, ShownOK, FilesOK, Snapshot, Present, Tables
<1>3. FramesOK' /\ TmpOK'
  BY <1>1 DEF PInv, FramesOK, FrameOK, TmpOK, Top, Progress
<1> QED
  BY <1>2, <1>3 DEF PInv

LEMMA ChangeOK ==
  ASSUME PInv, NEW k \in Keys, NEW v \in Vals \cup {NoVal}, Change(k, v)
  PROVE  PInv'
<1>1. mem' \in Tables
  BY DEF Change, PInv, MemOK, Tables
<1>2. stack' = <<>> /\ MemOK'
  BY <1>1 DEF Change, Ready, process, PInv, MemOK, Present
<1> QED
  BY <1>2, Quiet DEF Change, Present

LEMMA DownOK ==
  ASSUME PInv, Down
  PROVE  PInv'
<1>1. /\ mem' = Empty /\ shown' = {} /\ stack' = <<>> /\ up' = FALSE /\ running' = FALSE
      /\ names' = names /\ inode' = Kept(names, <<>>)
  BY DEF Down
<1>2. mem' \in Tables /\ Present(mem') = {}
  BY <1>1 DEF Empty, Tables, Present
<1>3. MemOK' /\ StackOK' /\ ShownOK' /\ FramesOK' /\ TmpOK'
  <2>1. MemOK' /\ ShownOK'
    BY <1>1, <1>2 DEF MemOK, ShownOK, Present, Tables
  <2>2. StackOK'
    BY <1>1 DEF StackOK
  <2>3. FramesOK' /\ TmpOK'
    BY <1>1 DEF FramesOK, TmpOK
  <2> QED
    BY <2>1, <2>2, <2>3
<1>4. FilesOK'
  <2>1. inode' = [n \in Inodes |-> inode'[n]]
    BY <1>1 DEF Kept
  <2>2. names.dump # NoFile => inode'[names.dump] = inode[names.dump]
    BY <1>1, DumpKept DEF PInv, FilesOK
  <2> QED
    BY <1>1, <2>1, <2>2 DEF PInv, FilesOK, Snapshot, Tables, Present
<1> QED
  BY <1>3, <1>4 DEF PInv

\* The call of ht_resize that runs is the only call.
LEMMA Rehashing ==
  ASSUME PInv, Point = "rehash"
  PROVE  /\ stack # <<>> /\ Len(stack) = 1 /\ DOMAIN stack = {1} /\ Top = stack[1]
         /\ Top \in RehashFrames /\ Top.at = "rehash" /\ Rest = <<>>
<1>1. stack # <<>> /\ Top.at = "rehash"
  BY DEF Point
<1>2. stack \in Seq(Frames) /\ Len(stack) \in Nat /\ Len(stack) # 0
  BY <1>1, EmptySeq, LenProperties DEF PInv, StackOK
<1>3. Len(stack) <= 2
  BY DEF PInv, StackOK
<1>4. Len(stack) \in 1 .. 2
  BY <1>2, <1>3, OneOrTwo
<1>5. Len(stack) # 2
  <2>1. Len(stack) = 2 => stack[2].at # "rehash"
    BY DEF PInv, StackOK, SaveFrames
  <2> QED
    BY <1>1, <2>1 DEF Top
<1>6. Len(stack) = 1
  BY <1>4, <1>5
<1>7. DOMAIN stack = {1} /\ Top = stack[1] /\ stack[1] \in Frames
  BY <1>2, <1>6 DEF Top
<1>8. Top \in RehashFrames
  BY <1>1, <1>7 DEF Frames, SaveFrames
<1>9. Rest = <<>>
  BY <1>6, SubSeqEmpty DEF Rest
<1> QED
  BY <1>1, <1>6, <1>7, <1>8, <1>9

\* A call of ht_resize as the only call, with the files as they were.
LEMMA InRehash ==
  ASSUME PInv, MemOK', NEW f \in RehashFrames, stack' = <<f>>,
         UNCHANGED <<names, inode>>
  PROVE  PInv'
<1>1. f \in Frames /\ f.at = "rehash"
  BY DEF Frames, RehashFrames
<1>2. /\ stack' \in Seq(Frames) /\ Len(stack') = 1 /\ DOMAIN stack' = {1}
      /\ stack'[1] = f /\ stack' # <<>>
  BY <1>1
<1>3. StackOK'
  <2>1. Len(stack') <= 2 /\ Len(stack') # 2
    BY <1>2
  <2> QED
    BY <1>2, <2>1 DEF StackOK
<1>4. ShownOK' /\ FramesOK'
  BY <1>1, <1>2 DEF ShownOK, FramesOK
<1>5. TmpOK'
  BY <1>1, <1>2 DEF TmpOK, Top
<1>6. FilesOK'
  BY DEF PInv, FilesOK, Snapshot, Tables, Present
<1> QED
  BY <1>3, <1>4, <1>5, <1>6 DEF PInv

LEMMA ChangeWithResizeOK ==
  ASSUME PInv, NEW k \in Keys, NEW v \in Vals \cup {NoVal}, ChangeWithResize(k, v)
  PROVE  PInv'
<1> DEFINE f == [at |-> "rehash", key |-> k, val |-> v]
<1>1. f \in RehashFrames
  BY DEF RehashFrames
<1>2. mem' \in Tables
  BY DEF ChangeWithResize, PInv, MemOK, Tables
<1>3. MemOK'
  BY <1>2 DEF ChangeWithResize, Ready, process, PInv, MemOK, Present
<1>4. stack' = <<f>> /\ UNCHANGED <<names, inode>>
  BY DEF ChangeWithResize
<1> HIDE DEF f
<1> QED
  BY <1>1, <1>3, <1>4, InRehash

LEMMA RehashOK ==
  ASSUME PInv, Rehash
  PROVE  PInv'
<1>1. /\ Len(stack) = 1 /\ Top = stack[1] /\ Top \in RehashFrames /\ stack \in Seq(Frames)
  BY Rehashing DEF Rehash, PInv, StackOK
<1>2. stack' = <<Top>>
  BY <1>1 DEF Rehash
<1>3. MemOK'
  BY DEF Rehash, process, PInv, MemOK, Present
<1> QED
  BY <1>1, <1>2, <1>3, InRehash DEF Rehash

LEMMA RehashDoneOK ==
  ASSUME PInv, RehashDone
  PROVE  PInv'
<1>1. Top \in RehashFrames /\ Rest = <<>>
  BY Rehashing DEF RehashDone
<1>2. mem' = [mem EXCEPT ![Top.key] = Top.val] /\ Top.val \in Vals \cup {NoVal}
  BY <1>1 DEF RehashDone, RehashFrames
<1>3. mem' \in Tables
  BY <1>2 DEF PInv, MemOK, Tables
<1>4. stack' = <<>> /\ MemOK'
  BY <1>1, <1>3 DEF RehashDone, process, PInv, MemOK, Present
<1> QED
  BY <1>4, Quiet DEF RehashDone, Present

LEMMA SignalOK ==
  ASSUME PInv, Signal
  PROVE  PInv'
<1>1. stack \in Seq(Frames) /\ Len(stack) \in Nat /\ DOMAIN stack = 1 .. Len(stack)
  BY LenProperties DEF PInv, StackOK
<1>2. Len(stack) # 2
  <2> SUFFICES ASSUME Len(stack) = 2 PROVE FALSE
    OBVIOUS
  <2>1. 2 \in DOMAIN stack /\ stack[2] \in SaveFrames /\ stack[2].by = "signal"
    BY <1>1 DEF PInv, StackOK
  <2>2. stack[2].at # "rehash"
    BY <2>1 DEF SaveFrames
  <2> QED
    BY <2>1, <2>2 DEF Signal
<1>3. Len(stack) <= 2
  BY DEF PInv, StackOK
<1>4. Len(stack) = 0 \/ Len(stack) = 1
  BY <1>1, <1>2, <1>3, OneOrTwo
<1>5. stack = <<>> \/ Len(stack) = 1
  BY <1>1, <1>4, EmptySeq
<1> QED
  BY <1>5, BeginsSave DEF Signal

THEOREM SnapshotInvariance ==
  ASSUME "flush" \notin Failing
  PROVE  Spec => []PInv
<1>1. Init => PInv
  <2> SUFFICES ASSUME Init PROVE PInv
    OBVIOUS
  <2>1. mem \in Tables /\ Present(mem) = {}
    BY DEF Init, Empty, Tables, Present
  <2>2. MemOK /\ ShownOK
    BY <2>1 DEF Init, MemOK, ShownOK
  <2>3. StackOK /\ FramesOK /\ TmpOK
    <3>1. stack = <<>>
      BY DEF Init
    <3>2. StackOK
      BY <3>1 DEF StackOK
    <3> QED
      BY <3>1, <3>2 DEF FramesOK, TmpOK
  <2>4. FilesOK
    BY DEF Init, FilesOK
  <2> QED
    BY <2>2, <2>3, <2>4 DEF PInv
<1>2. PInv /\ [Next]_pvars => PInv'
  <2> SUFFICES ASSUME PInv, [Next]_pvars PROVE PInv'
    OBVIOUS
  <2>1. CASE UNCHANGED pvars
    <3>1. UNCHANGED <<mem, shown, up, running, stack, names, inode>>
      BY <2>1 DEF pvars
    <3>2. MemOK' /\ StackOK' /\ ShownOK' /\ FilesOK'
      BY <3>1 DEF PInv, MemOK, StackOK, ShownOK, FilesOK, Snapshot, Present, Tables
    <3>3. FramesOK' /\ TmpOK'
      BY <3>1 DEF PInv, FramesOK, FrameOK, TmpOK, Top, Progress
    <3> QED
      BY <3>2, <3>3 DEF PInv
  <2>2. CASE CmdSave \/ CmdShutdown
    BY <2>2, BeginsSave DEF CmdSave, CmdShutdown, Ready
  <2>3. CASE \E k \in Keys, v \in Vals \cup {NoVal} :
               Change(k, v) \/ ChangeWithResize(k, v)
    BY <2>3, ChangeOK, ChangeWithResizeOK
  <2>4. CASE Exit \/ Crash
    BY <2>4, DownOK DEF Exit, Crash
  <2> QED
    BY <2>1, <2>2, <2>3, <2>4, StartOK, TickOK, RehashOK, RehashDoneOK, SignalOK,
       WriteUnitOK, WriteFailsOK, CloseTmpOK, RemoveDumpOK, RenameTmpOK,
       RenameFailsOK DEF Next
<1> QED
  BY <1>1, <1>2, PTL DEF Spec

-----------------------------------------------------------------------------
(* Theorems                                                                *)

\* The state has its types at every moment, in particular what persist_load
\* puts into the table is made of values (persist.c:144-229), and the table
\* shows every entry whenever no call is in progress.
THEOREM TablesAreLoaded ==
  ASSUME "flush" \notin Failing
  PROVE  Spec => []PersistTypeOK
<1>1. PInv => PersistTypeOK
  <2> SUFFICES ASSUME PInv PROVE PersistTypeOK
    OBVIOUS
  <2>1. \A k \in Keys : mem[k] \in Vals \cup {NoVal}
    BY DEF PInv, MemOK, Tables
  <2>2. /\ shown \subseteq Present(mem) /\ (running => up)
        /\ (stack = <<>> => shown = Present(mem))
    BY DEF PInv, MemOK, ShownOK
  <2>3. names.dump \in Inodes \cup {NoFile} /\ names.tmp \in Inodes \cup {NoFile}
    BY DEF PInv, FilesOK
  <2>4. \A i \in DOMAIN stack : stack[i].at \in Points \ {"idle"}
    <3> TAKE i \in DOMAIN stack
    <3>1. stack[i] \in Frames
      BY DEF PInv, StackOK
    <3> QED
      BY <3>1 DEF Frames, RehashFrames, SaveFrames, Points
  <2> QED
    BY <2>1, <2>2, <2>3, <2>4 DEF PersistTypeOK
<1> QED
  BY <1>1, SnapshotInvariance, PTL

\* dump.rdb is whole at every moment: whatever fails but the flush of fclose,
\* wherever the process is killed, and wherever a signal interrupts it, also in
\* the middle of a call of persist_save that shares its tmp file with the one
\* of the handler (persist.c:63-142, main.c:26-33).
THEOREM DumpIsNeverTorn ==
  ASSUME "flush" \notin Failing
  PROVE  Spec => []DumpIsWhole
<1>1. PInv => DumpIsWhole
  <2> SUFFICES ASSUME PInv, names.dump # NoFile
               PROVE  LET c == inode[names.dump]
                      IN  c # <<>> /\ c[1] = Magic /\ c[Len(c)] = Eof
    BY DEF DumpIsWhole
  <2>1. PICK m \in Tables : \E K \in SUBSET Present(m) : inode[names.dump] = Stream(m, K)
    BY DEF PInv, FilesOK, Snapshot
  <2>2. PICK K \in SUBSET Present(m) : inode[names.dump] = Stream(m, K)
    BY <2>1
  <2> DEFINE c == Stream(m, K)
  <2>3. Saves(c, m, K, K) /\ c[1] = Magic
    BY StreamSaves
  <2> HIDE DEF c
  <2>4. c \in Seq(Units) /\ Len(c) > 0 /\ c[Len(c)] = Eof
    BY <2>3 DEF Saves
  <2>5. c # <<>>
    BY <2>4, EmptySeq
  <2> QED
    BY <2>2, <2>3, <2>4, <2>5 DEF c
<1> QED
  BY <1>1, SnapshotInvariance, PTL

\* Where no signal comes in the middle of ht_resize, nothing is hidden from a
\* call of persist_save.
NothingHidden == stack # <<>> /\ stack[1].at = "rehash" => Len(stack) = 1

LEMMA AllShown ==
  ASSUME PInv, NothingHidden, Point \in {"write", "remove", "rename"}
  PROVE  shown = Present(mem)
<1>1. /\ stack # <<>> /\ Len(stack) \in 1 .. 2
      /\ Top = stack[Len(stack)] /\ Top \in SaveFrames
  BY Running
<1>2. Len(stack) = 1 => stack[1].at # "rehash"
  BY <1>1 DEF SaveFrames
<1>3. stack[1].at # "rehash"
  BY <1>1, <1>2 DEF NothingHidden
<1> QED
  BY <1>1, <1>3 DEF PInv, ShownOK

\* After a successful rename dump.rdb is the database.
LEMMA RenamedAll ==
  ASSUME PInv, NothingHidden, RenameTmp
  PROVE  Contents(names.dump)' = mem'
<1>1. names'.dump \in Inodes /\ inode'[names'.dump] = Stream(mem, shown)
  BY Renamed
<1>2. shown = Present(mem) /\ mem \in Tables /\ mem' = mem
  BY AllShown DEF RenameTmp, memory, PInv, MemOK
<1>3. Entries(inode'[names'.dump]) = mem
  BY <1>1, <1>2, FullRoundTrip
<1>4. names'.dump # NoFile
  BY <1>1, PersistAssumption
<1>5. Contents(names.dump)' = Entries(inode'[names'.dump])
  BY <1>4 DEF Contents, Entries, Empty, ReadsAt, EntryAt, PartsAt, Reached
<1> QED
  BY <1>2, <1>3, <1>5

LEMMA NothingHiddenPush ==
  ASSUME PInv, NothingHidden, Point # "rehash", NEW by, BeginSave(by),
         stack = <<>> \/ Len(stack) = 1
  PROVE  NothingHidden'
<1>1. stack \in Seq(Frames)
  BY DEF PInv, StackOK
<1>2. CASE stack' = stack
  BY <1>2 DEF NothingHidden
<1>3. ASSUME NEW f, stack' = Append(stack, f), f.at = "write" PROVE NothingHidden'
  <2>1. CASE stack = <<>>
    <3>1. stack' = <<f>>
      BY <1>3, <2>1
    <3>2. stack'[1] = f
      BY <3>1
    <3> QED
      BY <1>3, <3>2 DEF NothingHidden
  <2>2. CASE stack # <<>> /\ Len(stack) = 1
    <3>1. stack'[1] = stack[1]
      BY <1>1, <1>3, <2>2
    <3>2. stack[1].at # "rehash"
      BY <2>2 DEF Point, Top
    <3> QED
      BY <3>1, <3>2 DEF NothingHidden
  <2> QED
    BY <2>1, <2>2
<1>4. \/ stack' = stack
      \/ \E n : stack' = Append(stack,
                  [at |-> "write", by |-> by, file |-> n,
                   stream |-> Stream(mem, shown), given |-> 0, flushed |-> 0])
  BY DEF BeginSave
<1> QED
  BY <1>2, <1>3, <1>4

LEMMA NothingHiddenStep ==
  ASSUME "rehash" \notin SignalPoints, PInv, NothingHidden, [Next]_pvars
  PROVE  NothingHidden'
<1>1. CASE stack' = stack
  BY <1>1 DEF NothingHidden
<1>2. CASE stack' = <<>>
  BY <1>2 DEF NothingHidden
<1>3. CASE CmdSave \/ CmdShutdown
  <2>1. stack = <<>>
    BY <1>3 DEF CmdSave, CmdShutdown, Ready
  <2>2. Point # "rehash"
    BY <2>1 DEF Point
  <2> QED
    BY <1>3, <2>1, <2>2, NothingHiddenPush DEF CmdSave, CmdShutdown
<1>4. CASE Signal
  <2>1. Point # "rehash" /\ BeginSave("signal")
    BY <1>4 DEF Signal
  <2>2. stack \in Seq(Frames) /\ Len(stack) \in Nat /\ DOMAIN stack = 1 .. Len(stack)
    BY LenProperties DEF PInv, StackOK
  <2>3. Len(stack) # 2
    <3> SUFFICES ASSUME Len(stack) = 2 PROVE FALSE
      OBVIOUS
    <3>1. 2 \in DOMAIN stack /\ stack[2] \in SaveFrames /\ stack[2].by = "signal"
      BY <2>2 DEF PInv, StackOK
    <3>2. stack[2].at # "rehash"
      BY <3>1 DEF SaveFrames
    <3> QED
      BY <1>4, <3>1, <3>2 DEF Signal
  <2>4. Len(stack) <= 2
    BY DEF PInv, StackOK
  <2>5. stack = <<>> \/ Len(stack) = 1
    BY <2>2, <2>3, <2>4, OneOrTwo, EmptySeq
  <2> QED
    BY <2>1, <2>5, NothingHiddenPush
<1>5. CASE \E k \in Keys, v \in Vals \cup {NoVal} : ChangeWithResize(k, v)
  <2>1. PICK k \in Keys, v \in Vals \cup {NoVal} : ChangeWithResize(k, v)
    BY <1>5
  <2>2. Len(stack') = 1
    BY <2>1 DEF ChangeWithResize
  <2> QED
    BY <2>2 DEF NothingHidden
<1>6. CASE WriteFails \/ RenameTmp \/ RenameFails
  <2>1. Point \in {"write", "remove", "rename"} /\ stack' = Rest
    BY <1>6 DEF WriteFails, RenameTmp, RenameFails
  <2>2. /\ stack # <<>> /\ stack \in Seq(Frames) /\ Len(stack) \in 1 .. 2
        /\ Rest = SubSeq(stack, 1, Len(stack) - 1)
    BY <2>1, Running
  <2>3. stack' \in Seq(Frames) /\ Len(stack') = Len(stack) - 1
    BY <2>1, <2>2, Popped
  <2>4. Len(stack') = 0 \/ Len(stack') = 1
    BY <2>2, <2>3
  <2>5. stack' # <<>> => Len(stack') = 1
    BY <2>3, <2>4, EmptySeq
  <2> QED
    BY <2>5 DEF NothingHidden
<1>7. CASE WriteUnit \/ CloseTmp \/ RemoveDump
  <2>1. Point \in {"write", "remove", "rename"}
    BY <1>7 DEF WriteUnit, CloseTmp, RemoveDump
  <2>2. /\ stack # <<>> /\ stack \in Seq(Frames) /\ Len(stack) \in 1 .. 2
        /\ Top = stack[Len(stack)] /\ Top \in SaveFrames
        /\ Rest = SubSeq(stack, 1, Len(stack) - 1)
    BY <2>1, Running
  <2>3. \E f \in SaveFrames : stack' = Append(Rest, f)
    <3>1. CASE WriteUnit
      <4>1. PICK b \in {Top.flushed, Top.given + 1} :
              stack' = Append(Rest, [Top EXCEPT !.given = @ + 1, !.flushed = b])
        BY <3>1 DEF WriteUnit
      <4>2. b \in Nat
        BY <2>2, <4>1 DEF SaveFrames
      <4>3. [Top EXCEPT !.given = @ + 1, !.flushed = b] \in SaveFrames
        BY <2>2, <4>2, Advanced
      <4> QED
        BY <4>1, <4>3
    <3>2. [Top EXCEPT !.at = "remove"] \in SaveFrames /\ [Top EXCEPT !.at = "rename"] \in SaveFrames
      BY <2>2 DEF SaveFrames
    <3> QED
      BY <1>7, <3>1, <3>2 DEF CloseTmp, RemoveDump
  <2>4. PICK f \in SaveFrames : stack' = Append(Rest, f)
    BY <2>3
  <2>5. f \in Frames /\ f.at # "rehash"
    BY DEF Frames, SaveFrames
  <2>6. /\ Len(stack') = Len(stack) /\ stack'[Len(stack)] = f
        /\ \A i \in 1 .. Len(stack) - 1 : stack'[i] = stack[i]
    BY <2>2, <2>4, <2>5, Replaced
  <2>7. CASE Len(stack) = 1
    BY <2>5, <2>6, <2>7 DEF NothingHidden
  <2>8. CASE Len(stack) = 2
    <3>1. stack'[1] = stack[1]
      BY <2>6, <2>8
    <3> QED
      BY <2>2, <2>6, <3>1 DEF NothingHidden
  <2> QED
    BY <2>2, <2>7, <2>8
<1>8. CASE Start \/ Tick \/ Rehash \/ UNCHANGED pvars
           \/ \E k \in Keys, v \in Vals \cup {NoVal} : Change(k, v)
  BY <1>1, <1>8 DEF Start, Tick, Rehash, pvars, Change
<1>9. CASE Exit \/ Crash
  BY <1>2, <1>9 DEF Exit, Crash, Down
<1>10. CASE RehashDone
  BY <1>2, <1>10, Rehashing DEF RehashDone
<1> QED
  BY <1>3, <1>4, <1>5, <1>6, <1>7, <1>8, <1>9, <1>10 DEF Next

\* A persist_save that returns 0 has put the database on disk: SAVE's OK, and
\* the saves of SHUTDOWN and of the signal handler, also when the handler
\* interrupted a save that then reports its failure; unless the handler came
\* while ht_resize was moving entries.
THEOREM SavesAreOnDisk ==
  ASSUME "flush" \notin Failing, "rehash" \notin SignalPoints
  PROVE  Spec => SavedMeansOnDisk
<1>1. Init => NothingHidden
  BY DEF Init, NothingHidden
<1>2. PInv /\ NothingHidden /\ [Next]_pvars => NothingHidden'
  BY NothingHiddenStep
<1>3. PInv /\ NothingHidden /\ [Next]_pvars =>
        [answer' # answer /\ answer' = << 0 >> =>
           Contents(names.dump)' = mem']_pvars
  <2> SUFFICES ASSUME PInv, NothingHidden, Next, answer' # answer, answer' = << 0 >>
               PROVE  RenameTmp
    BY RenamedAll
  <2>1. answer' # <<>>
    OBVIOUS
  <2>2. \A by : ~ ReturnTo(by, -1)
    BY DEF ReturnTo
  <2>3. \A by : ~ BeginSave(by)
    BY <2>2 DEF BeginSave
  <2> QED
    BY <2>1, <2>2, <2>3
       DEF Next, Start, Tick, Rehash, RehashDone, Change, ChangeWithResize, CmdSave,
           CmdShutdown, Signal, WriteUnit, WriteFails, CloseTmp, RemoveDump,
           RenameFails, Exit, Crash, Down
<1> QED
  BY <1>1, <1>2, <1>3, SnapshotInvariance, PTL DEF Spec, SavedMeansOnDisk
-----------------------------------------------------------------------------
(***************************************************************************)
(* Where signals are handled between commands only, the process with its   *)
(* files implements Durable, but for the gap between remove and rename.    *)
(***************************************************************************)

\* One call at a time.  While it saves its tmp file exists, and after remove()
\* there is no dump.rdb.
Alone ==
  /\ stack = <<>> \/ Len(stack) = 1
  /\ Point \in {"write", "remove", "rename"} => names.tmp # NoFile
  /\ Point = "rename" => names.dump = NoFile

-----------------------------------------------------------------------------
LEMMA AloneHidesNothing ==
  ASSUME Alone
  PROVE  NothingHidden
BY DEF Alone, NothingHidden

\* The only call, and what the stack is when it goes on as f.
LEMMA OnlyCall ==
  ASSUME PInv, Alone, Point \in {"write", "remove", "rename"}
  PROVE  /\ stack # <<>> /\ Top \in SaveFrames /\ FrameOK(Top) /\ Point = Top.at
         /\ Rest = <<>> /\ \A f : Append(Rest, f) = <<f>>
<1>1. /\ stack # <<>> /\ Top \in SaveFrames /\ FrameOK(Top) /\ Point = Top.at
      /\ Rest = SubSeq(stack, 1, Len(stack) - 1)
  BY Running
<1>2. Len(stack) = 1
  BY <1>1 DEF Alone
<1>3. Rest = <<>>
  BY <1>1, <1>2, SubSeqEmpty
<1>4. \A f : Append(<<>>, f) = <<f>>
  OBVIOUS
<1> QED
  BY <1>1, <1>3, <1>4

LEMMA IdleStack ==
  ASSUME PInv, Point = "idle"
  PROVE  stack = <<>>
<1> SUFFICES ASSUME stack # <<>> PROVE FALSE
  OBVIOUS
<1>1. stack \in Seq(Frames) /\ Len(stack) \in DOMAIN stack
  BY EmptySeq, LenProperties DEF PInv, StackOK
<1>2. Top \in Frames
  BY <1>1 DEF Top
<1> QED
  BY <1>2 DEF Point, Frames, RehashFrames, SaveFrames

\* fopen, which makes a tmp file that is not dump.rdb, or fails.
LEMMA Opened ==
  ASSUME PInv, stack = <<>>, NEW by, BeginSave(by)
  PROVE  \/ /\ UNCHANGED <<memory, stack, names, inode>> /\ ReturnTo(by, -1)
         \/ \E n \in Inodes :
              /\ n # names.dump
              /\ names' = [names EXCEPT !.tmp = n]
              /\ inode' = [inode EXCEPT ![n] = <<>>]
              /\ \E f : stack' = <<f>> /\ f.at = "write"
              /\ UNCHANGED <<memory, process>>
<1> DEFINE frame(n) == [at |-> "write", by |-> by, file |-> n,
                        stream |-> Stream(mem, shown), given |-> 0, flushed |-> 0]
<1>1. \A n : frame(n).at = "write" /\ Append(stack, frame(n)) = <<frame(n)>>
  OBVIOUS
<1>2. CASE names.tmp # NoFile
  <2>1. names.tmp \in Inodes /\ names.tmp # names.dump
    BY <1>2 DEF PInv, FilesOK
  <2> QED
    BY <1>1, <1>2, <2>1 DEF BeginSave
<1>3. CASE names.tmp = NoFile
  <2> DEFINE n == CHOOSE f \in Free : \A g \in Free : f <= g
  <2>1. Len(stack) <= 1
    OBVIOUS
  <2>2. n \in Inodes /\ n # names.dump
    BY <1>3, <2>1, FreeInode
  <2>3. \/ UNCHANGED <<memory, stack, names, inode>> /\ ReturnTo(by, -1)
        \/ /\ names' = [names EXCEPT !.tmp = n]
           /\ inode' = [inode EXCEPT ![n] = <<>>]
           /\ stack' = Append(stack, frame(n))
           /\ UNCHANGED <<memory, process>>
    BY <1>3, Zenon DEF BeginSave
  <2> HIDE DEF n
  <2> QED
    BY <1>1, <2>2, <2>3
<1> QED
  BY <1>2, <1>3

LEMMA AloneStep ==
  ASSUME SignalPoints \subseteq {"idle"}, PInv, Alone, [Next]_pvars
  PROVE  Alone'
<1>1. CASE stack' = stack /\ names' = names
  BY <1>1 DEF Alone, Point, Top
<1>2. CASE stack' = <<>>
  BY <1>2 DEF Alone, Point
<1>3. ASSUME NEW f, stack' = <<f>>,
             f.at \in {"write", "remove", "rename"} => names'.tmp # NoFile,
             f.at = "rename" => names'.dump = NoFile
      PROVE  Alone'
  <2>1. Len(stack') = 1 /\ stack' # <<>> /\ stack'[1] = f
    BY <1>3
  <2>2. Point' = f.at
    BY <2>1 DEF Point, Top
  <2> QED
    BY <1>3, <2>1, <2>2 DEF Alone
<1>4. CASE CmdSave \/ CmdShutdown \/ Signal
  <2>1. stack = <<>>
    BY <1>4, IdleStack DEF CmdSave, CmdShutdown, Ready, Signal
  <2>2. PICK by : BeginSave(by)
    BY <1>4 DEF CmdSave, CmdShutdown, Signal
  <2>3. ASSUME NEW n \in Inodes, names' = [names EXCEPT !.tmp = n],
               NEW f, stack' = <<f>>, f.at = "write"
        PROVE  Alone'
    <3>1. names'.tmp # NoFile
      BY <2>3, PersistAssumption DEF PInv, FilesOK
    <3> QED
      BY <1>3, <2>3, <3>1
  <2> QED
    BY <1>1, <2>1, <2>2, <2>3, Opened
<1>5. CASE \E k \in Keys, v \in Vals \cup {NoVal} : ChangeWithResize(k, v)
  <2>1. PICK k \in Keys, v \in Vals \cup {NoVal} : ChangeWithResize(k, v)
    BY <1>5
  <2> DEFINE f == [at |-> "rehash", key |-> k, val |-> v]
  <2>2. stack' = <<f>> /\ f.at = "rehash"
    BY <2>1 DEF ChangeWithResize
  <2> HIDE DEF f
  <2> QED
    BY <1>3, <2>2
<1>6. CASE WriteUnit \/ CloseTmp
  <2>1. Point = "write" /\ names' = names
    BY <1>6 DEF WriteUnit, CloseTmp
  <2>2. Top \in SaveFrames /\ (\A f : Append(Rest, f) = <<f>>) /\ Top.at = "write"
    BY <2>1, OnlyCall
  <2>3. names'.tmp # NoFile
    BY <2>1 DEF Alone
  <2>4. CASE WriteUnit
    <3>1. PICK b \in {Top.flushed, Top.given + 1} :
            stack' = Append(Rest, [Top EXCEPT !.given = @ + 1, !.flushed = b])
      BY <2>4 DEF WriteUnit
    <3>2. b \in Nat
      BY <2>2, <3>1 DEF SaveFrames
    <3> DEFINE f == [Top EXCEPT !.given = @ + 1, !.flushed = b]
    <3>3. f.at = "write" /\ stack' = <<f>>
      BY <2>2, <3>1, <3>2, Advanced
    <3> HIDE DEF f
    <3> QED
      BY <1>3, <2>3, <3>3
  <2>5. CASE CloseTmp
    <3> DEFINE f == [Top EXCEPT !.at = "remove"]
    <3>1. f.at = "remove" /\ stack' = <<f>>
      BY <2>2, <2>5 DEF CloseTmp, SaveFrames
    <3> HIDE DEF f
    <3> QED
      BY <1>3, <2>3, <3>1
  <2> QED
    BY <1>6, <2>4, <2>5
<1>7. CASE RemoveDump
  <2>1. Point = "remove" /\ names' = [names EXCEPT !.dump = NoFile]
        /\ stack' = Append(Rest, [Top EXCEPT !.at = "rename"])
    BY <1>7 DEF RemoveDump
  <2>2. Top \in SaveFrames /\ (\A f : Append(Rest, f) = <<f>>)
    BY <2>1, OnlyCall
  <2>3. names'.tmp # NoFile /\ names'.dump = NoFile
    BY <2>1 DEF Alone, PInv, FilesOK
  <2> DEFINE f == [Top EXCEPT !.at = "rename"]
  <2>4. f.at = "rename" /\ stack' = <<f>>
    BY <2>1, <2>2 DEF SaveFrames
  <2> HIDE DEF f
  <2> QED
    BY <1>3, <2>3, <2>4
<1>8. CASE WriteFails \/ RenameTmp \/ RenameFails
  <2>1. Point \in {"write", "remove", "rename"} /\ stack' = Rest
    BY <1>8 DEF WriteFails, RenameTmp, RenameFails
  <2> QED
    BY <1>2, <2>1, OnlyCall
<1>9. CASE Start \/ Tick \/ Rehash \/ UNCHANGED pvars
           \/ \E k \in Keys, v \in Vals \cup {NoVal} : Change(k, v)
  BY <1>1, <1>9 DEF Start, Tick, Rehash, pvars, Change
<1>10. CASE Exit \/ Crash
  BY <1>2, <1>10 DEF Exit, Crash, Down
<1>11. CASE RehashDone
  BY <1>2, <1>11, Rehashing DEF RehashDone
<1> QED
  BY <1>4, <1>5, <1>6, <1>7, <1>8, <1>9, <1>10, <1>11 DEF Next

LEMMA AloneInvariance ==
  ASSUME "flush" \notin Failing, SignalPoints \subseteq {"idle"}
  PROVE  Spec => [](PInv /\ Alone)
<1>1. Init => Alone
  BY DEF Init, Alone, Point
<1>2. PInv /\ Alone /\ [Next]_pvars => Alone'
  BY AloneStep
<1> QED
  BY <1>1, <1>2, SnapshotInvariance, PTL DEF Spec

-----------------------------------------------------------------------------
(* The refinement of Durable                                               *)

\* Away from the rename, what a restart would find is dump.rdb.
LEMMA DumpRecoverable ==
  ASSUME Point # "rename"
  PROVE  Recoverable = Contents(names.dump)
BY DEF Recoverable

\* Between remove and rename it is the tmp file, which holds the database.
LEMMA TmpRecoverable ==
  ASSUME PInv, Alone, Point = "rename"
  PROVE  Recoverable = mem
<1>1. stack # <<>> /\ Top \in SaveFrames /\ FrameOK(Top) /\ Top.at = "rename"
  BY OnlyCall
<1>2. names.dump = NoFile /\ names.tmp # NoFile
  BY DEF Alone
<1>3. inode[names.tmp] = Stream(mem, shown)
  BY <1>1, <1>2 DEF PInv, TmpOK, Progress, FrameOK
<1>4. shown = Present(mem) /\ mem \in Tables
  BY AloneHidesNothing, AllShown DEF PInv, MemOK
<1>5. Entries(inode[names.tmp]) = mem
  BY <1>3, <1>4, FullRoundTrip
<1> QED
  BY <1>2, <1>5 DEF Recoverable, Contents

\* After a step to where there is no dump.rdb, nothing.
LEMMA NothingRecoverable ==
  ASSUME names'.dump = NoFile, Point' = "idle"
  PROVE  Recoverable' = Empty
<1>1. Recoverable' = Contents(names.dump)'
  BY DEF Recoverable
<1>2. Contents(names.dump)' = Empty
  BY DEF Contents, Empty
<1> QED
  BY <1>1, <1>2

\* A step that leaves dump.rdb alone.
LEMMA DumpUntouched ==
  ASSUME Point # "rename", Point' # "rename", names'.dump = names.dump,
         names.dump # NoFile => inode'[names.dump] = inode[names.dump]
  PROVE  Recoverable' = Recoverable
<1>1. Recoverable = Contents(names.dump) /\ Recoverable' = Contents(names.dump)'
  BY DEF Recoverable
<1>2. CASE names.dump = NoFile
  <2>1. Contents(names.dump) = Empty /\ Contents(names.dump)' = Empty
    BY <1>2 DEF Contents, Empty
  <2> QED
    BY <1>1, <2>1
<1>3. CASE names.dump # NoFile
  <2>1. Contents(names.dump) = Entries(inode[names.dump])
    BY <1>3 DEF Contents
  <2>2. Contents(names.dump)' = Entries(inode'[names'.dump])
    BY <1>3 DEF Contents, Entries, Empty, ReadsAt, EntryAt, PartsAt, Reached
  <2>3. inode'[names'.dump] = inode[names.dump]
    BY <1>3
  <2> QED
    BY <1>1, <2>1, <2>2, <2>3
<1> QED
  BY <1>2, <1>3

\* Every step of Persist is a step of Durable, leaves its variables alone, or
\* ends a save between remove and rename.  The step that replaces the snapshot
\* is remove().
LEMMA DurableStep ==
  ASSUME SignalPoints \subseteq {"idle"}, PInv, Alone, [Next]_pvars
  PROVE  [AsDurable!Next \/ LosesSnapshot]_<<mem, Recoverable, passed, up>>
<1>1. CASE Start
  <2>1. stack = <<>> /\ stack' = <<>> /\ UNCHANGED <<names, inode, passed>> /\ ~up /\ up'
    BY <1>1 DEF Start, PInv, MemOK
  <2>2. Point = "idle" /\ Point' = "idle"
    BY <2>1 DEF Point
  <2>3. Recoverable' = Recoverable /\ Recoverable = Contents(names.dump)
    BY <2>1, <2>2, DumpUntouched, DumpRecoverable
  <2>4. mem' = [k \in Keys |-> IF AsDurable!Late(Recoverable[k]) THEN NoVal
                                 ELSE Recoverable[k]]
    BY <1>1, <2>3 DEF Start, Living, Late, AsDurable!Late
  <2>5. AsDurable!Start
    BY <2>1, <2>3, <2>4 DEF AsDurable!Start
  <2> QED
    BY <2>5 DEF AsDurable!Next
<1>2. CASE Tick \/ UNCHANGED pvars
  <2>1. /\ UNCHANGED <<mem, up, stack, names, inode>>
        /\ (~passed /\ passed' = TRUE) \/ passed' = passed
    BY <1>2 DEF Tick, process, pvars
  <2>2. Recoverable' = Recoverable
    BY <2>1 DEF Recoverable, Point, Top, Contents, Entries, Empty, ReadsAt, EntryAt,
                PartsAt, Reached
  <2> QED
    BY <2>1, <2>2 DEF AsDurable!Next, AsDurable!Tick
<1>3. ASSUME NEW k \in Keys, NEW v \in Vals \cup {NoVal}, up,
             mem' = [mem EXCEPT ![k] = v], UNCHANGED <<passed, up>>,
             Recoverable' = Recoverable
      PROVE  AsDurable!Next \/ UNCHANGED <<mem, Recoverable, passed, up>>
  <2>1. CASE mem[k] = v
    <3>1. mem \in Tables
      BY DEF PInv, MemOK
    <3>2. mem' = mem
      BY <1>3, <2>1, <3>1 DEF Tables
    <3> QED
      BY <1>3, <3>2
  <2>2. CASE mem[k] # v
    <3>1. AsDurable!Change(k, v)
      BY <1>3, <2>2 DEF AsDurable!Change
    <3> QED
      BY <3>1 DEF AsDurable!Next
  <2> QED
    BY <2>1, <2>2
<1>4. ASSUME NEW k \in Keys, NEW v \in Vals \cup {NoVal}, Change(k, v)
      PROVE  AsDurable!Next \/ UNCHANGED <<mem, Recoverable, passed, up>>
  <2>1. /\ stack = <<>> /\ stack' = <<>> /\ UNCHANGED <<names, inode, passed, up>> /\ up
        /\ mem' = [mem EXCEPT ![k] = v]
    BY <1>4 DEF Change, Ready, process
  <2>2. Point = "idle" /\ Point' = "idle"
    BY <2>1 DEF Point
  <2>3. Recoverable' = Recoverable
    BY <2>1, <2>2, DumpUntouched
  <2> QED
    BY <1>3, <2>1, <2>3
<1>5. ASSUME NEW k \in Keys, NEW v \in Vals \cup {NoVal}, ChangeWithResize(k, v)
      PROVE  AsDurable!Next \/ UNCHANGED <<mem, Recoverable, passed, up>>
  <2> DEFINE f == [at |-> "rehash", key |-> k, val |-> v]
  <2>1. /\ stack = <<>> /\ stack' = <<f>> /\ UNCHANGED <<names, inode, passed, up>> /\ up
        /\ mem' = IF v = NoVal THEN [mem EXCEPT ![k] = v] ELSE mem
    BY <1>5 DEF ChangeWithResize, Ready, process
  <2>2. f.at = "rehash"
    OBVIOUS
  <2> HIDE DEF f
  <2>3. Point = "idle" /\ Point' = "rehash"
    BY <2>1, <2>2 DEF Point, Top
  <2>4. Recoverable' = Recoverable
    BY <2>1, <2>3, DumpUntouched
  <2> QED
    BY <1>3, <2>1, <2>4
<1>6. CASE Rehash
  <2>1. UNCHANGED <<mem, up, passed, stack, names, inode>>
    BY <1>6 DEF Rehash, process
  <2>2. Recoverable' = Recoverable
    BY <2>1 DEF Recoverable, Point, Top, Contents, Entries, Empty, ReadsAt, EntryAt,
                PartsAt, Reached
  <2> QED
    BY <2>1, <2>2
<1>7. CASE RehashDone
  <2>1. /\ up /\ Point = "rehash" /\ mem' = [mem EXCEPT ![Top.key] = Top.val]
        /\ UNCHANGED <<passed, up, names, inode>> /\ stack' = Rest
    BY <1>7 DEF RehashDone, process
  <2>2. Top \in RehashFrames /\ Rest = <<>>
    BY <2>1, Rehashing
  <2>3. Point' = "idle"
    BY <2>1, <2>2 DEF Point
  <2>4. Recoverable' = Recoverable
    BY <2>1, <2>3, DumpUntouched
  <2>5. Top.key \in Keys /\ Top.val \in Vals \cup {NoVal}
    BY <2>2 DEF RehashFrames
  <2> QED
    BY <1>3, <2>1, <2>4, <2>5
<1>8. CASE CmdSave \/ CmdShutdown \/ Signal
  <2>1. stack = <<>>
    BY <1>8, IdleStack DEF CmdSave, CmdShutdown, Ready, Signal
  <2>2. PICK by : BeginSave(by)
    BY <1>8 DEF CmdSave, CmdShutdown, Signal
  <2>3. Point = "idle"
    BY <2>1 DEF Point
  <2>4. CASE UNCHANGED <<memory, stack, names, inode>> /\ ReturnTo(by, -1)
    <3>1. UNCHANGED <<mem, passed, up, stack, names, inode>> /\ Point' = "idle"
      BY <2>1, <2>4 DEF memory, ReturnTo, Point
    <3>2. Recoverable' = Recoverable
      BY <2>3, <3>1, DumpUntouched
    <3> QED
      BY <3>1, <3>2
  <2>5. ASSUME NEW n \in Inodes, n # names.dump, names' = [names EXCEPT !.tmp = n],
               inode' = [inode EXCEPT ![n] = <<>>],
               NEW f, stack' = <<f>>, f.at = "write",
               UNCHANGED <<memory, process>>
        PROVE  UNCHANGED <<mem, Recoverable, passed, up>>
    <3>1. Point' = "write"
      BY <2>5 DEF Point, Top
    <3>2. names'.dump = names.dump
      BY <2>5 DEF PInv, FilesOK
    <3>3. names.dump # NoFile => inode'[names.dump] = inode[names.dump]
      BY <2>5 DEF PInv, FilesOK
    <3>4. Recoverable' = Recoverable
      BY <2>3, <3>1, <3>2, <3>3, DumpUntouched
    <3> QED
      BY <2>5, <3>4 DEF memory, process
  <2> QED
    BY <2>1, <2>2, <2>4, <2>5, Opened
<1>9. CASE WriteUnit \/ CloseTmp
  <2>1. Point = "write" /\ names' = names /\ UNCHANGED <<mem, passed, up>>
    BY <1>9 DEF WriteUnit, CloseTmp, memory, process
  <2>2. Top \in SaveFrames /\ (\A f : Append(Rest, f) = <<f>>) /\ Top.at = "write"
        /\ FrameOK(Top)
    BY <2>1, OnlyCall
  <2>3. /\ Top.flushed \in Nat /\ Top.given \in Nat /\ Top.flushed <= Top.given
        /\ Top.given <= Len(Top.stream) /\ Len(Top.stream) \in Nat
    BY <2>2 DEF SaveFrames, FrameOK
  <2>4. \E b \in Nat : Top.flushed <= b /\ b <= Len(Top.stream) /\ Flush(b)
    <3>1. CASE WriteUnit
      <4>1. PICK b \in {Top.flushed, Top.given + 1} : Flush(b)
        BY <3>1 DEF WriteUnit
      <4>2. Top.given < Len(Top.stream)
        BY <3>1 DEF WriteUnit
      <4>3. b \in Nat /\ Top.flushed <= b /\ b <= Len(Top.stream)
        BY <2>3, <4>1, <4>2
      <4> QED
        BY <4>1, <4>3
    <3>2. CASE CloseTmp
      BY <2>3, <3>2 DEF CloseTmp
    <3> QED
      BY <1>9, <3>1, <3>2
  <2>5. names.dump # NoFile => inode'[names.dump] = inode[names.dump]
    BY <2>1, <2>4, Flushes
  <2>6. \E f : stack' = <<f>> /\ f.at \in {"write", "remove"}
    <3>1. CASE WriteUnit
      <4>1. PICK b \in {Top.flushed, Top.given + 1} :
              stack' = Append(Rest, [Top EXCEPT !.given = @ + 1, !.flushed = b])
        BY <3>1 DEF WriteUnit
      <4>2. b \in Nat
        BY <2>3, <4>1
      <4>3. [Top EXCEPT !.given = @ + 1, !.flushed = b].at = "write"
        BY <2>2, <4>2, Advanced
      <4> QED
        BY <2>2, <4>1, <4>3
    <3>2. CASE CloseTmp
      <4>1. [Top EXCEPT !.at = "remove"].at = "remove"
        BY <2>2 DEF SaveFrames
      <4> QED
        BY <2>2, <3>2, <4>1 DEF CloseTmp
    <3> QED
      BY <1>9, <3>1, <3>2
  <2>7. Point' # "rename"
    BY <2>6 DEF Point, Top
  <2>8. Recoverable' = Recoverable
    BY <2>1, <2>5, <2>7, DumpUntouched
  <2> QED
    BY <2>1, <2>8
<1>10. CASE RemoveDump
  <2>1. /\ Point = "remove" /\ names' = [names EXCEPT !.dump = NoFile]
        /\ stack' = Append(Rest, [Top EXCEPT !.at = "rename"])
        /\ inode' = Kept(names', stack') /\ UNCHANGED <<mem, passed, up>> /\ up
    BY <1>10 DEF RemoveDump, memory, process
  <2>2. /\ Top \in SaveFrames /\ (\A f : Append(Rest, f) = <<f>>) /\ Top.at = "remove"
        /\ FrameOK(Top) /\ stack # <<>>
    BY <2>1, OnlyCall
  <2>3. names.tmp # NoFile
    BY <2>1 DEF Alone
  <2>4. names'.tmp = names.tmp /\ names'.dump = NoFile
    BY <2>1 DEF PInv, FilesOK
  <2>5. inode'[names'.tmp] = inode[names.tmp]
    BY <2>1, <2>3, <2>4 DEF Kept, InUse, PInv, FilesOK
  <2>6. inode[names.tmp] = Stream(mem, shown)
    BY <2>2, <2>3 DEF PInv, TmpOK, Progress, FrameOK
  <2>7. shown = Present(mem) /\ mem \in Tables
    BY <2>1, AloneHidesNothing, AllShown DEF PInv, MemOK
  <2>8. Entries(inode'[names'.tmp]) = mem
    BY <2>5, <2>6, <2>7, FullRoundTrip
  <2>9. Point' = "rename"
    <3> DEFINE f == [Top EXCEPT !.at = "rename"]
    <3>1. f.at = "rename" /\ stack' = <<f>>
      BY <2>1, <2>2 DEF SaveFrames
    <3> HIDE DEF f
    <3> QED
      BY <3>1 DEF Point, Top
  <2>10. Recoverable' = Entries(inode'[names'.tmp])
    <3>1. Recoverable' = Contents(names.tmp)'
      BY <2>4, <2>9 DEF Recoverable
    <3>2. names'.tmp # NoFile
      BY <2>3, <2>4
    <3>3. Contents(names.tmp)' = Entries(inode'[names'.tmp])
      BY <3>2 DEF Contents, Entries, Empty, ReadsAt, EntryAt, PartsAt, Reached
    <3> QED
      BY <3>1, <3>3
  <2>11. AsDurable!Save
    BY <2>1, <2>8, <2>10 DEF AsDurable!Save
  <2> QED
    BY <2>11 DEF AsDurable!Next
<1>11. CASE RenameTmp
  <2>1. Point = "rename" /\ stack' = Rest /\ UNCHANGED <<mem, passed, up>>
    BY <1>11 DEF RenameTmp, memory, ReturnTo
  <2>2. Recoverable = mem
    BY <2>1, TmpRecoverable
  <2>3. Contents(names.dump)' = mem'
    BY <1>11, AloneHidesNothing, RenamedAll
  <2>4. Point' = "idle"
    BY <2>1, OnlyCall DEF Point
  <2>5. Recoverable' = Contents(names.dump)'
    BY <2>4 DEF Recoverable
  <2> QED
    BY <2>1, <2>2, <2>3, <2>5
<1>12. CASE RenameFails
  <2>1. /\ Point = "rename" /\ stack' = Rest /\ UNCHANGED <<mem, passed, up>>
        /\ names' = [names EXCEPT !.tmp = NoFile]
    BY <1>12 DEF RenameFails, memory, ReturnTo
  <2>2. Point' = "idle"
    BY <2>1, OnlyCall DEF Point
  <2>3. names'.dump = NoFile
    BY <2>1 DEF PInv, FilesOK, Alone
  <2>4. Recoverable' = Empty
    BY <2>2, <2>3, NothingRecoverable
  <2> QED
    BY <2>1, <2>4 DEF LosesSnapshot
<1>13. CASE WriteFails
  <2>1. /\ Point = "write" /\ stack' = Rest /\ UNCHANGED <<mem, passed, up>>
        /\ names' = [names EXCEPT !.tmp = NoFile]
    BY <1>13 DEF WriteFails, memory, ReturnTo
  <2>2. Point' = "idle"
    BY <2>1, OnlyCall DEF Point
  <2>3. names'.dump = names.dump
    BY <2>1 DEF PInv, FilesOK
  <2>4. names.dump # NoFile => inode'[names.dump] = inode[names.dump]
    BY <1>13, WriteFailsKeepsDump
  <2>5. Recoverable' = Recoverable
    BY <2>1, <2>2, <2>3, <2>4, DumpUntouched
  <2> QED
    BY <2>1, <2>5
<1>14. CASE Down /\ up /\ Point = "rename"
  <2>1. /\ Point' = "idle" /\ names' = names /\ names.dump = NoFile
        /\ up' = FALSE /\ mem' = Empty /\ passed' = passed
    BY <1>14 DEF Down, Point, Alone
  <2>2. Recoverable' = Empty
    BY <2>1, NothingRecoverable
  <2>3. LosesSnapshot
    BY <1>14, <2>1, <2>2 DEF LosesSnapshot
  <2> QED
    BY <2>3
<1>15. CASE (Exit \/ Crash) /\ Point # "rename"
  <2>1. up /\ Point # "rename" /\ Down
    BY <1>15 DEF Exit, Crash
  <2>2. /\ stack' = <<>> /\ names' = names /\ inode' = Kept(names, <<>>) /\ up' = FALSE
        /\ mem' = Empty /\ passed' = passed
    BY <2>1 DEF Down
  <2>3. Point' = "idle"
    BY <2>2 DEF Point
  <2>4. names.dump # NoFile => inode'[names.dump] = inode[names.dump]
    BY <2>2, DumpKept DEF PInv, FilesOK
  <2>5. Recoverable' = Recoverable
    BY <2>1, <2>2, <2>3, <2>4, DumpUntouched
  <2>6. AsDurable!Stop
    BY <2>1, <2>2, <2>5 DEF AsDurable!Stop, AsDurable!Empty, Empty
  <2> QED
    BY <2>6 DEF AsDurable!Next
<1> QED
  BY <1>1, <1>2, <1>4, <1>5, <1>6, <1>7, <1>8, <1>9, <1>10, <1>11, <1>12, <1>13,
     <1>14, <1>15 DEF Next, Exit, Crash

\* The process with its files does what Durable does, whatever calls fail but
\* fclose and wherever it is killed: a save replaces the snapshot as a whole or
\* leaves it as it was, and a restart finds the last one, unless the process is
\* killed, or the rename fails, between remove and rename (persist.c:128-129).
\* Signals arrive between commands; in a rehash they may save half the table.
THEOREM RefinesDurable ==
  ASSUME "flush" \notin Failing, SignalPoints \subseteq {"idle"}
  PROVE  Spec => DurableButForGap
<1>1. Init => AsDurable!Init
  <2> SUFFICES ASSUME Init PROVE AsDurable!Init
    OBVIOUS
  <2>1. Recoverable = Empty
    BY DEF Init, Recoverable, Point, Contents
  <2> QED
    BY <2>1 DEF Init, AsDurable!Init, AsDurable!Empty, Empty
<1>2. PInv /\ Alone /\ [Next]_pvars
        => [AsDurable!Next \/ LosesSnapshot]_<<mem, Recoverable, passed, up>>
  BY DurableStep
<1>3. Spec => [](PInv /\ Alone)
  BY AloneInvariance
<1> QED
  BY <1>1, <1>2, <1>3, PTL DEF Spec, DurableButForGap
=============================================================================
