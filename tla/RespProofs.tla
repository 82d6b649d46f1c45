------------------------------ MODULE RespProofs ------------------------------
(***************************************************************************)
(* What the writers of resp.c write, the parsers of resp.c, cli.c and      *)
(* proxy.js read back, for every value a server or a client sends, with    *)
(* anything behind it, and from no part of it.                             *)
(*                                                                         *)
(* The parser is a recursive function of positions, defined by CHOOSE:     *)
(* that it has its equation (ItemsEquation) needs a solution, built from   *)
(* the end of the buffer backwards (Solves, SolutionGrows).                *)
(* The library's theorems on induction and recursive definitions take      *)
(* operators, which no backend instantiates; here the property and the     *)
(* solutions are sets and functions.  From the equation, the items of an   *)
(* array are read from its last to its first (ItemsRead).                  *)
(***************************************************************************)
EXTENDS Resp, SequenceTheorems, WellFoundedInduction, TLAPS

-----------------------------------------------------------------------------
(* Induction over natural numbers, with the property as a set               *)

LEMMA Least ==
  ASSUME NEW T, T \subseteq Nat, T # {}
  PROVE  \E x \in T : \A y \in T : x <= y
<1>1. PICK x \in T : \A y \in T : ~ (<<y, x>> \in OpToRel(<, Nat))
  BY NatLessThanWellFounded, WFMin
<1>2. \A y \in T : ~ (y < x)
  BY <1>1 DEF OpToRel
<1> QED
  BY <1>2

LEMMA Induction ==
  ASSUME NEW S, S \subseteq Nat, 0 \in S, \A n \in S : n + 1 \in S
  PROVE  S = Nat
<1> SUFFICES ASSUME Nat \ S # {} PROVE FALSE
  OBVIOUS
<1>1. PICK x \in Nat \ S : \A y \in Nat \ S : x <= y
  BY Least
<1>2. x - 1 \in Nat /\ x - 1 \in S
  BY <1>1
<1> QED
  BY <1>1, <1>2

\* Upwards to N.
LEMMA Upwards ==
  ASSUME NEW S, NEW N \in Nat, 0 \in S,
         \A n \in 0 .. N - 1 : n \in S => n + 1 \in S
  PROVE  \A n \in 0 .. N : n \in S
<1> DEFINE T == {n \in Nat : n <= N => n \in S}
<1>1. T \subseteq Nat /\ 0 \in T
  OBVIOUS
<1>2. \A n \in T : n + 1 \in T
  OBVIOUS
<1> HIDE DEF T
<1>3. T = Nat
  BY <1>1, <1>2, Induction
<1> QED
  BY <1>3 DEF T

\* Downwards from N.
LEMMA Downwards ==
  ASSUME NEW S, NEW N \in Nat, N \in S,
         \A n \in 0 .. N - 1 : n + 1 \in S => n \in S
  PROVE  \A n \in 0 .. N : n \in S
<1> DEFINE T == {n \in Nat : n <= N => N - n \in S}
<1>1. T \subseteq Nat /\ 0 \in T
  OBVIOUS
<1>2. ASSUME NEW n \in T PROVE n + 1 \in T
  <2>1. n \in Nat /\ (n <= N => N - n \in S)
    OBVIOUS
  <2>2. CASE n + 1 <= N
    <3>1. N - (n + 1) \in 0 .. N - 1 /\ (N - (n + 1)) + 1 = N - n
      BY <2>1, <2>2
    <3>2. N - (n + 1) \in S
      BY <2>1, <2>2, <3>1
    <3> QED
      BY <2>1, <3>2
  <2>3. CASE ~ (n + 1 <= N)
    BY <2>1, <2>3
  <2> QED
    BY <2>2, <2>3
<1> HIDE DEF T
<1>3. T = Nat
  BY <1>1, <1>2, Induction
<1>4. ASSUME NEW n \in 0 .. N PROVE n \in S
  <2>1. N - n \in T /\ N - (N - n) = n
    BY <1>3
  <2> QED
    BY <2>1 DEF T
<1> QED
  BY <1>4

-----------------------------------------------------------------------------
(* Streams put together                                                     *)

\* w[i] is the first i of the streams q in one.
Joins(w, q) ==
  /\ w[0] = <<>>
  /\ \A i \in 1 .. Len(q) : w[i] = w[i - 1] \o q[i]

LEMMA Joined ==
  ASSUME NEW T, NEW u \in Seq(T), NEW c \in Seq(T)
  PROVE  /\ u \o c \in Seq(T) /\ Len(u \o c) = Len(u) + Len(c)
         /\ \A i \in 1 .. Len(c) : (u \o c)[Len(u) + i] = c[i]
         /\ \A i \in 1 .. Len(u) : (u \o c)[i] = u[i]
OBVIOUS

LEMMA JoinsExist ==
  ASSUME NEW T, NEW q \in Seq(Seq(T))
  PROVE  \E w : w \in [0 .. Len(q) -> Seq(T)] /\ Joins(w, q)
<1> DEFINE N == Len(q)
           S == {n \in Nat : \E w \in [0 .. N -> Seq(T)] :
                    w[0] = <<>> /\ \A i \in 1 .. n : w[i] = w[i - 1] \o q[i]}
<1>1. N \in Nat
  OBVIOUS
<1>2. 0 \in S
  <2> DEFINE w == [i \in 0 .. N |-> <<>>]
  <2>1. w \in [0 .. N -> Seq(T)] /\ w[0] = <<>>
    BY <1>1
  <2> QED
    BY <2>1
<1>3. ASSUME NEW n \in 0 .. N - 1, n \in S PROVE n + 1 \in S
  <2>1. PICK w \in [0 .. N -> Seq(T)] :
          w[0] = <<>> /\ \A i \in 1 .. n : w[i] = w[i - 1] \o q[i]
    BY <1>3
  <2> DEFINE c == w[n] \o q[n + 1]
             v == [w EXCEPT ![n + 1] = c]
  <2>2. n \in Nat /\ n + 1 \in 1 .. N /\ n + 1 \in 0 .. N /\ n \in 0 .. N /\ n # n + 1 /\ 0 # n + 1
    BY <1>1
  <2>3. c \in Seq(T)
    <3>1. w[n] \in Seq(T)
      BY <2>1, <2>2
    <3>2. q[n + 1] \in Seq(T)
      BY <2>2, ElementOfSeq
    <3> QED
      BY <3>1, <3>2
  <2> HIDE DEF c
  <2>4. /\ v \in [0 .. N -> Seq(T)] /\ v[0] = w[0] /\ v[n + 1] = c /\ v[n] = w[n]
        /\ \A i \in 1 .. n : v[i] = w[i] /\ v[i - 1] = w[i - 1]
    BY <2>1, <2>2, <2>3
  <2> HIDE DEF v
  <2>5. \A i \in 1 .. n + 1 : v[i] = v[i - 1] \o q[i]
    <3>1. v[n + 1] = v[(n + 1) - 1] \o q[n + 1]
      BY <2>2, <2>4 DEF c
    <3>2. \A i \in 1 .. n : v[i] = v[i - 1] \o q[i]
      BY <2>1, <2>4
    <3>3. \A i \in 1 .. n + 1 : i = n + 1 \/ i \in 1 .. n
      BY <2>2
    <3> QED
      BY <3>1, <3>2, <3>3
  <2>6. v[0] = <<>>
    BY <2>1, <2>4
  <2>7. \E u \in [0 .. N -> Seq(T)] :
          u[0] = <<>> /\ \A i \in 1 .. n + 1 : u[i] = u[i - 1] \o q[i]
    BY <2>4, <2>5, <2>6, Zenon
  <2>8. n + 1 \in Nat
    BY <2>2
  <2> QED
    BY <2>7, <2>8, Zenon
<1> HIDE DEF S
<1>4. N \in S
  <2>1. \A n \in 0 .. N : n \in S
    BY <1>1, <1>2, <1>3, Upwards
  <2> QED
    BY <2>1, <1>1
<1> QED
  BY <1>4 DEF S, Joins

\* What FlattenSeq gives is the last of them.
LEMMA Flattens ==
  ASSUME NEW T, NEW q \in Seq(Seq(T))
  PROVE  \E w : /\ w \in [0 .. Len(q) -> Seq(T)] /\ Joins(w, q)
                /\ FlattenSeq(q) = w[Len(q)]
<1> DEFINE N == Len(q)
           Flat(f) == f = [i \in 1 .. N |-> IF i = 1 THEN q[i] ELSE f[i - 1] \o q[i]]
           g == CHOOSE f : Flat(f)
<1>1. PICK w : w \in [0 .. N -> Seq(T)] /\ Joins(w, q)
  BY JoinsExist
<1>2. N \in Nat
  OBVIOUS
<1>3. CASE N = 0
  <2>1. FlattenSeq(q) = q /\ q = <<>>
    BY <1>3 DEF FlattenSeq
  <2> QED
    BY <1>1, <1>3, <2>1 DEF Joins
<1>4. CASE N # 0
  <2>1. FlattenSeq(q) = g[N]
    BY <1>4, Zenon DEF FlattenSeq
  <2>2. \A i \in 1 .. N : w[i] = IF i = 1 THEN q[i] ELSE w[i - 1] \o q[i]
    <3>1. ASSUME 1 \in 1 .. N PROVE w[1] = q[1]
      <4>1. q[1] \in Seq(T)
        BY <3>1, ElementOfSeq
      <4>2. w[1] = w[1 - 1] \o q[1] /\ w[0] = <<>>
        BY <1>1, <3>1 DEF Joins
      <4>3. w[1] = <<>> \o q[1]
        <5>1. 1 - 1 = 0
          OBVIOUS
        <5> QED
          BY <4>2, <5>1, Zenon
      <4> QED
        BY <4>1, <4>3
    <3> QED
      BY <1>1, <3>1 DEF Joins
  <2>3. Flat([i \in 1 .. N |-> w[i]])
    <3> DEFINE v == [i \in 1 .. N |-> w[i]]
    <3>1. \A i \in 1 .. N : i # 1 => i - 1 \in 1 .. N
      BY <1>2
    <3>2. \A i \in 1 .. N : v[i] = IF i = 1 THEN q[i] ELSE v[i - 1] \o q[i]
      BY <2>2, <3>1
    <3>3. v = [i \in 1 .. N |-> v[i]]
      OBVIOUS
    <3> HIDE DEF v
    <3>4. Flat(v)
      BY <3>2, <3>3
    <3> QED
      BY <3>4 DEF v
  <2>4. Flat(g)
    <3> HIDE DEF Flat
    <3> QED
      BY <2>3, Zenon
  <2> HIDE DEF g
  <2>5. \A i \in 1 .. N : g[i] = IF i = 1 THEN q[i] ELSE g[i - 1] \o q[i]
    BY <2>4
  <2> DEFINE S == {i \in Nat : i > 0 => g[i] = w[i]}
  <2>6. 0 \in S
    OBVIOUS
  <2>7. ASSUME NEW n \in 0 .. N - 1, n \in S PROVE n + 1 \in S
    <3>1. n \in Nat /\ n + 1 \in 1 .. N /\ (n + 1) - 1 = n
      BY <1>2
    <3>2. CASE n = 0
      BY <2>2, <2>5, <3>1, <3>2
    <3>3. CASE n # 0
      <4>1. g[n] = w[n]
        BY <2>7, <3>1, <3>3
      <4> HIDE DEF N
      <4>2. n + 1 # 1
        BY <3>1, <3>3
      <4>3. g[n + 1] = g[n] \o q[n + 1]
        BY <2>5, <3>1, <4>2
      <4>4. w[n + 1] = w[n] \o q[n + 1]
        BY <2>2, <3>1, <4>2
      <4>5. g[n + 1] = w[n + 1]
        BY <4>1, <4>3, <4>4, Zenon
      <4> QED
        BY <3>1, <4>5
    <3> QED
      BY <3>2, <3>3
  <2>8. N \in S
    <3> HIDE DEF S
    <3>1. \A n \in 0 .. N : n \in S
      BY <1>2, <2>6, <2>7, Upwards
    <3> QED
      BY <1>2, <3>1
  <2> QED
    BY <1>1, <1>2, <1>4, <2>1, <2>8
<1> QED
  BY <1>3, <1>4

\* Each stream is in the whole, behind those before it.
PartsAt(w, q) ==
  /\ \A j \in 1 .. Len(q) : Len(w[j]) = Len(w[j - 1]) + Len(q[j])
  /\ \A j \in 0 .. Len(q) : Len(w[j]) <= Len(w[Len(q)])
  /\ \A j \in 1 .. Len(q) : \A i \in 1 .. Len(q[j]) :
       w[Len(q)][Len(w[j - 1]) + i] = q[j][i]

LEMMA JoinedParts ==
  ASSUME NEW T, NEW q \in Seq(Seq(T)),
         NEW w \in [0 .. Len(q) -> Seq(T)], Joins(w, q)
  PROVE  PartsAt(w, q)
<1> DEFINE N == Len(q)
<1>1. N \in Nat
  OBVIOUS
<1>2. ASSUME NEW j \in 1 .. N
      PROVE  /\ w[j - 1] \in Seq(T) /\ q[j] \in Seq(T) /\ w[j] = w[j - 1] \o q[j]
             /\ Len(w[j]) = Len(w[j - 1]) + Len(q[j])
             /\ \A i \in 1 .. Len(q[j]) : w[j][Len(w[j - 1]) + i] = q[j][i]
             /\ \A i \in 1 .. Len(w[j - 1]) : w[j][i] = w[j - 1][i]
  <2>1. w[j - 1] \in Seq(T)
    <3>1. j - 1 \in 0 .. N
      BY <1>1
    <3> QED
      BY <3>1
  <2>2. q[j] \in Seq(T)
    BY ElementOfSeq
  <2>3. w[j] = w[j - 1] \o q[j]
    BY DEF Joins
  <2>4. /\ Len(w[j - 1] \o q[j]) = Len(w[j - 1]) + Len(q[j])
        /\ \A i \in 1 .. Len(q[j]) : (w[j - 1] \o q[j])[Len(w[j - 1]) + i] = q[j][i]
        /\ \A i \in 1 .. Len(w[j - 1]) : (w[j - 1] \o q[j])[i] = w[j - 1][i]
    <3> DEFINE u == w[j - 1]
               c == q[j]
    <3> SUFFICES /\ Len(u \o c) = Len(u) + Len(c)
                 /\ \A i \in 1 .. Len(c) : (u \o c)[Len(u) + i] = c[i]
                 /\ \A i \in 1 .. Len(u) : (u \o c)[i] = u[i]
      OBVIOUS
    <3>1. u \in Seq(T) /\ c \in Seq(T)
      BY <2>1, <2>2
    <3> HIDE DEF u, c
    <3> QED
      BY <3>1, Joined
  <2> QED
    BY <2>1, <2>2, <2>3, <2>4, Zenon
<1> DEFINE S == {n \in 0 .. N : /\ Len(w[n]) <= Len(w[N])
                                /\ \A i \in 1 .. Len(w[n]) : w[N][i] = w[n][i]}
<1>3. N \in S
  BY <1>1
<1>4. ASSUME NEW n \in 0 .. N - 1, n + 1 \in S PROVE n \in S
  <2>1. n + 1 \in 1 .. N /\ n \in 0 .. N /\ (n + 1) - 1 = n
    BY <1>1
  <2>2. /\ w[(n + 1) - 1] \in Seq(T) /\ q[n + 1] \in Seq(T)
        /\ Len(w[n + 1]) = Len(w[(n + 1) - 1]) + Len(q[n + 1])
        /\ \A i \in 1 .. Len(w[(n + 1) - 1]) : w[n + 1][i] = w[(n + 1) - 1][i]
    <3> HIDE DEF N
    <3> QED
      BY <1>2, <2>1
  <2>3. /\ Len(w[n + 1]) <= Len(w[N])
        /\ \A i \in 1 .. Len(w[n + 1]) : w[N][i] = w[n + 1][i]
    BY <1>4
  <2>4. w[N] \in Seq(T) /\ w[n + 1] \in Seq(T)
    <3>1. N \in 0 .. N /\ n + 1 \in 0 .. N
      BY <1>1, <2>1
    <3> QED
      BY <3>1
  <2>5. Len(w[n]) \in Nat /\ Len(q[n + 1]) \in Nat /\ Len(w[N]) \in Nat
    BY <2>1, <2>2, <2>4
  <2> QED
    BY <2>1, <2>2, <2>3, <2>5
<1> HIDE DEF S
<1>5. \A n \in 0 .. N : n \in S
  BY <1>1, <1>3, <1>4, Downwards
<1>6. ASSUME NEW j \in 1 .. N, NEW i \in 1 .. Len(q[j])
      PROVE  w[N][Len(w[j - 1]) + i] = q[j][i]
  <2>1. j \in 0 .. N
    BY <1>1
  <2>2. \A m \in 1 .. Len(w[j]) : w[N][m] = w[j][m]
    BY <1>5, <2>1 DEF S
  <2>3. Len(w[j - 1]) \in Nat /\ Len(q[j]) \in Nat /\ Len(w[j]) = Len(w[j - 1]) + Len(q[j])
    <3>1. /\ w[j - 1] \in Seq(T) /\ q[j] \in Seq(T)
          /\ Len(w[j]) = Len(w[j - 1]) + Len(q[j])
      BY <1>2
    <3> QED
      BY <3>1
  <2>4. Len(w[j - 1]) + i \in 1 .. Len(w[j])
    <3> DEFINE c == Len(q[j])
               u == Len(w[j - 1])
               x == Len(w[j])
    <3>1. i \in 1 .. c /\ c \in Nat /\ u \in Nat /\ x = u + c
      BY <2>3
    <3> HIDE DEF c, u, x
    <3>2. u + i \in 1 .. x
      BY <3>1
    <3> QED
      BY <3>2, Zenon DEF u, x
  <2> QED
    BY <1>2, <2>2, <2>4
<1> QED
  BY <1>2, <1>5, <1>6 DEF S, PartsAt

-----------------------------------------------------------------------------
(* Lines                                                                    *)

LEMMA LineEnds ==
  ASSUME NEW b \in Seq(Unit), NEW k \in 0 .. Len(b)
  PROVE  FindCrLf(b, k) = 0 \/ FindCrLf(b, k) \in k + 1 .. Len(b)
<1> DEFINE at == {j \in k + 1 .. Len(b) : b[j] = CrLf}
<1>1. FindCrLf(b, k) = IF at = {} THEN 0 ELSE Min(at)
  BY DEF FindCrLf, SelectInSubSeq
<1>2. ASSUME at # {} PROVE Min(at) \in at
  <2>1. at \subseteq Nat
    OBVIOUS
  <2>2. \E x \in at : \A y \in at : x <= y
    BY <1>2, <2>1, Least
  <2> QED
    BY <2>2 DEF Min
<1> QED
  BY <1>1, <1>2

\* A line and its CRLF, or what has come of them.
LEMMA LineFound ==
  ASSUME NEW b \in Seq(Unit), NEW k \in 0 .. Len(b),
         k + 1 <= Len(b) => b[k + 1] # CrLf,
         k + 2 <= Len(b) => b[k + 2] = CrLf
  PROVE  FindCrLf(b, k) = IF k + 2 <= Len(b) THEN k + 2 ELSE 0
<1> DEFINE at == {j \in k + 1 .. Len(b) : b[j] = CrLf}
<1>1. FindCrLf(b, k) = IF at = {} THEN 0 ELSE Min(at)
  BY DEF FindCrLf, SelectInSubSeq
<1>2. Len(b) \in Nat /\ k \in Nat
  OBVIOUS
<1>3. \A j \in at : j >= k + 2
  BY <1>2
<1>4. CASE k + 2 <= Len(b)
  <2>1. k + 2 \in at
    BY <1>2, <1>4
  <2>2. Min(at) \in at /\ \A y \in at : Min(at) <= y
    <3>1. \E x \in at : \A y \in at : x <= y
      BY <1>3, <2>1
    <3> QED
      BY <3>1 DEF Min
  <2>3. Min(at) = k + 2
    BY <1>2, <1>3, <2>1, <2>2
  <2> QED
    BY <1>1, <1>4, <2>1, <2>3
<1>5. CASE ~ (k + 2 <= Len(b))
  <2>1. at = {}
    BY <1>2, <1>3, <1>5
  <2> QED
    BY <1>1, <1>5, <2>1
<1> QED
  BY <1>4, <1>5

Types == {"+", "-", ":", "$", "*"}

LEMMA UnitTypes ==
  ASSUME NEW u \in Unit
  PROVE  TypeOf(u) = "other" \/ (TypeOf(u) \in Types /\ u[4] \in Int)
<1>1. CASE u \in {"line"} \X {"+", "-", ":", "$", "*"} \X Texts \X Int
  BY <1>1 DEF TypeOf, Types
<1>2. CASE u \in {"byte"} \X Bytes
  <2>1. u[1] = "byte"
    BY <1>2
  <2> QED
    BY <2>1 DEF TypeOf
<1>3. CASE u \in {CrLf, Junk}
  <2>1. u[1] \in {"crlf", "junk"}
    BY <1>3 DEF CrLf, Junk
  <2> QED
    BY <2>1 DEF TypeOf
<1> QED
  BY <1>1, <1>2, <1>3 DEF Unit

-----------------------------------------------------------------------------
(* The equation of the parser                                               *)

\* The results behind k.
Behind(b, k, r) == r.n \in {-1, 0} \cup (k .. Len(b))

\* f and g read the same from the units behind k on, and go on from there.
Agree(b, k, f, g) ==
  \A n \in Nat : \A j \in k + 1 .. Len(b) :
    f[<<n, j>>] = g[<<n, j>>] /\ Behind(b, j, f[<<n, j>>])

\* A value depends on what is behind its line only.
LEMMA ValueDepends ==
  ASSUME NEW language, NEW b \in Seq(Unit), NEW k \in 0 .. Len(b),
         NEW f, NEW g, Agree(b, k, f, g)
  PROVE  /\ ValueAt(language, b, f, k) = ValueAt(language, b, g, k)
         /\ Behind(b, k + 1, ValueAt(language, b, f, k))
<1> DEFINE e   == FindCrLf(b, k)
           t   == TypeOf(b[k + 1])
           num == b[k + 1][4]
           F   == ValueAt(language, b, f, k)
           G   == ValueAt(language, b, g, k)
<1>1. Len(b) \in Nat /\ k \in Nat
  OBVIOUS
<1>2. CASE e = 0
  BY <1>2 DEF ValueAt, Incomplete, Behind
<1>3. CASE e # 0
  <2>1. e \in k + 1 .. Len(b)
    BY <1>3, LineEnds
  <2>2. b[k + 1] \in Unit
    BY <1>1, <2>1
  <2>3. t = "other" \/ (t \in Types /\ num \in Int)
    BY <2>2, UnitTypes
  <2> HIDE DEF e, t, num
  <2>4. CASE t = "other"
    <3>1. F = UnknownLine(language, e) /\ G = UnknownLine(language, e)
      BY <1>3, <2>4 DEF ValueAt, e, t
    <3> QED
      BY <1>1, <2>1, <3>1 DEF UnknownLine, Malformed, Whole, Behind
  <2>5. CASE t \in {"+", "-"}
    <3>1. F = G /\ F.n = e
      BY <1>3, <2>5 DEF ValueAt, e, t, Whole
    <3> QED
      BY <1>1, <2>1, <3>1 DEF Behind
  <2>6. CASE t = ":"
    <3>1. F = G /\ F.n = e
      BY <1>3, <2>6 DEF ValueAt, e, t, Whole
    <3> QED
      BY <1>1, <2>1, <3>1 DEF Behind
  <2>7. CASE t \in {"$", "*"} /\ num < 0
    <3>1. F = IF num = -1 THEN Whole(e, Nil) ELSE Malformed
      BY <1>3, <2>7 DEF ValueAt, e, t, num
    <3>2. G = IF num = -1 THEN Whole(e, Nil) ELSE Malformed
      BY <1>3, <2>7 DEF ValueAt, e, t, num
    <3> QED
      BY <1>1, <2>1, <3>1, <3>2 DEF Behind, Whole, Malformed
  <2>8. CASE t = "$" /\ ~ (num < 0)
    <3> DEFINE v == Bulk(Kept(language, SubSeq(b, e + 1, e + num)))
               r == IF e + num + 1 > Len(b) THEN Incomplete ELSE Whole(e + num + 1, v)
    <3>1. F = r
      BY <1>3, <2>8 DEF ValueAt, e, t, num
    <3>2. G = r
      BY <1>3, <2>8 DEF ValueAt, e, t, num
    <3>3. num \in Nat
      BY <2>3, <2>8 DEF Types
    <3> HIDE DEF v
    <3>4. r.n \in {-1, 0} \cup (k + 1 .. Len(b))
      BY <1>1, <2>1, <3>3 DEF Whole, Incomplete
    <3> QED
      BY <3>1, <3>2, <3>4 DEF Behind
  <2>9. CASE t = "*" /\ ~ (num < 0)
    <3> DEFINE r == f[<<num, e>>]
    <3>1. num \in Nat
      BY <2>3, <2>9 DEF Types
    <3>2. r = g[<<num, e>>] /\ r.n \in {-1, 0} \cup (e .. Len(b))
      BY <2>1, <3>1 DEF Agree, Behind
    <3> HIDE DEF r
    <3>3. F = IF r.n <= 0 THEN r ELSE Whole(r.n, Array(r.v))
      BY <1>3, <2>9 DEF ValueAt, e, t, num, r
    <3>4. G = IF r.n <= 0 THEN r ELSE Whole(r.n, Array(r.v))
      BY <1>3, <2>9, <3>2 DEF ValueAt, e, t, num
    <3>5. F.n = r.n
      BY <3>3 DEF Whole
    <3>6. r.n \in {-1, 0} \cup (k + 1 .. Len(b))
      BY <1>1, <2>1, <3>2
    <3> QED
      BY <3>3, <3>4, <3>5, <3>6 DEF Behind
  <2> QED
    BY <2>3, <2>4, <2>5, <2>6, <2>7, <2>8, <2>9 DEF Types
<1> QED
  BY <1>2, <1>3

LEMMA ItemsDepend ==
  ASSUME NEW language, NEW b \in Seq(Unit), NEW n \in Nat, NEW k \in 0 .. Len(b),
         NEW f, NEW g, Agree(b, k, f, g)
  PROVE  /\ ItemsAt(language, b, f, n, k) = ItemsAt(language, b, g, n, k)
         /\ Behind(b, k, ItemsAt(language, b, f, n, k))
<1> DEFINE one == ValueAt(language, b, f, k)
<1>1. Len(b) \in Nat /\ k \in Nat
  OBVIOUS
<1>2. /\ one = ValueAt(language, b, g, k)
      /\ one.n \in {-1, 0} \cup (k + 1 .. Len(b))
  BY ValueDepends DEF Behind
<1> HIDE DEF one
<1>3. CASE n = 0
  BY <1>1, <1>3 DEF ItemsAt, Behind, Whole
<1>4. CASE n # 0 /\ one.n <= 0
  <2>1. ItemsAt(language, b, f, n, k) = one /\ ItemsAt(language, b, g, n, k) = one
    BY <1>2, <1>4 DEF ItemsAt, one
  <2> QED
    BY <1>1, <1>2, <1>4, <2>1 DEF Behind
<1>5. CASE n # 0 /\ ~ (one.n <= 0)
  <2> DEFINE r == f[<<n - 1, one.n>>]
  <2>1. n - 1 \in Nat /\ one.n \in k + 1 .. Len(b)
    BY <1>1, <1>2, <1>5
  <2>2. r = g[<<n - 1, one.n>>] /\ r.n \in {-1, 0} \cup (one.n .. Len(b))
    BY <2>1 DEF Agree, Behind
  <2> HIDE DEF r
  <2>3. ItemsAt(language, b, f, n, k) = IF r.n <= 0 THEN r ELSE Whole(r.n, <<one.v>> \o r.v)
    BY <1>5 DEF ItemsAt, one, r
  <2>4. ItemsAt(language, b, g, n, k) = IF r.n <= 0 THEN r ELSE Whole(r.n, <<one.v>> \o r.v)
    BY <1>2, <1>5, <2>2 DEF ItemsAt, one
  <2>5. ItemsAt(language, b, f, n, k).n = r.n
    BY <2>3 DEF Whole
  <2>6. r.n \in {-1, 0} \cup (k .. Len(b))
    BY <1>1, <2>1, <2>2
  <2> QED
    BY <2>3, <2>4, <2>5, <2>6 DEF Behind
<1> QED
  BY <1>3, <1>4, <1>5

\* f solves the equation for the last m positions.
Solves(language, b, f, m) ==
  /\ f = [p \in Nat \X (Len(b) - m + 1 .. Len(b)) |->
            ItemsAt(language, b, f, p[1], p[2])]
  /\ \A n \in Nat : \A j \in Len(b) - m + 1 .. Len(b) : Behind(b, j, f[<<n, j>>])

LEMMA SolutionGrows ==
  ASSUME NEW language, NEW b \in Seq(Unit), NEW m \in 0 .. Len(b),
         NEW f, Solves(language, b, f, m)
  PROVE  \E g : Solves(language, b, g, m + 1)
<1> DEFINE D == Nat \X (Len(b) - m + 1 .. Len(b))
           E == Nat \X (Len(b) - (m + 1) + 1 .. Len(b))
           g == [p \in E |-> ItemsAt(language, b, f, p[1], p[2])]
<1>1. Len(b) \in Nat /\ m \in Nat /\ D \subseteq E
  OBVIOUS
<1>2. ASSUME NEW n \in Nat, NEW j \in Len(b) - m + 1 .. Len(b)
      PROVE  f[<<n, j>>] = g[<<n, j>>] /\ Behind(b, j, f[<<n, j>>])
  <2>1. <<n, j>> \in D /\ <<n, j>>[1] = n /\ <<n, j>>[2] = j
    OBVIOUS
  <2>2. f[<<n, j>>] = ItemsAt(language, b, f, n, j)
    BY <2>1, Zenon DEF Solves
  <2>3. g[<<n, j>>] = ItemsAt(language, b, f, n, j)
    BY <1>1, <2>1, Zenon
  <2> QED
    BY <2>2, <2>3 DEF Solves
<1>3. ASSUME NEW n \in Nat, NEW j \in Len(b) - (m + 1) + 1 .. Len(b)
      PROVE  /\ g[<<n, j>>] = ItemsAt(language, b, g, n, j)
             /\ Behind(b, j, g[<<n, j>>])
  <2>1. <<n, j>> \in E /\ <<n, j>>[1] = n /\ <<n, j>>[2] = j
    OBVIOUS
  <2>2. g[<<n, j>>] = ItemsAt(language, b, f, n, j)
    BY <2>1, Zenon
  <2> HIDE DEF g
  <2>3. Agree(b, j, f, g)
    <3>1. \A i \in j + 1 .. Len(b) : i \in Len(b) - m + 1 .. Len(b)
      BY <1>1
    <3> QED
      BY <1>2, <3>1 DEF Agree
  <2>4. j \in 0 .. Len(b)
    BY <1>1
  <2> QED
    BY <2>2, <2>3, <2>4, ItemsDepend
<1>4. g = [p \in E |-> ItemsAt(language, b, g, p[1], p[2])]
  <2>1. \A p \in E : g[p] = ItemsAt(language, b, g, p[1], p[2])
    <3> TAKE p \in E
    <3>1. p[1] \in Nat /\ p[2] \in Len(b) - (m + 1) + 1 .. Len(b) /\ p = <<p[1], p[2]>>
      OBVIOUS
    <3> HIDE DEF g
    <3> QED
      BY <1>3, <3>1
  <2>2. g = [p \in E |-> g[p]]
    OBVIOUS
  <2> HIDE DEF g, E
  <2> QED
    BY <2>1, <2>2
<1> HIDE DEF g
<1> QED
  BY <1>3, <1>4 DEF Solves

\* What the parser of arrays does, without its recursion.
LEMMA ItemsEquation ==
  ASSUME NEW language, NEW b \in Seq(Unit)
  PROVE  \A n \in Nat : \A k \in 0 .. Len(b) :
           Items(language, b)[<<n, k>>] = ItemsAt(language, b, Items(language, b), n, k)
<1> DEFINE D == Nat \X (0 .. Len(b))
           Eq(f) == f = [p \in D |-> ItemsAt(language, b, f, p[1], p[2])]
           S == {m \in Nat : \E f : Solves(language, b, f, m)}
<1>1. Len(b) \in Nat
  OBVIOUS
<1>2. 0 \in S
  <2> DEFINE f == [p \in {} |-> 0]
  <2>1. Nat \X (Len(b) - 0 + 1 .. Len(b)) = {}
    BY <1>1
  <2>2. f = [p \in {} |-> ItemsAt(language, b, f, p[1], p[2])]
    OBVIOUS
  <2>3. \A j \in Len(b) - 0 + 1 .. Len(b) : FALSE
    BY <1>1
  <2> HIDE DEF f
  <2>4. Solves(language, b, f, 0)
    BY <2>1, <2>2, <2>3 DEF Solves
  <2> QED
    BY <2>4
<1>3. ASSUME NEW m \in 0 .. (Len(b) + 1) - 1, m \in S PROVE m + 1 \in S
  <2>1. m \in 0 .. Len(b) /\ m + 1 \in Nat
    BY <1>1
  <2> QED
    BY <1>3, <2>1, SolutionGrows
<1> HIDE DEF S
<1>4. Len(b) + 1 \in S
  <2>1. \A m \in 0 .. Len(b) + 1 : m \in S
    BY <1>1, <1>2, <1>3, Upwards
  <2> QED
    BY <1>1, <2>1
<1>5. \E f : Eq(f)
  <2>1. Len(b) - (Len(b) + 1) + 1 = 0
    BY <1>1
  <2>2. PICK f : Solves(language, b, f, Len(b) + 1)
    BY <1>4 DEF S
  <2>3. Eq(f)
    BY <2>1, <2>2 DEF Solves
  <2> QED
    BY <2>3
<1>6. Items(language, b) = CHOOSE f : Eq(f)
  BY Zenon DEF Items
<1>7. Eq(Items(language, b))
  <2> HIDE DEF Eq
  <2> QED
    BY <1>5, <1>6, Zenon
<1>8. ASSUME NEW n \in Nat, NEW k \in 0 .. Len(b)
      PROVE  Items(language, b)[<<n, k>>] = ItemsAt(language, b, Items(language, b), n, k)
  <2>1. <<n, k>> \in D /\ <<n, k>>[1] = n /\ <<n, k>>[2] = k
    OBVIOUS
  <2> HIDE DEF D
  <2> QED
    BY <1>7, <2>1, Zenon
<1> QED
  BY <1>8

-----------------------------------------------------------------------------
(* What is written is read                                                  *)

\* The characters that a bulk string keeps.
Chars(language) == IF language = "c" THEN Bytes \ {"nul"} ELSE Bytes

\* The texts that resp_buf_appendf has room for and that are one line.
OneLined == Texts \ (LongTexts \cup SplitTexts)

\* The values that are read back as they were written: such texts,
\* numbers, bulk strings, and arrays of values that are none.
Simple(language) ==
  {<<t, x>> : t \in {"+", "-"}, x \in OneLined}
    \cup {<<":", n>> : n \in Int}
    \cup {Bulk(q) : q \in Seq(Chars(language))}
    \cup {Nil}

Readable(language) ==
  Simple(language) \cup {Array(q) : q \in Seq(Simple(language))}

LEMMA RawByte ==
  ASSUME NEW c
  PROVE  /\ (IF Len(Byte(c)) = 2 THEN Byte(c)[2] ELSE Byte(c)[1]) = c
         /\ c # "nul" => Byte(c) # Byte("nul")
<1>1. CASE c = "crlf"
  BY <1>1 DEF Byte, CrLf
<1>2. CASE c # "crlf"
  BY <1>2 DEF Byte
<1> QED
  BY <1>1, <1>2

LEMMA KeptWhole ==
  ASSUME NEW language, NEW q \in Seq(Chars(language)), NEW u \in Seq(Unit),
         Len(u) = Len(q), \A j \in 1 .. Len(q) : u[j] = Byte(q[j])
  PROVE  Kept(language, u) = q
<1>1. DOMAIN u = 1 .. Len(q) /\ DOMAIN q = 1 .. Len(q)
  OBVIOUS
<1>2. Raw(u) = q
  <2> DEFINE r == [j \in 1 .. Len(q) |-> IF Len(u[j]) = 2 THEN u[j][2] ELSE u[j][1]]
  <2>1. Raw(u) = r
    BY <1>1, Zenon DEF Raw
  <2>2. \A j \in 1 .. Len(q) : r[j] = q[j]
    <3> TAKE j \in 1 .. Len(q)
    <3>1. u[j] = Byte(q[j])
      OBVIOUS
    <3>2. r[j] = IF Len(Byte(q[j])) = 2 THEN Byte(q[j])[2] ELSE Byte(q[j])[1]
      BY <3>1, Zenon
    <3> QED
      BY <3>2, RawByte, Zenon
  <2>3. r = [j \in 1 .. Len(q) |-> r[j]] /\ q = [j \in 1 .. Len(q) |-> q[j]]
    BY <1>1
  <2> HIDE DEF r
  <2> QED
    BY <2>1, <2>2, <2>3
<1>3. CASE language = "c"
  <2> DEFINE I == {j \in 1 .. Len(u) : u[j] = Byte("nul")}
  <2>1. \A j \in 1 .. Len(q) : q[j] # "nul"
    <3> TAKE j \in 1 .. Len(q)
    <3>1. q[j] \in Chars(language)
      BY ElementOfSeq
    <3> QED
      BY <1>3, <3>1 DEF Chars
  <2>2. I = {}
    <3>1. ASSUME NEW j \in 1 .. Len(u) PROVE u[j] # Byte("nul")
      <4>1. j \in 1 .. Len(q)
        OBVIOUS
      <4>2. u[j] = Byte(q[j]) /\ q[j] # "nul"
        BY <2>1, <4>1
      <4> QED
        BY <4>2, RawByte, Zenon
    <3> QED
      BY <3>1
  <2>3. SelectInSeq(u, LAMBDA x : x = Byte("nul")) = 0
    BY <2>2 DEF SelectInSeq
  <2> QED
    BY <1>2, <1>3, <2>3 DEF Kept, CString
<1>4. CASE language # "c"
  BY <1>2, <1>4 DEF Kept
<1> QED
  BY <1>3, <1>4

LEMMA LinesAreUnits ==
  /\ \A t \in Types : \A x \in Texts : TextLine(t, x) \in Unit
  /\ \A t \in Types : \A n \in Int : NumberLine(t, n) \in Unit
  /\ CrLf \in Unit
  /\ \A c \in Bytes : Byte(c) \in Unit
<1>1. "" \in Texts
  BY RespAssumption
<1>2. \A t \in Types : \A x \in Texts : TextLine(t, x) \in Unit
  BY DEF TextLine, Unit, Types
<1>3. \A t \in Types : \A n \in Int : NumberLine(t, n) \in Unit
  BY <1>1 DEF NumberLine, Unit, Types
<1>4. CrLf \in Unit
  BY DEF Unit
<1>5. ASSUME NEW c \in Bytes PROVE Byte(c) \in Unit
  <2>1. <<"byte", c>> \in Unit
    BY DEF Unit
  <2> QED
    BY <1>4, <2>1 DEF Byte
<1> QED
  BY <1>2, <1>3, <1>4, <1>5

\* The parts of a bulk string.
LEMMA BulkWritten ==
  ASSUME NEW q \in Seq(Bytes)
  PROVE  /\ WriteBulk(q) \in Seq(Unit) /\ Len(WriteBulk(q)) = Len(q) + 3
         /\ WriteBulk(q)[1] = NumberLine("$", Len(q)) /\ WriteBulk(q)[2] = CrLf
         /\ \A j \in 1 .. Len(q) : WriteBulk(q)[2 + j] = Byte(q[j])
<1> DEFINE h == <<NumberLine("$", Len(q)), CrLf>>
           m == [j \in 1 .. Len(q) |-> Byte(q[j])]
           z == <<CrLf>>
<1>1. Len(q) \in Nat /\ DOMAIN q = 1 .. Len(q)
  OBVIOUS
<1>2. h \in Seq(Unit) /\ Len(h) = 2 /\ h[1] = NumberLine("$", Len(q)) /\ h[2] = CrLf
  <2>1. NumberLine("$", Len(q)) \in Unit /\ CrLf \in Unit
    BY <1>1, LinesAreUnits DEF Types
  <2> QED
    BY <2>1
<1>3. m \in Seq(Unit) /\ Len(m) = Len(q) /\ \A j \in 1 .. Len(q) : m[j] = Byte(q[j])
  <2>1. \A j \in 1 .. Len(q) : Byte(q[j]) \in Unit
    BY LinesAreUnits
  <2> QED
    BY <1>1, <2>1
<1>4. z \in Seq(Unit) /\ Len(z) = 1
  BY LinesAreUnits
<1>5. WriteBulk(q) = (h \o m) \o z
  BY <1>1, Zenon DEF WriteBulk
<1> HIDE DEF h, m, z
<1>6. /\ h \o m \in Seq(Unit) /\ Len(h \o m) = 2 + Len(q)
      /\ \A j \in 1 .. Len(q) : (h \o m)[2 + j] = Byte(q[j])
      /\ (h \o m)[1] = h[1] /\ (h \o m)[2] = h[2]
  <2>1. /\ h \o m \in Seq(Unit) /\ Len(h \o m) = Len(h) + Len(m)
        /\ \A j \in 1 .. Len(m) : (h \o m)[Len(h) + j] = m[j]
        /\ \A i \in 1 .. Len(h) : (h \o m)[i] = h[i]
    BY <1>2, <1>3, Joined
  <2> QED
    BY <1>1, <1>2, <1>3, <2>1
<1>7. PICK w \in Seq(Unit) : w = h \o m
  BY <1>6
<1>8. /\ w \o z \in Seq(Unit) /\ Len(w \o z) = Len(q) + 3
      /\ \A i \in 1 .. 2 + Len(q) : (w \o z)[i] = w[i]
  <2>1. /\ w \o z \in Seq(Unit) /\ Len(w \o z) = Len(w) + Len(z)
        /\ \A i \in 1 .. Len(w) : (w \o z)[i] = w[i]
    BY <1>4, Joined
  <2>2. Len(w) = 2 + Len(q)
    BY <1>6, <1>7
  <2> QED
    BY <1>1, <1>4, <2>1, <2>2
<1>9. \A j \in 1 .. Len(q) : 2 + j \in 1 .. 2 + Len(q)
  BY <1>1
<1>10. 1 \in 1 .. 2 + Len(q) /\ 2 \in 1 .. 2 + Len(q)
  BY <1>1
<1> QED
  BY <1>2, <1>5, <1>6, <1>7, <1>8, <1>9, <1>10

-----------------------------------------------------------------------------
\* Behind k, b is the stream u, as far as it goes.
Holds(b, k, u) == \A i \in 1 .. Len(u) : k + i <= Len(b) => b[k + i] = u[i]

\* With all of u behind k the value is read, with less it is incomplete.
Reads(b, k, u, r, v) ==
  r = IF k + Len(u) <= Len(b) THEN Whole(k + Len(u), v) ELSE Incomplete

LEMMA TextRead ==
  ASSUME NEW language, NEW b \in Seq(Unit), NEW k \in 0 .. Len(b), NEW f,
         NEW t \in {"+", "-"}, NEW x \in Texts, Holds(b, k, <<TextLine(t, x), CrLf>>)
  PROVE  Reads(b, k, <<TextLine(t, x), CrLf>>, ValueAt(language, b, f, k), <<t, x>>)
<1>1. /\ k + 1 <= Len(b) => b[k + 1] = TextLine(t, x)
      /\ k + 2 <= Len(b) => b[k + 2] = CrLf
  BY DEF Holds
<1>2. TextLine(t, x) # CrLf
  BY DEF TextLine, CrLf
<1>3. FindCrLf(b, k) = IF k + 2 <= Len(b) THEN k + 2 ELSE 0
  BY <1>1, <1>2, LineFound
<1>4. TypeOf(TextLine(t, x)) = t /\ TextLine(t, x)[3] = x
  BY DEF TypeOf, TextLine
<1>5. Len(<<TextLine(t, x), CrLf>>) = 2
  OBVIOUS
<1>6. CASE k + 2 <= Len(b)
  <2>1. FindCrLf(b, k) = k + 2 /\ k + 2 # 0 /\ b[k + 1] = TextLine(t, x)
    BY <1>1, <1>3, <1>6
  <2>2. TypeOf(b[k + 1]) = t /\ b[k + 1][3] = x
    BY <1>4, <2>1
  <2>3. ValueAt(language, b, f, k) = Whole(k + 2, <<t, x>>)
    BY <2>1, <2>2 DEF ValueAt
  <2> QED
    BY <1>5, <1>6, <2>3 DEF Reads
<1>7. CASE ~ (k + 2 <= Len(b))
  <2>1. ValueAt(language, b, f, k) = Incomplete
    BY <1>3, <1>7 DEF ValueAt
  <2> QED
    BY <1>5, <1>7, <2>1 DEF Reads
<1> QED
  BY <1>6, <1>7

LEMMA NumberFound ==
  ASSUME NEW b \in Seq(Unit), NEW k \in 0 .. Len(b), NEW t \in Types, NEW n \in Int,
         k + 1 <= Len(b) => b[k + 1] = NumberLine(t, n),
         k + 2 <= Len(b) => b[k + 2] = CrLf
  PROVE  /\ k + 2 <= Len(b) => /\ FindCrLf(b, k) = k + 2 /\ k + 2 # 0
                               /\ TypeOf(b[k + 1]) = t /\ b[k + 1][4] = n
         /\ ~ (k + 2 <= Len(b)) => FindCrLf(b, k) = 0
<1>1. NumberLine(t, n) # CrLf
  BY DEF NumberLine, CrLf
<1>2. FindCrLf(b, k) = IF k + 2 <= Len(b) THEN k + 2 ELSE 0
  BY <1>1, LineFound
<1>3. TypeOf(NumberLine(t, n)) = t /\ NumberLine(t, n)[4] = n
  BY DEF TypeOf, NumberLine
<1>4. k + 2 <= Len(b) => k + 1 <= Len(b) /\ k + 2 # 0
  OBVIOUS
<1> QED
  BY <1>2, <1>3, <1>4

LEMMA NumberRead ==
  ASSUME NEW language, NEW b \in Seq(Unit), NEW k \in 0 .. Len(b), NEW f,
         NEW n \in Int, Holds(b, k, <<NumberLine(":", n), CrLf>>)
  PROVE  Reads(b, k, <<NumberLine(":", n), CrLf>>, ValueAt(language, b, f, k), <<":", n>>)
<1>1. /\ k + 1 <= Len(b) => b[k + 1] = NumberLine(":", n)
      /\ k + 2 <= Len(b) => b[k + 2] = CrLf
  BY DEF Holds
<1>2. Len(<<NumberLine(":", n), CrLf>>) = 2 /\ ":" \in Types
  BY DEF Types
<1>3. CASE k + 2 <= Len(b)
  <2>1. /\ FindCrLf(b, k) = k + 2 /\ k + 2 # 0
        /\ TypeOf(b[k + 1]) = ":" /\ b[k + 1][4] = n
    <3> DEFINE t == ":"
    <3>1. k + 1 <= Len(b) => b[k + 1] = NumberLine(t, n)
      BY <1>1
    <3>2. t \in Types
      BY <1>2
    <3> HIDE DEF t
    <3>3. /\ FindCrLf(b, k) = k + 2 /\ k + 2 # 0
          /\ TypeOf(b[k + 1]) = t /\ b[k + 1][4] = n
      BY <1>1, <1>3, <3>1, <3>2, NumberFound
    <3> QED
      BY <3>3 DEF t
  <2>2. ValueAt(language, b, f, k) = Whole(k + 2, <<":", n>>)
    BY <2>1 DEF ValueAt
  <2> QED
    BY <1>2, <1>3, <2>2 DEF Reads
<1>4. CASE ~ (k + 2 <= Len(b))
  <2>1. ValueAt(language, b, f, k) = Incomplete
    <3>1. FindCrLf(b, k) = 0
      BY <1>1, <1>2, <1>4, NumberFound
    <3> QED
      BY <3>1 DEF ValueAt
  <2> QED
    BY <1>2, <1>4, <2>1 DEF Reads
<1> QED
  BY <1>3, <1>4

LEMMA NilRead ==
  ASSUME NEW language, NEW b \in Seq(Unit), NEW k \in 0 .. Len(b), NEW f,
         Holds(b, k, <<NumberLine("$", -1), CrLf>>)
  PROVE  Reads(b, k, <<NumberLine("$", -1), CrLf>>, ValueAt(language, b, f, k), Nil)
<1>1. /\ k + 1 <= Len(b) => b[k + 1] = NumberLine("$", -1)
      /\ k + 2 <= Len(b) => b[k + 2] = CrLf
  BY DEF Holds
<1>2. Len(<<NumberLine("$", -1), CrLf>>) = 2 /\ "$" \in Types /\ -1 \in Int
  BY DEF Types
<1>3. CASE k + 2 <= Len(b)
  <2>1. /\ FindCrLf(b, k) = k + 2 /\ k + 2 # 0
        /\ TypeOf(b[k + 1]) = "$" /\ b[k + 1][4] = -1
    BY <1>1, <1>2, <1>3, NumberFound
  <2>2. ValueAt(language, b, f, k) = Whole(k + 2, Nil)
    BY <2>1 DEF ValueAt
  <2> QED
    BY <1>2, <1>3, <2>2 DEF Reads
<1>4. CASE ~ (k + 2 <= Len(b))
  <2>1. ValueAt(language, b, f, k) = Incomplete
    <3>1. FindCrLf(b, k) = 0
      BY <1>1, <1>2, <1>4, NumberFound
    <3> QED
      BY <3>1 DEF ValueAt
  <2> QED
    BY <1>2, <1>4, <2>1 DEF Reads
<1> QED
  BY <1>3, <1>4

LEMMA BulkRead ==
  ASSUME NEW language, NEW b \in Seq(Unit), NEW k \in 0 .. Len(b), NEW f,
         NEW q \in Seq(Chars(language)), Holds(b, k, WriteBulk(q))
  PROVE  Reads(b, k, WriteBulk(q), ValueAt(language, b, f, k), Bulk(q))
<1> DEFINE L == Len(q)
<1>1. L \in Nat /\ Len(b) \in Nat /\ k \in Nat
  OBVIOUS
<1>2. q \in Seq(Bytes)
  <2>1. Chars(language) \subseteq Bytes
    BY DEF Chars
  <2>2. \A j \in 1 .. L : q[j] \in Bytes
    BY <2>1, ElementOfSeq
  <2> QED
    BY <1>1, <2>2
<1>3. /\ Len(WriteBulk(q)) = L + 3
      /\ WriteBulk(q)[1] = NumberLine("$", L) /\ WriteBulk(q)[2] = CrLf
      /\ \A j \in 1 .. L : WriteBulk(q)[2 + j] = Byte(q[j])
  BY <1>2, BulkWritten
<1> HIDE DEF L
<1>4. \A i \in 1 .. L + 3 : k + i <= Len(b) => b[k + i] = WriteBulk(q)[i]
  BY <1>3 DEF Holds
<1>5. /\ k + 1 <= Len(b) => b[k + 1] = NumberLine("$", L)
      /\ k + 2 <= Len(b) => b[k + 2] = CrLf
  BY <1>1, <1>3, <1>4
<1>6. "$" \in Types /\ L \in Int
  BY <1>1 DEF Types
<1>7. CASE ~ (k + 2 <= Len(b))
  <2>1. ValueAt(language, b, f, k) = Incomplete
    BY <1>5, <1>6, <1>7, NumberFound DEF ValueAt
  <2> QED
    BY <1>1, <1>3, <1>7, <2>1 DEF Reads
<1>8. CASE k + 2 <= Len(b)
  <2> DEFINE s == SubSeq(b, (k + 2) + 1, (k + 2) + L)
             e == k + 2
             v == Bulk(Kept(language, s))
  <2>1. FindCrLf(b, k) = e /\ e # 0 /\ TypeOf(b[k + 1]) = "$" /\ b[k + 1][4] = L
    BY <1>5, <1>6, <1>8, NumberFound
  <2>2. ValueAt(language, b, f, k) =
          IF e + L + 1 > Len(b) THEN Incomplete ELSE Whole(e + L + 1, v)
    <3>1. ~ (L < 0)
      BY <1>1
    <3> HIDE DEF e
    <3> QED
      BY <2>1, <3>1 DEF ValueAt, e
  <2>3. CASE e + L + 1 > Len(b)
    BY <1>1, <1>3, <2>2, <2>3 DEF Reads
  <2>4. CASE ~ (e + L + 1 > Len(b))
    <3>1. s \in Seq(Unit) /\ Len(s) = L /\ \A j \in 1 .. L : s[j] = b[(k + 2) + j]
      BY <1>1, <2>4
    <3>2. \A j \in 1 .. L : s[j] = Byte(q[j])
      <4> TAKE j \in 1 .. L
      <4>1. s[j] = b[k + (2 + j)]
        BY <1>1, <3>1
      <4>2. 2 + j \in 1 .. L + 3 /\ k + (2 + j) <= Len(b)
        BY <1>1, <2>4
      <4>3. b[k + (2 + j)] = WriteBulk(q)[2 + j]
        BY <1>4, <4>2
      <4> QED
        BY <1>3, <4>1, <4>3
    <3> HIDE DEF s
    <3>3. Kept(language, s) = q
      BY <3>1, <3>2, KeptWhole DEF L
    <3>4. ValueAt(language, b, f, k) = Whole(e + L + 1, Bulk(q))
      BY <2>2, <2>4, <3>3
    <3>5. e + L + 1 = k + (L + 3) /\ k + (L + 3) <= Len(b)
      BY <1>1, <2>4
    <3> QED
      BY <1>3, <3>4, <3>5 DEF Reads
  <2> QED
    BY <2>3, <2>4
<1> QED
  BY <1>7, <1>8

LEMMA OneWritten ==
  ASSUME NEW language, NEW v \in Simple(language)
  PROVE  WriteOne(v) \in Seq(Unit)
<1>1. CASE v \in {<<t, x>> : t \in {"+", "-"}, x \in OneLined}
  <2>1. PICK t \in {"+", "-"}, x \in OneLined : v = <<t, x>>
    BY <1>1
  <2>2. TextLine(t, x) \in Unit /\ CrLf \in Unit
    BY LinesAreUnits DEF Types, OneLined
  <2>3. WriteOne(v) = <<TextLine(t, x), CrLf>>
    BY <2>1 DEF WriteOne, WriteText, OneLined
  <2> QED
    BY <2>2, <2>3
<1>2. CASE v \in {<<":", n>> : n \in Int}
  <2>1. PICK n \in Int : v = <<":", n>>
    BY <1>2
  <2>2. NumberLine(":", n) \in Unit /\ CrLf \in Unit
    BY LinesAreUnits DEF Types
  <2>3. WriteOne(v) = <<NumberLine(":", n), CrLf>>
    BY <2>1 DEF WriteOne
  <2> QED
    BY <2>2, <2>3
<1>3. CASE v \in {Bulk(q) : q \in Seq(Chars(language))}
  <2>1. PICK q \in Seq(Chars(language)) : v = Bulk(q)
    BY <1>3
  <2>2. q \in Seq(Bytes)
    <3>1. \A j \in 1 .. Len(q) : q[j] \in Bytes
      BY ElementOfSeq DEF Chars
    <3> QED
      BY <3>1
  <2>3. WriteOne(v) = WriteBulk(q)
    BY <2>1 DEF WriteOne, Bulk
  <2> QED
    BY <2>2, <2>3, BulkWritten
<1>4. CASE v = Nil
  <2>1. NumberLine("$", -1) \in Unit /\ CrLf \in Unit
    BY LinesAreUnits DEF Types
  <2>2. WriteOne(v) = <<NumberLine("$", -1), CrLf>>
    BY <1>4 DEF WriteOne, Nil
  <2> QED
    BY <2>1, <2>2
<1> QED
  BY <1>1, <1>2, <1>3, <1>4 DEF Simple

LEMMA OneRead ==
  ASSUME NEW language, NEW b \in Seq(Unit), NEW k \in 0 .. Len(b), NEW f,
         NEW v \in Simple(language), Holds(b, k, WriteOne(v))
  PROVE  Reads(b, k, WriteOne(v), ValueAt(language, b, f, k), v)
<1>1. CASE v \in {<<t, x>> : t \in {"+", "-"}, x \in OneLined}
  <2>1. PICK t \in {"+", "-"}, x \in OneLined : v = <<t, x>>
    BY <1>1
  <2>2. WriteOne(v) = <<TextLine(t, x), CrLf>>
    BY <2>1 DEF WriteOne, WriteText, OneLined
  <2> QED
    BY <2>1, <2>2, TextRead DEF OneLined
<1>2. CASE v \in {<<":", n>> : n \in Int}
  <2>1. PICK n \in Int : v = <<":", n>>
    BY <1>2
  <2>2. WriteOne(v) = <<NumberLine(":", n), CrLf>>
    BY <2>1 DEF WriteOne
  <2> QED
    BY <2>1, <2>2, NumberRead
<1>3. CASE v \in {Bulk(q) : q \in Seq(Chars(language))}
  <2>1. PICK q \in Seq(Chars(language)) : v = Bulk(q)
    BY <1>3
  <2>2. WriteOne(v) = WriteBulk(q)
    BY <2>1 DEF WriteOne, Bulk
  <2> QED
    BY <2>1, <2>2, BulkRead
<1>4. CASE v = Nil
  <2>1. WriteOne(v) = <<NumberLine("$", -1), CrLf>>
    BY <1>4 DEF WriteOne, Nil
  <2> QED
    BY <1>4, <2>1, NilRead
<1> QED
  BY <1>1, <1>2, <1>3, <1>4 DEF Simple

\* The items of an array, read from its end on: the item j ends at P[j].
LEMMA ItemsRead ==
  ASSUME NEW language, NEW b \in Seq(Unit), NEW q \in Seq(Simple(language)),
         NEW P \in [0 .. Len(q) -> Nat],
         \A j \in 0 .. Len(q) : 0 < P[j] /\ P[j] <= P[Len(q)],
         \A j \in 1 .. Len(q) : /\ P[j] = P[j - 1] + Len(WriteOne(q[j]))
                                /\ Holds(b, P[j - 1], WriteOne(q[j]))
  PROVE  \A j \in 0 .. Len(q) : P[j] <= Len(b) =>
           Items(language, b)[<<Len(q) - j, P[j]>>] =
             IF P[Len(q)] <= Len(b) THEN Whole(P[Len(q)], SubSeq(q, j + 1, Len(q)))
               ELSE Incomplete
<1> DEFINE N  == Len(q)
           It == Items(language, b)
           R(j) == IF P[N] <= Len(b) THEN Whole(P[N], SubSeq(q, j + 1, N)) ELSE Incomplete
           S == {j \in 0 .. N : P[j] <= Len(b) => It[<<N - j, P[j]>>] = R(j)}
<1>1. N \in Nat /\ Len(b) \in Nat
  OBVIOUS
<1>2. \A n \in Nat : \A k \in 0 .. Len(b) : It[<<n, k>>] = ItemsAt(language, b, It, n, k)
  BY ItemsEquation
<1> HIDE DEF It
<1>3. N \in S
  <2>1. ASSUME P[N] <= Len(b) PROVE It[<<N - N, P[N]>>] = R(N)
    <3>1. N - N = 0 /\ P[N] \in 0 .. Len(b)
      BY <1>1, <2>1
    <3>2. It[<<0, P[N]>>] = ItemsAt(language, b, It, 0, P[N])
      BY <1>2, <3>1
    <3>3. ItemsAt(language, b, It, 0, P[N]) = Whole(P[N], <<>>)
      BY DEF ItemsAt
    <3>4. SubSeq(q, N + 1, N) = <<>>
      BY <1>1
    <3> QED
      BY <2>1, <3>1, <3>2, <3>3, <3>4
  <2> QED
    BY <1>1, <2>1
<1>4. ASSUME NEW j \in 0 .. N - 1, j + 1 \in S PROVE j \in S
  <2>1. ASSUME P[j] <= Len(b) PROVE It[<<N - j, P[j]>>] = R(j)
    <3> DEFINE one == ValueAt(language, b, It, P[j])
               v   == q[j + 1]
               n   == N - j
    <3>1. j + 1 \in 1 .. N /\ (j + 1) - 1 = j /\ n \in Nat /\ n # 0 /\ N - (j + 1) = n - 1
      BY <1>1
    <3>2. v \in Simple(language)
      BY <3>1, ElementOfSeq
    <3> HIDE DEF v, n, one
    <3>a. j \in 0 .. N /\ j + 1 \in 0 .. N
      BY <1>1
    <3>b. P[j] \in Nat /\ P[j + 1] \in Nat
      BY <3>a
    <3>3. P[j] \in 0 .. Len(b) /\ P[j + 1] \in Nat
      BY <1>1, <2>1, <3>b
    <3>4. /\ P[j + 1] = P[j] + Len(WriteOne(v))
          /\ Holds(b, P[j], WriteOne(v))
      BY <3>1 DEF v
    <3>5. Reads(b, P[j], WriteOne(v), one, v)
      BY <3>2, <3>3, <3>4, OneRead DEF one
    <3>6. one = IF P[j + 1] <= Len(b) THEN Whole(P[j + 1], v) ELSE Incomplete
      BY <3>4, <3>5 DEF Reads
    <3>7. It[<<n, P[j]>>] = ItemsAt(language, b, It, n, P[j])
      BY <1>2, <3>1, <3>3
    <3>8. CASE ~ (P[j + 1] <= Len(b))
      <4>1. one = Incomplete
        BY <3>6, <3>8
      <4>2. ItemsAt(language, b, It, n, P[j]) = one
        BY <3>1, <4>1 DEF ItemsAt, one, Incomplete
      <4>3. R(j) = Incomplete
        <5>1. P[j + 1] <= P[N]
          BY <3>a
        <5>2. P[N] \in Nat
          BY <1>1
        <5> QED
          BY <1>1, <3>3, <3>8, <5>1, <5>2
      <4> QED
        BY <3>7, <4>1, <4>2, <4>3 DEF n
    <3>9. CASE P[j + 1] <= Len(b)
      <4> DEFINE r == It[<<n - 1, P[j + 1]>>]
      <4>1. one.n = P[j + 1] /\ one.v = v /\ P[j + 1] > 0
        BY <3>1, <3>6, <3>9 DEF Whole
      <4>2. r = R(j + 1)
        BY <1>4, <3>1, <3>9
      <4> HIDE DEF r
      <4>3. ItemsAt(language, b, It, n, P[j]) =
              IF r.n <= 0 THEN r ELSE Whole(r.n, <<v>> \o r.v)
        <5>1. ~ (one.n <= 0)
          BY <3>3, <4>1
        <5>2. r = It[<<n - 1, one.n>>]
          BY <4>1 DEF r
        <5> QED
          BY <3>1, <4>1, <5>1, <5>2 DEF ItemsAt, one
      <4>4. CASE P[N] <= Len(b)
        <5>1. r = Whole(P[N], SubSeq(q, (j + 1) + 1, N))
          BY <4>2, <4>4
        <5>2. P[N] > 0 /\ P[N] \in Nat
          BY <1>1
        <5>3. r.n = P[N] /\ r.v = SubSeq(q, (j + 1) + 1, N) /\ ~ (r.n <= 0)
          BY <5>1, <5>2 DEF Whole
        <5>4. <<v>> \o SubSeq(q, (j + 1) + 1, N) = SubSeq(q, j + 1, N)
          BY <1>1, <3>1 DEF v
        <5>5. ItemsAt(language, b, It, n, P[j]) = Whole(P[N], SubSeq(q, j + 1, N))
          BY <4>3, <5>3, <5>4
        <5> QED
          BY <3>7, <4>4, <5>5 DEF n
      <4>5. CASE ~ (P[N] <= Len(b))
        <5>1. r = Incomplete
          BY <4>2, <4>5
        <5>2. ItemsAt(language, b, It, n, P[j]) = Incomplete
          BY <4>3, <5>1 DEF Incomplete
        <5> QED
          BY <3>7, <4>5, <5>2 DEF n
      <4> QED
        BY <4>4, <4>5
    <3> QED
      BY <3>8, <3>9
  <2> QED
    BY <1>1, <2>1
<1> HIDE DEF S
<1>5. \A j \in 0 .. N : j \in S
  BY <1>1, <1>3, <1>4, Downwards
<1> QED
  BY <1>5 DEF S, It

LEMMA ArrayWritten ==
  ASSUME NEW language, NEW q \in Seq(Simple(language))
  PROVE  /\ WriteArray(q) \in Seq(Unit)
         /\ \E P \in [0 .. Len(q) -> Nat] :
              /\ P[0] = 2 /\ P[Len(q)] = Len(WriteArray(q))
              /\ \A j \in 0 .. Len(q) : 0 < P[j] /\ P[j] <= P[Len(q)]
              /\ \A j \in 1 .. Len(q) :
                   /\ P[j] = P[j - 1] + Len(WriteOne(q[j]))
                   /\ \A i \in 1 .. Len(WriteOne(q[j])) :
                        WriteArray(q)[P[j - 1] + i] = WriteOne(q[j])[i]
         /\ WriteArray(q)[1] = NumberLine("*", Len(q)) /\ WriteArray(q)[2] = CrLf
<1> DEFINE N == Len(q)
           s == [j \in 1 .. N |-> WriteOne(q[j])]
           h == <<NumberLine("*", N), CrLf>>
<1>1. N \in Nat /\ DOMAIN q = 1 .. N
  OBVIOUS
<1>2. s \in Seq(Seq(Unit)) /\ Len(s) = N /\ \A j \in 1 .. N : s[j] = WriteOne(q[j])
  <2>1. \A j \in 1 .. N : WriteOne(q[j]) \in Seq(Unit)
    BY ElementOfSeq, OneWritten
  <2> DEFINE T == Seq(Unit)
  <2> HIDE DEF N, T
  <2>2. s \in Seq(T) /\ Len(s) = N
    BY <1>1, <2>1 DEF T
  <2> QED
    BY <2>2 DEF T
<1>3. h \in Seq(Unit) /\ Len(h) = 2 /\ h[1] = NumberLine("*", N) /\ h[2] = CrLf
  <2>1. NumberLine("*", N) \in Unit /\ CrLf \in Unit
    BY <1>1, LinesAreUnits DEF Types
  <2> QED
    BY <2>1
<1>4. WriteArray(q) = h \o FlattenSeq(s)
  BY <1>1, Zenon DEF WriteArray
<1> HIDE DEF s, h
<1>5. PICK w : /\ w \in [0 .. Len(s) -> Seq(Unit)] /\ Joins(w, s)
               /\ FlattenSeq(s) = w[Len(s)]
  BY <1>2, Flattens
<1>6. PartsAt(w, s)
  <2>1. PICK x \in Seq(Seq(Unit)) : x = s
    BY <1>2
  <2>2. w \in [0 .. Len(x) -> Seq(Unit)] /\ Joins(w, x)
    BY <1>5, <2>1
  <2>3. PartsAt(w, x)
    BY <2>2, JoinedParts
  <2> QED
    BY <2>1, <2>3
<1> DEFINE L == [j \in 0 .. N |-> Len(w[j])]
           M == [j \in 1 .. N |-> Len(s[j])]
           P == [j \in 0 .. N |-> 2 + L[j]]
           W == WriteArray(q)
<1>7. /\ L \in [0 .. N -> Nat] /\ \A j \in 0 .. N : L[j] = Len(w[j])
      /\ L[0] = 0
  <2>1. \A j \in 0 .. N : Len(w[j]) \in Nat
    BY <1>2, <1>5
  <2>2. Len(w[0]) = 0
    BY <1>5 DEF Joins
  <2> HIDE DEF N
  <2> QED
    BY <1>1, <2>1, <2>2
<1>8. M \in [1 .. N -> Nat] /\ \A j \in 1 .. N : M[j] = Len(s[j])
  <2>1. ASSUME NEW j \in 1 .. N PROVE Len(s[j]) \in Nat
    <3>1. s[j] \in Seq(Unit)
      BY <1>2, ElementOfSeq
    <3> QED
      BY <3>1
  <2> QED
    BY <2>1
<1>9. /\ W \in Seq(Unit) /\ Len(W) = 2 + L[N]
      /\ \A i \in 1 .. L[N] : W[2 + i] = w[N][i]
      /\ W[1] = h[1] /\ W[2] = h[2]
  <2>1. PICK u \in Seq(Unit) : u = w[N]
    BY <1>1, <1>2, <1>5
  <2>2. /\ h \o u \in Seq(Unit) /\ Len(h \o u) = Len(h) + Len(u)
        /\ \A i \in 1 .. Len(u) : (h \o u)[Len(h) + i] = u[i]
        /\ \A i \in 1 .. Len(h) : (h \o u)[i] = h[i]
    BY <1>3, Joined
  <2>3. W = h \o u
    BY <1>2, <1>4, <1>5, <2>1
  <2>4. L[N] = Len(u)
    BY <1>1, <1>7, <2>1
  <2> HIDE DEF W, L
  <2> QED
    BY <1>3, <2>1, <2>2, <2>3, <2>4
<1> HIDE DEF W
<1>10. /\ \A j \in 1 .. N : L[j] = L[j - 1] + M[j]
       /\ \A j \in 0 .. N : L[j] <= L[N]
       /\ \A j \in 1 .. N : \A i \in 1 .. M[j] : w[N][L[j - 1] + i] = s[j][i]
  <2>1. \A j \in 1 .. N : j \in 0 .. N /\ j - 1 \in 0 .. N
    BY <1>1
  <2>2. N \in 0 .. N
    BY <1>1
  <2>a. PartsAt(w, s)
    BY <1>6
  <2> HIDE DEF L, M, N
  <2>b. /\ \A j \in 1 .. Len(s) : Len(w[j]) = Len(w[j - 1]) + Len(s[j])
        /\ \A j \in 0 .. Len(s) : Len(w[j]) <= Len(w[Len(s)])
        /\ \A j \in 1 .. Len(s) : \A i \in 1 .. Len(s[j]) :
              w[Len(s)][Len(w[j - 1]) + i] = s[j][i]
    BY <2>a, Zenon DEF PartsAt
  <2>3. ASSUME NEW j \in 1 .. N PROVE L[j] = L[j - 1] + M[j]
    BY <1>2, <2>b, <1>7, <1>8, <2>1
  <2>4. \A j \in 0 .. N : L[j] <= L[N]
    BY <1>2, <2>b, <1>7, <2>2
  <2>5. ASSUME NEW j \in 1 .. N, NEW i \in 1 .. M[j]
        PROVE  w[N][L[j - 1] + i] = s[j][i]
    <3>1. M[j] = Len(s[j]) /\ L[j - 1] = Len(w[j - 1])
      BY <1>7, <1>8, <2>1
    <3> QED
      BY <1>2, <2>b, <3>1, Zenon
  <2> QED
    BY <2>3, <2>4, <2>5
<1> HIDE DEF L, M, N
<1>11. /\ P \in [0 .. N -> Nat]
       /\ \A j \in 0 .. N : P[j] = 2 + L[j]
  BY <1>7
<1> HIDE DEF P
<1>12. /\ P[0] = 2 /\ P[N] = Len(W)
       /\ \A j \in 0 .. N : 0 < P[j] /\ P[j] <= P[N]
  BY <1>1, <1>7, <1>9, <1>10, <1>11
<1>13. ASSUME NEW j \in 1 .. N
       PROVE  /\ P[j] = P[j - 1] + M[j]
              /\ \A i \in 1 .. M[j] : W[P[j - 1] + i] = s[j][i]
  <2>1. j \in 0 .. N /\ j - 1 \in 0 .. N /\ N \in 0 .. N
    BY <1>1
  <2>2. P[j] = 2 + L[j] /\ P[j - 1] = 2 + L[j - 1]
    BY <1>11, <2>1
  <2>3. L[j] \in Nat /\ L[j - 1] \in Nat /\ L[N] \in Nat /\ M[j] \in Nat
    BY <1>7, <1>8, <2>1
  <2>4. L[j] = L[j - 1] + M[j] /\ L[j] <= L[N]
    BY <1>10, <2>1
  <2>5. ASSUME NEW i \in 1 .. M[j] PROVE W[P[j - 1] + i] = s[j][i]
    <3>1. L[j - 1] + i \in 1 .. L[N] /\ P[j - 1] + i = 2 + (L[j - 1] + i)
      <4> DEFINE a == L[j - 1]
                 c == M[j]
                 z == L[N]
                 p == P[j - 1]
      <4>1. /\ a \in Nat /\ c \in Nat /\ z \in Nat /\ a + c <= z /\ p = 2 + a
            /\ i \in 1 .. c
        BY <2>2, <2>3, <2>4
      <4> HIDE DEF a, c, z, p
      <4>2. a + i \in 1 .. z /\ p + i = 2 + (a + i)
        BY <4>1
      <4> QED
        BY <4>2 DEF a, z, p
    <3>2. W[2 + (L[j - 1] + i)] = w[N][L[j - 1] + i]
      BY <1>9, <3>1
    <3>3. w[N][L[j - 1] + i] = s[j][i]
      BY <1>10
    <3> QED
      BY <3>1, <3>2, <3>3
  <2> QED
    BY <2>2, <2>3, <2>4, <2>5
<1>14. \A j \in 1 .. N : M[j] = Len(WriteOne(q[j])) /\ s[j] = WriteOne(q[j])
  BY <1>2, <1>8
<1>15. \A j \in 1 .. N :
         /\ P[j] = P[j - 1] + Len(WriteOne(q[j]))
         /\ \A i \in 1 .. Len(WriteOne(q[j])) : W[P[j - 1] + i] = WriteOne(q[j])[i]
  <2> TAKE j \in 1 .. N
  <2>1. M[j] = Len(WriteOne(q[j])) /\ s[j] = WriteOne(q[j])
    BY <1>14
  <2>2. /\ P[j] = P[j - 1] + M[j]
        /\ \A i \in 1 .. M[j] : W[P[j - 1] + i] = s[j][i]
    BY <1>13
  <2> QED
    BY <2>1, <2>2, Zenon
<1> QED
  BY <1>3, <1>9, <1>11, <1>12, <1>15 DEF W, N

LEMMA ArrayRead ==
  ASSUME NEW language, NEW b \in Seq(Unit), NEW q \in Seq(Simple(language)),
         Holds(b, 0, WriteArray(q))
  PROVE  Reads(b, 0, WriteArray(q), Parser(language, b), Array(q))
<1> DEFINE N  == Len(q)
           W  == WriteArray(q)
           It == Items(language, b)
<1>1. N \in Nat /\ Len(b) \in Nat
  OBVIOUS
<1>2. PICK P \in [0 .. N -> Nat] :
        /\ P[0] = 2 /\ P[N] = Len(W)
        /\ \A j \in 0 .. N : 0 < P[j] /\ P[j] <= P[N]
        /\ \A j \in 1 .. N :
             /\ P[j] = P[j - 1] + Len(WriteOne(q[j]))
             /\ \A i \in 1 .. Len(WriteOne(q[j])) : W[P[j - 1] + i] = WriteOne(q[j])[i]
  BY ArrayWritten
<1>3. W[1] = NumberLine("*", N) /\ W[2] = CrLf
  BY ArrayWritten
<1>4. \A i \in 1 .. Len(W) : i <= Len(b) => b[i] = W[i]
  <2>1. \A i \in 1 .. Len(W) : 0 + i <= Len(b) => b[0 + i] = W[i]
    BY DEF Holds
  <2> TAKE i \in 1 .. Len(W)
  <2>2. 0 + i = i
    OBVIOUS
  <2> QED
    BY <2>1, <2>2, Zenon
<1> HIDE DEF W, N
<1>5. P[0] <= P[N] /\ P[N] \in Nat /\ Len(W) = P[N]
  BY <1>1, <1>2
<1>6. /\ 0 + 1 <= Len(b) => b[0 + 1] = NumberLine("*", N)
      /\ 0 + 2 <= Len(b) => b[0 + 2] = CrLf
  BY <1>1, <1>2, <1>3, <1>4, <1>5
<1>7. ASSUME NEW j \in 1 .. N PROVE Holds(b, P[j - 1], WriteOne(q[j]))
  <2>1. WriteOne(q[j]) \in Seq(Unit)
    BY ElementOfSeq, OneWritten DEF N
  <2>2. Len(WriteOne(q[j])) \in Nat
    BY <2>1
  <2>3. j \in 0 .. N /\ j - 1 \in 0 .. N
    BY <1>1
  <2>4. P[j] \in Nat /\ P[j - 1] \in Nat /\ P[j] <= P[N]
    BY <1>2, <2>3
  <2>5. ASSUME NEW i \in 1 .. Len(WriteOne(q[j])), P[j - 1] + i <= Len(b)
        PROVE  b[P[j - 1] + i] = WriteOne(q[j])[i]
    <3> DEFINE a == P[j - 1]
               c == Len(WriteOne(q[j]))
    <3>1. a \in Nat /\ c \in Nat /\ a + c <= P[N] /\ i \in 1 .. c /\ P[N] \in Nat
      BY <1>2, <1>5, <2>2, <2>4
    <3> HIDE DEF a, c
    <3>2. a + i \in 1 .. P[N]
      BY <3>1
    <3>3. a + i \in 1 .. Len(W)
      BY <1>5, <3>2
    <3>4. b[a + i] = W[a + i]
      BY <1>4, <2>5, <3>3 DEF a
    <3>5. W[a + i] = WriteOne(q[j])[i]
      BY <1>2 DEF a
    <3> QED
      BY <3>4, <3>5 DEF a
  <2> QED
    BY <2>5 DEF Holds
<1>8. P[0] <= Len(b) =>
        It[<<N, 2>>] = IF Len(W) <= Len(b) THEN Whole(Len(W), q) ELSE Incomplete
  <2>1. \A j \in 0 .. N : P[j] <= Len(b) =>
          It[<<N - j, P[j]>>] =
            IF P[N] <= Len(b) THEN Whole(P[N], SubSeq(q, j + 1, N)) ELSE Incomplete
    <3>1. \A j \in 1 .. N : /\ P[j] = P[j - 1] + Len(WriteOne(q[j]))
                            /\ Holds(b, P[j - 1], WriteOne(q[j]))
      BY <1>2, <1>7
    <3>2. \A j \in 0 .. N : 0 < P[j] /\ P[j] <= P[N]
      BY <1>2
    <3>3. P \in [0 .. N -> Nat]
      BY <1>2
    <3> QED
      BY <3>1, <3>2, <3>3, ItemsRead DEF N
  <2>2. SubSeq(q, 0 + 1, N) = q /\ N - 0 = N /\ 0 \in 0 .. N
    BY <1>1 DEF N
  <2> QED
    BY <1>2, <2>1, <2>2
<1> HIDE DEF It
<1>9. Parser(language, b) = ValueAt(language, b, It, 0)
  BY DEF Parser, It
<1>10. "*" \in Types /\ N \in Int /\ 0 \in 0 .. Len(b)
  BY <1>1 DEF Types
<1>11. CASE ~ (0 + 2 <= Len(b))
  <2>1. FindCrLf(b, 0) = 0
    BY <1>6, <1>10, <1>11, NumberFound
  <2>2. ValueAt(language, b, It, 0) = Incomplete
    BY <2>1 DEF ValueAt
  <2> QED
    BY <1>1, <1>2, <1>5, <1>9, <1>11, <2>2 DEF Reads, W
<1>12. CASE 0 + 2 <= Len(b)
  <2> DEFINE r == It[<<N, 2>>]
             t == "*"
  <2> HIDE DEF t
  <2>1. FindCrLf(b, 0) = 0 + 2 /\ TypeOf(b[0 + 1]) = t /\ b[0 + 1][4] = N
    <3>1. t \in Types
      BY <1>10 DEF t
    <3>2. 0 + 1 <= Len(b) => b[0 + 1] = NumberLine(t, N)
      BY <1>6 DEF t
    <3> QED
      BY <1>6, <1>10, <1>12, <3>1, <3>2, NumberFound
  <2>2. r = IF Len(W) <= Len(b) THEN Whole(Len(W), q) ELSE Incomplete
    BY <1>2, <1>8, <1>12
  <2> HIDE DEF r
  <2>3. ValueAt(language, b, It, 0) = IF r.n <= 0 THEN r ELSE Whole(r.n, Array(r.v))
    <3>1. ~ (N < 0) /\ 0 + 2 = 2 /\ 0 + 2 # 0
      BY <1>1
    <3> QED
      BY <2>1, <3>1 DEF ValueAt, r, t
  <2>4. CASE Len(W) <= Len(b)
    <3>1. r.n = Len(W) /\ r.v = q /\ ~ (r.n <= 0)
      BY <1>2, <1>5, <2>2, <2>4 DEF Whole
    <3>2. ValueAt(language, b, It, 0) = Whole(Len(W), Array(q))
      BY <2>3, <3>1
    <3>3. 0 + Len(W) = Len(W)
      BY <1>5
    <3> QED
      BY <1>9, <2>4, <3>2, <3>3 DEF Reads, W
  <2>5. CASE ~ (Len(W) <= Len(b))
    <3>1. ValueAt(language, b, It, 0) = Incomplete
      BY <2>2, <2>3, <2>5 DEF Incomplete
    <3>2. 0 + Len(W) = Len(W)
      BY <1>5
    <3> QED
      BY <1>9, <2>5, <3>1, <3>2 DEF Reads, W
  <2> QED
    BY <2>4, <2>5
<1> QED
  BY <1>11, <1>12

LEMMA SimpleWritten ==
  ASSUME NEW language, NEW v \in Simple(language)
  PROVE  Write(v) = WriteOne(v)
<1>1. v[1] # "*"
  BY DEF Simple, Bulk, Nil
<1> QED
  BY <1>1 DEF Write

LEMMA ValueWritten ==
  ASSUME NEW language, NEW v \in Readable(language)
  PROVE  Write(v) \in Seq(Unit)
<1>1. CASE v \in Simple(language)
  BY <1>1, SimpleWritten, OneWritten
<1>2. CASE v \in {Array(q) : q \in Seq(Simple(language))}
  <2>1. PICK q \in Seq(Simple(language)) : v = Array(q)
    BY <1>2
  <2>2. Write(v) = WriteArray(q)
    BY <2>1 DEF Write, Array
  <2> QED
    BY <2>2, ArrayWritten
<1> QED
  BY <1>1, <1>2 DEF Readable

\* resp_parse (resp.c:87-179), parse_resp (cli.c:60-134) and parseRESP
\* (proxy.js:28-62): of a buffer that begins with what was written for a value, or is
\* the beginning of it, the parser takes that value and exactly the units it
\* was written in, and waits for more as long as one of them is missing.
THEOREM WholeValuesAreRead ==
  ASSUME NEW language, NEW b \in Seq(Unit), NEW v \in Readable(language),
         \A i \in 1 .. Len(Write(v)) : i <= Len(b) => b[i] = Write(v)[i]
  PROVE  Parser(language, b) =
           IF Len(Write(v)) <= Len(b) THEN Whole(Len(Write(v)), v) ELSE Incomplete
<1>1. Write(v) \in Seq(Unit)
  BY ValueWritten
<1>2. \A i \in Nat : 0 + i = i
  OBVIOUS
<1>3. Holds(b, 0, Write(v))
  BY <1>1, <1>2 DEF Holds
<1>4. Reads(b, 0, Write(v), Parser(language, b), v)
  <2>1. CASE v \in Simple(language)
    <3>1. Write(v) = WriteOne(v) /\ 0 \in 0 .. Len(b)
      BY <2>1, SimpleWritten
    <3> QED
      BY <1>3, <2>1, <3>1, OneRead DEF Parser
  <2>2. CASE v \in {Array(q) : q \in Seq(Simple(language))}
    <3>1. PICK q \in Seq(Simple(language)) : v = Array(q)
      BY <2>2
    <3>2. Write(v) = WriteArray(q)
      BY <3>1 DEF Write, Array
    <3> QED
      BY <1>3, <3>1, <3>2, ArrayRead
  <2> QED
    BY <2>1, <2>2 DEF Readable
<1>5. 0 + Len(Write(v)) = Len(Write(v))
  BY <1>1
<1> QED
  BY <1>4, <1>5 DEF Reads
=============================================================================
