------------------------------- MODULE ListProofs -------------------------------
(***************************************************************************)
(* Theorems about List, for any number of nodes and any values: between    *)
(* calls the chains, the length and the allocated nodes agree, and a walk  *)
(* that a signal handler starts at any statement of a push or a pop is     *)
(* safe and finds the list before or after the call.                       *)
(*                                                                         *)
(* The invariant names the path through the nodes, as seen from the end    *)
(* that the call works on: push and pop at the tail are push and pop at    *)
(* the head of the path turned round.                                      *)
(***************************************************************************)
EXTENDS List, SequenceTheorems, FiniteSetTheorems,
        FunctionTheorems, WellFoundedInduction, TLAPS

Distinct(p) == \A i, j \in 1 .. Len(p) : p[i] = p[j] => i = j
Paths == {p \in Seq(Nodes) : Distinct(p)}

\* The node at the place i of a path; NULL before its start and behind its end.
At(p, i) == IF i \in 1 .. Len(p) THEN p[i] ELSE Null

\* The nodes of p are allocated, and the link leads from each to the next.
Chain(p, link) ==
  \A i \in 1 .. Len(p) : p[i] \in Live /\ heap[p[i]][link] = At(p, i + 1)

-----------------------------------------------------------------------------
(* Walks                                                                   *)

LEMMA Least ==
  ASSUME NEW T, T \subseteq Nat, T # {}
  PROVE  \E x \in T : \A y \in T : x <= y
<1>1. \E x \in T : \A y \in T : ~ (<<y, x>> \in OpToRel(<, Nat))
  BY NatLessThanWellFounded, WFMin
<1>2. PICK x \in T : \A y \in T : ~ (<<y, x>> \in OpToRel(<, Nat))
  BY <1>1
<1>3. \A y \in T : ~ (y < x)
  BY <1>2 DEF OpToRel
<1> QED
  BY <1>3

\* A path is no longer than there are nodes.
LEMMA PathLength ==
  ASSUME NEW p \in Paths
  PROVE  Len(p) \in Nat /\ Len(p) <= Cardinality(Nodes) /\ Cardinality(Nodes) \in Nat
<1>1. p \in Seq(Nodes) /\ Len(p) \in Nat /\ DOMAIN p = 1 .. Len(p) /\ p \in [1 .. Len(p) -> Nodes]
  BY DEF Paths
<1>2. p \in Injection(1 .. Len(p), Nodes)
  BY <1>1, Fun_IsInj DEF Paths, Distinct
<1>3. Cardinality(1 .. Len(p)) <= Cardinality(Nodes)
  BY <1>2, FS_Injection, ListAssumption
<1>4. Cardinality(1 .. Len(p)) = Len(p)
  BY <1>1, FS_Interval
<1> QED
  BY <1>1, <1>3, <1>4, FS_CardinalityType, ListAssumption

\* A walk from the start of a chain is good and meets just its nodes.
LEMMA MetChain ==
  ASSUME NEW p \in Paths, NEW link, Chain(p, link)
  PROVE  Met(At(p, 1), link) = [good |-> TRUE, nodes |-> p]
<1> DEFINE L    == Len(p)
           most == Cardinality(Nodes) + 1
           Walks(f) == f = [k \in 0 .. most |->
                              IF k = 0 THEN At(p, 1)
                                ELSE IF f[k - 1] \in Live THEN heap[f[k - 1]][link]
                                       ELSE f[k - 1]]
           at   == CHOOSE f : Walks(f)
           g    == [k \in 0 .. most |-> At(p, k + 1)]
<1>1. L \in Nat /\ L < most /\ most \in Nat
  BY PathLength
<1>2. Null \notin Live /\ Live \subseteq Nodes
  BY ListAssumption DEF Live
<1>3. p \in Seq(Nodes) /\ DOMAIN p = 1 .. L
  BY DEF Paths
<1> HIDE DEF L, most
<1>4. \A k \in 1 .. L : At(p, k) = p[k] /\ p[k] \in Live /\ heap[p[k]][link] = At(p, k + 1)
  BY DEF Chain, At, L
<1>5. \A k \in Nat : k > L \/ k = 0 => At(p, k) = Null
  BY <1>1 DEF At, L
<1>6. Walks(g)
  <2>1. \A k \in 0 .. most : k # 0 => k - 1 \in 0 .. most /\ g[k - 1] = At(p, k)
    BY <1>1
  <2>2. ASSUME NEW k \in 0 .. most, k # 0
        PROVE  At(p, k + 1) = IF At(p, k) \in Live THEN heap[At(p, k)][link] ELSE At(p, k)
    <3>1. CASE k \in 1 .. L
      BY <1>4, <3>1
    <3>2. CASE k \notin 1 .. L
      <4>1. k > L /\ k + 1 > L /\ k \in Nat /\ k + 1 \in Nat
        BY <1>1, <2>2, <3>2
      <4>2. At(p, k) = Null /\ At(p, k + 1) = Null
        BY <1>5, <4>1
      <4> QED
        BY <1>2, <4>2
    <3> QED
      BY <3>1, <3>2
  <2>3. \A k \in 0 .. most :
          At(p, k + 1) = IF k = 0 THEN At(p, 1)
                           ELSE IF g[k - 1] \in Live THEN heap[g[k - 1]][link] ELSE g[k - 1]
    BY <2>1, <2>2
  <2> QED
    BY <2>3
<1>7. Walks(at)
  <2> HIDE DEF Walks, g
  <2> QED
    BY <1>6, Zenon
<1> HIDE DEF at
<1>8. \A k \in 0 .. most : at[k] = At(p, k + 1)
  <2> DEFINE T == {k \in 0 .. most : at[k] # At(p, k + 1)}
  <2> SUFFICES ASSUME T # {} PROVE FALSE
    OBVIOUS
  <2>1. T \subseteq Nat
    OBVIOUS
  <2>2. PICK x \in T : \A y \in T : x <= y
    <3> HIDE DEF T
    <3> QED
      BY <2>1, Least
  <2>3. x # 0
    BY <1>1, <1>7
  <2>4. x - 1 \in 0 .. most /\ x - 1 \notin T
    BY <1>1, <2>2, <2>3
  <2>5. at[x - 1] = At(p, x) /\ g[x - 1] = At(p, x)
    BY <1>1, <2>2, <2>3, <2>4
  <2>6. at[x] = IF at[x - 1] \in Live THEN heap[at[x - 1]][link] ELSE at[x - 1]
    BY <1>7, <2>3
  <2>7. g[x] = IF g[x - 1] \in Live THEN heap[g[x - 1]][link] ELSE g[x - 1]
    <3> HIDE DEF g
    <3> QED
      BY <1>6, <2>3
  <2>8. at[x] = g[x]
    BY <2>5, <2>6, <2>7
  <2> QED
    BY <2>2, <2>8
<1> DEFINE past == {k \in 0 .. most : at[k] \notin Live}
<1>9. past = L .. most
  <2>1. ASSUME NEW k \in 0 .. most PROVE at[k] \in Live <=> k < L
    <3>1. CASE k < L
      <4>1. k + 1 \in 1 .. L
        BY <1>1, <3>1
      <4> QED
        BY <1>4, <1>8, <3>1, <4>1
    <3>2. CASE ~ (k < L)
      <4>1. k + 1 > L /\ k + 1 \in Nat
        BY <1>1, <3>2
      <4> QED
        BY <1>2, <1>5, <1>8, <3>2, <4>1
    <3> QED
      BY <3>1, <3>2
  <2> QED
    BY <1>1, <2>1
<1>10. at[most] = Null
  BY <1>1, <1>5, <1>8
<1>11. Min(past) = L
  <2>1. L \in past /\ \A y \in past : L <= y
    BY <1>1, <1>9
  <2>2. \A x \in past : (\A y \in past : x <= y) => x = L
    BY <1>1, <1>9
  <2> HIDE DEF past
  <2> QED
    BY <2>1, <2>2 DEF Min
<1>12. past # {}
  BY <1>1, <1>9
<1>13. [k \in 1 .. L |-> at[k - 1]] = p
  <2>1. \A k \in 1 .. L : at[k - 1] = p[k]
    BY <1>1, <1>4, <1>8
  <2>2. p = [k \in 1 .. L |-> p[k]]
    BY <1>3
  <2> QED
    BY <2>1, <2>2
<1>14. Met(At(p, 1), link) =
         [good  |-> past # {} /\ at[most] = Null,
          nodes |-> IF past # {} /\ at[most] = Null
                      THEN [k \in 1 .. Min(past) |-> at[k - 1]] ELSE <<>>]
  BY Zenon DEF Met, at, most
<1> HIDE DEF past
<1>15. (past # {} /\ at[most] = Null) = TRUE
  BY <1>10, <1>12
<1> QED
  BY <1>11, <1>13, <1>14, <1>15

-----------------------------------------------------------------------------
(* Paths                                                                   *)

LEMMA PathType ==
  ASSUME NEW p \in Paths
  PROVE  /\ p \in Seq(Nodes) /\ Len(p) \in Nat /\ DOMAIN p = 1 .. Len(p)
         /\ \A i \in 1 .. Len(p) : p[i] \in Nodes
         /\ \A i \in Int : At(p, i) \in Nodes \cup {Null}
         /\ \A i, j \in 1 .. Len(p) : p[i] = p[j] => i = j
         /\ ToSet(p) = {p[i] : i \in 1 .. Len(p)}
<1>1. p \in Seq(Nodes) /\ Len(p) \in Nat /\ DOMAIN p = 1 .. Len(p)
  BY DEF Paths
<1>2. \A i \in 1 .. Len(p) : p[i] \in Nodes
  BY <1>1
<1>3. \A i, j \in 1 .. Len(p) : p[i] = p[j] => i = j
  BY DEF Paths, Distinct
<1>4. ToSet(p) = {p[i] : i \in 1 .. Len(p)}
  BY <1>1 DEF ToSet
<1> QED
  BY <1>1, <1>2, <1>3, <1>4 DEF At

LEMMA TailPath ==
  ASSUME NEW q \in Paths, Len(q) >= 1
  PROVE  /\ Tail(q) \in Paths /\ Len(Tail(q)) = Len(q) - 1
         /\ \A i \in 1 .. Len(q) - 1 : Tail(q)[i] = q[i + 1]
         /\ \A i \in 1 .. Len(q) : At(Tail(q), i) = At(q, i + 1)
         /\ ToSet(Tail(q)) = ToSet(q) \ {q[1]}
<1>0. q \in Seq(Nodes) /\ q # <<>> /\ Len(q) \in Nat
  BY PathType
<1>1. /\ Tail(q) \in Seq(Nodes) /\ Len(Tail(q)) = Len(q) - 1
      /\ \A i \in 1 .. Len(q) - 1 : Tail(q)[i] = q[i + 1]
  BY <1>0
<1>2. \A i, j \in 1 .. Len(q) - 1 : Tail(q)[i] = Tail(q)[j] => i = j
  <2> SUFFICES ASSUME NEW i \in 1 .. Len(q) - 1, NEW j \in 1 .. Len(q) - 1, Tail(q)[i] = Tail(q)[j]
               PROVE  i = j
    OBVIOUS
  <2>1. q[i + 1] = q[j + 1] /\ i + 1 \in 1 .. Len(q) /\ j + 1 \in 1 .. Len(q)
    BY <1>0, <1>1
  <2>2. i + 1 = j + 1
    BY <2>1, PathType
  <2> QED
    BY <2>2
<1>3. Tail(q) \in Paths
  BY <1>1, <1>2 DEF Paths, Distinct
<1>4. \A i \in 1 .. Len(q) : At(Tail(q), i) = At(q, i + 1)
  BY <1>0, <1>1 DEF At
<1>5. ToSet(Tail(q)) = ToSet(q) \ {q[1]}
  <2>1. ToSet(Tail(q)) = {Tail(q)[i] : i \in 1 .. Len(q) - 1}
    BY <1>1, <1>3, PathType
  <2>2. ToSet(q) = {q[i] : i \in 1 .. Len(q)}
    BY PathType
  <2>3. ASSUME NEW a \in ToSet(Tail(q)) PROVE a \in ToSet(q) /\ a # q[1]
    <3>1. PICK i \in 1 .. Len(q) - 1 : a = q[i + 1]
      BY <1>1, <2>1
    <3>2. i + 1 \in 1 .. Len(q) /\ 1 \in 1 .. Len(q) /\ i + 1 # 1
      BY <1>0
    <3>3. q[i + 1] # q[1]
      BY <3>2, PathType
    <3> QED
      BY <2>2, <3>1, <3>2, <3>3
  <2>4. ASSUME NEW a \in ToSet(q), a # q[1] PROVE a \in ToSet(Tail(q))
    <3>1. PICK i \in 1 .. Len(q) : a = q[i]
      BY <2>2
    <3>2. i # 1
      BY <2>4, <3>1
    <3>3. i - 1 \in 1 .. Len(q) - 1 /\ (i - 1) + 1 = i
      BY <1>0, <3>2
    <3>4. Tail(q)[i - 1] = a
      BY <1>1, <3>1, <3>3
    <3> QED
      BY <2>1, <3>3, <3>4
  <2> QED
    BY <2>3, <2>4
<1> QED
  BY <1>1, <1>3, <1>4, <1>5

LEMMA ReversePath ==
  ASSUME NEW p \in Paths
  PROVE  /\ Reverse(p) \in Paths /\ Len(Reverse(p)) = Len(p)
         /\ \A i \in 1 .. Len(p) : Reverse(p)[i] = p[Len(p) - i + 1]
         /\ \A i \in 0 .. Len(p) + 1 : At(Reverse(p), i) = At(p, Len(p) - i + 1)
         /\ ToSet(Reverse(p)) = ToSet(p)
         /\ Reverse(Reverse(p)) = p
<1>0. p \in Seq(Nodes) /\ Len(p) \in Nat /\ DOMAIN p = 1 .. Len(p)
  BY PathType
<1> DEFINE L == Len(p)
<1>1. Reverse(p) = [i \in 1 .. L |-> p[L - i + 1]]
  BY <1>0 DEF Reverse
<1>2. \A i \in 1 .. L : L - i + 1 \in 1 .. L
  BY <1>0
<1>3. Reverse(p) \in Seq(Nodes) /\ Len(Reverse(p)) = L /\ \A i \in 1 .. L : Reverse(p)[i] = p[L - i + 1]
  <2>1. [i \in 1 .. L |-> p[L - i + 1]] \in [1 .. L -> Nodes]
    BY <1>0, <1>2, PathType
  <2> QED
    BY <1>0, <1>1, <2>1
<1>4. Reverse(p) \in Paths
  <2> SUFFICES ASSUME NEW i \in 1 .. L, NEW j \in 1 .. L, Reverse(p)[i] = Reverse(p)[j]
               PROVE  i = j
    BY <1>3 DEF Paths, Distinct
  <2>1. p[L - i + 1] = p[L - j + 1]
    BY <1>3
  <2>2. L - i + 1 = L - j + 1
    BY <1>2, <2>1, PathType
  <2> QED
    BY <1>0, <2>2
<1>5. \A i \in 0 .. L + 1 : At(Reverse(p), i) = At(p, L - i + 1)
  <2> SUFFICES ASSUME NEW i \in 0 .. L + 1 PROVE At(Reverse(p), i) = At(p, L - i + 1)
    OBVIOUS
  <2>1. i \in 1 .. L <=> L - i + 1 \in 1 .. L
    BY <1>0
  <2> QED
    BY <1>3, <2>1 DEF At
<1>6. ToSet(Reverse(p)) = ToSet(p)
  <2>1. ToSet(Reverse(p)) = {Reverse(p)[i] : i \in 1 .. L} /\ ToSet(p) = {p[i] : i \in 1 .. L}
    BY <1>3, <1>4, PathType
  <2>2. \A i \in 1 .. L : L - i + 1 \in 1 .. L /\ p[i] = Reverse(p)[L - i + 1]
    <3>1. \A i \in 1 .. L : L - (L - i + 1) + 1 = i
      BY <1>0
    <3> QED
      BY <1>2, <1>3, <3>1
  <2>3. \A i \in 1 .. L : L - i + 1 \in 1 .. L /\ Reverse(p)[i] = p[L - i + 1]
    BY <1>2, <1>3
  <2> HIDE DEF L
  <2> QED
    BY <2>1, <2>2, <2>3
<1>7. Reverse(Reverse(p)) = p
  <2>1. Reverse(Reverse(p)) = [i \in 1 .. L |-> Reverse(p)[L - i + 1]]
    BY <1>3 DEF Reverse
  <2>2. \A i \in 1 .. L : Reverse(p)[L - i + 1] = p[i]
    <3>1. \A i \in 1 .. L : L - (L - i + 1) + 1 = i
      BY <1>0
    <3> QED
      BY <1>2, <1>3, <3>1
  <2>3. p = [i \in 1 .. L |-> p[i]]
    BY <1>0
  <2> QED
    BY <2>1, <2>2, <2>3
<1> QED
  BY <1>3, <1>4, <1>5, <1>6, <1>7

-----------------------------------------------------------------------------
(* Nodes in memory                                                         *)

Fields == {"next", "prev"}
Heaps  == [Nodes -> Cells \cup {Null}]

Allocated(h) == {a \in Nodes : h[a] # Null}

\* The link f of the node a written over.
Relinked(h, a, f, x) == [h EXCEPT ![a][f] = x]

LEMMA CellUpdate ==
  ASSUME NEW h \in Heaps, NEW a \in Allocated(h), NEW f \in Fields,
         NEW x \in Nodes \cup {Null}, NEW g, g = Relinked(h, a, f, x)
  PROVE  /\ g \in Heaps /\ Allocated(g) = Allocated(h)
         /\ \A b \in Allocated(h) :
              /\ g[b].value = h[b].value
              /\ \A k \in Fields : g[b][k] = IF b = a /\ k = f THEN x ELSE h[b][k]
<1> DEFINE c == [h[a] EXCEPT ![f] = x]
<1>1. h[a] \in Cells /\ a \in Nodes
  BY DEF Heaps, Allocated
<1>2. /\ c \in Cells /\ c.value = h[a].value
      /\ \A k \in Fields : c[k] = IF k = f THEN x ELSE h[a][k]
  <2>1. CASE f = "next"
    BY <1>1, <2>1 DEF Cells, Fields
  <2>2. CASE f = "prev"
    BY <1>1, <2>2 DEF Cells, Fields
  <2> QED
    BY <2>1, <2>2 DEF Fields
<1>3. g = [h EXCEPT ![a] = c]
  BY DEF Relinked
<1> HIDE DEF c
<1>4. c # Null
  BY <1>2, ListAssumption
<1>5. g \in Heaps /\ g[a] = c /\ \A b \in Nodes \ {a} : g[b] = h[b]
  BY <1>1, <1>2, <1>3 DEF Heaps
<1>6. Allocated(g) = Allocated(h)
  BY <1>1, <1>4, <1>5 DEF Allocated
<1>7. ASSUME NEW b \in Allocated(h)
      PROVE  /\ g[b].value = h[b].value
             /\ \A k \in Fields : g[b][k] = IF b = a /\ k = f THEN x ELSE h[b][k]
  <2>1. CASE b = a
    BY <1>2, <1>5, <2>1
  <2>2. CASE b # a
    <3>1. g[b] = h[b]
      BY <1>5, <2>2 DEF Allocated
    <3> QED
      BY <2>2, <3>1
  <2> QED
    BY <2>1, <2>2
<1> QED
  BY <1>5, <1>6, <1>7

LEMMA SideFacts ==
  ASSUME NEW s \in Sides
  PROVE  /\ Other(s) \in Sides /\ Other(s) # s /\ Other(Other(s)) = s /\ Sides = {s, Other(s)}
         /\ Inner(s) \in Fields /\ Outer(s) \in Fields /\ Inner(s) # Outer(s)
         /\ Inner(Other(s)) = Outer(s) /\ Outer(Other(s)) = Inner(s)
<1>1. CASE s = "head"
  BY <1>1 DEF Sides, Other, Inner, Outer, Fields
<1>2. CASE s = "tail"
  BY <1>2 DEF Sides, Other, Inner, Outer, Fields
<1> QED
  BY <1>1, <1>2 DEF Sides

\* The nodes are those of p, and p is the list as seen from the end s.
Linked(h, e, s, p) ==
  /\ Allocated(h) = ToSet(p)
  /\ \A i \in 1 .. Len(p) : /\ h[p[i]][Inner(s)] = At(p, i + 1)
                            /\ h[p[i]][Outer(s)] = At(p, i - 1)
  /\ e[s] = At(p, 1) /\ e[Other(s)] = At(p, Len(p))

Turned(s, p) == IF s = "head" THEN p ELSE Reverse(p)

LEMMA SeenFromOther ==
  ASSUME NEW h, NEW e, NEW s \in Sides, NEW p \in Paths, Linked(h, e, s, p)
  PROVE  Linked(h, e, Other(s), Reverse(p))
<1> DEFINE L == Len(p)
           r == Reverse(p)
<1>0. L \in Nat
  BY PathType
<1>1. r \in Paths /\ Len(r) = L /\ ToSet(r) = ToSet(p)
  BY ReversePath
<1>2. \A i \in 1 .. L : r[i] = p[L - i + 1]
  BY ReversePath
<1>3. \A i \in 0 .. L + 1 : At(r, i) = At(p, L - i + 1)
  BY ReversePath
<1> HIDE DEF L, r
<1>4. ASSUME NEW i \in 1 .. L
      PROVE  /\ h[r[i]][Inner(Other(s))] = At(r, i + 1)
             /\ h[r[i]][Outer(Other(s))] = At(r, i - 1)
  <2> DEFINE j == L - i + 1
  <2>1. j \in 1 .. L /\ i + 1 \in 0 .. L + 1 /\ i - 1 \in 0 .. L + 1
        /\ L - (i + 1) + 1 = j - 1 /\ L - (i - 1) + 1 = j + 1
    BY <1>0
  <2>2. At(r, i + 1) = At(p, j - 1) /\ At(r, i - 1) = At(p, j + 1)
    BY <1>3, <2>1
  <2>3. r[i] = p[j]
    BY <1>2
  <2> HIDE DEF j
  <2>4. h[p[j]][Inner(s)] = At(p, j + 1) /\ h[p[j]][Outer(s)] = At(p, j - 1)
    BY <2>1 DEF Linked, L
  <2> QED
    BY <2>2, <2>3, <2>4, SideFacts
<1>5. At(r, 1) = At(p, L) /\ At(r, L) = At(p, 1)
  <2>1. 1 \in 0 .. L + 1 /\ L \in 0 .. L + 1 /\ L - 1 + 1 = L /\ L - L + 1 = 1
    BY <1>0
  <2> QED
    BY <1>3, <2>1
<1> QED
  BY <1>1, <1>4, <1>5, SideFacts DEF Linked, L, r

\* The list as seen from an end is the list as seen from its head, turned.
LEMMA Turning ==
  ASSUME NEW h, NEW e, NEW s \in Sides, NEW p \in Paths
  PROVE  /\ Turned(s, p) \in Paths /\ Len(Turned(s, p)) = Len(p)
         /\ Turned(s, Turned(s, p)) = p /\ ToSet(Turned(s, p)) = ToSet(p)
         /\ Linked(h, e, "head", p) => Linked(h, e, s, Turned(s, p))
         /\ Linked(h, e, s, p) => Linked(h, e, "head", Turned(s, p))
<1>1. CASE s = "head"
  BY <1>1 DEF Turned
<1>2. CASE s = "tail"
  <2>1. Other("head") = "tail" /\ Other("tail") = "head" /\ "head" \in Sides
    BY DEF Other, Sides
  <2>2. Linked(h, e, "head", p) => Linked(h, e, "tail", Reverse(p))
    BY <2>1, SeenFromOther
  <2>3. Linked(h, e, "tail", p) => Linked(h, e, "head", Reverse(p))
    BY <1>2, <2>1, SeenFromOther
  <2>4. Turned(s, p) = Reverse(p) /\ Turned(s, Reverse(p)) = Reverse(Reverse(p))
    BY <1>2 DEF Turned
  <2> QED
    BY <1>2, <2>2, <2>3, <2>4, ReversePath
<1> QED
  BY <1>1, <1>2 DEF Sides

\* A node in front of a path.
LEMMA LongerPath ==
  ASSUME NEW w \in Paths, NEW a \in Nodes, a \notin ToSet(w)
  PROVE  LET q == <<a>> \o w
         IN  /\ q \in Paths /\ Len(q) = Len(w) + 1 /\ q[1] = a /\ Tail(q) = w
             /\ \A i \in 1 .. Len(w) : q[i + 1] = w[i]
             /\ \A i \in 1 .. Len(w) + 1 : At(q, i + 1) = At(w, i)
             /\ ToSet(q) = ToSet(w) \cup {a}
<1> DEFINE q == <<a>> \o w
           L == Len(w)
<1>0. w \in Seq(Nodes) /\ L \in Nat /\ DOMAIN w = 1 .. L
  BY PathType
<1>1. /\ q \in Seq(Nodes) /\ Len(q) = L + 1 /\ q[1] = a
      /\ \A i \in 1 .. L : q[i + 1] = w[i]
  BY <1>0
<1>2. ASSUME NEW i \in 1 .. L + 1 PROVE i = 1 \/ (i - 1 \in 1 .. L /\ q[i] = w[i - 1])
  <2>1. i = 1 \/ (i - 1 \in 1 .. L /\ (i - 1) + 1 = i)
    BY <1>0
  <2> QED
    BY <1>1, <2>1
<1>3. ToSet(w) = {w[i] : i \in 1 .. L} /\ \A i \in 1 .. L : w[i] # a
  BY PathType
<1> HIDE DEF q, L
<1>4. Distinct(q)
  <2> SUFFICES ASSUME NEW i \in 1 .. L + 1, NEW j \in 1 .. L + 1, q[i] = q[j] PROVE i = j
    BY <1>1 DEF Distinct
  <2>1. CASE i = 1 \/ j = 1
    BY <1>1, <1>2, <1>3, <2>1
  <2>2. CASE i # 1 /\ j # 1
    <3>1. i - 1 \in 1 .. L /\ j - 1 \in 1 .. L /\ w[i - 1] = w[j - 1]
      BY <1>2, <2>2
    <3>2. i - 1 = j - 1
      BY <3>1, PathType DEF L
    <3> QED
      BY <3>2
  <2> QED
    BY <2>1, <2>2
<1>5. q \in Paths
  BY <1>1, <1>4 DEF Paths
<1>6. Tail(q) = w
  <2>0. Len(q) >= 1 /\ Len(q) - 1 = L
    BY <1>0, <1>1
  <2>1. Tail(q) \in Paths /\ Len(Tail(q)) = L /\ \A i \in 1 .. L : Tail(q)[i] = q[i + 1]
    BY <1>5, <2>0, TailPath
  <2>2. Tail(q) \in Seq(Nodes)
    BY <2>1, PathType
  <2>3. \A i \in 1 .. L : Tail(q)[i] = w[i]
    BY <1>1, <2>1
  <2> QED
    BY <1>0, <2>1, <2>2, <2>3, SeqEqual DEF L
<1>7. \A i \in 1 .. L + 1 : At(q, i + 1) = At(w, i)
  <2>1. \A i \in 1 .. L + 1 : i \in 1 .. L <=> i + 1 \in 1 .. L + 1
    BY <1>0
  <2> QED
    BY <1>1, <2>1 DEF At, L
<1>8. ToSet(q) = ToSet(w) \cup {a}
  <2>1. ToSet(q) = {q[i] : i \in 1 .. L + 1}
    BY <1>1, <1>5, PathType
  <2>2. \A x \in ToSet(q) : x \in ToSet(w) \cup {a}
    BY <1>1, <1>2, <1>3, <2>1
  <2>3. \A i \in 1 .. L : i + 1 \in 1 .. L + 1 /\ q[i + 1] = w[i]
    BY <1>0, <1>1
  <2>4. a \in ToSet(q)
    BY <1>0, <1>1, <2>1
  <2>5. \A x \in ToSet(w) : x \in ToSet(q)
    BY <1>3, <2>1, <2>3
  <2> QED
    BY <2>2, <2>4, <2>5
<1> QED
  BY <1>1, <1>5, <1>6, <1>7, <1>8 DEF q, L

-----------------------------------------------------------------------------
(* The invariant                                                           *)

Pushes == {"link", "back", "end", "only", "count"}
Pops   == {"unlink", "uncount", "free"}

\* The statements before which the second node does not lead back to the first.
Apart  == {"link", "back", "uncount", "free"}

\* q is the list as seen from the end the call works on, with the node it pushes
\* or pops in front.
InCall(q) ==
  /\ Len(q) >= 1 /\ q[1] = n /\ Live = ToSet(q)
  /\ \A i \in 1 .. Len(q) :
       heap[q[i]][Inner(side)] = IF i = 1 /\ pc = "link" THEN Null ELSE At(q, i + 1)
  /\ \A i \in 1 .. Len(q) :
       heap[q[i]][Outer(side)] = IF i = 2 /\ pc \in Apart THEN Null ELSE At(q, i - 1)
  /\ ends[side] = IF pc = "count" THEN n ELSE At(q, 2)
  /\ ends[Other(side)] = IF Len(q) = 1 /\ pc \in {"only", "uncount", "free"} THEN Null
                           ELSE At(q, Len(q))
  /\ length = IF pc \in {"unlink", "uncount"} THEN Len(q) ELSE Len(q) - 1
  /\ pc \in {"link", "back", "end"} => Len(q) >= 2
  /\ pc = "only" => Len(q) = 1
  /\ before = ValuesOf(Turned(side, IF pc \in Pops THEN q ELSE Tail(q)))

\* What is left of a list that is destroyed.
Leaving(p) ==
  /\ Live = ToSet(p) /\ n = At(p, 1)
  /\ \A i \in 1 .. Len(p) : heap[p[i]]["next"] = At(p, i + 1)

LInv ==
  /\ heap \in Heaps /\ ends \in [Sides -> Nodes \cup {Null}] /\ side \in Sides
  /\ pc \in {"none", "idle", "destroy"} \cup Pushes \cup Pops
  /\ pc = "none" => Live = {}
  /\ pc = "idle" => \E p \in Paths : Linked(heap, ends, "head", p) /\ length = Len(p)
  /\ pc = "destroy" => \E p \in Paths : Leaving(p)
  /\ pc \in Pushes \cup Pops => \E q \in Paths : InCall(q)

LEMMA AllocatedNodes ==
  /\ Live = Allocated(heap) /\ Live' = Allocated(heap')
  BY DEF Live, Allocated

\* A list that is not empty from one end begins with a node.
LEMMA FirstNode ==
  ASSUME NEW p \in Paths
  PROVE  /\ At(p, 1) = Null <=> Len(p) = 0
         /\ At(p, 0) = Null /\ At(p, Len(p) + 1) = Null
         /\ \A i \in 1 .. Len(p) : At(p, i) = p[i]
         /\ Len(p) = 0 => ToSet(p) = {}
BY PathType, ListAssumption DEF At

\* A call keeps its path when it writes no values.
LEMMA ValuesKept ==
  ASSUME NEW p \in Paths, \A b \in ToSet(p) : heap'[b].value = heap[b].value
  PROVE  ValuesOf(p)' = ValuesOf(p)
<1>1. DOMAIN p = 1 .. Len(p) /\ \A i \in 1 .. Len(p) : p[i] \in ToSet(p)
  BY PathType
<1> QED
  BY <1>1 DEF ValuesOf

\* A walk from the head of a whole list.
LEMMA WholeWalk ==
  ASSUME NEW p \in Paths, Linked(heap, ends, "head", p)
  PROVE  /\ Met(ends["head"], "next") = [good |-> TRUE, nodes |-> p]
         /\ Contents = ValuesOf(p)
<1>1. Chain(p, "next")
  BY AllocatedNodes, PathType DEF Chain, Linked, Inner
<1>2. ends["head"] = At(p, 1)
  BY DEF Linked
<1>3. Met(ends["head"], "next") = [good |-> TRUE, nodes |-> p]
  BY <1>1, <1>2, MetChain
<1> QED
  BY <1>3 DEF Contents

-----------------------------------------------------------------------------
(* The steps                                                               *)

LEMMA MakeNodeStep ==
  ASSUME LInv, NEW s \in Sides, NEW v \in Values, make_node(s, v)
  PROVE  LInv'
<1>1. PICK p \in Paths : Linked(heap, ends, "head", p) /\ length = Len(p)
  BY DEF LInv, make_node
<1> DEFINE w == Turned(s, p)
<1>2. /\ w \in Paths /\ Len(w) = Len(p) /\ Turned(s, w) = p /\ ToSet(w) = ToSet(p)
      /\ Linked(heap, ends, s, w)
  BY <1>1, Turning
<1>3. Contents = ValuesOf(p)
  BY <1>1, WholeWalk
<1> DEFINE cell == [value |-> v, next |-> Null, prev |-> Null]
<1>4. PICK a \in Nodes \ Live : heap' = [heap EXCEPT ![a] = cell] /\ n' = a
  BY DEF make_node
<1> DEFINE q == <<a>> \o w
           L == Len(w)
<1>5. Live = ToSet(w) /\ a \notin ToSet(w) /\ a \in Nodes
  BY <1>2, <1>4, AllocatedNodes DEF Linked
<1> HIDE DEF w
<1>6. /\ q \in Paths /\ Len(q) = L + 1 /\ q[1] = a /\ Tail(q) = w
      /\ \A i \in 1 .. L : q[i + 1] = w[i]
      /\ \A i \in 1 .. L + 1 : At(q, i + 1) = At(w, i)
      /\ ToSet(q) = ToSet(w) \cup {a}
  BY <1>2, <1>5, LongerPath
<1>7. L \in Nat /\ \A i \in 1 .. L : w[i] \in ToSet(w)
  BY <1>2, PathType
<1> HIDE DEF q, L
<1>8. heap \in Heaps /\ ends \in [Sides -> Nodes \cup {Null}]
  BY DEF LInv
<1>9. /\ cell \in Cells /\ cell # Null
      /\ \A f \in Fields : cell[f] = Null
  BY ListAssumption DEF Cells, Fields
<1>10. heap' \in Heaps /\ heap'[a] = cell /\ \A b \in Nodes \ {a} : heap'[b] = heap[b]
  <2> HIDE DEF cell
  <2> QED
    BY <1>4, <1>8, <1>9 DEF Heaps
<1> HIDE DEF cell
<1>11. Live' = ToSet(q)
  <2>1. Live' = Live \cup {a}
    BY <1>4, <1>9, <1>10 DEF Live
  <2> QED
    BY <1>5, <1>6, <2>1
<1>12. \A b \in ToSet(w) : heap'[b] = heap[b]
  BY <1>5, <1>10 DEF Live
<1>13. /\ side' = s /\ ends' = ends /\ length' = length /\ before' = Contents
       /\ pc' = IF ends[s] # Null THEN "link" ELSE "only"
  BY DEF make_node
<1>14. ends[s] = At(w, 1) /\ ends[Other(s)] = At(w, L) /\ (ends[s] = Null <=> L = 0)
  BY <1>2, FirstNode DEF Linked, L
<1>15. ASSUME NEW i \in 1 .. L + 1, i # 1
       PROVE  /\ i - 1 \in 1 .. L /\ q[i] = w[i - 1] /\ q[i] \in ToSet(w)
              /\ At(q, i + 1) = At(w, i) /\ (i - 1) + 1 = i
              /\ i # 2 => At(q, i - 1) = At(w, i - 2)
  <2>1. i - 1 \in 1 .. L /\ (i - 1) + 1 = i /\ i \in 1 .. L + 1
        /\ (i # 2 => i - 2 \in 1 .. L + 1 /\ (i - 2) + 1 = i - 1)
    BY <1>7, <1>15
  <2> QED
    BY <1>6, <1>7, <2>1
<1>16. ASSUME NEW i \in 1 .. L + 1
       PROVE  heap'[q[i]][Inner(s)] = IF i = 1 /\ pc' = "link" THEN Null ELSE At(q, i + 1)
  <2>1. CASE i = 1
    <3>1. heap'[q[1]][Inner(s)] = Null
      BY <1>6, <1>9, <1>10, SideFacts
    <3>2. At(q, 2) = At(w, 1)
      BY <1>6, <1>7
    <3> QED
      BY <1>13, <1>14, <2>1, <3>1, <3>2
  <2>2. CASE i # 1
    <3>1. heap'[q[i]][Inner(s)] = heap[w[i - 1]][Inner(s)]
      BY <1>12, <1>15, <2>2
    <3>2. heap[w[i - 1]][Inner(s)] = At(w, (i - 1) + 1)
      BY <1>2, <1>15, <2>2 DEF Linked, L
    <3> QED
      BY <1>15, <2>2, <3>1, <3>2
  <2> QED
    BY <2>1, <2>2
<1>17. ASSUME NEW i \in 1 .. L + 1
       PROVE  heap'[q[i]][Outer(s)] = IF i = 2 /\ pc' \in Apart THEN Null ELSE At(q, i - 1)
  <2>1. CASE i = 1
    <3>1. heap'[q[1]][Outer(s)] = Null
      BY <1>6, <1>9, <1>10, SideFacts
    <3>2. At(q, 0) = Null
      BY <1>6, FirstNode
    <3> QED
      BY <2>1, <3>1, <3>2
  <2>2. CASE i # 1
    <3>1. heap'[q[i]][Outer(s)] = heap[w[i - 1]][Outer(s)]
      BY <1>12, <1>15, <2>2
    <3>2. heap[w[i - 1]][Outer(s)] = At(w, (i - 1) - 1) /\ (i - 1) - 1 = i - 2
      BY <1>2, <1>15, <2>2 DEF Linked, L
    <3>3. CASE i = 2
      <4>1. At(w, 0) = Null /\ L # 0
        BY <1>2, <1>7, <3>3, FirstNode
      <4>2. pc' \in Apart
        BY <1>13, <1>14, <4>1 DEF Apart
      <4> QED
        BY <3>1, <3>2, <3>3, <4>1, <4>2
    <3>4. CASE i # 2
      BY <1>15, <2>2, <3>1, <3>2, <3>4
    <3> QED
      BY <3>3, <3>4
  <2> QED
    BY <2>1, <2>2
<1>18. ends'[side'] = At(q, 2) /\ pc' # "count"
  <2>1. At(q, 2) = At(w, 1)
    BY <1>6, <1>7
  <2> QED
    BY <1>13, <1>14, <2>1
<1>19. ends'[Other(s)] = IF Len(q) = 1 /\ pc' \in {"only", "uncount", "free"} THEN Null
                           ELSE At(q, Len(q))
  <2>1. CASE L = 0
    <3>1. pc' = "only" /\ Len(q) = 1 /\ At(w, L) = Null
      BY <1>2, <1>6, <1>13, <1>14, <2>1, FirstNode
    <3> QED
      BY <1>13, <1>14, <3>1
  <2>2. CASE L # 0
    <3>1. Len(q) # 1 /\ At(q, L + 1) = At(w, L)
      BY <1>6, <1>7, <2>2
    <3> QED
      BY <1>6, <1>13, <1>14, <3>1
  <2> QED
    BY <2>1, <2>2
<1>20. before' = ValuesOf(Turned(side, w))'
  <2>1. ValuesOf(p)' = ValuesOf(p)
    BY <1>2, <1>12, ValuesKept
  <2>2. Turned(side', w) = p
    BY <1>2, <1>13
  <2> QED
    BY <1>3, <1>13, <2>1, <2>2 DEF ValuesOf
<1>21. pc' \in {"link", "only"} /\ (pc' = "link" => L >= 1) /\ (pc' = "only" => L = 0)
  BY <1>7, <1>13, <1>14
<1>22. InCall(q)'
  <2>1. Len(q) >= 1 /\ length' = Len(q) - 1 /\ (pc' = "link" => Len(q) >= 2)
        /\ (pc' = "only" => Len(q) = 1)
    BY <1>1, <1>2, <1>6, <1>7, <1>13, <1>21 DEF L
  <2>2. pc' \notin Pops /\ pc' \notin {"unlink", "uncount", "back", "end"}
    BY <1>21 DEF Pops
  <2> QED
    BY <1>4, <1>6, <1>11, <1>13, <1>16, <1>17, <1>18, <1>19, <1>20, <2>1, <2>2 DEF InCall
<1>23. pc' \in Pushes /\ pc' \notin {"none", "idle", "destroy"}
  BY <1>21 DEF Pushes
<1> QED
  BY <1>6, <1>8, <1>10, <1>13, <1>22, <1>23 DEF LInv

LEMMA OneOrMore == \A k \in Nat : k >= 1 /\ k # 1 => k >= 2 /\ 2 \in 1 .. k
  OBVIOUS

\* What the statements of a call know of their path.
LEMMA CallFacts ==
  ASSUME LInv, NEW q \in Paths, InCall(q)
  PROVE  /\ heap \in Heaps /\ ends \in [Sides -> Nodes \cup {Null}] /\ side \in Sides
         /\ Len(q) \in Nat /\ Len(q) >= 1 /\ n = q[1] /\ n \in Nodes /\ n \in Live
         /\ Live = ToSet(q) /\ Live = Allocated(heap)
         /\ \A i \in 1 .. Len(q) : q[i] \in Live /\ At(q, i) = q[i]
         /\ \A i, j \in 1 .. Len(q) : q[i] = q[j] => i = j
         /\ At(q, 2) \in Nodes \cup {Null} /\ (At(q, 2) = Null <=> Len(q) = 1)
         /\ Tail(q) \in Paths /\ ToSet(Tail(q)) \subseteq Live
         /\ \A p \in {q, Tail(q)} : Turned(side, p) \in Paths /\ ToSet(Turned(side, p)) \subseteq Live
<1>1. /\ heap \in Heaps /\ ends \in [Sides -> Nodes \cup {Null}] /\ side \in Sides
      /\ Len(q) >= 1 /\ n = q[1] /\ Live = ToSet(q) /\ Live = Allocated(heap)
  BY AllocatedNodes DEF LInv, InCall
<1>2. Len(q) \in Nat /\ ToSet(q) = {q[i] : i \in 1 .. Len(q)}
      /\ \A i, j \in 1 .. Len(q) : q[i] = q[j] => i = j
  BY PathType
<1>3. \A i \in 1 .. Len(q) : q[i] \in Live /\ q[i] \in Nodes /\ At(q, i) = q[i]
  BY <1>1, <1>2, PathType, FirstNode
<1>4. n \in Nodes /\ n \in Live
  BY <1>1, <1>2, <1>3
<1>5. At(q, 2) \in Nodes \cup {Null} /\ (At(q, 2) = Null <=> Len(q) = 1)
  <2>1. CASE Len(q) = 1
    BY <2>1 DEF At
  <2>2. CASE Len(q) # 1
    <3>1. 2 \in 1 .. Len(q)
      BY <1>1, <1>2, <2>2, OneOrMore
    <3>2. At(q, 2) \in Nodes
      BY <1>3, <3>1
    <3> QED
      BY <2>2, <3>2, ListAssumption
  <2> QED
    BY <2>1, <2>2
<1>6. Tail(q) \in Paths /\ ToSet(Tail(q)) \subseteq Live
  BY <1>1, TailPath
<1>7. \A p \in {q, Tail(q)} : Turned(side, p) \in Paths /\ ToSet(Turned(side, p)) \subseteq Live
  BY <1>1, <1>6, Turning
<1> QED
  BY <1>1, <1>2, <1>3, <1>4, <1>5, <1>6, <1>7

\* A call that goes on with the same values in the same nodes.
LEMMA BeforeKept ==
  ASSUME LInv, NEW q \in Paths, InCall(q), side' = side, before' = before,
         \A b \in Live : heap'[b].value = heap[b].value,
         pc \in Pops <=> pc' \in Pops
  PROVE  before' = ValuesOf(Turned(side, IF pc \in Pops THEN q ELSE Tail(q)))'
<1>1. PICK p \in Paths : /\ p = Turned(side, IF pc \in Pops THEN q ELSE Tail(q))
                       /\ ToSet(p) \subseteq Live
  BY CallFacts
<1>2. Turned(side', IF pc' \in Pops THEN q ELSE Tail(q)) = p
  BY <1>1
<1>3. before = ValuesOf(p)
  BY <1>1 DEF InCall
<1>4. ValuesOf(p)' = ValuesOf(p)
  BY <1>1, ValuesKept
<1> QED
  BY <1>2, <1>3, <1>4 DEF ValuesOf

LEMMA LinkNodeStep ==
  ASSUME LInv, LinkNode
  PROVE  LInv'
<1>1. pc = "link" /\ pc' = "back" /\ side' = side /\ n' = n /\ before' = before
      /\ ends' = ends /\ length' = length
      /\ heap' = [heap EXCEPT ![n][Inner(side)] = ends[side]]
  BY DEF LinkNode, Step
<1>2. PICK q \in Paths : InCall(q)
  BY <1>1 DEF LInv, Pushes
<1>3. /\ heap \in Heaps /\ side \in Sides /\ Len(q) \in Nat /\ Len(q) >= 1 /\ n = q[1]
      /\ Live = ToSet(q) /\ Live = Allocated(heap) /\ n \in Live
      /\ \A i \in 1 .. Len(q) : q[i] \in Live
      /\ \A i, j \in 1 .. Len(q) : q[i] = q[j] => i = j
      /\ At(q, 2) \in Nodes \cup {Null}
  BY <1>2, CallFacts
<1>4. ends[side] = At(q, 2)
  BY <1>1, <1>2 DEF InCall
<1>5. Inner(side) \in Fields /\ Outer(side) \in Fields /\ Inner(side) # Outer(side)
  BY <1>3, SideFacts
<1>6. /\ heap' \in Heaps /\ Allocated(heap') = Allocated(heap)
      /\ \A b \in Allocated(heap) :
           /\ heap'[b].value = heap[b].value
           /\ \A k \in Fields : heap'[b][k] = IF b = n /\ k = Inner(side) THEN ends[side]
                                                ELSE heap[b][k]
  <2>1. n \in Allocated(heap) /\ ends[side] \in Nodes \cup {Null}
    BY <1>3, <1>4
  <2>2. heap' = Relinked(heap, n, Inner(side), ends[side])
    BY <1>1 DEF Relinked
  <2> QED
    BY <1>3, <1>5, <2>1, <2>2, CellUpdate
<1>7. Live' = ToSet(q)
  BY <1>3, <1>6, AllocatedNodes
<1>8. ASSUME NEW i \in 1 .. Len(q) PROVE heap'[q[i]][Inner(side)] = At(q, i + 1)
  <2>1. CASE i = 1
    BY <1>3, <1>4, <1>5, <1>6, <2>1
  <2>2. CASE i # 1
    <3>1. q[i] # n /\ q[i] \in Live
      BY <1>3, <2>2
    <3>2. heap[q[i]][Inner(side)] = At(q, i + 1)
      BY <1>2, <2>2 DEF InCall
    <3> QED
      BY <1>3, <1>5, <1>6, <3>1, <3>2
  <2> QED
    BY <2>1, <2>2
<1>9. ASSUME NEW i \in 1 .. Len(q)
      PROVE  heap'[q[i]][Outer(side)] = IF i = 2 /\ pc' \in Apart THEN Null ELSE At(q, i - 1)
  <2>1. heap'[q[i]][Outer(side)] = heap[q[i]][Outer(side)]
    BY <1>3, <1>5, <1>6
  <2>2. pc \in Apart /\ pc' \in Apart
    BY <1>1 DEF Apart
  <2> QED
    BY <1>2, <2>1, <2>2 DEF InCall
<1>10. before' = ValuesOf(Turned(side, IF pc \in Pops THEN q ELSE Tail(q)))'
  BY <1>1, <1>2, <1>3, <1>6, BeforeKept DEF Pops
<1>11. /\ ends[Other(side)] = At(q, Len(q)) /\ length = Len(q) - 1 /\ Len(q) >= 2
  BY <1>1, <1>2 DEF InCall
<1>12. InCall(q)'
  BY <1>1, <1>3, <1>4, <1>7, <1>8, <1>9, <1>10, <1>11 DEF InCall
<1> QED
  BY <1>1, <1>6, <1>12 DEF LInv, Pushes

LEMMA LinkBackStep ==
  ASSUME LInv, LinkBack
  PROVE  LInv'
<1>1. pc = "back" /\ pc' = "end" /\ side' = side /\ n' = n /\ before' = before
      /\ ends' = ends /\ length' = length
      /\ heap' = [heap EXCEPT ![ends[side]][Outer(side)] = n]
  BY DEF LinkBack, Step
<1>2. PICK q \in Paths : InCall(q)
  BY <1>1 DEF LInv, Pushes
<1>3. /\ heap \in Heaps /\ side \in Sides /\ Len(q) \in Nat /\ Len(q) >= 1 /\ n = q[1]
      /\ Live = ToSet(q) /\ Live = Allocated(heap) /\ n \in Nodes
      /\ \A i \in 1 .. Len(q) : q[i] \in Live /\ At(q, i) = q[i]
      /\ \A i, j \in 1 .. Len(q) : q[i] = q[j] => i = j
  BY <1>2, CallFacts
<1>4. ends[side] = At(q, 2) /\ Len(q) >= 2
  BY <1>1, <1>2 DEF InCall
<1>5. Inner(side) \in Fields /\ Outer(side) \in Fields /\ Inner(side) # Outer(side)
  BY <1>3, SideFacts
<1>6. ends[side] = q[2] /\ q[2] \in Live
  BY <1>3, <1>4
<1>7. /\ heap' \in Heaps /\ Allocated(heap') = Allocated(heap)
      /\ \A b \in Allocated(heap) :
           /\ heap'[b].value = heap[b].value
           /\ \A k \in Fields : heap'[b][k] = IF b = ends[side] /\ k = Outer(side) THEN n
                                                ELSE heap[b][k]
  <2>1. ends[side] \in Allocated(heap) /\ n \in Nodes \cup {Null}
    BY <1>3, <1>6
  <2>2. heap' = Relinked(heap, ends[side], Outer(side), n)
    BY <1>1 DEF Relinked
  <2> QED
    BY <1>3, <1>5, <2>1, <2>2, CellUpdate
<1>8. Live' = ToSet(q)
  BY <1>3, <1>7, AllocatedNodes
<1>9. ASSUME NEW i \in 1 .. Len(q) PROVE heap'[q[i]][Inner(side)] = At(q, i + 1)
  <2>1. heap'[q[i]][Inner(side)] = heap[q[i]][Inner(side)]
    BY <1>3, <1>5, <1>7
  <2> QED
    BY <1>1, <1>2, <2>1 DEF InCall
<1>10. ASSUME NEW i \in 1 .. Len(q) PROVE heap'[q[i]][Outer(side)] = At(q, i - 1)
  <2>1. CASE i = 2
    <3>1. heap'[q[2]][Outer(side)] = n
      BY <1>3, <1>5, <1>6, <1>7
    <3>2. At(q, 1) = n
      BY <1>3, <1>4
    <3> QED
      BY <2>1, <3>1, <3>2
  <2>2. CASE i # 2
    <3>1. q[i] # q[2] /\ q[i] \in Live
      BY <1>3, <1>4, <2>2
    <3>2. heap[q[i]][Outer(side)] = At(q, i - 1)
      BY <1>2, <2>2 DEF InCall
    <3> QED
      BY <1>3, <1>5, <1>6, <1>7, <3>1, <3>2
  <2> QED
    BY <2>1, <2>2
<1>11. before' = ValuesOf(Turned(side, IF pc \in Pops THEN q ELSE Tail(q)))'
  BY <1>1, <1>2, <1>3, <1>7, BeforeKept DEF Pops
<1>12. /\ ends[Other(side)] = At(q, Len(q)) /\ length = Len(q) - 1
  BY <1>1, <1>2 DEF InCall
<1>13. pc' \notin Apart
  BY <1>1 DEF Apart
<1>14. InCall(q)'
  BY <1>1, <1>3, <1>4, <1>8, <1>9, <1>10, <1>11, <1>12, <1>13 DEF InCall
<1> QED
  BY <1>1, <1>7, <1>14 DEF LInv, Pushes

LEMMA MoveEndStep ==
  ASSUME LInv, MoveEnd \/ OnlyNode
  PROVE  LInv'
<1>1. /\ pc \in {"end", "only"} /\ pc' = "count" /\ side' = side /\ n' = n /\ before' = before
      /\ heap' = heap /\ length' = length
      /\ pc = "end" => ends' = [ends EXCEPT ![side] = n]
      /\ pc = "only" => ends' = [s \in Sides |-> n]
  BY DEF MoveEnd, OnlyNode, Step
<1>2. PICK q \in Paths : InCall(q)
  BY <1>1 DEF LInv, Pushes
<1>3. /\ ends \in [Sides -> Nodes \cup {Null}] /\ side \in Sides /\ Len(q) \in Nat /\ Len(q) >= 1
      /\ n = q[1] /\ n \in Nodes /\ \A i \in 1 .. Len(q) : At(q, i) = q[i]
  BY <1>2, CallFacts
<1>4. Other(side) \in Sides /\ Other(side) # side
  BY <1>3, SideFacts
<1>5. /\ ends' \in [Sides -> Nodes \cup {Null}] /\ ends'[side] = n
      /\ pc = "end" => ends'[Other(side)] = ends[Other(side)]
      /\ pc = "only" => ends'[Other(side)] = n
  BY <1>1, <1>3, <1>4
<1>6. ends'[Other(side)] = At(q, Len(q))
  <2>1. CASE pc = "end"
    BY <1>2, <1>5, <2>1 DEF InCall
  <2>2. CASE pc = "only"
    <3>1. Len(q) = 1
      BY <1>2, <2>2 DEF InCall
    <3> QED
      BY <1>3, <1>5, <2>2, <3>1
  <2> QED
    BY <1>1, <2>1, <2>2
<1>7. before' = ValuesOf(Turned(side, IF pc \in Pops THEN q ELSE Tail(q)))'
  BY <1>1, <1>2, BeforeKept DEF Pops
<1>8. pc # "link" /\ pc \notin Apart /\ pc' \notin Apart
  BY <1>1 DEF Apart
<1>9. Live' = Live
  BY <1>1 DEF Live
<1>10. length = Len(q) - 1
  BY <1>1, <1>2 DEF InCall
<1>11. InCall(q)'
  BY <1>1, <1>2, <1>3, <1>5, <1>6, <1>7, <1>8, <1>9, <1>10 DEF InCall
<1> QED
  BY <1>1, <1>5, <1>11 DEF LInv, Pushes

LEMMA CountStep ==
  ASSUME LInv, Count
  PROVE  /\ LInv'
         /\ \E q \in Paths : InCall(q) /\ Linked(heap', ends', "head", Turned(side, q))
<1>1. pc = "count" /\ pc' = "idle" /\ heap' = heap /\ ends' = ends
      /\ length' = length + 1 /\ side' = "head"
  BY DEF Count, Return
<1>2. PICK q \in Paths : InCall(q)
  BY <1>1 DEF LInv, Pushes
<1>3. /\ side \in Sides /\ Len(q) \in Nat /\ Len(q) >= 1 /\ n = q[1]
      /\ Live = ToSet(q) /\ Live = Allocated(heap) /\ \A i \in 1 .. Len(q) : At(q, i) = q[i]
  BY <1>2, CallFacts
<1>4. Linked(heap, ends, side, q)
  <2>1. pc # "link" /\ pc \notin Apart
    BY <1>1 DEF Apart
  <2>2. \A i \in 1 .. Len(q) : /\ heap[q[i]][Inner(side)] = At(q, i + 1)
                               /\ heap[q[i]][Outer(side)] = At(q, i - 1)
    BY <1>2, <2>1 DEF InCall
  <2>3. ends[side] = At(q, 1) /\ ends[Other(side)] = At(q, Len(q))
    BY <1>1, <1>2, <1>3 DEF InCall
  <2> QED
    BY <1>3, <2>2, <2>3 DEF Linked
<1>5. PICK p \in Paths : /\ p = Turned(side, q) /\ Len(p) = Len(q)
                       /\ Linked(heap', ends', "head", p)
  BY <1>1, <1>3, <1>4, Turning
<1>6. length' = Len(p)
  BY <1>1, <1>2, <1>3, <1>5 DEF InCall
<1>7. LInv'
  BY <1>1, <1>5, <1>6 DEF LInv, Sides, Pushes, Pops
<1> QED
  BY <1>2, <1>5, <1>7

\* Steps between calls that write nothing.
LEMMA ReadStep ==
  ASSUME LInv, pc = "idle", pc' = "idle", heap' = heap, ends' = ends, length' = length,
         side' = "head"
  PROVE  LInv'
BY DEF LInv, Sides, Pushes, Pops

LEMMA PopEndStep ==
  ASSUME LInv, NEW s \in Sides, PopEnd(s)
  PROVE  LInv'
<1>1. /\ pc = "idle" /\ pc' = "unlink" /\ ends[s] # Null /\ side' = s /\ n' = ends[s]
      /\ before' = Contents /\ heap' = heap /\ length' = length
      /\ ends' = [ends EXCEPT ![s] = heap[ends[s]][Inner(s)]]
  BY DEF PopEnd
<1>2. PICK p \in Paths : Linked(heap, ends, "head", p) /\ length = Len(p)
  BY <1>1 DEF LInv
<1>3. PICK q \in Paths : /\ Len(q) = Len(p) /\ Turned(s, q) = p /\ ToSet(q) = ToSet(p)
                         /\ Linked(heap, ends, s, q)
  BY <1>2, Turning
<1>4. Contents = ValuesOf(p)
  BY <1>2, WholeWalk
<1>5. ends \in [Sides -> Nodes \cup {Null}] /\ heap \in Heaps
  BY DEF LInv
<1>6. ends[s] = At(q, 1) /\ ends[Other(s)] = At(q, Len(q)) /\ Len(q) \in Nat
  BY <1>3, PathType DEF Linked
<1>7. Len(q) >= 1
  <2>1. Len(q) # 0
    BY <1>1, <1>6, FirstNode
  <2> QED
    BY <1>6, <2>1
<1>8. ends[s] = q[1]
  BY <1>6, <1>7, FirstNode
<1>9. heap[q[1]][Inner(s)] = At(q, 2) /\ At(q, 2) \in Nodes \cup {Null}
  BY <1>3, <1>6, <1>7, PathType DEF Linked
<1>10. /\ ends' \in [Sides -> Nodes \cup {Null}]
       /\ ends'[s] = At(q, 2) /\ ends'[Other(s)] = At(q, Len(q))
  BY <1>1, <1>5, <1>6, <1>8, <1>9, SideFacts
<1>11. before' = ValuesOf(Turned(side, q))'
  <2>1. Turned(side', q) = p
    BY <1>1, <1>3
  <2> QED
    BY <1>1, <1>4, <2>1 DEF ValuesOf
<1>12. Live' = ToSet(q)
  BY <1>1, <1>3, AllocatedNodes DEF Linked
<1>13. pc' \notin Apart /\ pc' \in Pops
  BY <1>1 DEF Apart, Pops
<1>14. \A i \in 1 .. Len(q) : /\ heap'[q[i]][Inner(s)] = At(q, i + 1)
                              /\ heap'[q[i]][Outer(s)] = At(q, i - 1)
  BY <1>1, <1>3 DEF Linked
<1>15. InCall(q)'
  BY <1>1, <1>2, <1>3, <1>7, <1>8, <1>10, <1>11, <1>12, <1>13, <1>14 DEF InCall
<1> QED
  BY <1>1, <1>5, <1>10, <1>15 DEF LInv, Pops

LEMMA UnlinkStep ==
  ASSUME LInv, Unlink
  PROVE  LInv'
<1>1. /\ pc = "unlink" /\ pc' = "uncount" /\ side' = side /\ n' = n /\ before' = before
      /\ length' = length
      /\ ends[side] # Null => /\ heap' = [heap EXCEPT ![ends[side]][Outer(side)] = Null]
                              /\ ends' = ends
      /\ ends[side] = Null => /\ ends' = [ends EXCEPT ![Other(side)] = Null]
                              /\ heap' = heap
  BY DEF Unlink, Step
<1>2. PICK q \in Paths : InCall(q)
  BY <1>1 DEF LInv, Pops
<1>3. /\ heap \in Heaps /\ ends \in [Sides -> Nodes \cup {Null}] /\ side \in Sides
      /\ Len(q) \in Nat /\ Len(q) >= 1 /\ n = q[1]
      /\ Live = ToSet(q) /\ Live = Allocated(heap)
      /\ \A i \in 1 .. Len(q) : q[i] \in Live /\ At(q, i) = q[i]
      /\ \A i, j \in 1 .. Len(q) : q[i] = q[j] => i = j
      /\ At(q, 2) = Null <=> Len(q) = 1
  BY <1>2, CallFacts
<1>4. /\ ends[side] = At(q, 2) /\ ends[Other(side)] = At(q, Len(q)) /\ length = Len(q)
      /\ \A i \in 1 .. Len(q) : heap[q[i]][Inner(side)] = At(q, i + 1)
      /\ \A i \in 1 .. Len(q) : heap[q[i]][Outer(side)] = At(q, i - 1)
  <2>1. pc \notin Apart
    BY <1>1 DEF Apart
  <2> QED
    BY <1>1, <1>2, <2>1 DEF InCall
<1>5. Inner(side) \in Fields /\ Outer(side) \in Fields /\ Inner(side) # Outer(side)
      /\ Other(side) \in Sides /\ Other(side) # side
  BY <1>3, SideFacts
<1>6. pc' \in Apart /\ pc' \in Pops /\ pc \in Pops
  BY <1>1 DEF Apart, Pops
<1>7. CASE Len(q) = 1
  <2>1. heap' = heap /\ ends' = [ends EXCEPT ![Other(side)] = Null]
    BY <1>1, <1>3, <1>4, <1>7
  <2>2. ends' \in [Sides -> Nodes \cup {Null}] /\ ends'[side] = At(q, 2) /\ ends'[Other(side)] = Null
    BY <1>3, <1>4, <1>5, <2>1
  <2>3. before' = ValuesOf(Turned(side, IF pc \in Pops THEN q ELSE Tail(q)))'
    BY <1>1, <1>2, <1>6, <2>1, BeforeKept
  <2>4. Live' = ToSet(q)
    BY <1>3, <2>1, AllocatedNodes
  <2>5. \A i \in 1 .. Len(q) :
          heap'[q[i]][Outer(side)] = IF i = 2 /\ pc' \in Apart THEN Null ELSE At(q, i - 1)
    BY <1>4, <1>7, <2>1
  <2>6. InCall(q)'
    BY <1>1, <1>3, <1>4, <1>7, <2>1, <2>2, <2>3, <2>4, <2>5 DEF InCall
  <2> QED
    BY <1>1, <1>3, <2>1, <2>2, <2>6 DEF LInv, Pops
<1>8. CASE Len(q) # 1
  <2>1. heap' = [heap EXCEPT ![ends[side]][Outer(side)] = Null] /\ ends' = ends
    BY <1>1, <1>3, <1>4, <1>8
  <2>2. Len(q) >= 2
    BY <1>3, <1>8, OneOrMore
  <2>3. ends[side] = q[2] /\ q[2] \in Live
    BY <1>3, <1>4, <2>2
  <2>4. /\ heap' \in Heaps /\ Allocated(heap') = Allocated(heap)
        /\ \A b \in Allocated(heap) :
             /\ heap'[b].value = heap[b].value
             /\ \A k \in Fields : heap'[b][k] = IF b = ends[side] /\ k = Outer(side) THEN Null
                                                  ELSE heap[b][k]
    <3>1. ends[side] \in Allocated(heap) /\ Null \in Nodes \cup {Null}
      BY <1>3, <2>3
    <3>2. heap' = Relinked(heap, ends[side], Outer(side), Null)
      BY <2>1 DEF Relinked
    <3> QED
      BY <1>3, <1>5, <3>1, <3>2, CellUpdate
  <2>5. Live' = ToSet(q)
    BY <1>3, <2>4, AllocatedNodes
  <2>6. ASSUME NEW i \in 1 .. Len(q) PROVE heap'[q[i]][Inner(side)] = At(q, i + 1)
    <3>1. heap'[q[i]][Inner(side)] = heap[q[i]][Inner(side)]
      BY <1>3, <1>5, <2>4
    <3> QED
      BY <1>4, <3>1
  <2>7. ASSUME NEW i \in 1 .. Len(q)
        PROVE  heap'[q[i]][Outer(side)] = IF i = 2 /\ pc' \in Apart THEN Null ELSE At(q, i - 1)
    <3>1. CASE i = 2
      <4>1. heap'[q[2]][Outer(side)] = Null
        BY <1>3, <1>5, <2>3, <2>4
      <4> QED
        BY <1>6, <3>1, <4>1
    <3>2. CASE i # 2
      <4>1. q[i] # q[2] /\ q[i] \in Live
        BY <1>3, <2>2, <3>2
      <4>2. heap'[q[i]][Outer(side)] = heap[q[i]][Outer(side)]
        BY <1>3, <1>5, <2>3, <2>4, <4>1
      <4> QED
        BY <1>4, <3>2, <4>2
    <3> QED
      BY <3>1, <3>2
  <2>8. before' = ValuesOf(Turned(side, IF pc \in Pops THEN q ELSE Tail(q)))'
    BY <1>1, <1>2, <1>3, <1>6, <2>4, BeforeKept
  <2>9. InCall(q)'
    BY <1>1, <1>3, <1>4, <1>8, <2>1, <2>5, <2>6, <2>7, <2>8 DEF InCall
  <2> QED
    BY <1>1, <1>3, <2>1, <2>4, <2>9 DEF LInv, Pops
<1> QED
  BY <1>7, <1>8

LEMMA UncountStep ==
  ASSUME LInv, Uncount
  PROVE  LInv'
<1>1. /\ pc = "uncount" /\ pc' = "free" /\ side' = side /\ n' = n /\ before' = before
      /\ length' = length - 1 /\ heap' = heap /\ ends' = ends
  BY DEF Uncount, Step
<1>2. PICK q \in Paths : InCall(q)
  BY <1>1 DEF LInv, Pops
<1>3. Len(q) \in Nat /\ length = Len(q)
  BY <1>1, <1>2, PathType DEF InCall
<1>4. pc \in Apart /\ pc' \in Apart /\ pc \in Pops /\ pc' \in Pops
  BY <1>1 DEF Apart, Pops
<1>5. before' = ValuesOf(Turned(side, IF pc \in Pops THEN q ELSE Tail(q)))'
  BY <1>1, <1>2, <1>4, BeforeKept
<1>6. Live' = Live
  BY <1>1 DEF Live
<1>7. InCall(q)'
  BY <1>1, <1>2, <1>3, <1>4, <1>5, <1>6 DEF InCall
<1> QED
  BY <1>1, <1>7 DEF LInv, Pops

LEMMA FreeNodeStep ==
  ASSUME LInv, FreeNode
  PROVE  /\ LInv'
         /\ \E q \in Paths : /\ InCall(q)
                            /\ Linked(heap', ends', "head", Turned(side, Tail(q)))
<1>1. /\ pc = "free" /\ pc' = "idle" /\ heap' = [heap EXCEPT ![n] = Null]
      /\ ends' = ends /\ length' = length /\ side' = "head"
  BY DEF FreeNode, Return
<1>2. PICK q \in Paths : InCall(q)
  BY <1>1 DEF LInv, Pops
<1>3. /\ heap \in Heaps /\ side \in Sides /\ Len(q) \in Nat /\ Len(q) >= 1
      /\ n = q[1] /\ n \in Nodes /\ Live = ToSet(q)
      /\ \A i, j \in 1 .. Len(q) : q[i] = q[j] => i = j
  BY <1>2, CallFacts
<1> DEFINE w == Tail(q)
           L == Len(q) - 1
<1>4. /\ w \in Paths /\ Len(w) = L /\ ToSet(w) = ToSet(q) \ {n}
      /\ \A i \in 1 .. L : w[i] = q[i + 1]
      /\ \A i \in 1 .. L + 1 : At(w, i) = At(q, i + 1)
  BY <1>3, TailPath
<1>5. L \in Nat /\ Len(q) = L + 1
  BY <1>3
<1> HIDE DEF w, L
<1>6. /\ heap' \in Heaps /\ heap'[n] = Null /\ \A b \in Nodes \ {n} : heap'[b] = heap[b]
  BY <1>1, <1>3 DEF Heaps
<1>7. Allocated(heap') = ToSet(w)
  <2>1. Allocated(heap') = Live \ {n}
    BY <1>6 DEF Allocated, Live
  <2> QED
    BY <1>3, <1>4, <2>1
<1>8. ASSUME NEW i \in 1 .. L
      PROVE  /\ heap'[w[i]][Inner(side)] = At(w, i + 1)
             /\ heap'[w[i]][Outer(side)] = At(w, i - 1)
  <2>1. i + 1 \in 1 .. Len(q) /\ i + 1 \in 1 .. L + 1 /\ i + 1 # 1
        /\ (i = 1 <=> i + 1 = 2) /\ (i # 1 => i - 1 \in 1 .. L + 1 /\ (i - 1) + 1 = i)
        /\ (i + 1) - 1 = i
    BY <1>5
  <2>2. heap'[w[i]] = heap[q[i + 1]]
    <3>1. w[i] = q[i + 1] /\ w[i] \in ToSet(w)
      BY <1>4, PathType
    <3>2. w[i] # n /\ w[i] \in Nodes
      BY <1>3, <1>4, <3>1 DEF Live
    <3> QED
      BY <1>6, <3>1, <3>2
  <2>3. heap[q[i + 1]][Inner(side)] = At(q, (i + 1) + 1)
    BY <1>1, <1>2, <2>1 DEF InCall
  <2>4. At(w, i + 1) = At(q, (i + 1) + 1)
    BY <1>4, <2>1
  <2>5. heap[q[i + 1]][Outer(side)] = IF i = 1 THEN Null ELSE At(q, i)
    <3>1. pc \in Apart
      BY <1>1 DEF Apart
    <3> QED
      BY <1>2, <2>1, <3>1 DEF InCall
  <2>6. At(w, i - 1) = IF i = 1 THEN Null ELSE At(q, i)
    <3>1. CASE i = 1
      BY <1>4, <3>1, FirstNode
    <3>2. CASE i # 1
      BY <1>4, <2>1, <3>2
    <3> QED
      BY <3>1, <3>2
  <2> QED
    BY <2>2, <2>3, <2>4, <2>5, <2>6
<1>9. ends[side] = At(w, 1) /\ ends[Other(side)] = At(w, L)
  <2>1. ends[side] = At(q, 2) /\ At(w, 1) = At(q, 2)
    BY <1>1, <1>2, <1>4, <1>5 DEF InCall
  <2>2. CASE L = 0
    BY <1>1, <1>2, <1>4, <1>5, <2>1, <2>2, FirstNode DEF InCall
  <2>3. CASE L # 0
    <3>1. At(w, L) = At(q, L + 1) /\ Len(q) # 1
      BY <1>4, <1>5, <2>3
    <3> QED
      BY <1>2, <1>5, <2>1, <3>1 DEF InCall
  <2> QED
    BY <2>2, <2>3
<1>10. Linked(heap', ends', side, w)
  BY <1>1, <1>4, <1>7, <1>8, <1>9 DEF Linked
<1>11. PICK p \in Paths : /\ Linked(heap', ends', "head", p) /\ Len(p) = L
                        /\ p = Turned(side, w)
  BY <1>3, <1>4, <1>10, Turning
<1>12. length' = Len(p)
  BY <1>1, <1>2, <1>11 DEF InCall, L
<1>13. ends' \in [Sides -> Nodes \cup {Null}]
  BY <1>1 DEF LInv
<1>14. LInv'
  BY <1>1, <1>6, <1>11, <1>12, <1>13 DEF LInv, Sides, Pushes, Pops
<1> QED
  BY <1>2, <1>11, <1>14 DEF w

LEMMA CreateStep ==
  ASSUME LInv, list_create
  PROVE  LInv' /\ Linked(heap', ends', "head", <<>>)
<1>1. /\ pc = "none" /\ pc' = "idle" /\ heap' = heap /\ ends' = Empty /\ length' = 0
      /\ side' = side
  BY DEF list_create, Step
<1>2. <<>> \in Paths /\ Len(<<>>) = 0
  BY DEF Paths, Distinct
<1>3. Linked(heap', ends', "head", <<>>)
  <2>1. Allocated(heap') = {}
    BY <1>1, AllocatedNodes DEF LInv
  <2>2. ToSet(<<>>) = {} /\ At(<<>>, 1) = Null /\ At(<<>>, 0) = Null
    BY <1>2, FirstNode
  <2>3. ends'["head"] = Null /\ ends'[Other("head")] = Null
    BY <1>1 DEF Empty, Other, Sides
  <2> QED
    BY <1>2, <2>1, <2>2, <2>3 DEF Linked
<1>4. ends' \in [Sides -> Nodes \cup {Null}]
  BY <1>1 DEF Empty
<1> QED
  BY <1>1, <1>2, <1>3, <1>4 DEF LInv, Pushes, Pops

LEMMA DestroyBeginsStep ==
  ASSUME LInv, DestroyBegins
  PROVE  LInv'
<1>1. /\ pc = "idle" /\ pc' = "destroy" /\ heap' = heap /\ ends' = ends /\ side' = side
      /\ n' = ends["head"]
  BY DEF DestroyBegins
<1>2. PICK p \in Paths : Linked(heap, ends, "head", p)
  BY <1>1 DEF LInv
<1>3. Leaving(p)'
  BY <1>1, <1>2, AllocatedNodes DEF Leaving, Linked, Inner
<1> QED
  BY <1>1, <1>3 DEF LInv, Pushes, Pops

LEMMA DestroyNodeStep ==
  ASSUME LInv, DestroyNode
  PROVE  LInv'
<1>1. /\ pc = "destroy" /\ pc' = "destroy" /\ n # Null /\ heap' = [heap EXCEPT ![n] = Null]
      /\ n' = heap[n].next /\ ends' = ends /\ side' = side
  BY DEF DestroyNode
<1>2. PICK p \in Paths : Leaving(p)
  BY <1>1 DEF LInv
<1>3. Live = ToSet(p) /\ n = At(p, 1) /\ Len(p) \in Nat /\ heap \in Heaps
  BY <1>2, PathType DEF Leaving, LInv
<1>4. Len(p) >= 1
  <2>1. Len(p) # 0
    BY <1>1, <1>3, FirstNode
  <2> QED
    BY <1>3, <2>1
<1>5. n = p[1] /\ n \in Nodes
  BY <1>3, <1>4, FirstNode, PathType
<1> DEFINE w == Tail(p)
           L == Len(p) - 1
<1>6. /\ w \in Paths /\ Len(w) = L /\ ToSet(w) = ToSet(p) \ {n}
      /\ \A i \in 1 .. L : w[i] = p[i + 1]
      /\ \A i \in 1 .. L + 1 : At(w, i) = At(p, i + 1)
  BY <1>4, <1>5, TailPath
<1>7. L \in Nat /\ Len(p) = L + 1
  BY <1>3, <1>4
<1> HIDE DEF w, L
<1>8. heap' \in Heaps /\ heap'[n] = Null /\ \A b \in Nodes \ {n} : heap'[b] = heap[b]
  BY <1>1, <1>3, <1>5 DEF Heaps
<1>9. Live' = ToSet(w)
  <2>1. Live' = Live \ {n}
    BY <1>8 DEF Live
  <2> QED
    BY <1>3, <1>6, <2>1
<1>10. n' = At(w, 1)
  BY <1>1, <1>2, <1>5, <1>6, <1>7 DEF Leaving
<1>11. ASSUME NEW i \in 1 .. L PROVE heap'[w[i]]["next"] = At(w, i + 1)
  <2>1. i + 1 \in 1 .. Len(p) /\ i + 1 \in 1 .. L + 1
    BY <1>7
  <2>2. w[i] = p[i + 1] /\ w[i] \in ToSet(w)
    BY <1>6, PathType
  <2>3. w[i] # n /\ w[i] \in Nodes
    BY <1>3, <1>6, <2>2 DEF Live
  <2>4. heap'[w[i]] = heap[p[i + 1]]
    BY <1>8, <2>2, <2>3
  <2>5. heap[p[i + 1]]["next"] = At(p, (i + 1) + 1)
    BY <1>2, <2>1 DEF Leaving
  <2> QED
    BY <1>6, <2>1, <2>4, <2>5
<1>12. Leaving(w)'
  BY <1>6, <1>9, <1>10, <1>11 DEF Leaving
<1>13. ends' \in [Sides -> Nodes \cup {Null}] /\ side' \in Sides
  BY <1>1 DEF LInv
<1> QED
  BY <1>1, <1>6, <1>8, <1>12, <1>13 DEF LInv, Pushes, Pops

LEMMA DestroyListStep ==
  ASSUME LInv, DestroyList
  PROVE  LInv'
<1>1. pc = "destroy" /\ pc' = "none" /\ n = Null /\ heap' = heap /\ ends' = ends /\ side' = side
  BY DEF DestroyList
<1>2. PICK p \in Paths : Leaving(p)
  BY <1>1 DEF LInv
<1>3. Live = {}
  BY <1>1, <1>2, FirstNode DEF Leaving
<1>4. Live' = {}
  BY <1>1, <1>3 DEF Live
<1> QED
  BY <1>1, <1>4 DEF LInv, Pushes, Pops

LEMMA ListStep == LInv /\ [ListNext]_lvars => LInv'
<1> SUFFICES ASSUME LInv, [ListNext]_lvars PROVE LInv'
  OBVIOUS
<1>1. CASE UNCHANGED lvars
  <2>1. /\ heap' = heap /\ ends' = ends /\ length' = length /\ pc' = pc /\ side' = side
        /\ n' = n /\ before' = before
    BY <1>1 DEF lvars
  <2>2. Live' = Live /\ \A p \in Paths : ValuesOf(p)' = ValuesOf(p)
    BY <2>1 DEF Live, ValuesOf
  <2>3. \A p \in Paths : Leaving(p) => Leaving(p)'
    BY <2>1, <2>2 DEF Leaving
  <2>4. ASSUME NEW q \in Paths, InCall(q) PROVE InCall(q)'
    <3>1. before = ValuesOf(Turned(side, IF pc \in Pops THEN q ELSE Tail(q)))
      BY <2>4 DEF InCall
    <3>2. before' = ValuesOf(Turned(side, IF pc \in Pops THEN q ELSE Tail(q)))'
      BY <2>1, <3>1 DEF ValuesOf
    <3> QED
      BY <2>1, <2>2, <2>4, <3>2 DEF InCall
  <2>5. \A p \in Paths : Linked(heap, ends, "head", p)' <=> Linked(heap, ends, "head", p)
    BY <2>1 DEF Linked, Allocated
  <2> QED
    BY <2>1, <2>2, <2>3, <2>4, <2>5 DEF LInv
<1>2. ASSUME NEW s \in Sides, NEW v \in Values, make_node(s, v) PROVE LInv'
  BY <1>2, MakeNodeStep
<1>3. ASSUME NEW s \in Sides, PopNothing(s) PROVE LInv'
  BY <1>3, ReadStep DEF PopNothing, Return
<1>4. ASSUME NEW s \in Sides, PopEnd(s) PROVE LInv'
  BY <1>4, PopEndStep
<1>5. ASSUME NEW start \in Indices, NEW stop \in Indices, list_range(start, stop) PROVE LInv'
  BY <1>5, ReadStep DEF list_range, Return
<1>6. CASE list_create
  BY <1>6, CreateStep
<1>7. CASE LinkNode \/ LinkBack
  BY <1>7, LinkNodeStep, LinkBackStep
<1>8. CASE MoveEnd \/ OnlyNode
  BY <1>8, MoveEndStep
<1>9. CASE Count
  BY <1>9, CountStep
<1>10. CASE Unlink \/ Uncount \/ FreeNode
  BY <1>10, UnlinkStep, UncountStep, FreeNodeStep
<1>11. CASE DestroyBegins \/ DestroyNode \/ DestroyList
  BY <1>11, DestroyBeginsStep, DestroyNodeStep, DestroyListStep
<1> QED
  BY <1>1, <1>2, <1>3, <1>4, <1>5, <1>6, <1>7, <1>8, <1>9, <1>10, <1>11 DEF ListNext

LEMMA ListBegins == ListInit => LInv
BY DEF ListInit, LInv, Heaps, Empty, Sides, Pushes, Pops, Live

LEMMA ListInvariance == ListSpec => []LInv
BY ListBegins, ListStep, PTL DEF ListSpec

-----------------------------------------------------------------------------
(* What a walk finds                                                       *)

\* Between calls the chains in both directions visit the same nodes, length
\* counts them, and no other node is allocated: for any number of nodes and any
\* sequence of calls of list.c.
THEOREM ListsAreIntact == ListSpec => []Intact
<1>1. LInv => Intact
  <2> SUFFICES ASSUME LInv PROVE Intact
    OBVIOUS
  <2>1. CASE pc = "idle"
    <3>1. PICK p \in Paths : Linked(heap, ends, "head", p) /\ length = Len(p)
      BY <2>1 DEF LInv
    <3>2. Met(ends["head"], "next") = [good |-> TRUE, nodes |-> p]
      BY <3>1, WholeWalk
    <3>3. Reverse(p) \in Paths /\ ToSet(Reverse(p)) = ToSet(p)
      BY ReversePath
    <3>4. Linked(heap, ends, "tail", Reverse(p))
      BY <3>1, SeenFromOther DEF Other, Sides
    <3>5. Chain(Reverse(p), "prev")
      BY <3>3, <3>4, AllocatedNodes, PathType DEF Chain, Linked, Inner
    <3>6. Met(ends["tail"], "prev") = [good |-> TRUE, nodes |-> Reverse(p)]
      <4>1. ends["tail"] = At(Reverse(p), 1)
        BY <3>4 DEF Linked
      <4> QED
        BY <3>3, <3>5, <4>1, MetChain
    <3>7. Live = ToSet(p)
      BY <3>1, AllocatedNodes DEF Linked
    <3> QED
      BY <2>1, <3>1, <3>2, <3>6, <3>7 DEF Intact
  <2>2. CASE pc # "idle"
    BY <2>2 DEF LInv, Intact
  <2> QED
    BY <2>1, <2>2
<1> QED
  BY <1>1, ListInvariance, PTL

LEMMA ValuesType ==
  ASSUME LInv, NEW p \in Paths, ToSet(p) \subseteq Live
  PROVE  /\ ValuesOf(p) \in Seq(Values) /\ Len(ValuesOf(p)) = Len(p)
         /\ \A k \in 1 .. Len(p) : /\ ValuesOf(p)[k] = heap[p[k]].value
                                   /\ heap[p[k]].value \in Values
<1>1. Len(p) \in Nat /\ DOMAIN p = 1 .. Len(p) /\ \A k \in 1 .. Len(p) : p[k] \in Live
  BY PathType
<1>2. \A a \in Live : heap[a].value \in Values
  BY DEF LInv, Heaps, Cells, Live
<1>3. ValuesOf(p) = [k \in 1 .. Len(p) |-> heap[p[k]].value]
  BY <1>1 DEF ValuesOf
<1>4. \A k \in 1 .. Len(p) : heap[p[k]].value \in Values
  BY <1>1, <1>2
<1>5. ValuesOf(p) \in [1 .. Len(p) -> Values]
  BY <1>3, <1>4
<1> QED
  BY <1>1, <1>3, <1>4, <1>5

\* The contents with and without the node of a call, as seen from both ends.
LEMMA ValuesOfCall ==
  ASSUME LInv, NEW q \in Paths, InCall(q)
  PROVE  LET v == heap[n].value
         IN  /\ ValuesOf(q) = <<v>> \o ValuesOf(Tail(q))
             /\ ValuesOf(Tail(q)) = Tail(ValuesOf(q))
             /\ ValuesOf(Reverse(q)) = Append(ValuesOf(Reverse(Tail(q))), v)
             /\ ValuesOf(Reverse(Tail(q))) = Front(ValuesOf(Reverse(q)))
<1> DEFINE v == heap[n].value
           L == Len(q) - 1
           w == Tail(q)
           r == Reverse(q)
           t == Reverse(w)
<1>1. /\ Len(q) \in Nat /\ Len(q) >= 1 /\ n = q[1] /\ Live = ToSet(q)
  BY CallFacts
<1>2. w \in Paths /\ Len(w) = L /\ ToSet(w) \subseteq Live /\ \A i \in 1 .. L : w[i] = q[i + 1]
  BY <1>1, TailPath
<1>3. r \in Paths /\ Len(r) = Len(q) /\ ToSet(r) \subseteq Live
      /\ \A i \in 1 .. Len(q) : r[i] = q[Len(q) - i + 1]
  BY <1>1, ReversePath
<1>4. t \in Paths /\ Len(t) = L /\ ToSet(t) \subseteq Live
      /\ \A i \in 1 .. L : t[i] = w[L - i + 1]
  <2> HIDE DEF L, w
  <2> QED
    BY <1>2, ReversePath
<1>5. L \in Nat /\ Len(q) = L + 1
  BY <1>1
<1> HIDE DEF L, w, r, t
<1> DEFINE Q == ValuesOf(q)
           W == ValuesOf(w)
           R == ValuesOf(r)
           T == ValuesOf(t)
<1>6. /\ Q \in Seq(Values) /\ Len(Q) = L + 1 /\ \A k \in 1 .. L + 1 : Q[k] = heap[q[k]].value
  BY <1>1, <1>5, ValuesType
<1>7. /\ W \in Seq(Values) /\ Len(W) = L /\ \A k \in 1 .. L : W[k] = heap[w[k]].value
  BY <1>2, ValuesType
<1>8. /\ R \in Seq(Values) /\ Len(R) = L + 1 /\ \A k \in 1 .. L + 1 : R[k] = heap[r[k]].value
  BY <1>3, <1>5, ValuesType
<1>9. /\ T \in Seq(Values) /\ Len(T) = L /\ \A k \in 1 .. L : T[k] = heap[t[k]].value
  BY <1>4, ValuesType
<1>10. v \in Values /\ Q[1] = v
  <2>1. 1 \in 1 .. L + 1
    BY <1>5
  <2>2. 1 \in 1 .. Len(q)
    BY <1>1
  <2> QED
    BY <1>1, <1>6, <2>1, <2>2, ValuesType
<1>11. R[L + 1] = v
  <2>1. L + 1 \in 1 .. L + 1 /\ (L + 1) - (L + 1) + 1 = 1
    BY <1>5
  <2>2. r[L + 1] = q[1]
    BY <1>3, <1>5, <2>1
  <2> QED
    BY <1>1, <1>8, <2>1, <2>2
<1>12. \A k \in 1 .. L : W[k] = Q[k + 1]
  <2> SUFFICES ASSUME NEW k \in 1 .. L PROVE W[k] = Q[k + 1]
    OBVIOUS
  <2>1. k + 1 \in 1 .. L + 1
    BY <1>5
  <2> QED
    BY <1>2, <1>6, <1>7, <2>1
<1>13. \A k \in 1 .. L : T[k] = R[k]
  <2> SUFFICES ASSUME NEW k \in 1 .. L PROVE T[k] = R[k]
    OBVIOUS
  <2>1. k \in 1 .. L + 1 /\ L - k + 1 \in 1 .. L /\ (L - k + 1) + 1 = (L + 1) - k + 1
    BY <1>5
  <2>2. t[k] = q[(L + 1) - k + 1]
    BY <1>2, <1>4, <2>1
  <2>3. r[k] = q[(L + 1) - k + 1]
    BY <1>3, <1>5, <2>1
  <2> QED
    BY <1>8, <1>9, <2>1, <2>2, <2>3
<1> HIDE DEF Q, W, R, T, v
<1>14. W = Tail(Q)
  <2>0. Q # <<>>
    BY <1>5, <1>6
  <2>1. /\ Tail(Q) \in Seq(Values) /\ Len(Tail(Q)) = (L + 1) - 1
        /\ \A k \in 1 .. Len(Tail(Q)) : Tail(Q)[k] = Q[k + 1]
    BY <1>6, <2>0, HeadTailProperties
  <2>2. Len(Tail(Q)) = Len(W)
    BY <1>5, <1>7, <2>1
  <2>3. \A k \in 1 .. Len(W) : W[k] = Tail(Q)[k]
    BY <1>7, <1>12, <2>1, <2>2
  <2> QED
    BY <1>7, <2>1, <2>2, <2>3, SeqEqual
<1>15. Q = <<v>> \o W
  <2>1. <<v>> \in Seq(Values) /\ Len(<<v>>) = 1 /\ <<v>>[1] = v
    BY <1>10
  <2>2. /\ <<v>> \o W \in Seq(Values) /\ Len(<<v>> \o W) = 1 + L
        /\ \A k \in 1 .. 1 + L : (<<v>> \o W)[k] = IF k <= 1 THEN <<v>>[k] ELSE W[k - 1]
    BY <1>7, <2>1, ConcatProperties
  <2>3. Len(<<v>> \o W) = Len(Q)
    BY <1>5, <1>6, <2>2
  <2>4. ASSUME NEW k \in 1 .. Len(Q) PROVE Q[k] = (<<v>> \o W)[k]
    <3>1. k \in 1 .. 1 + L
      BY <1>5, <1>6
    <3>2. CASE k = 1
      BY <1>10, <2>1, <2>2, <3>1, <3>2
    <3>3. CASE k # 1
      <4>1. k - 1 \in 1 .. L /\ ~ (k <= 1) /\ (k - 1) + 1 = k
        BY <1>5, <3>1, <3>3
      <4>2. (<<v>> \o W)[k] = W[k - 1]
        BY <2>2, <3>1, <4>1
      <4>3. W[k - 1] = Q[(k - 1) + 1]
        BY <1>12, <4>1
      <4> QED
        BY <4>1, <4>2, <4>3
    <3> QED
      BY <3>2, <3>3
  <2> QED
    BY <1>6, <2>2, <2>3, <2>4, SeqEqual
<1>16. R = Append(T, v)
  <2>1. /\ Append(T, v) \in Seq(Values) /\ Len(Append(T, v)) = L + 1
        /\ \A k \in 1 .. L : Append(T, v)[k] = T[k]
        /\ Append(T, v)[L + 1] = v
    BY <1>9, <1>10, AppendProperties
  <2>2. ASSUME NEW k \in 1 .. L + 1 PROVE R[k] = Append(T, v)[k]
    <3>1. k = L + 1 \/ k \in 1 .. L
      BY <1>5
    <3> QED
      BY <1>11, <1>13, <2>1, <3>1
  <2> QED
    BY <1>8, <2>1, <2>2, SeqEqual
<1>17. T = Front(R)
  <2>1. Front(R) = SubSeq(R, 1, L)
    <3>1. Len(R) - 1 = L
      BY <1>5, <1>8
    <3> QED
      BY <3>1 DEF Front
  <2>2. 1 \in Int /\ L \in Int /\ \A k \in 1 .. L : R[k] \in Values
    BY <1>5, <1>8
  <2>3. /\ Front(R) \in Seq(Values) /\ Len(Front(R)) = IF 1 <= L THEN L - 1 + 1 ELSE 0
        /\ \A k \in 1 .. L - 1 + 1 : Front(R)[k] = R[1 + k - 1]
    BY <2>1, <2>2, SubSeqProperties
  <2>4. Len(Front(R)) = L
    BY <1>5, <2>3
  <2>5. ASSUME NEW k \in 1 .. L PROVE T[k] = Front(R)[k]
    <3>1. k \in 1 .. L - 1 + 1 /\ 1 + k - 1 = k
      BY <1>5
    <3> QED
      BY <1>13, <2>3, <3>1
  <2> QED
    BY <1>9, <2>3, <2>4, <2>5, SeqEqual
<1> QED
  BY <1>14, <1>15, <1>16, <1>17 DEF Q, W, R, T, v, w, r, t

\* The nodes a walk from the head meets in the middle of a call.
Walked(q) ==
  IF side = "head" THEN IF pc = "count" THEN q ELSE Tail(q)
    ELSE Reverse(IF pc \in Apart \cup {"only"} THEN Tail(q) ELSE q)

LEMMA WalkInCall ==
  ASSUME LInv, NEW q \in Paths, InCall(q), pc \in Pushes \cup Pops
  PROVE  Met(ends["head"], "next") = [good |-> TRUE, nodes |-> Walked(q)]
<1>1. /\ side \in Sides /\ Len(q) \in Nat /\ Len(q) >= 1 /\ n = q[1] /\ Live = ToSet(q)
      /\ \A i \in 1 .. Len(q) : q[i] \in Live /\ At(q, i) = q[i]
  BY CallFacts
<1> DEFINE L == Len(q) - 1
           w == Tail(q)
<1>2. /\ w \in Paths /\ Len(w) = L
      /\ \A i \in 1 .. L : w[i] = q[i + 1]
      /\ \A i \in 1 .. L + 1 : At(w, i) = At(q, i + 1)
  BY <1>1, TailPath
<1>3. L \in Nat /\ Len(q) = L + 1
  BY <1>1
<1> HIDE DEF L, w
<1>4. \A i \in 1 .. Len(q) :
        heap[q[i]][Inner(side)] = IF i = 1 /\ pc = "link" THEN Null ELSE At(q, i + 1)
  BY DEF InCall
<1>5. \A i \in 1 .. Len(q) :
        heap[q[i]][Outer(side)] = IF i = 2 /\ pc \in Apart THEN Null ELSE At(q, i - 1)
  BY DEF InCall
<1>6. CASE side = "head" /\ pc # "count"
  <2>1. Inner(side) = "next" /\ Walked(q) = w
    BY <1>6 DEF Inner, Walked, w
  <2>2. Chain(w, "next")
    <3> SUFFICES ASSUME NEW i \in 1 .. L
                 PROVE  w[i] \in Live /\ heap[w[i]]["next"] = At(w, i + 1)
      BY <1>2 DEF Chain
    <3>1. i + 1 \in 1 .. Len(q) /\ i + 1 # 1 /\ i + 1 \in 1 .. L + 1
      BY <1>3
    <3>2. heap[q[i + 1]]["next"] = At(q, (i + 1) + 1)
      BY <1>4, <2>1, <3>1
    <3> QED
      BY <1>1, <1>2, <3>1, <3>2
  <2>3. ends["head"] = At(w, 1)
    <3>1. ends["head"] = At(q, 2)
      BY <1>6 DEF InCall
    <3> QED
      BY <1>2, <1>3, <3>1
  <2> QED
    BY <1>2, <2>1, <2>2, <2>3, MetChain
<1>7. CASE side = "head" /\ pc = "count"
  <2>1. Inner(side) = "next" /\ Walked(q) = q
    BY <1>7 DEF Inner, Walked
  <2>2. Chain(q, "next")
    BY <1>1, <1>4, <1>7, <2>1 DEF Chain
  <2>3. ends["head"] = At(q, 1)
    <3>1. ends["head"] = n
      BY <1>7 DEF InCall
    <3> QED
      BY <1>1, <3>1
  <2> QED
    BY <2>1, <2>2, <2>3, MetChain
<1>8. CASE side = "tail"
  <2>1. Outer(side) = "next" /\ Other(side) = "head"
    BY <1>8 DEF Inner, Outer, Other
  <2>2. CASE pc \notin Apart \cup {"only"}
    <3> DEFINE r == Reverse(q)
    <3>1. /\ r \in Paths /\ Len(r) = L + 1
          /\ \A i \in 1 .. L + 1 : r[i] = q[(L + 1) - i + 1]
          /\ \A i \in 0 .. L + 2 : At(r, i) = At(q, (L + 1) - i + 1)
      <4>1. Len(q) + 1 = L + 2
        BY <1>3
      <4> QED
        BY <1>3, <4>1, ReversePath
    <3> HIDE DEF r
    <3>2. Chain(r, "next")
      <4> SUFFICES ASSUME NEW i \in 1 .. L + 1
                   PROVE  r[i] \in Live /\ heap[r[i]]["next"] = At(r, i + 1)
        BY <3>1 DEF Chain
      <4> DEFINE j == (L + 1) - i + 1
      <4>1. j \in 1 .. Len(q) /\ i + 1 \in 0 .. L + 2 /\ (L + 1) - (i + 1) + 1 = j - 1
        BY <1>3
      <4>2. r[i] = q[j]
        BY <3>1
      <4> HIDE DEF j
      <4>3. At(r, i + 1) = At(q, j - 1)
        BY <3>1, <4>1
      <4>4. heap[q[j]]["next"] = At(q, j - 1)
        BY <1>5, <2>1, <2>2, <4>1
      <4> QED
        BY <1>1, <4>1, <4>2, <4>3, <4>4
    <3>3. ends["head"] = At(r, 1)
      <4>1. ends["head"] = At(q, Len(q))
        BY <2>1, <2>2 DEF InCall, Apart
      <4>2. 1 \in 0 .. L + 2 /\ (L + 1) - 1 + 1 = Len(q)
        BY <1>3
      <4> QED
        BY <3>1, <4>1, <4>2
    <3>4. Walked(q) = r
      BY <1>8, <2>2 DEF Walked, r
    <3> QED
      BY <3>1, <3>2, <3>3, <3>4, MetChain
  <2>3. CASE pc \in Apart \cup {"only"}
    <3> DEFINE t == Reverse(w)
    <3>1. /\ t \in Paths /\ Len(t) = L
          /\ \A i \in 1 .. L : t[i] = w[L - i + 1]
          /\ \A i \in 0 .. L + 1 : At(t, i) = At(w, L - i + 1)
      BY <1>2, ReversePath
    <3> HIDE DEF t
    <3>2. Chain(t, "next")
      <4> SUFFICES ASSUME NEW i \in 1 .. L
                   PROVE  t[i] \in Live /\ heap[t[i]]["next"] = At(t, i + 1)
        BY <3>1 DEF Chain
      <4> DEFINE j == L - i + 1
      <4>1. /\ j \in 1 .. L /\ j + 1 \in 1 .. Len(q) /\ (j + 1) - 1 = j
            /\ i + 1 \in 0 .. L + 1 /\ L - (i + 1) + 1 = j - 1
            /\ (j = 1 <=> j + 1 = 2)
            /\ (j # 1 => j - 1 \in 1 .. L + 1 /\ (j - 1) + 1 = j)
        BY <1>3
      <4>2. t[i] = w[j]
        BY <3>1
      <4> HIDE DEF j
      <4>3. w[j] = q[j + 1] /\ w[j] \in Live
        BY <1>1, <1>2, <4>1
      <4>4. At(t, i + 1) = At(w, j - 1)
        BY <3>1, <4>1
      <4>5. heap[q[j + 1]]["next"] = IF j = 1 /\ pc \in Apart THEN Null ELSE At(q, j)
        BY <1>5, <2>1, <4>1
      <4>6. pc \in Apart
        <5>1. pc = "only" => L = 0
          BY <1>3 DEF InCall
        <5>2. L # 0
          BY <1>3
        <5> QED
          BY <2>3, <5>1, <5>2
      <4>7. CASE j = 1
        <5>1. At(w, 0) = Null /\ j - 1 = 0
          BY <1>2, <4>7, FirstNode
        <5> QED
          BY <4>2, <4>3, <4>4, <4>5, <4>6, <4>7, <5>1
      <4>8. CASE j # 1
        <5>1. At(w, j - 1) = At(q, j)
          BY <1>2, <4>1, <4>8
        <5> QED
          BY <4>2, <4>3, <4>4, <4>5, <4>8, <5>1
      <4> QED
        BY <4>7, <4>8
    <3>3. ends["head"] = At(t, 1)
      <4>1. At(t, 1) = At(w, L)
        <5>1. 1 \in 0 .. L + 1 /\ L - 1 + 1 = L
          BY <1>3
        <5> QED
          BY <3>1, <5>1
      <4>2. CASE L = 0
        <5>1. Len(q) = 1
          BY <1>3, <4>2
        <5>2. pc \in {"only", "uncount", "free"}
          <6>1. pc \notin {"link", "back"}
            BY <5>1 DEF InCall
          <6> QED
            BY <2>3, <6>1 DEF Apart
        <5>3. ends["head"] = Null
          BY <2>1, <5>1, <5>2 DEF InCall
        <5> QED
          BY <1>2, <4>1, <4>2, <5>3, FirstNode
      <4>3. CASE L # 0
        <5>1. Len(q) # 1 /\ L \in 1 .. L + 1
          BY <1>3, <4>3
        <5>2. ends["head"] = At(q, Len(q))
          BY <2>1, <5>1 DEF InCall
        <5> QED
          BY <1>2, <1>3, <4>1, <5>1, <5>2
      <4> QED
        BY <4>2, <4>3
    <3>4. Walked(q) = t
      BY <1>8, <2>3 DEF Walked, t, w
    <3> QED
      BY <3>1, <3>2, <3>3, <3>4, MetChain
  <2> QED
    BY <2>2, <2>3
<1> QED
  BY <1>1, <1>6, <1>7, <1>8 DEF Sides

\* A handler that interrupts a push or a pop at any statement and walks the list
\* from its head, as persist_save does, meets allocated nodes only, comes to the
\* end, and finds the contents from before the call or from after it: for lists
\* of any length and from both ends.
THEOREM WalksAreSafe == ListSpec => []WalkFindsOldOrNew
<1>1. LInv => WalkFindsOldOrNew
  <2> SUFFICES ASSUME LInv, pc \notin {"idle", "none", "destroy"} PROVE WalkFindsOldOrNew
    BY DEF WalkFindsOldOrNew
  <2>1. pc \in Pushes \cup Pops
    BY DEF LInv
  <2>2. PICK q \in Paths : InCall(q)
    BY <2>1 DEF LInv
  <2>3. Met(ends["head"], "next") = [good |-> TRUE, nodes |-> Walked(q)]
    BY <2>1, <2>2, WalkInCall
  <2>4. Contents = ValuesOf(Walked(q))
    BY <2>3 DEF Contents
  <2>5. before = ValuesOf(Turned(side, IF pc \in Pops THEN q ELSE Tail(q)))
    BY <2>2 DEF InCall
  <2> DEFINE v == heap[n].value
             was == \/ Contents = before
                    \/ /\ pc \notin {"unlink", "uncount", "free"}
                       /\ Contents = IF side = "head" THEN <<v>> \o before
                                       ELSE Append(before, v)
                    \/ /\ pc \in {"unlink", "uncount", "free"}
                       /\ Contents = IF side = "head" THEN Tail(before) ELSE Front(before)
  <2>6. /\ ValuesOf(q) = <<v>> \o ValuesOf(Tail(q))
        /\ ValuesOf(Tail(q)) = Tail(ValuesOf(q))
        /\ ValuesOf(Reverse(q)) = Append(ValuesOf(Reverse(Tail(q))), v)
        /\ ValuesOf(Reverse(Tail(q))) = Front(ValuesOf(Reverse(q)))
    BY <2>2, ValuesOfCall
  <2> HIDE DEF v
  <2>7. ASSUME pc \in Pushes PROVE was
    <3>1. pc \notin Pops /\ pc \notin {"unlink", "uncount", "free"}
      BY <2>7 DEF Pushes, Pops
    <3>2. CASE side = "head"
      <4>1. before = ValuesOf(Tail(q))
        BY <2>5, <3>1, <3>2 DEF Turned
      <4>2. Contents = ValuesOf(q) \/ Contents = ValuesOf(Tail(q))
        BY <2>4, <3>2 DEF Walked
      <4> QED
        BY <2>6, <3>1, <3>2, <4>1, <4>2
    <3>3. CASE side # "head"
      <4>1. before = ValuesOf(Reverse(Tail(q)))
        BY <2>5, <3>1, <3>3 DEF Turned
      <4>2. Contents = ValuesOf(Reverse(q)) \/ Contents = ValuesOf(Reverse(Tail(q)))
        BY <2>4, <3>3 DEF Walked
      <4> QED
        BY <2>6, <3>1, <3>3, <4>1, <4>2
    <3> QED
      BY <3>2, <3>3
  <2>8. ASSUME pc \in Pops PROVE was
    <3>1. pc \in {"unlink", "uncount", "free"} /\ pc # "count"
      BY <2>8 DEF Pops
    <3>2. CASE side = "head"
      <4>1. before = ValuesOf(q)
        BY <2>5, <2>8, <3>2 DEF Turned
      <4>2. Contents = ValuesOf(Tail(q))
        BY <2>4, <3>1, <3>2 DEF Walked
      <4> QED
        BY <2>6, <3>1, <3>2, <4>1, <4>2
    <3>3. CASE side # "head"
      <4>1. before = ValuesOf(Reverse(q))
        BY <2>5, <2>8, <3>3 DEF Turned
      <4>2. Contents = ValuesOf(Reverse(q)) \/ Contents = ValuesOf(Reverse(Tail(q)))
        BY <2>4, <3>3 DEF Walked
      <4> QED
        BY <2>6, <3>1, <3>3, <4>1, <4>2
    <3> QED
      BY <3>2, <3>3
  <2>9. was
    BY <2>1, <2>7, <2>8
  <2> QED
    BY <2>3, <2>9 DEF WalkFindsOldOrNew, v
<1> QED
  BY <1>1, ListInvariance, PTL

-----------------------------------------------------------------------------
(* The indices of a range                                                  *)

\* The numbers from a to b, counted up one by one.
LEMMA CountingUp ==
  ASSUME NEW a \in Int, NEW b \in Int, NEW most \in Nat, b - a + 1 <= most
  PROVE  LET o == Promised!InOrder(a .. b, most)
             m == IF a <= b THEN b - a + 1 ELSE 0
         IN  DOMAIN o = 1 .. m /\ \A x \in 1 .. m : o[x] = a + x - 1
<1> DEFINE m == IF a <= b THEN b - a + 1 ELSE 0
           Good(o) == /\ \A x, y \in DOMAIN o : x < y => o[x] < o[y]
                      /\ \A j \in a .. b : \E x \in DOMAIN o : o[x] = j
           all == UNION {[1 .. k -> a .. b] : k \in 0 .. most}
           g == [x \in 1 .. m |-> a + x - 1]
           o == Promised!InOrder(a .. b, most)
<1>1. m \in 0 .. most
  OBVIOUS
<1>2. g \in all /\ Good(g)
  <2>1. g \in [1 .. m -> a .. b]
    OBVIOUS
  <2>2. g \in all
    BY <1>1, <2>1
  <2>3. \A x, y \in DOMAIN g : x < y => g[x] < g[y]
    OBVIOUS
  <2>4. ASSUME NEW j \in a .. b PROVE \E x \in DOMAIN g : g[x] = j
    <3>1. j - a + 1 \in 1 .. m /\ g[j - a + 1] = j
      OBVIOUS
    <3> QED
      BY <3>1
  <2> HIDE DEF g, all
  <2> QED
    BY <2>2, <2>3, <2>4
<1>3. o = CHOOSE f \in all : Good(f)
  BY DEF Promised!InOrder
<1> HIDE DEF g, o
<1>4. o \in all /\ Good(o)
  <2> HIDE DEF all, Good
  <2> QED
    BY <1>2, <1>3, Zenon
<1>5. PICK k \in 0 .. most : o \in [1 .. k -> a .. b]
  BY <1>4
<1>6. /\ \A x, y \in 1 .. k : x < y => o[x] < o[y]
      /\ \A j \in a .. b : \E x \in 1 .. k : o[x] = j
      /\ \A x \in 1 .. k : o[x] \in a .. b
  BY <1>4, <1>5
<1>7. \A x \in 1 .. k : o[x] = a + x - 1
  <2> DEFINE T == {x \in 1 .. k : o[x] # a + x - 1}
  <2> SUFFICES ASSUME T # {} PROVE FALSE
    OBVIOUS
  <2>1. T \subseteq Nat
    OBVIOUS
  <2>2. PICK x \in T : \A y \in T : x <= y
    <3> HIDE DEF T
    <3> QED
      BY <2>1, Least
  <2>3. x \in 1 .. k /\ o[x] # a + x - 1 /\ o[x] \in a .. b
    BY <1>6
  <2>4. \A y \in 1 .. k : y < x => o[y] = a + y - 1
    BY <2>2
  <2>5. o[x] >= a + x - 1
    <3>1. CASE x = 1
      BY <2>3, <3>1
    <3>2. CASE x # 1
      <4>1. x - 1 \in 1 .. k /\ x - 1 < x
        BY <2>3, <3>2
      <4>2. o[x - 1] = a + (x - 1) - 1 /\ o[x - 1] < o[x]
        BY <1>6, <2>3, <2>4, <4>1
      <4> QED
        BY <2>3, <4>2
    <3> QED
      BY <3>1, <3>2
  <2>6. a + x - 1 \in a .. b /\ a + x - 1 < o[x]
    BY <2>3, <2>5
  <2>7. PICK z \in 1 .. k : o[z] = a + x - 1
    BY <1>6, <2>6
  <2>8. ~ (z < x)
    BY <2>3, <2>4, <2>7
  <2>9. ~ (x < z)
    <3> SUFFICES ASSUME x < z PROVE FALSE
      OBVIOUS
    <3>1. o[x] < o[z]
      BY <1>6, <2>3
    <3> QED
      BY <2>3, <2>6, <2>7, <3>1
  <2> QED
    BY <2>3, <2>7, <2>8, <2>9
<1>8. k = m
  <2>1. CASE a <= b
    <3>1. PICK z \in 1 .. k : o[z] = b
      BY <1>6, <2>1
    <3>2. z = b - a + 1
      BY <1>7, <3>1
    <3>3. k \in 1 .. k /\ o[k] = a + k - 1 /\ o[k] <= b
      BY <1>6, <1>7, <3>1
    <3> QED
      BY <2>1, <3>1, <3>2, <3>3
  <2>2. CASE ~ (a <= b)
    <3>1. 1 \notin 1 .. k
      BY <1>6, <2>2
    <3> QED
      BY <2>2, <3>1
  <2> QED
    BY <2>1, <2>2
<1> QED
  BY <1>5, <1>7, <1>8 DEF o

LEMMA TwoNumbers ==
  ASSUME NEW a \in Int, NEW b \in Int
  PROVE  /\ Max({a, b}) = IF a >= b THEN a ELSE b
         /\ Min({a, b}) = IF a <= b THEN a ELSE b
<1>1. \E x \in {a, b} : \A y \in {a, b} : x >= y
  OBVIOUS
<1>2. \E x \in {a, b} : \A y \in {a, b} : x <= y
  OBVIOUS
<1> QED
  BY <1>1, <1>2 DEF Max, Min

\* The clamped range of list_range is what the abstract list selects.
LEMMA SameRange ==
  ASSUME NEW start \in Int, NEW stop \in Int, Contents \in Seq(Values),
         length = Len(Contents), Known = Contents
  PROVE  RangeOf(start, stop) = Promised!Between(start, stop)
<1> DEFINE c == Contents
           L == Len(c)
           FromEnd(x) == IF x < 0 THEN length + x ELSE x
           f == Max({0, FromEnd(start)})
           t == Min({length - 1, FromEnd(stop)})
           Index(j, x) == IF x < 0 THEN j - 1 - L ELSE j - 1
           chosen == {j \in DOMAIN c : Index(j, start) >= start /\ Index(j, stop) <= stop}
           o == Promised!InOrder(chosen, L)
<1>1. L \in Nat /\ DOMAIN c = 1 .. L /\ length = L
  OBVIOUS
<1>2. /\ f = IF 0 >= FromEnd(start) THEN 0 ELSE FromEnd(start)
      /\ t = IF length - 1 <= FromEnd(stop) THEN length - 1 ELSE FromEnd(stop)
  <2>1. FromEnd(start) \in Int /\ FromEnd(stop) \in Int /\ length - 1 \in Int /\ 0 \in Int
    BY <1>1
  <2> HIDE DEF FromEnd
  <2> QED
    BY <2>1, TwoNumbers
<1>3. RangeOf(start, stop) = IF f > t \/ f >= length THEN <<>> ELSE SubSeq(c, f + 1, t + 1)
  BY DEF RangeOf
<1>4. Promised!Between(start, stop) = [k \in DOMAIN o |-> c[o[k]]]
  BY Zenon DEF Promised!Between
<1> HIDE DEF f, t, c, L
<1>5. f \in Int /\ t \in Int /\ f >= 0 /\ t <= L - 1
  BY <1>1, <1>2
<1>6. chosen = (f + 1) .. (t + 1)
  <2>1. ASSUME NEW j \in 1 .. L
        PROVE  Index(j, start) >= start /\ Index(j, stop) <= stop <=> f + 1 <= j /\ j <= t + 1
    BY <1>1, <1>2
  <2>2. \A j \in (f + 1) .. (t + 1) : j \in 1 .. L
    BY <1>1, <1>5
  <2> HIDE DEF Index
  <2> QED
    BY <1>1, <1>5, <2>1, <2>2
<1> HIDE DEF chosen
<1> DEFINE m == IF f + 1 <= t + 1 THEN (t + 1) - (f + 1) + 1 ELSE 0
<1>7. DOMAIN o = 1 .. m /\ \A x \in 1 .. m : o[x] = (f + 1) + x - 1
  <2>1. f + 1 \in Int /\ t + 1 \in Int /\ L \in Nat /\ (t + 1) - (f + 1) + 1 <= L
    BY <1>1, <1>5
  <2> DEFINE A == f + 1
             B == t + 1
  <2>2. o = Promised!InOrder(A .. B, L) /\ m = IF A <= B THEN B - A + 1 ELSE 0
    BY <1>6
  <2> HIDE DEF A, B, o, m
  <2>3. DOMAIN o = 1 .. m /\ \A x \in 1 .. m : o[x] = A + x - 1
    <3>1. A \in Int /\ B \in Int /\ L \in Nat /\ B - A + 1 <= L
      BY <2>1 DEF A, B
    <3>2. LET up == Promised!InOrder(A .. B, L)
              k  == IF A <= B THEN B - A + 1 ELSE 0
          IN  DOMAIN up = 1 .. k /\ \A x \in 1 .. k : up[x] = A + x - 1
      BY <3>1, CountingUp, Zenon
    <3> QED
      BY <2>2, <3>2
  <2> QED
    BY <2>3 DEF A
<1> HIDE DEF o
<1>8. Promised!Between(start, stop) = [k \in 1 .. m |-> c[f + k]]
  <2>1. \A k \in 1 .. m : c[o[k]] = c[f + k]
    <3>1. \A k \in 1 .. m : (f + 1) + k - 1 = f + k
      BY <1>5
    <3> QED
      BY <1>7, <3>1
  <2> HIDE DEF m
  <2> QED
    BY <1>4, <1>7, <2>1
<1>9. CASE f > t \/ f >= length
  <2>1. m = 0
    BY <1>1, <1>5, <1>9
  <2>2. [k \in 1 .. m |-> c[f + k]] = <<>>
    BY <2>1
  <2> QED
    BY <1>3, <1>8, <1>9, <2>2
<1>10. CASE ~ (f > t \/ f >= length)
  <2>1. RangeOf(start, stop) = SubSeq(c, f + 1, t + 1)
    BY <1>3, <1>10
  <2>2. m = t - f + 1 /\ (t + 1) - (f + 1) + 1 = m /\ m \in Nat
    BY <1>5, <1>10
  <2>3. SubSeq(c, f + 1, t + 1) = [k \in 1 .. m |-> c[f + k]]
    <3>1. SubSeq(c, f + 1, t + 1) = [k \in 1 .. (t + 1) - (f + 1) + 1 |-> c[(f + 1) + k - 1]]
      BY <1>5
    <3>2. \A k \in 1 .. m : (f + 1) + k - 1 = f + k
      BY <1>5, <2>2
    <3> QED
      BY <2>2, <3>1, <3>2
  <2> QED
    BY <1>8, <2>1, <2>3
<1> QED
  BY <1>9, <1>10

-----------------------------------------------------------------------------
(* A sequence                                                              *)

\* In every state a whole list holds what its nodes hold.
WholeLists == \A p \in Paths : Linked(heap, ends, "head", p) => Contents = ValuesOf(p)

LEMMA WholeListsNext == WholeLists'
<1>1. WholeLists
  BY WholeWalk DEF WholeLists
<1> QED
  BY <1>1, PTL

LEMMA ContentsType ==
  ASSUME LInv, pc = "idle"
  PROVE  Contents \in Seq(Values) /\ length = Len(Contents)
<1>1. PICK p \in Paths : Linked(heap, ends, "head", p) /\ length = Len(p)
  BY DEF LInv
<1>2. ToSet(p) = Live
  BY <1>1, AllocatedNodes DEF Linked
<1> QED
  BY <1>1, <1>2, WholeWalk, ValuesType

\* Two states of a list that is not touched between them.
LEMMA SameContents ==
  ASSUME LInv, pc = "idle", heap' = heap, ends' = ends
  PROVE  Contents' = Contents
<1>1. PICK p \in Paths : Linked(heap, ends, "head", p)
  BY DEF LInv
<1>2. Contents' = ValuesOf(p)'
  BY <1>1, WholeListsNext DEF WholeLists
<1>3. Contents = ValuesOf(p)
  BY <1>1, WholeWalk
<1>4. ValuesOf(p)' = ValuesOf(p)
  BY ValuesKept
<1> QED
  BY <1>2, <1>3, <1>4

Stays == Known' = Known /\ res' = res

LEMMA CountReturns ==
  ASSUME LInv, Count
  PROVE  Promised!Call(res')
<1>1. /\ pc = "count" /\ pc' = "idle" /\ heap' = heap /\ ends' = ends
      /\ res' = <<"push", side, heap[n].value>>
  BY DEF Count, Return
<1>2. PICK q \in Paths : InCall(q) /\ Linked(heap', ends', "head", Turned(side, q))
  BY CountStep
<1>3. side \in Sides /\ Live = ToSet(q)
  BY <1>2, CallFacts
<1>4. PICK p \in Paths : p = Turned(side, q)
  BY <1>3, Turning
<1>5. Linked(heap', ends', "head", p)
  BY <1>2, <1>4
<1>6. Contents' = ValuesOf(p)'
  BY <1>5, WholeListsNext DEF WholeLists
<1>7. ValuesOf(p)' = ValuesOf(p)
  BY <1>1, ValuesKept
<1> DEFINE v == heap[n].value
<1>8. v \in Values
  <2>1. n \in Live
    BY <1>2, CallFacts
  <2> QED
    BY <2>1 DEF LInv, Heaps, Cells, Live
<1>9. /\ ValuesOf(q) = <<v>> \o ValuesOf(Tail(q))
      /\ ValuesOf(Reverse(q)) = Append(ValuesOf(Reverse(Tail(q))), v)
  BY <1>2, ValuesOfCall
<1>10. before = ValuesOf(Turned(side, Tail(q)))
  BY <1>1, <1>2 DEF InCall, Pops
<1>11. ValuesOf(p) = IF side = "head" THEN <<v>> \o before ELSE Append(before, v)
  <2>1. CASE side = "head"
    BY <1>4, <1>9, <1>10, <2>1 DEF Turned
  <2>2. CASE side # "head"
    BY <1>4, <1>9, <1>10, <2>2 DEF Turned
  <2> QED
    BY <2>1, <2>2
<1>12. Known = before /\ Known' = ValuesOf(p)
  BY <1>1, <1>6, <1>7 DEF Known
<1> HIDE DEF v
<1>13. res' = <<"push", side, v>>
  BY <1>1 DEF v
<1>14. Promised!Push(side, v)
  BY <1>11, <1>12, <1>13 DEF Promised!Push
<1> QED
  BY <1>8, <1>13, <1>14 DEF Promised!Call

LEMMA FreeReturns ==
  ASSUME LInv, FreeNode
  PROVE  Promised!Call(res')
<1>1. /\ pc = "free" /\ pc' = "idle" /\ heap' = [heap EXCEPT ![n] = Null]
      /\ res' = <<"pop", side, heap[n].value>>
  BY DEF FreeNode, Return
<1>2. PICK q \in Paths : /\ InCall(q)
                         /\ Linked(heap', ends', "head", Turned(side, Tail(q)))
  BY FreeNodeStep
<1>3. /\ side \in Sides /\ Len(q) \in Nat /\ Len(q) >= 1 /\ n = q[1] /\ Live = ToSet(q)
      /\ heap \in Heaps /\ Tail(q) \in Paths
  BY <1>2, CallFacts
<1>4. PICK p \in Paths : p = Turned(side, Tail(q)) /\ ToSet(p) = ToSet(q) \ {n}
  <2>1. ToSet(Tail(q)) = ToSet(q) \ {n}
    BY <1>3, TailPath
  <2>2. Turned(side, Tail(q)) \in Paths /\ ToSet(Turned(side, Tail(q))) = ToSet(Tail(q))
    BY <1>3, Turning
  <2> QED
    BY <2>1, <2>2
<1>5. Contents' = ValuesOf(p)'
  BY <1>2, <1>4, WholeListsNext DEF WholeLists
<1>6. ValuesOf(p)' = ValuesOf(p)
  <2>1. \A b \in ToSet(p) : heap'[b] = heap[b]
    BY <1>1, <1>3, <1>4 DEF Heaps, Live
  <2> QED
    BY <2>1, ValuesKept
<1> DEFINE v == heap[n].value
<1>7. v \in Values
  <2>1. n \in Live
    BY <1>2, CallFacts
  <2> QED
    BY <2>1 DEF LInv, Heaps, Cells, Live
<1>8. before = ValuesOf(Turned(side, q))
  BY <1>1, <1>2 DEF InCall, Pops
<1>9. Known = before /\ Known' = ValuesOf(p)
  BY <1>1, <1>5, <1>6 DEF Known
<1>10. /\ ValuesOf(q) = <<v>> \o ValuesOf(Tail(q))
       /\ ValuesOf(Tail(q)) = Tail(ValuesOf(q))
       /\ ValuesOf(Reverse(q)) = Append(ValuesOf(Reverse(Tail(q))), v)
       /\ ValuesOf(Reverse(Tail(q))) = Front(ValuesOf(Reverse(q)))
  BY <1>2, ValuesOfCall
<1>11. /\ ValuesOf(Tail(q)) \in Seq(Values) /\ ValuesOf(Reverse(Tail(q))) \in Seq(Values)
  <2>1. ToSet(Tail(q)) \subseteq Live /\ ToSet(Reverse(Tail(q))) \subseteq Live
        /\ Reverse(Tail(q)) \in Paths
    BY <1>3, TailPath, ReversePath
  <2> QED
    BY <1>3, <2>1, ValuesType
<1> HIDE DEF v
<1>12. res' = <<"pop", side, v>>
  BY <1>1 DEF v
<1>13. CASE side = "head"
  <2>1. Known = <<v>> \o Known' /\ Known' = Tail(Known) /\ Known' \in Seq(Values)
    BY <1>4, <1>8, <1>9, <1>10, <1>11, <1>13 DEF Turned
  <2>2. Known # <<>> /\ Head(Known) = v
    BY <1>7, <2>1
  <2>3. Promised!Pop(side)
    BY <1>12, <1>13, <2>1, <2>2 DEF Promised!Pop
  <2> QED
    BY <1>12, <2>3 DEF Promised!Call
<1>14. CASE side # "head"
  <2>1. Known = Append(Known', v) /\ Known' = Front(Known) /\ Known' \in Seq(Values)
    BY <1>4, <1>8, <1>9, <1>10, <1>11, <1>14 DEF Turned
  <2>2. Known # <<>> /\ Known[Len(Known)] = v
    BY <1>7, <2>1
  <2>3. Promised!Pop(side)
    BY <1>12, <1>14, <2>1, <2>2 DEF Promised!Pop, Front
  <2> QED
    BY <1>12, <2>3 DEF Promised!Call
<1> QED
  BY <1>13, <1>14

LEMMA PopOfNothing ==
  ASSUME LInv, NEW s \in Sides, PopNothing(s)
  PROVE  Promised!Call(res')
<1>1. /\ pc = "idle" /\ pc' = "idle" /\ ends[s] = Null /\ heap' = heap /\ ends' = ends
      /\ res' = <<"pop", s, Null>>
  BY DEF PopNothing, Return
<1>2. PICK p \in Paths : Linked(heap, ends, "head", p)
  BY <1>1 DEF LInv
<1>3. Len(p) = 0
  <2>1. ends[s] = At(p, 1) \/ ends[s] = At(p, Len(p))
    BY <1>2 DEF Linked, Sides, Other
  <2>2. Len(p) # 0 => Len(p) \in 1 .. Len(p) /\ p[Len(p)] \in Nodes
    BY PathType
  <2> QED
    BY <1>1, <2>1, <2>2, FirstNode, ListAssumption
<1>4. Known = <<>>
  <2>1. Contents = ValuesOf(p)
    BY <1>2, WholeWalk
  <2>2. DOMAIN p = {}
    BY <1>3, PathType
  <2>3. ValuesOf(p) = <<>>
    BY <2>2 DEF ValuesOf
  <2> QED
    BY <1>1, <2>1, <2>3 DEF Known
<1>5. Known' = Known
  BY <1>1, SameContents DEF Known
<1>6. Promised!Pop(s)
  BY <1>1, <1>4, <1>5 DEF Promised!Pop
<1> QED
  BY <1>1, <1>6 DEF Promised!Call

LEMMA RangeReturns ==
  ASSUME LInv, NEW start \in Indices, NEW stop \in Indices, list_range(start, stop)
  PROVE  Promised!Call(res')
<1>1. /\ pc = "idle" /\ pc' = "idle" /\ heap' = heap /\ ends' = ends
      /\ res' = <<"range", start, stop, RangeOf(start, stop)>>
  BY DEF list_range, Return
<1>2. Known = Contents /\ Known' = Known
  BY <1>1, SameContents DEF Known
<1>3. RangeOf(start, stop) = Promised!Between(start, stop)
  BY <1>1, <1>2, ContentsType, SameRange, ListAssumption
<1>4. Promised!Read(start, stop)
  BY <1>1, <1>2, <1>3 DEF Promised!Read
<1> QED
  BY <1>1, <1>4 DEF Promised!Call

LEMMA CallsReturn ==
  LInv /\ [ListNext]_lvars => [Promised!Call(res')]_<<Known, res>>
<1> SUFFICES ASSUME LInv, [ListNext]_lvars PROVE Promised!Call(res') \/ Stays
  BY DEF Stays
<1>1. CASE UNCHANGED lvars
  <2>1. pc' = pc /\ heap' = heap /\ ends' = ends /\ before' = before /\ res' = res
    BY <1>1 DEF lvars
  <2> QED
    BY <2>1, SameContents DEF Known, Stays
<1>2. ASSUME NEW s \in Sides, NEW v \in Values, make_node(s, v) PROVE Stays
  BY <1>2 DEF make_node, Known, Stays
<1>3. CASE list_create
  <2>1. pc = "none" /\ pc' = "idle" /\ res' = res
    BY <1>3 DEF list_create, Step
  <2>2. <<>> \in Paths /\ Linked(heap', ends', "head", <<>>)
    BY <1>3, CreateStep DEF Paths, Distinct
  <2>3. Contents' = ValuesOf(<<>>)'
    BY <2>2, WholeListsNext DEF WholeLists
  <2>4. ValuesOf(<<>>)' = <<>>
    BY DEF ValuesOf
  <2> QED
    BY <2>1, <2>3, <2>4 DEF Known, Stays
<1>4. ASSUME LinkNode \/ LinkBack \/ MoveEnd \/ OnlyNode \/ Unlink \/ Uncount PROVE Stays
  BY <1>4 DEF LinkNode, LinkBack, MoveEnd, OnlyNode, Unlink, Uncount, Step, Known, Stays
<1>5. ASSUME NEW s \in Sides, PopEnd(s) PROVE Stays
  BY <1>5 DEF PopEnd, Known, Stays
<1>6. CASE DestroyBegins \/ DestroyNode
  BY <1>6 DEF DestroyBegins, DestroyNode, Known, Stays
<1>7. CASE DestroyList
  <2>1. Known' = <<>> /\ res' = <<"destroy">>
    BY <1>7 DEF DestroyList, Known
  <2> QED
    BY <2>1 DEF Promised!Call, Promised!Destroy
<1> QED
  BY <1>1, <1>2, <1>3, <1>4, <1>5, <1>6, <1>7,
     CountReturns, FreeReturns, PopOfNothing, RangeReturns DEF ListNext

\* Every call of list.c returns what it returns for a sequence and changes the
\* sequence as it changes that, for lists of any length and any indices.
THEOREM ListsAreSequences == ListSpec => ImplementsDeque
<1>1. ListInit => Promised!Init
  BY DEF ListInit, Promised!Init, Known
<1> QED
  BY <1>1, CallsReturn, ListInvariance, PTL DEF ListSpec, ImplementsDeque, Promised!Spec
=============================================================================
