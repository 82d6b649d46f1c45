----------------------------- MODULE ClientProofs -----------------------------
(***************************************************************************)
(* Theorems about the clients, for every session of the command line       *)
(* client, every post to the proxy, every server (ReplyTo) and every size  *)
(* of the buffers.                                                         *)
(*                                                                         *)
(* Both rest on one picture, Arriving: what a client has got of a reply    *)
(* and what is under way are together the beginning of what the server     *)
(* wrote.  With WholeValuesAreRead the parser then says Incomplete up to   *)
(* the last unit and gives back the reply with it, so that nothing is left *)
(* over for the next one.  The invariants say where between two requests   *)
(* and where within one each client, the wire and the server stand.        *)
(*                                                                         *)
(* The hypotheses ProxyReads, CliReads and LinesFit leave out what the     *)
(* code does get wrong: a reply larger than the buffer of recv_response,   *)
(* a text that resp_buf_appendf cuts, a line longer than fgets takes, and  *)
(* for the proxy bytes that do not survive the decoding into characters.   *)
(***************************************************************************)
EXTENDS Clients, RespProofs

-----------------------------------------------------------------------------
(* A reply under way                                                        *)

\* What a client has, got, and what is under way to it, coming, are the
\* beginning of w.
Arriving(got, coming, w) ==
  /\ got \in Seq(Unit) /\ coming \in Seq(Unit)
  /\ Len(got) + Len(coming) <= Len(w)
  /\ \A i \in 1 .. Len(got) : got[i] = w[i]
  /\ \A i \in 1 .. Len(coming) : coming[i] = w[Len(got) + i]

LEMMA Cut ==
  ASSUME NEW T, NEW s \in Seq(T), NEW n \in 0 .. Len(s)
  PROVE  /\ SubSeq(s, 1, n) \in Seq(T) /\ Len(SubSeq(s, 1, n)) = n
         /\ \A i \in 1 .. n : SubSeq(s, 1, n)[i] = s[i]
         /\ SubSeq(s, n + 1, Len(s)) \in Seq(T)
         /\ Len(SubSeq(s, n + 1, Len(s))) = Len(s) - n
         /\ \A i \in 1 .. Len(s) - n : SubSeq(s, n + 1, Len(s))[i] = s[n + i]
<1>1. SubSeq(s, 1, n) \in Seq(T) /\ SubSeq(s, n + 1, Len(s)) \in Seq(T)
  OBVIOUS
<1>2. Len(SubSeq(s, 1, n)) = n /\ Len(SubSeq(s, n + 1, Len(s))) = Len(s) - n
  OBVIOUS
<1>3. ASSUME NEW i \in 1 .. n PROVE SubSeq(s, 1, n)[i] = s[i]
  OBVIOUS
<1>4. ASSUME NEW i \in 1 .. Len(s) - n PROVE SubSeq(s, n + 1, Len(s))[i] = s[n + i]
  OBVIOUS
<1> QED
  BY <1>1, <1>2, <1>3, <1>4, Zenon

LEMMA MoreArrives ==
  ASSUME NEW w \in Seq(Unit), NEW got, NEW coming, Arriving(got, coming, w),
         NEW n \in 1 .. Len(coming)
  PROVE  /\ Arriving(got \o SubSeq(coming, 1, n), SubSeq(coming, n + 1, Len(coming)), w)
         /\ Len(got \o SubSeq(coming, 1, n)) = Len(got) + n
         /\ Len(SubSeq(coming, n + 1, Len(coming))) = Len(coming) - n
<1>1. /\ got \in Seq(Unit) /\ coming \in Seq(Unit)
      /\ Len(got) + Len(coming) <= Len(w)
      /\ \A i \in 1 .. Len(got) : got[i] = w[i]
      /\ \A i \in 1 .. Len(coming) : coming[i] = w[Len(got) + i]
  BY DEF Arriving
<1>2. Len(w) \in Nat /\ Len(got) \in Nat /\ Len(coming) \in Nat /\ n \in Nat
  BY <1>1
<1>0. n \in 0 .. Len(coming)
  BY <1>2
<1>3. PICK c \in Seq(Unit) : c = SubSeq(coming, 1, n)
  BY <1>0, <1>1, Cut
<1>4. PICK z \in Seq(Unit) : z = SubSeq(coming, n + 1, Len(coming))
  BY <1>0, <1>1, Cut
<1>5. Len(c) = n /\ \A i \in 1 .. n : c[i] = coming[i]
  BY <1>0, <1>1, <1>3, Cut
<1>6. /\ Len(z) = Len(coming) - n
      /\ \A i \in 1 .. Len(coming) - n : z[i] = coming[n + i]
  BY <1>0, <1>1, <1>4, Cut
<1>7. PICK g \in Seq(Unit) : g = got \o c
  <2>1. got \o c \in Seq(Unit)
    BY <1>1, Joined, Zenon
  <2> QED
    BY <2>1, Zenon
<1>8. /\ Len(g) = Len(got) + n
      /\ \A i \in 1 .. n : g[Len(got) + i] = c[i]
      /\ \A i \in 1 .. Len(got) : g[i] = got[i]
  <2>1. /\ Len(got \o c) = Len(got) + Len(c)
        /\ \A i \in 1 .. Len(c) : (got \o c)[Len(got) + i] = c[i]
        /\ \A i \in 1 .. Len(got) : (got \o c)[i] = got[i]
    <3>1. got \in Seq(Unit) /\ c \in Seq(Unit)
      BY <1>1
    <3> QED
      BY <3>1, Joined
  <2> QED
    BY <1>5, <1>7, <2>1, Zenon
<1>9. ASSUME NEW i \in 1 .. Len(g) PROVE g[i] = w[i]
  <2>1. CASE i <= Len(got)
    BY <1>1, <1>2, <1>8, <2>1
  <2>2. CASE i > Len(got)
    <3> DEFINE j == i - Len(got)
    <3>1. j \in 1 .. n /\ j \in 1 .. Len(coming) /\ i = Len(got) + j
      BY <1>2, <1>8, <2>2
    <3> HIDE DEF j
    <3> QED
      BY <1>1, <1>5, <1>8, <3>1
  <2> QED
    BY <1>2, <1>8, <2>1, <2>2
<1>10. ASSUME NEW i \in 1 .. Len(z) PROVE z[i] = w[Len(g) + i]
  <2>1. n + i \in 1 .. Len(coming) /\ Len(got) + (n + i) = Len(g) + i
    BY <1>2, <1>6, <1>8
  <2>2. z[i] = coming[n + i]
    BY <1>6
  <2>3. coming[n + i] = w[Len(got) + (n + i)]
    BY <1>1, <2>1
  <2> QED
    BY <2>1, <2>2, <2>3
<1>11. Len(g) + Len(z) <= Len(w)
  BY <1>1, <1>2, <1>6, <1>8
<1>12. Arriving(g, z, w)
  BY <1>9, <1>10, <1>11 DEF Arriving
<1> QED
  BY <1>3, <1>4, <1>6, <1>7, <1>8, <1>12

LEMMA LessComes ==
  ASSUME NEW w \in Seq(Unit), NEW got, NEW coming, Arriving(got, coming, w),
         NEW z \in FirstUnits(coming)
  PROVE  Arriving(got, z, w)
<1>1. /\ got \in Seq(Unit) /\ coming \in Seq(Unit)
      /\ Len(got) + Len(coming) <= Len(w)
      /\ \A i \in 1 .. Len(got) : got[i] = w[i]
      /\ \A i \in 1 .. Len(coming) : coming[i] = w[Len(got) + i]
  BY DEF Arriving
<1>2. PICK n \in 0 .. Len(coming) : z = SubSeq(coming, 1, n)
  BY DEF FirstUnits
<1>3. Len(w) \in Nat /\ Len(got) \in Nat /\ Len(coming) \in Nat /\ n \in Nat
  BY <1>1
<1>4. z \in Seq(Unit) /\ Len(z) = n /\ \A i \in 1 .. n : z[i] = coming[i]
  BY <1>1, <1>2, Cut
<1> QED
  BY <1>1, <1>3, <1>4 DEF Arriving

LEMMA AllArrived ==
  ASSUME NEW w \in Seq(Unit), NEW got, NEW coming, Arriving(got, coming, w),
         Len(got) >= Len(w)
  PROVE  got = w /\ coming = <<>>
<1>1. /\ got \in Seq(Unit) /\ coming \in Seq(Unit)
      /\ Len(got) + Len(coming) <= Len(w)
      /\ \A i \in 1 .. Len(got) : got[i] = w[i]
  BY DEF Arriving
<1>2. Len(coming) = 0 /\ Len(got) = Len(w)
  BY <1>1
<1> QED
  BY <1>1, <1>2

LEMMA NothingYet ==
  ASSUME NEW w \in Seq(Unit)
  PROVE  Arriving(<<>>, <<>>, w) /\ Arriving(<<>>, w, w)
BY DEF Arriving

\* A client sees that its reply is whole when it is, and not before.
LEMMA ReplyRead ==
  ASSUME NEW language, NEW v \in Readable(language), NEW got, NEW coming,
         Arriving(got, coming, Write(v))
  PROVE  /\ Len(got) < Len(Write(v)) => Parser(language, got) = Incomplete
         /\ Len(got) >= Len(Write(v)) => Parser(language, got) = Whole(Len(Write(v)), v)
<1>1. got \in Seq(Unit) /\ \A i \in 1 .. Len(got) : got[i] = Write(v)[i]
  BY DEF Arriving
<1>2. Write(v) \in Seq(Unit)
  BY ValueWritten
<1>3. \A i \in 1 .. Len(Write(v)) : i <= Len(got) => got[i] = Write(v)[i]
  BY <1>1, <1>2
<1>4. Parser(language, got) =
        IF Len(Write(v)) <= Len(got) THEN Whole(Len(Write(v)), v) ELSE Incomplete
  BY <1>1, <1>3, WholeValuesAreRead
<1>5. Len(got) \in Nat /\ Len(Write(v)) \in Nat
  BY <1>1, <1>2
<1> QED
  BY <1>4, <1>5

LEMMA WritesSomething ==
  ASSUME NEW language, NEW v \in Readable(language)
  PROVE  Write(v) \in Seq(Unit) /\ Len(Write(v)) > 0
<1>1. Write(v) \in Seq(Unit)
  BY ValueWritten
<1>2. ASSUME Len(Write(v)) = 0 PROVE FALSE
  <2>1. Arriving(<<>>, <<>>, Write(v))
    BY <1>1, NothingYet
  <2>2. Parser(language, <<>>) = Whole(0, v)
    <3>1. Parser(language, <<>>) = Whole(Len(Write(v)), v)
      BY <1>2, <2>1, ReplyRead
    <3> QED
      BY <1>2, <3>1
  <2>3. Parser(language, <<>>) = Incomplete
    <3>1. PICK b \in Seq(Unit) : b = <<>> /\ Len(b) = 0
      BY EmptySeq
    <3>2. FindCrLf(b, 0) = 0
      <4>1. 0 \in 0 .. Len(b)
        BY <3>1
      <4>2. FindCrLf(b, 0) = 0 \/ FindCrLf(b, 0) \in 0 + 1 .. Len(b)
        BY <4>1, LineEnds
      <4> QED
        BY <3>1, <4>2
    <3>3. FindCrLf(<<>>, 0) = 0
      BY <3>1, <3>2, Zenon
    <3> QED
      BY <3>3 DEF Parser, ValueAt
  <2> QED
    BY <2>2, <2>3 DEF Whole, Incomplete
<1> QED
  BY <1>1, <1>2

-----------------------------------------------------------------------------
(* A request at the server                                                  *)

\* What the clients send is an array of strings, and taken for one.
LEMMA RequestRead ==
  ASSUME NEW args \in Seq(Seq(Chars("c")))
  PROVE  /\ Request(args) \in Seq(Unit) /\ Len(Request(args)) > 0
         /\ resp_parse(Request(args)).n = Len(Request(args))
         /\ Arguments(Request(args)) = args
         /\ Rest(Request(args)) = <<>>
<1> DEFINE N == Len(args)
           q == [j \in 1 .. N |-> Bulk(args[j])]
           b == Request(args)
<1>1. N \in Nat /\ DOMAIN args = 1 .. N
  OBVIOUS
<1>2. \A j \in 1 .. N : args[j] \in Seq(Chars("c"))
  BY <1>1, ElementOfSeq
<1>3. \A j \in 1 .. N : q[j] \in Simple("c") /\ q[j] = Bulk(args[j])
  BY <1>2 DEF Simple
<1>4. q \in Seq(Simple("c")) /\ Len(q) = N /\ DOMAIN q = 1 .. N
  <2>1. q \in [1 .. N -> Simple("c")]
    BY <1>3
  <2> HIDE DEF q
  <2> QED
    BY <1>1, <2>1
<1>5. b = WriteArray(q)
  BY <1>1, Zenon DEF Request
<1>6. Array(q) \in Readable("c")
  BY <1>4 DEF Readable
<1>7. Write(Array(q)) = b
  <2> HIDE DEF q
  <2> QED
    BY <1>5 DEF Write, Array
<1>8. b \in Seq(Unit) /\ Len(b) > 0
  BY <1>6, <1>7, WritesSomething
<1> HIDE DEF b
<1>9. resp_parse(b) = Whole(Len(b), Array(q))
  <2>1. Parser("c", b) = IF Len(b) <= Len(b) THEN Whole(Len(b), Array(q)) ELSE Incomplete
    BY <1>6, <1>7, <1>8, WholeValuesAreRead
  <2> HIDE DEF q
  <2> QED
    BY <1>8, <2>1 DEF resp_parse
<1>10. resp_parse(b).n = Len(b) /\ resp_parse(b).v = Array(q)
  <2> HIDE DEF q
  <2> QED
    BY <1>9 DEF Whole
<1>11. Rest(b) = <<>>
  <2>1. Rest(b) = SubSeq(b, Len(b) + 1, Len(b))
    BY <1>10 DEF Rest
  <2>2. Len(b) + 1 \in Int /\ Len(b) \in Int /\ Len(b) < Len(b) + 1
    BY <1>8
  <2> QED
    BY <2>1, <2>2, SubSeqEmpty
<1>12. Arguments(b) = args
  <2>1. resp_parse(b).v[2] = q
    <3> HIDE DEF q
    <3> QED
      BY <1>10 DEF Array
  <2>2. Arguments(b) = [j \in DOMAIN q |-> q[j][2]]
    <3> HIDE DEF q
    <3> QED
      BY <2>1 DEF Arguments
  <2>3. Arguments(b) = [j \in 1 .. N |-> q[j][2]]
    BY <1>4, <2>2
  <2>4. \A j \in 1 .. N : q[j][2] = args[j]
    <3> HIDE DEF q
    <3> QED
      BY <1>3 DEF Bulk
  <2>5. args = [j \in 1 .. N |-> args[j]]
    BY <1>1
  <2> HIDE DEF q
  <2> QED
    BY <2>3, <2>4, <2>5
<1> QED
  BY <1>8, <1>10, <1>11, <1>12 DEF b

\* Nothing is not a request.
LEMMA NothingRequested ==
  ~ Requested(<<>>)
<1>1. PICK b \in Seq(Unit) : b = <<>> /\ Len(b) = 0
  BY EmptySeq
<1>2. FindCrLf(b, 0) = 0
  <2>1. 0 \in 0 .. Len(b)
    BY <1>1
  <2>2. FindCrLf(b, 0) = 0 \/ FindCrLf(b, 0) \in 0 + 1 .. Len(b)
    BY <2>1, LineEnds
  <2> QED
    BY <1>1, <2>2
<1>3. FindCrLf(<<>>, 0) = 0
  BY <1>1, <1>2, Zenon
<1>4. resp_parse(<<>>) = Incomplete
  BY <1>3 DEF resp_parse, Parser, ValueAt
<1> QED
  BY <1>4 DEF Requested, Incomplete

-----------------------------------------------------------------------------
(* Decoding                                                                 *)

\* No byte of a letter outside ASCII.
Plain(q) == \A i \in 1 .. Len(q) : q[i] # Byte("hi") /\ q[i] # Byte("lo")

LEMMA DecodesPlain ==
  ASSUME NEW q \in Seq(Unit), Plain(q)
  PROVE  Decode(q) = q
<1> DEFINE N == Len(q)
           p == [j \in 1 .. N |-> <<q[j]>>]
<1>1. N \in Nat /\ DOMAIN q = 1 .. N
  OBVIOUS
<1>2. \A j \in 1 .. N : CharAt(q, j) = <<q[j]>>
  BY Zenon DEF CharAt, Plain
<1>3. [j \in DOMAIN q |-> CharAt(q, j)] = p
  BY <1>1, <1>2, Zenon
<1>4. Decode(q) = FlattenSeq(p)
  BY <1>3, Zenon DEF Decode
<1>5. \A j \in 1 .. N : p[j] = <<q[j]>> /\ p[j] \in Seq(Unit) /\ Len(p[j]) = 1 /\ p[j][1] = q[j]
  <2> TAKE j \in 1 .. N
  <2>1. q[j] \in Unit
    BY ElementOfSeq
  <2>2. p[j] = <<q[j]>>
    BY Zenon
  <2> HIDE DEF p
  <2> QED
    BY <2>1, <2>2
<1>6. p \in Seq(Seq(Unit)) /\ Len(p) = N
  <2>1. p \in [1 .. N -> Seq(Unit)]
    BY <1>5, Zenon
  <2> HIDE DEF p
  <2> QED
    BY <1>1, <2>1
<1> HIDE DEF p
<1>7. PICK w : /\ w \in [0 .. N -> Seq(Unit)] /\ Joins(w, p) /\ FlattenSeq(p) = w[N]
  BY <1>6, Flattens
<1>8. PartsAt(w, p)
  BY <1>6, <1>7, JoinedParts
<1>9. w[0] = <<>> /\ \A j \in 1 .. N : Len(w[j]) = Len(w[j - 1]) + 1
  BY <1>5, <1>6, <1>7, <1>8 DEF PartsAt, Joins
<1>10. \A j \in 0 .. N : Len(w[j]) = j
  <2> DEFINE S == {j \in 0 .. N : Len(w[j]) = j}
  <2>1. 0 \in S
    BY <1>1, <1>9
  <2>2. \A j \in 0 .. N - 1 : j \in S => j + 1 \in S
    <3> TAKE j \in 0 .. N - 1
    <3>1. j + 1 \in 1 .. N /\ (j + 1) - 1 = j
      BY <1>1
    <3>2. Len(w[j + 1]) = Len(w[j]) + 1
      BY <1>9, <3>1
    <3> QED
      BY <1>1, <3>1, <3>2
  <2> HIDE DEF S
  <2>3. \A j \in 0 .. N : j \in S
    BY <1>1, <2>1, <2>2, Upwards
  <2> QED
    BY <2>3 DEF S
<1>11. \A i \in 1 .. N : w[N][i] = q[i]
  <2> TAKE i \in 1 .. N
  <2>1. 1 \in 1 .. Len(p[i]) /\ i - 1 \in 0 .. N
    BY <1>1, <1>5
  <2>2. w[N][Len(w[i - 1]) + 1] = p[i][1]
    BY <1>6, <1>8, <2>1 DEF PartsAt
  <2>3. Len(w[i - 1]) + 1 = i
    BY <1>1, <1>10, <2>1
  <2> QED
    BY <1>5, <2>2, <2>3
<1>12. w[N] \in Seq(Unit) /\ Len(w[N]) = N
  BY <1>1, <1>7, <1>10
<1>13. w[N] = q
  <2> DEFINE v == w[N]
  <2>1. v \in Seq(Unit) /\ Len(v) = N /\ \A i \in 1 .. N : v[i] = q[i]
    BY <1>11, <1>12
  <2> HIDE DEF v
  <2>2. v = q
    BY <1>1, <2>1
  <2> QED
    BY <2>2 DEF v
<1> QED
  BY <1>4, <1>7, <1>13

LEMMA NothingDecoded ==
  ASSUME NEW got, NEW coming, NEW w \in Seq(Unit), Arriving(got, coming, w), Plain(w),
         NEW n \in 1 .. Len(coming)
  PROVE  Decode(SubSeq(coming, 1, n)) = SubSeq(coming, 1, n)
<1>1. /\ got \in Seq(Unit) /\ coming \in Seq(Unit)
      /\ Len(got) + Len(coming) <= Len(w)
      /\ \A i \in 1 .. Len(coming) : coming[i] = w[Len(got) + i]
  BY DEF Arriving
<1>2. Len(w) \in Nat /\ Len(got) \in Nat /\ Len(coming) \in Nat /\ n \in Nat
  BY <1>1
<1>3. n \in 0 .. Len(coming)
  BY <1>2
<1>4. PICK c \in Seq(Unit) : c = SubSeq(coming, 1, n)
  BY <1>1, <1>3, Cut
<1>5. Len(c) = n /\ \A i \in 1 .. n : c[i] = coming[i]
  BY <1>1, <1>3, <1>4, Cut
<1>6. Plain(c)
  <2>1. ASSUME NEW i \in 1 .. Len(c) PROVE c[i] # Byte("hi") /\ c[i] # Byte("lo")
    <3>1. i \in 1 .. n /\ i \in 1 .. Len(coming) /\ Len(got) + i \in 1 .. Len(w)
      BY <1>1, <1>2, <1>5
    <3>2. c[i] = w[Len(got) + i]
      BY <1>1, <1>5, <3>1
    <3> QED
      BY <3>1, <3>2 DEF Plain
  <2> QED
    BY <2>1 DEF Plain
<1>7. Decode(c) = c
  BY <1>6, DecodesPlain
<1> QED
  BY <1>4, <1>7

\* From got and coming to d and r.
GoesOn(v, got, coming, d, r) ==
  /\ Arriving(d, r, Write(v))
  /\ Len(d) + Len(r) = Len(got) + Len(coming)
  /\ \/ Len(d) < Len(Write(v)) /\ parseRESP(d) = Incomplete
     \/ parseRESP(d) = Whole(Len(Write(v)), v) /\ Len(Write(v)) > 0

\* With a chunk more the reply is read if that was the last.
LEMMA ChunkRead ==
  ASSUME NEW v \in Readable("js"), Plain(Write(v)), NEW got, NEW coming,
         Arriving(got, coming, Write(v)), NEW n \in 1 .. Len(coming)
  PROVE  GoesOn(v, got, coming, got \o Decode(SubSeq(coming, 1, n)),
                SubSeq(coming, n + 1, Len(coming)))
<1>0. PICK d, r : /\ d = got \o Decode(SubSeq(coming, 1, n))
                  /\ r = SubSeq(coming, n + 1, Len(coming))
  OBVIOUS
<1>1. Write(v) \in Seq(Unit) /\ Len(Write(v)) > 0
  BY WritesSomething
<1>2. d = got \o SubSeq(coming, 1, n)
  BY <1>0, <1>1, NothingDecoded
<1>3. Arriving(d, r, Write(v)) /\ Len(d) = Len(got) + n /\ Len(r) = Len(coming) - n
  <2>1. /\ Arriving(got \o SubSeq(coming, 1, n), SubSeq(coming, n + 1, Len(coming)), Write(v))
        /\ Len(got \o SubSeq(coming, 1, n)) = Len(got) + n
        /\ Len(SubSeq(coming, n + 1, Len(coming))) = Len(coming) - n
    BY <1>1, MoreArrives
  <2> QED
    BY <1>0, <1>2, <2>1, Zenon
<1>4. /\ Len(d) < Len(Write(v)) => parseRESP(d) = Incomplete
      /\ Len(d) >= Len(Write(v)) => parseRESP(d) = Whole(Len(Write(v)), v)
  BY <1>3, ReplyRead DEF parseRESP
<1>5. Len(d) \in Nat /\ Len(Write(v)) \in Nat /\ Len(got) \in Nat /\ Len(coming) \in Nat
  BY <1>1, <1>3 DEF Arriving
<1>7. Len(d) + Len(r) = Len(got) + Len(coming)
  <2> DEFINE a == Len(got)
             e == Len(coming)
             f == Len(d)
             g == Len(r)
  <2>1. n \in Nat /\ a \in Nat /\ e \in Nat /\ f = a + n /\ g = e - n
    BY <1>3, <1>5
  <2> HIDE DEF a, e, f, g
  <2>2. f + g = a + e
    BY <2>1
  <2> QED
    BY <2>2 DEF a, e, f, g
<1>8. ASSUME NEW a \in Nat, NEW e \in Nat PROVE a < e \/ a >= e
  OBVIOUS
<1>9. GoesOn(v, got, coming, d, r)
  BY <1>1, <1>3, <1>4, <1>5, <1>7, <1>8, Zenon DEF GoesOn
<1> QED
  BY <1>0, <1>9, Zenon

LEMMA StillNothing ==
  ASSUME NEW z \in FirstUnits(<<>>)
  PROVE  z = <<>>
<1>1. PICK n \in 0 .. Len(<<>>) : z = SubSeq(<<>>, 1, n)
  BY DEF FirstUnits
<1>2. n = 0
  BY <1>1
<1> QED
  BY <1>1, <1>2, SubSeqEmpty

-----------------------------------------------------------------------------
(* The proxy                                                                *)

\* The posts that the proxy sends on to the server.
Sends(p) == p.body # "not json" /\ p.body # "no args"

\* What is posted has no zero byte, and its reply has no text that
\* resp_buf_appendf cuts and no letter of more than one byte: of these the
\* proxy counts the characters and the server the bytes (README, section 3).
ProxyReads ==
  \A p \in Posts : Sends(p) =>
    /\ p.args \in Seq(Seq(Chars("c")))
    /\ ReplyTo(p.args) \in Readable("js")
    /\ Plain(Write(ReplyTo(p.args)))

PostInv ==
  /\ post = NoPost => socket = "none" /\ timer = "off" /\ answer = None
  /\ socket = "connecting" => post \in Posts /\ post.body # "not json"
  /\ socket = "open" => post \in Posts /\ Sends(post)
  /\ socket = "connecting" \/ socket = "open" => answer = None

WireInv ==
  /\ socket = "none" \/ socket = "connecting" => toPeer = <<>> /\ ran = <<>>
  /\ ran = <<>> =>
       /\ data = <<>> /\ toProxy = <<>>
       /\ toPeer # <<>> => /\ post \in Posts /\ Sends(post)
                           /\ toPeer = Request(post.args)
       /\ answer = None \/ answer = Failed \/ answer = TimedOut
  /\ ran # <<>> =>
       /\ post \in Posts /\ Sends(post)
       /\ ran = <<post.args>> /\ toPeer = <<>>
       /\ Arriving(data, toProxy, Write(Reply))
       /\ server = "up" => Len(data) + Len(toProxy) = Len(Write(Reply))

AnswerInv ==
  ran # <<>> =>
    \/ answer = Result(Reply)
    \/ /\ answer = None \/ answer = Failed \/ answer = TimedOut \/ answer = Unparsed(data)
       /\ Len(data) < Len(Write(Reply))

ProxyInv == PostInv /\ WireInv /\ AnswerInv

LEMMA AnswersDiffer ==
  /\ None # Failed /\ None # TimedOut
  /\ \A v : Result(v) # None /\ Result(v) # Failed
BY DEF None, Failed, TimedOut, Result

LEMMA ProxyBegins == Init => ProxyInv
BY AnswersDiffer, ProxyAssumption
   DEF Init, ProxyInit, ProxyInv, PostInv, WireInv, AnswerInv

LEMMA PostStep ==
  ASSUME ProxyInv, NEW p \in Posts, Post(p)
  PROVE  ProxyInv'
<1> USE DEF ProxyInv
<1>1. /\ post = NoPost /\ post' = p /\ p # NoPost
      /\ server' = server /\ data' = data /\ toPeer' = toPeer /\ toProxy' = toProxy
      /\ ran' = ran
  BY ProxyAssumption DEF Post, net
<1>2. /\ socket = "none" /\ answer = None /\ toPeer = <<>> /\ ran = <<>>
      /\ data = <<>> /\ toProxy = <<>>
  BY <1>1 DEF PostInv, WireInv
<1>3. CASE p.body = "not json"
  <2>1. socket' = socket /\ answer' = Failed
    BY <1>2, <1>3 DEF Post, Settle
  <2> QED
    BY <1>1, <1>2, <2>1 DEF PostInv, WireInv, AnswerInv
<1>4. CASE p.body # "not json"
  <2>1. socket' = "connecting" /\ answer' = answer
    BY <1>4 DEF Post
  <2> QED
    BY <1>1, <1>2, <1>4, <2>1 DEF PostInv, WireInv, AnswerInv
<1> QED
  BY <1>3, <1>4

LEMMA ConnectedStep ==
  ASSUME ProxyInv, Connected
  PROVE  ProxyInv'
<1>1. /\ socket = "connecting" /\ post.body # "no args" /\ socket' = "open"
      /\ toPeer' = Request(post.args)
      /\ server' = server /\ post' = post /\ timer' = timer /\ data' = data
      /\ toProxy' = toProxy /\ ran' = ran /\ answer' = answer
  BY DEF Connected, buildRESP
<1>2. post \in Posts /\ Sends(post) /\ answer = None /\ ran = <<>> /\ post # NoPost
  BY <1>1, ProxyAssumption DEF ProxyInv, PostInv, WireInv, Sends
<1>3. data = <<>> /\ toProxy = <<>>
  BY <1>2 DEF ProxyInv, WireInv
<1>4. PostInv'
  BY <1>1, <1>2 DEF PostInv
<1>5. WireInv' /\ AnswerInv'
  BY <1>1, <1>2, <1>3 DEF WireInv, AnswerInv
<1> QED
  BY <1>4, <1>5 DEF ProxyInv

LEMMA ConnectThrowsStep ==
  ASSUME ProxyInv, ConnectThrows
  PROVE  ProxyInv'
BY DEF ConnectThrows, net, ProxyInv, PostInv, WireInv, AnswerInv, Reply

LEMMA SocketErrorStep ==
  ASSUME ProxyInv, SocketError
  PROVE  ProxyInv'
<1>1. /\ socket = "connecting" \/ socket = "open"
      /\ socket' = "shut" /\ post' = post /\ timer' = timer /\ data' = data
      /\ server' = server /\ toPeer' = toPeer /\ toProxy' = toProxy /\ ran' = ran
  BY DEF SocketError, net
<1>2. answer = None /\ answer' = Failed /\ post # NoPost
  BY <1>1 DEF SocketError, Settle, ProxyInv, PostInv
<1>3. PostInv'
  BY <1>1, <1>2 DEF PostInv
<1>4. WireInv' /\ AnswerInv'
  <2>1. answer # Result(Reply) /\ answer # Unparsed(data)
    BY <1>2, AnswersDiffer DEF Unparsed
  <2> QED
    BY <1>1, <1>2, <2>1 DEF ProxyInv, WireInv, AnswerInv, Reply
<1> QED
  BY <1>3, <1>4 DEF ProxyInv

LEMMA TimeoutStep ==
  ASSUME ProxyInv, Timeout
  PROVE  ProxyInv'
<1>1. /\ timer = "set" /\ socket' = "shut" /\ post' = post /\ data' = data
      /\ server' = server /\ toPeer' = toPeer /\ toProxy' = toProxy /\ ran' = ran
      /\ \/ answer # None /\ answer' = answer
         \/ answer = None /\ data = <<>> /\ answer' = TimedOut
         \/ answer = None /\ data # <<>> /\ answer' = Unparsed(data)
  BY DEF Timeout, net, Settle
<1>2. post # NoPost
  BY <1>1 DEF ProxyInv, PostInv
<1>3. PostInv'
  BY <1>1, <1>2 DEF PostInv
<1>4. WireInv'
  BY <1>1 DEF ProxyInv, WireInv, Reply
<1>5. AnswerInv'
  BY <1>1, AnswersDiffer DEF ProxyInv, WireInv, AnswerInv, Reply
<1> QED
  BY <1>3, <1>4, <1>5 DEF ProxyInv

LEMMA TurnAwayStep ==
  ASSUME ProxyInv, TurnAway
  PROVE  ProxyInv'
BY DEF TurnAway, ProxyInv, PostInv, WireInv, AnswerInv, Reply

LEMMA DataStep ==
  ASSUME ProxyReads, ProxyInv, Data
  PROVE  ProxyInv'
<1>1. PICK n \in 1 .. Len(toProxy) : Receive(n, data \o Chunk(n))
  BY DEF Data
<1>2. /\ socket = "open"
      /\ data' = data \o Decode(SubSeq(toProxy, 1, n))
      /\ toProxy' = SubSeq(toProxy, n + 1, Len(toProxy))
      /\ server' = server /\ post' = post /\ timer' = timer /\ toPeer' = toPeer /\ ran' = ran
      /\ IF parseRESP(data').n > 0
           THEN socket' = "shut" /\ Settle(Result(parseRESP(data').v))
           ELSE socket' = socket /\ answer' = answer
  BY <1>1 DEF Receive, Chunk
<1>3. answer = None
  BY <1>2 DEF ProxyInv, PostInv
<1>4. ran # <<>>
  <2>1. toProxy # <<>>
    BY <1>1
  <2> QED
    BY <2>1 DEF ProxyInv, WireInv
<1>5. /\ post \in Posts /\ Sends(post) /\ ran = <<post.args>> /\ toPeer = <<>>
      /\ Arriving(data, toProxy, Write(Reply))
      /\ server = "up" => Len(data) + Len(toProxy) = Len(Write(Reply))
  BY <1>4 DEF ProxyInv, WireInv
<1>6. Reply \in Readable("js") /\ Plain(Write(Reply)) /\ Reply' = Reply
  BY <1>2, <1>5 DEF ProxyReads, Reply
<1>7. /\ Arriving(data', toProxy', Write(Reply))
      /\ Len(data') + Len(toProxy') = Len(data) + Len(toProxy)
      /\ \/ Len(data') < Len(Write(Reply)) /\ parseRESP(data') = Incomplete
         \/ /\ parseRESP(data') = Whole(Len(Write(Reply)), Reply)
            /\ Len(Write(Reply)) > 0
  <2>1. GoesOn(Reply, data, toProxy, data \o Decode(SubSeq(toProxy, 1, n)),
               SubSeq(toProxy, n + 1, Len(toProxy)))
    BY <1>5, <1>6, ChunkRead
  <2> QED
    BY <1>2, <2>1, Zenon DEF GoesOn
<1>8. WireInv'
  BY <1>2, <1>4, <1>5, <1>6, <1>7 DEF WireInv
<1>9. CASE parseRESP(data') = Incomplete /\ Len(data') < Len(Write(Reply))
  <2>1. socket' = socket /\ answer' = answer
    BY <1>2, <1>9 DEF Incomplete
  <2> QED
    BY <1>2, <1>3, <1>6, <1>8, <1>9, <2>1 DEF ProxyInv, PostInv, AnswerInv
<1>10. CASE parseRESP(data') = Whole(Len(Write(Reply)), Reply) /\ Len(Write(Reply)) > 0
  <2>1. parseRESP(data').n > 0 /\ parseRESP(data').v = Reply
    BY <1>10 DEF Whole
  <2>2. socket' = "shut" /\ answer' = Result(Reply)
    BY <1>2, <1>3, <2>1 DEF Settle
  <2> QED
    BY <1>2, <1>6, <1>8, <2>2, ProxyAssumption, <1>5 DEF ProxyInv, PostInv, AnswerInv
<1> QED
  BY <1>7, <1>9, <1>10

LEMMA SocketEndStep ==
  ASSUME ProxyReads, ProxyInv, SocketEnd
  PROVE  ProxyInv'
<1>1. /\ socket = "open" /\ socket' = "shut" /\ post' = post /\ timer' = timer /\ data' = data
      /\ server' = server /\ toPeer' = toPeer /\ toProxy' = toProxy /\ ran' = ran
  BY DEF SocketEnd, net
<1>2. answer = None /\ post # NoPost /\ post \in Posts
  BY <1>1, ProxyAssumption DEF ProxyInv, PostInv
<1>3. answer' = IF data = <<>> THEN Failed
                  ELSE IF parseRESP(data).n > 0 THEN Result(parseRESP(data).v)
                  ELSE Unparsed(data)
  BY <1>2 DEF SocketEnd, Settle
<1>4. PostInv'
  BY <1>1, <1>2 DEF PostInv
<1>5. CASE ran = <<>>
  <2>1. answer' = Failed
    BY <1>3, <1>5 DEF ProxyInv, WireInv
  <2> QED
    BY <1>1, <1>4, <1>5, <2>1 DEF ProxyInv, WireInv, AnswerInv
<1>6. CASE ran # <<>>
  <2>1. Arriving(data, toProxy, Write(Reply)) /\ Sends(post)
    BY <1>6 DEF ProxyInv, WireInv
  <2>2. Reply \in Readable("js") /\ Reply' = Reply
    BY <1>1, <1>2, <2>1 DEF ProxyReads, Reply
  <2>3. Len(data) < Len(Write(Reply))
    BY <1>2, <1>6, AnswersDiffer DEF ProxyInv, AnswerInv
  <2>4. parseRESP(data) = Incomplete
    BY <2>1, <2>2, <2>3, ReplyRead DEF parseRESP
  <2>5. answer' = Failed \/ answer' = Unparsed(data)
    BY <1>3, <2>4 DEF Incomplete
  <2>6. WireInv'
    BY <1>1, <1>6, <2>2 DEF ProxyInv, WireInv
  <2> QED
    BY <1>1, <1>4, <1>6, <2>2, <2>3, <2>5, <2>6 DEF ProxyInv, AnswerInv
<1> QED
  BY <1>5, <1>6

\* The server executes the request once: what it takes leaves nothing behind.
LEMMA ServeProxyStep ==
  ASSUME ProxyReads, ProxyInv, ServeProxy
  PROVE  ProxyInv'
<1>1. /\ Requested(toPeer) /\ ran' = Append(ran, Arguments(toPeer)) /\ Served(toPeer)
      /\ toPeer' = Rest(toPeer) /\ toProxy' = toProxy \o Response(toPeer)
      /\ post' = post /\ socket' = socket /\ timer' = timer /\ data' = data
      /\ answer' = answer
  BY DEF ServeProxy
<1>2. toPeer # <<>>
  BY <1>1, NothingRequested
<1>3. ran = <<>>
  BY <1>2 DEF ProxyInv, WireInv
<1>4. /\ post \in Posts /\ Sends(post) /\ toPeer = Request(post.args)
      /\ data = <<>> /\ toProxy = <<>> /\ answer \in {None, Failed, TimedOut}
      /\ socket # "none" /\ socket # "connecting"
  BY <1>2, <1>3 DEF ProxyInv, WireInv
<1>5. /\ post.args \in Seq(Seq(Chars("c"))) /\ Reply \in Readable("js") /\ Reply' = Reply
  BY <1>1, <1>4 DEF ProxyReads, Reply
<1>6. Arguments(toPeer) = post.args /\ Rest(toPeer) = <<>>
  BY <1>4, <1>5, RequestRead
<1>7. ran' = <<post.args>> /\ ran' # <<>> /\ toPeer' = <<>>
  BY <1>1, <1>3, <1>6
<1>8. Write(Reply) \in Seq(Unit) /\ Len(Write(Reply)) > 0
  BY <1>5, WritesSomething
<1>9. Response(toPeer) = Write(Reply) \/ (Response(toPeer) = <<>> /\ server' # "up")
  <2>1. CASE server = "stopping" \/ Stops(Arguments(toPeer))
    BY <1>1, <2>1 DEF Response, Served
  <2>2. CASE ~ (server = "stopping" \/ Stops(Arguments(toPeer)))
    BY <1>6, <2>2 DEF Response, Reply
  <2> QED
    BY <2>1, <2>2
<1>10. toProxy' = Response(toPeer)
  <2>1. Response(toPeer) \in Seq(Unit)
    BY <1>8, <1>9, EmptySeq
  <2> QED
    BY <1>1, <1>4, <2>1, ConcatEmptySeq
<1>11. /\ Arriving(data', toProxy', Write(Reply))
       /\ server' = "up" => Len(data') + Len(toProxy') = Len(Write(Reply))
  <2>1. data' = <<>> /\ Len(data') = 0
    BY <1>1, <1>4
  <2>2. CASE Response(toPeer) = Write(Reply)
    <3>1. toProxy' = Write(Reply)
      BY <1>10, <2>2
    <3>2. Arriving(data', toProxy', Write(Reply))
      BY <1>8, <2>1, <3>1, NothingYet, Zenon
    <3>3. Len(data') + Len(toProxy') = Len(Write(Reply))
      BY <1>8, <2>1, <3>1
    <3> QED
      BY <3>2, <3>3
  <2>3. CASE Response(toPeer) = <<>> /\ server' # "up"
    BY <1>8, <1>10, <2>1, <2>3, NothingYet
  <2> QED
    BY <1>9, <2>2, <2>3
<1>12. PostInv'
  BY <1>1 DEF ProxyInv, PostInv
<1>13. WireInv'
  BY <1>1, <1>4, <1>5, <1>7, <1>11 DEF WireInv
<1>14. AnswerInv'
  <2>1. Len(data') < Len(Write(Reply))
    BY <1>1, <1>4, <1>8
  <2> QED
    BY <1>1, <1>4, <1>5, <2>1 DEF AnswerInv
<1> QED
  BY <1>12, <1>13, <1>14 DEF ProxyInv

LEMMA ServerEndsForProxy ==
  ASSUME ProxyReads, ProxyInv, ServerEnds
  PROVE  ProxyInv'
<1>1. /\ server' = "down" /\ toProxy' \in FirstUnits(toProxy)
      /\ post' = post /\ socket' = socket /\ timer' = timer /\ data' = data
      /\ toPeer' = toPeer /\ ran' = ran /\ answer' = answer /\ Reply' = Reply
  BY DEF ServerEnds, Reply
<1>2. PostInv'
  BY <1>1 DEF ProxyInv, PostInv
<1>3. AnswerInv'
  BY <1>1 DEF ProxyInv, AnswerInv
<1>4. CASE ran = <<>>
  <2>1. toProxy' = <<>>
    BY <1>1, <1>4, StillNothing DEF ProxyInv, WireInv
  <2> QED
    BY <1>1, <1>2, <1>3, <1>4, <2>1 DEF ProxyInv, WireInv
<1>5. CASE ran # <<>>
  <2>1. Arriving(data, toProxy, Write(Reply)) /\ post \in Posts /\ Sends(post)
    BY <1>5 DEF ProxyInv, WireInv
  <2>2. Write(Reply) \in Seq(Unit)
    <3>1. Reply \in Readable("js")
      BY <2>1 DEF ProxyReads, Reply
    <3> QED
      BY <3>1, WritesSomething
  <2>3. Arriving(data', toProxy', Write(Reply))
    BY <1>1, <2>1, <2>2, LessComes, Zenon
  <2> QED
    BY <1>1, <1>2, <1>3, <1>5, <2>3 DEF ProxyInv, WireInv
<1> QED
  BY <1>4, <1>5

LEMMA CliForProxy ==
  ASSUME ProxyInv, CliNext, UNCHANGED proxyVars
  PROVE  ProxyInv'
<1>1. /\ post' = post /\ socket' = socket /\ timer' = timer /\ data' = data
      /\ toPeer' = toPeer /\ toProxy' = toProxy /\ ran' = ran /\ answer' = answer
      /\ Reply' = Reply
  BY DEF proxyVars, Reply
<1>2. server' = "up" => server = "up"
  BY DEF CliNext, CliStep, ReadLine, EndOfInput, SendRequest, SendLost, RecvReply, Receives,
         ReplyLost, ShowReply, ServeCli, Served
<1> QED
  BY <1>1, <1>2 DEF ProxyInv, PostInv, WireInv, AnswerInv

LEMMA ProxyKept ==
  ASSUME ProxyReads, ProxyInv, [Next]_clientVars
  PROVE  ProxyInv'
<1>1. CASE CliNext /\ UNCHANGED proxyVars
  BY <1>1, CliForProxy
<1>2. CASE ProxyNext
  BY <1>2, PostStep, ConnectedStep, ConnectThrowsStep, SocketErrorStep, DataStep,
     SocketEndStep, TimeoutStep, ServeProxyStep, TurnAwayStep
     DEF ProxyNext, ProxyStep
<1>3. CASE ServerEnds
  BY <1>3, ServerEndsForProxy
<1>4. CASE UNCHANGED clientVars
  BY <1>4 DEF clientVars, proxyVars, ProxyInv, PostInv, WireInv, AnswerInv, Reply
<1> QED
  BY <1>1, <1>2, <1>3, <1>4 DEF Next

LEMMA CutShort ==
  ASSUME NEW w \in Seq(Unit), NEW got, NEW coming, Arriving(got, coming, w),
         Len(got) < Len(w)
  PROVE  IsStrictPrefix(got, w)
<1>1. got \in Seq(Unit) /\ \A i \in 1 .. Len(got) : got[i] = w[i]
  BY DEF Arriving
<1>2. Len(got) \in 0 .. Len(w) /\ Len(got) \in 0 .. Len(got)
  BY <1>1
<1>3. SubSeq(got, 1, Len(got)) = got
  BY <1>1, SubSeqFull
<1>4. PICK c \in Seq(Unit) : c = SubSeq(w, 1, Len(got))
  BY <1>2, Cut
<1>5. Len(c) = Len(got) /\ \A i \in 1 .. Len(got) : c[i] = w[i]
  BY <1>2, <1>4, Cut
<1>6. c = got
  BY <1>1, <1>5
<1> QED
  BY <1>1, <1>3, <1>4, <1>6 DEF IsStrictPrefix, IsPrefix

LEMMA ProxyTells ==
  ASSUME ProxyReads, ProxyInv
  PROVE  ResultIsTrue /\ WholeReplyAnswers
<1>1. CASE ran = <<>>
  BY <1>1 DEF ProxyInv, WireInv, ResultIsTrue, WholeReplyAnswers, None, Failed
<1>2. CASE ran # <<>>
  <2>1. /\ ran = <<post.args>> /\ Arriving(data, toProxy, Write(Reply))
        /\ post \in Posts /\ Sends(post)
        /\ server = "up" => Len(data) + Len(toProxy) = Len(Write(Reply))
    BY <1>2 DEF ProxyInv, WireInv
  <2>2. Reply \in Readable("js") /\ Plain(Write(Reply))
    BY <2>1 DEF ProxyReads, Reply
  <2>3. Write(Reply) \in Seq(Unit)
    BY <2>2, WritesSomething
  <2>4. Decode(Write(Reply)) = Write(Reply)
    BY <2>2, <2>3, DecodesPlain
  <2>5. ResultIsTrue
    <3>1. CASE Len(data) < Len(Write(Reply))
      <4>1. IsStrictPrefix(data, Decode(Write(Reply)))
        BY <2>1, <2>3, <2>4, <3>1, CutShort, Zenon
      <4> QED
        BY <1>2, <2>1, <4>1 DEF ProxyInv, AnswerInv, ResultIsTrue, None, Failed
    <3>2. CASE ~ (Len(data) < Len(Write(Reply)))
      BY <1>2, <2>1, <3>2 DEF ProxyInv, AnswerInv, ResultIsTrue
    <3> QED
      BY <3>1, <3>2
  <2>6. WholeReplyAnswers
    <3>1. ASSUME server = "up", toProxy = <<>> PROVE answer = Result(Reply)
      <4>1. Len(data) \in Nat /\ Len(toProxy) = 0
        BY <2>1, <3>1 DEF Arriving
      <4>2. Len(data) = Len(Write(Reply))
        BY <2>1, <3>1, <4>1
      <4>3. ~ (Len(data) < Len(Write(Reply)))
        BY <4>1, <4>2
      <4> QED
        BY <1>2, <4>3 DEF ProxyInv, AnswerInv
    <3> QED
      BY <3>1 DEF WholeReplyAnswers
  <2> QED
    BY <2>5, <2>6
<1> QED
  BY <1>1, <1>2

LEMMA ProxyInvariance ==
  ASSUME ProxyReads
  PROVE  Spec => []ProxyInv
<1>1. Init => ProxyInv
  BY ProxyBegins
<1>2. ProxyInv /\ [Next]_clientVars => ProxyInv'
  BY ProxyKept
<1> QED
  BY <1>1, <1>2, PTL DEF Spec

\* In whatever chunks the socket gives a reply to the data handler of proxy.js
\* (:64-98), a result that it answers is the reply of the server to that very
\* request, which was executed once; a part of a reply is never taken for one.
THEOREM ProxyTellsTheTruth ==
  ASSUME ProxyReads
  PROVE  Spec => []ResultIsTrue
<1>1. ProxyInv => ResultIsTrue
  BY ProxyTells
<1> QED
  BY <1>1, ProxyInvariance, PTL

\* With the last unit of a reply the data handler of proxy.js has answered it:
\* no cut makes it wait for bytes that do not come.
THEOREM ProxyAnswersWholeReplies ==
  ASSUME ProxyReads
  PROVE  Spec => []WholeReplyAnswers
<1>1. ProxyInv => WholeReplyAnswers
  BY ProxyTells
<1> QED
  BY <1>1, ProxyInvariance, PTL

-----------------------------------------------------------------------------
(* The words of a line                                                      *)

States(T) ==
  {s \in [mode : {"gap", "word", "quoted"}, toks : Seq(Seq(T))] :
     s.mode # "gap" => Len(s.toks) > 0}

LEMMA GrownTyped ==
  ASSUME NEW T, NEW toks \in Seq(Seq(T)), Len(toks) > 0, NEW c \in T
  PROVE  Grown(toks, c) \in Seq(Seq(T)) /\ Len(Grown(toks, c)) = Len(toks)
<1>1. Len(toks) \in Nat /\ Len(toks) \in 1 .. Len(toks) /\ DOMAIN toks = 1 .. Len(toks)
  OBVIOUS
<1>2. toks[Len(toks)] \in Seq(T)
  BY <1>1, ElementOfSeq
<1>3. Append(toks[Len(toks)], c) \in Seq(T)
  BY <1>2
<1> DEFINE g == [j \in 1 .. Len(toks) |->
                   IF j = Len(toks) THEN Append(toks[Len(toks)], c) ELSE toks[j]]
<1>4. Grown(toks, c) = g
  BY <1>1 DEF Grown
<1>5. g \in [1 .. Len(toks) -> Seq(T)]
  <2>1. \A j \in 1 .. Len(toks) : toks[j] \in Seq(T)
    BY ElementOfSeq
  <2> QED
    BY <1>3, <2>1, Zenon
<1>6. g \in Seq(Seq(T)) /\ Len(g) = Len(toks)
  <2> DEFINE n == Len(toks)
             E == Seq(T)
  <2>1. g \in [1 .. n -> E] /\ n \in Nat
    BY <1>1, <1>5
  <2> HIDE DEF g, n, E
  <2>2. g \in Seq(E) /\ Len(g) = n
    BY <2>1
  <2> QED
    BY <2>2 DEF n, E
<1> QED
  BY <1>4, <1>6, Zenon

LEMMA ScanTyped ==
  ASSUME NEW T, NEW s \in States(T), NEW c \in T
  PROVE  Scan(s, c) \in States(T)
<1>1. /\ s \in [mode : {"gap", "word", "quoted"}, toks : Seq(Seq(T))]
      /\ s.mode # "gap" => Len(s.toks) > 0
      /\ s.toks \in Seq(Seq(T))
  BY DEF States
<1>2. CASE s.mode = "gap"
  <2>1. <<>> \in Seq(T) /\ <<c>> \in Seq(T)
    OBVIOUS
  <2>2. \A x \in Seq(T) : Append(s.toks, x) \in Seq(Seq(T)) /\ Len(Append(s.toks, x)) > 0
    BY <1>1
  <2>3. \/ Scan(s, c) = s
        \/ Scan(s, c) = [mode |-> "quoted", toks |-> Append(s.toks, <<>>)]
        \/ Scan(s, c) = [mode |-> "word", toks |-> Append(s.toks, <<c>>)]
    BY <1>2 DEF Scan
  <2>4. \A x \in Seq(T) : \A m \in {"word", "quoted"} :
          [mode |-> m, toks |-> Append(s.toks, x)] \in States(T)
    BY <2>2 DEF States
  <2> QED
    BY <2>1, <2>3, <2>4
<1>3. CASE s.mode # "gap"
  <2>1. Grown(s.toks, c) \in Seq(Seq(T)) /\ Len(Grown(s.toks, c)) > 0
    BY <1>1, <1>3, GrownTyped
  <2>2. s.mode = "word" \/ s.mode = "quoted"
    BY <1>1, <1>3
  <2>3. \/ Scan(s, c) = [s EXCEPT !.mode = "gap"]
        \/ Scan(s, c) = [s EXCEPT !.toks = Grown(s.toks, c)]
    BY <2>2 DEF Scan
  <2>4. [s EXCEPT !.mode = "gap"] \in States(T)
    BY <1>1 DEF States
  <2>5. [s EXCEPT !.toks = Grown(s.toks, c)] \in States(T)
    BY <1>1, <2>1 DEF States
  <2> QED
    BY <2>3, <2>4, <2>5
<1> QED
  BY <1>2, <1>3

\* f is what has been made of the first m characters.
Scans(f, l, m) ==
  f = [j \in 0 .. m |-> IF j = 0 THEN Unscanned ELSE Scan(f[j - 1], l[j])]

LEMMA ScansExist ==
  ASSUME NEW l, NEW N \in Nat
  PROVE  \E f : Scans(f, l, N)
<1> DEFINE S == {m \in 0 .. N : \E f : Scans(f, l, m)}
<1>1. 0 \in S
  <2> DEFINE f == [j \in 0 .. 0 |-> Unscanned]
  <2>1. f = [j \in 0 .. 0 |-> IF j = 0 THEN Unscanned ELSE Scan(f[j - 1], l[j])]
    <3>1. \A j \in 0 .. 0 : j = 0
      OBVIOUS
    <3> QED
      BY <3>1, Zenon
  <2> HIDE DEF f
  <2>2. Scans(f, l, 0)
    BY <2>1 DEF Scans
  <2> QED
    BY <2>2
<1>2. ASSUME NEW m \in 0 .. N - 1, m \in S PROVE m + 1 \in S
  <2>1. PICK f : Scans(f, l, m)
    BY <1>2
  <2> DEFINE Next1(h, j) == IF j = 0 THEN Unscanned ELSE Scan(h[j - 1], l[j])
             g == [j \in 0 .. m + 1 |-> Next1(f, j)]
  <2>2. \A j \in 0 .. m : f[j] = Next1(f, j)
    BY <2>1 DEF Scans
  <2>3. \A j \in 0 .. m : g[j] = f[j]
    <3>1. \A j \in 0 .. m : j \in 0 .. m + 1
      OBVIOUS
    <3> QED
      BY <2>2, <3>1, Zenon
  <2>4. \A j \in 0 .. m + 1 : Next1(f, j) = Next1(g, j)
    <3> TAKE j \in 0 .. m + 1
    <3>1. CASE j = 0
      BY <3>1
    <3>2. CASE j # 0
      <4>1. j - 1 \in 0 .. m
        BY <3>2
      <4>2. g[j - 1] = f[j - 1]
        BY <2>3, <4>1
      <4> HIDE DEF g
      <4> QED
        BY <4>2
    <3> QED
      BY <3>1, <3>2
  <2>5. g = [j \in 0 .. m + 1 |-> Next1(g, j)]
    <3>1. g = [j \in 0 .. m + 1 |-> Next1(f, j)]
      OBVIOUS
    <3> HIDE DEF g, Next1
    <3> QED
      BY <2>4, <3>1
  <2> HIDE DEF g
  <2>6. Scans(g, l, m + 1)
    BY <2>5 DEF Scans
  <2> QED
    BY <2>6
<1> HIDE DEF S
<1>3. \A m \in 0 .. N : m \in S
  BY <1>1, <1>2, Upwards
<1>4. N \in S
  BY <1>3
<1> QED
  BY <1>4 DEF S

LEMMA TokensTyped ==
  ASSUME NEW T, NEW l \in Seq(T)
  PROVE  Tokens(l) \in Seq(Seq(T))
<1> DEFINE N == Len(l)
           scan == CHOOSE f : Scans(f, l, N)
<1>1. N \in Nat
  OBVIOUS
<1>2. Tokens(l) = scan[N].toks
  BY Zenon DEF Tokens, Scans
<1>3. Scans(scan, l, N)
  <2>1. \E f : Scans(f, l, N)
    BY <1>1, ScansExist
  <2> QED
    BY <2>1, Zenon
<1> HIDE DEF scan
<1>4. \A j \in 0 .. N : scan[j] \in States(T)
  <2> DEFINE S == {j \in 0 .. N : scan[j] \in States(T)}
  <2>1. 0 \in S
    <3>1. Unscanned \in States(T)
      <4>1. <<>> \in Seq(Seq(T))
        OBVIOUS
      <4> QED
        BY <4>1 DEF Unscanned, States
    <3>2. 0 \in 0 .. N
      BY <1>1
    <3>3. scan[0] = Unscanned
      BY <1>3, <3>2 DEF Scans
    <3> QED
      BY <3>1, <3>2, <3>3
  <2>2. ASSUME NEW j \in 0 .. N - 1, j \in S PROVE j + 1 \in S
    <3>1. j + 1 \in 0 .. N /\ j + 1 # 0 /\ (j + 1) - 1 = j /\ j + 1 \in 1 .. N
      BY <1>1
    <3>2. scan[j + 1] = Scan(scan[j], l[j + 1])
      BY <1>3, <3>1 DEF Scans
    <3>3. l[j + 1] \in T
      BY <3>1, ElementOfSeq
    <3> QED
      BY <2>2, <3>1, <3>2, <3>3, ScanTyped
  <2> HIDE DEF S
  <2>3. \A j \in 0 .. N : j \in S
    BY <1>1, <2>1, <2>2, Upwards
  <2> QED
    BY <2>3 DEF S
<1>5. scan[N] \in States(T)
  BY <1>1, <1>4
<1> QED
  BY <1>2, <1>5 DEF States

-----------------------------------------------------------------------------
(* A line from the input                                                    *)

\* Of q the first k characters are the line and the first t are gone: with the
\* newline, or without it where there was no room or there is none.
Takes(q, k, t) ==
  /\ k \in 0 .. Len(q) /\ k < LineSize
  /\ \A i \in 1 .. k : q[i] # Newline
  /\ \/ t = k + 1 /\ k + 1 <= Len(q) /\ q[k + 1] = Newline
     \/ t = k /\ k = LineSize - 1
     \/ t = k /\ k = 0 /\ \A i \in 1 .. Len(q) : q[i] # Newline

LEMMA LineTaken ==
  ASSUME NEW T, NEW q \in Seq(T), stdin = q
  PROVE  \E k : Takes(q, k, Taken) /\ Trimmed(SubSeq(q, 1, Taken)) = SubSeq(q, 1, k)
<1> DEFINE I == {i \in 1 .. Len(q) : q[i] = Newline}
           nl == SelectInSeq(stdin, LAMBDA c : c = Newline)
<1>1. Len(q) \in Nat /\ LineSize \in Nat /\ LineSize > 1 /\ LineSize - 1 \in Nat
  BY CliAssumption
<1>2. nl = IF I # {} THEN Min(I) ELSE 0
  BY DEF SelectInSeq
<1>3. Taken = Min({nl, LineSize - 1})
  BY Zenon DEF Taken
<1> HIDE DEF nl
<1>4. \/ I = {} /\ nl = 0
      \/ nl \in I /\ \A i \in I : nl <= i
  <2>1. CASE I # {}
    <3>1. I \subseteq Nat
      BY <1>1
    <3>2. \E x \in I : \A y \in I : x <= y
      BY <2>1, <3>1, Least
    <3>3. Min(I) \in I /\ \A y \in I : Min(I) <= y
      <4> HIDE DEF I
      <4> QED
        BY <3>2 DEF Min
    <3> QED
      BY <1>2, <2>1, <3>3, Zenon
  <2>2. CASE I = {}
    BY <1>2, <2>2
  <2> QED
    BY <2>1, <2>2
<1>5. nl \in Nat /\ nl <= Len(q)
  BY <1>1, <1>4
<1>6. Taken = IF nl <= LineSize - 1 THEN nl ELSE LineSize - 1
  <2>1. Min({nl, LineSize - 1}) = IF nl <= LineSize - 1 THEN nl ELSE LineSize - 1
    BY <1>1, <1>5 DEF Min
  <2> QED
    BY <1>3, <2>1
<1>7. CASE nl = 0
  <2>1. I = {}
    BY <1>4, <1>7
  <2>2. Taken = 0
    BY <1>1, <1>6, <1>7
  <2>3. SubSeq(q, 1, 0) = <<>>
    BY SubSeqEmpty
  <2>4. Takes(q, 0, Taken)
    BY <1>1, <2>1, <2>2 DEF Takes
  <2>5. Trimmed(SubSeq(q, 1, Taken)) = SubSeq(q, 1, 0)
    BY <2>2, <2>3 DEF Trimmed
  <2> QED
    BY <2>4, <2>5
<1>8. CASE nl # 0 /\ nl <= LineSize - 1
  <2> DEFINE k == nl - 1
  <2>1. nl \in I /\ (\A i \in I : nl <= i) /\ Taken = nl
    BY <1>4, <1>6, <1>8
  <2>2. /\ nl \in 1 .. Len(q) /\ q[nl] = Newline /\ nl \in 0 .. Len(q)
        /\ k \in 0 .. Len(q) /\ k < LineSize /\ k + 1 = nl
    BY <1>1, <1>5, <1>8, <2>1
  <2>3. \A i \in 1 .. k : q[i] # Newline
    <3> TAKE i \in 1 .. k
    <3>1. i \in 1 .. Len(q) /\ ~ (nl <= i)
      BY <1>5, <2>2
    <3> QED
      BY <2>1, <3>1
  <2>4. Takes(q, k, Taken)
    <3> HIDE DEF I, k
    <3> QED
      BY <1>5, <2>1, <2>2, <2>3 DEF Takes
  <2>5. PICK c \in Seq(T) : c = SubSeq(q, 1, nl)
    BY <2>2, Cut
  <2>6. Len(c) = nl /\ \A i \in 1 .. nl : c[i] = q[i]
    BY <2>2, <2>5, Cut
  <2>7. c # <<>> /\ Last(c) = Newline
    BY <2>2, <2>6 DEF Last
  <2>8. Trimmed(c) = SubSeq(c, 1, nl - 1)
    BY <2>6, <2>7 DEF Trimmed, Front
  <2>9. PICK e \in Seq(T) : e = SubSeq(c, 1, k)
    <3>1. k \in 0 .. Len(c)
      BY <1>5, <1>8, <2>6
    <3> QED
      BY <3>1, Cut
  <2>10. Len(e) = k /\ \A i \in 1 .. k : e[i] = c[i]
    <3>1. k \in 0 .. Len(c)
      BY <1>5, <1>8, <2>6
    <3> QED
      BY <2>9, <3>1, Cut
  <2>11. PICK g \in Seq(T) : g = SubSeq(q, 1, k)
    BY <2>2, Cut
  <2>12. Len(g) = k /\ \A i \in 1 .. k : g[i] = q[i]
    BY <2>2, <2>11, Cut
  <2>13. \A i \in 1 .. k : i \in 1 .. nl
    BY <1>5
  <2>14. e = g
    <3> HIDE DEF k
    <3>1. \A i \in 1 .. k : e[i] = g[i]
      BY <2>6, <2>10, <2>12, <2>13
    <3>2. Len(e) = Len(g) /\ \A i \in 1 .. Len(e) : e[i] = g[i]
      BY <2>10, <2>12, <3>1
    <3> QED
      BY <3>2
  <2> QED
    BY <2>1, <2>4, <2>5, <2>8, <2>9, <2>11, <2>14, Zenon
<1>9. CASE nl > LineSize - 1
  <2> DEFINE k == LineSize - 1
  <2>1. nl \in I /\ (\A i \in I : nl <= i) /\ Taken = k
    BY <1>1, <1>4, <1>5, <1>6, <1>9
  <2>2. k \in 0 .. Len(q) /\ k < LineSize /\ k > 0 /\ k < nl
    BY <1>1, <1>5, <1>9
  <2>3. \A i \in 1 .. k : q[i] # Newline
    <3> TAKE i \in 1 .. k
    <3>1. i \in 1 .. Len(q) /\ ~ (nl <= i)
      BY <1>5, <2>2
    <3> QED
      BY <2>1, <3>1
  <2>4. Takes(q, k, Taken)
    BY <2>1, <2>2, <2>3 DEF Takes
  <2>5. PICK c \in Seq(T) : c = SubSeq(q, 1, k)
    BY <2>2, Cut
  <2>6. Len(c) = k /\ \A i \in 1 .. k : c[i] = q[i]
    BY <2>2, <2>5, Cut
  <2>7. Last(c) # Newline
    <3>1. k \in 1 .. k
      BY <1>1, <2>2
    <3> HIDE DEF k
    <3>2. Last(c) = q[k]
      BY <2>6, <3>1 DEF Last
    <3> QED
      BY <2>3, <3>1, <3>2
  <2>8. Trimmed(c) = c
    BY <2>7 DEF Trimmed
  <2> QED
    BY <2>1, <2>4, <2>5, <2>8, Zenon
<1> QED
  BY <1>1, <1>5, <1>7, <1>8, <1>9

\* The lines that fgets gives.
Short == {l \in Seq(Chars("c")) : Len(l) < LineSize}

Input == Chars("c") \cup {Newline}

LEMMA LineIsShort ==
  ASSUME NEW q \in Seq(Input), NEW k, NEW t, Takes(q, k, t)
  PROVE  /\ t \in 0 .. Len(q)
         /\ SubSeq(q, 1, k) \in Short /\ SubSeq(q, t + 1, Len(q)) \in Seq(Input)
<1>1. /\ k \in 0 .. Len(q) /\ k < LineSize /\ t \in 0 .. Len(q)
      /\ \A i \in 1 .. k : q[i] # Newline
  BY DEF Takes
<1>2. SubSeq(q, t + 1, Len(q)) \in Seq(Input)
  BY <1>1, Cut
<1>3. PICK c \in Seq(Input) : c = SubSeq(q, 1, k)
  BY <1>1, Cut
<1>4. Len(c) = k /\ \A i \in 1 .. k : c[i] = q[i]
  BY <1>1, <1>3, Cut
<1>5. \A i \in 1 .. Len(c) : c[i] \in Chars("c")
  <2> TAKE i \in 1 .. Len(c)
  <2>1. c[i] \in Input
    BY ElementOfSeq
  <2>2. c[i] # Newline
    BY <1>1, <1>4
  <2> QED
    BY <2>1, <2>2 DEF Input
<1>6. c \in Seq(Chars("c"))
  BY <1>5
<1> QED
  BY <1>1, <1>2, <1>3, <1>4, <1>6 DEF Short

-----------------------------------------------------------------------------
(* The command line client                                                  *)

\* What it may ask.
Askable == {Tokens(l) : l \in Short} \ {<<>>}

\* The user types no zero byte, and what a line can ask for has a reply that
\* recv_response has room for and in which no text is cut.
CliReads ==
  /\ \A s \in Sessions : s.lines \in Seq(Seq(Chars("c") \ {Newline}))
  /\ \A a \in Askable :
       ReplyTo(a) \in Readable("c") /\ Len(Write(ReplyTo(a))) <= RecvSize

LEMMA AskedReads ==
  ASSUME CliReads, NEW a \in Askable
  PROVE  /\ a \in Seq(Seq(Chars("c"))) /\ a # <<>>
         /\ ReplyTo(a) \in Readable("c") /\ Len(Write(ReplyTo(a))) <= RecvSize
         /\ Write(ReplyTo(a)) \in Seq(Unit) /\ Len(Write(ReplyTo(a))) > 0
<1>1. ReplyTo(a) \in Readable("c") /\ Len(Write(ReplyTo(a))) <= RecvSize
  BY DEF CliReads
<1>2. Write(ReplyTo(a)) \in Seq(Unit) /\ Len(Write(ReplyTo(a))) > 0
  BY <1>1, WritesSomething
<1>3. PICK l \in Short : a = Tokens(l)
  BY DEF Askable
<1>4. l \in Seq(Chars("c"))
  BY DEF Short
<1>5. a \in Seq(Seq(Chars("c")))
  BY <1>3, <1>4, TokensTyped
<1> QED
  BY <1>1, <1>2, <1>5 DEF Askable

Waited  == asked[Len(asked)]
Awaited == Write(ReplyTo(Waited))

LineInv == stdin \in Seq(Input) /\ line \in Short

\* What has been shown are the replies to the first requests: all, or all but
\* the one that is waited for.
ShownInv ==
  /\ asked \in Seq(Askable) /\ shown \in Seq(Readable("c"))
  /\ Len(shown) <= Len(asked)
  /\ \A j \in 1 .. Len(shown) : shown[j] = ReplyTo(asked[j])

\* Between two requests nothing is under way.
TurnInv ==
  /\ at = "prompt" \/ at = "send" =>
       toServer = <<>> /\ toCli = <<>> /\ Len(shown) = Len(asked)
  /\ at = "send" => Tokens(line) # <<>>
  /\ at = "recv" \/ at = "show" => Len(asked) = Len(shown) + 1
  /\ at = "recv" =>
       \/ toServer = Request(Waited) /\ toCli = <<>> /\ reply = <<>>
       \/ /\ toServer = <<>> /\ Arriving(reply, toCli, Awaited)
          /\ Len(reply) < Len(Awaited)
  /\ at = "show" => reply = Awaited /\ toServer = <<>> /\ toCli = <<>>

CliInv == LineInv /\ ShownInv /\ TurnInv

LEMMA Waiting ==
  ASSUME CliReads, ShownInv, Len(asked) = Len(shown) + 1
  PROVE  Waited \in Askable
<1>1. Len(asked) \in 1 .. Len(asked) /\ asked \in Seq(Askable)
  BY DEF ShownInv
<1> QED
  BY <1>1, ElementOfSeq DEF Waited

\* The lines with their newlines, as CliInit has them.
Ends(s) == [j \in DOMAIN s.lines |-> Append(s.lines[j], Newline)]

\* w[j] is the input up to the end of line j.
Located(s, w) ==
  w \in [0 .. Len(s.lines) -> Seq(Input)] /\ Joins(w, Ends(s))

LEMMA InputTyped ==
  ASSUME CliReads, NEW s \in Sessions
  PROVE  /\ Ends(s) \in Seq(Seq(Input)) /\ Len(Ends(s)) = Len(s.lines)
         /\ \E w : Located(s, w) /\ FlattenSeq(Ends(s)) = w[Len(s.lines)]
         /\ FlattenSeq(Ends(s)) \in Seq(Input)
<1> DEFINE N == Len(s.lines)
           q == [j \in 1 .. N |-> Append(s.lines[j], Newline)]
<1>1. s.lines \in Seq(Seq(Chars("c") \ {Newline}))
  BY DEF CliReads
<1>2. N \in Nat /\ DOMAIN s.lines = 1 .. N
  BY <1>1
<1>3. ASSUME NEW j \in 1 .. N PROVE Append(s.lines[j], Newline) \in Seq(Input)
  <2>1. PICK l \in Seq(Chars("c") \ {Newline}) : l = s.lines[j]
    BY <1>1, ElementOfSeq
  <2>2. Chars("c") \ {Newline} \subseteq Input /\ Newline \in Input
    BY DEF Input
  <2>3. Append(l, Newline) \in Seq(Input)
    <3> HIDE DEF Input
    <3> QED
      BY <2>2
  <2> QED
    BY <2>1, <2>3
<1>4. q \in Seq(Seq(Input)) /\ Len(q) = N
  <2> DEFINE E == Seq(Input)
  <2>1. q \in [1 .. N -> E]
    BY <1>3
  <2> HIDE DEF q, N, E
  <2>2. q \in Seq(E) /\ Len(q) = N
    BY <1>2, <2>1
  <2> QED
    BY <2>2 DEF E
<1>5. PICK w : /\ w \in [0 .. N -> Seq(Input)] /\ Joins(w, q)
               /\ FlattenSeq(q) = w[N]
  <2> HIDE DEF q
  <2> QED
    BY <1>4, Flattens
<1>6. w[N] \in Seq(Input)
  BY <1>2, <1>5
<1>7. Ends(s) = q
  BY <1>2 DEF Ends
<1>8. Located(s, w)
  <2> HIDE DEF q
  <2> QED
    BY <1>5, <1>7 DEF Located
<1> QED
  BY <1>4, <1>5, <1>6, <1>7, <1>8, Zenon

LEMMA CliBegins == CliReads /\ Init => CliInv
<1> SUFFICES ASSUME CliReads, Init PROVE CliInv
  OBVIOUS
<1>1. /\ session \in Sessions
      /\ stdin = FlattenSeq([j \in DOMAIN session.lines |->
                               Append(session.lines[j], Newline)])
      /\ at = "prompt" /\ line = <<>> /\ toServer = <<>> /\ toCli = <<>>
      /\ asked = <<>> /\ shown = <<>>
  BY DEF Init, CliInit
<1>2. stdin \in Seq(Input)
  <2>1. stdin = FlattenSeq(Ends(session))
    BY <1>1, Zenon DEF Ends
  <2> QED
    BY <1>1, <2>1, InputTyped
<1>3. line \in Short
  <2>1. line \in Seq(Chars("c")) /\ Len(line) = 0
    BY <1>1, EmptySeq
  <2> QED
    BY <2>1, CliAssumption DEF Short
<1>4. ShownInv
  <2>1. asked \in Seq(Askable) /\ Len(asked) = 0
    BY <1>1, EmptySeq
  <2>2. shown \in Seq(Readable("c")) /\ Len(shown) = 0
    BY <1>1, EmptySeq
  <2> QED
    BY <2>1, <2>2 DEF ShownInv
<1> QED
  BY <1>1, <1>2, <1>3, <1>4 DEF CliInv, LineInv, TurnInv

LEMMA ReadLineStep ==
  ASSUME CliInv, ReadLine
  PROVE  CliInv'
<1>1. /\ at = "prompt" /\ line' = Trimmed(SubSeq(stdin, 1, Taken))
      /\ stdin' = SubSeq(stdin, Taken + 1, Len(stdin))
      /\ at' = IF Tokens(line') = <<>> THEN "prompt" ELSE "send"
      /\ reply' = reply /\ toServer' = toServer /\ toCli' = toCli
      /\ asked' = asked /\ shown' = shown
  BY DEF ReadLine
<1>2. PICK q \in Seq(Input) : q = stdin
  BY DEF CliInv, LineInv
<1>3. PICK k : Takes(q, k, Taken) /\ Trimmed(SubSeq(q, 1, Taken)) = SubSeq(q, 1, k)
  BY <1>2, LineTaken
<1>4. SubSeq(q, 1, k) \in Short /\ SubSeq(q, Taken + 1, Len(q)) \in Seq(Input)
  BY <1>3, LineIsShort
<1>5. LineInv'
  BY <1>1, <1>2, <1>3, <1>4 DEF LineInv
<1>6. ShownInv'
  BY <1>1 DEF CliInv, ShownInv
<1>7. TurnInv'
  BY <1>1 DEF CliInv, TurnInv
<1> QED
  BY <1>5, <1>6, <1>7 DEF CliInv

LEMMA OverStep ==
  ASSUME CliInv, EndOfInput \/ SendLost \/ ReplyLost
  PROVE  CliInv'
<1>1. /\ at' = "over" /\ line' = line /\ stdin' = stdin /\ asked' = asked /\ shown' = shown
  BY DEF EndOfInput, SendLost, ReplyLost
<1> QED
  BY <1>1 DEF CliInv, LineInv, ShownInv, TurnInv

LEMMA SendRequestStep ==
  ASSUME CliReads, CliInv, SendRequest
  PROVE  CliInv'
<1>1. /\ at = "send" /\ toServer' = toServer \o Request(Tokens(line))
      /\ asked' = Append(asked, Tokens(line)) /\ reply' = <<>> /\ at' = "recv"
      /\ stdin' = stdin /\ line' = line /\ toCli' = toCli /\ shown' = shown
  BY DEF SendRequest
<1>2. /\ toServer = <<>> /\ toCli = <<>> /\ Len(shown) = Len(asked)
      /\ Tokens(line) # <<>> /\ line \in Short
  BY <1>1 DEF CliInv, TurnInv, LineInv
<1>3. PICK a \in Askable : a = Tokens(line)
  BY <1>2 DEF Askable
<1>4. toServer' = Request(a)
  <2>1. Request(a) \in Seq(Unit)
    BY AskedReads, RequestRead
  <2> QED
    BY <1>1, <1>2, <1>3, <2>1, ConcatEmptySeq
<1>5. /\ asked \in Seq(Askable) /\ shown \in Seq(Readable("c"))
      /\ \A j \in 1 .. Len(shown) : shown[j] = ReplyTo(asked[j])
  BY DEF CliInv, ShownInv
<1>6. PICK x \in Seq(Askable) : x = Append(asked, a)
  BY <1>5, AppendProperties
<1>7. Len(x) = Len(asked) + 1 /\ x[Len(asked) + 1] = a /\ \A j \in 1 .. Len(asked) : x[j] = asked[j]
  BY <1>5, <1>6
<1>8. ShownInv'
  BY <1>1, <1>2, <1>3, <1>5, <1>6, <1>7 DEF ShownInv
<1>9. Waited' = a
  BY <1>1, <1>3, <1>6, <1>7 DEF Waited
<1>10. TurnInv'
  BY <1>1, <1>2, <1>3, <1>4, <1>6, <1>7, <1>9 DEF TurnInv
<1> QED
  BY <1>1, <1>8, <1>10 DEF CliInv, LineInv

LEMMA RecvReplyStep ==
  ASSUME CliReads, CliInv, RecvReply
  PROVE  CliInv'
<1>1. /\ at = "recv" /\ toCli # <<>>
      /\ at' = IF resp_parse(reply').n > 0 \/ Len(reply') = RecvSize THEN "show" ELSE "recv"
      /\ line' = line /\ stdin' = stdin /\ toServer' = toServer
      /\ asked' = asked /\ shown' = shown
  BY DEF RecvReply, Receives, parse_resp
<1>2. /\ Len(asked) = Len(shown) + 1 /\ toServer = <<>>
      /\ Arriving(reply, toCli, Awaited)
  BY <1>1 DEF CliInv, TurnInv
<1>3. /\ Waited \in Askable /\ Waited' = Waited /\ Awaited' = Awaited
  BY <1>1, <1>2, Waiting DEF CliInv, Waited, Awaited
<1>4. PICK v \in Readable("c") : v = ReplyTo(Waited)
  BY <1>3, AskedReads
<1>5. Awaited = Write(v)
  BY <1>4 DEF Awaited
<1>6. Write(v) \in Seq(Unit) /\ Len(Write(v)) > 0 /\ Len(Write(v)) <= RecvSize
  BY <1>3, <1>4, AskedReads
<1>7. Arriving(reply, toCli, Write(v))
  BY <1>2, <1>5
<1>8. PICK n \in 1 .. Len(toCli) :
        reply' = reply \o SubSeq(toCli, 1, n) /\ toCli' = SubSeq(toCli, n + 1, Len(toCli))
  <2>1. PICK n \in 1 .. Min({Len(toCli), RecvSize - Len(reply)}) :
          reply' = reply \o SubSeq(toCli, 1, n) /\ toCli' = SubSeq(toCli, n + 1, Len(toCli))
    BY DEF RecvReply, Receives
  <2>2. Len(toCli) \in Nat /\ Len(reply) \in Nat /\ RecvSize \in Nat
    BY <1>7, CliAssumption DEF Arriving
  <2>3. Min({Len(toCli), RecvSize - Len(reply)}) <= Len(toCli) /\
        Min({Len(toCli), RecvSize - Len(reply)}) \in Int
    <3> DEFINE a == Len(toCli)
               b == RecvSize - Len(reply)
    <3>1. a \in Int /\ b \in Int
      BY <2>2
    <3> HIDE DEF a, b
    <3>2. Min({a, b}) \in Int /\ Min({a, b}) <= a
      BY <3>1 DEF Min
    <3> QED
      BY <3>2 DEF a, b
  <2>4. n \in 1 .. Len(toCli)
    BY <2>2, <2>3
  <2> QED
    BY <2>1, <2>4
<1>9. Arriving(reply', toCli', Write(v))
  BY <1>6, <1>7, <1>8, MoreArrives
<1>10. Len(reply') \in Nat
  BY <1>9 DEF Arriving
<1>11. ShownInv' /\ LineInv'
  BY <1>1 DEF CliInv, ShownInv, LineInv
<1>12. CASE Len(reply') < Len(Write(v))
  <2>1. resp_parse(reply') = Incomplete
    BY <1>9, <1>12, ReplyRead DEF resp_parse
  <2>2. ~ (resp_parse(reply').n > 0)
    BY <2>1 DEF Incomplete
  <2>3. RecvSize \in Nat /\ Len(reply') # RecvSize
    BY <1>6, <1>10, <1>12, CliAssumption
  <2>4. at' = "recv"
    BY <1>1, <2>2, <2>3
  <2>5. TurnInv'
    BY <1>1, <1>2, <1>3, <1>5, <1>9, <1>12, <2>4 DEF TurnInv
  <2> QED
    BY <1>11, <2>5 DEF CliInv
<1>13. CASE Len(reply') >= Len(Write(v))
  <2>1. resp_parse(reply') = Whole(Len(Write(v)), v)
    BY <1>9, <1>13, ReplyRead DEF resp_parse
  <2>2. resp_parse(reply').n > 0
    BY <1>6, <2>1 DEF Whole
  <2>3. at' = "show"
    BY <1>1, <2>2
  <2>4. reply' = Write(v) /\ toCli' = <<>>
    BY <1>6, <1>9, <1>13, AllArrived
  <2>5. TurnInv'
    BY <1>1, <1>2, <1>3, <1>5, <2>3, <2>4 DEF TurnInv
  <2> QED
    BY <1>11, <2>5 DEF CliInv
<1> QED
  BY <1>6, <1>10, <1>12, <1>13

LEMMA ShowReplyStep ==
  ASSUME CliReads, CliInv, ShowReply
  PROVE  CliInv'
<1>1. /\ at = "show" /\ at' \in {"over", "prompt"}
      /\ shown' = Append(shown, IF resp_parse(reply).n > 0 THEN resp_parse(reply).v
                                  ELSE <<"nothing">>)
      /\ line' = line /\ stdin' = stdin /\ toServer' = toServer /\ toCli' = toCli
      /\ asked' = asked
  BY DEF ShowReply, parse_resp
<1>2. /\ Len(asked) = Len(shown) + 1 /\ reply = Awaited
      /\ toServer = <<>> /\ toCli = <<>>
  BY <1>1 DEF CliInv, TurnInv
<1>3. Waited \in Askable
  BY <1>2, Waiting DEF CliInv
<1>4. PICK v \in Readable("c") : v = ReplyTo(Waited)
  BY <1>3, AskedReads
<1>5. reply = Write(v)
  BY <1>2, <1>4 DEF Awaited
<1>6. Write(v) \in Seq(Unit) /\ Len(Write(v)) > 0
  BY <1>3, <1>4, AskedReads
<1>7. resp_parse(reply) = Whole(Len(Write(v)), v)
  <2>1. Parser("c", Write(v)) = IF Len(Write(v)) <= Len(Write(v))
                                  THEN Whole(Len(Write(v)), v) ELSE Incomplete
    BY <1>6, WholeValuesAreRead
  <2>2. Len(Write(v)) <= Len(Write(v))
    BY <1>6
  <2> QED
    BY <1>5, <2>1, <2>2 DEF resp_parse
<1>8. shown' = Append(shown, v)
  BY <1>1, <1>6, <1>7 DEF Whole
<1>9. /\ asked \in Seq(Askable) /\ shown \in Seq(Readable("c"))
      /\ \A j \in 1 .. Len(shown) : shown[j] = ReplyTo(asked[j])
  BY DEF CliInv, ShownInv
<1>10. /\ shown' \in Seq(Readable("c")) /\ Len(shown') = Len(shown) + 1
       /\ \A j \in 1 .. Len(shown) : shown'[j] = shown[j]
       /\ shown'[Len(shown) + 1] = v
  BY <1>8, <1>9, AppendProperties
<1>11. Len(shown) \in Nat /\ Len(asked) \in Nat
  BY <1>9
<1>12. ASSUME NEW j \in 1 .. Len(shown') PROVE shown'[j] = ReplyTo(asked[j])
  <2>1. CASE j \in 1 .. Len(shown)
    BY <1>9, <1>10, <2>1
  <2>2. CASE j = Len(asked)
    BY <1>2, <1>4, <1>10, <2>2 DEF Waited
  <2>3. j \in 1 .. Len(shown) \/ j = Len(asked)
    BY <1>2, <1>10, <1>11
  <2> QED
    BY <2>1, <2>2, <2>3
<1>13. ShownInv'
  <2>1. Len(shown') <= Len(asked)
    BY <1>2, <1>10, <1>11
  <2> QED
    BY <1>1, <1>9, <1>10, <1>12, <2>1 DEF ShownInv
<1>14. TurnInv'
  BY <1>1, <1>2, <1>10 DEF TurnInv
<1> QED
  BY <1>1, <1>13, <1>14 DEF CliInv, LineInv

LEMMA ServeCliStep ==
  ASSUME CliReads, CliInv, ServeCli
  PROVE  CliInv'
<1>1. /\ Requested(toServer) /\ toServer' = Rest(toServer)
      /\ toCli' = toCli \o Response(toServer)
      /\ at' = at /\ line' = line /\ stdin' = stdin /\ reply' = reply
      /\ asked' = asked /\ shown' = shown
  BY DEF ServeCli
<1>2. toServer # <<>>
  BY <1>1, NothingRequested
<1>3. ShownInv' /\ LineInv'
  BY <1>1 DEF CliInv, ShownInv, LineInv
<1>4. CASE at = "recv"
  <2>1. /\ toServer = Request(Waited) /\ toCli = <<>> /\ reply = <<>>
        /\ Len(asked) = Len(shown) + 1
    BY <1>2, <1>4 DEF CliInv, TurnInv
  <2>2. Waited \in Askable /\ Waited' = Waited /\ Awaited' = Awaited
    BY <1>1, <2>1, Waiting DEF CliInv, Waited, Awaited
  <2>3. Waited \in Seq(Seq(Chars("c"))) /\ Awaited \in Seq(Unit) /\ Len(Awaited) > 0
    BY <2>2, AskedReads DEF Awaited
  <2>4. Arguments(toServer) = Waited /\ toServer' = <<>>
    BY <1>1, <2>1, <2>3, RequestRead
  <2>5. Response(toServer) = Awaited \/ Response(toServer) = <<>>
    BY <2>4 DEF Response, Awaited
  <2>6. Response(toServer) \in Seq(Unit)
    BY <2>3, <2>5, EmptySeq
  <2>7. toCli' = Response(toServer)
    BY <1>1, <2>1, <2>6, ConcatEmptySeq
  <2>8. Arriving(<<>>, toCli', Awaited)
    BY <2>3, <2>5, <2>7, NothingYet
  <2>9. Len(reply) < Len(Awaited)
    BY <2>1, <2>3
  <2> QED
    BY <1>1, <1>3, <1>4, <2>1, <2>2, <2>4, <2>8, <2>9 DEF CliInv, TurnInv
<1>5. CASE at # "recv"
  <2>1. at # "prompt" /\ at # "send" /\ at # "show"
    BY <1>2 DEF CliInv, TurnInv
  <2> QED
    BY <1>1, <1>3, <1>5, <2>1 DEF CliInv, TurnInv
<1> QED
  BY <1>4, <1>5

LEMMA ServerEndsForCli ==
  ASSUME CliReads, CliInv, ServerEnds
  PROVE  CliInv'
<1>1. /\ toCli' \in FirstUnits(toCli)
      /\ at' = at /\ line' = line /\ stdin' = stdin /\ reply' = reply
      /\ toServer' = toServer /\ asked' = asked /\ shown' = shown
      /\ Waited' = Waited /\ Awaited' = Awaited
  BY DEF ServerEnds, Waited, Awaited
<1>2. ShownInv' /\ LineInv'
  BY <1>1 DEF CliInv, ShownInv, LineInv
<1>3. toCli = <<>> => toCli' = <<>>
  BY <1>1, StillNothing
<1>4. ASSUME at = "recv", Arriving(reply, toCli, Awaited)
      PROVE  Arriving(reply, toCli', Awaited)
  <2>1. Awaited \in Seq(Unit)
    BY <1>4, Waiting, AskedReads DEF CliInv, TurnInv, Awaited
  <2> QED
    BY <1>1, <1>4, <2>1, LessComes
<1>5. TurnInv'
  BY <1>1, <1>3, <1>4 DEF CliInv, TurnInv
<1> QED
  BY <1>2, <1>5 DEF CliInv

LEMMA CliKept ==
  ASSUME CliReads, CliInv, [Next]_clientVars
  PROVE  CliInv'
<1>1. CASE CliNext
  BY <1>1, ReadLineStep, OverStep, SendRequestStep, RecvReplyStep, ShowReplyStep, ServeCliStep
     DEF CliNext, CliStep
<1>2. CASE UNCHANGED cliVars
  BY <1>2 DEF cliVars, CliInv, LineInv, ShownInv, TurnInv, Waited, Awaited
<1>3. CASE ServerEnds
  BY <1>3, ServerEndsForCli
<1> QED
  BY <1>1, <1>2, <1>3 DEF Next, clientVars

\* However a reply is cut on its way, recv_response (cli.c:206) reads all of it
\* and no more, so that the reply shown for a request is the one to it.
THEOREM CliShowsInStep ==
  ASSUME CliReads
  PROVE  Spec => []ShownInStep
<1>1. Init => CliInv
  BY CliBegins
<1>2. CliInv /\ [Next]_clientVars => CliInv'
  BY CliKept
<1>3. CliInv => ShownInStep
  BY DEF CliInv, ShownInv, ShownInStep
<1> QED
  BY <1>1, <1>2, <1>3, PTL DEF Spec

-----------------------------------------------------------------------------
(* What is typed and what is executed                                       *)

\* A line has ended the client.
Ended(s, k) == \E j \in 1 .. k : Tokens(s.lines[j]) # <<>> /\ Quits(s.lines[j])

\* m[k] is what the first k lines mean: the words of each that has some, up to
\* the one that ends the client.
MeantBy(s, m) ==
  /\ m[0] = <<>>
  /\ \A k \in 1 .. Len(s.lines) :
       m[k] = IF Tokens(s.lines[k]) = <<>> \/ Ended(s, k - 1) THEN m[k - 1]
                ELSE Append(m[k - 1], Tokens(s.lines[k]))
  /\ s.meant = m[Len(s.lines)]

\* No line is too long for fgets, and a session means what build_command makes
\* of its lines.
LinesFit ==
  \A s \in Sessions :
    /\ \A j \in 1 .. Len(s.lines) : Len(s.lines[j]) < LineSize
    /\ \E m : MeantBy(s, m)

\* Line k + 1 in the input w[N].
LineAt(s, w, k, L) ==
  /\ L = s.lines[k + 1] /\ L \in Seq(Chars("c")) /\ Len(L) < LineSize
  /\ Len(w[k]) \in Nat /\ Len(w[k + 1]) = (Len(w[k]) + Len(L)) + 1
  /\ Len(w[k + 1]) <= Len(w[Len(s.lines)])
  /\ \A i \in 1 .. Len(L) : w[Len(s.lines)][Len(w[k]) + i] = L[i] /\ L[i] # Newline
  /\ w[Len(s.lines)][(Len(w[k]) + Len(L)) + 1] = Newline

LEMMA LinesInInput ==
  ASSUME CliReads, LinesFit, NEW s \in Sessions, NEW w, Located(s, w),
         NEW k \in 0 .. Len(s.lines) - 1
  PROVE  \E L : LineAt(s, w, k, L)
<1> DEFINE N == Len(s.lines)
           q == Ends(s)
<1>1. s.lines \in Seq(Seq(Chars("c") \ {Newline})) /\ N \in Nat /\ DOMAIN s.lines = 1 .. N
  <2>1. s.lines \in Seq(Seq(Chars("c") \ {Newline}))
    BY DEF CliReads
  <2> QED
    BY <2>1
<1>2. k + 1 \in 1 .. N /\ (k + 1) - 1 = k /\ k \in 0 .. N /\ k + 1 \in 0 .. N
  BY <1>1
<1>3. PICK L \in Seq(Chars("c") \ {Newline}) : L = s.lines[k + 1]
  BY <1>1, <1>2, ElementOfSeq
<1>4. /\ L \in Seq(Chars("c")) /\ Len(L) \in Nat
      /\ \A i \in 1 .. Len(L) : L[i] # Newline
  <2>1. \A i \in 1 .. Len(L) : L[i] \in Chars("c") \ {Newline}
    BY ElementOfSeq
  <2> QED
    BY <2>1
<1>5. PICK e \in Seq(Input) : e = Append(L, Newline)
  <2>1. L \in Seq(Input)
    BY <1>4 DEF Input
  <2>2. Newline \in Input
    BY DEF Input
  <2> QED
    BY <2>1, <2>2, AppendProperties
<1>6. Len(e) = Len(L) + 1 /\ e[Len(L) + 1] = Newline /\ \A i \in 1 .. Len(L) : e[i] = L[i]
  BY <1>4, <1>5
<1>7. q[k + 1] = e
  BY <1>1, <1>2, <1>3, <1>5 DEF Ends
<1>8. q \in Seq(Seq(Input)) /\ Len(q) = N
  BY InputTyped
<1>9. w \in [0 .. Len(q) -> Seq(Input)] /\ Joins(w, q)
  BY <1>8 DEF Located
<1>10. PartsAt(w, q)
  BY <1>8, <1>9, JoinedParts
<1> HIDE DEF q, N
<1>11. /\ Len(w[k + 1]) = Len(w[k]) + Len(e)
       /\ Len(w[k + 1]) <= Len(w[N])
       /\ \A i \in 1 .. Len(e) : w[N][Len(w[k]) + i] = e[i]
  BY <1>2, <1>7, <1>8, <1>10 DEF PartsAt
<1>12. Len(w[k]) \in Nat
  BY <1>2, <1>8, <1>9
<1>13. Len(w[k + 1]) = (Len(w[k]) + Len(L)) + 1
  <2> DEFINE a == Len(w[k])
             c == Len(L)
             d == Len(e)
             f == Len(w[k + 1])
  <2>1. f = a + d /\ d = c + 1 /\ a \in Nat /\ c \in Nat
    BY <1>4, <1>6, <1>11, <1>12, Zenon
  <2> HIDE DEF a, c, d, f
  <2>2. f = (a + c) + 1
    BY <2>1
  <2> QED
    BY <2>2 DEF a, c, f
<1>14. w[N][(Len(w[k]) + Len(L)) + 1] = Newline
  <2>1. Len(L) + 1 \in 1 .. Len(e) /\ Len(w[k]) + (Len(L) + 1) = (Len(w[k]) + Len(L)) + 1
    <3> DEFINE a == Len(w[k])
               c == Len(L)
               d == Len(e)
    <3>1. d = c + 1 /\ a \in Nat /\ c \in Nat
      BY <1>4, <1>6, <1>12, Zenon
    <3> HIDE DEF a, c, d
    <3>2. c + 1 \in 1 .. d /\ a + (c + 1) = (a + c) + 1
      BY <3>1
    <3> QED
      BY <3>2 DEF a, c, d
  <2> QED
    BY <1>6, <1>11, <2>1
<1>15. \A i \in 1 .. Len(L) : w[N][Len(w[k]) + i] = L[i]
  <2> TAKE i \in 1 .. Len(L)
  <2>1. i \in 1 .. Len(e)
    BY <1>4, <1>6
  <2> QED
    BY <1>6, <1>11, <2>1
<1>16. Len(L) < LineSize
  BY <1>2, <1>3 DEF LinesFit, N
<1> QED
  BY <1>3, <1>4, <1>11, <1>12, <1>13, <1>14, <1>15, <1>16 DEF LineAt, N

\* q is the input from p on.
From(q, in, p) ==
  /\ in \in Seq(Input) /\ p \in 0 .. Len(in)
  /\ Len(q) = Len(in) - p /\ \A i \in 1 .. Len(q) : q[i] = in[p + i]

LEMMA FromOn ==
  ASSUME NEW q \in Seq(Input), NEW in, NEW p, From(q, in, p), NEW t \in 0 .. Len(q)
  PROVE  From(SubSeq(q, t + 1, Len(q)), in, p + t)
<1>1. /\ in \in Seq(Input) /\ p \in 0 .. Len(in)
      /\ Len(q) = Len(in) - p /\ \A i \in 1 .. Len(q) : q[i] = in[p + i]
  BY DEF From
<1>2. PICK z \in Seq(Input) : z = SubSeq(q, t + 1, Len(q))
  BY Cut
<1>3. Len(z) = Len(q) - t /\ \A i \in 1 .. Len(q) - t : z[i] = q[t + i]
  BY <1>2, Cut
<1>4. Len(in) \in Nat /\ Len(q) \in Nat /\ p \in Nat /\ t \in Nat
  BY <1>1
<1>5. p + t \in 0 .. Len(in) /\ Len(z) = Len(in) - (p + t)
  BY <1>1, <1>3, <1>4
<1>6. ASSUME NEW i \in 1 .. Len(z) PROVE z[i] = in[(p + t) + i]
  <2>1. t + i \in 1 .. Len(q) /\ p + (t + i) = (p + t) + i /\ i \in 1 .. Len(q) - t
    BY <1>3, <1>4
  <2>2. q[t + i] = in[p + (t + i)]
    BY <1>1, <2>1
  <2> QED
    BY <1>3, <2>1, <2>2
<1>7. From(z, in, p + t)
  BY <1>1, <1>5, <1>6 DEF From
<1> QED
  BY <1>2, <1>7

\* Where the input goes on with a whole line, the line is taken.
LEMMA LineRead ==
  ASSUME NEW s, NEW w, NEW k, NEW L, LineAt(s, w, k, L),
         NEW q \in Seq(Input), From(q, w[Len(s.lines)], Len(w[k])),
         NEW c, NEW t, Takes(q, c, t)
  PROVE  SubSeq(q, 1, c) = L /\ (t = Len(L) \/ t = Len(L) + 1)
<1> DEFINE in == w[Len(s.lines)]
           p  == Len(w[k])
           n  == Len(L)
<1>1. /\ L \in Seq(Chars("c")) /\ n < LineSize /\ p \in Nat
      /\ Len(w[k + 1]) = (p + n) + 1 /\ Len(w[k + 1]) <= Len(in)
      /\ \A i \in 1 .. n : in[p + i] = L[i] /\ L[i] # Newline
      /\ in[(p + n) + 1] = Newline
  BY Zenon DEF LineAt
<1>2. /\ in \in Seq(Input) /\ Len(q) = Len(in) - p /\ \A i \in 1 .. Len(q) : q[i] = in[p + i]
  BY DEF From
<1>3. /\ c \in 0 .. Len(q) /\ c < LineSize
      /\ \A i \in 1 .. c : q[i] # Newline
      /\ \/ t = c + 1 /\ c + 1 <= Len(q) /\ q[c + 1] = Newline
         \/ t = c /\ c = LineSize - 1
         \/ t = c /\ c = 0 /\ \A i \in 1 .. Len(q) : q[i] # Newline
  BY Zenon DEF Takes
<1> DEFINE lq == Len(q)
           li == Len(in)
           lw == Len(w[k + 1])
<1>4. n \in Nat /\ lq \in Nat /\ li \in Nat /\ p \in Nat /\ LineSize \in Nat /\ c \in Nat
  BY <1>1, <1>2, <1>3, CliAssumption
<1>5. n + 1 <= lq /\ n + 1 \in 1 .. lq /\ p + (n + 1) = (p + n) + 1
  <2>1. lw = (p + n) + 1 /\ lw <= li /\ lq = li - p
    BY <1>1, <1>2
  <2> HIDE DEF n, lq, li, p, lw
  <2> QED
    BY <1>4, <2>1
<1>6. q[n + 1] = Newline
  BY <1>1, <1>2, <1>5
<1>7. \A i \in 1 .. n : q[i] = L[i] /\ q[i] # Newline
  <2> TAKE i \in 1 .. n
  <2>1. i \in 1 .. lq
    BY <1>4, <1>5
  <2> QED
    BY <1>1, <1>2, <2>1
<1>8. c = n
  <2>1. ~ (c > n)
    <3>1. ASSUME c > n PROVE FALSE
      <4>1. n + 1 \in 1 .. c
        BY <1>4, <3>1
      <4> QED
        BY <1>3, <1>6, <4>1
    <3> QED
      BY <3>1
  <2>2. ~ (c < n)
    <3>1. ASSUME c < n PROVE FALSE
      <4>1. c + 1 \in 1 .. n
        BY <1>4, <3>1
      <4>2. q[c + 1] # Newline
        BY <1>7, <4>1
      <4>3. c # LineSize - 1
        BY <1>1, <1>4, <3>1
      <4>4. c = 0 /\ \A i \in 1 .. Len(q) : q[i] # Newline
        BY <1>3, <4>2, <4>3
      <4> QED
        BY <1>5, <1>6, <4>4
    <3> QED
      BY <3>1
  <2> QED
    BY <1>4, <2>1, <2>2
<1>9. SubSeq(q, 1, c) = L
  <2>1. PICK z \in Seq(Input) : z = SubSeq(q, 1, c)
    BY <1>3, Cut
  <2>2. Len(z) = c /\ \A i \in 1 .. c : z[i] = q[i]
    BY <1>3, <2>1, Cut
  <2>3. Len(z) = Len(L) /\ \A i \in 1 .. Len(z) : z[i] = L[i]
    BY <1>7, <1>8, <2>2
  <2>4. z = L
    BY <1>1, <2>3
  <2> QED
    BY <2>1, <2>4
<1>10. t = n \/ t = n + 1
  BY <1>3, <1>8
<1> QED
  BY <1>9, <1>10

\* Where only a newline is left of the line before, nothing is taken but it.
LEMMA NewlineRead ==
  ASSUME NEW q \in Seq(Input), Len(q) > 0, q[1] = Newline,
         NEW c, NEW t, Takes(q, c, t)
  PROVE  SubSeq(q, 1, c) = <<>> /\ t = 1
<1>1. /\ c \in 0 .. Len(q)
      /\ \A i \in 1 .. c : q[i] # Newline
      /\ \/ t = c + 1 /\ c + 1 <= Len(q) /\ q[c + 1] = Newline
         \/ t = c /\ c = LineSize - 1
         \/ t = c /\ c = 0 /\ \A i \in 1 .. Len(q) : q[i] # Newline
  BY Zenon DEF Takes
<1>2. c \in Nat /\ Len(q) \in Nat /\ LineSize \in Nat /\ LineSize > 1
  BY <1>1, CliAssumption
<1>3. c = 0
  <2>1. ASSUME c # 0 PROVE FALSE
    <3>1. 1 \in 1 .. c
      BY <1>2, <2>1
    <3> QED
      BY <1>1, <3>1
  <2> QED
    BY <2>1
<1>4. t = 1
  <2>1. 1 \in 1 .. Len(q) /\ LineSize - 1 # 0
    BY <1>2
  <2> QED
    BY <1>1, <1>3, <2>1
<1> QED
  BY <1>3, <1>4, SubSeqEmpty

LEMMA NoTokens == Tokens(<<>>) = <<>>
<1> DEFINE scan == CHOOSE f : Scans(f, <<>>, 0)
<1>1. Len(<<>>) = 0
  OBVIOUS
<1>2. Tokens(<<>>) = scan[0].toks
  BY <1>1, Zenon DEF Tokens, Scans
<1>3. Scans(scan, <<>>, 0)
  <2>1. \E f : Scans(f, <<>>, 0)
    BY ScansExist
  <2> QED
    BY <2>1, Zenon
<1> HIDE DEF scan
<1>4. scan[0] = Unscanned
  <2>1. 0 \in 0 .. 0
    OBVIOUS
  <2> QED
    BY <1>3, <2>1 DEF Scans
<1> QED
  BY <1>2, <1>4 DEF Unscanned

\* How far the input is read: up to the end of line k, or to its newline.
InputAt(s, w, k) ==
  \E p : /\ From(stdin, w[Len(s.lines)], p)
         /\ \/ p = Len(w[k])
            \/ p + 1 = Len(w[k]) /\ w[Len(s.lines)][p + 1] = Newline

\* What has been asked is what the lines up to k mean.
Reading(s, w, m, k) ==
  /\ k \in 0 .. Len(s.lines)
  /\ at \in {"prompt", "send", "recv", "show", "over"}
  /\ at # "over" => InputAt(s, w, k)
  /\ at = "prompt" => ~ Ended(s, k) /\ asked = m[k]
  /\ at = "send" => /\ k > 0 /\ ~ Ended(s, k - 1) /\ line = s.lines[k]
                    /\ Tokens(line) # <<>> /\ asked = m[k - 1]
  /\ at = "recv" \/ at = "show" =>
       k > 0 /\ ~ Ended(s, k - 1) /\ line = s.lines[k] /\ asked = m[k]
  /\ at = "over" => asked = m[k]

Known(s, w, m) == s \in Sessions /\ Located(s, w) /\ MeantBy(s, m)

MeantInv == \E w, m, k : Known(session, w, m) /\ Reading(session, w, m, k)

\* The server has executed what was asked, but for a request under way.
PeerInv ==
  \/ toServer = <<>> /\ executed = asked
  \/ /\ toServer = Request(Waited) /\ Waited \in Askable
     /\ executed \in Seq(Askable) /\ asked = Append(executed, Waited)

ExecutedInv == CliInv /\ MeantInv /\ PeerInv

LEMMA SessionsKnown ==
  ASSUME CliReads, LinesFit, NEW s \in Sessions
  PROVE  \E w, m : Known(s, w, m) /\ FlattenSeq(Ends(s)) = w[Len(s.lines)]
<1>1. PICK w : Located(s, w) /\ FlattenSeq(Ends(s)) = w[Len(s.lines)]
  BY InputTyped
<1>2. PICK m : MeantBy(s, m)
  BY DEF LinesFit
<1> QED
  BY <1>1, <1>2 DEF Known

LEMMA ExecutedBegins ==
  ASSUME CliReads, LinesFit, Init
  PROVE  ExecutedInv
<1>1. /\ session \in Sessions
      /\ stdin = FlattenSeq([j \in DOMAIN session.lines |->
                               Append(session.lines[j], Newline)])
      /\ at = "prompt" /\ toServer = <<>> /\ asked = <<>> /\ executed = <<>>
  BY DEF Init, CliInit
<1>2. PICK w, m : Known(session, w, m) /\ FlattenSeq(Ends(session)) = w[Len(session.lines)]
  BY <1>1, SessionsKnown
<1> DEFINE N  == Len(session.lines)
           in == w[N]
<1>3. stdin = in
  BY <1>1, <1>2, Zenon DEF Ends
<1>4. N \in Nat /\ 0 \in 0 .. N
  <2>1. session.lines \in Seq(Seq(Chars("c") \ {Newline}))
    BY <1>1 DEF CliReads
  <2> QED
    BY <2>1
<1>5. in \in Seq(Input) /\ w[0] = <<>> /\ Len(w[0]) = 0
  BY <1>2, <1>4 DEF Known, Located, Joins
<1>6. From(stdin, in, 0)
  <2>1. \A i \in 1 .. Len(in) : in[i] = in[0 + i]
    OBVIOUS
  <2>2. 0 \in 0 .. Len(in) /\ Len(in) = Len(in) - 0
    BY <1>5
  <2> HIDE DEF in
  <2> QED
    BY <1>3, <1>5, <2>1, <2>2 DEF From
<1>7. InputAt(session, w, 0)
  BY <1>5, <1>6 DEF InputAt
<1>8. ~ Ended(session, 0)
  BY DEF Ended
<1>9. m[0] = <<>>
  BY <1>2 DEF Known, MeantBy
<1>10. Reading(session, w, m, 0)
  BY <1>1, <1>4, <1>7, <1>8, <1>9 DEF Reading
<1>11. MeantInv
  BY <1>2, <1>10 DEF MeantInv
<1>12. PeerInv
  BY <1>1 DEF PeerInv
<1> QED
  BY <1>11, <1>12, CliBegins DEF ExecutedInv

LEMMA PeerKept ==
  ASSUME CliReads, CliInv, PeerInv, [Next]_clientVars
  PROVE  PeerInv'
<1>1. CASE asked' = asked /\ toServer' = toServer /\ executed' = executed
  BY <1>1 DEF PeerInv, Waited
<1>2. CASE SendRequest
  <2>1. /\ at = "send" /\ toServer' = toServer \o Request(Tokens(line))
        /\ asked' = Append(asked, Tokens(line)) /\ executed' = executed
    BY <1>2 DEF SendRequest
  <2>2. /\ toServer = <<>> /\ Tokens(line) # <<>> /\ line \in Short /\ asked \in Seq(Askable)
    BY <2>1 DEF CliInv, TurnInv, LineInv, ShownInv
  <2>3. PICK a \in Askable : a = Tokens(line)
    BY <2>2 DEF Askable
  <2>4. toServer' = Request(a) /\ Request(a) # <<>>
    <3>1. Request(a) \in Seq(Unit) /\ Len(Request(a)) > 0
      BY AskedReads, RequestRead
    <3> QED
      BY <2>1, <2>2, <2>3, <3>1, ConcatEmptySeq
  <2>5. executed = asked
    <3>1. CASE toServer = <<>> /\ executed = asked
      BY <3>1
    <3>2. CASE toServer = Request(Waited) /\ Waited \in Askable
      <4>1. Len(Request(Waited)) > 0
        BY <3>2, AskedReads, RequestRead
      <4> QED
        BY <2>2, <3>2, <4>1
    <3> QED
      BY <3>1, <3>2 DEF PeerInv
  <2>6. Waited' = a
    BY <2>1, <2>2, <2>3, AppendProperties DEF Waited
  <2> QED
    BY <2>1, <2>2, <2>3, <2>4, <2>5, <2>6 DEF PeerInv
<1>3. CASE ServeCli
  <2>1. /\ Requested(toServer) /\ executed' = Append(executed, Arguments(toServer))
        /\ toServer' = Rest(toServer) /\ asked' = asked
    BY <1>3 DEF ServeCli
  <2>2. toServer # <<>>
    BY <2>1, NothingRequested
  <2>3. /\ toServer = Request(Waited) /\ Waited \in Askable
        /\ asked = Append(executed, Waited)
    BY <2>2 DEF PeerInv
  <2>4. Arguments(toServer) = Waited /\ Rest(toServer) = <<>>
    BY <2>3, AskedReads, RequestRead
  <2> QED
    BY <2>1, <2>3, <2>4 DEF PeerInv
<1>4. \/ asked' = asked /\ toServer' = toServer /\ executed' = executed
      \/ SendRequest \/ ServeCli
  BY DEF Next, CliNext, CliStep, clientVars, cliVars, ReadLine, EndOfInput, SendLost, RecvReply,
         Receives, ReplyLost, ShowReply, ServerEnds
<1> QED
  BY <1>1, <1>2, <1>3, <1>4

LEMMA ReadingMoves ==
  ASSUME CliReads, LinesFit, CliInv, NEW w, NEW m, NEW k,
         Known(session, w, m), Reading(session, w, m, k), ReadLine
  PROVE  (\E j : Reading(session, w, m, j))'
<1> DEFINE N  == Len(session.lines)
           in == w[N]
<1>1. /\ at = "prompt" /\ stdin # <<>> /\ line' = Trimmed(SubSeq(stdin, 1, Taken))
      /\ stdin' = SubSeq(stdin, Taken + 1, Len(stdin))
      /\ at' = IF Tokens(line') = <<>> THEN "prompt" ELSE "send"
      /\ asked' = asked /\ session' = session
  BY DEF ReadLine
<1>2. k \in 0 .. N /\ ~ Ended(session, k) /\ asked = m[k] /\ InputAt(session, w, k)
  BY <1>1 DEF Reading
<1>3. N \in Nat /\ session \in Sessions /\ Located(session, w)
  <2>1. session \in Sessions /\ Located(session, w)
    BY DEF Known
  <2>2. session.lines \in Seq(Seq(Chars("c") \ {Newline}))
    BY <2>1 DEF CliReads
  <2> QED
    BY <2>1, <2>2
<1>4. PICK q \in Seq(Input) : q = stdin
  BY DEF CliInv, LineInv
<1>5. PICK c : Takes(q, c, Taken) /\ Trimmed(SubSeq(q, 1, Taken)) = SubSeq(q, 1, c)
  BY <1>4, LineTaken
<1>6. PICK t : t = Taken
  OBVIOUS
<1>7. Takes(q, c, t) /\ line' = SubSeq(q, 1, c) /\ stdin' = SubSeq(q, t + 1, Len(q))
  BY <1>1, <1>4, <1>5, <1>6
<1>8. t \in 0 .. Len(q) /\ Len(q) \in Nat /\ Len(q) > 0
  <2>1. t \in 0 .. Len(q)
    BY <1>7, LineIsShort
  <2>2. Len(q) > 0
    BY <1>1, <1>4
  <2> QED
    BY <2>1, <2>2
<1>9. PICK p : /\ From(q, in, p)
               /\ \/ p = Len(w[k])
                  \/ p + 1 = Len(w[k]) /\ in[p + 1] = Newline
  BY <1>2, <1>4 DEF InputAt
<1>10. From(stdin', in, p + t)
  BY <1>7, <1>8, <1>9, FromOn
<1>11. /\ in \in Seq(Input) /\ p \in Nat /\ Len(in) \in Nat
       /\ Len(q) = Len(in) - p /\ \A i \in 1 .. Len(q) : q[i] = in[p + i]
  BY <1>9 DEF From
<1> HIDE DEF N, in
<1>12. CASE p = Len(w[k])
  <2>1. k \in 0 .. N - 1
    <3>1. k # N
      <4>1. ASSUME k = N PROVE FALSE
        BY <1>8, <1>11, <1>12, <4>1 DEF in
      <4> QED
        BY <4>1
    <3> QED
      BY <1>2, <1>3, <3>1
  <2>2. PICK L : LineAt(session, w, k, L)
    BY <1>3, <2>1, LinesInInput DEF N
  <2>3. line' = L /\ (t = Len(L) \/ t = Len(L) + 1)
    <3>1. From(q, w[Len(session.lines)], Len(w[k]))
      BY <1>9, <1>12 DEF in, N
    <3>2. SubSeq(q, 1, c) = L /\ (t = Len(L) \/ t = Len(L) + 1)
      BY <1>7, <2>2, <3>1, LineRead
    <3> QED
      BY <1>7, <3>2
  <2>4. /\ L = session.lines[k + 1] /\ L \in Seq(Chars("c")) /\ Len(w[k]) \in Nat
        /\ Len(w[k + 1]) = (Len(w[k]) + Len(L)) + 1
        /\ in[(Len(w[k]) + Len(L)) + 1] = Newline
    BY <2>2 DEF LineAt, in, N
  <2>5. InputAt(session, w, k + 1)'
    <3>1. \/ p + t = Len(w[k + 1])
          \/ (p + t) + 1 = Len(w[k + 1]) /\ in[(p + t) + 1] = Newline
      <4>1. CASE t = Len(L)
        BY <1>12, <2>4, <4>1
      <4>2. CASE t = Len(L) + 1
        <5>1. Len(L) \in Nat
          BY <2>4
        <5> DEFINE a == Len(w[k])
                   n == Len(L)
        <5>2. a + (n + 1) = (a + n) + 1
          <6>1. a \in Nat /\ n \in Nat
            BY <2>4, <5>1
          <6> HIDE DEF a, n
          <6> QED
            BY <6>1
        <5> QED
          BY <1>12, <2>4, <4>2, <5>2
      <4> QED
        BY <2>3, <4>1, <4>2
    <3> QED
      BY <1>1, <1>10, <3>1, Zenon DEF InputAt, in, N
  <2>6. k + 1 \in 0 .. N /\ k + 1 \in 1 .. N /\ (k + 1) - 1 = k /\ k + 1 > 0
    BY <1>3, <2>1
  <2>7. m[k + 1] = IF Tokens(L) = <<>> THEN m[k] ELSE Append(m[k], Tokens(L))
    BY <1>2, <2>4, <2>6 DEF Known, MeantBy, N
  <2>8. CASE Tokens(L) = <<>>
    <3>1. ~ Ended(session, k + 1)
      <4>1. \A j \in 1 .. k + 1 : j \in 1 .. k \/ j = k + 1
        BY <2>1
      <4> QED
        BY <1>2, <2>4, <2>8, <4>1 DEF Ended
    <3>2. at' = "prompt" /\ asked' = m[k + 1]
      BY <1>1, <1>2, <2>3, <2>7, <2>8
    <3>3. Reading(session, w, m, k + 1)'
      BY <1>1, <2>5, <2>6, <3>1, <3>2 DEF Reading, N, Ended
    <3> QED
      BY <3>3
  <2>9. CASE Tokens(L) # <<>>
    <3>1. at' = "send" /\ asked' = m[k] /\ line' = session.lines[k + 1] /\ Tokens(line') # <<>>
      BY <1>1, <1>2, <2>3, <2>4, <2>9
    <3>2. Reading(session, w, m, k + 1)'
      BY <1>1, <1>2, <2>5, <2>6, <3>1 DEF Reading, N, Ended
    <3> QED
      BY <3>2
  <2> QED
    BY <2>8, <2>9
<1>13. CASE p + 1 = Len(w[k]) /\ in[p + 1] = Newline
  <2>1. q[1] = Newline
    <3>1. 1 \in 1 .. Len(q)
      BY <1>8
    <3> QED
      BY <1>11, <1>13, <3>1
  <2>2. line' = <<>> /\ t = 1
    BY <1>7, <1>8, <2>1, NewlineRead
  <2>3. at' = "prompt"
    BY <1>1, <2>2, NoTokens
  <2>4. InputAt(session, w, k)'
    BY <1>1, <1>10, <1>13, <2>2 DEF InputAt, in, N
  <2>5. Reading(session, w, m, k)'
    BY <1>1, <1>2, <2>3, <2>4 DEF Reading, N, Ended
  <2> QED
    BY <2>5
<1> QED
  BY <1>9, <1>12, <1>13

LEMMA MeantKept ==
  ASSUME CliReads, LinesFit, CliInv, MeantInv, [Next]_clientVars
  PROVE  MeantInv'
<1>1. PICK w, m, k : Known(session, w, m) /\ Reading(session, w, m, k)
  BY DEF MeantInv
<1>2. session' = session
  BY DEF Next, CliNext, CliStep, clientVars, cliVars, ReadLine, EndOfInput, SendRequest,
         SendLost, RecvReply, Receives, ReplyLost, ShowReply, ServeCli, ServerEnds
<1>3. Known(session, w, m)'
  BY <1>1, <1>2 DEF Known
<1> SUFFICES (\E j : Reading(session, w, m, j))'
  BY <1>3 DEF MeantInv
<1>4. k \in 0 .. Len(session.lines)
  BY <1>1 DEF Reading
<1>5. CASE ReadLine
  BY <1>1, <1>5, ReadingMoves
<1>6. CASE at' = at /\ asked' = asked /\ line' = line /\ stdin' = stdin
  BY <1>1, <1>2, <1>6 DEF Reading, InputAt, Ended
<1>7. CASE EndOfInput \/ ReplyLost
  <2>1. at' = "over" /\ asked' = asked /\ (at = "prompt" \/ at = "recv")
    BY <1>7 DEF EndOfInput, ReplyLost
  <2> QED
    BY <1>1, <1>2, <2>1 DEF Reading
<1>8. CASE SendLost
  <2>1. at' = "over" /\ asked' = asked /\ at = "send"
    BY <1>8 DEF SendLost
  <2>2. k > 0 /\ asked = m[k - 1]
    BY <1>1, <2>1 DEF Reading
  <2>3. k - 1 \in 0 .. Len(session.lines)
    BY <1>4, <2>2
  <2>4. Reading(session, w, m, k - 1)'
    BY <1>2, <2>1, <2>2, <2>3 DEF Reading
  <2> QED
    BY <2>4
<1>9. CASE SendRequest
  <2>1. /\ at = "send" /\ at' = "recv" /\ asked' = Append(asked, Tokens(line))
        /\ line' = line /\ stdin' = stdin
    BY <1>9 DEF SendRequest
  <2>2. /\ k > 0 /\ ~ Ended(session, k - 1) /\ line = session.lines[k]
        /\ Tokens(line) # <<>> /\ asked = m[k - 1] /\ InputAt(session, w, k)
    BY <1>1, <2>1 DEF Reading
  <2>3. k \in 1 .. Len(session.lines)
    BY <1>4, <2>2
  <2>4. m[k] = Append(m[k - 1], Tokens(line))
    BY <1>1, <2>2, <2>3 DEF Known, MeantBy
  <2>5. InputAt(session, w, k)'
    BY <1>2, <2>1, <2>2 DEF InputAt
  <2>6. Reading(session, w, m, k)'
    BY <1>2, <1>4, <2>1, <2>2, <2>4, <2>5 DEF Reading, Ended
  <2> QED
    BY <2>6
<1>10. CASE RecvReply
  <2>1. /\ at = "recv" /\ at' \in {"recv", "show"} /\ asked' = asked
        /\ line' = line /\ stdin' = stdin
    BY <1>10 DEF RecvReply, Receives
  <2> QED
    BY <1>1, <1>2, <2>1 DEF Reading, InputAt, Ended
<1>11. CASE ShowReply
  <2>1. /\ at = "show" /\ asked' = asked /\ line' = line /\ stdin' = stdin
        /\ at' = IF Quits(line) THEN "over" ELSE "prompt"
    BY <1>11 DEF ShowReply
  <2>2. /\ k > 0 /\ ~ Ended(session, k - 1) /\ line = session.lines[k] /\ asked = m[k]
        /\ InputAt(session, w, k)
    BY <1>1, <2>1 DEF Reading
  <2>3. CASE Quits(line)
    BY <1>2, <1>4, <2>1, <2>2, <2>3 DEF Reading
  <2>4. CASE ~ Quits(line)
    <3>1. \A j \in 1 .. k : j \in 1 .. k - 1 \/ j = k
      BY <1>4
    <3>2. ~ Ended(session, k)
      BY <2>2, <2>4, <3>1 DEF Ended
    <3> QED
      BY <1>2, <1>4, <2>1, <2>2, <2>4, <3>2 DEF Reading, InputAt, Ended
  <2> QED
    BY <2>3, <2>4
<1>12. \/ at' = at /\ asked' = asked /\ line' = line /\ stdin' = stdin
       \/ ReadLine \/ EndOfInput \/ ReplyLost \/ SendLost \/ SendRequest \/ RecvReply \/ ShowReply
  BY DEF Next, CliNext, CliStep, clientVars, cliVars, ServeCli, ServerEnds
<1> QED
  BY <1>5, <1>6, <1>7, <1>8, <1>9, <1>10, <1>11, <1>12

-----------------------------------------------------------------------------
(* Beginnings                                                               *)

Begins(a, b) == Len(a) <= Len(b) /\ \A i \in 1 .. Len(a) : a[i] = b[i]

LEMMA MeantGrows ==
  ASSUME CliReads, LinesFit, NEW s \in Sessions, NEW m, MeantBy(s, m)
  PROVE  \A k \in 0 .. Len(s.lines) :
           m[k] \in Seq(Askable) /\ Begins(m[k], m[Len(s.lines)])
<1> DEFINE N == Len(s.lines)
           S == {k \in 0 .. N : m[k] \in Seq(Askable)}
           B == {k \in 0 .. N : Begins(m[k], m[N])}
<1>1. s.lines \in Seq(Seq(Chars("c") \ {Newline})) /\ N \in Nat
  <2>1. s.lines \in Seq(Seq(Chars("c") \ {Newline}))
    BY DEF CliReads
  <2> QED
    BY <2>1
<1>2. ASSUME NEW k \in 1 .. N, Tokens(s.lines[k]) # <<>> PROVE Tokens(s.lines[k]) \in Askable
  <2>1. PICK l \in Seq(Chars("c") \ {Newline}) : l = s.lines[k]
    BY <1>1, ElementOfSeq
  <2>2. Len(l) < LineSize
    BY <2>1 DEF LinesFit
  <2>3. l \in Short
    <3>1. l \in Seq(Chars("c"))
      OBVIOUS
    <3> QED
      BY <2>2, <3>1 DEF Short
  <2> QED
    BY <1>2, <2>1, <2>3 DEF Askable
<1>3. ASSUME NEW k \in 0 .. N - 1
      PROVE  \/ m[k + 1] = m[k]
             \/ \E a \in Askable : m[k + 1] = Append(m[k], a)
  <2>1. k + 1 \in 1 .. N /\ (k + 1) - 1 = k
    BY <1>1
  <2>2. \/ m[k + 1] = m[k]
        \/ Tokens(s.lines[k + 1]) # <<>> /\ m[k + 1] = Append(m[k], Tokens(s.lines[k + 1]))
    <3>1. m[k + 1] = IF Tokens(s.lines[k + 1]) = <<>> \/ Ended(s, (k + 1) - 1) THEN m[(k + 1) - 1]
                       ELSE Append(m[(k + 1) - 1], Tokens(s.lines[k + 1]))
      BY <2>1, Zenon DEF MeantBy
    <3> QED
      BY <2>1, <3>1
  <2> QED
    BY <1>2, <2>1, <2>2
<1>4. \A k \in 0 .. N : k \in S
  <2>1. 0 \in S
    <3>1. m[0] \in Seq(Askable)
      BY EmptySeq DEF MeantBy
    <3> QED
      BY <1>1, <3>1
  <2>2. ASSUME NEW k \in 0 .. N - 1, k \in S PROVE k + 1 \in S
    <3>1. m[k] \in Seq(Askable) /\ k + 1 \in 0 .. N
      BY <1>1, <2>2
    <3>2. m[k + 1] \in Seq(Askable)
      BY <1>3, <3>1, AppendProperties
    <3> QED
      BY <3>1, <3>2
  <2> HIDE DEF S
  <2> QED
    BY <1>1, <2>1, <2>2, Upwards
<1>5. \A k \in 0 .. N : m[k] \in Seq(Askable)
  BY <1>4
<1>6. \A k \in 0 .. N : k \in B
  <2>1. N \in B
    <3>1. m[N] \in Seq(Askable)
      BY <1>1, <1>5
    <3>2. Begins(m[N], m[N])
      BY <3>1 DEF Begins
    <3> QED
      BY <1>1, <3>2
  <2>2. ASSUME NEW k \in 0 .. N - 1, k + 1 \in B PROVE k \in B
    <3>1. k \in 0 .. N /\ k + 1 \in 0 .. N
      BY <1>1
    <3>2. m[k] \in Seq(Askable) /\ m[k + 1] \in Seq(Askable) /\ m[N] \in Seq(Askable)
      BY <1>1, <1>5, <3>1
    <3>3. Begins(m[k + 1], m[N])
      BY <2>2
    <3>4. Begins(m[k], m[k + 1])
      <4>1. CASE m[k + 1] = m[k]
        BY <3>2, <4>1 DEF Begins
      <4>2. CASE \E a \in Askable : m[k + 1] = Append(m[k], a)
        <5>1. PICK a \in Askable : m[k + 1] = Append(m[k], a)
          BY <4>2
        <5>2. /\ Len(m[k + 1]) = Len(m[k]) + 1
              /\ \A i \in 1 .. Len(m[k]) : m[k + 1][i] = m[k][i]
          BY <3>2, <5>1, AppendProperties
        <5>3. Len(m[k]) \in Nat
          BY <3>2
        <5> QED
          BY <5>2, <5>3 DEF Begins
      <4> QED
        BY <1>3, <4>1, <4>2
    <3>5. Len(m[k]) \in Nat /\ Len(m[k + 1]) \in Nat /\ Len(m[N]) \in Nat
      BY <3>2
    <3>6. Begins(m[k], m[N])
      <4>1. Len(m[k]) <= Len(m[N])
        BY <3>3, <3>4, <3>5 DEF Begins
      <4>2. ASSUME NEW i \in 1 .. Len(m[k]) PROVE m[k][i] = m[N][i]
        <5>1. i \in 1 .. Len(m[k + 1])
          BY <3>4, <3>5 DEF Begins
        <5> QED
          BY <3>3, <3>4, <5>1 DEF Begins
      <4> QED
        BY <4>1, <4>2 DEF Begins
    <3> QED
      BY <3>1, <3>6
  <2> HIDE DEF B
  <2> QED
    BY <1>1, <2>1, <2>2, Downwards
<1> QED
  BY <1>5, <1>6

LEMMA BeginsPrefix ==
  ASSUME NEW T, NEW a \in Seq(T), NEW b \in Seq(T), Begins(a, b)
  PROVE  IsPrefix(a, b)
<1>1. Len(a) \in 0 .. Len(b) /\ Len(a) <= Len(b) /\ \A i \in 1 .. Len(a) : a[i] = b[i]
  BY DEF Begins
<1>2. SubSeq(a, 1, Len(a)) = a
  BY SubSeqFull
<1>3. PICK c \in Seq(T) : c = SubSeq(b, 1, Len(a))
  BY <1>1, Cut
<1>4. Len(c) = Len(a) /\ \A i \in 1 .. Len(a) : c[i] = b[i]
  BY <1>1, <1>3, Cut
<1>5. c = a
  BY <1>1, <1>4
<1> QED
  BY <1>1, <1>2, <1>3, <1>5 DEF IsPrefix

LEMMA ExecutedIsMeant ==
  ASSUME CliReads, LinesFit, ExecutedInv
  PROVE  ExecutedAsMeant
<1>1. PICK w, m, k : Known(session, w, m) /\ Reading(session, w, m, k)
  BY DEF ExecutedInv, MeantInv
<1> DEFINE N == Len(session.lines)
<1>2. /\ session \in Sessions /\ MeantBy(session, m) /\ session.meant = m[N]
  BY <1>1 DEF Known, MeantBy
<1>3. \E j \in 0 .. N : asked = m[j]
  <2>1. k \in 0 .. N /\ at \in {"prompt", "send", "recv", "show", "over"}
    BY <1>1 DEF Reading
  <2>2. asked = m[k] \/ (k > 0 /\ asked = m[k - 1])
    BY <1>1, <2>1 DEF Reading
  <2>3. k > 0 => k - 1 \in 0 .. N
    BY <2>1
  <2> QED
    BY <2>1, <2>2, <2>3
<1>4. PICK j \in 0 .. N : asked = m[j]
  BY <1>3
<1>5. N \in 0 .. N
  <2>1. session.lines \in Seq(Seq(Chars("c") \ {Newline}))
    BY <1>2 DEF CliReads
  <2> QED
    BY <2>1
<1>6. /\ asked \in Seq(Askable) /\ Begins(asked, m[N]) /\ m[N] \in Seq(Askable)
  BY <1>2, <1>4, <1>5, MeantGrows
<1>7. executed \in Seq(Askable) /\ Begins(executed, asked)
  <2>1. CASE executed = asked
    BY <1>6, <2>1 DEF Begins
  <2>2. CASE executed \in Seq(Askable) /\ Waited \in Askable /\ asked = Append(executed, Waited)
    <3>1. Len(asked) = Len(executed) + 1 /\ \A i \in 1 .. Len(executed) : asked[i] = executed[i]
      BY <2>2, AppendProperties
    <3>2. Len(executed) \in Nat
      BY <2>2
    <3> QED
      BY <2>2, <3>1, <3>2 DEF Begins
  <2> QED
    BY <2>1, <2>2 DEF ExecutedInv, PeerInv
<1>8. Begins(executed, m[N])
  <2>1. Len(executed) \in Nat /\ Len(asked) \in Nat /\ Len(m[N]) \in Nat
    BY <1>6, <1>7
  <2>2. Len(executed) <= Len(m[N])
    BY <1>6, <1>7, <2>1 DEF Begins
  <2>3. ASSUME NEW i \in 1 .. Len(executed) PROVE executed[i] = m[N][i]
    <3>1. i \in 1 .. Len(asked)
      BY <1>7, <2>1 DEF Begins
    <3> QED
      BY <1>6, <1>7, <3>1 DEF Begins
  <2> QED
    BY <2>2, <2>3 DEF Begins
<1>9. IsPrefix(executed, m[N])
  BY <1>6, <1>7, <1>8, BeginsPrefix
<1> QED
  BY <1>2, <1>9 DEF ExecutedAsMeant

\* Through fgets, build_command and the parser of the server, what is executed
\* are the words that were typed: line by line, in order, each once, and nothing
\* after the line that ends the client (cli.c:165-192, :262-308).
THEOREM CliExecutesAsMeant ==
  ASSUME CliReads, LinesFit
  PROVE  Spec => []ExecutedAsMeant
<1>1. Init => ExecutedInv
  BY ExecutedBegins
<1>2. ExecutedInv /\ [Next]_clientVars => ExecutedInv'
  BY CliKept, MeantKept, PeerKept DEF ExecutedInv
<1>3. ExecutedInv => ExecutedAsMeant
  BY ExecutedIsMeant
<1> QED
  BY <1>1, <1>2, <1>3, PTL DEF Spec
=============================================================================
