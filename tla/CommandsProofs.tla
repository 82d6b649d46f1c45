----------------------------- MODULE CommandsProofs -----------------------------
(***************************************************************************)
(* Between two commands the table of the database is well formed and no    *)
(* list in it is empty, whatever the commands, their arguments, the clock  *)
(* and the sweeps were, and whichever keys collide.                        *)
(***************************************************************************)
EXTENDS Commands, TableProofs, SequenceTheorems

-----------------------------------------------------------------------------
(* Entries                                                                 *)

ObjectSet ==
  {IntObj(n) : n \in IntMin .. IntMax} \cup {StrObj(x) : x \in Texts}
    \cup {ListObj(q) : q \in Seq(Texts)}

Deadlines == {NoExpiry} \cup Int

\* The values of the table are the entries of a database, and all of them.
EveryEntry == Values = {DbEntry(o, l) : o \in ObjectSet, l \in Deadlines}

\* The entries a command may find: their lists have something in them.
Proper(o) == o.type = "list" => o.list # <<>>
Entries   == {e \in Values : Proper(e.obj)}

LEMMA EntryFields ==
  ASSUME EveryEntry, NEW e \in Entries
  PROVE  /\ e.obj \in ObjectSet /\ e.left \in Deadlines /\ Proper(e.obj)
         /\ e = DbEntry(e.obj, e.left)
  BY DEF EveryEntry, Entries, DbEntry

LEMMA EntryMade ==
  ASSUME EveryEntry, NEW o \in ObjectSet, Proper(o), NEW l \in Deadlines
  PROVE  DbEntry(o, l) \in Entries
  BY DEF EveryEntry, Entries, DbEntry

LEMMA ObjectFields ==
  ASSUME NEW o \in ObjectSet
  PROVE  /\ o.type \in {"int", "str", "list"}
         /\ o.type = "int" => o = IntObj(o.num) /\ o.num \in IntMin .. IntMax
         /\ o.type = "str" => o = StrObj(o.str) /\ o.str \in Texts
         /\ o.type = "list" => o = ListObj(o.list) /\ o.list \in Seq(Texts)
<1>1. CASE \E n \in IntMin .. IntMax : o = IntObj(n)
  BY <1>1 DEF IntObj
<1>2. CASE \E x \in Texts : o = StrObj(x)
  BY <1>2 DEF StrObj
<1>3. CASE \E q \in Seq(Texts) : o = ListObj(q)
  BY <1>3 DEF ListObj
<1> QED
  BY <1>1, <1>2, <1>3 DEF ObjectSet

\* The objects the commands make.
LEMMA IntMade ==
  ASSUME NEW n \in IntMin .. IntMax
  PROVE  IntObj(n) \in ObjectSet /\ Proper(IntObj(n))
  BY DEF ObjectSet, Proper, IntObj

LEMMA TextMade ==
  ASSUME NEW x \in Texts
  PROVE  ObjOf(x) \in ObjectSet /\ Proper(ObjOf(x))
<1>1. CASE x \in DOMAIN ParseInt
  BY <1>1, ObjectAssumption, IntMade DEF ObjOf
<1>2. CASE x \notin DOMAIN ParseInt
  BY <1>2 DEF ObjOf, ObjectSet, Proper, StrObj
<1> QED
  BY <1>1, <1>2

LEMMA ListMade ==
  ASSUME NEW q \in Seq(Texts), q # <<>>
  PROVE  ListObj(q) \in ObjectSet /\ Proper(ListObj(q))
  BY DEF ObjectSet, Proper, ListObj

LEMMA WrapInRange ==
  ASSUME NEW n \in Int
  PROVE  Wrap(n) \in IntMin .. IntMax
<1> DEFINE m == (IntMax - IntMin) + 1
           r == (n - IntMin) % m
<1>1. IntMin \in Int /\ IntMax \in Int /\ m \in Nat /\ m > 0 /\ n - IntMin \in Int
  BY ObjectAssumption
<1>2. r \in 0 .. m - 1
  <2> HIDE DEF m
  <2> QED
    BY <1>1
<1>3. Wrap(n) = r + IntMin
  BY DEF Wrap
<1> HIDE DEF r
<1> QED
  BY <1>1, <1>2, <1>3

\* What the commands do to an entry they found.
LEMMA LeftChanged ==
  ASSUME EveryEntry, NEW e \in Entries, NEW l \in Deadlines
  PROVE  [e EXCEPT !.left = l] \in Entries
<1>1. e = DbEntry(e.obj, e.left) /\ e.obj \in ObjectSet /\ Proper(e.obj)
  BY EntryFields
<1>2. [e EXCEPT !.left = l] = DbEntry(e.obj, l)
  BY <1>1 DEF DbEntry
<1> QED
  BY <1>1, <1>2, EntryMade

LEMMA NumChanged ==
  ASSUME EveryEntry, NEW e \in Entries, e.obj.type = "int", NEW n \in IntMin .. IntMax
  PROVE  [e EXCEPT !.obj.num = n] \in Entries
<1>1. /\ e = DbEntry(e.obj, e.left) /\ e.left \in Deadlines
      /\ e.obj = IntObj(e.obj.num)
  BY EntryFields, ObjectFields
<1>2. [e EXCEPT !.obj.num = n] = DbEntry(IntObj(n), e.left)
  BY <1>1 DEF DbEntry, IntObj
<1> QED
  BY <1>1, <1>2, EntryMade, IntMade

LEMMA ListChanged ==
  ASSUME EveryEntry, NEW e \in Entries, e.obj.type = "list",
         NEW q \in Seq(Texts), q # <<>>
  PROVE  [e EXCEPT !.obj.list = q] \in Entries
<1>1. /\ e = DbEntry(e.obj, e.left) /\ e.left \in Deadlines
      /\ e.obj = ListObj(e.obj.list)
  BY EntryFields, ObjectFields
<1>2. [e EXCEPT !.obj.list = q] = DbEntry(ListObj(q), e.left)
  BY <1>1 DEF DbEntry, ListObj
<1> QED
  BY <1>1, <1>2, EntryMade, ListMade

LEMMA Aging ==
  ASSUME EveryEntry, NEW e \in Entries, NEW d \in Nat
  PROVE  Aged(e, d) \in Entries
<1>1. e = DbEntry(e.obj, e.left) /\ e.left \in Deadlines
  BY EntryFields
<1>2. NoExpiry \in Deadlines /\ -1 \in Deadlines
  BY DEF Deadlines
<1>3. e.left # NoExpiry => e.left - d \in Deadlines
  BY <1>1 DEF Deadlines
<1> DEFINE l == IF e.left = NoExpiry THEN NoExpiry ELSE -1
           m == e.left - d
<1>4. Aged(e, d) = IF e.left = NoExpiry \/ m < -1
                     THEN [e EXCEPT !.left = l] ELSE [e EXCEPT !.left = m]
  BY DEF Aged
<1>5. l \in Deadlines
  BY <1>2
<1>6. e.left # NoExpiry => m \in Deadlines
  BY <1>3
<1> HIDE DEF l, m
<1> QED
  BY <1>4, <1>5, <1>6, LeftChanged

LEMMA DeadlineMade ==
  ASSUME NEW s \in Int
  PROVE  Deadline(s) \in Deadlines
<1>1. s * Second \in Int
  BY ObjectAssumption
<1> QED
  BY <1>1 DEF Deadline, Deadlines

LEMMA ListEnds ==
  ASSUME NEW q \in Seq(Texts), NEW side
  PROVE  /\ \A x \in Texts : Pushed(q, side, x) \in Seq(Texts) /\ Pushed(q, side, x) # <<>>
         /\ q # <<>> /\ Len(q) # 1 => Popped(q, side) \in Seq(Texts) /\ Popped(q, side) # <<>>
         /\ q # <<>> => End(q, side) \in Texts
<1>1. ASSUME NEW x \in Texts
      PROVE  Pushed(q, side, x) \in Seq(Texts) /\ Pushed(q, side, x) # <<>>
  <2>1. <<x>> \in Seq(Texts) /\ Len(<<x>>) = 1
    OBVIOUS
  <2>2. <<x>> \o q \in Seq(Texts) /\ Len(<<x>> \o q) = 1 + Len(q)
    BY <2>1, ConcatProperties
  <2>3. Append(q, x) \in Seq(Texts) /\ Len(Append(q, x)) = Len(q) + 1
    OBVIOUS
  <2>4. Len(<<>>) = 0 /\ Len(q) \in Nat
    OBVIOUS
  <2>5. <<x>> \o q # <<>> /\ Append(q, x) # <<>>
    BY <2>2, <2>3, <2>4
  <2> QED
    BY <2>2, <2>3, <2>5 DEF Pushed
<1>2. ASSUME q # <<>>, Len(q) # 1
      PROVE  Popped(q, side) \in Seq(Texts) /\ Popped(q, side) # <<>>
  <2>1. Len(q) \in Nat /\ Len(q) > 1
    <3>1. Len(q) \in Nat \ {0}
      BY <1>2, EmptySeq
    <3> QED
      BY <1>2, <3>1
  <2>2. Tail(q) \in Seq(Texts) /\ Len(Tail(q)) = Len(q) - 1
    BY <1>2
  <2>3. SubSeq(q, 1, Len(q) - 1) \in Seq(Texts) /\ Len(SubSeq(q, 1, Len(q) - 1)) = Len(q) - 1
    BY <2>1
  <2>4. Len(<<>>) = 0
    OBVIOUS
  <2>5. Tail(q) # <<>> /\ SubSeq(q, 1, Len(q) - 1) # <<>>
    <3>1. Len(Tail(q)) # 0 /\ Len(SubSeq(q, 1, Len(q) - 1)) # 0
      BY <2>1, <2>2, <2>3
    <3> QED
      BY <2>4, <3>1, Zenon
  <2> QED
    BY <2>2, <2>3, <2>5 DEF Popped
<1>3. ASSUME q # <<>> PROVE End(q, side) \in Texts
  <2>1. Len(q) \in 1 .. Len(q)
    BY <1>3
  <2>2. Head(q) \in Texts /\ q[Len(q)] \in Texts
    BY <1>3, <2>1
  <2> QED
    BY <2>2 DEF End
<1> QED
  BY <1>1, <1>2, <1>3

-----------------------------------------------------------------------------
(* Calls of the storage engine                                             *)

\* The tables that the database has between two calls.
Stores == Good(Entries)

LEMMA EntriesAreValues == Entries \in SUBSET Values
  BY DEF Entries

\* Writing through the pointer that was found.
LEMMA RewriteGood ==
  ASSUME NEW t \in Stores, NEW k \in Keys, HtExists(t, k), NEW e \in Entries
  PROVE  Rewrite(t, k, e) \in Stores
<1> DEFINE c == t.cap
           s == HtFind(t, k)
           u == Rewrite(t, k, e)
           w == Put(t, s, k, e)
<1>1. /\ c \in Nat /\ c >= MinCap /\ t \in Sound(c, Slot, Entries) /\ t \in Tables(c, Slot)
      /\ t.slots \in [0 .. c - 1 -> Slot]
      /\ (t.size + t.tombs) * 100 < 71 * c
  BY GoodFields DEF Stores
<1>2. s \in 0 .. c - 1 /\ t.slots[s].occ = 1 /\ t.slots[s].key = k
  BY FindGood DEF Stores
<1>3. w \in Sound(c, Slot, Entries) /\ w.size = t.size /\ w.tombs = t.tombs
  BY <1>1, <1>2, EntriesAreValues, Exchanged
<1>4. t.slots[s] = Entry(k, t.slots[s].val)
  BY <1>1, <1>2, SlotFields DEF Slot, Entry, EmptySlot, Tombstone
<1>5. [t.slots EXCEPT ![s].val = e] = With(t.slots, s, k, e)
  <2>1. [t.slots[s] EXCEPT !.val = e] = Entry(k, e)
    BY <1>4 DEF Entry
  <2> QED
    BY <2>1 DEF With
<1>6. u = w
  BY <1>5 DEF Rewrite, Put
<1> HIDE DEF c, s, u, w
<1>7. u \in Stores
  BY <1>1, <1>3, <1>6, GoodTable DEF Stores
<1> QED
  BY <1>7 DEF u

\* Time passes.
LEMMA AgedGood ==
  ASSUME EveryEntry, NEW t \in Stores, NEW d \in Nat
  PROVE  AgedTable(t, d) \in Stores /\ AgedTable(t, d).cap = t.cap
<1> DEFINE c == t.cap
           a == t.slots
           b == AgedSlots(a, d)
           u == AgedTable(t, d)
<1>1. /\ c \in Nat /\ c >= MinCap /\ t \in Sound(c, Slot, Entries) /\ t \in Tables(c, Slot)
      /\ a \in [0 .. c - 1 -> Slot]
      /\ (t.size + t.tombs) * 100 < 71 * c
      /\ \A s \in 0 .. c - 1 : a[s].occ = 1 => a[s].val \in Entries
  BY GoodFields DEF Stores
<1>2. t.size = Cardinality(Occupied(a)) /\ t.tombs = Cardinality(Tombstones(a))
  BY <1>1, SoundFields
<1>3. u = [t EXCEPT !.slots = b]
  BY DEF AgedTable
<1>4. ASSUME NEW s \in 0 .. c - 1
      PROVE  b[s] \in Slot /\ b[s].occ = a[s].occ /\ (b[s].occ = 1 => b[s].val \in Entries)
  <2>1. CASE a[s].occ = 1
    <3>1. a[s].key \in Keys /\ a[s] = Entry(a[s].key, a[s].val)
      BY <1>1, <2>1, SlotFields DEF Slot, Entry, EmptySlot, Tombstone
    <3>2. Aged(a[s].val, d) \in Entries
      BY <1>1, <2>1, Aging
    <3>3. b[s] = Entry(a[s].key, Aged(a[s].val, d))
      BY <1>1, <2>1, <3>1 DEF AgedSlots, Entry
    <3> QED
      BY <2>1, <3>1, <3>2, <3>3, EntriesAreValues DEF Slot, Entry
  <2>2. CASE a[s].occ # 1
    BY <1>1, <2>2 DEF AgedSlots
  <2> QED
    BY <2>1, <2>2
<1>5. b = [s \in 0 .. c - 1 |-> b[s]] /\ DOMAIN b = 0 .. c - 1 /\ DOMAIN a = 0 .. c - 1
  BY <1>1 DEF AgedSlots
<1> HIDE DEF b
<1>6. b \in [0 .. c - 1 -> Slot]
  BY <1>4, <1>5
<1>7. Occupied(b) = Occupied(a) /\ Tombstones(b) = Tombstones(a)
  BY <1>4, <1>5 DEF Occupied, Tombstones
<1>8. /\ u \in Tables(c, Slot) /\ u.slots = b /\ u.size = t.size /\ u.tombs = t.tombs
      /\ u.cap = c
  BY <1>1, <1>3, <1>6 DEF Tables
<1>9. \A s \in Occupied(b) : b[s].val \in Entries
  BY <1>4, <1>5 DEF Occupied
<1> HIDE DEF c, a, u
<1>10. u \in Sound(c, Slot, Entries)
  BY <1>2, <1>7, <1>8, <1>9 DEF Sound
<1>11. u \in Stores
  BY <1>1, <1>8, <1>10, GoodTable DEF Stores
<1> QED
  BY <1>8, <1>11 DEF u, c

LEMMA GetGood ==
  ASSUME NEW t \in Stores, NEW k \in Keys, HtExists(t, k)
  PROVE  HtGet(t, k) \in Entries
  BY FindGood DEF Stores

LEMMA CheckGood ==
  ASSUME NEW t \in Stores, NEW k \in Keys
  PROVE  /\ CheckExpired(t, k) \in Stores
         /\ HtDelete(t, k) \in Stores
  BY EntriesAreValues, DeleteGood DEF CheckExpired, Stores

LEMMA StoreGood ==
  ASSUME NEW t \in Stores, NEW k \in Keys, NEW e \in Entries
  PROVE  HtSet(t, k, e) \in Stores
  BY EntriesAreValues, SetGood DEF HtSet, Stores

LEMMA DbGetGood ==
  ASSUME NEW t \in Stores, NEW k \in Keys
  PROVE  DbGet(t, k).t \in Stores /\ DbGet(t, k).r \in Entries \cup {NoVal}
<1>1. DbGet(t, k).t = CheckExpired(t, k)
  BY DEF DbGet, Answer
<1>2. DbGet(t, k).r = IF WasExpired(t, k) THEN NoVal ELSE HtGet(t, k)
  BY DEF DbGet, Answer
<1>3. ~HtExists(t, k) => HtGet(t, k) = NoVal
  BY DEF HtGet
<1> QED
  BY <1>1, <1>2, <1>3, CheckGood, GetGood

LEMMA DbSetGood ==
  ASSUME EveryEntry, NEW t \in Stores, NEW k \in Keys, NEW x \in Texts
  PROVE  DbSet(t, k, x) \in Stores
<1>1. DbEntry(ObjOf(x), NoExpiry) \in Entries
  BY TextMade, EntryMade DEF Deadlines
<1> QED
  BY <1>1, StoreGood DEF DbSet

LEMMA DbDelGood ==
  ASSUME NEW t \in Stores, NEW k \in Keys
  PROVE  DbDel(t, k).t \in Stores /\ DbDel(t, k).r \in {0, 1}
  BY CheckGood DEF DbDel, Answer

LEMMA DbExistsGood ==
  ASSUME NEW t \in Stores, NEW k \in Keys
  PROVE  DbExists(t, k).t \in Stores
  BY CheckGood DEF DbExists, Answer

LEMMA DbIncrGood ==
  ASSUME EveryEntry, NEW t \in Stores, NEW k \in Keys, NEW delta \in {-1, 1}
  PROVE  DbIncr(t, k, delta).t \in Stores
<1> DEFINE u == CheckExpired(t, k)
           e == HtGet(u, k)
           n == Wrap(e.obj.num + delta)
           f == [e EXCEPT !.obj.num = n]
           new == DbEntry(IntObj(delta), NoExpiry)
<1>1. u \in Stores
  BY CheckGood
<1>2. new \in Entries
  <2>1. delta \in IntMin .. IntMax
    BY ObjectAssumption
  <2> QED
    BY <2>1, IntMade, EntryMade DEF Deadlines
<1>3. ASSUME HtExists(u, k), e.obj.type = "int" PROVE f \in Entries
  <2>1. e \in Entries
    BY <1>1, <1>3, GetGood
  <2>2. e.obj.num \in IntMin .. IntMax
    BY <1>3, <2>1, EntryFields, ObjectFields
  <2>3. e.obj.num + delta \in Int
    BY <2>2, ObjectAssumption
  <2>4. n \in IntMin .. IntMax
    BY <2>3, WrapInRange
  <2> HIDE DEF e, n
  <2> QED
    BY <1>3, <2>1, <2>4, NumChanged
<1>4. DbIncr(t, k, delta).t =
        IF WasExpired(t, k) \/ ~HtExists(u, k) THEN HtSet(u, k, new)
          ELSE IF e.obj.type = "int" THEN Rewrite(u, k, f) ELSE u
  BY DEF DbIncr, Answer
<1> HIDE DEF u, e, f, new
<1> QED
  BY <1>1, <1>2, <1>3, <1>4, StoreGood, RewriteGood

LEMMA DbPushGood ==
  ASSUME EveryEntry, NEW t \in Stores, NEW k \in Keys, NEW side, NEW x \in Texts
  PROVE  DbPush(t, k, side, x).t \in Stores /\ DbPush(t, k, side, x).r \in Int
<1> DEFINE u == CheckExpired(t, k)
           e == HtGet(u, k)
           f == [e EXCEPT !.obj.list = Pushed(@, side, x)]
           new == DbEntry(ListObj(Pushed(<<>>, side, x)), NoExpiry)
<1>1. u \in Stores
  BY CheckGood
<1>2. new \in Entries
  <2>1. <<>> \in Seq(Texts)
    OBVIOUS
  <2>2. Pushed(<<>>, side, x) \in Seq(Texts) /\ Pushed(<<>>, side, x) # <<>>
    BY <2>1, ListEnds
  <2> QED
    BY <2>2, ListMade, EntryMade DEF Deadlines
<1>3. ASSUME HtExists(u, k), e.obj.type = "list" PROVE f \in Entries
  <2>1. e \in Entries
    BY <1>1, <1>3, GetGood
  <2>2. e.obj.list \in Seq(Texts)
    BY <1>3, <2>1, EntryFields, ObjectFields
  <2> DEFINE q == Pushed(e.obj.list, side, x)
  <2>3. q \in Seq(Texts) /\ q # <<>>
    BY <2>2, ListEnds
  <2>4. f = [e EXCEPT !.obj.list = q]
    OBVIOUS
  <2> HIDE DEF e, f, q
  <2> QED
    BY <1>3, <2>1, <2>3, <2>4, ListChanged
<1>4. DbPush(t, k, side, x).t =
        IF ~HtExists(u, k) THEN HtSet(u, k, new)
          ELSE IF e.obj.type # "list" THEN u ELSE Rewrite(u, k, f)
  BY DEF DbPush, Answer
<1>5. DbPush(t, k, side, x).r =
        IF ~HtExists(u, k) THEN 1
          ELSE IF e.obj.type # "list" THEN -1 ELSE Len(e.obj.list) + 1
  BY DEF DbPush, Answer
<1>6. HtExists(u, k) /\ e.obj.type = "list" => Len(e.obj.list) \in Nat
  BY <1>1, GetGood, EntryFields, ObjectFields
<1> HIDE DEF u, e, f, new
<1> QED
  BY <1>1, <1>2, <1>3, <1>4, <1>5, <1>6, StoreGood, RewriteGood

\* A list that is not popped empty keeps an element; one that is goes.
LEMMA DbPopGood ==
  ASSUME EveryEntry, NEW t \in Stores, NEW k \in Keys, NEW side
  PROVE  DbPop(t, k, side).t \in Stores
<1> DEFINE u == CheckExpired(t, k)
           e == HtGet(u, k)
           q == e.obj.list
           f == [e EXCEPT !.obj.list = Popped(q, side)]
<1>1. u \in Stores
  BY CheckGood
<1>2. ASSUME IsList(u, k), Len(q) # 1 PROVE f \in Entries
  <2>1. e \in Entries /\ e.obj.type = "list"
    BY <1>1, <1>2, GetGood DEF IsList
  <2>2. q \in Seq(Texts) /\ q # <<>>
    BY <2>1, EntryFields, ObjectFields DEF Proper
  <2> DEFINE p == Popped(q, side)
  <2>3. p \in Seq(Texts) /\ p # <<>>
    BY <1>2, <2>2, ListEnds
  <2> HIDE DEF e, p
  <2> QED
    BY <2>1, <2>3, ListChanged DEF p
<1>3. DbPop(t, k, side).t =
        IF WasExpired(t, k) \/ ~IsList(u, k) THEN u
          ELSE IF Len(q) = 1 THEN HtDelete(u, k) ELSE Rewrite(u, k, f)
  BY DEF DbPop, Answer
<1>4. IsList(u, k) => HtExists(u, k)
  BY DEF IsList
<1> HIDE DEF u, e, f, q
<1> QED
  BY <1>1, <1>2, <1>3, <1>4, CheckGood, RewriteGood

LEMMA DbLookGood ==
  ASSUME NEW t \in Stores, NEW k \in Keys
  PROVE  /\ DbLLen(t, k).t \in Stores
         /\ \A start, stop : DbLRange(t, k, start, stop).t \in Stores
  BY CheckGood DEF DbLLen, DbLRange, Answer

LEMMA DbExpireGood ==
  ASSUME EveryEntry, NEW t \in Stores, NEW k \in Keys, NEW s \in Int, NEW d \in Nat
  PROVE  DbExpire(t, k, s, d).t \in Stores
<1> DEFINE u == AgedTable(CheckExpired(t, k), d)
           e == HtGet(u, k)
           f == [e EXCEPT !.left = Deadline(s)]
<1>1. u \in Stores
  BY CheckGood, AgedGood
<1>2. ASSUME HtExists(u, k) PROVE f \in Entries
  <2>1. e \in Entries
    BY <1>1, <1>2, GetGood
  <2> HIDE DEF e
  <2> QED
    BY <2>1, DeadlineMade, LeftChanged
<1>3. DbExpire(t, k, s, d).t =
        IF WasExpired(t, k) \/ ~HtExists(u, k) THEN u ELSE Rewrite(u, k, f)
  BY DEF DbExpire, Answer
<1> HIDE DEF u, e, f
<1> QED
  BY <1>1, <1>2, <1>3, RewriteGood

LEMMA DbTtlGood ==
  ASSUME EveryEntry, NEW t \in Stores, NEW k \in Keys, NEW d \in Nat
  PROVE  DbTtl(t, k, d).t \in Stores
  BY CheckGood, AgedGood DEF DbTtl, Answer

LEMMA DbPersistGood ==
  ASSUME EveryEntry, NEW t \in Stores, NEW k \in Keys
  PROVE  DbPersist(t, k).t \in Stores
<1> DEFINE u == CheckExpired(t, k)
           e == HtGet(u, k)
           f == [e EXCEPT !.left = NoExpiry]
<1>1. u \in Stores
  BY CheckGood
<1>2. ASSUME HtExists(u, k) PROVE f \in Entries
  <2>1. e \in Entries
    BY <1>1, <1>2, GetGood
  <2> HIDE DEF e
  <2> QED
    BY <2>1, LeftChanged DEF Deadlines
<1>3. DbPersist(t, k).t =
        IF WasExpired(t, k) \/ ~HtExists(u, k) \/ e.left = NoExpiry
          THEN u ELSE Rewrite(u, k, f)
  BY DEF DbPersist, Answer
<1> HIDE DEF u, e, f
<1> QED
  BY <1>1, <1>2, <1>3, RewriteGood

-----------------------------------------------------------------------------
(* The loops of the commands with many arguments, and of the sweep         *)

LEMMA LoopStays ==
  ASSUME NEW N \in Nat, NEW T, NEW g, g[0] \in T,
         \A n \in 1 .. N : g[n - 1] \in T => g[n] \in T
  PROVE  g[N] \in T
<1> DEFINE S == {n \in 0 .. N : g[n] \in T}
<1>1. 0 \in S
  OBVIOUS
<1>2. ASSUME NEW n \in 0 .. N - 1, n \in S PROVE n + 1 \in S
  <2>1. n + 1 \in 1 .. N /\ (n + 1) - 1 = n /\ n + 1 \in 0 .. N
    OBVIOUS
  <2> QED
    BY <1>2, <2>1
<1> HIDE DEF S
<1>3. \A n \in 0 .. N : n \in S
  BY <1>1, <1>2, Upwards
<1>4. N \in S
  BY <1>3
<1> QED
  BY <1>4 DEF S

LEMMA ListIsSeq ==
  ASSUME NEW S, NEW q \in Lists(S)
  PROVE  q \in Seq(S) /\ Len(q) \in Nat /\ \A n \in 1 .. Len(q) : q[n] \in S
<1>1. MaxArgs \in Nat
  BY CommandsAssumption
<1>2. PICK n \in Nat : q \in [1 .. n -> S]
  BY <1>1 DEF Lists
<1>3. q \in Seq(S)
  BY <1>2, SeqDef
<1> QED
  BY <1>3, ElementOfSeq, LenProperties

\* The ticks that pass within a command.
LEMMA DelaysTyped ==
  ASSUME NEW S, NEW q \in Lists(S), NEW ds \in Delays(q)
  PROVE  Ticks(ds) \in Nat /\ \A n \in 1 .. Len(q) : ds[n] \in Nat
<1>1. ds \in [1 .. Len(q) -> {0, 1}] /\ Len(q) \in Nat
  BY DEF Delays, Lists
<1>2. IsFiniteSet(1 .. Len(q)) /\ {i \in DOMAIN ds : ds[i] = 1} \subseteq 1 .. Len(q)
  BY <1>1, FS_Interval
<1>3. Ticks(ds) \in Nat
  BY <1>2, FS_Subset, FS_CardinalityType DEF Ticks
<1> QED
  BY <1>1, <1>3

\* cmd_del.
Counts == [t : Stores, r : Int]

DelStep(acc, k, d) ==
  LET a == DbDel(AgedTable(acc.t, d), k) IN Answer(a.t, acc.r + a.r)

DelFrom(t, ks, ds) ==
  CHOOSE del : del = [n \in 0 .. Len(ks) |->
    IF n = 0 THEN Answer(t, 0) ELSE DelStep(del[n - 1], ks[n], ds[n])]

LEMMA DelStays ==
  ASSUME EveryEntry, NEW acc \in Counts, NEW k \in Keys, NEW d \in Nat
  PROVE  DelStep(acc, k, d) \in Counts
<1> DEFINE u == AgedTable(acc.t, d)
<1>1. acc.t \in Stores /\ acc.r \in Int
  BY DEF Counts
<1>2. u \in Stores
  BY <1>1, AgedGood
<1> HIDE DEF u
<1>3. DbDel(u, k).t \in Stores /\ DbDel(u, k).r \in {0, 1}
  BY <1>2, DbDelGood
<1>4. acc.r + DbDel(u, k).r \in Int
  BY <1>1, <1>3
<1> QED
  BY <1>3, <1>4 DEF DelStep, Answer, Counts, u

LEMMA DelLoop ==
  ASSUME EveryEntry, NEW t \in Stores, NEW ks \in Lists(Keys), NEW ds \in Delays(ks)
  PROVE  LET g == DelFrom(t, ks, ds)
         IN  /\ g[0] = Answer(t, 0)
             /\ \A n \in 1 .. Len(ks) : g[n] = DelStep(g[n - 1], ks[n], ds[n])
<1> DEFINE N == Len(ks)
           b == Answer(t, 0)
           g == DelFrom(t, ks, ds)
           step == [p \in (1 .. N) \X Counts |-> DelStep(p[2], ks[p[1]], ds[p[1]])]
<1>1. N \in Nat /\ \A n \in 1 .. N : ks[n] \in Keys /\ ds[n] \in Nat
  BY ListIsSeq, DelaysTyped
<1>2. b \in Counts
  BY DEF Counts, Answer
<1>3. step \in [(1 .. N) \X Counts -> Counts]
  BY <1>1, DelStays
<1>4. \A n \in 1 .. N, acc \in Counts : step[<<n, acc>>] = DelStep(acc, ks[n], ds[n])
  OBVIOUS
<1> HIDE DEF N, b, step
<1>5. PICK f : Iterates(f, N, Counts, b, step)
  BY <1>1, <1>2, <1>3, Iteration
<1>6. \A n \in 0 .. N : f[n] = IF n = 0 THEN b ELSE DelStep(f[n - 1], ks[n], ds[n])
  <2> SUFFICES ASSUME NEW n \in 0 .. N, n # 0 PROVE f[n] = DelStep(f[n - 1], ks[n], ds[n])
    BY <1>5 DEF Iterates
  <2>1. n \in 1 .. N /\ n - 1 \in 0 .. N
    BY <1>1
  <2> QED
    BY <1>4, <1>5, <2>1 DEF Iterates
<1>7. f = [n \in 0 .. N |-> IF n = 0 THEN b ELSE DelStep(f[n - 1], ks[n], ds[n])]
  BY <1>5, <1>6, Zenon DEF Iterates
<1>8. g = [n \in 0 .. N |-> IF n = 0 THEN b ELSE DelStep(g[n - 1], ks[n], ds[n])]
  BY <1>7, Zenon DEF DelFrom, N, b
<1>9. g[0] = b /\ \A n \in 1 .. N : g[n] = DelStep(g[n - 1], ks[n], ds[n])
  <2> HIDE DEF g
  <2> QED
    BY <1>1, <1>8
<1> QED
  BY <1>9 DEF g, N, b

LEMMA DelGood ==
  ASSUME EveryEntry, NEW t \in Stores, NEW ks \in Lists(Keys), NEW ds \in Delays(ks)
  PROVE  DelFrom(t, ks, ds)[Len(ks)] \in Counts
<1> DEFINE N == Len(ks)
           g == DelFrom(t, ks, ds)
<1>1. N \in Nat /\ \A n \in 1 .. N : ks[n] \in Keys /\ ds[n] \in Nat
  BY ListIsSeq, DelaysTyped
<1>2. g[0] = Answer(t, 0) /\ \A n \in 1 .. N : g[n] = DelStep(g[n - 1], ks[n], ds[n])
  BY DelLoop
<1>3. Answer(t, 0) \in Counts
  BY DEF Counts, Answer
<1> HIDE DEF N, g
<1>4. \A n \in 1 .. N : g[n - 1] \in Counts => g[n] \in Counts
  BY <1>1, <1>2, DelStays
<1>5. g[N] \in Counts
  BY <1>1, <1>2, <1>3, <1>4, LoopStays
<1> QED
  BY <1>5 DEF g, N

\* cmd_mget.
Items  == {Nil} \cup {Shown(e.obj) : e \in Entries}
Shares == [t : Stores, r : Seq(Items)]

Item(e) == IF e = NoVal THEN Nil ELSE IF e.obj.type = "list" THEN Nil ELSE Shown(e.obj)

MgetStep(acc, k, d) ==
  LET a == DbGet(AgedTable(acc.t, d), k) IN Answer(a.t, Append(acc.r, Item(a.r)))

MgetFrom(t, ks, ds) ==
  CHOOSE get : get = [n \in 0 .. Len(ks) |->
    IF n = 0 THEN Answer(t, <<>>) ELSE MgetStep(get[n - 1], ks[n], ds[n])]

LEMMA MgetStays ==
  ASSUME EveryEntry, NEW acc \in Shares, NEW k \in Keys, NEW d \in Nat
  PROVE  MgetStep(acc, k, d) \in Shares
<1> DEFINE a == DbGet(AgedTable(acc.t, d), k)
<1>1. acc.t \in Stores /\ acc.r \in Seq(Items)
  BY DEF Shares
<1>2. a.t \in Stores /\ a.r \in Entries \cup {NoVal}
  BY <1>1, AgedGood, DbGetGood
<1> HIDE DEF a
<1>3. Item(a.r) \in Items
  BY <1>2, Zenon DEF Item, Items
<1>4. Append(acc.r, Item(a.r)) \in Seq(Items)
  BY <1>1, <1>3
<1> QED
  BY <1>2, <1>4 DEF MgetStep, Answer, Shares, a

LEMMA MgetLoop ==
  ASSUME EveryEntry, NEW t \in Stores, NEW ks \in Lists(Keys), NEW ds \in Delays(ks)
  PROVE  LET g == MgetFrom(t, ks, ds)
         IN  /\ g[0] = Answer(t, <<>>)
             /\ \A n \in 1 .. Len(ks) : g[n] = MgetStep(g[n - 1], ks[n], ds[n])
<1> DEFINE N == Len(ks)
           b == Answer(t, <<>>)
           g == MgetFrom(t, ks, ds)
           step == [p \in (1 .. N) \X Shares |-> MgetStep(p[2], ks[p[1]], ds[p[1]])]
<1>1. N \in Nat /\ \A n \in 1 .. N : ks[n] \in Keys /\ ds[n] \in Nat
  BY ListIsSeq, DelaysTyped
<1>2. b \in Shares
  BY DEF Shares, Answer
<1>3. step \in [(1 .. N) \X Shares -> Shares]
  BY <1>1, MgetStays
<1>4. \A n \in 1 .. N, acc \in Shares : step[<<n, acc>>] = MgetStep(acc, ks[n], ds[n])
  OBVIOUS
<1> HIDE DEF N, b, step
<1>5. PICK f : Iterates(f, N, Shares, b, step)
  BY <1>1, <1>2, <1>3, Iteration
<1>6. \A n \in 0 .. N : f[n] = IF n = 0 THEN b ELSE MgetStep(f[n - 1], ks[n], ds[n])
  <2> SUFFICES ASSUME NEW n \in 0 .. N, n # 0 PROVE f[n] = MgetStep(f[n - 1], ks[n], ds[n])
    BY <1>5 DEF Iterates
  <2>1. n \in 1 .. N /\ n - 1 \in 0 .. N
    BY <1>1
  <2> QED
    BY <1>4, <1>5, <2>1 DEF Iterates
<1>7. f = [n \in 0 .. N |-> IF n = 0 THEN b ELSE MgetStep(f[n - 1], ks[n], ds[n])]
  BY <1>5, <1>6, Zenon DEF Iterates
<1>8. g = [n \in 0 .. N |-> IF n = 0 THEN b ELSE MgetStep(g[n - 1], ks[n], ds[n])]
  BY <1>7, Zenon DEF MgetFrom, N, b
<1>9. g[0] = b /\ \A n \in 1 .. N : g[n] = MgetStep(g[n - 1], ks[n], ds[n])
  <2> HIDE DEF g
  <2> QED
    BY <1>1, <1>8
<1> QED
  BY <1>9 DEF g, N, b

LEMMA MgetGood ==
  ASSUME EveryEntry, NEW t \in Stores, NEW ks \in Lists(Keys), NEW ds \in Delays(ks)
  PROVE  MgetFrom(t, ks, ds)[Len(ks)] \in Shares
<1> DEFINE N == Len(ks)
           g == MgetFrom(t, ks, ds)
<1>1. N \in Nat /\ \A n \in 1 .. N : ks[n] \in Keys /\ ds[n] \in Nat
  BY ListIsSeq, DelaysTyped
<1>2. g[0] = Answer(t, <<>>) /\ \A n \in 1 .. N : g[n] = MgetStep(g[n - 1], ks[n], ds[n])
  BY MgetLoop
<1>3. Answer(t, <<>>) \in Shares
  BY DEF Shares, Answer
<1> HIDE DEF N, g
<1>4. \A n \in 1 .. N : g[n - 1] \in Shares => g[n] \in Shares
  BY <1>1, <1>2, MgetStays
<1>5. g[N] \in Shares
  BY <1>1, <1>2, <1>3, <1>4, LoopStays
<1> QED
  BY <1>5 DEF g, N

\* cmd_mset.
MsetStep(t, kv) == DbSet(t, kv[1], kv[2])

MsetFrom(t, kvs) ==
  CHOOSE set : set = [n \in 0 .. Len(kvs) |->
    IF n = 0 THEN t ELSE MsetStep(set[n - 1], kvs[n])]

LEMMA MsetStays ==
  ASSUME EveryEntry, NEW t \in Stores, NEW kv \in Keys \X Texts
  PROVE  MsetStep(t, kv) \in Stores
  BY DbSetGood DEF MsetStep

LEMMA MsetLoop ==
  ASSUME EveryEntry, NEW t \in Stores, NEW kvs \in Lists(Keys \X Texts)
  PROVE  LET g == MsetFrom(t, kvs)
         IN  /\ g[0] = t
             /\ \A n \in 1 .. Len(kvs) : g[n] = MsetStep(g[n - 1], kvs[n])
<1> DEFINE N == Len(kvs)
           b == t
           g == MsetFrom(t, kvs)
           step == [p \in (1 .. N) \X Stores |-> MsetStep(p[2], kvs[p[1]])]
<1>1. N \in Nat /\ \A n \in 1 .. N : kvs[n] \in Keys \X Texts
  BY ListIsSeq
<1>2. b \in Stores
  OBVIOUS
<1>3. step \in [(1 .. N) \X Stores -> Stores]
  BY <1>1, MsetStays
<1>4. \A n \in 1 .. N, acc \in Stores : step[<<n, acc>>] = MsetStep(acc, kvs[n])
  OBVIOUS
<1> HIDE DEF N, b, step
<1>5. PICK f : Iterates(f, N, Stores, b, step)
  BY <1>1, <1>2, <1>3, Iteration
<1>6. \A n \in 0 .. N : f[n] = IF n = 0 THEN b ELSE MsetStep(f[n - 1], kvs[n])
  <2> SUFFICES ASSUME NEW n \in 0 .. N, n # 0 PROVE f[n] = MsetStep(f[n - 1], kvs[n])
    BY <1>5 DEF Iterates
  <2>1. n \in 1 .. N /\ n - 1 \in 0 .. N
    BY <1>1
  <2> QED
    BY <1>4, <1>5, <2>1 DEF Iterates
<1>7. f = [n \in 0 .. N |-> IF n = 0 THEN b ELSE MsetStep(f[n - 1], kvs[n])]
  BY <1>5, <1>6, Zenon DEF Iterates
<1>8. g = [n \in 0 .. N |-> IF n = 0 THEN b ELSE MsetStep(g[n - 1], kvs[n])]
  BY <1>7, Zenon DEF MsetFrom, N, b
<1>9. g[0] = b /\ \A n \in 1 .. N : g[n] = MsetStep(g[n - 1], kvs[n])
  <2> HIDE DEF g
  <2> QED
    BY <1>1, <1>8
<1> QED
  BY <1>9 DEF g, N, b

LEMMA MsetGood ==
  ASSUME EveryEntry, NEW t \in Stores, NEW kvs \in Lists(Keys \X Texts)
  PROVE  MsetFrom(t, kvs)[Len(kvs)] \in Stores
<1> DEFINE N == Len(kvs)
           g == MsetFrom(t, kvs)
<1>1. N \in Nat /\ \A n \in 1 .. N : kvs[n] \in Keys \X Texts
  BY ListIsSeq
<1>2. g[0] = t /\ \A n \in 1 .. N : g[n] = MsetStep(g[n - 1], kvs[n])
  BY MsetLoop
<1>3. t \in Stores
  OBVIOUS
<1> HIDE DEF N, g
<1>4. \A n \in 1 .. N : g[n - 1] \in Stores => g[n] \in Stores
  BY <1>1, <1>2, MsetStays
<1>5. g[N] \in Stores
  BY <1>1, <1>2, <1>3, <1>4, LoopStays
<1> QED
  BY <1>5 DEF g, N

\* cmd_lpush, cmd_rpush.
PushStep(side, k, acc, x, d) ==
  LET t == AgedTable(acc.t, d)
  IN  IF acc.r < 0 THEN Answer(t, acc.r) ELSE DbPush(t, k, side, x)

PushFrom(t, side, k, xs, ds) ==
  CHOOSE push : push = [n \in 0 .. Len(xs) |->
    IF n = 0 THEN Answer(t, 0) ELSE PushStep(side, k, push[n - 1], xs[n], ds[n])]

LEMMA PushStays ==
  ASSUME EveryEntry, NEW acc \in Counts, NEW k \in Keys, NEW side, NEW x \in Texts,
         NEW d \in Nat
  PROVE  PushStep(side, k, acc, x, d) \in Counts
<1> DEFINE u == AgedTable(acc.t, d)
           p == DbPush(u, k, side, x)
<1>1. acc.t \in Stores /\ acc.r \in Int
  BY DEF Counts
<1>2. u \in Stores
  BY <1>1, AgedGood
<1> HIDE DEF u
<1>3. p.t \in Stores /\ p.r \in Int
  BY <1>2, DbPushGood
<1>4. p = Answer(p.t, p.r)
  BY DEF DbPush, Answer
<1>5. Answer(u, acc.r) \in Counts
  BY <1>1, <1>2 DEF Answer, Counts
<1> HIDE DEF p
<1>6. p \in Counts
  BY <1>3, <1>4 DEF Answer, Counts
<1>7. PushStep(side, k, acc, x, d) = IF acc.r < 0 THEN Answer(u, acc.r) ELSE p
  BY DEF PushStep, u, p
<1> QED
  BY <1>5, <1>6, <1>7

LEMMA PushLoop ==
  ASSUME EveryEntry, NEW t \in Stores, NEW side, NEW k \in Keys, NEW xs \in Lists(Texts),
         NEW ds \in Delays(xs)
  PROVE  LET g == PushFrom(t, side, k, xs, ds)
         IN  /\ g[0] = Answer(t, 0)
             /\ \A n \in 1 .. Len(xs) : g[n] = PushStep(side, k, g[n - 1], xs[n], ds[n])
<1> DEFINE N == Len(xs)
           b == Answer(t, 0)
           g == PushFrom(t, side, k, xs, ds)
           step == [p \in (1 .. N) \X Counts |-> PushStep(side, k, p[2], xs[p[1]], ds[p[1]])]
<1>1. N \in Nat /\ \A n \in 1 .. N : xs[n] \in Texts /\ ds[n] \in Nat
  BY ListIsSeq, DelaysTyped
<1>2. b \in Counts
  BY DEF Counts, Answer
<1>3. step \in [(1 .. N) \X Counts -> Counts]
  BY <1>1, PushStays
<1>4. \A n \in 1 .. N, acc \in Counts : step[<<n, acc>>] = PushStep(side, k, acc, xs[n], ds[n])
  OBVIOUS
<1> HIDE DEF N, b, step
<1>5. PICK f : Iterates(f, N, Counts, b, step)
  BY <1>1, <1>2, <1>3, Iteration
<1>6. \A n \in 0 .. N : f[n] = IF n = 0 THEN b ELSE PushStep(side, k, f[n - 1], xs[n], ds[n])
  <2> SUFFICES ASSUME NEW n \in 0 .. N, n # 0 PROVE f[n] = PushStep(side, k, f[n - 1], xs[n], ds[n])
    BY <1>5 DEF Iterates
  <2>1. n \in 1 .. N /\ n - 1 \in 0 .. N
    BY <1>1
  <2> QED
    BY <1>4, <1>5, <2>1 DEF Iterates
<1>7. f = [n \in 0 .. N |-> IF n = 0 THEN b ELSE PushStep(side, k, f[n - 1], xs[n], ds[n])]
  BY <1>5, <1>6, Zenon DEF Iterates
<1>8. g = [n \in 0 .. N |-> IF n = 0 THEN b ELSE PushStep(side, k, g[n - 1], xs[n], ds[n])]
  BY <1>7, Zenon DEF PushFrom, N, b
<1>9. g[0] = b /\ \A n \in 1 .. N : g[n] = PushStep(side, k, g[n - 1], xs[n], ds[n])
  <2> HIDE DEF g
  <2> QED
    BY <1>1, <1>8
<1> QED
  BY <1>9 DEF g, N, b

LEMMA PushGood ==
  ASSUME EveryEntry, NEW t \in Stores, NEW side, NEW k \in Keys, NEW xs \in Lists(Texts),
         NEW ds \in Delays(xs)
  PROVE  PushFrom(t, side, k, xs, ds)[Len(xs)] \in Counts
<1> DEFINE N == Len(xs)
           g == PushFrom(t, side, k, xs, ds)
<1>1. N \in Nat /\ \A n \in 1 .. N : xs[n] \in Texts /\ ds[n] \in Nat
  BY ListIsSeq, DelaysTyped
<1>2. g[0] = Answer(t, 0) /\ \A n \in 1 .. N : g[n] = PushStep(side, k, g[n - 1], xs[n], ds[n])
  BY PushLoop
<1>3. Answer(t, 0) \in Counts
  BY DEF Counts, Answer
<1> HIDE DEF N, g
<1>4. \A n \in 1 .. N : g[n - 1] \in Counts => g[n] \in Counts
  BY <1>1, <1>2, PushStays
<1>5. g[N] \in Counts
  BY <1>1, <1>2, <1>3, <1>4, LoopStays
<1> QED
  BY <1>5 DEF g, N

\* db_expire_sweep.
Fitting == {t \in Stores : t.cap \in Caps}
Walks   == [t : Fitting, left : Int]

SweepFrom(t) ==
  CHOOSE after : after = [n \in 0 .. SweepSamples |->
    IF n = 0 THEN [t |-> t, left |-> SweepSamples] ELSE Round(after[n - 1])]

LEMMA RoundStays ==
  ASSUME NEW p \in Walks
  PROVE  Round(p) \in Walks
<1> DEFINE t == p.t
           O == Overdue(t)
           first == CHOOSE s \in O : \A r \in O : s <= r
           looked == Cardinality({s \in Occupied(t.slots) : s <= first})
           d == HtDelete(t, t.slots[first].key)
<1>1. t \in Stores /\ t.cap \in Caps /\ p.left \in Int
  BY DEF Walks, Fitting
<1>2. t.cap \in Nat /\ t.slots \in [0 .. t.cap - 1 -> Slot]
  BY <1>1, GoodFields DEF Stores
<1>3. O \subseteq Occupied(t.slots) /\ Occupied(t.slots) \subseteq 0 .. t.cap - 1
  BY <1>2 DEF Overdue, Occupied
<1>4. looked \in Nat
  <2>1. IsFiniteSet(Occupied(t.slots))
    BY <1>2, Countable
  <2> QED
    BY <2>1, FS_Subset, FS_CardinalityType
<1>5. ASSUME O # {} PROVE d \in Stores /\ d.cap \in Caps
  <2>1. O \subseteq Nat
    BY <1>3
  <2> HIDE DEF O
  <2>2. \E s \in O : \A r \in O : s <= r
    BY <1>5, <2>1, Smallest
  <2>3. first \in O
    BY <2>2
  <2> HIDE DEF first
  <2>4. t.slots[first].occ = 1 /\ first \in 0 .. t.cap - 1
    BY <1>2, <1>3, <2>3 DEF Occupied
  <2>5. t.slots[first].key \in Keys
    BY <1>2, <2>4, SlotFields
  <2> HIDE DEF t
  <2> QED
    BY <1>1, <2>5, EntriesAreValues, DeleteGood DEF Stores
<1>6. Round(p) = IF O # {} /\ looked <= p.left
                   THEN [t |-> d, left |-> p.left - looked] ELSE p
  BY DEF Round
<1> HIDE DEF t, O, first, looked, d
<1>7. O # {} => [t |-> d, left |-> p.left - looked] \in Walks
  BY <1>1, <1>4, <1>5 DEF Walks, Fitting
<1> QED
  BY <1>6, <1>7

LEMMA SweepLoop ==
  ASSUME NEW t \in Stores, t.cap \in Caps
  PROVE  LET g == SweepFrom(t)
         IN  /\ g[0] = [t |-> t, left |-> SweepSamples]
             /\ \A n \in 1 .. SweepSamples : g[n] = Round(g[n - 1])
<1> DEFINE N == SweepSamples
           b == [t |-> t, left |-> SweepSamples]
           g == SweepFrom(t)
           step == [p \in (1 .. N) \X Walks |-> Round(p[2])]
<1>1. N \in Nat
  BY SweepAssumption
<1>2. b \in Walks
  BY <1>1 DEF Walks, Fitting
<1>3. step \in [(1 .. N) \X Walks -> Walks]
  BY <1>1, RoundStays
<1>4. \A n \in 1 .. N, acc \in Walks : step[<<n, acc>>] = Round(acc)
  OBVIOUS
<1> HIDE DEF N, b, step
<1>5. PICK f : Iterates(f, N, Walks, b, step)
  BY <1>1, <1>2, <1>3, Iteration
<1>6. \A n \in 0 .. N : f[n] = IF n = 0 THEN b ELSE Round(f[n - 1])
  <2> SUFFICES ASSUME NEW n \in 0 .. N, n # 0 PROVE f[n] = Round(f[n - 1])
    BY <1>5 DEF Iterates
  <2>1. n \in 1 .. N /\ n - 1 \in 0 .. N
    BY <1>1
  <2> QED
    BY <1>4, <1>5, <2>1 DEF Iterates
<1>7. f = [n \in 0 .. N |-> IF n = 0 THEN b ELSE Round(f[n - 1])]
  BY <1>5, <1>6, Zenon DEF Iterates
<1>8. g = [n \in 0 .. N |-> IF n = 0 THEN b ELSE Round(g[n - 1])]
  BY <1>7, Zenon DEF SweepFrom, N, b
<1>9. g[0] = b /\ \A n \in 1 .. N : g[n] = Round(g[n - 1])
  <2> HIDE DEF g
  <2> QED
    BY <1>1, <1>8
<1> QED
  BY <1>9 DEF g, N, b

LEMMA SweepWalks ==
  ASSUME NEW t \in Stores, t.cap \in Caps
  PROVE  SweepFrom(t)[SweepSamples] \in Walks
<1> DEFINE g == SweepFrom(t)
<1>1. SweepSamples \in Nat
  BY SweepAssumption
<1>2. /\ g[0] = [t |-> t, left |-> SweepSamples]
      /\ \A n \in 1 .. SweepSamples : g[n] = Round(g[n - 1])
  BY SweepLoop
<1>3. [t |-> t, left |-> SweepSamples] \in Walks
  BY <1>1 DEF Walks, Fitting
<1> HIDE DEF g
<1>4. \A n \in 1 .. SweepSamples : g[n - 1] \in Walks => g[n] \in Walks
  BY <1>2, RoundStays
<1>5. g[SweepSamples] \in Walks
  BY <1>1, <1>2, <1>3, <1>4, LoopStays
<1> QED
  BY <1>5 DEF g

LEMMA SweepGood ==
  ASSUME NEW t \in Stores, t.cap \in Caps
  PROVE  DbSweep(t) \in Stores /\ DbSweep(t).cap \in Caps
<1>1. DbSweep(t) = SweepFrom(t)[SweepSamples].t
  BY DEF DbSweep, SweepFrom
<1>2. SweepFrom(t)[SweepSamples] \in Walks
  BY SweepWalks
<1> QED
  BY <1>1, <1>2 DEF Walks, Fitting

-----------------------------------------------------------------------------
(* Command by command                                                      *)

StoreInv ==
  /\ ht \in Stores /\ ht.cap \in Caps
  /\ since \in 0 .. SweepInterval
  /\ (req = NoRequest) = (reply = NoReply)

LEMMA StoreInit == Init => StoreInv
<1> SUFFICES ASSUME Init PROVE StoreInv
  OBVIOUS
<1>1. ht \in Stores /\ ht.cap \in Caps
  BY EmptyGood DEF Init, Stores
<1>2. since \in 0 .. SweepInterval
  BY SweepAssumption DEF Init
<1> QED
  BY <1>1, <1>2 DEF Init, StoreInv

LEMMA Ran ==
  ASSUME NEW cmd, NEW t \in Stores, NEW a, Run(cmd, t, a),
         cmd[1] # "none", a[1] # "none", since' \in 0 .. SweepInterval
  PROVE  StoreInv'
<1>1. cmd # NoRequest /\ a # NoReply
  BY DEF NoRequest, NoReply
<1> QED
  BY <1>1 DEF Run, StoreInv

LEMMA WaitedGood ==
  ASSUME StoreInv, NEW d \in Nat, Waited(d)
  PROVE  since' \in 0 .. SweepInterval
  BY SweepAssumption DEF StoreInv, Waited

LEMMA ShownGood ==
  ASSUME EveryEntry, NEW e \in Entries
  PROVE  Shown(e.obj)[1] # "none"
<1>1. e.obj.type \in {"int", "str", "list"}
  BY EntryFields, ObjectFields
<1>2. /\ Decimal(e.obj.num)[1] = "decimal" /\ Bulk(e.obj.str)[1] = "bulk"
      /\ WrongType[1] = "error"
  BY DEF Decimal, Bulk, WrongType
<1> QED
  BY <1>1, <1>2 DEF Shown

LEMMA Replies ==
  /\ Ok[1] # "none" /\ Nil[1] # "none"
  /\ WrongType[1] # "none" /\ NotInteger[1] # "none" /\ BadRequest[1] # "none"
  /\ \A n : Number(n)[1] # "none" /\ Bulk(n)[1] # "none" /\ Array(n)[1] # "none"
  BY DEF Ok, Nil, WrongType, NotInteger, BadRequest, Number, Bulk, Array

LEMMA StringStep ==
  ASSUME EveryEntry, StoreInv, StringCommand
  PROVE  StoreInv'
<1>1. ht \in Stores /\ since \in 0 .. SweepInterval
  BY DEF StoreInv
<1>2. ASSUME NEW k \in Keys, NEW x \in Texts, NEW ex \in Nat, CmdSet(k, x, ex)
      PROVE  StoreInv'
  <2> DEFINE t == DbSet(ht, k, x)
             u == IF ex > 0 THEN DbExpire(t, k, ex, 0).t ELSE t
  <2>1. t \in Stores
    BY <1>1, DbSetGood
  <2>2. u \in Stores
    BY <2>1, DbExpireGood
  <2>3. Run(<<"SET", k, x, ex>>, u, Ok) /\ since' = since
    BY <1>2 DEF CmdSet
  <2> HIDE DEF u
  <2> QED
    BY <1>1, <2>2, <2>3, Ran, Replies
<1>3. ASSUME NEW k \in Keys, CmdGet(k) PROVE StoreInv'
  <2> DEFINE a == DbGet(ht, k)
             r == IF a.r = NoVal THEN Nil ELSE Shown(a.r.obj)
  <2>1. a.t \in Stores /\ a.r \in Entries \cup {NoVal}
    BY <1>1, DbGetGood
  <2>2. Run(<<"GET", k>>, a.t, r) /\ since' = since
    BY <1>3 DEF CmdGet
  <2> HIDE DEF a
  <2>3. r[1] # "none"
    BY <2>1, Replies, ShownGood
  <2> HIDE DEF r
  <2> QED
    BY <1>1, <2>1, <2>2, <2>3, Ran
<1>4. ASSUME NEW k \in Keys, CmdExists(k) PROVE StoreInv'
  <2> DEFINE a == DbExists(ht, k)
  <2>1. a.t \in Stores
    BY <1>1, DbExistsGood
  <2>2. Run(<<"EXISTS", k>>, a.t, Number(a.r)) /\ since' = since
    BY <1>4 DEF CmdExists
  <2> HIDE DEF a
  <2> QED
    BY <1>1, <2>1, <2>2, Ran, Replies
<1>5. ASSUME NEW k \in Keys, NEW delta \in {-1, 1}, CmdIncr(k, delta) PROVE StoreInv'
  <2> DEFINE a == DbIncr(ht, k, delta)
             r == IF a.r = IntMin THEN NotInteger ELSE Number(a.r)
  <2>1. a.t \in Stores
    BY <1>1, DbIncrGood
  <2>2. Run(<<"INCR", k, delta>>, a.t, r) /\ since' = since
    BY <1>5 DEF CmdIncr
  <2> HIDE DEF a
  <2>3. r[1] # "none"
    BY Replies
  <2> HIDE DEF r
  <2> QED
    BY <1>1, <2>1, <2>2, <2>3, Ran
<1>6. \A s \in Seconds : s > 0 => s \in Nat
  BY CommandsAssumption
<1> QED
  BY <1>2, <1>3, <1>4, <1>5, <1>6 DEF StringCommand

LEMMA ManyKeyStep ==
  ASSUME EveryEntry, StoreInv, ManyKeyCommand
  PROVE  StoreInv'
<1>1. ht \in Stores /\ since \in 0 .. SweepInterval
  BY DEF StoreInv
<1>2. ASSUME NEW ks \in Lists(Keys), NEW ds \in Delays(ks), CmdDel(ks, ds)
      PROVE  StoreInv'
  <2> DEFINE a == DelFrom(ht, ks, ds)[Len(ks)]
  <2>1. a \in Counts
    BY <1>1, DelGood
  <2>2. Run(<<"DEL", ks, ds>>, a.t, Number(a.r)) /\ Waited(Ticks(ds))
    BY <1>2, Zenon DEF CmdDel, DelFrom, DelStep
  <2> HIDE DEF a
  <2>3. a.t \in Stores
    BY <2>1 DEF Counts
  <2> QED
    BY <2>2, <2>3, DelaysTyped, WaitedGood, Ran, Replies
<1>3. ASSUME NEW ks \in Lists(Keys), NEW ds \in Delays(ks), CmdMget(ks, ds)
      PROVE  StoreInv'
  <2> DEFINE a == MgetFrom(ht, ks, ds)[Len(ks)]
  <2>1. a \in Shares
    BY <1>1, MgetGood
  <2>2. Run(<<"MGET", ks, ds>>, a.t, Array(a.r)) /\ Waited(Ticks(ds))
    BY <1>3, Zenon DEF CmdMget, MgetFrom, MgetStep, Item
  <2> HIDE DEF a
  <2>3. a.t \in Stores
    BY <2>1 DEF Shares
  <2> QED
    BY <2>2, <2>3, DelaysTyped, WaitedGood, Ran, Replies
<1>4. ASSUME NEW kvs \in Lists(Keys \X Texts), CmdMset(kvs) PROVE StoreInv'
  <2> DEFINE t == MsetFrom(ht, kvs)[Len(kvs)]
  <2>1. t \in Stores
    BY <1>1, MsetGood
  <2>2. Run(<<"MSET", kvs>>, t, Ok) /\ since' = since
    BY <1>4, Zenon DEF CmdMset, MsetFrom, MsetStep
  <2> HIDE DEF t
  <2> QED
    BY <1>1, <2>1, <2>2, Ran, Replies
<1> QED
  BY <1>2, <1>3, <1>4 DEF ManyKeyCommand

LEMMA ListStep ==
  ASSUME EveryEntry, StoreInv, NEW k \in Keys, ListCommand(k)
  PROVE  StoreInv'
<1>1. ht \in Stores /\ since \in 0 .. SweepInterval
  BY DEF StoreInv
<1>2. ASSUME NEW side, CmdPop(side, k) PROVE StoreInv'
  <2> DEFINE a == DbPop(ht, k, side)
             r == IF a.r = NoVal THEN Nil ELSE Bulk(a.r)
  <2>1. a.t \in Stores
    BY <1>1, DbPopGood
  <2>2. Run(<<"POP", side, k>>, a.t, r) /\ since' = since
    BY <1>2 DEF CmdPop
  <2> HIDE DEF a
  <2>3. r[1] # "none"
    BY Replies
  <2> HIDE DEF r
  <2> QED
    BY <1>1, <2>1, <2>2, <2>3, Ran
<1>3. ASSUME NEW side, NEW xs \in Lists(Texts), NEW ds \in Delays(xs), CmdPush(side, k, xs, ds)
      PROVE  StoreInv'
  <2> DEFINE a == PushFrom(ht, side, k, xs, ds)[Len(xs)]
             r == IF a.r < 0 THEN WrongType ELSE Number(a.r)
  <2>1. a \in Counts
    BY <1>1, PushGood
  <2>2. Run(<<"PUSH", side, k, xs, ds>>, a.t, r) /\ Waited(Ticks(ds))
    BY <1>3, Zenon DEF CmdPush, PushFrom, PushStep
  <2> HIDE DEF a
  <2>3. a.t \in Stores
    BY <2>1 DEF Counts
  <2>4. r[1] # "none"
    BY Replies
  <2> HIDE DEF r
  <2> QED
    BY <2>2, <2>3, <2>4, DelaysTyped, WaitedGood, Ran
<1>4. ASSUME CmdLlen(k) PROVE StoreInv'
  <2> DEFINE a == DbLLen(ht, k)
             r == IF a.r < 0 THEN WrongType ELSE Number(a.r)
  <2>1. a.t \in Stores
    BY <1>1, DbLookGood
  <2>2. Run(<<"LLEN", k>>, a.t, r) /\ since' = since
    BY <1>4 DEF CmdLlen
  <2> HIDE DEF a
  <2>3. r[1] # "none"
    BY Replies
  <2> HIDE DEF r
  <2> QED
    BY <1>1, <2>1, <2>2, <2>3, Ran
<1>5. ASSUME NEW start, NEW stop, CmdLrange(k, start, stop) PROVE StoreInv'
  <2> DEFINE a == DbLRange(ht, k, start, stop)
  <2>1. a.t \in Stores
    BY <1>1, DbLookGood
  <2>2. Run(<<"LRANGE", k, start, stop>>, a.t, Array(a.r)) /\ since' = since
    BY <1>5 DEF CmdLrange
  <2> HIDE DEF a
  <2> QED
    BY <1>1, <2>1, <2>2, Ran, Replies
<1> QED
  BY <1>2, <1>3, <1>4, <1>5 DEF ListCommand

LEMMA ExpiryStep ==
  ASSUME EveryEntry, StoreInv, ExpiryCommand
  PROVE  StoreInv'
<1>1. ht \in Stores /\ since \in 0 .. SweepInterval
  BY DEF StoreInv
<1>2. ASSUME NEW k \in Keys, NEW d \in Nat, CmdTtl(k, d) PROVE StoreInv'
  <2> DEFINE a == DbTtl(ht, k, d)
  <2>1. a.t \in Stores
    BY <1>1, DbTtlGood
  <2>2. Run(<<"TTL", k, d>>, a.t, Number(a.r)) /\ Waited(d)
    BY <1>2 DEF CmdTtl
  <2> HIDE DEF a
  <2> QED
    BY <2>1, <2>2, WaitedGood, Ran, Replies
<1>3. ASSUME NEW k \in Keys, NEW s \in Int, NEW d \in Nat, CmdExpire(k, s, d)
      PROVE  StoreInv'
  <2> DEFINE a == DbExpire(ht, k, s, d)
  <2>1. a.t \in Stores
    BY <1>1, DbExpireGood
  <2>2. Run(<<"EXPIRE", k, s, d>>, a.t, Number(a.r)) /\ Waited(d)
    BY <1>3 DEF CmdExpire
  <2> HIDE DEF a
  <2> QED
    BY <2>1, <2>2, WaitedGood, Ran, Replies
<1>4. ASSUME NEW k \in Keys, CmdPersist(k) PROVE StoreInv'
  <2> DEFINE a == DbPersist(ht, k)
  <2>1. a.t \in Stores
    BY <1>1, DbPersistGood
  <2>2. Run(<<"PERSIST", k>>, a.t, Number(a.r)) /\ since' = since
    BY <1>4 DEF CmdPersist
  <2> HIDE DEF a
  <2> QED
    BY <1>1, <2>1, <2>2, Ran, Replies
<1>5. Seconds \subseteq Int /\ {0, 1} \subseteq Nat
  BY CommandsAssumption
<1> QED
  BY <1>2, <1>3, <1>4, <1>5 DEF ExpiryCommand

LEMMA ServerStep ==
  ASSUME EveryEntry, StoreInv, ServerCommand
  PROVE  StoreInv'
<1>1. ht \in Stores /\ since \in 0 .. SweepInterval /\ EmptyTable \in Stores
  BY EmptyGood DEF StoreInv, Stores
<1>2. CASE CmdDbsize
  BY <1>1, <1>2, Ran, Replies DEF CmdDbsize
<1>3. CASE CmdFlushdb
  BY <1>1, <1>3, Ran, Replies DEF CmdFlushdb
<1>4. CASE CmdRefused
  BY <1>1, <1>4, Ran, Replies DEF CmdRefused
<1> QED
  BY <1>2, <1>3, <1>4 DEF ServerCommand

LEMMA BackgroundStep ==
  ASSUME EveryEntry, StoreInv, Background
  PROVE  StoreInv'
<1>1. CASE Respond
  BY <1>1 DEF Respond, StoreInv
<1>2. CASE Tick
  <2>1. ht' \in Stores /\ ht'.cap = ht.cap
    BY <1>2, AgedGood DEF Tick, StoreInv
  <2>2. since' \in 0 .. SweepInterval
    BY <1>2, WaitedGood DEF Tick
  <2> QED
    BY <1>2, <2>1, <2>2 DEF Tick, StoreInv
<1>3. CASE Sweep
  <2>1. ht' \in Stores /\ ht'.cap \in Caps
    BY <1>3, SweepGood DEF Sweep, StoreInv
  <2> QED
    BY <1>3, <2>1, SweepAssumption DEF Sweep, StoreInv
<1> QED
  BY <1>1, <1>2, <1>3 DEF Background

LEMMA StoreInvariance ==
  ASSUME EveryEntry
  PROVE  Spec => []StoreInv
<1>1. StoreInv /\ [Next]_vars => StoreInv'
  <2>1. CASE UNCHANGED vars
    BY <2>1 DEF vars, StoreInv
  <2> QED
    BY <2>1, StringStep, ManyKeyStep, ListStep, ExpiryStep, ServerStep, BackgroundStep
       DEF Next
<1> QED
  BY <1>1, StoreInit, PTL DEF Spec

\* Whichever commands ran on whichever keys, and whatever the clock and the
\* sweep did in between: the table is well formed, its two counters are the
\* numbers of its entries and of its tombstones (what DBSIZE answers, and what
\* ht_set and ht_delete grow and shrink by), and a command in progress is
\* exactly one that has answered and not been sent.
THEOREM StoreStaysWellFormed ==
  ASSUME EveryEntry
  PROVE  Spec => []TypeOK
<1>1. StoreInv => TypeOK
  <2> SUFFICES ASSUME StoreInv PROVE TypeOK
    OBVIOUS
  <2>1. /\ ht.slots \in [0 .. ht.cap - 1 -> Slot] /\ ht \in Sound(ht.cap, Slot, Entries)
        /\ ht.cap \in Nat
    BY GoodFields DEF StoreInv, Stores
  <2>2. /\ ht.size = Cardinality(Occupied(ht.slots))
        /\ ht.tombs = Cardinality(Tombstones(ht.slots))
    BY <2>1, SoundFields
  <2> QED
    BY <2>1, <2>2 DEF StoreInv, TypeOK
<1> QED
  BY <1>1, StoreInvariance, PTL

\* db_lpop and db_rpop delete the key with the last element, and db_lpush and
\* db_rpush never leave the list they create without one: no key holds an
\* empty list, not even one that the table has lost to a collision.
THEOREM NoListIsEmpty ==
  ASSUME EveryEntry
  PROVE  Spec => []ListsAreNotEmpty
<1>1. StoreInv => ListsAreNotEmpty
  <2> SUFFICES ASSUME StoreInv, NEW s \in Occupied(ht.slots),
                      ht.slots[s].val.obj.type = "list"
               PROVE  ht.slots[s].val.obj.list # <<>>
    BY DEF ListsAreNotEmpty
  <2>1. /\ ht.slots \in [0 .. ht.cap - 1 -> Slot]
        /\ \A r \in 0 .. ht.cap - 1 : ht.slots[r].occ = 1 => ht.slots[r].val \in Entries
    BY GoodFields DEF StoreInv, Stores
  <2>2. ht.slots[s].val \in Entries
    BY <2>1 DEF Occupied
  <2> QED
    BY <2>2 DEF Entries, Proper
<1> QED
  BY <1>1, StoreInvariance, PTL
=============================================================================
