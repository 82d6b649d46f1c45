-------------------------------- MODULE DbOps --------------------------------
(***************************************************************************)
(* src/src/db.c: every function of the storage engine as an operator on    *)
(* the hash table (whose values are the entries themselves, see Objects).  *)
(* Those that answer something return [t |-> table, r |-> answer].         *)
(***************************************************************************)
EXTENDS HashTableOps, Objects

CONSTANTS
  SweepInterval,  \* EXPIRE_SWEEP_INTERVAL, in ticks (100 ms in the code)
  SweepSamples    \* EXPIRE_SWEEP_SAMPLES (20 in the code)

ASSUME SweepAssumption == SweepInterval \in Nat \ {0} /\ SweepSamples \in Nat \ {0}

Answer(t, r) == [t |-> t, r |-> r]

\* Writing through the entry pointer ht_get returned.
Rewrite(t, k, e) == [t EXCEPT !.slots[HtFind(t, k)].val = e]

\* Time passes for every entry.
AgedSlots(a, d) ==
  [s \in DOMAIN a |->
     IF a[s].occ = 1 THEN [a[s] EXCEPT !.val = Aged(@, d)] ELSE a[s]]

AgedTable(t, d) == [t EXCEPT !.slots = AgedSlots(@, d)]

-----------------------------------------------------------------------------
WasExpired(t, k) == HtExists(t, k) /\ Expired(HtGet(t, k))

\* check_expired: the table without the key, should it have expired.
CheckExpired(t, k) == IF WasExpired(t, k) THEN HtDelete(t, k) ELSE t

\* db_get_entry, db_get: the entry, or NoVal.
DbGet(t, k) ==
  Answer(CheckExpired(t, k), IF WasExpired(t, k) THEN NoVal ELSE HtGet(t, k))

DbSet(t, k, x) == HtSet(t, k, DbEntry(ObjOf(x), NoExpiry))

DbDel(t, k) ==
  LET u == CheckExpired(t, k)
  IN  Answer(HtDelete(u, k), IF HtExists(u, k) THEN 1 ELSE 0)

DbExists(t, k) ==
  Answer(CheckExpired(t, k),
         IF ~WasExpired(t, k) /\ HtExists(t, k) THEN 1 ELSE 0)

\* db_incr: a missing key counts from 0.  A stored string is never an integer
\* (db_set would have parsed it), so its branch always fails.
DbIncr(t, k, delta) ==
  LET u == CheckExpired(t, k)
      e == HtGet(u, k)
  IN  CASE WasExpired(t, k) \/ ~HtExists(u, k) ->
             Answer(HtSet(u, k, DbEntry(IntObj(delta), NoExpiry)), delta)
        [] OTHER ->
             IF e.obj.type = "int"
               THEN LET n == Wrap(e.obj.num + delta)
                    IN  Answer(Rewrite(u, k, [e EXCEPT !.obj.num = n]), n)
               ELSE Answer(u, IntMin)

-----------------------------------------------------------------------------
\* db_lpush, db_rpush with get_or_create_list: the new length, or -1 for a value
\* of another type.  A new list is filled through the pointer that was stored.
DbPush(t, k, side, x) ==
  LET u == CheckExpired(t, k)
      e == HtGet(u, k)
  IN  CASE ~HtExists(u, k) ->
             Answer(HtSet(u, k, DbEntry(ListObj(Pushed(<<>>, side, x)), NoExpiry)), 1)
        [] OTHER ->
             IF e.obj.type # "list" THEN Answer(u, -1)
               ELSE Answer(Rewrite(u, k, [e EXCEPT !.obj.list = Pushed(@, side, x)]),
                           Len(e.obj.list) + 1)

IsList(t, k) == HtExists(t, k) /\ HtGet(t, k).obj.type = "list"

\* Fault: a list that was popped empty stays in the table.
DbPopKeeping(t, k, side) ==
  LET u == CheckExpired(t, k)
      q == HtGet(u, k).obj.list
  IN  IF WasExpired(t, k) \/ ~IsList(u, k) THEN Answer(u, NoVal)
        ELSE Answer(Rewrite(u, k, [HtGet(u, k) EXCEPT !.obj.list = Popped(q, side)]),
                    End(q, side))

\* db_lpop, db_rpop: an emptied list is deleted with its key.
DbPop(t, k, side) ==
  LET u == CheckExpired(t, k)
      q == HtGet(u, k).obj.list
  IN  IF WasExpired(t, k) \/ ~IsList(u, k) THEN Answer(u, NoVal)
        ELSE Answer(
               IF Len(q) = 1 THEN HtDelete(u, k)
                 ELSE Rewrite(u, k, [HtGet(u, k) EXCEPT
                                       !.obj.list = Popped(q, side)]),
               End(q, side))

DbLLen(t, k) ==
  LET u == CheckExpired(t, k)
  IN  Answer(u, CASE WasExpired(t, k) \/ ~HtExists(u, k) -> 0
                  [] OTHER -> IF IsList(u, k) THEN Len(HtGet(u, k).obj.list)
                                ELSE -1)

DbLRange(t, k, start, stop) ==
  LET u == CheckExpired(t, k)
  IN  Answer(u, IF WasExpired(t, k) \/ ~IsList(u, k) THEN <<>>
                  ELSE ListRange(HtGet(u, k).obj.list, start, stop))

-----------------------------------------------------------------------------
\* db_expire, db_ttl: the clock is read again, d ticks after check_expired.
DbExpire(t, k, seconds, d) ==
  LET u == AgedTable(CheckExpired(t, k), d)
  IN  IF WasExpired(t, k) \/ ~HtExists(u, k) THEN Answer(u, 0)
        ELSE Answer(Rewrite(u, k, [HtGet(u, k) EXCEPT
                                     !.left = Deadline(seconds)]), 1)

\* Fault: the remaining time is not cut off at zero.
DbTtlUncut(t, k, d) ==
  LET u == CheckExpired(t, k)
      e == HtGet(u, k)
  IN  Answer(AgedTable(u, d),
        CASE WasExpired(t, k) \/ ~HtExists(u, k) -> -2
          [] OTHER -> IF e.left = NoExpiry THEN -1 ELSE e.left - d)

DbTtl(t, k, d) ==
  LET u == CheckExpired(t, k)
      e == HtGet(u, k)
  IN  Answer(AgedTable(u, d),
        CASE WasExpired(t, k) \/ ~HtExists(u, k) -> -2
          [] OTHER -> CASE e.left = NoExpiry -> -1
                        [] e.left # NoExpiry ->
                             IF e.left >= d THEN (e.left - d) \div Second ELSE 0)

DbPersist(t, k) ==
  LET u == CheckExpired(t, k)
      e == HtGet(u, k)
  IN  IF WasExpired(t, k) \/ ~HtExists(u, k) \/ e.left = NoExpiry
        THEN Answer(u, 0)
        ELSE Answer(Rewrite(u, k, [e EXCEPT !.left = NoExpiry]), 1)

-----------------------------------------------------------------------------
Overdue(t) == {s \in Occupied(t.slots) : Expired(t.slots[s].val)}

\* One round of the loop of db_expire_sweep, with p.left entries still to look
\* at.  The walk comes to the first expired entry past the living ones before
\* it; a deletion starts it over, and does not give the samples back.
Round(p) ==
  LET first == CHOOSE s \in Overdue(p.t) : \A r \in Overdue(p.t) : s <= r
      looked == Cardinality({s \in Occupied(p.t.slots) : s <= first})
  IN  IF Overdue(p.t) # {} /\ looked <= p.left
        THEN [t |-> HtDelete(p.t, p.t.slots[first].key), left |-> p.left - looked]
        ELSE p

\* Fault: the comparison is the wrong way round.
DbSweepLiving(t) ==
  LET living == {s \in Occupied(t.slots) : ~Expired(t.slots[s].val)}
  IN  IF living = {} THEN t
        ELSE HtDelete(t, t.slots[CHOOSE s \in living : TRUE].key)

\* Every round costs a sample.
DbSweep(t) ==
  LET after[n \in 0 .. SweepSamples] ==
        IF n = 0 THEN [t |-> t, left |-> SweepSamples] ELSE Round(after[n - 1])
  IN  after[SweepSamples].t
=============================================================================
