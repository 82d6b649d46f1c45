------------------------------- MODULE KeyStore -------------------------------
(***************************************************************************)
(* What the commands of src/README.md promise: a store in which a key has  *)
(* a value until it is deleted or its deadline has passed, and a reply     *)
(* that depends on nothing else.  A key past its deadline is gone at once: *)
(* there is no lazy deletion, no sweep and no table.  A command takes       *)
(* effect at one moment between its request and its reply, and one of      *)
(* several keys for each key at a moment of its own, in their order.        *)
(***************************************************************************)
EXTENDS Objects, FiniteSets

CONSTANTS Keys, NoVal

VARIABLES
  store,   \* the entry of every key, NoVal for a key that is not there
  req, reply

svars == <<store, req, reply>>

Live(k) == store[k] # NoVal
Holds(k, type) == Live(k) /\ store[k].obj.type = type

\* The ticks that have passed when argument i is served.
Passed(ds, i) == Cardinality({j \in 1 .. i : ds[j] = 1})

\* d ticks later.
Elapse(st, d) ==
  [k \in Keys |->
     IF st[k] = NoVal \/ Expired(Aged(st[k], d)) THEN NoVal ELSE Aged(st[k], d)]

Stored(k, o, l) == [store EXCEPT ![k] = DbEntry(o, l)]
Gone(K) == [k \in Keys |-> IF k \in K THEN NoVal ELSE store[k]]

Init ==
  /\ store = [k \in Keys |-> NoVal]
  /\ req = <<"none">>
  /\ reply = NoReply

Serve(cmd, st, a) ==
  /\ reply = NoReply
  /\ req' = cmd
  /\ store' = st
  /\ reply' = a

Look(cmd, a) == Serve(cmd, store, a)

-----------------------------------------------------------------------------
Set(k, x, ex) ==
  Serve(<<"SET", k, x, ex>>,
        Stored(k, ObjOf(x), IF ex > 0 THEN ex * Second ELSE NoExpiry), Ok)

Get(k) == Look(<<"GET", k>>, IF Live(k) THEN Shown(store[k].obj) ELSE Nil)

Named(q) == {q[i] : i \in DOMAIN q}

\* Each key is counted that is there when its turn comes.
Del(ks, ds) ==
  LET there == {k \in Named(ks) : \E i \in DOMAIN ks :
                  ks[i] = k /\ Elapse(store, Passed(ds, i))[k] # NoVal}
  IN  Serve(<<"DEL", ks, ds>>, Elapse(Gone(Named(ks)), Passed(ds, Len(ks))),
            Number(Cardinality(there)))

Exists(k) == Look(<<"EXISTS", k>>, Number(IF Live(k) THEN 1 ELSE 0))

\* A value that is not an integer, or would not be one, stays as it is.
Incr(k, delta) ==
  LET n == IF Live(k) THEN store[k].obj.num + delta ELSE delta
  IN  IF Live(k) /\ (~Holds(k, "int") \/ n \notin IntMin .. IntMax)
        THEN Look(<<"INCR", k, delta>>, NotInteger)
        ELSE Serve(<<"INCR", k, delta>>,
                   Stored(k, IntObj(n), IF Live(k) THEN store[k].left
                                          ELSE NoExpiry),
                   Number(n))

\* The last value given for a key counts.
Mset(kvs) ==
  Serve(<<"MSET", kvs>>,
        [k \in Keys |->
           LET at == {i \in DOMAIN kvs : kvs[i][1] = k}
           IN  IF at = {} THEN store[k]
                 ELSE DbEntry(ObjOf(kvs[CHOOSE i \in at : \A j \in at : j <= i][2]),
                              NoExpiry)],
        Ok)

Mget(ks, ds) ==
  LET then(i) == Elapse(store, Passed(ds, i))[ks[i]]
  IN  Serve(<<"MGET", ks, ds>>, Elapse(store, Passed(ds, Len(ks))),
            Array([i \in DOMAIN ks |->
                     IF then(i) = NoVal \/ Holds(ks[i], "list") THEN Nil
                       ELSE Shown(then(i).obj)]))

-----------------------------------------------------------------------------
ListAt(k) == IF Live(k) THEN store[k].obj.list ELSE <<>>
LeftAt(k) == IF Live(k) THEN store[k].left ELSE NoExpiry

Reversed(q) == [i \in DOMAIN q |-> q[Len(q) + 1 - i]]

\* LPUSH puts the values in one by one: the last one given comes first.  They
\* all go to the list there is at one moment of the command, m ticks after its
\* beginning.
Push(side, k, xs, ds) ==
  \E m \in {Passed(ds, i) : i \in DOMAIN ds} :
    LET e == Elapse(store, m)[k]
        old == IF e = NoVal THEN DbEntry(ListObj(<<>>), NoExpiry) ELSE e
        q == IF side = "L" THEN Reversed(xs) \o old.obj.list ELSE old.obj.list \o xs
        new == [Elapse(store, m) EXCEPT ![k] = DbEntry(ListObj(q), old.left)]
    IN  IF old.obj.type = "list"
          THEN Serve(<<"PUSH", side, k, xs, ds>>,
                     Elapse(new, Passed(ds, Len(ds)) - m), Number(Len(q)))
          ELSE Serve(<<"PUSH", side, k, xs, ds>>,
                     Elapse(store, Passed(ds, Len(ds))), WrongType)

\* A list is gone with its last element; another type reads as no list.
Pop(side, k) ==
  LET q == ListAt(k)
      cut == IF side = "L" THEN SubSeq(q, 2, Len(q)) ELSE SubSeq(q, 1, Len(q) - 1)
  IN  IF ~Holds(k, "list")
        THEN Look(<<"POP", side, k>>, Nil)
        ELSE Serve(<<"POP", side, k>>,
                   IF Len(q) > 1 THEN Stored(k, ListObj(cut), LeftAt(k))
                     ELSE Gone({k}),
                   Bulk(IF side = "L" THEN q[1] ELSE q[Len(q)]))

Llen(k) ==
  Look(<<"LLEN", k>>,
       IF Live(k) /\ ~Holds(k, "list") THEN WrongType
         ELSE Number(Len(ListAt(k))))

\* The elements at positions start .. stop, counted from 0, or from the end
\* when negative.
Slice(q, start, stop) ==
  LET at(i) == IF i < 0 THEN Len(q) + i ELSE i
      wanted == {p \in 0 .. Len(q) - 1 : at(start) <= p /\ p <= at(stop)}
  IN  [n \in 1 .. Cardinality(wanted) |->
         q[1 + CHOOSE p \in wanted :
                 Cardinality({r \in wanted : r < p}) = n - 1]]

Lrange(k, start, stop) ==
  Look(<<"LRANGE", k, start, stop>>,
       Array(IF Holds(k, "list") THEN Slice(store[k].obj.list, start, stop)
               ELSE <<>>))

-----------------------------------------------------------------------------
\* d ticks pass while the command runs: a key that was there when it began
\* gets its new deadline, and is gone if that has passed.
Expire(k, secs, d) ==
  Serve(<<"EXPIRE", k, secs, d>>,
        Elapse([Elapse(store, d) EXCEPT
                  ![k] = IF Live(k) THEN DbEntry(store[k].obj, secs * Second)
                           ELSE NoVal], 0),
        Number(IF Live(k) THEN 1 ELSE 0))

\* Whole seconds left, never negative; -1 without a deadline, -2 without key.
Ttl(k, d) ==
  Serve(<<"TTL", k, d>>, Elapse(store, d),
        Number(CASE ~Live(k) -> -2
                 [] Live(k) /\ LeftAt(k) = NoExpiry -> -1
                 [] Live(k) /\ LeftAt(k) # NoExpiry ->
                      IF LeftAt(k) < d THEN 0 ELSE (LeftAt(k) - d) \div Second))

Persist(k) ==
  IF Live(k) /\ store[k].left # NoExpiry
    THEN Serve(<<"PERSIST", k>>, Stored(k, store[k].obj, NoExpiry), Number(1))
    ELSE Look(<<"PERSIST", k>>, Number(0))

\* Keys past their deadline may still be counted.
Dbsize ==
  \E n \in Cardinality({k \in Keys : Live(k)}) .. Cardinality(Keys) :
    Look(<<"DBSIZE">>, Number(n))

Flushdb == Serve(<<"FLUSHDB">>, Gone(Keys), Ok)
Refused == Look(<<"?">>, BadRequest)

Respond == req' = <<"none">> /\ reply' = NoReply /\ UNCHANGED store
Tick    == store' = Elapse(store, 1) /\ UNCHANGED <<req, reply>>

-----------------------------------------------------------------------------
\* The command of a request, with the arguments it carries.
Command(r) ==
  CASE r[1] = "SET"     -> Set(r[2], r[3], r[4])
    [] r[1] = "GET"     -> Get(r[2])
    [] r[1] = "DEL"     -> Del(r[2], r[3])
    [] r[1] = "EXISTS"  -> Exists(r[2])
    [] r[1] = "INCR"    -> Incr(r[2], r[3])
    [] r[1] = "MSET"    -> Mset(r[2])
    [] r[1] = "MGET"    -> Mget(r[2], r[3])
    [] r[1] = "PUSH"    -> Push(r[2], r[3], r[4], r[5])
    [] r[1] = "POP"     -> Pop(r[2], r[3])
    [] r[1] = "LLEN"    -> Llen(r[2])
    [] r[1] = "LRANGE"  -> Lrange(r[2], r[3], r[4])
    [] r[1] = "EXPIRE"  -> Expire(r[2], r[3], r[4])
    [] r[1] = "TTL"     -> Ttl(r[2], r[3])
    [] r[1] = "PERSIST" -> Persist(r[2])
    [] r[1] = "DBSIZE"  -> Dbsize
    [] r[1] = "FLUSHDB" -> Flushdb
    [] OTHER            -> Refused

\* req' is the request that is served.
Next == Respond \/ Tick \/ (req' # <<"none">> /\ Command(req'))

Spec == Init /\ [][Next]_svars
=============================================================================
