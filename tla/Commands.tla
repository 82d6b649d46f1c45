------------------------------- MODULE Commands -------------------------------
(***************************************************************************)
(* src/src/command.c on top of src/src/db.c: one action per command        *)
(* handler, run from the parsed request to the reply, as the single thread *)
(* of the event loop does; and what the loop does between commands: time   *)
(* passes and db_expire_sweep runs.                                        *)
(*                                                                         *)
(* SAVE and SHUTDOWN, which leave the database as it is, are in the module *)
(* Persist.  The clock runs while a command does: a command of several keys *)
(* or values reads it for each of them, the ticks ds later; EXPIRE and TTL  *)
(* read it twice, d ticks apart.  Ticks between two readings: 0 or 1 (BOUND).*)
(***************************************************************************)
EXTENDS DbOps

CONSTANTS
  Seconds,   \* the arguments of EXPIRE
  Indices,   \* the arguments of LRANGE
  MaxArgs,   \* keys or values a variadic command is given (BOUND)
  MaxLen     \* the length of a list (BOUND)

ASSUME CommandsAssumption ==
  /\ Seconds \subseteq Int /\ Indices \subseteq Int
  /\ MaxArgs \in Nat \ {0} /\ MaxLen \in Nat

VARIABLES
  ht,     \* db->ht
  since,  \* now - db->last_expire_sweep, up to SweepInterval
  req,    \* the command being answered
  reply   \* its reply buffer

vars == <<ht, since, req, reply>>

NoRequest == <<"none">>

Init ==
  /\ ht = EmptyTable
  /\ since = 0
  /\ req = NoRequest
  /\ reply = NoReply

-----------------------------------------------------------------------------
\* A handler leaves the table t and writes the reply a.
Run(cmd, t, a) ==
  /\ reply = NoReply
  /\ t.cap \in Caps          \* BOUND: memory
  /\ req' = cmd
  /\ ht' = t
  /\ reply' = a

Waited(d) ==
  since' = IF since + d > SweepInterval THEN SweepInterval ELSE since + d

\* Sequences of up to MaxArgs members of S.
Lists(S) == UNION {[1 .. n -> S] : n \in 1 .. MaxArgs}

\* The ticks that pass before each argument of q is served after the one before
\* it, and all of them.
Delays(q) == {ds \in [DOMAIN q -> {0, 1}] : ds[1] = 0}
Ticks(ds) == Cardinality({i \in DOMAIN ds : ds[i] = 1})

\* EX with a number that is not positive is ignored: ex = 0 stands for it.
CmdSet(k, x, ex) ==
  LET t == DbSet(ht, k, x)
  IN  /\ t.cap \in Caps        \* BOUND: memory
      /\ Run(<<"SET", k, x, ex>>,
             IF ex > 0 THEN DbExpire(t, k, ex, 0).t ELSE t, Ok)
      /\ UNCHANGED since

CmdGet(k) ==
  LET a == DbGet(ht, k)
  IN  /\ Run(<<"GET", k>>, a.t, IF a.r = NoVal THEN Nil ELSE Shown(a.r.obj))
      /\ UNCHANGED since

CmdDel(ks, ds) ==
  LET One(acc, k, d) == LET a == DbDel(AgedTable(acc.t, d), k)
                        IN  Answer(a.t, acc.r + a.r)
      del[n \in 0 .. Len(ks)] ==
        IF n = 0 THEN Answer(ht, 0) ELSE One(del[n - 1], ks[n], ds[n])
      a == del[Len(ks)]
  IN  /\ Run(<<"DEL", ks, ds>>, a.t, Number(a.r))
      /\ Waited(Ticks(ds))

CmdExists(k) ==
  LET a == DbExists(ht, k)
  IN  /\ Run(<<"EXISTS", k>>, a.t, Number(a.r))
      /\ UNCHANGED since

\* cmd_incr, cmd_decr: delta is 1 or -1.
CmdIncr(k, delta) ==
  LET a == DbIncr(ht, k, delta)
  IN  /\ Run(<<"INCR", k, delta>>, a.t,
             IF a.r = IntMin THEN NotInteger ELSE Number(a.r))
      /\ UNCHANGED since

CmdMset(kvs) ==
  LET set[n \in 0 .. Len(kvs)] ==
        IF n = 0 THEN ht ELSE DbSet(set[n - 1], kvs[n][1], kvs[n][2])
  IN  /\ Run(<<"MSET", kvs>>, set[Len(kvs)], Ok)
      /\ UNCHANGED since

\* A list is shown as nil here.
CmdMget(ks, ds) ==
  LET Item(e) == IF e = NoVal THEN Nil
                   ELSE IF e.obj.type = "list" THEN Nil ELSE Shown(e.obj)
      One(acc, k, d) == LET a == DbGet(AgedTable(acc.t, d), k)
                        IN  Answer(a.t, Append(acc.r, Item(a.r)))
      get[n \in 0 .. Len(ks)] ==
        IF n = 0 THEN Answer(ht, <<>>) ELSE One(get[n - 1], ks[n], ds[n])
      a == get[Len(ks)]
  IN  /\ Run(<<"MGET", ks, ds>>, a.t, Array(a.r))
      /\ Waited(Ticks(ds))

-----------------------------------------------------------------------------
\* cmd_lpush, cmd_rpush: one value after the other, until one fails.
CmdPush(side, k, xs, ds) ==
  LET One(acc, x, d) == LET t == AgedTable(acc.t, d)
                        IN  IF acc.r < 0 THEN Answer(t, acc.r)
                              ELSE DbPush(t, k, side, x)
      push[n \in 0 .. Len(xs)] ==
        IF n = 0 THEN Answer(ht, 0) ELSE One(push[n - 1], xs[n], ds[n])
      a == push[Len(xs)]
  IN  /\ a.r <= MaxLen                                        \* BOUND
      /\ \A n \in DOMAIN xs : push[n].t.cap \in Caps          \* BOUND: memory
      /\ Run(<<"PUSH", side, k, xs, ds>>, a.t,
             IF a.r < 0 THEN WrongType ELSE Number(a.r))
      /\ Waited(Ticks(ds))

CmdPop(side, k) ==
  LET a == DbPop(ht, k, side)
  IN  /\ Run(<<"POP", side, k>>, a.t, IF a.r = NoVal THEN Nil ELSE Bulk(a.r))
      /\ UNCHANGED since

CmdLlen(k) ==
  LET a == DbLLen(ht, k)
  IN  /\ Run(<<"LLEN", k>>, a.t, IF a.r < 0 THEN WrongType ELSE Number(a.r))
      /\ UNCHANGED since

CmdLrange(k, start, stop) ==
  LET a == DbLRange(ht, k, start, stop)
  IN  /\ Run(<<"LRANGE", k, start, stop>>, a.t, Array(a.r))
      /\ UNCHANGED since

-----------------------------------------------------------------------------
CmdExpire(k, secs, d) ==
  LET a == DbExpire(ht, k, secs, d)
  IN  Run(<<"EXPIRE", k, secs, d>>, a.t, Number(a.r)) /\ Waited(d)

CmdTtl(k, d) ==
  LET a == DbTtl(ht, k, d)
  IN  Run(<<"TTL", k, d>>, a.t, Number(a.r)) /\ Waited(d)

CmdPersist(k) ==
  LET a == DbPersist(ht, k)
  IN  /\ Run(<<"PERSIST", k>>, a.t, Number(a.r))
      /\ UNCHANGED since

\* cmd_dbsize; cmd_info shows the same number.
CmdDbsize  == Run(<<"DBSIZE">>, ht, Number(ht.size)) /\ UNCHANGED since

CmdFlushdb == Run(<<"FLUSHDB">>, EmptyTable, Ok) /\ UNCHANGED since

\* A command without a name, of an unknown name, or with too few arguments.
CmdRefused == Run(<<"?">>, ht, BadRequest) /\ UNCHANGED since

-----------------------------------------------------------------------------
\* The reply is handed to client_queue_write.
Respond ==
  /\ reply # NoReply
  /\ req' = NoRequest
  /\ reply' = NoReply
  /\ UNCHANGED <<ht, since>>

Tick ==
  /\ reply = NoReply
  /\ ht' = AgedTable(ht, 1)
  /\ Waited(1)
  /\ UNCHANGED <<req, reply>>

\* db_expire_sweep, when the last one is long enough ago.
SweepIsDue == reply = NoReply /\ since >= SweepInterval

Sweep ==
  /\ SweepIsDue
  /\ since' = 0
  /\ ht' = DbSweep(ht)
  /\ UNCHANGED <<req, reply>>

StringCommand ==
  \E k \in Keys :
    \/ \E x \in Texts, ex \in {s \in Seconds : s > 0} \cup {0} : CmdSet(k, x, ex)
    \/ CmdGet(k) \/ CmdExists(k)
    \/ CmdIncr(k, 1) \/ CmdIncr(k, -1)

ManyKeyCommand ==
  \/ \E ks \in Lists(Keys) :
       \E ds \in Delays(ks) : CmdDel(ks, ds) \/ CmdMget(ks, ds)
  \/ \E kvs \in Lists(Keys \X Texts) : CmdMset(kvs)

ListCommand(k) ==
  \/ \E side \in {"L", "R"} :
       \/ CmdPop(side, k)
       \/ \E xs \in Lists(Texts) : \E ds \in Delays(xs) : CmdPush(side, k, xs, ds)
  \/ CmdLlen(k)
  \/ \E start, stop \in Indices : CmdLrange(k, start, stop)

ExpiryCommand ==
  \E k \in Keys :
    \/ \E d \in {0, 1} : CmdTtl(k, d) \/ \E s \in Seconds : CmdExpire(k, s, d)
    \/ CmdPersist(k)

ServerCommand == CmdDbsize \/ CmdFlushdb \/ CmdRefused

Background == Respond \/ Tick \/ Sweep

Next ==
  \/ StringCommand \/ ManyKeyCommand \/ ExpiryCommand
  \/ \E k \in Keys : ListCommand(k)
  \/ ServerCommand \/ Background

Spec == Init /\ [][Next]_vars
-----------------------------------------------------------------------------
TypeOK ==
  /\ ht.cap \in Caps
  /\ ht.slots \in [0 .. ht.cap - 1 -> Slot]
  /\ ht.size = Cardinality(Occupied(ht.slots))
  /\ ht.tombs = Cardinality(Tombstones(ht.slots))
  /\ since \in 0 .. SweepInterval
  /\ (req = NoRequest) = (reply = NoReply)

\* A list leaves the keyspace with its last element: no command finds an
\* empty list under a key (db_lpop and db_rpop would answer nil for it, and
\* EXISTS and DBSIZE would count it).
ListsAreNotEmpty ==
  \A s \in Occupied(ht.slots) :
    LET o == ht.slots[s].val.obj IN o.type = "list" => o.list # <<>>

\* What a client can see through the commands: the entries not yet expired.
Visible ==
  [k \in Keys |-> IF WasExpired(ht, k) THEN NoVal ELSE HtGet(ht, k)]

AsStore == INSTANCE KeyStore WITH store <- Visible

\* INCR or DECR takes a counter past the end of the integers, or to INT64_MIN,
\* which db_incr answers an error with: the value changes all the same.
CounterDeparts ==
  \E k \in Keys, delta \in {1, -1} :
    /\ Visible[k] # NoVal /\ Visible[k].obj.type = "int"
    /\ Visible[k].obj.num + delta \notin IntMin + 1 .. IntMax
    /\ AsStore!Serve(<<"INCR", k, delta>>,
         [Visible EXCEPT ![k].obj.num = Wrap(@ + delta)],
         LET n == Wrap(Visible[k].obj.num + delta)
         IN  IF n = IntMin THEN NotInteger ELSE Number(n))

\* EXPIRE to a time before the epoch takes the timeout away.
DeadlineDeparts ==
  \E k \in Keys, secs \in Seconds, d \in {0, 1} :
    /\ Visible[k] # NoVal
    /\ Deadline(secs) = NoExpiry
    /\ AsStore!Serve(<<"EXPIRE", k, secs, d>>,
         [AsStore!Elapse(Visible, d) EXCEPT
            ![k] = DbEntry(Visible[k].obj, NoExpiry)], Number(1))

\* A list expires after the first n values of a command have gone to it: the
\* others go to a new list, which has no timeout.
PushDeparts ==
  \E k \in Keys, side \in {"L", "R"}, xs \in Lists(Texts) :
    \E ds \in Delays(xs), n \in 1 .. Len(xs) - 1 :
      LET then(i) == AsStore!Elapse(Visible, AsStore!Passed(ds, i))
          q == SubSeq(xs, n + 1, Len(xs))
      IN  /\ then(n)[k] # NoVal /\ then(n)[k].obj.type = "list"
          /\ then(n + 1)[k] = NoVal
          /\ AsStore!Serve(<<"PUSH", side, k, xs, ds>>,
               [then(Len(xs)) EXCEPT
                  ![k] = DbEntry(ListObj(IF side = "L" THEN AsStore!Reversed(q)
                                           ELSE q), NoExpiry)],
               Number(Len(q)))

\* Whatever the table looks like inside, whenever expired entries are deleted
\* (on access, by the sweep, never) and whenever the deadline comes within a
\* command, every command acts on, and answers from, the store README.md
\* describes; but for three departures, and those do just what they say.
ServesStore ==
  /\ AsStore!Init
  /\ [][AsStore!Next \/ CounterDeparts \/ DeadlineDeparts \/ PushDeparts
       ]_<<Visible, req, reply>>

\* The walk of the sweep has used up its samples before it comes to k.
Starved(k) ==
  SweepSamples <= Cardinality({s \in Occupied(ht.slots) :
    s < HtFind(ht, k) /\ ~Expired(ht.slots[s].val)})

\* "lazy + periodic sweep" (README.md:9): an entry past its deadline leaves the
\* table also when nobody asks for its key, unless enough living entries stand
\* before it for the walk, which always starts at slot 0, never to reach it.
ExpiredIsSwept ==
  \A k \in Keys : WasExpired(ht, k) ~> ~WasExpired(ht, k) \/ Starved(k)

\* server_run answers each command and calls db_expire_sweep on every turn of
\* its loop, and the clock never stops; commands may come or not.  The last
\* conjunct is SF_vars(Sweep): a due sweep always changes `since`.
Fairness ==
  /\ WF_vars(Respond) /\ SF_vars(Tick)
  /\ []<>SweepIsDue => []<><<Sweep>>_vars
=============================================================================
