------------------------------- MODULE Objects -------------------------------
(***************************************************************************)
(* The values of the database: src/src/object.c, the part of               *)
(* src/src/list.c its callers see (a list is a sequence here), the wire    *)
(* replies of src/src/resp.c, and deadlines.                               *)
(*                                                                         *)
(* Time is counted in clock ticks.  The code stores the absolute deadline  *)
(* entry->expire and compares it with imdb_mstime(); only the difference   *)
(* matters, so an entry carries `left`, its deadline minus the present     *)
(* time, and the passing of time lowers it.  NoExpiry stands for the       *)
(* negative value that means "no expiry".                                  *)
(***************************************************************************)
EXTENDS Integers, Sequences

CONSTANTS
  Texts,           \* argument strings of SET and MSET
  ParseInt,        \* strtoll, defined on the texts it accepts entirely
  IntMin, IntMax,  \* INT64_MIN, INT64_MAX
  Second,          \* clock ticks per second (1000 ms in the code)
  Age,             \* clock ticks since the epoch, as far as it matters
  NoExpiry         \* a negative expire

ASSUME ObjectAssumption ==
  /\ IntMin \in Int /\ IntMax \in Int /\ IntMin < 0 /\ IntMax > 0
  /\ DOMAIN ParseInt \subseteq Texts
  /\ \A x \in DOMAIN ParseInt : ParseInt[x] \in IntMin .. IntMax
  /\ Second \in Nat \ {0} /\ Age \in Nat
  /\ NoExpiry \notin Int

-----------------------------------------------------------------------------
IntObj(n)  == [type |-> "int", num |-> n]
StrObj(x)  == [type |-> "str", str |-> x]
ListObj(q) == [type |-> "list", list |-> q]

\* db_set stores an integer when obj_try_parse_int accepts the text.
ObjOf(x) == IF x \in DOMAIN ParseInt THEN IntObj(ParseInt[x]) ELSE StrObj(x)

\* Addition of int64_t, as compiled.
Wrap(n) == ((n - IntMin) % ((IntMax - IntMin) + 1)) + IntMin

\* A db_entry_t.
DbEntry(o, l) == [obj |-> o, left |-> l]

Expired(e) == e.left # NoExpiry /\ e.left < 0

\* imdb_mstime() + seconds * 1000.  A time in the past needs no distance; one
\* before the epoch is negative, which the code takes for "no expiry".
Deadline(seconds) ==
  IF seconds * Second < -Age
    THEN NoExpiry
    ELSE IF seconds < 0 THEN -1 ELSE seconds * Second

\* The same entry d ticks later.
Aged(e, d) ==
  IF e.left = NoExpiry \/ e.left - d < -1
    THEN [e EXCEPT !.left = IF @ = NoExpiry THEN @ ELSE -1]
    ELSE [e EXCEPT !.left = @ - d]

-----------------------------------------------------------------------------
(* list.c                                                                  *)
Pushed(q, side, x) == IF side = "L" THEN <<x>> \o q ELSE Append(q, x)
End(q, side)       == IF side = "L" THEN Head(q) ELSE q[Len(q)]
Popped(q, side)    == IF side = "L" THEN Tail(q) ELSE SubSeq(q, 1, Len(q) - 1)

\* Fault: the last index is exclusive.
ListRangeOpen(q, start, stop) ==
  LET from == IF start < 0 THEN Len(q) + start ELSE start
      to   == IF stop < 0 THEN Len(q) + stop ELSE stop
  IN  SubSeq(q, (IF from < 0 THEN 0 ELSE from) + 1, to)

\* list_range: negative indices count from the end, the result is clipped.
ListRange(q, start, stop) ==
  LET len  == Len(q)
      from == IF start < 0 THEN len + start ELSE start
      to   == IF stop < 0 THEN len + stop ELSE stop
      a    == IF from < 0 THEN 0 ELSE from
      b    == IF to >= len THEN len - 1 ELSE to
  IN  IF a > b \/ a >= len THEN <<>> ELSE SubSeq(q, a + 1, b + 1)

-----------------------------------------------------------------------------
(* Replies                                                                 *)
NoReply     == <<"none">>
Ok          == <<"ok">>
Nil         == <<"nil">>
Number(n)   == <<"int", n>>
Bulk(x)     == <<"bulk", x>>
Array(q)    == <<"array", q>>
WrongType   == <<"error", "WRONGTYPE">>
NotInteger  == <<"error", "not an integer or out of range">>
BadRequest  == <<"error", "bad request">>

Decimal(n)  == <<"decimal", n>>   \* the bulk string that prints n

\* What GET replies for a value.
Shown(o) ==
  CASE o.type = "int"  -> Decimal(o.num)
    [] o.type = "str"  -> Bulk(o.str)
    [] o.type = "list" -> WrongType
=============================================================================
