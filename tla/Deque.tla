--------------------------------- MODULE Deque ---------------------------------
(* What src/src/list.h promises: a sequence that is changed at its ends and  *)
(* read in part.  A call takes effect when it returns.                       *)
EXTENDS Integers, Sequences

CONSTANTS Values, Null, Indices

VARIABLES
  list,   \* the sequence
  res     \* the last call: its name, its arguments and what it returned

Init == list = <<>> /\ res = <<"none">>

\* The numbers of S, of which there are at most so many, from small to large.
InOrder(S, most) ==
  CHOOSE o \in UNION {[1 .. k -> S] : k \in 0 .. most} :
    /\ \A x, y \in DOMAIN o : x < y => o[x] < o[y]
    /\ \A j \in S : \E x \in DOMAIN o : o[x] = j

\* The elements from index start to index stop.  A negative index counts from
\* the end: -1 is the last.
Between(start, stop) ==
  LET Index(j, x) == IF x < 0 THEN j - 1 - Len(list) ELSE j - 1
      chosen == {j \in DOMAIN list : Index(j, start) >= start /\ Index(j, stop) <= stop}
      order  == InOrder(chosen, Len(list))
  IN  [k \in DOMAIN order |-> list[order[k]]]

Push(side, v) ==
  /\ res' = <<"push", side, v>>
  /\ list' = IF side = "head" THEN <<v>> \o list ELSE Append(list, v)

Pop(side) ==
  LET v == IF list = <<>> THEN Null
             ELSE IF side = "head" THEN Head(list) ELSE list[Len(list)]
  IN  /\ res' = <<"pop", side, v>>
      /\ list' = IF list = <<>> THEN list
                   ELSE IF side = "head" THEN Tail(list) ELSE SubSeq(list, 1, Len(list) - 1)

Read(start, stop) ==
  /\ res' = <<"range", start, stop, Between(start, stop)>>
  /\ UNCHANGED list

Destroy == list' = <<>> /\ res' = <<"destroy">>

\* The call that res' names.
Call(r) ==
  CASE r[1] = "push"    -> r[3] \in Values /\ Push(r[2], r[3])
    [] r[1] = "pop"     -> Pop(r[2])
    [] r[1] = "range"   -> {r[2], r[3]} \subseteq Indices /\ Read(r[2], r[3])
    [] r[1] = "destroy" -> Destroy
    [] OTHER            -> FALSE

Spec == Init /\ [][Call(res')]_<<list, res>>
=============================================================================
