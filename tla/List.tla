---------------------------------- MODULE List ----------------------------------
(***************************************************************************)
(* src/src/list.c: a doubly linked list in memory, one step for every      *)
(* statement that writes to it.  A signal is delivered between two         *)
(* statements, and its handler saves the database: it walks every list     *)
(* from its head (persist.c).                                              *)
(*                                                                         *)
(* The calls for the two ends are mirror images and are written once, for  *)
(* a side: Inner is the link that leads from an end into the list.         *)
(***************************************************************************)
EXTENDS Integers, Sequences, FiniteSets, SequencesExt

CONSTANTS
  Nodes,    \* addresses for nodes; BOUND: the longest list
  Null,
  Values,
  Indices   \* arguments of list_range

Cells == [value : Values, next : Nodes \cup {Null}, prev : Nodes \cup {Null}]

ASSUME ListAssumption ==
  /\ IsFiniteSet(Nodes)
  /\ Null \notin Nodes /\ Null \notin Cells
  /\ Indices \subseteq Int

VARIABLES
  heap,     \* the node at each address: Null where none is allocated
  ends,     \* list->head and list->tail
  length,   \* list->length
  pc,       \* the statement a call has come to; "idle", "none": no list
  side, n,  \* of the call: its end, its node
  before,   \* the contents of the list when the call began
  res       \* the last call that returned: its arguments and result

lvars == <<heap, ends, length, pc, side, n, before, res>>

Sides    == {"head", "tail"}
Other(s) == IF s = "head" THEN "tail" ELSE "head"
Inner(s) == IF s = "head" THEN "next" ELSE "prev"
Outer(s) == Inner(Other(s))
Empty    == [s \in Sides |-> Null]
Live     == {a \in Nodes : heap[a] # Null}

(* The nodes met on the way from a node along a link.  The way is good when  *)
(* it ends at a NULL and not at an address that was freed or in a circle.    *)
Met(from, link) ==
  LET most == Cardinality(Nodes) + 1
      at[k \in 0 .. most] ==
        IF k = 0 THEN from
          ELSE IF at[k - 1] \in Live THEN heap[at[k - 1]][link] ELSE at[k - 1]
      past == {k \in 0 .. most : at[k] \notin Live}
      good == past # {} /\ at[most] = Null
  IN  [good  |-> good,
       nodes |-> IF good THEN [k \in 1 .. Min(past) |-> at[k - 1]] ELSE <<>>]

ValuesOf(path) == [k \in DOMAIN path |-> heap[path[k]].value]

\* What a walk from the head finds.
Contents == ValuesOf(Met(ends["head"], "next").nodes)

ListInit ==
  /\ heap = [a \in Nodes |-> Null] /\ ends = Empty /\ length = 0
  /\ pc = "none" /\ side = "head" /\ n = Null /\ before = <<>> /\ res = <<"none">>

-----------------------------------------------------------------------------
Step(from, to) ==
  /\ pc = from /\ pc' = to
  /\ UNCHANGED <<side, n, before, res>>

list_create ==
  /\ Step("none", "idle")
  /\ ends' = Empty /\ length' = 0
  /\ UNCHANGED heap

\* The locals of the call are gone.
Return(r) ==
  /\ pc' = "idle" /\ res' = r
  /\ side' = "head" /\ n' = Null /\ before' = <<>>

(* list_lpush, list_rpush                                                    *)
make_node(s, v) ==
  /\ pc = "idle"
  /\ \E a \in Nodes \ Live :
       /\ heap' = [heap EXCEPT ![a] = [value |-> v, next |-> Null, prev |-> Null]]
       /\ n' = a
  /\ side' = s /\ before' = Contents
  /\ pc' = IF ends[s] # Null THEN "link" ELSE "only"
  /\ UNCHANGED <<ends, length, res>>

\* Fault: the new node is not linked to the list.
LinkNodeForgotten ==
  /\ Step("link", "back")
  /\ UNCHANGED <<heap, ends, length>>

LinkNode ==
  /\ Step("link", "back")
  /\ heap' = [heap EXCEPT ![n][Inner(side)] = ends[side]]
  /\ UNCHANGED <<ends, length>>

LinkBack ==
  /\ Step("back", "end")
  /\ heap' = [heap EXCEPT ![ends[side]][Outer(side)] = n]
  /\ UNCHANGED <<ends, length>>

MoveEnd ==
  /\ Step("end", "count")
  /\ ends' = [ends EXCEPT ![side] = n]
  /\ UNCHANGED <<heap, length>>

\* The tail is written first: until the head is, a walk finds nothing.
OnlyNode ==
  /\ Step("only", "count")
  /\ ends' = [s \in Sides |-> n]
  /\ UNCHANGED <<heap, length>>

Count ==
  /\ pc = "count"
  /\ length' = length + 1
  /\ Return(<<"push", side, heap[n].value>>)
  /\ UNCHANGED <<heap, ends>>

(* list_lpop, list_rpop                                                      *)
PopNothing(s) ==
  /\ pc = "idle" /\ ends[s] = Null
  /\ Return(<<"pop", s, Null>>)
  /\ UNCHANGED <<heap, ends, length>>

PopEnd(s) ==
  /\ pc = "idle" /\ ends[s] # Null
  /\ side' = s /\ n' = ends[s] /\ before' = Contents
  /\ ends' = [ends EXCEPT ![s] = heap[ends[s]][Inner(s)]]
  /\ pc' = "unlink"
  /\ UNCHANGED <<heap, length, res>>

\* Fault: the other end is kept when the list becomes empty.
UnlinkOneEnd ==
  /\ Step("unlink", "uncount")
  /\ IF ends[side] # Null
       THEN heap' = [heap EXCEPT ![ends[side]][Outer(side)] = Null]
       ELSE UNCHANGED heap
  /\ UNCHANGED <<ends, length>>

Unlink ==
  /\ Step("unlink", "uncount")
  /\ IF ends[side] # Null
       THEN /\ heap' = [heap EXCEPT ![ends[side]][Outer(side)] = Null]
            /\ UNCHANGED ends
       ELSE /\ ends' = [ends EXCEPT ![Other(side)] = Null]
            /\ UNCHANGED heap
  /\ UNCHANGED length

Uncount ==
  /\ Step("uncount", "free")
  /\ length' = length - 1
  /\ UNCHANGED <<heap, ends>>

FreeNode ==
  /\ pc = "free"
  /\ heap' = [heap EXCEPT ![n] = Null]
  /\ Return(<<"pop", side, heap[n].value>>)
  /\ UNCHANGED <<ends, length>>

-----------------------------------------------------------------------------
\* Fault: a stop that is negative is not counted from the end.
RangeToStop(start, stop) ==
  LET first == Max({0, IF start < 0 THEN length + start ELSE start})
      last  == Min({length - 1, stop})
  IN  IF first > last \/ first >= length THEN <<>>
        ELSE SubSeq(Contents, first + 1, last + 1)

\* The elements the walk of list_range takes.
RangeOf(start, stop) ==
  LET FromEnd(x) == IF x < 0 THEN length + x ELSE x
      first == Max({0, FromEnd(start)})
      last  == Min({length - 1, FromEnd(stop)})
  IN  IF first > last \/ first >= length THEN <<>>
        ELSE SubSeq(Contents, first + 1, last + 1)

list_range(start, stop) ==
  /\ pc = "idle"
  /\ Return(<<"range", start, stop, RangeOf(start, stop)>>)
  /\ UNCHANGED <<heap, ends, length>>

(* list_destroy                                                              *)
DestroyBegins ==
  /\ pc = "idle"
  /\ n' = ends["head"] /\ before' = Contents
  /\ pc' = "destroy"
  /\ UNCHANGED <<heap, ends, length, side, res>>

DestroyNode ==
  /\ pc = "destroy" /\ n # Null
  /\ heap' = [heap EXCEPT ![n] = Null]
  /\ n' = heap[n].next
  /\ UNCHANGED <<ends, length, pc, side, before, res>>

DestroyList ==
  /\ pc = "destroy" /\ n = Null
  /\ pc' = "none" /\ res' = <<"destroy">> /\ before' = <<>>
  /\ UNCHANGED <<heap, ends, length, side, n>>

ListNext ==
  \/ list_create
  \/ \E s \in Sides, v \in Values : make_node(s, v)
  \/ LinkNode \/ LinkBack \/ MoveEnd \/ OnlyNode \/ Count
  \/ \E s \in Sides : PopNothing(s) \/ PopEnd(s)
  \/ Unlink \/ Uncount \/ FreeNode
  \/ \E start, stop \in Indices : list_range(start, stop)
  \/ DestroyBegins \/ DestroyNode \/ DestroyList

ListSpec == ListInit /\ [][ListNext]_lvars

-----------------------------------------------------------------------------
\* Between calls the list reads the same from both ends, its length is what a
\* walk counts, and every node that is allocated is on it: none leaks, none that
\* was freed is reached.
Intact ==
  /\ pc = "idle" =>
       LET there == Met(ends["head"], "next")
           back  == Met(ends["tail"], "prev")
       IN  /\ there.good /\ back.good
           /\ back.nodes = Reverse(there.nodes)
           /\ length = Len(there.nodes)
           /\ Live = ToSet(there.nodes)
  /\ pc = "none" => Live = {}

\* A signal handler that interrupts a push or a pop at any statement and walks
\* the list from its head reads allocated memory only, comes to an end, and
\* finds the list as it was before the call or as it is after it.
WalkFindsOldOrNew ==
  pc \notin {"idle", "none", "destroy"} =>
    LET v == heap[n].value
    IN  /\ Met(ends["head"], "next").good
        /\ \/ Contents = before
           \/ /\ pc \notin {"unlink", "uncount", "free"}
              /\ Contents = IF side = "head" THEN <<v>> \o before
                              ELSE Append(before, v)
           \/ /\ pc \in {"unlink", "uncount", "free"}
              /\ Contents = IF side = "head" THEN Tail(before) ELSE Front(before)

\* The list a caller knows of: a call changes it when it returns.
Known == CASE pc = "idle" -> Contents
           [] pc = "none" -> <<>>
           [] OTHER       -> before

Promised == INSTANCE Deque WITH list <- Known

\* The list in memory is the sequence list.h promises: every call returns what
\* it returns for the sequence, and changes the sequence as it changes that.
ImplementsDeque == Promised!Spec
=============================================================================
