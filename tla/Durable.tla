-------------------------------- MODULE Durable --------------------------------
(***************************************************************************)
(* What persistence promises: entries in memory and one snapshot on disk,  *)
(* replaced as a whole, that outlives the process and is what the next     *)
(* process starts from, less the entries that have expired meanwhile.      *)
(***************************************************************************)
CONSTANTS Keys, Vals, NoVal

VARIABLES
  mem,     \* the entry of every key
  disk,    \* the entry of every key in the snapshot
  passed,  \* the deadline of the timed values has gone by
  up       \* the process runs

Empty == [k \in Keys |-> NoVal]
Late(v) == v # NoVal /\ v.timed /\ passed

Init ==
  /\ mem = Empty /\ disk = Empty
  /\ passed = FALSE /\ up = FALSE

Start ==
  /\ ~up /\ up' = TRUE
  /\ mem' = [k \in Keys |-> IF Late(disk[k]) THEN NoVal ELSE disk[k]]
  /\ UNCHANGED <<disk, passed>>

Change(k, v) ==
  /\ up /\ mem[k] # v
  /\ mem' = [mem EXCEPT ![k] = v]
  /\ UNCHANGED <<disk, passed, up>>

Save ==
  /\ up
  /\ UNCHANGED <<mem, passed, up>>
  /\ disk' = mem

\* An exit or a crash.
Stop ==
  /\ up /\ up' = FALSE
  /\ mem' = Empty
  /\ UNCHANGED <<disk, passed>>

Tick ==
  /\ ~passed /\ passed' = TRUE
  /\ UNCHANGED <<mem, up, disk>>

Next ==
  \/ Start \/ Save \/ Stop \/ Tick
  \/ \E k \in Keys, v \in Vals \cup {NoVal} : Change(k, v)

Spec == Init /\ [][Next]_<<mem, disk, passed, up>>
=============================================================================
