-------------------------------- MODULE Persist --------------------------------
(***************************************************************************)
(* Snapshots: src/src/persist.c, and the three ways to take one: SAVE,     *)
(* SHUTDOWN (src/src/command.c) and the signal handler (src/src/main.c).   *)
(*                                                                         *)
(* One thread runs, with a stack of calls: the handler may come on top of  *)
(* a command, of ht_resize at work or of another persist_save.  A call of  *)
(* persist_save is a frame that hands its stream to fwrite unit by unit;   *)
(* stdio passes it on to the file when it likes, fclose at the latest.     *)
(* Files are inodes under the names dump.rdb and dump.rdb.tmp: a frame     *)
(* goes on writing to its inode whatever happens to the name.              *)
(*                                                                         *)
(* The faults of the environment are constants, so that a run says which   *)
(* it admits.  All values with a deadline share one, `passed` once it has  *)
(* gone by.                                                                *)
(***************************************************************************)
EXTENDS Integers, Sequences, FiniteSets

CONSTANTS
  KeyOrder,      \* the keys, in the order of their slots
  Vals,          \* values: [type, parts, timed]
  NoVal,         \* no entry
  NoFile,        \* no inode
  Failing,       \* calls that may fail: "open", "write", "flush", "rename"
  CrashPoints,   \* what may be running when the process is killed
  SignalPoints   \* what may be running when SIGINT or SIGTERM arrives

Keys   == {KeyOrder[i] : i \in DOMAIN KeyOrder}
Inodes == 1 .. 3
Points == {"idle", "rehash", "write", "remove", "rename"}

ASSUME PersistAssumption ==
  /\ KeyOrder \in Seq(Keys)
  /\ \A i, j \in DOMAIN KeyOrder : KeyOrder[i] = KeyOrder[j] => i = j
  /\ \A v \in Vals :
       /\ v = [type |-> v.type, parts |-> v.parts, timed |-> v.timed]
       /\ v.type \in {"str", "list"} /\ v.timed \in BOOLEAN
       /\ Len(v.parts) \in Nat
       /\ v.parts = [n \in 1 .. Len(v.parts) |-> v.parts[n]]
  /\ NoVal \notin Vals /\ NoFile \notin Inodes
  /\ CrashPoints \subseteq Points /\ SignalPoints \subseteq Points
  /\ Failing \subseteq {"open", "write", "flush", "rename"}

VARIABLES
  mem,      \* the entry of every key, as commands see it
  shown,    \* the keys an iterator over the slot array would meet now
  passed,   \* the deadline of the timed values has gone by
  up,       \* the process runs
  running,  \* srv->running
  stack,    \* the calls in progress, the running one last
  names,    \* the directory: inode of dump.rdb ("dump") and of the tmp file
  inode,    \* the units every inode holds
  answer    \* what persist_save returned, until a command or another call of it

pvars == <<mem, shown, passed, up, running, stack, names, inode, answer>>
memory == <<mem, shown, passed>>
process == <<up, running>>

-----------------------------------------------------------------------------
Empty == [k \in Keys |-> NoVal]
Present(m) == {k \in Keys : m[k] # NoVal}
Late(v) == v # NoVal /\ v.timed /\ passed

\* The units of a snapshot: magic, for every entry its type, deadline and key
\* and then its value, one unit per list element, and 0xFF.
Magic == [unit |-> "magic"]
Eof   == [unit |-> "eof"]
Hole  == [unit |-> "hole"]   \* bytes skipped by writing beyond the end
KeyUnit(k, v) ==
  [unit |-> "key", key |-> k, type |-> v.type, timed |-> v.timed,
   count |-> Len(v.parts)]
Part(x) == [unit |-> "part", text |-> x]

EntryUnits(k, v) ==
  <<KeyUnit(k, v)>> \o [i \in DOMAIN v.parts |-> Part(v.parts[i])]

\* What the walk over the slots writes from the slot of KeyOrder[i] on, when
\* the table shows the keys K.
Walk(m, K) ==
  LET from[i \in Nat] ==
        IF i > Len(KeyOrder) THEN <<Eof>>
          ELSE (IF KeyOrder[i] \in K THEN EntryUnits(KeyOrder[i], m[KeyOrder[i]])
                  ELSE <<>>) \o from[i + 1]
  IN  from

\* Fault: the walk starts behind the first slot.
StreamFromSecond(m, K) == <<Magic>> \o Walk(m, K)[2]

\* What persist_save writes.
Stream(m, K) == <<Magic>> \o Walk(m, K)[1]

\* The file c after the units a + 1 .. b of the stream were passed on to it.
Written(c, stream, a, b) ==
  [i \in 1 .. (IF b > Len(c) THEN b ELSE Len(c)) |->
     CASE i \in a + 1 .. b                -> stream[i]
       [] i \notin a + 1 .. b /\ i <= Len(c) -> c[i]
       [] OTHER                           -> Hole]

\* What persist_load reads from c, deadlines aside: nothing without the magic;
\* then entries until the end of the file or 0xFF, whichever comes first.  A
\* string cut short is dropped, a list cut short keeps what there is.
Reached(c, i) == \A j \in 1 .. i - 1 : c[j].unit \notin {"eof", "hole"}
PartsAt(c, i) ==
  {n \in 1 .. c[i].count : \A m \in 1 .. n : i + m <= Len(c) /\ c[i + m].unit = "part"}

EntryAt(c, i) ==
  [type |-> c[i].type, timed |-> c[i].timed,
   parts |-> [n \in PartsAt(c, i) |-> c[i + n].text]]

ReadsAt(c, k) ==
  {i \in DOMAIN c :
     /\ c[i].unit = "key" /\ c[i].key = k
     /\ c[i].type = "list" \/ PartsAt(c, i) = 1 .. c[i].count
     /\ Reached(c, i)}

Entries(c) ==
  IF c = <<>> \/ c[1] # Magic THEN Empty
    ELSE [k \in Keys |->
            IF ReadsAt(c, k) = {} THEN NoVal
              ELSE EntryAt(c, CHOOSE i \in ReadsAt(c, k) :
                                \A j \in ReadsAt(c, k) : j <= i)]

Contents(n) == IF n = NoFile THEN Empty ELSE Entries(inode[n])

\* Expired entries are not loaded.
Living(m) == [k \in Keys |-> IF Late(m[k]) THEN NoVal ELSE m[k]]

-----------------------------------------------------------------------------
Init ==
  /\ mem = Empty /\ shown = {} /\ passed = FALSE
  /\ up = FALSE /\ running = FALSE
  /\ stack = <<>>
  /\ names = [dump |-> NoFile, tmp |-> NoFile]
  /\ inode = [n \in Inodes |-> <<>>]
  /\ answer = <<>>

\* main up to the event loop: persist_load into a new table.
Start ==
  /\ ~up
  /\ up' = TRUE /\ running' = TRUE
  /\ mem' = Living(Contents(names.dump))
  /\ shown' = Present(mem')
  /\ answer' = <<>>
  /\ UNCHANGED <<passed, stack, names, inode>>

\* The deadline goes by, also while the process is down.
Tick ==
  /\ ~passed
  /\ passed' = TRUE
  /\ UNCHANGED <<mem, shown, process, stack, names, inode, answer>>

Top  == stack[Len(stack)]
Rest == SubSeq(stack, 1, Len(stack) - 1)
Point == IF stack = <<>> THEN "idle" ELSE Top.at

\* Commands run between calls of persist_save; when one has told the loop to
\* stop, those of the same turn of it still do.
Ready == up /\ stack = <<>>

-----------------------------------------------------------------------------
\* A command gives k the entry v, or takes its entry away (v = NoVal).
Change(k, v) ==
  /\ Ready
  /\ v # NoVal => ~Late(v)
  /\ mem' = [mem EXCEPT ![k] = v]
  /\ shown' = Present(mem')
  /\ answer' = <<>>
  /\ UNCHANGED <<passed, process, stack, names, inode>>

\* The same with ht_resize at work: before ht_set inserts, or after ht_delete
\* has deleted.  The new array is empty at first.
ChangeWithResize(k, v) ==
  /\ Ready
  /\ v # NoVal => ~Late(v)
  /\ mem' = IF v = NoVal THEN [mem EXCEPT ![k] = v] ELSE mem
  /\ shown' = {}
  /\ stack' = <<[at |-> "rehash", key |-> k, val |-> v]>>
  /\ answer' = <<>>
  /\ UNCHANGED <<passed, process, names, inode>>

Rehash ==
  /\ up /\ Point = "rehash"
  /\ \E k \in Present(mem) \ shown : shown' = shown \cup {k}
  /\ UNCHANGED <<mem, passed, process, stack, names, inode, answer>>

\* Fault: the call goes on before every entry has been moved.
RehashDoneEarly ==
  /\ up /\ Point = "rehash"
  /\ mem' = [mem EXCEPT ![Top.key] = Top.val]
  /\ shown' = shown \cap Present(mem')
  /\ stack' = Rest
  /\ UNCHANGED <<passed, process, names, inode, answer>>

RehashDone ==
  /\ up /\ Point = "rehash"
  /\ shown = Present(mem)
  /\ mem' = [mem EXCEPT ![Top.key] = Top.val]
  /\ shown' = Present(mem')
  /\ stack' = Rest
  /\ UNCHANGED <<passed, process, names, inode, answer>>

-----------------------------------------------------------------------------
\* persist_save returns to `by`: the handler of SHUTDOWN and the signal
\* handler stop the server whatever the result.
ReturnTo(by, result) ==
  /\ answer' = <<result>>
  /\ running' = (running /\ by = "save")
  /\ UNCHANGED up

\* The inodes in use under the names d and by the calls c; what the others
\* held is forgotten.
InUse(d, c) ==
  {d.dump, d.tmp} \cup {c[i].file : i \in {j \in DOMAIN c : c[j].at # "rehash"}}
Kept(d, c) == [n \in Inodes |-> IF n \in InUse(d, c) THEN inode[n] ELSE <<>>]

Free == Inodes \ InUse(names, stack)

\* fopen(tmp, "wb"): truncates the file, or creates it.
BeginSave(by) ==
  \/ LET n == IF names.tmp # NoFile THEN names.tmp
                ELSE CHOOSE f \in Free : \A g \in Free : f <= g
     IN  /\ names' = [names EXCEPT !.tmp = n]
         /\ inode' = [inode EXCEPT ![n] = <<>>]
         /\ stack' = Append(stack,
              [at |-> "write", by |-> by, file |-> n,
               stream |-> Stream(mem, shown), given |-> 0, flushed |-> 0])
         /\ answer' = <<>>
         /\ UNCHANGED <<memory, process>>
  \/ /\ "open" \in Failing
     /\ ReturnTo(by, -1)
     /\ UNCHANGED <<memory, stack, names, inode>>

CmdSave     == Ready /\ BeginSave("save")
CmdShutdown == Ready /\ BeginSave("shutdown")

\* signal_handler, whatever it interrupts, also when the server is stopping:
\* g_server is never reset (BOUND: no signal interrupts the handler).
Signal ==
  /\ up
  /\ Point \in SignalPoints
  /\ \A i \in DOMAIN stack : stack[i].at # "rehash" => stack[i].by # "signal"
  /\ BeginSave("signal")

Flush(b) ==
  inode' = [inode EXCEPT
              ![Top.file] = Written(@, Top.stream, Top.flushed, b)]

\* One more unit is given to fwrite, and perhaps all of them to the file.
WriteUnit ==
  /\ up /\ Point = "write"
  /\ Top.given < Len(Top.stream)
  /\ \E b \in {Top.flushed, Top.given + 1} :
       /\ Flush(b)
       /\ stack' = Append(Rest,
            [Top EXCEPT !.given = @ + 1, !.flushed = b])
  /\ UNCHANGED <<memory, process, names, answer>>

\* Fault: the failure path removes the file under the wrong name.
WriteFailsRemovingDump ==
  /\ up /\ Point = "write"
  /\ "write" \in Failing
  /\ Top.given < Len(Top.stream)
  /\ names' = [names EXCEPT !.dump = NoFile]
  /\ stack' = Rest
  /\ inode' = Kept(names', stack')
  /\ ReturnTo(Top.by, -1)
  /\ UNCHANGED memory

\* fwrite fails: the tmp file is closed and removed.
WriteFails ==
  /\ up /\ Point = "write"
  /\ "write" \in Failing
  /\ Top.given < Len(Top.stream)
  /\ names' = [names EXCEPT !.tmp = NoFile]
  /\ stack' = Rest
  /\ inode' = [Kept(names', stack') EXCEPT
                 ![Top.file] =
                   IF Top.file \notin InUse(names', stack') THEN <<>>
                     ELSE Written(@, Top.stream, Top.flushed, Top.given)]
  /\ ReturnTo(Top.by, -1)
  /\ UNCHANGED memory

\* Fault: the file is renamed before fclose.
CloseTmpLater ==
  /\ up /\ Point = "write"
  /\ Top.given = Len(Top.stream)
  /\ stack' = Append(Rest, [Top EXCEPT !.at = "remove"])
  /\ UNCHANGED <<memory, process, names, inode, answer>>

\* fclose passes on the rest; when it cannot, nobody looks.
CloseTmp ==
  /\ up /\ Point = "write"
  /\ Top.given = Len(Top.stream)
  /\ \E b \in {Top.given} \cup (IF "flush" \in Failing
                                  THEN Top.flushed .. Top.given ELSE {}) :
       Flush(b)
  /\ stack' = Append(Rest, [Top EXCEPT !.at = "remove"])
  /\ UNCHANGED <<memory, process, names, answer>>

RemoveDump ==
  /\ up /\ Point = "remove"
  /\ names' = [names EXCEPT !.dump = NoFile]
  /\ stack' = Append(Rest, [Top EXCEPT !.at = "rename"])
  /\ inode' = Kept(names', stack')
  /\ UNCHANGED <<memory, process, answer>>

RenameTmp ==
  /\ up /\ Point = "rename"
  /\ names.tmp # NoFile
  /\ names' = [dump |-> names.tmp, tmp |-> NoFile]
  /\ stack' = Rest
  /\ inode' = Kept(names', stack')
  /\ ReturnTo(Top.by, 0)
  /\ UNCHANGED memory

RenameFails ==
  /\ up /\ Point = "rename"
  /\ names.tmp = NoFile \/ "rename" \in Failing
  /\ names' = [names EXCEPT !.tmp = NoFile]
  /\ stack' = Rest
  /\ inode' = Kept(names', stack')
  /\ ReturnTo(Top.by, -1)
  /\ UNCHANGED memory

-----------------------------------------------------------------------------
Down ==
  /\ up' = FALSE /\ running' = FALSE
  /\ mem' = Empty /\ shown' = {}
  /\ stack' = <<>>
  /\ answer' = <<>>
  /\ inode' = Kept(names, <<>>)
  /\ UNCHANGED <<passed, names>>

\* server_run returns and main ends.
Exit  == up /\ ~running /\ stack = <<>> /\ Down

\* The process is killed.  What was passed on to the files stays.
Crash == up /\ Point \in CrashPoints /\ Down

Next ==
  \/ Start \/ Tick \/ Rehash \/ RehashDone
  \/ \E k \in Keys, v \in Vals \cup {NoVal} : Change(k, v) \/ ChangeWithResize(k, v)
  \/ CmdSave \/ CmdShutdown \/ Signal
  \/ WriteUnit \/ WriteFails \/ CloseTmp \/ RemoveDump \/ RenameTmp \/ RenameFails
  \/ Exit \/ Crash

Spec == Init /\ [][Next]_pvars
-----------------------------------------------------------------------------
PersistTypeOK ==
  /\ \A k \in Keys : mem[k] \in Vals \cup {NoVal}
  /\ shown \subseteq Present(mem)
  /\ stack = <<>> => shown = Present(mem)
  /\ names.dump \in Inodes \cup {NoFile} /\ names.tmp \in Inodes \cup {NoFile}
  /\ \A i \in DOMAIN stack : stack[i].at \in Points \ {"idle"}
  /\ running => up

\* dump.rdb is never a torn file: under its name there is nothing, or all of a
\* snapshot from the magic header to the EOF marker (README.md:116-119), also
\* after a crash, and also when writing failed.
DumpIsWhole ==
  names.dump # NoFile =>
    LET c == inode[names.dump]
    IN  c # <<>> /\ c[1] = Magic /\ c[Len(c)] = Eof

\* The snapshot a restart would find.  The step that counts is remove(): from
\* then on the complete tmp file is what the rename puts in place.
Recoverable ==
  IF Point = "rename" /\ names.dump = NoFile THEN Contents(names.tmp)
    ELSE Contents(names.dump)

\* A save replaces the whole snapshot or leaves it as it was, and a restart
\* finds the last one: "Save database to an RDB-style binary file"
\* (persist.h:6) by an "Atomic rename" (persist.c:128).
AsDurable == INSTANCE Durable WITH disk <- Recoverable
ImplementsDurable == AsDurable!Spec

\* But for this: between remove() and rename() there is no dump.rdb, and a
\* process killed then, or a rename that fails, leaves none.
LosesSnapshot ==
  /\ Point = "rename"
  /\ UNCHANGED passed
  /\ UNCHANGED <<mem, up>> \/ (mem' = Empty /\ up' = FALSE)
  /\ Recoverable' = Empty

\* That is the only way a snapshot is lost, torn or mixed with another,
\* wherever the process is killed and whichever call fails.
DurableButForGap ==
  /\ AsDurable!Init
  /\ [][AsDurable!Next \/ LosesSnapshot]_<<mem, Recoverable, passed, up>>

\* persist_save "Returns 0 on success" (persist.h:6): when it has returned 0,
\* which SAVE answers OK to, dump.rdb holds what the database holds.
SavedMeansOnDisk ==
  [][answer' # answer /\ answer' = <<0>> =>
       Contents(names.dump)' = mem']_pvars

\* SHUTDOWN is "Save and exit" (README.md:93): where no call fails, what the
\* database holds when the process ends is what dump.rdb holds.
ExitKeepsAll ==
  [][up /\ ~running /\ ~up' => Living(Contents(names.dump)) = Living(mem)]_pvars
=============================================================================
