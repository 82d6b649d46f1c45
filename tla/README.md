# CackDB in TLA+

A verification development of CackDB, the in-memory key-value server under
`src/`: TLA+ modules translated from the C sources, TLC configurations that
check them on small instances, and theorems checked by TLAPS.

## 1. The system

One process with one thread. `main` loads `dump.rdb`, then `server_run` turns
its loop: `select`, at most one `accept`, then for every client slot one `recv`,
all complete requests in its buffer, one `send`, and finally the expiry sweep.

    client -> server_run -> process_client_input -> command_execute -> cmd_*
                                                       -> db_* -> ht_*
                                                       -> persist_save
    SIGINT/SIGTERM -> signal_handler -> persist_save   (on top of any of these)
    main -> persist_load -> ht_set

    cli.c     -- one connection, one request at a time --> server
    proxy.js  -- one connection and one timer per POST --> server

| Component | Source (`src/`) | State | Operations | Status |
|---|---|---|---|---|
| hash table | `src/hashtable.c` | slots (empty, entry, tombstone), `capacity`, `size`, `tombstones` | `ht_set`, `ht_find` and its users, `ht_delete`, `ht_resize`, iterator | modelled |
| storage engine | `src/db.c` | the table of entries (value, deadline), time of the last sweep | `db_*`, lazy expiry, `db_expire_sweep` | modelled |
| values | `src/object.c` | string, 64-bit integer or list | constructors, `obj_try_parse_int` | partly |
| list | `src/list.c` | doubly linked nodes, length | push, pop, range, destroy | modelled |
| command processor | `src/command.c` | none of its own | 23 handlers, dispatch | modelled |
| persistence | `src/persist.c` | `dump.rdb`, `dump.rdb.tmp` | `persist_save`, `persist_load` | modelled |
| process, signals | `src/main.c` | `g_server` | start, `signal_handler`, exit | modelled |
| server | `src/server.c` | slots, `client_count`, `running`, read and write buffers | the event loop | modelled |
| RESP | `src/resp.c` | reply buffer | parser, writers | modelled |
| utilities | `src/util.c` | none | clock, string helpers, allocation | partly |
| command line client | `cli/cli.c` | socket, line, reply buffer | request/reply loop | modelled |
| web proxy | `web/proxy.js` | per POST a socket, a timer, the data so far | the callbacks of both | modelled |
| web page, build | `web/index.html`, `Makefile` | – | – | not modelled |

What is hard here:

- **Open addressing.** Robin Hood swaps, tombstones, an early exit and two-way
  resizing act on one array; the probe loops have no bound of their own.
- **Expiry.** An expired entry stays in the table until somebody looks at it, so
  every reader must hide it; the sweep deletes, and so may resize, while it
  iterates; the clock moves between two readings of one command.
- **Snapshots.** A save is many calls that may fail or be cut by a crash, and a
  signal handler may start another save in the middle of one, or of a resize.
- **The event loop.** TCP cuts requests and replies anywhere; a slot may be freed
  and a reply queued between two steps of one turn; a signal may come at any
  statement, before the loop begins too.
- **Linked lists under a signal.** The handler walks every list, also one whose
  push or pop it interrupts.
- **Clients.** A reply comes in pieces and has to be recognised when it is whole;
  the timeout of the proxy races it; the server may end with requests of several
  clients under way, executed or not.

What makes a component correct: the table implements a map, its counters are
true and every loop ends; the commands implement a store in which a key is gone
at its deadline; a snapshot is replaced whole or not at all and survives the
process; the loop delivers every reply once, in order, and stops when told; a list
is a sequence, and safe to read at every statement; a client sends what was meant,
takes the reply to its request for that and nothing else, and never waits forever.

`PROJECT.json` lists the hazards at their lines, with the properties aimed at
each.

## 2. The modules

| Module | Models | State and steps |
|---|---|---|
| `Probing` | slot array and load arithmetic of `hashtable.c` | operators only |
| `HashTableSteps` | `hashtable.c`, one step per loop iteration | `cap, slots, size, tombs` are `hashtable_t`; `carry, i, old, pos` are locals of the loops; `owner` is a history variable |
| `HashTableOps` | the same functions as whole-call operators, their loops as recursive functions | – |
| `HashTable` | the table, one step per call | `ht`, `res` |
| `TableCalls` | `HashTableSteps` remembering the table the running call began with | and `before`, a history variable |
| `Map` | what `hashtable.h` promises | `map`, `res` |
| `Objects` | values, lists as sequences, replies, deadlines | operators only |
| `DbOps` | `db.c`, one operator per function, on `HashTableOps` and `Objects` | – |
| `Commands` | `command.c` on `DbOps`, the clock and the sweep | `ht`, `since` (last sweep), `req`, `reply` |
| `KeyStore` | what `README.md` promises of the commands: no table, no lazy deletion, no width of integers and no epoch that shows | `store`, `req`, `reply` |
| `Persist` | `persist.c`, `cmd_save`, `cmd_shutdown`, `signal_handler` | `mem`, `shown`, call `stack`, `names` and `inode` of the files |
| `Durable` | what persistence promises | `mem`, `disk` |
| `Server` | `server.c`, the handler stopping it | slots, `count`, `running`, `pc`, buffers per client; `told` is a history variable |
| `List` | `list.c`, one step per statement that writes | `heap` of nodes, `ends`, `length`; `pc`, `side`, `n` are the call in progress, `before` is a history variable |
| `Deque` | what `list.h` promises | `list`, `res` |
| `Resp` | `resp.c`: writers and parser | operators only |
| `Peer` | the server as one client sees it | `server` |
| `Cli` | `cli.c` | `at` is the place in the loop of `main`, `line`, `reply` its buffers; `asked`, `executed`, `shown` are histories |
| `Proxy` | `proxy.js`: one POST | `socket`, `timer`, `data`, `answer`; one action per callback |
| `Clients` | `Cli` and `Proxy` at one server that may end | – |
| `TableProofs` | lemmas about `HashTableOps`: the loops, sound tables | – |
| `HashTableProofs` | theorems about `HashTable`, `HashTableSteps` and `TableCalls`: counters and load, that the loops end, who holds the values, that loops make whole calls, and a step of the table a step of `Map` | – |
| `CommandsProofs` | theorems about `Commands`: the table is well formed, no list is empty | – |
| `ServerProofs` | theorems about `Server`: slots, buffers and replies | – |
| `PersistProofs` | theorems about `Persist`: the format; the files at any signal or crash, and the step to `Durable` | – |
| `ListProofs` | theorems about `List`, up to `Deque` | – |
| `RespProofs`, `ClientProofs` | theorems about the parser of `Resp`; about `Cli` and `Proxy` | – |
| `MC*` | instances for TLC | – |

Composition: `Commands` runs on the real table, through `DbOps` and
`HashTableOps`, and is compared with `KeyStore`. `TableCalls` ties the two
views of the table: each call of `HashTableSteps`, run to its end, is the
operator of `HashTableOps`. `Persist` has its own, coarser memory (an entry per
key and the set of keys an iterator would meet), and `Server` knows of a command
only that it is answered and whether it stops the loop. `Clients` composes both
clients with a server that executes a request once it has all of it (`Peer`); that
the real loop does this for many clients is what `ManyClients` checks of `Server`.
A signal is split: `Persist` has its save, `Server` its `server_stop`, `List` what its
walk meets.

Conventions. An operator whose comment begins with `Fault:` is a wrong variant of
the definition below it, the kind of mistake one could make in that code; no
specification uses it. It stands in for that definition to show that a property
notices. `BOUND` marks a guard that only keeps an instance finite.

Abstractions that matter when reading:

- A key's FNV-1a hash is the constant `Hash`: an instance decides which keys
  collide.
- Time is relative. The code stores an absolute deadline; an entry here carries
  `left`, the ticks until then, and time passing lowers it. A command reads the clock
  as often as the code does: `DEL`, `MGET`, `LPUSH` and `RPUSH` once per key or value,
  `EXPIRE` and `TTL` twice; between two readings a tick may pass (parameters `ds`, `d`).
- `KeyStore` is the store as `README.md` describes it. Where the code departs from that, the
  departure is an action of `Commands` of its own (`CounterDeparts`, `DeadlineDeparts`,
  `PushDeparts`) that says what happens instead; they happen in the runs.
- Integers have a width (`IntMin .. IntMax`, wrapping as compiled); texts are
  opaque, `ParseInt` says which ones `strtoll` accepts and as what.
- File contents are units (magic, an entry's header, one unit per element, end
  marker). A `fwrite` hands a unit to stdio; stdio passes on what it has when it
  likes, at the latest in `fclose`; a crash keeps what was passed on. Inodes and
  names are separate, so a nested save can rename the file another one writes.
- In `Persist` the faults of the environment are constants: `Failing` (which
  calls may fail), `CrashPoints`, `SignalPoints` (where the process may be
  killed or interrupted). A run says which it admits. Commands may come after the one
  that stops the server in every run, and signals after another signal or a stop.
- In `Server` bytes are units, several to a request and to a reply, so that every
  cut can happen. In `Resp` a line is a unit, its CRLF another, and each byte of a
  bulk string is one (it may be a CRLF itself). The parser is one definition for
  both languages: the three of the repository differ only in what they keep of a
  bulk string, in what they do with a line of unknown type, and on lengths below
  -1, which neither client is ever sent. The code passes on pointers into its buffer;
  here the parser works by positions in one, a recursive function of them (`Items`).
- `ReplyTo`, what the server answers, is a constant of `Peer`: the instance has a
  reply of every kind. A text is one line, unless it is among `SplitTexts`, those that
  repeat a command name with a CRLF in it, or among `LongTexts`, which lose their end.
- `List` writes the calls for the two ends once, for a `side`. Statements take
  effect in the order of the source.

## 3. The runs

| Run | Expect | Properties | Shows |
|---|---|---|---|
| `TableCalls` | pass | `TypeOK` `Accounting` `RoomToProbe` `Ownership` `EveryStepIsProgress` `CallReturns` `CallsAreWhole` | with colliding keys, at every iteration: true counters, an empty slot, every live value in exactly one place; every iteration leaves less to do; every call ends and equals its whole-call operator |
| `TableCollides` | pass | `HtTypeOK` `MapUnlessLost` `LossHasACause` | a call of the table, probes, swaps, tombstones, growth and shrinking included, is one of a map as long as every entry is found, and an entry gets out of reach only by a swap, a resize or a reused tombstone |
| `TableLost` | violation | `EveryEntryIsFound` | with collisions three insertions lose a key |
| `Strings` | pass | `TypeOK` `ServesStore` | string, counter, expiry and server commands on two keys do what `KeyStore` does, or depart from it as `CounterDeparts` and `DeadlineDeparts` say; the clock passes between the keys of one command too |
| `Lists` | pass | `ListsAreNotEmpty` `ServesStore` `ExpiredIsSwept` | the same for list commands, with `PushDeparts`; no empty list stays; the sweep, of one sample, removes what nobody asks for unless a living entry in front starves it |
| `Faults` | pass | `PersistTypeOK` `DumpIsWhole` `SavedMeansOnDisk` `DurableButForGap` | with failing `fopen`, `fwrite` and `rename`, crashes anywhere and commands after a stop: never a torn `dump.rdb`, OK means on disk, a snapshot is replaced whole or kept, and lost only between `remove` and `rename` |
| `RenameGap` | violation | `ImplementsDurable` | a crash between `remove` and `rename` loses the snapshot |
| `LateCommands` | violation | `ExitKeepsAll` | a command behind `SHUTDOWN` is lost |
| `ManyClients` | pass | `ServerTypeOK` `SlotsAccounted` `RepliesInOrder` `StopsWhenTold` `Answered` | three clients, two slots, every cut and order, a signal at any statement, failing `accept`, `select` and `send` |
| `ErrorStalls` | violation | `Answered` | behind a rejected request nothing is ever answered |
| `ListNodes` | pass | `Intact` `WalkFindsOldOrNew` `ImplementsDeque` | both chains, the length and the allocated nodes agree; a walk in the middle of a push or pop is safe and finds the list before or after it; the calls are those of a sequence |
| `Clients` | pass | `ExecutedAsMeant` `ShownInStep` `PromptReturns` `ResultIsTrue` `WholeReplyAnswers` `PostIsAnswered` | what is typed is executed, a reply is shown or returned for its own request only, the prompt comes back, every POST is answered, while the server may end at any time |

### Where code and words part

The four violation runs are documented under `findings` in `PROJECT.json`. In the
table, three things go wrong once keys collide: a swap hands on the displaced entry
with the probe counter of the entry that replaced it (`hashtable.c:106`, and `:208` in
a resize; `TableLost`); an insertion takes the first tombstone although its key may sit
farther on (`:74`), which stores it twice; and that insertion breaks the
order the early exit of `ht_find` relies on (`:125`). `TableCollides` says how far
the damage goes: from a table whose entries are all found to another such, a call does
what it does to a map, and only swaps, resizes and reused tombstones put an entry out of
reach. The runs above the table use one home slot per key (`DistinctHash`): what they
show holds as long as the table finds its entries.

A fourth needs two keys A and C with the same 32 bits of hash. After a swap the loop
of `ht_set` compares the hash of the displaced entry with the name of the key it was
called with (`hashtable.c:85`). If it carries C on behalf of a set of A and then meets
an older copy of A, both tests succeed: C's value is stored under A, and C
is gone. That takes a probe sequence longer than half the array (about 34 keys of
one home slot at capacity 64) and so is out of reach of the tables TLC can
check; it came up in the proof of `Ownership`, as the one case that could not be
closed, and is the reason for the hypothesis of `ValuesAreOwned` (section 4).

The commands depart from `KeyStore` in three ways, all of which happen in the passing runs:

- `CounterDeparts`: `db_incr` adds without looking at the range, and returns `INT64_MIN`
  for an error (`db.c:98`): `DECR` to it changes the value and answers the error, a step
  beyond either end wraps (`README.md:63-64` says "Increment by 1", "Decrement by 1").
- `DeadlineDeparts`: a deadline before the epoch is negative and so means none
  (`db.c:179`, `db.h:11`); `EXPIRE` answers 1 and the timeout is gone (`README.md:81`).
- `PushDeparts`: `LPUSH k a b` reads the clock before each value (`command.c:180`,
  `db.c:115`). When the list expires in between, `a` goes with it, `[b]` stays without a
  timeout and the answer is 1. `DEL` and `MGET` read it per key in the same way; there
  `KeyStore` lets each key be looked at at a moment of its own, and they do what it does.

`Starved` in `ExpiredIsSwept`: a sweep always begins at slot 0, so living entries in front
use up its samples, where `db.c:211` speaks of random keys.

`LateCommands`: `cmd_shutdown` saves and the turn goes on; what comes behind it is
answered and lost. `ExitKeepsAll` has no passing run, as the code gives no such
guarantee.

Further departures, reproducible by changing a constant of a configuration, or visible in a
module:

- `Faults` with `"flush"` in `Failing`: the result of `fclose` is not looked at
  (`persist.c:126`), so a torn file takes the name of the snapshot and `SAVE` answers OK
  (`SavedMeansOnDisk`).
- `Faults` with `"rehash"` in `SignalPoints`: the handler saves what it finds in the middle
  of `ht_resize` (`SavedMeansOnDisk`); with `"write"`: it renames the tmp file it shares with the
  save it interrupts, which then removes `dump.rdb` and has nothing to rename
  (`DurableButForGap`).
- `ManyClients` with `EarlySignal = TRUE`: a signal between `g_server = srv` (`main.c:75`)
  and `running = 1` (`server.c:165`) is forgotten (`StopsWhenTold`).
- `Clients`, each without the assumption `RepliesFit` where it concerns a reply:
  `RecvSize = 8`: `recv_response` (`cli.c:206`, "Receive full RESP response") gives up with
  a full buffer, nothing is shown, and the rest stands in front of the next reply
  (`ShownInStep`). `LineSize = 3`: `fgets` cuts a line that is too long into two commands
  (`ExecutedAsMeant`). A reply `<<"-", "long">>`: `resp_buf_appendf` copies as many bytes as
  `vsnprintf` would have needed (`resp.c:41`), so the error line of an unknown command of a
  long name loses its CRLF and the client waits for ever (`PromptReturns`). A reply
  `<<"-", "split">>`: that line repeats the name with the CRLF in it (`command.c:397`) and
  the proxy answers with the first half (`ResultIsTrue`). A reply
  `Bulk(<<"hi", "lo">>)`: the proxy compares a length in bytes with a number of characters
  (`proxy.js:44`), so the reply is whole and not recognised (`WholeReplyAnswers`).
- In `List`, between the step that moves a link and `Count` or `Uncount`, a walk finds
  one element more or less than `length` says: a save by the handler writes a count
  (`persist.c:110`) that does not fit the elements behind it, and `persist_load` reads
  on out of step. And while `list_destroy` runs the walk meets freed nodes;
  `ht_delete` destroys a value before its slot becomes a tombstone
  (`hashtable.c:149`), so the handler can get there.
- `Server!BrokenPipe`: on Linux a `send` to a client that has reset its connection
  raises `SIGPIPE`; `main` does not handle it, so the process ends without a save
  where `server.c:222` means to drop one client.
- `Clients` with `MaxTokens = 1`: words beyond the limit are dropped without a word
  (`ExecutedAsMeant`).
- `Proxy!ConnectThrows`: a body without `args` ends the process of the proxy.
- `Peer!Response`: the reply of `SHUTDOWN` is never written, so the command line
  client says "Connection lost"; a name such as `SHUTDOWNx` ends the client
  although the server goes on (`Cli!Quits`).

### Bounds

- Tables: `MinCap` is 4 instead of 64 and capacities go to 8 or 16. The code only
  uses that a capacity doubles and halves and the two load percentages. With
  three keys an array of 4 has to grow, deletions fill one of 8 with tombstones
  and shrink it again. Homes 0, 1, 0 are the smallest case of a Robin Hood swap.
  Three value pointers in `TableCalls` let a pair be in a slot, in the old array
  and in a local variable at once; `TableCollides` has three
  keys of which two share a home slot at 4 and 8 and part at 16.
- Commands: a command whose table would exceed the largest capacity at any of its
  stores does not happen (`BOUND: memory`). At most one tick passes between two readings of
  the clock by one command. Two keys, and integers from -2 to 1 (2 in `Lists`), so that two
  steps reach either end of the range; a second is two ticks, so that rounding in
  `TTL` shows; the epoch lies 3 ticks back; timeouts -2 (before the epoch), -1 and
  1; up to two arguments per variadic command (the second may meet what the first
  changed); lists of up to three elements and indices from -2 to 1. `SweepSamples` is 1 in `Lists`,
  so that one living key starves the other.
- Persistence: two keys, values that are a list of two elements and a
  string with a deadline, and three inodes (one per name and one that only an
  interrupted call still writes to). One signal handler at a time (`BOUND` in `Signal`). The number of
  saves, restarts and commands is not bounded.
- Server: two slots for three clients, requests and replies of two units, a read
  buffer of three (one and a half requests, so that a request is cut by the end
  of the buffer). One client pipelines two requests and may hang up, one stops the
  server, one only connects.
- Lists: three nodes and two values, so that there is an inner node, and indices
  from -4 to 3, beyond both ends of the longest list. Addresses are symmetric.
- Clients: two typed sessions (a line that just fits, a blank one, quotes, a word
  with a quote inside, an error, the end in mixed case; a word that begins like
  `SHUTDOWN`), and one POST of any kind next to them. The longest reply is an array
  with a bulk string that contains a CRLF; it just fits the buffer. Requests of the
  proxy share no state, so that one stands for many.

The violation runs take the bounds of the passing run of their module, or smaller ones where
less is enough.

`CHECK_DEADLOCK FALSE` is said for `Server` and `Clients` only: they end.

### Fairness

- `TableCalls`: weak fairness of the loop steps. The thread that runs a call
  keeps running; nobody is obliged to call.
- `Commands`: weak fairness of `Respond`, strong fairness of the clock and of a due
  sweep. `server_run` answers what it has read and calls `db_expire_sweep` on every
  turn, and its `select` has a timeout, so the turns do not depend on clients. The
  fairness of the sweep is written without `ENABLED` (a due sweep always changes
  `since`).
- `Server`: weak fairness of the loop as a whole. Clients owe nothing: they may
  stop sending in the middle of a request, hang up, or never connect. Among the
  things the loop can do next there is a choice only in how much `recv` and
  `send` transfer (at least one unit) and which waiting client is accepted.
- `Clients`: the command line client goes on when it can, the server executes a
  request of it that is whole, and ends once it is told to (what `ManyClients`
  shows of `Server`); the first two are written without `ENABLED`, which TLC would
  evaluate by parsing again and again. The timer of the proxy fires (`setTimeout`,
  which nobody clears). To the proxy the network and the server owe nothing.
- `Persist` and `List` have safety properties only and no fairness.

## 4. The proofs

`HashTableProofs` proves, for every set of keys and values, every hash
function and every chain of capacities:

- `TypeCorrect`: `Spec => []TypeOK`; no probe leaves the array and the counters
  stay natural numbers;
- `CountersAreTrue`: `Spec => []Accounting`;
- `NeverFull`: `Spec => []RoomToProbe`.

Assumptions: `KeysAssumption`, `HashAssumption` and `CapsAssumption` of `Probing`
(the smallest capacity is at least 2, every larger one has its exact half among the
capacities), of which TLC evaluates an instance on every run of a table; for the
commands also `CommandsAssumption`.

The argument. `RoomToProbe` is not inductive: `ht_resize` sets `size` and `tombstones`
to zero and fills a new, possibly smaller, array. What keeps that array from
filling up is the number of entries still on their way, so `Load` counts the used
slots, the entries of the old array not taken yet, the entry in the hand of the
inner loop and the one an `ht_set` has yet to place. `IInv` is `TypeOK`, `Phases` (what
the local variables hold in which loop), `Accounting` and `LoadBounded`, which says
`Load * 100 < 71 * cap`. `MustGrow` of the code rounds, which is why the share is 71 and
not 70. A resize doubles the capacity, or halves it when the load is below 20 %,
and a load below 20 % of `cap` is below 40 % of its half. There is one lemma per
action, on top of lemmas about what storing, burying and zeroing does to the
counts. From `LoadBounded` and `Accounting` the array cannot consist of entries and
tombstones alone.

It goes on from there:

- `ValuesAreHeldOnce`, without a further hypothesis: every value that `ht_set` was
  given and the table has not freed is in exactly one of four places: the array, the
  part of the old array that `ht_resize` has still to take, the entry a loop carries,
  the pair of an `ht_set` that resizes first. None leaks, and none can be freed twice.
- `ValuesAreOwned`: `Spec => []Ownership`, the same and next to the key it was set
  for, if `HashesDiffer`: no two keys have the same 32 bits of hash. They may share any
  number of home slots. Without the hypothesis the code loses the property (section
  3); `TableCalls` satisfies it.

`HeldOnce` is inductive next to `IInv`. For the keys, `Labelled` says of each of the four
places that the history variable `owner` names the key beside the value.

`LoopsComeToAnEnd`: `Spec => EveryStepIsProgress`, with no further hypothesis. The probe loops of the code stop at an empty slot, at a poorer
entry or at the key, and nothing in them counts. The property names what gets less
with every iteration, in this order: the loops of the call still to run; the entries of
the old array still to move; the distances by which the entries of the array could still
grow (`RoomToMove`), which a swap lowers, since it leaves an entry farther from its home
than the one it takes; the number of slots to the next that is free, where the loop stops at the latest (`Gap`).
`Gap` alone is not enough: a swap changes what the loop looks for. That a probe
distance stays below `cap` and that a place to stop exists is `RoomToProbe`, so the
invariant behind it is `IInv` once more. What is left to TLC of `CallReturns` is the step
from a measure in well-founded order to "eventually", which takes fairness and `ENABLED`.

`LoopsMakeCalls`: `HSpec => CallsAreWhole`, with no further hypothesis either. A call of
`hashtable.c`, run loop by loop, has done by its return what the operator of
`HashTableOps` does at once, and returns the same, colliding keys and lost entries
included; so that what is shown of `HashTable` and `Commands` is shown of the loops. The
invariant `Going` says, for each loop, that the rest of it, begun from where it is, has the
result of the whole call begun from the table it found. It needs `IInv` (the loops of
`HashTableOps` are recursive functions on tables with an empty slot) and `HeldOnce`
(`ht_set` recognises the pair it was called with by its value).

About whole calls:

- `TableStaysWellFormed`: `HtSpec => []HtTypeOK`, whichever keys collide;
- `MapButForLosses`: `HtSpec => MapUnlessLost`, if `HashesDiffer`.

The second is what is true of the table as a map. Keys may share home slots as they like; a call
may probe, swap, reuse a tombstone, grow or shrink. If all entries are found before it and after
it, each in its own slot, it is a step of `Map`; the one exception is a `SET` that grows the table
and whose growing already lost an entry. So nothing else is wrong with the table than that
entries get out of reach. The proof follows the pairs: the loops of `ht_set` and
`ht_resize` neither lose nor invent one, only put it somewhere; where every pair is found, a key
has one, and `Contents` is determined by the pairs. `HashesDiffer` excludes the fourth
case of section 3, where a pair is lost.

Both rest on `TableProofs`. Its loops go over arrays, with a place and an array as argument, and
end for the reason of `LoopsComeToAnEnd`. TLA+ defines a recursive function by `CHOOSE`, so that
its equation has first to be shown: `Recursion` builds a solution along a measure, and
`SetIteration` and its like give the equation of every loop for the measure that goes with
it. `Good` tables are what the calls leave behind: true counts, and a load below the one where
`ht_set` would have grown them; every call takes a good table to a good one.

`CommandsProofs` proves, for all keys, texts, integers, deadlines and arguments, whichever keys
collide:

- `StoreStaysWellFormed`: `Spec => []TypeOK`;
- `NoListIsEmpty`: `Spec => []ListsAreNotEmpty`.

Their hypothesis `EveryEntry` only says what the values of the table are: all entries of
a database and nothing else (an instance of TLC has finitely many of them). The invariant `StoreInv`:
the table is good and each list in it has an element. `db.c` writes through pointers that
`ht_get` returned (`Rewrite`), so that the lemmas show for each command that what it writes
is such an entry.

`ServesStore` is checked, not proved: with colliding keys it fails with the table
(section 3).

`ServerProofs` proves, for every set of clients, every script of requests and every
number of slots, `SlotsAreAccounted`: `Spec => []SlotsAccounted`. Assumption:
`ServerAssumption`. `SlotsAccounted` counts; the inductive invariant `SInv` says the
same slot by slot (`Seated`: open connections and taken slots correspond one to
one), adds that `client_count` is the number of taken slots, and `Phases`: in which
part of a turn the index points to a slot, and to a client. It is needed because
`server_remove_client` lowers the count whatever the slot holds.

From the same assumption, for the data:

- `BuffersAreBounded`: `Spec => []ServerTypeOK`;
- `RepliesAreInOrder`: `Spec => []RepliesInOrder`.

That the next reply queued is the one due rests on what stands first in the read
buffer, and that on everything behind it, in the buffer and on the network. `Incoming`
says the two together are the stream of the client's requests from the end of the
executed ones on; `Outgoing`, that what the client got and what the write buffer has
still to send are the replies to the executed ones; `Bounds`, that the write position is
behind the length unless both were reset. The lemmas cut and join such streams.

`PersistProofs` proves `RoundTrip`: what `persist_load` reads of the stream
`persist_save` writes, for any table and any set of keys the iterator meets, is that
table restricted to these keys. `Walk` of `Persist` is a recursive function; its equation
and its values are shown from the least number of slots for which they fail.

And for all keys and values under `PersistAssumption`:

| Theorem | States | If |
|---|---|---|
| `TablesAreLoaded` | `Spec => []PersistTypeOK` | `"flush" \notin Failing` |
| `DumpIsNeverTorn` | `Spec => []DumpIsWhole` | the same |
| `SavesAreOnDisk` | `Spec => SavedMeansOnDisk` | and `"rehash" \notin SignalPoints` |
| `RefinesDurable` | `Spec => DurableButForGap` | `"flush" \notin Failing` and `SignalPoints \subseteq {"idle"}` |

Each hypothesis excludes a fault that the code does not survive, one of the departures of
section 3; everything else may happen. In particular
`DumpIsNeverTorn` holds with a crash and a signal at every point, also when
the save of the handler and the one it interrupted share a tmp file, which no run checks
to this extent. `DumpIsWhole` speaks of one file. The invariant `PInv` has to say
that a save in progress writes what the table shows now, and that one whose file has
been renamed to `dump.rdb` by the save on top of it finds there already what it goes
on to write (`FramesOK`); and whose the tmp file is and how much it holds (`TmpOK`). `Alone` adds what
holds when signals come between commands only: one call at a time, its tmp file in place.

`ListProofs` proves, for every finite set of nodes, any values and any indices
(`ListAssumption`), and with no other hypothesis:

- `ListsAreIntact`: `ListSpec => []Intact`;
- `WalksAreSafe`: `ListSpec => []WalkFindsOldOrNew`;
- `ListsAreSequences`: `ListSpec => ImplementsDeque`, the refinement of `Deque`.

`Intact` says nothing of the middle of a call. `LInv` names the path through the nodes as
seen from the end the call works on, and for every statement how far the links of a
new or leaving node are in place (`InCall`), in `list_destroy` which part is left
(`Leaving`). Seen from the other end the path is turned round (`SeenFromOther`), so that
each statement is proved once for both ends. `MetChain` says that a walk along a
chain finds its values.

`RespProofs` proves `WholeValuesAreRead`: of a buffer that begins with what `resp.c` wrote
for a value, or that is the beginning of it, the parsers give back that value and the
number of its units, and *incomplete* as long as one is missing. It holds for every
`Readable` value: texts of one line that `resp_buf_appendf` has room for, any number, bulk strings
(without a zero byte in C), nil, and arrays of these, of any length. A stream cannot tell a
bulk string that contains a CRLF from a line; the parser does by counting. First the
recursive function has to have its equation (`ItemsEquation`): TLA+ defines it by `CHOOSE`,
so a solution must be shown to exist, which is built from the end of the buffer backwards,
since every value read leaves less of it. Then `ItemsRead` goes from the last item of an
array to the first.

`ClientProofs` proves, for all sessions, posts, buffer sizes and replies within the
hypotheses, with a server that ends at any time and a timer that races the reply:

| Theorem | States | If |
|---|---|---|
| `ProxyTellsTheTruth` | `Spec => []ResultIsTrue` | `ProxyReads` |
| `ProxyAnswersWholeReplies` | `Spec => []WholeReplyAnswers` | the same |
| `CliShowsInStep` | `Spec => []ShownInStep` | `CliReads` |
| `CliExecutesAsMeant` | `Spec => []ExecutedAsMeant` | `CliReads` and `LinesFit` |

The hypotheses exclude what section 3 lists: texts that `resp_buf_appendf` cuts or that are two lines, and for the
proxy letters of several bytes (`ProxyReads`); replies larger than the buffer of
`recv_response` and zero bytes in the input (`CliReads`); lines that `fgets` cuts
(`LinesFit`). The instance of `Clients` satisfies them; TLC evaluates the part on replies
(`RepliesFit`). `LinesFit` also says that a session means what `build_command` makes of its
lines: that these are the words a user has in mind is what the two sessions of the run
show, with their meaning written out by hand; the theorem shows that they reach the server
whole, once, in order, and none after the line that ends the client.

`ShownInStep` speaks of the past only. `CliInv` adds what is under way: between two
requests nothing is (`TurnInv`), and within one the part of the reply received and the part
on the wire are together the reply (`Arriving`). Were a unit left over, the next reply would
begin with it. `ExecutedInv` adds how far the input is read (`InputAt`: up to the end of a
line, or to its newline when the buffer was just full, and then a blank line follows) and
that what was asked is what the lines so far mean (`Reading`). For the proxy, `ProxyInv` ties
socket, timer and answer to what is on the wire.

Some facts need an induction over natural numbers. The library's induction theorems take
an operator as a parameter, which the provers cannot instantiate; these proofs take the
least element of the set of exceptions instead (`WFMin` of `WellFoundedInduction`), so
the property is stated as a set each time (`Induction` and `Upwards` in `RespProofs`).

Only model-checked:

- all liveness: `CallReturns`, `StopsWhenTold`, `Answered`, `ExpiredIsSwept`,
  `PromptReturns`, `PostIsAnswered` (TLAPS does not reason about fairness and
  `ENABLED`);
- `ServesStore`, in instances where no two keys share a home slot (a theorem with that
  hypothesis would say little); and `LossHasACause`.

## 5. Not modelled

- The bytes of FNV-1a, of RESP and of the snapshot format; number formatting. Texts
  that parse to the same integer (`007`, `+5`) are one.
- Items of a request that are no strings (a null bulk string, an integer). `get_arg`
  returns NULL for them (`command.c:17`) and the handlers hand it to `ht_hash`, `strlen` or
  `atoi`: undefined, in practice the end of the process.
- A signal after `db_destroy` (`main.c:81`): `g_server` is never reset (`main.c:28`), so the handler
  saves a freed database, which is undefined too. `Persist` ends the process there.
- Memory: allocation failure ends the process in `util.c`.
- `PING`, printing, HTTP headers and the static page: they change no state.
- Letters of three and four bytes at the proxy; two show the case.
- What the C library does when a signal handler calls `printf`, `malloc` or stdio on
  top of the same: undefined.
- The page cache: what reached a file before a crash is there after it. The code
  never syncs, so a power failure may lose more.
- Descriptor numbers against `FD_SETSIZE`, the Windows branches.
- That a compiler may move the writes of `list.c` past each other.
- `web/index.html`, the build.

## 6. Plan

Model:

1. A system module: `Server`, `Commands` and `Persist` on one table, `SHUTDOWN` from the
   socket to the disk.
2. A page cache in `Persist`.

Prove:

- That `ht_find` finds every entry as long as no call of `ht_set` swaps and no tombstone
  stands before a key: a hypothesis on histories. With it, `ServesStore`.
