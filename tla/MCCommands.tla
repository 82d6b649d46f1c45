------------------------------ MODULE MCCommands ------------------------------
(* Instances of Commands for TLC, one per group of commands: each runs with *)
(* DEL, FLUSHDB, the clock and the sweep, the groups differ in the others.  *)
EXTENDS Commands, MCTable

\* "1" is the text that strtoll accepts, "a" the one it does not.
Parse == ("1" :> 1)

\* Numbers of two and three bits, and arguments: before the epoch (which is
\* 3 ticks ago) for Strings, in the past, in the future.
Int64Min == -2
Timeouts == {-2, -1, 1}
Positions == -2 .. 1

Lefts == {NoExpiry} \cup -1 .. 4

IntEntries    == {DbEntry(IntObj(n), l) : n \in IntMin .. IntMax, l \in Lefts}
StringEntries == {DbEntry(StrObj(x), l) : x \in Texts, l \in Lefts}
ListEntries   ==
  {DbEntry(ListObj(q), l) :
     q \in UNION {[1 .. n -> Texts] : n \in 0 .. MaxLen}, l \in Lefts}

Entries == IntEntries \cup StringEntries \cup ListEntries

StringNext ==
  \/ StringCommand \/ ManyKeyCommand \/ ExpiryCommand \/ ServerCommand
  \/ Background

\* Lists under k1; k2 comes and goes to have the table grow, shrink and fill
\* with tombstones.
ListNext ==
  \/ ListCommand(k1)
  \/ CmdSet(k1, "a", 0) \/ CmdGet(k1) \/ (\E ds \in Delays(<<1, 1>>) : CmdMget(<<k1, k1>>, ds))
  \/ HtExists(ht, k1) /\ CmdIncr(k1, 1)
  \/ CmdExpire(k1, 1, 0) \/ CmdExpire(k2, 1, 0) \/ CmdTtl(k1, 0)
  \/ CmdSet(k2, "a", 0) \/ (\E ds \in Delays(<<1, 1>>) : CmdDel(<<k2, k1>>, ds))
  \/ CmdDel(<<k2>>, <<0>>)
  \/ CmdFlushdb
  \/ Background

StringSpec == Init /\ [][StringNext]_vars
ListSpec   == Init /\ [][ListNext]_vars /\ Fairness
=============================================================================
