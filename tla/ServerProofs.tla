----------------------------- MODULE ServerProofs -----------------------------
(***************************************************************************)
(* Theorems about Server, for every set of clients, whatever they send, and *)
(* every number of slots.                                                  *)
(*                                                                         *)
(* SlotsAccounted speaks of cardinalities.  The inductive invariant says   *)
(* the same of single slots: an open connection has a slot, a slot has an  *)
(* open connection, and no two slots have the same one; and it knows where *)
(* in a turn of the loop the slot index points to a client.                *)
(***************************************************************************)
EXTENDS Server, FiniteSetTheorems, SequenceTheorems, TLAPS

Used(f) == {s \in Slots : f[s] # NoConn}

Phases ==
  /\ i \in Nat
  /\ pc = "accept" => i = 0
  /\ pc \in {"read", "parse", "write"} => i \in Slots
  /\ pc \in {"parse", "write"} => Here # NoConn

Seated ==
  /\ clients \in [Slots -> Conns \cup {NoConn}]
  /\ conn \in [Conns -> {"new", "waiting", "open", "closed"}]
  /\ \A s \in Slots : clients[s] # NoConn => conn[clients[s]] = "open"
  /\ \A c \in Conns : conn[c] = "open" => \E s \in Slots : clients[s] = c
  /\ \A r, s \in Slots : clients[r] # NoConn /\ clients[r] = clients[s] => r = s

Counted == count = Cardinality(Used(clients))

SInv == Phases /\ Seated /\ Counted

-----------------------------------------------------------------------------
\* Taking a free slot and leaving a taken one change the number by one.
LEMMA Seats ==
  ASSUME NEW f \in [Slots -> Conns \cup {NoConn}], NEW s \in Slots
  PROVE  /\ IsFiniteSet(Used(f)) /\ Cardinality(Used(f)) \in Nat
         /\ \A c \in Conns : f[s] = NoConn =>
              Cardinality(Used([f EXCEPT ![s] = c])) = Cardinality(Used(f)) + 1
         /\ f[s] # NoConn =>
              Cardinality(Used([f EXCEPT ![s] = NoConn])) = Cardinality(Used(f)) - 1
<1>1. IsFiniteSet(Slots)
  <2>1. 0 \in Int /\ MaxClients - 1 \in Int
    BY ServerAssumption
  <2> QED
    BY <2>1, FS_Interval DEF Slots
<1>2. IsFiniteSet(Used(f))
  <2>1. Used(f) \subseteq Slots
    BY DEF Used
  <2> QED
    BY <1>1, <2>1, FS_Subset
<1>3. Cardinality(Used(f)) \in Nat
  BY <1>2, FS_CardinalityType
<1>4. ASSUME NEW c \in Conns, f[s] = NoConn
      PROVE  Cardinality(Used([f EXCEPT ![s] = c])) = Cardinality(Used(f)) + 1
  <2>1. Used([f EXCEPT ![s] = c]) = Used(f) \cup {s} /\ s \notin Used(f)
    BY <1>4, ServerAssumption DEF Used
  <2> QED
    BY <1>2, <2>1, FS_AddElement
<1>5. ASSUME f[s] # NoConn
      PROVE  Cardinality(Used([f EXCEPT ![s] = NoConn])) = Cardinality(Used(f)) - 1
  <2>1. Used([f EXCEPT ![s] = NoConn]) = Used(f) \ {s} /\ s \in Used(f)
    BY <1>5 DEF Used
  <2> QED
    BY <1>2, <2>1, FS_RemoveElement
<1> QED
  BY <1>2, <1>3, <1>4, <1>5

\* Nobody is seated when every connection is closed.
LEMMA AllGone ==
  ASSUME SInv, Disconnected
  PROVE  Seated' /\ Counted'
<1>1. /\ clients' = [s \in Slots |-> NoConn]
      /\ conn' = [c \in Conns |-> IF conn[c] = "new" THEN "new" ELSE "closed"]
      /\ count' = count - Cardinality(Used(clients))
  BY DEF Disconnected, Used
<1>2. Seated'
  BY <1>1 DEF SInv, Seated
<1>3. Used(clients') = {}
  BY <1>1 DEF Used
<1>4. 0 \in Slots
  BY ServerAssumption DEF Slots
<1>5. count = Cardinality(Used(clients)) /\ count \in Nat
  BY <1>4, Seats DEF SInv, Seated, Counted
<1>6. count' = 0
  BY <1>1, <1>5
<1> QED
  BY <1>2, <1>3, <1>6, FS_EmptySet DEF Counted

\* server_remove_client takes one connection, its slot and one of the count.
LEMMA Removed ==
  ASSUME SInv, i \in Slots, Here # NoConn, RemoveClient(i)
  PROVE  Seated' /\ Counted'
<1>1. /\ clients \in [Slots -> Conns \cup {NoConn}] /\ clients[i] \in Conns
      /\ conn' = [conn EXCEPT ![clients[i]] = "closed"]
      /\ clients' = [clients EXCEPT ![i] = NoConn]
      /\ count' = count - 1
  BY DEF SInv, Seated, RemoveClient, Here
<1>2. Seated'
  BY <1>1 DEF SInv, Seated
<1>3. Counted'
  BY <1>1, Seats DEF SInv, Counted, Here
<1> QED
  BY <1>2, <1>3

\* The next slot, or the sweep behind the last one.
LEMMA Advanced ==
  ASSUME SInv, i \in Slots, Advance
  PROVE  Phases'
<1>1. i' = i + 1 /\ pc' = IF i + 1 \in Slots THEN "read" ELSE "sweep"
  BY DEF Advance
<1> QED
  BY <1>1, ServerAssumption DEF Phases, Slots

-----------------------------------------------------------------------------
LEMMA InitHolds == Init => SInv
<1> SUFFICES ASSUME Init PROVE SInv
  OBVIOUS
<1>1. Phases
  BY DEF Init, Phases
<1>2. Seated
  BY DEF Init, Seated
<1>3. Used(clients) = {}
  BY DEF Init, Used
<1> QED
  BY <1>1, <1>2, <1>3, FS_EmptySet DEF Init, Counted, SInv

\* server_accept: the refused client gets no slot, the accepted one the first.
LEMMA AcceptStep ==
  ASSUME SInv, Accept
  PROVE  SInv'
<1>1. Phases'
  BY ServerAssumption DEF SInv, Phases, Accept, Slots, Here
<1>2. PICK c \in Conns :
        /\ conn[c] = "waiting"
        /\ IF count >= MaxClients
             THEN /\ conn' = [conn EXCEPT ![c] = "closed"]
                  /\ UNCHANGED <<clients, count>>
             ELSE /\ conn' = [conn EXCEPT ![c] = "open"]
                  /\ \E s \in Slots :
                       /\ clients[s] = NoConn
                       /\ clients' = [clients EXCEPT ![s] = c]
                  /\ count' = count + 1
  BY DEF Accept
<1>3. CASE count >= MaxClients
  BY <1>1, <1>2, <1>3 DEF SInv, Seated, Counted
<1>4. CASE ~(count >= MaxClients)
  <2>1. PICK s \in Slots :
          clients[s] = NoConn /\ clients' = [clients EXCEPT ![s] = c]
    BY <1>2, <1>4
  <2>2. Seated'
    BY <1>2, <1>4, <2>1, ServerAssumption DEF SInv, Seated
  <2>3. Counted'
    <3>1. clients \in [Slots -> Conns \cup {NoConn}]
      BY DEF SInv, Seated
    <3>2. Cardinality(Used([clients EXCEPT ![s] = c])) =
            Cardinality(Used(clients)) + 1
      BY <2>1, <3>1, Seats
    <3>3. count' = count + 1
      BY <1>2, <1>4
    <3> QED
      BY <2>1, <3>2, <3>3 DEF SInv, Counted
  <2> QED
    BY <1>1, <2>2, <2>3 DEF SInv
<1> QED
  BY <1>3, <1>4

\* A step that removes the client of the slot and goes on to the next slot.
LEMMA RemovingStep ==
  ASSUME SInv, RecvEnds \/ SendFails
  PROVE  SInv'
<1>1. i \in Slots /\ Here # NoConn
  BY DEF SInv, Phases, RecvEnds, SendFails
<1>2. RemoveClient(i) /\ Advance
  BY DEF RecvEnds, SendFails
<1> QED
  BY <1>1, <1>2, Removed, Advanced DEF SInv

\* A step that leaves slots, count and connections alone.
LEMMA QuietStep ==
  ASSUME SInv, Phases', UNCHANGED <<clients, count, conn>>
  PROVE  SInv'
BY DEF SInv, Seated, Counted

LEMMA LoopStep ==
  ASSUME SInv, Loop
  PROVE  SInv'
<1>1. CASE Select
  <2>1. Phases'
    BY <1>1 DEF Select, Phases
  <2> QED
    BY <1>1, <2>1, QuietStep DEF Select
<1>2. CASE Accept
  BY <1>2, AcceptStep
<1>3. CASE NoAccept
  <2>1. Phases'
    BY <1>3, ServerAssumption DEF NoAccept, SInv, Phases, Slots
  <2> QED
    BY <1>3, <2>1, QuietStep DEF NoAccept
<1>4. CASE SkipSlot \/ SkipWrite \/ SendReply
  <2>1. i \in Slots /\ Advance
    BY <1>4 DEF SkipSlot, SkipWrite, SendReply, SInv, Phases
  <2> QED
    BY <1>4, <2>1, Advanced, QuietStep DEF SkipSlot, SkipWrite, SendReply
<1>5. CASE SkipRead \/ Recv
  <2>1. Phases'
    BY <1>5 DEF SkipRead, Recv, SInv, Phases, Here
  <2> QED
    BY <1>5, <2>1, QuietStep DEF SkipRead, Recv
<1>6. CASE RecvEnds \/ SendFails
  BY <1>6, RemovingStep
<1>7. CASE Execute \/ StopParsing
  <2>1. Phases'
    BY <1>7 DEF Execute, StopParsing, SInv, Phases, Here
  <2> QED
    BY <1>7, <2>1, QuietStep DEF Execute, StopParsing
<1>8. CASE EndTurn
  <2>1. Phases'
    BY <1>8 DEF EndTurn, Phases
  <2> QED
    BY <1>8, <2>1, QuietStep DEF EndTurn
<1>9. CASE BrokenPipe \/ Cleanup \/ SelectFails
  <2>1. Disconnected /\ i' = i /\ pc' = "done"
    BY <1>9 DEF BrokenPipe, Cleanup, SelectFails, Disconnected
  <2>2. Phases'
    BY <2>1 DEF SInv, Phases
  <2> QED
    BY <2>1, <2>2, AllGone DEF SInv
<1>10. CASE Listen \/ ListenFails
  <2>1. Phases'
    BY <1>10 DEF Listen, ListenFails, SInv, Phases
  <2> QED
    BY <1>10, <2>1, QuietStep DEF Listen, ListenFails
<1> QED
  BY <1>1, <1>2, <1>3, <1>4, <1>5, <1>6, <1>7, <1>8, <1>9, <1>10 DEF Loop

\* A signal changes neither slots nor the place in the loop.
LEMMA SignalStep ==
  ASSUME SInv, Signal
  PROVE  SInv'
<1>1. Phases'
  BY DEF Signal, SInv, Phases, Here
<1> QED
  BY <1>1, QuietStep DEF Signal

\* What clients do by themselves touches no slot; who waits is not seated.
LEMMA ClientStep ==
  ASSUME SInv, NEW c \in Conns, Connect(c) \/ Send(c) \/ HangUp(c)
  PROVE  SInv'
<1>1. UNCHANGED <<clients, count, pc, i>>
  BY DEF Connect, Send, HangUp, loop
<1>2. Phases'
  BY <1>1 DEF SInv, Phases, Here
<1>3. CASE Connect(c)
  <2>1. conn[c] = "new" /\ conn' = [conn EXCEPT ![c] = "waiting"]
    BY <1>3 DEF Connect
  <2>2. Seated'
    BY <1>1, <2>1 DEF SInv, Seated
  <2> QED
    BY <1>1, <1>2, <2>2 DEF SInv, Counted
<1>4. CASE Send(c) \/ HangUp(c)
  <2>1. conn' = conn
    BY <1>4 DEF Send, HangUp
  <2> QED
    BY <1>1, <1>2, <2>1, QuietStep
<1> QED
  BY <1>3, <1>4

\* SInv is an invariant of the event loop.
THEOREM ServerInvariance == Spec => []SInv
<1>1. Init => SInv
  BY InitHolds
<1>2. SInv /\ [Next]_svars => SInv'
  <2> SUFFICES ASSUME SInv, [Next]_svars PROVE SInv'
    OBVIOUS
  <2>1. CASE Loop
    BY <2>1, LoopStep
  <2>2. CASE \E c \in Conns : Connect(c) \/ Send(c) \/ HangUp(c)
    BY <2>2, ClientStep
  <2>3. CASE Signal
    BY <2>3, SignalStep
  <2>4. CASE UNCHANGED svars
    <3>1. UNCHANGED <<clients, count, conn, pc, i>>
      BY <2>4 DEF svars, loop
    <3>2. Phases'
      BY <3>1 DEF SInv, Phases, Here
    <3> QED
      BY <3>1, <3>2, QuietStep
  <2> QED
    BY <2>1, <2>2, <2>3, <2>4 DEF Next
<1> QED
  BY <1>1, <1>2, PTL DEF Spec

\* client_count is the number of taken slots, an open connection has exactly
\* one slot and any other has none, at every step of the loop, through
\* refused, accepted, failing and departing clients and the end of the server.
THEOREM SlotsAreAccounted == Spec => []SlotsAccounted
<1>1. SInv => SlotsAccounted
  <2> SUFFICES ASSUME SInv PROVE SlotsAccounted
    OBVIOUS
  <2>1. count = Cardinality({s \in Slots : clients[s] # NoConn})
    BY DEF SInv, Counted, Used
  <2>2. ASSUME NEW c \in Conns
        PROVE  Cardinality({s \in Slots : clients[s] = c}) =
                 IF conn[c] = "open" THEN 1 ELSE 0
    <3>1. c # NoConn
      BY ServerAssumption
    <3>2. CASE conn[c] = "open"
      <4>1. PICK r \in Slots : clients[r] = c
        BY <3>2 DEF SInv, Seated
      <4>2. {s \in Slots : clients[s] = c} = {r}
        BY <3>1, <4>1 DEF SInv, Seated
      <4> QED
        BY <3>2, <4>2, FS_Singleton
    <3>3. CASE conn[c] # "open"
      <4>1. {s \in Slots : clients[s] = c} = {}
        BY <3>1, <3>3 DEF SInv, Seated
      <4> QED
        BY <3>3, <4>1, FS_EmptySet
    <3> QED
      BY <3>2, <3>3
  <2> QED
    BY <2>1, <2>2 DEF SlotsAccounted
<1> QED
  BY <1>1, ServerInvariance, PTL
-----------------------------------------------------------------------------
(***************************************************************************)
(* Theorems about the data of Server: the buffers keep their bounds, and   *)
(* every client gets the replies to its requests in order, however recv    *)
(* and send cut the streams.                                               *)
(*                                                                         *)
(* RepliesInOrder is not inductive: that the next reply queued is the one  *)
(* due rests on what is at the start of the read buffer, and that rests on *)
(* everything still behind it in the buffer and under way.  Incoming says  *)
(* that the buffer and the network together are the part of the client's   *)
(* stream of requests that begins where the executed requests end.         *)
(***************************************************************************)

Units == Nat \X Nat

Streams ==
  /\ net \in [Conns -> Seq(Units)] /\ rbuf \in [Conns -> Seq(Units)]
  /\ wbuf \in [Conns -> Seq(Units)] /\ got \in [Conns -> Seq(Units)]
  /\ wpos \in [Conns -> Nat]
  /\ sent \in [Conns -> Nat] /\ ran \in [Conns -> Nat]

Bounds ==
  /\ \A c \in Conns : Len(rbuf[c]) <= BufSize
  /\ \A c \in Conns : wpos[c] = 0 \/ wpos[c] < Len(wbuf[c])

\* Of a client that has sent s units and had r requests executed, b is in the
\* read buffer and n under way.
Behind(s, r, b, n) ==
  /\ s = r * RequestUnits + Len(b) + Len(n)
  /\ \A k \in 1 .. Len(b) : b[k] = Unit(r * RequestUnits + k)
  /\ \A k \in 1 .. Len(n) : n[k] = Unit(r * RequestUnits + Len(b) + k)

Incoming == \A c \in Conns : Behind(sent[c], ran[c], rbuf[c], net[c])

\* What is left of a write buffer b from which p units have been sent.
Rest(b, p) == SubSeq(b, p + 1, Len(b))

Outgoing == \A c \in Conns : got[c] \o Rest(wbuf[c], wpos[c]) = Replies(ran[c])

DInv == Streams /\ Bounds /\ Incoming /\ Outgoing

-----------------------------------------------------------------------------
(* Arithmetic of units                                                     *)
LEMMA Division ==
  ASSUME NEW n \in Nat, NEW w \in Nat \ {0}, NEW r \in 0 .. w - 1
  PROVE  (n * w + r) \div w = n /\ (n * w + r) % w = r
BY Z3

\* A unit has a request and a place in it.
LEMMA UnitType ==
  ASSUME NEW n \in Nat \ {0}
  PROVE  Unit(n) \in Units
<1>1. (n - 1) \div RequestUnits \in Nat /\ (n - 1) % RequestUnits \in Nat
  BY ServerAssumption, Z3
<1> QED
  BY <1>1 DEF Unit, Units

\* Behind r whole requests the next one begins.
LEMMA FirstUnit ==
  ASSUME NEW r \in Nat
  PROVE  Unit(r * RequestUnits + 1) = <<r + 1, 1>>
<1>1. /\ r * RequestUnits \in Nat
      /\ (r * RequestUnits) \div RequestUnits = r
      /\ (r * RequestUnits) % RequestUnits = 0
  BY Division, ServerAssumption
<1>2. (r * RequestUnits + 1) - 1 = r * RequestUnits
  BY <1>1
<1> QED
  BY <1>1, <1>2 DEF Unit

Reply(j) == [u \in 1 .. ReplyUnits |-> <<j, u>>]

LEMMA ReplyType ==
  ASSUME NEW j \in Nat
  PROVE  /\ Reply(j) \in Seq(Units) /\ Len(Reply(j)) = ReplyUnits
         /\ \A u \in 1 .. ReplyUnits : Reply(j)[u] = <<j, u>>
<1>1. ReplyUnits \in Nat
  BY ServerAssumption
<1>2. Reply(j) \in [1 .. ReplyUnits -> Units]
  BY <1>1 DEF Reply, Units
<1>3. Reply(j) \in Seq(Units)
  BY <1>1, <1>2
<1>4. DOMAIN Reply(j) = 1 .. ReplyUnits
  BY DEF Reply
<1>5. Len(Reply(j)) = ReplyUnits
  BY <1>1, <1>3, <1>4, LenProperties
<1> QED
  BY <1>3, <1>5 DEF Reply

LEMMA RepliesType ==
  ASSUME NEW n \in Nat
  PROVE  /\ Replies(n) \in Seq(Units) /\ Len(Replies(n)) = n * ReplyUnits
         /\ n * ReplyUnits \in Nat
<1>1. n * ReplyUnits \in Nat /\ ReplyUnits \in Nat \ {0}
  BY ServerAssumption
<1>2. ASSUME NEW u \in 1 .. n * ReplyUnits
      PROVE  <<1 + ((u - 1) \div ReplyUnits), 1 + ((u - 1) % ReplyUnits)>> \in Units
  <2>1. (u - 1) \div ReplyUnits \in Nat /\ (u - 1) % ReplyUnits \in Nat
    BY <1>1, Z3
  <2> QED
    BY <2>1 DEF Units
<1>3. Replies(n) \in [1 .. n * ReplyUnits -> Units]
  BY <1>2 DEF Replies
<1>4. Replies(n) \in Seq(Units)
  BY <1>1, <1>3
<1>5. DOMAIN Replies(n) = 1 .. n * ReplyUnits
  BY DEF Replies
<1> QED
  BY <1>1, <1>4, <1>5, LenProperties

\* The replies to one more request are those to the others, and its own.
LEMMA OneMoreReply ==
  ASSUME NEW n \in Nat
  PROVE  Replies(n + 1) = Replies(n) \o Reply(n + 1)
<1> DEFINE s == Replies(n + 1)
           t == Replies(n) \o Reply(n + 1)
<1>1. /\ ReplyUnits \in Nat \ {0} /\ n + 1 \in Nat
      /\ n * ReplyUnits \in Nat /\ (n + 1) * ReplyUnits = n * ReplyUnits + ReplyUnits
  BY ServerAssumption
<1>2. s \in Seq(Units) /\ Len(s) = n * ReplyUnits + ReplyUnits
  BY <1>1, RepliesType
<1>3. /\ Replies(n) \in Seq(Units) /\ Len(Replies(n)) = n * ReplyUnits
      /\ Reply(n + 1) \in Seq(Units) /\ Len(Reply(n + 1)) = ReplyUnits
      /\ \A u \in 1 .. ReplyUnits : Reply(n + 1)[u] = <<n + 1, u>>
  BY <1>1, RepliesType, ReplyType
<1>4. /\ t \in Seq(Units) /\ Len(t) = n * ReplyUnits + ReplyUnits
      /\ \A u \in 1 .. n * ReplyUnits + ReplyUnits :
           t[u] = IF u <= n * ReplyUnits THEN Replies(n)[u]
                                         ELSE Reply(n + 1)[u - n * ReplyUnits]
  <2>1. /\ t \in Seq(Units) /\ Len(t) = Len(Replies(n)) + Len(Reply(n + 1))
        /\ \A u \in 1 .. Len(Replies(n)) + Len(Reply(n + 1)) :
             t[u] = IF u <= Len(Replies(n)) THEN Replies(n)[u]
                                            ELSE Reply(n + 1)[u - Len(Replies(n))]
    BY <1>3, ConcatProperties
  <2> HIDE DEF t
  <2> QED
    BY <1>3, <2>1
<1>5. ASSUME NEW u \in 1 .. n * ReplyUnits + ReplyUnits
      PROVE  s[u] = t[u]
  <2>1. s[u] = <<1 + ((u - 1) \div ReplyUnits), 1 + ((u - 1) % ReplyUnits)>>
    BY <1>1 DEF Replies
  <2>2. CASE u <= n * ReplyUnits
    <3>1. u \in 1 .. n * ReplyUnits
      BY <1>1, <2>2
    <3>2. Replies(n)[u] = <<1 + ((u - 1) \div ReplyUnits), 1 + ((u - 1) % ReplyUnits)>>
      BY <3>1 DEF Replies
    <3> QED
      BY <1>4, <2>1, <2>2, <3>2
  <2>3. CASE ~(u <= n * ReplyUnits)
    <3> DEFINE v == u - n * ReplyUnits
    <3>1. v - 1 \in 0 .. ReplyUnits - 1 /\ v \in 1 .. ReplyUnits
      BY <1>1, <2>3
    <3>2. (u - 1) = n * ReplyUnits + (v - 1)
      BY <1>1
    <3> HIDE DEF v
    <3>3. (n * ReplyUnits + (v - 1)) \div ReplyUnits = n
          /\ (n * ReplyUnits + (v - 1)) % ReplyUnits = v - 1
      BY <1>1, <3>1, Division
    <3>4. (u - 1) \div ReplyUnits = n /\ (u - 1) % ReplyUnits = v - 1
      BY <3>2, <3>3
    <3>5. s[u] = <<n + 1, v>>
      BY <2>1, <3>1, <3>4
    <3>6. t[u] = Reply(n + 1)[v]
      BY <1>1, <1>4, <2>3 DEF v
    <3> QED
      BY <1>3, <3>1, <3>5, <3>6
  <2> QED
    BY <2>2, <2>3
<1> QED
  BY <1>2, <1>4, <1>5, SeqEqual

-----------------------------------------------------------------------------
(* What a step does to the streams of one client                           *)
LEMMA Cut ==
  ASSUME NEW b \in Seq(Units), NEW k \in 0 .. Len(b)
  PROVE  /\ SubSeq(b, 1, k) \in Seq(Units) /\ Len(SubSeq(b, 1, k)) = k
         /\ \A j \in 1 .. k : SubSeq(b, 1, k)[j] = b[j]
         /\ SubSeq(b, k + 1, Len(b)) \in Seq(Units)
         /\ Len(SubSeq(b, k + 1, Len(b))) = Len(b) - k
         /\ \A j \in 1 .. Len(b) - k : SubSeq(b, k + 1, Len(b))[j] = b[k + j]
         /\ SubSeq(b, 1, k) \o SubSeq(b, k + 1, Len(b)) = b
<1>1. /\ Len(b) \in Nat /\ k \in Nat /\ k + 1 \in Int /\ k <= Len(b)
      /\ \A j \in 1 .. Len(b) : b[j] \in Units
  BY LenProperties, ElementOfSeq
<1>2. /\ \A j \in 1 .. k : b[j] \in Units
      /\ \A j \in k + 1 .. Len(b) : b[j] \in Units
  BY <1>1
<1>3. /\ SubSeq(b, 1, k) \in Seq(Units)
      /\ Len(SubSeq(b, 1, k)) = IF 1 <= k THEN k - 1 + 1 ELSE 0
      /\ \A j \in 1 .. k - 1 + 1 : SubSeq(b, 1, k)[j] = b[1 + j - 1]
  BY <1>1, <1>2, SubSeqProperties
<1>4. /\ SubSeq(b, k + 1, Len(b)) \in Seq(Units)
      /\ Len(SubSeq(b, k + 1, Len(b))) =
           IF k + 1 <= Len(b) THEN Len(b) - (k + 1) + 1 ELSE 0
      /\ \A j \in 1 .. Len(b) - (k + 1) + 1 :
           SubSeq(b, k + 1, Len(b))[j] = b[k + 1 + j - 1]
  BY <1>1, <1>2, SubSeqProperties
<1>5. SubSeq(b, 1, k) \o SubSeq(b, k + 1, Len(b)) = SubSeq(b, 1, Len(b))
  <2>1. 1 \in 1 .. Len(b) + 1 /\ k \in 1 - 1 .. Len(b) /\ Len(b) \in k .. Len(b)
    BY <1>1
  <2> QED
    BY <2>1, ConcatAdjacentSubSeq, Zenon
<1>6. SubSeq(b, 1, Len(b)) = b
  BY SubSeqFull
<1>7. /\ Len(SubSeq(b, 1, k)) = k
      /\ \A j \in 1 .. k : SubSeq(b, 1, k)[j] = b[j]
  BY <1>1, <1>3
<1>8. /\ Len(SubSeq(b, k + 1, Len(b))) = Len(b) - k
      /\ \A j \in 1 .. Len(b) - k : SubSeq(b, k + 1, Len(b))[j] = b[k + j]
  BY <1>1, <1>4
<1> QED
  BY <1>3, <1>4, <1>5, <1>6, <1>7, <1>8, Zenon

\* A unit more under way.
LEMMA UnitSent ==
  ASSUME NEW s \in Nat, NEW r \in Nat, NEW b \in Seq(Units), NEW n \in Seq(Units),
         Behind(s, r, b, n)
  PROVE  /\ Append(n, Unit(s + 1)) \in Seq(Units)
         /\ Behind(s + 1, r, b, Append(n, Unit(s + 1)))
<1> DEFINE m == Append(n, Unit(s + 1))
           d == r * RequestUnits
<1>1. d \in Nat /\ Len(b) \in Nat /\ Len(n) \in Nat
  BY ServerAssumption, LenProperties
<1>2. Unit(s + 1) \in Units
  BY UnitType
<1>3. /\ m \in Seq(Units) /\ Len(m) = Len(n) + 1
      /\ \A k \in 1 .. Len(n) : m[k] = n[k]
      /\ m[Len(n) + 1] = Unit(s + 1)
  BY <1>2, AppendProperties
<1>4. /\ s = d + Len(b) + Len(n)
      /\ \A k \in 1 .. Len(b) : b[k] = Unit(d + k)
      /\ \A k \in 1 .. Len(n) : n[k] = Unit(d + Len(b) + k)
  BY DEF Behind
<1> HIDE DEF m, d
<1>5. s + 1 = d + Len(b) + Len(m)
  BY <1>1, <1>3, <1>4
<1>6. ASSUME NEW k \in 1 .. Len(m)
      PROVE  m[k] = Unit(d + Len(b) + k)
  <2>1. CASE k \in 1 .. Len(n)
    BY <1>3, <1>4, <2>1
  <2>2. CASE k = Len(n) + 1
    <3>1. s + 1 = d + Len(b) + k
      BY <1>1, <1>4, <2>2
    <3> QED
      BY <1>3, <2>2, <3>1
  <2> QED
    BY <1>1, <1>3, <2>1, <2>2
<1> QED
  BY <1>3, <1>4, <1>5, <1>6 DEF Behind, m, d

\* recv moves k units from the network to the buffer.
LEMMA UnitsReceived ==
  ASSUME NEW s \in Nat, NEW r \in Nat, NEW b \in Seq(Units), NEW n \in Seq(Units),
         Behind(s, r, b, n), NEW k \in 1 .. Len(n)
  PROVE  /\ b \o SubSeq(n, 1, k) \in Seq(Units)
         /\ Len(b \o SubSeq(n, 1, k)) = Len(b) + k
         /\ SubSeq(n, k + 1, Len(n)) \in Seq(Units)
         /\ Behind(s, r, b \o SubSeq(n, 1, k), SubSeq(n, k + 1, Len(n)))
<1> DEFINE f == SubSeq(n, 1, k)
           g == SubSeq(n, k + 1, Len(n))
           e == b \o f
           d == r * RequestUnits
<1>1. /\ d \in Nat /\ Len(b) \in Nat /\ Len(n) \in Nat /\ k \in Nat
      /\ k \in 0 .. Len(n) /\ k <= Len(n)
  BY ServerAssumption, LenProperties
<1>2. /\ f \in Seq(Units) /\ Len(f) = k /\ \A j \in 1 .. k : f[j] = n[j]
      /\ g \in Seq(Units) /\ Len(g) = Len(n) - k
      /\ \A j \in 1 .. Len(n) - k : g[j] = n[k + j]
  BY <1>1, Cut
<1>3. /\ e \in Seq(Units) /\ Len(e) = Len(b) + Len(f)
      /\ \A j \in 1 .. Len(b) + Len(f) :
           e[j] = IF j <= Len(b) THEN b[j] ELSE f[j - Len(b)]
  BY <1>2, ConcatProperties
<1>4. /\ s = d + Len(b) + Len(n)
      /\ \A j \in 1 .. Len(b) : b[j] = Unit(d + j)
      /\ \A j \in 1 .. Len(n) : n[j] = Unit(d + Len(b) + j)
  BY DEF Behind
<1> HIDE DEF d, e, f, g
<1>5. s = d + Len(e) + Len(g) /\ Len(e) = Len(b) + k
  BY <1>1, <1>2, <1>3, <1>4
<1>6. ASSUME NEW j \in 1 .. Len(e)
      PROVE  e[j] = Unit(d + j)
  <2>1. CASE j <= Len(b)
    BY <1>1, <1>2, <1>3, <1>4, <2>1
  <2>2. CASE ~(j <= Len(b))
    <3>1. j - Len(b) \in 1 .. k /\ j - Len(b) \in 1 .. Len(n)
      BY <1>1, <1>5, <2>2
    <3>2. e[j] = n[j - Len(b)]
      BY <1>2, <1>3, <2>2, <3>1
    <3>3. d + Len(b) + (j - Len(b)) = d + j
      BY <1>1
    <3> QED
      BY <1>4, <3>1, <3>2, <3>3
  <2> QED
    BY <2>1, <2>2
<1>7. ASSUME NEW j \in 1 .. Len(g)
      PROVE  g[j] = Unit(d + Len(e) + j)
  <2>1. k + j \in 1 .. Len(n) /\ g[j] = n[k + j]
    BY <1>1, <1>2
  <2>2. d + Len(b) + (k + j) = d + Len(e) + j
    BY <1>1, <1>5
  <2> QED
    BY <1>4, <2>1, <2>2
<1>8. Behind(s, r, e, g)
  BY <1>5, <1>6, <1>7 DEF Behind, d
<1> QED
  BY <1>2, <1>3, <1>5, <1>8 DEF e, f, g

\* A whole request leaves the buffer.
LEMMA RequestConsumed ==
  ASSUME NEW s \in Nat, NEW r \in Nat, NEW b \in Seq(Units), NEW n \in Seq(Units),
         Behind(s, r, b, n), Len(b) >= RequestUnits
  PROVE  /\ SubSeq(b, RequestUnits + 1, Len(b)) \in Seq(Units)
         /\ Len(SubSeq(b, RequestUnits + 1, Len(b))) = Len(b) - RequestUnits
         /\ Behind(s, r + 1, SubSeq(b, RequestUnits + 1, Len(b)), n)
<1> DEFINE e == SubSeq(b, RequestUnits + 1, Len(b))
           d == r * RequestUnits
<1>1. /\ d \in Nat /\ Len(b) \in Nat /\ Len(n) \in Nat /\ RequestUnits \in Nat
      /\ RequestUnits \in 0 .. Len(b)
  BY ServerAssumption, LenProperties
<1>2. /\ e \in Seq(Units) /\ Len(e) = Len(b) - RequestUnits
      /\ \A j \in 1 .. Len(b) - RequestUnits : e[j] = b[RequestUnits + j]
  BY <1>1, Cut
<1>3. (r + 1) * RequestUnits = d + RequestUnits
  BY <1>1
<1>4. /\ s = d + Len(b) + Len(n)
      /\ \A j \in 1 .. Len(b) : b[j] = Unit(d + j)
      /\ \A j \in 1 .. Len(n) : n[j] = Unit(d + Len(b) + j)
  BY DEF Behind
<1> HIDE DEF d, e
<1>5. s = (d + RequestUnits) + Len(e) + Len(n)
  BY <1>1, <1>2, <1>4
<1>6. ASSUME NEW j \in 1 .. Len(e)
      PROVE  e[j] = Unit((d + RequestUnits) + j)
  <2>1. RequestUnits + j \in 1 .. Len(b) /\ e[j] = b[RequestUnits + j]
    BY <1>1, <1>2
  <2>2. d + (RequestUnits + j) = (d + RequestUnits) + j
    BY <1>1
  <2> QED
    BY <1>4, <2>1, <2>2
<1>7. ASSUME NEW j \in 1 .. Len(n)
      PROVE  n[j] = Unit((d + RequestUnits) + Len(e) + j)
  <2>1. d + Len(b) + j = (d + RequestUnits) + Len(e) + j
    BY <1>1, <1>2
  <2> QED
    BY <1>4, <2>1
<1>8. Behind(s, r + 1, e, n)
  BY <1>3, <1>5, <1>6, <1>7 DEF Behind
<1> QED
  BY <1>2, <1>8 DEF e
LEMMA Associative ==
  ASSUME NEW x \in Seq(Units), NEW y \in Seq(Units), NEW z \in Seq(Units)
  PROVE  (x \o y) \o z = x \o (y \o z)
OBVIOUS

LEMMA RestType ==
  ASSUME NEW w \in Seq(Units), NEW p \in 0 .. Len(w)
  PROVE  /\ Rest(w, p) \in Seq(Units) /\ Len(Rest(w, p)) = Len(w) - p
         /\ \A j \in 1 .. Len(w) - p : Rest(w, p)[j] = w[p + j]
         /\ Len(w) \in Nat
BY Cut, LenProperties DEF Rest

\* A reply is put behind what is queued.
LEMMA ReplyQueued ==
  ASSUME NEW w \in Seq(Units), NEW x \in Seq(Units), NEW p \in 0 .. Len(w)
  PROVE  Rest(w \o x, p) = Rest(w, p) \o x
<1> DEFINE l == Rest(w \o x, p)
           r == Rest(w, p) \o x
<1>1. /\ Len(w) \in Nat /\ Len(x) \in Nat /\ p \in Nat /\ p <= Len(w)
  BY LenProperties
<1>2. /\ w \o x \in Seq(Units) /\ Len(w \o x) = Len(w) + Len(x)
      /\ \A j \in 1 .. Len(w) + Len(x) :
           (w \o x)[j] = IF j <= Len(w) THEN w[j] ELSE x[j - Len(w)]
  BY ConcatProperties
<1>3. p \in 0 .. Len(w \o x)
  BY <1>1, <1>2
<1>4. /\ l \in Seq(Units) /\ Len(l) = Len(w \o x) - p
      /\ \A j \in 1 .. Len(w \o x) - p : l[j] = (w \o x)[p + j]
  BY <1>2, <1>3, RestType
<1>5. /\ Rest(w, p) \in Seq(Units) /\ Len(Rest(w, p)) = Len(w) - p
      /\ \A j \in 1 .. Len(w) - p : Rest(w, p)[j] = w[p + j]
  BY RestType
<1>6. /\ r \in Seq(Units) /\ Len(r) = Len(Rest(w, p)) + Len(x)
      /\ \A j \in 1 .. Len(Rest(w, p)) + Len(x) :
           r[j] = IF j <= Len(Rest(w, p)) THEN Rest(w, p)[j]
                                          ELSE x[j - Len(Rest(w, p))]
  BY <1>5, ConcatProperties
<1> HIDE DEF l, r
<1>7. Len(l) = Len(r) /\ Len(l) = Len(w) + Len(x) - p
  BY <1>1, <1>2, <1>4, <1>5, <1>6
<1>8. ASSUME NEW j \in 1 .. Len(l)
      PROVE  l[j] = r[j]
  <2>1. l[j] = (w \o x)[p + j] /\ p + j \in 1 .. Len(w) + Len(x)
    BY <1>1, <1>2, <1>4, <1>7
  <2>2. CASE j <= Len(w) - p
    <3>1. p + j <= Len(w) /\ j \in 1 .. Len(w) - p
      BY <1>1, <1>7, <2>2
    <3> QED
      BY <1>2, <1>5, <1>6, <1>7, <2>1, <2>2, <3>1
  <2>3. CASE ~(j <= Len(w) - p)
    <3>1. ~(p + j <= Len(w)) /\ p + j - Len(w) = j - (Len(w) - p)
      BY <1>1, <1>7, <2>3
    <3> QED
      BY <1>2, <1>5, <1>6, <1>7, <2>1, <2>3, <3>1
  <2> QED
    BY <2>2, <2>3
<1>9. l = r
  BY <1>4, <1>6, <1>7, <1>8, SeqEqual
<1> QED
  BY <1>9 DEF l, r

\* send hands over the first n units of what is left.
LEMMA UnitsDelivered ==
  ASSUME NEW g \in Seq(Units), NEW w \in Seq(Units), NEW p \in 0 .. Len(w),
         NEW n \in 1 .. Len(Rest(w, p))
  PROVE  /\ g \o SubSeq(Rest(w, p), 1, n) \in Seq(Units)
         /\ n = Len(Rest(w, p)) =>
              (g \o SubSeq(Rest(w, p), 1, n)) \o Rest(<<>>, 0) = g \o Rest(w, p)
         /\ n # Len(Rest(w, p)) =>
              /\ p + n < Len(w)
              /\ (g \o SubSeq(Rest(w, p), 1, n)) \o Rest(w, p + n) = g \o Rest(w, p)
<1> DEFINE q == Rest(w, p)
           f == SubSeq(q, 1, n)
           e == SubSeq(q, n + 1, Len(q))
<1>1. /\ q \in Seq(Units) /\ Len(q) = Len(w) - p /\ Len(w) \in Nat
      /\ \A j \in 1 .. Len(w) - p : q[j] = w[p + j]
  BY RestType
<1>2. n \in 0 .. Len(q) /\ n \in Nat /\ p \in Nat /\ n <= Len(q)
  BY <1>1
<1>3. /\ f \in Seq(Units) /\ e \in Seq(Units) /\ f \o e = q
      /\ Len(e) = Len(q) - n /\ \A j \in 1 .. Len(q) - n : e[j] = q[n + j]
  <2> HIDE DEF q
  <2> QED
    BY <1>1, <1>2, Cut
<1> HIDE DEF e, f, q
<1>4. g \o f \in Seq(Units)
  BY <1>3, ConcatProperties
<1>5. (g \o f) \o e = g \o q
  <2>1. f \in Seq(Units) /\ e \in Seq(Units)
    BY <1>3
  <2>2. (g \o f) \o e = g \o (f \o e)
    BY <2>1
  <2> QED
    BY <1>3, <2>2
<1>6. ASSUME n = Len(q)
      PROVE  Rest(<<>>, 0) = e
  <2>1. e = <<>>
    <3>1. n + 1 \in Int /\ Len(q) \in Int /\ Len(q) < n + 1
      BY <1>2, <1>6
    <3> QED
      BY <3>1, SubSeqEmpty DEF e
  <2>2. Rest(<<>>, 0) = <<>>
    BY SubSeqEmpty DEF Rest
  <2> QED
    BY <2>1, <2>2
<1>7. ASSUME n # Len(q)
      PROVE  p + n < Len(w) /\ Rest(w, p + n) = e
  <2>1. p + n < Len(w) /\ p + n \in 0 .. Len(w)
    <3>1. Len(q) = Len(w) - p /\ Len(w) \in Nat /\ Len(q) \in Int
      BY <1>1, <1>2
    <3>2. n \in Nat /\ p \in Nat /\ n < Len(q)
      BY <1>2, <1>7, <3>1
    <3> QED
      BY <3>1, <3>2
  <2>2. /\ Rest(w, p + n) \in Seq(Units) /\ Len(Rest(w, p + n)) = Len(w) - (p + n)
        /\ \A j \in 1 .. Len(w) - (p + n) : Rest(w, p + n)[j] = w[(p + n) + j]
    BY <2>1, RestType
  <2>3. Len(Rest(w, p + n)) = Len(e)
    <3>1. Len(e) = (Len(w) - p) - n
      BY <1>1, <1>3
    <3>2. (Len(w) - p) - n = Len(w) - (p + n)
      BY <1>2
    <3> QED
      BY <2>2, <3>1, <3>2
  <2>4. ASSUME NEW j \in 1 .. Len(e)
        PROVE  Rest(w, p + n)[j] = e[j]
    <3>1. e[j] = q[n + j] /\ n + j \in 1 .. Len(w) - p
      BY <1>1, <1>2, <1>3
    <3>2. q[n + j] = w[p + (n + j)] /\ p + (n + j) = (p + n) + j
      BY <1>1, <1>2, <3>1
    <3> QED
      BY <2>2, <2>3, <3>1, <3>2
  <2> QED
    BY <1>3, <2>1, <2>2, <2>3, <2>4, SeqEqual
<1> QED
  BY <1>4, <1>5, <1>6, <1>7 DEF e, f, q
-----------------------------------------------------------------------------
(* The steps                                                               *)
LEMMA StreamsBegin == Init => DInv
<1> SUFFICES ASSUME Init PROVE DInv
  OBVIOUS
<1>1. /\ <<>> \in Seq(Units) /\ Len(<<>>) = 0
      /\ 0 \in Nat /\ 0 * RequestUnits = 0 /\ 0 * ReplyUnits = 0
      /\ BufSize \in Nat
  BY EmptySeq, ServerAssumption
<1>2. Streams
  BY <1>1 DEF Init, Streams
<1>3. Bounds
  BY <1>1 DEF Init, Bounds
<1>4. Incoming
  BY <1>1 DEF Init, Incoming, Behind
<1>5. <<>> \o Rest(<<>>, 0) = Replies(0)
  <2>1. Rest(<<>>, 0) = <<>>
    BY SubSeqEmpty DEF Rest
  <2>2. Replies(0) \in Seq(Units) /\ Len(Replies(0)) = 0
    BY <1>1, RepliesType
  <2>3. Replies(0) = <<>>
    BY <2>2
  <2>4. <<>> \o <<>> = <<>>
    OBVIOUS
  <2> QED
    BY <2>1, <2>3, <2>4
<1>6. Outgoing
  BY <1>5 DEF Init, Outgoing
<1> QED
  BY <1>2, <1>3, <1>4, <1>6 DEF DInv

\* A step that leaves the data of all clients alone.
LEMMA StreamsUntouched ==
  ASSUME DInv, UNCHANGED <<sent, data>>
  PROVE  DInv'
<1>1. UNCHANGED <<net, rbuf, wbuf, wpos, ran, got, sent>>
  BY DEF data
<1> QED
  BY <1>1 DEF DInv, Streams, Bounds, Incoming, Outgoing

LEMMA SendStep ==
  ASSUME DInv, NEW c \in Conns, Send(c)
  PROVE  DInv'
<1>1. /\ sent' = [sent EXCEPT ![c] = @ + 1]
      /\ net' = [net EXCEPT ![c] = Append(@, Unit(sent[c] + 1))]
      /\ UNCHANGED <<rbuf, wbuf, wpos, ran, got>>
  BY DEF Send
<1>2. /\ Append(net[c], Unit(sent[c] + 1)) \in Seq(Units)
      /\ Behind(sent[c] + 1, ran[c], rbuf[c], Append(net[c], Unit(sent[c] + 1)))
  BY UnitSent DEF DInv, Streams, Incoming
<1>3. Streams'
  BY <1>1, <1>2 DEF DInv, Streams
<1>4. Bounds'
  BY <1>1 DEF DInv, Bounds
<1>5. Incoming'
  BY <1>1, <1>2 DEF DInv, Streams, Incoming
<1>6. Outgoing'
  BY <1>1 DEF DInv, Outgoing
<1> QED
  BY <1>3, <1>4, <1>5, <1>6 DEF DInv

\* recv is told how much room there is, and takes no more.
LEMMA RecvStep ==
  ASSUME SInv, DInv, Recv
  PROVE  DInv'
<1> DEFINE c == Here
<1>1. c \in Conns
  BY DEF SInv, Seated, Phases, Recv, Here
<1>2. PICK n \in 1 .. Len(net[c]) :
        /\ n <= BufSize - Len(rbuf[c])
        /\ rbuf' = [rbuf EXCEPT ![c] = @ \o SubSeq(net[c], 1, n)]
        /\ net' = [net EXCEPT ![c] = SubSeq(@, n + 1, Len(@))]
  BY DEF Recv, Space
<1>3. UNCHANGED <<wbuf, wpos, ran, got, sent>>
  BY DEF Recv
<1> HIDE DEF c
<1>4. /\ rbuf[c] \in Seq(Units) /\ net[c] \in Seq(Units)
      /\ sent[c] \in Nat /\ ran[c] \in Nat
      /\ Behind(sent[c], ran[c], rbuf[c], net[c])
  BY <1>1 DEF DInv, Streams, Incoming
<1>5. /\ rbuf[c] \o SubSeq(net[c], 1, n) \in Seq(Units)
      /\ Len(rbuf[c] \o SubSeq(net[c], 1, n)) = Len(rbuf[c]) + n
      /\ SubSeq(net[c], n + 1, Len(net[c])) \in Seq(Units)
      /\ Behind(sent[c], ran[c], rbuf[c] \o SubSeq(net[c], 1, n),
                SubSeq(net[c], n + 1, Len(net[c])))
  BY <1>4, UnitsReceived
<1>6. /\ rbuf'[c] = rbuf[c] \o SubSeq(net[c], 1, n)
      /\ net'[c] = SubSeq(net[c], n + 1, Len(net[c]))
      /\ \A b \in Conns \ {c} : rbuf'[b] = rbuf[b] /\ net'[b] = net[b]
  BY <1>1, <1>2 DEF DInv, Streams
<1>7. Streams'
  BY <1>1, <1>2, <1>3, <1>5 DEF DInv, Streams
<1>8. Bounds'
  <2>1. Len(rbuf[c]) + n <= BufSize
    BY <1>2, <1>4, LenProperties, ServerAssumption
  <2>2. \A b \in Conns : Len(rbuf'[b]) <= BufSize
    BY <1>5, <1>6, <2>1 DEF DInv, Bounds
  <2> QED
    BY <1>3, <2>2 DEF DInv, Bounds
<1>9. Incoming'
  BY <1>3, <1>5, <1>6 DEF DInv, Incoming
<1>10. Outgoing'
  BY <1>3 DEF DInv, Outgoing
<1> QED
  BY <1>7, <1>8, <1>9, <1>10 DEF DInv

\* One round of process_client_input: the reply queued is the one due.
LEMMA ExecuteStep ==
  ASSUME SInv, DInv, Execute
  PROVE  DInv'
<1> DEFINE c == Here
           b == SubSeq(rbuf[c], RequestUnits + 1, Len(rbuf[c]))
<1>1. c \in Conns
  BY DEF SInv, Seated, Phases, Execute, Here
<1>2. /\ Len(rbuf[c]) >= RequestUnits
      /\ ran' = [ran EXCEPT ![c] = @ + 1]
      /\ wbuf' = [wbuf EXCEPT ![c] = @ \o Reply(rbuf[c][1][1])]
      /\ rbuf' = [rbuf EXCEPT ![c] = b]
      /\ UNCHANGED <<net, wpos, got, sent>>
  BY DEF Execute, Parsed, Reply
<1> HIDE DEF c, b
<1>3. /\ rbuf[c] \in Seq(Units) /\ net[c] \in Seq(Units)
      /\ wbuf[c] \in Seq(Units) /\ got[c] \in Seq(Units)
      /\ wpos[c] \in Nat /\ sent[c] \in Nat /\ ran[c] \in Nat
      /\ Behind(sent[c], ran[c], rbuf[c], net[c])
      /\ Len(wbuf[c]) \in Nat
  BY <1>1, LenProperties DEF DInv, Streams, Incoming
<1>4. rbuf[c][1][1] = ran[c] + 1
  <2>1. 1 \in 1 .. Len(rbuf[c])
    BY <1>2, <1>3, LenProperties, ServerAssumption
  <2>2. rbuf[c][1] = <<ran[c] + 1, 1>>
    BY <1>3, <2>1, FirstUnit DEF Behind
  <2> QED
    BY <2>2
<1>5. /\ b \in Seq(Units) /\ Len(b) = Len(rbuf[c]) - RequestUnits
      /\ Behind(sent[c], ran[c] + 1, b, net[c])
  BY <1>2, <1>3, RequestConsumed DEF b
<1> DEFINE x == Reply(ran[c] + 1)
<1>6. x \in Seq(Units) /\ Len(x) = ReplyUnits
  BY <1>3, ReplyType
<1> HIDE DEF x
<1>7. /\ wbuf[c] \o x \in Seq(Units)
      /\ Len(wbuf[c] \o x) = Len(wbuf[c]) + ReplyUnits
  BY <1>3, <1>6, ConcatProperties
<1>8. /\ wbuf' = [wbuf EXCEPT ![c] = @ \o x]
      /\ wbuf'[c] = wbuf[c] \o x /\ rbuf'[c] = b /\ ran'[c] = ran[c] + 1
      /\ \A d \in Conns \ {c} :
           wbuf'[d] = wbuf[d] /\ rbuf'[d] = rbuf[d] /\ ran'[d] = ran[d]
  BY <1>1, <1>2, <1>4 DEF DInv, Streams, x
<1>9. Streams'
  <2>1. ran' \in [Conns -> Nat]
    BY <1>1, <1>2, <1>3 DEF DInv, Streams
  <2>2. rbuf' \in [Conns -> Seq(Units)]
    BY <1>1, <1>2, <1>5 DEF DInv, Streams
  <2>3. wbuf' \in [Conns -> Seq(Units)]
    BY <1>1, <1>7, <1>8 DEF DInv, Streams
  <2> QED
    BY <1>2, <2>1, <2>2, <2>3 DEF DInv, Streams
<1>10. wpos[c] \in 0 .. Len(wbuf[c])
  BY <1>1, <1>3 DEF DInv, Bounds
<1>11. Bounds'
  <2>1. Len(b) <= BufSize
    <3>1. Len(rbuf[c]) \in Nat /\ Len(rbuf[c]) <= BufSize
      BY <1>1, <1>3, LenProperties DEF DInv, Bounds
    <3> QED
      BY <1>5, <3>1, ServerAssumption
  <2>2. wpos[c] = 0 \/ wpos[c] < Len(wbuf[c]) + ReplyUnits
    BY <1>1, <1>3, ServerAssumption DEF DInv, Bounds
  <2>3. \A d \in Conns : Len(rbuf'[d]) <= BufSize
    BY <1>8, <2>1 DEF DInv, Bounds
  <2>4. \A d \in Conns : wpos'[d] = 0 \/ wpos'[d] < Len(wbuf'[d])
    BY <1>2, <1>7, <1>8, <2>2 DEF DInv, Bounds
  <2> QED
    BY <2>3, <2>4 DEF Bounds
<1>12. Incoming'
  BY <1>2, <1>5, <1>8 DEF DInv, Incoming
<1>13. got[c] \o Rest(wbuf[c] \o x, wpos[c]) = Replies(ran[c] + 1)
  <2> DEFINE q == Rest(wbuf[c], wpos[c])
  <2>1. Rest(wbuf[c] \o x, wpos[c]) = q \o x /\ q \in Seq(Units)
    BY <1>3, <1>6, <1>10, ReplyQueued, RestType
  <2>2. got[c] \o q = Replies(ran[c])
    BY <1>1 DEF DInv, Outgoing
  <2>3. Replies(ran[c] + 1) = Replies(ran[c]) \o x
    BY <1>3, OneMoreReply DEF x
  <2> HIDE DEF q
  <2>4. (got[c] \o q) \o x = got[c] \o (q \o x)
    <3>1. got[c] \in Seq(Units) /\ q \in Seq(Units) /\ x \in Seq(Units)
      BY <1>3, <1>6, <2>1
    <3> QED
      BY <3>1, Associative
  <2> QED
    BY <2>1, <2>2, <2>3, <2>4
<1>14. Outgoing'
  <2>1. got'[c] \o Rest(wbuf'[c], wpos'[c]) = Replies(ran'[c])
    BY <1>2, <1>8, <1>13
  <2>2. ASSUME NEW d \in Conns, d # c
        PROVE  got'[d] \o Rest(wbuf'[d], wpos'[d]) = Replies(ran'[d])
    BY <1>2, <1>8, <2>2 DEF DInv, Outgoing
  <2> QED
    BY <2>1, <2>2 DEF Outgoing
<1> QED
  BY <1>9, <1>11, <1>12, <1>14 DEF DInv
\* send takes some of what is left; the buffer starts over when it is empty.
LEMMA SendReplyStep ==
  ASSUME SInv, DInv, SendReply
  PROVE  DInv'
<1> DEFINE c == Here
           q == Rest(wbuf[c], wpos[c])
<1>1. c \in Conns
  BY DEF SInv, Seated, Phases, SendReply, Here
<1>2. PICK n \in 1 .. Len(q) :
        /\ got' = [got EXCEPT ![c] = @ \o SubSeq(q, 1, n)]
        /\ IF n = Len(q)
             THEN /\ wbuf' = [wbuf EXCEPT ![c] = <<>>]
                  /\ wpos' = [wpos EXCEPT ![c] = 0]
             ELSE /\ wpos' = [wpos EXCEPT ![c] = @ + n]
                  /\ wbuf' = wbuf
  BY DEF SendReply, Pending, Rest
<1>3. UNCHANGED <<net, rbuf, ran, sent>>
  BY DEF SendReply
<1> HIDE DEF c
<1>4. /\ got[c] \in Seq(Units) /\ wbuf[c] \in Seq(Units) /\ wpos[c] \in Nat
      /\ wpos[c] \in 0 .. Len(wbuf[c]) /\ Len(wbuf[c]) \in Nat
  <2>1. got[c] \in Seq(Units) /\ wbuf[c] \in Seq(Units) /\ wpos[c] \in Nat
    BY <1>1 DEF DInv, Streams
  <2>2. Len(wbuf[c]) \in Nat
    BY <2>1, LenProperties
  <2>3. wpos[c] = 0 \/ wpos[c] < Len(wbuf[c])
    BY <1>1 DEF DInv, Bounds
  <2> QED
    BY <2>1, <2>2, <2>3
<1> DEFINE g == got[c] \o SubSeq(q, 1, n)
<1>5. /\ g \in Seq(Units)
      /\ n = Len(q) => g \o Rest(<<>>, 0) = got[c] \o q
      /\ n # Len(q) => /\ wpos[c] + n < Len(wbuf[c])
                       /\ g \o Rest(wbuf[c], wpos[c] + n) = got[c] \o q
  <2>1. n \in 1 .. Len(Rest(wbuf[c], wpos[c]))
    OBVIOUS
  <2> QED
    BY <1>4, <2>1, UnitsDelivered
<1>6. got[c] \o q = Replies(ran[c])
  BY <1>1 DEF DInv, Outgoing
<1> HIDE DEF g, q
<1>7. /\ got' = [got EXCEPT ![c] = g]
      /\ got'[c] = g /\ \A d \in Conns \ {c} : got'[d] = got[d]
  BY <1>1, <1>2 DEF DInv, Streams, g
<1>8. Incoming'
  BY <1>3 DEF DInv, Incoming
<1>9. CASE n = Len(q)
  <2>1. /\ wbuf' = [wbuf EXCEPT ![c] = <<>>]
        /\ wpos' = [wpos EXCEPT ![c] = 0]
    BY <1>2, <1>9
  <2>2. /\ wbuf'[c] = <<>> /\ wpos'[c] = 0
        /\ \A d \in Conns \ {c} : wbuf'[d] = wbuf[d] /\ wpos'[d] = wpos[d]
    BY <1>1, <2>1 DEF DInv, Streams
  <2>3. Streams'
    <3>1. <<>> \in Seq(Units)
      OBVIOUS
    <3>2. got' \in [Conns -> Seq(Units)]
      BY <1>5, <1>7 DEF DInv, Streams
    <3>3. wbuf' \in [Conns -> Seq(Units)] /\ wpos' \in [Conns -> Nat]
      BY <2>1, <3>1 DEF DInv, Streams
    <3> QED
      BY <1>3, <3>2, <3>3 DEF DInv, Streams
  <2>4. Bounds'
    BY <1>3, <2>2 DEF DInv, Bounds
  <2>5. got'[c] \o Rest(wbuf'[c], wpos'[c]) = Replies(ran'[c])
    BY <1>3, <1>5, <1>6, <1>7, <1>9, <2>2
  <2>6. ASSUME NEW d \in Conns, d # c
        PROVE  got'[d] \o Rest(wbuf'[d], wpos'[d]) = Replies(ran'[d])
    BY <1>3, <1>7, <2>2, <2>6 DEF DInv, Outgoing
  <2>7. Outgoing'
    BY <2>5, <2>6 DEF Outgoing
  <2> QED
    BY <1>8, <2>3, <2>4, <2>7 DEF DInv
<1>10. CASE n # Len(q)
  <2>1. /\ wbuf' = wbuf
        /\ wpos' = [wpos EXCEPT ![c] = @ + n]
    BY <1>2, <1>10
  <2>2. /\ wpos'[c] = wpos[c] + n
        /\ \A d \in Conns \ {c} : wpos'[d] = wpos[d]
    BY <1>1, <2>1 DEF DInv, Streams
  <2>3. Streams'
    <3>1. got' \in [Conns -> Seq(Units)]
      BY <1>5, <1>7 DEF DInv, Streams
    <3>2. wpos[c] + n \in Nat
      BY <1>4
    <3>3. wpos' \in [Conns -> Nat]
      BY <2>1, <3>2 DEF DInv, Streams
    <3> QED
      BY <1>3, <2>1, <3>1, <3>3 DEF DInv, Streams
  <2>4. Bounds'
    BY <1>3, <1>5, <1>10, <2>1, <2>2 DEF DInv, Bounds
  <2>5. got'[c] \o Rest(wbuf'[c], wpos'[c]) = Replies(ran'[c])
    BY <1>3, <1>5, <1>6, <1>7, <1>10, <2>1, <2>2
  <2>6. ASSUME NEW d \in Conns, d # c
        PROVE  got'[d] \o Rest(wbuf'[d], wpos'[d]) = Replies(ran'[d])
    BY <1>3, <1>7, <2>1, <2>2, <2>6 DEF DInv, Outgoing
  <2>7. Outgoing'
    BY <2>5, <2>6 DEF Outgoing
  <2> QED
    BY <1>8, <2>3, <2>4, <2>7 DEF DInv
<1> QED
  BY <1>9, <1>10

\* The other steps of the loop and of the clients touch no data.
LEMMA StreamsStep ==
  ASSUME SInv, DInv, [Next]_svars
  PROVE  DInv'
<1>1. CASE Recv
  BY <1>1, RecvStep
<1>2. CASE Execute
  BY <1>2, ExecuteStep
<1>3. CASE SendReply
  BY <1>3, SendReplyStep
<1>4. CASE \E c \in Conns : Send(c)
  BY <1>4, SendStep
<1>5. CASE \/ Listen \/ ListenFails \/ Select \/ SelectFails \/ Accept \/ NoAccept
           \/ SkipSlot \/ SkipRead \/ RecvEnds \/ StopParsing \/ SkipWrite
           \/ SendFails \/ BrokenPipe \/ EndTurn \/ Cleanup \/ Signal
  <2>1. UNCHANGED <<sent, data>>
    BY <1>5 DEF Listen, ListenFails, Select, SelectFails, Accept, NoAccept,
                SkipSlot, SkipRead, RecvEnds, StopParsing, SkipWrite,
                SendFails, BrokenPipe, EndTurn, Cleanup, Signal
  <2> QED
    BY <2>1, StreamsUntouched
<1>6. CASE \E c \in Conns : Connect(c) \/ HangUp(c)
  <2>1. UNCHANGED <<sent, data>>
    BY <1>6 DEF Connect, HangUp
  <2> QED
    BY <2>1, StreamsUntouched
<1>7. CASE UNCHANGED svars
  <2>1. UNCHANGED <<sent, data>>
    BY <1>7 DEF svars
  <2> QED
    BY <2>1, StreamsUntouched
<1> QED
  BY <1>1, <1>2, <1>3, <1>4, <1>5, <1>6, <1>7 DEF Next, Loop

\* The slot index never runs past the slots.
LEMMA IndexStep ==
  ASSUME SInv, i <= MaxClients, [Next]_svars
  PROVE  i' <= MaxClients
<1>1. MaxClients \in Nat /\ i \in Nat
  BY ServerAssumption DEF SInv, Phases
<1>2. CASE SkipSlot \/ RecvEnds \/ SkipWrite \/ SendReply \/ SendFails
  <2>1. i \in Slots /\ i' = i + 1
    BY <1>2 DEF SkipSlot, RecvEnds, SkipWrite, SendReply, SendFails, Advance,
                SInv, Phases
  <2> QED
    BY <1>1, <2>1 DEF Slots
<1>3. CASE Select \/ EndTurn
  <2>1. i' = 0
    BY <1>3 DEF Select, EndTurn
  <2> QED
    BY <1>1, <2>1
<1>4. CASE \/ Listen \/ ListenFails \/ SelectFails \/ Accept \/ NoAccept
           \/ SkipRead \/ Recv \/ Execute \/ StopParsing \/ BrokenPipe
           \/ Cleanup \/ Signal
  BY <1>4 DEF Listen, ListenFails, SelectFails, Accept, NoAccept, SkipRead, Recv,
              Execute, StopParsing, BrokenPipe, Cleanup, Signal
<1>5. CASE \E c \in Conns : Connect(c) \/ Send(c) \/ HangUp(c)
  BY <1>5 DEF Connect, Send, HangUp, loop
<1>6. CASE UNCHANGED svars
  BY <1>6 DEF svars, loop
<1> QED
  BY <1>2, <1>3, <1>4, <1>5, <1>6 DEF Next, Loop

\* DInv is an invariant of the event loop.
THEOREM StreamsInvariance == Spec => [](SInv /\ DInv /\ i <= MaxClients)
<1> DEFINE Indexed == i <= MaxClients
<1>1. Init => SInv /\ DInv /\ Indexed
  BY InitHolds, StreamsBegin, ServerAssumption DEF Init
<1>2. SInv /\ SInv' /\ DInv /\ Indexed /\ [Next]_svars => DInv' /\ Indexed'
  BY StreamsStep, IndexStep
<1> QED
  BY <1>1, <1>2, ServerInvariance, PTL DEF Spec

\* The read buffer of a client never holds more than CLIENT_BUF_SIZE, write_pos
\* is behind write_len unless both were reset, and parsing and writing are only
\* done for a slot that has a client: for every cut of the streams.
THEOREM BuffersAreBounded == Spec => []ServerTypeOK
<1>1. SInv /\ DInv /\ i <= MaxClients => ServerTypeOK
  BY ServerAssumption DEF SInv, Phases, Seated, DInv, Bounds, ServerTypeOK, Slots
<1> QED
  BY <1>1, StreamsInvariance, PTL

\* Every client receives the replies to its requests in their order, each one
\* whole and once, and what it has not got yet is what the write buffer holds.
THEOREM RepliesAreInOrder == Spec => []RepliesInOrder
<1>1. SInv /\ DInv => RepliesInOrder
  <2> SUFFICES ASSUME SInv, DInv PROVE RepliesInOrder
    OBVIOUS
  <2>1. \A c \in Conns : got[c] \o Pending(c) = Replies(ran[c])
    BY DEF DInv, Outgoing, Pending, Rest
  <2>2. ASSUME NEW c \in Conns, rbuf[c] # <<>>
        PROVE  rbuf[c][1] = <<ran[c] + 1, 1>>
    <3>1. rbuf[c] \in Seq(Units) /\ ran[c] \in Nat
      BY DEF DInv, Streams
    <3>2. 1 \in 1 .. Len(rbuf[c])
      BY <2>2, <3>1, EmptySeq
    <3>3. rbuf[c][1] = Unit(ran[c] * RequestUnits + 1)
      BY <3>2 DEF DInv, Incoming, Behind
    <3> QED
      BY <3>1, <3>3, FirstUnit
  <2> QED
    BY <2>1, <2>2 DEF RepliesInOrder
<1> QED
  BY <1>1, StreamsInvariance, PTL
=============================================================================
