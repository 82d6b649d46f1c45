-------------------------------- MODULE Server --------------------------------
(***************************************************************************)
(* The event loop of src/src/server.c: one turn of server_run is a select, *)
(* at most one accept, a read and a write for every client slot, and the   *)
(* expiry sweep.                                                           *)
(*                                                                         *)
(* Bytes are units: a request is RequestUnits of them, a reply ReplyUnits, *)
(* so that recv and send may cut anywhere.  <<j, p>> is unit p of request  *)
(* j of its client, and of the reply to it.  What a client asks for is its *)
(* Script; only the command that stops the server is told apart, and a     *)
(* request resp_parse rejects.                                             *)
(***************************************************************************)
EXTENDS Integers, Sequences, FiniteSets

CONSTANTS
  Conns,         \* client connections
  NoConn,        \* the NULL pointer in a slot
  MaxClients,    \* MAX_CLIENTS (1024 in the code)
  BufSize,       \* CLIENT_BUF_SIZE, in units
  Script,        \* the requests of every client: "command", "stop", "bad"
  RequestUnits, ReplyUnits,
  Slow,          \* clients that never read: their sockets take no data
  Leaving,       \* clients that may hang up
  EarlySignal    \* whether SIGINT or SIGTERM may come before the loop

ASSUME ServerAssumption ==
  /\ MaxClients \in Nat \ {0} /\ BufSize \in Nat \ {0}
  /\ RequestUnits \in Nat \ {0} /\ ReplyUnits \in Nat \ {0}
  /\ NoConn \notin Conns /\ Slow \subseteq Conns
  /\ Leaving \subseteq Conns /\ EarlySignal \in BOOLEAN
  /\ Script \in [Conns -> Seq({"command", "stop", "bad"})]

Slots == 0 .. MaxClients - 1

VARIABLES
  clients,  \* srv->clients
  count,    \* srv->client_count
  running,  \* srv->running
  told,     \* SHUTDOWN was executed, or a signal was handled
  pc, i,    \* where server_run is, and its slot index
  reads, writes, knock,  \* the answer of select: who is ready, the listener
  conn,     \* of every connection: "new", "waiting", "open", "closed"
  gone,     \* clients that have hung up
  net,      \* units under way to the server
  rbuf,     \* read_buf up to read_len
  wbuf,     \* write_buf up to write_len
  wpos,     \* write_pos
  sent, ran,    \* units a client has sent, requests executed for it
  got           \* units of replies a client has received

loop   == <<clients, count, running, told, pc, i>>
ready  == <<reads, writes, knock>>
data   == <<net, rbuf, wbuf, wpos, ran, got>>
svars  == <<loop, ready, conn, gone, sent, data>>

-----------------------------------------------------------------------------
Unit(n) == <<1 + ((n - 1) \div RequestUnits), 1 + ((n - 1) % RequestUnits)>>

\* The units of the replies to the first n requests.
Replies(n) ==
  [u \in 1 .. n * ReplyUnits |->
     <<1 + ((u - 1) \div ReplyUnits), 1 + ((u - 1) % ReplyUnits)>>]

Pending(c) == SubSeq(wbuf[c], wpos[c] + 1, Len(wbuf[c]))

Init ==
  /\ clients = [s \in Slots |-> NoConn] /\ count = 0
  /\ running = FALSE /\ told = FALSE /\ pc = "start" /\ i = 0
  /\ reads = {} /\ writes = {} /\ knock = FALSE
  /\ conn = [c \in Conns |-> "new"] /\ gone = {}
  /\ net = [c \in Conns |-> <<>>]
  /\ rbuf = [c \in Conns |-> <<>>]
  /\ wbuf = [c \in Conns |-> <<>>] /\ wpos = [c \in Conns |-> 0]
  /\ sent = [c \in Conns |-> 0] /\ ran = [c \in Conns |-> 0]
  /\ got = [c \in Conns |-> <<>>]

-----------------------------------------------------------------------------
(* Clients                                                                 *)
Connect(c) ==
  /\ conn[c] = "new" /\ pc \notin {"start", "done"}
  /\ conn' = [conn EXCEPT ![c] = "waiting"]
  /\ UNCHANGED <<loop, ready, gone, sent, data>>

Send(c) ==
  /\ conn[c] \in {"waiting", "open"} /\ c \notin gone
  /\ sent[c] < RequestUnits * Len(Script[c])
  /\ sent' = [sent EXCEPT ![c] = @ + 1]
  /\ net' = [net EXCEPT ![c] = Append(@, Unit(sent[c] + 1))]
  /\ UNCHANGED <<loop, ready, conn, gone, rbuf, wbuf, wpos, ran, got>>

HangUp(c) ==
  /\ c \in Leaving /\ conn[c] = "open" /\ c \notin gone
  /\ gone' = gone \cup {c}
  /\ UNCHANGED <<loop, ready, conn, sent, data>>

-----------------------------------------------------------------------------
(* The start.  main has set g_server before it calls server_run.           *)
Listen ==
  /\ pc = "start"
  /\ running' = TRUE /\ pc' = "select"
  /\ UNCHANGED <<clients, count, told, i, ready, conn, gone, sent, data>>

\* server_listen: no socket, or the port is taken.
ListenFails ==
  /\ pc = "start"
  /\ pc' = "done"
  /\ UNCHANGED <<clients, count, running, told, i, ready, conn, gone, sent, data>>

\* signal_handler interrupts whatever is going on, and calls server_stop.  The
\* snapshot it takes is in the module Persist.
Signal ==
  /\ pc # "done" /\ (pc = "start" => EarlySignal)
  /\ running' = FALSE /\ told' = TRUE
  /\ UNCHANGED <<clients, count, pc, i, ready, conn, gone, sent, data>>

-----------------------------------------------------------------------------
(* The loop                                                                *)
Serving == {c \in Conns : conn[c] = "open"}

\* Fault: nobody waits for a socket to take data.
SelectForReading ==
  /\ pc = "select" /\ running
  /\ reads' = {c \in Serving : net[c] # <<>> \/ c \in gone}
  /\ writes' = {}
  /\ knock' = (\E c \in Conns : conn[c] = "waiting")
  /\ pc' = "accept" /\ i' = 0
  /\ UNCHANGED <<clients, count, running, told, conn, gone, sent, data>>

\* Fault: the loop does not look at srv->running.
SelectAnyway ==
  /\ pc = "select"
  /\ reads' = {c \in Serving : net[c] # <<>> \/ c \in gone}
  /\ writes' = {c \in Serving : Len(wbuf[c]) > wpos[c] /\ c \notin Slow}
  /\ knock' = (\E c \in Conns : conn[c] = "waiting")
  /\ pc' = "accept" /\ i' = 0
  /\ UNCHANGED <<clients, count, running, told, conn, gone, sent, data>>

\* select: every socket with data, or closed by its peer, is readable; it is
\* asked about writing for the clients that have something to be sent.  When a
\* signal interrupts it the loop looks at running again.
Select ==
  /\ pc = "select" /\ running
  /\ reads' = {c \in Serving : net[c] # <<>> \/ c \in gone}
  /\ writes' = {c \in Serving : Len(wbuf[c]) > wpos[c] /\ c \notin Slow}
  /\ knock' = (\E c \in Conns : conn[c] = "waiting")
  /\ pc' = "accept" /\ i' = 0
  /\ UNCHANGED <<clients, count, running, told, conn, gone, sent, data>>

\* server_accept: the first empty slot, if there is one.
Accept ==
  /\ pc = "accept" /\ knock
  /\ \E c \in Conns :
       /\ conn[c] = "waiting"
       /\ IF count >= MaxClients
            THEN /\ conn' = [conn EXCEPT ![c] = "closed"]
                 /\ UNCHANGED <<clients, count>>
            ELSE /\ conn' = [conn EXCEPT ![c] = "open"]
                 /\ \E s \in Slots :
                      /\ clients[s] = NoConn
                      /\ \A r \in Slots : clients[r] = NoConn => s <= r
                      /\ clients' = [clients EXCEPT ![s] = c]
                 /\ count' = count + 1
  /\ pc' = "read"
  /\ UNCHANGED <<running, told, i, ready, gone, sent, data>>

\* No client that waits, or accept fails.
NoAccept ==
  /\ pc = "accept"
  /\ pc' = "read"
  /\ UNCHANGED <<clients, count, running, told, i, ready, conn, gone, sent, data>>

Here == clients[i]

Advance ==
  /\ i' = i + 1
  /\ pc' = IF i + 1 \in Slots THEN "read" ELSE "sweep"

\* Fault: the number of clients is not lowered.
RemoveClientUncounted(s) ==
  /\ conn' = [conn EXCEPT ![clients[s]] = "closed"]
  /\ clients' = [clients EXCEPT ![s] = NoConn]
  /\ UNCHANGED count

\* server_remove_client.
RemoveClient(s) ==
  /\ conn' = [conn EXCEPT ![clients[s]] = "closed"]
  /\ clients' = [clients EXCEPT ![s] = NoConn]
  /\ count' = count - 1

SkipSlot ==
  /\ pc = "read" /\ Here = NoConn
  /\ Advance
  /\ UNCHANGED <<clients, count, running, told, ready, conn, gone, sent, data>>

SkipRead ==
  /\ pc = "read" /\ Here # NoConn /\ Here \notin reads
  /\ pc' = "write"
  /\ UNCHANGED <<clients, count, running, told, i, ready, conn, gone, sent, data>>

Space(c) == BufSize - Len(rbuf[c])

\* Fault: recv is given the size of the whole buffer.
RecvUnbounded ==
  /\ pc = "read" /\ Here # NoConn /\ Here \in reads
  /\ \E n \in 1 .. Len(net[Here]) :
       /\ rbuf' = [rbuf EXCEPT ![Here] = @ \o SubSeq(net[Here], 1, n)]
       /\ net' = [net EXCEPT ![Here] = SubSeq(@, n + 1, Len(@))]
  /\ pc' = "parse"
  /\ UNCHANGED <<clients, count, running, told, i, ready, conn, gone, sent,
                 wbuf, wpos, ran, got>>

\* recv: some of what has arrived, as far as the buffer has room.
Recv ==
  /\ pc = "read" /\ Here # NoConn /\ Here \in reads
  /\ \E n \in 1 .. Len(net[Here]) :
       /\ n <= Space(Here)
       /\ rbuf' = [rbuf EXCEPT ![Here] = @ \o SubSeq(net[Here], 1, n)]
       /\ net' = [net EXCEPT ![Here] = SubSeq(@, n + 1, Len(@))]
  /\ pc' = "parse"
  /\ UNCHANGED <<clients, count, running, told, i, ready, conn, gone, sent,
                 wbuf, wpos, ran, got>>

\* recv returns 0 or -1: the peer has hung up, or the buffer has no room.
RecvEnds ==
  /\ pc = "read" /\ Here # NoConn /\ Here \in reads
  /\ Here \in gone \/ Space(Here) = 0
  /\ RemoveClient(i)
  /\ Advance
  /\ UNCHANGED <<running, told, ready, gone, sent, data>>

\* resp_parse finds a whole request at the start of the buffer.
Kind(c) == Script[c][rbuf[c][1][1]]
Parsed(c) == Len(rbuf[c]) >= RequestUnits /\ Kind(c) # "bad"

\* One round of process_client_input: command_execute, then the reply is put
\* behind what is queued already.
Execute ==
  /\ pc = "parse" /\ Parsed(Here)
  /\ LET c == Here
         j == rbuf[c][1][1]
     IN  /\ ran' = [ran EXCEPT ![c] = @ + 1]
         /\ wbuf' = [wbuf EXCEPT ![c] =
                       @ \o [u \in 1 .. ReplyUnits |-> <<j, u>>]]
         /\ rbuf' = [rbuf EXCEPT ![c] = SubSeq(@, RequestUnits + 1, Len(@))]
         /\ running' = (running /\ Kind(c) # "stop")
         /\ told' = (told \/ Kind(c) = "stop")
  /\ UNCHANGED <<clients, count, pc, i, ready, conn, gone, sent, net, wpos, got>>

\* Nothing to parse, an incomplete request, or one that is rejected.
StopParsing ==
  /\ pc = "parse" /\ ~Parsed(Here)
  /\ pc' = "write"
  /\ UNCHANGED <<clients, count, running, told, i, ready, conn, gone, sent, data>>

SkipWrite ==
  /\ pc = "write" /\ Here \notin writes
  /\ Advance
  /\ UNCHANGED <<clients, count, running, told, ready, conn, gone, sent, data>>

\* Fault: a partial send starts over.
SendReplyAgain ==
  /\ pc = "write" /\ Here \in writes
  /\ \E n \in 1 .. Len(Pending(Here)) :
       /\ got' = [got EXCEPT ![Here] = @ \o SubSeq(Pending(Here), 1, n)]
       /\ IF n = Len(Pending(Here))
            THEN wbuf' = [wbuf EXCEPT ![Here] = <<>>]
            ELSE UNCHANGED wbuf
       /\ wpos' = [wpos EXCEPT ![Here] = 0]
  /\ Advance
  /\ UNCHANGED <<clients, count, running, told, ready, conn, gone, sent, net, rbuf, ran>>

\* send: some of what is queued; the buffer is reused once it is all sent.
SendReply ==
  /\ pc = "write" /\ Here \in writes
  /\ \E n \in 1 .. Len(Pending(Here)) :
       /\ got' = [got EXCEPT ![Here] = @ \o SubSeq(Pending(Here), 1, n)]
       /\ IF n = Len(Pending(Here))
            THEN /\ wbuf' = [wbuf EXCEPT ![Here] = <<>>]
                 /\ wpos' = [wpos EXCEPT ![Here] = 0]
            ELSE /\ wpos' = [wpos EXCEPT ![Here] = @ + n]
                 /\ UNCHANGED wbuf
  /\ Advance
  /\ UNCHANGED <<clients, count, running, told, ready, conn, gone, sent, net, rbuf, ran>>

\* send fails because the peer has hung up.
SendFails ==
  /\ pc = "write" /\ Here \in writes
  /\ Here \in gone
  /\ RemoveClient(i)
  /\ Advance
  /\ UNCHANGED <<running, told, ready, gone, sent, data>>

\* Every connection is closed, by server_run or by the kernel.
Disconnected ==
  /\ pc' = "done"
  /\ conn' = [c \in Conns |-> IF conn[c] = "new" THEN "new" ELSE "closed"]
  /\ clients' = [s \in Slots |-> NoConn]
  /\ count' = count - Cardinality({s \in Slots : clients[s] # NoConn})

\* select fails for good: the loop ends.
SelectFails ==
  /\ pc = "select" /\ running
  /\ Disconnected
  /\ UNCHANGED <<running, told, i, ready, gone, sent, data>>

\* SendFails on Linux when the peer has reset the connection: main leaves the
\* action of SIGPIPE as it is, and send ends the process.
BrokenPipe ==
  /\ pc = "write" /\ Here \in writes
  /\ Here \in gone
  /\ Disconnected
  /\ UNCHANGED <<running, told, i, ready, gone, sent, data>>

\* db_expire_sweep and the end of the turn.
EndTurn ==
  /\ pc = "sweep"
  /\ pc' = "select" /\ i' = 0
  /\ UNCHANGED <<clients, count, running, told, ready, conn, gone, sent, data>>

\* The loop ends, and everybody is disconnected.
Cleanup ==
  /\ pc = "select" /\ ~running
  /\ Disconnected
  /\ UNCHANGED <<running, told, i, ready, gone, sent, data>>

Loop ==
  \/ Listen \/ ListenFails \/ Select \/ SelectFails \/ Accept \/ NoAccept \/ SkipSlot
  \/ SkipRead \/ Recv \/ RecvEnds \/ Execute \/ StopParsing \/ SkipWrite \/ SendReply \/ SendFails \/ BrokenPipe
  \/ EndTurn \/ Cleanup

Next == Loop \/ Signal \/ \E c \in Conns : Connect(c) \/ Send(c) \/ HangUp(c)

Spec == Init /\ [][Next]_svars /\ WF_svars(Loop)

-----------------------------------------------------------------------------
\* No client has more in its read buffer than the buffer holds, and the other
\* variables have their types.
ServerTypeOK ==
  /\ clients \in [Slots -> Conns \cup {NoConn}]
  /\ i \in 0 .. MaxClients /\ (pc \in {"read", "parse", "write"} => i \in Slots)
  /\ (pc \in {"parse", "write"} => Here # NoConn)
  /\ \A c \in Conns :
       /\ Len(rbuf[c]) <= BufSize
       /\ wpos[c] = 0 \/ wpos[c] < Len(wbuf[c])
       /\ conn[c] \in {"new", "waiting", "open", "closed"}

\* Slots, their number and the connections agree: an open connection has one
\* slot, so that client_count can decide whether there is room for another.
SlotsAccounted ==
  /\ count = Cardinality({s \in Slots : clients[s] # NoConn})
  /\ \A c \in Conns :
       Cardinality({s \in Slots : clients[s] = c}) =
         IF conn[c] = "open" THEN 1 ELSE 0

\* However reads and writes are cut, a client receives the replies to its
\* requests in the order of the requests, each one once and unbroken; what is
\* not delivered yet is what the write buffer holds (pipelining).
RepliesInOrder ==
  /\ \A c \in Conns : got[c] \o Pending(c) = Replies(ran[c])
  /\ \A c \in Conns : rbuf[c] # <<>> => rbuf[c][1] = <<ran[c] + 1, 1>>

\* Every request that was sent whole by a client that stays and reads is
\* answered, unless the server closes the connection or stops.
Answered ==
  \A c \in Conns \ Slow : \A j \in 1 .. Len(Script[c]) :
    (conn[c] = "open" /\ sent[c] >= j * RequestUnits)
      ~> (Len(got[c]) >= j * ReplyUnits \/ conn[c] = "closed")

\* SHUTDOWN and the signals stop the server, at whatever statement of the loop
\* they come and although other clients keep it busy.  A signal that comes
\* before the loop is admitted where EarlySignal is TRUE.
StopsWhenTold == told ~> pc = "done"
=============================================================================
