--------------------------------- MODULE Proxy ---------------------------------
(***************************************************************************)
(* web/proxy.js: a POST of a command is answered with what the server says *)
(* on a connection of its own, or after three seconds.  Every request has  *)
(* its socket, its data and its timer, so one stands for any number.       *)
(***************************************************************************)
EXTENDS Peer

CONSTANTS
  Posts     \* what may be posted: a body that is "not json", that has "no
            \* args" or "args", and these

VARIABLES
  post,     \* the request
  socket,   \* "none", "connecting", "open" or "shut"
  timer,    \* "off", "set" or "fired"
  data,     \* the characters received, decoded
  turnedAway,           \* the server has closed this connection
  toPeer, toProxy,      \* units under way
  ran,      \* what the server has executed for it
  answer,   \* the HTTP answer
  alive     \* the process of the proxy

proxyVars ==
  <<post, socket, timer, data, turnedAway, toPeer, toProxy, ran, answer, alive>>
net == <<turnedAway, toPeer, toProxy, ran>>

NoPost    == [body |-> "none", args |-> <<>>]

ASSUME ProxyAssumption == NoPost \notin Posts

None      == <<"none">>
Failed    == <<"500">>
Result(v) == <<"200", v>>
TimedOut  == Result(<<"timeout">>)
Unparsed(d) == Result(<<"raw", d>>)

ProxyInit ==
  /\ post = NoPost /\ socket = "none" /\ timer = "off" /\ data = <<>>
  /\ turnedAway = FALSE /\ toPeer = <<>> /\ toProxy = <<>> /\ ran = <<>>
  /\ answer = None /\ alive = TRUE

-----------------------------------------------------------------------------
\* chunk.toString(): the two bytes of a letter outside ASCII are a character,
\* each of them alone a replacement character.
CharAt(q, j) ==
  CASE q[j] = Byte("hi") ->
         IF j < Len(q) /\ q[j + 1] = Byte("lo") THEN <<Byte("letter")>>
           ELSE <<Byte("?")>>
    [] q[j] = Byte("lo") ->
         IF j > 1 /\ q[j - 1] = Byte("hi") THEN <<>> ELSE <<Byte("?")>>
    [] OTHER -> <<q[j]>>

Decode(q) == FlattenSeq([j \in DOMAIN q |-> CharAt(q, j)])

\* parseRESP, on characters: a line of an unknown type is a value itself.
parseRESP(d) == Parser("js", d)

buildRESP(args) == Request(args)

\* A promise is settled once.
Settle(a) == answer' = IF answer = None THEN a ELSE answer

-----------------------------------------------------------------------------
\* JSON.parse fails, or query opens a connection and sets the timer.
Post(p) ==
  /\ alive /\ post = NoPost
  /\ post' = p
  /\ IF p.body = "not json"
       THEN Settle(Failed) /\ UNCHANGED <<socket, timer>>
       ELSE socket' = "connecting" /\ timer' = "set" /\ UNCHANGED answer
  /\ UNCHANGED <<server, data, net, alive>>

\* The listener of "connect" writes the request.
Connected ==
  /\ alive /\ socket = "connecting" /\ server # "down" /\ post.body # "no args"
  /\ socket' = "open"
  /\ toPeer' = buildRESP(post.args)
  /\ UNCHANGED <<server, post, timer, data, turnedAway, toProxy, ran, answer, alive>>

\* Without arguments buildRESP throws in that listener, where nothing catches.
ConnectThrows ==
  /\ alive /\ socket = "connecting" /\ server # "down" /\ post.body = "no args"
  /\ alive' = FALSE
  /\ UNCHANGED <<server, post, socket, timer, data, net, answer>>

\* "error": the connection is refused, or reset later.
SocketError ==
  /\ alive
  /\ \/ socket = "connecting" /\ server = "down"
     \/ socket = "open" /\ (server = "down" \/ turnedAway)
  /\ socket' = "shut"
  /\ Settle(Failed)
  /\ UNCHANGED <<server, post, timer, data, net, alive>>

Chunk(n) == Decode(SubSeq(toProxy, 1, n))

\* n units more arrive, and d is looked at.
Receive(n, d) ==
  /\ alive /\ socket = "open"
  /\ data' = data \o Chunk(n)
  /\ toProxy' = SubSeq(toProxy, n + 1, Len(toProxy))
  /\ IF parseRESP(d).n > 0
       THEN socket' = "shut" /\ Settle(Result(parseRESP(d).v))
       ELSE UNCHANGED <<socket, answer>>
  /\ UNCHANGED <<server, post, timer, turnedAway, toPeer, ran, alive>>

\* Fault: only the chunk is parsed.
DataAlone == \E n \in 1 .. Len(toProxy) : Receive(n, Chunk(n))

\* Fault: the chunk is added after the data is parsed.
DataLate == \E n \in 1 .. Len(toProxy) : Receive(n, data)

\* "data": a chunk, with which the value may be complete.
Data == \E n \in 1 .. Len(toProxy) : Receive(n, data \o Chunk(n))

\* "end": the server has closed the connection and all it sent is here.
SocketEnd ==
  /\ alive /\ socket = "open" /\ toProxy = <<>> /\ (server = "down" \/ turnedAway)
  /\ socket' = "shut"
  /\ Settle(IF data = <<>> THEN Failed
              ELSE IF parseRESP(data).n > 0 THEN Result(parseRESP(data).v)
              ELSE Unparsed(data))
  /\ UNCHANGED <<server, post, timer, data, net, alive>>

\* Fault: the timer only closes the socket.
TimeoutSilent ==
  /\ alive /\ timer = "set"
  /\ timer' = "fired" /\ socket' = "shut"
  /\ UNCHANGED <<server, post, data, net, answer, alive>>

\* setTimeout, which nobody clears.
Timeout ==
  /\ alive /\ timer = "set"
  /\ timer' = "fired" /\ socket' = "shut"
  /\ Settle(IF data = <<>> THEN TimedOut ELSE Unparsed(data))
  /\ UNCHANGED <<server, post, data, net, alive>>

\* The request reaches the server also when the proxy has given it up.
ServeProxy ==
  /\ ~turnedAway /\ Requested(toPeer)
  /\ ran' = Append(ran, Arguments(toPeer))
  /\ Served(toPeer)
  /\ toPeer' = Rest(toPeer) /\ toProxy' = toProxy \o Response(toPeer)
  /\ UNCHANGED <<post, socket, timer, data, turnedAway, answer, alive>>

\* All slots are taken: server_accept closes the connection.
TurnAway ==
  /\ server # "down" /\ socket = "open" /\ ran = <<>> /\ ~turnedAway
  /\ turnedAway' = TRUE
  /\ UNCHANGED <<server, post, socket, timer, data, toPeer, toProxy, ran, answer, alive>>

ProxyStep == Connected \/ ConnectThrows \/ SocketError \/ Data \/ SocketEnd

ProxyNext ==
  \/ \E p \in Posts : Post(p)
  \/ ProxyStep \/ Timeout \/ ServeProxy \/ TurnAway

\* The timer always comes; the network owes nothing.
ProxyFairness == WF_<<server, proxyVars>>(Timeout)
-----------------------------------------------------------------------------
Reply == ReplyTo(post.args)

\* A result is the reply of the server to this request, which then was executed
\* once; the only others are the timeout and a reply that is still cut when
\* the timer or the end of the connection comes.
ResultIsTrue ==
  answer[1] = "200" =>
    \/ answer = TimedOut
    \/ answer = Result(Reply) /\ ran = <<post.args>>
    \/ IsStrictPrefix(data, Decode(Write(Reply))) /\ answer = Unparsed(data)

\* "Send a RESP command and collect the response" (proxy.js:64): however the
\* reply is cut into chunks, with its last unit it is recognised and answered.
\* A server that ends may drop the rest of a reply.
WholeReplyAnswers ==
  server = "up" /\ ran # <<>> /\ toProxy = <<>> => answer = Result(Reply)

\* Every POST is answered and its connection given back, whatever becomes of
\* the server, as long as the proxy itself lives.
PostIsAnswered ==
  post # NoPost ~> (answer # None /\ socket \in {"none", "shut"}) \/ ~alive
=============================================================================
