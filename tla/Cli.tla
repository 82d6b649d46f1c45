---------------------------------- MODULE Cli ----------------------------------
(***************************************************************************)
(* cli/cli.c: a loop that reads a line, sends it as a request and shows    *)
(* the reply, one at a time over one connection.                           *)
(***************************************************************************)
EXTENDS Peer

CONSTANTS
  Sessions,   \* what may be typed: lines, without their newlines, and the
              \* arguments each is meant to give
  LineSize,   \* sizeof(line): characters of a line, and one for the end
  MaxTokens,  \* 128, in build_command
  RecvSize    \* BUF_SIZE, in units

ASSUME CliAssumption ==
  /\ LineSize \in Nat /\ LineSize > 1
  /\ MaxTokens \in Nat \ {0} /\ RecvSize \in Nat \ {0}

VARIABLES
  session,  \* one of Sessions
  stdin,    \* characters not read yet
  at,       \* "prompt", "send", "recv", "show" or "over"
  line,     \* the line in hand
  reply,    \* recv_buf up to total
  toServer, toCli,  \* units under way
  asked,    \* the requests sent
  executed, \* what the server made of them
  shown     \* what was printed for each

cliVars ==
  <<session, stdin, at, line, reply, toServer, toCli, asked, executed, shown>>

Newline == "\n"

CliInit ==
  /\ session \in Sessions
  /\ stdin = FlattenSeq([j \in DOMAIN session.lines |->
                           Append(session.lines[j], Newline)])
  /\ at = "prompt" /\ line = <<>> /\ reply = <<>>
  /\ toServer = <<>> /\ toCli = <<>>
  /\ asked = <<>> /\ executed = <<>> /\ shown = <<>>

-----------------------------------------------------------------------------
\* Fault: a blank ends a quoted word as well.
TokensBroken(l) ==
  LET Blank(c) == c \in {" ", "\""}
      Starts == {j \in DOMAIN l : ~Blank(l[j]) /\ (j = 1 \/ Blank(l[j - 1]))}
      EndOf(j) == Max({e \in j .. Len(l) : \A n \in j .. e : ~Blank(l[n])})
      Word(j) == SubSeq(l, j, EndOf(j))
      order == SetToSortSeq(Starts, LAMBDA a, b : a < b)
  IN  [n \in DOMAIN order |-> Word(order[n])]

\* build_command: words end at a blank, quoted ones at the next quote.
Grown(toks, c) == [toks EXCEPT ![Len(toks)] = Append(@, c)]

Scan(s, c) ==
  CASE s.mode = "gap" ->
         IF c = " " \/ Len(s.toks) = MaxTokens THEN s
           ELSE IF c = "\"" THEN [mode |-> "quoted", toks |-> Append(s.toks, <<>>)]
           ELSE [mode |-> "word", toks |-> Append(s.toks, <<c>>)]
    [] s.mode = "word" ->
         IF c = " " THEN [s EXCEPT !.mode = "gap"]
           ELSE [s EXCEPT !.toks = Grown(@, c)]
    [] s.mode = "quoted" ->
         IF c = "\"" THEN [s EXCEPT !.mode = "gap"]
           ELSE [s EXCEPT !.toks = Grown(@, c)]

Unscanned == [mode |-> "gap", toks |-> <<>>]

Tokens(l) ==
  LET scan[j \in 0 .. Len(l)] == IF j = 0 THEN Unscanned ELSE Scan(scan[j - 1], l[j])
  IN  scan[Len(l)].toks

\* fgets: up to and with a newline, or what line has room for.
Taken ==
  LET nl == SelectInSeq(stdin, LAMBDA c : c = Newline)
  IN  Min({nl, LineSize - 1})

Trimmed(l) == IF l # <<>> /\ Last(l) = Newline THEN Front(l) ELSE l

ReadLine ==
  /\ at = "prompt" /\ stdin # <<>>
  /\ line' = Trimmed(SubSeq(stdin, 1, Taken))
  /\ stdin' = SubSeq(stdin, Taken + 1, Len(stdin))
  /\ at' = IF Tokens(line') = <<>> THEN "prompt" ELSE "send"
  /\ UNCHANGED <<server, session, reply, toServer, toCli, asked, executed, shown>>

EndOfInput ==
  /\ at = "prompt" /\ stdin = <<>>
  /\ at' = "over"
  /\ UNCHANGED <<server, session, stdin, line, reply, toServer, toCli, asked, executed, shown>>

\* The kernel takes the request, also when the server has just gone.
SendRequest ==
  /\ at = "send"
  /\ toServer' = toServer \o Request(Tokens(line))
  /\ asked' = Append(asked, Tokens(line))
  /\ reply' = <<>>
  /\ at' = "recv"
  /\ UNCHANGED <<server, session, stdin, line, toCli, executed, shown>>

SendLost ==
  /\ at = "send" /\ server = "down"
  /\ at' = "over"
  /\ UNCHANGED <<server, session, stdin, line, reply, toServer, toCli, asked, executed, shown>>

\* The parser of resp.c once more.  The two part on a length below -1, which no
\* server writes; a bulk string ends at a zero byte here when it is printed.
parse_resp(b) == resp_parse(b)

\* recv: some units more, as far as the buffer has room.
Receives ==
  /\ at = "recv" /\ toCli # <<>>
  /\ \E n \in 1 .. Min({Len(toCli), RecvSize - Len(reply)}) :
       /\ reply' = reply \o SubSeq(toCli, 1, n)
       /\ toCli' = SubSeq(toCli, n + 1, Len(toCli))
  /\ UNCHANGED <<server, session, stdin, line, toServer, asked, executed, shown>>

\* Fault: the reply is read until the buffer is full.
RecvReplyFull ==
  Receives /\ at' = IF Len(reply') = RecvSize THEN "show" ELSE "recv"

\* Fault: one recv is taken for the whole reply.
RecvReplyOnce == Receives /\ at' = "show"

\* recv_response: done with a whole value, or a full buffer.
RecvReply ==
  /\ Receives
  /\ at' = IF parse_resp(reply').n > 0 \/ Len(reply') = RecvSize
             THEN "show" ELSE "recv"

\* recv returns 0 or -1.
ReplyLost ==
  /\ at = "recv" /\ server = "down" /\ toCli = <<>>
  /\ at' = "over"
  /\ UNCHANGED <<server, session, stdin, line, reply, toServer, toCli, asked, executed, shown>>

\* Only the exact name, in upper or in lower case, at the start of the line.
Quits(l) == l[1] = "SHUTDOWN"

\* The first value is printed, what is behind it dropped.
ShowReply ==
  /\ at = "show"
  /\ LET r == parse_resp(reply)
     IN  shown' = Append(shown, IF r.n > 0 THEN r.v ELSE <<"nothing">>)
  /\ at' = IF Quits(line) THEN "over" ELSE "prompt"
  /\ UNCHANGED <<server, session, stdin, line, reply, toServer, toCli, asked, executed>>

ServeCli ==
  /\ Requested(toServer)
  /\ executed' = Append(executed, Arguments(toServer))
  /\ Served(toServer)
  /\ toServer' = Rest(toServer) /\ toCli' = toCli \o Response(toServer)
  /\ UNCHANGED <<session, stdin, at, line, reply, asked, shown>>

CliStep ==
  \/ ReadLine \/ EndOfInput \/ SendRequest \/ SendLost \/ RecvReply
  \/ ReplyLost \/ ShowReply

CliNext == CliStep \/ ServeCli

\* The steps of the client, and of the server on its request, come when they
\* can: weak fairness, with ENABLED written out.
CliCanStep ==
  \/ at \in {"prompt", "send", "show"}
  \/ at = "recv" /\ (toCli # <<>> \/ server = "down")

CliFairness ==
  /\ <>[]CliCanStep => []<><<CliStep>>_cliVars
  /\ <>[]Requested(toServer) => []<><<ServeCli>>_cliVars
-----------------------------------------------------------------------------
\* What the user typed is what the server executes: line by line, in order,
\* each once, with the words of the line, quoted ones unbroken, as arguments.
ExecutedAsMeant == IsPrefix(executed, session.meant)

\* The reply shown for a request is the reply to that request.
ShownInStep ==
  \A j \in DOMAIN shown : shown[j] = ReplyTo(asked[j])

\* "Receive full RESP response" (cli.c:206): after whatever is typed in a session,
\* the prompt comes back, or the loop ends because the connection is lost.
PromptReturns == at \in {"send", "recv", "show"} ~> at \in {"prompt", "over"}
=============================================================================
