--------------------------------- MODULE Peer ---------------------------------
(***************************************************************************)
(* The server as its clients see it: it executes a request once it has all *)
(* of it and answers with a RESP value, unless it ends first.  What it     *)
(* does with many clients is in the module Server.                         *)
(***************************************************************************)
EXTENDS Resp

CONSTANT ReplyTo(_)   \* the reply to a request, its arguments given

VARIABLE server       \* "up", "stopping": in its last turn, or "down"

\* imdb_strcasecmp: upper and lower case are the same to the server.
Stops(args) == args[1] \in {<<"SHUTDOWN">>, <<"Shutdown">>}

(* One round of process_client_input on the units b from a client: the      *)
(* request they begin with, what is behind it, and what is sent back.  Also  *)
(* in its last turn the server executes what has come, but a reply queued in *)
(* that turn, the one to SHUTDOWN first of all, is never written.            *)
Requested(b) == server # "down" /\ resp_parse(b).n > 0
Arguments(b) == LET v == resp_parse(b).v[2] IN [j \in DOMAIN v |-> v[j][2]]
Rest(b)      == SubSeq(b, resp_parse(b).n + 1, Len(b))
Response(b)  ==
  IF server = "stopping" \/ Stops(Arguments(b)) THEN <<>>
    ELSE Write(ReplyTo(Arguments(b)))
Served(b)    == server' = IF Stops(Arguments(b)) THEN "stopping" ELSE server
=============================================================================
