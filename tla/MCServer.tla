------------------------------- MODULE MCServer -------------------------------
(* Instances of Server for TLC.                                             *)
EXTENDS Server

CONSTANTS c1, c2, c3

\* A client with two requests in a row, one that stops the server, and one that
\* only connects.
Busy == [c \in Conns |-> CASE c = c1 -> <<"command", "command">>
                           [] c = c2 -> <<"stop">>
                           [] OTHER  -> <<>>]

\* A request that is no RESP value, and a good one behind it.
Malformed == [c \in Conns |-> <<"bad", "command">>]
=============================================================================
