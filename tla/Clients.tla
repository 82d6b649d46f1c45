-------------------------------- MODULE Clients --------------------------------
(***************************************************************************)
(* The clients of the repository at one server: the command line client    *)
(* and a request of the web proxy.  The server may end at any time, killed *)
(* or told to by one of them, with the requests of both under way and what *)
(* it has not sent of the replies lost.                                    *)
(***************************************************************************)
EXTENDS Cli, Proxy

clientVars == <<server, cliVars, proxyVars>>

Init == server = "up" /\ CliInit /\ ProxyInit

FirstUnits(q) == {SubSeq(q, 1, n) : n \in 0 .. Len(q)}

ServerEnds ==
  /\ server # "down"
  /\ server' = "down"
  /\ toCli' \in FirstUnits(toCli) /\ toProxy' \in FirstUnits(toProxy)
  /\ UNCHANGED <<session, stdin, at, line, reply, toServer, asked, executed, shown>>
  /\ UNCHANGED <<post, socket, timer, data, turnedAway, toPeer, ran, answer, alive>>

Next ==
  \/ CliNext /\ UNCHANGED proxyVars
  \/ ProxyNext /\ UNCHANGED cliVars
  \/ ServerEnds

Spec ==
  /\ Init /\ [][Next]_clientVars
  /\ CliFairness /\ ProxyFairness
  /\ WF_clientVars(server = "stopping" /\ ServerEnds)
=============================================================================
