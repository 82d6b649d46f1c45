------------------------------- MODULE MCClients -------------------------------
(* An instance of Clients for TLC.                                          *)
EXTENDS Clients

\* "SHUTDOWN" and "Shutdown" are words in one piece; "hi" and "lo" the two bytes
\* of one letter, as which "letter" and "?" are decoded.
Octets ==
  {"a", "b", "e", " ", "\"", "crlf", "nul", "hi", "lo", "letter", "?",
   "SHUTDOWN", "Shutdown"}

\* A line of as many characters as fit (its newline does not), a blank one, a
\* quoted blank, a word with a quote in it, and the end in mixed case.
Words ==
  [lines |-> << <<"a", " ", "b">>, <<" ">>, <<"\"", " ", "\"">>,
                <<"b", "\"", "b">>, <<"e">>, <<"Shutdown">> >>,
   meant |-> << << <<"a">>, <<"b">> >>, << <<" ">> >>, << <<"b", "\"", "b">> >>,
                << <<"e">> >>, << <<"Shutdown">> >> >>]

\* A quoted word that is not closed, and a name that begins like SHUTDOWN: it
\* ends the client, not the server.
Quitting ==
  [lines |-> << <<"\"", "e">>, <<"SHUTDOWN", "b">>, <<"a">> >>,
   meant |-> << << <<"e">> >>, << <<"SHUTDOWN", "b">> >> >>]

Sittings == {Words, Quitting}

Commands == {<<"a">>, <<"b">>, <<"e">>, <<" ">>, <<"SHUTDOWN">>}

Asks ==
  {[body |-> "not json", args |-> <<>>], [body |-> "no args", args |-> <<>>]}
    \cup {[body |-> "args", args |-> <<x>>] : x \in Commands}

\* A reply of every kind: a list one of whose elements holds a CRLF, an empty
\* one, a number, an error.
Replies(args) ==
  CASE args[1] = <<"a">> -> Array(<<Bulk(<<"a", "crlf">>), Nil>>)
    [] args[1] = <<" ">> -> Array(<<>>)
    [] args[1] = <<"b">> -> <<":", 1>>
    [] args[1] = <<"e">> -> <<"-", "ERR">>
    [] OTHER             -> Bulk(args[1])

\* Whatever may be typed, the client has room for its reply and can read it: the
\* instance is one that the theorems of ClientProofs speak of.
Typed == UNION {[1 .. n -> Octets \ {"nul"}] : n \in 0 .. LineSize - 1}

ASSUME RepliesFit ==
  \A a \in {Tokens(l) : l \in Typed} \ {<<>>} :
    LET w == Write(ReplyTo(a))
    IN  Len(w) <= RecvSize /\ resp_parse(w) = Whole(Len(w), ReplyTo(a))
=============================================================================
