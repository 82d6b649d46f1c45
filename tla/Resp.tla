--------------------------------- MODULE Resp ---------------------------------
(***************************************************************************)
(* RESP2 on the wire: the writers and the parser of src/src/resp.c, with   *)
(* which the parsers of cli/cli.c and web/proxy.js share their structure.  *)
(*                                                                         *)
(* A stream is a sequence of units.  A line is a unit, its CRLF another,   *)
(* and every byte of a bulk string is one: a length counts these.  A       *)
(* stream may be cut between any two units.                                *)
(***************************************************************************)
EXTENDS Integers, Sequences, SequencesExt

CONSTANTS
  Bytes,      \* what bulk strings are made of
  Texts,      \* the texts of simple strings and errors
  LongTexts,  \* those resp_buf_appendf has no room for (tmp, 128 bytes)
  SplitTexts  \* those that repeat a command name with a CRLF in it

ASSUME RespAssumption ==
  LongTexts \cup SplitTexts \subseteq Texts /\ "" \in Texts \ SplitTexts

TextLine(t, x)   == <<"line", t, x, 0>>
NumberLine(t, n) == <<"line", t, "", n>>
CrLf    == <<"crlf">>
Junk    == <<"junk">>

\* A byte of a bulk string.  It may be the CRLF that ends lines elsewhere.
Byte(b) == IF b = "crlf" THEN CrLf ELSE <<"byte", b>>

Unit ==
  ({"line"} \X {"+", "-", ":", "$", "*"} \X Texts \X Int)
    \cup ({"byte"} \X Bytes) \cup {CrLf, Junk}

Nil      == <<"nil">>
Bulk(q)  == <<"$", q>>
Array(q) == <<"*", q>>

-----------------------------------------------------------------------------
(* Writing.  A value has a text, a number or a sequence as its second part. *)

\* resp_buf_appendf copies as many bytes as the text would have needed: of one
\* too long the end and the CRLF are lost, and what lies behind tmp is sent.
\* One with a CRLF in it is two lines, of which the second has no type.
WriteText(t, x) ==
  CASE x \in LongTexts  -> <<TextLine(t, x), Junk>>
    [] x \in SplitTexts -> <<TextLine(t, ""), CrLf, Junk, CrLf>>
    [] OTHER            -> <<TextLine(t, x), CrLf>>

WriteBulk(q) ==
  <<NumberLine("$", Len(q)), CrLf>> \o [j \in DOMAIN q |-> Byte(q[j])] \o <<CrLf>>

WriteOne(v) ==
  CASE v[1] \in {"+", "-"} -> WriteText(v[1], v[2])
    [] v[1] = ":"          -> <<NumberLine(":", v[2]), CrLf>>
    [] v[1] = "$"          -> WriteBulk(v[2])
    [] v[1] = "nil"        -> <<NumberLine("$", -1), CrLf>>

\* resp_write_array_header, and the items one after the other.
WriteArray(q) ==
  <<NumberLine("*", Len(q)), CrLf>>
    \o FlattenSeq([j \in DOMAIN q |-> WriteOne(q[j])])

Write(v) == IF v[1] = "*" THEN WriteArray(v[2]) ELSE WriteOne(v)

\* build_command of cli.c, buildRESP of proxy.js: an array of bulk strings.
Request(args) == WriteArray([j \in DOMAIN args |-> Bulk(args[j])])

-----------------------------------------------------------------------------
(* Parsing: n > 0 units of the buffer are the value v; 0 when more has to   *)
(* come; -1 for an error.                                                   *)
Incomplete  == [n |-> 0]
Malformed   == [n |-> -1]
Whole(n, v) == [n |-> n, v |-> v]

\* find_crlf, behind the first k units.
FindCrLf(b, k) == SelectInSubSeq(b, k + 1, Len(b), LAMBDA u : u = CrLf)

TypeOf(u) == IF u[1] = "line" THEN u[2] ELSE "other"

Raw(q) == [j \in DOMAIN q |-> IF Len(q[j]) = 2 THEN q[j][2] ELSE q[j][1]]

\* imdb_strndup, and printf of a %s: nothing behind a zero byte.
CString(q) ==
  LET z == SelectInSeq(q, LAMBDA u : u = Byte("nul"))
  IN  Raw(IF z = 0 THEN q ELSE SubSeq(q, 1, z - 1))

(* The parsers in C and the one in JavaScript differ in two places, and on    *)
(* lengths below -1, which no server writes.                                  *)
Kept(language, q) == IF language = "c" THEN CString(q) ELSE Raw(q)

UnknownLine(language, k) ==
  IF language = "c" THEN Malformed ELSE Whole(k, <<"line">>)

\* The value behind the first k units of b; for an array, items[<<n, e>>] are
\* the n values behind its line.
ValueAt(language, b, items, k) ==
  LET e    == FindCrLf(b, k)
      type == TypeOf(b[k + 1])
      num  == b[k + 1][4]
      Less == IF num = -1 THEN Whole(e, Nil) ELSE Malformed
      of   == items[<<num, e>>]
  IN  IF e = 0 THEN Incomplete ELSE
      CASE type = "other" -> UnknownLine(language, e)
        [] type \in {"+", "-"} ->
             Whole(e, <<type, IF e = k + 2 THEN b[k + 1][3] ELSE "glued">>)
        [] type = ":" -> Whole(e, <<":", num>>)
        [] type = "$" ->
             IF num < 0 THEN Less
               ELSE IF e + num + 1 > Len(b) THEN Incomplete
               ELSE Whole(e + num + 1, Bulk(Kept(language, SubSeq(b, e + 1, e + num))))
        [] type = "*" ->
             IF num < 0 THEN Less
               ELSE IF of.n <= 0 THEN of
               ELSE Whole(of.n, Array(of.v))

\* The loop over the items of an array: n more, behind the first k units.
ItemsAt(language, b, items, n, k) ==
  LET one    == ValueAt(language, b, items, k)
      others == items[<<n - 1, one.n>>]
  IN  IF n = 0 THEN Whole(k, <<>>)
        ELSE IF one.n <= 0 THEN one
        ELSE IF others.n <= 0 THEN others
        ELSE Whole(others.n, <<one.v>> \o others.v)

Items(language, b) ==
  LET items[p \in Nat \X (0 .. Len(b))] == ItemsAt(language, b, items, p[1], p[2])
  IN  items

Parser(language, b) == ValueAt(language, b, Items(language, b), 0)

resp_parse(b) == Parser("c", b)
=============================================================================
