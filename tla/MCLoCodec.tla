----------------------------- MODULE MCLoCodec -----------------------------
(***************************************************************************)
(* Inputs for LoCodec: paths and strings around a multiple of four bytes,  *)
(* blobs likewise, arguments of every type; words that make up good and    *)
(* bad memory; messages with and without bytes that SLIP escapes; tokens   *)
(* of every kind; names with colons, slashes and digits; methods below one *)
(* another.  The buffers of a message and of a socket begin smaller than   *)
(* in the code, so that they grow.                                         *)
(***************************************************************************)
EXTENDS LoCodec

MCPaths == {<<47>>, <<47, 97, 97>>, <<47, 97, 97, 97>>}

MCArgs == [t \in Type |->
    CASE t \in Empty -> {<<>>}
      [] t \in Four -> {<<1, 2, 3, 4>>}
      [] t \in Eight -> {<<1, 2, 3, 4, 5, 6, 7, 8>>}
      [] t = LO_STRING -> {<<>>, <<97, 97, 97>>, <<97, 97, 97, 97>>}
      [] t = LO_SYMBOL -> {<<97>>}
      [] t = LO_BLOB -> {<<7>>, <<0, 7, 0, 7>>, <<7, 7, 7, 7, 0>>}]

\* Types that are known, empty, unknown, and the one that ends the checks; as
\* many values as they need or fewer or more, one with the lower half of a marker.
MCValues == {<<1, 2, 3, 4, 5, 6, 7, 8>>, <<97, 97, 97, 97, 97, 97, 97, 97>>,
             SubSeq(MarkerA, 1, 4) \o <<1, 1, 1, 1>>}
MCCalls ==
    [types : SeqOf({LO_INT32, LO_BLOB, LO_STRING, LO_SYMBOL, LO_TRUE, 120, Dollar}, 3),
     values : SeqOf(MCValues, 2)]

MCWords == {
    <<0, 0, 0, 0>>, <<47, 97, 0, 0>>, <<47, 97, 97, 97>>, <<97, 0, 97, 0>>,
    <<44, 115, 98, 0>>, <<44, 98, 84, 0>>, <<44, 120, 0, 0>>,
    <<0, 0, 0, 1>>, <<7, 0, 0, 0>>, <<255, 0, 0, 0>>}

MCPayloads == {<<47, 97, 0, 0>>, <<47, 97, 97, 0, 7, 7, 7, 7, 7>>, <<47, 97, 97, 97, SLIP_ESC, 1>>,
               <<47, 97, 0, 0, SLIP_END>>, <<47, 97, 0, 0, SLIP_ESC_END, SLIP_ESC_ESC>>}

\* a, b, c and the set [a-b]; [!a], [b], [ac], [!b-c]
MCAlphabet == 97..99
Chars(a, b) == [from |-> a, to |-> b]
MCSets == {[negated |-> FALSE, ranges |-> <<Chars(97, 98)>>],
           [negated |-> TRUE, ranges |-> <<Chars(97, 97)>>],
           [negated |-> FALSE, ranges |-> <<Chars(97, 97), Chars(99, 99)>>],
           [negated |-> TRUE, ranges |-> <<Chars(98, 99)>>]}
MCBraces == {<<<<97>>, <<98>>>>, <<<<97, 98>>, <<98, 97>>, <<99, 99>>>>,
             <<<<97>>, <<97, 98>>>>, <<<<98>>>>}

MCPorts == {<<"1">>, <<"1", "1">>}
MCRests == {<<>>, <<"/">>, <<"/", "h">>}

\* /a, /a/, /a/b, /a/b/a, /b, b/a and NULL; and /*, which is refused
MCAnyPath == <<"NULL">>
MCPathChar == {"/", "a", "b", "*", "NULL"}
MCMethodPaths == {MCAnyPath, <<"/", "a">>, <<"/", "a", "/">>, <<"/", "a", "/", "b">>,
                  <<"/", "a", "/", "b", "/", "a">>, <<"/", "b">>, <<"b", "/", "a">>, <<"/", "*">>}
=============================================================================
