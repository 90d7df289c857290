---------------------------- MODULE MCConversion ----------------------------
(***************************************************************************)
(* Bytes of two bits.  Each converter with one and two registers, with   *)
(* arguments that are right and wrong in different ways.                   *)
(***************************************************************************)
EXTENDS Conversion

Entry(name, count, args) ==
    [name |-> name, count |-> count, args |-> args, spaces |-> FALSE, braces |-> TRUE, padded |-> FALSE,
     map |-> <<>>]

Arg(name, value, quote) == [name |-> name, value |-> value, quote |-> quote]

Values == {<<"true">>, <<"false">>}
Names == {<<>>, <<"low_first">>, <<"swap_bytes">>, <<"first">>}

ArgLists(n) ==
    UNION {[1 .. k -> {Arg(name, value, "'") : name \in Names, value \in Values}] : k \in 0 .. n}

Mapping(key, register, isInt, value) ==
    [key |-> key, register |-> register, isInt |-> isInt, value |-> value]

\* keys are decimal, octal or hexadecimal; 16 is no register value
Mappings ==
    { Mapping(<<"1">>, 1, TRUE, <<"7", "0">>),
      Mapping(<<"0", "1", "1">>, 9, TRUE, <<"-", "9">>),
      Mapping(<<"0", "x", "2">>, 2, FALSE, <<"on", " ", "\"", ",", "}">>),
      Mapping(<<"6">>, 6, FALSE, <<"\\", "'">>),
      Mapping(<<"6">>, 6, FALSE, <<"5">>),
      Mapping(<<"1", "5">>, 15, FALSE, <<"on">>),
      Mapping(<<"0", "1">>, 1, FALSE, <<"off">>),
      Mapping(<<"1", "6">>, 16, FALSE, <<"-", "9">>),
      Mapping(<<"0", "x", "9">>, 9, TRUE, <<"7", "0">>) }

MapEntry(map, quote, spaces, braces) ==
    [Entry("map", 1, <<Arg(<<>>, <<>>, quote)>>) EXCEPT !.map = map, !.spaces = spaces, !.braces = braces]

\* with two mappings; a list without braces ends in a string, and a value
\* in single quotes has none inside
MapEntries ==
    {w \in {MapEntry(map, quote, spaces, braces) :
               map \in {<<m>> : m \in Mappings} \cup {<<m, n>> : m, n \in Mappings},
               quote \in {"", "'"}, spaces \in BOOLEAN, braces \in BOOLEAN} :
        /\ w.braces \/ ~Last(w.map).isInt
        /\ w.args[1].quote = "'" => \A i \in DOMAIN w.map : "'" \notin Range(w.map[i].value)}

PaddedEntries ==
    {[MapEntry(<<m>>, "'", FALSE, TRUE) EXCEPT !.padded = TRUE] : m \in {n \in Mappings : "'" \notin Range(n.value)}}

MCWritten ==
    {Entry("int32", 2, args) : args \in ArgLists(2)}
    \cup {[Entry("int32", 2, <<Arg(<<"swap_bytes">>, <<"maybe">>, "")>>) EXCEPT !.spaces = TRUE]}
    \cup {Entry(name, count, args) : name \in {"int16", "uint16", "uint32"}, count \in {1, 2}, args \in ArgLists(1)}
    \cup {Entry(name, count, <<>>) : name \in {"int32", "string", "none"}, count \in {1, 2}}
    \cup MapEntries \cup PaddedEntries

\* the example of the documentation
DocumentedMap ==
    {MapEntry(<< Mapping(<<"1">>, 1, TRUE, <<"1", "1">>),
                 Mapping(<<"0", "x", "2">>, 2, FALSE, <<"two">>),
                 Mapping(<<"3">>, 3, FALSE, <<"escaped", ":", " ", "\"">>) >>, "'", FALSE, TRUE)}

Numbers == {[number |-> n] : n \in -(DWord \div 2) .. DWord}
Bytes == UNION {[1 .. k -> 1 .. Byte - 1] : k \in 0 .. 3}

MCCommandValues(name) ==
    CASE name = "string" -> {[bytes |-> s] : s \in Bytes}
      [] name = "map" -> Numbers \cup {[text |-> s] : s \in {<<"on">>, <<"off">>, <<"\\", "'">>,
                                                            <<"on", " ", "\"", ",", "}">>}}
      [] name = "none" -> Numbers \cup {[list |-> s] : s \in [1 .. 2 -> -1 .. Word]}
      [] OTHER -> Numbers
=============================================================================
