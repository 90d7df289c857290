----------------------------- MODULE Conversion -----------------------------
(***************************************************************************)
(* The life of one converter: it is set up from what is written in the     *)
(* configuration; then registers are read and published and the payload    *)
(* comes back as a command, or a command is written and published again.   *)
(***************************************************************************)
EXTENDS Converters

CONSTANTS
    Written,          \* converters as the configuration may write them
    CommandValues(_)  \* payloads of commands, by the converter's name

VARIABLES
    host,
    written,
    phase,        \* arguments, map; rejected; idle, read, published, restored; written, echoed
    text,         \* that is not parsed yet
    parser,       \* of the phase
    converter,
    registers,    \* of the device
    payload,      \* published last, or the command's
    original      \* history: the registers read or the payload commanded, as a set of one

parserVars == <<text, parser>>

vars == <<host, written, phase, text, parser, converter, registers, payload, original>>

----------------------------------------------------------------------------
(***************************************************************************)
(* The text of an entry.  It has a list of arguments, which may be named,  *)
(* quoted and surrounded by spaces, and for a map the mappings.            *)
(***************************************************************************)
Join(seqs, separator) ==
    FlattenSeq([i \in DOMAIN seqs |-> IF i = 1 THEN seqs[i] ELSE separator \o seqs[i]])

Escape(s, special) ==
    FlattenSeq([i \in DOMAIN s |-> IF s[i] \in special THEN <<"\\", s[i]>> ELSE <<s[i]>>])

Space(w) == IF w.spaces THEN <<" ">> ELSE <<>>

MapText(w) ==
    LET value(m) == IF m.isInt THEN m.value
                    ELSE <<"\"">> \o Escape(m.value, {"{", "}", ":", ",", "\"", "\\"}) \o <<"\"">>
        mappings == Join([i \in DOMAIN w.map |-> w.map[i].key \o <<":">> \o Space(w) \o value(w.map[i])],
                         <<",">> \o Space(w))
    IN IF w.padded THEN <<" ", "{">> \o mappings \o <<" ", "}", " ">>
       ELSE IF w.braces THEN <<"{">> \o mappings \o <<"}">> ELSE mappings

ArgValue(w, a) == IF w.name = "map" THEN MapText(w) ELSE a.value

ArgText(w, a) ==
    LET value == ArgValue(w, a)
    IN (IF a.name = <<>> THEN <<>> ELSE a.name \o Space(w) \o <<"=">> \o Space(w))
       \o (IF a.quote = "" THEN Escape(value, {"\\", "=", ",", "\"", "'", " "})
           ELSE <<a.quote>> \o value \o <<a.quote>>)

Text(w) == Join([i \in DOMAIN w.args |-> ArgText(w, w.args[i])], <<",">> \o Space(w))

----------------------------------------------------------------------------
Init ==
    /\ written \in Written
    /\ host \in (IF written.name = "string" THEN Hosts ELSE {[littleEndian |-> TRUE, signedChar |-> TRUE]})
    /\ phase = "arguments"
    /\ text = Text(written)
    /\ parser = ArgParser(ArgDefaults(written.name))
    /\ converter = Unusable(written.name)
    /\ registers = <<>>
    /\ payload = [text |-> <<>>]
    /\ original = {}

Reject ==
    /\ phase' = "rejected"
    /\ parser' = NewMapParser
    /\ text' = <<>>
    /\ UNCHANGED converter

Create(c) ==
    /\ converter' = IF c.ready THEN c ELSE Unusable(c.name)
    /\ phase' = IF c.ready THEN "idle" ELSE "rejected"
    /\ parser' = NewMapParser
    /\ text' = <<>>

ParseArgument ==
    /\ phase = "arguments"
    /\ LET names == ArgNames(written.name)
           p == IF text = <<>> THEN ArgsEnd(names, parser) ELSE ArgCharacter(names, parser, Head(text))
       IN \/ p.failed /\ Reject
          \/ /\ ~p.failed /\ text # <<>>
             /\ parser' = p
             /\ text' = Tail(text)
             /\ UNCHANGED <<phase, converter>>
          \/ /\ ~p.failed /\ text = <<>> /\ written.name # "map"
             /\ Create(SetArgValues(written.name, p.values, <<>>))
          \/ /\ ~p.failed /\ text = <<>> /\ written.name = "map"
             /\ phase' = "map"
             /\ parser' = NewMapParser
             /\ text' = p.values[<<"map">>]
             /\ UNCHANGED converter
    /\ UNCHANGED <<host, written, registers, payload, original>>

\* what is left when the text ends is dropped; with no top() anything may happen
ParseMapping ==
    /\ phase = "map"
    /\ LET mapped == SetArgValues("map", <<>>, parser.mappings)
       IN \/ text = <<>> /\ Create(mapped)
          \/ text # <<>> /\ NoTop(parser) /\ (Create(mapped) \/ Reject)
          \/ LET p == MapCharacter(parser, Head(text))
             IN /\ text # <<>> /\ ~NoTop(parser)
                /\ \/ p.failed /\ Reject
                   \/ /\ ~p.failed
                      /\ parser' = p
                      /\ text' = Tail(text)
                      /\ UNCHANGED <<phase, converter>>
    /\ UNCHANGED <<host, written, registers, payload, original>>

Read ==
    /\ phase = "idle"
    /\ registers' \in [1 .. written.count -> 0 .. Word - 1]
    /\ original' = {registers'}
    /\ phase' = "read"
    /\ UNCHANGED <<host, written, parserVars, converter, payload>>

Publish ==
    /\ phase \in {"read", "written"}
    /\ payload' = ToMqtt(host, converter, registers)
    /\ phase' = IF phase = "read" THEN "published" ELSE "echoed"
    /\ UNCHANGED <<host, written, parserVars, converter, registers, original>>

\* what onMessage sends to the modbus thread; the number of registers must be right
Sent(v) ==
    LET values == ToModbus(host, converter, v, written.count)
    IN IF Len(values) = written.count THEN values ELSE Refused

\* the payload that was published is sent as a command
SendBack ==
    /\ phase = "published"
    /\ registers' = Sent(payload)
    /\ phase' = "restored"
    /\ UNCHANGED <<host, written, parserVars, converter, payload, original>>

Command(v) ==
    /\ phase = "idle"
    /\ Sent(v) # Refused
    /\ registers' = Sent(v)
    /\ payload' = v
    /\ original' = {v}
    /\ phase' = "written"
    /\ UNCHANGED <<host, written, parserVars, converter>>

Next ==
    \/ ParseArgument \/ ParseMapping
    \/ Read \/ Publish \/ SendBack
    \/ \E v \in CommandValues(written.name) : Command(v)

Spec == Init /\ [][Next]_vars

----------------------------------------------------------------------------
(***************************************************************************)
(* Properties                                                              *)
(***************************************************************************)
Positional(w) == {i \in DOMAIN w.args : w.args[i].name = <<>>}

\* the argument that the i-th value is for
Target(w, i) == IF i \in Positional(w) THEN ArgNames(w.name)[i] ELSE w.args[i].name

WellWritten(w) ==
    /\ \A i \in Positional(w) : i <= Len(ArgNames(w.name)) /\ \A j \in 1 .. i : j \in Positional(w)
    /\ \A i \in DOMAIN w.args : Target(w, i) \in Range(ArgNames(w.name))
    /\ \A i, j \in DOMAIN w.args : Target(w, i) = Target(w, j) => i = j
    /\ \A i \in DOMAIN w.args : w.name # "map" => w.args[i].value \in {<<"true">>, <<"false">>}
    /\ \A i, j \in DOMAIN w.map : i # j =>
          /\ w.map[i].register # w.map[j].register
          /\ w.map[i].isInt # w.map[j].isInt \/ w.map[i].value # w.map[j].value
    /\ \A i \in DOMAIN w.map : IsUInt16(w.map[i].register)

(***************************************************************************)
(* The parsers (ConverterArgParser::parse, MapParser::parse) understand    *)
(* what is written: a converter is rejected exactly when an argument is    *)
(* unknown, given twice, in the wrong place or no boolean, or a key or a   *)
(* value of a map is not unique or not a register value; otherwise it has  *)
(* the settings and the mappings that were written, with any quoting,      *)
(* escaping, naming and order of arguments.  Three ways to write a map are *)
(* left out: a number with a space before the closing brace, which empties *)
(* the parser's stack; a number with a space before the comma, which takes *)
(* the next mapping for a part of its value; and a number at the end of a  *)
(* list without braces, which is dropped.                                  *)
(***************************************************************************)
ParsedAsWritten ==
    phase \notin {"arguments", "map"} /\ ~(written.padded /\ Last(written.map).isInt) =>
        /\ converter.ready = WellWritten(written)
        /\ converter.ready =>
              /\ \A a \in {<<"swap_bytes">>, <<"low_first">>} :
                    (IF a = <<"low_first">> THEN converter.lowFirst ELSE converter.swapBytes)
                    <=> \E i \in DOMAIN written.args : Target(written, i) = a /\ written.args[i].value = <<"true">>
              /\ converter.mappings =
                    [i \in DOMAIN written.map |->
                        [register |-> written.map[i].register, isInt |-> written.map[i].isInt,
                         value |-> PayloadOf(written.map[i].value)]]

\* the string converter writes as it reads only on such hosts
PlainHost == ~host.littleEndian /\ ~host.signedChar

\* findVariant asks the mappings before that of a text for a number as well,
\* and a text has none
TextAfterNumber ==
    \E i, j \in DOMAIN converter.mappings :
        /\ i < j /\ converter.mappings[i].isInt
        /\ payload = converter.mappings[j].value /\ ~IsNumber(payload)

\* a register that is not mapped is read as unsigned and written as signed
UnmappedSign == \A r \in original : FindRegValue(converter, r[1]) = 0 /\ r[1] >= Word \div 2

(***************************************************************************)
(* A payload that toMqtt has published restores the registers when it is   *)
(* sent as a command, for every word and byte order, sign and width,       *)
(* provided no other registers publish the same.  A map refuses two kinds: *)
(* a text that it lists after a number, and a number above INT16_MAX that  *)
(* it does not list.  A string is restored on hosts of one kind only.      *)
(* (int16 and uint16 use one register.)                                    *)
(***************************************************************************)
PublishedRestores ==
    LET others == [1 .. written.count -> 0 .. Word - 1] \ original
        unique == \A r \in others : ToMqtt(host, converter, r) # payload
    IN phase = "restored" =>
        \/ registers \in original
        \/ written.name = "map" /\ (TextAfterNumber \/ UnmappedSign) /\ registers = Refused
        \/ written.name = "string" /\ ~PlainHost
        \/ ~unique

\* values that getInt does not cut, that have room in the registers and for a
\* map are mapped
Fits(v) ==
    CASE written.name = "string" -> PlainHost /\ Len(v.bytes) <= 2 * written.count
      [] written.name = "map" -> FindVariant(converter, v) # 0 /\ (IsNumber(v) => GetInt(v) = v.number)
      [] written.name = "uint32" -> v.number \in 0 .. (IF written.count = 1 THEN Word ELSE DWord) - 1
      [] written.name = "int32" /\ written.count = 1 -> IsUInt16(v.number)
      [] written.name \in {"int16", "uint16", "int32", "none"} -> IsNumber(v) => GetInt(v) = v.number

(***************************************************************************)
(* A command that toModbus accepts is published back as it was sent: a     *)
(* value that fits is neither cut nor given another sign or order.         *)
(***************************************************************************)
CommandReadsBack ==
    phase = "echoed" => \A v \in original : Fits(v) => payload = v

(***************************************************************************)
(* Claims of the documentation that the code does not meet                 *)
(***************************************************************************)

\* "converters puts all bytes from MQTT payload into register bytes", and
\* register 0x4142 is the string AB: an ASCII string that is written reads back.
StringReadsBack ==
    phase = "echoed" /\ written.name = "string" =>
        \A v \in original :
            Len(v.bytes) <= 2 * written.count /\ (\A b \in Range(v.bytes) : b < Byte \div 2) => payload = v

\* "When used in command section reverse mapping is done": what a mapped
\* register is published as gives that register as a command.
ReverseMapping ==
    phase = "restored" /\ written.name = "map" =>
        \A m \in Range(converter.mappings) : <<m.register>> \in original => registers \in original
=============================================================================
