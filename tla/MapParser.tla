----------------------------- MODULE MapParser ------------------------------
(***************************************************************************)
(* MapParser (stdconv/map.cpp): the mappings from register values to MQTT  *)
(* values in the argument of the map converter, a character at a time.     *)
(***************************************************************************)
EXTENDS ConverterTools

NewMapParser ==
    [stack |-> <<"SCAN">>, key |-> <<>>, value |-> <<>>, type |-> "NONE", mappings |-> <<>>,
     failed |-> FALSE]

MapError(p) == [p EXCEPT !.failed = TRUE]

PushState(p, s) == [p EXCEPT !.stack = Append(@, s)]

PopState(p) == [p EXCEPT !.stack = Front(@)]

AddToValue(p, c) == [p EXCEPT !.value = Append(@, c)]

AddEscapedChar(p, c) == AddToValue(PopState(p), c)

\* getInt of a key, strtol with base 0, or -1 when it does not parse
KeyNumber(key) ==
    LET hex == Len(key) > 2 /\ key[1] = "0" /\ key[2] = "x"
        octal == Len(key) > 1 /\ key[1] = "0"
        digits == IF hex THEN SubSeq(key, 3, Len(key)) ELSE key
    IN IF ~AllDigits(digits) \/ (octal /\ ~hex /\ Range(digits) \cap {"8", "9"} # {}) THEN -1
       ELSE Signed(Digitize(digits, IF hex THEN 16 ELSE IF octal THEN 8 ELSE 10), DWord)

\* atoi reads as far as it can, 0 if there is no number
Atoi(s) ==
    LET negative == s # <<>> /\ s[1] = "-"
        from == IF negative THEN 2 ELSE 1
        ends == {j \in from .. Len(s) : AllDigits(SubSeq(s, from, j))}
        n == IF ends = {} THEN 0 ELSE Digitize(SubSeq(s, from, Max(ends)), 10)
    IN Signed(IF negative THEN -n ELSE n, DWord)

AddMapping(p) ==
    LET regVal == KeyNumber(p.key)
        isInt == p.type = "INT"
        value == IF isInt THEN [number |-> Atoi(p.value)] ELSE PayloadOf(p.value)
        mapping == [register |-> regVal, isInt |-> isInt, value |-> value]
    IN IF \/ ~IsUInt16(regVal)
          \/ \E m \in Range(p.mappings) : m.register = regVal \/ (m.isInt = isInt /\ m.value = value)
       THEN MapError(p)
       ELSE [PopState(p) EXCEPT !.mappings = Append(@, mapping),
                                !.type = "NONE", !.key = <<>>, !.value = <<>>]

IsDigit(c) == c \in Range(Digits)

ValueType(p, c) == IF p.type = "NONE" /\ IsDigit(c) THEN "INT" ELSE p.type

MapScan(p, c) ==
    CASE c \in {"{", " ", ","} -> p
      [] c = "}" -> IF p.type = "INT" THEN AddMapping(p) ELSE p
      [] c = "\\" -> MapError(p)
      [] c = "\"" -> IF p.key = <<>> THEN PushState(p, "KEY")
                     ELSE [PushState(p, "VALUE") EXCEPT !.type = "STRING"]
      [] c = ":" -> IF p.key = <<>> THEN MapError(p) ELSE p
      [] OTHER -> IF p.key # <<>> THEN [AddToValue(PushState(p, "VALUE"), c) EXCEPT !.type = ValueType(p, c)]
                  ELSE IF IsDigit(c) THEN [PushState(p, "KEY") EXCEPT !.key = <<c>>]
                  ELSE MapError(p)

MapKey(p, c) ==
    CASE c \in {" ", ":"} -> PopState(p)
      [] IsDigit(c) \/ c = "x" -> [p EXCEPT !.key = Append(@, c)]
      [] OTHER -> MapError(p)

\* a brace in a string is an error: its case falls through to the default
MapValue(p, c) ==
    CASE c = "\\" -> PushState(p, "ESCAPE")
      [] c = "\"" /\ p.type = "NONE" -> [p EXCEPT !.type = "STRING"]
      [] c = "\"" /\ p.type = "STRING" -> AddMapping(p)
      [] c = "\"" /\ p.type = "INT" -> MapError(p)
      [] c = "}" -> IF p.type = "INT" THEN AddMapping(p) ELSE MapError(p)
      [] c = " " /\ p.type = "NONE" -> p
      [] c = " " /\ p.type = "STRING" -> AddToValue(p, c)
      [] c = " " /\ p.type = "INT" -> PopState(p)
      [] c = "," -> IF p.type = "INT" THEN AddMapping(p) ELSE AddToValue(p, c)
      [] OTHER -> [AddToValue(p, c) EXCEPT !.type = ValueType(p, c)]

MapCharacter(p, c) ==
    CASE Last(p.stack) = "SCAN" -> MapScan(p, c)
      [] Last(p.stack) = "KEY" -> MapKey(p, c)
      [] Last(p.stack) = "VALUE" -> MapValue(p, c)
      [] Last(p.stack) = "ESCAPE" -> AddEscapedChar(p, c)

\* addMapping in state SCAN leaves an empty stack, whose top() is undefined
NoTop(p) == p.stack = <<>>
=============================================================================
