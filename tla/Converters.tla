----------------------------- MODULE Converters -----------------------------
(***************************************************************************)
(* The converters of stdconv that work in both directions, and what an     *)
(* object does without one.  A converter is set up once from its text in   *)
(* the configuration (createConverterFromString); it then turns registers  *)
(* into payloads (toMqtt) and payloads of commands into registers          *)
(* (toModbus).                                                             *)
(***************************************************************************)
EXTENDS MapParser, ConverterArgParser

\* getArgs
ArgNames(name) ==
    CASE name \in {"int16", "uint16"} -> <<<<"swap_bytes">>>>
      [] name = "int32" -> <<<<"low_first">>, <<"swap_bytes">>>>
      [] name = "uint32" -> <<<<"low_first">>>>
      [] name = "map" -> <<<<"map">>>>
      [] name \in {"string", "none"} -> <<>>

ArgDefaults(name) ==
    [a \in Range(ArgNames(name)) |-> IF a = <<"map">> THEN <<>> ELSE <<"0">>]

\* as_bool, and the words that were in use before the arguments were booleans
IsTrue(value, a) == value \in {<<"true">>, <<"TRUE">>, <<"1">>, a}

IsFalse(value, a) ==
    value \in {<<"false">>, <<"FALSE">>, <<"0">>, <<>>} \/ (a = <<"low_first">> /\ value = <<"high_first">>)

InvalidFlag(values) ==
    \E a \in DOMAIN values \ {<<"map">>} : ~IsTrue(values[a], a) /\ ~IsFalse(values[a], a)

\* setArgValues
SetArgValues(name, values, mappings) ==
    LET flag(a) == a \in DOMAIN values /\ IsTrue(values[a], a)
    IN [name |-> name, ready |-> ~InvalidFlag(values), swapBytes |-> flag(<<"swap_bytes">>),
        lowFirst |-> flag(<<"low_first">>), mappings |-> mappings]

Unusable(name) ==
    [name |-> name, ready |-> FALSE, swapBytes |-> FALSE, lowFirst |-> FALSE, mappings |-> <<>>]

----------------------------------------------------------------------------
(***************************************************************************)
(* string.  The host decides what htons does and whether char is signed.   *)
(***************************************************************************)
Hosts == [littleEndian : BOOLEAN, signedChar : BOOLEAN]

\* htons
ToNetwork(host, r) == SetByteOrder(r, host.littleEndian)

\* the bytes of registers in memory after adaptToNetworkByteOrder
Memory(host, regs) ==
    LET bytes(r) == IF host.littleEndian THEN <<r % Byte, r \div Byte>> ELSE <<r \div Byte, r % Byte>>
    IN FlattenSeq([i \in DOMAIN regs |-> bytes(ToNetwork(host, regs[i]))])

CString(bytes) ==
    LET zeros == {i \in DOMAIN bytes : bytes[i] = 0}
    IN IF zeros = {} THEN bytes ELSE SubSeq(bytes, 1, Min(zeros) - 1)

\* a char as uint16_t
Extended(host, b) == IF host.signedChar /\ b >= Byte \div 2 THEN b + Word - Byte ELSE b

StringToRegisters(host, bytes, registerCount) ==
    LET byte(i) == IF i <= Len(bytes) THEN Extended(host, bytes[i]) ELSE 0
    IN [i \in 1 .. registerCount |-> ToNetwork(host, (byte(2 * i - 1) * Byte + byte(2 * i)) % Word)]

----------------------------------------------------------------------------
(***************************************************************************)
(* toMqtt                                                                  *)
(***************************************************************************)
FindRegValue(c, r) == SelectInSeq(c.mappings, LAMBDA m : m.register = r)

\* of one register; with more the code throws
MapToMqtt(c, r) ==
    LET i == FindRegValue(c, r) IN IF i = 0 THEN [number |-> r] ELSE c.mappings[i].value

ToMqtt(host, c, data) ==
    CASE c.name = "none" -> IF Len(data) = 1 THEN [number |-> data[1]] ELSE [list |-> data]
      [] c.name = "int16" -> [number |-> Signed(SetByteOrder(data[1], c.swapBytes), Word)]
      [] c.name = "uint16" -> [number |-> SetByteOrder(data[1], c.swapBytes)]
      [] c.name = "int32" -> [number |-> RegistersToInt32(data, c.lowFirst, c.swapBytes)]
      [] c.name = "uint32" -> [number |-> RegistersToInt32(data, c.lowFirst, FALSE) % DWord]
      [] c.name = "string" -> [bytes |-> CString(Memory(host, data))]
      [] c.name = "map" -> MapToMqtt(c, data[1])

----------------------------------------------------------------------------
(***************************************************************************)
(* toModbus; no registers when the value is refused                        *)
(***************************************************************************)
Refused == <<>>

\* DefaultCommandConverter
DefaultToModbus(v, registerCount) ==
    IF registerCount > 1
    THEN IF DOMAIN v = {"list"} /\ Len(v.list) = registerCount /\ \A r \in Range(v.list) : IsUInt16(r)
         THEN v.list ELSE Refused
    ELSE IF IsNumber(v) /\ IsUInt16(GetInt(v)) THEN <<GetInt(v)>> ELSE Refused

\* every register gets the value
Int16ToModbus(v, swapBytes, registerCount) ==
    IF IsNumber(v) /\ Signed(GetInt(v), Word) = GetInt(v)
    THEN [i \in 1 .. registerCount |-> SetByteOrder(GetInt(v), swapBytes)] ELSE Refused

UInt16ToModbus_Signed(v, swapBytes, registerCount) ==
    IF IsNumber(v) /\ IsUInt16(GetInt(v)) THEN Int16ToModbus(v, swapBytes, registerCount) ELSE Refused

UInt16ToModbus(v, swapBytes, registerCount) ==
    IF IsNumber(v) /\ IsUInt16(GetInt(v))
    THEN [i \in 1 .. registerCount |-> SetByteOrder(GetInt(v), swapBytes)] ELSE Refused

\* a value that is no number ends the search at the first mapping to a number
FindVariant(c, v) ==
    LET stops(m) == IF m.isInt THEN ~IsNumber(v) \/ GetInt(v) = m.value.number ELSE v = m.value
    IN SelectInSeq(c.mappings, stops)

MapToModbus(c, v, registerCount) ==
    LET i == FindVariant(c, v)
    IN IF registerCount # 1 THEN Refused
       ELSE IF i = 0 THEN Int16ToModbus(v, FALSE, 1)
       ELSE IF c.mappings[i].isInt /\ ~IsNumber(v) THEN Refused
       ELSE <<c.mappings[i].register>>

ToModbus(host, c, v, registerCount) ==
    CASE c.name = "none" -> DefaultToModbus(v, registerCount)
      [] c.name = "int16" -> Int16ToModbus(v, c.swapBytes, registerCount)
      [] c.name = "uint16" -> UInt16ToModbus(v, c.swapBytes, registerCount)
      [] c.name = "int32" -> IF ~IsNumber(v) THEN Refused
                             ELSE Int32ToRegisters(GetInt(v), c.lowFirst, c.swapBytes, registerCount)
      [] c.name = "uint32" -> IF ~IsNumber(v) THEN Refused
                              ELSE Int32ToRegisters(v.number, c.lowFirst, FALSE, registerCount)
      [] c.name = "string" -> StringToRegisters(host, v.bytes, registerCount)
      [] c.name = "map" -> MapToModbus(c, v, registerCount)
=============================================================================
