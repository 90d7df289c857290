--------------------------- MODULE ConverterTools ---------------------------
(***************************************************************************)
(* Registers and numbers of libmodmqttconv (convtools.hpp, mqttvalue.hpp). *)
(* A byte has Byte values, 256 in the code, a register Byte * Byte and an  *)
(* int32_t as many as two registers.                                       *)
(*                                                                         *)
(* An MQTT value is what its payload says: [number |-> n] is the decimal   *)
(* text of n, [list |-> s] a JSON array of numbers, [bytes |-> s] binary   *)
(* data and [text |-> s] any text that is no number.                       *)
(***************************************************************************)
EXTENDS Integers, SequencesExt

CONSTANT Byte

ASSUME ByteAssumption == Byte \in Nat /\ Byte > 1 /\ Byte % 2 = 0

Word == Byte * Byte
DWord == Word * Word

\* the value of n's low bits as a signed number of the given size
Signed(n, size) == LET m == n % size IN IF m >= size \div 2 THEN m - size ELSE m

SetByteOrder(value, swap) ==
    LET v == value % Word IN IF swap THEN (v % Byte) * Byte + v \div Byte ELSE v

\* a single register is not sign extended
RegistersToInt32(data, lowFirst, swapBytes) ==
    LET word(i) == SetByteOrder(data[i], swapBytes)
    IN IF Len(data) = 1 THEN word(1)
       ELSE IF lowFirst THEN Signed(word(2) * Word + word(1), DWord)
                        ELSE Signed(word(1) * Word + word(2), DWord)

Int32ToRegisters_HighFirst(val, lowFirst, swapBytes, registerCount) ==
    LET low == SetByteOrder(val, swapBytes)
        high == SetByteOrder(val \div Word, swapBytes)
    IN IF registerCount # 2 THEN <<low>> ELSE <<high, low>>

\* one register unless registerCount is 2; \div rounds down, as >> does
Int32ToRegisters(val, lowFirst, swapBytes, registerCount) ==
    LET low == SetByteOrder(val, swapBytes)
        high == SetByteOrder(val \div Word, swapBytes)
    IN IF registerCount # 2 THEN <<low>> ELSE IF lowFirst THEN <<low, high>> ELSE <<high, low>>

IsNumber(v) == DOMAIN v = {"number"}

\* MqttValue::getInt of a payload: strtol makes a long, the assignment cuts it
GetInt(v) == Signed(v.number, DWord)

IsUInt16(n) == 0 <= n /\ n < Word

----------------------------------------------------------------------------
(***************************************************************************)
(* Numbers in texts                                                        *)
(***************************************************************************)
Digits == <<"0", "1", "2", "3", "4", "5", "6", "7", "8", "9">>

DigitValue(c) == CHOOSE d \in 0 .. 9 : Digits[d + 1] = c

AllDigits(s) == s # <<>> /\ Range(s) \subseteq Range(Digits)

Digitize(s, base) ==
    LET step(n, c) == n * base + DigitValue(c) IN FoldLeft(step, 0, s)

\* the payload that has the characters s; a number is written without leading zeros
PayloadOf(s) ==
    LET negative == s # <<>> /\ s[1] = "-"
        digits == IF negative THEN Tail(s) ELSE s
    IN IF AllDigits(digits) /\ (digits[1] # "0" \/ s = <<"0">>)
       THEN [number |-> IF negative THEN -Digitize(digits, 10) ELSE Digitize(digits, 10)]
       ELSE [text |-> s]
=============================================================================
