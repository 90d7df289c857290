-------------------------- MODULE PolledRegisters ---------------------------
(***************************************************************************)
(* The registers that the gateway polls.  A register is a unit (a slave    *)
(* and a register type) and a number; a range of registers is a record     *)
(* with unit, first and count (ModbusAddressRange with a slave).           *)
(***************************************************************************)
EXTENDS Integers, Sequences, FiniteSets

CONSTANTS
    Groups,   \* the ranges of the poll specification, one RegisterPoll each
    Values    \* register values, uint16_t

\* The numbers of the registers in range r
Registers(r) == r.first .. r.first + r.count - 1

ASSUME ValueAssumption == Values \subseteq 0 .. 65535

\* a register value before anything is read
ASSUME ZeroAssumption == 0 \in Values

ASSUME RegisterAssumption ==
    /\ \A g \in Groups : g.first \in Nat /\ g.count \in Nat \ {0}
    /\ \A g, h \in Groups :
          g.unit = h.unit /\ Registers(g) \cap Registers(h) # {} => g = h

\* PublishMode
Modes == {"ON_CHANGE", "EVERY_POLL", "ONCE"}
=============================================================================
