--------------------------- MODULE MCModbusThread ---------------------------
(***************************************************************************)
(* A network with a register that is polled and one that is read once, an  *)
(* RPC read that covers the first of them, and a write.                    *)
(***************************************************************************)
EXTENDS ModbusThread

CONSTANTS p, once, r, w

MCRefresh == [c \in Polls |-> IF c = p THEN 2 ELSE 1]
MCPollMode == [c \in Polls |-> IF c = once THEN "ONCE" ELSE "ON_CHANGE"]
MCFirst == [c \in Polls \cup Reads |-> IF c = once THEN 5 ELSE 1]
MCCount == [c \in Polls \cup Reads |-> 1]
MCDelay == [c \in Commands |-> IF c = p THEN 1 ELSE 0]
=============================================================================
