-------------------------- MODULE MCModbusExecutor --------------------------
(***************************************************************************)
(* Two slaves, each with one polled register.  Slave 1 is also read by RPC *)
(* and written; it needs silence on the bus before the first command after *)
(* another slave.  Slave 2 needs silence before every poll.                *)
(***************************************************************************)
EXTENDS ModbusExecutor

CONSTANTS p1, p2, r1, r2, w1, w2

MCSlaveOf == [c \in Commands |-> IF c \in {p2, r2} THEN 2 ELSE 1]

\* w2 writes to a slave that has no register to poll.
MCSlaveOfWriteOnly == [c \in Commands |-> IF c = p2 THEN 2 ELSE IF c = w2 THEN 3 ELSE 1]

MCDelay == [c \in Commands |-> IF c = p2 THEN 1 ELSE 0]

MCFirstDelay == [c \in Commands |-> IF c = p2 THEN 0 ELSE 1]

MCRetries == [c \in Commands |-> 1]

MCListed ==
    [R \in SUBSET Polls |->
        [s \in Slaves |-> SelectSeq(<<p1, p2>>, LAMBDA p : p \in R /\ SlaveOf[p] = s)]]
=============================================================================
