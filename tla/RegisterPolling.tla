--------------------------- MODULE RegisterPolling --------------------------
(***************************************************************************)
(* What the modbus thread tells the main thread about registers:           *)
(* pollRegisters, handleRegisterReadError and writeRegisters of            *)
(* libmodmqttsrv/modbus_executor.cpp, and the queue mFromModbusQueue.      *)
(* Which command comes when is the matter of module ModbusExecutor.        *)
(***************************************************************************)
EXTENDS PolledRegisters

CONSTANTS
    PollMode,                \* mPublishMode of a RegisterPoll
    DefaultReadErrorCount,
    MaxReadErrors,           \* bound on mReadErrors
    MaxFromModbus,           \* bound on the length of the queue
    NeverRead

ASSUME PollingAssumption ==
    /\ PollMode \in [Groups -> Modes]
    /\ DefaultReadErrorCount \in Nat /\ MaxReadErrors \in Nat /\ MaxFromModbus \in Nat

VARIABLES
    mLastValues,    \* of a poll: the values sent last
    mReadErrors,    \* of a poll
    mLastReadOk,    \* of a poll
    lastRead,       \* of a poll: the values read last, NeverRead if none
    fresh,          \* the polls whose last read was good, since the network was connected
    fromModbus      \* mFromModbusQueue

pollVars == <<mLastValues, mReadErrors, mLastReadOk, lastRead, fresh>>

PollInit ==
    /\ mLastValues = [g \in Groups |-> [i \in Registers(g) |-> 0]]
    /\ mReadErrors = [g \in Groups |-> 0]
    /\ mLastReadOk = [g \in Groups |-> FALSE]
    /\ lastRead = [g \in Groups |-> NeverRead]
    /\ fresh = {}
    /\ fromModbus = <<>>

\* MsgRegisterValues of a poll, a command or an RPC request; MsgRegisterReadFailed
\* or MsgRegisterWriteFailed; MsgModbusNetworkState
ValuesMsg(r, values, source) ==
    [type |-> "values", range |-> r, values |-> values, source |-> source]
FailedMsg(r) == [type |-> "failed", range |-> r]
NetworkMsg(isUp) == [type |-> "network", up |-> isUp]

SendMessage(m) ==
    /\ Len(fromModbus) < MaxFromModbus
    /\ fromModbus' = Append(fromModbus, m)

\* Mutant: a read that ends a series of errors is nothing to tell.
ValuesSent_ChangedOnly(g, values, forceSend) == values # mLastValues[g] \/ forceSend

ValuesSent(g, values, forceSend) ==
    \/ values # mLastValues[g]
    \/ forceSend
    \/ PollMode[g] = "EVERY_POLL"
    \/ mReadErrors[g] # 0

\* Mutant: the values sent are not remembered.
RegisterUpdate_Forgotten(g, values) ==
    /\ mReadErrors' = [mReadErrors EXCEPT ![g] = 0]
    /\ UNCHANGED mLastValues

RegisterUpdate(g, values) ==
    /\ mReadErrors' = [mReadErrors EXCEPT ![g] = 0]
    /\ mLastValues' = [mLastValues EXCEPT ![g] = values]

PollOk(g, values, forceSend) ==
    /\ mLastReadOk' = [mLastReadOk EXCEPT ![g] = TRUE]
    /\ lastRead' = [lastRead EXCEPT ![g] = values]
    /\ fresh' = fresh \cup {g}
    /\ IF ValuesSent(g, values, forceSend)
       THEN SendMessage(ValuesMsg(g, values, "poll")) /\ RegisterUpdate(g, values)
       ELSE UNCHANGED <<mLastValues, mReadErrors, fromModbus>>

\* handleRegisterReadError.  When five minutes have passed since the error that
\* was logged last (long), the error is logged again and the count starts anew.
PollFailed(g, long) ==
    LET errors == IF long /\ mReadErrors[g] # 0 THEN 0 ELSE mReadErrors[g] + 1
    IN  /\ errors <= MaxReadErrors
        /\ mReadErrors' = [mReadErrors EXCEPT ![g] = errors]
        /\ mLastReadOk' = [mLastReadOk EXCEPT ![g] = FALSE]
        /\ fresh' = fresh \ {g}
        /\ IF errors > DefaultReadErrorCount
           THEN SendMessage(FailedMsg(g))
           ELSE UNCHANGED fromModbus
        /\ UNCHANGED <<mLastValues, lastRead>>

\* writeRegisters of an MQTT command: the values written come back, or a failure.
WriteRegisters(r, values, ok) ==
    /\ SendMessage(IF ok THEN ValuesMsg(r, values, "command") ELSE FailedMsg(r))
    /\ UNCHANGED pollVars

\* An RPC read or write that succeeds.  A failed one concerns only its caller.
RpcRegisters(r, values) ==
    /\ SendMessage(ValuesMsg(r, values, "rpc"))
    /\ UNCHANGED pollVars
=============================================================================
