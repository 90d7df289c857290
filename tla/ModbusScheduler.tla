-------------------------- MODULE ModbusScheduler ---------------------------
(***************************************************************************)
(* ModbusScheduler (libmodmqttsrv/modbus_scheduler.cpp) for the registers  *)
(* of one slave: which registers are due and how long nothing will be due. *)
(* Times are kept as ages, now() - mLastReadStartTime, and stop at the     *)
(* refresh period: an older read compares in the same way.                 *)
(***************************************************************************)
EXTENDS Integers, FiniteSetsExt

CONSTANTS
    Polls,          \* the RegisterPolls of the poll specification
    Reads,          \* one-shot RegisterPolls made for RPC requests
    Refresh,        \* mRefresh of each poll
    PollMode,       \* mPublishMode
    First, Count,   \* mRegister and mCount of polls and reads
    Forever         \* duration::max()

ASSUME SchedulerAssumption ==
    /\ Polls \cap Reads = {}
    /\ Refresh \in [Polls -> Nat \ {0}]
    /\ First \in [Polls \cup Reads -> Nat] /\ Count \in [Polls \cup Reads -> Nat \ {0}]
    /\ Forever \in Nat
    /\ \A p \in Polls : Refresh[p] < Forever

VARIABLES
    mRegisterMap,   \* the poll specification: none until it has been set
    sinceRead,      \* now() - mLastReadStartTime
    readOnce        \* polls of mode ONCE with mLastReadOk; for others it does not matter here

schedulerVars == <<mRegisterMap, sinceRead, readOnce>>

\* mLastReadStartTime is the epoch at first.
SchedulerInit ==
    /\ mRegisterMap = {}
    /\ sinceRead = Refresh
    /\ readOnce = {}

\* the registers that getRegistersToPoll looks at
Scheduled == mRegisterMap \ readOnce

RegistersToPoll == {p \in Scheduled : sinceRead[p] >= Refresh[p]}

TimeToPoll_WholePeriod(p) == Refresh[p]

TimeToPoll(p) ==
    IF p \in RegistersToPoll THEN Refresh[p] ELSE Refresh[p] - sinceRead[p]

Shortest(durations) == Min(durations \cup {Forever})

\* outDuration of getRegistersToPoll
WaitDuration == Shortest({TimeToPoll(p) : p \in Scheduled})

\* getMinPollTime, once the specification is set
MinPollTime == Shortest({Refresh[p] : p \in Polls})

SetRegisterMap ==
    /\ mRegisterMap' = Polls
    /\ UNCHANGED <<sinceRead, readOnce>>

\* ModbusAddressRange::contains, for registers of one type
Covers(r, p) ==
    /\ First[r] <= First[p]
    /\ First[p] + Count[p] <= First[r] + Count[r]

\* pollRegisters sets the time, whether it succeeds or not
PollRead(p, ok) ==
    /\ sinceRead' = [sinceRead EXCEPT ![p] = 0]
    /\ readOnce' = IF ok /\ PollMode[p] = "ONCE" THEN readOnce \cup {p} ELSE readOnce \ {p}
    /\ UNCHANGED mRegisterMap

\* The read r has just been made.
NotifyRpcRead(r) ==
    /\ sinceRead' = [p \in Polls |-> IF p \in mRegisterMap /\ Covers(r, p) THEN 0 ELSE sinceRead[p]]
    /\ UNCHANGED <<mRegisterMap, readOnce>>

SchedulerTick ==
    /\ sinceRead' = [p \in Polls |-> Min({sinceRead[p] + 1, Refresh[p]})]
    /\ UNCHANGED <<mRegisterMap, readOnce>>
=============================================================================
