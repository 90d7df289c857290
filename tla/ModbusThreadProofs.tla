------------------------- MODULE ModbusThreadProofs -------------------------
(***************************************************************************)
(* What the modbus thread tells the main thread about its connection, for  *)
(* any registers, commands, delays and periods.                            *)
(***************************************************************************)
EXTENDS ModbusThread, SequenceTheorems, WellFoundedInduction, TLAPS

\* "down" may be told late, but never a connection that is not there: the
\* thread does not leave "loop" for its work without one.
IInv ==
    /\ connected \in BOOLEAN
    /\ connected => told = "up"
    /\ pc \in {"work", "execute", "check"} => connected
    /\ pc = "wait" /\ hasContext /\ ~connected => told = "down"

\* The steps around the connection and the wait keep the invariant.
LEMMA TurnPreserves ==
    ASSUME IInv,
           WaitForConfig \/ AlreadyConnected \/ ConnectSucceeds \/ ConnectFails
               \/ ForceReconnect \/ StartWait \/ WaitTimesOut
    PROVE  IInv'
<1> USE DEF IInv, Goto
<1>1. CASE WaitForConfig \/ AlreadyConnected \/ StartWait \/ WaitTimesOut
  BY <1>1 DEF WaitForConfig, AlreadyConnected, StartWait, WaitTimesOut
<1>2. CASE ConnectSucceeds
  BY <1>2 DEF ConnectSucceeds
<1>3. CASE ConnectFails
  BY <1>3 DEF ConnectFails
<1>4. CASE ForceReconnect
  BY <1>4, Zenon DEF ForceReconnect
<1> QED
  BY <1>1, <1>2, <1>3, <1>4

\* The steps that schedule and execute commands keep the invariant.
LEMMA WorkPreserves ==
    ASSUME IInv,
           WaitForBroker \/ Schedule \/ NothingToDo
               \/ \E c \in pending : CommandHasToWait(c)
                                     \/ \E ok \in BOOLEAN : ExecuteCommand(c, ok)
    PROVE  IInv'
BY Zenon DEF IInv, Goto, WaitForBroker, Schedule, NothingToDo, CommandHasToWait, ExecuteCommand

\* Dispatching the messages received keeps the invariant.
LEMMA DispatchPreserves == ASSUME IInv, DispatchMessages PROVE IInv'
<1> USE DEF IInv
<1>1. CASE \E type \in {"config", "spec", "command", "mqtt", "end"} : Take(type)
  BY <1>1 DEF Take
<1>2. CASE Dispatched
  BY <1>2 DEF Dispatched, Goto
<1> QED
  BY <1>1, <1>2, Zenon DEF DispatchMessages, Configure, SetPollSpecification, ProcessCommand,
                    MqttNetworkState, EndWork

\* The main thread, time and the device keep the invariant.
LEMMA OthersPreserve ==
    ASSUME IInv,
           SendConfig \/ SendSpecification \/ Stop
               \/ (\E up \in BOOLEAN : SendMqttNetworkIsUp(up))
               \/ (\E c \in Reads \cup Writes : SendCommand(c))
               \/ Tick \/ UnplugOrPlug \/ UNCHANGED vars
    PROVE  IInv'
<1>1. UNCHANGED <<connected, told, pc, hasContext>>
  BY Zenon DEF SendConfig, SendSpecification, Stop, SendMqttNetworkIsUp, SendCommand, Enqueue,
         Tick, UnplugOrPlug, vars, loopVars
<1> QED
  BY <1>1 DEF IInv

\* Whenever ModbusThread::run waits for messages, the last
\* MsgModbusNetworkState it has sent agrees with its connection.
THEOREM NetworkStateAlwaysTold == Spec => []NetworkStateTold
<1>1. Init => IInv
  BY Zenon DEF Init, IInv
<1>2. IInv /\ [Next]_vars => IInv'
  BY TurnPreserves, WorkPreserves, DispatchPreserves, OthersPreserve DEF Next, RunStep
<1>3. IInv => NetworkStateTold
  BY DEF IInv, NetworkStateTold
<1> QED
  BY <1>1, <1>2, <1>3, PTL DEF Spec

----------------------------------------------------------------------------
(***************************************************************************)
(* The invariant behind the timing properties                              *)
(***************************************************************************)
Message ==
    [type : {"config", "spec", "end"}] \cup [type : {"mqtt"}, up : BOOLEAN]
        \cup [type : {"command"}, command : Reads \cup Writes]

SchedulerType ==
    /\ mRegisterMap \in {{}, Polls}
    /\ sinceRead \in [Polls -> Nat] /\ \A p \in Polls : sinceRead[p] <= Refresh[p]
    /\ readOnce \subseteq Polls

WatchdogType ==
    /\ mWatchPeriod \in 0 .. MaxWatchPeriod
    /\ sinceOk \in 0 .. MaxWatchPeriod + 1 /\ sinceCheck \in 0 .. DeviceCheckPeriod + 1
    /\ mLastCommandOk \in BOOLEAN /\ mDeviceRemoved \in BOOLEAN /\ devicePresent \in BOOLEAN

LoopType ==
    /\ pc \in {"loop", "work", "execute", "check", "wait", "dispatch", "ended"}
    /\ hasContext \in BOOLEAN /\ connected \in BOOLEAN
    /\ mMqttConnected \in BOOLEAN /\ mShouldRun \in BOOLEAN
    /\ idleWaitDuration \in -MaxLate .. Forever /\ untilPoll \in -MaxLate .. Forever
    /\ untilTimeout \in Int

ExecutorType ==
    /\ pending \subseteq Commands
    /\ mInitialPoll \in BOOLEAN /\ hasQueue \in BOOLEAN /\ atQueue \in BOOLEAN /\ leaked \in BOOLEAN
    /\ silence \in 0 .. MaxDelay

MainType ==
    /\ toModbus \in Seq(Message) /\ Len(toModbus) <= MaxToModbus
    /\ sender \in {"config", "spec", "running", "stopped"}

ThreadType == SchedulerType /\ WatchdogType /\ LoopType /\ ExecutorType /\ MainType

\* What the loop knows at each place.
Connection ==
    /\ connected => hasContext
    /\ pc \in {"work", "execute", "check"} => connected
    /\ pc = "execute" => mMqttConnected
    /\ pc = "wait" => untilTimeout <= idleWaitDuration

SpecSet == mRegisterMap = Polls

\* The specification comes before the first command and before the state of
\* the broker, so the thread polls nothing and executes nothing without it.
SpecFirst ==
    /\ \A i \in DOMAIN toModbus :
          \/ SpecSet
          \/ toModbus[i].type = "config"
          \/ \E j \in 1 .. i : toModbus[j].type = "spec"
    /\ sender \in {"config", "spec"} => \A i \in DOMAIN toModbus : toModbus[i].type = "config"
    /\ sender \in {"running", "stopped"} =>
          SpecSet \/ \E i \in DOMAIN toModbus : toModbus[i].type = "spec"
    /\ mMqttConnected \/ pending # {} => SpecSet

Cyclic == {p \in Polls : PollMode[p] # "ONCE"}

Slack(p) == Refresh[p] - sinceRead[p]

\* nextPollTimePoint is not after the time at which a register is due, and
\* the wait of an idle thread ends by then.
PollTimes ==
    /\ Cyclic \cap readOnce = {}
    /\ \A p \in Cyclic :
          /\ untilPoll <= Refresh[p]
          /\ p \notin pending => untilPoll <= Slack(p)
          /\ pending = {} /\ mMqttConnected /\ connected =>
                /\ pc = "check" => idleWaitDuration <= Slack(p)
                /\ pc = "wait" => idleWaitDuration # Forever /\ untilTimeout <= Slack(p)

\* With registers to poll an initial poll has polls that end it, and the poll
\* time has not passed when nothing is left to do.
InitialPollEnds ==
    /\ SpecSet => hasQueue
    /\ pending # {} => hasQueue /\ atQueue
    /\ SpecSet /\ mInitialPoll => PendingPolls # {}
    /\ pc = "execute" => untilPoll >= 0 \/ pending # {}
    /\ idleWaitDuration >= 0

\* The watch period is not shorter than the configured one and, once the
\* specification is set, than twice the shortest refresh time.
WatchPeriods ==
    /\ mWatchPeriod >= WatchPeriod
    /\ SpecSet /\ AutoWatchPeriod /\ MinPollTime # Forever => mWatchPeriod >= 2 * MinPollTime

\* sinceOk is the age of the last command while that one succeeded.
WatchTimes ==
    mLastCommandOk =>
        /\ ~mDeviceRemoved
        /\ silence < MaxDelay => sinceOk <= silence
        /\ \A p \in Cyclic :
              /\ sinceRead[p] < Refresh[p] => sinceOk <= sinceRead[p]
              /\ p \notin pending /\ untilPoll >= 0 => sinceOk + untilPoll <= Refresh[p]
        /\ pc = "check" /\ mMqttConnected => sinceOk <= mWatchPeriod

\* What the configuration needs for that: some register is polled at least
\* once in a watch period for ever, and no command waits longer.
Watched(t) == t <= WatchPeriod \/ (AutoWatchPeriod /\ t <= 2 * MinPollTime)

PollingFeedsWatchdog ==
    /\ \E p \in Cyclic : Watched(Refresh[p])
    /\ \A c \in Commands : Watched(Delay[c])

----------------------------------------------------------------------------
(***************************************************************************)
(* The shortest of some durations                                          *)
(***************************************************************************)
LEMMA MinOfTwo ==
    ASSUME NEW a \in Int, NEW b \in Int
    PROVE  Min({a, b}) = IF a <= b THEN a ELSE b
<1> DEFINE m == IF a <= b THEN a ELSE b
<1>1. m \in {a, b} /\ \A y \in {a, b} : m <= y
  OBVIOUS
<1>2. \A x \in {a, b} : (\A y \in {a, b} : x <= y) => x = m
  OBVIOUS
<1> HIDE DEF m
<1>3. (CHOOSE x \in {a, b} : \A y \in {a, b} : x <= y) = m
  BY <1>1, <1>2
<1> QED
  BY <1>3 DEF Min, m

\* The greater of two numbers.
LEMMA MaxOfTwo ==
    ASSUME NEW a \in Int, NEW b \in Int
    PROVE  Max({a, b}) = IF a >= b THEN a ELSE b
<1> DEFINE m == IF a >= b THEN a ELSE b
<1>1. m \in {a, b} /\ \A y \in {a, b} : m >= y
  OBVIOUS
<1>2. \A x \in {a, b} : (\A y \in {a, b} : x >= y) => x = m
  OBVIOUS
<1> HIDE DEF m
<1>3. (CHOOSE x \in {a, b} : \A y \in {a, b} : x >= y) = m
  BY <1>1, <1>2
<1> QED
  BY <1>3 DEF Max, m

\* A set of natural numbers has a least element, and Min finds it.
LEMMA LeastNat ==
    ASSUME NEW S, S \subseteq Nat, S # {}
    PROVE  Min(S) \in S /\ \A x \in S : Min(S) <= x
<1>1. \E x \in S : \A y \in S : x <= y
  <2>1. PICK x \in S : \A y \in S : ~(<<y, x>> \in OpToRel(<, Nat))
    BY NatLessThanWellFounded, WFMin, Zenon
  <2>2. ASSUME NEW y \in S PROVE x <= y
    <3>1. x \in Nat /\ y \in Nat
      OBVIOUS
    <3>2. y < x => <<y, x>> \in OpToRel(<, Nat)
      BY <3>1 DEF OpToRel
    <3>3. ~(y < x)
      BY <2>1, <3>2, Zenon
    <3> QED
      BY <3>1, <3>3
  <2> QED
    BY <2>2
<1> QED
  BY <1>1, Zenon DEF Min

\* Shortest is a lower bound of the durations it is taken over.
LEMMA ShortestBounds ==
    ASSUME NEW S, S \subseteq Nat
    PROVE  /\ Shortest(S) \in S \cup {Forever}
           /\ Shortest(S) \in 0 .. Forever
           /\ \A x \in S : Shortest(S) <= x
<1>1. S \cup {Forever} \subseteq Nat /\ Forever \in Nat
  BY SchedulerAssumption
<1>2. /\ Min(S \cup {Forever}) \in S \cup {Forever}
      /\ \A x \in S \cup {Forever} : Min(S \cup {Forever}) <= x
  BY <1>1, LeastNat, Zenon
<1>3. Shortest(S) = Min(S \cup {Forever})
  BY DEF Shortest
<1>4. Shortest(S) \in S \cup {Forever} /\ \A x \in S \cup {Forever} : Shortest(S) <= x
  BY <1>2, <1>3
<1>5. Shortest(S) \in Nat /\ Shortest(S) <= Forever
  BY <1>1, <1>4, Zenon
<1> QED
  BY <1>1, <1>4, <1>5

\* The scheduler's wait is no longer than the time to any poll.
LEMMA WaitDurationBounds ==
    ASSUME SchedulerType
    PROVE  /\ WaitDuration \in 0 .. Forever
           /\ \A p \in Scheduled : WaitDuration <= TimeToPoll(p)
<1>1. \A p \in Scheduled : TimeToPoll(p) \in Nat
  BY SchedulerAssumption DEF SchedulerType, Scheduled, TimeToPoll, RegistersToPoll
<1>2. {TimeToPoll(p) : p \in Scheduled} \subseteq Nat
  BY <1>1
<1> QED
  BY <1>2, ShortestBounds DEF WaitDuration

\* The shortest refresh is no longer than any refresh.
LEMMA MinPollTimeBounds ==
    /\ MinPollTime \in 0 .. Forever
    /\ \A p \in Polls : MinPollTime <= Refresh[p]
<1>1. {Refresh[p] : p \in Polls} \subseteq Nat
  BY SchedulerAssumption
<1> QED
  BY <1>1, ShortestBounds DEF MinPollTime

----------------------------------------------------------------------------
(***************************************************************************)
(* Types                                                                   *)
(***************************************************************************)
LEMMA SchedulerTypeKept ==
    ASSUME SchedulerType,
           \/ UNCHANGED schedulerVars \/ SetRegisterMap \/ SchedulerTick
           \/ \E p \in Polls, ok \in BOOLEAN : PollRead(p, ok)
           \/ \E r \in Reads : NotifyRpcRead(r)
    PROVE  SchedulerType'
<1>1. CASE UNCHANGED schedulerVars \/ SetRegisterMap
  BY <1>1 DEF SchedulerType, schedulerVars, SetRegisterMap
<1>2. CASE SchedulerTick
  <2>1. \A p \in Polls : sinceRead[p] + 1 \in Int /\ Refresh[p] \in Int
    BY SchedulerAssumption DEF SchedulerType
  <2>2. \A p \in Polls : sinceRead'[p] = IF sinceRead[p] + 1 <= Refresh[p] THEN sinceRead[p] + 1
                                                                          ELSE Refresh[p]
    BY <1>2, <2>1, MinOfTwo DEF SchedulerTick
  <2> QED
    BY <1>2, <2>2, SchedulerAssumption DEF SchedulerTick, SchedulerType
<1>3. CASE \E p \in Polls, ok \in BOOLEAN : PollRead(p, ok)
  <2>1. PICK p \in Polls, ok \in BOOLEAN : PollRead(p, ok)
    BY <1>3
  <2>2. readOnce' \subseteq Polls /\ mRegisterMap' = mRegisterMap
    BY <2>1 DEF SchedulerType, PollRead
  <2>3. /\ sinceRead' \in [Polls -> Nat]
        /\ \A q \in Polls : sinceRead'[q] = IF q = p THEN 0 ELSE sinceRead[q]
    BY <2>1 DEF SchedulerType, PollRead
  <2> QED
    BY <2>2, <2>3, SchedulerAssumption DEF SchedulerType
<1>4. CASE \E r \in Reads : NotifyRpcRead(r)
  BY <1>4, SchedulerAssumption DEF SchedulerType, NotifyRpcRead
<1> QED
  BY <1>1, <1>2, <1>3, <1>4

\* The watchdog's operations keep its type.
LEMMA WatchdogTypeKept ==
    ASSUME WatchdogType,
           \/ UNCHANGED watchdogVars \/ Reset \/ CommandFailed \/ WatchdogTick \/ DeviceChanges
           \/ AdjustWatchPeriod(MinPollTime, Forever)
    PROVE  WatchdogType'
<1> USE WatchdogAssumption DEF WatchdogType
<1>0. (~devicePresent) \in BOOLEAN
  OBVIOUS
<1>1. CASE UNCHANGED watchdogVars
  BY <1>1 DEF watchdogVars
<1>6. CASE Reset
  <2>1. mLastCommandOk' \in BOOLEAN /\ mDeviceRemoved' \in BOOLEAN
    BY <1>6, Zenon DEF Reset
  <2>2. sinceOk' = 0 /\ UNCHANGED <<mWatchPeriod, sinceCheck, devicePresent>>
    BY <1>6 DEF Reset
  <2> QED
    BY <2>1, <2>2
<1>2. CASE CommandFailed
  <2>1. mDeviceRemoved' \in BOOLEAN
    BY <1>0, <1>2, Zenon DEF CommandFailed
  <2>2. sinceCheck' \in 0 .. DeviceCheckPeriod + 1
    BY <1>2 DEF CommandFailed
  <2>3. mLastCommandOk' = FALSE /\ UNCHANGED <<mWatchPeriod, sinceOk, devicePresent>>
    BY <1>2 DEF CommandFailed
  <2> QED
    BY <2>1, <2>2, <2>3, Zenon
<1>5. CASE DeviceChanges
  <2>1. devicePresent' \in BOOLEAN
    BY <1>0, <1>5 DEF DeviceChanges
  <2>2. UNCHANGED <<mWatchPeriod, sinceOk, sinceCheck, mLastCommandOk, mDeviceRemoved>>
    BY <1>5 DEF DeviceChanges
  <2> QED
    BY <2>1, <2>2
<1>3. CASE WatchdogTick
  <2>1. sinceOk' = IF sinceOk + 1 <= MaxWatchPeriod + 1 THEN sinceOk + 1 ELSE MaxWatchPeriod + 1
    BY <1>3, MinOfTwo DEF WatchdogTick
  <2>2. sinceCheck' = IF sinceCheck + 1 <= DeviceCheckPeriod + 1 THEN sinceCheck + 1 ELSE DeviceCheckPeriod + 1
    BY <1>3, MinOfTwo DEF WatchdogTick
  <2> QED
    BY <1>3, <2>1, <2>2 DEF WatchdogTick
<1>4. CASE AdjustWatchPeriod(MinPollTime, Forever)
  <2>1. MinPollTime \in Nat
    BY MinPollTimeBounds, SchedulerAssumption
  <2>2. mWatchPeriod' \in {mWatchPeriod, 2 * MinPollTime}
    BY <1>4, <2>1, MaxOfTwo DEF AdjustWatchPeriod
  <2> QED
    BY <1>4, <2>1, <2>2, ThreadAssumption DEF AdjustWatchPeriod
<1> QED
  BY <1>1, <1>2, <1>3, <1>4, <1>5, <1>6

\* The executor's operations keep its type.
LEMMA ExecutorTypeKept ==
    ASSUME ExecutorType,
           \/ UNCHANGED executorVars
           \/ \E polls \in SUBSET Polls, initial \in BOOLEAN : AddPolls(polls, initial)
           \/ \E c \in Commands : AddRead(c) \/ AddWrite(c)
           \/ \E c \in Commands, ok \in BOOLEAN : Executed(c, ok)
    PROVE  ExecutorType'
<1> USE DEF ExecutorType
<1>1. CASE UNCHANGED executorVars
  BY <1>1 DEF executorVars
<1>2. CASE \E polls \in SUBSET Polls, initial \in BOOLEAN : AddPolls(polls, initial)
  BY <1>2, Zenon DEF AddPolls, Commands, executorVars
<1>3. CASE \E c \in Commands : AddRead(c)
  BY <1>3 DEF AddRead
<1>4. CASE \E c \in Commands : AddWrite(c)
  BY <1>4, Zenon DEF AddWrite
<1>5. CASE \E c \in Commands, ok \in BOOLEAN : Executed(c, ok)
  <2>1. PICK c \in Commands, ok \in BOOLEAN : Executed(c, ok)
    BY <1>5
  <2>2. silence' \in 0 .. MaxDelay
    BY <2>1, ThreadAssumption DEF Executed
  <2>3. pending' \subseteq Commands /\ UNCHANGED <<hasQueue, atQueue>>
    BY <2>1 DEF Executed
  <2>4. mInitialPoll' \in BOOLEAN /\ leaked' \in BOOLEAN
    BY <2>1 DEF Executed
  <2> QED
    BY <2>2, <2>3, <2>4
<1> QED
  BY <1>1, <1>2, <1>3, <1>4, <1>5

\* What taking a message from the queue changes.
LEMMA Taken ==
    ASSUME MainType, LoopType, NEW type, Take(type)
    PROVE  /\ Head(toModbus) \in Message /\ Head(toModbus).type = type
           /\ toModbus \in Seq(Message) /\ toModbus # <<>> /\ toModbus' = Tail(toModbus)
           /\ MainType'
           /\ pc' = "dispatch" /\ untilTimeout' = 0
           /\ UNCHANGED <<sender, brokerUp, connected, idleWaitDuration, untilPoll, told>>
BY HeadTailProperties, ThreadAssumption DEF Take, MainType

\* What sending a message to the thread changes.
LEMMA Enqueued ==
    ASSUME MainType, NEW m \in Message, Enqueue(m),
           sender' \in {"config", "spec", "running", "stopped"}
    PROVE  MainType' /\ UNCHANGED <<schedulerVars, watchdogVars, loopVars, executorVars, told>>
BY AppendProperties, ThreadAssumption DEF Enqueue, MainType

\* A turn of the loop up to the wait, without what is executed.
LEMMA TurnTypes ==
    ASSUME ThreadType,
           WaitForConfig \/ AlreadyConnected \/ ConnectSucceeds \/ ConnectFails
               \/ ForceReconnect \/ StartWait \/ WaitTimesOut \/ WaitForBroker
    PROVE  ThreadType'
<1> USE DEF ThreadType
<1>1. SchedulerType'
  <2>1. UNCHANGED schedulerVars
    BY DEF WaitForConfig, AlreadyConnected, ConnectSucceeds, ConnectFails, ForceReconnect,
           StartWait, WaitTimesOut, WaitForBroker
  <2> QED
    BY <2>1, SchedulerTypeKept
<1>2. WatchdogType'
  <2>1. UNCHANGED watchdogVars \/ Reset
    BY DEF WaitForConfig, AlreadyConnected, ConnectSucceeds, ConnectFails, ForceReconnect,
           StartWait, WaitTimesOut, WaitForBroker
  <2> QED
    BY <2>1, WatchdogTypeKept
<1>3. ExecutorType'
  <2>1. UNCHANGED executorVars \/ AddPolls(mRegisterMap, TRUE)
    BY Zenon DEF WaitForConfig, AlreadyConnected, ConnectSucceeds, RefreshEverything, ConnectFails,
           ForceReconnect, StartWait, WaitTimesOut, WaitForBroker
  <2>2. mRegisterMap \in SUBSET Polls
    BY DEF SchedulerType
  <2> QED
    BY <2>1, <2>2, ExecutorTypeKept, Zenon
<1>4. UNCHANGED mainVars
  BY DEF Goto, WaitForConfig, AlreadyConnected, ConnectSucceeds, ConnectFails, ForceReconnect,
         StartWait, WaitTimesOut, WaitForBroker
<1>5. MainType'
  BY <1>4 DEF MainType, mainVars
<1>6. LoopType'
  <2> USE SchedulerAssumption, ThreadAssumption DEF LoopType, Goto
  <2>1. CASE WaitForConfig \/ WaitForBroker
    BY <2>1 DEF WaitForConfig, WaitForBroker
  <2>2. CASE AlreadyConnected \/ StartWait \/ WaitTimesOut
    BY <2>2 DEF AlreadyConnected, StartWait, WaitTimesOut
  <2>3. DelayBefore \in -MaxLate .. MaxReconnectTime
    BY DEF DelayBefore
  <2>4. CASE ConnectSucceeds
    BY <2>3, <2>4 DEF ConnectSucceeds
  <2>5. CASE ConnectFails
    BY <2>3, <2>5 DEF ConnectFails
  <2>6. CASE ForceReconnect
    BY <2>6, Zenon DEF ForceReconnect
  <2> QED
    BY <2>1, <2>2, <2>4, <2>5, <2>6
<1> QED
  BY <1>1, <1>2, <1>3, <1>5, <1>6

\* Scheduling and executing keep every type.
LEMMA WorkTypes ==
    ASSUME ThreadType,
           Schedule \/ NothingToDo
               \/ \E c \in pending : CommandHasToWait(c)
                                     \/ \E ok \in BOOLEAN : ExecuteCommand(c, ok)
    PROVE  ThreadType'
<1> USE DEF ThreadType
<1>1. CASE Schedule
  <2>1. RegistersToPoll \in SUBSET Polls
    BY DEF SchedulerType, RegistersToPoll, Scheduled
  <2>2. ExecutorType'
    BY <1>1, <2>1, ExecutorTypeKept, Zenon DEF Schedule
  <2>3. SchedulerType' /\ WatchdogType' /\ MainType'
    BY <1>1 DEF Schedule, Goto, SchedulerType, schedulerVars, WatchdogType, watchdogVars,
                MainType, mainVars
  <2>4. WaitDuration \in -MaxLate .. Forever
    BY WaitDurationBounds, ThreadAssumption, SchedulerAssumption
  <2>5. LoopType'
    BY <1>1, <2>4, Zenon DEF Schedule, Goto, LoopType
  <2> QED
    BY <2>2, <2>3, <2>5
<1>2. CASE NothingToDo
  BY <1>2 DEF NothingToDo, Goto, SchedulerType, schedulerVars, WatchdogType, watchdogVars,
              MainType, mainVars, LoopType, ExecutorType, executorVars
<1>3. ASSUME NEW c \in pending, CommandHasToWait(c) PROVE ThreadType'
  <2>1. SchedulerType' /\ WatchdogType' /\ MainType' /\ ExecutorType'
    BY <1>3 DEF CommandHasToWait, Goto, SchedulerType, schedulerVars, WatchdogType, watchdogVars,
                MainType, mainVars, ExecutorType, executorVars
  <2>2. DelayLeft(c) \in Int /\ DelayLeft(c) <= MaxDelay
    BY ThreadAssumption, SchedulerAssumption DEF ExecutorType, DelayLeft
  <2>3. LoopType'
    BY <1>3, <2>2, ThreadAssumption, SchedulerAssumption DEF CommandHasToWait, Goto, LoopType
  <2> QED
    BY <2>1, <2>3
<1>4. ASSUME NEW c \in pending, NEW ok \in BOOLEAN, ExecuteCommand(c, ok) PROVE ThreadType'
  <2>0. c \in Commands
    BY DEF ExecutorType
  <2>1. SchedulerType'
    <3>1. UNCHANGED schedulerVars \/ (c \in Polls /\ PollRead(c, ok)) \/ (c \in Reads /\ NotifyRpcRead(c))
      BY <1>4 DEF ExecuteCommand
    <3> QED
      BY <3>1, SchedulerTypeKept
  <2>2. WatchdogType'
    BY <1>4, WatchdogTypeKept DEF ExecuteCommand, InspectCommand
  <2>3. ExecutorType'
    BY <1>4, <2>0, ExecutorTypeKept DEF ExecuteCommand
  <2>4. MainType'
    BY <1>4 DEF ExecuteCommand, Goto, MainType, mainVars
  <2>5. LoopType'
    BY <1>4, ThreadAssumption, SchedulerAssumption DEF ExecuteCommand, Goto, LoopType
  <2> QED
    BY <2>1, <2>2, <2>3, <2>4, <2>5
<1> QED
  BY <1>1, <1>2, <1>3, <1>4

\* Dispatching keeps every type.
LEMMA DispatchTypes == ASSUME ThreadType, DispatchMessages PROVE ThreadType'
<1> USE DEF ThreadType
<1>1. CASE Configure
  <2>1. MainType' /\ pc' = "dispatch" /\ untilTimeout' = 0
        /\ UNCHANGED <<connected, idleWaitDuration, untilPoll>>
    BY <1>1, Taken DEF Configure
  <2>2. SchedulerType' /\ ExecutorType'
    BY <1>1 DEF Configure, SchedulerType, schedulerVars, ExecutorType, executorVars
  <2>3. WatchdogType'
    BY <1>1, WatchdogTypeKept DEF Configure
  <2>4. LoopType'
    BY <1>1, <2>1 DEF Configure, LoopType
  <2> QED
    BY <2>1, <2>2, <2>3, <2>4
<1>2. CASE SetPollSpecification
  <2>1. MainType' /\ pc' = "dispatch" /\ untilTimeout' = 0
        /\ UNCHANGED <<connected, idleWaitDuration, untilPoll>>
    BY <1>2, Taken DEF SetPollSpecification
  <2>2. SchedulerType'
    BY <1>2, SchedulerTypeKept DEF SetPollSpecification
  <2>3. WatchdogType'
    BY <1>2, WatchdogTypeKept DEF SetPollSpecification
  <2>4. ExecutorType'
    <3>1. AddPolls(Polls, TRUE) /\ Polls \in SUBSET Polls
      BY <1>2, Zenon DEF SetPollSpecification
    <3> QED
      BY <3>1, ExecutorTypeKept, Zenon
  <2>5. LoopType'
    BY <1>2, <2>1 DEF SetPollSpecification, LoopType
  <2> QED
    BY <2>1, <2>2, <2>3, <2>4, <2>5
<1>3. CASE ProcessCommand
  <2>1. /\ MainType' /\ pc' = "dispatch" /\ untilTimeout' = 0
        /\ UNCHANGED <<connected, idleWaitDuration, untilPoll>>
        /\ Head(toModbus) \in Message /\ Head(toModbus).type = "command"
    BY <1>3, Taken DEF ProcessCommand
  <2>2. Head(toModbus).command \in Commands
    BY <2>1 DEF Message, Commands
  <2>3. SchedulerType' /\ WatchdogType'
    BY <1>3 DEF ProcessCommand, SchedulerType, schedulerVars, WatchdogType, watchdogVars
  <2>4. ExecutorType'
    BY <1>3, <2>2, ExecutorTypeKept DEF ProcessCommand
  <2>5. LoopType'
    BY <1>3, <2>1 DEF ProcessCommand, LoopType
  <2> QED
    BY <2>1, <2>3, <2>4, <2>5
<1>4. CASE MqttNetworkState
  <2>1. /\ MainType' /\ pc' = "dispatch" /\ untilTimeout' = 0
        /\ UNCHANGED <<connected, idleWaitDuration, untilPoll>>
        /\ Head(toModbus) \in Message /\ Head(toModbus).type = "mqtt"
    BY <1>4, Taken DEF MqttNetworkState
  <2>2. Head(toModbus).up \in BOOLEAN
    BY <2>1 DEF Message
  <2>3. SchedulerType' /\ WatchdogType' /\ ExecutorType'
    BY <1>4 DEF MqttNetworkState, SchedulerType, schedulerVars, WatchdogType, watchdogVars,
                ExecutorType, executorVars
  <2>4. LoopType'
    BY <1>4, <2>1, <2>2 DEF MqttNetworkState, LoopType
  <2> QED
    BY <2>1, <2>3, <2>4
<1>5. CASE EndWork
  <2>1. /\ MainType' /\ pc' = "dispatch" /\ untilTimeout' = 0
        /\ UNCHANGED <<connected, idleWaitDuration, untilPoll>>
    BY <1>5, Taken DEF EndWork
  <2>2. SchedulerType' /\ WatchdogType' /\ ExecutorType'
    BY <1>5 DEF EndWork, SchedulerType, schedulerVars, WatchdogType, watchdogVars,
                ExecutorType, executorVars
  <2>3. mShouldRun' \in BOOLEAN /\ UNCHANGED <<hasContext, mMqttConnected>>
    BY <1>5, Zenon DEF EndWork
  <2>4. LoopType'
    BY <2>1, <2>3 DEF LoopType
  <2> QED
    BY <2>1, <2>2, <2>4
<1>6. CASE Dispatched
  <2>1. SchedulerType' /\ WatchdogType' /\ ExecutorType' /\ MainType'
    BY <1>6 DEF Dispatched, Goto, SchedulerType, schedulerVars, WatchdogType, watchdogVars,
                ExecutorType, executorVars, MainType, mainVars
  <2>2. LoopType'
    BY <1>6 DEF Dispatched, Goto, LoopType
  <2> QED
    BY <2>1, <2>2
<1> QED
  BY <1>1, <1>2, <1>3, <1>4, <1>5, <1>6 DEF DispatchMessages

\* The main thread's messages change nothing of the Modbus thread.
LEMMA MessagesSent ==
    ASSUME ThreadType,
           SendConfig \/ SendSpecification \/ Stop
               \/ (\E up \in BOOLEAN : SendMqttNetworkIsUp(up))
               \/ (\E c \in Reads \cup Writes : SendCommand(c))
    PROVE  MainType' /\ UNCHANGED <<schedulerVars, watchdogVars, loopVars, executorVars, told>>
<1> USE DEF ThreadType
<1>1. CASE SendConfig
  <2>1. [type |-> "config"] \in Message
    BY DEF Message
  <2> QED
    BY <1>1, <2>1, Enqueued DEF SendConfig
<1>2. CASE SendSpecification
  <2>1. [type |-> "spec"] \in Message
    BY DEF Message
  <2>2. CASE Polls = {}
    BY <1>2, <2>2 DEF SendSpecification, MainType
  <2>3. CASE Polls # {}
    BY <1>2, <2>1, <2>3, Enqueued DEF SendSpecification
  <2> QED
    BY <2>2, <2>3
<1>3. CASE Stop
  <2>1. [type |-> "end"] \in Message
    BY DEF Message
  <2> QED
    BY <1>3, <2>1, Enqueued DEF Stop
<1>4. ASSUME NEW up \in BOOLEAN, SendMqttNetworkIsUp(up)
      PROVE  MainType' /\ UNCHANGED <<schedulerVars, watchdogVars, loopVars, executorVars, told>>
  <2>1. [type |-> "mqtt", up |-> up] \in Message
    BY DEF Message
  <2> QED
    BY <1>4, <2>1, Enqueued DEF SendMqttNetworkIsUp, MainType
<1>5. ASSUME NEW c \in Reads \cup Writes, SendCommand(c)
      PROVE  MainType' /\ UNCHANGED <<schedulerVars, watchdogVars, loopVars, executorVars, told>>
  <2>1. [type |-> "command", command |-> c] \in Message
    BY DEF Message
  <2> QED
    BY <1>5, <2>1, Enqueued DEF SendCommand, MainType
<1> QED
  BY <1>1, <1>2, <1>3, <1>4, <1>5

\* What the ages become in one unit of time.
LEMMA TickTimes ==
    ASSUME ThreadType, Tick
    PROVE  /\ untilPoll' = IF untilPoll = Forever THEN Forever
                           ELSE IF untilPoll - 1 >= -MaxLate THEN untilPoll - 1 ELSE -MaxLate
           /\ silence' = IF silence + 1 <= MaxDelay THEN silence + 1 ELSE MaxDelay
           /\ sinceOk' = IF sinceOk + 1 <= MaxWatchPeriod + 1 THEN sinceOk + 1 ELSE MaxWatchPeriod + 1
           /\ \A p \in Polls :
                 sinceRead'[p] = IF sinceRead[p] + 1 <= Refresh[p] THEN sinceRead[p] + 1 ELSE Refresh[p]
<1>1. untilPoll - 1 \in Int /\ -MaxLate \in Int
  BY ThreadAssumption DEF ThreadType, LoopType
<1>2. silence + 1 \in Int /\ MaxDelay \in Int
  BY ThreadAssumption, SchedulerAssumption DEF ThreadType, ExecutorType
<1>3. sinceOk + 1 \in Int /\ MaxWatchPeriod + 1 \in Int
  BY WatchdogAssumption DEF ThreadType, WatchdogType
<1>4. \A p \in Polls : sinceRead[p] + 1 \in Int /\ Refresh[p] \in Int
  BY SchedulerAssumption DEF ThreadType, SchedulerType
<1>5. Max({untilPoll - 1, -MaxLate}) = IF untilPoll - 1 >= -MaxLate THEN untilPoll - 1 ELSE -MaxLate
  BY <1>1, MaxOfTwo
<1>6. Min({silence + 1, MaxDelay}) = IF silence + 1 <= MaxDelay THEN silence + 1 ELSE MaxDelay
  BY <1>2, MinOfTwo
<1>7. Min({sinceOk + 1, MaxWatchPeriod + 1})
         = IF sinceOk + 1 <= MaxWatchPeriod + 1 THEN sinceOk + 1 ELSE MaxWatchPeriod + 1
  BY <1>3, MinOfTwo
<1>8. \A p \in Polls : Min({sinceRead[p] + 1, Refresh[p]})
         = IF sinceRead[p] + 1 <= Refresh[p] THEN sinceRead[p] + 1 ELSE Refresh[p]
  BY <1>4, MinOfTwo
<1> QED
  BY <1>5, <1>6, <1>7, <1>8, Zenon DEF Tick, SchedulerTick, WatchdogTick

\* The main thread, time and the device keep every type.
LEMMA OtherTypes ==
    ASSUME ThreadType,
           SendConfig \/ SendSpecification \/ Stop
               \/ (\E up \in BOOLEAN : SendMqttNetworkIsUp(up))
               \/ (\E c \in Reads \cup Writes : SendCommand(c))
               \/ Tick \/ UnplugOrPlug \/ UNCHANGED vars
    PROVE  ThreadType'
<1>1. CASE SendConfig \/ SendSpecification \/ Stop
               \/ (\E up \in BOOLEAN : SendMqttNetworkIsUp(up))
               \/ (\E c \in Reads \cup Writes : SendCommand(c))
  <2>1. MainType' /\ UNCHANGED <<schedulerVars, watchdogVars, loopVars, executorVars, told>>
    BY <1>1, MessagesSent
  <2> QED
    BY <2>1 DEF ThreadType, SchedulerType, schedulerVars, WatchdogType, watchdogVars,
                LoopType, loopVars, ExecutorType, executorVars
<1>2. CASE Tick
  <2>1. SchedulerType' /\ WatchdogType'
    BY <1>2, SchedulerTypeKept, WatchdogTypeKept DEF Tick, ThreadType
  <2>2. MainType'
    BY <1>2 DEF Tick, ThreadType, MainType, mainVars
  <2>3. ExecutorType'
    <3>1. silence \in 0 .. MaxDelay /\ MaxDelay \in Nat
      BY ThreadAssumption, SchedulerAssumption DEF ThreadType, ExecutorType
    <3>2. silence' = IF silence + 1 <= MaxDelay THEN silence + 1 ELSE MaxDelay
      BY <1>2, TickTimes, Zenon
    <3>3. silence' \in 0 .. MaxDelay
      BY <3>1, <3>2
    <3>4. UNCHANGED <<pending, mInitialPoll, hasQueue, atQueue, leaked>>
      BY <1>2, Zenon DEF Tick
    <3> QED
      BY <3>3, <3>4, Zenon DEF ThreadType, ExecutorType
  <2>4. LoopType'
    <3>1. untilPoll' \in -MaxLate .. Forever
      <4>1. untilPoll \in -MaxLate .. Forever /\ MaxLate \in Nat /\ Forever \in Nat
        BY ThreadAssumption, SchedulerAssumption DEF ThreadType, LoopType
      <4>2. untilPoll' = IF untilPoll = Forever THEN Forever
                         ELSE IF untilPoll - 1 >= -MaxLate THEN untilPoll - 1 ELSE -MaxLate
        BY <1>2, TickTimes, Zenon
      <4> QED
        BY <4>1, <4>2
    <3>2. untilTimeout' \in Int
      BY <1>2 DEF Tick, ThreadType, LoopType
    <3> QED
      BY <1>2, <3>1, <3>2, Zenon DEF Tick, ThreadType, LoopType
  <2> QED
    BY <2>1, <2>2, <2>3, <2>4 DEF ThreadType
<1>3. CASE UnplugOrPlug
  <2>1. WatchdogType'
    BY <1>3, WatchdogTypeKept DEF UnplugOrPlug, ThreadType
  <2>2. SchedulerType' /\ LoopType' /\ ExecutorType' /\ MainType'
    BY <1>3 DEF UnplugOrPlug, ThreadType, SchedulerType, schedulerVars, LoopType, loopVars,
                ExecutorType, executorVars, MainType, mainVars
  <2> QED
    BY <2>1, <2>2 DEF ThreadType
<1>4. CASE UNCHANGED vars
  BY <1>4, SMTT(30) DEF vars, ThreadType, SchedulerType, schedulerVars, WatchdogType, watchdogVars,
              LoopType, loopVars, ExecutorType, executorVars, MainType, mainVars
<1> QED
  BY <1>1, <1>2, <1>3, <1>4

\* Every step keeps every type.
LEMMA TypeKept == ASSUME ThreadType, [Next]_vars PROVE ThreadType'
BY TurnTypes, WorkTypes, DispatchTypes, OtherTypes DEF Next, RunStep

\* Every type holds initially.
LEMMA InitialTypes == ASSUME Init PROVE ThreadType
<1> USE SchedulerAssumption, WatchdogAssumption, ThreadAssumption
<1>1. SchedulerType
  BY DEF Init, SchedulerInit, SchedulerType
<1>2. WatchdogType
  <2>1. mLastCommandOk \in BOOLEAN /\ mDeviceRemoved \in BOOLEAN /\ devicePresent \in BOOLEAN
    BY Zenon DEF Init, WatchdogInit
  <2>2. mWatchPeriod = WatchPeriod /\ sinceOk = 0 /\ sinceCheck = DeviceCheckPeriod + 1
    BY DEF Init, WatchdogInit
  <2> QED
    BY <2>1, <2>2 DEF WatchdogType
<1>3. LoopType
  <2>1. /\ hasContext \in BOOLEAN /\ connected \in BOOLEAN
        /\ mMqttConnected \in BOOLEAN /\ mShouldRun \in BOOLEAN
    BY Zenon DEF Init
  <2>2. pc = "loop" /\ idleWaitDuration = Forever /\ untilPoll = 0 /\ untilTimeout = 0
    BY DEF Init
  <2> QED
    BY <2>1, <2>2 DEF LoopType
<1>4. ExecutorType
  <2>1. mInitialPoll \in BOOLEAN /\ hasQueue \in BOOLEAN /\ atQueue \in BOOLEAN /\ leaked \in BOOLEAN
    BY Zenon DEF Init
  <2>2. pending = {} /\ silence = MaxDelay
    BY DEF Init
  <2> QED
    BY <2>1, <2>2 DEF ExecutorType
<1>5. MainType
  BY DEF Init, MainType
<1> QED
  BY <1>1, <1>2, <1>3, <1>4, <1>5 DEF ThreadType

\* Every variable of the modbus thread stays in its range (modbus_thread.cpp,
\* modbus_watchdog.cpp, modbus_scheduler.cpp): the watch period within its
\* bound, no wait beyond duration::max(), and only commands the thread was
\* given in the executor.
THEOREM ThreadTypeAlwaysOK == Spec => []TypeOK
<1>1. Init => ThreadType
  BY InitialTypes
<1>2. ThreadType /\ [Next]_vars => ThreadType'
  BY TypeKept
<1>3. ThreadType => TypeOK
  BY DEF ThreadType, TypeOK, SchedulerType, WatchdogType, LoopType, ExecutorType, MainType
<1> QED
  BY <1>1, <1>2, <1>3, PTL DEF Spec

----------------------------------------------------------------------------
(***************************************************************************)
(* The specification comes first                                           *)
(***************************************************************************)
LEMMA TakenInOrder ==
    ASSUME ThreadType, SpecFirst, NEW type \in {"config", "spec", "command", "mqtt", "end"}, Take(type),
           IF type = "spec" THEN mRegisterMap' = Polls ELSE UNCHANGED mRegisterMap,
           type \in {"config", "end"} => UNCHANGED <<mMqttConnected, pending>>
    PROVE  SpecFirst' /\ (type # "config" => SpecSet')
<1>1. /\ toModbus \in Seq(Message) /\ toModbus # <<>> /\ toModbus' = Tail(toModbus)
      /\ Head(toModbus).type = type /\ UNCHANGED sender
  BY Taken DEF ThreadType
<1>2. /\ Len(toModbus) \in Nat /\ Len(toModbus) >= 1 /\ DOMAIN toModbus = 1 .. Len(toModbus)
      /\ toModbus[1].type = type
      /\ DOMAIN toModbus' = 1 .. Len(toModbus) - 1
      /\ \A i \in 1 .. Len(toModbus) - 1 : toModbus'[i] = toModbus[i + 1]
  BY <1>1, HeadTailProperties
<1>3. SpecSet => SpecSet'
  BY DEF SpecSet
<1>4. type # "config" => SpecSet'
  BY <1>2, <1>3 DEF SpecFirst, SpecSet
<1>5. CASE SpecSet'
  <2>1. sender \in {"config", "spec"} => \A i \in DOMAIN toModbus' : toModbus'[i].type = "config"
    BY <1>2 DEF SpecFirst
  <2> QED
    BY <1>1, <1>4, <1>5, <2>1 DEF SpecFirst
<1>6. CASE ~SpecSet'
  <2>1. type = "config" /\ ~SpecSet /\ UNCHANGED <<mRegisterMap, mMqttConnected, pending>>
    BY <1>3, <1>4, <1>6
  <2>2. ASSUME NEW i \in DOMAIN toModbus', toModbus'[i].type # "config"
        PROVE  \E j \in 1 .. i : toModbus'[j].type = "spec"
    <3>1. i \in 1 .. Len(toModbus) - 1 /\ i + 1 \in 1 .. Len(toModbus) /\ toModbus[i + 1].type # "config"
      BY <1>2, <2>2
    <3>2. PICK j \in 1 .. i + 1 : toModbus[j].type = "spec"
      BY <1>2, <2>1, <3>1 DEF SpecFirst
    <3>3. j # 1
      BY <1>2, <2>1, <3>2
    <3>4. j - 1 \in 1 .. i /\ toModbus'[j - 1] = toModbus[j]
      BY <1>2, <3>1, <3>2, <3>3
    <3> QED
      BY <3>2, <3>4
  <2>3. sender \in {"running", "stopped"} => \E i \in DOMAIN toModbus' : toModbus'[i].type = "spec"
    <3> SUFFICES ASSUME sender \in {"running", "stopped"}
                 PROVE  \E i \in DOMAIN toModbus' : toModbus'[i].type = "spec"
      OBVIOUS
    <3>1. PICK i \in 1 .. Len(toModbus) : toModbus[i].type = "spec"
      BY <1>2, <2>1 DEF SpecFirst
    <3>2. i # 1
      BY <1>2, <2>1, <3>1
    <3>3. i - 1 \in DOMAIN toModbus' /\ toModbus'[i - 1] = toModbus[i]
      BY <1>2, <3>1, <3>2
    <3> QED
      BY <3>1, <3>3
  <2>4. sender \in {"config", "spec"} => \A i \in DOMAIN toModbus' : toModbus'[i].type = "config"
    BY <1>2 DEF SpecFirst
  <2> QED
    BY <1>1, <1>6, <2>1, <2>2, <2>3, <2>4, Zenon DEF SpecFirst, SpecSet
<1> QED
  BY <1>4, <1>5, <1>6

\* Sending keeps the configuration and the specification ahead of the rest.
LEMMA SentInOrder ==
    ASSUME ThreadType, SpecFirst, NEW m \in Message, Enqueue(m),
           \/ sender = "config" /\ sender' = "spec" /\ m.type = "config"
           \/ sender = "spec" /\ sender' = "running" /\ m.type = "spec"
           \/ sender = "running" /\ sender' \in {"running", "stopped"} /\ m.type # "config"
    PROVE  SpecFirst'
<1>1. /\ Len(toModbus) \in Nat /\ DOMAIN toModbus = 1 .. Len(toModbus)
      /\ DOMAIN toModbus' = 1 .. Len(toModbus) + 1
      /\ \A i \in 1 .. Len(toModbus) : toModbus'[i] = toModbus[i]
      /\ toModbus'[Len(toModbus) + 1] = m
  BY AppendProperties DEF Enqueue, ThreadType, MainType
<1>2. UNCHANGED <<mRegisterMap, mMqttConnected, pending>>
  BY DEF Enqueue, schedulerVars, loopVars, executorVars
<1>3. \A i \in DOMAIN toModbus' : i \in 1 .. Len(toModbus) \/ i = Len(toModbus) + 1
  BY <1>1
<1>4. CASE sender = "config" /\ sender' = "spec" /\ m.type = "config"
  BY <1>1, <1>2, <1>3, <1>4, Zenon DEF SpecFirst, SpecSet
<1>5. CASE sender = "spec" /\ sender' = "running" /\ m.type = "spec"
  <2>1. \A i \in 1 .. Len(toModbus) : toModbus'[i].type = "config"
    BY <1>1, <1>5 DEF SpecFirst
  <2>2. Len(toModbus) + 1 \in DOMAIN toModbus' /\ Len(toModbus) + 1 \in 1 .. Len(toModbus) + 1
    BY <1>1
  <2> QED
    BY <1>1, <1>2, <1>3, <1>5, <2>1, <2>2, Zenon DEF SpecFirst, SpecSet
<1>6. CASE sender = "running" /\ sender' \in {"running", "stopped"}
  <2>1. CASE SpecSet
    BY <1>2, <1>6, <2>1 DEF SpecFirst, SpecSet
  <2>2. CASE ~SpecSet
    <3>1. PICK k \in 1 .. Len(toModbus) : toModbus[k].type = "spec"
      BY <1>1, <1>6, <2>2 DEF SpecFirst
    <3>2. k \in DOMAIN toModbus' /\ k \in 1 .. Len(toModbus) + 1 /\ toModbus'[k].type = "spec"
      BY <1>1, <3>1
    <3>3. ASSUME NEW i \in DOMAIN toModbus', toModbus'[i].type # "config"
          PROVE  \E j \in 1 .. i : toModbus'[j].type = "spec"
      <4>1. CASE i = Len(toModbus) + 1
        BY <3>2, <4>1
      <4>2. CASE i \in 1 .. Len(toModbus)
        <5>1. PICK j \in 1 .. i : toModbus[j].type = "spec"
          BY <1>1, <2>2, <3>3, <4>2 DEF SpecFirst
        <5>2. j \in 1 .. Len(toModbus)
          BY <1>1, <4>2, <5>1
        <5> QED
          BY <1>1, <5>1, <5>2
      <4> QED
        BY <1>3, <4>1, <4>2
    <3> QED
      BY <1>2, <1>6, <2>2, <3>2, <3>3 DEF SpecFirst, SpecSet
  <2> QED
    BY <2>1, <2>2
<1> QED
  BY <1>4, <1>5, <1>6

\* The loop itself only gives polls of the specification to the executor.
LEMMA LoopKeepsSpecFirst ==
    ASSUME ThreadType, SpecFirst, UNCHANGED <<mRegisterMap, toModbus, sender, mMqttConnected>>,
           pending' # {} => pending # {} \/ mMqttConnected \/ mRegisterMap # {}
    PROVE  SpecFirst'
<1>1. SpecSet' = SpecSet
  BY DEF SpecSet
<1>2. pending' # {} => SpecSet
  BY DEF ThreadType, SchedulerType, SpecFirst, SpecSet
<1> QED
  BY <1>1, <1>2, Zenon DEF SpecFirst

\* Every step keeps the configuration and the specification ahead of the rest.
LEMMA SpecFirstKept == ASSUME ThreadType, SpecFirst, [Next]_vars PROVE SpecFirst'
<1>1. CASE \/ WaitForConfig \/ AlreadyConnected \/ ConnectFails \/ WaitForBroker \/ NothingToDo
           \/ (\E c \in pending : CommandHasToWait(c))
           \/ ForceReconnect \/ StartWait \/ WaitTimesOut \/ Dispatched \/ UNCHANGED vars
  <2>1. UNCHANGED <<mRegisterMap, toModbus, sender, mMqttConnected, pending>>
    BY <1>1, Zenon DEF WaitForConfig, AlreadyConnected, ConnectFails, WaitForBroker, NothingToDo,
                CommandHasToWait, ForceReconnect, StartWait, WaitTimesOut, Dispatched, Goto,
                vars, schedulerVars, mainVars, executorVars, loopVars
  <2> QED
    BY <2>1, LoopKeepsSpecFirst
<1>2. CASE ConnectSucceeds
  <2>1. UNCHANGED <<mRegisterMap, toModbus, sender, mMqttConnected>>
    BY <1>2 DEF ConnectSucceeds, Goto, schedulerVars, mainVars
  <2>2. pending' = pending \/ pending' = pending \cup mRegisterMap
    BY <1>2 DEF ConnectSucceeds, RefreshEverything, AddPolls, executorVars
  <2> QED
    BY <2>1, <2>2, LoopKeepsSpecFirst
<1>3. CASE Schedule
  <2>1. UNCHANGED <<mRegisterMap, toModbus, sender, mMqttConnected>> /\ mMqttConnected
    BY <1>3 DEF Schedule, Goto, schedulerVars, mainVars
  <2> QED
    BY <2>1, LoopKeepsSpecFirst
<1>4. CASE \E c \in pending, ok \in BOOLEAN : ExecuteCommand(c, ok)
  <2>1. UNCHANGED <<toModbus, sender, mMqttConnected>> /\ pending # {}
    BY <1>4 DEF ExecuteCommand, Goto, mainVars
  <2>2. UNCHANGED mRegisterMap
    BY <1>4 DEF ExecuteCommand, PollRead, NotifyRpcRead, schedulerVars
  <2> QED
    BY <2>1, <2>2, LoopKeepsSpecFirst
<1>5. CASE Configure \/ EndWork
  BY <1>5, TakenInOrder DEF Configure, EndWork, schedulerVars, executorVars
<1>6. CASE SetPollSpecification
  BY <1>6, TakenInOrder DEF SetPollSpecification, SetRegisterMap
<1>7. CASE ProcessCommand \/ MqttNetworkState
  BY <1>7, TakenInOrder DEF ProcessCommand, MqttNetworkState, schedulerVars
<1>8. CASE SendConfig
  <2>1. [type |-> "config"] \in Message
    BY DEF Message
  <2> QED
    BY <1>8, <2>1, SentInOrder DEF SendConfig
<1>9. CASE SendSpecification
  <2>1. [type |-> "spec"] \in Message
    BY DEF Message
  <2>2. CASE Polls = {}
    <3>1. sender = "spec" /\ sender' = "running" /\ UNCHANGED <<mRegisterMap, toModbus, mMqttConnected, pending>>
      BY <1>9, <2>2 DEF SendSpecification, schedulerVars, loopVars, executorVars
    <3>2. SpecSet /\ SpecSet'
      BY <2>2, <3>1 DEF ThreadType, SchedulerType, SpecSet
    <3> QED
      BY <3>1, <3>2 DEF SpecFirst
  <2>3. CASE Polls # {}
    BY <1>9, <2>1, <2>3, SentInOrder DEF SendSpecification
  <2> QED
    BY <2>2, <2>3
<1>10. CASE Stop
  <2>1. [type |-> "end"] \in Message
    BY DEF Message
  <2> QED
    BY <1>10, <2>1, SentInOrder DEF Stop
<1>11. ASSUME NEW up \in BOOLEAN, SendMqttNetworkIsUp(up) PROVE SpecFirst'
  <2>1. [type |-> "mqtt", up |-> up] \in Message
    BY DEF Message
  <2> QED
    BY <1>11, <2>1, SentInOrder DEF SendMqttNetworkIsUp
<1>12. ASSUME NEW c \in Reads \cup Writes, SendCommand(c) PROVE SpecFirst'
  <2>1. [type |-> "command", command |-> c] \in Message
    BY DEF Message
  <2> QED
    BY <1>12, <2>1, SentInOrder DEF SendCommand
<1>13. CASE Tick \/ UnplugOrPlug
  <2>1. UNCHANGED <<mRegisterMap, toModbus, sender, mMqttConnected, pending>>
    BY <1>13 DEF Tick, SchedulerTick, UnplugOrPlug, schedulerVars, mainVars, executorVars, loopVars
  <2> QED
    BY <2>1, LoopKeepsSpecFirst
<1> QED
  BY <1>1, <1>2, <1>3, <1>4, <1>5, <1>6, <1>7, <1>8, <1>9, <1>10, <1>11, <1>12, <1>13
     DEF Next, RunStep, DispatchMessages

\* Every step keeps what the thread knows of its connection consistent.
LEMMA ConnectionKept == ASSUME ThreadType, Connection, [Next]_vars PROVE Connection'
<1> USE DEF Connection, Goto
<1>0. idleWaitDuration' \in Int
  BY TypeKept, ThreadAssumption, SchedulerAssumption DEF ThreadType, LoopType
<1>1. CASE WaitForConfig \/ ConnectFails
  <2>1. pc' = "wait" /\ ~connected' /\ untilTimeout' = idleWaitDuration'
    BY <1>1 DEF WaitForConfig, ConnectFails
  <2> QED
    BY <1>0, <2>1
<1>2. CASE AlreadyConnected \/ ConnectSucceeds
  BY <1>2 DEF AlreadyConnected, ConnectSucceeds
<1>3. CASE WaitForBroker \/ Schedule \/ NothingToDo
  BY <1>3, Zenon DEF WaitForBroker, Schedule, NothingToDo
<1>4. CASE \E c \in pending : CommandHasToWait(c) \/ \E ok \in BOOLEAN : ExecuteCommand(c, ok)
  BY <1>4 DEF CommandHasToWait, ExecuteCommand
<1>5. CASE ForceReconnect \/ StartWait \/ WaitTimesOut
  BY <1>5 DEF ForceReconnect, StartWait, WaitTimesOut, ThreadType, LoopType
<1>6. CASE Configure \/ SetPollSpecification \/ ProcessCommand \/ MqttNetworkState \/ EndWork
  <2>1. pc' = "dispatch" /\ connected' = connected
    BY <1>6, Zenon DEF Configure, SetPollSpecification, ProcessCommand, MqttNetworkState, EndWork, Take
  <2>2. hasContext => hasContext'
    BY <1>6, Zenon DEF Configure, SetPollSpecification, ProcessCommand, MqttNetworkState, EndWork
  <2> QED
    BY <2>1, <2>2
<1>7. CASE Dispatched
  BY <1>7, Zenon DEF Dispatched
<1>8. CASE SendConfig \/ SendSpecification \/ Stop
               \/ (\E up \in BOOLEAN : SendMqttNetworkIsUp(up))
               \/ (\E c \in Reads \cup Writes : SendCommand(c))
               \/ UnplugOrPlug \/ UNCHANGED vars
  <2>1. UNCHANGED loopVars
    BY <1>8, MessagesSent DEF UnplugOrPlug, vars
  <2> QED
    BY <2>1 DEF loopVars
<1>9. CASE Tick
  <2>1. untilTimeout' <= untilTimeout /\ untilTimeout' \in Int
    BY <1>9 DEF Tick, ThreadType, LoopType
  <2>2. untilTimeout \in Int /\ idleWaitDuration \in Int
    BY ThreadAssumption, SchedulerAssumption DEF ThreadType, LoopType
  <2>3. UNCHANGED <<pc, hasContext, connected, mMqttConnected, idleWaitDuration>>
    BY <1>9 DEF Tick
  <2> QED
    BY <2>1, <2>2, <2>3
<1> QED
  BY <1>1, <1>2, <1>3, <1>4, <1>5, <1>6, <1>7, <1>8, <1>9, Zenon DEF Next, RunStep, DispatchMessages

----------------------------------------------------------------------------
(***************************************************************************)
(* The thread does not oversleep                                           *)
(***************************************************************************)
SleepInv == ThreadType /\ Connection /\ SpecFirst /\ PollTimes

\* the numbers behind PollTimes
LEMMA CyclicTimes ==
    ASSUME ThreadType, NEW p \in Cyclic
    PROVE  /\ p \in Polls /\ Refresh[p] \in Nat \ {0} /\ Refresh[p] < Forever /\ Forever \in Nat
           /\ sinceRead[p] \in Nat /\ sinceRead[p] <= Refresh[p]
           /\ Slack(p) \in 0 .. Refresh[p]
           /\ untilPoll \in Int /\ idleWaitDuration \in Int /\ untilTimeout \in Int
BY SchedulerAssumption, ThreadAssumption DEF Cyclic, ThreadType, SchedulerType, LoopType, Slack

\* A step that does not go to sleep keeps the poll times.
LEMMA AwakeKeepsPollTimes ==
    ASSUME SleepInv, UNCHANGED <<sinceRead, readOnce, untilPoll>>, pending \subseteq pending',
           \/ pc' \notin {"check", "wait"} \/ ~connected' \/ ~mMqttConnected' \/ pending # {}
           \/ UNCHANGED <<pc, connected, mMqttConnected, idleWaitDuration, untilTimeout, pending>>
    PROVE  PollTimes'
<1>1. \A p \in Cyclic : Slack(p)' = Slack(p)
  BY Zenon DEF Slack
<1>2. \A p \in Cyclic : p \notin pending' => p \notin pending
  OBVIOUS
<1>3. CASE pc' \notin {"check", "wait"} \/ ~connected' \/ ~mMqttConnected' \/ pending # {}
  <2>1. ~(pending' = {} /\ mMqttConnected' /\ connected' /\ pc' \in {"check", "wait"})
    BY <1>3
  <2> QED
    BY <1>1, <1>2, <2>1, Zenon DEF SleepInv, PollTimes, Cyclic
<1>4. CASE UNCHANGED <<pc, connected, mMqttConnected, idleWaitDuration, untilTimeout, pending>>
  BY <1>1, <1>4, Zenon DEF SleepInv, PollTimes, Cyclic
<1> QED
  BY <1>3, <1>4

\* Scheduling keeps the poll times: it hands over what is due.
LEMMA ScheduleKeepsPollTimes == ASSUME SleepInv, Schedule PROVE PollTimes'
<1>1. UNCHANGED <<sinceRead, readOnce, mMqttConnected, connected>> /\ pc' = "execute" /\ mMqttConnected
  BY DEF Schedule, Goto, schedulerVars
<1>2. CASE ~(~mInitialPoll /\ PollTimePassed)
  BY <1>1, <1>2, AwakeKeepsPollTimes, Zenon DEF Schedule, executorVars
<1>3. CASE ~mInitialPoll /\ PollTimePassed
  <2>1. untilPoll' = WaitDuration /\ pending' = pending \cup RegistersToPoll
    BY <1>3 DEF Schedule, AddPolls
  <2>2. ASSUME NEW p \in Cyclic
        PROVE  WaitDuration <= Refresh[p] /\ (p \notin pending' => WaitDuration <= Slack(p))
    <3>1. p \in Scheduled
      BY <1>1 DEF SleepInv, SpecFirst, SpecSet, PollTimes, Scheduled, Cyclic
    <3>2. WaitDuration \in Nat /\ WaitDuration <= TimeToPoll(p)
      BY <3>1, WaitDurationBounds, SchedulerAssumption DEF SleepInv, ThreadType
    <3> QED
      BY <2>1, <3>2, CyclicTimes DEF SleepInv, TimeToPoll, Slack
  <2>3. \A p \in Cyclic : Slack(p)' = Slack(p)
    BY <1>1, Zenon DEF Slack
  <2> QED
    BY <1>1, <2>1, <2>2, <2>3 DEF SleepInv, PollTimes, Cyclic
<1> QED
  BY <1>2, <1>3

\* Executing a command keeps the poll times.
LEMMA ExecuteKeepsPollTimes ==
    ASSUME SleepInv, NEW c \in pending, NEW ok \in BOOLEAN, ExecuteCommand(c, ok)
    PROVE  PollTimes'
<1>1. /\ pc' = "check" /\ idleWaitDuration' = 0 /\ pending' = pending \ {c}
      /\ UNCHANGED <<connected, mMqttConnected, untilPoll>>
  BY DEF ExecuteCommand, Goto, Executed
<1>2. Cyclic \cap readOnce' = {}
  BY DEF ExecuteCommand, PollRead, NotifyRpcRead, schedulerVars, SleepInv, PollTimes, Cyclic
<1>3. \A p \in Polls : sinceRead'[p] = sinceRead[p] \/ sinceRead'[p] = 0
  BY DEF ExecuteCommand, PollRead, NotifyRpcRead, schedulerVars, SleepInv, ThreadType, SchedulerType
<1>4. c \in Polls => sinceRead'[c] = 0
  BY SchedulerAssumption DEF ExecuteCommand, PollRead, SleepInv, ThreadType, SchedulerType
<1>5. ASSUME NEW p \in Cyclic
      PROVE  /\ Slack(p)' \in 0 .. Refresh[p] /\ untilPoll <= Refresh[p]
             /\ p \notin pending' => untilPoll <= Slack(p)'
  <2>1. /\ p \in Polls /\ Refresh[p] \in Nat /\ sinceRead[p] \in Nat /\ sinceRead[p] <= Refresh[p]
        /\ untilPoll \in Int
    BY CyclicTimes, Zenon DEF SleepInv
  <2>2. untilPoll <= Refresh[p] /\ (p \notin pending => untilPoll <= Slack(p))
    BY DEF SleepInv, PollTimes
  <2>3. CASE sinceRead'[p] = 0
    BY <2>1, <2>2, <2>3 DEF Slack
  <2>4. CASE sinceRead'[p] = sinceRead[p] /\ p # c
    BY <1>1, <2>1, <2>2, <2>4 DEF Slack
  <2> QED
    BY <1>3, <1>4, <2>1, <2>3, <2>4, Zenon
<1> QED
  BY <1>1, <1>2, <1>5 DEF PollTimes

\* Time passing keeps the poll times: it never passes a timeout.
LEMMA TickKeepsPollTimes == ASSUME SleepInv, Tick PROVE PollTimes'
<1>1. /\ pc = "wait"
      /\ UNCHANGED <<readOnce, pending, mMqttConnected, connected, pc, idleWaitDuration>>
  BY Zenon DEF Tick, SchedulerTick
<1>2. ASSUME NEW p \in Cyclic
      PROVE  /\ untilPoll' <= Refresh[p]
             /\ p \notin pending => untilPoll' <= Slack(p)'
             /\ pending = {} /\ mMqttConnected /\ connected =>
                   idleWaitDuration # Forever /\ untilTimeout' <= Slack(p)'
  <2>1. /\ p \in Polls /\ Refresh[p] \in Nat \ {0} /\ Refresh[p] < Forever /\ Forever \in Nat
        /\ sinceRead[p] \in Nat /\ sinceRead[p] <= Refresh[p]
        /\ untilPoll \in Int /\ idleWaitDuration \in Int /\ untilTimeout \in Int
        /\ MaxLate \in Nat
    BY CyclicTimes, ThreadAssumption, Zenon DEF SleepInv
  <2>2. /\ untilPoll <= Refresh[p]
        /\ p \notin pending => untilPoll <= Refresh[p] - sinceRead[p]
        /\ pending = {} /\ mMqttConnected /\ connected =>
              idleWaitDuration # Forever /\ untilTimeout <= Refresh[p] - sinceRead[p]
        /\ untilTimeout <= idleWaitDuration
    BY <1>1, Zenon DEF SleepInv, PollTimes, Slack, Connection
  <2>3. sinceRead'[p] = IF sinceRead[p] + 1 <= Refresh[p] THEN sinceRead[p] + 1 ELSE Refresh[p]
    BY <2>1, TickTimes DEF SleepInv
  <2>4. untilPoll' = IF untilPoll - 1 >= -MaxLate THEN untilPoll - 1 ELSE -MaxLate
    BY <2>1, <2>2, TickTimes DEF SleepInv
  <2>5. untilPoll' <= Refresh[p] /\ (p \notin pending => untilPoll' <= Slack(p)')
    BY <2>1, <2>2, <2>3, <2>4, SMTT(30) DEF Slack
  <2>6. CASE idleWaitDuration = Forever
    BY <2>2, <2>5, <2>6
  <2>7. CASE idleWaitDuration < 0 /\ untilTimeout' = untilTimeout
    BY <2>1, <2>2, <2>3, <2>5, <2>7, SMTT(30) DEF Slack
  <2>8. CASE untilTimeout' = untilTimeout - 1
    BY <2>1, <2>2, <2>3, <2>5, <2>8 DEF Slack
  <2> QED
    BY <2>1, <2>6, <2>7, <2>8, SMTT(30) DEF Tick
<1> QED
  BY <1>1, <1>2 DEF SleepInv, PollTimes

\* Every step keeps the poll times.
LEMMA PollTimesKept == ASSUME SleepInv, [Next]_vars PROVE PollTimes'
<1>1. CASE WaitForConfig \/ ConnectFails \/ WaitForBroker
  <2>1. /\ UNCHANGED <<sinceRead, readOnce, untilPoll, pending>>
        /\ ~connected' \/ ~mMqttConnected'
    BY <1>1 DEF WaitForConfig, ConnectFails, WaitForBroker, Goto, schedulerVars, executorVars,
                SleepInv, Connection
  <2> QED
    BY <2>1, AwakeKeepsPollTimes
<1>2. CASE AlreadyConnected \/ ForceReconnect \/ WaitTimesOut \/ Dispatched
           \/ Configure \/ MqttNetworkState \/ EndWork
  <2>1. UNCHANGED <<sinceRead, readOnce, untilPoll, pending>>
    BY <1>2, Zenon DEF AlreadyConnected, ForceReconnect, WaitTimesOut, Dispatched, Configure,
                       MqttNetworkState, EndWork, Take, Goto, schedulerVars, executorVars
  <2>2. pc' \in {"work", "loop", "ended", "dispatch"}
    BY <1>2, Zenon DEF AlreadyConnected, ForceReconnect, WaitTimesOut, Dispatched, Configure,
                       MqttNetworkState, EndWork, Take, Goto
  <2> QED
    BY <2>1, <2>2, AwakeKeepsPollTimes
<1>3. CASE ConnectSucceeds \/ SetPollSpecification
  <2>1. UNCHANGED <<sinceRead, readOnce, untilPoll>> /\ pc' \in {"work", "dispatch"}
    BY <1>3, Zenon DEF ConnectSucceeds, SetPollSpecification, SetRegisterMap, Take, Goto, schedulerVars
  <2>2. pending \subseteq pending'
    BY <1>3 DEF ConnectSucceeds, RefreshEverything, SetPollSpecification, AddPolls, executorVars
  <2> QED
    BY <2>1, <2>2, AwakeKeepsPollTimes
<1>4. CASE ProcessCommand
  <2>1. UNCHANGED <<sinceRead, readOnce, untilPoll>> /\ pc' = "dispatch" /\ pending \subseteq pending'
    BY <1>4, Zenon DEF ProcessCommand, AddRead, AddWrite, Take, schedulerVars
  <2> QED
    BY <2>1, AwakeKeepsPollTimes
<1>5. CASE NothingToDo
  <2>1. /\ UNCHANGED <<sinceRead, readOnce, untilPoll, pending>>
        /\ pc' = "check" /\ idleWaitDuration' = untilPoll
    BY <1>5 DEF NothingToDo, Goto, schedulerVars, executorVars
  <2>2. \A p \in Cyclic : Slack(p)' = Slack(p)
    BY <2>1 DEF Slack
  <2> QED
    BY <1>5, <2>1, <2>2 DEF NothingToDo, SleepInv, PollTimes
<1>6. CASE \E c \in pending : CommandHasToWait(c)
  <2>1. UNCHANGED <<sinceRead, readOnce, untilPoll, pending>> /\ pending # {}
    BY <1>6 DEF CommandHasToWait, schedulerVars, executorVars
  <2> QED
    BY <2>1, AwakeKeepsPollTimes
<1>7. CASE StartWait
  <2>1. /\ UNCHANGED <<sinceRead, readOnce, untilPoll, pending, mMqttConnected, connected, idleWaitDuration>>
        /\ pc = "check" /\ pc' = "wait" /\ untilTimeout' = idleWaitDuration
    BY <1>7 DEF StartWait, Goto, schedulerVars, executorVars
  <2>2. \A p \in Cyclic : Slack(p)' = Slack(p) /\ (idleWaitDuration <= Slack(p) => idleWaitDuration # Forever)
    BY <2>1, CyclicTimes DEF Slack, SleepInv
  <2> QED
    BY <2>1, <2>2 DEF SleepInv, PollTimes
<1>8. CASE SendConfig \/ SendSpecification \/ Stop
               \/ (\E up \in BOOLEAN : SendMqttNetworkIsUp(up))
               \/ (\E c \in Reads \cup Writes : SendCommand(c))
               \/ UnplugOrPlug \/ UNCHANGED vars
  <2>1. UNCHANGED <<schedulerVars, loopVars, executorVars>>
    BY <1>8, MessagesSent DEF UnplugOrPlug, vars, SleepInv
  <2> QED
    BY <2>1, AwakeKeepsPollTimes DEF schedulerVars, loopVars, executorVars
<1> QED
  BY <1>1, <1>2, <1>3, <1>4, <1>5, <1>6, <1>7, <1>8, ScheduleKeepsPollTimes, ExecuteKeepsPollTimes,
     TickKeepsPollTimes DEF Next, RunStep, DispatchMessages

\* The invariant behind the sleep bound always holds.
LEMMA SleepInvHolds == Spec => []SleepInv
<1>1. Init => SleepInv
  <2> SUFFICES ASSUME Init PROVE SleepInv
    OBVIOUS
  <2>1. Connection
    BY DEF Init, Connection
  <2>2. SpecFirst
    BY DEF Init, SpecFirst
  <2>3. PollTimes
    <3>1. /\ sinceRead = Refresh /\ readOnce = {} /\ pc = "loop" /\ untilPoll = 0
      BY DEF Init, SchedulerInit
    <3> QED
      BY <3>1, SchedulerAssumption DEF PollTimes, Slack, Cyclic
  <2> QED
    BY <2>1, <2>2, <2>3, InitialTypes DEF SleepInv
<1>2. SleepInv /\ [Next]_vars => SleepInv'
  BY TypeKept, ConnectionKept, SpecFirstKept, PollTimesKept DEF SleepInv
<1> QED
  BY <1>1, <1>2, PTL DEF Spec

\* An idle thread is awake when a register is due (modbus_thread.cpp,
\* nextPollTimePoint and idleWaitDuration), for any registers and periods:
\* neither an RPC read that defers polls nor a reconnect nor a long delay
\* before a command lets it sleep longer.
THEOREM ThreadNeverOversleeps == Spec => []NeverOversleeps
<1>1. SleepInv => NeverOversleeps
  BY DEF SleepInv, PollTimes, NeverOversleeps, Slack, Cyclic
<1> QED
  BY <1>1, SleepInvHolds, PTL

----------------------------------------------------------------------------
(***************************************************************************)
(* The delay before the next connect, where there are registers to poll    *)
(***************************************************************************)
ReconnectInv ==
    ThreadType /\ Connection /\ SpecFirst /\ InitialPollEnds /\ ReconnectDelayBounded

\* A step that leaves executor and registers alone keeps the end of the initial poll.
LEMMA SameEnds ==
    ASSUME InitialPollEnds, pc' # "execute", idleWaitDuration' >= 0,
           UNCHANGED <<executorVars, mRegisterMap>>
    PROVE  InitialPollEnds'
BY DEF InitialPollEnds, executorVars, SpecSet, PendingPolls

\* what a list of polls that is added does to the executor
LEMMA PollsAdded ==
    ASSUME ReconnectInv, NEW polls \in SUBSET Polls, NEW initial \in BOOLEAN,
           AddPolls(polls, initial)
    PROVE  /\ pending \subseteq pending'
           /\ hasQueue => hasQueue'
           /\ polls # {} => hasQueue'
           /\ pending' # {} => hasQueue' /\ atQueue'
           /\ polls # {} => PendingPolls' # {}
           /\ mInitialPoll' => mInitialPoll \/ initial
           /\ PendingPolls # {} => PendingPolls' # {}
<1>1. CASE mInitialPoll /\ PendingPolls # {}
  <2>1. UNCHANGED executorVars
    BY <1>1 DEF AddPolls
  <2>2. pending # {}
    BY <1>1 DEF PendingPolls
  <2> QED
    BY <1>1, <2>1, <2>2 DEF executorVars, ReconnectInv, InitialPollEnds, PendingPolls
<1>2. CASE ~(mInitialPoll /\ PendingPolls # {})
  <2>1. /\ pending' = pending \cup polls
        /\ mInitialPoll' = (mInitialPoll \/ initial)
        /\ hasQueue' = (hasQueue \/ polls # {})
        /\ atQueue' = (atQueue \/ (pending = {} /\ polls # {}))
    BY <1>2 DEF AddPolls
  <2> QED
    BY <2>1, Zenon DEF ReconnectInv, InitialPollEnds, PendingPolls
<1> QED
  BY <1>1, <1>2

\* The delay before the last reconnection was within its limit.
LEMMA DelayBeforeBounds == ReconnectInv => DelayBefore \in 0 .. MaxReconnectTime
BY ThreadAssumption DEF ReconnectInv, ThreadType, LoopType, InitialPollEnds, DelayBefore

\* A new connection starts an initial poll that has registers to end with.
LEMMA ConnectKeepsEnds ==
    ASSUME Polls # {}, ReconnectInv, ConnectSucceeds
    PROVE  InitialPollEnds'
<1>1. /\ pc' = "work" /\ idleWaitDuration' = DelayBefore /\ RefreshEverything
      /\ UNCHANGED mRegisterMap
  BY DEF ConnectSucceeds, Goto, schedulerVars
<1>2. idleWaitDuration' >= 0
  BY <1>1, DelayBeforeBounds
<1>3. CASE mInitialPoll
  BY <1>1, <1>2, <1>3, SameEnds DEF RefreshEverything, ReconnectInv
<1>4. CASE ~mInitialPoll
  <2>1. mRegisterMap \in SUBSET Polls /\ AddPolls(mRegisterMap, TRUE)
    BY <1>1, <1>4, Zenon DEF RefreshEverything, ReconnectInv, ThreadType, SchedulerType
  <2> QED
    BY <1>1, <1>2, <2>1, PollsAdded, Zenon DEF InitialPollEnds, SpecSet
<1> QED
  BY <1>3, <1>4

\* A new specification leaves the initial poll with registers to end with.
LEMMA SpecificationKeepsEnds ==
    ASSUME Polls # {}, ReconnectInv, SetPollSpecification
    PROVE  InitialPollEnds'
<1>1. /\ pc' = "dispatch" /\ UNCHANGED idleWaitDuration /\ AddPolls(Polls, TRUE)
  BY Zenon DEF SetPollSpecification, Take
<1> QED
  BY <1>1, PollsAdded, Zenon DEF InitialPollEnds, ReconnectInv

\* Scheduling keeps the end of the initial poll ahead.
LEMMA ScheduleKeepsEnds ==
    ASSUME Polls # {}, ReconnectInv, Schedule
    PROVE  InitialPollEnds'
<1>1. /\ pc' = "execute" /\ mMqttConnected /\ UNCHANGED <<idleWaitDuration, mRegisterMap>>
  BY DEF Schedule, Goto, schedulerVars
<1>2. SpecSet /\ SpecSet'
  BY <1>1 DEF ReconnectInv, SpecFirst, SpecSet
<1>3. untilPoll \in Int /\ WaitDuration \in Nat
  BY WaitDurationBounds, SchedulerAssumption, ThreadAssumption, SMTT(30) DEF ReconnectInv, ThreadType, LoopType
<1>4. CASE ~mInitialPoll /\ PollTimePassed
  <2>1. /\ RegistersToPoll \in SUBSET Polls /\ AddPolls(RegistersToPoll, FALSE)
        /\ untilPoll' = WaitDuration
    BY <1>4, Zenon DEF Schedule, RegistersToPoll, Scheduled, ReconnectInv, ThreadType, SchedulerType
  <2>2. ~mInitialPoll' /\ hasQueue' /\ (pending' # {} => atQueue')
    BY <1>2, <1>4, <2>1, PollsAdded, Zenon DEF ReconnectInv, InitialPollEnds
  <2> QED
    BY <1>1, <1>3, <2>1, <2>2 DEF InitialPollEnds, ReconnectInv
<1>5. CASE ~(~mInitialPoll /\ PollTimePassed)
  <2>1. UNCHANGED <<executorVars, untilPoll>>
    BY <1>5, Zenon DEF Schedule
  <2>2. untilPoll >= 0 \/ pending # {}
    <3>1. CASE mInitialPoll
      BY <3>1, <1>2 DEF ReconnectInv, InitialPollEnds, PendingPolls
    <3>2. CASE ~PollTimePassed
      BY <3>2, <1>3 DEF PollTimePassed
    <3> QED
      BY <1>5, <3>1, <3>2
  <2> QED
    BY <1>1, <1>2, <2>1, <2>2 DEF InitialPollEnds, ReconnectInv, executorVars, PendingPolls
<1> QED
  BY <1>4, <1>5

\* Executing a command keeps, or reaches, the end of the initial poll.
LEMMA ExecuteKeepsEnds ==
    ASSUME ReconnectInv, NEW c \in pending, NEW ok \in BOOLEAN, ExecuteCommand(c, ok)
    PROVE  InitialPollEnds'
<1>1. /\ pc' = "check" /\ idleWaitDuration' = 0 /\ pending' = pending \ {c}
      /\ UNCHANGED <<hasQueue, atQueue>>
      /\ mInitialPoll' = (mInitialPoll /\ ~(PendingPolls \subseteq {c} /\ atQueue))
  BY DEF ExecuteCommand, Goto, Executed
<1>2. hasQueue /\ atQueue
  BY DEF ReconnectInv, InitialPollEnds
<1>3. mInitialPoll' => PendingPolls' # {}
  BY <1>1, <1>2, Zenon DEF PendingPolls
<1> QED
  BY <1>1, <1>2, <1>3 DEF InitialPollEnds

\* A command received keeps the end of the initial poll ahead.
LEMMA CommandKeepsEnds ==
    ASSUME Polls # {}, ReconnectInv, ProcessCommand
    PROVE  InitialPollEnds'
<1> DEFINE c == Head(toModbus).command
<1>1. /\ pc' = "dispatch" /\ UNCHANGED <<idleWaitDuration, mRegisterMap, mInitialPoll>>
      /\ pending' = pending \cup {c}
  BY Zenon DEF ProcessCommand, Take, AddRead, AddWrite, schedulerVars
<1>2. SpecSet
  <2>1. 1 \in DOMAIN toModbus /\ toModbus[1].type = "command"
    BY DEF ProcessCommand, Take, ReconnectInv, ThreadType, MainType
  <2> QED
    BY <2>1 DEF ReconnectInv, SpecFirst
<1>3. hasQueue' /\ atQueue'
  BY <1>2, Zenon DEF ProcessCommand, AddRead, AddWrite, ReconnectInv, InitialPollEnds
<1>4. PendingPolls \subseteq PendingPolls'
  BY <1>1 DEF PendingPolls
<1> QED
  BY <1>1, <1>2, <1>3, <1>4 DEF InitialPollEnds, ReconnectInv, SpecSet

\* Every step keeps the end of the initial poll ahead.
LEMMA EndsKept ==
    ASSUME Polls # {}, ReconnectInv, [Next]_vars
    PROVE  InitialPollEnds'
<1>1. CASE WaitForConfig \/ WaitForBroker
  <2>1. /\ pc' # "execute" /\ idleWaitDuration' = Forever /\ UNCHANGED <<executorVars, mRegisterMap>>
    BY <1>1 DEF WaitForConfig, WaitForBroker, Goto, schedulerVars
  <2> QED
    BY <2>1, SameEnds, SchedulerAssumption DEF ReconnectInv
<1>2. CASE AlreadyConnected \/ ForceReconnect \/ StartWait \/ WaitTimesOut \/ Dispatched
           \/ Configure \/ MqttNetworkState \/ EndWork
  <2>1. pc' # "execute" /\ UNCHANGED <<idleWaitDuration, executorVars, mRegisterMap>>
    BY <1>2, Zenon DEF AlreadyConnected, ForceReconnect, StartWait, WaitTimesOut, Dispatched, Configure,
                MqttNetworkState, EndWork, Take, Goto, schedulerVars
  <2> QED
    BY <2>1, SameEnds DEF ReconnectInv, InitialPollEnds
<1>3. CASE ConnectFails
  <2>1. /\ pc' # "execute" /\ UNCHANGED <<executorVars, mRegisterMap>>
        /\ idleWaitDuration' = IF DelayBefore < MaxReconnectTime THEN DelayBefore + ReconnectStep
                                                                 ELSE DelayBefore
    BY <1>3 DEF ConnectFails, Goto, schedulerVars
  <2> QED
    BY <2>1, SameEnds, DelayBeforeBounds, ThreadAssumption DEF ReconnectInv
<1>4. CASE NothingToDo
  <2>1. /\ pc = "execute" /\ pc' # "execute" /\ pending = {} /\ idleWaitDuration' = untilPoll
        /\ UNCHANGED <<executorVars, mRegisterMap>>
    BY <1>4 DEF NothingToDo, Goto, schedulerVars
  <2> QED
    BY <2>1, SameEnds DEF ReconnectInv, InitialPollEnds
<1>5. CASE \E c \in pending : CommandHasToWait(c)
  <2>1. PICK c \in pending : CommandHasToWait(c)
    BY <1>5
  <2>2. /\ pc' # "execute" /\ DelayLeft(c) > 0 /\ idleWaitDuration' = DelayLeft(c)
        /\ UNCHANGED <<executorVars, mRegisterMap>>
    BY <2>1 DEF CommandHasToWait, Goto, schedulerVars
  <2>3. DelayLeft(c) \in Int
    BY ThreadAssumption DEF DelayLeft, ReconnectInv, ThreadType, ExecutorType
  <2> QED
    BY <2>2, <2>3, SameEnds DEF ReconnectInv
<1>6. CASE Tick
  <2>1. /\ pc' # "execute" /\ UNCHANGED <<idleWaitDuration, mRegisterMap, pending, mInitialPoll, hasQueue, atQueue>>
    BY <1>6 DEF Tick, SchedulerTick
  <2> QED
    BY <2>1 DEF ReconnectInv, InitialPollEnds, SpecSet, PendingPolls
<1>7. CASE SendConfig \/ SendSpecification \/ Stop
               \/ (\E up \in BOOLEAN : SendMqttNetworkIsUp(up))
               \/ (\E c \in Reads \cup Writes : SendCommand(c))
               \/ UnplugOrPlug \/ UNCHANGED vars
  <2>1. UNCHANGED <<schedulerVars, loopVars, executorVars>>
    BY <1>7, MessagesSent DEF UnplugOrPlug, vars, ReconnectInv
  <2> QED
    BY <2>1 DEF schedulerVars, loopVars, executorVars, ReconnectInv, InitialPollEnds, SpecSet,
                PendingPolls
<1> QED
  BY <1>1, <1>2, <1>3, <1>4, <1>5, <1>6, <1>7, ConnectKeepsEnds, SpecificationKeepsEnds,
     ScheduleKeepsEnds, ExecuteKeepsEnds, CommandKeepsEnds DEF Next, RunStep, DispatchMessages

\* Every step keeps the reconnection delay within its limit.
LEMMA ReconnectDelayKept ==
    ASSUME ReconnectInv, [Next]_vars
    PROVE  ReconnectDelayBounded'
<1>1. SUFFICES ASSUME pc' = "wait", hasContext', ~connected'
               PROVE  idleWaitDuration' \in 0 .. MaxReconnectTime + ReconnectStep - 1
  BY DEF ReconnectDelayBounded
<1>2. CASE ConnectFails
  BY <1>2, DelayBeforeBounds, ThreadAssumption DEF ConnectFails
<1>3. CASE WaitForConfig \/ StartWait
  BY <1>1, <1>3, Zenon DEF WaitForConfig, StartWait, Goto, ReconnectInv, Connection
<1>4. CASE Tick
  BY <1>1, <1>4 DEF Tick, ReconnectInv, ReconnectDelayBounded
<1>5. CASE SendConfig \/ SendSpecification \/ Stop
               \/ (\E up \in BOOLEAN : SendMqttNetworkIsUp(up))
               \/ (\E c \in Reads \cup Writes : SendCommand(c))
               \/ UnplugOrPlug \/ UNCHANGED vars
  <2>1. UNCHANGED loopVars
    BY <1>5, MessagesSent DEF UnplugOrPlug, vars, ReconnectInv
  <2> QED
    BY <1>1, <2>1 DEF loopVars, ReconnectInv, ReconnectDelayBounded
<1>6. CASE AlreadyConnected \/ ConnectSucceeds \/ WaitForBroker \/ Schedule \/ NothingToDo
           \/ (\E c \in pending : CommandHasToWait(c) \/ \E ok \in BOOLEAN : ExecuteCommand(c, ok))
           \/ ForceReconnect \/ WaitTimesOut \/ DispatchMessages
  <2>1. pc' # "wait"
    BY <1>6, Zenon DEF AlreadyConnected, ConnectSucceeds, WaitForBroker, Schedule, NothingToDo,
                CommandHasToWait, ExecuteCommand, ForceReconnect, WaitTimesOut, Goto,
                DispatchMessages, Configure, SetPollSpecification, ProcessCommand,
                MqttNetworkState, EndWork, Dispatched, Take
  <2> QED
    BY <1>1, <2>1
<1> QED
  BY <1>2, <1>3, <1>4, <1>5, <1>6 DEF Next, RunStep

\* The invariant behind the reconnection delay holds initially.
LEMMA InitialEnds ==
    ASSUME Polls # {}, Init
    PROVE  Connection /\ SpecFirst /\ InitialPollEnds /\ ReconnectDelayBounded
<1>1. pc = "loop" /\ pending = {} /\ mInitialPoll = FALSE /\ idleWaitDuration >= 0
  BY SchedulerAssumption DEF Init
<1>2. ~SpecSet
  BY DEF Init, SchedulerInit, SpecSet
<1>3. InitialPollEnds /\ ReconnectDelayBounded
  BY <1>1, <1>2 DEF InitialPollEnds, ReconnectDelayBounded
<1>4. Connection /\ SpecFirst
  BY DEF Init, Connection, SpecFirst
<1> QED
  BY <1>3, <1>4

\* While the network is down and there are registers to poll, the thread
\* waits between two connects for a time that is not negative, which would
\* be for ever, and shorter than the maximum reconnect time and one step
\* (modbus_thread.cpp, run), for any times and registers.
THEOREM ReconnectDelayAlwaysBounded ==
    ASSUME Polls # {} PROVE Spec => []ReconnectDelayBounded
<1>1. Init => ReconnectInv
  BY InitialEnds, InitialTypes DEF ReconnectInv
<1>2. ReconnectInv /\ [Next]_vars => ReconnectInv'
  BY TypeKept, ConnectionKept, SpecFirstKept, EndsKept, ReconnectDelayKept DEF ReconnectInv
<1>3. ReconnectInv => ReconnectDelayBounded
  BY DEF ReconnectInv
<1> QED
  BY <1>1, <1>2, <1>3, PTL DEF Spec

----------------------------------------------------------------------------
(***************************************************************************)
(* Polling keeps the watchdog quiet                                        *)
(***************************************************************************)
WatchInv == SleepInv /\ InitialPollEnds /\ ReconnectDelayBounded /\ WatchPeriods /\ WatchTimes

\* the numbers behind WatchTimes
LEMMA WatchNumbers ==
    ASSUME WatchInv
    PROVE  /\ sinceOk \in Nat /\ mWatchPeriod \in Nat /\ WatchPeriod \in Nat /\ MinPollTime \in Nat
           /\ silence \in 0 .. MaxDelay /\ MaxDelay \in Nat /\ untilPoll \in Int
BY WatchdogAssumption, ThreadAssumption, SchedulerAssumption, MinPollTimeBounds, SMTT(30)
   DEF WatchInv, SleepInv, ThreadType, WatchdogType, ExecutorType, LoopType

\* once it polls, the watchdog allows for what the configuration is assumed to
LEMMA WatchedInTime ==
    ASSUME WatchInv, PollingFeedsWatchdog, SpecSet, NEW t \in Nat, Watched(t)
    PROVE  t <= mWatchPeriod
<1>1. PICK p \in Cyclic : TRUE
  BY DEF PollingFeedsWatchdog
<1>2. p \in Polls /\ Refresh[p] \in Nat /\ Refresh[p] < Forever /\ Forever \in Nat
  BY <1>1, SchedulerAssumption DEF Cyclic
<1>3. MinPollTime # Forever
  BY <1>2, MinPollTimeBounds
<1> QED
  BY <1>3, WatchNumbers DEF WatchInv, WatchPeriods, Watched

\* A step that leaves watchdog and polls alone keeps the watch times.
LEMMA SameWatch ==
    ASSUME WatchInv, pc' # "check", pending \subseteq pending',
           UNCHANGED <<sinceOk, mLastCommandOk, mDeviceRemoved, silence, sinceRead, untilPoll>>
    PROVE  WatchTimes'
BY Zenon DEF WatchInv, WatchTimes

\* a connect, a reconnect and a successful command
LEMMA ResetKeepsWatch ==
    ASSUME WatchInv, Reset, UNCHANGED untilPoll,
           SchedulerType', silence' \in Nat
    PROVE  WatchTimes'
<1>1. sinceOk' = 0 /\ ~mDeviceRemoved' /\ UNCHANGED mWatchPeriod
  BY DEF Reset
<1>2. ASSUME NEW p \in Cyclic
      PROVE  0 <= sinceRead'[p] /\ (untilPoll' >= 0 => untilPoll' <= Refresh[p])
  BY DEF WatchInv, SleepInv, PollTimes, SchedulerType, Cyclic
<1>3. 0 <= mWatchPeriod
  BY WatchNumbers
<1>4. ASSUME NEW p \in Cyclic PROVE untilPoll' >= 0 => 0 + untilPoll' <= Refresh[p]
  BY <1>2, WatchNumbers
<1>5. sinceOk' <= silence' /\ sinceOk' <= mWatchPeriod'
  BY <1>1, <1>3
<1>6. ASSUME NEW p \in Cyclic
      PROVE  sinceOk' <= sinceRead'[p] /\ (untilPoll' >= 0 => sinceOk' + untilPoll' <= Refresh[p])
  BY <1>1, <1>2, <1>4
<1> QED
  BY <1>1, <1>5, <1>6, Zenon DEF WatchTimes

\* Executing a command keeps the watch times.
LEMMA ExecuteKeepsWatch ==
    ASSUME WatchInv, NEW c \in pending, NEW ok \in BOOLEAN, ExecuteCommand(c, ok), ThreadType'
    PROVE  WatchTimes'
<1>1. CASE ok
  <2>1. Reset /\ UNCHANGED untilPoll /\ silence' = 0
    BY <1>1 DEF ExecuteCommand, InspectCommand, Executed
  <2> QED
    BY <2>1, ResetKeepsWatch DEF ThreadType
<1>2. CASE ~ok
  <2>1. mLastCommandOk' = FALSE
    BY <1>2 DEF ExecuteCommand, InspectCommand, CommandFailed
  <2> QED
    BY <2>1 DEF WatchTimes
<1> QED
  BY <1>1, <1>2

\* Scheduling keeps the watch times.
LEMMA ScheduleKeepsWatch == ASSUME WatchInv, Schedule PROVE WatchTimes'
<1>1. /\ pc' = "execute" /\ mMqttConnected /\ SpecSet
      /\ UNCHANGED <<sinceOk, mLastCommandOk, mDeviceRemoved, silence, sinceRead, mWatchPeriod>>
  BY Zenon DEF Schedule, Goto, schedulerVars, watchdogVars, executorVars, AddPolls, WatchInv, SleepInv,
         SpecFirst
<1>2. CASE ~(~mInitialPoll /\ PollTimePassed)
  BY <1>1, <1>2, SameWatch, Zenon DEF Schedule, executorVars
<1>3. CASE ~mInitialPoll /\ PollTimePassed
  <2>1. untilPoll' = WaitDuration /\ pending' = pending \cup RegistersToPoll
    BY <1>3 DEF Schedule, AddPolls
  <2>2. ASSUME mLastCommandOk, NEW p \in Cyclic, p \notin pending'
        PROVE  sinceOk + untilPoll' <= Refresh[p]
    <3>1. p \in Scheduled /\ p \notin RegistersToPoll
      BY <1>1, <2>1, <2>2 DEF WatchInv, SleepInv, SpecSet, PollTimes, Scheduled, Cyclic
    <3>2. WaitDuration \in Nat /\ WaitDuration <= Refresh[p] - sinceRead[p]
      BY <3>1, WaitDurationBounds, SchedulerAssumption
         DEF WatchInv, SleepInv, ThreadType, TimeToPoll
    <3>3. sinceRead[p] \in Nat /\ Refresh[p] \in Nat /\ sinceRead[p] < Refresh[p]
      BY <3>1, CyclicTimes DEF RegistersToPoll, WatchInv, SleepInv
    <3>4. sinceOk <= sinceRead[p]
      BY <2>2, <3>3 DEF WatchInv, WatchTimes
    <3> QED
      BY <2>1, <3>2, <3>3, <3>4, WatchNumbers, SMTT(30)
  <2> QED
    BY <1>1, <2>2, Zenon DEF WatchInv, WatchTimes
<1> QED
  BY <1>2, <1>3

\* Time passing keeps the watch times.
LEMMA TickKeepsWatch == ASSUME WatchInv, Tick PROVE WatchTimes'
<1>1. pc' = "wait" /\ UNCHANGED <<pending, mLastCommandOk, mDeviceRemoved>>
  BY DEF Tick, WatchdogTick
<1>2. sinceOk' \in Nat /\ sinceOk' <= sinceOk + 1
  BY TickTimes, WatchNumbers, WatchdogAssumption DEF WatchInv, SleepInv
<1>3. silence' < MaxDelay => silence < MaxDelay /\ silence' = silence + 1
  BY TickTimes, WatchNumbers DEF WatchInv, SleepInv
<1>4. ASSUME NEW p \in Cyclic
      PROVE  /\ sinceRead'[p] < Refresh[p] => sinceRead[p] < Refresh[p] /\ sinceRead'[p] = sinceRead[p] + 1
             /\ untilPoll' >= 0 => untilPoll >= 0 /\ untilPoll' = untilPoll - 1
             /\ Refresh[p] \in Nat /\ sinceRead[p] \in Nat
  <2>1. /\ p \in Polls /\ Refresh[p] \in Nat /\ Refresh[p] < Forever /\ Forever \in Nat
        /\ sinceRead[p] \in Nat /\ untilPoll \in Int /\ MaxLate \in Nat \ {0}
    BY CyclicTimes, ThreadAssumption, Zenon DEF WatchInv, SleepInv
  <2>2. untilPoll <= Refresh[p]
    BY DEF WatchInv, SleepInv, PollTimes
  <2> QED
    BY <2>1, <2>2, TickTimes, SMTT(30) DEF WatchInv, SleepInv
<1>5. ASSUME mLastCommandOk PROVE silence' < MaxDelay => sinceOk' <= silence'
  BY <1>2, <1>3, <1>5, WatchNumbers DEF WatchInv, WatchTimes
<1>6. ASSUME mLastCommandOk, NEW p \in Cyclic
      PROVE  /\ sinceRead'[p] < Refresh[p] => sinceOk' <= sinceRead'[p]
             /\ p \notin pending /\ untilPoll' >= 0 => sinceOk' + untilPoll' <= Refresh[p]
  BY <1>2, <1>4, <1>6, WatchNumbers, SMTT(30) DEF WatchInv, WatchTimes
<1> QED
  BY <1>1, <1>5, <1>6, Zenon DEF WatchInv, WatchTimes

\* Going to the watchdog's check leaves it fed by some cyclic register.
LEMMA CheckKeepsWatch ==
    ASSUME WatchInv, PollingFeedsWatchdog,
           NothingToDo \/ \E c \in pending : CommandHasToWait(c)
    PROVE  WatchTimes'
<1>1. /\ SpecSet /\ pc = "execute"
      /\ UNCHANGED <<sinceOk, mLastCommandOk, mDeviceRemoved, silence, sinceRead, mWatchPeriod,
                     pending, untilPoll, mMqttConnected>>
  BY Zenon DEF NothingToDo, CommandHasToWait, Goto, schedulerVars, watchdogVars, executorVars, WatchInv,
         SleepInv, Connection, SpecFirst
<1>2. ASSUME mLastCommandOk PROVE sinceOk <= mWatchPeriod
  <2>1. CASE NothingToDo
    <3>1. pending = {} /\ untilPoll >= 0
      BY <1>1, <2>1 DEF NothingToDo, WatchInv, InitialPollEnds
    <3>2. PICK p \in Cyclic : Watched(Refresh[p])
      BY DEF PollingFeedsWatchdog
    <3>3. Refresh[p] \in Nat
      BY <3>2, CyclicTimes, Zenon DEF WatchInv, SleepInv
    <3>4. Refresh[p] <= mWatchPeriod
      BY <1>1, <3>2, <3>3, WatchedInTime
    <3>5. sinceOk + untilPoll <= Refresh[p]
      BY <1>2, <3>1, <3>2 DEF WatchInv, WatchTimes
    <3> QED
      BY <3>1, <3>3, <3>4, <3>5, WatchNumbers
  <2>2. CASE \E c \in pending : CommandHasToWait(c)
    <3>1. PICK c \in pending : CommandHasToWait(c)
      BY <2>2
    <3>2. c \in Commands /\ Delay[c] \in 0 .. MaxDelay
      BY ThreadAssumption DEF WatchInv, SleepInv, ThreadType, ExecutorType
    <3>3. silence < Delay[c]
      BY <3>1, <3>2, WatchNumbers DEF CommandHasToWait, DelayLeft
    <3>4. Delay[c] <= mWatchPeriod
      BY <1>1, <3>2, WatchedInTime DEF PollingFeedsWatchdog
    <3>5. sinceOk <= silence
      BY <1>2, <3>2, <3>3, WatchNumbers, SMTT(30) DEF WatchInv, WatchTimes
    <3> QED
      BY <3>2, <3>3, <3>4, <3>5, WatchNumbers
  <2> QED
    BY <2>1, <2>2
<1> QED
  BY <1>1, <1>2, Zenon DEF WatchInv, WatchTimes

\* Every step keeps the watch times.
LEMMA WatchTimesKept ==
    ASSUME WatchInv, PollingFeedsWatchdog, [Next]_vars
    PROVE  WatchTimes'
<1>0. ThreadType'
  BY TypeKept DEF WatchInv, SleepInv
<1>1. CASE ConnectSucceeds \/ ForceReconnect \/ Configure
  <2>1. Reset /\ UNCHANGED untilPoll
    BY <1>1 DEF ConnectSucceeds, ForceReconnect, Configure, Take
  <2> QED
    BY <1>0, <2>1, ResetKeepsWatch DEF ThreadType, ExecutorType
<1>2. CASE WaitForConfig \/ AlreadyConnected \/ ConnectFails \/ StartWait \/ WaitTimesOut
           \/ Dispatched \/ MqttNetworkState \/ EndWork
  <2>1. /\ pc' # "check"
        /\ UNCHANGED <<sinceOk, mLastCommandOk, mDeviceRemoved, silence, sinceRead, untilPoll, pending>>
    BY <1>2, Zenon DEF WaitForConfig, AlreadyConnected, ConnectFails, StartWait, WaitTimesOut, Dispatched,
                MqttNetworkState, EndWork, Take, Goto, schedulerVars, watchdogVars, executorVars
  <2> QED
    BY <2>1, SameWatch
<1>3. CASE SetPollSpecification \/ ProcessCommand
  <2>1. /\ pc' # "check" /\ pending \subseteq pending'
        /\ UNCHANGED <<sinceOk, mLastCommandOk, mDeviceRemoved, silence, sinceRead, untilPoll>>
    BY <1>3, Zenon DEF SetPollSpecification, SetRegisterMap, AdjustWatchPeriod, AddPolls, ProcessCommand,
                AddRead, AddWrite, Take, schedulerVars, watchdogVars, executorVars
  <2> QED
    BY <2>1, SameWatch
<1>4. CASE WaitForBroker
  <2>1. /\ ~mMqttConnected'
        /\ UNCHANGED <<sinceOk, mLastCommandOk, mDeviceRemoved, silence, sinceRead, untilPoll, pending>>
    BY <1>4 DEF WaitForBroker, Goto, schedulerVars, watchdogVars, executorVars
  <2> QED
    BY <2>1, Zenon DEF WatchInv, WatchTimes
<1>5. CASE SendConfig \/ SendSpecification \/ Stop
               \/ (\E up \in BOOLEAN : SendMqttNetworkIsUp(up))
               \/ (\E c \in Reads \cup Writes : SendCommand(c))
               \/ UnplugOrPlug \/ UNCHANGED vars
  <2>1. /\ UNCHANGED <<schedulerVars, loopVars, executorVars>>
        /\ UNCHANGED <<mWatchPeriod, sinceOk, mLastCommandOk, mDeviceRemoved>>
    BY <1>5, MessagesSent DEF UnplugOrPlug, DeviceChanges, watchdogVars, vars, WatchInv, SleepInv
  <2> QED
    BY <2>1, Zenon DEF schedulerVars, loopVars, executorVars, WatchInv, WatchTimes
<1> QED
  BY <1>0, <1>1, <1>2, <1>3, <1>4, <1>5, ScheduleKeepsWatch, ExecuteKeepsWatch, CheckKeepsWatch,
     TickKeepsWatch DEF Next, RunStep, DispatchMessages

\* No step makes the watch period too short.
LEMMA WatchPeriodsKept ==
    ASSUME WatchInv, [Next]_vars
    PROVE  WatchPeriods'
<1>1. CASE SetPollSpecification
  <2>1. mWatchPeriod \in Int /\ 2 * MinPollTime \in Int /\ WatchPeriod \in Int
    BY WatchNumbers
  <2>2. Max({mWatchPeriod, 2 * MinPollTime})
          = IF mWatchPeriod >= 2 * MinPollTime THEN mWatchPeriod ELSE 2 * MinPollTime
    BY <2>1, MaxOfTwo
  <2>3. mWatchPeriod' = IF AutoWatchPeriod /\ MinPollTime # Forever
                        THEN Max({mWatchPeriod, 2 * MinPollTime}) ELSE mWatchPeriod
    BY <1>1 DEF SetPollSpecification, AdjustWatchPeriod
  <2> QED
    BY <2>1, <2>2, <2>3 DEF WatchInv, WatchPeriods
<1>2. CASE ~SetPollSpecification
  <2>1. UNCHANGED <<mWatchPeriod, mRegisterMap>>
    <3>1. CASE SendConfig \/ SendSpecification \/ Stop
               \/ (\E up \in BOOLEAN : SendMqttNetworkIsUp(up))
               \/ (\E c \in Reads \cup Writes : SendCommand(c))
               \/ UnplugOrPlug \/ Tick \/ UNCHANGED vars
      BY <3>1, MessagesSent, Zenon DEF UnplugOrPlug, DeviceChanges, watchdogVars, vars, WatchInv, SleepInv,
                Tick, SchedulerTick, WatchdogTick, schedulerVars
    <3>2. CASE \E c \in pending : CommandHasToWait(c) \/ \E ok \in BOOLEAN : ExecuteCommand(c, ok)
      BY <3>2 DEF CommandHasToWait, ExecuteCommand, InspectCommand, Reset, CommandFailed, PollRead,
                  NotifyRpcRead, schedulerVars, watchdogVars
    <3>3. CASE WaitForConfig \/ AlreadyConnected \/ ConnectSucceeds \/ ConnectFails
               \/ WaitForBroker \/ Schedule \/ NothingToDo \/ ForceReconnect \/ StartWait
               \/ WaitTimesOut
      BY <3>3, Zenon DEF WaitForConfig, AlreadyConnected, ConnectSucceeds, ConnectFails, WaitForBroker,
                  Schedule, NothingToDo, ForceReconnect, StartWait, WaitTimesOut, Reset,
                  schedulerVars, watchdogVars
    <3>4. CASE Configure \/ ProcessCommand \/ MqttNetworkState \/ EndWork \/ Dispatched
      BY <3>4, Zenon DEF Configure, ProcessCommand, MqttNetworkState, EndWork, Dispatched, Reset,
                  schedulerVars, watchdogVars
    <3> QED
      BY <1>2, <3>1, <3>2, <3>3, <3>4 DEF Next, RunStep, DispatchMessages
  <2> QED
    BY <2>1 DEF WatchInv, WatchPeriods, SpecSet
<1> QED
  BY <1>1, <1>2

\* While the broker is up and some register is polled within the watch
\* period, the thread disconnects only after a command that failed
\* (modbus_watchdog.cpp, isReconnectRequired): polling, RPC reads that defer
\* polls, delays before commands and reconnects never let the watchdog
\* take a network in order for a dead one.
THEOREM HealthyNetworkAlwaysKept ==
    ASSUME PollingFeedsWatchdog PROVE Spec => HealthyNetworkKept
<1>0. Polls # {}
  BY DEF PollingFeedsWatchdog, Cyclic
<1>1. ASSUME Init PROVE WatchPeriods /\ WatchTimes
  <2>1. mWatchPeriod = WatchPeriod /\ sinceOk = 0 /\ ~mDeviceRemoved /\ pc = "loop"
        /\ sinceRead = Refresh /\ untilPoll = 0 /\ silence = MaxDelay
    BY <1>1 DEF Init, WatchdogInit, SchedulerInit
  <2>2. ~SpecSet
    BY <1>0, <1>1 DEF Init, SchedulerInit, SpecSet
  <2> QED
    BY <2>1, <2>2, WatchdogAssumption, SchedulerAssumption, ThreadAssumption
       DEF WatchPeriods, WatchTimes, Cyclic
<1>2. Init => InitialPollEnds /\ ReconnectDelayBounded
  BY <1>0, InitialEnds
<1> DEFINE Healthy == InitialPollEnds /\ ReconnectDelayBounded /\ WatchPeriods /\ WatchTimes
<1>3. Init => Healthy
  BY <1>1, <1>2
<1>4. SleepInv /\ Healthy /\ [Next]_vars => Healthy'
  BY <1>0, EndsKept, ReconnectDelayKept, WatchPeriodsKept, WatchTimesKept
     DEF WatchInv, SleepInv, ReconnectInv
<1>5. SleepInv /\ Healthy => [ForceReconnect /\ mMqttConnected => ~mLastCommandOk]_vars
  <2> SUFFICES ASSUME SleepInv, Healthy, ForceReconnect, mMqttConnected, mLastCommandOk
               PROVE  FALSE
    OBVIOUS
  <2>1. pc = "check" /\ IsReconnectRequired
    BY DEF ForceReconnect, Goto
  <2>2. ~mDeviceRemoved /\ sinceOk <= mWatchPeriod
    BY <2>1 DEF WatchTimes
  <2>3. sinceOk \in Nat /\ mWatchPeriod \in Nat
    BY WatchNumbers DEF WatchInv
  <2> QED
    BY <2>1, <2>2, <2>3 DEF IsReconnectRequired
<1> QED
  BY <1>3, <1>4, <1>5, SleepInvHolds, PTL DEF Spec, HealthyNetworkKept
=============================================================================
