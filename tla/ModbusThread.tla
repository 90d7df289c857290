---------------------------- MODULE ModbusThread ----------------------------
(***************************************************************************)
(* ModbusThread::run (libmodmqttsrv/modbus_thread.cpp) for a network with  *)
(* one slave: connecting and the growing delay between attempts, what is   *)
(* scheduled and executed, the watchdog, and the wait for messages of the  *)
(* main thread.                                                            *)
(*                                                                         *)
(* Any pending command may be the next one, and a command that fails is    *)
(* given up: the order and the retries are in ModbusExecutor.  Commands    *)
(* take no time; time passes while the thread waits for a message.         *)
(***************************************************************************)
EXTENDS ModbusScheduler, ModbusWatchdog, Sequences

CONSTANTS
    Writes,             \* writes for MQTT commands and RPC requests
    Delay,              \* delay before each command
    ReconnectStep,      \* 5 seconds
    MaxReconnectTime,   \* maxReconnectTime
    MaxDelay,           \* bound on the silence that is told apart
    MaxLate,            \* bound on how long the poll time has passed
    MaxToModbus         \* bound on the messages that wait for the thread

Commands == Polls \cup Reads \cup Writes

ASSUME ThreadAssumption ==
    /\ Writes \cap (Polls \cup Reads) = {}
    /\ Delay \in [Commands -> 0 .. MaxDelay]
    /\ ReconnectStep \in Nat \ {0} /\ MaxReconnectTime \in Nat
    /\ MaxReconnectTime + ReconnectStep < Forever
    /\ MaxDelay \in 0 .. Forever /\ MaxLate \in Nat \ {0} /\ MaxToModbus \in Nat
    /\ AutoWatchPeriod /\ MinPollTime # Forever => 2 * MinPollTime <= MaxWatchPeriod

VARIABLES
    pc,               \* where the loop of run() is
    hasContext,       \* mModbus is not null
    connected,        \* mModbus->isConnected()
    mMqttConnected,
    mShouldRun,
    idleWaitDuration,
    untilPoll,        \* nextPollTimePoint - now()
    untilTimeout,     \* what is left of the wait for a message
    pending,          \* commands the executor holds
    mInitialPoll,
    hasQueue,         \* the executor has queues for the slave
    atQueue,          \* mCurrentSlaveQueue is that entry, not end()
    leaked,           \* a write that was given up is still counted
    silence,          \* now() - mLastCommandTime
    toModbus,         \* mToModbusQueue
    sender,           \* how far the main thread is: config, spec, running, stopped
    brokerUp,         \* what the client has announced last
    told              \* history: the last network state sent to the main thread

loopVars == <<pc, hasContext, connected, mMqttConnected, mShouldRun, idleWaitDuration,
              untilPoll, untilTimeout>>
executorVars == <<pending, mInitialPoll, hasQueue, atQueue, leaked, silence>>
mainVars == <<toModbus, sender, brokerUp>>

vars == <<schedulerVars, watchdogVars, loopVars, executorVars, mainVars, told>>

Init ==
    /\ SchedulerInit
    /\ WatchdogInit
    /\ pc = "loop"
    /\ hasContext = FALSE /\ connected = FALSE
    /\ mMqttConnected = FALSE
    /\ mShouldRun = TRUE
    /\ idleWaitDuration = Forever
    /\ untilPoll = 0
    /\ untilTimeout = 0
    /\ pending = {}
    /\ mInitialPoll = FALSE
    /\ hasQueue = FALSE /\ atQueue = FALSE
    /\ leaked = FALSE
    /\ silence = MaxDelay
    /\ toModbus = <<>>
    /\ sender = "config"
    /\ brokerUp = FALSE
    /\ told = "nothing"

----------------------------------------------------------------------------
(***************************************************************************)
(* The executor                                                            *)
(***************************************************************************)
PendingPolls == pending \cap (Polls \cup Reads)

\* addPollList: a new list is refused while an initial poll is under way
AddPolls(polls, initial) ==
    IF mInitialPoll /\ PendingPolls # {}
    THEN UNCHANGED executorVars
    ELSE /\ pending' = pending \cup polls
         /\ mInitialPoll' = (mInitialPoll \/ initial)
         /\ hasQueue' = (hasQueue \/ polls # {})
         /\ atQueue' = (atQueue \/ (pending = {} /\ polls # {}))
         /\ UNCHANGED <<leaked, silence>>

AddRead(r) ==
    /\ pending' = pending \cup {r}
    /\ hasQueue' = TRUE /\ atQueue' = TRUE
    /\ UNCHANGED <<mInitialPoll, leaked, silence>>

\* addWriteCommand: the fast path looks the slave up and does not add it
AddWrite(w) ==
    /\ pending' = pending \cup {w}
    /\ IF pending \cap Writes = {} /\ ~leaked
       THEN atQueue' = hasQueue /\ UNCHANGED hasQueue
       ELSE hasQueue' = TRUE /\ atQueue' = TRUE
    /\ UNCHANGED <<mInitialPoll, leaked, silence>>

DelayLeft(c) == Delay[c] - silence

\* sendCommand, and the end of an initial poll in executeNext
Executed(c, ok) ==
    /\ pending' = pending \ {c}
    /\ leaked' = (leaked \/ (c \in Writes /\ ~ok))
    /\ silence' = 0
    /\ mInitialPoll' = (mInitialPoll /\ ~(PendingPolls \subseteq {c} /\ atQueue))
    /\ UNCHANGED <<hasQueue, atQueue>>

----------------------------------------------------------------------------
(***************************************************************************)
(* The loop of run().  One turn goes from "loop" over "work", "execute"    *)
(* and "check" to "wait" and "dispatch".                                   *)
(***************************************************************************)
Goto(from, to) ==
    /\ pc = from
    /\ pc' = to
    /\ UNCHANGED <<mainVars, hasContext, mMqttConnected, mShouldRun>>

WaitForConfig ==
    /\ Goto("loop", "wait")
    /\ ~hasContext
    /\ idleWaitDuration' = Forever
    /\ untilTimeout' = Forever
    /\ UNCHANGED <<schedulerVars, watchdogVars, executorVars, connected, untilPoll, told>>

AlreadyConnected ==
    /\ Goto("loop", "work")
    /\ connected
    /\ UNCHANGED <<schedulerVars, watchdogVars, executorVars, connected, untilPoll,
                   idleWaitDuration, untilTimeout, told>>

DelayBefore_Kept == idleWaitDuration

\* a wait that is longer was one for the next poll or for a message
DelayBefore == IF idleWaitDuration > MaxReconnectTime THEN 0 ELSE idleWaitDuration

RefreshEverything ==
    IF mInitialPoll THEN UNCHANGED executorVars ELSE AddPolls(mRegisterMap, TRUE)

ConnectSucceeds ==
    /\ Goto("loop", "work")
    /\ hasContext /\ ~connected
    /\ HasDevicePath => devicePresent
    /\ connected' = TRUE
    /\ told' = "up"
    /\ idleWaitDuration' = DelayBefore
    /\ Reset
    /\ RefreshEverything
    /\ UNCHANGED <<schedulerVars, untilPoll, untilTimeout>>

ConnectFails_Quiet ==
    /\ Goto("loop", "wait")
    /\ hasContext /\ ~connected
    /\ idleWaitDuration' = IF DelayBefore < MaxReconnectTime THEN DelayBefore + ReconnectStep
                                                             ELSE DelayBefore
    /\ untilTimeout' = idleWaitDuration'
    /\ UNCHANGED <<schedulerVars, watchdogVars, executorVars, connected, untilPoll, told>>

ConnectFails ==
    /\ Goto("loop", "wait")
    /\ hasContext /\ ~connected
    /\ told' = "down"
    /\ idleWaitDuration' = IF DelayBefore < MaxReconnectTime THEN DelayBefore + ReconnectStep
                                                             ELSE DelayBefore
    /\ untilTimeout' = idleWaitDuration'
    /\ UNCHANGED <<schedulerVars, watchdogVars, executorVars, connected, untilPoll>>

WaitForBroker ==
    /\ Goto("work", "check")
    /\ ~mMqttConnected
    /\ idleWaitDuration' = Forever
    /\ UNCHANGED <<schedulerVars, watchdogVars, executorVars, connected, untilPoll,
                   untilTimeout, told>>

\* now() plus duration::max() wraps, so that time is always past
PollTimePassed == untilPoll < 0 \/ untilPoll = Forever

\* registers that are due are given to the executor
Schedule ==
    /\ Goto("work", "execute")
    /\ mMqttConnected
    /\ IF ~mInitialPoll /\ PollTimePassed
       THEN AddPolls(RegistersToPoll, FALSE) /\ untilPoll' = WaitDuration
       ELSE UNCHANGED <<executorVars, untilPoll>>
    /\ UNCHANGED <<schedulerVars, watchdogVars, connected, idleWaitDuration, untilTimeout, told>>

NothingToDo ==
    /\ Goto("execute", "check")
    /\ pending = {}
    /\ idleWaitDuration' = untilPoll
    /\ UNCHANGED <<schedulerVars, watchdogVars, executorVars, connected, untilPoll,
                   untilTimeout, told>>

CommandHasToWait(c) ==
    /\ Goto("execute", "check")
    /\ DelayLeft(c) > 0
    /\ idleWaitDuration' = DelayLeft(c)
    /\ UNCHANGED <<schedulerVars, watchdogVars, executorVars, connected, untilPoll,
                   untilTimeout, told>>

\* The command is sent, the watchdog looks at it, and a successful RPC read
\* defers the polls of its registers.
ExecuteCommand(c, ok) ==
    /\ Goto("execute", "check")
    /\ DelayLeft(c) <= 0
    /\ ok /\ HasDevicePath => devicePresent
    /\ idleWaitDuration' = 0
    /\ Executed(c, ok)
    /\ InspectCommand(ok)
    /\ CASE c \in Polls -> PollRead(c, ok)
         [] c \in Reads /\ ok -> NotifyRpcRead(c)
         [] OTHER -> UNCHANGED schedulerVars
    /\ UNCHANGED <<connected, untilPoll, untilTimeout, told>>

ForceReconnect ==
    /\ Goto("check", "loop")
    /\ IsReconnectRequired
    /\ connected' = FALSE
    /\ told' = "down"
    /\ Reset
    /\ UNCHANGED <<schedulerVars, executorVars, idleWaitDuration, untilPoll, untilTimeout>>

StartWait ==
    /\ Goto("check", "wait")
    /\ ~IsReconnectRequired
    /\ untilTimeout' = idleWaitDuration
    /\ UNCHANGED <<schedulerVars, watchdogVars, executorVars, connected, idleWaitDuration,
                   untilPoll, told>>

WaitTimesOut_Exact ==
    /\ Goto("wait", "loop")
    /\ toModbus = <<>>
    /\ idleWaitDuration >= 0 /\ untilTimeout = 0
    /\ UNCHANGED <<schedulerVars, watchdogVars, executorVars, connected, idleWaitDuration,
                   untilPoll, untilTimeout, told>>

\* wait_dequeue_timed waits for ever when the time is negative
WaitTimesOut ==
    /\ Goto("wait", "loop")
    /\ toModbus = <<>>
    /\ idleWaitDuration >= 0 /\ untilTimeout <= 0
    /\ untilTimeout' = 0
    /\ UNCHANGED <<schedulerVars, watchdogVars, executorVars, connected, idleWaitDuration,
                   untilPoll, told>>

(***************************************************************************)
(* dispatchMessages, one message at a time until the queue is empty.       *)
(***************************************************************************)
Take(type) ==
    /\ pc \in {"wait", "dispatch"}
    /\ pc' = "dispatch"
    /\ toModbus # <<>>
    /\ Head(toModbus).type = type
    /\ toModbus' = Tail(toModbus)
    /\ untilTimeout' = 0
    /\ UNCHANGED <<sender, brokerUp, connected, idleWaitDuration, untilPoll, told>>

Configure ==
    /\ Take("config")
    /\ hasContext' = TRUE
    /\ Reset
    /\ UNCHANGED <<schedulerVars, executorVars, mMqttConnected, mShouldRun>>

SetPollSpecification ==
    /\ Take("spec")
    /\ SetRegisterMap
    /\ AddPolls(Polls, TRUE)
    /\ AdjustWatchPeriod(MinPollTime, Forever)
    /\ UNCHANGED <<hasContext, mMqttConnected, mShouldRun>>

ProcessCommand ==
    /\ Take("command")
    /\ LET c == Head(toModbus).command
       IN  IF c \in Reads THEN AddRead(c) ELSE AddWrite(c)
    /\ UNCHANGED <<schedulerVars, watchdogVars, hasContext, mMqttConnected, mShouldRun>>

MqttNetworkState ==
    /\ Take("mqtt")
    /\ mMqttConnected' = Head(toModbus).up
    /\ UNCHANGED <<schedulerVars, watchdogVars, executorVars, hasContext, mShouldRun>>

EndWork_Ignored ==
    /\ Take("end")
    /\ mShouldRun' = connected
    /\ UNCHANGED <<schedulerVars, watchdogVars, executorVars, hasContext, mMqttConnected>>

EndWork ==
    /\ Take("end")
    /\ mShouldRun' = FALSE
    /\ UNCHANGED <<schedulerVars, watchdogVars, executorVars, hasContext, mMqttConnected>>

\* back to the loop, which ends and disconnects when mShouldRun is false
Dispatched ==
    /\ Goto("dispatch", IF mShouldRun THEN "loop" ELSE "ended")
    /\ toModbus = <<>>
    /\ connected' = (connected /\ mShouldRun)
    /\ UNCHANGED <<schedulerVars, watchdogVars, executorVars, idleWaitDuration, untilPoll,
                   untilTimeout, told>>

DispatchMessages ==
    \/ Configure \/ SetPollSpecification \/ ProcessCommand
    \/ MqttNetworkState \/ EndWork \/ Dispatched

----------------------------------------------------------------------------
(***************************************************************************)
(* The main thread and the mosquitto thread, which enqueue messages.  The  *)
(* thread looks at the queue only when it waits or dispatches, so earlier  *)
(* messages are taken to arrive then; likewise for the device file.        *)
(***************************************************************************)
Enqueue(message) ==
    /\ pc \in {"wait", "dispatch"}
    /\ Len(toModbus) < MaxToModbus
    /\ toModbus' = Append(toModbus, message)
    /\ UNCHANGED <<schedulerVars, watchdogVars, loopVars, executorVars, told>>

\* ModMqtt::init; a network without MQTT topics gets no specification
SendConfig ==
    /\ sender = "config" /\ sender' = "spec"
    /\ Enqueue([type |-> "config"])
    /\ UNCHANGED brokerUp

SendSpecification ==
    /\ sender = "spec" /\ sender' = "running"
    /\ IF Polls = {}
       THEN UNCHANGED <<schedulerVars, watchdogVars, loopVars, executorVars, toModbus, told>>
       ELSE Enqueue([type |-> "spec"])
    /\ UNCHANGED brokerUp

\* sendMqttNetworkIsUp in onConnect and onDisconnect
SendMqttNetworkIsUp(up) ==
    /\ sender = "running"
    /\ up => ~brokerUp
    /\ brokerUp' = up
    /\ Enqueue([type |-> "mqtt", up |-> up])
    /\ UNCHANGED sender

SendCommand(c) ==
    /\ sender = "running" /\ brokerUp
    /\ c \notin pending
    /\ \A i \in DOMAIN toModbus : toModbus[i].type = "command" => toModbus[i].command # c
    /\ Enqueue([type |-> "command", command |-> c])
    /\ UNCHANGED <<sender, brokerUp>>

\* ModbusClient::stop
Stop ==
    /\ sender = "running" /\ sender' = "stopped"
    /\ Enqueue([type |-> "end"])
    /\ UNCHANGED brokerUp

\* Time passes while the thread waits; it wakes up at most one unit late.
Tick ==
    /\ pc = "wait"
    /\ \/ idleWaitDuration \in {Forever} \cup -MaxLate .. -1 /\ UNCHANGED untilTimeout
       \/ idleWaitDuration \in 0 .. Forever - 1 /\ untilTimeout >= 0
          /\ untilTimeout' = untilTimeout - 1
    /\ untilPoll' = IF untilPoll = Forever THEN Forever ELSE Max({untilPoll - 1, -MaxLate})
    /\ silence' = Min({silence + 1, MaxDelay})
    /\ SchedulerTick
    /\ WatchdogTick
    /\ UNCHANGED <<mainVars, told, pc, hasContext, connected, mMqttConnected, mShouldRun,
                   idleWaitDuration, pending, mInitialPoll, hasQueue, atQueue, leaked>>

UnplugOrPlug ==
    /\ pc \in {"loop", "execute"}
    /\ DeviceChanges
    /\ UNCHANGED <<schedulerVars, loopVars, executorVars, mainVars, told>>

RunStep ==
    \/ WaitForConfig \/ AlreadyConnected \/ ConnectSucceeds \/ ConnectFails
    \/ WaitForBroker \/ Schedule \/ NothingToDo
    \/ \E c \in pending : CommandHasToWait(c) \/ \E ok \in BOOLEAN : ExecuteCommand(c, ok)
    \/ ForceReconnect \/ StartWait \/ WaitTimesOut
    \/ DispatchMessages

Next ==
    \/ RunStep
    \/ SendConfig \/ SendSpecification \/ Stop
    \/ \E up \in BOOLEAN : SendMqttNetworkIsUp(up)
    \/ \E c \in Reads \cup Writes : SendCommand(c)
    \/ Tick \/ UnplugOrPlug

Spec == Init /\ [][Next]_vars

\* The thread runs, time passes between its waits, and the executor reaches
\* each queued poll (PollsSent in ModbusExecutor, while writes cease).
\* Nothing is assumed about connects, messages and the success of commands.
LiveSpec ==
    /\ Spec
    /\ WF_vars(RunStep)
    /\ SF_vars(Tick)
    /\ \A p \in Polls : SF_vars(\E ok \in BOOLEAN : p \in pending /\ ExecuteCommand(p, ok))

----------------------------------------------------------------------------
(***************************************************************************)
(* Properties                                                              *)
(***************************************************************************)

\* Types.
TypeOK ==
    /\ pc \in {"loop", "work", "execute", "check", "wait", "dispatch", "ended"}
    /\ mRegisterMap \in {{}, Polls} /\ sinceRead \in [Polls -> Nat] /\ readOnce \subseteq Polls
    /\ \A p \in Polls : sinceRead[p] <= Refresh[p]
    /\ mWatchPeriod \in 0 .. MaxWatchPeriod
    /\ sinceOk \in 0 .. MaxWatchPeriod + 1 /\ sinceCheck \in 0 .. DeviceCheckPeriod + 1
    /\ idleWaitDuration \in -MaxLate .. Forever /\ untilPoll \in -MaxLate .. Forever
    /\ pending \subseteq Commands
    /\ silence \in 0 .. MaxDelay
    /\ Len(toModbus) <= MaxToModbus

\* While the network is down the thread never sleeps longer than the
\* maximum reconnect time and one step before it tries again.  The wait of
\* the last poll cycle is carried over into the delay, which must neither
\* make it endless (a negative time) nor longer.
ReconnectDelayBounded ==
    pc = "wait" /\ hasContext /\ ~connected =>
        idleWaitDuration \in 0 .. MaxReconnectTime + ReconnectStep - 1

\* An idle thread never sleeps beyond the time at which a register is due,
\* whatever was scheduled, deferred by an RPC read or polled for a
\* reconnect meanwhile.
NeverOversleeps ==
    pc = "wait" /\ connected /\ mMqttConnected /\ pending = {} =>
        \A p \in Polls :
            PollMode[p] # "ONCE" => untilTimeout <= Refresh[p] - sinceRead[p]

\* At rest the main thread knows the state of the network: the last
\* MsgModbusNetworkState agrees with the connection.
NetworkStateTold ==
    pc = "wait" /\ hasContext => told = IF connected THEN "up" ELSE "down"

\* While the broker is up, polling keeps the watchdog quiet: a connection
\* is given up only after a command that failed.
HealthyNetworkKept ==
    [][ForceReconnect /\ mMqttConnected => ~mLastCommandOk]_vars

\* A connection without a successful command is given up: while the broker
\* is up, there is again and again a success or a reconnect.
DeadNetworkReconnected ==
    <>[](mMqttConnected /\ connected /\ Polls # {}) => []<>(sinceOk = 0)

\* While both networks are up every register is read again and again, one
\* of mode ONCE until it was read without error, also when its last read
\* failed after a reconnect.
RegistersRead ==
    \A p \in Polls :
        <>[](mMqttConnected /\ connected) => []<>(sinceRead[p] = 0 \/ p \in readOnce)

\* The thread ends after ModbusClient::stop, so that join() returns.
EndsAfterStop == sender = "stopped" ~> pc = "ended"
=============================================================================
