------------------------------ MODULE MainLoop ------------------------------
(***************************************************************************)
(* ModMqtt::start (libmodmqttsrv/modmqtt.cpp): the first connection to the *)
(* broker, the main loop that waits for messages of the modbus threads,    *)
(* and the shutdown, with the library's callbacks, a modbus thread and a   *)
(* stop request in between.  notifyQueues and the waits hold gQueueMutex   *)
(* throughout and are one step each.                                       *)
(***************************************************************************)
EXTENDS MqttConnection

CONSTANTS
    MaxMessages   \* bound on the messages that arrive before the queue is empty again:
                  \* a modbus command takes longer than the processing of its message

ASSUME MainAssumption == MaxMessages \in Nat \ {0}

VARIABLES
    pc,              \* where start() is
    gSignalStatus,   \* -1, 0 for a stop request, or SIGTERM
    gHasMessages,
    fromModbus,      \* number of messages in mFromModbusQueue
    burst,           \* messages since that queue was found empty
    thread,          \* the modbus thread: running, notify, ended
    endSent,         \* EndWorkMessage has been sent
    asked,           \* history: there has been a stop request
    unsettled        \* history: shutdown() met a client that was being connected

notifyVars == <<gSignalStatus, gHasMessages>>
queueVars == <<fromModbus, burst>>

vars == <<connectionVars, notifyVars, queueVars, pc, thread, endSent, asked, unsettled>>

SIGTERM == 15

Init ==
    /\ ConnectionInit
    /\ pc = "start"
    /\ gSignalStatus = -1
    /\ gHasMessages = FALSE
    /\ fromModbus = 0 /\ burst = 0
    /\ thread = "running"
    /\ endSent = FALSE
    /\ asked = FALSE
    /\ unsettled = FALSE

Goto(from, to) ==
    /\ pc = from
    /\ pc' = to
    /\ UNCHANGED <<thread, asked>>

----------------------------------------------------------------------------
(***************************************************************************)
(* The first connection                                                    *)
(***************************************************************************)
Start_Reentered ==
    /\ Goto("start", "starting")
    /\ UNCHANGED <<connectionVars, notifyVars, queueVars, endSent, unsettled>>

\* start() returns at once when the client is connected
Start ==
    /\ Goto("start", IF IsConnected THEN "check" ELSE "starting")
    /\ UNCHANGED <<connectionVars, notifyVars, queueVars, endSent, unsettled>>

StartConnecting ==
    /\ Goto("starting", "connect")
    /\ Starting
    /\ UNCHANGED <<notifyVars, queueVars, endSent, unsettled>>

StartConnect ==
    /\ Goto("connect", "check")
    /\ Connect
    /\ UNCHANGED <<notifyVars, queueVars, endSent, unsettled>>

CheckConnected ==
    /\ Goto("check", IF IsConnected THEN "loop" ELSE "sleep")
    /\ UNCHANGED <<connectionVars, notifyVars, queueVars, endSent, unsettled>>

\* Five seconds, or less when something is notified
WaitForSignal ==
    /\ Goto("sleep", IF gSignalStatus = -1 THEN "start" ELSE "loop")
    /\ UNCHANGED <<connectionVars, notifyVars, queueVars, endSent, unsettled>>

----------------------------------------------------------------------------
(***************************************************************************)
(* The main loop                                                           *)
(***************************************************************************)
LoopTurn_NoPredicate ==
    /\ Goto("loop", IF mIsStarted /\ gSignalStatus = -1 THEN "wait" ELSE "stop")
    /\ gSignalStatus' = IF mIsStarted /\ gSignalStatus = SIGTERM THEN -1 ELSE gSignalStatus
    /\ gHasMessages' = FALSE
    /\ UNCHANGED <<connectionVars, queueVars, endSent, unsettled>>

LoopTurn ==
    /\ Goto("loop", IF mIsStarted /\ gSignalStatus = -1 THEN "wait" ELSE "stop")
    /\ gSignalStatus' = IF mIsStarted /\ gSignalStatus = SIGTERM THEN -1 ELSE gSignalStatus
    /\ UNCHANGED <<connectionVars, gHasMessages, queueVars, endSent, unsettled>>

WaitForQueues ==
    /\ Goto("wait", "process")
    /\ gHasMessages
    /\ gHasMessages' = FALSE
    /\ UNCHANGED <<connectionVars, gSignalStatus, queueVars, endSent, unsettled>>

\* processModbusMessages takes messages until the queue is empty.
TakeMessage ==
    /\ pc \in {"process", "drain"}
    /\ fromModbus > 0
    /\ fromModbus' = fromModbus - 1
    /\ UNCHANGED <<connectionVars, pc, notifyVars, burst, thread, endSent, asked, unsettled>>

MessagesTaken ==
    /\ Goto("process", "loop")
    /\ fromModbus = 0
    /\ burst' = 0
    /\ UNCHANGED <<connectionVars, notifyVars, fromModbus, endSent, unsettled>>

----------------------------------------------------------------------------
(***************************************************************************)
(* The shutdown                                                            *)
(***************************************************************************)

\* ModbusClient::stop sends EndWorkMessage and joins the thread.
StopClient ==
    /\ Goto("stop", "join")
    /\ endSent' = TRUE
    /\ UNCHANGED <<connectionVars, notifyVars, queueVars, unsettled>>

JoinThread_Detached ==
    /\ Goto("join", "drain")
    /\ UNCHANGED <<connectionVars, notifyVars, queueVars, endSent, unsettled>>

JoinThread ==
    /\ Goto("join", "drain")
    /\ thread = "ended"
    /\ UNCHANGED <<connectionVars, notifyVars, queueVars, endSent, unsettled>>

\* The rest of processModbusMessages; all networks are then published as down.
Drained ==
    /\ Goto("drain", "shutdown")
    /\ fromModbus = 0
    /\ UNCHANGED <<connectionVars, notifyVars, queueVars, endSent, unsettled>>

ShutdownClient ==
    /\ Goto("shutdown", IF IsConnected THEN "disconnect" ELSE "started")
    /\ Shutdown
    /\ unsettled' = (IsConnected /\ (link \in {"off", "trying"} \/ callback # "idle"))
    /\ UNCHANGED <<notifyVars, queueVars, endSent>>

DisconnectClient ==
    /\ Goto("disconnect", "started")
    /\ Disconnect
    /\ UNCHANGED <<notifyVars, queueVars, endSent, unsettled>>

CheckStarted ==
    /\ Goto("started", IF mIsStarted THEN "disconnecting" ELSE "finished")
    /\ UNCHANGED <<connectionVars, notifyVars, queueVars, endSent, unsettled>>

WaitForDisconnect ==
    /\ Goto("disconnecting", "finished")
    /\ gHasMessages
    /\ gHasMessages' = FALSE
    /\ UNCHANGED <<connectionVars, gSignalStatus, queueVars, endSent, unsettled>>

----------------------------------------------------------------------------
(***************************************************************************)
(* The other threads                                                       *)
(***************************************************************************)

\* sendMessageFromModbus enqueues a message ...
SendFromModbus ==
    /\ thread = "running"
    /\ burst < MaxMessages
    /\ fromModbus' = fromModbus + 1
    /\ burst' = burst + 1
    /\ thread' = "notify"
    /\ UNCHANGED <<connectionVars, pc, notifyVars, endSent, asked, unsettled>>

\* ... and calls notifyQueues.
NotifyFromModbus ==
    /\ thread = "notify"
    /\ thread' = "running"
    /\ gHasMessages' = TRUE
    /\ UNCHANGED <<connectionVars, pc, gSignalStatus, queueVars, endSent, asked, unsettled>>

ThreadEnds ==
    /\ thread = "running" /\ endSent
    /\ thread' = "ended"
    /\ UNCHANGED <<connectionVars, pc, notifyVars, queueVars, endSent, asked, unsettled>>

\* stop(), or signal_handler
RequestStop(signal) ==
    /\ ~asked
    /\ asked' = TRUE
    /\ gSignalStatus' = signal
    /\ gHasMessages' = TRUE
    /\ UNCHANGED <<connectionVars, pc, queueVars, thread, endSent, unsettled>>

Library ==
    /\ \/ LibraryStep /\ UNCHANGED gHasMessages
       \/ \E notify \in BOOLEAN :
             AfterDisconnect(notify) /\ gHasMessages' = (gHasMessages \/ notify)
    /\ UNCHANGED <<pc, gSignalStatus, queueVars, thread, endSent, asked, unsettled>>

BrokerFails ==
    /\ LinkLost
    /\ UNCHANGED <<pc, notifyVars, queueVars, thread, endSent, asked, unsettled>>

MainStep ==
    \/ Start \/ StartConnecting \/ StartConnect \/ CheckConnected \/ WaitForSignal
    \/ LoopTurn \/ WaitForQueues \/ TakeMessage \/ MessagesTaken
    \/ StopClient \/ JoinThread \/ Drained \/ ShutdownClient \/ DisconnectClient
    \/ CheckStarted \/ WaitForDisconnect

Next ==
    \/ MainStep
    \/ SendFromModbus \/ NotifyFromModbus \/ ThreadEnds
    \/ \E signal \in {0, SIGTERM} : RequestStop(signal)
    \/ Library \/ BrokerFails

Spec == Init /\ [][Next]_vars

\* Threads run, and the library goes on with its callbacks; it need not ever
\* establish a connection.
LiveSpec ==
    /\ Spec
    /\ WF_vars(MainStep)
    /\ WF_vars(NotifyFromModbus) /\ SF_vars(ThreadEnds)
    /\ WF_vars(Library /\ ~LinkEstablished)

----------------------------------------------------------------------------
(***************************************************************************)
(* Properties                                                              *)
(***************************************************************************)
Connecting == {"start", "starting", "connect", "check", "sleep"}

\* A connection that stands while start() sleeps is found by the next turn,
\* also when it came up while the previous turn was connecting: start(),
\* called every five seconds, does not undo it, and the main loop is entered.
EntersMainLoop ==
    pc = "sleep" /\ link = "up" /\ callback = "idle" ~> pc \notin Connecting

\* No wakeup is lost: a message of a modbus thread makes the main thread
\* look at the queue, whenever it arrives between two waits.
MessagesProcessed ==
    fromModbus > 0 /\ pc \notin Connecting ~> pc \in {"process", "drain", "finished"}

\* No message of a modbus thread is left when the networks are published as
\* down: none can make an object available again afterwards.
QueuesDrained ==
    pc \in {"shutdown", "disconnect", "started", "disconnecting", "finished"} => fromModbus = 0

\* After a stop request start() returns, unless shutdown() met a client in state
\* CONNECTED that the library was reconnecting, or one with a callback running:
\* onDisconnect is then not called, or finds the state that onConnect has set
\* again, and nobody notifies the main thread.
ShutdownEnds == asked ~> pc = "finished" \/ unsettled
=============================================================================
