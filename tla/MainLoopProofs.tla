--------------------------- MODULE MainLoopProofs ---------------------------
(***************************************************************************)
(* The shutdown processes every message of the modbus thread before it     *)
(* publishes the networks as down, for any number of messages.             *)
(***************************************************************************)
EXTENDS MainLoop, TLAPS

AfterDrain == {"shutdown", "disconnect", "started", "disconnecting", "finished"}

\* The thread has ended once it is joined, and no message can follow.
IInv ==
    /\ fromModbus \in Nat
    /\ pc \in AfterDrain \cup {"drain"} => thread = "ended"
    /\ pc \in AfterDrain => fromModbus = 0

\* Every step of the main loop keeps the invariant.
LEMMA StepPreserves == IInv /\ [Next]_vars => IInv'
<1> SUFFICES ASSUME IInv, [Next]_vars PROVE IInv'
  OBVIOUS
<1> USE DEF IInv, AfterDrain, Goto
<1>1. CASE Start \/ StartConnecting \/ StartConnect \/ CheckConnected \/ WaitForSignal
  BY <1>1 DEF Start, StartConnecting, StartConnect, CheckConnected, WaitForSignal, queueVars
<1>2. CASE LoopTurn \/ WaitForQueues \/ MessagesTaken
  BY <1>2 DEF LoopTurn, WaitForQueues, MessagesTaken, queueVars
<1>3. CASE TakeMessage
  BY <1>3 DEF TakeMessage
<1>4. CASE StopClient \/ JoinThread
  BY <1>4 DEF StopClient, JoinThread, queueVars
<1>5. CASE Drained
  BY <1>5 DEF Drained, queueVars
<1>6. CASE ShutdownClient \/ DisconnectClient \/ CheckStarted \/ WaitForDisconnect
  BY <1>6 DEF ShutdownClient, DisconnectClient, CheckStarted, WaitForDisconnect, queueVars
<1>7. CASE SendFromModbus
  BY <1>7 DEF SendFromModbus
<1>8. CASE NotifyFromModbus \/ ThreadEnds
  BY <1>8 DEF NotifyFromModbus, ThreadEnds, queueVars
<1>9. CASE (\E signal \in {0, SIGTERM} : RequestStop(signal)) \/ Library \/ BrokerFails
  BY <1>9 DEF RequestStop, Library, BrokerFails, queueVars
<1>10. CASE UNCHANGED vars
  BY <1>10 DEF vars, queueVars
<1> QED
  BY <1>1, <1>2, <1>3, <1>4, <1>5, <1>6, <1>7, <1>8, <1>9, <1>10 DEF Next, MainStep

\* When ModMqtt::start publishes the networks as down, ModbusClient::stop has
\* joined the modbus thread and processModbusMessages has taken all it sent.
THEOREM QueuesAlwaysDrained == Spec => []QueuesDrained
<1>1. Init => IInv
  BY DEF Init, IInv, AfterDrain
<1>2. IInv => QueuesDrained
  BY DEF IInv, AfterDrain, QueuesDrained
<1> QED
  BY <1>1, <1>2, StepPreserves, PTL DEF Spec
=============================================================================
