--------------------------- MODULE MqttConnection ---------------------------
(***************************************************************************)
(* The connection of MqttClient to the broker (libmodmqttsrv/              *)
(* mqttclient.cpp) over the mosquitto library (libmodmqttsrv/mosquitto.cpp *)
(* and external).  The library calls onConnect and onDisconnect in its own *)
(* thread, one at a time, while the main thread calls start and shutdown.  *)
(* mConnectionState and mIsStarted are read and written by both threads    *)
(* without a lock.                                                         *)
(***************************************************************************)
EXTENDS Integers

VARIABLES
    mConnectionState,   \* DISCONNECTED, CONNECTING, CONNECTED or DISCONNECTING
    mIsStarted,
    mModbusClients,     \* the client still knows the modbus clients
    told,               \* the broker state sent to the modbus threads last
    callback,           \* where the library's thread is
    link                \* of the library: off, trying, up, or closed and not reported yet

connectionVars == <<mConnectionState, mIsStarted, mModbusClients, told, callback, link>>

ConnectionInit ==
    /\ mConnectionState = "DISCONNECTED"
    /\ mIsStarted = FALSE
    /\ mModbusClients = TRUE
    /\ told = "nothing"
    /\ callback = "idle"
    /\ link = "off"

IsConnected == mConnectionState = "CONNECTED"

----------------------------------------------------------------------------
(***************************************************************************)
(* Called by the main thread                                               *)
(***************************************************************************)

\* connect_async drops a connection that exists, without a callback.
Connect ==
    /\ link' = "trying"
    /\ UNCHANGED <<mConnectionState, mIsStarted, mModbusClients, told, callback>>

\* the assignments of start(); Connect follows
Starting ==
    /\ mIsStarted' = TRUE
    /\ mConnectionState' = "CONNECTING"
    /\ UNCHANGED <<mModbusClients, told, callback, link>>

\* shutdown() up to mMqttImpl->disconnect()
Shutdown ==
    /\ mModbusClients' = FALSE
    /\ mConnectionState' = IF IsConnected THEN "DISCONNECTING" ELSE mConnectionState
    /\ mIsStarted' = (mIsStarted /\ mConnectionState \in {"CONNECTED", "DISCONNECTING"})
    /\ UNCHANGED <<told, callback, link>>

\* A link that is up is closed, one that is being established is given up.
Disconnect ==
    /\ link' = CASE link = "up" -> "closed"
                 [] link = "trying" -> "off"
                 [] OTHER -> link
    /\ UNCHANGED <<mConnectionState, mIsStarted, mModbusClients, told, callback>>

----------------------------------------------------------------------------
(***************************************************************************)
(* The library's thread                                                    *)
(***************************************************************************)
Tell(state) == told' = IF mModbusClients THEN state ELSE told

LinkEstablished ==
    /\ callback = "idle" /\ link = "trying"
    /\ link' = "up"
    /\ callback' = "onConnect"
    /\ UNCHANGED <<mConnectionState, mIsStarted, mModbusClients, told>>

\* onConnect: the subscriptions have been sent
SetConnected ==
    /\ callback = "onConnect"
    /\ callback' = "publishAll"
    /\ mConnectionState' = "CONNECTED"
    /\ UNCHANGED <<mIsStarted, mModbusClients, told, link>>

\* onConnect after publishAll
AnnounceUp ==
    /\ callback = "publishAll"
    /\ callback' = "idle"
    /\ Tell("up")
    /\ UNCHANGED <<mConnectionState, mIsStarted, mModbusClients, link>>

LinkLost ==
    /\ link = "up"
    /\ link' = "closed"
    /\ UNCHANGED <<mConnectionState, mIsStarted, mModbusClients, told, callback>>

\* the first part of onDisconnect
AnnounceDown ==
    /\ callback = "idle" /\ link = "closed"
    /\ callback' = "onDisconnect"
    /\ link' = "off"
    /\ Tell("down")
    /\ UNCHANGED <<mConnectionState, mIsStarted, mModbusClients>>

\* ... and the second; notify says whether it calls notifyQueues.
AfterDisconnect_Silent(notify) ==
    /\ callback = "onDisconnect"
    /\ callback' = "idle"
    /\ notify = FALSE
    /\ IF mConnectionState = "DISCONNECTING"
       THEN mConnectionState' = "DISCONNECTED" /\ mIsStarted' = FALSE /\ UNCHANGED link
       ELSE /\ link' = IF mConnectionState = "DISCONNECTED" THEN link ELSE "trying"
            /\ UNCHANGED <<mConnectionState, mIsStarted>>
    /\ UNCHANGED <<mModbusClients, told>>

AfterDisconnect(notify) ==
    /\ callback = "onDisconnect"
    /\ callback' = "idle"
    /\ notify = (mConnectionState = "DISCONNECTING")
    /\ IF notify
       THEN mConnectionState' = "DISCONNECTED" /\ mIsStarted' = FALSE /\ UNCHANGED link
       ELSE /\ link' = IF mConnectionState = "DISCONNECTED" THEN link ELSE "trying"
            /\ UNCHANGED <<mConnectionState, mIsStarted>>
    /\ UNCHANGED <<mModbusClients, told>>

\* what the library's thread does without notifyQueues
LibraryStep == LinkEstablished \/ SetConnected \/ AnnounceUp \/ AnnounceDown
=============================================================================
