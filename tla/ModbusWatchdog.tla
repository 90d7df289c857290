--------------------------- MODULE ModbusWatchdog ---------------------------
(***************************************************************************)
(* ModbusWatchdog (libmodmqttsrv/modbus_watchdog.cpp): it asks for a       *)
(* reconnect after a period without a successful command, or when the      *)
(* device file of a serial network is gone.  Times are kept as ages that   *)
(* stop one above the longest period they are compared with.               *)
(***************************************************************************)
EXTENDS Integers, FiniteSetsExt

CONSTANTS
    HasDevicePath,       \* mDevicePath is not empty
    AutoWatchPeriod,     \* mAutoWatchPeriod
    WatchPeriod,         \* mWatchPeriod of the configuration
    DeviceCheckPeriod,   \* sDeviceCheckPeriod
    MaxWatchPeriod       \* bound on mWatchPeriod

ASSUME WatchdogAssumption ==
    /\ HasDevicePath \in BOOLEAN /\ AutoWatchPeriod \in BOOLEAN
    /\ WatchPeriod \in Nat /\ DeviceCheckPeriod \in Nat
    /\ MaxWatchPeriod \in Nat /\ WatchPeriod <= MaxWatchPeriod

VARIABLES
    mWatchPeriod,
    sinceOk,             \* getCurrentErrorPeriod()
    sinceCheck,          \* now() - mLastDeviceCheckTime
    mLastCommandOk,
    mDeviceRemoved,
    devicePresent        \* external: the device file exists

watchdogVars == <<mWatchPeriod, sinceOk, sinceCheck, mLastCommandOk, mDeviceRemoved, devicePresent>>

WatchdogInit ==
    /\ mWatchPeriod = WatchPeriod
    /\ sinceOk = 0
    /\ sinceCheck = DeviceCheckPeriod + 1
    /\ mLastCommandOk = TRUE
    /\ mDeviceRemoved = FALSE
    /\ devicePresent = TRUE

Reset ==
    /\ sinceOk' = 0
    /\ mDeviceRemoved' = FALSE
    /\ mLastCommandOk' = TRUE
    /\ UNCHANGED <<mWatchPeriod, sinceCheck, devicePresent>>

\* The device is looked for at the first error and then from time to time.
ChecksDevice ==
    /\ HasDevicePath
    /\ ~mDeviceRemoved
    /\ mLastCommandOk \/ sinceCheck > DeviceCheckPeriod

CommandFailed ==
    /\ mLastCommandOk' = FALSE
    /\ IF ChecksDevice
       THEN mDeviceRemoved' = ~devicePresent /\ sinceCheck' = 0
       ELSE UNCHANGED <<mDeviceRemoved, sinceCheck>>
    /\ UNCHANGED <<mWatchPeriod, sinceOk, devicePresent>>

InspectCommand_ErrorsOnly(ok) ==
    IF ok THEN mLastCommandOk' = TRUE /\ UNCHANGED <<mWatchPeriod, sinceOk, sinceCheck, mDeviceRemoved, devicePresent>>
          ELSE CommandFailed

InspectCommand(ok) == IF ok THEN Reset ELSE CommandFailed

IsReconnectRequired_DeviceOnly == mDeviceRemoved

IsReconnectRequired == mDeviceRemoved \/ sinceOk > mWatchPeriod

AdjustWatchPeriod_Sum(minPollTime, forever) ==
    /\ mWatchPeriod' = IF AutoWatchPeriod /\ minPollTime # forever
                       THEN mWatchPeriod + 2 * minPollTime ELSE mWatchPeriod
    /\ UNCHANGED <<sinceOk, sinceCheck, mLastCommandOk, mDeviceRemoved, devicePresent>>

\* end of ModbusThread::setPollSpecification.  Without polled registers the
\* doubled duration::max() wraps to a negative period, which is not longer.
AdjustWatchPeriod(minPollTime, forever) ==
    /\ mWatchPeriod' = IF AutoWatchPeriod /\ minPollTime # forever
                       THEN Max({mWatchPeriod, 2 * minPollTime}) ELSE mWatchPeriod
    /\ UNCHANGED <<sinceOk, sinceCheck, mLastCommandOk, mDeviceRemoved, devicePresent>>

WatchdogTick ==
    /\ sinceOk' = Min({sinceOk + 1, MaxWatchPeriod + 1})
    /\ sinceCheck' = Min({sinceCheck + 1, DeviceCheckPeriod + 1})
    /\ UNCHANGED <<mWatchPeriod, mLastCommandOk, mDeviceRemoved, devicePresent>>

\* external: the device is unplugged or plugged in
DeviceChanges ==
    /\ HasDevicePath
    /\ devicePresent' = ~devicePresent
    /\ UNCHANGED <<mWatchPeriod, sinceOk, sinceCheck, mLastCommandOk, mDeviceRemoved>>
=============================================================================
