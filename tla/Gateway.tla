------------------------------ MODULE Gateway -------------------------------
(***************************************************************************)
(* The way of register values from a modbus network to the broker: the     *)
(* modbus thread polls, writes and reads for RPC; the main thread takes    *)
(* its messages from the queue and updates the MQTT objects                *)
(* (ModMqtt::processModbusMessages); the client publishes.  The link to    *)
(* the broker and the connection to the network come and go.               *)
(*                                                                         *)
(* The thread may poll a register at any time that its initial poll does   *)
(* not forbid; module ModbusExecutor is about the order.                   *)
(***************************************************************************)
EXTENDS MqttClient, RegisterPolling

CONSTANTS
    Commands,   \* the ranges that MQTT commands write
    Requests    \* the ranges that RPC requests read or write

ASSUME RangeAssumption ==
    \A r \in Commands \cup Requests : r.first \in Nat /\ r.count \in Nat \ {0}

VARIABLES
    mConnected,     \* mModbus->isConnected()
    mInitialPoll,   \* isInitialPollInProgress()
    toPoll          \* polls of the initial poll that are still queued

(***************************************************************************)
(* History.  pollRegisters compares what it reads with what it has sent    *)
(* itself; these are the polls whose leaves have heard something else      *)
(* since.  The next message of a poll corrects its leaves.                 *)
(***************************************************************************)
VARIABLES
    silenced,       \* marked failed, and a good read is no reason to send a message
    overlaid,       \* values of a command or request have replaced those that were read
    rescued         \* values of a command or request have come after the failure

threadVars == <<mConnected, mInitialPoll, toPoll>>

history == <<silenced, overlaid, rescued>>

vars == <<objectVars, clientVars, pollVars, fromModbus, threadVars, history>>

\* setPollSpecification has started the initial poll; the network is not connected yet.
Init ==
    /\ ObjectInit
    /\ ClientInit
    /\ PollInit
    /\ mConnected = FALSE
    /\ mInitialPoll = TRUE
    /\ toPoll = Groups
    /\ silenced = {} /\ overlaid = {} /\ rescued = {}

\* The values that can be read from range r
Contents(r) == [Registers(r) -> Values]

\* The objects that processRegisterValues updates with a message.
Affected(m) ==
    IF m.source = "command" THEN CommandObjects(m.range) ELSE ObjectsAt(m.range)

\* The polls with leaves that get values, or are marked failed, with message m
Reached(m) ==
    LET hit == IF m.type = "values"
               THEN {n \in Nodes : ObjectOf[n] \in Affected(m) /\ InRange(n, m.range)}
               ELSE {n \in Nodes : ObjectOf[n] \in ObjectsAt(m.range) /\ FailsWith(n, m.range)}
    IN  {g \in Groups : \E n \in hit : InRange(n, g)}

Corrects(g) ==
    silenced' = silenced \ {g} /\ overlaid' = overlaid \ {g} /\ rescued' = rescued \ {g}

Overlays(m) ==
    /\ overlaid' = overlaid \cup Reached(m)
    /\ rescued' = rescued \cup Reached(m)
    /\ UNCHANGED silenced

Silences(polls) == silenced' = silenced \cup polls /\ UNCHANGED <<overlaid, rescued>>

----------------------------------------------------------------------------
(***************************************************************************)
(* The modbus thread                                                       *)
(***************************************************************************)

\* getRegistersToPoll leaves out a register of mode ONCE that has been read.
Polled(g) ==
    IF mInitialPoll THEN g \in toPoll ELSE ~(PollMode[g] = "ONCE" /\ mLastReadOk[g])

\* Mutant: the initial poll never ends.
LeavesInitialPoll_Endless(g) == toPoll' = toPoll \ {g} /\ UNCHANGED mInitialPoll

\* The poll g leaves the initial poll, which ends with its last poll.
LeavesInitialPoll(g) ==
    /\ toPoll' = toPoll \ {g}
    /\ mInitialPoll' = (mInitialPoll /\ toPoll' # {})

PollSucceeds(g, values) ==
    /\ mConnected /\ Polled(g)
    /\ PollOk(g, values, mInitialPoll)
    /\ LeavesInitialPoll(g)
    /\ IF ValuesSent(g, values, mInitialPoll) THEN Corrects(g) ELSE UNCHANGED history
    /\ UNCHANGED <<objectVars, clientVars, mConnected>>

\* A failed poll is tried again or given up.  After a count that starts anew,
\* and for a neighbour that is marked with it, a good read changes nothing.
PollFails(g, long, retry) ==
    /\ mConnected /\ Polled(g)
    /\ PollFailed(g, long)
    /\ IF retry THEN UNCHANGED <<toPoll, mInitialPoll>> ELSE LeavesInitialPoll(g)
    /\ IF mReadErrors'[g] > DefaultReadErrorCount
       THEN silenced' = silenced \cup (Reached(FailedMsg(g)) \ {g}) /\ rescued' = rescued \ {g}
       ELSE silenced' = silenced \cup {h \in {g} : mReadErrors'[h] = 0} /\ UNCHANGED rescued
    /\ UNCHANGED <<objectVars, clientVars, mConnected, overlaid>>

Write(r, values, ok) ==
    /\ mConnected
    /\ WriteRegisters(r, values, ok)
    /\ IF ok THEN Overlays(ValuesMsg(r, values, "command")) ELSE Silences(Reached(FailedMsg(r)))
    /\ UNCHANGED <<objectVars, clientVars, threadVars>>

Rpc(r, values) ==
    /\ mConnected
    /\ RpcRegisters(r, values)
    /\ Overlays(ValuesMsg(r, values, "rpc"))
    /\ UNCHANGED <<objectVars, clientVars, threadVars>>

\* After a connect everything is read again, unless an initial poll is in progress.
RefreshAfterConnect ==
    IF mInitialPoll
    THEN UNCHANGED <<mInitialPoll, toPoll>>
    ELSE mInitialPoll' = TRUE /\ toPoll' = Groups

Connect(ok) ==
    /\ ~mConnected
    /\ mConnected' = ok
    /\ SendMessage(NetworkMsg(ok))
    /\ IF ok THEN RefreshAfterConnect ELSE UNCHANGED <<mInitialPoll, toPoll>>
    /\ UNCHANGED <<objectVars, clientVars, pollVars, history>>

\* The watchdog asks for a reconnect.  The initial poll, if one is in progress,
\* goes on after it with the polls that are left.
Disconnect ==
    /\ mConnected
    /\ mConnected' = FALSE
    /\ SendMessage(NetworkMsg(FALSE))
    /\ fresh' = {}
    /\ Silences(IF mInitialPoll THEN Groups \ toPoll ELSE {})
    /\ UNCHANGED <<objectVars, clientVars, mLastValues, mReadErrors, mLastReadOk, lastRead,
                   mInitialPoll, toPoll>>

----------------------------------------------------------------------------
(***************************************************************************)
(* The main thread and the client's callbacks                              *)
(***************************************************************************)

\* One turn of the loop in processModbusMessages; due: see NeedStateRepublish.
ProcessMessage(due) ==
    /\ fromModbus # <<>>
    /\ LET m == Head(fromModbus)
       IN  \/ m.type = "values" /\ ProcessRegisterValues(Affected(m), m.range, m.values, due)
           \/ m.type = "failed" /\ ProcessRegistersOperationFailed(m.range)
           \/ m.type = "network" /\ ProcessModbusNetworkState(m.up)
    /\ fromModbus' = Tail(fromModbus)
    /\ UNCHANGED <<pollVars, threadVars, history>>

LoseLink(restart) ==
    LinkLost(restart) /\ UNCHANGED <<pollVars, fromModbus, threadVars, history>>

GainLink == OnConnect /\ UNCHANGED <<pollVars, fromModbus, threadVars, history>>

Next ==
    \/ \E g \in Groups : \E values \in Contents(g) : PollSucceeds(g, values)
    \/ \E g \in Groups, long, retry \in BOOLEAN : PollFails(g, long, retry)
    \/ \E r \in Commands, ok \in BOOLEAN : \E values \in Contents(r) : Write(r, values, ok)
    \/ \E r \in Requests : \E values \in Contents(r) : Rpc(r, values)
    \/ \E ok \in BOOLEAN : Connect(ok)
    \/ Disconnect
    \/ \E due \in SUBSET {o \in Objects : PublishMode[o] = "EVERY_POLL"} : ProcessMessage(due)
    \/ \E restart \in BOOLEAN : LoseLink(restart)
    \/ GainLink

Spec == Init /\ [][Next]_vars

----------------------------------------------------------------------------
(***************************************************************************)
(* Properties.  See also FlagCurrent, AvailabilityPublished and            *)
(* StatePublished in the modules this one extends.                         *)
(***************************************************************************)

\* Types.  A message carries a value for each register of its range.
TypeOK ==
    /\ ClientTypeOK
    /\ mLastValues \in [Groups -> UNION {Contents(g) : g \in Groups}]
    /\ mReadErrors \in [Groups -> 0 .. MaxReadErrors]
    /\ mLastReadOk \in [Groups -> BOOLEAN]
    /\ mConnected \in BOOLEAN /\ mInitialPoll \in BOOLEAN /\ toPoll \subseteq Groups
    /\ mInitialPoll <=> toPoll # {}
    /\ \A i \in DOMAIN fromModbus :
          fromModbus[i].type = "values" => fromModbus[i].values \in Contents(fromModbus[i].range)

GroupsOf(o) == {g \in Groups : HasRegisterIn(o, g)}

\* What the registers of o that were read last say about its availability
ReadFlag(o) ==
    LET read(n) == (CHOOSE g \in Groups : InRange(n, g))
    IN  IF \/ AvailNodesOf(o) = {}
           \/ [n \in AvailNodesOf(o) |-> lastRead[read(n)][Register[n]]] \in AvailableWhen[o]
        THEN True ELSE False

\* "If all data required for a state is read from the Modbus registers without
\* errors, the value 1 is published", also after failures and reconnects: when
\* the main thread has processed the queue and the last read of every register
\* of an object was good, its flag is what they say, although pollRegisters
\* sends nothing for a register that is unchanged; unless one of them was
\* silenced, or an availability register overlaid, and has sent nothing since.
AvailableAfterReads ==
    fromModbus = <<>> => \A o \in Objects :
        /\ GroupsOf(o) \subseteq fresh \ silenced
        /\ \A g \in overlaid, n \in AvailNodesOf(o) : ~InRange(n, g)
        => mIsAvailable[o] = ReadFlag(o)

\* "If there is a network or device error when polling register data value 0 is
\* published": an object with a register that has failed more than
\* DefaultReadErrorCount times is unavailable once the queue is processed, if
\* no command or request has brought values for the register after that.
UnavailableAfterErrors ==
    fromModbus = <<>> => \A o \in Objects :
        (\E g \in GroupsOf(o) : mReadErrors[g] > DefaultReadErrorCount /\ g \notin rescued)
            => mIsAvailable[o] = False

\* The objects hold the values that were read last, although pollRegisters
\* sends only values that differ from those it sent before, unless a command
\* or request has brought others and the poll has sent nothing since.
ValuesFollowReads ==
    fromModbus = <<>> => \A g \in Groups, n \in Nodes :
        InRange(n, g) /\ lastRead[g] # NeverRead /\ g \notin overlaid
            => mValue[n] = lastRead[g][Register[n]]
=============================================================================
