----------------------------- MODULE MqttObject -----------------------------
(***************************************************************************)
(* The MQTT objects of the gateway (libmodmqttsrv/mqttobject.cpp).  An     *)
(* object has a state topic and an availability topic.  Its data nodes are *)
(* a tree; only the leaves, one modbus register each, have state.          *)
(***************************************************************************)
EXTENDS PolledRegisters

CONSTANTS
    Objects,
    StateNodes,     \* leaves of mState
    AvailNodes,     \* leaves of mAvailability
    ObjectOf,       \* the object a leaf belongs to
    Unit,           \* MqttObjectRegisterIdent of a leaf: slave and type ...
    Register,       \* ... and number
    AvailableWhen   \* the values of the availability leaves that convert to mAvailableValue

Nodes == StateNodes \cup AvailNodes

NodesOf(o) == {n \in Nodes : ObjectOf[n] = o}
StateNodesOf(o) == {n \in StateNodes : ObjectOf[n] = o}
AvailNodesOf(o) == {n \in AvailNodes : ObjectOf[n] = o}

\* AvailableFlag
NotSet == "NotSet"
False == "False"
True == "True"
Flags == {NotSet, False, True}

ASSUME ObjectAssumption ==
    /\ StateNodes \cap AvailNodes = {}
    /\ ObjectOf \in [Nodes -> Objects]
    /\ \A o \in Objects : StateNodesOf(o) # {}
    /\ Register \in [Nodes -> Nat]

VARIABLES
    mHasValue,     \* of a leaf
    mValue,        \* of a leaf
    mReadOk,       \* of a leaf
    mIsAvailable   \* of an object

objectVars == <<mHasValue, mValue, mReadOk, mIsAvailable>>

ObjectInit ==
    /\ mHasValue = [n \in Nodes |-> FALSE]
    /\ mValue = [n \in Nodes |-> 0]
    /\ mReadOk = [n \in Nodes |-> TRUE]
    /\ mIsAvailable = [o \in Objects |-> NotSet]

InRange(n, r) == Unit[n] = r.unit /\ Register[n] \in Registers(r)

HasRegisterIn(o, r) == \E n \in NodesOf(o) : InRange(n, r)

\* The leaves that updateRegistersReadFailed finds in a range: the distance to
\* its first register, in either direction, is less than its length.
FailsWith(n, r) ==
    /\ Unit[n] = r.unit
    /\ Register[n] - r.first < r.count /\ r.first - Register[n] < r.count

SaysAvailable(o) == [n \in AvailNodesOf(o) |-> mValue[n]] \in AvailableWhen[o]

\* Mutant: availability registers that cannot be read are ignored.
ComputedFlag_StateOnly(o) ==
    IF \E n \in StateNodesOf(o) : ~mReadOk[n] THEN False
    ELSE IF \E n \in NodesOf(o) : ~mHasValue[n] THEN NotSet
    ELSE IF AvailNodesOf(o) = {} \/ SaysAvailable(o) THEN True ELSE False

\* updateAvailablityFlag, with getAvailableFlag of the availability nodes
ComputedFlag(o) ==
    IF \E n \in NodesOf(o) : ~mReadOk[n] THEN False
    ELSE IF \E n \in NodesOf(o) : ~mHasValue[n] THEN NotSet
    ELSE IF AvailNodesOf(o) = {} \/ SaysAvailable(o) THEN True ELSE False

\* Mutant: the flag is computed again only when a value has changed.
FlagUpdates_ChangedOnly(o, changed) == changed

\* An update that changes no value matters only to an object that is not available.
FlagUpdates(o, changed) == changed \/ mIsAvailable[o] = False

\* The values of range r, a function of register numbers, reach the objects in affected.
UpdateRegisterValues(affected, r, values) ==
    LET hit == {n \in Nodes : ObjectOf[n] \in affected /\ InRange(n, r)}
        changed(o) == \E n \in hit \cap NodesOf(o) : ~mHasValue[n] \/ mValue[n] # values[Register[n]]
    IN  /\ mHasValue' = [n \in Nodes |-> mHasValue[n] \/ n \in hit]
        /\ mValue' = [n \in Nodes |-> IF n \in hit THEN values[Register[n]] ELSE mValue[n]]
        /\ mReadOk' = [n \in Nodes |-> mReadOk[n] \/ n \in hit]
        /\ mIsAvailable' = [o \in Objects |-> IF o \in affected /\ FlagUpdates(o, changed(o))
                                              THEN ComputedFlag(o)'
                                              ELSE mIsAvailable[o]]

\* The leaves in hit cannot be read; objects with such a leaf compute their flag again.
MarkFailed(hit) ==
    /\ mReadOk' = [n \in Nodes |-> mReadOk[n] /\ n \notin hit]
    /\ UNCHANGED <<mHasValue, mValue>>
    /\ mIsAvailable' = [o \in Objects |-> IF NodesOf(o) \cap hit # {}
                                          THEN ComputedFlag(o)'
                                          ELSE mIsAvailable[o]]

UpdateRegistersReadFailed(affected, r) ==
    MarkFailed({n \in Nodes : ObjectOf[n] \in affected /\ FailsWith(n, r)})

\* setModbusNetworkState(down): all registers are on the one modelled network.
\* Leaves already marked do not count as a change.
SetModbusNetworkDown == MarkFailed({n \in Nodes : mReadOk[n]})

ObjectTypeOK ==
    /\ mHasValue \in [Nodes -> BOOLEAN]
    /\ mValue \in [Nodes -> Values]
    /\ mReadOk \in [Nodes -> BOOLEAN]
    /\ mIsAvailable \in [Objects -> Flags]

\* The cached flag of an object is what updateAvailablityFlag would compute now,
\* although the update methods of MqttObject call it only after some changes.
FlagCurrent == \A o \in Objects : mIsAvailable[o] = ComputedFlag(o)
=============================================================================
