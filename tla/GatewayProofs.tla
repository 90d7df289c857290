---------------------------- MODULE GatewayProofs ----------------------------
(***************************************************************************)
(* What the broker retains agrees with the objects, for any objects,       *)
(* registers, poll groups, commands and converters.                        *)
(***************************************************************************)
EXTENDS Gateway, TLAPS

\* Objects whose state is kept at the broker all the time
Kept(o) == Retain[o] /\ PublishMode[o] # "ONCE"

\* The payload remembered for an available object is its current one, also while
\* the link is down: publishState compares with it to decide what to send.
Remembered ==
    \A o \in Objects :
        Kept(o) /\ mIsAvailable[o] = True => mLastPublishedPayload[o] = Payload(o)

LeavesTyped ==
    /\ mHasValue \in [Nodes -> BOOLEAN]
    /\ mReadOk \in [Nodes -> BOOLEAN]

IInv ==
    /\ LeavesTyped
    /\ FlagCurrent
    /\ AvailabilityPublished
    /\ Remembered
    /\ StatePublished

----------------------------------------------------------------------------
\* The leaves of one object determine its flag and its payload.
LEMMA SameLeaves ==
    ASSUME NEW o \in Objects,
           \A n \in NodesOf(o) : /\ mReadOk'[n] <=> mReadOk[n]
                                 /\ mHasValue'[n] <=> mHasValue[n]
                                 /\ mValue'[n] = mValue[n]
    PROVE  ComputedFlag(o)' = ComputedFlag(o) /\ Payload(o)' = Payload(o)
<1>1. AvailNodesOf(o) \subseteq NodesOf(o) /\ StateNodesOf(o) \subseteq NodesOf(o)
    BY DEF AvailNodesOf, StateNodesOf, NodesOf, Nodes
<1>2. [n \in AvailNodesOf(o) |-> mValue'[n]] = [n \in AvailNodesOf(o) |-> mValue[n]]
    BY <1>1
<1>3. [n \in StateNodesOf(o) |-> mValue'[n]] = [n \in StateNodesOf(o) |-> mValue[n]]
    BY <1>1
<1>4. SaysAvailable(o)' <=> SaysAvailable(o)
    BY <1>2 DEF SaysAvailable
<1>5. Payload(o)' = Payload(o)
    BY <1>3 DEF Payload
<1>6. /\ (\E n \in NodesOf(o) : ~mReadOk'[n]) <=> (\E n \in NodesOf(o) : ~mReadOk[n])
      /\ (\E n \in NodesOf(o) : ~mHasValue'[n]) <=> (\E n \in NodesOf(o) : ~mHasValue[n])
    OBVIOUS
<1>7. ComputedFlag(o)' = ComputedFlag(o)
    BY <1>4, <1>6 DEF ComputedFlag
<1> QED
    BY <1>5, <1>7

\* The flag of an object with a leaf that cannot be read is False.
LEMMA FailedLeaf ==
    ASSUME NEW o \in Objects, NEW n \in NodesOf(o), ~mReadOk[n]
    PROVE  ComputedFlag(o) = False
BY DEF ComputedFlag

\* updateRegisterValues keeps the flag current; objects not affected keep
\* their flag and payload.
LEMMA UpdateValuesStep ==
    ASSUME LeavesTyped, FlagCurrent, NEW affected \in SUBSET Objects, NEW r, NEW values,
           UpdateRegisterValues(affected, r, values)
    PROVE  /\ LeavesTyped'
           /\ FlagCurrent'
           /\ \A o \in Objects \ affected :
                 mIsAvailable'[o] = mIsAvailable[o] /\ Payload(o)' = Payload(o)
<1> DEFINE hit == {n \in Nodes : ObjectOf[n] \in affected /\ InRange(n, r)}
           changed(o) == \E n \in hit \cap NodesOf(o) :
                            ~mHasValue[n] \/ mValue[n] # values[Register[n]]
<1>1. /\ mHasValue' = [n \in Nodes |-> mHasValue[n] \/ n \in hit]
      /\ mValue' = [n \in Nodes |-> IF n \in hit THEN values[Register[n]] ELSE mValue[n]]
      /\ mReadOk' = [n \in Nodes |-> mReadOk[n] \/ n \in hit]
      /\ mIsAvailable' = [o \in Objects |-> IF o \in affected /\ FlagUpdates(o, changed(o))
                                            THEN ComputedFlag(o)'
                                            ELSE mIsAvailable[o]]
    BY DEF UpdateRegisterValues
<1>2. LeavesTyped'
    BY <1>1 DEF LeavesTyped
<1>3. ASSUME NEW o \in Objects \ affected
      PROVE  /\ mIsAvailable'[o] = mIsAvailable[o]
             /\ ComputedFlag(o)' = ComputedFlag(o) /\ Payload(o)' = Payload(o)
  <2>1. \A n \in NodesOf(o) : n \in Nodes /\ n \notin hit
      BY <1>3 DEF NodesOf
  <2>2. \A n \in NodesOf(o) : /\ mReadOk'[n] <=> mReadOk[n]
                              /\ mHasValue'[n] <=> mHasValue[n]
                              /\ mValue'[n] = mValue[n]
      BY <1>1, <2>1, Zenon
  <2> QED
      BY <1>1, <1>3, <2>2, SameLeaves
<1>4. ASSUME NEW o \in affected, ~FlagUpdates(o, changed(o))
      PROVE  mIsAvailable'[o] = mIsAvailable[o] /\ ComputedFlag(o)' = ComputedFlag(o)
  <2>1. ~changed(o) /\ mIsAvailable[o] # False
      BY <1>4 DEF FlagUpdates
  <2>2. \A n \in NodesOf(o) : n \in Nodes /\ mReadOk[n]
      BY <2>1, FailedLeaf DEF FlagCurrent, NodesOf
  <2>3. \A n \in NodesOf(o) : n \in hit => mHasValue[n] /\ mValue[n] = values[Register[n]]
      BY <2>1
  <2>4. \A n \in NodesOf(o) : /\ mReadOk'[n] <=> mReadOk[n]
                              /\ mHasValue'[n] <=> mHasValue[n]
                              /\ mValue'[n] = mValue[n]
      BY <1>1, <2>2, <2>3, Zenon
  <2> QED
      BY <1>1, <1>4, <2>4, SameLeaves, Zenon
<1>5. FlagCurrent'
  <2> SUFFICES ASSUME NEW o \in Objects PROVE mIsAvailable'[o] = ComputedFlag(o)'
      BY DEF FlagCurrent
  <2>1. CASE o \in affected /\ FlagUpdates(o, changed(o))
      BY <1>1, <2>1
  <2>2. CASE o \in affected /\ ~FlagUpdates(o, changed(o))
      BY <1>4, <2>2, Zenon DEF FlagCurrent
  <2>3. CASE o \notin affected
      BY <1>3, <2>3 DEF FlagCurrent
  <2> QED
      BY <2>1, <2>2, <2>3, Zenon
<1> QED
    BY <1>2, <1>3, <1>5

\* Marking leaves as failed keeps the flag current and every payload; a flag
\* changes only for an object with a leaf that is marked, and then to False.
LEMMA MarkFailedStep ==
    ASSUME LeavesTyped, FlagCurrent, NEW hit \in SUBSET Nodes, MarkFailed(hit)
    PROVE  /\ LeavesTyped'
           /\ FlagCurrent'
           /\ \A o \in Objects :
                 /\ Payload(o)' = Payload(o)
                 /\ mIsAvailable'[o] = True => mIsAvailable[o] = True
                 /\ mIsAvailable'[o] # mIsAvailable[o] => NodesOf(o) \cap hit # {}
<1>1. /\ mReadOk' = [n \in Nodes |-> mReadOk[n] /\ n \notin hit]
      /\ mHasValue' = mHasValue /\ mValue' = mValue
      /\ mIsAvailable' = [o \in Objects |-> IF NodesOf(o) \cap hit # {}
                                            THEN ComputedFlag(o)'
                                            ELSE mIsAvailable[o]]
    BY DEF MarkFailed
<1>2. LeavesTyped'
    BY <1>1 DEF LeavesTyped
<1>3. ASSUME NEW o \in Objects, NodesOf(o) \cap hit = {}
      PROVE  mIsAvailable'[o] = mIsAvailable[o] /\ mIsAvailable'[o] = ComputedFlag(o)'
  <2>1. \A n \in NodesOf(o) : n \in Nodes /\ n \notin hit
      BY <1>3 DEF NodesOf
  <2>2. \A n \in NodesOf(o) : /\ mReadOk'[n] <=> mReadOk[n]
                              /\ mHasValue'[n] <=> mHasValue[n]
                              /\ mValue'[n] = mValue[n]
      BY <1>1, <2>1, Zenon
  <2> QED
      BY <1>1, <1>3, <2>2, SameLeaves DEF FlagCurrent
<1>4. ASSUME NEW o \in Objects, NodesOf(o) \cap hit # {}
      PROVE  mIsAvailable'[o] = False /\ mIsAvailable'[o] = ComputedFlag(o)'
  <2>1. PICK n \in NodesOf(o) : n \in hit
      BY <1>4
  <2>2. ~mReadOk'[n]
      BY <1>1, <2>1, Zenon
  <2>3. ComputedFlag(o)' = False
      BY <2>2 DEF ComputedFlag
  <2> QED
      BY <1>1, <1>4, <2>3
<1>5. \A o \in Objects : Payload(o)' = Payload(o)
    BY <1>1 DEF Payload
<1>6. FlagCurrent'
    BY <1>3, <1>4 DEF FlagCurrent
<1>7. True # False
    BY DEF True, False
<1> QED
    BY <1>2, <1>3, <1>4, <1>5, <1>6, <1>7

----------------------------------------------------------------------------
\* A handler that publishes every flag it changes keeps the flags at the broker.
LEMMA FlagsPublished ==
    ASSUME AvailabilityPublished, UNCHANGED linkUp,
           NEW states, NEW cleared, NEW flags, Publish(states, cleared, flags),
           \A o \in Objects : mIsAvailable'[o] # mIsAvailable[o] => o \in flags
    PROVE  AvailabilityPublished'
<1>1. retainedFlag' = [o \in Objects |-> IF linkUp' /\ o \in flags /\ mIsAvailable'[o] # NotSet
                                         THEN mIsAvailable'[o]
                                         ELSE retainedFlag[o]]
    BY DEF Publish
<1> QED
    BY <1>1 DEF AvailabilityPublished

\* A handler keeps the states at the broker when it publishes the state of each
\* available object, or leaves the object available with the same payload.
LEMMA StatesKept ==
    ASSUME Remembered, StatePublished, UNCHANGED linkUp,
           NEW states, NEW cleared, NEW flags, Publish(states, cleared, flags),
           \A o \in Objects : Kept(o) => o \notin cleared,
           \A o \in Objects : Kept(o) /\ mIsAvailable'[o] = True
              => o \in states \/ (mIsAvailable[o] = True /\ Payload(o)' = Payload(o))
    PROVE  Remembered' /\ StatePublished'
<1>1. /\ mLastPublishedPayload' = [o \in Objects |-> IF o \in states \cup cleared
                                                     THEN Payload(o)'
                                                     ELSE mLastPublishedPayload[o]]
      /\ retainedState' = [o \in Objects |-> IF linkUp' /\ o \in states /\ Retain[o]
                                             THEN Payload(o)'
                                             ELSE IF linkUp' /\ o \in cleared THEN NoPayload
                                             ELSE retainedState[o]]
    BY DEF Publish
<1>2. ASSUME NEW o \in Objects, Kept(o), mIsAvailable'[o] = True
      PROVE  /\ mLastPublishedPayload'[o] = Payload(o)'
             /\ linkUp' => retainedState'[o] = Payload(o)'
  <2>1. CASE o \in states
      BY <1>1, <1>2, <2>1 DEF Kept
  <2>2. CASE o \notin states
    <3>1. mIsAvailable[o] = True /\ Payload(o)' = Payload(o) /\ o \notin cleared
        BY <1>2, <2>2
    <3>2. mLastPublishedPayload[o] = Payload(o) /\ (linkUp => retainedState[o] = Payload(o))
        BY <1>2, <3>1 DEF Remembered, StatePublished, Kept
    <3> QED
        BY <1>1, <2>2, <3>1, <3>2
  <2> QED
      BY <2>1, <2>2
<1>3. Remembered'
    BY <1>2 DEF Remembered, Kept
<1>4. StatePublished'
    BY <1>2 DEF StatePublished, Kept
<1> QED
    BY <1>3, <1>4

----------------------------------------------------------------------------
\* processRegisterValues preserves the invariant.
LEMMA ValuesStep ==
    ASSUME IInv, NEW affected \in SUBSET Objects, NEW r, NEW values, NEW due,
           ProcessRegisterValues(affected, r, values, due)
    PROVE  IInv'
<1> DEFINE changed == {o \in affected : mIsAvailable'[o] # mIsAvailable[o]}
           cleared == {o \in changed : /\ mIsAvailable[o] = NotSet /\ mIsAvailable'[o] = True
                                       /\ ~Retain[o]}
           states == StatesPublished(affected, due)
<1>1. /\ UpdateRegisterValues(affected, r, values)
      /\ UNCHANGED linkUp
      /\ Publish(states, cleared, changed)
    BY DEF ProcessRegisterValues
<1>2. /\ LeavesTyped' /\ FlagCurrent'
      /\ \A o \in Objects \ affected :
            mIsAvailable'[o] = mIsAvailable[o] /\ Payload(o)' = Payload(o)
    BY <1>1, UpdateValuesStep DEF IInv
<1>3. AvailabilityPublished'
  <2>1. \A o \in Objects : mIsAvailable'[o] # mIsAvailable[o] => o \in changed
      BY <1>2
  <2> HIDE DEF changed, cleared, states
  <2> QED
      BY <1>1, <2>1, FlagsPublished DEF IInv
<1>4. ASSUME NEW o \in Objects, Kept(o), mIsAvailable'[o] = True
      PROVE  o \in states \/ (mIsAvailable[o] = True /\ Payload(o)' = Payload(o))
  <2>1. CASE o \notin affected
      BY <1>2, <1>4, <2>1
  <2>2. CASE o \in changed
      BY <1>4, <2>2 DEF StatesPublished, PublishesState, Kept
  <2>3. CASE o \in affected \ changed
    <3>1. mIsAvailable[o] = True /\ mLastPublishedPayload[o] = Payload(o)
        BY <1>4, <2>3 DEF IInv, Remembered
    <3>2. CASE Payload(o)' = mLastPublishedPayload[o]
        BY <3>1, <3>2
    <3>3. CASE Payload(o)' # mLastPublishedPayload[o]
        BY <1>4, <2>3, <3>3 DEF StatesPublished, PublishesState, Kept
    <3> QED
        BY <3>2, <3>3
  <2> QED
      BY <2>1, <2>2, <2>3
<1>5. \A o \in Objects : Kept(o) => o \notin cleared
    BY DEF Kept
<1>6. Remembered' /\ StatePublished'
  <2> HIDE DEF changed, cleared, states
  <2> QED
      BY <1>1, <1>4, <1>5, StatesKept DEF IInv
<1> QED
    BY <1>2, <1>3, <1>6 DEF IInv

\* A handler that marks leaves as failed preserves the invariant when it
\* publishes the flags that change.
LEMMA FailureStep ==
    ASSUME IInv, NEW hit \in SUBSET Nodes, MarkFailed(hit), UNCHANGED linkUp,
           NEW states, NEW flags, Publish(states, {}, flags),
           \A o \in Objects : mIsAvailable'[o] # mIsAvailable[o] => o \in flags
    PROVE  IInv'
<1>1. /\ LeavesTyped' /\ FlagCurrent'
      /\ \A o \in Objects : /\ Payload(o)' = Payload(o)
                            /\ mIsAvailable'[o] = True => mIsAvailable[o] = True
    BY MarkFailedStep DEF IInv
<1>2. AvailabilityPublished'
    BY FlagsPublished DEF IInv
<1>3. Remembered' /\ StatePublished'
    BY <1>1, StatesKept DEF IInv
<1> QED
    BY <1>1, <1>2, <1>3 DEF IInv

\* The failure of a read or a write
LEMMA OperationFailedStep ==
    ASSUME IInv, NEW r, ProcessRegistersOperationFailed(r)
    PROVE  IInv'
<1> DEFINE hit == {n \in Nodes : ObjectOf[n] \in ObjectsAt(r) /\ FailsWith(n, r)}
           flags == {o \in ObjectsAt(r) : mIsAvailable'[o] # mIsAvailable[o]}
           states == {o \in ObjectsAt(r) : PublishesState(o, FALSE)}
<1>1. MarkFailed(hit) /\ UNCHANGED linkUp /\ Publish(states, {}, flags)
    BY DEF ProcessRegistersOperationFailed, UpdateRegistersReadFailed
<1>2. \A o \in Objects : mIsAvailable'[o] # mIsAvailable[o] => NodesOf(o) \cap hit # {}
  <2> HIDE DEF states, flags
  <2> QED
      BY <1>1, MarkFailedStep DEF IInv
<1>3. \A o \in Objects : mIsAvailable'[o] # mIsAvailable[o] => o \in flags
    BY <1>2 DEF NodesOf
<1>4. hit \in SUBSET Nodes
    OBVIOUS
<1> HIDE DEF hit, states, flags
<1> QED
    BY <1>1, <1>3, <1>4, FailureStep

\* The loss of the network
LEMMA NetworkStep ==
    ASSUME IInv, NEW isUp, ProcessModbusNetworkState(isUp)
    PROVE  IInv'
<1>1. CASE isUp
  <2>1. UNCHANGED <<objectVars, clientVars>>
      BY <1>1 DEF ProcessModbusNetworkState
  <2> QED
      BY <2>1 DEF objectVars, clientVars, IInv, LeavesTyped, FlagCurrent, ComputedFlag,
                  SaysAvailable, AvailabilityPublished, Remembered, StatePublished, Payload
<1>2. CASE ~isUp
  <2> DEFINE hit == {n \in Nodes : mReadOk[n]}
             flags == {o \in Objects : mIsAvailable'[o] # mIsAvailable[o]}
  <2>1. MarkFailed(hit) /\ UNCHANGED linkUp /\ Publish({}, {}, flags)
      BY <1>2 DEF ProcessModbusNetworkState, SetModbusNetworkDown
  <2>2. hit \in SUBSET Nodes /\ \A o \in Objects : mIsAvailable'[o] # mIsAvailable[o] => o \in flags
      OBVIOUS
  <2> HIDE DEF hit, flags
  <2> QED
      BY <2>1, <2>2, FailureStep
<1> QED
    BY <1>1, <1>2

\* The objects keep what determines their flags and payloads.
LEMMA SameObjects ==
    ASSUME IInv, UNCHANGED objectVars
    PROVE  /\ LeavesTyped' /\ FlagCurrent'
           /\ mIsAvailable' = mIsAvailable
           /\ \A o \in Objects : Payload(o)' = Payload(o)
BY DEF objectVars, IInv, LeavesTyped, FlagCurrent, ComputedFlag, SaysAvailable, Payload

\* Losing the link, with or without what the broker retained
LEMMA LinkLostStep ==
    ASSUME IInv, NEW restart, LinkLost(restart)
    PROVE  IInv'
<1>1. LeavesTyped' /\ FlagCurrent' /\ \A o \in Objects : Payload(o)' = Payload(o)
    BY SameObjects DEF LinkLost, objectVars
<1>2. ~linkUp' /\ mIsAvailable' = mIsAvailable
      /\ mLastPublishedPayload' = mLastPublishedPayload
    BY DEF LinkLost, objectVars
<1>3. AvailabilityPublished' /\ StatePublished'
    BY <1>2 DEF AvailabilityPublished, StatePublished
<1>4. Remembered'
    BY <1>1, <1>2 DEF IInv, Remembered, Kept
<1> QED
    BY <1>1, <1>3, <1>4 DEF IInv

\* onConnect publishes everything again.
LEMMA OnConnectStep ==
    ASSUME IInv, OnConnect
    PROVE  IInv'
<1> DEFINE states == {o \in Objects : PublishesState(o, TRUE)}
<1>1. /\ linkUp' = TRUE /\ mIsAvailable' = mIsAvailable
      /\ LeavesTyped' /\ FlagCurrent' /\ \A o \in Objects : Payload(o)' = Payload(o)
    BY SameObjects DEF OnConnect, objectVars
<1>2. /\ retainedFlag' = [o \in Objects |-> IF linkUp' /\ o \in Objects /\ mIsAvailable'[o] # NotSet
                                            THEN mIsAvailable'[o]
                                            ELSE retainedFlag[o]]
      /\ mLastPublishedPayload' = [o \in Objects |-> IF o \in states \cup {}
                                                     THEN Payload(o)'
                                                     ELSE mLastPublishedPayload[o]]
      /\ retainedState' = [o \in Objects |-> IF linkUp' /\ o \in states /\ Retain[o]
                                             THEN Payload(o)'
                                             ELSE IF linkUp' /\ o \in {} THEN NoPayload
                                             ELSE retainedState[o]]
    BY DEF OnConnect, PublishAll, Publish
<1>3. AvailabilityPublished'
    BY <1>1, <1>2 DEF AvailabilityPublished
<1>4. \A o \in Objects : Kept(o) /\ mIsAvailable'[o] = True => o \in states /\ Retain[o]
    BY DEF PublishesState, Kept
<1>5. Remembered' /\ StatePublished'
  <2> HIDE DEF states
  <2> QED
      BY <1>1, <1>2, <1>4 DEF Remembered, StatePublished, Kept
<1> QED
    BY <1>1, <1>3, <1>5 DEF IInv

\* Steps of the modbus thread leave the objects and the client alone.
LEMMA ThreadStep ==
    ASSUME IInv, UNCHANGED <<objectVars, clientVars>>
    PROVE  IInv'
<1>1. LeavesTyped' /\ FlagCurrent' /\ mIsAvailable' = mIsAvailable
      /\ \A o \in Objects : Payload(o)' = Payload(o)
    BY SameObjects
<1>2. UNCHANGED <<mLastPublishedPayload, linkUp, retainedState, retainedFlag>>
    BY DEF clientVars
<1> QED
    BY <1>1, <1>2 DEF IInv, AvailabilityPublished, Remembered, StatePublished, Kept

----------------------------------------------------------------------------
\* Before anything is read no flag is set and nothing is published.
LEMMA InitIInv == Init => IInv
<1> SUFFICES ASSUME Init PROVE IInv
    OBVIOUS
<1>1. ObjectInit /\ ClientInit
    BY DEF Init
<1>2. LeavesTyped
    BY <1>1 DEF ObjectInit, LeavesTyped
<1>3. FlagCurrent
  <2> SUFFICES ASSUME NEW o \in Objects PROVE mIsAvailable[o] = ComputedFlag(o)
      BY DEF FlagCurrent
  <2>a. StateNodesOf(o) # {}
      BY ObjectAssumption
  <2>1. PICK n : n \in StateNodesOf(o)
      BY <2>a
  <2>2. n \in NodesOf(o) /\ NodesOf(o) \subseteq Nodes
      BY <2>1 DEF NodesOf, StateNodesOf, Nodes
  <2>3. \A k \in Nodes : ~mHasValue[k] /\ mReadOk[k]
      BY <1>1 DEF ObjectInit
  <2>4. ComputedFlag(o) = NotSet
      BY <2>2, <2>3 DEF ComputedFlag
  <2> QED
      BY <1>1, <2>4 DEF ObjectInit
<1>4. \A o \in Objects : mIsAvailable[o] = NotSet /\ NotSet # True
    BY <1>1 DEF ObjectInit, NotSet, True
<1>5. AvailabilityPublished /\ Remembered /\ StatePublished
    BY <1>4 DEF AvailabilityPublished, Remembered, StatePublished
<1> QED
    BY <1>2, <1>3, <1>5 DEF IInv

\* Every step of the gateway preserves the invariant.
LEMMA NextIInv == IInv /\ [Next]_vars => IInv'
<1> SUFFICES ASSUME IInv, [Next]_vars PROVE IInv'
    OBVIOUS
<1>1. ASSUME NEW g \in Groups, NEW values \in Contents(g), PollSucceeds(g, values) PROVE IInv'
    BY <1>1, ThreadStep DEF PollSucceeds
<1>2. ASSUME NEW g \in Groups, NEW long \in BOOLEAN, NEW retry \in BOOLEAN,
             PollFails(g, long, retry)
      PROVE  IInv'
    BY <1>2, ThreadStep, Zenon DEF PollFails
<1>3. ASSUME NEW r \in Commands, NEW ok \in BOOLEAN, NEW values \in Contents(r),
             Write(r, values, ok)
      PROVE  IInv'
    BY <1>3, ThreadStep, Zenon DEF Write
<1>4. ASSUME NEW r \in Requests, NEW values \in Contents(r), Rpc(r, values) PROVE IInv'
    BY <1>4, ThreadStep DEF Rpc
<1>5. ASSUME NEW ok \in BOOLEAN, Connect(ok) PROVE IInv'
    BY <1>5, ThreadStep DEF Connect
<1>6. CASE Disconnect
    BY <1>6, ThreadStep DEF Disconnect
<1>7. ASSUME NEW due, ProcessMessage(due) PROVE IInv'
  <2> DEFINE m == Head(fromModbus)
  <2>1. \/ ProcessRegisterValues(Affected(m), m.range, m.values, due)
        \/ ProcessRegistersOperationFailed(m.range)
        \/ ProcessModbusNetworkState(m.up)
      BY <1>7 DEF ProcessMessage
  <2>2. Affected(m) \in SUBSET Objects
      BY DEF Affected, CommandObjects, ObjectsAt
  <2> HIDE DEF m
  <2> QED
      BY <2>1, <2>2, ValuesStep, OperationFailedStep, NetworkStep
<1>8. ASSUME NEW restart \in BOOLEAN, LoseLink(restart) PROVE IInv'
    BY <1>8, LinkLostStep DEF LoseLink
<1>9. CASE GainLink
    BY <1>9, OnConnectStep DEF GainLink
<1>10. CASE UNCHANGED vars
    BY <1>10, ThreadStep DEF vars
<1> QED
    BY <1>1, <1>2, <1>3, <1>4, <1>5, <1>6, <1>7, <1>8, <1>9, <1>10 DEF Next

\* The flags, the payloads that publishState remembers and the broker's retained
\* messages agree in every reachable state.
THEOREM Invariance == Spec => []IInv
BY InitIInv, NextIInv, PTL DEF Spec

\* The cached flag of an object is what updateAvailablityFlag would compute,
\* for any layout of objects and registers and any converter.
THEOREM FlagAlwaysCurrent == Spec => []FlagCurrent
<1>1. IInv => FlagCurrent
    BY DEF IInv
<1> QED
    BY <1>1, Invariance, PTL

\* While the link is up the broker retains every flag that publishAvailabilityChange
\* or publishAll has to publish.
THEOREM FlagsAlwaysPublished == Spec => []AvailabilityPublished
<1>1. IInv => AvailabilityPublished
    BY DEF IInv
<1> QED
    BY <1>1, Invariance, PTL

\* While the link is up the broker retains the current payload of every available
\* object that is retained and not published only once.
THEOREM StatesAlwaysPublished == Spec => []StatePublished
<1>1. IInv => StatePublished
    BY DEF IInv
<1> QED
    BY <1>1, Invariance, PTL

----------------------------------------------------------------------------
(***************************************************************************)
(* Types                                                                   *)
(***************************************************************************)
Ranges == Groups \cup Commands \cup Requests

ValuesMessage ==
    [type : {"values"}, range : Ranges, values : UNION {Contents(r) : r \in Ranges},
     source : {"poll", "command", "rpc"}]
FailedMessage == [type : {"failed"}, range : Ranges]
NetworkMessage == [type : {"network"}, up : BOOLEAN]
Message == ValuesMessage \cup FailedMessage \cup NetworkMessage

QueueType ==
    /\ fromModbus \in Seq(Message)
    /\ \A i \in DOMAIN fromModbus :
          fromModbus[i].type = "values" => fromModbus[i].values \in Contents(fromModbus[i].range)

PollType ==
    /\ mLastValues \in [Groups -> UNION {Contents(g) : g \in Groups}]
    /\ mReadErrors \in [Groups -> 0 .. MaxReadErrors]
    /\ mLastReadOk \in [Groups -> BOOLEAN]
    /\ lastRead \in [Groups -> {NeverRead} \cup UNION {Contents(g) : g \in Groups}]

ThreadType ==
    /\ mConnected \in BOOLEAN /\ mInitialPoll \in BOOLEAN /\ toPoll \subseteq Groups
    /\ mInitialPoll <=> toPoll # {}

GatewayType == ClientTypeOK /\ PollType /\ ThreadType /\ QueueType

\* every message the modbus thread sends
LEMMA Messages ==
    /\ \A r \in Ranges, source \in {"poll", "command", "rpc"} : \A values \in Contents(r) :
          /\ ValuesMsg(r, values, source) \in ValuesMessage
          /\ ValuesMsg(r, values, source).range = r /\ ValuesMsg(r, values, source).values = values
    /\ \A r \in Ranges : FailedMsg(r) \in FailedMessage /\ FailedMsg(r).range = r
    /\ \A up \in BOOLEAN : NetworkMsg(up) \in NetworkMessage /\ NetworkMsg(up).up = up
<1>1. ASSUME NEW r \in Ranges, NEW source \in {"poll", "command", "rpc"}, NEW values \in Contents(r)
      PROVE  /\ ValuesMsg(r, values, source) \in ValuesMessage
             /\ ValuesMsg(r, values, source).range = r /\ ValuesMsg(r, values, source).values = values
  <2>1. values \in UNION {Contents(h) : h \in Ranges}
    BY <1>1
  <2> QED
    BY <1>1, <2>1 DEF ValuesMsg, ValuesMessage
<1> QED
  BY <1>1 DEF FailedMsg, NetworkMsg, FailedMessage, NetworkMessage

\* The type of a message tells which kind of record it is.
LEMMA MessageTypes ==
    ASSUME NEW m \in Message
    PROVE  /\ m.type \in {"values", "failed", "network"}
           /\ m.type = "values" <=> m \in ValuesMessage
           /\ m.type = "failed" <=> m \in FailedMessage
           /\ m.type = "network" <=> m \in NetworkMessage
<1>1. /\ \A v \in ValuesMessage : v.type = "values"
      /\ \A v \in FailedMessage : v.type = "failed"
      /\ \A v \in NetworkMessage : v.type = "network"
  BY DEF ValuesMessage, FailedMessage, NetworkMessage
<1> QED
  BY <1>1 DEF Message

\* Sending a message keeps the queue's type.
LEMMA SendKeepsType ==
    ASSUME QueueType, NEW m \in Message, m.type = "values" => m.values \in Contents(m.range),
           SendMessage(m)
    PROVE  QueueType'
<1>1. fromModbus' = Append(fromModbus, m)
  BY DEF SendMessage
<1> QED
  BY <1>1 DEF QueueType

\* Taking a message keeps the queue's type and gives a message.
LEMMA ReceiveKeepsType ==
    ASSUME QueueType, fromModbus # <<>>, fromModbus' = Tail(fromModbus)
    PROVE  /\ QueueType' /\ Head(fromModbus) \in Message
           /\ Head(fromModbus).type = "values" =>
                 Head(fromModbus).values \in Contents(Head(fromModbus).range)
BY DEF QueueType

\* The computed availability of an object is a flag.
LEMMA FlagTypes == \A o \in Objects : ComputedFlag(o) \in Flags
BY DEF ComputedFlag, Flags

\* Publishing keeps the client's type.
LEMMA PublishTypes ==
    ASSUME ClientTypeOK, ObjectTypeOK', linkUp' \in BOOLEAN,
           NEW states, NEW cleared, NEW flags, Publish(states, cleared, flags)
    PROVE  ClientTypeOK'
<1>1. mPublished' \in [Objects -> BOOLEAN]
  <2>1. mPublished' = [o \in Objects |-> mPublished[o] \/ o \in states]
    BY DEF Publish
  <2> QED
    BY <2>1
<1>2. retainedFlag' \in [Objects -> Flags]
  <2>1. retainedFlag' = [o \in Objects |-> IF linkUp' /\ o \in flags /\ mIsAvailable'[o] # NotSet
                                           THEN mIsAvailable'[o] ELSE retainedFlag[o]]
    BY DEF Publish
  <2>2. \A o \in Objects : mIsAvailable'[o] \in Flags /\ retainedFlag[o] \in Flags
    BY DEF ClientTypeOK, ObjectTypeOK
  <2> QED
    BY <2>1, <2>2
<1> QED
  BY <1>1, <1>2 DEF ClientTypeOK

\* Applying values read keeps the client's type.
LEMMA ValuesKeepType ==
    ASSUME ClientTypeOK, NEW affected, NEW r, NEW values \in Contents(r), NEW due,
           ProcessRegisterValues(affected, r, values, due)
    PROVE  ClientTypeOK'
<1> DEFINE hit == {n \in Nodes : ObjectOf[n] \in affected /\ InRange(n, r)}
           changed(o) == \E n \in hit \cap NodesOf(o) : ~mHasValue[n] \/ mValue[n] # values[Register[n]]
<1>1. /\ mHasValue' = [n \in Nodes |-> mHasValue[n] \/ n \in hit]
      /\ mValue' = [n \in Nodes |-> IF n \in hit THEN values[Register[n]] ELSE mValue[n]]
      /\ mReadOk' = [n \in Nodes |-> mReadOk[n] \/ n \in hit]
      /\ mIsAvailable' = [o \in Objects |-> IF o \in affected /\ FlagUpdates(o, changed(o))
                                            THEN ComputedFlag(o)' ELSE mIsAvailable[o]]
  BY Zenon DEF ProcessRegisterValues, UpdateRegisterValues
<1>2. \A n \in hit : values[Register[n]] \in Values
  BY DEF InRange, Contents
<1>3. \A n \in Nodes : mValue[n] \in Values
  BY DEF ClientTypeOK, ObjectTypeOK
<1>4. mValue' \in [Nodes -> Values]
  BY <1>1, <1>2, <1>3, Zenon
<1>5. \A o \in Objects : ComputedFlag(o)' \in Flags /\ mIsAvailable[o] \in Flags
  <2>1. (\A o \in Objects : ComputedFlag(o) \in Flags)'
    BY FlagTypes, PTL
  <2> QED
    BY <2>1 DEF ClientTypeOK, ObjectTypeOK
<1>6. mIsAvailable' \in [Objects -> Flags]
  BY <1>1, <1>5, Zenon
<1>7. ObjectTypeOK'
  BY <1>1, <1>4, <1>6, Zenon DEF ObjectTypeOK
<1>8. /\ linkUp' \in BOOLEAN
      /\ \E states, cleared, flags : Publish(states, cleared, flags)
  BY DEF ProcessRegisterValues, ClientTypeOK
<1> QED
  BY <1>7, <1>8, PublishTypes

\* Marking nodes failed keeps the client's type.
LEMMA FailureKeepsType ==
    ASSUME ClientTypeOK, NEW hit, MarkFailed(hit), UNCHANGED linkUp,
           NEW states, NEW flags, Publish(states, {}, flags)
    PROVE  ClientTypeOK'
<1>1. \A o \in Objects : ComputedFlag(o)' \in Flags /\ mIsAvailable[o] \in Flags
  <2>1. (\A o \in Objects : ComputedFlag(o) \in Flags)'
    BY FlagTypes, PTL
  <2> QED
    BY <2>1 DEF ClientTypeOK, ObjectTypeOK
<1>2. mIsAvailable' = [o \in Objects |-> IF NodesOf(o) \cap hit # {} THEN ComputedFlag(o)'
                                                                    ELSE mIsAvailable[o]]
  BY DEF MarkFailed
<1>3. mIsAvailable' \in [Objects -> Flags]
  BY <1>1, <1>2
<1>4. mReadOk' \in [Nodes -> BOOLEAN] /\ UNCHANGED <<mHasValue, mValue>>
  BY DEF MarkFailed
<1>5. ObjectTypeOK'
  BY <1>3, <1>4 DEF ObjectTypeOK, ClientTypeOK
<1> QED
  BY <1>5, PublishTypes DEF ClientTypeOK

\* Processing a message keeps every type.
LEMMA ReceiveTypes ==
    ASSUME GatewayType, NEW due, ProcessMessage(due)
    PROVE  GatewayType'
<1> DEFINE m == Head(fromModbus)
<1>1. /\ fromModbus # <<>> /\ fromModbus' = Tail(fromModbus) /\ UNCHANGED <<pollVars, threadVars>>
      /\ \/ m.type = "values" /\ ProcessRegisterValues(Affected(m), m.range, m.values, due)
         \/ m.type = "failed" /\ ProcessRegistersOperationFailed(m.range)
         \/ m.type = "network" /\ ProcessModbusNetworkState(m.up)
  BY DEF ProcessMessage
<1>2. QueueType' /\ (m.type = "values" => m.values \in Contents(m.range))
  BY <1>1, ReceiveKeepsType DEF GatewayType
<1> HIDE DEF m
<1>3. ClientTypeOK'
  <2>1. CASE m.type = "values" /\ ProcessRegisterValues(Affected(m), m.range, m.values, due)
    BY <1>2, <2>1, ValuesKeepType DEF GatewayType
  <2>2. CASE ProcessRegistersOperationFailed(m.range)
    <3>1. UNCHANGED linkUp
      BY <2>2 DEF ProcessRegistersOperationFailed
    <3>2. \E hit, states, flags : MarkFailed(hit) /\ Publish(states, {}, flags)
      BY <2>2 DEF ProcessRegistersOperationFailed, UpdateRegistersReadFailed
    <3> QED
      BY <3>1, <3>2, FailureKeepsType DEF GatewayType
  <2>3. CASE ProcessModbusNetworkState(m.up)
    <3>1. CASE m.up
      <4>1. UNCHANGED <<objectVars, clientVars>>
        BY <2>3, <3>1 DEF ProcessModbusNetworkState
      <4> QED
        BY <4>1 DEF GatewayType, ClientTypeOK, ObjectTypeOK, objectVars, clientVars
    <3>2. CASE ~m.up
      <4>1. UNCHANGED linkUp
        BY <2>3, <3>2 DEF ProcessModbusNetworkState
      <4>2. \E hit, flags : MarkFailed(hit) /\ Publish({}, {}, flags)
        BY <2>3, <3>2 DEF ProcessModbusNetworkState, SetModbusNetworkDown
      <4> QED
        BY <4>1, <4>2, FailureKeepsType DEF GatewayType
    <3> QED
      BY <3>1, <3>2
  <2> QED
    BY <1>1, <2>1, <2>2, <2>3
<1>4. PollType' /\ ThreadType'
  BY <1>1 DEF GatewayType, PollType, ThreadType, pollVars, threadVars
<1> QED
  BY <1>2, <1>3, <1>4 DEF GatewayType

\* Leaving the initial poll keeps the thread's type.
LEMMA LeavesKeepsThread ==
    ASSUME ThreadType, NEW g, UNCHANGED mConnected,
           LeavesInitialPoll(g) \/ UNCHANGED <<toPoll, mInitialPoll>>
    PROVE  ThreadType'
<1>1. CASE UNCHANGED <<toPoll, mInitialPoll>>
  BY <1>1 DEF ThreadType
<1>2. CASE LeavesInitialPoll(g)
  <2>1. toPoll' = toPoll \ {g} /\ mInitialPoll' = (mInitialPoll /\ toPoll' # {})
    BY <1>2 DEF LeavesInitialPoll
  <2>2. mInitialPoll' <=> toPoll' # {}
    BY <2>1, Zenon DEF ThreadType
  <2> QED
    BY <2>1, <2>2 DEF ThreadType
<1> QED
  BY <1>1, <1>2

\* A poll that succeeds keeps the types of the Modbus side.
LEMMA PollSucceedsTypes ==
    ASSUME GatewayType, NEW g \in Groups, NEW values \in Contents(g), PollSucceeds(g, values)
    PROVE  PollType' /\ ThreadType' /\ QueueType'
<1>1. PollOk(g, values, mInitialPoll) /\ LeavesInitialPoll(g) /\ UNCHANGED mConnected
  BY DEF PollSucceeds
<1>2. ThreadType'
  BY <1>1, LeavesKeepsThread DEF GatewayType
<1>3. /\ mLastReadOk' \in [Groups -> BOOLEAN]
      /\ lastRead' \in [Groups -> {NeverRead} \cup UNION {Contents(h) : h \in Groups}]
  <2>1. values \in {NeverRead} \cup UNION {Contents(h) : h \in Groups}
    OBVIOUS
  <2> QED
    BY <1>1, <2>1 DEF PollOk, GatewayType, PollType
<1>4. CASE ValuesSent(g, values, mInitialPoll)
  <2>1. SendMessage(ValuesMsg(g, values, "poll")) /\ RegisterUpdate(g, values)
    BY <1>1, <1>4 DEF PollOk
  <2>2. QueueType'
    <3>1. /\ ValuesMsg(g, values, "poll") \in Message
          /\ ValuesMsg(g, values, "poll").values \in Contents(ValuesMsg(g, values, "poll").range)
      BY Messages DEF Ranges, Message
    <3> QED
      BY <2>1, <3>1, SendKeepsType DEF GatewayType
  <2>3. values \in UNION {Contents(h) : h \in Groups}
    OBVIOUS
  <2>4. mLastValues' \in [Groups -> UNION {Contents(h) : h \in Groups}]
    BY <2>1, <2>3 DEF RegisterUpdate, GatewayType, PollType
  <2>5. mReadErrors' \in [Groups -> 0 .. MaxReadErrors]
    BY <2>1, PollingAssumption DEF RegisterUpdate, GatewayType, PollType
  <2> QED
    BY <1>2, <1>3, <2>2, <2>4, <2>5 DEF PollType
<1>5. CASE ~ValuesSent(g, values, mInitialPoll)
  <2>1. UNCHANGED <<mLastValues, mReadErrors, fromModbus>>
    BY <1>1, <1>5 DEF PollOk
  <2> QED
    BY <1>2, <1>3, <2>1 DEF GatewayType, PollType, QueueType
<1> QED
  BY <1>4, <1>5

\* A poll that fails keeps the types of the Modbus side.
LEMMA PollFailsTypes ==
    ASSUME GatewayType, NEW g \in Groups, NEW long \in BOOLEAN, NEW retry \in BOOLEAN,
           PollFails(g, long, retry)
    PROVE  PollType' /\ ThreadType' /\ QueueType'
<1> DEFINE errors == IF long /\ mReadErrors[g] # 0 THEN 0 ELSE mReadErrors[g] + 1
<1>1. /\ errors <= MaxReadErrors
      /\ mReadErrors' = [mReadErrors EXCEPT ![g] = errors]
      /\ mLastReadOk' = [mLastReadOk EXCEPT ![g] = FALSE]
      /\ IF errors > DefaultReadErrorCount THEN SendMessage(FailedMsg(g)) ELSE UNCHANGED fromModbus
      /\ UNCHANGED <<mLastValues, lastRead, mConnected>>
  BY Zenon DEF PollFails, PollFailed
<1>2. ThreadType'
  <2>1. LeavesInitialPoll(g) \/ UNCHANGED <<toPoll, mInitialPoll>>
    BY Zenon DEF PollFails
  <2> QED
    BY <1>1, <2>1, LeavesKeepsThread DEF GatewayType
<1>3. errors \in 0 .. MaxReadErrors
  BY <1>1, PollingAssumption DEF GatewayType, PollType
<1> HIDE DEF errors
<1>4. PollType'
  <2>1. mReadErrors' \in [Groups -> 0 .. MaxReadErrors]
    BY <1>1, <1>3 DEF GatewayType, PollType
  <2>2. mLastReadOk' \in [Groups -> BOOLEAN]
    BY <1>1 DEF GatewayType, PollType
  <2> QED
    BY <1>1, <2>1, <2>2 DEF GatewayType, PollType
<1>5. QueueType'
  <2>1. CASE errors > DefaultReadErrorCount
    <3>1. FailedMsg(g) \in Message /\ FailedMsg(g).type # "values"
      BY Messages DEF Ranges, Message, FailedMsg
    <3> QED
      BY <1>1, <2>1, <3>1, SendKeepsType DEF GatewayType
  <2>2. CASE ~(errors > DefaultReadErrorCount)
    BY <1>1, <2>2 DEF GatewayType, QueueType
  <2> QED
    BY <2>1, <2>2
<1> QED
  BY <1>2, <1>4, <1>5

\* what a write, a request, a connect or a disconnect sends
LEMMA OtherMessages ==
    ASSUME \/ \E r \in Commands, ok \in BOOLEAN : \E values \in Contents(r) : Write(r, values, ok)
           \/ \E r \in Requests : \E values \in Contents(r) : Rpc(r, values)
           \/ \E ok \in BOOLEAN : Connect(ok)
           \/ Disconnect
    PROVE  \E m \in Message : SendMessage(m) /\ (m.type = "values" => m.values \in Contents(m.range))
<1>1. ASSUME NEW r \in Ranges, NEW values \in Contents(r), NEW source \in {"poll", "command", "rpc"},
             SendMessage(ValuesMsg(r, values, source))
      PROVE  \E m \in Message : SendMessage(m) /\ (m.type = "values" => m.values \in Contents(m.range))
  <2>1. /\ ValuesMsg(r, values, source) \in Message
        /\ ValuesMsg(r, values, source).values \in Contents(ValuesMsg(r, values, source).range)
    BY Messages DEF Message
  <2> QED
    BY <1>1, <2>1
<1>2. ASSUME NEW m \in FailedMessage \cup NetworkMessage, SendMessage(m)
      PROVE  \E v \in Message : SendMessage(v) /\ (v.type = "values" => v.values \in Contents(v.range))
  <2>1. m \in Message /\ m.type # "values"
    BY <1>2 DEF Message, FailedMessage, NetworkMessage
  <2> QED
    BY <1>2, <2>1
<1>3. ASSUME NEW r \in Commands, NEW ok \in BOOLEAN, NEW values \in Contents(r), Write(r, values, ok)
      PROVE  SendMessage(ValuesMsg(r, values, "command")) \/ SendMessage(FailedMsg(r))
  BY <1>3, Zenon DEF Write, WriteRegisters
<1>4. ASSUME NEW r \in Commands, NEW ok \in BOOLEAN, NEW values \in Contents(r), Write(r, values, ok)
      PROVE  \E m \in Message : SendMessage(m) /\ (m.type = "values" => m.values \in Contents(m.range))
  <2>1. r \in Ranges
    BY DEF Ranges
  <2> QED
    BY <1>1, <1>2, <1>3, <1>4, <2>1, Messages
<1>5. ASSUME NEW r \in Requests, NEW values \in Contents(r), Rpc(r, values)
      PROVE  \E m \in Message : SendMessage(m) /\ (m.type = "values" => m.values \in Contents(m.range))
  <2>1. r \in Ranges /\ SendMessage(ValuesMsg(r, values, "rpc"))
    BY <1>5, SMTT(30) DEF Ranges, Rpc, RpcRegisters
  <2> QED
    BY <1>1, <2>1
<1>6. ASSUME NEW ok \in BOOLEAN, Connect(ok)
      PROVE  \E m \in Message : SendMessage(m) /\ (m.type = "values" => m.values \in Contents(m.range))
  BY <1>2, <1>6, Messages, Zenon DEF Connect
<1>7. CASE Disconnect
  BY <1>2, <1>7, Messages, Zenon DEF Disconnect
<1> QED
  BY <1>4, <1>5, <1>6, <1>7

\* Commands, requests and connection changes keep the types of the Modbus side.
LEMMA OtherThreadTypes ==
    ASSUME GatewayType, Groups # {},
           \/ \E r \in Commands, ok \in BOOLEAN : \E values \in Contents(r) : Write(r, values, ok)
           \/ \E r \in Requests : \E values \in Contents(r) : Rpc(r, values)
           \/ \E ok \in BOOLEAN : Connect(ok)
           \/ Disconnect
    PROVE  PollType' /\ ThreadType' /\ QueueType'
<1>1. UNCHANGED <<mLastValues, mReadErrors, mLastReadOk, lastRead>>
  BY Zenon DEF Write, WriteRegisters, Rpc, RpcRegisters, Connect, Disconnect, pollVars
<1>2. PollType'
  BY <1>1 DEF GatewayType, PollType
<1>3. QueueType'
  BY OtherMessages, SendKeepsType DEF GatewayType
<1>4. mConnected' \in BOOLEAN
  BY Zenon DEF Write, Rpc, Connect, Disconnect, threadVars, GatewayType, ThreadType
<1>5. \/ UNCHANGED <<mInitialPoll, toPoll>>
      \/ mInitialPoll' = TRUE /\ toPoll' = Groups
  BY Zenon DEF Write, Rpc, Connect, RefreshAfterConnect, Disconnect, threadVars
<1>6. ThreadType'
  <2>1. CASE UNCHANGED <<mInitialPoll, toPoll>>
    BY <1>4, <2>1 DEF GatewayType, ThreadType
  <2>2. CASE mInitialPoll' = TRUE /\ toPoll' = Groups
    BY <1>4, <2>2 DEF ThreadType
  <2> QED
    BY <1>5, <2>1, <2>2, Zenon
<1> QED
  BY <1>2, <1>3, <1>6

\* Losing or gaining the broker keeps every type.
LEMMA LinkTypes ==
    ASSUME GatewayType, (\E restart \in BOOLEAN : LoseLink(restart)) \/ GainLink
    PROVE  GatewayType'
<1>1. UNCHANGED <<objectVars, pollVars, fromModbus, threadVars>>
  BY DEF LoseLink, LinkLost, GainLink, OnConnect
<1>2. ObjectTypeOK' /\ PollType' /\ ThreadType' /\ QueueType'
  BY <1>1, Zenon DEF GatewayType, ClientTypeOK, ObjectTypeOK, PollType, ThreadType, QueueType,
              objectVars, pollVars, threadVars
<1>3. ASSUME NEW restart \in BOOLEAN, LoseLink(restart) PROVE ClientTypeOK'
  <2>1. /\ linkUp' = FALSE /\ UNCHANGED mPublished
        /\ retainedFlag' = IF restart THEN [o \in Objects |-> NotSet] ELSE retainedFlag
    BY <1>3 DEF LoseLink, LinkLost
  <2>2. retainedFlag' \in [Objects -> Flags]
    BY <2>1 DEF GatewayType, ClientTypeOK, Flags
  <2> QED
    BY <1>2, <2>1, <2>2, Zenon DEF GatewayType, ClientTypeOK
<1>4. CASE GainLink
  <2>1. linkUp' = TRUE /\ \E states : Publish(states, {}, Objects)
    BY <1>4 DEF GainLink, OnConnect, PublishAll
  <2>2. ClientTypeOK'
    BY <1>2, <2>1, PublishTypes DEF GatewayType
  <2> QED
    BY <1>2, <2>2 DEF GatewayType
<1> QED
  BY <1>2, <1>3, <1>4 DEF GatewayType

\* Every step keeps every type.
LEMMA TypeKept == ASSUME Groups # {}, GatewayType, [Next]_vars PROVE GatewayType'
<1>1. CASE UNCHANGED <<objectVars, clientVars>> /\ PollType' /\ ThreadType' /\ QueueType'
  BY <1>1 DEF GatewayType, ClientTypeOK, ObjectTypeOK, objectVars, clientVars
<1>2. CASE \/ \E g \in Groups : \E values \in Contents(g) : PollSucceeds(g, values)
           \/ \E g \in Groups, long, retry \in BOOLEAN : PollFails(g, long, retry)
  <2>1. UNCHANGED <<objectVars, clientVars>>
    BY <1>2, Zenon DEF PollSucceeds, PollFails
  <2> QED
    BY <1>1, <1>2, <2>1, PollSucceedsTypes, PollFailsTypes
<1>3. CASE \/ \E r \in Commands, ok \in BOOLEAN : \E values \in Contents(r) : Write(r, values, ok)
           \/ \E r \in Requests : \E values \in Contents(r) : Rpc(r, values)
           \/ \E ok \in BOOLEAN : Connect(ok)
           \/ Disconnect
  <2>1. UNCHANGED <<objectVars, clientVars>>
    BY <1>3, Zenon DEF Write, Rpc, Connect, Disconnect
  <2> QED
    BY <1>1, <1>3, <2>1, OtherThreadTypes
<1>4. CASE UNCHANGED vars
  BY <1>4, Zenon DEF vars, GatewayType, ClientTypeOK, ObjectTypeOK, PollType, ThreadType, QueueType,
              objectVars, clientVars, pollVars, threadVars
<1> QED
  BY <1>2, <1>3, <1>4, ReceiveTypes, LinkTypes DEF Next

\* A register may hold zero.
LEMMA ZeroIsValue == 0 \in Values
BY ZeroAssumption

\* Every type holds initially.
LEMMA InitialTypes == ASSUME Groups # {}, Init PROVE GatewayType
<1>1. ClientTypeOK
  <2>1. mValue = [n \in Nodes |-> 0] /\ mIsAvailable = [o \in Objects |-> NotSet]
        /\ retainedFlag = [o \in Objects |-> NotSet]
    BY DEF Init, ObjectInit, ClientInit
  <2>2. mValue \in [Nodes -> Values]
    BY <2>1, ZeroIsValue
  <2>3. mIsAvailable \in [Objects -> Flags] /\ retainedFlag \in [Objects -> Flags]
    BY <2>1 DEF Flags
  <2>4. /\ mHasValue \in [Nodes -> BOOLEAN] /\ mReadOk \in [Nodes -> BOOLEAN]
        /\ mPublished \in [Objects -> BOOLEAN] /\ linkUp \in BOOLEAN
    BY DEF Init, ObjectInit, ClientInit
  <2> QED
    BY <2>2, <2>3, <2>4 DEF ClientTypeOK, ObjectTypeOK
<1>2. ASSUME NEW g \in Groups
      PROVE  [i \in Registers(g) |-> 0] \in UNION {Contents(h) : h \in Groups}
  <2>1. [i \in Registers(g) |-> 0] \in [Registers(g) -> Values]
    BY ZeroIsValue
  <2> QED
    BY <2>1 DEF Contents
<1>3. PollType
  BY <1>2, PollingAssumption DEF Init, PollInit, PollType
<1>4. ThreadType
  <2>1. mConnected = FALSE /\ mInitialPoll = TRUE /\ toPoll = Groups
    BY DEF Init
  <2> QED
    BY <2>1, Zenon DEF ThreadType
<1>5. QueueType
  <2>1. fromModbus = <<>>
    BY DEF Init, PollInit
  <2> QED
    BY <2>1 DEF QueueType
<1> QED
  BY <1>1, <1>3, <1>4, <1>5 DEF GatewayType

\* The types of the gateway's state hold, for any objects, registers and
\* events: a register that is polled stays a register value on its way to an
\* object, and an initial poll is in progress exactly while it has polls left.
THEOREM GatewayTypeAlwaysOK == ASSUME Groups # {} PROVE Spec => []TypeOK
<1>1. Init => GatewayType
  BY InitialTypes
<1>2. GatewayType /\ [Next]_vars => GatewayType'
  BY TypeKept
<1>3. GatewayType => TypeOK
  BY Zenon DEF GatewayType, PollType, ThreadType, QueueType, TypeOK
<1> QED
  BY <1>1, <1>2, <1>3, PTL DEF Spec

----------------------------------------------------------------------------
(***************************************************************************)
(* The queue to the main thread.  Of the messages in E the last one that   *)
(* waits is in F, or none waits.                                           *)
(***************************************************************************)
EndsWith(q, E, F) ==
    \E i \in DOMAIN q : q[i] \in F /\ \A j \in DOMAIN q : j > i => q[j] \notin E

NoneOf(q, E) == \A i \in DOMAIN q : q[i] \notin E

\* What appending a message does to the last one of a kind in the queue.
LEMMA SendLast ==
    ASSUME NEW q \in Seq(Message), NEW m \in Message, NEW E, NEW F
    PROVE  /\ m \in F => EndsWith(Append(q, m), E, F)
           /\ m \notin E /\ EndsWith(q, E, F) => EndsWith(Append(q, m), E, F)
           /\ m \notin E /\ NoneOf(q, E) => NoneOf(Append(q, m), E)
<1> DEFINE r == Append(q, m)
<1>1. /\ DOMAIN q = 1 .. Len(q) /\ DOMAIN r = 1 .. Len(q) + 1 /\ Len(q) \in Nat
      /\ r[Len(q) + 1] = m /\ \A i \in 1 .. Len(q) : r[i] = q[i]
  OBVIOUS
<1> HIDE DEF r
<1>2. ASSUME m \in F PROVE EndsWith(r, E, F)
  <2>1. Len(q) + 1 \in DOMAIN r /\ \A j \in DOMAIN r : ~(j > Len(q) + 1)
    BY <1>1
  <2> QED
    BY <1>1, <1>2, <2>1 DEF EndsWith
<1>3. ASSUME m \notin E, EndsWith(q, E, F) PROVE EndsWith(r, E, F)
  <2>1. PICK i \in DOMAIN q : q[i] \in F /\ \A j \in DOMAIN q : j > i => q[j] \notin E
    BY <1>3 DEF EndsWith
  <2>2. \A j \in DOMAIN r : j \in DOMAIN q \/ j = Len(q) + 1
    BY <1>1
  <2>3. \A j \in DOMAIN r : j > i => r[j] \notin E
    BY <1>1, <1>3, <2>1, <2>2
  <2>4. i \in DOMAIN r /\ r[i] \in F
    BY <1>1, <2>1
  <2> QED
    BY <2>3, <2>4 DEF EndsWith
<1>4. ASSUME m \notin E, NoneOf(q, E) PROVE NoneOf(r, E)
  <2>1. \A j \in DOMAIN r : j \in DOMAIN q \/ j = Len(q) + 1
    BY <1>1
  <2> QED
    BY <1>1, <1>4, <2>1 DEF NoneOf
<1> QED
  BY <1>2, <1>3, <1>4 DEF r

\* What taking the first message does to the last one of a kind in the queue.
LEMMA ReceiveFirst ==
    ASSUME NEW q \in Seq(Message), q # <<>>, NEW E, NEW F
    PROVE  /\ EndsWith(q, E, F) => EndsWith(Tail(q), E, F) \/ (Head(q) \in F /\ NoneOf(Tail(q), E))
           /\ NoneOf(q, E) => NoneOf(Tail(q), E) /\ Head(q) \notin E
<1> DEFINE r == Tail(q)
<1>1. /\ DOMAIN q = 1 .. Len(q) /\ DOMAIN r = 1 .. Len(q) - 1 /\ Len(q) \in Nat \ {0}
      /\ Head(q) = q[1] /\ \A i \in 1 .. Len(q) - 1 : r[i] = q[i + 1]
  OBVIOUS
<1> HIDE DEF r
<1>2. ASSUME EndsWith(q, E, F), Head(q) \notin F \/ ~NoneOf(r, E) PROVE EndsWith(r, E, F)
  <2>1. PICK i \in DOMAIN q : q[i] \in F /\ \A j \in DOMAIN q : j > i => q[j] \notin E
    BY <1>2 DEF EndsWith
  <2>2. CASE i = 1
    <3>1. ASSUME NEW j \in DOMAIN r PROVE r[j] \notin E
      <4>1. j + 1 \in DOMAIN q /\ j + 1 > i /\ r[j] = q[j + 1]
        BY <1>1, <2>2
      <4> QED
        BY <2>1, <4>1
    <3> QED
      BY <1>1, <1>2, <2>1, <2>2, <3>1 DEF NoneOf
  <2>3. CASE i # 1
    <3>1. i - 1 \in DOMAIN r /\ r[i - 1] = q[i]
      BY <1>1, <2>3
    <3>2. ASSUME NEW j \in DOMAIN r, j > i - 1 PROVE r[j] \notin E
      <4>1. j + 1 \in DOMAIN q /\ j + 1 > i /\ r[j] = q[j + 1]
        BY <1>1, <3>2
      <4> QED
        BY <2>1, <4>1
    <3> QED
      BY <2>1, <3>1, <3>2 DEF EndsWith
  <2> QED
    BY <2>2, <2>3
<1>3. ASSUME NoneOf(q, E) PROVE NoneOf(r, E) /\ Head(q) \notin E
  <2>1. \A j \in DOMAIN r : j + 1 \in DOMAIN q /\ r[j] = q[j + 1]
    BY <1>1
  <2>2. 1 \in DOMAIN q
    BY <1>1
  <2> QED
    BY <1>1, <1>3, <2>1, <2>2 DEF NoneOf
<1> QED
  BY <1>2, <1>3 DEF r

----------------------------------------------------------------------------
(***************************************************************************)
(* What the messages say about a leaf n with a register in group g.        *)
(***************************************************************************)
ValuesOf(g) == {m \in ValuesMessage : m.range = g}
FailuresOf(g) == {m \in FailedMessage : m.range = g}
ValuesFor(g) == {m \in ValuesMessage : g \in Reached(m)}
FailuresFor(g) == {m \in FailedMessage : g \in Reached(m)}
Downs == {m \in NetworkMessage : ~m.up}

\* The leaf gets the values that the poll has sent last.
ValueComes(g, n) ==
    \/ EndsWith(fromModbus, ValuesFor(g), {m \in ValuesOf(g) : m.values = mLastValues[g]})
    \/ NoneOf(fromModbus, ValuesFor(g)) /\ mValue[n] = mLastValues[g][Register[n]]

ValuesInv ==
    \A g \in Groups :
        /\ lastRead[g] \in {NeverRead, mLastValues[g]}
        /\ \A n \in Nodes : InRange(n, g) /\ g \notin overlaid => ValueComes(g, n)

\* The leaf is marked as failed in the end.
FailureComes(g, n) ==
    \/ EndsWith(fromModbus, ValuesFor(g), FailuresOf(g))
    \/ NoneOf(fromModbus, ValuesFor(g)) /\ ~mReadOk[n]

ErrorsInv ==
    \A g \in Groups, n \in Nodes :
        InRange(n, g) /\ mReadErrors[g] > DefaultReadErrorCount /\ g \notin rescued => FailureComes(g, n)

\* The leaf has been read without error in the end.
ReadComes(g, n) ==
    \/ EndsWith(fromModbus, FailuresFor(g) \cup Downs, ValuesOf(g))
    \/ NoneOf(fromModbus, FailuresFor(g) \cup Downs) /\ mReadOk[n] /\ mHasValue[n]

\* The group was read since the connect, and the last read was no error.
Settled(g) == mConnected /\ g \notin toPoll /\ mReadErrors[g] = 0

\* While the network is lost nothing is fresh, and the polls that an initial
\* poll will not come back to are silenced.
FreshInv ==
    /\ ~mConnected /\ mInitialPoll => Groups \ toPoll \subseteq silenced
    /\ \A g \in fresh \cap Groups : Settled(g) /\ lastRead[g] = mLastValues[g]

\* A poll that is unchanged is sent again only after a connect and after
\* errors: without either, what was sent before still holds, unless the poll
\* is silenced.
ReadsInv ==
    /\ FreshInv
    /\ \A g \in Groups, n \in Nodes :
          InRange(n, g) /\ Settled(g) /\ g \notin silenced => ReadComes(g, n)

\* a leaf of the group is found by every message about the group
LEMMA OwnRange ==
    ASSUME NEW n \in Nodes, NEW g \in Groups, InRange(n, g)
    PROVE  /\ ObjectOf[n] \in ObjectsAt(g) /\ ObjectOf[n] \in CommandObjects(g)
           /\ FailsWith(n, g)
<1>1. ObjectOf[n] \in Objects /\ n \in NodesOf(ObjectOf[n])
  BY ObjectAssumption DEF NodesOf
<1>2. HasRegisterIn(ObjectOf[n], g)
  BY <1>1 DEF HasRegisterIn
<1>3. FailsWith(n, g)
  <2>1. Register[n] \in Nat /\ g.first \in Nat /\ g.count \in Nat
    BY ObjectAssumption, RegisterAssumption
  <2> QED
    BY <2>1 DEF InRange, Registers, FailsWith
<1> QED
  BY <1>1, <1>2, <1>3 DEF ObjectsAt, CommandObjects

\* The values of one group are not for another.
LEMMA OtherValues ==
    ASSUME NEW g \in Groups, NEW h \in Groups, g # h, NEW m \in ValuesOf(h)
    PROVE  m \notin ValuesFor(g)
<1>1. m.type = "values" /\ m.range = h
  BY DEF ValuesOf, ValuesMessage
<1>2. \A n \in Nodes : InRange(n, h) => ~InRange(n, g)
  BY RegisterAssumption DEF InRange
<1>3. g \notin Reached(m)
  BY <1>1, <1>2, Zenon DEF Reached
<1> QED
  BY <1>3 DEF ValuesFor

\* The kinds of messages differ.
LEMMA MessageSets ==
    ASSUME NEW g, NEW h
    PROVE  /\ ValuesOf(g) \subseteq Message /\ FailuresOf(g) \subseteq Message
           /\ ValuesMessage \cap (FailuresFor(h) \cup Downs) = {}
           /\ FailedMessage \cap (ValuesFor(h) \cup Downs) = {}
           /\ NetworkMessage \cap (ValuesFor(h) \cup FailuresFor(h)) = {}
<1>1. /\ \A v \in ValuesMessage : v.type = "values"
      /\ \A v \in FailedMessage : v.type = "failed"
      /\ \A v \in NetworkMessage : v.type = "network"
  BY DEF ValuesMessage, FailedMessage, NetworkMessage
<1> QED
  BY <1>1 DEF ValuesOf, FailuresOf, ValuesFor, FailuresFor, Downs, Message

\* What the main thread does to a leaf with the first message
LEMMA LeafUpdated ==
    ASSUME GatewayType, NEW due, ProcessMessage(due),
           NEW n \in Nodes, NEW g \in Groups, InRange(n, g)
    PROVE  /\ Head(fromModbus) \in ValuesOf(g) =>
                 mReadOk'[n] /\ mHasValue'[n] /\ mValue'[n] = Head(fromModbus).values[Register[n]]
           /\ Head(fromModbus) \notin ValuesFor(g) =>
                 mValue'[n] = mValue[n] /\ (~mReadOk[n] => ~mReadOk'[n])
           /\ Head(fromModbus) \in FailuresOf(g) => ~mReadOk'[n]
           /\ mHasValue[n] => mHasValue'[n]
           /\ Head(fromModbus) \notin FailuresFor(g) \cup Downs /\ mReadOk[n] => mReadOk'[n]
<1> DEFINE m == Head(fromModbus)
<1>1. /\ \/ m.type = "values" /\ ProcessRegisterValues(Affected(m), m.range, m.values, due)
         \/ m.type = "failed" /\ ProcessRegistersOperationFailed(m.range)
         \/ m.type = "network" /\ ProcessModbusNetworkState(m.up)
      /\ m \in Message
  BY ReceiveKeepsType, Zenon DEF ProcessMessage, GatewayType
<1> HIDE DEF m
<1>2. /\ m \in ValuesOf(g) <=> m.type = "values" /\ m.range = g
      /\ m \in FailuresOf(g) <=> m.type = "failed" /\ m.range = g
      /\ m \in ValuesFor(g) <=> m.type = "values" /\ g \in Reached(m)
      /\ m \in FailuresFor(g) <=> m.type = "failed" /\ g \in Reached(m)
      /\ m \in Downs <=> m.type = "network" /\ ~m.up
  BY <1>1, MessageTypes DEF ValuesOf, FailuresOf, ValuesFor, FailuresFor, Downs
<1>3. CASE m.type = "values"
  <2> DEFINE hit == {k \in Nodes : ObjectOf[k] \in Affected(m) /\ InRange(k, m.range)}
  <2>1. /\ mHasValue' = [k \in Nodes |-> mHasValue[k] \/ k \in hit]
        /\ mValue' = [k \in Nodes |-> IF k \in hit THEN m.values[Register[k]] ELSE mValue[k]]
        /\ mReadOk' = [k \in Nodes |-> mReadOk[k] \/ k \in hit]
    BY <1>1, <1>3, Zenon DEF ProcessRegisterValues, UpdateRegisterValues
  <2>2. m.range = g => n \in hit
    BY OwnRange DEF Affected
  <2>3. n \in hit => g \in Reached(m)
    BY <1>3, Zenon DEF Reached
  <2> HIDE DEF hit
  <2> QED
    BY <1>2, <1>3, <2>1, <2>2, <2>3, Zenon DEF m
<1>4. CASE m.type = "failed"
  <2> DEFINE hit == {k \in Nodes : ObjectOf[k] \in ObjectsAt(m.range) /\ FailsWith(k, m.range)}
  <2>1. /\ mReadOk' = [k \in Nodes |-> mReadOk[k] /\ k \notin hit]
        /\ UNCHANGED <<mHasValue, mValue>>
    BY <1>1, <1>4, Zenon DEF ProcessRegistersOperationFailed, UpdateRegistersReadFailed, MarkFailed
  <2>2. m.range = g => n \in hit
    BY OwnRange
  <2>3. n \in hit => g \in Reached(m)
    BY <1>4, Zenon DEF Reached
  <2> HIDE DEF hit
  <2> QED
    BY <1>2, <1>4, <2>1, <2>2, <2>3, Zenon DEF m
<1>5. CASE m.type = "network"
  <2>1. CASE m.up
    <3>1. UNCHANGED objectVars
      BY <1>1, <1>5, <2>1, Zenon DEF ProcessModbusNetworkState
    <3> QED
      BY <1>2, <1>5, <3>1, Zenon DEF m, objectVars
  <2>2. CASE ~m.up
    <3>1. mReadOk' = [k \in Nodes |-> mReadOk[k] /\ k \notin {j \in Nodes : mReadOk[j]}]
          /\ UNCHANGED <<mHasValue, mValue>>
      BY <1>1, <1>5, <2>2 DEF ProcessModbusNetworkState, SetModbusNetworkDown, MarkFailed
    <3> QED
      BY <1>2, <1>5, <2>2, <3>1, Zenon DEF m
  <2> QED
    BY <2>1, <2>2, Zenon
<1> QED
  BY <1>1, <1>3, <1>4, <1>5, Zenon

\* what a poll that succeeds does
LEMMA PollSucceedsSends ==
    ASSUME GatewayType, NEW g \in Groups, NEW values \in Contents(g), PollSucceeds(g, values)
    PROVE  /\ lastRead' = [lastRead EXCEPT ![g] = values]
           /\ UNCHANGED objectVars
           /\ \/ /\ \E m \in ValuesOf(g) : m.values = values /\ fromModbus' = Append(fromModbus, m)
                 /\ mLastValues' = [mLastValues EXCEPT ![g] = values]
                 /\ mReadErrors' = [mReadErrors EXCEPT ![g] = 0]
                 /\ Corrects(g)
              \/ /\ values = mLastValues[g] /\ mReadErrors[g] = 0 /\ ~mInitialPoll
                 /\ UNCHANGED <<mLastValues, mReadErrors, fromModbus, history>>
<1>1. /\ PollOk(g, values, mInitialPoll) /\ UNCHANGED objectVars
      /\ IF ValuesSent(g, values, mInitialPoll) THEN Corrects(g) ELSE UNCHANGED history
  BY DEF PollSucceeds
<1>2. CASE ValuesSent(g, values, mInitialPoll)
  <2>1. ValuesMsg(g, values, "poll") \in ValuesOf(g) /\ ValuesMsg(g, values, "poll").values = values
    BY Messages DEF Ranges, ValuesOf
  <2> QED
    BY <1>1, <1>2, <2>1 DEF PollOk, SendMessage, RegisterUpdate
<1>3. CASE ~ValuesSent(g, values, mInitialPoll)
  BY <1>1, <1>3 DEF PollOk, ValuesSent
<1> QED
  BY <1>2, <1>3

\* what a poll that fails does
LEMMA PollFailsSends ==
    ASSUME GatewayType, NEW g \in Groups, NEW long \in BOOLEAN, NEW retry \in BOOLEAN,
           PollFails(g, long, retry)
    PROVE  /\ UNCHANGED <<objectVars, mLastValues, lastRead, overlaid>>
           /\ fresh' = fresh \ {g}
           /\ \A h \in Groups : h # g => mReadErrors'[h] = mReadErrors[h] /\ (h \in rescued' <=> h \in rescued)
           /\ silenced \subseteq silenced'
           /\ mReadErrors'[g] = 0 => g \in silenced'
           /\ \/ \E m \in FailuresOf(g) : fromModbus' = Append(fromModbus, m) /\ Reached(m) \ {g} \subseteq silenced'
              \/ UNCHANGED fromModbus /\ ~(mReadErrors'[g] > DefaultReadErrorCount)
<1> DEFINE errors == IF long /\ mReadErrors[g] # 0 THEN 0 ELSE mReadErrors[g] + 1
<1>1. /\ mReadErrors' = [mReadErrors EXCEPT ![g] = errors]
      /\ fresh' = fresh \ {g}
      /\ IF errors > DefaultReadErrorCount THEN SendMessage(FailedMsg(g)) ELSE UNCHANGED fromModbus
      /\ UNCHANGED <<objectVars, mLastValues, lastRead, overlaid>>
  BY Zenon DEF PollFails, PollFailed
<1>2. mReadErrors \in [Groups -> 0 .. MaxReadErrors]
  BY DEF GatewayType, PollType
<1>3. mReadErrors'[g] = errors /\ \A h \in Groups : h # g => mReadErrors'[h] = mReadErrors[h]
  BY <1>1, <1>2, Zenon
<1>4. FailedMsg(g) \in FailuresOf(g)
  BY Messages DEF Ranges, FailuresOf
<1> HIDE DEF errors
<1>5. IF mReadErrors'[g] > DefaultReadErrorCount
      THEN silenced' = silenced \cup (Reached(FailedMsg(g)) \ {g}) /\ rescued' = rescued \ {g}
      ELSE silenced' = silenced \cup {h \in {g} : mReadErrors'[h] = 0} /\ UNCHANGED rescued
  BY DEF PollFails
<1>6. CASE mReadErrors'[g] > DefaultReadErrorCount
  <2>1. fromModbus' = Append(fromModbus, FailedMsg(g))
    BY <1>1, <1>3, <1>6, Zenon DEF SendMessage
  <2>2. mReadErrors'[g] # 0
    BY <1>6, PollingAssumption
  <2> QED
    BY <1>1, <1>3, <1>4, <1>5, <1>6, <2>1, <2>2, Zenon
<1>7. CASE ~(mReadErrors'[g] > DefaultReadErrorCount)
  <2>1. UNCHANGED fromModbus
    BY <1>1, <1>3, <1>7, Zenon
  <2>2. silenced' = silenced \cup {h \in {g} : mReadErrors'[h] = 0} /\ UNCHANGED rescued
    BY <1>5, <1>7
  <2>3. silenced \subseteq silenced' /\ (mReadErrors'[g] = 0 => g \in silenced')
    BY <2>2
  <2> QED
    BY <1>1, <1>3, <1>7, <2>1, <2>2, <2>3, Zenon
<1> QED
  BY <1>6, <1>7

\* A command, a request or a change of the connection sends one message, and
\* the history has the polls that it reaches.
LEMMA OtherSends ==
    ASSUME GatewayType,
           \/ \E r \in Commands, ok \in BOOLEAN : \E values \in Contents(r) : Write(r, values, ok)
           \/ \E r \in Requests : \E values \in Contents(r) : Rpc(r, values)
           \/ \E ok \in BOOLEAN : Connect(ok)
           \/ Disconnect
    PROVE  /\ UNCHANGED <<objectVars, mLastValues, mReadErrors, lastRead>>
           /\ silenced \subseteq silenced' /\ overlaid \subseteq overlaid' /\ rescued \subseteq rescued'
           /\ \E m \in Message :
                 /\ fromModbus' = Append(fromModbus, m)
                 /\ \A g \in Groups : m \in ValuesFor(g) => g \in overlaid' /\ g \in rescued'
                 /\ \A g \in Groups : m \in FailuresFor(g) => g \in silenced'
                 /\ mConnected /\ mConnected' => m \notin Downs
<1>1. UNCHANGED <<objectVars, mLastValues, mReadErrors, lastRead>>
  BY Zenon DEF Write, WriteRegisters, Rpc, RpcRegisters, Connect, Disconnect, pollVars
<1>2. silenced \subseteq silenced' /\ overlaid \subseteq overlaid' /\ rescued \subseteq rescued'
  BY Zenon DEF Write, Rpc, Connect, Disconnect, Overlays, Silences, history
<1> DEFINE Sends(m) ==
             /\ fromModbus' = Append(fromModbus, m)
             /\ \A g \in Groups : m \in ValuesFor(g) => g \in overlaid' /\ g \in rescued'
             /\ \A g \in Groups : m \in FailuresFor(g) => g \in silenced'
             /\ mConnected /\ mConnected' => m \notin Downs
<1>3. ASSUME NEW m \in ValuesMessage, fromModbus' = Append(fromModbus, m), Overlays(m)
      PROVE  m \in Message /\ Sends(m)
  <2>1. m \in Message /\ m \notin Downs /\ \A g \in Groups : m \notin FailuresFor(g)
    BY MessageSets DEF Message
  <2>2. \A g \in Groups : m \in ValuesFor(g) => g \in overlaid' /\ g \in rescued'
    BY <1>3 DEF Overlays, ValuesFor
  <2> QED
    BY <1>3, <2>1, <2>2, Zenon
<1>4. ASSUME NEW m \in FailedMessage, fromModbus' = Append(fromModbus, m), Silences(Reached(m))
      PROVE  m \in Message /\ Sends(m)
  <2>1. m \in Message /\ m \notin Downs /\ \A g \in Groups : m \notin ValuesFor(g)
    BY MessageSets DEF Message
  <2>2. \A g \in Groups : m \in FailuresFor(g) => g \in silenced'
    BY <1>4 DEF Silences, FailuresFor
  <2> QED
    BY <1>4, <2>1, <2>2, Zenon
<1>5. ASSUME NEW m \in NetworkMessage, fromModbus' = Append(fromModbus, m), ~(mConnected /\ mConnected')
      PROVE  m \in Message /\ Sends(m)
  <2>1. m \in Message /\ \A g \in Groups : m \notin ValuesFor(g) /\ m \notin FailuresFor(g)
    BY MessageSets DEF Message
  <2> QED
    BY <1>5, <2>1, Zenon
<1>6. ASSUME NEW r \in Commands, NEW ok \in BOOLEAN, NEW values \in Contents(r), Write(r, values, ok)
      PROVE  \E m \in Message : Sends(m)
  <2>1. CASE ok
    <3>1. /\ fromModbus' = Append(fromModbus, ValuesMsg(r, values, "command"))
          /\ Overlays(ValuesMsg(r, values, "command"))
      BY <1>6, <2>1, Zenon DEF Write, WriteRegisters, SendMessage
    <3>2. ValuesMsg(r, values, "command") \in ValuesMessage
      BY Messages DEF Ranges
    <3> QED
      BY <1>3, <3>1, <3>2
  <2>2. CASE ~ok
    <3>1. fromModbus' = Append(fromModbus, FailedMsg(r)) /\ Silences(Reached(FailedMsg(r)))
      BY <1>6, <2>2, Zenon DEF Write, WriteRegisters, SendMessage
    <3>2. FailedMsg(r) \in FailedMessage
      BY Messages DEF Ranges
    <3> QED
      BY <1>4, <3>1, <3>2
  <2> QED
    BY <2>1, <2>2, Zenon
<1>7. ASSUME NEW r \in Requests, NEW values \in Contents(r), Rpc(r, values)
      PROVE  \E m \in Message : Sends(m)
  <2>1. /\ fromModbus' = Append(fromModbus, ValuesMsg(r, values, "rpc"))
        /\ Overlays(ValuesMsg(r, values, "rpc"))
    BY <1>7 DEF Rpc, RpcRegisters, SendMessage
  <2>2. ValuesMsg(r, values, "rpc") \in ValuesMessage
    BY Messages DEF Ranges
  <2> QED
    BY <1>3, <2>1, <2>2
<1>8. ASSUME (\E ok \in BOOLEAN : Connect(ok)) \/ Disconnect
      PROVE  \E m \in Message : Sends(m)
  <2>1. /\ \E m \in NetworkMessage : fromModbus' = Append(fromModbus, m)
        /\ ~(mConnected /\ mConnected')
    BY <1>8, Messages, Zenon DEF Connect, Disconnect, SendMessage
  <2> QED
    BY <1>5, <2>1
<1>9. \E m \in Message : Sends(m)
  BY <1>6, <1>7, <1>8
<1> QED
  BY <1>1, <1>2, <1>9, Zenon

\* The last message about a leaf when the thread sends m, with sets of
\* messages that stay as they are
LEMMA SendKeepsLast ==
    ASSUME GatewayType, NEW m \in Message, fromModbus' = Append(fromModbus, m), NEW E, NEW F
    PROVE  /\ m \in F => EndsWith(fromModbus', E, F)
           /\ m \notin E /\ EndsWith(fromModbus, E, F) => EndsWith(fromModbus', E, F)
           /\ m \notin E /\ NoneOf(fromModbus, E) => NoneOf(fromModbus', E)
BY SendLast, Zenon DEF GatewayType, QueueType

\* ReceiveFirst, for the step that processes a message.
LEMMA ReceiveKeepsLast ==
    ASSUME GatewayType, NEW due, ProcessMessage(due), NEW E, NEW F
    PROVE  /\ EndsWith(fromModbus, E, F) =>
                 EndsWith(fromModbus', E, F) \/ (Head(fromModbus) \in F /\ NoneOf(fromModbus', E))
           /\ NoneOf(fromModbus, E) => NoneOf(fromModbus', E) /\ Head(fromModbus) \notin E
BY ReceiveFirst DEF GatewayType, QueueType, ProcessMessage

\* A poll that succeeds announces any value it changes.
LEMMA PollKeepsValues ==
    ASSUME GatewayType, ValuesInv, NEW g \in Groups, NEW values \in Contents(g), PollSucceeds(g, values)
    PROVE  ValuesInv'
<1>1. UNCHANGED mValue /\ lastRead' = [lastRead EXCEPT ![g] = values]
  BY PollSucceedsSends DEF objectVars
<1>2. CASE UNCHANGED <<mLastValues, fromModbus, history>> /\ values = mLastValues[g]
  <2>1. ASSUME NEW h \in Groups PROVE lastRead'[h] \in {NeverRead, mLastValues'[h]}
    <3>1. CASE h = g
      BY <1>1, <1>2, <3>1, Zenon DEF GatewayType, PollType
    <3>2. CASE h # g
      <4>1. lastRead'[h] = lastRead[h]
        BY <1>1, <3>2, Zenon DEF GatewayType, PollType
      <4> QED
        BY <1>2, <4>1, Zenon DEF ValuesInv
    <3> QED
      BY <3>1, <3>2, Zenon
  <2>2. ASSUME NEW h \in Groups, NEW n \in Nodes, InRange(n, h), h \notin overlaid' PROVE ValueComes(h, n)'
    BY <1>1, <1>2, <2>2, Zenon DEF ValuesInv, ValueComes, history
  <2> QED
    BY <2>1, <2>2, Zenon DEF ValuesInv, InRange, Registers
<1>3. CASE /\ \E m \in ValuesOf(g) : m.values = values /\ fromModbus' = Append(fromModbus, m)
           /\ mLastValues' = [mLastValues EXCEPT ![g] = values]
           /\ Corrects(g)
  <2>1. PICK m \in ValuesOf(g) : m.values = values /\ fromModbus' = Append(fromModbus, m)
    BY <1>3
  <2>2. mLastValues'[g] = values /\ \A h \in Groups \ {g} : mLastValues'[h] = mLastValues[h]
    BY <1>3 DEF GatewayType, PollType
  <2>3. m \in Message /\ \A h \in Groups \ {g} : m \notin ValuesFor(h)
    BY MessageSets, OtherValues
  <2>4. \A h \in Groups : lastRead'[h] \in {NeverRead, mLastValues'[h]}
    BY <1>1, <2>2, Zenon DEF ValuesInv, GatewayType, PollType
  <2>5. ASSUME NEW n \in Nodes, InRange(n, g) PROVE ValueComes(g, n)'
    <3> DEFINE last == {v \in ValuesOf(g) : v.values = mLastValues'[g]}
    <3>1. m \in last
      BY <2>1, <2>2
    <3>2. EndsWith(fromModbus', ValuesFor(g), last)
      BY <2>1, <2>3, <3>1, SendKeepsLast, Zenon
    <3> QED
      BY <3>2, Zenon DEF ValueComes
  <2>6. ASSUME NEW h \in Groups \ {g}, NEW n \in Nodes, InRange(n, h), h \notin overlaid'
        PROVE  ValueComes(h, n)'
    <3> DEFINE last == {v \in ValuesOf(h) : v.values = mLastValues[h]}
    <3>1. h \notin overlaid
      BY <1>3, <2>6 DEF Corrects
    <3>2. \/ EndsWith(fromModbus, ValuesFor(h), last)
          \/ NoneOf(fromModbus, ValuesFor(h)) /\ mValue[n] = mLastValues[h][Register[n]]
      BY <2>6, <3>1, Zenon DEF ValuesInv, ValueComes
    <3>3. \/ EndsWith(fromModbus', ValuesFor(h), last)
          \/ NoneOf(fromModbus', ValuesFor(h)) /\ mValue[n] = mLastValues[h][Register[n]]
      BY <2>1, <2>3, <3>2, SendKeepsLast, Zenon
    <3> QED
      BY <1>1, <2>2, <3>3, Zenon DEF ValueComes
  <2> QED
    BY <2>4, <2>5, <2>6, Zenon DEF ValuesInv, InRange, Registers
<1> QED
  BY <1>2, <1>3, PollSucceedsSends

\* a message that brings no values for the leaves of a poll that is not overlaid
LEMMA SendKeepsValues ==
    ASSUME GatewayType, ValuesInv, UNCHANGED <<objectVars, mLastValues, lastRead>>,
           NEW m \in Message, fromModbus' = Append(fromModbus, m), overlaid \subseteq overlaid',
           \A g \in Groups : m \in ValuesFor(g) => g \in overlaid'
    PROVE  ValuesInv'
<1>1. ASSUME NEW g \in Groups, NEW n \in Nodes, InRange(n, g), g \notin overlaid' PROVE ValueComes(g, n)'
  <2> DEFINE last == {v \in ValuesOf(g) : v.values = mLastValues[g]}
  <2>1. g \notin overlaid /\ m \notin ValuesFor(g)
    BY <1>1
  <2>2. \/ EndsWith(fromModbus, ValuesFor(g), last)
        \/ NoneOf(fromModbus, ValuesFor(g)) /\ mValue[n] = mLastValues[g][Register[n]]
    BY <1>1, <2>1, Zenon DEF ValuesInv, ValueComes
  <2>3. \/ EndsWith(fromModbus', ValuesFor(g), last)
        \/ NoneOf(fromModbus', ValuesFor(g)) /\ mValue[n] = mLastValues[g][Register[n]]
    BY <2>1, <2>2, SendKeepsLast, Zenon
  <2> QED
    BY <2>3, Zenon DEF ValueComes, objectVars
<1> QED
  BY <1>1 DEF ValuesInv

\* Processing a message leaves the last value announced or stored.
LEMMA ReceiveKeepsValues ==
    ASSUME GatewayType, ValuesInv, NEW due, ProcessMessage(due)
    PROVE  ValuesInv'
<1>1. UNCHANGED <<mLastValues, lastRead, overlaid>>
  BY DEF ProcessMessage, pollVars, history
<1>2. ASSUME NEW g \in Groups, NEW n \in Nodes, InRange(n, g), g \notin overlaid PROVE ValueComes(g, n)'
  <2> DEFINE last == {v \in ValuesOf(g) : v.values = mLastValues[g]}
  <2>1. \/ EndsWith(fromModbus, ValuesFor(g), last)
        \/ NoneOf(fromModbus, ValuesFor(g)) /\ mValue[n] = mLastValues[g][Register[n]]
    BY <1>2, Zenon DEF ValuesInv, ValueComes
  <2>2. \/ EndsWith(fromModbus', ValuesFor(g), last)
        \/ Head(fromModbus) \in last /\ NoneOf(fromModbus', ValuesFor(g))
        \/ /\ Head(fromModbus) \notin ValuesFor(g) /\ NoneOf(fromModbus', ValuesFor(g))
           /\ mValue[n] = mLastValues[g][Register[n]]
    BY <2>1, ReceiveKeepsLast, Zenon
  <2>3. \/ EndsWith(fromModbus', ValuesFor(g), last)
        \/ NoneOf(fromModbus', ValuesFor(g)) /\ mValue'[n] = mLastValues[g][Register[n]]
    BY <1>2, <2>2, LeafUpdated, Zenon
  <2> QED
    BY <1>1, <2>3 DEF ValueComes
<1> QED
  BY <1>1, <1>2, Zenon DEF ValuesInv

\* Every step keeps the last value announced or stored.
LEMMA ValuesKept ==
    ASSUME GatewayType, ValuesInv, [Next]_vars
    PROVE  ValuesInv'
<1>1. ASSUME NEW g \in Groups, NEW long \in BOOLEAN, NEW retry \in BOOLEAN, PollFails(g, long, retry)
      PROVE  ValuesInv'
  <2>1. UNCHANGED <<objectVars, mLastValues, lastRead, overlaid>>
    BY <1>1, PollFailsSends, Zenon
  <2>2. CASE UNCHANGED fromModbus
    BY <2>1, <2>2, Zenon DEF ValuesInv, ValueComes, objectVars
  <2>3. CASE \E m \in FailuresOf(g) : fromModbus' = Append(fromModbus, m)
    <3>1. PICK m \in FailuresOf(g) : fromModbus' = Append(fromModbus, m)
      BY <2>3
    <3>2. m \in Message /\ \A h \in Groups : m \notin ValuesFor(h)
      BY <3>1, MessageSets, Zenon DEF FailuresOf
    <3> QED
      BY <2>1, <3>1, <3>2, SendKeepsValues
  <2> QED
    BY <1>1, <2>2, <2>3, PollFailsSends, Zenon
<1>2. CASE \/ \E r \in Commands, ok \in BOOLEAN : \E values \in Contents(r) : Write(r, values, ok)
           \/ \E r \in Requests : \E values \in Contents(r) : Rpc(r, values)
           \/ \E ok \in BOOLEAN : Connect(ok)
           \/ Disconnect
  BY <1>2, OtherSends, SendKeepsValues
<1>3. CASE (\E restart \in BOOLEAN : LoseLink(restart)) \/ GainLink \/ UNCHANGED vars
  <2>1. UNCHANGED <<objectVars, pollVars, fromModbus, history>>
    BY <1>3 DEF LoseLink, LinkLost, GainLink, OnConnect, vars
  <2> QED
    BY <2>1, Zenon DEF ValuesInv, ValueComes, objectVars, pollVars, history
<1> QED
  BY <1>1, <1>2, <1>3, PollKeepsValues, ReceiveKeepsValues DEF Next

\* Initially nothing has been read.
LEMMA InitialValues == Init => ValuesInv
<1> SUFFICES ASSUME Init PROVE ValuesInv
  OBVIOUS
<1>1. /\ fromModbus = <<>> /\ mValue = [n \in Nodes |-> 0]
      /\ mLastValues = [g \in Groups |-> [i \in Registers(g) |-> 0]]
      /\ lastRead = [g \in Groups |-> NeverRead]
  BY DEF Init, PollInit, ObjectInit
<1>2. ASSUME NEW g \in Groups, NEW n \in Nodes, InRange(n, g) PROVE ValueComes(g, n)
  <2>1. mValue[n] = mLastValues[g][Register[n]]
    BY <1>1, <1>2 DEF InRange
  <2>2. NoneOf(fromModbus, ValuesFor(g))
    BY <1>1 DEF NoneOf
  <2> QED
    BY <2>1, <2>2 DEF ValueComes
<1> QED
  BY <1>1, <1>2 DEF ValuesInv

\* Once the queue is processed every object holds the values that were read
\* last, although pollRegisters keeps values to itself that it has sent
\* before: for any layout of objects, poll groups, commands and requests, with
\* lost networks, failed reads and interrupted initial polls.  The one
\* exception, until the poll's next message, is a poll with a register that a
\* command or request has brought a value for.
THEOREM ValuesAlwaysFollowReads ==
    ASSUME Groups # {} PROVE Spec => []ValuesFollowReads
<1>1. Init => GatewayType /\ ValuesInv
  BY InitialTypes, InitialValues
<1>2. GatewayType /\ ValuesInv /\ [Next]_vars => GatewayType' /\ ValuesInv'
  BY TypeKept, ValuesKept, SMTT(30)
<1>3. ValuesInv => ValuesFollowReads
  <2> SUFFICES ASSUME ValuesInv, fromModbus = <<>>, NEW g \in Groups, NEW n \in Nodes,
                      InRange(n, g), lastRead[g] # NeverRead, g \notin overlaid
               PROVE  mValue[n] = lastRead[g][Register[n]]
    BY DEF ValuesFollowReads
  <2>1. ~EndsWith(fromModbus, ValuesFor(g), {m \in ValuesOf(g) : m.values = mLastValues[g]})
    BY DEF EndsWith
  <2> QED
    BY <2>1 DEF ValuesInv, ValueComes
<1> QED
  BY <1>1, <1>2, <1>3, PTL DEF Spec

----------------------------------------------------------------------------
\* A message that brings no values for a leaf keeps its failure the last word.
LEMMA SendKeepsErrors ==
    ASSUME GatewayType, UNCHANGED objectVars,
           NEW m \in Message, fromModbus' = Append(fromModbus, m),
           NEW g \in Groups, NEW n \in Nodes, FailureComes(g, n), m \notin ValuesFor(g)
    PROVE  FailureComes(g, n)'
<1>1. \/ EndsWith(fromModbus', ValuesFor(g), FailuresOf(g))
      \/ NoneOf(fromModbus', ValuesFor(g)) /\ ~mReadOk[n]
  BY SendKeepsLast, Zenon DEF FailureComes
<1> QED
  BY <1>1, Zenon DEF FailureComes, objectVars

\* Every step keeps a failure beyond the limit announced or stored.
LEMMA ErrorsKept ==
    ASSUME GatewayType, ErrorsInv, [Next]_vars
    PROVE  ErrorsInv'
<1>0. SUFFICES ASSUME NEW g \in Groups, NEW n \in Nodes, InRange(n, g),
                      mReadErrors'[g] > DefaultReadErrorCount, g \notin rescued'
               PROVE  FailureComes(g, n)'
  BY Zenon DEF ErrorsInv
<1>1. ASSUME NEW h \in Groups, NEW values \in Contents(h), PollSucceeds(h, values)
      PROVE  FailureComes(g, n)'
  <2>1. CASE UNCHANGED <<mReadErrors, fromModbus, history>>
    <3>1. UNCHANGED objectVars
      BY <1>1, PollSucceedsSends
    <3> QED
      BY <1>0, <2>1, <3>1, Zenon DEF ErrorsInv, FailureComes, objectVars, history
  <2>2. CASE /\ \E m \in ValuesOf(h) : fromModbus' = Append(fromModbus, m)
             /\ mReadErrors' = [mReadErrors EXCEPT ![h] = 0]
             /\ Corrects(h)
    <3>1. h # g
      BY <1>0, <2>2, PollingAssumption DEF GatewayType, PollType
    <3>2. PICK m \in ValuesOf(h) : fromModbus' = Append(fromModbus, m)
      BY <2>2
    <3>3. m \in Message /\ m \notin ValuesFor(g)
      BY <3>1, MessageSets, OtherValues
    <3>4. UNCHANGED mReadErrors[g] /\ g \notin rescued
      BY <1>0, <2>2, <3>1 DEF GatewayType, PollType, Corrects
    <3>5. FailureComes(g, n)
      BY <1>0, <3>4, Zenon DEF ErrorsInv
    <3> QED
      BY <1>1, <3>2, <3>3, <3>5, PollSucceedsSends, SendKeepsErrors
  <2> QED
    BY <1>1, <2>1, <2>2, PollSucceedsSends
<1>2. ASSUME NEW h \in Groups, NEW long \in BOOLEAN, NEW retry \in BOOLEAN, PollFails(h, long, retry)
      PROVE  FailureComes(g, n)'
  <2>1. CASE h = g
    <3>1. PICK m \in FailuresOf(g) : fromModbus' = Append(fromModbus, m)
      BY <1>0, <1>2, <2>1, PollFailsSends, Zenon
    <3>2. m \in Message
      BY DEF FailuresOf, Message
    <3>3. EndsWith(fromModbus', ValuesFor(g), FailuresOf(g))
      BY <3>1, <3>2, SendKeepsLast
    <3> QED
      BY <3>3 DEF FailureComes
  <2>2. CASE h # g
    <3>1. UNCHANGED mReadErrors[g] /\ UNCHANGED objectVars /\ g \notin rescued
      BY <1>0, <1>2, <2>2, PollFailsSends, Zenon
    <3>2. FailureComes(g, n)
      BY <1>0, <3>1, Zenon DEF ErrorsInv
    <3>3. CASE UNCHANGED fromModbus
      BY <3>1, <3>2, <3>3, Zenon DEF FailureComes, objectVars
    <3>4. CASE \E m \in FailuresOf(h) : fromModbus' = Append(fromModbus, m)
      <4>1. PICK m \in FailuresOf(h) : fromModbus' = Append(fromModbus, m)
        BY <3>4
      <4>2. m \in Message /\ m \notin ValuesFor(g)
        BY MessageSets DEF FailuresOf
      <4> QED
        BY <3>1, <3>2, <4>1, <4>2, SendKeepsErrors, Zenon
    <3> QED
      BY <1>2, <3>3, <3>4, PollFailsSends, Zenon
  <2> QED
    BY <2>1, <2>2
<1>3. CASE \/ \E r \in Commands, ok \in BOOLEAN : \E values \in Contents(r) : Write(r, values, ok)
           \/ \E r \in Requests : \E values \in Contents(r) : Rpc(r, values)
           \/ \E ok \in BOOLEAN : Connect(ok)
           \/ Disconnect
  <2>1. UNCHANGED <<objectVars, mReadErrors>> /\ rescued \subseteq rescued'
    BY <1>3, OtherSends, Zenon
  <2>2. FailureComes(g, n)
    BY <1>0, <2>1 DEF ErrorsInv
  <2>3. \E m \in Message : fromModbus' = Append(fromModbus, m) /\ (m \in ValuesFor(g) => g \in rescued')
    BY <1>3, OtherSends, Zenon
  <2> QED
    BY <1>0, <2>1, <2>2, <2>3, SendKeepsErrors
<1>4. ASSUME NEW due, ProcessMessage(due) PROVE FailureComes(g, n)'
  <2>1. UNCHANGED <<mReadErrors, rescued>>
    BY <1>4 DEF ProcessMessage, pollVars, history
  <2>2. \/ EndsWith(fromModbus, ValuesFor(g), FailuresOf(g))
        \/ NoneOf(fromModbus, ValuesFor(g)) /\ ~mReadOk[n]
    BY <1>0, <2>1 DEF ErrorsInv, FailureComes
  <2>3. \/ EndsWith(fromModbus', ValuesFor(g), FailuresOf(g))
        \/ Head(fromModbus) \in FailuresOf(g) /\ NoneOf(fromModbus', ValuesFor(g))
        \/ Head(fromModbus) \notin ValuesFor(g) /\ NoneOf(fromModbus', ValuesFor(g)) /\ ~mReadOk[n]
    BY <1>4, <2>2, ReceiveKeepsLast
  <2>4. \/ EndsWith(fromModbus', ValuesFor(g), FailuresOf(g))
        \/ NoneOf(fromModbus', ValuesFor(g)) /\ ~mReadOk'[n]
    BY <1>0, <1>4, <2>3, LeafUpdated, Zenon
  <2> QED
    BY <2>4 DEF FailureComes
<1>5. CASE (\E restart \in BOOLEAN : LoseLink(restart)) \/ GainLink \/ UNCHANGED vars
  <2>1. UNCHANGED <<objectVars, pollVars, fromModbus, history>>
    BY <1>5 DEF LoseLink, LinkLost, GainLink, OnConnect, vars
  <2> QED
    BY <1>0, <2>1 DEF ErrorsInv, FailureComes, objectVars, pollVars, history
<1> QED
  BY <1>1, <1>2, <1>3, <1>4, <1>5 DEF Next

\* Once the queue is processed an object with a register that has failed too
\* often is unavailable (processRegistersOperationFailed), whatever values of
\* its other registers arrive, and whatever else fails, until a command or
\* request brings a value for the register.
THEOREM UnavailableAlwaysAfterErrors ==
    ASSUME Groups # {} PROVE Spec => []UnavailableAfterErrors
<1>1. Init => GatewayType /\ ErrorsInv
  <2> SUFFICES ASSUME Init PROVE GatewayType /\ ErrorsInv
    OBVIOUS
  <2>1. \A g \in Groups : ~(mReadErrors[g] > DefaultReadErrorCount)
    BY PollingAssumption DEF Init, PollInit
  <2> QED
    BY <2>1, InitialTypes DEF ErrorsInv
<1>2. GatewayType /\ ErrorsInv /\ [Next]_vars => GatewayType' /\ ErrorsInv'
  BY TypeKept, ErrorsKept
<1>3. IInv /\ ErrorsInv => UnavailableAfterErrors
  <2> SUFFICES ASSUME IInv, ErrorsInv, fromModbus = <<>>, NEW o \in Objects, NEW g \in GroupsOf(o),
                      mReadErrors[g] > DefaultReadErrorCount, g \notin rescued
               PROVE  mIsAvailable[o] = False
    BY DEF UnavailableAfterErrors
  <2>1. g \in Groups /\ HasRegisterIn(o, g)
    BY DEF GroupsOf
  <2>2. PICK n \in NodesOf(o) : InRange(n, g)
    BY <2>1 DEF HasRegisterIn
  <2>3. FailureComes(g, n)
    BY <2>1, <2>2 DEF ErrorsInv, NodesOf
  <2>4. ~mReadOk[n]
    BY <2>3 DEF FailureComes, EndsWith
  <2> QED
    BY <2>4, FailedLeaf DEF IInv, FlagCurrent
<1> QED
  BY <1>1, <1>2, <1>3, Invariance, PTL DEF Spec

----------------------------------------------------------------------------
\* A message that marks no leaf of the group keeps its read the last word.
LEMMA SendKeepsReads ==
    ASSUME GatewayType, UNCHANGED objectVars,
           NEW m \in Message, fromModbus' = Append(fromModbus, m),
           NEW g \in Groups, NEW n \in Nodes, ReadComes(g, n), m \notin FailuresFor(g) \cup Downs
    PROVE  ReadComes(g, n)'
<1> DEFINE marks == FailuresFor(g) \cup Downs
<1>1. \/ EndsWith(fromModbus, marks, ValuesOf(g))
      \/ NoneOf(fromModbus, marks) /\ mReadOk[n] /\ mHasValue[n]
  BY Zenon DEF ReadComes
<1>2. \/ EndsWith(fromModbus', marks, ValuesOf(g))
      \/ NoneOf(fromModbus', marks) /\ mReadOk[n] /\ mHasValue[n]
  BY <1>1, SendKeepsLast, Zenon
<1>3. mReadOk' = mReadOk /\ mHasValue' = mHasValue
  BY Zenon DEF objectVars
<1> QED
  BY <1>2, <1>3, Zenon DEF ReadComes

\* A poll that succeeds keeps, or makes, reads announced or stored.
LEMMA PollKeepsReads ==
    ASSUME GatewayType, ReadsInv, NEW h \in Groups, NEW values \in Contents(h), PollSucceeds(h, values),
           NEW g \in Groups, NEW n \in Nodes, InRange(n, g), Settled(g)', g \notin silenced'
    PROVE  ReadComes(g, n)'
<1>1. mConnected /\ toPoll' = toPoll \ {h} /\ UNCHANGED objectVars
  BY DEF PollSucceeds, LeavesInitialPoll
<1>2. CASE /\ mReadErrors[h] = 0 /\ ~mInitialPoll /\ UNCHANGED <<mReadErrors, fromModbus, history>>
  <2>1. toPoll = {} /\ g \notin silenced
    BY <1>2 DEF GatewayType, ThreadType, history
  <2>2. ReadComes(g, n)
    BY <1>1, <1>2, <2>1, Zenon DEF ReadsInv, Settled
  <2> QED
    BY <1>1, <1>2, <2>2, Zenon DEF ReadComes, objectVars
<1>3. CASE /\ \E m \in ValuesOf(h) : m.values = values /\ fromModbus' = Append(fromModbus, m)
           /\ mReadErrors' = [mReadErrors EXCEPT ![h] = 0]
           /\ Corrects(h)
  <2>1. PICK m \in ValuesOf(h) : fromModbus' = Append(fromModbus, m)
    BY <1>3, SMTT(30)
  <2>2. m \in Message /\ m \notin FailuresFor(g) \cup Downs
    BY MessageSets DEF ValuesOf
  <2>3. CASE h = g
    <3>1. EndsWith(fromModbus', FailuresFor(g) \cup Downs, ValuesOf(g))
      BY <2>1, <2>2, <2>3, SendKeepsLast
    <3> QED
      BY <3>1, Zenon DEF ReadComes
  <2>4. CASE h # g
    <3>1. g \notin silenced
      BY <1>3, <2>4 DEF Corrects
    <3>2. mReadErrors[g] = 0 /\ g \notin toPoll
      BY <1>1, <1>3, <2>4, Zenon DEF Settled, GatewayType, PollType
    <3>3. ReadComes(g, n)
      BY <1>1, <3>1, <3>2, Zenon DEF ReadsInv, Settled
    <3> QED
      BY <1>1, <2>1, <2>2, <3>3, SendKeepsReads
  <2> QED
    BY <2>3, <2>4
<1> QED
  BY <1>2, <1>3, PollSucceedsSends

\* A failing poll silences the groups whose reads are no longer the last word.
LEMMA FailureKeepsReads ==
    ASSUME GatewayType, ReadsInv,
           NEW h \in Groups, NEW long \in BOOLEAN, NEW retry \in BOOLEAN, PollFails(h, long, retry),
           NEW g \in Groups, NEW n \in Nodes, InRange(n, g), Settled(g)', g \notin silenced'
    PROVE  ReadComes(g, n)'
<1>1. mConnected /\ toPoll \subseteq toPoll' \cup {h} /\ UNCHANGED objectVars
  BY Zenon DEF PollFails, LeavesInitialPoll
<1>2. h # g /\ g \notin silenced
  BY PollFailsSends, Zenon DEF Settled
<1>3. ReadComes(g, n)
  BY <1>1, <1>2, PollFailsSends, Zenon DEF ReadsInv, Settled
<1>4. CASE UNCHANGED fromModbus
  BY <1>1, <1>3, <1>4, Zenon DEF ReadComes, objectVars
<1>5. CASE \E m \in FailuresOf(h) : fromModbus' = Append(fromModbus, m) /\ Reached(m) \ {h} \subseteq silenced'
  <2>1. PICK m \in FailuresOf(h) : fromModbus' = Append(fromModbus, m) /\ Reached(m) \ {h} \subseteq silenced'
    BY <1>5
  <2>2. m \in Message /\ m \notin Downs
    BY MessageSets DEF FailuresOf
  <2>3. m \notin FailuresFor(g)
    BY <1>2, <2>1 DEF FailuresFor
  <2> QED
    BY <1>1, <1>3, <2>1, <2>2, <2>3, SendKeepsReads
<1> QED
  BY <1>4, <1>5, PollFailsSends, Zenon

\* Processing a message keeps reads announced or stored.
LEMMA ReceiveKeepsReads ==
    ASSUME GatewayType, ReadsInv, NEW due, ProcessMessage(due),
           NEW g \in Groups, NEW n \in Nodes, InRange(n, g), Settled(g)', g \notin silenced'
    PROVE  ReadComes(g, n)'
<1> DEFINE marks == FailuresFor(g) \cup Downs
<1>1. Settled(g) /\ g \notin silenced
  BY DEF Settled, ProcessMessage, pollVars, threadVars, history
<1>2. \/ EndsWith(fromModbus, marks, ValuesOf(g))
      \/ NoneOf(fromModbus, marks) /\ mReadOk[n] /\ mHasValue[n]
  BY <1>1, Zenon DEF ReadsInv, Settled, ReadComes
<1>3. \/ EndsWith(fromModbus', marks, ValuesOf(g))
      \/ Head(fromModbus) \in ValuesOf(g) /\ NoneOf(fromModbus', marks)
      \/ Head(fromModbus) \notin marks /\ NoneOf(fromModbus', marks) /\ mReadOk[n] /\ mHasValue[n]
  BY <1>2, ReceiveKeepsLast, Zenon
<1>4. \/ EndsWith(fromModbus', marks, ValuesOf(g))
      \/ NoneOf(fromModbus', marks) /\ mReadOk'[n] /\ mHasValue'[n]
  BY <1>3, LeafUpdated, Zenon
<1> QED
  BY <1>4, Zenon DEF ReadComes

\* Commands, requests and connection changes keep reads announced or stored,
\* or silence the group.
LEMMA OtherKeepsReads ==
    ASSUME GatewayType, ReadsInv,
           \/ \E r \in Commands, ok \in BOOLEAN : \E values \in Contents(r) : Write(r, values, ok)
           \/ \E r \in Requests : \E values \in Contents(r) : Rpc(r, values)
           \/ \E ok \in BOOLEAN : Connect(ok)
           \/ Disconnect,
           NEW g \in Groups, NEW n \in Nodes, InRange(n, g), Settled(g)', g \notin silenced'
    PROVE  ReadComes(g, n)'
<1>1. UNCHANGED <<objectVars, mReadErrors>> /\ g \notin silenced
  BY OtherSends, Zenon
<1>2. mConnected' /\ g \notin toPoll' /\ mReadErrors'[g] = 0
  BY DEF Settled
<1>3. ~Disconnect
  BY <1>2, SMTT(30) DEF Disconnect
<1>4. ASSUME NEW ok \in BOOLEAN, Connect(ok) PROVE FALSE
  <2>1. ~mConnected /\ RefreshAfterConnect
    BY <1>2, <1>4, Zenon DEF Connect
  <2>2. mInitialPoll /\ g \notin toPoll
    BY <1>2, <2>1, Zenon DEF RefreshAfterConnect
  <2> QED
    BY <1>1, <2>1, <2>2, Zenon DEF ReadsInv, FreshInv
<1>5. mConnected /\ UNCHANGED toPoll
  BY <1>3, <1>4, Zenon DEF Write, Rpc, threadVars
<1>6. ReadComes(g, n)
  BY <1>1, <1>2, <1>5, Zenon DEF ReadsInv, Settled
<1>7. PICK m \in Message : fromModbus' = Append(fromModbus, m) /\ m \notin FailuresFor(g) \cup Downs
  BY <1>2, <1>5, OtherSends
<1> QED
  BY <1>1, <1>6, <1>7, SendKeepsReads

\* Every step keeps FreshInv: what is fresh was read without error since the connect.
LEMMA FreshKept ==
    ASSUME GatewayType, FreshInv, [Next]_vars
    PROVE  FreshInv'
<1>1. ASSUME NEW h \in Groups, NEW values \in Contents(h), PollSucceeds(h, values)
      PROVE  FreshInv'
  <2>1. /\ mConnected /\ mConnected' = mConnected /\ toPoll' = toPoll \ {h} /\ fresh' = fresh \cup {h}
    BY <1>1 DEF PollSucceeds, LeavesInitialPoll, PollOk
  <2>2. /\ lastRead'[h] = values /\ mLastValues'[h] = values /\ mReadErrors'[h] = 0
        /\ \A g \in Groups \ {h} : /\ lastRead'[g] = lastRead[g] /\ mLastValues'[g] = mLastValues[g]
                                   /\ mReadErrors'[g] = mReadErrors[g]
    BY <1>1, PollSucceedsSends DEF GatewayType, PollType
  <2> QED
    BY <2>1, <2>2, Zenon DEF FreshInv, Settled
<1>2. ASSUME NEW h \in Groups, NEW long \in BOOLEAN, NEW retry \in BOOLEAN, PollFails(h, long, retry)
      PROVE  FreshInv'
  <2>1. /\ mConnected /\ mConnected' = mConnected /\ toPoll' \subseteq toPoll
        /\ UNCHANGED <<mLastValues, lastRead>> /\ fresh' = fresh \ {h}
        /\ \A g \in Groups : g # h => mReadErrors'[g] = mReadErrors[g]
    BY <1>2, PollFailsSends, Zenon DEF PollFails, LeavesInitialPoll
  <2> QED
    BY <2>1 DEF FreshInv, Settled
<1>3. ASSUME \/ \E r \in Commands, ok \in BOOLEAN : \E values \in Contents(r) : Write(r, values, ok)
             \/ \E r \in Requests : \E values \in Contents(r) : Rpc(r, values)
      PROVE  FreshInv'
  <2>1. mConnected /\ UNCHANGED <<threadVars, pollVars>>
    BY <1>3, Zenon DEF Write, WriteRegisters, Rpc, RpcRegisters
  <2> QED
    BY <2>1, Zenon DEF FreshInv, Settled, threadVars, pollVars
<1>4. ASSUME NEW ok \in BOOLEAN, Connect(ok)
      PROVE  FreshInv'
  <2>1. ~mConnected /\ UNCHANGED <<fresh, silenced>>
    BY <1>4 DEF Connect, pollVars, history
  <2>2. fresh' \cap Groups = {}
    BY <2>1 DEF FreshInv, Settled
  <2>3. ~mConnected' => UNCHANGED <<mInitialPoll, toPoll>>
    BY <1>4 DEF Connect
  <2> QED
    BY <2>1, <2>2, <2>3, SMTT(30) DEF FreshInv
<1>5. ASSUME Disconnect
      PROVE  FreshInv'
  <2>1. /\ fresh' = {} /\ UNCHANGED <<mInitialPoll, toPoll>>
        /\ silenced' = silenced \cup (IF mInitialPoll THEN Groups \ toPoll ELSE {})
    BY <1>5, Zenon DEF Disconnect, Silences
  <2> QED
    BY <2>1 DEF FreshInv
<1>6. ASSUME NEW due, ProcessMessage(due)
      PROVE  FreshInv'
  BY <1>6, Zenon DEF ProcessMessage, pollVars, threadVars, history, FreshInv, Settled
<1>7. ASSUME (\E restart \in BOOLEAN : LoseLink(restart)) \/ GainLink \/ UNCHANGED vars
      PROVE  FreshInv'
  <2>1. UNCHANGED <<pollVars, threadVars, history>>
    BY <1>7 DEF LoseLink, GainLink, vars
  <2> QED
    BY <2>1, Zenon DEF pollVars, threadVars, history, FreshInv, Settled
<1> QED
  BY <1>1, <1>2, <1>3, <1>4, <1>5, <1>6, <1>7 DEF Next

\* Every step keeps reads announced or stored.
LEMMA ReadsKept ==
    ASSUME GatewayType, ReadsInv, [Next]_vars
    PROVE  ReadsInv'
<1>1. ASSUME NEW g \in Groups, NEW n \in Nodes, InRange(n, g), Settled(g)', g \notin silenced'
      PROVE  ReadComes(g, n)'
  <2>1. CASE (\E restart \in BOOLEAN : LoseLink(restart)) \/ GainLink \/ UNCHANGED vars
    <3>1. UNCHANGED <<objectVars, pollVars, threadVars, fromModbus, history>>
      BY <2>1 DEF LoseLink, LinkLost, GainLink, OnConnect, vars
    <3> QED
      BY <1>1, <3>1, Zenon DEF objectVars, pollVars, threadVars, history, ReadsInv, Settled, ReadComes
  <2> QED
    BY <1>1, <2>1, PollKeepsReads, FailureKeepsReads, OtherKeepsReads, ReceiveKeepsReads, Zenon DEF Next
<1> QED
  BY <1>1, FreshKept DEF ReadsInv

\* Once the queue is processed and the last read of every register of an
\* object was good, its flag is what they say, although pollRegisters sends
\* nothing for a register that is unchanged: for any objects, poll groups,
\* commands, requests and modes, with lost networks, long outages and
\* interrupted initial polls.  The ways in which the recovery fails are those
\* of the history variables: a poll that was silenced, or whose availability
\* registers were overlaid, is out of step until its next message, and no other
\* poll is.
THEOREM AvailableAlwaysAfterReads ==
    ASSUME Groups # {} PROVE Spec => []AvailableAfterReads
<1> DEFINE Inv == GatewayType /\ ValuesInv /\ ReadsInv
<1>1. Init => Inv
  <2> SUFFICES ASSUME Init PROVE ReadsInv
    BY InitialTypes, InitialValues
  <2>1. ~mConnected /\ toPoll = Groups /\ fresh = {}
    BY DEF Init, PollInit
  <2> QED
    BY <2>1, Zenon DEF ReadsInv, FreshInv, Settled
<1>2. Inv /\ [Next]_vars => Inv'
  BY TypeKept, ValuesKept, ReadsKept
<1>3. IInv /\ Inv => AvailableAfterReads
  <2> SUFFICES ASSUME IInv, Inv, fromModbus = <<>>, NEW o \in Objects,
                      GroupsOf(o) \subseteq fresh \ silenced,
                      \A g \in overlaid, n \in AvailNodesOf(o) : ~InRange(n, g)
               PROVE  mIsAvailable[o] = ReadFlag(o)
    BY DEF AvailableAfterReads
  <2>1. ASSUME NEW n \in NodesOf(o), NEW g \in Groups, InRange(n, g)
        PROVE  /\ mReadOk[n] /\ mHasValue[n]
               /\ n \in AvailNodesOf(o) => mValue[n] = lastRead[g][Register[n]]
    <3>1. n \in Nodes /\ g \in fresh /\ g \notin silenced
      BY <2>1 DEF NodesOf, GroupsOf, HasRegisterIn
    <3>2. ReadComes(g, n) /\ lastRead[g] = mLastValues[g]
      BY <2>1, <3>1, Zenon DEF ReadsInv, FreshInv
    <3>3. n \in AvailNodesOf(o) => ValueComes(g, n)
      BY <2>1, <3>1, Zenon DEF ValuesInv
    <3>4. \A E, F : ~EndsWith(fromModbus, E, F)
      BY DEF EndsWith
    <3> QED
      BY <3>2, <3>3, <3>4, Zenon DEF ReadComes, ValueComes
  <2>2. ASSUME NEW n \in NodesOf(o)
        PROVE  LET g == CHOOSE h \in Groups : InRange(n, h) IN g \in Groups /\ InRange(n, g)
    BY ClientAssumption, Zenon DEF NodesOf
  <2>3. \A n \in NodesOf(o) : mReadOk[n] /\ mHasValue[n]
    BY <2>1, <2>2, Zenon
  <2>4. AvailNodesOf(o) \subseteq NodesOf(o)
    BY DEF AvailNodesOf, NodesOf, Nodes
  <2>5. \A n \in AvailNodesOf(o) : mValue[n] = lastRead[CHOOSE g \in Groups : InRange(n, g)][Register[n]]
    BY <2>1, <2>2, <2>4, Zenon
  <2>6. [n \in AvailNodesOf(o) |-> mValue[n]]
          = [n \in AvailNodesOf(o) |-> lastRead[CHOOSE g \in Groups : InRange(n, g)][Register[n]]]
    BY <2>5
  <2>7. ComputedFlag(o) = ReadFlag(o)
    BY <2>3, <2>6, Zenon DEF ComputedFlag, ReadFlag, SaysAvailable
  <2> QED
    BY <2>7 DEF IInv, FlagCurrent
<1> QED
  BY <1>1, <1>2, <1>3, Invariance, PTL DEF Spec
=============================================================================
