----------------------------- MODULE MqttClient -----------------------------
(***************************************************************************)
(* What the MQTT client publishes (libmodmqttsrv/mqttclient.cpp) and what  *)
(* the broker retains.  The client is past its first onConnect and not     *)
(* shut down: mConnectionState stays CONNECTED, also while the link to the *)
(* broker is lost, and messages are then dropped by the mosquitto library. *)
(***************************************************************************)
EXTENDS MqttObject

CONSTANTS
    PublishMode,   \* of an object: "ON_CHANGE", "EVERY_POLL" or "ONCE"
    Retain,        \* of an object
    PayloadOf,     \* PayloadOf[o]: from the values of the state leaves to a payload
    NoPayload      \* nothing published or retained

StateValues(o) == [StateNodesOf(o) -> Values]

ASSUME ClientAssumption ==
    /\ PublishMode \in [Objects -> Modes]
    /\ Retain \in [Objects -> BOOLEAN]
    /\ \A o \in Objects : \A v \in StateValues(o) : PayloadOf[o][v] # NoPayload
    /\ \A n \in Nodes : \E g \in Groups : InRange(n, g)

VARIABLES
    mLastPublishedPayload,
    mPublished,        \* mLastPublishTime is not time_point::min()
    linkUp,            \* messages reach the broker
    retainedState,     \* the broker's retained message of each state topic
    retainedFlag       \* the broker's retained message of each availability topic

clientVars == <<mLastPublishedPayload, mPublished, linkUp, retainedState, retainedFlag>>

ClientInit ==
    /\ mLastPublishedPayload = [o \in Objects |-> NoPayload]
    /\ mPublished = [o \in Objects |-> FALSE]
    /\ linkUp = TRUE
    /\ retainedState = [o \in Objects |-> NoPayload]
    /\ retainedFlag = [o \in Objects |-> NotSet]

\* MqttPayload::generate
Payload(o) == PayloadOf[o][[n \in StateNodesOf(o) |-> mValue[n]]]

\* The objects that mObjects maps the start of range r to
ObjectsAt(r) ==
    {o \in Objects : \E g \in Groups :
        g.unit = r.unit /\ g.first = r.first /\ HasRegisterIn(o, g)}

\* The objects that mCommandObjects maps a command with range r to
CommandObjects(r) == {o \in Objects : HasRegisterIn(o, r)}

\* publishState(o, force) sends a message; the object has been updated.
PublishesState(o, force) ==
    /\ mIsAvailable'[o] = True
    /\ PublishMode[o] = "ONCE" => ~mPublished[o]
    /\ force \/ Payload(o)' # mLastPublishedPayload[o]

\* needStateRepublish; mEveryPollPeriod has passed for the objects in due.
NeedStateRepublish(o, due) ==
    PublishMode[o] = "EVERY_POLL" /\ (~mPublished[o] \/ o \in due)

(***************************************************************************)
(* One handler publishes the states of some objects, clears the retained   *)
(* state of some, remembering their payload, and publishes the flags of    *)
(* some.  linkUp' says whether the messages arrive.                        *)
(***************************************************************************)
Publish(states, cleared, flags) ==
    /\ mLastPublishedPayload' =
         [o \in Objects |-> IF o \in states \cup cleared THEN Payload(o)' ELSE mLastPublishedPayload[o]]
    /\ mPublished' = [o \in Objects |-> mPublished[o] \/ o \in states]
    /\ retainedState' =
         [o \in Objects |-> IF linkUp' /\ o \in states /\ Retain[o] THEN Payload(o)'
                            ELSE IF linkUp' /\ o \in cleared THEN NoPayload
                            ELSE retainedState[o]]
    /\ retainedFlag' =
         [o \in Objects |-> IF linkUp' /\ o \in flags /\ mIsAvailable'[o] # NotSet
                            THEN mIsAvailable'[o]
                            ELSE retainedFlag[o]]

----------------------------------------------------------------------------
(***************************************************************************)
(* Handlers of the messages from the modbus thread                         *)
(***************************************************************************)

\* Mutant: an object that becomes available publishes a changed payload only.
StatesPublished_Unforced(affected, due) ==
    LET changed == {o \in affected : mIsAvailable'[o] # mIsAvailable[o]}
    IN  {o \in affected : PublishesState(o, o \notin changed /\ NeedStateRepublish(o, due))}

\* The state is published when the object becomes available, if it is retained
\* or published at every poll, and otherwise when the flag stays as it is.
StatesPublished(affected, due) ==
    LET changed == {o \in affected : mIsAvailable'[o] # mIsAvailable[o]}
    IN  {o \in changed : /\ Retain[o] \/ PublishMode[o] = "EVERY_POLL"
                         /\ PublishesState(o, TRUE)}
        \cup {o \in affected \ changed : PublishesState(o, NeedStateRepublish(o, due))}

ProcessRegisterValues(affected, r, values, due) ==
    /\ UpdateRegisterValues(affected, r, values)
    /\ UNCHANGED linkUp
    /\ LET changed == {o \in affected : mIsAvailable'[o] # mIsAvailable[o]}
           cleared == {o \in changed : /\ mIsAvailable[o] = NotSet /\ mIsAvailable'[o] = True
                                       /\ ~Retain[o]}
       IN  Publish(StatesPublished(affected, due), cleared, changed)

ProcessRegistersOperationFailed(r) ==
    /\ UpdateRegistersReadFailed(ObjectsAt(r), r)
    /\ UNCHANGED linkUp
    /\ Publish({o \in ObjectsAt(r) : PublishesState(o, FALSE)}, {},
               {o \in ObjectsAt(r) : mIsAvailable'[o] # mIsAvailable[o]})

\* A network that is up again waits for the initial poll.
ProcessModbusNetworkState(isUp) ==
    IF isUp
    THEN UNCHANGED <<objectVars, clientVars>>
    ELSE /\ SetModbusNetworkDown
         /\ UNCHANGED linkUp
         /\ Publish({}, {}, {o \in Objects : mIsAvailable'[o] # mIsAvailable[o]})

----------------------------------------------------------------------------
(***************************************************************************)
(* The link to the broker                                                  *)
(***************************************************************************)

\* onDisconnect changes nothing here; a broker that restarts forgets what it retained.
LinkLost(restart) ==
    /\ linkUp
    /\ linkUp' = FALSE
    /\ retainedState' = IF restart THEN [o \in Objects |-> NoPayload] ELSE retainedState
    /\ retainedFlag' = IF restart THEN [o \in Objects |-> NotSet] ELSE retainedFlag
    /\ UNCHANGED <<objectVars, mLastPublishedPayload, mPublished>>

\* Mutant: publishAll publishes no availability.
PublishAll_StateOnly == Publish({o \in Objects : PublishesState(o, TRUE)}, {}, {})

PublishAll == Publish({o \in Objects : PublishesState(o, TRUE)}, {}, Objects)

OnConnect ==
    /\ ~linkUp
    /\ linkUp' = TRUE
    /\ UNCHANGED objectVars
    /\ PublishAll

----------------------------------------------------------------------------
ClientTypeOK ==
    /\ ObjectTypeOK
    /\ mPublished \in [Objects -> BOOLEAN]
    /\ linkUp \in BOOLEAN
    /\ retainedFlag \in [Objects -> Flags]

\* While the link is up the broker retains the flag of every object that has
\* one, after values, failures, network losses and broker restarts alike.
AvailabilityPublished ==
    linkUp => \A o \in Objects : mIsAvailable[o] # NotSet => retainedFlag[o] = mIsAvailable[o]

\* While the link is up the broker retains the current state of every available
\* object with a retained topic that is not published only once: a subscriber
\* that comes late sees no state older than the registers the object holds.
StatePublished ==
    linkUp => \A o \in Objects :
        Retain[o] /\ PublishMode[o] # "ONCE" /\ mIsAvailable[o] = True
            => retainedState[o] = Payload(o)
=============================================================================
