-------------------------------- MODULE Rpc ---------------------------------
(***************************************************************************)
(* RPC requests (libmodmqttsrv/mqttclient.cpp): handleRpcRequest in the    *)
(* library's thread validates a request and sends a command to the modbus  *)
(* thread, the executor tries it (libmodmqttsrv/modbus_executor.cpp), and  *)
(* the main thread answers with what comes back.  Requests are numbered in *)
(* the order they arrive in; their replies carry the Correlation Data of   *)
(* the request, here its number.                                           *)
(***************************************************************************)
EXTENDS Integers, Sequences, FiniteSets

CONSTANTS
    Inputs,         \* the requests that may arrive, see RpcRequest
    RpcMode,        \* READ or READ_WRITE
    MaxRpcId,       \* -INT_MIN
    MaxRetries,     \* mMaxReadRetryCount and mMaxWriteRetryCount
    MaxRequests,    \* bound on the requests that arrive
    MaxStates       \* bound on the states of the link that the modbus thread has to read

\* What the fields of the JSON document say.  count: registers to read, or in
\* the value of a raw write; produced: registers the converter makes of it.
RpcRequest ==
    [responseTopic : BOOLEAN, wellFormed : BOOLEAN, network : BOOLEAN, converter : {"none", "ok", "bad"},
     type : {"HOLDING", "INPUT", "COIL", "BIT"}, isWrite : BOOLEAN, count : Nat, produced : Nat]

ASSUME RpcAssumption ==
    /\ \A q \in Inputs : q \in RpcRequest
    /\ RpcMode \in {"READ", "READ_WRITE"}
    /\ MaxRpcId \in Nat \ {0}
    /\ MaxRetries \in Nat /\ MaxRequests \in Nat /\ MaxStates \in Nat

VARIABLES
    mNextRpcId,
    mPendingRpc,   \* from ids to numbers of requests
    received,      \* number of requests that have arrived
    replies,       \* the replies to each request, in their order
    toModbus,      \* commands on their way to the modbus thread
    executor,      \* commands the executor holds, with the retries left
    fromModbus,    \* messages on their way to the main thread
    link,          \* up, closed (onDisconnect not called yet) or down
    cut,           \* history: requests whose answer a lost link has prevented
    mqttStates,    \* MsgMqttNetworkState messages on their way to the modbus thread
    mMqttConnected,
    mConnected     \* mModbus->isConnected()

\* what run() looks at before it calls executeNext
networks == <<mqttStates, mMqttConnected, mConnected>>

vars ==
    <<mNextRpcId, mPendingRpc, received, replies, toModbus, executor, fromModbus, link, cut, networks>>

Init ==
    /\ mNextRpcId = 0
    /\ mPendingRpc = <<>>
    /\ received = 0
    /\ replies = <<>>
    /\ toModbus = <<>>
    /\ executor = {}
    /\ fromModbus = <<>>
    /\ link = "up"
    /\ cut = {}
    /\ mqttStates = <<>>
    /\ mMqttConnected = TRUE
    /\ mConnected = FALSE

Waiting == {mPendingRpc[id] : id \in DOMAIN mPendingRpc}

OnTheWay ==
    {toModbus[i] : i \in DOMAIN toModbus} \cup executor \cup {fromModbus[i] : i \in DOMAIN fromModbus}

\* mPendingRpc without id
Erase(id) == [i \in DOMAIN mPendingRpc \ {id} |-> mPendingRpc[i]]

\* publishResponse for request n; the library drops it when there is no link
Answers(n, reply) ==
    IF link = "up"
    THEN replies' = [replies EXCEPT ![n] = Append(@, reply)] /\ UNCHANGED cut
    ELSE cut' = cut \cup {n} /\ UNCHANGED replies

----------------------------------------------------------------------------
(***************************************************************************)
(* handleRpcRequest                                                        *)
(***************************************************************************)
MaxCount(type) == IF type \in {"COIL", "BIT"} THEN 2000 ELSE 125

\* the request throws std::invalid_argument
Rejected(q) ==
    \/ ~q.wellFormed
    \/ q.converter = "bad"
    \/ ~q.network
    \/ q.isWrite /\ (RpcMode # "READ_WRITE" \/ q.type \in {"BIT", "INPUT"})
    \/ ~(q.isWrite /\ q.converter = "none") /\ q.count \notin 1 .. MaxCount(q.type)
    \/ q.isWrite /\ q.converter = "ok" /\ q.produced # q.count

\* ids count down and wrap before they overflow
NextRpcId == (IF mNextRpcId = -MaxRpcId THEN 0 ELSE mNextRpcId) - 1

RequestDropped(q) ==
    /\ ~q.responseTopic
    /\ replies' = Append(replies, <<>>)
    /\ cut' = cut \cup {received + 1}
    /\ UNCHANGED <<mNextRpcId, mPendingRpc, toModbus>>

RequestRejected_Silent(q) ==
    /\ q.responseTopic /\ Rejected(q)
    /\ replies' = Append(replies, <<>>)
    /\ UNCHANGED <<mNextRpcId, mPendingRpc, toModbus, cut>>

RequestRejected(q) ==
    /\ q.responseTopic /\ Rejected(q)
    /\ replies' = Append(replies, <<"error">>)
    /\ UNCHANGED <<mNextRpcId, mPendingRpc, toModbus, cut>>

\* ids are not used up: fewer than MaxRpcId requests arrive during one command
RequestAccepted(q) ==
    /\ q.responseTopic /\ ~Rejected(q)
    /\ \A c \in OnTheWay : received + 1 - c.number < MaxRpcId
    /\ mNextRpcId' = NextRpcId
    /\ mPendingRpc' = [id \in DOMAIN mPendingRpc \cup {NextRpcId} |->
                          IF id = NextRpcId THEN received + 1 ELSE mPendingRpc[id]]
    /\ toModbus' = Append(toModbus, [id |-> NextRpcId, isWrite |-> q.isWrite, number |-> received + 1])
    /\ replies' = Append(replies, <<>>)
    /\ UNCHANGED cut

HandleRpcRequest(q) ==
    /\ link = "up"
    /\ received < MaxRequests
    /\ received' = received + 1
    /\ RequestDropped(q) \/ RequestRejected(q) \/ RequestAccepted(q)
    /\ UNCHANGED <<executor, fromModbus, link, networks>>

----------------------------------------------------------------------------
(***************************************************************************)
(* The modbus thread.  The order of commands is left open, and their order *)
(* among the states of the link, which share the queue with them.          *)
(***************************************************************************)
DispatchMessage ==
    /\ toModbus # <<>>
    /\ LET c == Head(toModbus)
       IN  executor' = executor \cup {[id |-> c.id, isWrite |-> c.isWrite, number |-> c.number,
                                       retries |-> MaxRetries]}
    /\ toModbus' = Tail(toModbus)
    /\ UNCHANGED <<mNextRpcId, mPendingRpc, received, replies, fromModbus, link, cut, networks>>

DispatchState ==
    /\ mqttStates # <<>>
    /\ mMqttConnected' = Head(mqttStates)
    /\ mqttStates' = Tail(mqttStates)
    /\ UNCHANGED <<mNextRpcId, mPendingRpc, received, replies, toModbus, executor, fromModbus, link, cut,
                   mConnected>>

\* connect(), tried again as long as it fails; the watchdog closes the network
ModbusState ==
    /\ mConnected' = ~mConnected
    /\ UNCHANGED <<mNextRpcId, mPendingRpc, received, replies, toModbus, executor, fromModbus, link, cut,
                   mqttStates, mMqttConnected>>

Message(c, ok) == [id |-> c.id, number |-> c.number, ok |-> ok]

\* run() calls executeNext only with both networks
Executing == mConnected /\ mMqttConnected

\* pollRegisters, writeRegisters
CommandSucceeds(c) ==
    /\ Executing
    /\ executor' = executor \ {c}
    /\ fromModbus' = Append(fromModbus, Message(c, TRUE))
    /\ UNCHANGED <<mNextRpcId, mPendingRpc, received, replies, toModbus, link, cut, networks>>

\* A write reports every try that fails, a read the last one.
CommandFails(c) ==
    /\ Executing
    /\ executor' = (executor \ {c}) \cup
           (IF c.retries > 0 THEN {[c EXCEPT !.retries = @ - 1]} ELSE {})
    /\ fromModbus' = IF c.isWrite \/ c.retries = 0 THEN Append(fromModbus, Message(c, FALSE))
                                                   ELSE fromModbus
    /\ UNCHANGED <<mNextRpcId, mPendingRpc, received, replies, toModbus, link, cut, networks>>

----------------------------------------------------------------------------
(***************************************************************************)
(* The main thread                                                         *)
(***************************************************************************)
\* the converter of a read may fail on the values
Outcomes(m) == IF m.ok THEN {"ok", "error"} ELSE {"error"}

ProcessMessage_Kept ==
    /\ fromModbus # <<>>
    /\ fromModbus' = Tail(fromModbus)
    /\ LET m == Head(fromModbus)
       IN  IF m.id \in DOMAIN mPendingRpc
           THEN /\ \E reply \in Outcomes(m) : Answers(mPendingRpc[m.id], reply)
                /\ mPendingRpc' = IF \E c \in executor : c.id = m.id THEN mPendingRpc ELSE Erase(m.id)
           ELSE UNCHANGED <<mPendingRpc, replies, cut>>
    /\ UNCHANGED <<mNextRpcId, received, toModbus, executor, link, networks>>

\* publishRpcResponse and publishRpcError
ProcessMessage ==
    /\ fromModbus # <<>>
    /\ fromModbus' = Tail(fromModbus)
    /\ LET m == Head(fromModbus)
       IN  IF m.id \in DOMAIN mPendingRpc
           THEN /\ \E reply \in Outcomes(m) : Answers(mPendingRpc[m.id], reply)
                /\ mPendingRpc' = Erase(m.id)
           ELSE UNCHANGED <<mPendingRpc, replies, cut>>
    /\ UNCHANGED <<mNextRpcId, received, toModbus, executor, link, networks>>

LinkLost ==
    /\ link = "up"
    /\ Len(mqttStates) < MaxStates
    /\ link' = "closed"
    /\ UNCHANGED <<mNextRpcId, mPendingRpc, received, replies, toModbus, executor, fromModbus, cut, networks>>

\* sendMqttNetworkIsUp
SendState(up) == mqttStates' = Append(mqttStates, up) /\ UNCHANGED <<mMqttConnected, mConnected>>

OnDisconnect_Restart ==
    /\ link = "closed"
    /\ link' = "down"
    /\ mPendingRpc' = <<>>
    /\ mNextRpcId' = 0
    /\ cut' = cut \cup Waiting
    /\ SendState(FALSE)
    /\ UNCHANGED <<received, replies, toModbus, executor, fromModbus>>

\* onDisconnect forgets all requests
OnDisconnect ==
    /\ link = "closed"
    /\ link' = "down"
    /\ mPendingRpc' = <<>>
    /\ cut' = cut \cup Waiting
    /\ SendState(FALSE)
    /\ UNCHANGED <<mNextRpcId, received, replies, toModbus, executor, fromModbus>>

OnConnect ==
    /\ link = "down"
    /\ Len(mqttStates) < MaxStates
    /\ link' = "up"
    /\ SendState(TRUE)
    /\ UNCHANGED <<mNextRpcId, mPendingRpc, received, replies, toModbus, executor, fromModbus, cut>>

Execute == \E c \in executor : CommandSucceeds(c) \/ CommandFails(c)

Next ==
    \/ \E q \in Inputs : HandleRpcRequest(q)
    \/ DispatchMessage \/ DispatchState \/ ModbusState
    \/ Execute
    \/ ProcessMessage
    \/ LinkLost \/ OnDisconnect \/ OnConnect

Spec == Init /\ [][Next]_vars

\* The threads run, and a lost link is reported.  Between two reconnections a
\* command is executed when its turn comes (WritesSettle and PollsSent in
\* ModbusExecutor).  Nothing makes the modbus network or the broker come back.
LiveSpec ==
    /\ Spec
    /\ WF_vars(DispatchMessage) /\ WF_vars(DispatchState)
    /\ WF_vars(ProcessMessage) /\ WF_vars(OnDisconnect)
    /\ \A n \in 1 .. MaxRequests :
          WF_vars(\E c \in executor : c.number = n /\ (CommandSucceeds(c) \/ CommandFails(c)))

----------------------------------------------------------------------------
(***************************************************************************)
(* Properties                                                              *)
(***************************************************************************)

\* "modmqttd always replies once": no request is answered twice, although a
\* write that is tried again reports each failure.
RepliesOnce == \A n \in DOMAIN replies : Len(replies[n]) <= 1

\* A request that waits for its answer has its own command or message on the
\* way, and no other under the same id: not that of a request that a lost link
\* has cut off, and not that of another request after the ids have wrapped.
PendingOnTheWay ==
    \A id \in DOMAIN mPendingRpc :
        /\ \E c \in OnTheWay : c.id = id
        /\ \A c \in OnTheWay : c.id = id => c.number = mPendingRpc[id]

\* "modmqttd always replies once": a request with a Response Topic is answered
\* once the modbus network is there to stay, unless the link to the broker is
\* lost before.  Without the network its command waits, and so does the client.
RequestsAnswered ==
    \A n \in 1 .. MaxRequests :
        <>[]mConnected =>
            (n \in DOMAIN replies ~> n \in cut \/ (n \in DOMAIN replies /\ replies[n] # <<>>))
=============================================================================
