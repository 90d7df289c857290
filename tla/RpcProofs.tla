----------------------------- MODULE RpcProofs ------------------------------
(***************************************************************************)
(* No RPC request is answered twice or with the outcome of another, for    *)
(* any requests, any number of retries and any losses of the link.         *)
(***************************************************************************)
EXTENDS Rpc, SequenceTheorems, TLAPS

Reply == {"ok", "error"}

RpcType ==
    /\ received \in Nat
    /\ replies \in Seq(Seq(Reply))
    /\ Len(replies) = received

\* A request that is pending has not been answered, and has only one entry;
\* so the message that answers it takes its entry away.
PendingUnanswered ==
    /\ \A id \in DOMAIN mPendingRpc :
          mPendingRpc[id] \in 1 .. received /\ replies[mPendingRpc[id]] = <<>>
    /\ \A id, other \in DOMAIN mPendingRpc :
          mPendingRpc[id] = mPendingRpc[other] => id = other

IInv == RpcType /\ PendingUnanswered /\ RepliesOnce

\* A request that arrives gets the next number and at most one reply at once.
LEMMA ReplyAppended ==
    ASSUME RpcType, RepliesOnce, NEW r \in Seq(Reply), Len(r) <= 1,
           received' = received + 1, replies' = Append(replies, r)
    PROVE  /\ RpcType'
           /\ RepliesOnce'
           /\ received' = Len(replies')
           /\ \A n \in 1 .. received : replies'[n] = replies[n]
           /\ replies'[received + 1] = r
<1>1. /\ replies' \in Seq(Seq(Reply)) /\ Len(replies') = received + 1
      /\ \A n \in 1 .. received : replies'[n] = replies[n]
      /\ replies'[received + 1] = r
  BY AppendProperties DEF RpcType
<1>2. DOMAIN replies' = 1 .. received + 1 /\ DOMAIN replies = 1 .. received
  BY <1>1 DEF RpcType
<1>3. RepliesOnce'
  BY <1>1, <1>2 DEF RepliesOnce, RpcType
<1> QED
  BY <1>1, <1>3 DEF RpcType

\* The answer to a request that has none is its only one.
LEMMA ReplySent ==
    ASSUME RpcType, RepliesOnce, NEW n \in 1 .. received, replies[n] = <<>>, NEW reply \in Reply,
           UNCHANGED received, replies' = [replies EXCEPT ![n] = Append(@, reply)]
    PROVE  /\ RpcType'
           /\ RepliesOnce'
           /\ \A k \in 1 .. received : k # n => replies'[k] = replies[k]
<1>1. Append(replies[n], reply) = <<reply>>
  OBVIOUS
<1>2. <<reply>> \in Seq(Reply) /\ Len(<<reply>>) = 1
  OBVIOUS
<1>3. replies' = [replies EXCEPT ![n] = <<reply>>]
  BY <1>1
<1>4. replies' \in Seq(Seq(Reply)) /\ Len(replies') = received
  BY <1>2, <1>3, ExceptSeq DEF RpcType
<1>5. \A k \in 1 .. received : replies'[k] = IF k = n THEN <<reply>> ELSE replies[k]
  BY <1>3 DEF RpcType
<1>6. DOMAIN replies' = 1 .. received /\ DOMAIN replies = 1 .. received
  BY <1>4 DEF RpcType
<1>7. RepliesOnce'
  BY <1>2, <1>5, <1>6 DEF RepliesOnce
<1> QED
  BY <1>4, <1>5, <1>7 DEF RpcType

\* Handling a request, refused or registered, keeps the invariant.
LEMMA RequestPreserves ==
    ASSUME IInv, NEW q \in Inputs, HandleRpcRequest(q)
    PROVE  IInv'
<1> USE DEF IInv
<1>0. received' = received + 1 /\ received \in Nat
  BY DEF HandleRpcRequest, RpcType
<1>1. CASE RequestDropped(q) \/ RequestRejected(q)
  <2>1. PICK r \in Seq(Reply) : Len(r) <= 1 /\ replies' = Append(replies, r)
    <3>1. <<>> \in Seq(Reply) /\ Len(<<>>) = 0 /\ <<"error">> \in Seq(Reply) /\ Len(<<"error">>) = 1
      BY DEF Reply
    <3>2. replies' = Append(replies, <<>>) \/ replies' = Append(replies, <<"error">>)
      BY <1>1 DEF RequestDropped, RequestRejected
    <3>3. CASE replies' = Append(replies, <<>>)
      <4> WITNESS <<>> \in Seq(Reply)
      <4> QED
        BY <3>1, <3>3
    <3>4. CASE replies' = Append(replies, <<"error">>)
      <4> <<"error">> \in Seq(Reply)
        BY <3>1
      <4> WITNESS <<"error">> \in Seq(Reply)
      <4> QED
        BY <3>1, <3>4
    <3> QED
      BY <3>2, <3>3, <3>4
  <2>2. mPendingRpc' = mPendingRpc
    BY <1>1 DEF RequestDropped, RequestRejected
  <2>3. RpcType' /\ RepliesOnce' /\ \A n \in 1 .. received : replies'[n] = replies[n]
    BY <1>0, <2>1, ReplyAppended
  <2>4. PendingUnanswered'
    BY <1>0, <2>2, <2>3 DEF PendingUnanswered
  <2> QED
    BY <2>3, <2>4
<1>2. CASE RequestAccepted(q)
  <2>1. replies' = Append(replies, <<>>)
    BY <1>2 DEF RequestAccepted
  <2>0. <<>> \in Seq(Reply) /\ Len(<<>>) <= 1
    OBVIOUS
  <2>2. /\ RpcType' /\ RepliesOnce'
        /\ \A n \in 1 .. received : replies'[n] = replies[n]
        /\ replies'[received + 1] = <<>>
    BY <1>0, <2>0, <2>1, ReplyAppended, Zenon
  <2>3. /\ DOMAIN mPendingRpc' = DOMAIN mPendingRpc \cup {NextRpcId}
        /\ \A id \in DOMAIN mPendingRpc' :
              mPendingRpc'[id] = IF id = NextRpcId THEN received + 1 ELSE mPendingRpc[id]
    BY <1>2 DEF RequestAccepted
  <2>4. \A id \in DOMAIN mPendingRpc : mPendingRpc[id] # received + 1
    BY <1>0 DEF PendingUnanswered
  <2>5. PendingUnanswered'
    BY <1>0, <2>2, <2>3, <2>4 DEF PendingUnanswered
  <2> QED
    BY <2>2, <2>5
<1> QED
  BY <1>1, <1>2 DEF HandleRpcRequest

\* Processing a message from Modbus, stale or awaited, keeps the invariant.
LEMMA MessagePreserves ==
    ASSUME IInv, ProcessMessage
    PROVE  IInv'
<1> USE DEF IInv
<1> DEFINE m == Head(fromModbus)
<1>0. UNCHANGED received
  BY DEF ProcessMessage
<1>1. CASE m.id \notin DOMAIN mPendingRpc
  <2>1. UNCHANGED <<mPendingRpc, received, replies>>
    BY <1>1 DEF ProcessMessage
  <2> QED
    BY <2>1 DEF RpcType, PendingUnanswered, RepliesOnce
<1>2. CASE m.id \in DOMAIN mPendingRpc
  <2> DEFINE n == mPendingRpc[m.id]
  <2>1. n \in 1 .. received /\ replies[n] = <<>>
    BY <1>2 DEF PendingUnanswered
  <2>2. /\ DOMAIN mPendingRpc' = DOMAIN mPendingRpc \ {m.id}
        /\ \A id \in DOMAIN mPendingRpc' : mPendingRpc'[id] = mPendingRpc[id] /\ mPendingRpc'[id] # n
    <3>1. mPendingRpc' = Erase(m.id)
      BY <1>2 DEF ProcessMessage
    <3> QED
      BY <1>2, <3>1 DEF Erase, PendingUnanswered
  <2>3. PICK reply \in Outcomes(m) : Answers(n, reply)
    BY <1>2 DEF ProcessMessage
  <2>4. reply \in Reply
    BY <2>3 DEF Outcomes, Reply
  <2>5. CASE UNCHANGED replies
    BY <1>0, <2>2, <2>5 DEF RpcType, PendingUnanswered, RepliesOnce
  <2>6. CASE replies' = [replies EXCEPT ![n] = Append(@, reply)]
    <3>1. /\ RpcType' /\ RepliesOnce'
          /\ \A k \in 1 .. received : k # n => replies'[k] = replies[k]
      BY <1>0, <2>1, <2>4, <2>6, ReplySent, Zenon
    <3>2. PendingUnanswered'
      BY <1>0, <2>2, <3>1 DEF PendingUnanswered
    <3> QED
      BY <3>1, <3>2
  <2> QED
    BY <2>3, <2>5, <2>6 DEF Answers
<1> QED
  BY <1>1, <1>2

\* "modmqttd always replies once" (mqttclient.cpp, publishRpcResponse and
\* publishRpcError): a request never gets a second reply, although a write
\* that is tried again reports each failure.
THEOREM RepliesAlwaysOnce == Spec => []RepliesOnce
<1>1. Init => IInv
  BY DEF Init, IInv, RpcType, PendingUnanswered, RepliesOnce
<1>2. IInv /\ [Next]_vars => IInv'
  <2> SUFFICES ASSUME IInv, [Next]_vars PROVE IInv'
    OBVIOUS
  <2>1. CASE \E q \in Inputs : HandleRpcRequest(q)
    BY <2>1, RequestPreserves
  <2>2. CASE ProcessMessage
    BY <2>2, MessagePreserves
  <2>3. CASE OnDisconnect
    BY <2>3 DEF OnDisconnect, IInv, RpcType, PendingUnanswered, RepliesOnce
  <2>4. CASE DispatchMessage \/ DispatchState \/ ModbusState \/ Execute \/ LinkLost \/ OnConnect
             \/ UNCHANGED vars
    <3>1. UNCHANGED <<mPendingRpc, received, replies>>
      BY <2>4, Zenon DEF DispatchMessage, DispatchState, ModbusState, Execute, CommandSucceeds, CommandFails, LinkLost, OnConnect, vars
    <3> QED
      BY <3>1 DEF IInv, RpcType, PendingUnanswered, RepliesOnce
  <2> QED
    BY <2>1, <2>2, <2>3, <2>4 DEF Next
<1>3. IInv => RepliesOnce
  BY DEF IInv
<1> QED
  BY <1>1, <1>2, <1>3, PTL DEF Spec

----------------------------------------------------------------------------
(***************************************************************************)
(* Requests and the commands under their ids                               *)
(***************************************************************************)
Sent == [id : Int, isWrite : BOOLEAN, number : Nat]
Held == [id : Int, isWrite : BOOLEAN, number : Nat, retries : Nat]
Returned == [id : Int, number : Nat, ok : BOOLEAN]

TravelType == toModbus \in Seq(Sent) /\ executor \subseteq Held /\ fromModbus \in Seq(Returned)

\* how many ids have been given out since this one
GivenSince(id) ==
    IF id >= mNextRpcId THEN id - mNextRpcId ELSE id - mNextRpcId + MaxRpcId

\* Ids are given out one after the other and each to one request, so there
\* are no more of them after an id than requests after its request.
IdsFollowRequests ==
    /\ received \in Nat
    /\ mNextRpcId \in -MaxRpcId .. 0
    /\ \A c \in OnTheWay :
          /\ mNextRpcId # 0
          /\ c.id \in -MaxRpcId .. -1
          /\ c.number \in 1 .. received
          /\ GivenSince(c.id) <= received - c.number

WayInv == TravelType /\ IdsFollowRequests /\ PendingOnTheWay

Elements(s) == {s[i] : i \in DOMAIN s}

\* Appending adds one element.
LEMMA AppendElements ==
    ASSUME NEW S, NEW s \in Seq(S), NEW e \in S
    PROVE  Elements(Append(s, e)) = Elements(s) \cup {e}
<1>1. /\ DOMAIN Append(s, e) = 1 .. Len(s) + 1 /\ DOMAIN s = 1 .. Len(s) /\ Len(s) \in Nat
      /\ Append(s, e)[Len(s) + 1] = e
      /\ \A i \in 1 .. Len(s) : Append(s, e)[i] = s[i]
  BY AppendProperties
<1>2. 1 .. Len(s) + 1 = (1 .. Len(s)) \cup {Len(s) + 1}
  BY <1>1
<1> QED
  BY <1>1, <1>2 DEF Elements

\* A sequence holds its head and what its tail holds.
LEMMA HeadTailElements ==
    ASSUME NEW S, NEW s \in Seq(S), s # <<>>
    PROVE  Elements(s) = {Head(s)} \cup Elements(Tail(s)) /\ Head(s) \in S /\ Tail(s) \in Seq(S)
<1>1. /\ Len(s) \in Nat \ {0} /\ DOMAIN s = 1 .. Len(s) /\ Head(s) = s[1] /\ Head(s) \in S
      /\ Tail(s) \in Seq(S) /\ DOMAIN Tail(s) = 1 .. Len(s) - 1
      /\ \A i \in 1 .. Len(s) - 1 : Tail(s)[i] = s[i + 1]
  BY HeadTailProperties
<1>2. \A i \in 1 .. Len(s) : i = 1 \/ (i - 1 \in 1 .. Len(s) - 1 /\ s[i] = Tail(s)[i - 1])
  BY <1>1
<1>3. 1 \in 1 .. Len(s) /\ \A i \in 1 .. Len(s) - 1 : i + 1 \in 1 .. Len(s)
  BY <1>1
<1>4. ASSUME NEW e \in Elements(s) PROVE e \in {Head(s)} \cup Elements(Tail(s))
  <2>1. PICK i \in 1 .. Len(s) : e = s[i]
    BY <1>1 DEF Elements
  <2>2. CASE i = 1
    BY <1>1, <2>1, <2>2
  <2>3. CASE i - 1 \in DOMAIN Tail(s) /\ e = Tail(s)[i - 1]
    BY <2>3, Zenon DEF Elements
  <2> QED
    BY <1>1, <1>2, <2>1, <2>2, <2>3
<1>5. ASSUME NEW e \in {Head(s)} \cup Elements(Tail(s)) PROVE e \in Elements(s)
  <2>1. CASE e = Head(s)
    BY <1>1, <1>3, <2>1 DEF Elements
  <2>2. CASE e \in Elements(Tail(s))
    <3>1. PICK i \in 1 .. Len(s) - 1 : e = Tail(s)[i]
      BY <1>1, <2>2 DEF Elements
    <3> QED
      BY <1>1, <1>3, <3>1 DEF Elements
  <2> QED
    BY <2>1, <2>2
<1> QED
  BY <1>1, <1>4, <1>5

\* The commands on the way are those in the two queues and in the executor.
LEMMA WayElements == OnTheWay = Elements(toModbus) \cup executor \cup Elements(fromModbus)
BY DEF OnTheWay, Elements

\* what the invariant says of a command or message
Same(c, d) == c.id = d.id /\ c.number = d.number

\* A command that goes on to the executor or a message that comes back
\* takes its id and number with it.
LEMMA WayKept ==
    ASSUME WayInv, TravelType',
           UNCHANGED <<mNextRpcId, mPendingRpc, received>>,
           \A c \in OnTheWay : \E d \in OnTheWay' : Same(c, d),
           \A d \in OnTheWay' : \E c \in OnTheWay : Same(c, d)
    PROVE  WayInv'
<1>1. IdsFollowRequests'
  BY DEF WayInv, IdsFollowRequests, GivenSince, Same
<1>2. PendingOnTheWay'
  BY DEF WayInv, PendingOnTheWay, Same
<1> QED
  BY <1>1, <1>2 DEF WayInv

\* The Modbus thread taking a command keeps it on the way.
LEMMA DispatchKeepsWay == ASSUME WayInv, DispatchMessage PROVE WayInv'
<1> DEFINE c == Head(toModbus)
           d == [id |-> c.id, isWrite |-> c.isWrite, number |-> c.number, retries |-> MaxRetries]
<1>1. /\ Elements(toModbus) = {c} \cup Elements(Tail(toModbus))
      /\ c \in Sent
      /\ Tail(toModbus) \in Seq(Sent)
  BY HeadTailElements DEF WayInv, TravelType, DispatchMessage
<1>2. /\ toModbus' = Tail(toModbus) /\ executor' = executor \cup {d}
      /\ UNCHANGED <<mNextRpcId, mPendingRpc, received, fromModbus>>
  BY DEF DispatchMessage
<1>3. d \in Held /\ Same(c, d)
  BY <1>1, RpcAssumption DEF Same, Sent, Held
<1>4. TravelType'
  BY <1>1, <1>2, <1>3 DEF WayInv, TravelType
<1>5. OnTheWay = Elements(Tail(toModbus)) \cup {c} \cup executor \cup Elements(fromModbus)
  BY <1>1, WayElements
<1>6. OnTheWay' = Elements(Tail(toModbus)) \cup {d} \cup executor \cup Elements(fromModbus)
  BY <1>2 DEF OnTheWay, Elements
<1>7. \A e \in OnTheWay : Same(e, e)
  BY DEF Same
<1>8. /\ \A e \in OnTheWay : \E f \in OnTheWay' : Same(e, f)
      /\ \A f \in OnTheWay' : \E e \in OnTheWay : Same(e, f)
  BY <1>3, <1>5, <1>6, <1>7
<1> QED
  BY <1>2, <1>4, <1>8, WayKept

\* Executing a command keeps it on the way, as an answer.
LEMMA ExecuteKeepsWay == ASSUME WayInv, Execute PROVE WayInv'
<1>1. PICK c \in executor : CommandSucceeds(c) \/ CommandFails(c)
  BY DEF Execute
<1>2. c \in Held
  BY DEF WayInv, TravelType
<1>3. \A ok \in BOOLEAN :
         Message(c, ok) \in Returned /\ Same(c, Message(c, ok))
  BY <1>2 DEF Message, Same, Held, Returned
<1>4. \A ok \in BOOLEAN :
         /\ Append(fromModbus, Message(c, ok)) \in Seq(Returned)
         /\ Elements(Append(fromModbus, Message(c, ok))) = Elements(fromModbus) \cup {Message(c, ok)}
  <2> TAKE ok \in BOOLEAN
  <2>1. fromModbus \in Seq(Returned)
    BY DEF WayInv, TravelType
  <2>2. Message(c, ok) \in Returned
    BY <1>3
  <2>3. Append(fromModbus, Message(c, ok)) \in Seq(Returned)
    BY <2>1, <2>2, AppendProperties
  <2> QED
    BY <2>1, <2>2, <2>3, AppendElements
<1>5. UNCHANGED <<mNextRpcId, mPendingRpc, received, toModbus>>
  BY <1>1, Zenon DEF CommandSucceeds, CommandFails
<1>6. \A e \in OnTheWay : Same(e, e)
  BY DEF Same
<1>7. OnTheWay' = Elements(toModbus) \cup executor' \cup Elements(fromModbus')
  BY <1>5 DEF OnTheWay, Elements
<1>8. CASE CommandSucceeds(c)
  <2>1. executor' = executor \ {c} /\ fromModbus' = Append(fromModbus, Message(c, TRUE))
    BY <1>8 DEF CommandSucceeds
  <2>2. TravelType'
    BY <1>4, <1>5, <2>1, Zenon DEF WayInv, TravelType
  <2>3. OnTheWay' = Elements(toModbus) \cup (executor \ {c}) \cup Elements(fromModbus)
                        \cup {Message(c, TRUE)}
    BY <1>4, <1>7, <2>1, Zenon
  <2>4. /\ \A e \in OnTheWay : \E f \in OnTheWay' : Same(e, f)
        /\ \A f \in OnTheWay' : \E e \in OnTheWay : Same(e, f)
    BY <1>3, <1>6, <2>3, WayElements, Zenon
  <2> QED
    BY <1>5, <2>2, <2>4, WayKept
<1>9. CASE CommandFails(c)
  <2> DEFINE again == [c EXCEPT !.retries = @ - 1]
  <2>1. c.retries > 0 =>
           again \in Held /\ Same(c, again)
    BY <1>2 DEF Same, Held
  <2>2. executor' = (executor \ {c}) \cup (IF c.retries > 0 THEN {again} ELSE {})
    BY <1>9 DEF CommandFails
  <2>3. CASE fromModbus' = Append(fromModbus, Message(c, FALSE))
    <3>1. TravelType'
      BY <1>4, <1>5, <2>1, <2>2, <2>3, Zenon DEF WayInv, TravelType
    <3>2. OnTheWay' = Elements(toModbus) \cup executor' \cup Elements(fromModbus)
                          \cup {Message(c, FALSE)}
      BY <1>4, <1>7, <2>3, Zenon
    <3>3. /\ \A e \in OnTheWay : \E f \in OnTheWay' : Same(e, f)
          /\ \A f \in OnTheWay' : \E e \in OnTheWay : Same(e, f)
      <4>1. \A f \in executor' : f \in executor \/ (f = again /\ c.retries > 0)
        BY <2>2
      <4>2. \A e \in executor : e \in executor' \/ e = c
        BY <2>2
      <4>3. Same(c, Message(c, FALSE)) /\ c \in OnTheWay /\ Message(c, FALSE) \in OnTheWay'
        BY <1>3, <3>2, WayElements, Zenon
      <4>4. \A e \in OnTheWay : e \in OnTheWay' \/ e = c
        BY <3>2, <4>2, WayElements, Zenon
      <4>5. \A f \in OnTheWay' : f \in OnTheWay \/ f = Message(c, FALSE) \/ (f = again /\ c.retries > 0)
        BY <3>2, <4>1, WayElements, Zenon
      <4> QED
        BY <1>6, <2>1, <4>3, <4>4, <4>5, Zenon
    <3> QED
      BY <1>5, <3>1, <3>3, WayKept
  <2>4. CASE fromModbus' = fromModbus /\ c.retries # 0
    <3>0. c.retries > 0
      BY <1>2, <2>4 DEF Held
    <3>1. executor' = (executor \ {c}) \cup {again}
      BY <2>2, <3>0
    <3>2. TravelType'
      BY <1>5, <2>1, <2>4, <3>0, <3>1 DEF WayInv, TravelType
    <3>3. OnTheWay' = Elements(toModbus) \cup (executor \ {c}) \cup {again} \cup Elements(fromModbus)
      BY <1>7, <2>4, <3>1
    <3>4. /\ \A e \in OnTheWay : \E f \in OnTheWay' : Same(e, f)
          /\ \A f \in OnTheWay' : \E e \in OnTheWay : Same(e, f)
      BY <1>6, <2>1, <3>0, <3>3, WayElements
    <3> QED
      BY <1>5, <3>2, <3>4, WayKept
  <2> QED
    BY <1>9, <2>3, <2>4, Zenon DEF CommandFails
<1> QED
  BY <1>1, <1>8, <1>9

\* The id that handleRpcRequest gives out is not that of a command on the
\* way: it comes up again after MaxRpcId ids, and so after as many requests.
LEMMA AcceptKeepsIds ==
    ASSUME IdsFollowRequests, \A c \in OnTheWay : received + 1 - c.number < MaxRpcId,
           mNextRpcId' = NextRpcId, received' = received + 1,
           NEW new, new.id = NextRpcId, new.number = received + 1,
           OnTheWay' = OnTheWay \cup {new}
    PROVE  IdsFollowRequests' /\ \A c \in OnTheWay : c.id # NextRpcId
<1> USE RpcAssumption
<1>1. NextRpcId \in -MaxRpcId .. -1 /\ received \in Nat
  BY DEF IdsFollowRequests, NextRpcId
<1>2. ASSUME NEW c \in OnTheWay
      PROVE  /\ c.id # NextRpcId
             /\ c.id \in -MaxRpcId .. -1 /\ c.number \in 1 .. received + 1
             /\ (IF c.id >= NextRpcId THEN c.id - NextRpcId ELSE c.id - NextRpcId + MaxRpcId)
                   <= received + 1 - c.number
  <2>1. /\ c.id \in -MaxRpcId .. -1 /\ c.number \in 1 .. received /\ mNextRpcId \in -MaxRpcId .. -1
        /\ GivenSince(c.id) <= received - c.number /\ received + 1 - c.number < MaxRpcId
    BY <1>1 DEF IdsFollowRequests
  <2> QED
    BY <1>1, <2>1 DEF GivenSince, NextRpcId
<1>3. IdsFollowRequests'
  BY <1>1, <1>2 DEF IdsFollowRequests, GivenSince
<1> QED
  BY <1>2, <1>3

\* A new request puts its command on the way under an id of its own.
LEMMA RequestKeepsWay == ASSUME WayInv, NEW q \in Inputs, HandleRpcRequest(q) PROVE WayInv'
<1>0. received' = received + 1 /\ UNCHANGED <<executor, fromModbus>> /\ received \in Nat
  BY DEF HandleRpcRequest, WayInv, IdsFollowRequests
<1>1. CASE RequestDropped(q) \/ RequestRejected(q)
  <2>1. UNCHANGED <<mNextRpcId, mPendingRpc, toModbus>>
    BY <1>1 DEF RequestDropped, RequestRejected
  <2>2. TravelType' /\ OnTheWay' = OnTheWay /\ PendingOnTheWay'
    BY <1>0, <2>1 DEF WayInv, TravelType, OnTheWay, PendingOnTheWay
  <2>3. IdsFollowRequests'
    BY <1>0, <2>1, <2>2, RpcAssumption DEF WayInv, IdsFollowRequests, GivenSince
  <2> QED
    BY <2>2, <2>3 DEF WayInv
<1>2. CASE RequestAccepted(q)
  <2> DEFINE new == [id |-> NextRpcId, isWrite |-> q.isWrite, number |-> received + 1]
  <2>1. /\ \A c \in OnTheWay : received + 1 - c.number < MaxRpcId
        /\ mNextRpcId' = NextRpcId
        /\ DOMAIN mPendingRpc' = DOMAIN mPendingRpc \cup {NextRpcId}
        /\ \A id \in DOMAIN mPendingRpc' :
              mPendingRpc'[id] = IF id = NextRpcId THEN received + 1 ELSE mPendingRpc[id]
        /\ toModbus' = Append(toModbus, new)
    BY <1>2 DEF RequestAccepted
  <2>2. new \in Sent
    BY <1>0, RpcAssumption DEF Sent, RpcRequest, NextRpcId, WayInv, IdsFollowRequests
  <2>3. toModbus' \in Seq(Sent) /\ Elements(toModbus') = Elements(toModbus) \cup {new}
    <3>1. toModbus \in Seq(Sent)
      BY DEF WayInv, TravelType
    <3> HIDE DEF new
    <3>2. Append(toModbus, new) \in Seq(Sent)
      BY <2>2, <3>1, AppendProperties
    <3> QED
      BY <2>1, <2>2, <3>1, <3>2, AppendElements
  <2>4. OnTheWay' = OnTheWay \cup {new}
    BY <1>0, <2>3, WayElements, Zenon DEF OnTheWay, Elements
  <2>5. TravelType'
    BY <1>0, <2>3 DEF WayInv, TravelType
  <2>6. IdsFollowRequests' /\ \A c \in OnTheWay : c.id # NextRpcId
    BY <1>0, <2>1, <2>4, AcceptKeepsIds DEF WayInv
  <2>7. PendingOnTheWay'
    <3>1. \A id \in DOMAIN mPendingRpc : id # NextRpcId
      BY <2>6 DEF WayInv, PendingOnTheWay
    <3> QED
      BY <2>1, <2>4, <2>6, <3>1 DEF WayInv, PendingOnTheWay
  <2> QED
    BY <2>5, <2>6, <2>7 DEF WayInv
<1> QED
  BY <1>1, <1>2 DEF HandleRpcRequest

\* An answer leaves the way only together with the pending request it is for.
LEMMA MessageKeepsWay == ASSUME WayInv, ProcessMessage PROVE WayInv'
<1> DEFINE m == Head(fromModbus)
<1>1. Elements(fromModbus) = {m} \cup Elements(Tail(fromModbus)) /\ Tail(fromModbus) \in Seq(Returned)
  BY HeadTailElements DEF WayInv, TravelType, ProcessMessage
<1>2. fromModbus' = Tail(fromModbus) /\ UNCHANGED <<mNextRpcId, received, toModbus, executor>>
  BY DEF ProcessMessage
<1>3. TravelType'
  BY <1>1, <1>2 DEF WayInv, TravelType
<1>4. OnTheWay' \subseteq OnTheWay /\ OnTheWay \subseteq OnTheWay' \cup {m}
  <2>1. OnTheWay' = Elements(toModbus) \cup executor \cup Elements(Tail(fromModbus))
    BY <1>2 DEF OnTheWay, Elements
  <2> QED
    BY <1>1, <2>1, WayElements
<1>5. IdsFollowRequests'
  BY <1>2, <1>4 DEF WayInv, IdsFollowRequests, GivenSince
<1>6. /\ DOMAIN mPendingRpc' = DOMAIN mPendingRpc \ {m.id}
      /\ \A id \in DOMAIN mPendingRpc' : mPendingRpc'[id] = mPendingRpc[id]
  BY Zenon DEF ProcessMessage, Erase
<1>7. PendingOnTheWay'
  BY <1>4, <1>6 DEF WayInv, PendingOnTheWay
<1> QED
  BY <1>3, <1>5, <1>7 DEF WayInv

\* A reply goes to the request whose command it is about (mqttclient.cpp,
\* mPendingRpc and mNextRpcId): a pending id names its own command on the way
\* and no other, over lost links and although ids wrap, as long as fewer than
\* MaxRpcId requests arrive during one command.
THEOREM PendingAlwaysOnTheWay == Spec => []PendingOnTheWay
<1>1. Init => WayInv
  <2> SUFFICES ASSUME Init PROVE WayInv
    OBVIOUS
  <2>1. OnTheWay = {} /\ DOMAIN mPendingRpc = {}
    BY DEF Init, OnTheWay
  <2>2. TravelType
    BY DEF Init, TravelType
  <2> QED
    BY <2>1, <2>2, RpcAssumption DEF Init, WayInv, IdsFollowRequests, PendingOnTheWay
<1>2. WayInv /\ [Next]_vars => WayInv'
  <2> SUFFICES ASSUME WayInv, [Next]_vars PROVE WayInv'
    OBVIOUS
  <2>1. CASE OnDisconnect
    <3>1. OnTheWay' = OnTheWay /\ DOMAIN mPendingRpc' = {} /\ UNCHANGED <<mNextRpcId, received>>
      BY <2>1 DEF OnDisconnect, OnTheWay
    <3>2. TravelType'
      BY <2>1 DEF OnDisconnect, WayInv, TravelType
    <3> QED
      BY <3>1, <3>2 DEF WayInv, IdsFollowRequests, GivenSince, PendingOnTheWay
  <2>2. CASE DispatchState \/ ModbusState \/ LinkLost \/ OnConnect \/ UNCHANGED vars
    <3>1. UNCHANGED <<mNextRpcId, mPendingRpc, received, toModbus, executor, fromModbus>>
      BY <2>2 DEF DispatchState, ModbusState, LinkLost, OnConnect, vars
    <3> QED
      BY <3>1 DEF WayInv, TravelType, IdsFollowRequests, GivenSince, PendingOnTheWay, OnTheWay
  <2> QED
    BY <2>1, <2>2, RequestKeepsWay, DispatchKeepsWay, ExecuteKeepsWay, MessageKeepsWay DEF Next
<1>3. WayInv => PendingOnTheWay
  BY DEF WayInv
<1> QED
  BY <1>1, <1>2, <1>3, PTL DEF Spec
=============================================================================
