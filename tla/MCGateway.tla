------------------------------ MODULE MCGateway ------------------------------
(***************************************************************************)
(* One slave with two poll groups, and an object with a state register in  *)
(* the first and an availability register in the second.  Commands and     *)
(* requests concern the first.                                             *)
(***************************************************************************)
EXTENDS Gateway

CONSTANTS o, s, a, u

MCFirst == {[unit |-> u, first |-> 1, count |-> 1]}
MCGroups == MCFirst \cup {[unit |-> u, first |-> 5, count |-> 1]}

MCObjectOf == [n \in Nodes |-> o]
MCUnit == [n \in Nodes |-> u]
MCRegister == [n \in Nodes |-> IF n = s THEN 1 ELSE 5]

MCAvailableWhen == [b \in Objects |-> {v \in [AvailNodesOf(b) -> Values] : \A n \in DOMAIN v : v[n] = 1}]
MCPayloadOf == [b \in Objects |-> [v \in StateValues(b) |-> v]]

MCPublishMode == [b \in Objects |-> "ON_CHANGE"]
MCPollMode == [g \in Groups |-> "ON_CHANGE"]
MCRetain == [b \in Objects |-> TRUE]
=============================================================================
