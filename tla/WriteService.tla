---------------------------- MODULE WriteService ----------------------------
(***************************************************************************)
(* What a modbus network promises to the clients that send it writes: the  *)
(* writes to one slave are tried in the order they were accepted, one at a *)
(* time, and a write is dropped only when it succeeded or when it failed   *)
(* once and then once more for each of its retries.                        *)
(***************************************************************************)
EXTENDS Naturals, Sequences

CONSTANTS Slaves, Writes, SlaveOf, Retries

VARIABLES
    pending,  \* [Slaves -> Seq(Writes)], writes accepted and not yet settled
    failed    \* [Writes -> Nat], failed tries of each write

serviceVars == <<pending, failed>>

Init ==
    /\ pending = [s \in Slaves |-> <<>>]
    /\ failed = [w \in Writes |-> 0]

Accept(w) ==
    /\ pending' = [pending EXCEPT ![SlaveOf[w]] = Append(@, w)]
    /\ UNCHANGED failed

\* The oldest write of slave s leaves, and is forgotten.
Settle(s) ==
    /\ pending' = [pending EXCEPT ![s] = Tail(@)]
    /\ failed' = [failed EXCEPT ![Head(pending[s])] = 0]

Succeed(s) == pending[s] # <<>> /\ Settle(s)

GiveUp(s) ==
    /\ pending[s] # <<>>
    /\ failed[Head(pending[s])] = Retries[Head(pending[s])]
    /\ Settle(s)

Fail(s) ==
    /\ pending[s] # <<>>
    /\ failed[Head(pending[s])] < Retries[Head(pending[s])]
    /\ failed' = [failed EXCEPT ![Head(pending[s])] = @ + 1]
    /\ UNCHANGED pending

Next ==
    \/ \E w \in Writes : Accept(w)
    \/ \E s \in Slaves : Succeed(s) \/ GiveUp(s) \/ Fail(s)

Spec == Init /\ [][Next]_serviceVars
=============================================================================
