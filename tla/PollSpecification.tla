------------------------- MODULE PollSpecification --------------------------
(***************************************************************************)
(* MsgRegisterPollSpecification (libmodmqttsrv/modbus_messages.cpp): the   *)
(* registers to poll in one network, a sequence of register ranges.  A     *)
(* range that is added is merged with all ranges it overlaps.              *)
(***************************************************************************)
EXTENDS Integers, Sequences, FiniteSetsExt

INVALID_REFRESH == -1

RegisterTypes == {"coil", "bit", "holding", "input"}

PublishModes == {"ON_CHANGE", "EVERY_POLL", "ONCE"}

\* of a MsgRegisterPoll; a poll group of the modbus section has no refresh
PollGroup(slave, type, register, count) ==
    [slave |-> slave, type |-> type, register |-> register, count |-> count,
     refresh |-> INVALID_REFRESH, mode |-> "ON_CHANGE"]

LastRegister(p) == p.register + p.count - 1

Registers(p) == p.register .. LastRegister(p)

Overlaps(p, q) ==
    /\ p.type = q.type
    /\ p.register <= LastRegister(q)
    /\ q.register <= LastRegister(p)

\* the shortest poll period
MergedRefresh(refresh, other) ==
    IF refresh = INVALID_REFRESH \/ (other # INVALID_REFRESH /\ refresh > other) THEN other ELSE refresh

MergedMode(mode, other) ==
    CASE mode = "EVERY_POLL" -> mode
      [] mode = "ON_CHANGE" -> IF other = "EVERY_POLL" THEN other ELSE mode
      [] mode = "ONCE" -> other

\* MsgRegisterPoll::merge
MergePoll(p, other) ==
    LET first == Min({p.register, other.register})
        last == Max({LastRegister(p), LastRegister(other)})
    IN [p EXCEPT !.register = first, !.count = last - first + 1,
                 !.refresh = MergedRefresh(@, other.refresh),
                 !.mode = MergedMode(@, other.mode)]

Merge_First(spec, poll) ==
    LET hit(r) == r.slave = poll.slave /\ Overlaps(poll, r)
    IN IF \E i \in DOMAIN spec : hit(spec[i])
       THEN LET i == Min({j \in DOMAIN spec : hit(spec[j])})
            IN SubSeq(spec, 1, i - 1) \o SubSeq(spec, i + 1, Len(spec)) \o <<MergePoll(poll, spec[i])>>
       ELSE Append(spec, poll)

\* The entries that overlap with poll are taken out in one pass and merged
\* into it, and the result goes to the end.
Merge(spec, poll) ==
    LET hit(r) == r.slave = poll.slave /\ Overlaps(poll, r)
        rest[k \in 0 .. Len(spec)] ==
            IF k = 0 THEN <<>>
            ELSE IF hit(spec[k]) THEN rest[k - 1] ELSE Append(rest[k - 1], spec[k])
        merged[k \in 0 .. Len(spec)] ==
            IF k = 0 THEN poll
            ELSE IF hit(spec[k]) THEN MergePoll(merged[k - 1], spec[k]) ELSE merged[k - 1]
    IN Append(rest[Len(spec)], merged[Len(spec)])

MergeAll(spec, polls) ==
    LET after[k \in 0 .. Len(polls)] ==
            IF k = 0 THEN spec ELSE Merge(after[k - 1], polls[k])
    IN after[Len(polls)]
=============================================================================
