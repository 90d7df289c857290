------------------------ MODULE ModbusRequestQueues ------------------------
(***************************************************************************)
(* The command queues of one modbus network, one ModbusRequestsQueues      *)
(* object per slave (libmodmqttsrv/modbus_request_queues.cpp).             *)
(*                                                                         *)
(* A command is an object identity: the code compares shared_ptrs.         *)
(*   Polls   RegisterPoll objects of the poll specification, long lived    *)
(*   Reads   RegisterPoll objects made for one RPC read                    *)
(*   Writes  RegisterWrite objects                                         *)
(* A one-shot identity may be used again once nothing refers to it.        *)
(***************************************************************************)
EXTENDS Integers, Sequences, FiniteSets, Functions

CONSTANTS
    Slaves,      \* slave addresses; std::map keeps the queues in this order
    Polls,
    Reads,
    Writes,
    SlaveOf,     \* RegisterCommand::mSlaveId
    Delay,       \* getDelayBeforeCommand(), 0 when there is none
    FirstDelay,  \* getDelayBeforeFirstCommand(), 0 when there is none
    Listed       \* Listed[R][s]: the polls R of slave s in specification order

PollCommands == Polls \cup Reads
Commands == PollCommands \cup Writes

ASSUME CommandAssumption ==
    /\ Slaves \subseteq Nat \ {0}
    /\ IsFiniteSet(Polls) /\ IsFiniteSet(Writes)
    /\ Writes \cap PollCommands = {} /\ Polls \cap Reads = {}
    /\ SlaveOf \in [Commands -> Slaves]
    /\ Delay \in [Commands -> Nat] /\ FirstDelay \in [Commands -> Nat]
    /\ Listed \in [SUBSET Polls -> [Slaves -> Seq(Polls)]]
    /\ \A R \in SUBSET Polls, s \in Slaves :
          Range(Listed[R][s]) = {p \in R : SlaveOf[p] = s}

VARIABLES
    mPollQueue,   \* [Slaves -> Seq(PollCommands)]
    mWriteQueue,  \* [Slaves -> Seq(Writes)]
    mPopFromPoll  \* [Slaves -> BOOLEAN], whose turn it is in popNext

queueVars == <<mPollQueue, mWriteQueue, mPopFromPoll>>

QueuesInit ==
    /\ mPollQueue = [s \in Slaves |-> <<>>]
    /\ mWriteQueue = [s \in Slaves |-> <<>>]
    /\ mPopFromPoll = [s \in Slaves |-> TRUE]

QueueEmpty(s) == mPollQueue[s] = <<>> /\ mWriteQueue[s] = <<>>

NonEmptyQueues == {s \in Slaves : ~QueueEmpty(s)}

\* The poll queues once the registers regs are added: a register already
\* waiting in its slave's queue is not added again.
WithPollList(regs) ==
    [s \in Slaves |-> mPollQueue[s] \o Listed[regs \ Range(mPollQueue[s])][s]]

----------------------------------------------------------------------------
(***************************************************************************)
(* popNext: polls and writes take turns while both queues have commands.   *)
(***************************************************************************)
\* Mutant: writes get no turn while there are polls.
TakesPoll_Greedy(s) == mPollQueue[s] # <<>>

TakesPoll(s) ==
    IF mPopFromPoll[s] THEN mPollQueue[s] # <<>> ELSE mWriteQueue[s] = <<>>

NextCommand(s) == IF TakesPoll(s) THEN Head(mPollQueue[s]) ELSE Head(mWriteQueue[s])

PopNext(s) ==
    /\ mPopFromPoll' = [mPopFromPoll EXCEPT ![s] = ~TakesPoll(s)]
    /\ IF TakesPoll(s)
       THEN /\ mPollQueue' = [mPollQueue EXCEPT ![s] = Tail(@)]
            /\ UNCHANGED mWriteQueue
       ELSE /\ mWriteQueue' = [mWriteQueue EXCEPT ![s] = Tail(@)]
            /\ UNCHANGED mPollQueue

\* Mutant: a write is queued in front of the older ones.
PushWrite_Front(w) ==
    /\ mWriteQueue' = [mWriteQueue EXCEPT ![SlaveOf[w]] = <<w>> \o @]
    /\ UNCHANGED <<mPollQueue, mPopFromPoll>>

PushWrite(w) ==
    /\ mWriteQueue' = [mWriteQueue EXCEPT ![SlaveOf[w]] = Append(@, w)]
    /\ UNCHANGED <<mPollQueue, mPopFromPoll>>

\* Mutant: the command is dropped.
ReaddCommand_Dropped(s, c) == UNCHANGED queueVars

\* Put a command that was popped and not sent back at the head of slave s.
ReaddCommand(s, c) ==
    /\ mPopFromPoll' = [mPopFromPoll EXCEPT ![s] = c \in PollCommands]
    /\ IF c \in PollCommands
       THEN /\ mPollQueue' = [mPollQueue EXCEPT ![s] = <<c>> \o @]
            /\ UNCHANGED mWriteQueue
       ELSE /\ mWriteQueue' = [mWriteQueue EXCEPT ![s] = <<c>> \o @]
            /\ UNCHANGED mPollQueue

----------------------------------------------------------------------------
(***************************************************************************)
(* findForSilencePeriod scans a poll queue once. It remembers the first    *)
(* register with a delay, then every later one whose delay is closer to    *)
(* the silence period than the delay remembered last is long, and stops at *)
(* an exact fit. Hits is the set of positions remembered on the way; the   *)
(* last of them is the register found.                                     *)
(***************************************************************************)
ScanDelay(c, ignoreFirst) ==
    IF ignoreFirst \/ FirstDelay[c] = 0 THEN Delay[c] ELSE FirstDelay[c]

Distance(a, b) == IF a < b THEN b - a ELSE a - b

IsLast(S, i) == i \in S /\ \A j \in S : j <= i

ScanHits(q, period, ignoreFirst, hits) ==
    \A i \in DOMAIN q :
        LET delay(j) == ScanDelay(q[j], ignoreFirst)
            before == {j \in hits : j < i}
        IN  i \in hits <=>
              /\ delay(i) # 0
              /\ \A j \in before : delay(j) # period
              /\ \/ before = {}
                 \/ delay(i) = period
                 \/ \E j \in before : /\ IsLast(before, j)
                                      /\ Distance(delay(i), period) < delay(j)

\* The position findForSilencePeriod stops at; 0 when no register has a delay.
FoundAt(q, period, ignoreFirst, i) ==
    \E hits \in SUBSET DOMAIN q :
        /\ ScanHits(q, period, ignoreFirst, hits)
        /\ IF hits = {} THEN i = 0 ELSE IsLast(hits, i)

\* popFirstWithDelay erases the register found at position i.
PopFirstWithDelay(q, i) == SubSeq(q, 1, i - 1) \o SubSeq(q, i + 1, Len(q))
=============================================================================
