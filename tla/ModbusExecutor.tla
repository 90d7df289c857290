--------------------------- MODULE ModbusExecutor ---------------------------
(***************************************************************************)
(* ModbusExecutor (libmodmqttsrv/modbus_executor.cpp): which command is    *)
(* sent next to the modbus network, how long it has to wait, how often a   *)
(* failed one is tried again.  The caller is ModbusThread: it adds polls,  *)
(* RPC reads and writes, and calls executeNext while allDone() is false.   *)
(*                                                                         *)
(* Time is the silence on the bus, now() - mLastCommandTime, up to         *)
(* MaxSilence.  A silence of MaxSilence stands for every longer one: no    *)
(* delay is longer than half of it, so all comparisons come out the same.  *)
(***************************************************************************)
EXTENDS ModbusRequestQueues

CONSTANTS
    Retries,           \* mMaxReadRetryCount of a poll or read, mMaxWriteRetryCount of a write
    WRITE_BATCH_SIZE,
    MaxSilence,        \* bound on the silence that is told apart
    MaxWritesQueued,   \* bound on mWriteCommandsQueued
    MaxPollQueue,      \* bound on a poll queue that a write may push a poll to
    NoCommand          \* nullptr

ASSUME ExecutorAssumption ==
    /\ Retries \in [Commands -> Nat]
    /\ WRITE_BATCH_SIZE \in Nat \ {0}
    /\ MaxWritesQueued \in Nat /\ MaxPollQueue \in Nat
    /\ MaxSilence \in Nat
    /\ \A c \in Commands : 2 * Delay[c] <= MaxSilence /\ 2 * FirstDelay[c] <= MaxSilence
    /\ NoCommand \notin Commands

\* mSlaveQueues.end(); slave addresses are positive
End == 0

VARIABLES
    mSlaveQueues,          \* the slaves that have an entry in the map
    mCurrentSlaveQueue,    \* an entry of mSlaveQueues, or End
    mCommandsLeft,
    mWriteCommandsQueued,
    mWaitingCommand,
    mLastCommand,
    mLastOk,               \* mLastCommand->executedOk()
    mRetryCount,           \* mReadRetryCount or mWriteRetryCount, as the type of mLastCommand asks
    mInitialPoll,
    silence,               \* now() - mLastCommandTime
    tries                  \* failed tries of mWaitingCommand since it became the waiting command

vars == <<mPollQueue, mWriteQueue, mPopFromPoll, mSlaveQueues, mCurrentSlaveQueue,
          mCommandsLeft, mWriteCommandsQueued, mWaitingCommand, mLastCommand, mLastOk,
          mRetryCount, mInitialPoll, silence, tries>>

AllDone == mWaitingCommand = NoCommand /\ NonEmptyQueues = {}

PollDone ==
    /\ mWaitingCommand \notin PollCommands
    /\ \A s \in Slaves : mPollQueue[s] = <<>>

PendingWrites ==
    {w \in Writes : w = mWaitingCommand \/ \E s \in Slaves : w \in Range(mWriteQueue[s])}

PendingPolls ==
    {c \in PollCommands : c = mWaitingCommand \/ \E s \in Slaves : c \in Range(mPollQueue[s])}

\* A new RegisterPoll or RegisterWrite object differs from every referenced one.
Fresh(c) ==
    /\ c \notin PendingWrites \cup PendingPolls
    /\ c # mLastCommand

Init ==
    /\ QueuesInit
    /\ mSlaveQueues = {}
    /\ mCurrentSlaveQueue = End
    /\ mCommandsLeft = 0
    /\ mWriteCommandsQueued = 0
    /\ mWaitingCommand = NoCommand
    /\ mLastCommand = NoCommand
    /\ mLastOk = FALSE
    /\ mRetryCount = 0
    /\ mInitialPoll = FALSE
    /\ silence = MaxSilence
    /\ tries = 0

\* resetCommandsCounter for a current queue that holds the polls q
CommandsFor(q) == IF q = <<>> THEN WRITE_BATCH_SIZE ELSE 2 * Len(q)

----------------------------------------------------------------------------
(***************************************************************************)
(* The election at the end of addPollList.  first is the first slave with  *)
(* a register to poll and found[s] the register found for slave s.  Slaves *)
(* are visited in order and one is elected when its delay is shorter than  *)
(* that of all slaves before it.  Each elected register is popped and      *)
(* replaces the waiting command, so the last slave elected wins.           *)
(***************************************************************************)
Elected(queue, first, found) ==
    LET delay(s) == ScanDelay(queue[s][found[s]], s = first)
        delayed == {s \in Slaves : found[s] # 0}
    IN  {s \in delayed : \A t \in delayed : t < s => delay(s) < delay(t)}

Elect(queue, first, found) ==
    LET elected == Elected(queue, first, found)
    IN  IF elected = {}
        THEN /\ mCurrentSlaveQueue' = first
             /\ mWaitingCommand' = Head(queue[first])
             /\ mPollQueue' = [queue EXCEPT ![first] = Tail(@)]
             /\ mPopFromPoll' = [mPopFromPoll EXCEPT ![first] = FALSE]
        ELSE /\ \E s \in elected : /\ IsLast(elected, s)
                                   /\ mCurrentSlaveQueue' = s
                                   /\ mWaitingCommand' = queue[s][found[s]]
             /\ mPollQueue' = [s \in Slaves |-> IF s \in elected
                                                THEN PopFirstWithDelay(queue[s], found[s])
                                                ELSE queue[s]]
             /\ UNCHANGED mPopFromPoll

AddPollList(regs, initial) ==
    LET queue == WithPollList(regs)
        touched == {SlaveOf[p] : p \in regs}
    IN  /\ mInitialPoll => PollDone
        /\ mInitialPoll' = (mInitialPoll \/ initial)
        /\ mSlaveQueues' = mSlaveQueues \cup touched
        /\ IF AllDone /\ regs # {}
           THEN \E first \in touched, found \in [Slaves -> 0 .. Cardinality(Polls)] :
                  /\ \A s \in touched : first <= s
                  /\ \A s \in Slaves : FoundAt(queue[s], silence, s = first, found[s])
                  /\ Elect(queue, first, found)
                  /\ mCommandsLeft' = CommandsFor(queue[first])
           ELSE /\ mPollQueue' = queue
                /\ UNCHANGED <<mPopFromPoll, mCurrentSlaveQueue, mWaitingCommand, mCommandsLeft>>
        /\ UNCHANGED <<mWriteQueue, mWriteCommandsQueued, mLastCommand, mLastOk,
                       mRetryCount, silence, tries>>

\* Called for the poll specification and after a connect: everything is polled
\* and published again.
SetupInitialPoll == ~mInitialPoll /\ AddPollList(Polls, TRUE)

\* Mutant: the mqtt client is started before the poll specification is sent.
Configured_Unordered == TRUE

\* The poll specification is queued for the thread before the mqtt client that
\* sends reads and writes is started.
Configured == Polls = {} \/ mSlaveQueues # {}

\* Called when registers are due.
SchedulePolls(regs) == Configured /\ ~mInitialPoll /\ AddPollList(regs, FALSE)

\* Slave s, whose polls are now q, becomes the current one when there is none.
SelectQueue(s, q) ==
    IF mCurrentSlaveQueue = End
    THEN mCurrentSlaveQueue' = s /\ mCommandsLeft' = CommandsFor(q)
    ELSE UNCHANGED <<mCurrentSlaveQueue, mCommandsLeft>>

AddReadCommand(c) ==
    LET s == SlaveOf[c]
    IN  /\ Configured
        /\ Fresh(c)
        /\ mPollQueue' = [mPollQueue EXCEPT ![s] = Append(@, c)]
        /\ mSlaveQueues' = mSlaveQueues \cup {s}
        /\ SelectQueue(s, mPollQueue'[s])
        /\ UNCHANGED <<mWriteQueue, mPopFromPoll, mWriteCommandsQueued, mWaitingCommand,
                       mLastCommand, mLastOk, mRetryCount, mInitialPoll, silence, tries>>

(***************************************************************************)
(* addWriteCommand while no write is queued: the write becomes the waiting *)
(* command and a command that was waiting goes to the head of the queue of *)
(* the slave that is written.  When that slave has no entry in the map,    *)
(* find() returns end() and resetCommandsCounter reads the pair behind     *)
(* end(): it then sets the counter to WRITE_BATCH_SIZE or leaves it alone. *)
(***************************************************************************)
WriteNow(w) ==
    LET s == SlaveOf[w]
    IN  /\ mWriteCommandsQueued = 0
        /\ IF mWaitingCommand # NoCommand
           THEN ReaddCommand(s, mWaitingCommand) /\ mSlaveQueues' = mSlaveQueues \cup {s}
           ELSE UNCHANGED <<queueVars, mSlaveQueues>>
        /\ mWaitingCommand' = w
        /\ tries' = 0
        /\ IF s \in mSlaveQueues'
           THEN mCurrentSlaveQueue' = s /\ mCommandsLeft' = CommandsFor(mPollQueue'[s])
           ELSE mCurrentSlaveQueue' = End /\ mCommandsLeft' \in {WRITE_BATCH_SIZE, mCommandsLeft}

WriteLater(w) ==
    LET s == SlaveOf[w]
    IN  /\ mWriteCommandsQueued # 0
        /\ PushWrite(w)
        /\ mSlaveQueues' = mSlaveQueues \cup {s}
        /\ SelectQueue(s, mPollQueue[s])
        /\ UNCHANGED <<mWaitingCommand, tries>>

AddWriteCommand(w) ==
    /\ Configured
    /\ Fresh(w)
    /\ mWriteCommandsQueued < MaxWritesQueued
    /\ Len(mPollQueue[SlaveOf[w]]) < MaxPollQueue
    /\ WriteNow(w) \/ WriteLater(w)
    /\ mWriteCommandsQueued' = mWriteCommandsQueued + 1
    /\ UNCHANGED <<mLastCommand, mLastOk, mRetryCount, mInitialPoll, silence>>

----------------------------------------------------------------------------
(***************************************************************************)
(* executeNext.  The current queue is left when its share of commands is   *)
(* used up or it is empty, for the next non-empty one in map order, which  *)
(* may be the same queue after a full circle.                              *)
(***************************************************************************)
LeavesQueue == mCommandsLeft = 0 \/ QueueEmpty(mCurrentSlaveQueue)

IsNextQueue(s) ==
    LET later == {t \in NonEmptyQueues : t > mCurrentSlaveQueue}
    IN  IF later # {}
        THEN s \in later /\ \A t \in later : s <= t
        ELSE s \in NonEmptyQueues /\ \A t \in NonEmptyQueues : s <= t

RequiredSilence(c) ==
    IF /\ FirstDelay[c] # 0
       /\ mLastCommand # NoCommand
       /\ SlaveOf[c] # SlaveOf[mLastCommand]
    THEN FirstDelay[c]
    ELSE Delay[c]

\* Mutant: the first try is counted as a retry.
RetriesLeft_CountsFirst(c) == IF c # mLastCommand THEN Retries[c] - 1 ELSE mRetryCount - 1

\* The retries left to c: set up again only when c is not the command sent last.
RetriesLeft(c) == IF c # mLastCommand THEN Retries[c] ELSE mRetryCount

\* Mutant: a write is taken off the count at every try.
WritesQueuedAfter_Always(c, ok) ==
    IF c \in Writes THEN mWriteCommandsQueued - 1 ELSE mWriteCommandsQueued

\* Only a write that succeeds is taken off the count.
WritesQueuedAfter(c, ok) ==
    IF c \in Writes /\ ok THEN mWriteCommandsQueued - 1 ELSE mWriteCommandsQueued

\* Mutant: the commands of a queue's share are not counted.
CommandsLeftAfter_Uncounted(left, retry) == left

\* A retry is not counted as a command of the current queue's share.
CommandsLeftAfter(left, retry) == IF ~retry /\ left > 0 THEN left - 1 ELSE left

\* Mutant: a poll that has failed for good does not end the initial poll.
InitialPollDone_Successful == PollDone /\ mCurrentSlaveQueue # End /\ mLastOk

\* what ends an initial poll after a command; an RPC read counts as a poll
InitialPollDone == PollDone /\ mCurrentSlaveQueue # End

(***************************************************************************)
(* sendCommand: the command c is sent and succeeds or fails; left is       *)
(* mCommandsLeft before the command.  The end of executeNext, which may    *)
(* end the initial poll, is part of the step.                              *)
(***************************************************************************)
SendCommand(c, left, ok) ==
    LET budget == RetriesLeft(c)
        retry == ~ok /\ budget # 0
    IN  /\ mRetryCount' = IF ok THEN Retries[c] ELSE IF retry THEN budget - 1 ELSE budget
        /\ mWriteCommandsQueued' = WritesQueuedAfter(c, ok)
        /\ mLastCommand' = c
        /\ mLastOk' = ok
        /\ mWaitingCommand' = IF retry THEN c ELSE NoCommand
        /\ mCommandsLeft' = CommandsLeftAfter(left, retry)
        /\ tries' = IF retry THEN tries + 1 ELSE 0
        /\ silence' = 0
        /\ mInitialPoll' = (mInitialPoll /\ ~InitialPollDone')

\* A command that still needs silence stays the waiting command.
SendOrWait(c, left, ok) ==
    IF RequiredSilence(c) > silence
    THEN /\ mWaitingCommand' = c
         /\ mCommandsLeft' = left
         /\ UNCHANGED <<mWriteCommandsQueued, mLastCommand, mLastOk, mRetryCount,
                        mInitialPoll, silence, tries>>
    ELSE SendCommand(c, left, ok)

ExecuteWaiting(ok) ==
    /\ mWaitingCommand # NoCommand
    /\ UNCHANGED <<queueVars, mSlaveQueues, mCurrentSlaveQueue>>
    /\ SendOrWait(mWaitingCommand, mCommandsLeft, ok)

ExecuteQueued(ok) ==
    /\ mWaitingCommand = NoCommand
    /\ mCurrentSlaveQueue # End
    /\ \E s \in NonEmptyQueues :
         /\ IF LeavesQueue THEN IsNextQueue(s) ELSE s = mCurrentSlaveQueue
         /\ mCurrentSlaveQueue' = s
         /\ PopNext(s)
         /\ SendOrWait(NextCommand(s),
                       IF LeavesQueue THEN CommandsFor(mPollQueue'[s]) ELSE mCommandsLeft,
                       ok)
    /\ UNCHANGED mSlaveQueues

\* With no waiting command and mCurrentSlaveQueue = End, executeNext does nothing.
ExecuteNext == \E ok \in BOOLEAN : ExecuteWaiting(ok) \/ ExecuteQueued(ok)

\* One unit of time passes between two calls.
Tick ==
    /\ silence < MaxSilence
    /\ silence' = silence + 1
    /\ UNCHANGED <<queueVars, mSlaveQueues, mCurrentSlaveQueue, mCommandsLeft,
                   mWriteCommandsQueued, mWaitingCommand, mLastCommand, mLastOk,
                   mRetryCount, mInitialPoll, tries>>

Next ==
    \/ SetupInitialPoll
    \/ \E regs \in SUBSET Polls : SchedulePolls(regs)
    \/ \E c \in Reads : AddReadCommand(c)
    \/ \E w \in Writes : AddWriteCommand(w)
    \/ ExecuteNext
    \/ Tick

Spec == Init /\ [][Next]_vars

\* The thread calls executeNext whenever it is not allDone(), and time passes.
Fairness == WF_vars(ExecuteNext) /\ WF_vars(Tick)

LiveSpec == Spec /\ Fairness

----------------------------------------------------------------------------
(***************************************************************************)
(* Properties                                                              *)
(***************************************************************************)

\* Types.  The current queue is an entry of the map or end(), the counters
\* that the code decrements never become negative.
TypeOK ==
    /\ mPollQueue \in [Slaves -> Seq(PollCommands)]
    /\ mWriteQueue \in [Slaves -> Seq(Writes)]
    /\ mPopFromPoll \in [Slaves -> BOOLEAN]
    /\ mSlaveQueues \subseteq Slaves
    /\ mCurrentSlaveQueue \in mSlaveQueues \cup {End}
    /\ mCommandsLeft \in Nat
    /\ mWriteCommandsQueued \in Nat
    /\ mWaitingCommand \in Commands \cup {NoCommand}
    /\ mLastCommand \in Commands \cup {NoCommand}
    /\ mLastOk \in BOOLEAN
    /\ mRetryCount \in Nat
    /\ mInitialPoll \in BOOLEAN
    /\ silence \in 0 .. MaxSilence
    /\ tries \in Nat

\* Every pending write is counted in mWriteCommandsQueued, so the assertion
\* after its decrement holds, and addWriteCommand takes its fast path, which
\* replaces the waiting command, only when no write is pending at all.
PendingWritesCounted == Cardinality(PendingWrites) <= mWriteCommandsQueued

\* ModbusThread::run dereferences getLastCommand() after each executeNext that
\* returns 0.  The one that sends nothing (no waiting command, no current
\* queue: where NextCommandFound fails) can only happen once some command has
\* been sent.
LastCommandKnown ==
    ~AllDone /\ mWaitingCommand = NoCommand /\ mCurrentSlaveQueue = End
        => mLastCommand # NoCommand

\* "Get next request R to send from modbus queues": as long as there is a
\* command, executeNext has one to send or to wait for.  (It fails when a slave
\* that is written has no register to poll: the fast path of addWriteCommand
\* then leaves mCurrentSlaveQueue at end() while polls are queued.)
NextCommandFound ==
    ~AllDone => mWaitingCommand # NoCommand \/ mCurrentSlaveQueue # End

\* Registers given to addPollList are then pending, and a poll or RPC read that
\* is pending stops being so only by being sent: neither the election nor a
\* write that takes the fast path loses one.  (It fails when a register of a
\* later slave has a shorter delay: the one elected before it is dropped.)
PollsNotLost ==
    [][/\ \A c \in PendingPolls : c \notin PendingPolls' => mLastCommand' = c
       /\ SetupInitialPoll => Polls \subseteq PendingPolls'
       /\ \A regs \in SUBSET Polls : SchedulePolls(regs) => regs \subseteq PendingPolls']_vars

\* The writes to slave s in the order they will be tried.
WritesTo(s) ==
    IF mWaitingCommand \in Writes /\ SlaveOf[mWaitingCommand] = s
    THEN <<mWaitingCommand>> \o mWriteQueue[s]
    ELSE mWriteQueue[s]

Service == INSTANCE WriteService WITH
    pending <- [s \in Slaves |-> WritesTo(s)],
    failed <- [w \in Writes |-> IF w = mWaitingCommand THEN tries ELSE 0]

\* The executor implements the write service: whatever is polled in between,
\* the writes to a slave are sent in the order addWriteCommand got them, and
\* sendCommand drops one only on success or after all its retries.
ImplementsWriteService == Service!Spec

\* A write is never stuck, although polls and RPC reads keep coming: it is
\* sent, and retried, until it succeeds or is given up.
WritesSettle == \A w \in Writes : w \in PendingWrites ~> w \notin PendingWrites

\* Once writes cease, every poll and RPC read that is pending is sent, although
\* new ones keep coming: mCommandsLeft makes executeNext leave a slave whose
\* queue never gets empty.
PollsSent ==
    <>[](PendingWrites = {}) => \A c \in PollCommands : c \in PendingPolls ~> mLastCommand = c

\* ModbusThread::run schedules nothing while an initial poll is in progress.
\* It ends, whatever fails, once there are no more writes and RPC reads: the
\* command that leaves no poll behind is not overlooked, although the test is
\* made only after a command and not when the queues are found empty.
InitialPollEnds ==
    <>[](PendingWrites \cup (PendingPolls \cap Reads) = {}) => (mInitialPoll ~> ~mInitialPoll)
=============================================================================
