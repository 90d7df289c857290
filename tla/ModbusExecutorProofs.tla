------------------------ MODULE ModbusExecutorProofs ------------------------
(***************************************************************************)
(* Proofs about ModbusExecutor for every set of slaves and commands, every *)
(* assignment of delays and retries, and every value of the bounds.        *)
(***************************************************************************)
EXTENDS ModbusExecutor, FiniteSetTheorems, SequenceTheorems, TLAPS

----------------------------------------------------------------------------
(***************************************************************************)
(* Sequences                                                               *)
(***************************************************************************)

\* The range of a sequence, by positions.
LEMMA QueueRange ==
    ASSUME NEW S, NEW q \in Seq(S)
    PROVE  /\ \A x : x \in Range(q) <=> \E i \in 1 .. Len(q) : q[i] = x
           /\ Range(q) \subseteq S
           /\ q = <<>> <=> Range(q) = {}
<1>1. DOMAIN q = 1 .. Len(q) /\ Len(q) \in Nat
    BY LenProperties
<1>2. \A x : x \in Range(q) <=> \E i \in 1 .. Len(q) : q[i] = x
    BY <1>1 DEF Range
<1>3. Range(q) \subseteq S
    BY <1>2, ElementOfSeq
<1>4. CASE q = <<>>
    BY <1>1, <1>2, <1>3, <1>4
<1>5. CASE q # <<>>
  <2>1. 1 \in 1 .. Len(q)
      BY <1>1, <1>5, EmptySeq
  <2>2. Range(q) # {}
      BY <1>2, <2>1, Zenon
  <2> QED BY <1>2, <1>3, <1>5, <2>2
<1> QED BY <1>4, <1>5

\* Append adds one element to the range.
LEMMA AppendRange ==
    ASSUME NEW S, NEW q \in Seq(S), NEW x \in S
    PROVE  Append(q, x) \in Seq(S) /\ Range(Append(q, x)) = Range(q) \cup {x}
<1>1. Append(q, x) \in Seq(S) /\ Len(Append(q, x)) = Len(q) + 1 /\ Len(q) \in Nat
    OBVIOUS
<1>2. \A i \in 1 .. Len(q) : Append(q, x)[i] = q[i]
    BY <1>1
<1>3. Append(q, x)[Len(q) + 1] = x
    BY <1>1
<1>4. \A y : y \in Range(Append(q, x)) <=> \E i \in 1 .. Len(q) + 1 : Append(q, x)[i] = y
    BY <1>1, QueueRange, Zenon
<1>5. \A y : y \in Range(q) <=> \E i \in 1 .. Len(q) : q[i] = y
    BY QueueRange
<1> QED BY <1>1, <1>2, <1>3, <1>4, <1>5

\* A non-empty sequence is its head and its tail.
LEMMA TailRange ==
    ASSUME NEW S, NEW q \in Seq(S), q # <<>>
    PROVE  /\ Head(q) \in S /\ Tail(q) \in Seq(S)
           /\ Range(q) = Range(Tail(q)) \cup {Head(q)}
<1>1. /\ Head(q) \in S /\ Tail(q) \in Seq(S) /\ Len(Tail(q)) = Len(q) - 1
      /\ \A i \in 1 .. Len(Tail(q)) : Tail(q)[i] = q[i + 1]
      /\ Len(q) \in Nat \ {0} /\ Head(q) = q[1]
    BY HeadTailProperties, EmptySeq
<1>2. \A y : y \in Range(Tail(q)) <=> \E i \in 1 .. Len(q) - 1 : q[i + 1] = y
  <2>1. \A y : y \in Range(Tail(q)) <=> \E i \in 1 .. Len(Tail(q)) : Tail(q)[i] = y
      BY <1>1, QueueRange, Zenon
  <2> QED BY <1>1, <2>1
<1>3. \A y : y \in Range(q) <=> \E i \in 1 .. Len(q) : q[i] = y
    BY QueueRange
<1>4. \A i \in 1 .. Len(q) : i # 1 => i - 1 \in 1 .. Len(q) - 1 /\ (i - 1) + 1 = i
    BY <1>1
<1>5. Range(q) \subseteq Range(Tail(q)) \cup {Head(q)}
    BY <1>1, <1>2, <1>3, <1>4, Zenon
<1>6. Range(Tail(q)) \cup {Head(q)} \subseteq Range(q)
    BY <1>1, <1>2, <1>3
<1> QED BY <1>1, <1>5, <1>6

\* Removing one position leaves a sequence of elements of the same set.
LEMMA PopFirstWithDelayType ==
    ASSUME NEW S, NEW q \in Seq(S), NEW i \in 1 .. Len(q)
    PROVE  PopFirstWithDelay(q, i) \in Seq(S)
<1>1. Len(q) \in Nat /\ \A j \in 1 .. Len(q) : q[j] \in S
    BY LenProperties, ElementOfSeq
<1>2. SubSeq(q, 1, i - 1) \in Seq(S)
    BY <1>1, SubSeqProperties
<1>3. SubSeq(q, i + 1, Len(q)) \in Seq(S)
    BY <1>1, SubSeqProperties
<1> QED BY <1>2, <1>3, ConcatProperties DEF PopFirstWithDelay

----------------------------------------------------------------------------
(***************************************************************************)
(* The inductive invariant                                                 *)
(***************************************************************************)

\* A queue that is not in the map is empty.
QueuesMapped == \A s \in Slaves : QueueEmpty(s) \/ s \in mSlaveQueues

\* A write is in the queue of its slave, there only once, and not waiting too.
WritesApart ==
    \A s \in Slaves : \A i \in 1 .. Len(mWriteQueue[s]) :
        /\ SlaveOf[mWriteQueue[s][i]] = s
        /\ mWriteQueue[s][i] # mWaitingCommand
        /\ \A j \in 1 .. Len(mWriteQueue[s]) : i # j => mWriteQueue[s][i] # mWriteQueue[s][j]

\* Nothing is queued before there is a current queue or a command was sent.
StartsIdle ==
    mCurrentSlaveQueue = End /\ mWaitingCommand = NoCommand /\ mLastCommand = NoCommand
        => \A s \in Slaves : QueueEmpty(s)

IInv == TypeOK /\ QueuesMapped /\ WritesApart /\ PendingWritesCounted /\ StartsIdle

\* Writes are finitely many, so pending ones are.
LEMMA PendingFinite ==
    /\ IsFiniteSet(PendingWrites)
    /\ Cardinality(PendingWrites) \in Nat
<1>1. PendingWrites \subseteq Writes
    BY DEF PendingWrites
<1> QED BY <1>1, CommandAssumption, FS_Subset, FS_CardinalityType

\* A step that adds no pending write and keeps the count.
LEMMA FewerPending ==
    ASSUME PendingWritesCounted, PendingWrites' \subseteq PendingWrites,
           mWriteCommandsQueued' = mWriteCommandsQueued, mWriteCommandsQueued \in Nat
    PROVE  PendingWritesCounted'
<1>1. Cardinality(PendingWrites') <= Cardinality(PendingWrites) /\ IsFiniteSet(PendingWrites')
    BY PendingFinite, FS_Subset
<1>2. Cardinality(PendingWrites') \in Nat
    BY <1>1, FS_CardinalityType
<1> QED BY <1>1, <1>2, PendingFinite DEF PendingWritesCounted

\* The initial state has no commands.
LEMMA InitIInv == Init => IInv
<1> SUFFICES ASSUME Init PROVE IInv
    OBVIOUS
<1>1. TypeOK
  <2>1. <<>> \in Seq(PollCommands) /\ <<>> \in Seq(Writes)
      OBVIOUS
  <2>2. silence \in 0 .. MaxSilence
      BY ExecutorAssumption DEF Init
  <2>3. /\ mPollQueue \in [Slaves -> Seq(PollCommands)]
        /\ mWriteQueue \in [Slaves -> Seq(Writes)]
        /\ mPopFromPoll \in [Slaves -> BOOLEAN]
      BY <2>1 DEF Init, QueuesInit
  <2> QED BY <2>2, <2>3, Zenon DEF Init, TypeOK
<1>2. QueuesMapped /\ WritesApart /\ StartsIdle
    BY DEF Init, QueuesInit, QueuesMapped, WritesApart, StartsIdle, QueueEmpty
<1>3. PendingWrites = {}
  <2>1. \A s \in Slaves : Range(mWriteQueue[s]) = {}
      BY DEF Init, QueuesInit, Range
  <2>2. NoCommand \notin Writes
      BY ExecutorAssumption DEF Commands
  <2> QED BY <2>1, <2>2 DEF PendingWrites, Init
<1>4. PendingWritesCounted
    BY <1>3, FS_EmptySet DEF PendingWritesCounted, Init
<1> QED BY <1>1, <1>2, <1>4 DEF IInv

----------------------------------------------------------------------------
(***************************************************************************)
(* addPollList                                                             *)
(***************************************************************************)

\* A register added to the queue of its slave: nothing else gets there.
LEMMA PollListRange ==
    ASSUME TypeOK, NEW regs \in SUBSET Polls
    PROVE  /\ WithPollList(regs) \in [Slaves -> Seq(PollCommands)]
           /\ \A s \in Slaves : Range(WithPollList(regs)[s]) =
                 Range(mPollQueue[s]) \cup {p \in regs : SlaveOf[p] = s}
<1>1. \A s \in Slaves : LET new == Listed[regs \ Range(mPollQueue[s])][s]
                        IN  /\ new \in Seq(PollCommands)
                            /\ Range(new) = {p \in regs \ Range(mPollQueue[s]) : SlaveOf[p] = s}
  <2> SUFFICES ASSUME NEW s \in Slaves
               PROVE  LET new == Listed[regs \ Range(mPollQueue[s])][s]
                      IN  /\ new \in Seq(PollCommands)
                          /\ Range(new) = {p \in regs \ Range(mPollQueue[s]) : SlaveOf[p] = s}
      BY Zenon
  <2> DEFINE R == regs \ Range(mPollQueue[s])
  <2>1. R \in SUBSET Polls
      OBVIOUS
  <2> HIDE DEF R
  <2>2. Listed[R][s] \in Seq(Polls) /\ Range(Listed[R][s]) = {p \in R : SlaveOf[p] = s}
      BY <2>1, CommandAssumption
  <2>3. Polls \subseteq PollCommands
      BY DEF PollCommands
  <2>4. Listed[R][s] \in Seq(PollCommands)
      BY <2>2, <2>3, SeqMonotonic
  <2> QED BY <2>2, <2>4 DEF R
<1>2. \A s \in Slaves : mPollQueue[s] \in Seq(PollCommands)
    BY DEF TypeOK
<1>3. \A s \in Slaves : WithPollList(regs)[s] = mPollQueue[s] \o Listed[regs \ Range(mPollQueue[s])][s]
    BY Zenon DEF WithPollList
<1>4. \A s \in Slaves : /\ WithPollList(regs)[s] \in Seq(PollCommands)
                        /\ Range(WithPollList(regs)[s]) =
                             Range(mPollQueue[s]) \cup {p \in regs : SlaveOf[p] = s}
  <2> TAKE s \in Slaves
  <2> DEFINE new == Listed[regs \ Range(mPollQueue[s])][s]
  <2>1. new \in Seq(PollCommands) /\ Range(new) = {p \in regs \ Range(mPollQueue[s]) : SlaveOf[p] = s}
      BY <1>1, Zenon
  <2>2. mPollQueue[s] \in Seq(PollCommands)
      BY <1>2
  <2>3. WithPollList(regs)[s] = mPollQueue[s] \o new
      BY <1>3, Zenon
  <2> HIDE DEF new
  <2>4. Range(mPollQueue[s] \o new) = Range(mPollQueue[s]) \cup Range(new)
      BY <2>1, <2>2, RangeConcatenation
  <2>5. mPollQueue[s] \o new \in Seq(PollCommands)
      BY <2>1, <2>2, ConcatProperties
  <2>6. Range(mPollQueue[s]) \cup Range(new) = Range(mPollQueue[s]) \cup {p \in regs : SlaveOf[p] = s}
      BY <2>1
  <2> QED BY <2>3, <2>4, <2>5, <2>6
<1>5. WithPollList(regs) = [s \in Slaves |-> WithPollList(regs)[s]]
    BY Zenon DEF WithPollList
<1>6. WithPollList(regs) \in [Slaves -> Seq(PollCommands)]
    BY <1>4, <1>5
<1> QED BY <1>4, <1>6

\* What findForSilencePeriod finds is a position of the queue, or nothing.
LEMMA FoundAtPosition ==
    ASSUME NEW q, NEW period, NEW ignoreFirst, NEW i, FoundAt(q, period, ignoreFirst, i)
    PROVE  i = 0 \/ i \in DOMAIN q
BY DEF FoundAt, IsLast

\* The election takes a register out of a queue that has one.
LEMMA ElectType ==
    ASSUME mPopFromPoll \in [Slaves -> BOOLEAN],
           NEW queue \in [Slaves -> Seq(PollCommands)],
           NEW first \in Slaves, queue[first] # <<>>,
           NEW found, \A s \in Slaves : found[s] = 0 \/ found[s] \in DOMAIN queue[s],
           Elect(queue, first, found)
    PROVE  /\ mPollQueue' \in [Slaves -> Seq(PollCommands)]
           /\ mPopFromPoll' \in [Slaves -> BOOLEAN]
           /\ mWaitingCommand' \in PollCommands
           /\ mCurrentSlaveQueue' \in Slaves
           /\ queue[mCurrentSlaveQueue'] # <<>>
           /\ \A s \in Slaves : queue[s] = <<>> => mPollQueue'[s] = <<>>
<1> DEFINE elected == Elected(queue, first, found)
<1>1. elected \subseteq {s \in Slaves : found[s] # 0}
    BY DEF Elected
<1>2. \A s \in Slaves : queue[s] \in Seq(PollCommands) /\ DOMAIN queue[s] = 1 .. Len(queue[s])
    BY LenProperties
<1>3. \A s \in elected : s \in Slaves /\ found[s] \in 1 .. Len(queue[s]) /\ queue[s] # <<>>
    BY <1>1, <1>2
<1>4. CASE elected = {}
  <2>1. /\ mCurrentSlaveQueue' = first
        /\ mWaitingCommand' = Head(queue[first])
        /\ mPollQueue' = [queue EXCEPT ![first] = Tail(@)]
        /\ mPopFromPoll' = [mPopFromPoll EXCEPT ![first] = FALSE]
      BY <1>4 DEF Elect
  <2>2. Head(queue[first]) \in PollCommands /\ Tail(queue[first]) \in Seq(PollCommands)
      BY <1>2, HeadTailProperties
  <2> QED BY <2>1, <2>2
<1>5. CASE elected # {}
  <2>1. /\ \E s \in elected : /\ mCurrentSlaveQueue' = s
                              /\ mWaitingCommand' = queue[s][found[s]]
        /\ mPollQueue' = [s \in Slaves |-> IF s \in elected
                                           THEN PopFirstWithDelay(queue[s], found[s])
                                           ELSE queue[s]]
        /\ UNCHANGED mPopFromPoll
      BY <1>5 DEF Elect
  <2>2. PICK s \in elected : mCurrentSlaveQueue' = s /\ mWaitingCommand' = queue[s][found[s]]
      BY <2>1
  <2>3. mWaitingCommand' \in PollCommands
      BY <1>2, <1>3, <2>2, ElementOfSeq
  <2>4. \A t \in elected : PopFirstWithDelay(queue[t], found[t]) \in Seq(PollCommands)
      BY <1>2, <1>3, PopFirstWithDelayType
  <2>5. mPollQueue' \in [Slaves -> Seq(PollCommands)]
      BY <1>2, <2>1, <2>4
  <2>6. \A t \in Slaves : queue[t] = <<>> => mPollQueue'[t] = <<>>
      BY <1>3, <2>1
  <2> QED BY <1>3, <2>1, <2>2, <2>3, <2>5, <2>6
<1> QED BY <1>4, <1>5

\* An empty queue that no register is added to stays empty.
LEMMA PollListEmpty ==
    ASSUME TypeOK, NEW regs \in SUBSET Polls, NEW s \in Slaves, mPollQueue[s] = <<>>
    PROVE  WithPollList(regs)[s] = <<>> <=> s \notin {SlaveOf[p] : p \in regs}
<1>1. Range(mPollQueue[s]) = {}
    BY DEF Range
<1>2. /\ WithPollList(regs)[s] \in Seq(PollCommands)
      /\ Range(WithPollList(regs)[s]) = {p \in regs : SlaveOf[p] = s}
    BY <1>1, PollListRange
<1> QED BY <1>2, QueueRange

\* Every way through addPollList: the waiting command is left alone, or a poll
\* waits where nothing did.
LEMMA AddPollListEffect ==
    ASSUME IInv, NEW regs \in SUBSET Polls, NEW initial \in BOOLEAN,
           AddPollList(regs, initial)
    PROVE  /\ mPollQueue' \in [Slaves -> Seq(PollCommands)]
           /\ mPopFromPoll' \in [Slaves -> BOOLEAN]
           /\ mCommandsLeft' \in Nat
           /\ mCurrentSlaveQueue' \in mSlaveQueues' \cup {End}
           /\ \/ mWaitingCommand' = mWaitingCommand
              \/ mWaitingCommand = NoCommand /\ mWaitingCommand' \in PollCommands
           /\ \A s \in Slaves : mPollQueue[s] = <<>> /\ s \notin {SlaveOf[p] : p \in regs}
                                   => mPollQueue'[s] = <<>>
           /\ AllDone /\ regs # {} => mCurrentSlaveQueue' # End
           /\ StartsIdle'
<1> DEFINE queue == WithPollList(regs)
           touched == {SlaveOf[p] : p \in regs}
<1>1. TypeOK /\ QueuesMapped /\ WritesApart /\ PendingWritesCounted /\ StartsIdle
    BY DEF IInv
<1>2. queue \in [Slaves -> Seq(PollCommands)]
    BY <1>1, PollListRange
<1>3. touched \subseteq Slaves
    BY CommandAssumption DEF Commands, PollCommands
<1>4. /\ mSlaveQueues' = mSlaveQueues \cup touched
      /\ mInitialPoll' = (mInitialPoll \/ initial)
      /\ UNCHANGED <<mWriteQueue, mWriteCommandsQueued, mLastCommand, mLastOk,
                     mRetryCount, silence, tries>>
    BY DEF AddPollList
<1>5. \A q \in Seq(PollCommands) : CommandsFor(q) \in Nat
    BY ExecutorAssumption DEF CommandsFor
<1>6. \A s \in Slaves : mPollQueue[s] = <<>> => (queue[s] = <<>> <=> s \notin touched)
    BY <1>1, PollListEmpty
<1> HIDE DEF queue
<1>7. CASE AllDone /\ regs # {}
  <2>1. PICK first \in touched, found \in [Slaves -> 0 .. Cardinality(Polls)] :
           /\ \A s \in Slaves : FoundAt(queue[s], silence, s = first, found[s])
           /\ Elect(queue, first, found)
           /\ mCommandsLeft' = CommandsFor(queue[first])
      BY <1>7 DEF AddPollList, queue
  <2>2. \A s \in Slaves : mPollQueue[s] = <<>>
      BY <1>7 DEF AllDone, NonEmptyQueues, QueueEmpty
  <2>3. first \in Slaves /\ queue[first] # <<>>
      BY <1>3, <1>6, <2>2
  <2>4. \A s \in Slaves : found[s] = 0 \/ found[s] \in DOMAIN queue[s]
      BY <2>1, FoundAtPosition
  <2>5. /\ mPollQueue' \in [Slaves -> Seq(PollCommands)]
        /\ mPopFromPoll' \in [Slaves -> BOOLEAN]
        /\ mWaitingCommand' \in PollCommands
        /\ mCurrentSlaveQueue' \in Slaves
        /\ queue[mCurrentSlaveQueue'] # <<>>
        /\ \A s \in Slaves : queue[s] = <<>> => mPollQueue'[s] = <<>>
      BY <1>1, <1>2, <2>1, <2>3, <2>4, ElectType, Zenon DEF TypeOK
  <2>6. mCommandsLeft' \in Nat
      BY <1>2, <1>5, <2>1, <2>3
  <2>7. mCurrentSlaveQueue' \in touched
      BY <1>6, <2>2, <2>5
  <2>8. StartsIdle'
      BY <2>5, ExecutorAssumption DEF StartsIdle, Commands
  <2>9. mCurrentSlaveQueue' # End
      BY <2>5, CommandAssumption DEF End
  <2> QED BY <1>4, <1>6, <1>7, <2>5, <2>6, <2>7, <2>8, <2>9 DEF AllDone
<1>8. CASE ~(AllDone /\ regs # {})
  <2>1. /\ mPollQueue' = queue
        /\ UNCHANGED <<mPopFromPoll, mCurrentSlaveQueue, mWaitingCommand, mCommandsLeft>>
      BY <1>8 DEF AddPollList, queue
  <2>2. StartsIdle'
    <3> SUFFICES ASSUME mCurrentSlaveQueue = End, mWaitingCommand = NoCommand,
                        mLastCommand = NoCommand
                 PROVE  \A s \in Slaves : QueueEmpty(s)'
        BY <1>4, <2>1 DEF StartsIdle
    <3>1. AllDone /\ \A s \in Slaves : QueueEmpty(s)
        BY <1>1 DEF StartsIdle, AllDone, NonEmptyQueues
    <3>2. touched = {}
        BY <1>8, <3>1
    <3> QED BY <1>4, <1>6, <2>1, <3>1, <3>2 DEF QueueEmpty
  <2> QED BY <1>1, <1>2, <1>4, <1>6, <1>8, <2>1, <2>2 DEF TypeOK
<1> QED BY <1>7, <1>8

\* addPollList keeps the invariant.
LEMMA AddPollListStep ==
    ASSUME IInv, NEW regs \in SUBSET Polls, NEW initial \in BOOLEAN,
           AddPollList(regs, initial)
    PROVE  IInv'
<1> DEFINE touched == {SlaveOf[p] : p \in regs}
<1>1. TypeOK /\ QueuesMapped /\ WritesApart /\ PendingWritesCounted /\ StartsIdle
    BY DEF IInv
<1>2. touched \subseteq Slaves
    BY CommandAssumption DEF Commands, PollCommands
<1>3. /\ mSlaveQueues' = mSlaveQueues \cup touched
      /\ mInitialPoll' = (mInitialPoll \/ initial)
      /\ UNCHANGED <<mWriteQueue, mWriteCommandsQueued, mLastCommand, mLastOk,
                     mRetryCount, silence, tries>>
    BY DEF AddPollList
<1>4. /\ mPollQueue' \in [Slaves -> Seq(PollCommands)]
      /\ mPopFromPoll' \in [Slaves -> BOOLEAN]
      /\ mCommandsLeft' \in Nat
      /\ mCurrentSlaveQueue' \in mSlaveQueues' \cup {End}
      /\ mWaitingCommand' = mWaitingCommand \/ mWaitingCommand' \in PollCommands
      /\ \A s \in Slaves : mPollQueue[s] = <<>> /\ s \notin touched => mPollQueue'[s] = <<>>
      /\ StartsIdle'
    BY AddPollListEffect, Zenon
<1>5. TypeOK'
    BY <1>1, <1>2, <1>3, <1>4 DEF TypeOK, Commands
<1>6. QueuesMapped'
    BY <1>1, <1>3, <1>4 DEF QueuesMapped, QueueEmpty
<1>7. WritesApart'
  <2>1. \A s \in Slaves : \A i \in 1 .. Len(mWriteQueue[s]) : mWriteQueue[s][i] \in Writes
      BY <1>1, ElementOfSeq DEF TypeOK
  <2> QED BY <1>1, <1>3, <1>4, <2>1, CommandAssumption DEF WritesApart
<1>8. PendingWrites' \subseteq PendingWrites
    BY <1>3, <1>4, CommandAssumption DEF PendingWrites
<1>9. PendingWritesCounted'
    BY <1>1, <1>3, <1>8, FewerPending DEF TypeOK
<1> QED BY <1>4, <1>5, <1>6, <1>7, <1>9 DEF IInv

----------------------------------------------------------------------------
(***************************************************************************)
(* addReadCommand and addWriteCommand                                      *)
(***************************************************************************)

\* A queue counter is a natural number.
LEMMA CommandsForType == \A q \in Seq(PollCommands) : CommandsFor(q) \in Nat
BY ExecutorAssumption DEF CommandsFor

\* Commands are objects of one slave, and not null.
LEMMA CommandFacts ==
    /\ \A c \in Commands : SlaveOf[c] \in Slaves /\ SlaveOf[c] # End /\ c # NoCommand
    /\ Writes \subseteq Commands /\ PollCommands \subseteq Commands
    /\ Writes \cap PollCommands = {}
BY CommandAssumption, ExecutorAssumption DEF Commands, End

\* An RPC read goes to the end of a poll queue.
LEMMA AddReadStep ==
    ASSUME IInv, NEW c \in Reads, AddReadCommand(c)
    PROVE  IInv'
<1> DEFINE s == SlaveOf[c]
<1>1. TypeOK /\ QueuesMapped /\ WritesApart /\ PendingWritesCounted /\ StartsIdle
    BY DEF IInv
<1>2. c \in PollCommands /\ s \in Slaves /\ s # End
    BY CommandFacts DEF PollCommands
<1>3. /\ mPollQueue' = [mPollQueue EXCEPT ![s] = Append(@, c)]
      /\ mSlaveQueues' = mSlaveQueues \cup {s}
      /\ SelectQueue(s, mPollQueue'[s])
      /\ UNCHANGED <<mWriteQueue, mPopFromPoll, mWriteCommandsQueued, mWaitingCommand,
                     mLastCommand, mLastOk, mRetryCount, mInitialPoll, silence, tries>>
    BY DEF AddReadCommand
<1>4. Append(mPollQueue[s], c) \in Seq(PollCommands)
    BY <1>1, <1>2, AppendProperties DEF TypeOK
<1>5. mPollQueue' \in [Slaves -> Seq(PollCommands)]
    BY <1>1, <1>2, <1>3, <1>4 DEF TypeOK
<1>6. /\ mCommandsLeft' \in Nat
      /\ mCurrentSlaveQueue' \in mSlaveQueues' \cup {End}
      /\ mCurrentSlaveQueue' # End
  <2>1. CommandsFor(mPollQueue'[s]) \in Nat
      BY <1>2, <1>5, CommandsForType
  <2> QED BY <1>1, <1>2, <1>3, <2>1 DEF SelectQueue, TypeOK
<1>7. TypeOK'
    BY <1>1, <1>2, <1>3, <1>5, <1>6 DEF TypeOK
<1>8. QueuesMapped'
    BY <1>1, <1>2, <1>3, SMTT(30) DEF QueuesMapped, QueueEmpty, TypeOK
<1>9. WritesApart' /\ StartsIdle'
    BY <1>1, <1>3, <1>6, SMTT(30) DEF WritesApart, StartsIdle
<1>10. PendingWrites' = PendingWrites
    BY <1>3 DEF PendingWrites
<1>11. PendingWritesCounted'
    BY <1>1, <1>3, <1>10, FewerPending DEF TypeOK
<1> QED BY <1>7, <1>8, <1>9, <1>11 DEF IInv

\* When no write is counted none is pending, and all write queues are empty.
LEMMA NoneCounted ==
    ASSUME IInv, mWriteCommandsQueued = 0
    PROVE  /\ mWaitingCommand \notin Writes
           /\ \A s \in Slaves : mWriteQueue[s] = <<>>
<1>1. PendingWrites = {}
    BY PendingFinite, FS_EmptySet DEF IInv, PendingWritesCounted
<1>2. mWaitingCommand \notin Writes
    BY <1>1 DEF PendingWrites
<1>3. \A s \in Slaves : mWriteQueue[s] \in Seq(Writes) /\ Range(mWriteQueue[s]) = {}
  <2> TAKE s \in Slaves
  <2>1. mWriteQueue[s] \in Seq(Writes)
      BY DEF IInv, TypeOK
  <2>2. Range(mWriteQueue[s]) \subseteq Writes
      BY <2>1, QueueRange
  <2> QED BY <1>1, <2>1, <2>2 DEF PendingWrites
<1>4. ASSUME NEW s \in Slaves PROVE mWriteQueue[s] = <<>>
  <2>1. mWriteQueue[s] \in Seq(Writes) /\ Range(mWriteQueue[s]) = {}
      BY <1>3, Zenon
  <2> QED BY <2>1, QueueRange
<1> QED BY <1>2, <1>4

\* The fast path: the write becomes the waiting command.
LEMMA WriteNowStep ==
    ASSUME IInv, NEW w \in Writes, WriteNow(w)
    PROVE  /\ mPollQueue' \in [Slaves -> Seq(PollCommands)]
           /\ mWriteQueue' = mWriteQueue
           /\ mPopFromPoll' \in [Slaves -> BOOLEAN]
           /\ mSlaveQueues' \subseteq Slaves
           /\ mCurrentSlaveQueue' \in mSlaveQueues' \cup {End}
           /\ mCommandsLeft' \in Nat
           /\ mWaitingCommand' = w
           /\ tries' = 0
           /\ QueuesMapped'
           /\ WritesApart'
<1> DEFINE s == SlaveOf[w]
<1>1. TypeOK /\ QueuesMapped
    BY DEF IInv
<1>2. s \in Slaves
    BY CommandFacts
<1>3. mWriteCommandsQueued = 0 /\ mWaitingCommand' = w /\ tries' = 0
    BY DEF WriteNow
<1>4. mWaitingCommand \notin Writes /\ \A t \in Slaves : mWriteQueue[t] = <<>>
    BY <1>3, NoneCounted
<1>5. /\ mPollQueue' \in [Slaves -> Seq(PollCommands)]
      /\ mWriteQueue' = mWriteQueue
      /\ mPopFromPoll' \in [Slaves -> BOOLEAN]
      /\ mSlaveQueues' \subseteq Slaves
      /\ mSlaveQueues \subseteq mSlaveQueues'
      /\ \A t \in Slaves : mPollQueue'[t] = mPollQueue[t] \/ t \in mSlaveQueues'
  <2>1. CASE mWaitingCommand # NoCommand
    <3>1. mWaitingCommand \in PollCommands
        BY <1>1, <1>4, <2>1 DEF TypeOK, Commands
    <3>2. ReaddCommand(s, mWaitingCommand) /\ mSlaveQueues' = mSlaveQueues \cup {s}
        BY <2>1 DEF WriteNow
    <3>3. /\ mPollQueue' = [mPollQueue EXCEPT ![s] = <<mWaitingCommand>> \o @]
          /\ mPopFromPoll' = [mPopFromPoll EXCEPT ![s] = mWaitingCommand \in PollCommands]
          /\ UNCHANGED mWriteQueue
        BY <3>1, <3>2 DEF ReaddCommand
    <3>4. <<mWaitingCommand>> \o mPollQueue[s] \in Seq(PollCommands)
      <4>1. <<mWaitingCommand>> \in Seq(PollCommands) /\ mPollQueue[s] \in Seq(PollCommands)
          BY <1>1, <1>2, <3>1 DEF TypeOK
      <4> QED BY <4>1, ConcatProperties
    <3> QED BY <1>1, <1>2, <3>1, <3>2, <3>3, <3>4 DEF TypeOK
  <2>2. CASE mWaitingCommand = NoCommand
    <3>1. UNCHANGED <<mPollQueue, mWriteQueue, mPopFromPoll, mSlaveQueues>>
        BY <2>2 DEF WriteNow, queueVars
    <3> QED BY <1>1, <3>1 DEF TypeOK
  <2> QED BY <2>1, <2>2
<1>6. mCurrentSlaveQueue' \in mSlaveQueues' \cup {End} /\ mCommandsLeft' \in Nat
  <2>1. CommandsFor(mPollQueue'[s]) \in Nat
      BY <1>2, <1>5, CommandsForType
  <2>2. WRITE_BATCH_SIZE \in Nat /\ mCommandsLeft \in Nat
      BY <1>1, ExecutorAssumption DEF TypeOK
  <2>3. CASE s \in mSlaveQueues'
      BY <2>1, <2>3 DEF WriteNow
  <2>4. CASE s \notin mSlaveQueues'
      BY <2>2, <2>4 DEF WriteNow
  <2> QED BY <2>3, <2>4
<1>7. QueuesMapped'
    BY <1>1, <1>5 DEF QueuesMapped, QueueEmpty
<1>8. WritesApart'
    BY <1>4, <1>5 DEF WritesApart
<1> QED BY <1>3, <1>5, <1>6, <1>7, <1>8

\* The slow path: the write goes to the end of its slave's queue.
LEMMA WriteLaterStep ==
    ASSUME IInv, NEW w \in Writes, w \notin PendingWrites, WriteLater(w)
    PROVE  /\ mPollQueue' = mPollQueue
           /\ mPopFromPoll' = mPopFromPoll
           /\ mWriteQueue' = [mWriteQueue EXCEPT ![SlaveOf[w]] = Append(@, w)]
           /\ mWriteQueue' \in [Slaves -> Seq(Writes)]
           /\ mSlaveQueues' \subseteq Slaves
           /\ mCurrentSlaveQueue' \in mSlaveQueues'
           /\ mCommandsLeft' \in Nat
           /\ mWaitingCommand' = mWaitingCommand
           /\ tries' = tries
           /\ QueuesMapped'
           /\ WritesApart'
<1> DEFINE s == SlaveOf[w]
           q == mWriteQueue[s]
<1>1. TypeOK /\ QueuesMapped /\ WritesApart
    BY DEF IInv
<1>2. s \in Slaves /\ s # End
    BY CommandFacts
<1>3. /\ mPollQueue' = mPollQueue
      /\ mPopFromPoll' = mPopFromPoll
      /\ mWriteQueue' = [mWriteQueue EXCEPT ![s] = Append(@, w)]
      /\ mSlaveQueues' = mSlaveQueues \cup {s}
      /\ SelectQueue(s, mPollQueue[s])
      /\ mWaitingCommand' = mWaitingCommand /\ tries' = tries
    BY DEF WriteLater, PushWrite
<1>4. q \in Seq(Writes) /\ mWriteQueue \in [Slaves -> Seq(Writes)]
    BY <1>1, <1>2 DEF TypeOK
<1>5. /\ Append(q, w) \in Seq(Writes) /\ Len(Append(q, w)) = Len(q) + 1 /\ Len(q) \in Nat
      /\ \A i \in 1 .. Len(q) : Append(q, w)[i] = q[i]
      /\ Append(q, w)[Len(q) + 1] = w
    BY <1>4, AppendProperties, LenProperties
<1>6. mCurrentSlaveQueue' \in mSlaveQueues' /\ mCommandsLeft' \in Nat
  <2>1. CommandsFor(mPollQueue[s]) \in Nat
      BY <1>1, <1>2, CommandsForType DEF TypeOK
  <2> QED BY <1>1, <1>2, <1>3, <2>1 DEF SelectQueue, TypeOK
<1>7. QueuesMapped'
    BY <1>1, <1>2, <1>3, <1>4 DEF QueuesMapped, QueueEmpty
<1>8. w # mWaitingCommand /\ \A i \in 1 .. Len(q) : q[i] # w
  <2>1. w \notin Range(q)
      BY <1>2 DEF PendingWrites
  <2> QED BY <1>4, <2>1, QueueRange DEF PendingWrites
<1>9. WritesApart'
  <2> SUFFICES ASSUME NEW t \in Slaves, NEW i \in 1 .. Len(mWriteQueue'[t])
               PROVE  /\ SlaveOf[mWriteQueue'[t][i]] = t
                      /\ mWriteQueue'[t][i] # mWaitingCommand'
                      /\ \A j \in 1 .. Len(mWriteQueue'[t]) :
                            i # j => mWriteQueue'[t][i] # mWriteQueue'[t][j]
      BY Zenon DEF WritesApart
  <2>1. mWaitingCommand' = mWaitingCommand
      BY <1>3, Zenon
  <2>2. CASE t # s
    <3>1. mWriteQueue'[t] = mWriteQueue[t]
        BY <1>3, <1>4, <2>2
    <3> QED BY <1>1, <2>1, <3>1 DEF WritesApart
  <2>3. CASE t = s
    <3>1. mWriteQueue'[t] = Append(q, w)
        BY <1>2, <1>3, <1>4, <2>3
    <3>2. \A k \in 1 .. Len(q) : /\ SlaveOf[q[k]] = s /\ q[k] # mWaitingCommand
                                 /\ \A j \in 1 .. Len(q) : k # j => q[k] # q[j]
        BY <1>1, <1>2 DEF WritesApart
    <3> HIDE DEF q
    <3>3. \A k \in 1 .. Len(q) + 1 : k \in 1 .. Len(q) \/ k = Len(q) + 1
        BY <1>5
    <3> QED BY <1>5, <1>8, <2>1, <2>3, <3>1, <3>2, <3>3, SMTT(30)
  <2> QED BY <2>2, <2>3
<1>10. mSlaveQueues' \subseteq Slaves
    BY <1>1, <1>2, <1>3 DEF TypeOK
<1> QED BY <1>2, <1>3, <1>4, <1>5, <1>6, <1>7, <1>9, <1>10

\* A new write is counted, whichever way it takes.
LEMMA AddWriteStep ==
    ASSUME IInv, NEW w \in Writes, AddWriteCommand(w)
    PROVE  IInv'
<1>1. TypeOK /\ PendingWritesCounted
    BY DEF IInv
<1>2. /\ w \notin PendingWrites
      /\ mWriteCommandsQueued' = mWriteCommandsQueued + 1
      /\ UNCHANGED <<mLastCommand, mLastOk, mRetryCount, mInitialPoll, silence>>
    BY DEF AddWriteCommand, Fresh
<1>3. w \in Commands /\ w # NoCommand /\ SlaveOf[w] \in Slaves
    BY CommandFacts
<1>4. /\ TypeOK' /\ QueuesMapped' /\ WritesApart' /\ StartsIdle'
      /\ PendingWrites' \subseteq PendingWrites \cup {w}
  <2>1. CASE WriteNow(w)
    <3>1. /\ mPollQueue' \in [Slaves -> Seq(PollCommands)]
          /\ mWriteQueue' = mWriteQueue
          /\ mPopFromPoll' \in [Slaves -> BOOLEAN]
          /\ mSlaveQueues' \subseteq Slaves
          /\ mCurrentSlaveQueue' \in mSlaveQueues' \cup {End}
          /\ mCommandsLeft' \in Nat
          /\ mWaitingCommand' = w
          /\ tries' = 0
          /\ QueuesMapped'
          /\ WritesApart'
        BY <2>1, WriteNowStep
    <3>2. TypeOK'
        BY <1>1, <1>2, <1>3, <3>1 DEF TypeOK
    <3>3. StartsIdle'
        BY <1>3, <3>1 DEF StartsIdle
    <3>4. PendingWrites' \subseteq PendingWrites \cup {w}
        BY <3>1 DEF PendingWrites
    <3> QED BY <3>1, <3>2, <3>3, <3>4
  <2>2. CASE WriteLater(w)
    <3>1. /\ mPollQueue' = mPollQueue
          /\ mPopFromPoll' = mPopFromPoll
          /\ mWriteQueue' = [mWriteQueue EXCEPT ![SlaveOf[w]] = Append(@, w)]
          /\ mWriteQueue' \in [Slaves -> Seq(Writes)]
          /\ mSlaveQueues' \subseteq Slaves
          /\ mCurrentSlaveQueue' \in mSlaveQueues'
          /\ mCommandsLeft' \in Nat
          /\ mWaitingCommand' = mWaitingCommand
          /\ tries' = tries
          /\ QueuesMapped'
          /\ WritesApart'
        BY <1>2, <2>2, WriteLaterStep
    <3>2. TypeOK'
        BY <1>1, <1>2, <3>1 DEF TypeOK
    <3>3. StartsIdle'
        BY <3>1, CommandAssumption DEF StartsIdle, End
    <3>4. \A s \in Slaves : Range(mWriteQueue'[s]) \subseteq Range(mWriteQueue[s]) \cup {w}
      <4> TAKE s \in Slaves
      <4>1. mWriteQueue[s] \in Seq(Writes) /\ mWriteQueue \in [Slaves -> Seq(Writes)]
          BY <1>1 DEF TypeOK
      <4>2. mWriteQueue'[s] = mWriteQueue[s] \/ mWriteQueue'[s] = Append(mWriteQueue[s], w)
          BY <3>1, <4>1
      <4>3. Range(Append(mWriteQueue[s], w)) = Range(mWriteQueue[s]) \cup {w}
          BY <4>1, AppendRange
      <4> QED BY <4>2, <4>3, Zenon
    <3>5. PendingWrites' \subseteq PendingWrites \cup {w}
        BY <3>1, <3>4 DEF PendingWrites
    <3> QED BY <3>1, <3>2, <3>3, <3>5
  <2> QED BY <2>1, <2>2 DEF AddWriteCommand
<1>5. PendingWritesCounted'
  <2>1. /\ IsFiniteSet(PendingWrites \cup {w})
        /\ Cardinality(PendingWrites \cup {w}) = Cardinality(PendingWrites) + 1
      BY <1>2, PendingFinite, FS_AddElement
  <2>2. /\ Cardinality(PendingWrites') <= Cardinality(PendingWrites \cup {w})
        /\ Cardinality(PendingWrites') \in Nat
      BY <1>4, <2>1, FS_Subset, FS_CardinalityType
  <2> QED BY <1>1, <1>2, <2>1, <2>2, PendingFinite DEF PendingWritesCounted, TypeOK
<1> QED BY <1>4, <1>5 DEF IInv

----------------------------------------------------------------------------
(***************************************************************************)
(* executeNext                                                             *)
(***************************************************************************)

\* Sending a pending command, or letting it wait: it leaves the pending writes
\* only together with its count.
LEMMA SendStep ==
    ASSUME IInv, NEW c \in Commands, NEW left \in Nat, NEW ok \in BOOLEAN,
           SendOrWait(c, left, ok),
           c \in Writes => c \in PendingWrites,
           PendingWrites' \subseteq PendingWrites,
           c \in Writes /\ mWaitingCommand' = NoCommand => c \notin PendingWrites'
    PROVE  /\ mWaitingCommand' \in {c, NoCommand}
           /\ mWaitingCommand' = NoCommand => mLastCommand' = c
           /\ mCommandsLeft' \in Nat
           /\ mWriteCommandsQueued' \in Nat
           /\ mLastCommand' \in Commands \cup {NoCommand}
           /\ mLastOk' \in BOOLEAN
           /\ mRetryCount' \in Nat
           /\ mInitialPoll' \in BOOLEAN
           /\ silence' \in 0 .. MaxSilence
           /\ tries' \in Nat
           /\ PendingWritesCounted'
<1>1. TypeOK /\ PendingWritesCounted
    BY DEF IInv
<1>2. c # NoCommand
    BY CommandFacts
<1>3. CASE RequiredSilence(c) > silence
  <2>1. /\ mWaitingCommand' = c /\ mCommandsLeft' = left
        /\ UNCHANGED <<mWriteCommandsQueued, mLastCommand, mLastOk, mRetryCount,
                       mInitialPoll, silence, tries>>
      BY <1>3 DEF SendOrWait
  <2>2. PendingWritesCounted'
      BY <1>1, <2>1, FewerPending DEF TypeOK
  <2> QED BY <1>1, <1>2, <2>1, <2>2 DEF TypeOK
<1>4. CASE ~(RequiredSilence(c) > silence)
  <2> DEFINE budget == RetriesLeft(c)
             retry == ~ok /\ budget # 0
  <2>1. /\ mRetryCount' = IF ok THEN Retries[c] ELSE IF retry THEN budget - 1 ELSE budget
        /\ mWriteCommandsQueued' = WritesQueuedAfter(c, ok)
        /\ mLastCommand' = c
        /\ mLastOk' = ok
        /\ mWaitingCommand' = IF retry THEN c ELSE NoCommand
        /\ mCommandsLeft' = CommandsLeftAfter(left, retry)
        /\ tries' = IF retry THEN tries + 1 ELSE 0
        /\ silence' = 0
      BY <1>4 DEF SendOrWait, SendCommand
  <2>2. mInitialPoll' \in BOOLEAN
      BY <1>1, <1>4 DEF SendOrWait, SendCommand, TypeOK
  <2>3. budget \in Nat /\ Retries[c] \in Nat
      BY <1>1, ExecutorAssumption, Zenon DEF RetriesLeft, TypeOK
  <2> HIDE DEF budget
  <2>4. mRetryCount' \in Nat
      BY <2>1, <2>3
  <2>5. mCommandsLeft' \in Nat
      BY <2>1 DEF CommandsLeftAfter
  <2>6. silence' \in 0 .. MaxSilence /\ tries' \in Nat
      BY <1>1, <2>1, ExecutorAssumption DEF TypeOK
  <2>7. mWriteCommandsQueued' \in Nat /\ PendingWritesCounted'
    <3>1. CASE c \in Writes /\ ok
      <4>1. c \in PendingWrites /\ c \notin PendingWrites'
          BY <2>1, <3>1
      <4>2. /\ IsFiniteSet(PendingWrites \ {c})
            /\ Cardinality(PendingWrites \ {c}) = Cardinality(PendingWrites) - 1
          BY <4>1, PendingFinite, FS_RemoveElement
      <4>3. PendingWrites' \subseteq PendingWrites \ {c}
          BY <4>1
      <4>4. /\ Cardinality(PendingWrites') <= Cardinality(PendingWrites \ {c})
            /\ Cardinality(PendingWrites') \in Nat
          BY <4>2, <4>3, FS_Subset, FS_CardinalityType
      <4>5. mWriteCommandsQueued' = mWriteCommandsQueued - 1
          BY <2>1, <3>1 DEF WritesQueuedAfter
      <4> QED BY <1>1, <4>2, <4>4, <4>5, PendingFinite DEF TypeOK, PendingWritesCounted
    <3>2. CASE ~(c \in Writes /\ ok)
      <4>1. mWriteCommandsQueued' = mWriteCommandsQueued
          BY <2>1, <3>2 DEF WritesQueuedAfter
      <4> QED BY <1>1, <4>1, FewerPending DEF TypeOK
    <3> QED BY <3>1, <3>2
  <2> QED BY <1>2, <2>1, <2>2, <2>4, <2>5, <2>6, <2>7
<1> QED BY <1>3, <1>4

\* Afterwards the command is waiting or nothing is.
LEMMA SendWaiting ==
    ASSUME NEW c, NEW left, NEW ok, SendOrWait(c, left, ok)
    PROVE  mWaitingCommand' \in {c, NoCommand}
BY DEF SendOrWait, SendCommand

\* The waiting command is sent.
LEMMA ExecuteWaitingStep ==
    ASSUME IInv, NEW ok \in BOOLEAN, ExecuteWaiting(ok)
    PROVE  IInv'
<1> DEFINE c == mWaitingCommand
<1>1. TypeOK /\ QueuesMapped /\ WritesApart /\ StartsIdle
    BY DEF IInv
<1>2. /\ c # NoCommand
      /\ UNCHANGED <<mPollQueue, mWriteQueue, mPopFromPoll, mSlaveQueues, mCurrentSlaveQueue>>
      /\ SendOrWait(c, mCommandsLeft, ok)
    BY DEF ExecuteWaiting, queueVars
<1>3. c \in Commands /\ mCommandsLeft \in Nat
    BY <1>1, <1>2 DEF TypeOK
<1>4. mWaitingCommand' \in {c, NoCommand}
    BY <1>2, SendWaiting
<1>5. PendingWrites' \subseteq PendingWrites
    BY <1>2, <1>4, CommandFacts DEF PendingWrites
<1>6. \A s \in Slaves : c \in Writes => c \notin Range(mWriteQueue[s])
  <2> TAKE s \in Slaves
  <2>1. mWriteQueue[s] \in Seq(Writes)
      BY <1>1 DEF TypeOK
  <2>2. \A i \in 1 .. Len(mWriteQueue[s]) : mWriteQueue[s][i] # c
      BY <1>1 DEF WritesApart
  <2> QED BY <2>1, <2>2, QueueRange
<1>7. c \in Writes /\ mWaitingCommand' = NoCommand => c \notin PendingWrites'
    BY <1>2, <1>6 DEF PendingWrites
<1>8. c \in Writes => c \in PendingWrites
    BY DEF PendingWrites
<1> HIDE DEF c
<1>9. /\ mWaitingCommand' = NoCommand => mLastCommand' = c
      /\ mCommandsLeft' \in Nat
      /\ mWriteCommandsQueued' \in Nat
      /\ mLastCommand' \in Commands \cup {NoCommand}
      /\ mLastOk' \in BOOLEAN
      /\ mRetryCount' \in Nat
      /\ mInitialPoll' \in BOOLEAN
      /\ silence' \in 0 .. MaxSilence
      /\ tries' \in Nat
      /\ PendingWritesCounted'
    BY <1>2, <1>3, <1>5, <1>7, <1>8, SendStep
<1>10. TypeOK'
    BY <1>1, <1>2, <1>3, <1>4, <1>9 DEF TypeOK
<1>11. QueuesMapped' /\ StartsIdle'
    BY <1>1, <1>2, <1>9 DEF QueuesMapped, StartsIdle, QueueEmpty
<1>12. WritesApart'
  <2>1. \A s \in Slaves : \A i \in 1 .. Len(mWriteQueue[s]) : mWriteQueue[s][i] # NoCommand
    <3>1. \A s \in Slaves : \A i \in 1 .. Len(mWriteQueue[s]) : mWriteQueue[s][i] \in Writes
        BY <1>1, ElementOfSeq DEF TypeOK
    <3> QED BY <3>1, CommandFacts
  <2> QED BY <1>1, <1>2, <1>4, <2>1 DEF WritesApart, c
<1> QED BY <1>9, <1>10, <1>11, <1>12 DEF IInv

\* What popNext takes from a queue that is not empty.
LEMMA PopNextType ==
    ASSUME IInv, NEW s \in NonEmptyQueues, PopNext(s)
    PROVE  /\ s \in Slaves /\ s \in mSlaveQueues
           /\ mPollQueue' \in [Slaves -> Seq(PollCommands)]
           /\ mWriteQueue' \in [Slaves -> Seq(Writes)]
           /\ mPopFromPoll' \in [Slaves -> BOOLEAN]
           /\ \A t \in Slaves : t # s => mPollQueue'[t] = mPollQueue[t] /\ mWriteQueue'[t] = mWriteQueue[t]
           /\ \/ /\ NextCommand(s) \in PollCommands
                 /\ mWriteQueue' = mWriteQueue
              \/ /\ NextCommand(s) \in Writes
                 /\ mWriteQueue[s] # <<>>
                 /\ NextCommand(s) = Head(mWriteQueue[s])
                 /\ mWriteQueue' = [mWriteQueue EXCEPT ![s] = Tail(@)]
<1>1. TypeOK /\ QueuesMapped
    BY DEF IInv
<1>2. s \in Slaves /\ ~QueueEmpty(s)
    BY DEF NonEmptyQueues
<1>3. s \in mSlaveQueues
    BY <1>1, <1>2 DEF QueuesMapped
<1>4. /\ mPollQueue \in [Slaves -> Seq(PollCommands)] /\ mPollQueue[s] \in Seq(PollCommands)
      /\ mWriteQueue \in [Slaves -> Seq(Writes)] /\ mWriteQueue[s] \in Seq(Writes)
      /\ mPopFromPoll \in [Slaves -> BOOLEAN]
    BY <1>1, <1>2 DEF TypeOK
<1>5. mPopFromPoll' \in [Slaves -> BOOLEAN]
  <2>1. TakesPoll(s) \in BOOLEAN
      BY Zenon DEF TakesPoll
  <2> QED BY <1>4, <2>1, Zenon DEF PopNext
<1>6. CASE TakesPoll(s)
  <2>1. mPollQueue[s] # <<>>
      BY <1>2, <1>6 DEF TakesPoll, QueueEmpty
  <2>2. mPollQueue' = [mPollQueue EXCEPT ![s] = Tail(@)] /\ mWriteQueue' = mWriteQueue
      BY <1>6 DEF PopNext
  <2>3. Head(mPollQueue[s]) \in PollCommands /\ Tail(mPollQueue[s]) \in Seq(PollCommands)
      BY <1>4, <2>1, HeadTailProperties
  <2>4. NextCommand(s) = Head(mPollQueue[s])
      BY <1>6 DEF NextCommand
  <2> QED BY <1>2, <1>3, <1>4, <1>5, <2>2, <2>3, <2>4
<1>7. CASE ~TakesPoll(s)
  <2>1. mWriteQueue[s] # <<>>
      BY <1>2, <1>7 DEF TakesPoll, QueueEmpty
  <2>2. mWriteQueue' = [mWriteQueue EXCEPT ![s] = Tail(@)] /\ mPollQueue' = mPollQueue
      BY <1>7 DEF PopNext
  <2>3. Head(mWriteQueue[s]) \in Writes /\ Tail(mWriteQueue[s]) \in Seq(Writes)
      BY <1>4, <2>1, HeadTailProperties
  <2>4. NextCommand(s) = Head(mWriteQueue[s])
      BY <1>7 DEF NextCommand
  <2> QED BY <1>2, <1>3, <1>4, <1>5, <2>1, <2>2, <2>3, <2>4, SMTT(30)
<1> QED BY <1>6, <1>7

\* After a write was taken from its queue it is in no queue.
LEMMA PoppedApart ==
    ASSUME IInv, NEW s \in NonEmptyQueues, PopNext(s), mWaitingCommand = NoCommand
    PROVE  \A t \in Slaves : \A i \in 1 .. Len(mWriteQueue'[t]) :
              /\ mWriteQueue'[t][i] \in Range(mWriteQueue[t])
              /\ mWriteQueue'[t][i] \in Writes
              /\ SlaveOf[mWriteQueue'[t][i]] = t
              /\ mWriteQueue'[t][i] # NextCommand(s)
              /\ \A j \in 1 .. Len(mWriteQueue'[t]) :
                    i # j => mWriteQueue'[t][i] # mWriteQueue'[t][j]
<1> DEFINE c == NextCommand(s)
<1>1. TypeOK /\ WritesApart
    BY DEF IInv
<1>2. /\ s \in Slaves
      /\ mWriteQueue' \in [Slaves -> Seq(Writes)]
      /\ \A t \in Slaves : t # s => mWriteQueue'[t] = mWriteQueue[t]
      /\ \/ c \in PollCommands /\ mWriteQueue' = mWriteQueue
         \/ /\ c \in Writes /\ mWriteQueue[s] # <<>> /\ c = Head(mWriteQueue[s])
            /\ mWriteQueue' = [mWriteQueue EXCEPT ![s] = Tail(@)]
    BY PopNextType
<1> HIDE DEF c
<1> SUFFICES ASSUME NEW t \in Slaves, NEW i \in 1 .. Len(mWriteQueue'[t])
             PROVE  /\ mWriteQueue'[t][i] \in Range(mWriteQueue[t])
                    /\ mWriteQueue'[t][i] \in Writes
                    /\ SlaveOf[mWriteQueue'[t][i]] = t
                    /\ mWriteQueue'[t][i] # c
                    /\ \A j \in 1 .. Len(mWriteQueue'[t]) :
                          i # j => mWriteQueue'[t][i] # mWriteQueue'[t][j]
    BY DEF c
<1> DEFINE q == mWriteQueue[t]
<1>3. q \in Seq(Writes) /\ mWriteQueue \in [Slaves -> Seq(Writes)]
    BY <1>1 DEF TypeOK
<1>4. \A k \in 1 .. Len(q) : /\ SlaveOf[q[k]] = t
                             /\ \A j \in 1 .. Len(q) : k # j => q[k] # q[j]
    BY <1>1 DEF WritesApart
<1>5. \A k \in 1 .. Len(q) : q[k] \in Range(q) /\ q[k] \in Writes
    BY <1>3, QueueRange, ElementOfSeq
<1>6. CASE mWriteQueue'[t] = q /\ (c \in PollCommands \/ t # s)
  <2>1. c \in PollCommands \/ (c \in Writes /\ SlaveOf[c] = s)
    <3>1. CASE c \in PollCommands
        BY <3>1
    <3>2. CASE c \in Writes /\ mWriteQueue[s] # <<>> /\ c = Head(mWriteQueue[s])
      <4>1. mWriteQueue[s] \in Seq(Writes)
          BY <1>1, <1>2 DEF TypeOK
      <4>2. 1 \in 1 .. Len(mWriteQueue[s]) /\ c = mWriteQueue[s][1]
          BY <3>2, <4>1, EmptySeq
      <4> QED BY <1>1, <1>2, <3>2, <4>2 DEF WritesApart
    <3> QED BY <1>2, <3>1, <3>2
  <2>2. \A k \in 1 .. Len(q) : q[k] # c
      BY <1>4, <1>5, <1>6, <2>1, CommandFacts
  <2> QED BY <1>4, <1>5, <1>6, <2>2
<1>7. CASE t = s /\ q # <<>> /\ c = Head(q) /\ mWriteQueue'[t] = Tail(q)
  <2>1. /\ Len(Tail(q)) = Len(q) - 1 /\ Len(q) \in Nat \ {0} /\ c = q[1]
        /\ \A k \in 1 .. Len(Tail(q)) : Tail(q)[k] = q[k + 1]
      BY <1>3, <1>7, HeadTailProperties, EmptySeq
  <2>2. \A k \in 1 .. Len(Tail(q)) : k + 1 \in 1 .. Len(q) /\ k + 1 # 1 /\ 1 \in 1 .. Len(q)
      BY <2>1
  <2> HIDE DEF q
  <2>3. \A k \in 1 .. Len(Tail(q)) :
           /\ Tail(q)[k] \in Range(q) /\ Tail(q)[k] \in Writes
           /\ SlaveOf[Tail(q)[k]] = t /\ Tail(q)[k] # c
      BY <1>4, <1>5, <2>1, <2>2
  <2>4. \A k, j \in 1 .. Len(Tail(q)) : k # j => Tail(q)[k] # Tail(q)[j]
      BY <1>4, <2>1, <2>2
  <2> QED BY <1>7, <2>3, <2>4, ZenonT(40) DEF q
<1>8. \/ mWriteQueue'[t] = q /\ (c \in PollCommands \/ t # s)
      \/ t = s /\ q # <<>> /\ c = Head(q) /\ mWriteQueue'[t] = Tail(q)
    BY <1>2, <1>3
<1> QED BY <1>6, <1>7, <1>8 DEF q

\* The next command is taken from a queue and sent, or becomes the waiting one.
LEMMA ExecuteQueuedStep ==
    ASSUME IInv, NEW ok \in BOOLEAN, ExecuteQueued(ok)
    PROVE  IInv'
<1>1. TypeOK /\ QueuesMapped /\ WritesApart /\ StartsIdle
    BY DEF IInv
<1>2. mWaitingCommand = NoCommand /\ mSlaveQueues' = mSlaveQueues
    BY DEF ExecuteQueued
<1>3. PICK s \in NonEmptyQueues :
         /\ mCurrentSlaveQueue' = s
         /\ PopNext(s)
         /\ SendOrWait(NextCommand(s),
                       IF LeavesQueue THEN CommandsFor(mPollQueue'[s]) ELSE mCommandsLeft,
                       ok)
    BY DEF ExecuteQueued
<1> DEFINE c == NextCommand(s)
           left == IF LeavesQueue THEN CommandsFor(mPollQueue'[s]) ELSE mCommandsLeft
<1>4. /\ s \in Slaves /\ s \in mSlaveQueues
      /\ mPollQueue' \in [Slaves -> Seq(PollCommands)]
      /\ mWriteQueue' \in [Slaves -> Seq(Writes)]
      /\ mPopFromPoll' \in [Slaves -> BOOLEAN]
      /\ \A t \in Slaves : t # s => mPollQueue'[t] = mPollQueue[t] /\ mWriteQueue'[t] = mWriteQueue[t]
      /\ \/ c \in PollCommands /\ mWriteQueue' = mWriteQueue
         \/ c \in Writes /\ mWriteQueue[s] # <<>> /\ c = Head(mWriteQueue[s])
    BY <1>3, PopNextType
<1>5. c \in Commands /\ c # NoCommand
    BY <1>4, CommandFacts
<1>6. left \in Nat
    BY <1>1, <1>4, CommandsForType DEF TypeOK
<1>7. SendOrWait(c, left, ok) /\ mWaitingCommand' \in {c, NoCommand}
    BY <1>3, SendWaiting, SMTT(30)
<1>8. \A t \in Slaves : \A i \in 1 .. Len(mWriteQueue'[t]) :
         /\ mWriteQueue'[t][i] \in Range(mWriteQueue[t])
         /\ mWriteQueue'[t][i] \in Writes
         /\ SlaveOf[mWriteQueue'[t][i]] = t
         /\ mWriteQueue'[t][i] # c
         /\ \A j \in 1 .. Len(mWriteQueue'[t]) :
               i # j => mWriteQueue'[t][i] # mWriteQueue'[t][j]
    BY <1>2, <1>3, PoppedApart
<1>9. \A t \in Slaves : /\ Range(mWriteQueue'[t]) \subseteq Range(mWriteQueue[t])
                        /\ c \notin Range(mWriteQueue'[t])
  <2> TAKE t \in Slaves
  <2>1. mWriteQueue'[t] \in Seq(Writes)
      BY <1>4
  <2>2. \A x : x \in Range(mWriteQueue'[t]) <=>
                 \E i \in 1 .. Len(mWriteQueue'[t]) : mWriteQueue'[t][i] = x
      BY <2>1, QueueRange
  <2> QED BY <1>8, <2>2
<1> HIDE DEF c, left
<1>10. c \in Writes => c \in PendingWrites
  <2>1. ASSUME c \in Writes PROVE c \in Range(mWriteQueue[s])
    <3>1. mWriteQueue[s] \in Seq(Writes) /\ mWriteQueue[s] # <<>> /\ c = Head(mWriteQueue[s])
        BY <1>1, <1>4, <2>1, CommandFacts DEF TypeOK
    <3> QED BY <3>1, TailRange
  <2> QED BY <1>4, <2>1 DEF PendingWrites
<1>11. PendingWrites' \subseteq PendingWrites
    BY <1>5, <1>7, <1>9, <1>10, CommandFacts, Zenon DEF PendingWrites
<1>12. c \in Writes /\ mWaitingCommand' = NoCommand => c \notin PendingWrites'
    BY <1>5, <1>9 DEF PendingWrites
<1>13. /\ mWaitingCommand' = NoCommand => mLastCommand' = c
       /\ mCommandsLeft' \in Nat
       /\ mWriteCommandsQueued' \in Nat
       /\ mLastCommand' \in Commands \cup {NoCommand}
       /\ mLastOk' \in BOOLEAN
       /\ mRetryCount' \in Nat
       /\ mInitialPoll' \in BOOLEAN
       /\ silence' \in 0 .. MaxSilence
       /\ tries' \in Nat
       /\ PendingWritesCounted'
    BY <1>5, <1>6, <1>7, <1>10, <1>11, <1>12, SendStep
<1>14. TypeOK'
    BY <1>1, <1>2, <1>3, <1>4, <1>5, <1>7, <1>13, Zenon DEF TypeOK
<1>15. QueuesMapped'
    BY <1>1, <1>2, <1>4, Zenon DEF QueuesMapped, QueueEmpty
<1>16. StartsIdle'
    BY <1>5, <1>13 DEF StartsIdle
<1>17. WritesApart'
    BY <1>7, <1>8, CommandFacts, Zenon DEF WritesApart, c
<1> QED BY <1>13, <1>14, <1>15, <1>16, <1>17 DEF IInv

----------------------------------------------------------------------------
(***************************************************************************)
(* The theorems                                                            *)
(***************************************************************************)

\* Every step of the executor keeps the invariant.
LEMMA NextIInv == IInv /\ [Next]_vars => IInv'
<1> SUFFICES ASSUME IInv, [Next]_vars PROVE IInv'
    OBVIOUS
<1>1. CASE SetupInitialPoll
  <2>1. AddPollList(Polls, TRUE)
      BY <1>1, Zenon DEF SetupInitialPoll
  <2> QED BY <2>1, AddPollListStep, Zenon
<1>2. CASE \E regs \in SUBSET Polls : SchedulePolls(regs)
  <2>1. PICK regs \in SUBSET Polls : AddPollList(regs, FALSE)
      BY <1>2, Zenon DEF SchedulePolls
  <2> QED BY <2>1, AddPollListStep, Zenon
<1>3. CASE \E c \in Reads : AddReadCommand(c)
    BY <1>3, AddReadStep
<1>4. CASE \E w \in Writes : AddWriteCommand(w)
    BY <1>4, AddWriteStep
<1>5. CASE ExecuteNext
    BY <1>5, ExecuteWaitingStep, ExecuteQueuedStep DEF ExecuteNext
<1>6. CASE Tick
  <2>1. /\ silence < MaxSilence /\ silence' = silence + 1
        /\ UNCHANGED <<mPollQueue, mWriteQueue, mPopFromPoll, mSlaveQueues, mCurrentSlaveQueue,
                       mCommandsLeft, mWriteCommandsQueued, mWaitingCommand, mLastCommand,
                       mLastOk, mRetryCount, mInitialPoll, tries>>
      BY <1>6 DEF Tick, queueVars
  <2>2. silence' \in 0 .. MaxSilence
      BY <2>1, ExecutorAssumption DEF IInv, TypeOK
  <2>3. TypeOK'
      BY <2>1, <2>2 DEF IInv, TypeOK
  <2>4. PendingWrites' = PendingWrites
      BY <2>1 DEF PendingWrites
  <2>5. PendingWritesCounted'
      BY <2>1, <2>4, FewerPending DEF IInv, TypeOK
  <2>6. QueuesMapped' /\ StartsIdle'
      BY <2>1 DEF IInv, QueuesMapped, StartsIdle, QueueEmpty
  <2>7. WritesApart'
      BY <2>1 DEF IInv, WritesApart
  <2> QED BY <2>1, <2>3, <2>5, <2>6, <2>7 DEF IInv
<1>7. CASE UNCHANGED vars
  <2>1. PendingWrites' = PendingWrites
      BY <1>7 DEF PendingWrites, vars
  <2>2. PendingWritesCounted'
      BY <1>7, <2>1, FewerPending DEF IInv, TypeOK, vars
  <2> QED BY <1>7, <2>2 DEF IInv, TypeOK, QueuesMapped, WritesApart, StartsIdle, QueueEmpty, vars
<1> QED BY <1>1, <1>2, <1>3, <1>4, <1>5, <1>6, <1>7 DEF Next

\* The inductive invariant holds in every reachable state.
THEOREM Invariance == Spec => []IInv
<1> QED BY InitIInv, NextIInv, PTL DEF Spec

\* The executor's counters never underflow and its current queue is always an
\* entry of the map or end().
THEOREM TypeCorrect == Spec => []TypeOK
<1>1. IInv => TypeOK
    BY DEF IInv
<1> QED BY <1>1, Invariance, PTL

\* mWriteCommandsQueued never falls below the number of pending writes: the
\* assertion in sendCommand holds, and a write that takes the fast path of
\* addWriteCommand never displaces another write.
THEOREM WritesCounted == Spec => []PendingWritesCounted
<1>1. IInv => PendingWritesCounted
    BY DEF IInv
<1> QED BY <1>1, Invariance, PTL

\* getLastCommand() is not null whenever run() dereferences it after an
\* executeNext that sent nothing.
THEOREM LastCommandAlwaysKnown == Spec => []LastCommandKnown
<1>1. IInv => LastCommandKnown
    BY DEF IInv, StartsIdle, LastCommandKnown, AllDone, NonEmptyQueues
<1> QED BY <1>1, Invariance, PTL
----------------------------------------------------------------------------
(***************************************************************************)
(* The executor never stalls when every slave that is written is polled    *)
(***************************************************************************)

\* Every slave that gets writes also has a register to poll.
WritesPolled == \A w \in Writes : \E p \in Polls : SlaveOf[p] = SlaveOf[w]

\* The poll specification has given each polled slave an entry in the map.
PolledMapped == mSlaveQueues = {} \/ \A p \in Polls : SlaveOf[p] \in mSlaveQueues

\* The executor has a current queue unless it has nothing to do.
QueueSelected == mCurrentSlaveQueue = End => AllDone

\* addPollList selects a queue for the registers it adds to an idle executor.
LEMMA AddPollListSelects ==
    ASSUME IInv, QueueSelected, NEW regs \in SUBSET Polls, NEW initial \in BOOLEAN,
           AddPollList(regs, initial)
    PROVE  QueueSelected'
<1> SUFFICES ASSUME mCurrentSlaveQueue' = End
             PROVE  AllDone'
    BY DEF QueueSelected
<1>1. ~(AllDone /\ regs # {})
    BY AddPollListEffect
<1>2. /\ UNCHANGED <<mCurrentSlaveQueue, mWaitingCommand, mWriteQueue>>
      /\ \A s \in Slaves : mPollQueue[s] = <<>> /\ s \notin {SlaveOf[p] : p \in regs}
                              => mPollQueue'[s] = <<>>
    BY <1>1, AddPollListEffect DEF AddPollList
<1>3. AllDone /\ regs = {}
    BY <1>1, <1>2 DEF QueueSelected
<1> QED BY <1>2, <1>3 DEF AllDone, NonEmptyQueues, QueueEmpty

\* Every step keeps the two facts.
LEMMA NextSelects ==
    ASSUME WritesPolled, IInv, PolledMapped, QueueSelected, [Next]_vars
    PROVE  PolledMapped' /\ QueueSelected'
<1> USE DEF PolledMapped
<1>1. TypeOK
    BY DEF IInv
<1>2. \A s \in Slaves : s # End
    BY CommandAssumption DEF End
<1>3. CASE SetupInitialPoll
  <2>1. AddPollList(Polls, TRUE)
      BY <1>3, Zenon DEF SetupInitialPoll
  <2>2. QueueSelected'
      BY <2>1, AddPollListSelects, Zenon
  <2> QED BY <2>1, <2>2, Zenon DEF AddPollList
<1>4. ASSUME NEW regs \in SUBSET Polls, SchedulePolls(regs)
      PROVE  PolledMapped' /\ QueueSelected'
  <2>1. AddPollList(regs, FALSE) /\ Configured
      BY <1>4, Zenon DEF SchedulePolls
  <2>2. QueueSelected'
      BY <2>1, AddPollListSelects, Zenon
  <2>3. mSlaveQueues \subseteq mSlaveQueues'
      BY <2>1, Zenon DEF AddPollList
  <2> QED BY <2>1, <2>2, <2>3 DEF Configured
<1>5. ASSUME NEW c \in Reads, AddReadCommand(c)
      PROVE  PolledMapped' /\ QueueSelected'
  <2>1. SlaveOf[c] \in Slaves
      BY CommandAssumption DEF Commands, PollCommands
  <2>2. mCurrentSlaveQueue' # End
      BY <1>2, <1>5, <2>1 DEF AddReadCommand, SelectQueue
  <2> QED BY <1>5, <2>2 DEF AddReadCommand, Configured, QueueSelected
<1>6. ASSUME NEW w \in Writes, AddWriteCommand(w)
      PROVE  PolledMapped' /\ QueueSelected'
  <2>1. SlaveOf[w] \in Slaves /\ Polls # {}
      BY CommandAssumption DEF Commands, WritesPolled
  <2>2. SlaveOf[w] \in mSlaveQueues /\ mSlaveQueues \subseteq mSlaveQueues'
      BY <1>6, <2>1, Zenon DEF AddWriteCommand, Configured, WritesPolled, WriteNow, WriteLater
  <2>3. mCurrentSlaveQueue' # End
    <3>1. CASE WriteNow(w)
        BY <1>2, <2>1, <2>2, <3>1 DEF WriteNow
    <3>2. CASE WriteLater(w)
        BY <1>2, <2>1, <3>2 DEF WriteLater, SelectQueue
    <3> QED BY <1>6, <3>1, <3>2 DEF AddWriteCommand
  <2> QED BY <2>2, <2>3 DEF QueueSelected
<1>7. CASE ExecuteNext
  <2>1. mCurrentSlaveQueue # End
      BY <1>7 DEF ExecuteNext, ExecuteWaiting, ExecuteQueued, QueueSelected, AllDone
  <2>2. mCurrentSlaveQueue' # End /\ UNCHANGED mSlaveQueues
      BY <1>2, <1>7, <2>1 DEF ExecuteNext, ExecuteWaiting, ExecuteQueued, NonEmptyQueues
  <2> QED BY <2>2 DEF QueueSelected
<1>8. CASE UNCHANGED <<queueVars, mSlaveQueues, mCurrentSlaveQueue, mWaitingCommand>>
    BY <1>8 DEF queueVars, QueueSelected, AllDone, NonEmptyQueues, QueueEmpty
<1>9. CASE Tick \/ UNCHANGED vars
    BY <1>8, <1>9 DEF Tick, vars, queueVars
<1> QED BY <1>3, <1>4, <1>5, <1>6, <1>7, <1>9 DEF Next

\* When every slave that is written is also polled, executeNext always has a
\* command to send or to wait for while one is queued: the thread never spins
\* on an executor that has work and does none of it.
THEOREM NextCommandAlwaysFound ==
    ASSUME WritesPolled
    PROVE  Spec => []NextCommandFound
<1>1. Init => PolledMapped /\ QueueSelected
    BY DEF Init, QueuesInit, PolledMapped, QueueSelected, AllDone, NonEmptyQueues, QueueEmpty
<1>2. IInv /\ (PolledMapped /\ QueueSelected) /\ [Next]_vars => (PolledMapped /\ QueueSelected)'
    BY NextSelects
<1>3. QueueSelected => NextCommandFound
    BY DEF QueueSelected, NextCommandFound
<1> QED BY <1>1, <1>2, <1>3, Invariance, PTL DEF Spec

----------------------------------------------------------------------------
(***************************************************************************)
(* No poll is lost when delays do not fall from one slave to a later one   *)
(***************************************************************************)

\* A register with a delay is not preceded, on an earlier slave, by one with
\* a longer delay.  Delays that are the same on all slaves meet this when
\* the one before the first command is not the shorter one.
DelaysRise ==
    \A p, q \in Polls : SlaveOf[p] < SlaveOf[q] /\ ScanDelay(q, FALSE) # 0 =>
        \A first \in BOOLEAN : ScanDelay(p, first) <= ScanDelay(q, FALSE)

\* Only the register at the position is erased.
LEMMA PopFirstWithDelayRange ==
    ASSUME NEW S, NEW q \in Seq(S), NEW i \in 1 .. Len(q)
    PROVE  Range(q) \subseteq Range(PopFirstWithDelay(q, i)) \cup {q[i]}
<1> DEFINE before == SubSeq(q, 1, i - 1)
           after == SubSeq(q, i + 1, Len(q))
<1>1. Len(q) \in Nat /\ \A j \in 1 .. Len(q) : q[j] \in S
    BY LenProperties, ElementOfSeq
<1>2. before \in Seq(S) /\ Len(before) = i - 1 /\ \A j \in 1 .. i - 1 : before[j] = q[j]
    BY <1>1, SubSeqProperties
<1>3. after \in Seq(S) /\ Len(after) = Len(q) - i /\ \A j \in 1 .. Len(q) - i : after[j] = q[i + j]
    BY <1>1, SubSeqProperties
<1>4. PopFirstWithDelay(q, i) = before \o after
    BY DEF PopFirstWithDelay
<1> HIDE DEF before, after
<1>5. Range(before \o after) = Range(before) \cup Range(after)
    BY <1>2, <1>3, RangeConcatenation
<1>6. ASSUME NEW j \in 1 .. Len(q), j # i PROVE q[j] \in Range(before \o after)
  <2>1. CASE j < i
    <3>1. j \in 1 .. Len(before) /\ before[j] = q[j]
        BY <1>1, <1>2, <2>1
    <3>2. q[j] \in Range(before)
        BY <1>2, <3>1, QueueRange
    <3> QED BY <1>5, <3>2
  <2>2. CASE j > i
    <3> DEFINE k == j - i
    <3>1. k \in 1 .. Len(q) - i /\ i + k = j
        BY <1>1, <2>2
    <3> HIDE DEF k
    <3>2. k \in 1 .. Len(after) /\ after[k] = q[j]
        BY <1>3, <3>1, Zenon
    <3>3. q[j] \in Range(after)
        BY <1>3, <3>2, QueueRange
    <3> QED BY <1>5, <3>3
  <2> QED BY <1>1, <1>6, <2>1, <2>2
<1>7. \A x \in Range(q) : \E j \in 1 .. Len(q) : q[j] = x
    BY QueueRange
<1> QED BY <1>4, <1>6, <1>7

\* The election drops no register: it elects at most one slave.
LEMMA OneElected ==
    ASSUME DelaysRise,
           NEW queue, \A s \in Slaves : \A i \in DOMAIN queue[s] :
                         queue[s][i] \in Polls /\ SlaveOf[queue[s][i]] = s,
           NEW first \in Slaves, \A s \in Slaves : DOMAIN queue[s] # {} => first <= s,
           NEW found, \A s \in Slaves : FoundAt(queue[s], silence, s = first, found[s]),
           NEW s \in Elected(queue, first, found), NEW t \in Elected(queue, first, found)
    PROVE  s = t
<1>1. ASSUME NEW a \in Elected(queue, first, found), NEW b \in Elected(queue, first, found), a < b
      PROVE  FALSE
  <2> DEFINE p == queue[a][found[a]]
             q == queue[b][found[b]]
  <2>1. /\ a \in Slaves /\ b \in Slaves /\ found[a] # 0 /\ found[b] # 0
        /\ ScanDelay(q, b = first) < ScanDelay(p, a = first)
      BY <1>1, Zenon DEF Elected
  <2>2. found[a] \in DOMAIN queue[a] /\ found[b] \in DOMAIN queue[b] /\ ScanDelay(q, b = first) # 0
    <3>1. FoundAt(queue[a], silence, a = first, found[a]) /\ FoundAt(queue[b], silence, b = first, found[b])
        BY <2>1, Zenon
    <3>2. found[a] \in DOMAIN queue[a]
        BY <2>1, <3>1, FoundAtPosition, Zenon
    <3>3. found[b] \in DOMAIN queue[b] /\ ScanDelay(queue[b][found[b]], b = first) # 0
      <4> DEFINE i == found[b]
                 reg == queue[b]
                 ignoreFirst == b = first
      <4>1. FoundAt(reg, silence, ignoreFirst, i) /\ i # 0
          BY <2>1, <3>1, Zenon
      <4> HIDE DEF i, reg, ignoreFirst
      <4>2. PICK hits \in SUBSET DOMAIN reg :
                ScanHits(reg, silence, ignoreFirst, hits) /\ (IF hits = {} THEN i = 0 ELSE IsLast(hits, i))
          BY <4>1, Zenon DEF FoundAt
      <4>3. i \in hits /\ i \in DOMAIN reg
          BY <4>1, <4>2, Zenon DEF IsLast
      <4>4. ScanDelay(reg[i], ignoreFirst) # 0
          BY <4>2, <4>3, Zenon DEF ScanHits
      <4> QED BY <4>3, <4>4, Zenon DEF i, reg, ignoreFirst
    <3> QED BY <3>2, <3>3, Zenon
  <2>3. p \in Polls /\ q \in Polls /\ SlaveOf[p] = a /\ SlaveOf[q] = b
      BY <2>1, <2>2, Zenon
  <2>4. first <= a /\ a \in Nat /\ b \in Nat /\ first \in Nat
      BY <2>1, <2>2, CommandAssumption, Zenon
  <2>5. (b = first) = FALSE
      BY <1>1, <2>4, SMTT(30)
  <2>6. ScanDelay(q, FALSE) # 0 /\ ScanDelay(q, FALSE) < ScanDelay(p, a = first)
      BY <2>1, <2>2, <2>5, Zenon
  <2> HIDE DEF p, q
  <2>7. (a = first) \in BOOLEAN
      BY Zenon
  <2>8. ScanDelay(p, a = first) <= ScanDelay(q, FALSE)
      BY <1>1, <2>3, <2>6, <2>7, Zenon DEF DelaysRise
  <2>9. ScanDelay(p, a = first) \in Nat /\ ScanDelay(q, FALSE) \in Nat
      BY <2>3, CommandAssumption DEF ScanDelay, Commands, PollCommands
  <2> DEFINE x == ScanDelay(p, a = first)
             y == ScanDelay(q, FALSE)
  <2>10. y < x /\ x <= y /\ x \in Nat /\ y \in Nat
      BY <2>6, <2>8, <2>9, Zenon
  <2> HIDE DEF x, y
  <2> QED BY <2>10
<1>2. s \in Nat /\ t \in Nat
    BY CommandAssumption, Zenon DEF Elected
<1> QED BY <1>1, <1>2, SMTT(30)

\* All registers of the queues are waiting or queued after the election.
LEMMA ElectKeeps ==
    ASSUME NEW queue \in [Slaves -> Seq(PollCommands)],
           NEW first \in Slaves, queue[first] # <<>>,
           NEW found, \A s \in Slaves : found[s] = 0 \/ found[s] \in DOMAIN queue[s],
           \A s, t \in Elected(queue, first, found) : s = t,
           Elect(queue, first, found),
           NEW s \in Slaves, NEW p \in Range(queue[s])
    PROVE  p = mWaitingCommand' \/ p \in Range(mPollQueue'[s])
<1> DEFINE elected == Elected(queue, first, found)
<1>1. queue[s] \in Seq(PollCommands) /\ DOMAIN queue[s] = 1 .. Len(queue[s])
    BY LenProperties, Zenon
<1>2. CASE elected = {}
  <2>1. mWaitingCommand' = Head(queue[first]) /\ mPollQueue' = [queue EXCEPT ![first] = Tail(@)]
      BY <1>2 DEF Elect
  <2>2. CASE s = first
    <3>1. Range(queue[s]) = Range(Tail(queue[s])) \cup {Head(queue[s])}
        BY <1>1, <2>2, TailRange, Zenon
    <3>2. mPollQueue'[s] = Tail(queue[s])
        BY <2>1, <2>2, Zenon
    <3> QED BY <2>1, <2>2, <3>1, <3>2, Zenon
  <2>3. CASE s # first
      BY <2>1, <2>3
  <2> QED BY <2>2, <2>3, ZenonT(30)
<1>3. CASE elected # {}
  <2>1. PICK e \in elected : mWaitingCommand' = queue[e][found[e]]
      BY <1>3 DEF Elect
  <2>2. mPollQueue'[s] = IF s \in elected THEN PopFirstWithDelay(queue[s], found[s]) ELSE queue[s]
      BY <1>3, Zenon DEF Elect
  <2>3. CASE s \in elected
    <3>1. found[s] \in 1 .. Len(queue[s])
        BY <1>1, <2>3 DEF Elected
    <3>2. s = e
        BY <2>3, SMTT(30)
    <3>3. Range(queue[s]) \subseteq Range(PopFirstWithDelay(queue[s], found[s])) \cup {queue[s][found[s]]}
        BY <1>1, <3>1, PopFirstWithDelayRange, SMTT(30)
    <3> QED BY <2>1, <2>2, <2>3, <3>2, <3>3, Zenon
  <2>4. CASE s \notin elected
      BY <2>2, <2>4
  <2> QED BY <2>3, <2>4, SMTT(30)
<1> QED BY <1>2, <1>3, ZenonT(30)

\* The registers that addPollList is given are pending afterwards, and so is
\* what was pending.
LEMMA PollListKept ==
    ASSUME DelaysRise, IInv, NEW regs \in SUBSET Polls, NEW initial, AddPollList(regs, initial)
    PROVE  regs \subseteq PendingPolls' /\ PendingPolls \subseteq PendingPolls'
<1> DEFINE queue == WithPollList(regs)
           touched == {SlaveOf[p] : p \in regs}
<1>1. TypeOK
    BY DEF IInv
<1>2. /\ queue \in [Slaves -> Seq(PollCommands)]
      /\ \A s \in Slaves : Range(queue[s]) = Range(mPollQueue[s]) \cup {p \in regs : SlaveOf[p] = s}
    BY <1>1, PollListRange
<1>3. touched \subseteq Slaves /\ regs \subseteq PollCommands
    BY CommandAssumption DEF Commands, PollCommands
<1>4. \A s \in Slaves : mPollQueue[s] = <<>> => (queue[s] = <<>> <=> s \notin touched)
    BY <1>1, PollListEmpty
<1>5. \A p \in regs : p \in Range(queue[SlaveOf[p]])
    BY <1>2, <1>3
<1>6. CASE AllDone /\ regs # {}
  <2>1. PICK first \in touched, found \in [Slaves -> 0 .. Cardinality(Polls)] :
           /\ \A s \in touched : first <= s
           /\ \A s \in Slaves : FoundAt(queue[s], silence, s = first, found[s])
           /\ Elect(queue, first, found)
      BY <1>6, Zenon DEF AddPollList
  <2>2. \A s \in Slaves : mPollQueue[s] = <<>>
      BY <1>6, Zenon DEF AllDone, NonEmptyQueues, QueueEmpty
  <2>3. PendingPolls = {}
    <3>1. mWaitingCommand \notin PollCommands
        BY <1>6, CommandFacts DEF AllDone
    <3>2. \A s \in Slaves : Range(mPollQueue[s]) = {}
        BY <2>2 DEF Range
    <3> QED BY <3>1, <3>2 DEF PendingPolls
  <2> HIDE DEF queue
  <2>4. first \in Slaves /\ queue[first] # <<>>
      BY <1>3, <1>4, <2>2, SMTT(30)
  <2>5. \A s \in Slaves : found[s] = 0 \/ found[s] \in DOMAIN queue[s]
      BY <2>1, FoundAtPosition
  <2>6. \A s \in Slaves : \A i \in DOMAIN queue[s] : queue[s][i] \in Polls /\ SlaveOf[queue[s][i]] = s
    <3>1. \A s \in Slaves : Range(queue[s]) = {p \in regs : SlaveOf[p] = s}
      <4>1. \A s \in Slaves : Range(mPollQueue[s]) = {}
          BY <2>2 DEF Range
      <4> QED BY <1>2, <4>1, Zenon
    <3>2. \A s \in Slaves : \A i \in DOMAIN queue[s] : queue[s][i] \in Range(queue[s])
        BY SMTT(30) DEF Range
    <3> QED BY <3>1, <3>2, Zenon
  <2>7. \A s \in Slaves : DOMAIN queue[s] # {} => first <= s
    <3>1. \A s \in Slaves : DOMAIN queue[s] # {} => queue[s] # <<>>
        OBVIOUS
    <3> QED BY <1>4, <2>1, <2>2, <3>1
  <2>8. \A s, t \in Elected(queue, first, found) : s = t
      BY <2>1, <2>4, <2>6, <2>7, OneElected, Zenon
  <2>9. \A s \in Slaves : \A p \in Range(queue[s]) : p = mWaitingCommand' \/ p \in Range(mPollQueue'[s])
      BY <1>2, <2>1, <2>4, <2>5, <2>8, ElectKeeps, Zenon
  <2>10. \A p \in regs : SlaveOf[p] \in Slaves
      BY <1>3
  <2> QED BY <1>3, <1>5, <2>3, <2>9, <2>10, Zenon DEF PendingPolls
<1>7. CASE ~(AllDone /\ regs # {})
  <2>1. mPollQueue' = queue /\ mWaitingCommand' = mWaitingCommand
      BY <1>7, Zenon DEF AddPollList
  <2> HIDE DEF queue
  <2>2. \A p \in regs : SlaveOf[p] \in Slaves
      BY <1>3
  <2> QED BY <1>2, <1>3, <1>5, <2>1, <2>2 DEF PendingPolls
<1> QED BY <1>6, <1>7

\* The three outcomes of sendCommand for a command that may be sent.
LEMMA SendOutcomes ==
    ASSUME NEW c, NEW left, NEW ok \in BOOLEAN, SendOrWait(c, left, ok)
    PROVE  \/ /\ mWaitingCommand' = c
              /\ UNCHANGED <<mLastCommand, mRetryCount, tries>>
           \/ /\ mWaitingCommand' = c /\ mLastCommand' = c
              /\ RetriesLeft(c) # 0
              /\ mRetryCount' = RetriesLeft(c) - 1 /\ tries' = tries + 1
           \/ /\ mWaitingCommand' = NoCommand /\ mLastCommand' = c
              /\ ok \/ RetriesLeft(c) = 0
              /\ tries' = 0
BY DEF SendOrWait, SendCommand

\* A poll that stops being pending is the command sent last.
LEMMA PollsKept ==
    ASSUME DelaysRise, IInv, Next, NEW c \in PendingPolls, c \notin PendingPolls'
    PROVE  mLastCommand' = c
<1>1. TypeOK /\ c \in PollCommands /\ c \notin Writes /\ c # NoCommand
    BY CommandFacts DEF IInv, PendingPolls
<1>2. \A s \in Slaves : mPollQueue[s] \in Seq(PollCommands)
    BY <1>1 DEF TypeOK
<1>3. ASSUME NEW regs \in SUBSET Polls, NEW initial, AddPollList(regs, initial) PROVE FALSE
    BY <1>3, PollListKept
<1>4. ASSUME NEW r \in Reads, AddReadCommand(r) PROVE FALSE
  <2>1. SlaveOf[r] \in Slaves /\ r \in PollCommands
      BY CommandFacts DEF PollCommands
  <2>2. mPollQueue' = [mPollQueue EXCEPT ![SlaveOf[r]] = Append(@, r)] /\ mWaitingCommand' = mWaitingCommand
      BY <1>4 DEF AddReadCommand
  <2>3. Range(Append(mPollQueue[SlaveOf[r]], r)) = Range(mPollQueue[SlaveOf[r]]) \cup {r}
      BY <1>2, <2>1, AppendRange
  <2>4. \A s \in Slaves : Range(mPollQueue[s]) \subseteq Range(mPollQueue'[s])
      BY <1>1, <2>1, <2>2, <2>3, SMTT(30) DEF TypeOK
  <2> QED BY <1>1, <2>2, <2>4 DEF PendingPolls
<1>5. ASSUME NEW w \in Writes, AddWriteCommand(w) PROVE FALSE
  <2>1. SlaveOf[w] \in Slaves
      BY CommandFacts
  <2>2. CASE WriteLater(w)
    <3>1. mPollQueue' = mPollQueue /\ mWaitingCommand' = mWaitingCommand
        BY <2>2, Zenon DEF WriteLater, PushWrite
    <3> QED BY <3>1 DEF PendingPolls
  <2>3. CASE WriteNow(w) /\ mWaitingCommand = NoCommand
    <3>1. mPollQueue' = mPollQueue
        BY <2>3, Zenon DEF WriteNow, queueVars
    <3> QED BY <1>1, <2>3, <3>1 DEF PendingPolls
  <2>4. CASE WriteNow(w) /\ mWaitingCommand # NoCommand
    <3>1. mWaitingCommand \in PollCommands
        BY <1>1, <2>4, NoneCounted, Zenon DEF WriteNow, TypeOK, Commands
    <3>2. mPollQueue' = [mPollQueue EXCEPT ![SlaveOf[w]] = <<mWaitingCommand>> \o @]
        BY <2>4, <3>1 DEF WriteNow, ReaddCommand
    <3> DEFINE q == mPollQueue[SlaveOf[w]]
               one == <<mWaitingCommand>>
    <3>3. q \in Seq(PollCommands) /\ one \in Seq(PollCommands) /\ Range(one) = {mWaitingCommand}
        BY <1>2, <2>1, <3>1 DEF Range
    <3>4. Range(one \o q) = {mWaitingCommand} \cup Range(q)
      <4> HIDE DEF q, one
      <4>1. Range(one \o q) = Range(one) \cup Range(q)
          BY <3>3, RangeConcatenation
      <4> QED BY <3>3, <4>1
    <3>5. mPollQueue'[SlaveOf[w]] = one \o q /\ \A s \in Slaves : s # SlaveOf[w] => mPollQueue'[s] = mPollQueue[s]
        BY <1>1, <2>1, <3>2 DEF TypeOK
    <3> HIDE DEF one
    <3>6. \A s \in Slaves : Range(mPollQueue[s]) \subseteq Range(mPollQueue'[s])
        BY <3>4, <3>5, Zenon
    <3>7. mWaitingCommand \in Range(mPollQueue'[SlaveOf[w]])
        BY <3>4, <3>5
    <3> QED BY <1>1, <2>1, <3>6, <3>7 DEF PendingPolls
  <2> QED BY <1>5, <2>2, <2>3, <2>4 DEF AddWriteCommand
<1>6. ASSUME NEW ok \in BOOLEAN, ExecuteWaiting(ok) PROVE mLastCommand' = c
  <2>1. mPollQueue' = mPollQueue
      BY <1>6 DEF ExecuteWaiting, queueVars
  <2>2. c = mWaitingCommand
      BY <1>1, <2>1 DEF PendingPolls
  <2>3. mWaitingCommand' # c
      BY <1>1 DEF PendingPolls
  <2>4. SendOrWait(c, mCommandsLeft, ok)
      BY <1>6, <2>2, Zenon DEF ExecuteWaiting
  <2> QED BY <2>3, <2>4, SendOutcomes, Zenon
<1>7. ASSUME NEW ok \in BOOLEAN, ExecuteQueued(ok) PROVE mLastCommand' = c
  <2>1. mWaitingCommand = NoCommand
      BY <1>7 DEF ExecuteQueued
  <2>2. PICK s \in NonEmptyQueues :
           /\ PopNext(s)
           /\ SendOrWait(NextCommand(s), IF LeavesQueue THEN CommandsFor(mPollQueue'[s]) ELSE mCommandsLeft, ok)
      BY <1>7, Zenon DEF ExecuteQueued
  <2>3. PICK t \in Slaves : c \in Range(mPollQueue[t])
      BY <1>1, <2>1 DEF PendingPolls
  <2>4. c \notin Range(mPollQueue'[t]) /\ mWaitingCommand' # c
      BY <1>1 DEF PendingPolls
  <2>5. s \in Slaves
      BY DEF NonEmptyQueues
  <2>6. t = s /\ TakesPoll(s)
      BY <1>1, <2>2, <2>3, <2>4, <2>5, SMTT(30) DEF PopNext, TypeOK
  <2>7. mPollQueue'[s] = Tail(mPollQueue[s]) /\ NextCommand(s) = Head(mPollQueue[s])
      BY <1>1, <2>2, <2>5, <2>6 DEF PopNext, NextCommand, TypeOK
  <2>8. mPollQueue[s] # <<>>
      BY <2>3, <2>6 DEF Range
  <2>9. Range(mPollQueue[s]) = Range(Tail(mPollQueue[s])) \cup {Head(mPollQueue[s])}
      BY <1>2, <2>5, <2>8, TailRange
  <2>10. c = NextCommand(s)
      BY <2>3, <2>4, <2>6, <2>7, <2>9
  <2> QED BY <2>2, <2>4, <2>10, SendOutcomes, Zenon
<1>8. CASE Tick
    BY <1>8 DEF Tick, queueVars, PendingPolls
<1>9. CASE SetupInitialPoll
    BY <1>3, <1>9, Zenon DEF SetupInitialPoll
<1>10. ASSUME NEW regs \in SUBSET Polls, SchedulePolls(regs) PROVE FALSE
    BY <1>3, <1>10, Zenon DEF SchedulePolls
<1> QED BY <1>4, <1>5, <1>6, <1>7, <1>8, <1>9, <1>10, SMTT(30) DEF Next, ExecuteNext

\* When delays do not fall from one slave to a later one, no register that
\* addPollList is given and no RPC read is lost: it stays pending, over the
\* election and the fast path of addWriteCommand, until it is sent.
THEOREM PollsNeverLost ==
    ASSUME DelaysRise
    PROVE  Spec => PollsNotLost
<1> DEFINE Kept == /\ \A c \in PendingPolls : c \notin PendingPolls' => mLastCommand' = c
                   /\ SetupInitialPoll => Polls \subseteq PendingPolls'
                   /\ \A regs \in SUBSET Polls : SchedulePolls(regs) => regs \subseteq PendingPolls'
<1>1. IInv /\ [Next]_vars => [Kept]_vars
  <2> SUFFICES ASSUME IInv, Next PROVE Kept
      OBVIOUS
  <2>1. \A c \in PendingPolls : c \notin PendingPolls' => mLastCommand' = c
      BY PollsKept
  <2>2. SetupInitialPoll => Polls \subseteq PendingPolls'
    <3>1. Polls \in SUBSET Polls
        OBVIOUS
    <3> QED BY <3>1, PollListKept, Zenon DEF SetupInitialPoll
  <2>3. \A regs \in SUBSET Polls : SchedulePolls(regs) => regs \subseteq PendingPolls'
      BY PollListKept, Zenon DEF SchedulePolls
  <2> QED BY <2>1, <2>2, <2>3
<1> HIDE DEF Kept
<1>2. Spec => [][Kept]_vars
    BY <1>1, Invariance, PTL DEF Spec
<1> QED BY <1>2 DEF Kept, PollsNotLost

----------------------------------------------------------------------------
(***************************************************************************)
(* ModbusExecutor implements WriteService                                  *)
(***************************************************************************)

(***************************************************************************)
(* The retries of the waiting write are split between those used and those *)
(* left.  This needs that sendCommand sets the counter up for every new    *)
(* write: no queued write is the command sent last.                        *)
(***************************************************************************)
RetriesSplit ==
    /\ mWaitingCommand = NoCommand => tries = 0
    /\ mWaitingCommand \in Writes =>
          IF mWaitingCommand = mLastCommand
          THEN tries + mRetryCount = Retries[mWaitingCommand]
          ELSE tries = 0
    /\ \A s \in Slaves : \A i \in 1 .. Len(mWriteQueue[s]) : mWriteQueue[s][i] # mLastCommand

\* A step that leaves the write queues, the last command and its retries alone,
\* and the waiting command too unless it is a poll.
LEMMA RetriesKept ==
    ASSUME RetriesSplit,
           UNCHANGED <<mWriteQueue, mLastCommand, mRetryCount, tries>>,
           \/ mWaitingCommand' = mWaitingCommand
           \/ mWaitingCommand' \in PollCommands
    PROVE  RetriesSplit'
BY CommandFacts DEF RetriesSplit

\* Sending a command that is not queued any more.
LEMMA SendRetries ==
    ASSUME IInv, RetriesSplit, NEW c \in Commands, NEW left, NEW ok \in BOOLEAN,
           SendOrWait(c, left, ok),
           c = mWaitingCommand \/ mWaitingCommand = NoCommand,
           c \in Writes /\ c # mWaitingCommand => c # mLastCommand,
           \A s \in Slaves : \A i \in 1 .. Len(mWriteQueue'[s]) :
              mWriteQueue'[s][i] # c /\ mWriteQueue'[s][i] # mLastCommand
    PROVE  RetriesSplit'
<1>1. mRetryCount \in Nat /\ tries \in Nat /\ Retries[c] \in Nat /\ c # NoCommand
    BY ExecutorAssumption, CommandFacts, Zenon DEF IInv, TypeOK
<1>2. c \in Writes => IF c = mLastCommand
                      THEN tries + mRetryCount = Retries[c]
                      ELSE tries = 0
    BY DEF RetriesSplit
<1>3. c \in Writes => tries + RetriesLeft(c) = Retries[c]
    BY <1>1, <1>2 DEF RetriesLeft
<1>4. RetriesLeft(c) \in Nat
    BY <1>1 DEF RetriesLeft
<1>5. CASE mWaitingCommand' = c /\ UNCHANGED <<mLastCommand, mRetryCount, tries>>
    BY <1>1, <1>2, <1>5, SMTT(30) DEF RetriesSplit
<1>6. CASE /\ mWaitingCommand' = c /\ mLastCommand' = c
           /\ RetriesLeft(c) # 0
           /\ mRetryCount' = RetriesLeft(c) - 1 /\ tries' = tries + 1
  <2>1. c \in Writes => tries' + mRetryCount' = Retries[c]
      BY <1>1, <1>3, <1>4, <1>6
  <2> QED BY <1>1, <1>6, <2>1 DEF RetriesSplit
<1>7. CASE mWaitingCommand' = NoCommand /\ mLastCommand' = c /\ tries' = 0
    BY <1>7, CommandFacts, Zenon DEF RetriesSplit
<1> QED BY <1>5, <1>6, <1>7, SendOutcomes, Zenon

\* Every step keeps the split.
LEMMA NextRetries == IInv /\ RetriesSplit /\ [Next]_vars => RetriesSplit'
<1> SUFFICES ASSUME IInv, RetriesSplit, [Next]_vars PROVE RetriesSplit'
    OBVIOUS
<1>1. ASSUME NEW regs \in SUBSET Polls, NEW initial \in BOOLEAN, AddPollList(regs, initial)
      PROVE  RetriesSplit'
  <2>1. UNCHANGED <<mWriteQueue, mLastCommand, mRetryCount, tries>>
      BY <1>1, Zenon DEF AddPollList
  <2>2. mWaitingCommand' = mWaitingCommand \/ mWaitingCommand' \in PollCommands
      BY <1>1, AddPollListEffect
  <2> QED BY <2>1, <2>2, RetriesKept
<1>2. CASE SetupInitialPoll
    BY <1>1, <1>2, Zenon DEF SetupInitialPoll
<1>3. CASE \E regs \in SUBSET Polls : SchedulePolls(regs)
    BY <1>1, <1>3, Zenon DEF SchedulePolls
<1>4. CASE \E c \in Reads : AddReadCommand(c)
  <2>1. UNCHANGED <<mWriteQueue, mWaitingCommand, mLastCommand, mRetryCount, tries>>
      BY <1>4 DEF AddReadCommand
  <2> QED BY <2>1, RetriesKept
<1>5. CASE \E w \in Writes : AddWriteCommand(w)
  <2>1. PICK w \in Writes : AddWriteCommand(w)
      BY <1>5
  <2>2. w \notin PendingWrites /\ w # mLastCommand /\ UNCHANGED <<mLastCommand, mRetryCount>>
      BY <2>1 DEF AddWriteCommand, Fresh
  <2>3. CASE WriteNow(w)
    <3>1. mWriteQueue' = mWriteQueue /\ mWaitingCommand' = w /\ tries' = 0
        BY <2>3, WriteNowStep
    <3> QED BY <2>2, <3>1 DEF RetriesSplit
  <2>4. CASE WriteLater(w)
    <3>1. /\ mWriteQueue' = [mWriteQueue EXCEPT ![SlaveOf[w]] = Append(@, w)]
          /\ mWaitingCommand' = mWaitingCommand /\ tries' = tries
        BY <2>2, <2>4, WriteLaterStep
    <3>2. ASSUME NEW s \in Slaves, NEW i \in 1 .. Len(mWriteQueue'[s])
          PROVE  mWriteQueue'[s][i] # mLastCommand
      <4>1. mWriteQueue[s] \in Seq(Writes) /\ mWriteQueue \in [Slaves -> Seq(Writes)]
          BY DEF IInv, TypeOK
      <4>2. CASE mWriteQueue'[s] = mWriteQueue[s]
          BY <4>2, Zenon DEF RetriesSplit
      <4>3. CASE mWriteQueue'[s] = Append(mWriteQueue[s], w)
        <5>1. i \in 1 .. Len(mWriteQueue[s]) \/ i = Len(mWriteQueue[s]) + 1
            BY <4>1, <4>3, AppendProperties
        <5>2. mWriteQueue'[s][i] = w \/ \E j \in 1 .. Len(mWriteQueue[s]) : mWriteQueue'[s][i] = mWriteQueue[s][j]
            BY <4>1, <4>3, <5>1, AppendProperties, SMTT(30)
        <5> QED BY <2>2, <5>2 DEF RetriesSplit
      <4> QED BY <3>1, <4>1, <4>2, <4>3
    <3> QED BY <2>2, <3>1, <3>2, Zenon DEF RetriesSplit
  <2> QED BY <2>1, <2>3, <2>4 DEF AddWriteCommand
<1>6. ASSUME NEW ok \in BOOLEAN, ExecuteWaiting(ok) PROVE RetriesSplit'
  <2>1. /\ mWaitingCommand # NoCommand /\ UNCHANGED mWriteQueue
        /\ SendOrWait(mWaitingCommand, mCommandsLeft, ok)
      BY <1>6 DEF ExecuteWaiting, queueVars
  <2>2. mWaitingCommand \in Commands
      BY <2>1 DEF IInv, TypeOK
  <2>3. \A s \in Slaves : \A i \in 1 .. Len(mWriteQueue'[s]) :
           mWriteQueue'[s][i] # mWaitingCommand /\ mWriteQueue'[s][i] # mLastCommand
      BY <2>1, SMTT(30) DEF IInv, WritesApart, RetriesSplit
  <2> QED BY <2>1, <2>2, <2>3, SendRetries
<1>7. ASSUME NEW ok \in BOOLEAN, ExecuteQueued(ok) PROVE RetriesSplit'
  <2>1. mWaitingCommand = NoCommand
      BY <1>7 DEF ExecuteQueued
  <2>2. PICK s \in NonEmptyQueues :
           /\ PopNext(s)
           /\ SendOrWait(NextCommand(s),
                         IF LeavesQueue THEN CommandsFor(mPollQueue'[s]) ELSE mCommandsLeft,
                         ok)
      BY <1>7 DEF ExecuteQueued
  <2>3. /\ s \in Slaves
        /\ NextCommand(s) \in PollCommands \/ NextCommand(s) \in Writes
        /\ NextCommand(s) \in Writes => NextCommand(s) = Head(mWriteQueue[s]) /\ mWriteQueue[s] # <<>>
      BY <2>2, PopNextType, CommandFacts, Zenon
  <2>4. NextCommand(s) \in Commands
      BY <2>3, CommandFacts
  <2>5. \A t \in Slaves : \A x \in Range(mWriteQueue[t]) : x # mLastCommand
    <3> TAKE t \in Slaves
    <3>1. mWriteQueue[t] \in Seq(Writes)
        BY DEF IInv, TypeOK
    <3> QED BY <3>1, QueueRange DEF RetriesSplit
  <2>6. NextCommand(s) \in Writes => NextCommand(s) # mLastCommand
    <3>1. mWriteQueue[s] \in Seq(Writes)
        BY <2>3 DEF IInv, TypeOK
    <3> QED BY <2>3, <2>5, <3>1, TailRange
  <2>7. \A t \in Slaves : \A i \in 1 .. Len(mWriteQueue'[t]) :
           mWriteQueue'[t][i] # NextCommand(s) /\ mWriteQueue'[t][i] # mLastCommand
      BY <2>1, <2>2, <2>5, PoppedApart, Zenon
  <2> QED BY <2>1, <2>2, <2>4, <2>6, <2>7, SendRetries, Zenon
<1>8. CASE Tick
    BY <1>8, RetriesKept DEF Tick, queueVars
<1>9. CASE UNCHANGED vars
    BY <1>9, RetriesKept DEF vars
<1> QED BY <1>2, <1>3, <1>4, <1>5, <1>6, <1>7, <1>8, <1>9, SMTT(30) DEF Next, ExecuteNext

----------------------------------------------------------------------------
(***************************************************************************)
(* The refinement mapping                                                  *)
(***************************************************************************)

\* WriteService's pending and failed, as the INSTANCE defines them.
Pending == [s \in Slaves |-> WritesTo(s)]

Failed == [w \in Writes |-> IF w = mWaitingCommand THEN tries ELSE 0]

\* The writes to a slave form a sequence, headed by the waiting one.
LEMMA WritesToType ==
    ASSUME IInv, NEW s \in Slaves
    PROVE  /\ WritesTo(s) \in Seq(Writes)
           /\ mWaitingCommand \in Writes /\ SlaveOf[mWaitingCommand] = s =>
                 /\ WritesTo(s) # <<>>
                 /\ Head(WritesTo(s)) = mWaitingCommand
                 /\ Tail(WritesTo(s)) = mWriteQueue[s]
<1>1. mWriteQueue[s] \in Seq(Writes)
    BY DEF IInv, TypeOK
<1>2. CASE mWaitingCommand \in Writes /\ SlaveOf[mWaitingCommand] = s
  <2>1. WritesTo(s) = <<mWaitingCommand>> \o mWriteQueue[s]
      BY <1>2 DEF WritesTo
  <2>2. <<mWaitingCommand>> \in Seq(Writes)
      BY <1>2
  <2>3. /\ <<mWaitingCommand>> \o mWriteQueue[s] \in Seq(Writes)
        /\ <<mWaitingCommand>> \o mWriteQueue[s] # <<>>
        /\ Head(<<mWaitingCommand>> \o mWriteQueue[s]) = mWaitingCommand
        /\ Tail(<<mWaitingCommand>> \o mWriteQueue[s]) = mWriteQueue[s]
      BY <1>1, <1>2, <2>2
  <2> QED BY <2>1, <2>3
<1>3. CASE ~(mWaitingCommand \in Writes /\ SlaveOf[mWaitingCommand] = s)
    BY <1>1, <1>3 DEF WritesTo
<1> QED BY <1>2, <1>3

\* A step that changes neither the write queues nor which write is waiting.
LEMMA ServiceStutters ==
    ASSUME mWriteQueue' = mWriteQueue,
           \/ mWaitingCommand' = mWaitingCommand /\ tries' = tries
           \/ mWaitingCommand \notin Writes /\ mWaitingCommand' \notin Writes
    PROVE  Pending' = Pending /\ Failed' = Failed
<1>1. CASE mWaitingCommand' = mWaitingCommand /\ tries' = tries
    BY <1>1 DEF Pending, Failed, WritesTo
<1>2. CASE mWaitingCommand \notin Writes /\ mWaitingCommand' \notin Writes
  <2>1. Failed' = Failed
      BY <1>2 DEF Failed
  <2>2. Pending' = Pending
      BY <1>2 DEF Pending, WritesTo
  <2> QED BY <2>1, <2>2
<1> QED BY <1>1, <1>2

\* addWriteCommand accepts a write.
LEMMA ServiceAccepts ==
    ASSUME IInv, NEW w \in Writes, AddWriteCommand(w)
    PROVE  Pending' = [Pending EXCEPT ![SlaveOf[w]] = Append(@, w)] /\ Failed' = Failed
<1>1. w \notin PendingWrites /\ SlaveOf[w] \in Slaves
    BY CommandFacts DEF AddWriteCommand, Fresh
<1>2. mWriteQueue \in [Slaves -> Seq(Writes)]
    BY DEF IInv, TypeOK
<1>3. CASE WriteNow(w)
  <2>1. mWaitingCommand \notin Writes /\ \A s \in Slaves : mWriteQueue[s] = <<>>
      BY <1>3, NoneCounted DEF WriteNow
  <2>2. mWriteQueue' = mWriteQueue /\ mWaitingCommand' = w /\ tries' = 0
      BY <1>3, WriteNowStep
  <2>3. Failed' = Failed
      BY <2>1, <2>2 DEF Failed
  <2>4. \A s \in Slaves : WritesTo(s) = <<>>
      BY <2>1 DEF WritesTo
  <2>5. \A s \in Slaves : WritesTo(s)' = IF s = SlaveOf[w] THEN <<w>> ELSE <<>>
    <3>1. <<w>> \o <<>> = <<w>>
        OBVIOUS
    <3>2. \A s \in Slaves : mWriteQueue'[s] = <<>>
        BY <2>1, <2>2
    <3> QED BY <2>2, <3>1, <3>2, Zenon DEF WritesTo
  <2>6. Append(<<>>, w) = <<w>>
      OBVIOUS
  <2>7. Pending' = [Pending EXCEPT ![SlaveOf[w]] = Append(@, w)]
      BY <1>1, <2>4, <2>5, <2>6, SMTT(30) DEF Pending
  <2> QED BY <2>3, <2>7
<1>4. CASE WriteLater(w)
  <2>1. /\ mWriteQueue' = [mWriteQueue EXCEPT ![SlaveOf[w]] = Append(@, w)]
        /\ mWaitingCommand' = mWaitingCommand /\ tries' = tries
      BY <1>1, <1>4, WriteLaterStep
  <2>2. Failed' = Failed
      BY <2>1 DEF Failed
  <2>3. \A s \in Slaves : WritesTo(s)' = IF s = SlaveOf[w] THEN Append(WritesTo(s), w) ELSE WritesTo(s)
    <3> TAKE s \in Slaves
    <3>1. CASE s # SlaveOf[w]
        BY <1>2, <2>1, <3>1, SMTT(30) DEF WritesTo
    <3>2. CASE s = SlaveOf[w] /\ ~(mWaitingCommand \in Writes /\ SlaveOf[mWaitingCommand] = s)
        BY <1>2, <2>1, <3>2 DEF WritesTo
    <3>3. CASE s = SlaveOf[w] /\ mWaitingCommand \in Writes /\ SlaveOf[mWaitingCommand] = s
      <4> DEFINE q == mWriteQueue[s]
                 head == <<mWaitingCommand>>
      <4>1. q \in Seq(Writes) /\ head \in Seq(Writes) /\ <<w>> \in Seq(Writes)
          BY <1>2, <3>3
      <4>2. WritesTo(s) = head \o q /\ WritesTo(s)' = head \o Append(q, w)
          BY <1>2, <2>1, <3>3 DEF WritesTo
      <4> HIDE DEF q, head
      <4>3. head \o q \in Seq(Writes)
          BY <4>1, ConcatProperties, Zenon
      <4>4. Append(q, w) = q \o <<w>> /\ Append(head \o q, w) = (head \o q) \o <<w>>
          BY <4>1, <4>3, AppendIsConcat
      <4>5. (head \o q) \o <<w>> = head \o (q \o <<w>>)
          BY <4>1, ConcatAssociative
      <4> QED BY <3>3, <4>2, <4>4, <4>5
    <3> QED BY <3>1, <3>2, <3>3
  <2>4. Pending' = [Pending EXCEPT ![SlaveOf[w]] = Append(@, w)]
      BY <1>1, <2>3, Zenon DEF Pending
  <2> QED BY <2>2, <2>4
<1> QED BY <1>3, <1>4 DEF AddWriteCommand

\* A write that is sent, for slave s: it stays the oldest one and its failures
\* are counted, or it leaves.
LEMMA ServiceSends ==
    ASSUME IInv, RetriesSplit, NEW c \in Writes, NEW left, NEW ok \in BOOLEAN,
           SendOrWait(c, left, ok),
           c = mWaitingCommand \/ (mWaitingCommand = NoCommand /\ c # mLastCommand),
           WritesTo(SlaveOf[c]) # <<>>,
           Head(WritesTo(SlaveOf[c])) = c,
           mWriteQueue' = [mWriteQueue EXCEPT ![SlaveOf[c]] = Tail(WritesTo(SlaveOf[c]))]
    PROVE  [Service!Next]_(Service!serviceVars)
<1> DEFINE s == SlaveOf[c]
<1>1. s \in Slaves /\ c \in Commands /\ c # NoCommand
    BY CommandFacts
<1>2. /\ mWriteQueue \in [Slaves -> Seq(Writes)] /\ tries \in Nat /\ mRetryCount \in Nat
      /\ Retries[c] \in Nat
    BY <1>1, ExecutorAssumption, Zenon DEF IInv, TypeOK
<1>3. WritesTo(s) \in Seq(Writes)
    BY <1>1, WritesToType
<1>4. WritesTo(s) = <<c>> \o Tail(WritesTo(s))
    BY <1>3
<1>5. tries + RetriesLeft(c) = Retries[c] /\ RetriesLeft(c) \in Nat
    BY <1>1, <1>2 DEF RetriesSplit, RetriesLeft
<1>6. \A w \in Writes : w # c => w # mWaitingCommand
    BY <1>1, CommandFacts
<1>7. Failed = [w \in Writes |-> IF w = c THEN tries ELSE 0]
    BY <1>6 DEF Failed, RetriesSplit
<1>8. Pending[s] = WritesTo(s) /\ Failed[c] = tries
    BY <1>1, <1>7 DEF Pending
<1>9. ASSUME mWaitingCommand' = c
      PROVE  Pending' = Pending /\ Failed' = [w \in Writes |-> IF w = c THEN tries' ELSE 0]
  <2>1. Failed' = [w \in Writes |-> IF w = c THEN tries' ELSE 0]
      BY <1>9 DEF Failed
  <2>2. \A t \in Slaves : WritesTo(t)' = WritesTo(t)
    <3> TAKE t \in Slaves
    <3>1. CASE t = s
        BY <1>1, <1>2, <1>4, <1>9, <3>1, Zenon DEF WritesTo
    <3>2. CASE t # s
        BY <1>1, <1>2, <1>6, <1>9, <3>2, CommandFacts, Zenon DEF WritesTo
    <3> QED BY <3>1, <3>2
  <2> QED BY <2>1, <2>2 DEF Pending
<1>10. ASSUME mWaitingCommand' = NoCommand
       PROVE  /\ Pending' = [Pending EXCEPT ![s] = Tail(@)]
              /\ Failed' = [Failed EXCEPT ![c] = 0]
  <2>1. NoCommand \notin Writes
      BY CommandFacts
  <2>2. Failed' = [w \in Writes |-> 0]
      BY <1>10, <2>1 DEF Failed
  <2>3. Failed' = [Failed EXCEPT ![c] = 0]
      BY <1>7, <2>2
  <2>4. \A t \in Slaves : WritesTo(t)' = IF t = s THEN Tail(WritesTo(s)) ELSE WritesTo(t)
    <3> TAKE t \in Slaves
    <3>1. WritesTo(t)' = mWriteQueue'[t]
        BY <1>10, <2>1 DEF WritesTo
    <3>2. CASE t = s
        BY <1>1, <1>2, <3>1, <3>2, SMTT(30)
    <3>3. CASE t # s
      <4>1. WritesTo(t) = mWriteQueue[t]
          BY <1>6, <2>1, <3>3 DEF WritesTo
      <4> QED BY <1>2, <3>1, <3>3, <4>1
    <3> QED BY <3>2, <3>3
  <2>5. Pending' = [Pending EXCEPT ![s] = Tail(@)]
      BY <1>1, <2>4, Zenon DEF Pending
  <2> QED BY <2>3, <2>5
<1>11. CASE mWaitingCommand' = c /\ tries' = tries
  <2>1. Pending' = Pending /\ Failed' = Failed
      BY <1>7, <1>9, <1>11
  <2> QED BY <2>1 DEF Service!serviceVars, Pending, Failed
<1>12. CASE /\ mWaitingCommand' = c /\ RetriesLeft(c) # 0 /\ tries' = tries + 1
  <2>1. Pending' = Pending /\ Failed' = [Failed EXCEPT ![c] = @ + 1]
      BY <1>7, <1>9, <1>12
  <2>2. Failed[c] < Retries[c]
      BY <1>2, <1>5, <1>8, <1>12, SMTT(30)
  <2>3. Service!Fail(s)
      BY <1>3, <1>8, <2>1, <2>2, Zenon DEF Service!Fail, Pending, Failed
  <2> QED BY <1>1, <2>3 DEF Service!Next
<1>13. CASE mWaitingCommand' = NoCommand /\ ok
  <2>1. Service!Succeed(s)
      BY <1>3, <1>8, <1>10, <1>13, Zenon DEF Service!Succeed, Service!Settle, Pending, Failed
  <2> QED BY <1>1, <2>1 DEF Service!Next
<1>14. CASE mWaitingCommand' = NoCommand /\ RetriesLeft(c) = 0
  <2>1. Failed[c] = Retries[c]
      BY <1>2, <1>5, <1>8, <1>14, SMTT(30)
  <2>2. Service!GiveUp(s)
      BY <1>3, <1>8, <1>10, <1>14, <2>1, Zenon DEF Service!GiveUp, Service!Settle, Pending, Failed
  <2> QED BY <1>1, <2>2, SMTT(30) DEF Service!Next
<1> QED BY <1>11, <1>12, <1>13, <1>14, SendOutcomes, SMTT(30)

\* Every step of the executor is a step of the service, or changes nothing of it.
LEMMA NextService ==
    IInv /\ RetriesSplit /\ [Next]_vars => [Service!Next]_(Service!serviceVars)
<1> SUFFICES ASSUME IInv, RetriesSplit, [Next]_vars
             PROVE  [Service!Next]_(Service!serviceVars)
    OBVIOUS
<1> DEFINE Stutter == Pending' = Pending /\ Failed' = Failed
<1>1. Stutter => [Service!Next]_(Service!serviceVars)
    BY DEF Service!serviceVars, Pending, Failed
<1>2. NoCommand \notin Writes /\ Writes \cap PollCommands = {}
    BY CommandFacts
<1>3. ASSUME NEW regs \in SUBSET Polls, NEW initial \in BOOLEAN, AddPollList(regs, initial)
      PROVE  Stutter
  <2>1. UNCHANGED <<mWriteQueue, tries>>
      BY <1>3, Zenon DEF AddPollList
  <2>2. \/ mWaitingCommand' = mWaitingCommand
        \/ mWaitingCommand = NoCommand /\ mWaitingCommand' \in PollCommands
      BY <1>3, AddPollListEffect
  <2> QED BY <1>2, <2>1, <2>2, ServiceStutters
<1>4. CASE SetupInitialPoll
    BY <1>1, <1>3, <1>4, Zenon DEF SetupInitialPoll
<1>5. CASE \E regs \in SUBSET Polls : SchedulePolls(regs)
    BY <1>1, <1>3, <1>5, Zenon DEF SchedulePolls
<1>6. CASE \E c \in Reads : AddReadCommand(c)
    BY <1>1, <1>6, ServiceStutters DEF AddReadCommand
<1>7. CASE \E w \in Writes : AddWriteCommand(w)
  <2>1. PICK w \in Writes : AddWriteCommand(w)
      BY <1>7
  <2>2. Service!Accept(w)
      BY <2>1, ServiceAccepts, Zenon DEF Service!Accept, Pending, Failed
  <2> QED BY <2>2 DEF Service!Next
<1>8. ASSUME NEW ok \in BOOLEAN, ExecuteWaiting(ok)
      PROVE  [Service!Next]_(Service!serviceVars)
  <2> DEFINE c == mWaitingCommand
  <2>1. c # NoCommand /\ mWriteQueue' = mWriteQueue /\ SendOrWait(c, mCommandsLeft, ok)
      BY <1>8 DEF ExecuteWaiting, queueVars
  <2>2. CASE c \notin Writes
    <3>1. mWaitingCommand' \in {c, NoCommand}
        BY <2>1, SendWaiting
    <3> QED BY <1>1, <1>2, <2>1, <2>2, <3>1, ServiceStutters
  <2>3. CASE c \in Writes
    <3>1. SlaveOf[c] \in Slaves /\ mWriteQueue \in [Slaves -> Seq(Writes)]
        BY <2>3, CommandFacts DEF IInv, TypeOK
    <3>2. /\ WritesTo(SlaveOf[c]) # <<>> /\ Head(WritesTo(SlaveOf[c])) = c
          /\ Tail(WritesTo(SlaveOf[c])) = mWriteQueue[SlaveOf[c]]
        BY <2>3, <3>1, WritesToType
    <3>3. mWriteQueue' = [mWriteQueue EXCEPT ![SlaveOf[c]] = Tail(WritesTo(SlaveOf[c]))]
        BY <2>1, <3>1, <3>2
    <3> QED BY <2>1, <2>3, <3>2, <3>3, ServiceSends, Zenon
  <2> QED BY <2>2, <2>3
<1>9. ASSUME NEW ok \in BOOLEAN, ExecuteQueued(ok)
      PROVE  [Service!Next]_(Service!serviceVars)
  <2>1. mWaitingCommand = NoCommand
      BY <1>9 DEF ExecuteQueued
  <2>2. PICK s \in NonEmptyQueues :
           /\ PopNext(s)
           /\ SendOrWait(NextCommand(s),
                         IF LeavesQueue THEN CommandsFor(mPollQueue'[s]) ELSE mCommandsLeft,
                         ok)
      BY <1>9 DEF ExecuteQueued
  <2> DEFINE c == NextCommand(s)
  <2>3. /\ s \in Slaves
        /\ \/ c \in PollCommands /\ mWriteQueue' = mWriteQueue
           \/ /\ c \in Writes /\ mWriteQueue[s] # <<>> /\ c = Head(mWriteQueue[s])
              /\ mWriteQueue' = [mWriteQueue EXCEPT ![s] = Tail(@)]
      BY <2>2, PopNextType
  <2>4. CASE c \in PollCommands /\ mWriteQueue' = mWriteQueue
    <3>1. mWaitingCommand' \in {c, NoCommand}
        BY <2>2, SendWaiting
    <3> QED BY <1>1, <1>2, <2>1, <2>4, <3>1, ServiceStutters
  <2>5. CASE /\ c \in Writes /\ mWriteQueue[s] # <<>> /\ c = Head(mWriteQueue[s])
             /\ mWriteQueue' = [mWriteQueue EXCEPT ![s] = Tail(@)]
    <3>1. mWriteQueue[s] \in Seq(Writes) /\ mWriteQueue \in [Slaves -> Seq(Writes)]
        BY <2>3 DEF IInv, TypeOK
    <3>2. 1 \in 1 .. Len(mWriteQueue[s]) /\ c = mWriteQueue[s][1]
        BY <2>5, <3>1, EmptySeq, SMTT(30)
    <3>3. SlaveOf[c] = s /\ c # mLastCommand
        BY <2>3, <3>2, SMTT(30) DEF IInv, WritesApart, RetriesSplit
    <3>4. WritesTo(s) = mWriteQueue[s]
        BY <1>2, <2>1, Zenon DEF WritesTo
    <3>5. mWriteQueue' = [mWriteQueue EXCEPT ![SlaveOf[c]] = Tail(WritesTo(SlaveOf[c]))]
        BY <2>5, <3>3, <3>4
    <3>6. WritesTo(SlaveOf[c]) # <<>> /\ Head(WritesTo(SlaveOf[c])) = c /\ c \in Writes
        BY <2>5, <3>3, <3>4
    <3> DEFINE left == IF LeavesQueue THEN CommandsFor(mPollQueue'[s]) ELSE mCommandsLeft
    <3>7. SendOrWait(c, left, ok)
        BY <2>2
    <3> HIDE DEF c, left
    <3> QED BY <2>1, <3>3, <3>5, <3>6, <3>7, ServiceSends, Zenon
  <2> QED BY <2>3, <2>4, <2>5
<1>10. CASE Tick
    BY <1>1, <1>10, ServiceStutters DEF Tick, queueVars
<1>11. CASE UNCHANGED vars
    BY <1>1, <1>11, ServiceStutters DEF vars
<1> QED BY <1>4, <1>5, <1>6, <1>7, <1>8, <1>9, <1>10, <1>11 DEF Next, ExecuteNext

\* The executor starts as the service does.
LEMMA InitService == Init => RetriesSplit /\ Service!Init
<1> SUFFICES ASSUME Init PROVE RetriesSplit /\ Service!Init
    OBVIOUS
<1>1. NoCommand \notin Writes
    BY CommandFacts
<1>2. RetriesSplit
    BY <1>1 DEF Init, QueuesInit, RetriesSplit
<1>3. \A s \in Slaves : WritesTo(s) = <<>>
    BY <1>1 DEF Init, QueuesInit, WritesTo
<1>4. Service!Init
    BY <1>3 DEF Init, Service!Init
<1> QED BY <1>2, <1>4

\* The executor implements the write service: the writes to a slave are sent
\* in the order addWriteCommand got them, whatever is polled in between, and
\* none is dropped before it succeeded or used all its retries.
THEOREM WriteServiceImplemented == Spec => ImplementsWriteService
<1>1. Spec => []IInv
    BY Invariance
<1>2. Init => RetriesSplit /\ Service!Init
    BY InitService
<1>3. IInv /\ RetriesSplit /\ [Next]_vars => RetriesSplit'
    BY NextRetries
<1>4. IInv /\ RetriesSplit /\ [Next]_vars => [Service!Next]_(Service!serviceVars)
    BY NextService
<1> QED BY <1>1, <1>2, <1>3, <1>4, PTL DEF Spec, ImplementsWriteService, Service!Spec
=============================================================================
