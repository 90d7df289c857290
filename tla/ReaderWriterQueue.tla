------------------------- MODULE ReaderWriterQueue --------------------------
(***************************************************************************)
(* ReaderWriterQueue (readerwriterqueue/readerwriterqueue.h), the inner    *)
(* queue of BlockingReaderWriterQueue: a ring of circular blocks.  The     *)
(* producer owns tailBlock and the tails, the consumer owns frontBlock and *)
(* the fronts; each keeps a copy of the other's index in localFront and    *)
(* localTail.  A step makes at most one access to what the other thread    *)
(* writes or reads.  Memory is sequentially consistent: the fences of the  *)
(* code are taken to do their work.                                        *)
(***************************************************************************)
EXTENDS LightweightSemaphore, Sequences

CONSTANTS
    Size,              \* argument of the constructor
    MAX_BLOCK_SIZE,
    MaxBlocks,         \* bound on the blocks that can be allocated
    MaxElements        \* bound on the calls of enqueue

\* The queues of ModbusClient are made with the default size of 15.  A block
\* of one slot, as a size of 0 would give, holds nothing when it is reused.
ASSUME QueueAssumption ==
    /\ Size \in Nat \ {0}
    /\ MAX_BLOCK_SIZE \in Nat /\ MAX_BLOCK_SIZE >= 2
    /\ MaxBlocks \in Nat
    /\ MaxElements \in Nat

VARIABLES
    blocks,            \* in the order of their allocation; a pointer is an index
    frontBlock,
    tailBlock,
    largestBlockSize,
    tailBlockNext,     \* local of inner_enqueue
    nextBlock,         \* local of try_dequeue
    sent,              \* number of elements enqueued
    delivered          \* history: what the consumer got

innerVars == <<blocks, frontBlock, tailBlock, largestBlockSize,
               tailBlockNext, nextBlock, sent, delivered>>

vars == <<semaVars, innerVars>>

\* a slot without an element, and the null pointer
Nothing == 0

\* doubles 1 until it is at least x
ceilToPow2(x) ==
    LET power[k \in 0 .. x] ==
            IF k = 0 THEN 1
            ELSE IF power[k - 1] < x THEN 2 * power[k - 1] ELSE power[k - 1]
    IN power[x]

make_block(size) ==
    [front |-> 0, localTail |-> 0, tail |-> 0, localFront |-> 0,
     next |-> Nothing, size |-> size, data |-> [i \in 0 .. size - 1 |-> Nothing]]

InitialBlocks ==
    LET largest == ceilToPow2(Size + 1)
        several == largest > MAX_BLOCK_SIZE * 2
        n == IF several THEN (Size + MAX_BLOCK_SIZE * 2 - 3) \div (MAX_BLOCK_SIZE - 1) ELSE 1
        size == IF several THEN MAX_BLOCK_SIZE ELSE largest
    IN [i \in 1 .. n |-> [make_block(size) EXCEPT !.next = (i % n) + 1]]

Init ==
    /\ SemaInit
    /\ blocks = InitialBlocks
    /\ frontBlock = 1
    /\ tailBlock = 1
    /\ largestBlockSize = InitialBlocks[1].size
    /\ tailBlockNext = Nothing
    /\ nextBlock = Nothing
    /\ sent = 0
    /\ delivered = <<>>

\* (i + 1) & sizeMask
After(b, i) == (i + 1) % blocks[b].size

semaUnchanged == UNCHANGED <<m_count, m_sema, timeout>>

(***************************************************************************)
(* inner_enqueue<CanAlloc>, by the producer.                               *)
(***************************************************************************)
ProducerStep(from, to) ==
    /\ producer = from
    /\ producer' = to
    /\ UNCHANGED <<consumer, frontBlock, nextBlock, delivered>>
    /\ semaUnchanged

\* looks for room with localFront first, then with the consumer's front
CheckRoom ==
    LET b == tailBlock
        next == After(b, blocks[b].tail)
    IN
    /\ sent < MaxElements
    /\ \/ /\ next # blocks[b].localFront
          /\ ProducerStep("idle", "write")
          /\ UNCHANGED blocks
       \/ /\ next = blocks[b].localFront
          /\ ProducerStep("idle", IF next # blocks[b].front THEN "write" ELSE "full")
          /\ blocks' = [blocks EXCEPT ![b].localFront = blocks[b].front]
    /\ UNCHANGED <<tailBlock, largestBlockSize, tailBlockNext, sent>>

WriteElement ==
    /\ ProducerStep("write", "publish")
    /\ blocks' = [blocks EXCEPT ![tailBlock].data[blocks[tailBlock].tail] = sent + 1]
    /\ UNCHANGED <<tailBlock, largestBlockSize, tailBlockNext, sent>>

PublishTail ==
    /\ ProducerStep("publish", "signal")
    /\ blocks' = [blocks EXCEPT ![tailBlock].tail = After(tailBlock, blocks[tailBlock].tail)]
    /\ sent' = sent + 1
    /\ UNCHANGED <<tailBlock, largestBlockSize, tailBlockNext>>

NextBlockFree_Always == TRUE

NextBlockFree == blocks[tailBlock].next # frontBlock

UseNextBlock ==
    /\ NextBlockFree
    /\ ProducerStep("full", "reuse")
    /\ tailBlockNext' = blocks[tailBlock].next
    /\ UNCHANGED <<blocks, tailBlock, largestBlockSize, sent>>

\* reads the front of the next block, which must be empty
ReadNextFront ==
    /\ ProducerStep("reuse", "write_next")
    /\ blocks' = [blocks EXCEPT ![tailBlockNext].localFront = blocks[tailBlockNext].front]
    /\ UNCHANGED <<tailBlock, largestBlockSize, tailBlockNext, sent>>

WriteNextBlock ==
    /\ ProducerStep("write_next", "advance_tail")
    /\ blocks' = [blocks EXCEPT ![tailBlockNext].data[blocks[tailBlockNext].tail] = sent + 1]
    /\ UNCHANGED <<tailBlock, largestBlockSize, tailBlockNext, sent>>

AdvanceNextTail_Forgotten ==
    /\ ProducerStep("advance_tail", "publish_block")
    /\ UNCHANGED <<blocks, tailBlock, largestBlockSize, tailBlockNext, sent>>

AdvanceNextTail ==
    /\ ProducerStep("advance_tail", "publish_block")
    /\ blocks' = [blocks EXCEPT ![tailBlockNext].tail = After(tailBlockNext, blocks[tailBlockNext].tail)]
    /\ UNCHANGED <<tailBlock, largestBlockSize, tailBlockNext, sent>>

AllocateBlock ==
    LET size == IF largestBlockSize >= MAX_BLOCK_SIZE THEN largestBlockSize
                                                      ELSE largestBlockSize * 2
        new == [make_block(size) EXCEPT !.data[0] = sent + 1, !.tail = 1, !.localTail = 1,
                                        !.next = blocks[tailBlock].next]
    IN
    /\ ~NextBlockFree
    /\ Len(blocks) < MaxBlocks
    /\ ProducerStep("full", "link")
    /\ largestBlockSize' = size
    /\ blocks' = Append(blocks, new)
    /\ tailBlockNext' = Len(blocks) + 1
    /\ UNCHANGED <<tailBlock, sent>>

\* make_block returns nullptr: enqueue returns false and nothing is added
AllocationFails ==
    /\ ~NextBlockFree
    /\ ProducerStep("full", "idle")
    /\ UNCHANGED <<blocks, tailBlock, largestBlockSize, tailBlockNext, sent>>

LinkBlock ==
    /\ ProducerStep("link", "publish_block")
    /\ blocks' = [blocks EXCEPT ![tailBlock].next = tailBlockNext]
    /\ UNCHANGED <<tailBlock, largestBlockSize, tailBlockNext, sent>>

PublishTailBlock ==
    /\ ProducerStep("publish_block", "signal")
    /\ tailBlock' = tailBlockNext
    /\ tailBlockNext' = Nothing
    /\ sent' = sent + 1
    /\ UNCHANGED <<blocks, largestBlockSize>>

InnerEnqueue ==
    \/ WriteElement \/ PublishTail
    \/ UseNextBlock \/ ReadNextFront \/ WriteNextBlock \/ AdvanceNextTail
    \/ AllocateBlock \/ AllocationFails \/ LinkBlock \/ PublishTailBlock

(***************************************************************************)
(* try_dequeue, by the consumer.                                           *)
(***************************************************************************)
ConsumerStep(from, to) ==
    /\ consumer = from
    /\ consumer' = to
    /\ UNCHANGED <<producer, tailBlock, largestBlockSize, tailBlockNext, sent>>
    /\ semaUnchanged

IsEmpty(b) == blocks[b].front = blocks[b].tail

ReadTail(b) == blocks' = [blocks EXCEPT ![b].localTail = blocks[b].tail]

\* looks for an element with localTail first, then with the producer's tail
CheckFront ==
    /\ \/ /\ blocks[frontBlock].front # blocks[frontBlock].localTail
          /\ ConsumerStep("dequeue", "take")
          /\ UNCHANGED blocks
       \/ /\ blocks[frontBlock].front = blocks[frontBlock].localTail
          /\ ConsumerStep("dequeue", IF IsEmpty(frontBlock) THEN "empty" ELSE "take")
          /\ ReadTail(frontBlock)
    /\ UNCHANGED <<frontBlock, nextBlock, delivered>>

\* with the tail block equal to the front block try_dequeue returns false
CheckTailBlock ==
    /\ frontBlock # tailBlock
    /\ ConsumerStep("empty", "recheck")
    /\ UNCHANGED <<blocks, frontBlock, nextBlock, delivered>>

\* the front block may have been filled before the tail block moved on
CheckFrontAgain ==
    /\ ConsumerStep("recheck", IF IsEmpty(frontBlock) THEN "next" ELSE "take")
    /\ ReadTail(frontBlock)
    /\ UNCHANGED <<frontBlock, nextBlock, delivered>>

ReadNext ==
    /\ ConsumerStep("next", "read_next")
    /\ nextBlock' = blocks[frontBlock].next
    /\ UNCHANGED <<blocks, frontBlock, delivered>>

ReadNextTail ==
    /\ ConsumerStep("read_next", "advance")
    /\ ReadTail(nextBlock)
    /\ UNCHANGED <<frontBlock, nextBlock, delivered>>

AdvanceFrontBlock ==
    /\ ConsumerStep("advance", "take")
    /\ frontBlock' = nextBlock
    /\ nextBlock' = Nothing
    /\ UNCHANGED <<blocks, delivered>>

TakeElement ==
    LET i == blocks[frontBlock].front IN
    /\ ConsumerStep("take", "publish_front")
    /\ delivered' = Append(delivered, blocks[frontBlock].data[i])
    /\ blocks' = [blocks EXCEPT ![frontBlock].data[i] = Nothing]
    /\ UNCHANGED <<frontBlock, nextBlock>>

PublishFront ==
    /\ ConsumerStep("publish_front", "idle")
    /\ blocks' = [blocks EXCEPT ![frontBlock].front = After(frontBlock, blocks[frontBlock].front)]
    /\ UNCHANGED <<frontBlock, nextBlock, delivered>>

InnerDequeue ==
    \/ CheckFront \/ CheckTailBlock \/ CheckFrontAgain
    \/ ReadNext \/ ReadNextTail \/ AdvanceFrontBlock
    \/ TakeElement \/ PublishFront

(***************************************************************************)
(* The two threads.  The producer may stop after any element; the consumer *)
(* waits again, as the loop of ModbusThread::run does, or looks for more   *)
(* with try_dequeue.                                                       *)
(***************************************************************************)
ProducerContinues ==
    \/ InnerEnqueue
    \/ ProducerSignals /\ UNCHANGED innerVars

ConsumerContinues ==
    \/ InnerDequeue
    \/ ConsumerWaits /\ UNCHANGED innerVars

Waits == (\E t \in Timeouts : TryWait(t)) /\ UNCHANGED innerVars

Next == CheckRoom \/ ProducerContinues \/ ConsumerContinues \/ Waits

Spec == Init /\ [][Next]_vars

\* A call under way goes on, and the consumer calls wait_dequeue_timed
\* again; the producer need not enqueue.
LiveSpec ==
    /\ Spec
    /\ WF_vars(ProducerContinues)
    /\ WF_vars(ConsumerContinues)
    /\ WF_vars((TryWait("positive") \/ TryWait("negative")) /\ UNCHANGED innerVars)

(***************************************************************************)
(* The blocks from the front to the tail hold the queue.  An element that  *)
(* was moved out counts as removed although front is not yet advanced.     *)
(***************************************************************************)
Stored(b) ==
    LET f == blocks[b].front
        n == (blocks[b].tail - f + blocks[b].size) % blocks[b].size
    IN [i \in 1 .. n |-> blocks[b].data[(f + i - 1) % blocks[b].size]]

blockAt[n \in 0 .. Len(blocks)] ==
    IF n = 0 THEN frontBlock ELSE blocks[blockAt[n - 1]].next

last ==
    CHOOSE n \in 0 .. Len(blocks) :
        blockAt[n] = tailBlock /\ \A m \in 0 .. n - 1 : blockAt[m] # tailBlock

storedUpTo[n \in 0 .. Len(blocks)] ==
    IF n = 0 THEN Stored(frontBlock) ELSE storedUpTo[n - 1] \o Stored(blockAt[n])

Contents ==
    IF consumer = "publish_front" THEN Tail(storedUpTo[last]) ELSE storedUpTo[last]

B == INSTANCE BlockingQueue WITH
        queue <- Contents,
        producer <- IF producer \in {"signal", "post"} THEN producer ELSE "idle",
        consumer <- CASE consumer \in {"empty", "recheck", "next", "read_next",
                                       "advance", "take"} -> "dequeue"
                      [] consumer = "publish_front" -> "idle"
                      [] OTHER -> consumer

(***************************************************************************)
(* Properties.                                                             *)
(***************************************************************************)
\* The ring of blocks is a FIFO queue behind a semaphore: every step of
\* inner_enqueue and try_dequeue is a step of BlockingQueue or changes
\* nothing there, so no element is lost, repeated or reordered when blocks
\* fill up, are reused or are added.
ImplementsBlockingQueue == B!Spec

\* A consumer that acquired the semaphore finds an element: the blocks hold
\* one, and when the front block looked empty another block is the tail
\* (assert(success) in try_dequeue and wait_dequeue_timed).
DequeueSucceeds ==
    /\ B!DequeueSucceeds
    /\ consumer = "empty" => frontBlock # tailBlock

\* A post is due exactly to a consumer that was signalled while it waited.
WakeupsMatch == B!WakeupsMatch

\* The threads never touch a slot the other one owns: the producer writes
\* to an empty slot and enters only an empty block, the consumer takes
\* from a full slot and enters only a block with an element (the asserts
\* on nextBlockFront in inner_enqueue and try_dequeue).
BlocksHandedOver ==
    /\ producer = "write" =>
           blocks[tailBlock].data[blocks[tailBlock].tail] = Nothing
    /\ producer = "write_next" =>
           /\ blocks[tailBlockNext].localFront = blocks[tailBlockNext].tail
           /\ blocks[tailBlockNext].data[blocks[tailBlockNext].tail] = Nothing
    /\ consumer = "advance" =>
           blocks[nextBlock].front # blocks[nextBlock].localTail
    /\ consumer = "take" =>
           blocks[frontBlock].data[blocks[frontBlock].front] # Nothing

\* No wakeup is lost: an element that was enqueued reaches a consumer that
\* keeps waiting, whatever timeouts its waits have.
ElementsDelivered ==
    \A k \in 1 .. MaxElements : sent >= k ~> Len(delivered) >= k
=============================================================================
