---------------------- MODULE ReaderWriterQueueProofs -----------------------
(***************************************************************************)
(* The ring of blocks is a queue behind a semaphore, for blocks of any     *)
(* size and number, any number of elements and any timeouts.               *)
(***************************************************************************)
EXTENDS ReaderWriterQueueInvariant

(***************************************************************************)
(* The steps of the consumer.                                              *)
(***************************************************************************)
\* The consumer reads the tail of block b into localTail.
LEMMA TailRead ==
  ASSUME NEW rank, NEW first, QueueInv(rank, first), NEW b \in 1 .. Len(blocks), ReadTail(b),
         UNCHANGED <<frontBlock, tailBlock, sent, delivered, producer, tailBlockNext>>,
         consumer # "publish_front", consumer' # "publish_front"
  PROVE  /\ BlocksOK' /\ RingInv(rank)' /\ ElementsInv(rank, first)' /\ ProducerInv(rank, first)'
         /\ blocks' \in Seq(Block) /\ Len(blocks') = Len(blocks)
         /\ blocks'[b].localTail = blocks[b].tail
         /\ \A c \in 1 .. Len(blocks) : /\ c # b => blocks'[c] = blocks[c]
                                        /\ blocks'[c].front = blocks[c].front
                                        /\ blocks'[c].tail = blocks[c].tail
                                        /\ blocks'[c].next = blocks[c].next
                                        /\ Count(blocks'[c]) = Count(blocks[c])
<1> DEFINE k == blocks[b]
           k2 == [k EXCEPT !.localTail = k.tail]
<1>1. k \in Block /\ BlockOK(k) /\ blocks \in Seq(Block)
  BY BlockTypes DEF QueueInv, TypeInv
<1>2. /\ k2 \in Block /\ k2.size = k.size /\ k2.front = k.front /\ k2.tail = k.tail
      /\ k2.data = k.data /\ k2.localFront = k.localFront /\ k2.localTail = k.tail
      /\ k2.next = k.next
  BY <1>1, Zenon DEF Block
<1>3. BlockOK(k2) /\ Count(k2) = Count(k)
      /\ \A f, bare, written : Holds(k, f, bare, written) => Holds(k2, f, bare, written)
  BY <1>1, <1>2, CopyRead, Zenon
<1>4. blocks' = [blocks EXCEPT ![b] = k2]
  BY DEF ReadTail
<1> HIDE DEF k2
<1>5. /\ blocks' \in Seq(Block) /\ Len(blocks') = Len(blocks) /\ blocks'[b] = k2
      /\ \A c \in 1 .. Len(blocks) : c # b => blocks'[c] = blocks[c]
  BY <1>1, <1>2, <1>4, OneBlock
<1>6. BlocksOK' /\ RingInv(rank)' /\ ElementsInv(rank, first)'
  <2>1. FirstOut' = FirstOut /\ Linked' = Linked
    BY <1>5 DEF FirstOut, Linked
  <2>2. \A c \in 1 .. Len(blocks) : /\ Entered(c)' <=> Entered(c)
                                    /\ Bare(c)' = Bare(c) /\ Written(c)' = Written(c)
    BY DEF Entered, Bare, Written
  <2>3. \A c \in 1 .. Len(blocks) : BlockOK(blocks[c])
    BY DEF QueueInv, BlocksOK
  <2> QED BY <1>2, <1>3, <1>5, <2>1, <2>2, <2>3, Steady
<1>7. ProducerInv(rank, first)'
  BY <1>2, <1>3, <1>5, ProducerKept
<1> QED BY <1>2, <1>3, <1>5, <1>6, <1>7

\* A block is empty exactly when it counts no element.
LEMMA IsEmptyCount ==
  ASSUME NEW rank, NEW first, QueueInv(rank, first), NEW b \in 1 .. Len(blocks)
  PROVE  IsEmpty(b) <=> Count(blocks[b]) = 0
<1> DEFINE k == blocks[b]
<1>1. Indices(k)
  BY BlockTypes DEF QueueInv
<1>2. k.front \in Nat /\ k.front < k.size /\ k.tail \in Nat /\ k.tail < k.size /\ k.size \in Nat
  BY <1>1 DEF Indices
<1>3. Dist(k.front, k.tail, k.size) = 0 <=> k.tail = k.front
  <2> HIDE DEF k
  <2> QED BY <1>2, DistIsNat, Zenon
<1> QED BY <1>3 DEF IsEmpty, Count

\* Looking into the front block keeps the invariant.
LEMMA CheckFrontKeeps ==
  ASSUME NEW rank, NEW first, QueueInv(rank, first), Len(delivered) < sent, CheckFront
  PROVE  QueueInv(rank, first)'
<1> DEFINE b == frontBlock
           k == blocks[b]
<1>1. /\ UNCHANGED <<producer, tailBlock, largestBlockSize, tailBlockNext, sent,
                      frontBlock, nextBlock, delivered>>
      /\ consumer = "dequeue"
  BY DEF CheckFront, ConsumerStep
<1>2. b \in 1 .. Len(blocks)
  BY RingFacts
<1>3. CASE k.front # k.localTail /\ consumer' = "take" /\ blocks' = blocks
  <2>1. BlocksOK' /\ RingInv(rank)' /\ ElementsInv(rank, first)'
    BY <1>1, <1>3, NoBlockChanged
  <2>2. ProducerInv(rank, first)'
    BY <1>1, <1>3, ProducerKept
  <2>3. ConsumerInv'
    BY <1>1, <1>3 DEF ConsumerInv
  <2>4. TypeInv'
    BY <1>1, <1>3 DEF QueueInv, TypeInv, Dequeuing
  <2> QED BY <2>1, <2>2, <2>3, <2>4 DEF QueueInv
<1>4. CASE ReadTail(b) /\ consumer' = IF IsEmpty(b) THEN "empty" ELSE "take"
  <2>1. consumer' # "publish_front"
    BY <1>4
  <2>2. BlocksOK' /\ RingInv(rank)' /\ ElementsInv(rank, first)' /\ ProducerInv(rank, first)'
        /\ blocks' \in Seq(Block) /\ blocks'[b].localTail = k.tail /\ blocks'[b].front = k.front
    BY <1>1, <1>2, <1>4, <2>1, TailRead
  <2>3. IsEmpty(b) => b # tailBlock
    <3> SUFFICES ASSUME IsEmpty(b), b = tailBlock PROVE FALSE
      OBVIOUS
    <3>1. Count(k) = 0
      BY <1>2, IsEmptyCount
    <3>2. first[b] = Len(delivered) + 1 /\ first[b] + 0 = sent + 1
      BY <1>1, <3>1 DEF QueueInv, ElementsInv, FirstOut
    <3>3. Len(delivered) \in Nat /\ sent \in Nat
      BY DEF QueueInv, TypeInv
    <3> QED BY <3>2, <3>3
  <2>4. ConsumerInv'
    BY <1>1, <1>4, <2>2, <2>3 DEF ConsumerInv, IsEmpty
  <2>5. TypeInv'
    BY <1>1, <1>4, <2>2 DEF QueueInv, TypeInv, Dequeuing
  <2> QED BY <2>2, <2>4, <2>5 DEF QueueInv
<1> QED BY <1>3, <1>4 DEF CheckFront, ConsumerStep

\* Comparing front and tail block keeps the invariant.
LEMMA CheckTailBlockKeeps ==
  ASSUME NEW rank, NEW first, QueueInv(rank, first), CheckTailBlock
  PROVE  QueueInv(rank, first)'
<1>1. /\ UNCHANGED <<producer, tailBlock, largestBlockSize, tailBlockNext, sent,
                      blocks, frontBlock, nextBlock, delivered>>
      /\ consumer = "empty" /\ consumer' = "recheck" /\ frontBlock # tailBlock
  BY DEF CheckTailBlock, ConsumerStep
<1>2. BlocksOK' /\ RingInv(rank)' /\ ElementsInv(rank, first)'
  BY <1>1, NoBlockChanged
<1>3. ProducerInv(rank, first)'
  BY <1>1, ProducerKept
<1>4. ConsumerInv'
  BY <1>1 DEF ConsumerInv
<1>5. TypeInv'
  BY <1>1 DEF QueueInv, TypeInv, Dequeuing
<1> QED BY <1>2, <1>3, <1>4, <1>5 DEF QueueInv

\* Looking into the front block a second time keeps the invariant.
LEMMA CheckFrontAgainKeeps ==
  ASSUME NEW rank, NEW first, QueueInv(rank, first), CheckFrontAgain
  PROVE  QueueInv(rank, first)'
<1> DEFINE b == frontBlock
           k == blocks[b]
<1>1. /\ UNCHANGED <<producer, tailBlock, largestBlockSize, tailBlockNext, sent,
                      frontBlock, nextBlock, delivered>>
      /\ consumer = "recheck" /\ consumer' = IF IsEmpty(b) THEN "next" ELSE "take"
      /\ ReadTail(b)
  BY DEF CheckFrontAgain, ConsumerStep
<1>2. b \in 1 .. Len(blocks)
  BY RingFacts
<1>3. consumer' # "publish_front" /\ consumer # "publish_front"
  BY <1>1
<1>4. BlocksOK' /\ RingInv(rank)' /\ ElementsInv(rank, first)' /\ ProducerInv(rank, first)'
      /\ blocks' \in Seq(Block) /\ blocks'[b].localTail = k.tail /\ blocks'[b].front = k.front
      /\ Count(blocks'[b]) = Count(k)
  BY <1>1, <1>2, <1>3, TailRead
<1>5. frontBlock # tailBlock
  BY <1>1 DEF QueueInv, ConsumerInv
<1>6. IsEmpty(b) => Count(k) = 0
  BY <1>2, IsEmptyCount
<1>7. ConsumerInv'
  BY <1>1, <1>4, <1>5, <1>6 DEF ConsumerInv, IsEmpty
<1>8. TypeInv'
  BY <1>1, <1>4 DEF QueueInv, TypeInv, Dequeuing
<1> QED BY <1>4, <1>7, <1>8 DEF QueueInv

\* Reading the front block's successor keeps the invariant.
LEMMA ReadNextKeeps ==
  ASSUME NEW rank, NEW first, QueueInv(rank, first), ReadNext
  PROVE  QueueInv(rank, first)'
<1>1. /\ UNCHANGED <<producer, tailBlock, largestBlockSize, tailBlockNext, sent,
                      blocks, frontBlock, delivered>>
      /\ consumer = "next" /\ consumer' = "read_next" /\ nextBlock' = blocks[frontBlock].next
  BY DEF ReadNext, ConsumerStep
<1>2. BlocksOK' /\ RingInv(rank)' /\ ElementsInv(rank, first)'
  BY <1>1, NoBlockChanged
<1>3. ProducerInv(rank, first)'
  BY <1>1, ProducerKept
<1>4. ConsumerInv'
  BY <1>1 DEF QueueInv, ConsumerInv
<1>5. nextBlock' \in Nat
  BY <1>1, RingFacts
<1>6. TypeInv'
  BY <1>1, <1>5 DEF QueueInv, TypeInv, Dequeuing
<1> QED BY <1>2, <1>3, <1>4, <1>6 DEF QueueInv

\* The block that the consumer is to enter follows the front block.
LEMMA SecondBlock ==
  ASSUME NEW rank, NEW first, QueueInv(rank, first), frontBlock # tailBlock
  PROVE  /\ blocks[frontBlock].next \in 1 .. Linked
         /\ rank[blocks[frontBlock].next] = 1 /\ rank[tailBlock] >= 1
         /\ Count(blocks[blocks[frontBlock].next]) > 0
<1> DEFINE b == blocks[frontBlock].next
<1>1. RingInv(rank) /\ ElementsInv(rank, first)
  BY DEF QueueInv
<1>2. /\ Linked \in Nat /\ frontBlock \in 1 .. Linked /\ tailBlock \in 1 .. Linked
      /\ rank[frontBlock] = 0 /\ rank[tailBlock] \in Nat /\ b \in 1 .. Linked
  BY RingFacts
<1>3. rank[tailBlock] # 0 /\ rank[tailBlock] < Linked
  BY <1>1, <1>2 DEF RingInv
<1>4. rank[tailBlock] >= 1 /\ 0 + 1 < Linked
  BY <1>2, <1>3
<1>5. rank[b] = 1
  BY <1>1, <1>2, <1>4 DEF RingInv
<1>6. Count(blocks[b]) > 0
  BY <1>1, <1>2, <1>4, <1>5 DEF ElementsInv
<1> QED BY <1>2, <1>4, <1>5, <1>6

\* Reading the successor's tail index keeps the invariant.
LEMMA ReadNextTailKeeps ==
  ASSUME NEW rank, NEW first, QueueInv(rank, first), ReadNextTail
  PROVE  QueueInv(rank, first)'
<1> DEFINE b == nextBlock
           k == blocks[b]
<1>1. /\ UNCHANGED <<producer, tailBlock, largestBlockSize, tailBlockNext, sent,
                      frontBlock, nextBlock, delivered>>
      /\ consumer = "read_next" /\ consumer' = "advance" /\ ReadTail(b)
  BY DEF ReadNextTail, ConsumerStep
<1>2. frontBlock # tailBlock /\ b = blocks[frontBlock].next /\ Count(blocks[frontBlock]) = 0
  BY <1>1 DEF QueueInv, ConsumerInv
<1>3. b \in 1 .. Len(blocks) /\ Count(k) > 0 /\ frontBlock \in 1 .. Len(blocks)
  BY <1>2, SecondBlock, RingFacts
<1>4. consumer' # "publish_front" /\ consumer # "publish_front"
  BY <1>1
<1>5. BlocksOK' /\ RingInv(rank)' /\ ElementsInv(rank, first)' /\ ProducerInv(rank, first)'
      /\ blocks' \in Seq(Block) /\ blocks'[b].localTail = k.tail /\ blocks'[b].front = k.front
      /\ Count(blocks'[frontBlock]) = Count(blocks[frontBlock])
      /\ blocks'[frontBlock].next = blocks[frontBlock].next
  BY <1>1, <1>3, <1>4, TailRead
<1>6. k.tail # k.front
  <2>1. ~IsEmpty(b)
    BY <1>3, IsEmptyCount
  <2> QED BY <2>1 DEF IsEmpty
<1>7. ConsumerInv'
  BY <1>1, <1>2, <1>5, <1>6 DEF ConsumerInv
<1>8. TypeInv'
  BY <1>1, <1>5 DEF QueueInv, TypeInv, Dequeuing
<1> QED BY <1>5, <1>7, <1>8 DEF QueueInv

\* The front block becomes the last one of the ring.
LEMMA RankRotated ==
  ASSUME NEW m \in Nat, NEW n \in Nat, n <= m, NEW b \in 1 .. n, NEW rank,
         \A c \in 1 .. n : rank[c] \in Nat, \A c \in 1 .. n : c # b => rank[c] # 0,
         NEW rank2, rank2 = [c \in 1 .. m |-> IF c = b THEN n - 1
                                              ELSE IF c <= n THEN rank[c] - 1 ELSE 0]
  PROVE  /\ rank2 \in [1 .. m -> Nat] /\ rank2[b] = n - 1
         /\ \A c \in 1 .. n : c # b => rank2[c] = rank[c] - 1
<1>1. \A c \in 1 .. n : c \in 1 .. m /\ c <= n
  OBVIOUS
<1>2. \A c \in 1 .. m : c \in 1 .. n \/ ~(c <= n)
  OBVIOUS
<1>3. rank2[b] = n - 1 /\ \A c \in 1 .. n : c # b => rank2[c] = rank[c] - 1
  BY <1>1
<1>4. ASSUME NEW c \in 1 .. m PROVE rank2[c] \in Nat
  <2>1. CASE c = b
    BY <1>3, <2>1
  <2>2. CASE c # b /\ c \in 1 .. n
    BY <1>3, <2>2
  <2>3. CASE c # b /\ ~(c <= n)
    BY <2>3
  <2> QED BY <1>2, <2>1, <2>2, <2>3
<1>5. rank2 \in [1 .. m -> Nat]
  BY <1>4
<1> QED BY <1>3, <1>5

\* Moving on from an empty front block rotates the ranks by one.
LEMMA AdvanceFrontBlockKeeps ==
  ASSUME NEW rank, NEW first, QueueInv(rank, first), AdvanceFrontBlock
  PROVE  \E rank2 : QueueInv(rank2, first)'
<1> DEFINE b == frontBlock
           n == Linked
           a == nextBlock
<1>1. /\ UNCHANGED <<producer, tailBlock, largestBlockSize, tailBlockNext, sent,
                      blocks, delivered>>
      /\ consumer = "advance" /\ consumer' = "take"
      /\ frontBlock' = a /\ nextBlock' = Nothing
  BY DEF AdvanceFrontBlock, ConsumerStep
<1>2. RingInv(rank) /\ ElementsInv(rank, first)
  BY DEF QueueInv
<1>3. /\ b # tailBlock /\ a = blocks[b].next /\ Count(blocks[b]) = 0
      /\ blocks[a].localTail # blocks[a].front
  BY <1>1 DEF QueueInv, ConsumerInv
<1>4. a \in 1 .. n /\ rank[a] = 1 /\ rank[tailBlock] >= 1
  BY <1>3, SecondBlock
<1>5. Linked' = n /\ FirstOut' = FirstOut
  BY <1>1 DEF Linked, FirstOut
<1>6. /\ n \in Nat /\ Len(blocks) \in Nat /\ n <= Len(blocks)
      /\ b \in 1 .. n /\ tailBlock \in 1 .. n /\ rank[b] = 0
  BY RingFacts
<1>7. /\ \A c \in 1 .. n : rank[c] \in Nat /\ rank[c] < n /\ blocks[c].next \in 1 .. n
      /\ \A c \in 1 .. n : rank[c] + 1 < n => rank[blocks[c].next] = rank[c] + 1
      /\ \A c \in 1 .. n : rank[c] + 1 = n => blocks[c].next = b
      /\ \A c, d \in 1 .. n : rank[c] = rank[d] => c = d
  BY <1>2, RingFacts DEF RingInv
<1>8. \A c \in 1 .. n : c # b => rank[c] # 0
  BY <1>6, <1>7
<1>9. PICK rank2 : rank2 = [c \in 1 .. Len(blocks) |-> IF c = b THEN n - 1
                                              ELSE IF c <= n THEN rank[c] - 1 ELSE 0]
  BY Zenon
<1> HIDE DEF n
<1>10. /\ rank2 \in [1 .. Len(blocks) -> Nat] /\ rank2[b] = n - 1
       /\ \A c \in 1 .. n : c # b => rank2[c] = rank[c] - 1
  BY <1>6, <1>7, <1>8, <1>9, RankRotated
<1>11. RingInv(rank2)'
  <2>1. ASSUME NEW c \in 1 .. n
        PROVE  /\ rank2[c] < n
               /\ blocks[c].next \in 1 .. n
               /\ rank2[c] + 1 < n => rank2[blocks[c].next] = rank2[c] + 1
               /\ rank2[c] + 1 = n => blocks[c].next = a
    <3>1. CASE c = b
      BY <1>3, <1>4, <1>6, <1>10, <3>1
    <3>2. CASE c # b
      <4>1. rank2[c] = rank[c] - 1 /\ rank[c] \in Nat /\ rank[c] < n /\ blocks[c].next \in 1 .. n
        BY <1>7, <1>10, <3>2
      <4>2. CASE rank[c] + 1 < n
        <5>1. rank[blocks[c].next] = rank[c] + 1
          BY <1>7, <4>2
        <5>2. blocks[c].next # b
          BY <1>6, <4>1, <5>1
        <5>3. rank2[blocks[c].next] = rank[c] + 1 - 1
          BY <1>10, <4>1, <5>1, <5>2
        <5> QED BY <1>6, <4>1, <5>3
      <4>3. CASE rank[c] + 1 = n
        <5>1. rank2[blocks[c].next] = n - 1
          BY <1>7, <1>10, <4>3
        <5> QED BY <1>6, <4>1, <4>3, <5>1
      <4> QED BY <1>6, <4>1, <4>2, <4>3, SMTT(30)
    <3> QED BY <3>1, <3>2
  <2>2. ASSUME NEW c \in 1 .. n, NEW d \in 1 .. n, rank2[c] = rank2[d]
        PROVE  c = d
    <3>1. rank[c] \in Nat /\ rank[c] < n /\ rank[d] \in Nat /\ rank[d] < n
      BY <1>7
    <3>2. (c # b => rank2[c] = rank[c] - 1) /\ (d # b => rank2[d] = rank[d] - 1)
      BY <1>10
    <3>3. c # b /\ d # b => rank[c] = rank[d]
      BY <2>2, <3>1, <3>2
    <3>4. c = b <=> d = b
      BY <1>6, <1>10, <2>2, <3>1, <3>2
    <3> QED BY <1>7, <3>3, <3>4
  <2>3. rank2[a] = 0
    <3>1. a # b
      BY <1>4, <1>6
    <3> QED BY <1>4, <1>10, <3>1
  <2> QED BY <1>1, <1>4, <1>5, <1>6, <1>10, <2>1, <2>2, <2>3 DEF RingInv
<1>12. BlocksOK'
  BY <1>1 DEF QueueInv, BlocksOK
<1>13. rank2[tailBlock] = rank[tailBlock] - 1 /\ rank[tailBlock] \in Nat /\ rank[tailBlock] < n
  BY <1>3, <1>6, <1>7, <1>10
<1>14. ElementsInv(rank2, first)'
  <2>1. \A c \in 1 .. Len(blocks) : Holds(blocks'[c], first[c], Bare(c)', Written(c)')
    <3>1. \A c \in 1 .. Len(blocks) : Bare(c)' = Bare(c) /\ Written(c)' = Written(c)
      BY <1>1 DEF Bare, Written
    <3> QED BY <1>1, <1>2, <3>1 DEF ElementsInv
  <2>2. first[a] = FirstOut
    <3>1. rank[b] < rank[tailBlock]
      BY <1>4, <1>6, <1>13
    <3>2. first[b] = FirstOut /\ first[b] \in Nat
      BY <1>2, <1>6, SMTT(30) DEF ElementsInv
    <3>3. first[a] = first[b] + 0
      BY <1>2, <1>3, <1>6, <3>1 DEF ElementsInv, n
    <3> QED BY <3>2, <3>3
  <2>3. ASSUME NEW c \in 1 .. n
        PROVE  /\ rank2[c] < rank2[tailBlock] =>
                     first[blocks[c].next] = first[c] + Count(blocks[c])
               /\ 0 < rank2[c] /\ rank2[c] <= rank2[tailBlock] => Count(blocks[c]) > 0
               /\ rank2[c] > rank2[tailBlock] /\ ~Entered(c) => Count(blocks[c]) = 0
    <3>1. rank[c] \in Nat
      BY <1>7
    <3>2. CASE c = b
      BY <1>3, <1>6, <1>10, <1>13, <3>2
    <3>3. CASE c # b
      <4>1. /\ rank2[c] < rank2[tailBlock] => rank[c] < rank[tailBlock]
            /\ 0 < rank2[c] /\ rank2[c] <= rank2[tailBlock] => 0 < rank[c] /\ rank[c] <= rank[tailBlock]
            /\ rank2[c] > rank2[tailBlock] => rank[c] > rank[tailBlock]
        <5>1. rank2[c] = rank[c] - 1
          BY <1>10, <3>3
        <5> QED BY <1>13, <3>1, <5>1
      <4> QED BY <1>2, <4>1 DEF ElementsInv, n
    <3> QED BY <3>2, <3>3
  <2>4. \A c : Entered(c)' <=> Entered(c)
    BY <1>1 DEF Entered
  <2> QED BY <1>1, <1>2, <1>5, <2>1, <2>2, <2>3, <2>4 DEF ElementsInv
<1>15. ProducerInv(rank2, first)'
  <2>1. ProducerInv(rank, first)
    BY DEF QueueInv
  <2>2. ASSUME producer \in {"reuse", "write_next", "advance_tail", "publish_block"}
        PROVE  rank2[tailBlockNext] = rank2[tailBlock] + 1
    <3>1. tailBlockNext = blocks[tailBlock].next /\ rank[tailBlockNext] = rank[tailBlock] + 1
      BY <2>1, <2>2 DEF ProducerInv
    <3>2. tailBlockNext \in 1 .. n /\ tailBlockNext # b
      BY <1>6, <1>7, <1>13, <3>1
    <3>3. rank2[tailBlockNext] = rank[tailBlockNext] - 1
      BY <1>10, <3>2
    <3> QED BY <1>13, <3>1, <3>3
  <2> QED BY <1>1, <2>1, <2>2 DEF ProducerInv
<1>16. ConsumerInv'
  BY <1>1, <1>3 DEF ConsumerInv
<1>17. TypeInv'
  BY <1>1, <1>4, <1>6 DEF QueueInv, TypeInv, Dequeuing, Nothing
<1> QED BY <1>11, <1>12, <1>14, <1>15, <1>16, <1>17 DEF QueueInv

\* The consumer that is to take an element has one in its front slot.
LEMMA ElementAtFront ==
  ASSUME NEW rank, NEW first, QueueInv(rank, first), consumer \in {"take", "publish_front"}
  PROVE  /\ frontBlock \in 1 .. Len(blocks)
         /\ Count(blocks[frontBlock]) > 0
         /\ consumer = "take" =>
                blocks[frontBlock].data[blocks[frontBlock].front] = Len(delivered) + 1
<1> DEFINE k == blocks[frontBlock]
<1>1. frontBlock \in 1 .. Len(blocks) /\ Indices(k) /\ k \in Block /\ BlockOK(k) /\ Count(k) \in Nat
  BY RingFacts, BlockTypes DEF QueueInv
<1>2. k.localTail # k.front
  BY DEF QueueInv, ConsumerInv
<1>3. Dist(k.front, k.localTail, k.size) <= Count(k)
  BY <1>1, IndicesOK
<1>4. Dist(k.front, k.localTail, k.size) \in Nat /\ Dist(k.front, k.localTail, k.size) # 0
  BY <1>1, <1>2, DistIsNat, Zenon DEF Indices
<1>5. Count(k) > 0
  BY <1>1, <1>3, <1>4
<1>6. ASSUME consumer = "take" PROVE k.data[k.front] = Len(delivered) + 1
  <2>1. first[frontBlock] = Len(delivered) + 1 /\ first[frontBlock] \in Nat
        /\ Holds(k, first[frontBlock], Bare(frontBlock), Written(frontBlock)) /\ ~Bare(frontBlock)
    BY <1>1, <1>6 DEF QueueInv, ElementsInv, FirstOut, Bare
  <2>2. k.front \in 0 .. k.size - 1 /\ Dist(k.front, k.front, k.size) = 0
    BY <1>1 DEF Indices, Dist
  <2>3. k.data[k.front] = first[frontBlock] + 0
    BY <1>5, <2>1, <2>2 DEF Holds
  <2> QED BY <2>1, <2>3
<1> QED BY <1>1, <1>5, <1>6

\* The element taken is the next one in the order sent.
LEMMA TakeElementKeeps ==
  ASSUME NEW rank, NEW first, QueueInv(rank, first), TakeElement
  PROVE  QueueInv(rank, first)' /\ delivered' = Append(delivered, Len(delivered) + 1)
<1> DEFINE b == frontBlock
           k == blocks[b]
           k2 == [k EXCEPT !.data[k.front] = Nothing]
<1>1. /\ UNCHANGED <<producer, tailBlock, largestBlockSize, tailBlockNext, sent,
                      frontBlock, nextBlock>>
      /\ consumer = "take" /\ consumer' = "publish_front"
      /\ delivered' = Append(delivered, k.data[k.front])
  BY DEF TakeElement, ConsumerStep
<1>2. b \in 1 .. Len(blocks) /\ Count(k) > 0 /\ k.data[k.front] = Len(delivered) + 1
  BY <1>1, ElementAtFront
<1>3. k \in Block /\ BlockOK(k) /\ blocks \in Seq(Block) /\ delivered \in Seq(Nat)
  BY <1>2, BlockTypes DEF QueueInv, TypeInv
<1>4. /\ k2 \in Block /\ BlockOK(k2) /\ Count(k2) = Count(k)
      /\ k2.next = k.next /\ k2.size = k.size /\ k2.front = k.front /\ k2.tail = k.tail
      /\ k2.localFront = k.localFront /\ k2.localTail = k.localTail
      /\ \A f, written : Holds(k, f, FALSE, written) => Holds(k2, f, TRUE, written)
  BY <1>2, <1>3, ElementTaken, Zenon
<1>5. blocks' = [blocks EXCEPT ![b] = k2]
  BY DEF TakeElement
<1> HIDE DEF k2
<1>6. /\ blocks' \in Seq(Block) /\ Len(blocks') = Len(blocks) /\ blocks'[b] = k2
      /\ \A c \in 1 .. Len(blocks) : c # b => blocks'[c] = blocks[c]
  BY <1>2, <1>3, <1>4, <1>5, OneBlock
<1>7. /\ delivered' = Append(delivered, Len(delivered) + 1)
      /\ delivered' \in Seq(Nat) /\ Len(delivered') = Len(delivered) + 1
  BY <1>1, <1>2, <1>3, AddedElement
<1>8. BlocksOK' /\ RingInv(rank)' /\ ElementsInv(rank, first)'
  <2>1. FirstOut' = FirstOut /\ Linked' = Linked
    BY <1>1, <1>3, <1>6, <1>7 DEF FirstOut, Linked
  <2>2. \A c \in 1 .. Len(blocks) :
          /\ Entered(c)' <=> Entered(c)
          /\ Written(c)' = Written(c)
          /\ Bare(c) = FALSE /\ Bare(c)' = (c = b)
    BY <1>1 DEF Entered, Bare, Written
  <2>3. \A c \in 1 .. Len(blocks) : BlockOK(blocks[c])
    BY DEF QueueInv, BlocksOK
  <2>4. ASSUME NEW c \in 1 .. Len(blocks), Holds(blocks[c], first[c], Bare(c), Written(c))
        PROVE  Holds(blocks'[c], first[c], Bare(c)', Written(c)')
    <3>1. CASE c = b
      <4>1. Bare(c)' = TRUE
        BY <2>2, <3>1, Zenon
      <4> QED BY <1>4, <1>6, <2>2, <2>4, <3>1, <4>1, Zenon
    <3>2. CASE c # b
      <4>1. Bare(c)' = FALSE
        BY <2>2, <3>2, Zenon
      <4> QED BY <1>6, <2>2, <2>4, <3>2, <4>1, Zenon
    <3> QED BY <3>1, <3>2
  <2> QED BY <1>1, <1>4, <1>6, <2>1, <2>2, <2>3, <2>4, Steady, Zenon
<1>9. ProducerInv(rank, first)'
  BY <1>1, <1>4, <1>6, ProducerKept
<1>10. ConsumerInv'
  BY <1>1, <1>4, <1>6, Zenon DEF QueueInv, ConsumerInv
<1>11. TypeInv'
  BY <1>1, <1>6, <1>7 DEF QueueInv, TypeInv, Dequeuing
<1> QED BY <1>7, <1>8, <1>9, <1>10, <1>11 DEF QueueInv

\* Advancing the front index frees the slot and numbers the next element.
LEMMA PublishFrontKeeps ==
  ASSUME NEW rank, NEW first, QueueInv(rank, first), PublishFront
  PROVE  \E first2 : QueueInv(rank, first2)'
<1> DEFINE b == frontBlock
           k == blocks[b]
           k2 == [k EXCEPT !.front = (k.front + 1) % k.size]
<1>1. /\ UNCHANGED <<producer, tailBlock, largestBlockSize, tailBlockNext, sent,
                      frontBlock, nextBlock, delivered>>
      /\ consumer = "publish_front" /\ consumer' = "idle"
  BY DEF PublishFront, ConsumerStep
<1>2. b \in 1 .. Len(blocks) /\ b \in 1 .. Linked /\ Count(k) > 0 /\ k.localTail # k.front
  BY <1>1, ElementAtFront, RingFacts DEF QueueInv, ConsumerInv
<1>3. k \in Block /\ BlockOK(k) /\ blocks \in Seq(Block) /\ sent \in Nat /\ Count(k) \in Nat
  BY <1>2, BlockTypes DEF QueueInv, TypeInv
<1>4. /\ k2 \in Block /\ BlockOK(k2) /\ Count(k2) = Count(k) - 1
      /\ k2.next = k.next /\ k2.localFront = k.localFront /\ k2.size = k.size
      /\ k2.tail = k.tail /\ k2.localTail = k.localTail
      /\ \A f \in Nat, written \in Nat :
            Holds(k, f, TRUE, written) => Holds(k2, f + 1, FALSE, written)
  BY <1>2, <1>3, FrontAdvances, Zenon
<1>5. blocks' = [blocks EXCEPT ![b] = k2]
  BY DEF PublishFront, After
<1> HIDE DEF k2
<1>6. /\ blocks' \in Seq(Block) /\ Len(blocks') = Len(blocks) /\ blocks'[b] = k2
      /\ \A c \in 1 .. Len(blocks) : c # b => blocks'[c] = blocks[c]
  BY <1>2, <1>3, <1>4, <1>5, OneBlock
<1>7. Linked' = Linked /\ FirstOut' = FirstOut + 1
  <2>1. Len(delivered) \in Nat
    BY DEF QueueInv, TypeInv
  <2> QED BY <1>1, <1>6, <2>1 DEF FirstOut, Linked
<1>8. RingInv(rank) /\ ElementsInv(rank, first)
  BY DEF QueueInv
<1>9. PICK first2 : first2 = [first EXCEPT ![b] = first[b] + 1]
  BY Zenon
<1>10. /\ first2 \in [1 .. Len(blocks) -> Nat] /\ first2[b] = first[b] + 1 /\ first[b] \in Nat
       /\ \A c \in 1 .. Len(blocks) : c # b => first2[c] = first[c]
  <2>1. first \in [1 .. Len(blocks) -> Nat]
    BY <1>8 DEF ElementsInv
  <2> QED BY <1>2, <1>9, <2>1
<1>11. RingInv(rank)'
  <2>1. \A c \in 1 .. Linked : blocks'[c].next = blocks[c].next
    BY <1>4, <1>6, RingFacts, Zenon
  <2> QED BY <1>1, <1>6, <1>7, <1>8, <2>1, Zenon DEF RingInv
<1>12. BlocksOK'
  BY <1>4, <1>6, Zenon DEF QueueInv, BlocksOK
<1>13. ElementsInv(rank, first2)'
  <2>1. \A c \in 1 .. Len(blocks) :
          /\ Entered(c)' <=> Entered(c)
          /\ Written(c)' = Written(c) /\ Written(c) \in Nat
          /\ Bare(c) = (c = b) /\ Bare(c)' = FALSE
    BY <1>1, <1>3 DEF Entered, Bare, Written, Nothing
  <2>2. ASSUME NEW c \in 1 .. Len(blocks)
        PROVE  Holds(blocks'[c], first2[c], Bare(c)', Written(c)')
    <3>1. Holds(blocks[c], first[c], Bare(c), Written(c))
      BY <1>8 DEF ElementsInv
    <3>2. CASE c # b
      <4>1. Bare(c) = FALSE
        BY <2>1, <3>2, Zenon
      <4> QED BY <1>6, <1>10, <2>1, <3>1, <3>2, <4>1, Zenon
    <3>3. CASE c = b
      <4>1. Bare(c) = TRUE
        BY <2>1, <3>3, Zenon
      <4> QED BY <1>4, <1>6, <1>10, <2>1, <3>1, <3>3, <4>1, Zenon
    <3> QED BY <3>2, <3>3
  <2>3. ASSUME NEW c \in 1 .. Linked
        PROVE  /\ rank[c] < rank[tailBlock] =>
                     first2[blocks'[c].next] = first2[c] + Count(blocks'[c])
               /\ 0 < rank[c] /\ rank[c] <= rank[tailBlock] => Count(blocks'[c]) > 0
               /\ rank[c] > rank[tailBlock] /\ ~Entered(c) => Count(blocks'[c]) = 0
    <3>1. /\ rank[c] \in Nat /\ rank[tailBlock] \in Nat /\ Linked \in Nat /\ c \in 1 .. Len(blocks)
          /\ blocks[c].next \in 1 .. Len(blocks) /\ rank[tailBlock] < Linked /\ rank[b] = 0
      BY <1>8, RingFacts DEF RingInv
    <3>2. rank[c] < rank[tailBlock] => first2[blocks[c].next] = first[blocks[c].next]
      <4>1. rank[c] + 1 < Linked => rank[blocks[c].next] = rank[c] + 1
        BY <1>8 DEF RingInv
      <4>2. rank[c] < rank[tailBlock] => rank[c] + 1 < Linked
        BY <3>1
      <4>3. rank[c] < rank[tailBlock] => blocks[c].next # b
        BY <3>1, <4>1, <4>2
      <4> QED BY <1>10, <3>1, <4>3
    <3>3. rank[c] < rank[tailBlock] => first[blocks[c].next] = first[c] + Count(blocks[c])
      BY <1>8 DEF ElementsInv
    <3>4. CASE c = b
      <4>1. blocks'[c].next = blocks[c].next /\ Count(blocks'[c]) = Count(blocks[c]) - 1
        BY <1>4, <1>6, <3>4
      <4>2. first2[c] = first[c] + 1 /\ first[c] \in Nat
        BY <1>10, <3>4
      <4>3. Count(blocks[c]) \in Nat
        BY <1>3, <3>4
      <4>4. first2[c] + Count(blocks'[c]) = first[c] + Count(blocks[c])
        BY <4>1, <4>2, <4>3
      <4> QED BY <3>1, <3>2, <3>3, <3>4, <4>1, <4>4
    <3>5. CASE c # b
      <4>1. blocks'[c] = blocks[c] /\ first2[c] = first[c]
        BY <1>6, <1>10, <3>1, <3>5
      <4> QED BY <1>8, <3>2, <3>3, <4>1 DEF ElementsInv
    <3> QED BY <3>4, <3>5
  <2>4. first2[tailBlock] + Count(blocks'[tailBlock]) = sent + 1
    <3>1. first[tailBlock] + Count(blocks[tailBlock]) = sent + 1 /\ tailBlock \in 1 .. Len(blocks)
      BY <1>8, RingFacts DEF ElementsInv
    <3>2. CASE tailBlock = b
      <4>1. Count(blocks'[tailBlock]) = Count(blocks[tailBlock]) - 1 /\ Count(blocks[tailBlock]) \in Nat
        BY <1>3, <1>4, <1>6, <3>2
      <4>2. first2[tailBlock] = first[tailBlock] + 1 /\ first[tailBlock] \in Nat
        BY <1>10, <3>2
      <4> QED BY <3>1, <4>1, <4>2
    <3>3. CASE tailBlock # b
      <4>1. blocks'[tailBlock] = blocks[tailBlock] /\ first2[tailBlock] = first[tailBlock]
        BY <1>6, <1>10, <3>1, <3>3, Zenon
      <4> QED BY <3>1, <4>1, Zenon
    <3> QED BY <3>2, <3>3, Zenon
  <2>5. first2[b] = FirstOut + 1
    BY <1>8, <1>10, Zenon DEF ElementsInv
  <2>6. \A c \in 1 .. Linked' : rank[c] > rank[tailBlock'] /\ ~Entered(c)' => Count(blocks'[c]) = 0
    BY <1>1, <1>7, <2>1, <2>3, RingFacts
  <2> QED BY <1>1, <1>6, <1>7, <1>10, <2>2, <2>3, <2>4, <2>5, <2>6, Zenon DEF ElementsInv
<1>14. ProducerInv(rank, first2)'
  <2>1. ProducerInv(rank, first)'
    BY <1>1, <1>4, <1>6, ProducerKept
  <2>2. producer \in {"link", "publish_block"} => first2[tailBlockNext] = first[tailBlockNext]
    <3>1. ProducerInv(rank, first)
      BY DEF QueueInv
    <3>2. CASE producer = "link"
      <4>1. tailBlockNext = Len(blocks) /\ Len(blocks) \in Nat /\ Linked = Len(blocks) - 1
        BY <3>1, <3>2, RingFacts DEF ProducerInv, Linked
      <4>2. tailBlockNext \in 1 .. Len(blocks) /\ tailBlockNext # b
        <5>1. b \in Nat /\ b >= 1 /\ b <= Linked /\ b <= Len(blocks)
          BY <1>2, <4>1
        <5> QED BY <4>1, <5>1
      <4> QED BY <1>10, <4>2
    <3>3. CASE producer = "publish_block"
      <4>1. tailBlockNext = blocks[tailBlock].next /\ rank[tailBlockNext] = rank[tailBlock] + 1
        BY <3>1, <3>3 DEF ProducerInv
      <4>2. tailBlockNext \in 1 .. Len(blocks) /\ tailBlockNext # b
        BY <4>1, RingFacts
      <4> QED BY <1>10, <4>2
    <3> QED BY <3>2, <3>3
  <2> QED BY <1>1, <2>1, <2>2 DEF ProducerInv
<1>15. ConsumerInv'
  BY <1>1 DEF ConsumerInv
<1>16. TypeInv'
  BY <1>1, <1>6 DEF QueueInv, TypeInv, Dequeuing
<1> QED BY <1>11, <1>12, <1>13, <1>14, <1>15, <1>16 DEF QueueInv

(***************************************************************************)
(* The semaphore counts the elements.                                      *)
(***************************************************************************)
\* 1 for a consumer that was counted by Enter or Retry and not yet served
Waiting == IF consumer \in {"blocked", "restore", "try_wait"} THEN 1 ELSE 0

\* 1 for a consumer that was let through and has not taken its element yet
Granted == IF consumer \in Dequeuing \cup {"dequeue"} THEN 1 ELSE 0

\* 1 for an element that was added and not yet signalled
Unsignalled == IF producer = "signal" THEN 1 ELSE 0

SemaInv ==
    /\ m_count \in Int
    /\ m_sema \in Nat
    /\ sent - Len(delivered) = m_count + Waiting + Granted + Unsignalled
    /\ m_count >= 0 - Waiting
    /\ consumer \in {"acquire", "retry"} => m_count >= 1
    /\ m_sema + (IF producer = "post" THEN 1 ELSE 0)
         = IF \/ consumer \in {"blocked", "restore", "try_wait"} /\ m_count >= 0
              \/ consumer = "retry"
           THEN 1 ELSE 0

\* The steps of the semaphore touch no block.
LEMMA SemaphoreKeeps ==
  ASSUME NEW rank, NEW first, QueueInv(rank, first), SemaInv, UNCHANGED innerVars,
         \/ ProducerSignals
         \/ ConsumerWaits
         \/ \E t \in Timeouts : TryWait(t)
  PROVE  QueueInv(rank, first)' /\ SemaInv'
<1> DEFINE waits == {"idle", "acquire", "enter", "blocked", "restore", "retry", "try_wait", "dequeue"}
<1>1. UNCHANGED <<blocks, frontBlock, tailBlock, sent, delivered, nextBlock, tailBlockNext,
                  largestBlockSize>>
  BY DEF innerVars
<1>2. sent \in Nat /\ Len(delivered) \in Nat
  BY DEF QueueInv, TypeInv
<1> USE DEF SemaInv, Waiting, Granted, Unsignalled, Dequeuing
<1>3. ASSUME ProducerSignals
      PROVE  /\ consumer' = consumer /\ producer \in {"signal", "post"} /\ producer' \in {"idle", "post"}
             /\ SemaInv'
  <2>1. CASE Signal
    BY <1>1, <1>2, <2>1 DEF Signal
  <2>2. CASE Post
    BY <1>1, <1>2, <2>2 DEF Post
  <2> QED BY <1>3, <2>1, <2>2 DEF ProducerSignals
<1>4. ASSUME ConsumerWaits \/ \E t \in Timeouts : TryWait(t)
      PROVE  producer' = producer /\ consumer \in waits /\ consumer' \in waits /\ SemaInv'
  <2>1. CASE \E t \in Timeouts : TryWait(t)
    BY <1>1, <1>2, <2>1 DEF TryWait
  <2>2. CASE Acquire
    BY <1>1, <1>2, <2>2 DEF Acquire
  <2>3. CASE Enter
    BY <1>1, <1>2, <2>3 DEF Enter
  <2>4. CASE Woken
    BY <1>1, <1>2, <2>4 DEF Woken
  <2>5. CASE TimedOut
    BY <1>1, <1>2, <2>5 DEF TimedOut
  <2>6. CASE Restore
    BY <1>1, <1>2, <2>6 DEF Restore
  <2>7. CASE Retry
    BY <1>1, <1>2, <2>7 DEF Retry
  <2>8. CASE SemTryWait
    BY <1>1, <1>2, <2>8 DEF SemTryWait
  <2> QED BY <1>4, <2>1, <2>2, <2>3, <2>4, <2>5, <2>6, <2>7, <2>8, Zenon DEF ConsumerWaits
<1>5. BlocksOK' /\ RingInv(rank)' /\ ElementsInv(rank, first)'
  BY <1>1, <1>3, <1>4, NoBlockChanged
<1>6. ProducerInv(rank, first)'
  BY <1>1, <1>3, <1>4, Zenon DEF QueueInv, ProducerInv
<1>7. ConsumerInv'
  BY <1>1, <1>3, <1>4 DEF QueueInv, ConsumerInv
<1>8. TypeInv'
  BY <1>1, <1>3, <1>4, Zenon DEF QueueInv, TypeInv, Enqueuing
<1> QED BY <1>3, <1>4, <1>5, <1>6, <1>7, <1>8 DEF QueueInv

(***************************************************************************)
(* What a step of the ring is to a queue behind a semaphore.               *)
(***************************************************************************)
Enqueued ==
    /\ producer \in Enqueuing /\ producer' = "signal"
    /\ sent < MaxElements /\ sent' = sent + 1
    /\ UNCHANGED <<m_count, m_sema, consumer, timeout, delivered>>

Dequeued ==
    /\ consumer = "take" /\ consumer' = "publish_front"
    /\ delivered' = Append(delivered, Len(delivered) + 1)
    /\ UNCHANGED <<m_count, m_sema, producer, timeout, sent>>

Silent ==
    /\ \/ {producer, producer'} \subseteq Enqueuing \cup {"idle"} /\ consumer' = consumer
       \/ producer' = producer /\ {consumer, consumer'} \subseteq Dequeuing \cup {"dequeue"}
       \/ producer' = producer /\ consumer = "publish_front" /\ consumer' = "idle"
    /\ UNCHANGED <<m_count, m_sema, timeout, sent, delivered>>

Semaphore ==
    /\ ProducerSignals \/ ConsumerWaits \/ \E t \in Timeouts : TryWait(t)
    /\ UNCHANGED innerVars

QueueStep == Enqueued \/ Dequeued \/ Silent \/ Semaphore

\* A consumer that was let through has an element to take.
LEMMA ElementLeft ==
  ASSUME NEW rank, NEW first, QueueInv(rank, first), SemaInv,
         consumer \in Dequeuing \cup {"dequeue"}
  PROVE  Len(delivered) < sent
<1>1. sent \in Nat /\ Len(delivered) \in Nat
  BY DEF QueueInv, TypeInv
<1> QED BY <1>1 DEF SemaInv, Waiting, Granted, Unsignalled, Dequeuing

\* A producer's step keeps the invariant and adds an element or none.
LEMMA ProducerStepKeeps ==
  ASSUME NEW rank, NEW first, QueueInv(rank, first), CheckRoom \/ InnerEnqueue
  PROVE  (\E rank2, first2 : QueueInv(rank2, first2)') /\ (Enqueued \/ Silent)
<1>1. TypeInv
  BY DEF QueueInv
<1> USE DEF ProducerStep, semaUnchanged, Enqueuing, Silent
<1>2. CASE CheckRoom
  <2>1. Silent
    BY <1>2 DEF CheckRoom
  <2> QED BY <1>2, <2>1, CheckRoomKeeps
<1>3. CASE WriteElement
  <2>1. Silent
    BY <1>3 DEF WriteElement
  <2> QED BY <1>3, <2>1, WriteElementKeeps
<1>4. CASE UseNextBlock
  <2>1. Silent
    BY <1>4 DEF UseNextBlock
  <2> QED BY <1>4, <2>1, UseNextBlockKeeps
<1>5. CASE ReadNextFront
  <2>1. Silent
    BY <1>5 DEF ReadNextFront
  <2> QED BY <1>5, <2>1, ReadNextFrontKeeps
<1>6. CASE WriteNextBlock
  <2>1. Silent
    BY <1>6 DEF WriteNextBlock
  <2> QED BY <1>6, <2>1, WriteNextBlockKeeps
<1>7. CASE AdvanceNextTail
  <2>1. Silent
    BY <1>7 DEF AdvanceNextTail
  <2> QED BY <1>7, <2>1, AdvanceNextTailKeeps
<1>8. CASE AllocateBlock
  <2>1. Silent
    BY <1>8 DEF AllocateBlock
  <2> QED BY <1>8, <2>1, AllocateBlockKeeps
<1>9. CASE AllocationFails
  <2>1. Silent
    BY <1>9 DEF AllocationFails
  <2> QED BY <1>9, <2>1, AllocationFailsKeeps
<1>10. CASE LinkBlock
  <2>1. Silent
    BY <1>10 DEF LinkBlock
  <2> QED BY <1>10, <2>1, LinkBlockKeeps
<1>11. CASE PublishTail
  <2>1. Enqueued
    BY <1>1, <1>11 DEF PublishTail, Enqueued, TypeInv
  <2> QED BY <1>11, <2>1, PublishTailKeeps
<1>12. CASE PublishTailBlock
  <2>1. Enqueued
    BY <1>1, <1>12 DEF PublishTailBlock, Enqueued, TypeInv
  <2> QED BY <1>12, <2>1, PublishTailBlockKeeps
<1> QED BY <1>2, <1>3, <1>4, <1>5, <1>6, <1>7, <1>8,
             <1>9, <1>10, <1>11, <1>12, SMTT(30) DEF InnerEnqueue

\* A consumer's step keeps the invariant and takes an element or none.
LEMMA ConsumerStepKeeps ==
  ASSUME NEW rank, NEW first, QueueInv(rank, first), SemaInv, InnerDequeue
  PROVE  (\E rank2, first2 : QueueInv(rank2, first2)') /\ (Dequeued \/ Silent)
<1> USE DEF ConsumerStep, semaUnchanged, Dequeuing, Silent
<1>1. CASE CheckFront
  <2>1. Silent
    BY <1>1, Zenon DEF CheckFront
  <2>2. Len(delivered) < sent
    BY <1>1, ElementLeft, Zenon DEF CheckFront
  <2> QED BY <1>1, <2>1, <2>2, CheckFrontKeeps, Zenon
<1>2. CASE CheckTailBlock
  <2>1. Silent
    BY <1>2 DEF CheckTailBlock
  <2> QED BY <1>2, <2>1, CheckTailBlockKeeps
<1>3. CASE CheckFrontAgain
  <2>1. Silent
    BY <1>3 DEF CheckFrontAgain
  <2> QED BY <1>3, <2>1, CheckFrontAgainKeeps
<1>4. CASE ReadNext
  <2>1. Silent
    BY <1>4 DEF ReadNext
  <2> QED BY <1>4, <2>1, ReadNextKeeps
<1>5. CASE ReadNextTail
  <2>1. Silent
    BY <1>5 DEF ReadNextTail
  <2> QED BY <1>5, <2>1, ReadNextTailKeeps
<1>6. CASE AdvanceFrontBlock
  <2>1. Silent
    BY <1>6 DEF AdvanceFrontBlock
  <2> QED BY <1>6, <2>1, AdvanceFrontBlockKeeps
<1>7. CASE PublishFront
  <2>1. Silent
    BY <1>7 DEF PublishFront
  <2> QED BY <1>7, <2>1, PublishFrontKeeps
<1>8. CASE TakeElement
  <2>1. Dequeued
    BY <1>8, TakeElementKeeps DEF TakeElement, Dequeued
  <2> QED BY <1>8, <2>1, TakeElementKeeps
<1> QED BY <1>1, <1>2, <1>3, <1>4, <1>5, <1>6, <1>7, <1>8, Zenon DEF InnerDequeue

\* Every step keeps the invariant and is a step of the abstract queue or none.
LEMMA StepKeeps ==
  ASSUME NEW rank, NEW first, QueueInv(rank, first), SemaInv, Next
  PROVE  /\ \E rank2, first2 : QueueInv(rank2, first2)'
         /\ SemaInv'
         /\ QueueStep
<1>1. sent \in Nat /\ Len(delivered) \in Nat /\ delivered \in Seq(Nat)
  BY DEF QueueInv, TypeInv
<1>2. Enqueued => SemaInv'
  BY <1>1 DEF Enqueued, SemaInv, Waiting, Granted, Unsignalled, Enqueuing
<1>3. Dequeued => SemaInv'
  <2>1. Dequeued => Len(delivered') = Len(delivered) + 1
    BY <1>1 DEF Dequeued
  <2> QED BY <1>1, <2>1, SMTT(30) DEF Dequeued, SemaInv, Waiting, Granted, Unsignalled, Dequeuing
<1>4. Silent => SemaInv'
  BY <1>1 DEF Silent, SemaInv, Waiting, Granted, Unsignalled, Enqueuing, Dequeuing
<1>5. CASE CheckRoom \/ InnerEnqueue
  BY <1>2, <1>4, <1>5, ProducerStepKeeps DEF QueueStep
<1>6. CASE InnerDequeue
  BY <1>3, <1>4, <1>6, ConsumerStepKeeps DEF QueueStep
<1>7. CASE Semaphore
  BY <1>7, SemaphoreKeeps DEF QueueStep, Semaphore
<1> QED BY <1>5, <1>6, <1>7 DEF Next, ProducerContinues, ConsumerContinues, Waits, Semaphore

(***************************************************************************)
(* The constructor.                                                        *)
(***************************************************************************)
LEMMA AtLeastOnce ==
  ASSUME NEW a \in Nat, NEW b \in Nat, b >= 1, a >= b
  PROVE  a \div b \in Nat /\ a \div b >= 1
OBVIOUS

\* The successor in a ring of n blocks.
LEMMA NextInRing ==
  ASSUME NEW n \in Nat, NEW i \in 1 .. n
  PROVE  (i % n) + 1 = IF i = n THEN 1 ELSE i + 1
<1>1. CASE i = n
  <2>1. n % n = 0
    OBVIOUS
  <2> QED BY <1>1, <2>1
<1>2. CASE i < n
  <2>1. i % n = i
    BY <1>2
  <2> QED BY <1>2, <2>1
<1> QED BY <1>1, <1>2

\* A ring of empty blocks.
LEMMA RingMade ==
  \E n \in Nat, size \in Nat :
     /\ n >= 1 /\ size >= 2
     /\ InitialBlocks = [i \in 1 .. n |-> [make_block(size) EXCEPT !.next = (i % n) + 1]]
<1> DEFINE largest == ceilToPow2(Size + 1)
           several == largest > MAX_BLOCK_SIZE * 2
           a == Size + MAX_BLOCK_SIZE * 2 - 3
           b == MAX_BLOCK_SIZE - 1
           n == IF several THEN a \div b ELSE 1
           size == IF several THEN MAX_BLOCK_SIZE ELSE largest
<1>1. InitialBlocks = [i \in 1 .. n |-> [make_block(size) EXCEPT !.next = (i % n) + 1]]
  BY DEF InitialBlocks
<1>2. largest \in Nat /\ largest >= 2
  <2>1. Size + 1 \in Nat /\ Size + 1 >= 2
    BY QueueAssumption
  <2> QED BY <2>1, PowerOfTwo
<1>3. a \in Nat /\ b \in Nat /\ b >= 1 /\ a >= b
  BY QueueAssumption
<1>4. a \div b \in Nat /\ a \div b >= 1
  <2> HIDE DEF a, b
  <2> QED BY <1>3, AtLeastOnce
<1> HIDE DEF largest, a, b
<1>5. n \in Nat /\ n >= 1
  BY <1>4
<1>6. size \in Nat /\ size >= 2
  BY <1>2, QueueAssumption
<1> HIDE DEF n, size
<1> QED BY <1>1, <1>5, <1>6

\* The invariant holds of the blocks the constructor builds.
LEMMA InitHolds ==
  ASSUME Init
  PROVE  (\E rank, first : QueueInv(rank, first)) /\ SemaInv
<1>1. PICK n \in Nat, size \in Nat :
        /\ n >= 1 /\ size >= 2
        /\ InitialBlocks = [i \in 1 .. n |-> [make_block(size) EXCEPT !.next = (i % n) + 1]]
  BY RingMade
<1>2. blocks = [i \in 1 .. n |-> [make_block(size) EXCEPT !.next = (i % n) + 1]]
  BY <1>1 DEF Init
<1>3. ASSUME NEW i \in 1 .. n
      PROVE  /\ blocks[i] \in Block /\ BlockOK(blocks[i]) /\ Count(blocks[i]) = 0
             /\ blocks[i].next = (IF i = n THEN 1 ELSE i + 1) /\ blocks[i].size = size
             /\ \A f \in Nat : Holds(blocks[i], f, FALSE, Nothing)
  <2>1. blocks[i] = [make_block(size) EXCEPT !.next = (i % n) + 1]
    BY <1>2
  <2>2. (i % n) + 1 = IF i = n THEN 1 ELSE i + 1
    BY NextInRing, Zenon
  <2>3. (i % n) + 1 \in Nat
    BY <2>2
  <2> DEFINE m == (i % n) + 1
  <2> HIDE DEF m
  <2>4. PICK k :
         /\ k = [make_block(size) EXCEPT !.next = m]
         /\ k \in Block /\ BlockOK(k) /\ Count(k) = 0
         /\ k.next = m /\ k.size = size
         /\ \A f \in Nat : Holds(k, f, FALSE, Nothing)
    BY <1>1, <2>3, EmptyBlock, Zenon DEF m
  <2>5. blocks[i] = k /\ m = IF i = n THEN 1 ELSE i + 1
    BY <2>1, <2>2, <2>4 DEF m
  <2> QED BY <2>4, <2>5, Zenon
<1>4. blocks \in Seq(Block) /\ Len(blocks) = n
  <2>1. blocks \in [1 .. n -> Block]
    BY <1>2, <1>3, Zenon
  <2> QED BY <2>1
<1> DEFINE rank == [i \in 1 .. n |-> i - 1]
           first == [i \in 1 .. n |-> 1]
<1>5. /\ rank \in [1 .. n -> Nat] /\ \A i \in 1 .. n : rank[i] = i - 1
      /\ first \in [1 .. n -> Nat] /\ \A i \in 1 .. n : first[i] = 1
  OBVIOUS
<1> HIDE DEF rank, first
<1>6. /\ frontBlock = 1 /\ tailBlock = 1 /\ tailBlockNext = 0 /\ nextBlock = 0
      /\ sent = 0 /\ delivered = <<>> /\ producer = "idle" /\ consumer = "idle"
      /\ m_count = 0 /\ m_sema = 0 /\ Len(delivered) = 0 /\ delivered \in Seq(Nat)
  BY DEF Init, SemaInit, Nothing
<1>7. largestBlockSize \in Nat \ {0}
  <2>1. largestBlockSize = blocks[1].size /\ 1 \in 1 .. n
    BY <1>1 DEF Init
  <2>2. blocks[1].size = size
    BY <1>3, <2>1, Zenon
  <2> QED BY <1>1, <2>1, <2>2
<1>8. TypeInv
  BY <1>4, <1>6, <1>7 DEF TypeInv, Enqueuing
<1>9. BlocksOK
  BY <1>3, <1>4, Zenon DEF BlocksOK
<1>10. Linked = n
  BY <1>4, <1>6 DEF Linked
<1>11. RingInv(rank)
  <2>1. 1 \in 1 .. n /\ rank[1] = 0
    BY <1>1, <1>5
  <2>2. ASSUME NEW b \in 1 .. n
        PROVE  /\ rank[b] < n
               /\ blocks[b].next \in 1 .. n
               /\ rank[b] + 1 < n => rank[blocks[b].next] = rank[b] + 1
               /\ rank[b] + 1 = n => blocks[b].next = 1
    <3>1. rank[b] = b - 1 /\ blocks[b].next = IF b = n THEN 1 ELSE b + 1
      BY <1>3, <1>5, Zenon
    <3>2. CASE b = n
      BY <1>1, <3>1, <3>2
    <3>3. CASE b # n
      <4>1. blocks[b].next = b + 1 /\ b + 1 \in 1 .. n
        BY <3>1, <3>3
      <4>2. rank[b + 1] = b + 1 - 1
        BY <1>5, <4>1
      <4> QED BY <3>1, <3>3, <4>1, <4>2
    <3> QED BY <3>2, <3>3
  <2>3. \A b, c \in 1 .. n : rank[b] = rank[c] => b = c
    <3>1. \A b \in 1 .. n : b = rank[b] + 1
      BY <1>5
    <3> QED BY <3>1
  <2> QED BY <1>4, <1>5, <1>6, <1>10, <2>1, <2>2, <2>3 DEF RingInv
<1>12. ElementsInv(rank, first)
  <2>1. 1 \in 1 .. n /\ rank[1] = 0 /\ first[1] = 1 /\ Count(blocks[1]) = 0
    <3>1. 1 \in 1 .. n
      BY <1>1
    <3>2. Count(blocks[1]) = 0
      BY <1>3, <3>1, Zenon
    <3>3. rank[1] = 1 - 1 /\ first[1] = 1
      BY <1>5, <3>1
    <3> QED BY <3>1, <3>2, <3>3
  <2>2. FirstOut = 1
    BY <1>6 DEF FirstOut
  <2>3. \A b \in 1 .. n : Bare(b) = FALSE /\ Written(b) = Nothing
    BY <1>6 DEF Bare, Written
  <2>4. \A b \in 1 .. n : Holds(blocks[b], first[b], Bare(b), Written(b))
    <3> TAKE b \in 1 .. n
    <3>1. first[b] \in Nat
      BY <1>5
    <3> QED BY <1>3, <2>3, <3>1, Zenon
  <2>5. \A b \in 1 .. n : rank[b] \in Nat /\ Count(blocks[b]) = 0
    BY <1>3, <1>5, Zenon
  <2> QED BY <1>4, <1>5, <1>6, <1>10, <2>1, <2>2, <2>4, <2>5 DEF ElementsInv
<1>13. ProducerInv(rank, first) /\ ConsumerInv
  BY <1>6 DEF ProducerInv, ConsumerInv
<1>14. SemaInv
  <2>1. Waiting = 0 /\ Granted = 0 /\ Unsignalled = 0
    BY <1>6 DEF Waiting, Granted, Unsignalled, Dequeuing
  <2>2. /\ (IF producer = "post" THEN 1 ELSE 0) = 0
        /\ (IF \/ consumer \in {"blocked", "restore", "try_wait"} /\ m_count >= 0
               \/ consumer = "retry"
            THEN 1 ELSE 0) = 0
    BY <1>6
  <2>3. sent - Len(delivered) = m_count + Waiting + Granted + Unsignalled /\ m_count >= 0 - Waiting
    <3>1. sent = 0 /\ Len(delivered) = 0 /\ m_count = 0
      BY <1>6
    <3> QED BY <2>1, <3>1
  <2>4. consumer \notin {"acquire", "retry"} /\ m_count \in Int /\ m_sema \in Nat
    BY <1>6
  <2>5. m_sema + 0 = 0
    BY <1>6
  <2> QED BY <2>2, <2>3, <2>4, <2>5 DEF SemaInv
<1> QED BY <1>8, <1>9, <1>11, <1>12, <1>13, <1>14 DEF QueueInv

(***************************************************************************)
(* What the blocks hold together.                                          *)
(***************************************************************************)
LEMMA CountByRemainder ==
  ASSUME NEW size \in Nat, NEW f \in Nat, f < size, NEW t \in Nat, t < size
  PROVE  (t - f + size) % size = Dist(f, t, size)
<1>1. CASE f <= t
  <2>1. (t - f + size) % size = t - f
    BY <1>1
  <2> QED BY <1>1, <2>1 DEF Dist
<1>2. CASE ~(f <= t)
  <2>1. (t - f + size) % size = t - f + size
    BY <1>2
  <2> QED BY <1>2, <2>1 DEF Dist
<1> QED BY <1>1, <1>2

\* The i-th slot from the front, found by remainder, is at distance i - 1.
LEMMA SlotByRemainder ==
  ASSUME NEW size \in Nat, NEW f \in Nat, f < size, NEW i \in 1 .. size
  PROVE  /\ (f + i - 1) % size \in 0 .. size - 1
         /\ Dist(f, (f + i - 1) % size, size) = i - 1
<1>1. CASE f + i - 1 < size
  <2>1. (f + i - 1) % size = f + i - 1
    BY <1>1
  <2> QED BY <1>1, <2>1 DEF Dist
<1>2. CASE ~(f + i - 1 < size)
  <2>1. (f + i - 1) % size = f + i - 1 - size
    BY <1>2
  <2> QED BY <1>2, <2>1 DEF Dist
<1> QED BY <1>1, <1>2

\* A block holds its elements in the order of their numbers.
LEMMA StoredIs ==
  ASSUME NEW rank, NEW first, QueueInv(rank, first), NEW b \in 1 .. Len(blocks)
  PROVE  /\ Stored(b) \in Seq(Nat) /\ Len(Stored(b)) = Count(blocks[b])
         /\ \A i \in 1 .. Count(blocks[b]) :
               Stored(b)[i] = IF Bare(b) /\ i = 1 THEN Nothing ELSE first[b] + i - 1
<1> DEFINE k == blocks[b]
           n == Count(k)
           slot(i) == (k.front + i - 1) % k.size
<1>1. Indices(k) /\ k \in Block /\ BlockOK(k) /\ n \in Nat /\ n < k.size /\ k.size \in Nat
  BY BlockTypes, CountIsNat, Zenon DEF QueueInv, Indices
<1>2. (k.tail - k.front + k.size) % k.size = n
  <2>1. (k.tail - k.front + k.size) % k.size = Dist(k.front, k.tail, k.size)
    BY <1>1, CountByRemainder, Zenon DEF Indices
  <2> QED BY <2>1 DEF Count
<1>3. Stored(b) = [i \in 1 .. n |-> k.data[slot(i)]]
  BY <1>2 DEF Stored
<1>4. ASSUME NEW i \in 1 .. n
      PROVE  slot(i) \in 0 .. k.size - 1 /\ Dist(k.front, slot(i), k.size) = i - 1
  <2>1. i \in 1 .. k.size /\ k.front \in Nat /\ k.front < k.size
    BY <1>1 DEF Indices
  <2> QED BY <1>1, <2>1, SlotByRemainder, Zenon
<1>5. first[b] \in Nat /\ Holds(k, first[b], Bare(b), Written(b))
  BY Zenon DEF QueueInv, ElementsInv
<1> HIDE DEF slot, n
<1>6. ASSUME NEW i \in 1 .. n
      PROVE  /\ k.data[slot(i)] \in Nat
             /\ k.data[slot(i)] = IF Bare(b) /\ i = 1 THEN Nothing ELSE first[b] + i - 1
  <2>1. i \in Nat /\ i - 1 < n
    BY <1>1, SMTT(30)
  <2>2. Dist(k.front, slot(i), k.size) < Count(k)
    BY <1>4, <2>1 DEF n
  <2>3. k.data[slot(i)] = IF Bare(b) /\ slot(i) = k.front THEN Nothing
                          ELSE first[b] + Dist(k.front, slot(i), k.size)
    BY <1>4, <1>5, <2>2 DEF Holds
  <2>4. slot(i) = k.front <=> i = 1
    <3>1. slot(i) \in Nat /\ slot(i) < k.size
      BY <1>1, <1>4
    <3>2. Dist(k.front, slot(i), k.size) = 0 <=> slot(i) = k.front
      BY <1>1, <3>1, DistIsNat, Zenon DEF Indices
    <3>3. i - 1 = 0 <=> i = 1
      BY <2>1
    <3> QED BY <1>4, <3>2, <3>3
  <2>5. k.data[slot(i)] = IF Bare(b) /\ i = 1 THEN Nothing ELSE first[b] + (i - 1)
    BY <1>4, <2>3, <2>4
  <2>6. Nothing \in Nat /\ first[b] + (i - 1) \in Nat /\ first[b] + (i - 1) = first[b] + i - 1
    BY <1>5, <2>1 DEF Nothing
  <2> QED BY <2>5, <2>6, Zenon
<1>7. Stored(b) \in [1 .. n -> Nat] /\ \A i \in 1 .. n : Stored(b)[i] = k.data[slot(i)]
  BY <1>3, <1>6
<1>8. Stored(b) \in Seq(Nat) /\ Len(Stored(b)) = n
  BY <1>1, <1>7
<1> QED BY <1>6, <1>7, <1>8 DEF n

\* Following next from the front block meets the blocks by their rank.
LEMMA BlockAtIs ==
  ASSUME NEW rank, NEW first, QueueInv(rank, first)
  PROVE  /\ blockAt[0] = frontBlock
         /\ \A n \in 1 .. Len(blocks) : blockAt[n] = blocks[blockAt[n - 1]].next
         /\ \A n \in 0 .. Len(blocks) : blockAt[n] \in 1 .. Linked
         /\ \A n \in 0 .. Linked - 1 : rank[blockAt[n]] = n
<1> DEFINE F(f) == [n \in 0 .. Len(blocks) |-> IF n = 0 THEN frontBlock ELSE blocks[f[n - 1]].next]
           S == 1 .. Linked
           step == [p \in Nat \X S |-> blocks[p[2]].next]
<1>1. Len(blocks) \in Nat /\ frontBlock \in S /\ \A b \in S : blocks[b].next \in S
  BY RingFacts
<1>2. step \in [Nat \X S -> S] /\ \A n \in Nat, b \in S : step[<<n, b>>] = blocks[b].next
  BY <1>1
<1> HIDE DEF step, S
<1>3. PICK f : Follows(f, Len(blocks), S, frontBlock, step)
  BY <1>1, <1>2, RecursionExists, Zenon
<1>4. f = F(f)
  <2>1. ASSUME NEW n \in 1 .. Len(blocks) PROVE f[n] = blocks[f[n - 1]].next
    <3>1. n \in Nat /\ f[n - 1] \in S /\ f[n] = step[<<n, f[n - 1]>>]
      BY <1>1, <1>3 DEF Follows
    <3> QED BY <1>2, <3>1
  <2>2. \A n \in 0 .. Len(blocks) : f[n] = F(f)[n]
    BY <1>1, <1>3, <2>1 DEF Follows
  <2> QED BY <1>3, <2>2 DEF Follows
<1>5. blockAt = F(blockAt)
  BY <1>4, Zenon DEF blockAt
<1>6. /\ blockAt[0] = frontBlock
      /\ \A n \in 1 .. Len(blocks) : blockAt[n] = blocks[blockAt[n - 1]].next
  BY <1>1, <1>5
<1> DEFINE T == {n \in 0 .. Len(blocks) :
                  blockAt[n] \in S /\ (n < Linked => rank[blockAt[n]] = n)}
<1>7. 0 \in T
  BY <1>1, <1>6, RingFacts
<1>8. ASSUME NEW n \in 1 .. Len(blocks), n - 1 \in T PROVE n \in T
  <2> DEFINE c == blockAt[n - 1]
  <2>1. c \in S /\ (n - 1 < Linked => rank[c] = n - 1) /\ n \in Nat /\ n \in 0 .. Len(blocks)
    BY <1>1, <1>8
  <2>2. blockAt[n] = blocks[c].next
    BY <1>6
  <2> HIDE DEF c
  <2>3. blockAt[n] \in S
    BY <1>1, <2>1, <2>2
  <2>4. n < Linked => rank[blockAt[n]] = n
    <3>1. rank[c] + 1 < Linked => rank[blocks[c].next] = rank[c] + 1
      BY <2>1 DEF QueueInv, RingInv, S
    <3>2. Linked \in Nat /\ rank[c] \in Nat
      BY <2>1, RingFacts DEF S
    <3>3. n < Linked => rank[c] = n - 1
      BY <2>1, <3>2
    <3> QED BY <2>1, <2>2, <3>1, <3>2, <3>3
  <2> QED BY <2>1, <2>3, <2>4
<1> HIDE DEF T
<1>9. \A n \in 0 .. Len(blocks) : n \in T
  BY <1>1, <1>7, <1>8, UpTo, Zenon
<1>10. \A n \in 0 .. Linked - 1 : n \in 0 .. Len(blocks) /\ n < Linked
  BY RingFacts
<1> QED BY <1>6, <1>9, <1>10 DEF T, S

\* The last block that holds elements is the tail block.
LEMMA LastIs ==
  ASSUME NEW rank, NEW first, QueueInv(rank, first)
  PROVE  last = rank[tailBlock] /\ blockAt[rank[tailBlock]] = tailBlock
<1> DEFINE r == rank[tailBlock]
           IsLast(n) == blockAt[n] = tailBlock /\ \A m \in 0 .. n - 1 : blockAt[m] # tailBlock
<1>1. /\ Linked \in Nat /\ Len(blocks) \in Nat /\ Linked <= Len(blocks)
      /\ r \in Nat /\ r < Linked /\ tailBlock \in 1 .. Linked
  BY RingFacts, Zenon DEF QueueInv, RingInv
<1>2. \A n \in 0 .. Linked - 1 : blockAt[n] \in 1 .. Linked /\ rank[blockAt[n]] = n
  <2>1. \A n \in 0 .. Linked - 1 : n \in 0 .. Len(blocks)
    BY <1>1
  <2> QED BY <2>1, BlockAtIs
<1>3. blockAt[r] = tailBlock
  <2>1. rank[blockAt[r]] = rank[tailBlock] /\ blockAt[r] \in 1 .. Linked
    BY <1>1, <1>2
  <2> QED BY <1>1, <2>1 DEF QueueInv, RingInv
<1>4. \A m \in 0 .. r - 1 : blockAt[m] # tailBlock
  <2> SUFFICES ASSUME NEW m \in 0 .. r - 1, blockAt[m] = tailBlock PROVE FALSE
    OBVIOUS
  <2>1. m \in 0 .. Linked - 1 /\ m # r
    BY <1>1
  <2> QED BY <1>2, <2>1
<1>5. IsLast(r) /\ r \in 0 .. Len(blocks)
  BY <1>1, <1>3, <1>4
<1>6. ASSUME NEW n \in 0 .. Len(blocks), IsLast(n) PROVE n = r
  <2> HIDE DEF r
  <2>1. ~(n < r)
    <3> SUFFICES ASSUME n < r PROVE FALSE
      OBVIOUS
    <3>1. n \in 0 .. r - 1
      BY <1>1
    <3> QED BY <1>4, <1>6, <3>1
  <2>2. ~(r < n)
    <3> SUFFICES ASSUME r < n PROVE FALSE
      OBVIOUS
    <3>1. r \in 0 .. n - 1
      BY <1>1
    <3> QED BY <1>3, <1>6, <3>1
  <2> QED BY <1>1, <2>1, <2>2
<1> HIDE DEF r, IsLast
<1>7. last = CHOOSE n \in 0 .. Len(blocks) : IsLast(n)
  BY DEF last, IsLast
<1>8. last = r
  BY <1>5, <1>6, <1>7
<1> QED BY <1>3, <1>8 DEF r

\* The stored elements, block by block from the front.
LEMMA StoredUpToStep ==
  ASSUME NEW rank, NEW first, QueueInv(rank, first)
  PROVE  /\ storedUpTo[0] = Stored(frontBlock)
         /\ \A n \in 1 .. Len(blocks) : storedUpTo[n] = storedUpTo[n - 1] \o Stored(blockAt[n])
<1> DEFINE N == Len(blocks)
           F(f) == [n \in 0 .. N |-> IF n = 0 THEN Stored(frontBlock)
                                     ELSE f[n - 1] \o Stored(blockAt[n])]
           S == Seq(Nat)
           step == [p \in Nat \X S |-> IF p[1] \in 1 .. N THEN p[2] \o Stored(blockAt[p[1]]) ELSE p[2]]
<1>1. N \in Nat /\ Stored(frontBlock) \in S
  BY RingFacts, StoredIs
<1>2. \A n \in 1 .. N : Stored(blockAt[n]) \in S
  <2> TAKE n \in 1 .. N
  <2>1. n \in 0 .. N
    BY <1>1
  <2>2. blockAt[n] \in 1 .. Linked
    BY <2>1, BlockAtIs
  <2>3. blockAt[n] \in 1 .. N
    BY <2>2, RingFacts
  <2> QED BY <2>3, StoredIs
<1>3. step \in [Nat \X S -> S]
  <2>1. ASSUME NEW n \in Nat, NEW s \in S
        PROVE  (IF n \in 1 .. N THEN s \o Stored(blockAt[n]) ELSE s) \in S
    BY <1>2
  <2> HIDE DEF S
  <2> QED BY <2>1
<1>4. \A n \in 1 .. N, s \in S : step[<<n, s>>] = s \o Stored(blockAt[n])
  <2> HIDE DEF S
  <2>1. \A n \in 1 .. N : n \in Nat
    BY <1>1
  <2> QED BY <2>1, Zenon
<1> HIDE DEF step, S
<1>5. PICK f : Follows(f, N, S, Stored(frontBlock), step)
  BY <1>1, <1>3, RecursionExists, Zenon
<1>6. f = F(f)
  <2>1. ASSUME NEW n \in 1 .. N PROVE f[n] = f[n - 1] \o Stored(blockAt[n])
    <3>1. f[n - 1] \in S /\ f[n] = step[<<n, f[n - 1]>>]
      BY <1>1, <1>5, SMTT(30) DEF Follows
    <3> QED BY <1>4, <3>1, Zenon
  <2>2. ASSUME NEW n \in 0 .. N PROVE f[n] = F(f)[n]
    <3>1. CASE n = 0
      BY <1>5, <3>1 DEF Follows
    <3>2. CASE n # 0
      <4>1. n \in 1 .. N
        BY <1>1, <3>2
      <4>2. F(f)[n] = f[n - 1] \o Stored(blockAt[n])
        BY <3>2, Zenon
      <4> QED BY <2>1, <4>1, <4>2, Zenon
    <3> QED BY <3>1, <3>2
  <2> QED BY <1>5, <2>2, Zenon DEF Follows
<1>7. storedUpTo = F(storedUpTo)
  BY <1>6, Zenon DEF storedUpTo
<1> QED BY <1>1, <1>7, SMTT(30)

\* The elements of the first n + 1 blocks are numbered through.
LEMMA StoredUpToIs ==
  ASSUME NEW rank, NEW first, QueueInv(rank, first)
  PROVE  \A n \in 0 .. rank[tailBlock] :
            /\ storedUpTo[n] \in Seq(Nat)
            /\ Len(storedUpTo[n]) =
                  first[blockAt[n]] + Count(blocks[blockAt[n]]) - first[frontBlock]
            /\ Bare(frontBlock) => Len(storedUpTo[n]) >= 1
            /\ \A i \in 1 .. Len(storedUpTo[n]) :
                  storedUpTo[n][i] = IF Bare(frontBlock) /\ i = 1 THEN Nothing
                                     ELSE first[frontBlock] + i - 1
<1> DEFINE r == rank[tailBlock]
           a == first[frontBlock]
           Good(s, b) ==
              /\ s \in Seq(Nat)
              /\ Len(s) = first[b] + Count(blocks[b]) - a
              /\ Bare(frontBlock) => Len(s) >= 1
              /\ \A i \in 1 .. Len(s) :
                    s[i] = IF Bare(frontBlock) /\ i = 1 THEN Nothing ELSE a + i - 1
           T == {n \in 0 .. r : Good(storedUpTo[n], blockAt[n])}
<1>1. /\ r \in Nat /\ Linked \in Nat /\ r < Linked /\ Linked <= Len(blocks) /\ Len(blocks) \in Nat
      /\ frontBlock \in 1 .. Len(blocks) /\ rank[frontBlock] = 0
  BY RingFacts, Zenon DEF QueueInv, RingInv
<1>2. \A b \in 1 .. Len(blocks) : first[b] \in Nat /\ Count(blocks[b]) \in Nat
  BY BlockTypes, Zenon DEF QueueInv, ElementsInv
<1>3. 0 \in T
  <2>1. storedUpTo[0] = Stored(frontBlock) /\ blockAt[0] = frontBlock
    BY StoredUpToStep, BlockAtIs, Zenon
  <2>2. Bare(frontBlock) => Count(blocks[frontBlock]) > 0
    BY ElementAtFront DEF Bare
  <2>3. first[frontBlock] + Count(blocks[frontBlock]) - a = Count(blocks[frontBlock])
    BY <1>1, <1>2
  <2>4. Good(Stored(frontBlock), frontBlock)
    <3>1. /\ Stored(frontBlock) \in Seq(Nat) /\ Len(Stored(frontBlock)) = Count(blocks[frontBlock])
          /\ \A i \in 1 .. Count(blocks[frontBlock]) :
                Stored(frontBlock)[i] = IF Bare(frontBlock) /\ i = 1 THEN Nothing ELSE a + i - 1
      BY <1>1, StoredIs
    <3>2. Count(blocks[frontBlock]) > 0 => Count(blocks[frontBlock]) >= 1
      BY <1>1, <1>2
    <3> QED BY <2>2, <2>3, <3>1, <3>2
  <2>5. 0 \in 0 .. r
    BY <1>1
  <2> HIDE DEF Good
  <2> QED BY <2>1, <2>4, <2>5
<1>4. ASSUME NEW n \in 1 .. r, n - 1 \in T PROVE n \in T
  <2> DEFINE s == storedUpTo[n - 1]
             b == blockAt[n - 1]
             c == blockAt[n]
             l == Len(s)
             k == Count(blocks[c])
  <2>1. Good(s, b)
    BY <1>4
  <2>2. n \in 1 .. Len(blocks) /\ n \in 0 .. Linked - 1 /\ n - 1 \in 0 .. Linked - 1
        /\ n \in 0 .. Len(blocks) /\ n - 1 \in 0 .. Len(blocks)
    BY <1>1
  <2>3. storedUpTo[n] = s \o Stored(c) /\ c = blocks[b].next
    BY <2>2, StoredUpToStep, BlockAtIs, Zenon
  <2>4. b \in 1 .. Linked /\ c \in 1 .. Linked /\ rank[b] = n - 1 /\ rank[c] = n
    BY <2>2, BlockAtIs
  <2>5. b \in 1 .. Len(blocks) /\ c \in 1 .. Len(blocks)
    BY <2>4, RingFacts
  <2>6. first[c] = first[b] + Count(blocks[b])
    <3>1. rank[b] < rank[tailBlock] => first[blocks[b].next] = first[b] + Count(blocks[b])
      BY <2>4, Zenon DEF QueueInv, ElementsInv
    <3>2. n - 1 < r
      BY <1>1
    <3> QED BY <2>3, <2>4, <3>1, <3>2, Zenon
  <2>7. l = first[c] - a /\ l \in Nat /\ k \in Nat /\ first[c] \in Nat /\ a \in Nat
    <3>1. first[b] \in Nat /\ Count(blocks[b]) \in Nat /\ k \in Nat /\ first[c] \in Nat /\ a \in Nat
      BY <1>1, <1>2, <2>5, Zenon
    <3>2. l = first[b] + Count(blocks[b]) - a /\ l \in Nat
      BY <2>1
    <3> HIDE DEF l, a
    <3> QED BY <2>6, <3>1, <3>2, SMTT(30)
  <2>8. Bare(c) = FALSE
    <3>1. c # frontBlock
      BY <1>1, <2>4
    <3> QED BY <3>1 DEF Bare
  <2>9. /\ Stored(c) \in Seq(Nat) /\ Len(Stored(c)) = k
        /\ \A i \in 1 .. k : Stored(c)[i] = first[c] + i - 1
    BY <2>5, <2>8, StoredIs, SMTT(30)
  <2>10. s \in Seq(Nat) /\ (Bare(frontBlock) => l >= 1)
         /\ \A i \in 1 .. l : s[i] = IF Bare(frontBlock) /\ i = 1 THEN Nothing ELSE a + i - 1
    BY <2>1
  <2> HIDE DEF s, b, c, k, a, l
  <2>11. s \o Stored(c) \in Seq(Nat) /\ Len(s \o Stored(c)) = l + k
         /\ (\A i \in 1 .. l : (s \o Stored(c))[i] = s[i])
         /\ \A i \in l + 1 .. l + k : (s \o Stored(c))[i] = Stored(c)[i - l]
    <3>1. /\ s \o Stored(c) \in Seq(Nat) /\ Len(s \o Stored(c)) = l + k
          /\ \A i \in 1 .. l + k : (s \o Stored(c))[i] = IF i <= l THEN s[i] ELSE Stored(c)[i - l]
      BY <2>9, <2>10, JoinedSequences, Zenon DEF l
    <3>2. \A i \in 1 .. l : i \in 1 .. l + k /\ i <= l
      BY <2>7
    <3>3. \A i \in l + 1 .. l + k : i \in 1 .. l + k /\ ~(i <= l)
      BY <2>7
    <3> QED BY <3>1, <3>2, <3>3, Zenon
  <2>12. l + k = first[c] + k - a /\ (Bare(frontBlock) => l + k >= 1)
    BY <2>7, <2>10
  <2>13. ASSUME NEW i \in 1 .. l + k
         PROVE  (s \o Stored(c))[i] = IF Bare(frontBlock) /\ i = 1 THEN Nothing ELSE a + i - 1
    <3>1. CASE i <= l
      <4>1. i \in 1 .. l
        BY <2>7, <3>1
      <4> QED BY <2>10, <2>11, <4>1
    <3>2. CASE i > l
      <4>1. i \in l + 1 .. l + k /\ i - l \in 1 .. k /\ i \in Nat
        BY <2>7, <3>2
      <4>2. (s \o Stored(c))[i] = first[c] + (i - l) - 1
        BY <2>9, <2>11, <4>1
      <4>3. first[c] + (i - l) - 1 = a + i - 1
        BY <2>7, <4>1
      <4>4. l >= 1 => i # 1
        BY <2>7, <3>2, <4>1
      <4>5. ~(Bare(frontBlock) /\ i = 1)
        BY <2>10, <4>4
      <4>6. (IF Bare(frontBlock) /\ i = 1 THEN Nothing ELSE a + i - 1) = a + i - 1
        BY <4>5, Zenon
      <4> QED BY <4>2, <4>3, <4>6, Zenon
    <3>3. i <= l \/ i > l
      BY <2>7
    <3> QED BY <3>1, <3>2, <3>3, Zenon
  <2>14. Good(s \o Stored(c), c)
    BY <2>11, <2>12, <2>13, Zenon DEF k
  <2>15. Good(storedUpTo[n], blockAt[n])
    BY <2>3, <2>14 DEF c
  <2>16. n \in 0 .. r
    BY <1>1
  <2> HIDE DEF Good
  <2> QED BY <2>15, <2>16
<1> HIDE DEF T
<1>5. \A n \in 0 .. r : n \in T
  BY <1>1, <1>3, <1>4, UpTo, Zenon
<1> QED BY <1>5 DEF T

\* The elements that were enqueued and not delivered.
Undelivered == [i \in 1 .. sent - Len(delivered) |-> Len(delivered) + i]

\* The queue holds exactly the numbers sent and not delivered, in order.
LEMMA ContentsIs ==
  ASSUME NEW rank, NEW first, QueueInv(rank, first)
  PROVE  /\ Contents = Undelivered
         /\ sent - Len(delivered) \in Nat
         /\ Contents \in Seq(Nat) /\ Len(Contents) = sent - Len(delivered)
<1> DEFINE r == rank[tailBlock]
           s == storedUpTo[r]
           a == first[frontBlock]
           d == Len(delivered)
           n == sent - d
<1>1. last = r /\ blockAt[r] = tailBlock /\ r \in 0 .. r
  BY LastIs, RingFacts
<1>2. /\ s \in Seq(Nat)
      /\ Len(s) = first[tailBlock] + Count(blocks[tailBlock]) - a
      /\ Bare(frontBlock) => Len(s) >= 1
      /\ \A i \in 1 .. Len(s) : s[i] = IF Bare(frontBlock) /\ i = 1 THEN Nothing ELSE a + i - 1
  BY <1>1, StoredUpToIs, SMTT(30)
<1>3. first[tailBlock] + Count(blocks[tailBlock]) = sent + 1 /\ a = FirstOut
  BY DEF QueueInv, ElementsInv
<1>4. d \in Nat /\ sent \in Nat
  BY DEF QueueInv, TypeInv
<1>5. Bare(frontBlock) <=> consumer = "publish_front"
  BY DEF Bare
<1> HIDE DEF s, a, r, d
<1>6. Len(s) \in Nat /\ Len(s) = sent + 1 - a
  <2>1. Len(s) \in Nat
    BY <1>2
  <2>2. Len(s) = first[tailBlock] + Count(blocks[tailBlock]) - a
    BY <1>2
  <2>3. first[tailBlock] + Count(blocks[tailBlock]) = sent + 1
    BY <1>3
  <2>4. first[tailBlock] \in Nat /\ Count(blocks[tailBlock]) \in Nat /\ a \in Nat
    BY RingFacts, BlockTypes, Zenon DEF QueueInv, ElementsInv, a
  <2> QED BY <1>4, <2>1, <2>2, <2>3, <2>4
<1>7. CASE consumer # "publish_front"
  <2>1. a = d + 1
    BY <1>3, <1>7 DEF FirstOut, d
  <2>2. Contents = s
    BY <1>1, <1>7 DEF Contents, s
  <2>3. Len(s) = n /\ n \in Nat
    BY <1>4, <1>6, <2>1
  <2>4. \A i \in 1 .. n : s[i] = d + i
    <3> TAKE i \in 1 .. n
    <3>1. s[i] = a + i - 1
      BY <1>2, <1>5, <1>7, <2>3
    <3> QED BY <1>4, <2>1, <2>3, <3>1
  <2>5. s = [i \in 1 .. n |-> d + i]
    BY <1>2, <2>3, <2>4
  <2> QED BY <1>2, <2>2, <2>3, <2>5 DEF Undelivered, d
<1>8. CASE consumer = "publish_front"
  <2>1. a = d
    BY <1>3, <1>4, <1>8 DEF FirstOut, d
  <2>2. Contents = Tail(s)
    BY <1>1, <1>8 DEF Contents, s
  <2>3. Len(s) = n + 1 /\ n \in Nat
    <3>1. Len(s) >= 1
      BY <1>2, <1>5, <1>8
    <3> QED BY <1>4, <1>6, <2>1, <3>1
  <2>4. /\ Tail(s) \in Seq(Nat) /\ Len(Tail(s)) = n
        /\ \A i \in 1 .. n : Tail(s)[i] = s[i + 1]
    <3>1. s # <<>>
      BY <2>3
    <3>2. /\ Tail(s) \in Seq(Nat) /\ Len(Tail(s)) = Len(s) - 1
          /\ \A i \in 1 .. Len(Tail(s)) : Tail(s)[i] = s[i + 1]
      BY <1>2, <3>1, WithoutHead
    <3>3. Len(Tail(s)) = n
      BY <2>3, <3>2
    <3> QED BY <3>2, <3>3
  <2>5. \A i \in 1 .. n : Tail(s)[i] = d + i
    <3> TAKE i \in 1 .. n
    <3>1. i + 1 \in 1 .. Len(s) /\ i + 1 # 1 /\ i \in Nat
      BY <2>3
    <3>2. s[i + 1] = a + (i + 1) - 1
      BY <1>2, <3>1
    <3> QED BY <1>4, <2>1, <2>4, <3>1, <3>2
  <2>6. Tail(s) = [i \in 1 .. n |-> d + i]
    <3> DEFINE u == Tail(s)
    <3>1. u \in Seq(Nat) /\ Len(u) = n /\ n \in Nat /\ \A i \in 1 .. n : u[i] = d + i
      BY <2>3, <2>4, <2>5
    <3> HIDE DEF u, n
    <3>2. u = [i \in 1 .. n |-> d + i]
      BY <3>1
    <3> QED BY <3>2 DEF u, n
  <2> QED BY <2>2, <2>3, <2>4, <2>6 DEF Undelivered, d
<1> QED BY <1>7, <1>8

(***************************************************************************)
(* The theorems.                                                           *)
(***************************************************************************)
IInv == (\E rank, first : QueueInv(rank, first)) /\ SemaInv

\* The invariant of the block ring always holds.
LEMMA IInvHolds == Spec => []IInv
<1>1. Init => IInv
  BY InitHolds DEF IInv
<1>2. IInv /\ [Next]_vars => IInv'
  <2> SUFFICES ASSUME IInv, [Next]_vars PROVE IInv'
    OBVIOUS
  <2>1. CASE Next
    BY <2>1, StepKeeps DEF IInv
  <2>2. CASE UNCHANGED vars
    <3>1. PICK rank, first : QueueInv(rank, first)
      BY DEF IInv
    <3>2. UNCHANGED <<m_count, m_sema, producer, consumer, timeout, blocks, frontBlock, tailBlock,
                      largestBlockSize, tailBlockNext, nextBlock, sent, delivered>>
      BY <2>2 DEF vars, semaVars, innerVars
    <3>3. BlocksOK' /\ RingInv(rank)' /\ ElementsInv(rank, first)'
      BY <3>1, <3>2, NoBlockChanged
    <3>4. TypeInv'
      BY <3>1, <3>2 DEF QueueInv, TypeInv
    <3>5. ProducerInv(rank, first)'
      BY <3>1, <3>2, Zenon DEF QueueInv, ProducerInv
    <3>6. ConsumerInv'
      BY <3>1, <3>2, Zenon DEF QueueInv, ConsumerInv
    <3>7. SemaInv'
      BY <3>2 DEF IInv, SemaInv, Waiting, Granted, Unsignalled
    <3> QED BY <3>3, <3>4, <3>5, <3>6, <3>7 DEF IInv, QueueInv
  <2> QED BY <2>1, <2>2
<1> QED BY <1>1, <1>2, PTL DEF Spec

\* A consumer that was let through by the semaphore finds an element, and
\* when its front block is empty the tail block is another one: the asserts
\* on success in try_dequeue and wait_dequeue_timed hold.
THEOREM RingDequeueSucceeds == Spec => []DequeueSucceeds
<1>1. IInv => DequeueSucceeds
  <2> SUFFICES ASSUME IInv PROVE DequeueSucceeds
    OBVIOUS
  <2>1. PICK rank, first : QueueInv(rank, first)
    BY DEF IInv
  <2>2. SemaInv
    BY DEF IInv
  <2>3. consumer = "empty" => frontBlock # tailBlock
    BY <2>1 DEF QueueInv, ConsumerInv
  <2>4. ASSUME consumer \in Dequeuing \cup {"dequeue"} PROVE Contents # <<>>
    <3>1. Len(delivered) < sent
      BY <2>1, <2>2, <2>4, ElementLeft
    <3>2. Len(Contents) = sent - Len(delivered)
      BY <2>1, ContentsIs
    <3>3. sent \in Nat /\ Len(delivered) \in Nat
      BY <2>1 DEF QueueInv, TypeInv
    <3>4. Len(Contents) # 0
      BY <3>1, <3>2, <3>3
    <3> QED BY <3>4
  <2>5. consumer \notin Dequeuing \cup {"dequeue"} => ~(
          (CASE consumer \in {"empty", "recheck", "next", "read_next", "advance", "take"} -> "dequeue"
             [] consumer = "publish_front" -> "idle"
             [] OTHER -> consumer) = "dequeue")
    BY DEF Dequeuing
  <2> QED BY <2>3, <2>4, <2>5 DEF DequeueSucceeds, B!DequeueSucceeds
<1> QED BY <1>1, IInvHolds, PTL

\* A wait that times out while signal() is under way neither keeps the
\* wakeup for a later wait nor loses it.
THEOREM RingWakeupsMatch == Spec => []WakeupsMatch
<1>1. IInv => WakeupsMatch
  <2> SUFFICES ASSUME IInv PROVE WakeupsMatch
    OBVIOUS
  <2> DEFINE c == CASE consumer \in {"empty", "recheck", "next", "read_next", "advance", "take"} -> "dequeue"
                    [] consumer = "publish_front" -> "idle"
                    [] OTHER -> consumer
             p == IF producer \in {"signal", "post"} THEN producer ELSE "idle"
  <2>1. p = "post" <=> producer = "post"
    OBVIOUS
  <2>2. /\ c \in {"blocked", "restore", "try_wait"} <=> consumer \in {"blocked", "restore", "try_wait"}
        /\ c = "retry" <=> consumer = "retry"
    OBVIOUS
  <2>3. m_sema + (IF producer = "post" THEN 1 ELSE 0)
         = IF \/ consumer \in {"blocked", "restore", "try_wait"} /\ m_count >= 0
              \/ consumer = "retry"
           THEN 1 ELSE 0
    BY DEF IInv, SemaInv
  <2>4. WakeupsMatch <=>
          m_sema + (IF p = "post" THEN 1 ELSE 0)
            = IF \/ c \in {"blocked", "restore", "try_wait"} /\ m_count >= 0
                 \/ c = "retry"
              THEN 1 ELSE 0
    BY DEF WakeupsMatch, B!WakeupsMatch
  <2> HIDE DEF c, p
  <2> QED BY <2>1, <2>2, <2>3, <2>4
<1> QED BY <1>1, IInvHolds, PTL

\* The two threads never touch a slot or a block the other one owns: the
\* asserts on nextBlockFront in inner_enqueue and try_dequeue hold.
THEOREM RingBlocksHandedOver == Spec => []BlocksHandedOver
<1>1. IInv => BlocksHandedOver
  <2> SUFFICES ASSUME IInv PROVE BlocksHandedOver
    OBVIOUS
  <2>1. PICK rank, first : QueueInv(rank, first)
    BY DEF IInv
  <2>2. ASSUME NEW b \in 1 .. Len(blocks), Written(b) = Nothing
        PROVE  blocks[b].data[blocks[b].tail] = Nothing
    <3>1. Indices(blocks[b]) /\ Holds(blocks[b], first[b], Bare(b), Written(b))
      BY <2>1, BlockTypes, Zenon DEF QueueInv, ElementsInv
    <3> DEFINE k == blocks[b]
    <3> HIDE DEF k
    <3>2. Indices(k) /\ Holds(k, first[b], Bare(b), Written(b))
      BY <3>1, Zenon DEF k
    <3>3. k.tail \in 0 .. k.size - 1
      BY <3>2 DEF Indices
    <3>4. Count(k) \in Nat
      BY <3>2, CountIsNat
    <3>5. Dist(k.front, k.tail, k.size) = Count(k)
      BY Zenon DEF Count
    <3>6. ~(Dist(k.front, k.tail, k.size) < Count(k))
      BY <3>4, <3>5
    <3>7. k.data[k.tail] = Nothing
      BY <2>2, <3>2, <3>3, <3>6 DEF Holds
    <3> QED BY <3>7, Zenon DEF k
  <2>3. producer = "write" => blocks[tailBlock].data[blocks[tailBlock].tail] = Nothing
    BY <2>1, <2>2, RingFacts, Zenon DEF Written
  <2>4. ASSUME producer = "write_next"
        PROVE  /\ blocks[tailBlockNext].localFront = blocks[tailBlockNext].tail
               /\ blocks[tailBlockNext].data[blocks[tailBlockNext].tail] = Nothing
    <3>1. /\ tailBlockNext = blocks[tailBlock].next
          /\ blocks[tailBlockNext].localFront = blocks[tailBlockNext].tail
      BY <2>1, <2>4 DEF QueueInv, ProducerInv
    <3>2. tailBlockNext \in 1 .. Len(blocks)
      BY <2>1, <3>1, RingFacts
    <3>3. Written(tailBlockNext) = Nothing
      BY <2>4 DEF Written
    <3> QED BY <2>2, <3>1, <3>2, <3>3
  <2>5. consumer = "advance" => blocks[nextBlock].front # blocks[nextBlock].localTail
    BY <2>1 DEF QueueInv, ConsumerInv
  <2>6. consumer = "take" => blocks[frontBlock].data[blocks[frontBlock].front] # Nothing
    <3>1. consumer = "take" => blocks[frontBlock].data[blocks[frontBlock].front] = Len(delivered) + 1
      BY <2>1, ElementAtFront
    <3>2. Len(delivered) \in Nat
      BY <2>1 DEF QueueInv, TypeInv
    <3> QED BY <3>1, <3>2 DEF Nothing
  <2> QED BY <2>3, <2>4, <2>5, <2>6 DEF BlocksHandedOver
<1> QED BY <1>1, IInvHolds, PTL

\* A number sent is the last of those not delivered.
LEMMA UndeliveredGrows ==
  ASSUME sent \in Nat, Len(delivered) \in Nat, sent - Len(delivered) \in Nat,
         sent' = sent + 1, delivered' = delivered
  PROVE  Undelivered' = Append(Undelivered, sent + 1)
<1> DEFINE d == Len(delivered)
           n == sent - d
           u == [i \in 1 .. n |-> d + i]
<1>1. n \in Nat /\ d \in Nat /\ d + (n + 1) = sent + 1 /\ sent + 1 - d = n + 1
  OBVIOUS
<1>2. Undelivered = u /\ Undelivered' = [i \in 1 .. n + 1 |-> d + i]
  BY <1>1 DEF Undelivered
<1>3. u \in Seq(Nat) /\ Len(u) = n /\ \A i \in 1 .. n : u[i] = d + i
  BY <1>1
<1> HIDE DEF u, n, d
<1>4. [i \in 1 .. n + 1 |-> d + i] = Append(u, d + (n + 1))
  <2> DEFINE v == [i \in 1 .. n + 1 |-> d + i]
             w == Append(u, d + (n + 1))
  <2>1. v \in Seq(Nat) /\ Len(v) = n + 1 /\ \A i \in 1 .. n + 1 : v[i] = d + i
    BY <1>1
  <2>2. /\ w \in Seq(Nat) /\ Len(w) = n + 1 /\ w[n + 1] = d + (n + 1)
        /\ \A i \in 1 .. n : w[i] = u[i]
    BY <1>1, <1>3
  <2> HIDE DEF v, w
  <2>3. \A i \in 1 .. n + 1 : v[i] = w[i]
    <3> TAKE i \in 1 .. n + 1
    <3>1. CASE i = n + 1
      BY <2>1, <2>2, <3>1
    <3>2. CASE i # n + 1
      <4>1. i \in 1 .. n
        BY <1>1, <3>2
      <4> QED BY <1>3, <2>1, <2>2, <4>1
    <3> QED BY <3>1, <3>2
  <2>4. v = w
    BY <1>1, <2>1, <2>2, <2>3
  <2> QED BY <2>4 DEF v, w
<1> QED BY <1>1, <1>2, <1>4, Zenon

\* A number delivered was the first of those not delivered.
LEMMA UndeliveredShrinks ==
  ASSUME sent \in Nat, delivered \in Seq(Nat), Len(delivered) < sent,
         sent' = sent, delivered' = Append(delivered, Len(delivered) + 1)
  PROVE  /\ Undelivered # <<>>
         /\ Head(Undelivered) = Len(delivered) + 1
         /\ Undelivered' = Tail(Undelivered)
<1> DEFINE d == Len(delivered)
           n == sent - d
           u == [i \in 1 .. n |-> d + i]
           v == [i \in 1 .. n - 1 |-> d + 1 + i]
<1>1. n \in Nat /\ n >= 1 /\ d \in Nat /\ Len(delivered') = d + 1 /\ sent - (d + 1) = n - 1
  OBVIOUS
<1>2. Undelivered = u /\ Undelivered' = v
  BY <1>1 DEF Undelivered
<1>3. u \in Seq(Nat) /\ Len(u) = n /\ \A i \in 1 .. n : u[i] = d + i
  BY <1>1
<1>4. v \in Seq(Nat) /\ Len(v) = n - 1 /\ \A i \in 1 .. n - 1 : v[i] = d + 1 + i
  BY <1>1
<1> HIDE DEF u, v, n, d
<1>5. u # <<>>
  BY <1>1, <1>3
<1>6. Head(u) = d + 1
  BY <1>1, <1>3, <1>5
<1>7. v = Tail(u)
  <2>1. /\ Tail(u) \in Seq(Nat) /\ Len(Tail(u)) = n - 1
        /\ \A i \in 1 .. Len(Tail(u)) : Tail(u)[i] = u[i + 1]
    BY <1>3, <1>5, WithoutHead
  <2> DEFINE w == Tail(u)
  <2>2. w \in Seq(Nat) /\ Len(w) = n - 1 /\ \A i \in 1 .. n - 1 : w[i] = u[i + 1]
    BY <2>1
  <2> HIDE DEF w
  <2>3. \A i \in 1 .. n - 1 : v[i] = w[i]
    <3> TAKE i \in 1 .. n - 1
    <3>1. i + 1 \in 1 .. n /\ i \in Nat
      BY <1>1
    <3>2. u[i + 1] = d + (i + 1) /\ d + (i + 1) = d + 1 + i
      BY <1>1, <1>3, <3>1
    <3> QED BY <1>4, <2>2, <3>2
  <2>4. v = w
    BY <1>1, <1>4, <2>2, <2>3, SMTT(30)
  <2> QED BY <2>4 DEF w
<1> QED BY <1>2, <1>5, <1>6, <1>7 DEF d

\* A step of the ring is a step of the queue behind the semaphore, or none.
LEMMA StepRefines ==
  ASSUME IInv, Contents = Undelivered, Contents' = Undelivered', QueueStep
  PROVE  [B!Next]_(B!vars)
<1> DEFINE same == Contents' = Contents /\ UNCHANGED <<sent, delivered>>
<1>1. PICK rank, first : QueueInv(rank, first)
  BY DEF IInv
<1>2. /\ sent \in Nat /\ delivered \in Seq(Nat) /\ Len(delivered) \in Nat
      /\ sent - Len(delivered) \in Nat
  BY <1>1, ContentsIs DEF QueueInv, TypeInv
<1>3. UNCHANGED <<sent, delivered>> => same
  BY DEF Undelivered
<1>4. CASE Enqueued
  <2>1. Contents' = Append(Contents, sent + 1)
    BY <1>2, <1>4, UndeliveredGrows DEF Enqueued
  <2>2. B!Enqueue
    BY <1>4, <2>1 DEF Enqueued, Enqueuing, B!Enqueue
  <2> QED BY <2>2 DEF B!Next
<1>5. CASE Dequeued
  <2>1. Len(delivered) < sent
    BY <1>1, <1>5, ElementLeft DEF IInv, Dequeued, Dequeuing
  <2>2. /\ Contents # <<>> /\ Head(Contents) = Len(delivered) + 1
        /\ Contents' = Tail(Contents)
    BY <1>2, <1>5, <2>1, UndeliveredShrinks DEF Dequeued
  <2>3. B!Dequeue
    BY <1>5, <2>2 DEF Dequeued, B!Dequeue
  <2> QED BY <2>3 DEF B!Next
<1>6. CASE Silent
  <2>1. same
    BY <1>3, <1>6 DEF Silent
  <2>2. UNCHANGED B!vars
    BY <1>6, <2>1 DEF Silent, Enqueuing, Dequeuing, B!vars, B!semaVars
  <2> QED BY <2>2
<1>7. CASE Semaphore
  <2>1. same
    BY <1>3, <1>7 DEF Semaphore, innerVars
  <2>2. ASSUME NEW t \in Timeouts, TryWait(t) PROVE B!TryWait(t) /\ t \in B!Timeouts
    BY <2>2 DEF TryWait, B!TryWait, Timeouts, B!Timeouts
  <2>3. Acquire => B!Acquire
    BY DEF Acquire, B!Acquire
  <2>4. Enter => B!Enter
    BY DEF Enter, B!Enter
  <2>5. Woken => B!Woken
    BY DEF Woken, B!Woken
  <2>6. TimedOut => B!TimedOut
    BY DEF TimedOut, B!TimedOut
  <2>7. Restore => B!Restore
    BY DEF Restore, B!Restore
  <2>8. Retry => B!Retry
    BY DEF Retry, B!Retry
  <2>9. SemTryWait => B!SemTryWait
    BY DEF SemTryWait, B!SemTryWait
  <2>10. Signal => B!Signal
    BY DEF Signal, B!Signal
  <2>11. Post => B!Post
    BY DEF Post, B!Post
  <2>12. ProducerSignals => B!ProducerSignals
    BY <2>10, <2>11 DEF ProducerSignals, B!ProducerSignals
  <2>13. ConsumerWaits => B!ConsumerWaits
    BY <2>3, <2>4, <2>5, <2>6, <2>7, <2>8, <2>9 DEF ConsumerWaits, B!ConsumerWaits
  <2> QED BY <1>7, <2>1, <2>2, <2>12, <2>13 DEF Semaphore, B!Next
<1> QED BY <1>4, <1>5, <1>6, <1>7 DEF QueueStep

\* For any block sizes, inner_enqueue and try_dequeue with the semaphore
\* behave as one queue: no element is lost, repeated or reordered when
\* blocks fill up, are reused or are added.
THEOREM RingIsBlockingQueue == Spec => ImplementsBlockingQueue
<1>1. IInv => Contents = Undelivered
  BY ContentsIs DEF IInv
<1>2. Init => B!Init
  <2> SUFFICES ASSUME Init PROVE B!Init
    OBVIOUS
  <2>1. IInv
    BY InitHolds DEF IInv
  <2>2. Len(Contents) = sent - Len(delivered) /\ Contents \in Seq(Nat)
    BY <2>1, ContentsIs DEF IInv
  <2>3. sent = 0 /\ Len(delivered) = 0
    BY DEF Init
  <2>4. Len(Contents) = 0
    BY <2>2, <2>3
  <2>5. Contents = <<>>
    BY <2>2, <2>4
  <2> QED BY <2>5 DEF Init, SemaInit, B!Init, B!SemaInit
<1>3. IInv /\ (Contents = Undelivered) /\ (Contents = Undelivered)' /\ [Next]_vars
        => [B!Next]_(B!vars)
  <2> SUFFICES ASSUME IInv, Contents = Undelivered, Contents' = Undelivered', [Next]_vars
               PROVE  [B!Next]_(B!vars)
    OBVIOUS
  <2>1. CASE Next
    <3>1. PICK rank, first : QueueInv(rank, first)
      BY DEF IInv
    <3>2. QueueStep
      BY <2>1, <3>1, StepKeeps DEF IInv
    <3> QED BY <3>2, StepRefines
  <2>2. CASE UNCHANGED vars
    <3>1. Contents' = Contents
      BY <2>2 DEF vars, innerVars, Undelivered
    <3>2. UNCHANGED B!vars
      BY <2>2, <3>1 DEF vars, semaVars, innerVars, B!vars, B!semaVars
    <3> QED BY <3>2
  <2> QED BY <2>1, <2>2
<1> QED BY <1>1, <1>2, <1>3, IInvHolds, PTL DEF Spec, ImplementsBlockingQueue, B!Spec

(***************************************************************************)
(* BlockingQueue by itself, for any sequence in the place of the ring: its *)
(* semaphore counts the elements, for any number of calls and any          *)
(* timeouts.                                                               *)
(***************************************************************************)
VARIABLE queue

Q == INSTANCE BlockingQueue

SequenceType ==
    /\ m_count \in Int
    /\ m_sema \in Nat
    /\ producer \in {"idle", "signal", "post"}
    /\ consumer \in {"idle", "acquire", "enter", "blocked", "restore", "retry",
                     "try_wait", "dequeue"}
    /\ queue \in Seq(Nat)
    /\ sent \in Nat
    /\ delivered \in Seq(Nat)

SequenceCounted ==
    /\ Len(queue) = m_count + Waiting + (IF consumer = "dequeue" THEN 1 ELSE 0) + Unsignalled
    /\ m_count >= 0 - Waiting
    /\ consumer \in {"acquire", "retry"} => m_count >= 1

SequenceInv == SequenceType /\ SequenceCounted /\ Q!WakeupsMatch

\* The abstract queue's invariant holds initially.
LEMMA SequenceInit == Q!Init => SequenceInv
  BY DEF Q!Init, Q!SemaInit, SequenceInv, SequenceType, SequenceCounted, Q!WakeupsMatch,
         Waiting, Unsignalled

\* Every step of the two threads keeps the count.
LEMMA SequenceStep == SequenceInv /\ [Q!Next]_(Q!vars) => SequenceInv'
<1> SUFFICES ASSUME SequenceInv, [Q!Next]_(Q!vars) PROVE SequenceInv'
  OBVIOUS
<1> USE DEF SequenceInv, SequenceType, SequenceCounted, Q!WakeupsMatch, Waiting, Unsignalled
<1> DEFINE same == UNCHANGED <<queue, sent, delivered>>
<1>1. CASE Q!Enqueue
  <2>1. queue' \in Seq(Nat) /\ Len(queue') = Len(queue) + 1
    BY <1>1 DEF Q!Enqueue
  <2> QED BY <1>1, <2>1 DEF Q!Enqueue
<1>2. CASE Q!Dequeue
  <2>1. queue' \in Seq(Nat) /\ Len(queue') = Len(queue) - 1 /\ delivered' \in Seq(Nat)
    BY <1>2, WithoutHead DEF Q!Dequeue
  <2> QED BY <1>2, <2>1 DEF Q!Dequeue
<1>3. ASSUME NEW t \in Q!Timeouts, Q!TryWait(t), same PROVE SequenceInv'
  BY <1>3 DEF Q!TryWait
<1>4. CASE Q!Acquire /\ same
  BY <1>4 DEF Q!Acquire
<1>5. CASE Q!Enter /\ same
  BY <1>5 DEF Q!Enter
<1>6. CASE Q!Woken /\ same
  BY <1>6 DEF Q!Woken
<1>7. CASE Q!TimedOut /\ same
  BY <1>7 DEF Q!TimedOut
<1>8. CASE Q!Restore /\ same
  BY <1>8 DEF Q!Restore
<1>9. CASE Q!Retry /\ same
  BY <1>9 DEF Q!Retry
<1>10. CASE Q!SemTryWait /\ same
  BY <1>10 DEF Q!SemTryWait
<1>11. CASE Q!Signal /\ same
  BY <1>11 DEF Q!Signal
<1>12. CASE Q!Post /\ same
  BY <1>12 DEF Q!Post
<1>13. CASE UNCHANGED Q!vars
  BY <1>13 DEF Q!vars, Q!semaVars
<1> HIDE DEF SequenceInv, same
<1>14. CASE Q!ProducerSignals /\ same
  BY <1>11, <1>12, <1>14 DEF Q!ProducerSignals
<1>15. CASE Q!ConsumerWaits /\ same
  BY <1>4, <1>5, <1>6, <1>7, <1>8, <1>9, <1>10, <1>15 DEF Q!ConsumerWaits
<1>16. CASE (\E t \in Q!Timeouts : Q!TryWait(t)) /\ same
  BY <1>3, <1>16
<1> QED BY <1>1, <1>2, <1>13, <1>14, <1>15, <1>16, Zenon DEF Q!Next, same

\* The abstract queue's invariant always holds.
LEMMA SequenceInvHolds == Q!Spec => []SequenceInv
  BY SequenceInit, SequenceStep, PTL DEF Q!Spec

\* A thread that was let through by wait_dequeue_timed or try_dequeue
\* always finds an element: the asserts on success hold.
THEOREM DequeueSucceedsHolds == Q!Spec => []Q!DequeueSucceeds
<1>1. SequenceInv => Q!DequeueSucceeds
  <2> SUFFICES ASSUME SequenceInv, consumer = "dequeue" PROVE queue # <<>>
    BY DEF Q!DequeueSucceeds
  <2>1. Len(queue) >= 1
    BY DEF SequenceInv, SequenceType, SequenceCounted, Waiting, Unsignalled
  <2> QED BY <2>1
<1> QED BY <1>1, SequenceInvHolds, PTL

\* The assert in signal() holds: the count is never below -1 there.
THEOREM AtMostOneWaiterHolds == Q!Spec => []Q!AtMostOneWaiter
<1>1. SequenceInv => Q!AtMostOneWaiter
  BY DEF SequenceInv, SequenceType, SequenceCounted, Waiting, Q!AtMostOneWaiter
<1> QED BY <1>1, SequenceInvHolds, PTL

\* A wait that times out while signal() is under way neither keeps the
\* wakeup for a later wait nor loses it.
THEOREM WakeupsMatchHolds == Q!Spec => []Q!WakeupsMatch
  BY SequenceInvHolds, PTL DEF SequenceInv
=============================================================================
