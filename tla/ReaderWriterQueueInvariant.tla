--------------------- MODULE ReaderWriterQueueInvariant ---------------------
(***************************************************************************)
(* The inductive invariant of ReaderWriterQueue, for blocks of any size    *)
(* and number and any number of elements, and that inner_enqueue keeps it. *)
(*                                                                         *)
(* The invariant has two witnesses.  rank[b] is the number of blocks from  *)
(* the front block to b; the blocks up to the tail block hold the queue    *)
(* and the ones behind it are free.  first[b] is the number of the element *)
(* in the front slot of b.                                                 *)
(***************************************************************************)
EXTENDS ReaderWriterQueue, TLAPS

(***************************************************************************)
(* Sequences.                                                              *)
(***************************************************************************)
LEMMA ReplacedElement ==
  ASSUME NEW S, NEW s \in Seq(S), NEW i \in 1 .. Len(s), NEW e \in S, NEW t,
         t = [s EXCEPT ![i] = e]
  PROVE  t \in Seq(S) /\ Len(t) = Len(s) /\ t[i] = e
         /\ \A j \in 1 .. Len(s) : j # i => t[j] = s[j]
OBVIOUS

\* What Append does to a sequence.
LEMMA AddedElement ==
  ASSUME NEW S, NEW s \in Seq(S), NEW e \in S, NEW t, t = Append(s, e)
  PROVE  t \in Seq(S) /\ Len(t) = Len(s) + 1 /\ t[Len(s) + 1] = e
         /\ \A j \in 1 .. Len(s) : t[j] = s[j]
OBVIOUS

\* What concatenation does to two sequences.
LEMMA JoinedSequences ==
  ASSUME NEW S, NEW s \in Seq(S), NEW t \in Seq(S)
  PROVE  s \o t \in Seq(S) /\ Len(s \o t) = Len(s) + Len(t)
         /\ \A i \in 1 .. Len(s) + Len(t) :
                (s \o t)[i] = IF i <= Len(s) THEN s[i] ELSE t[i - Len(s)]
OBVIOUS

\* What Tail does to a sequence.
LEMMA WithoutHead ==
  ASSUME NEW S, NEW s \in Seq(S), s # <<>>
  PROVE  Tail(s) \in Seq(S) /\ Len(Tail(s)) = Len(s) - 1
         /\ \A i \in 1 .. Len(Tail(s)) : Tail(s)[i] = s[i + 1]
OBVIOUS

(***************************************************************************)
(* One block.                                                              *)
(***************************************************************************)
\* slots from x to y in a circle of size slots
Dist(x, y, size) == IF x <= y THEN y - x ELSE y - x + size

Count(k) == Dist(k.front, k.tail, k.size)

Data == UNION {[0 .. n - 1 -> Nat] : n \in Nat}

Block == [front : Nat, localTail : Nat, tail : Nat, localFront : Nat,
          next : Nat, size : Nat, data : Data]

\* Each thread's copy of the other's index lags behind it, so the consumer
\* sees no more elements than there are and the producer no more room.
BlockOK(k) ==
    /\ k.size >= 2
    /\ k.front \in 0 .. k.size - 1
    /\ k.tail \in 0 .. k.size - 1
    /\ k.localFront \in 0 .. k.size - 1
    /\ k.localTail \in 0 .. k.size - 1
    /\ k.data \in [0 .. k.size - 1 -> Nat]
    /\ Dist(k.front, k.localTail, k.size) <= Count(k)
    /\ Count(k) <= Dist(k.localFront, k.tail, k.size)

\* The slots from front to tail hold the elements from number f on.  The
\* front slot is bare when its element was moved out; the tail slot holds
\* what was written and is not yet published.
Holds(k, f, bare, written) ==
    \A i \in 0 .. k.size - 1 :
        k.data[i] = IF Dist(k.front, i, k.size) < Count(k)
                    THEN IF bare /\ i = k.front THEN Nothing
                         ELSE f + Dist(k.front, i, k.size)
                    ELSE IF i = k.tail THEN written ELSE Nothing

(***************************************************************************)
(* The invariant.                                                          *)
(***************************************************************************)
Enqueuing == {"write", "publish", "full", "reuse", "write_next",
              "advance_tail", "link", "publish_block"}

Dequeuing == {"empty", "recheck", "next", "read_next", "advance", "take"}

TypeInv ==
    /\ blocks \in Seq(Block)
    /\ frontBlock \in Nat
    /\ tailBlock \in Nat
    /\ largestBlockSize \in Nat \ {0}
    /\ tailBlockNext \in Nat
    /\ nextBlock \in Nat
    /\ sent \in Nat
    /\ delivered \in Seq(Nat)
    /\ producer \in Enqueuing \cup {"idle", "signal", "post"}
    /\ producer \in Enqueuing => sent < MaxElements
    /\ consumer \in Dequeuing \cup {"idle", "acquire", "enter", "blocked", "restore",
                                    "retry", "try_wait", "dequeue", "publish_front"}

BlocksOK == \A b \in 1 .. Len(blocks) : BlockOK(blocks[b])

\* a block that is allocated and not yet linked is the last one
Linked == IF producer = "link" THEN Len(blocks) - 1 ELSE Len(blocks)

RingInv(rank) ==
    /\ rank \in [1 .. Len(blocks) -> Nat]
    /\ frontBlock \in 1 .. Linked
    /\ tailBlock \in 1 .. Linked
    /\ rank[frontBlock] = 0
    /\ \A b \in 1 .. Linked :
           /\ rank[b] < Linked
           /\ blocks[b].next \in 1 .. Linked
           /\ rank[b] + 1 < Linked => rank[blocks[b].next] = rank[b] + 1
           /\ rank[b] + 1 = Linked => blocks[b].next = frontBlock
    /\ \A b, c \in 1 .. Linked : rank[b] = rank[c] => b = c

Written(b) ==
    IF \/ producer = "publish" /\ b = tailBlock
       \/ producer = "advance_tail" /\ b = tailBlockNext
    THEN sent + 1 ELSE Nothing

Bare(b) == consumer = "publish_front" /\ b = frontBlock

\* the tail block once the step under way is published
Entered(b) == producer = "publish_block" /\ b = tailBlockNext

\* number of the element in the front slot of the front block
FirstOut == Len(delivered) + (IF consumer = "publish_front" THEN 0 ELSE 1)

ElementsInv(rank, first) ==
    /\ first \in [1 .. Len(blocks) -> Nat]
    /\ \A b \in 1 .. Len(blocks) : Holds(blocks[b], first[b], Bare(b), Written(b))
    /\ first[frontBlock] = FirstOut
    /\ \A b \in 1 .. Linked :
           /\ rank[b] < rank[tailBlock] =>
                  first[blocks[b].next] = first[b] + Count(blocks[b])
           /\ 0 < rank[b] /\ rank[b] <= rank[tailBlock] => Count(blocks[b]) > 0
           /\ rank[b] > rank[tailBlock] /\ ~Entered(b) => Count(blocks[b]) = 0
    /\ first[tailBlock] + Count(blocks[tailBlock]) = sent + 1

ProducerInv(rank, first) ==
    /\ producer \in {"write", "publish"} =>
           Dist(blocks[tailBlock].localFront, blocks[tailBlock].tail, blocks[tailBlock].size)
             < blocks[tailBlock].size - 1
    /\ producer \in {"reuse", "write_next", "advance_tail", "publish_block"} =>
           /\ tailBlockNext = blocks[tailBlock].next
           /\ rank[tailBlockNext] = rank[tailBlock] + 1
    /\ producer \in {"write_next", "advance_tail"} =>
           blocks[tailBlockNext].localFront = blocks[tailBlockNext].tail
    /\ producer = "link" =>
           /\ tailBlockNext = Len(blocks)
           /\ blocks[tailBlockNext].next = blocks[tailBlock].next
    /\ producer \in {"link", "publish_block"} =>
           /\ first[tailBlockNext] = sent + 1
           /\ Count(blocks[tailBlockNext]) = 1

ConsumerInv ==
    /\ consumer \in {"empty", "recheck", "next", "read_next", "advance"} =>
           frontBlock # tailBlock
    /\ consumer \in {"next", "read_next", "advance"} => Count(blocks[frontBlock]) = 0
    /\ consumer \in {"read_next", "advance"} => nextBlock = blocks[frontBlock].next
    /\ consumer = "advance" => blocks[nextBlock].localTail # blocks[nextBlock].front
    /\ consumer \in {"take", "publish_front"} =>
           blocks[frontBlock].localTail # blocks[frontBlock].front

QueueInv(rank, first) ==
    /\ TypeInv
    /\ BlocksOK
    /\ RingInv(rank)
    /\ ElementsInv(rank, first)
    /\ ProducerInv(rank, first)
    /\ ConsumerInv

(***************************************************************************)
(* What a step does to a block.                                            *)
(***************************************************************************)
\* the slot after i
Succ(i, size) == IF i + 1 = size THEN 0 ELSE i + 1

\* The increment with remainder is the successor in the ring of slots.
LEMMA NextSlot ==
  ASSUME NEW i \in Nat, NEW size \in Nat, i < size
  PROVE  (i + 1) % size = Succ(i, size)
BY DEF Succ

\* Distances around the ring are below its size.
LEMMA DistIsNat ==
  ASSUME NEW size \in Nat, NEW f \in Nat, f < size, NEW i \in Nat, i < size
  PROVE  /\ Dist(f, i, size) \in Nat /\ Dist(f, i, size) < size
         /\ Dist(f, i, size) = 0 <=> i = f
BY DEF Dist

\* Slots at equal distances are the same slot.
LEMMA DistDiffers ==
  ASSUME NEW size \in Nat, NEW f \in Nat, f < size, NEW i \in Nat, i < size,
         NEW j \in Nat, j < size
  PROVE  i = j <=> Dist(f, i, size) = Dist(f, j, size)
BY DEF Dist

\* Moving the front one slot on shortens every distance but the front's own.
LEMMA DistFromNext ==
  ASSUME NEW size \in Nat, size >= 2, NEW f \in Nat, f < size, NEW i \in Nat, i < size
  PROVE  Dist(Succ(f, size), i, size) = IF i = f THEN size - 1 ELSE Dist(f, i, size) - 1
BY DEF Dist, Succ

\* A block's slots hold element numbers.
LEMMA DataKept ==
  ASSUME NEW n \in Nat, NEW d \in [0 .. n - 1 -> Nat]
  PROVE  d \in Data
BY DEF Data

\* The indices of a block.
Indices(k) ==
    /\ k.size \in Nat /\ k.size >= 2
    /\ k.front \in Nat /\ k.front < k.size
    /\ k.tail \in Nat /\ k.tail < k.size
    /\ k.localFront \in Nat /\ k.localFront < k.size
    /\ k.localTail \in Nat /\ k.localTail < k.size

\* What BlockOK says, by parts.
LEMMA IndicesOK ==
  ASSUME NEW k \in Block
  PROVE  BlockOK(k) <=>
           /\ Indices(k)
           /\ k.data \in [0 .. k.size - 1 -> Nat]
           /\ Dist(k.front, k.localTail, k.size) <= Count(k)
           /\ Count(k) <= Dist(k.localFront, k.tail, k.size)
BY DEF Block, BlockOK, Indices

\* A block holds fewer elements than it has slots.
LEMMA CountIsNat ==
  ASSUME NEW k, Indices(k)
  PROVE  Count(k) \in Nat /\ Count(k) < k.size
BY DEF Indices, Count, Dist

\* The producer publishes the tail: the block holds one element more.
LEMMA TailAdvances ==
  ASSUME NEW k \in Block, BlockOK(k), NEW k2, k2 = [k EXCEPT !.tail = (k.tail + 1) % k.size],
         Dist(k.localFront, k.tail, k.size) < k.size - 1
  PROVE  /\ k2 \in Block /\ BlockOK(k2)
         /\ k2.next = k.next /\ k2.localFront = k.localFront /\ k2.size = k.size
         /\ k2.front = k.front /\ k2.localTail = k.localTail
         /\ Count(k2) = Count(k) + 1
         /\ \A f \in Nat, bare \in BOOLEAN :
               Holds(k, f, bare, f + Count(k)) /\ (bare => Count(k) > 0)
                 => Holds(k2, f, bare, Nothing)
<1> DEFINE t == Succ(k.tail, k.size)
<1>1. Indices(k) /\ Dist(k.front, k.localTail, k.size) <= Count(k)
                 /\ Count(k) <= Dist(k.localFront, k.tail, k.size)
  BY IndicesOK
<1>2. (k.tail + 1) % k.size = t /\ t \in Nat /\ t < k.size
  <2>1. (k.tail + 1) % k.size = t
    BY <1>1, NextSlot, Zenon DEF Indices
  <2> QED BY <1>1, <2>1 DEF Indices, Succ
<1>3. k2 = [k EXCEPT !.tail = t]
  BY <1>2
<1> HIDE DEF t
<1>4. /\ k2.front = k.front /\ k2.localTail = k.localTail /\ k2.tail = t
      /\ k2.localFront = k.localFront /\ k2.next = k.next /\ k2.size = k.size
      /\ k2.data = k.data /\ k2 \in Block
  BY <1>2, <1>3 DEF Block
<1>5. Count(k2) = Count(k) + 1
  <2>1. Count(k) < k.size - 1
    BY <1>1 DEF Count, Dist, Indices
  <2>2. Count(k) = IF k.front <= k.tail THEN k.tail - k.front ELSE k.tail - k.front + k.size
    BY DEF Count, Dist
  <2>3. Count(k2) = IF k.front <= t THEN t - k.front ELSE t - k.front + k.size
    BY <1>4 DEF Count, Dist
  <2> QED BY <1>1, <2>1, <2>2, <2>3 DEF Indices, Succ, t
<1>6. BlockOK(k2)
  <2>1. Indices(k2)
    BY <1>1, <1>2, <1>4 DEF Indices
  <2>2. Count(k2) <= Dist(k2.localFront, k2.tail, k2.size)
    BY <1>1, <1>4, <1>5 DEF Dist, Count, Indices, Succ, t
  <2>3. Dist(k2.front, k2.localTail, k2.size) <= Count(k2)
    BY <1>1, <1>4, <1>5, CountIsNat DEF Dist, Indices
  <2> QED BY <1>4, <2>1, <2>2, <2>3, IndicesOK, Zenon
<1>7. ASSUME NEW f \in Nat, NEW bare \in BOOLEAN,
             Holds(k, f, bare, f + Count(k)), bare => Count(k) > 0,
             NEW i \in 0 .. k2.size - 1
      PROVE  k2.data[i] = IF Dist(k2.front, i, k2.size) < Count(k2)
                          THEN IF bare /\ i = k2.front THEN Nothing
                               ELSE f + Dist(k2.front, i, k2.size)
                          ELSE IF i = k2.tail THEN Nothing ELSE Nothing
  <2> DEFINE d == Dist(k.front, i, k.size)
  <2>1. k.data[i] = IF d < Count(k)
                    THEN IF bare /\ i = k.front THEN Nothing ELSE f + d
                    ELSE IF i = k.tail THEN f + Count(k) ELSE Nothing
    BY <1>4, <1>7 DEF Holds
  <2>2. d \in Nat /\ Count(k) \in Nat /\ (i = k.tail <=> d = Count(k)) /\ (i = k.front <=> d = 0)
    <3>1. k.size \in Nat /\ k.front \in Nat /\ k.front < k.size /\ k.tail \in Nat /\ k.tail < k.size
      BY <1>1 DEF Indices
    <3>2. i \in Nat /\ i < k.size
      BY <1>4, <3>1
    <3>3. d \in Nat /\ (i = k.front <=> d = 0)
      BY <3>1, <3>2, DistIsNat
    <3>4. i = k.tail <=> d = Count(k)
      BY <3>1, <3>2, DistDiffers DEF Count
    <3> QED BY <1>1, <3>3, <3>4, CountIsNat
  <2>3. d = Dist(k2.front, i, k2.size)
    BY <1>4
  <2> HIDE DEF d
  <2> QED BY <1>4, <1>5, <1>7, <2>1, <2>2, <2>3
<1>8. \A f \in Nat, bare \in BOOLEAN :
        Holds(k, f, bare, f + Count(k)) /\ (bare => Count(k) > 0) => Holds(k2, f, bare, Nothing)
  BY <1>7 DEF Holds
<1> QED BY <1>4, <1>5, <1>6, <1>8

\* The consumer publishes the front: the block holds one element less.
LEMMA FrontAdvances ==
  ASSUME NEW k \in Block, BlockOK(k), NEW k2, k2 = [k EXCEPT !.front = (k.front + 1) % k.size],
         k.localTail # k.front
  PROVE  /\ k2 \in Block /\ BlockOK(k2)
         /\ k2.next = k.next /\ k2.localFront = k.localFront /\ k2.size = k.size
         /\ k2.tail = k.tail /\ k2.localTail = k.localTail
         /\ Count(k2) = Count(k) - 1
         /\ \A f \in Nat, written \in Nat :
               Holds(k, f, TRUE, written) => Holds(k2, f + 1, FALSE, written)
<1> DEFINE t == Succ(k.front, k.size)
<1>1. Indices(k) /\ Dist(k.front, k.localTail, k.size) <= Count(k)
                 /\ Count(k) <= Dist(k.localFront, k.tail, k.size)
  BY IndicesOK
<1>2. (k.front + 1) % k.size = t /\ t \in Nat /\ t < k.size
  <2>1. (k.front + 1) % k.size = t
    BY <1>1, NextSlot, Zenon DEF Indices
  <2> QED BY <1>1, <2>1 DEF Indices, Succ
<1>3. k2 = [k EXCEPT !.front = t]
  BY <1>2
<1> HIDE DEF t
<1>4. /\ k2.front = t /\ k2.localTail = k.localTail /\ k2.tail = k.tail
      /\ k2.localFront = k.localFront /\ k2.next = k.next /\ k2.size = k.size
      /\ k2.data = k.data /\ k2 \in Block
  BY <1>2, <1>3 DEF Block
<1>5. \A i \in 0 .. k.size - 1 :
        Dist(t, i, k.size) = IF i = k.front THEN k.size - 1 ELSE Dist(k.front, i, k.size) - 1
  <2> SUFFICES ASSUME NEW i \in 0 .. k.size - 1
               PROVE  Dist(t, i, k.size) = IF i = k.front THEN k.size - 1
                                           ELSE Dist(k.front, i, k.size) - 1
    OBVIOUS
  <2>1. i \in Nat /\ i < k.size
    BY <1>1 DEF Indices
  <2> QED BY <1>1, <2>1, DistFromNext DEF Indices, t
<1>6. k.tail # k.front /\ Count(k) > 0
  BY <1>1 DEF Count, Dist, Indices
<1>7. Count(k2) = Count(k) - 1
  BY <1>1, <1>4, <1>5, <1>6 DEF Count, Indices
<1>8. BlockOK(k2)
  <2>1. Indices(k2)
    BY <1>1, <1>2, <1>4 DEF Indices
  <2>2. Dist(k2.front, k2.localTail, k2.size) = Dist(k.front, k.localTail, k.size) - 1
    BY <1>1, <1>4, <1>5 DEF Indices
  <2>3. Dist(k.front, k.localTail, k.size) \in Int /\ Count(k) \in Int
        /\ Dist(k.localFront, k.tail, k.size) \in Int
    BY <1>1 DEF Dist, Count, Indices
  <2>4. Dist(k2.front, k2.localTail, k2.size) <= Count(k2)
    BY <1>1, <1>7, <2>2, <2>3
  <2>5. Count(k2) <= Dist(k2.localFront, k2.tail, k2.size)
    BY <1>1, <1>4, <1>7, <2>3
  <2> QED BY <1>4, <2>1, <2>4, <2>5, IndicesOK, Zenon
<1>9. ASSUME NEW f \in Nat, NEW written \in Nat, Holds(k, f, TRUE, written),
             NEW i \in 0 .. k2.size - 1
      PROVE  k2.data[i] = IF Dist(k2.front, i, k2.size) < Count(k2)
                          THEN IF FALSE /\ i = k2.front THEN Nothing
                               ELSE f + 1 + Dist(k2.front, i, k2.size)
                          ELSE IF i = k2.tail THEN written ELSE Nothing
  <2> DEFINE d == Dist(k.front, i, k.size)
             d2 == Dist(k2.front, i, k2.size)
  <2>1. k.data[i] = IF d < Count(k)
                    THEN IF i = k.front THEN Nothing ELSE f + d
                    ELSE IF i = k.tail THEN written ELSE Nothing
    BY <1>4, <1>9 DEF Holds
  <2>2. d \in Nat /\ Count(k) \in Nat /\ (i = k.front <=> d = 0) /\ Count(k) < k.size
    <3>1. i \in Nat /\ i < k.size
      BY <1>1, <1>4 DEF Indices
    <3> QED BY <1>1, <3>1, CountIsNat, DistIsNat DEF Indices
  <2>3. d2 = IF i = k.front THEN k.size - 1 ELSE d - 1
    BY <1>4, <1>5
  <2> HIDE DEF d, d2
  <2>4. k.size \in Nat
    BY <1>1 DEF Indices
  <2>5. CASE i = k.front
    <3>1. k.data[i] = Nothing
      BY <1>6, <2>1, <2>2, <2>5
    <3>2. ~(d2 < Count(k2)) /\ i # k2.tail
      BY <1>4, <1>6, <1>7, <2>2, <2>3, <2>4, <2>5
    <3> QED BY <1>4, <3>1, <3>2 DEF d2
  <2>6. CASE i # k.front
    <3>1. d2 < Count(k2) <=> d < Count(k)
      BY <1>7, <2>2, <2>3, <2>6
    <3>2. f + 1 + d2 = f + d
      BY <2>2, <2>3, <2>6
    <3> QED BY <1>4, <2>1, <2>6, <3>1, <3>2 DEF d2
  <2> QED BY <2>5, <2>6
<1>10. \A f \in Nat, written \in Nat :
         Holds(k, f, TRUE, written) => Holds(k2, f + 1, FALSE, written)
  BY <1>9 DEF Holds
<1> QED BY <1>4, <1>7, <1>8, <1>10, Zenon

\* A step that leaves front, tail and the slots alone.
LEMMA CopyRead ==
  ASSUME NEW k \in Block, BlockOK(k), NEW k2 \in Block,
         k2.size = k.size, k2.front = k.front, k2.tail = k.tail, k2.data = k.data,
         k2.localFront \in {k.localFront, k.front}, k2.localTail \in {k.localTail, k.tail}
  PROVE  /\ BlockOK(k2)
         /\ Count(k2) = Count(k)
         /\ \A f, bare, written : Holds(k, f, bare, written) => Holds(k2, f, bare, written)
<1>1. Indices(k) /\ Dist(k.front, k.localTail, k.size) <= Count(k)
                 /\ Count(k) <= Dist(k.localFront, k.tail, k.size)
                 /\ k.data \in [0 .. k.size - 1 -> Nat]
  BY IndicesOK
<1>2. Count(k2) = Count(k) /\ Count(k) \in Nat
  BY <1>1, CountIsNat DEF Count
<1>3. Indices(k2)
  BY <1>1 DEF Indices
<1>4. Dist(k2.front, k2.localTail, k2.size) <= Count(k2)
  <2>1. Dist(k.front, k.tail, k.size) <= Count(k)
    BY <1>2 DEF Count
  <2> QED BY <1>1, <1>2, <2>1
<1>5. Count(k2) <= Dist(k2.localFront, k2.tail, k2.size)
  <2>1. Count(k) <= Dist(k.front, k.tail, k.size)
    BY <1>2 DEF Count
  <2> QED BY <1>1, <1>2, <2>1
<1>6. BlockOK(k2)
  BY <1>1, <1>3, <1>4, <1>5, IndicesOK
<1>7. \A f, bare, written : Holds(k, f, bare, written) => Holds(k2, f, bare, written)
  BY <1>2 DEF Holds
<1> QED BY <1>2, <1>6, <1>7

\* The producer writes an element into the slot at the tail.
LEMMA SlotWritten ==
  ASSUME NEW k \in Block, BlockOK(k), NEW v \in Nat,
         NEW k2, k2 = [k EXCEPT !.data[k.tail] = v]
  PROVE  /\ k2 \in Block /\ BlockOK(k2) /\ Count(k2) = Count(k)
         /\ k2.next = k.next /\ k2.size = k.size /\ k2.front = k.front /\ k2.tail = k.tail
         /\ k2.localFront = k.localFront /\ k2.localTail = k.localTail
         /\ \A f, bare : Holds(k, f, bare, Nothing) => Holds(k2, f, bare, v)
<1> DEFINE e == [k.data EXCEPT ![k.tail] = v]
<1>1. Indices(k) /\ Dist(k.front, k.localTail, k.size) <= Count(k)
                 /\ Count(k) <= Dist(k.localFront, k.tail, k.size)
                 /\ k.data \in [0 .. k.size - 1 -> Nat]
  BY IndicesOK
<1>2. k2 = [k EXCEPT !.data = e] /\ e \in [0 .. k.size - 1 -> Nat]
  BY <1>1, Zenon
<1>3. e \in Data
  BY <1>1, <1>2, DataKept, Zenon DEF Indices
<1>4. /\ k2.front = k.front /\ k2.localTail = k.localTail /\ k2.tail = k.tail
      /\ k2.localFront = k.localFront /\ k2.next = k.next /\ k2.size = k.size
      /\ k2.data = e /\ k2 \in Block
  <2> HIDE DEF e
  <2> QED BY <1>2, <1>3, Zenon DEF Block
<1>5. Count(k2) = Count(k)
  BY <1>4 DEF Count
<1>6. BlockOK(k2)
  <2> HIDE DEF e
  <2>1. Indices(k2)
    BY <1>1, <1>4 DEF Indices
  <2> QED BY <1>1, <1>2, <1>4, <1>5, <2>1, IndicesOK, Zenon
<1>7. ASSUME NEW f, NEW bare, Holds(k, f, bare, Nothing), NEW i \in 0 .. k2.size - 1
      PROVE  k2.data[i] = IF Dist(k2.front, i, k2.size) < Count(k2)
                          THEN IF bare /\ i = k2.front THEN Nothing
                               ELSE f + Dist(k2.front, i, k2.size)
                          ELSE IF i = k2.tail THEN v ELSE Nothing
  <2>1. k.data[i] = IF Dist(k.front, i, k.size) < Count(k)
                    THEN IF bare /\ i = k.front THEN Nothing
                         ELSE f + Dist(k.front, i, k.size)
                    ELSE IF i = k.tail THEN Nothing ELSE Nothing
    BY <1>4, <1>7 DEF Holds
  <2>2. CASE i = k.tail
    <3>1. ~(Dist(k.front, i, k.size) < Count(k))
      BY <1>1, <2>2, CountIsNat DEF Count
    <3>2. k2.data[i] = v
      BY <1>1, <1>4, <2>2 DEF Indices
    <3> QED BY <1>4, <1>5, <2>2, <3>1, <3>2
  <2>3. CASE i # k.tail
    <3>1. k2.data[i] = k.data[i]
      BY <1>1, <1>4, <2>3
    <3> QED BY <1>4, <1>5, <2>1, <2>3, <3>1
  <2> QED BY <2>2, <2>3
<1>8. \A f, bare : Holds(k, f, bare, Nothing) => Holds(k2, f, bare, v)
  BY <1>7 DEF Holds
<1> QED BY <1>4, <1>5, <1>6, <1>8

\* The consumer moves the element out of the slot at the front.
LEMMA ElementTaken ==
  ASSUME NEW k \in Block, BlockOK(k), Count(k) > 0,
         NEW k2, k2 = [k EXCEPT !.data[k.front] = Nothing]
  PROVE  /\ k2 \in Block /\ BlockOK(k2) /\ Count(k2) = Count(k)
         /\ k2.next = k.next /\ k2.size = k.size /\ k2.front = k.front /\ k2.tail = k.tail
         /\ k2.localFront = k.localFront /\ k2.localTail = k.localTail
         /\ \A f, written : Holds(k, f, FALSE, written) => Holds(k2, f, TRUE, written)
<1> DEFINE e == [k.data EXCEPT ![k.front] = Nothing]
<1>1. Indices(k) /\ Dist(k.front, k.localTail, k.size) <= Count(k)
                 /\ Count(k) <= Dist(k.localFront, k.tail, k.size)
                 /\ k.data \in [0 .. k.size - 1 -> Nat]
  BY IndicesOK
<1>2. k2 = [k EXCEPT !.data = e] /\ e \in [0 .. k.size - 1 -> Nat]
  BY <1>1, Zenon DEF Nothing
<1>3. e \in Data
  BY <1>1, <1>2, DataKept, Zenon DEF Indices
<1>4. /\ k2.front = k.front /\ k2.localTail = k.localTail /\ k2.tail = k.tail
      /\ k2.localFront = k.localFront /\ k2.next = k.next /\ k2.size = k.size
      /\ k2.data = e /\ k2 \in Block
  <2> HIDE DEF e
  <2> QED BY <1>2, <1>3 DEF Block
<1>5. Count(k2) = Count(k)
  BY <1>4 DEF Count
<1>6. BlockOK(k2)
  <2> HIDE DEF e
  <2>1. Indices(k2)
    BY <1>1, <1>4 DEF Indices
  <2> QED BY <1>1, <1>2, <1>4, <1>5, <2>1, IndicesOK, Zenon
<1>7. ASSUME NEW f, NEW written, Holds(k, f, FALSE, written), NEW i \in 0 .. k2.size - 1
      PROVE  k2.data[i] = IF Dist(k2.front, i, k2.size) < Count(k2)
                          THEN IF TRUE /\ i = k2.front THEN Nothing
                               ELSE f + Dist(k2.front, i, k2.size)
                          ELSE IF i = k2.tail THEN written ELSE Nothing
  <2>1. k.data[i] = IF Dist(k.front, i, k.size) < Count(k)
                    THEN IF FALSE /\ i = k.front THEN Nothing
                         ELSE f + Dist(k.front, i, k.size)
                    ELSE IF i = k.tail THEN written ELSE Nothing
    BY <1>4, <1>7 DEF Holds
  <2>2. CASE i = k.front
    <3>1. Dist(k.front, i, k.size) = 0
      BY <1>1, <2>2 DEF Dist, Indices
    <3>2. k2.data[i] = Nothing
      BY <1>1, <1>4, <2>2 DEF Indices
    <3> QED BY <1>4, <1>5, <2>2, <3>1, <3>2
  <2>3. CASE i # k.front
    <3>1. k2.data[i] = k.data[i]
      BY <1>1, <1>4, <2>3
    <3> QED BY <1>4, <1>5, <2>1, <2>3, <3>1
  <2> QED BY <2>2, <2>3
<1>8. \A f, written : Holds(k, f, FALSE, written) => Holds(k2, f, TRUE, written)
  BY <1>7, Zenon DEF Holds
<1> QED BY <1>4, <1>5, <1>6, <1>8, Zenon

\* A block as the constructor makes it.
LEMMA EmptyBlock ==
  ASSUME NEW size \in Nat, size >= 2, NEW n \in Nat
  PROVE  \E k :
         /\ k = [make_block(size) EXCEPT !.next = n]
         /\ k \in Block /\ BlockOK(k) /\ Count(k) = 0
         /\ k.next = n /\ k.size = size
         /\ \A f \in Nat : Holds(k, f, FALSE, Nothing)
<1> DEFINE e == [i \in 0 .. size - 1 |-> Nothing]
<1> DEFINE k == [front |-> 0, localTail |-> 0, tail |-> 0, localFront |-> 0,
                next |-> n, size |-> size, data |-> e]
<1>1. k = [make_block(size) EXCEPT !.next = n]
  BY DEF make_block
<1>2. e \in [0 .. size - 1 -> Nat] /\ \A i \in 0 .. size - 1 : e[i] = Nothing
  BY DEF Nothing
<1> HIDE DEF e, k
<1>3. e \in Data
  BY <1>2, DataKept
<1>4. k \in Block /\ k.next = n /\ k.size = size /\ k.data = e
      /\ k.front = 0 /\ k.tail = 0 /\ k.localFront = 0 /\ k.localTail = 0
  BY <1>3 DEF Block, k
<1>5. Count(k) = 0
  BY <1>4 DEF Count, Dist
<1>6. Indices(k)
  BY <1>4 DEF Indices
<1>7. Dist(k.front, k.localTail, k.size) <= Count(k) /\ Count(k) <= Dist(k.localFront, k.tail, k.size)
  BY <1>4, <1>5 DEF Dist
<1>8. BlockOK(k)
  BY <1>2, <1>4, <1>6, <1>7, IndicesOK
<1>9. ASSUME NEW f \in Nat PROVE Holds(k, f, FALSE, Nothing)
  <2>1. \A i \in 0 .. k.size - 1 : ~(Dist(k.front, i, k.size) < Count(k))
    BY <1>4, <1>5 DEF Dist
  <2> QED BY <1>2, <1>4, <2>1 DEF Holds
<1> QED BY <1>1, <1>4, <1>5, <1>8, <1>9, Zenon

\* A block that inner_enqueue allocates for one element.
LEMMA NewBlock ==
  ASSUME NEW size \in Nat, size >= 2, NEW n \in Nat, NEW v \in Nat
  PROVE  \E k :
         /\ k = [make_block(size) EXCEPT !.data[0] = v, !.tail = 1, !.localTail = 1, !.next = n]
         /\ k \in Block /\ BlockOK(k) /\ Count(k) = 1
         /\ k.next = n
         /\ Holds(k, v, FALSE, Nothing)
<1> DEFINE e == [[i \in 0 .. size - 1 |-> Nothing] EXCEPT ![0] = v]
<1> DEFINE k == [front |-> 0, localTail |-> 1, tail |-> 1, localFront |-> 0,
                next |-> n, size |-> size, data |-> e]
<1>1. k = [make_block(size) EXCEPT !.data[0] = v, !.tail = 1, !.localTail = 1, !.next = n]
  <2> DEFINE d == [i \in 0 .. size - 1 |-> Nothing]
             m == [front |-> 0, localTail |-> 0, tail |-> 0, localFront |-> 0,
                   next |-> Nothing, size |-> size, data |-> d]
  <2>1. make_block(size) = m
    BY DEF make_block
  <2>2. e = [d EXCEPT ![0] = v]
    OBVIOUS
  <2> HIDE DEF d, e
  <2>3. [m EXCEPT !.data[0] = v] = [m EXCEPT !.data = e]
    BY <2>2
  <2> DEFINE m1 == [front |-> 0, localTail |-> 0, tail |-> 0, localFront |-> 0,
                    next |-> Nothing, size |-> size, data |-> e]
             m2 == [front |-> 0, localTail |-> 0, tail |-> 1, localFront |-> 0,
                    next |-> Nothing, size |-> size, data |-> e]
             m3 == [front |-> 0, localTail |-> 1, tail |-> 1, localFront |-> 0,
                    next |-> Nothing, size |-> size, data |-> e]
  <2>4. [m EXCEPT !.data = e] = m1
    OBVIOUS
  <2>5. [m1 EXCEPT !.tail = 1] = m2
    OBVIOUS
  <2>6. [m2 EXCEPT !.localTail = 1] = m3
    OBVIOUS
  <2>7. [m3 EXCEPT !.next = n] = k
    OBVIOUS
  <2> HIDE DEF m, m1, m2, m3, k
  <2> QED BY <2>1, <2>3, <2>4, <2>5, <2>6, <2>7, Zenon
<1>2. e \in [0 .. size - 1 -> Nat] /\ \A i \in 0 .. size - 1 : e[i] = IF i = 0 THEN v ELSE Nothing
  BY DEF Nothing
<1> HIDE DEF e, k
<1>3. e \in Data
  BY <1>2, DataKept
<1>4. k \in Block /\ k.next = n /\ k.size = size /\ k.data = e
      /\ k.front = 0 /\ k.tail = 1 /\ k.localFront = 0 /\ k.localTail = 1
  BY <1>3 DEF Block, k
<1>5. Count(k) = 1
  BY <1>4 DEF Count, Dist
<1>6. Indices(k)
  BY <1>4 DEF Indices
<1>7. Dist(k.front, k.localTail, k.size) <= Count(k) /\ Count(k) <= Dist(k.localFront, k.tail, k.size)
  BY <1>4, <1>5 DEF Dist
<1>8. BlockOK(k)
  BY <1>2, <1>4, <1>6, <1>7, IndicesOK
<1>9. Holds(k, v, FALSE, Nothing)
  <2>1. \A i \in 0 .. k.size - 1 : Dist(k.front, i, k.size) = i
    BY <1>4 DEF Dist
  <2> QED BY <1>2, <1>4, <1>5, <2>1 DEF Holds
<1> QED BY <1>1, <1>4, <1>5, <1>8, <1>9, Zenon

(***************************************************************************)
(* What the steps have in common.                                          *)
(***************************************************************************)
\* A step changes at most one block.
LEMMA OneBlock ==
  ASSUME blocks \in Seq(Block), NEW b \in 1 .. Len(blocks), NEW k2 \in Block,
         blocks' = [blocks EXCEPT ![b] = k2]
  PROVE  /\ blocks' \in Seq(Block) /\ Len(blocks') = Len(blocks)
         /\ blocks'[b] = k2
         /\ \A c \in 1 .. Len(blocks) : c # b => blocks'[c] = blocks[c]
BY ReplacedElement

\* Every block has its type and consistent indices.
LEMMA BlockTypes ==
  ASSUME TypeInv, BlocksOK
  PROVE  \A b \in 1 .. Len(blocks) : blocks[b] \in Block /\ BlockOK(blocks[b]) /\ Indices(blocks[b])
                                     /\ Count(blocks[b]) \in Nat
BY IndicesOK, CountIsNat DEF TypeInv, BlocksOK

\* The front and tail blocks are in the ring, and the ring is closed.
LEMMA RingFacts ==
  ASSUME NEW rank, NEW first, QueueInv(rank, first)
  PROVE  /\ Len(blocks) \in Nat /\ Linked \in Nat /\ Linked <= Len(blocks)
         /\ frontBlock \in 1 .. Linked /\ tailBlock \in 1 .. Linked
         /\ frontBlock \in 1 .. Len(blocks) /\ tailBlock \in 1 .. Len(blocks)
         /\ rank[frontBlock] = 0 /\ rank[tailBlock] \in Nat
         /\ \A b \in 1 .. Linked : /\ b \in 1 .. Len(blocks) /\ rank[b] \in Nat
                                   /\ blocks[b].next \in 1 .. Linked
                                   /\ blocks[b].next \in 1 .. Len(blocks)
<1>1. RingInv(rank)
  BY DEF QueueInv
<1>2. Len(blocks) \in Nat
  BY DEF QueueInv, TypeInv
<1>3. frontBlock \in 1 .. Linked
  BY <1>1 DEF RingInv
<1>4. Linked \in Nat /\ Linked <= Len(blocks)
  BY <1>2, <1>3 DEF Linked
<1>5. \A b \in 1 .. Linked : b \in 1 .. Len(blocks)
  BY <1>2, <1>4
<1>6. \A b \in 1 .. Linked : rank[b] \in Nat /\ blocks[b].next \in 1 .. Linked
  BY <1>1, <1>5 DEF RingInv
<1> QED BY <1>1, <1>2, <1>3, <1>4, <1>5, <1>6 DEF RingInv

\* A step that keeps the links, the counts and the elements of the blocks.
LEMMA Steady ==
  ASSUME NEW rank, NEW first, QueueInv(rank, first),
         Len(blocks') = Len(blocks),
         frontBlock' = frontBlock, tailBlock' = tailBlock, sent' = sent,
         FirstOut' = FirstOut, Linked' = Linked,
         \A b \in 1 .. Len(blocks) :
           /\ Entered(b)' <=> Entered(b)
           /\ BlockOK(blocks'[b]) /\ blocks'[b].next = blocks[b].next
           /\ Count(blocks'[b]) = Count(blocks[b])
           /\ Holds(blocks[b], first[b], Bare(b), Written(b))
                => Holds(blocks'[b], first[b], Bare(b)', Written(b)')
  PROVE  BlocksOK' /\ RingInv(rank)' /\ ElementsInv(rank, first)'
<1>1. BlocksOK'
  BY DEF BlocksOK
<1>2. RingInv(rank)'
  <2>1. RingInv(rank)
    BY DEF QueueInv
  <2>2. 1 .. Linked \subseteq 1 .. Len(blocks)
    BY RingFacts
  <2> QED BY <2>1, <2>2, ZenonT(40) DEF RingInv
<1>3. ElementsInv(rank, first)'
  <2>1. RingInv(rank) /\ ElementsInv(rank, first)
    BY DEF QueueInv
  <2>2. 1 .. Linked \subseteq 1 .. Len(blocks)
    BY RingFacts
  <2>3. \A b \in 1 .. Len(blocks') : Holds(blocks'[b], first[b], Bare(b)', Written(b)')
    BY <2>1 DEF ElementsInv
  <2>4. tailBlock \in 1 .. Len(blocks)
    BY <2>1, <2>2 DEF RingInv
  <2>5. ASSUME NEW b \in 1 .. Linked'
        PROVE  /\ rank[b] < rank[tailBlock'] =>
                     first[blocks'[b].next] = first[b] + Count(blocks'[b])
               /\ 0 < rank[b] /\ rank[b] <= rank[tailBlock'] => Count(blocks'[b]) > 0
               /\ rank[b] > rank[tailBlock'] /\ ~Entered(b)' => Count(blocks'[b]) = 0
    BY <2>1, <2>2, <2>5 DEF ElementsInv
  <2> QED BY <2>1, <2>3, <2>4, <2>5 DEF ElementsInv
<1> QED BY <1>1, <1>2, <1>3

\* A step of the consumer keeps what the producer relies on.
LEMMA ProducerKept ==
  ASSUME NEW rank, NEW first, QueueInv(rank, first),
         Len(blocks') = Len(blocks), producer' = producer, tailBlock' = tailBlock,
         tailBlockNext' = tailBlockNext, sent' = sent,
         \A b \in 1 .. Len(blocks) :
           /\ blocks'[b].next = blocks[b].next
           /\ blocks'[b].localFront = blocks[b].localFront
           /\ blocks'[b].tail = blocks[b].tail
           /\ blocks'[b].size = blocks[b].size
           /\ b # frontBlock => Count(blocks'[b]) = Count(blocks[b])
  PROVE  ProducerInv(rank, first)'
<1>1. RingInv(rank) /\ ProducerInv(rank, first)
  BY DEF QueueInv
<1>2. tailBlock \in 1 .. Len(blocks) /\ blocks[tailBlock].next \in 1 .. Len(blocks)
      /\ frontBlock \in 1 .. Linked /\ Len(blocks) \in Nat
      /\ rank[frontBlock] = 0 /\ rank[tailBlock] \in Nat
  BY RingFacts
<1>3. producer \in {"reuse", "write_next", "advance_tail", "publish_block", "link"}
        => tailBlockNext \in 1 .. Len(blocks)
  BY <1>1, <1>2 DEF ProducerInv
<1>4. producer \in {"publish_block", "link"} => tailBlockNext # frontBlock
  BY <1>1, <1>2 DEF ProducerInv, Linked
<1> QED BY <1>1, <1>2, <1>3, <1>4 DEF ProducerInv

\* A step of the producer keeps what the consumer relies on.
LEMMA ConsumerKept ==
  ASSUME NEW rank, NEW first, QueueInv(rank, first),
         Len(blocks') = Len(blocks), consumer' = consumer, frontBlock' = frontBlock,
         nextBlock' = nextBlock, frontBlock # tailBlock => frontBlock # tailBlock',
         \A b \in 1 .. Len(blocks) :
           /\ b = frontBlock /\ b # tailBlock => blocks'[b].next = blocks[b].next
           /\ blocks'[b].front = blocks[b].front
           /\ blocks'[b].localTail = blocks[b].localTail
           /\ b = frontBlock /\ b # tailBlock => Count(blocks'[b]) = Count(blocks[b])
  PROVE  ConsumerInv'
<1>1. RingInv(rank) /\ ConsumerInv
  BY DEF QueueInv
<1>2. frontBlock \in 1 .. Len(blocks) /\ blocks[frontBlock].next \in 1 .. Len(blocks)
  BY RingFacts
<1> QED BY <1>1, <1>2 DEF ConsumerInv

(***************************************************************************)
(* The steps of the producer.                                              *)
(***************************************************************************)
\* A slot follows the tail, so localFront is not right behind it.
LEMMA RoomLeft ==
  ASSUME NEW k \in Block, BlockOK(k), Succ(k.tail, k.size) # k.localFront
  PROVE  Dist(k.localFront, k.tail, k.size) < k.size - 1
<1>1. Indices(k)
  BY IndicesOK
<1> QED BY <1>1 DEF Indices, Dist, Succ

\* Reading the tail block's indices keeps the invariant.
LEMMA CheckRoomKeeps ==
  ASSUME NEW rank, NEW first, QueueInv(rank, first), CheckRoom
  PROVE  QueueInv(rank, first)'
<1> DEFINE b == tailBlock
           k == blocks[b]
           k2 == [k EXCEPT !.localFront = k.front]
<1>1. /\ tailBlock' = tailBlock /\ frontBlock' = frontBlock /\ sent' = sent
      /\ consumer' = consumer /\ delivered' = delivered /\ nextBlock' = nextBlock
      /\ largestBlockSize' = largestBlockSize /\ tailBlockNext' = tailBlockNext
      /\ producer = "idle" /\ producer' \in {"write", "full"} /\ sent < MaxElements
  BY DEF CheckRoom, ProducerStep
<1>2. b \in 1 .. Len(blocks) /\ k \in Block /\ BlockOK(k) /\ Indices(k)
  BY RingFacts, BlockTypes DEF QueueInv
<1>3. After(b, k.tail) = Succ(k.tail, k.size)
  BY <1>2, NextSlot, Zenon DEF After, Indices
<1>4. /\ k2 \in Block /\ k2.size = k.size /\ k2.front = k.front /\ k2.tail = k.tail
      /\ k2.data = k.data /\ k2.localFront = k.front /\ k2.localTail = k.localTail
      /\ k2.next = k.next
  BY <1>2, Zenon DEF Block
<1>5. BlockOK(k2) /\ Count(k2) = Count(k)
      /\ \A f, bare, written : Holds(k, f, bare, written) => Holds(k2, f, bare, written)
  BY <1>2, <1>4, CopyRead, Zenon
<1>6. \/ blocks' = blocks /\ Succ(k.tail, k.size) # k.localFront
      \/ /\ blocks' = [blocks EXCEPT ![b] = k2]
         /\ producer' = "write" => Succ(k.tail, k.size) # k.front
  BY <1>3 DEF CheckRoom, ProducerStep
<1> HIDE DEF k2
<1>7. /\ blocks' \in Seq(Block) /\ Len(blocks') = Len(blocks)
      /\ \A c \in 1 .. Len(blocks) : blocks'[c] = blocks[c] \/ (c = b /\ blocks'[c] = k2)
  <2>1. blocks \in Seq(Block)
    BY DEF QueueInv, TypeInv
  <2>2. CASE blocks' = [blocks EXCEPT ![b] = k2]
    <3>1. /\ blocks' \in Seq(Block) /\ Len(blocks') = Len(blocks) /\ blocks'[b] = k2
          /\ \A c \in 1 .. Len(blocks) : c # b => blocks'[c] = blocks[c]
      BY <1>2, <1>4, <2>1, <2>2, OneBlock
    <3> QED BY <3>1
  <2> QED BY <1>6, <2>1, <2>2
<1>8. BlocksOK' /\ RingInv(rank)' /\ ElementsInv(rank, first)'
  <2>1. FirstOut' = FirstOut /\ Linked' = Linked
    BY <1>1, <1>7 DEF FirstOut, Linked
  <2>2. \A c \in 1 .. Len(blocks) : /\ Entered(c)' <=> Entered(c)
                                    /\ Bare(c)' = Bare(c) /\ Written(c)' = Written(c)
    BY <1>1 DEF Entered, Bare, Written
  <2>3. \A c \in 1 .. Len(blocks) : BlockOK(blocks[c])
    BY DEF QueueInv, BlocksOK
  <2> QED BY <1>1, <1>4, <1>5, <1>7, <2>1, <2>2, <2>3, Steady
<1>9. ConsumerInv'
  BY <1>1, <1>4, <1>5, <1>7, ConsumerKept
<1>10. ProducerInv(rank, first)'
  <2>1. ASSUME producer' = "write"
        PROVE  Dist(blocks'[b].localFront, blocks'[b].tail, blocks'[b].size) < blocks'[b].size - 1
    <3>1. CASE blocks' = blocks /\ Succ(k.tail, k.size) # k.localFront
      BY <1>2, <3>1, RoomLeft
    <3>2. CASE blocks' = [blocks EXCEPT ![b] = k2] /\ Succ(k.tail, k.size) # k.front
      <4>1. blocks'[b] = k2
        BY <1>2, <1>4, <3>2, OneBlock DEF QueueInv, TypeInv
      <4> QED BY <1>4, <1>5, <3>2, <4>1, RoomLeft
    <3> QED BY <1>6, <2>1, <3>1, <3>2
  <2> QED BY <1>1, <2>1 DEF ProducerInv
<1>11. TypeInv'
  BY <1>1, <1>7 DEF QueueInv, TypeInv, Enqueuing
<1> QED BY <1>8, <1>9, <1>10, <1>11 DEF QueueInv

\* Writing an element into a free slot keeps the invariant.
LEMMA WriteElementKeeps ==
  ASSUME NEW rank, NEW first, QueueInv(rank, first), WriteElement
  PROVE  QueueInv(rank, first)'
<1> DEFINE b == tailBlock
           k == blocks[b]
           k2 == [k EXCEPT !.data[k.tail] = sent + 1]
<1>1. /\ tailBlock' = tailBlock /\ frontBlock' = frontBlock /\ sent' = sent
      /\ consumer' = consumer /\ delivered' = delivered /\ nextBlock' = nextBlock
      /\ largestBlockSize' = largestBlockSize /\ tailBlockNext' = tailBlockNext
      /\ producer = "write" /\ producer' = "publish"
  BY DEF WriteElement, ProducerStep
<1>2. b \in 1 .. Len(blocks) /\ k \in Block /\ BlockOK(k) /\ Indices(k)
      /\ blocks \in Seq(Block) /\ sent \in Nat
  BY RingFacts, BlockTypes DEF QueueInv, TypeInv
<1>3. blocks' = [blocks EXCEPT ![b] = k2]
  BY DEF WriteElement
<1>4. /\ k2 \in Block /\ BlockOK(k2) /\ Count(k2) = Count(k)
      /\ k2.next = k.next /\ k2.size = k.size /\ k2.front = k.front /\ k2.tail = k.tail
      /\ k2.localFront = k.localFront /\ k2.localTail = k.localTail
      /\ \A f, bare : Holds(k, f, bare, Nothing) => Holds(k2, f, bare, sent + 1)
  <2>1. sent + 1 \in Nat
    BY <1>2
  <2> QED BY <1>2, <2>1, SlotWritten
<1> HIDE DEF k2
<1>5. /\ blocks' \in Seq(Block) /\ Len(blocks') = Len(blocks) /\ blocks'[b] = k2
      /\ \A c \in 1 .. Len(blocks) : c # b => blocks'[c] = blocks[c]
  BY <1>2, <1>3, <1>4, OneBlock
<1>6. BlocksOK' /\ RingInv(rank)' /\ ElementsInv(rank, first)'
  <2>1. FirstOut' = FirstOut /\ Linked' = Linked
    BY <1>1, <1>5 DEF FirstOut, Linked
  <2>2. \A c \in 1 .. Len(blocks) :
          /\ Entered(c)' <=> Entered(c)
          /\ Bare(c)' = Bare(c)
          /\ Written(c) = Nothing
          /\ Written(c)' = IF c = b THEN sent + 1 ELSE Nothing
    BY <1>1 DEF Entered, Bare, Written
  <2>3. \A c \in 1 .. Len(blocks) : BlockOK(blocks[c])
    BY DEF QueueInv, BlocksOK
  <2>4. \A c \in 1 .. Len(blocks) :
          Holds(blocks[c], first[c], Bare(c), Written(c))
            => Holds(blocks'[c], first[c], Bare(c)', Written(c)')
    BY <1>4, <1>5, <2>2
  <2> QED BY <1>1, <1>4, <1>5, <2>1, <2>2, <2>3, <2>4, Steady
<1>7. ConsumerInv'
  BY <1>1, <1>4, <1>5, ConsumerKept, Zenon
<1>8. ProducerInv(rank, first)'
  <2>1. Dist(k.localFront, k.tail, k.size) < k.size - 1
    BY <1>1 DEF QueueInv, ProducerInv
  <2> QED BY <1>1, <1>4, <1>5, <2>1 DEF ProducerInv
<1>9. TypeInv'
  BY <1>1, <1>5 DEF QueueInv, TypeInv, Enqueuing
<1> QED BY <1>6, <1>7, <1>8, <1>9 DEF QueueInv

\* Advancing the tail index, which hands the element over, keeps the invariant.
LEMMA PublishTailKeeps ==
  ASSUME NEW rank, NEW first, QueueInv(rank, first), PublishTail
  PROVE  QueueInv(rank, first)'
<1> DEFINE b == tailBlock
           k == blocks[b]
           k2 == [k EXCEPT !.tail = (k.tail + 1) % k.size]
<1>1. /\ tailBlock' = tailBlock /\ frontBlock' = frontBlock /\ sent' = sent + 1
      /\ consumer' = consumer /\ delivered' = delivered /\ nextBlock' = nextBlock
      /\ largestBlockSize' = largestBlockSize /\ tailBlockNext' = tailBlockNext
      /\ producer = "publish" /\ producer' = "signal"
  BY DEF PublishTail, ProducerStep
<1>2. b \in 1 .. Len(blocks) /\ k \in Block /\ BlockOK(k) /\ Indices(k) /\ Count(k) \in Nat
      /\ blocks \in Seq(Block) /\ sent \in Nat /\ first[b] \in Nat
  BY RingFacts, BlockTypes, Zenon DEF QueueInv, TypeInv, ElementsInv
<1>3. blocks' = [blocks EXCEPT ![b] = k2]
  BY DEF PublishTail, After
<1>4. Dist(k.localFront, k.tail, k.size) < k.size - 1
  BY <1>1 DEF QueueInv, ProducerInv
<1>5. /\ k2 \in Block /\ BlockOK(k2) /\ Count(k2) = Count(k) + 1
      /\ k2.next = k.next /\ k2.size = k.size /\ k2.front = k.front
      /\ k2.localFront = k.localFront /\ k2.localTail = k.localTail
      /\ \A f \in Nat, bare \in BOOLEAN :
            Holds(k, f, bare, f + Count(k)) /\ (bare => Count(k) > 0)
              => Holds(k2, f, bare, Nothing)
  BY <1>2, <1>4, TailAdvances
<1> HIDE DEF k2
<1>6. /\ blocks' \in Seq(Block) /\ Len(blocks') = Len(blocks) /\ blocks'[b] = k2
      /\ \A c \in 1 .. Len(blocks) : c # b => blocks'[c] = blocks[c]
  BY <1>2, <1>3, <1>5, OneBlock
<1>7. Linked' = Linked /\ FirstOut' = FirstOut
  BY <1>1, <1>6 DEF FirstOut, Linked
<1>8. RingInv(rank)'
  <2>1. \A c \in 1 .. Linked : blocks'[c].next = blocks[c].next
    BY <1>5, <1>6, RingFacts
  <2> QED BY <1>1, <1>6, <1>7, <2>1, Zenon DEF QueueInv, RingInv
<1>9. BlocksOK'
  BY <1>5, <1>6 DEF QueueInv, BlocksOK
<1>10. ElementsInv(rank, first)'
  <2>1. ElementsInv(rank, first) /\ RingInv(rank)
    BY DEF QueueInv
  <2>2. \A c \in 1 .. Len(blocks) :
          /\ Bare(c)' = Bare(c)
          /\ Written(c) = IF c = b THEN sent + 1 ELSE Nothing
          /\ Written(c)' = Nothing
          /\ ~Entered(c) /\ ~Entered(c)'
    BY <1>1 DEF Entered, Bare, Written
  <2>3. ASSUME NEW c \in 1 .. Len(blocks)
        PROVE  Holds(blocks'[c], first[c], Bare(c)', Written(c)')
    <3>1. Holds(blocks[c], first[c], Bare(c), Written(c))
      BY <2>1 DEF ElementsInv
    <3>2. CASE c # b
      BY <1>6, <2>2, <3>1, <3>2
    <3>3. CASE c = b
      <4>1. Written(c) = first[b] + Count(k)
        BY <2>1, <2>2, <3>3 DEF ElementsInv
      <4>2. Bare(c) => Count(k) > 0
        <5> SUFFICES ASSUME Bare(c) PROVE Count(k) > 0
          OBVIOUS
        <5>1. k.localTail # k.front
          BY <3>3 DEF QueueInv, ConsumerInv, Bare
        <5>2. Dist(k.front, k.localTail, k.size) <= Count(k)
          BY <1>2, IndicesOK
        <5>3. Dist(k.front, k.localTail, k.size) \in Nat /\ Dist(k.front, k.localTail, k.size) # 0
          BY <1>2, <5>1, DistIsNat, Zenon DEF Indices
        <5> QED BY <1>2, <5>2, <5>3
      <4>3. Bare(c) \in BOOLEAN
        BY DEF Bare
      <4> QED BY <1>2, <1>5, <1>6, <2>2, <3>1, <3>3, <4>1, <4>2, <4>3
    <3> QED BY <3>2, <3>3
  <2>4. ASSUME NEW c \in 1 .. Linked
        PROVE  /\ rank[c] < rank[b] =>
                     first[blocks'[c].next] = first[c] + Count(blocks'[c])
               /\ 0 < rank[c] /\ rank[c] <= rank[b] => Count(blocks'[c]) > 0
               /\ rank[c] > rank[b] => Count(blocks'[c]) = 0
    <3>1. CASE c # b
      <4>1. blocks'[c] = blocks[c] /\ ~Entered(c)
        BY <1>6, <2>2, <3>1, RingFacts
      <4> QED BY <2>1, <4>1 DEF ElementsInv
    <3>2. CASE c = b
      BY <1>2, <1>5, <1>6, <3>2, RingFacts
    <3> QED BY <3>1, <3>2
  <2>5. first[b] + Count(blocks'[b]) = sent' + 1
    BY <1>1, <1>2, <1>5, <1>6, <2>1 DEF ElementsInv
  <2> QED BY <1>1, <1>6, <1>7, <2>1, <2>2, <2>3, <2>4, <2>5 DEF ElementsInv
<1>11. ConsumerInv'
  BY <1>1, <1>5, <1>6, ConsumerKept
<1>12. ProducerInv(rank, first)'
  BY <1>1 DEF ProducerInv
<1>13. TypeInv'
  BY <1>1, <1>6 DEF QueueInv, TypeInv, Enqueuing
<1> QED BY <1>8, <1>9, <1>10, <1>11, <1>12, <1>13 DEF QueueInv

\* A step that changes no block and none of the pointers to the ring.
LEMMA NoBlockChanged ==
  ASSUME NEW rank, NEW first, QueueInv(rank, first),
         UNCHANGED <<blocks, frontBlock, tailBlock, sent, delivered>>,
         consumer' = "publish_front" <=> consumer = "publish_front",
         producer' = producer \/ {producer, producer'} \subseteq
             {"idle", "write", "full", "reuse", "write_next", "signal", "post"},
         tailBlockNext' = tailBlockNext \/ producer' \in {"idle", "write", "full", "reuse"}
  PROVE  BlocksOK' /\ RingInv(rank)' /\ ElementsInv(rank, first)'
<1>1. FirstOut' = FirstOut /\ Linked' = Linked
  BY DEF FirstOut, Linked
<1>2. \A c \in 1 .. Len(blocks) : /\ Entered(c)' <=> Entered(c)
                                  /\ Bare(c)' = Bare(c) /\ Written(c)' = Written(c)
  BY DEF Entered, Bare, Written
<1>3. \A c \in 1 .. Len(blocks) : BlockOK(blocks[c])
  BY Zenon DEF QueueInv, BlocksOK
<1> QED BY <1>1, <1>2, <1>3, Steady, Zenon

\* Turning to the next block, when it is not the front block, keeps the invariant.
LEMMA UseNextBlockKeeps ==
  ASSUME NEW rank, NEW first, QueueInv(rank, first), UseNextBlock
  PROVE  QueueInv(rank, first)'
<1>1. /\ UNCHANGED <<blocks, frontBlock, tailBlock, sent, delivered, consumer, nextBlock,
                      largestBlockSize>>
      /\ producer = "full" /\ producer' = "reuse"
      /\ tailBlockNext' = blocks[tailBlock].next /\ blocks[tailBlock].next # frontBlock
  BY DEF UseNextBlock, ProducerStep, NextBlockFree
<1>2. BlocksOK' /\ RingInv(rank)' /\ ElementsInv(rank, first)'
  BY <1>1, NoBlockChanged
<1>3. tailBlockNext' \in 1 .. Linked /\ rank[tailBlockNext'] = rank[tailBlock] + 1
  <2>1. RingInv(rank) /\ tailBlock \in 1 .. Linked /\ rank[tailBlock] \in Nat /\ Linked \in Nat
    BY RingFacts DEF QueueInv
  <2>2. rank[tailBlock] + 1 # Linked /\ rank[tailBlock] < Linked
    BY <1>1, <2>1 DEF RingInv
  <2>3. rank[tailBlock] + 1 < Linked
    BY <2>1, <2>2
  <2> QED BY <1>1, <2>1, <2>3 DEF RingInv
<1>4. ProducerInv(rank, first)'
  BY <1>1, <1>3 DEF ProducerInv
<1>5. ConsumerInv'
  BY <1>1, ConsumerKept
<1>6. TypeInv'
  BY <1>1, <1>3, RingFacts DEF QueueInv, TypeInv, Enqueuing
<1> QED BY <1>2, <1>4, <1>5, <1>6 DEF QueueInv

\* A failed enqueue changes nothing the invariant is about.
LEMMA AllocationFailsKeeps ==
  ASSUME NEW rank, NEW first, QueueInv(rank, first), AllocationFails
  PROVE  QueueInv(rank, first)'
<1>1. /\ UNCHANGED <<blocks, frontBlock, tailBlock, sent, delivered, consumer, nextBlock,
                      largestBlockSize, tailBlockNext>>
      /\ producer = "full" /\ producer' = "idle"
  BY DEF AllocationFails, ProducerStep
<1>2. BlocksOK' /\ RingInv(rank)' /\ ElementsInv(rank, first)'
  BY <1>1, NoBlockChanged
<1>4. ProducerInv(rank, first)'
  BY <1>1 DEF ProducerInv
<1>5. ConsumerInv'
  BY <1>1, ConsumerKept
<1>6. TypeInv'
  BY <1>1 DEF QueueInv, TypeInv, Enqueuing
<1> QED BY <1>2, <1>4, <1>5, <1>6 DEF QueueInv

\* The block after the tail block is empty until it is entered.
LEMMA NextIsFree ==
  ASSUME NEW rank, NEW first, QueueInv(rank, first),
         producer \in {"reuse", "write_next", "advance_tail"}
  PROVE  /\ tailBlockNext \in 1 .. Linked /\ tailBlockNext \in 1 .. Len(blocks)
         /\ rank[tailBlockNext] = rank[tailBlock] + 1
         /\ tailBlockNext # frontBlock /\ tailBlockNext # tailBlock
         /\ Count(blocks[tailBlockNext]) = 0
         /\ blocks[tailBlockNext].front = blocks[tailBlockNext].tail
<1>1. tailBlockNext = blocks[tailBlock].next /\ rank[tailBlockNext] = rank[tailBlock] + 1
  BY DEF QueueInv, ProducerInv
<1>2. tailBlockNext \in 1 .. Linked /\ tailBlockNext \in 1 .. Len(blocks)
  BY <1>1, RingFacts
<1>3. tailBlockNext # frontBlock /\ tailBlockNext # tailBlock
  BY <1>1, RingFacts
<1>4. Count(blocks[tailBlockNext]) = 0
  <2>1. ElementsInv(rank, first)
    BY DEF QueueInv
  <2>2. ~Entered(tailBlockNext) /\ rank[tailBlockNext] > rank[tailBlock]
    BY <1>1, RingFacts DEF Entered
  <2> QED BY <1>2, <2>1, <2>2 DEF ElementsInv
<1>5. Indices(blocks[tailBlockNext])
  BY <1>2, BlockTypes DEF QueueInv
<1>6. blocks[tailBlockNext].front = blocks[tailBlockNext].tail
  <2> DEFINE k == blocks[tailBlockNext]
  <2>1. Dist(k.front, k.tail, k.size) = 0 /\ k.size \in Nat
        /\ k.front \in Nat /\ k.front < k.size /\ k.tail \in Nat /\ k.tail < k.size
    BY <1>4, <1>5 DEF Count, Indices
  <2> HIDE DEF k
  <2>2. k.front = k.tail
    BY <2>1, DistIsNat
  <2> QED BY <2>2 DEF k
<1> QED BY <1>1, <1>2, <1>3, <1>4, <1>6

\* Refreshing the next block's local front keeps the invariant.
LEMMA ReadNextFrontKeeps ==
  ASSUME NEW rank, NEW first, QueueInv(rank, first), ReadNextFront
  PROVE  QueueInv(rank, first)'
<1> DEFINE b == tailBlockNext
           k == blocks[b]
           k2 == [k EXCEPT !.localFront = k.front]
<1>1. /\ tailBlock' = tailBlock /\ frontBlock' = frontBlock /\ sent' = sent
      /\ consumer' = consumer /\ delivered' = delivered /\ nextBlock' = nextBlock
      /\ largestBlockSize' = largestBlockSize /\ tailBlockNext' = tailBlockNext
      /\ producer = "reuse" /\ producer' = "write_next"
  BY DEF ReadNextFront, ProducerStep
<1>2. b \in 1 .. Linked /\ b \in 1 .. Len(blocks) /\ b # tailBlock
      /\ rank[b] = rank[tailBlock] + 1 /\ k.front = k.tail
  BY <1>1, NextIsFree
<1>3. k \in Block /\ BlockOK(k) /\ blocks \in Seq(Block)
  BY <1>2, BlockTypes DEF QueueInv, TypeInv
<1>4. /\ k2 \in Block /\ k2.size = k.size /\ k2.front = k.front /\ k2.tail = k.tail
      /\ k2.data = k.data /\ k2.localFront = k.front /\ k2.localTail = k.localTail
      /\ k2.next = k.next
  BY <1>3, Zenon DEF Block
<1>5. BlockOK(k2) /\ Count(k2) = Count(k)
      /\ \A f, bare, written : Holds(k, f, bare, written) => Holds(k2, f, bare, written)
  BY <1>3, <1>4, CopyRead, Zenon
<1>6. blocks' = [blocks EXCEPT ![b] = k2]
  BY DEF ReadNextFront
<1> HIDE DEF k2
<1>7. /\ blocks' \in Seq(Block) /\ Len(blocks') = Len(blocks) /\ blocks'[b] = k2
      /\ \A c \in 1 .. Len(blocks) : c # b => blocks'[c] = blocks[c]
  BY <1>2, <1>3, <1>4, <1>6, OneBlock
<1>8. BlocksOK' /\ RingInv(rank)' /\ ElementsInv(rank, first)'
  <2>1. FirstOut' = FirstOut /\ Linked' = Linked
    BY <1>1, <1>7 DEF FirstOut, Linked
  <2>2. \A c \in 1 .. Len(blocks) : /\ Entered(c)' <=> Entered(c)
                                    /\ Bare(c)' = Bare(c) /\ Written(c)' = Written(c)
    BY <1>1 DEF Entered, Bare, Written
  <2>3. \A c \in 1 .. Len(blocks) : BlockOK(blocks[c])
    BY DEF QueueInv, BlocksOK
  <2> QED BY <1>1, <1>4, <1>5, <1>7, <2>1, <2>2, <2>3, Steady, Zenon
<1>9. ConsumerInv'
  BY <1>1, <1>4, <1>5, <1>7, ConsumerKept
<1>10. ProducerInv(rank, first)'
  <2>1. b = blocks[tailBlock].next
    BY <1>1 DEF QueueInv, ProducerInv
  <2>2. blocks'[tailBlock].next = blocks[tailBlock].next
    BY <1>2, <1>7, RingFacts
  <2> QED BY <1>1, <1>2, <1>4, <1>7, <2>1, <2>2 DEF ProducerInv
<1>11. TypeInv'
  BY <1>1, <1>7 DEF QueueInv, TypeInv, Enqueuing
<1> QED BY <1>8, <1>9, <1>10, <1>11 DEF QueueInv

\* Writing an element into the empty next block keeps the invariant.
LEMMA WriteNextBlockKeeps ==
  ASSUME NEW rank, NEW first, QueueInv(rank, first), WriteNextBlock
  PROVE  QueueInv(rank, first)'
<1> DEFINE b == tailBlockNext
           k == blocks[b]
           k2 == [k EXCEPT !.data[k.tail] = sent + 1]
<1>1. /\ tailBlock' = tailBlock /\ frontBlock' = frontBlock /\ sent' = sent
      /\ consumer' = consumer /\ delivered' = delivered /\ nextBlock' = nextBlock
      /\ largestBlockSize' = largestBlockSize /\ tailBlockNext' = tailBlockNext
      /\ producer = "write_next" /\ producer' = "advance_tail"
  BY DEF WriteNextBlock, ProducerStep
<1>2. b \in 1 .. Linked /\ b \in 1 .. Len(blocks) /\ b # tailBlock
      /\ rank[b] = rank[tailBlock] + 1
  BY <1>1, NextIsFree
<1>3. k \in Block /\ BlockOK(k) /\ blocks \in Seq(Block) /\ sent \in Nat
  BY <1>2, BlockTypes DEF QueueInv, TypeInv
<1>4. /\ k2 \in Block /\ BlockOK(k2) /\ Count(k2) = Count(k)
      /\ k2.next = k.next /\ k2.size = k.size /\ k2.front = k.front /\ k2.tail = k.tail
      /\ k2.localFront = k.localFront /\ k2.localTail = k.localTail
      /\ \A f, bare : Holds(k, f, bare, Nothing) => Holds(k2, f, bare, sent + 1)
  <2>1. sent + 1 \in Nat
    BY <1>3
  <2> QED BY <1>3, <2>1, SlotWritten
<1>5. blocks' = [blocks EXCEPT ![b] = k2]
  BY DEF WriteNextBlock
<1> HIDE DEF k2
<1>6. /\ blocks' \in Seq(Block) /\ Len(blocks') = Len(blocks) /\ blocks'[b] = k2
      /\ \A c \in 1 .. Len(blocks) : c # b => blocks'[c] = blocks[c]
  BY <1>2, <1>3, <1>4, <1>5, OneBlock
<1>7. BlocksOK' /\ RingInv(rank)' /\ ElementsInv(rank, first)'
  <2>1. FirstOut' = FirstOut /\ Linked' = Linked
    BY <1>1, <1>6 DEF FirstOut, Linked
  <2>2. \A c \in 1 .. Len(blocks) :
          /\ Entered(c)' <=> Entered(c)
          /\ Bare(c)' = Bare(c)
          /\ Written(c) = Nothing
          /\ Written(c)' = IF c = b THEN sent + 1 ELSE Nothing
    BY <1>1 DEF Entered, Bare, Written
  <2>3. \A c \in 1 .. Len(blocks) : BlockOK(blocks[c])
    BY DEF QueueInv, BlocksOK
  <2>4. \A c \in 1 .. Len(blocks) :
          Holds(blocks[c], first[c], Bare(c), Written(c))
            => Holds(blocks'[c], first[c], Bare(c)', Written(c)')
    BY <1>4, <1>6, <2>2
  <2> QED BY <1>1, <1>4, <1>6, <2>1, <2>2, <2>3, <2>4, Steady, Zenon
<1>8. ConsumerInv'
  BY <1>1, <1>4, <1>6, ConsumerKept, Zenon
<1>9. ProducerInv(rank, first)'
  <2>1. b = blocks[tailBlock].next /\ k.localFront = k.tail
    BY <1>1 DEF QueueInv, ProducerInv
  <2>2. blocks'[tailBlock].next = blocks[tailBlock].next
    BY <1>2, <1>6, RingFacts
  <2> QED BY <1>1, <1>2, <1>4, <1>6, <2>1, <2>2 DEF ProducerInv
<1>10. TypeInv'
  BY <1>1, <1>6 DEF QueueInv, TypeInv, Enqueuing
<1> QED BY <1>7, <1>8, <1>9, <1>10 DEF QueueInv

\* Advancing that block's tail gives it the number of its first element.
LEMMA AdvanceNextTailKeeps ==
  ASSUME NEW rank, NEW first, QueueInv(rank, first), AdvanceNextTail
  PROVE  \E first2 : QueueInv(rank, first2)'
<1> DEFINE b == tailBlockNext
           k == blocks[b]
           k2 == [k EXCEPT !.tail = (k.tail + 1) % k.size]
<1>1. /\ tailBlock' = tailBlock /\ frontBlock' = frontBlock /\ sent' = sent
      /\ consumer' = consumer /\ delivered' = delivered /\ nextBlock' = nextBlock
      /\ largestBlockSize' = largestBlockSize /\ tailBlockNext' = tailBlockNext
      /\ producer = "advance_tail" /\ producer' = "publish_block"
  BY DEF AdvanceNextTail, ProducerStep
<1>2. b \in 1 .. Linked /\ b \in 1 .. Len(blocks) /\ b # tailBlock /\ b # frontBlock
      /\ rank[b] = rank[tailBlock] + 1 /\ Count(k) = 0
  BY <1>1, NextIsFree
<1>3. k \in Block /\ BlockOK(k) /\ Indices(k) /\ blocks \in Seq(Block) /\ sent \in Nat
  BY <1>2, BlockTypes DEF QueueInv, TypeInv
<1>4. b = blocks[tailBlock].next /\ k.localFront = k.tail
  BY <1>1 DEF QueueInv, ProducerInv
<1>5. Dist(k.localFront, k.tail, k.size) < k.size - 1
  BY <1>3, <1>4 DEF Dist, Indices
<1>6. /\ k2 \in Block /\ BlockOK(k2) /\ Count(k2) = Count(k) + 1
      /\ k2.next = k.next /\ k2.size = k.size /\ k2.front = k.front
      /\ k2.localFront = k.localFront /\ k2.localTail = k.localTail
      /\ \A f \in Nat, bare \in BOOLEAN :
            Holds(k, f, bare, f + Count(k)) /\ (bare => Count(k) > 0)
              => Holds(k2, f, bare, Nothing)
  BY <1>3, <1>5, TailAdvances
<1>7. blocks' = [blocks EXCEPT ![b] = k2]
  BY DEF AdvanceNextTail, After
<1> HIDE DEF k2
<1>8. /\ blocks' \in Seq(Block) /\ Len(blocks') = Len(blocks) /\ blocks'[b] = k2
      /\ \A c \in 1 .. Len(blocks) : c # b => blocks'[c] = blocks[c]
  BY <1>2, <1>3, <1>6, <1>7, OneBlock
<1>9. Linked' = Linked /\ FirstOut' = FirstOut
  BY <1>1, <1>8 DEF FirstOut, Linked
<1>10. RingInv(rank) /\ ElementsInv(rank, first)
  BY DEF QueueInv
<1>11. PICK first2 : first2 = [first EXCEPT ![b] = sent + 1]
  BY Zenon
<1>12. /\ first2 \in [1 .. Len(blocks) -> Nat] /\ first2[b] = sent + 1
       /\ \A c \in 1 .. Len(blocks) : c # b => first2[c] = first[c]
  BY <1>2, <1>3, <1>10, <1>11 DEF ElementsInv
<1>13. RingInv(rank)'
  <2>1. \A c \in 1 .. Linked : blocks'[c].next = blocks[c].next
    BY <1>6, <1>8, RingFacts
  <2> QED BY <1>1, <1>8, <1>9, <1>10, <2>1, Zenon DEF RingInv
<1>14. BlocksOK'
  BY <1>6, <1>8 DEF QueueInv, BlocksOK
<1>15. ElementsInv(rank, first2)'
  <2>1. \A c \in 1 .. Len(blocks) :
          /\ Bare(c)' = Bare(c)
          /\ Written(c) = IF c = b THEN sent + 1 ELSE Nothing
          /\ Written(c)' = Nothing
          /\ ~Entered(c) /\ (Entered(c)' <=> c = b)
    BY <1>1 DEF Entered, Bare, Written
  <2>2. ASSUME NEW c \in 1 .. Len(blocks)
        PROVE  Holds(blocks'[c], first2[c], Bare(c)', Written(c)')
    <3>1. Holds(blocks[c], first[c], Bare(c), Written(c))
      BY <1>10 DEF ElementsInv
    <3>2. CASE c # b
      BY <1>8, <1>12, <2>1, <3>1, <3>2
    <3>3. CASE c = b
      <4>1. Bare(c) = FALSE
        BY <1>2, <3>3 DEF Bare
      <4>2. \A i \in 0 .. k.size - 1 : ~(Dist(k.front, i, k.size) < Count(k))
        <5> SUFFICES ASSUME NEW i \in 0 .. k.size - 1
                     PROVE  ~(Dist(k.front, i, k.size) < Count(k))
          OBVIOUS
        <5>1. i \in Nat /\ i < k.size
          BY <1>3 DEF Indices
        <5>2. Dist(k.front, i, k.size) \in Nat
          BY <1>3, <5>1, DistIsNat, Zenon DEF Indices
        <5> QED BY <1>2, <5>2
      <4>3. Holds(k, sent + 1, FALSE, sent + 1)
        BY <2>1, <3>1, <3>3, <4>1, <4>2 DEF Holds
      <4>4. Holds(k2, sent + 1, FALSE, Nothing)
        <5>1. sent + 1 + Count(k) = sent + 1 /\ sent + 1 \in Nat
          BY <1>2, <1>3
        <5> QED BY <1>6, <4>3, <5>1, Zenon
      <4> QED BY <1>8, <1>12, <2>1, <3>3, <4>1, <4>4, Zenon
    <3> QED BY <3>2, <3>3
  <2>3. ASSUME NEW c \in 1 .. Linked
        PROVE  /\ rank[c] < rank[tailBlock] =>
                     first2[blocks'[c].next] = first2[c] + Count(blocks'[c])
               /\ 0 < rank[c] /\ rank[c] <= rank[tailBlock] => Count(blocks'[c]) > 0
               /\ rank[c] > rank[tailBlock] /\ c # b => Count(blocks'[c]) = 0
    <3>1. rank[c] \in Nat /\ rank[tailBlock] \in Nat /\ Linked \in Nat /\ c \in 1 .. Len(blocks)
          /\ blocks[c].next \in 1 .. Len(blocks) /\ rank[tailBlock] < Linked
      BY <1>10, RingFacts DEF RingInv
    <3>2. rank[c] <= rank[tailBlock] => c # b
      BY <1>2, <3>1
    <3>3. rank[c] < rank[tailBlock] => blocks[c].next # b
      <4>1. rank[c] < rank[tailBlock] => rank[c] + 1 < Linked
        BY <3>1
      <4>2. rank[c] < rank[tailBlock] => rank[blocks[c].next] = rank[c] + 1
        BY <1>10, <4>1 DEF RingInv
      <4> QED BY <1>2, <3>1, <4>2
    <3>4. CASE c = b
      BY <1>2, <3>1, <3>4
    <3>5. CASE c # b
      <4>1. blocks'[c] = blocks[c] /\ ~Entered(c) /\ first2[c] = first[c]
        BY <1>8, <1>12, <2>1, <3>1, <3>5
      <4>2. rank[c] < rank[tailBlock] => first2[blocks[c].next] = first[blocks[c].next]
        BY <1>12, <3>1, <3>3
      <4> QED BY <1>10, <4>1, <4>2 DEF ElementsInv
    <3> QED BY <3>4, <3>5
  <2>4. first2[tailBlock] + Count(blocks'[tailBlock]) = sent + 1
    BY <1>2, <1>8, <1>10, <1>12, RingFacts, Zenon DEF ElementsInv
  <2>5. first2[frontBlock] = FirstOut
    BY <1>2, <1>10, <1>12, RingFacts DEF ElementsInv
  <2>6. \A c \in 1 .. Linked' : rank[c] > rank[tailBlock'] /\ ~Entered(c)' => Count(blocks'[c]) = 0
    BY <1>1, <1>9, <2>1, <2>3, RingFacts, Zenon
  <2> QED BY <1>1, <1>8, <1>9, <1>12, <2>2, <2>3, <2>4, <2>5, <2>6, Zenon DEF ElementsInv
<1>16. ConsumerInv'
  BY <1>1, <1>2, <1>6, <1>8, ConsumerKept
<1>17. ProducerInv(rank, first2)'
  <2>1. blocks'[tailBlock].next = blocks[tailBlock].next
    BY <1>2, <1>8, RingFacts
  <2> QED BY <1>1, <1>2, <1>4, <1>6, <1>8, <1>12, <2>1, SMTT(30) DEF ProducerInv
<1>18. TypeInv'
  BY <1>1, <1>8, Zenon DEF QueueInv, TypeInv, Enqueuing
<1> QED BY <1>13, <1>14, <1>15, <1>16, <1>17, <1>18 DEF QueueInv

\* Publishing the next block as the tail block keeps the invariant.
LEMMA PublishTailBlockKeeps ==
  ASSUME NEW rank, NEW first, QueueInv(rank, first), PublishTailBlock
  PROVE  QueueInv(rank, first)'
<1> DEFINE b == tailBlockNext
<1>1. /\ blocks' = blocks /\ tailBlock' = b /\ frontBlock' = frontBlock /\ sent' = sent + 1
      /\ consumer' = consumer /\ delivered' = delivered /\ nextBlock' = nextBlock
      /\ largestBlockSize' = largestBlockSize /\ tailBlockNext' = Nothing
      /\ producer = "publish_block" /\ producer' = "signal"
  BY DEF PublishTailBlock, ProducerStep
<1>2. RingInv(rank) /\ ElementsInv(rank, first)
  BY DEF QueueInv
<1>3. b = blocks[tailBlock].next /\ rank[b] = rank[tailBlock] + 1
      /\ first[b] = sent + 1 /\ Count(blocks[b]) = 1
  BY <1>1 DEF QueueInv, ProducerInv
<1>4. b \in 1 .. Linked /\ b \in 1 .. Len(blocks) /\ b # frontBlock
      /\ sent \in Nat /\ rank[tailBlock] \in Nat
  BY <1>3, RingFacts, SMTT(30) DEF QueueInv, TypeInv
<1>5. Linked' = Linked /\ FirstOut' = FirstOut
  BY <1>1 DEF FirstOut, Linked
<1>6. RingInv(rank)'
  BY <1>1, <1>2, <1>4, <1>5 DEF RingInv
<1>7. BlocksOK'
  BY <1>1 DEF QueueInv, BlocksOK
<1>8. ElementsInv(rank, first)'
  <2>1. \A c \in 1 .. Len(blocks) :
          /\ Bare(c)' = Bare(c)
          /\ Written(c) = Nothing /\ Written(c)' = Nothing
          /\ ~Entered(c)' /\ (Entered(c) <=> c = b)
    BY <1>1 DEF Entered, Bare, Written
  <2>2. \A c \in 1 .. Len(blocks) : Holds(blocks'[c], first[c], Bare(c)', Written(c)')
    BY <1>1, <1>2, <2>1, Zenon DEF ElementsInv
  <2>3. ASSUME NEW c \in 1 .. Linked
        PROVE  /\ rank[c] < rank[b] => first[blocks[c].next] = first[c] + Count(blocks[c])
               /\ 0 < rank[c] /\ rank[c] <= rank[b] => Count(blocks[c]) > 0
               /\ rank[c] > rank[b] => Count(blocks[c]) = 0
    <3>1. rank[c] \in Nat /\ c \in 1 .. Len(blocks) /\ tailBlock \in 1 .. Linked
      BY RingFacts
    <3>2. CASE c = b
      BY <1>3, <1>4, <3>1, <3>2
    <3>3. CASE c = tailBlock
      BY <1>2, <1>3, <1>4, <3>1, <3>3 DEF ElementsInv
    <3>4. CASE c # b /\ c # tailBlock
      <4>1. rank[c] # rank[b] /\ rank[c] # rank[tailBlock]
        BY <1>2, <1>4, <3>1, <3>4 DEF RingInv
      <4>2. ~Entered(c)
        BY <2>1, <3>1, <3>4
      <4>3. (rank[c] < rank[b] => rank[c] < rank[tailBlock])
            /\ (rank[c] > rank[b] => rank[c] > rank[tailBlock])
        BY <1>3, <1>4, <3>1, <4>1
      <4> QED BY <1>2, <1>3, <1>4, <3>1, <4>1, <4>2, <4>3, SMTT(30) DEF ElementsInv
    <3> QED BY <3>2, <3>3, <3>4
  <2>4. first[b] + Count(blocks[b]) = sent' + 1
    BY <1>1, <1>3, <1>4
  <2> QED BY <1>1, <1>2, <1>5, <2>1, <2>2, <2>3, <2>4, Zenon DEF ElementsInv
<1>9. ConsumerInv'
  BY <1>1, <1>4, ConsumerKept
<1>10. ProducerInv(rank, first)'
  BY <1>1 DEF ProducerInv
<1>11. TypeInv'
  BY <1>1, <1>4 DEF QueueInv, TypeInv, Enqueuing, Nothing
<1> QED BY <1>6, <1>7, <1>8, <1>9, <1>10, <1>11 DEF QueueInv

\* A new block starts outside the ring, with its element in it.
LEMMA AllocateBlockKeeps ==
  ASSUME NEW rank, NEW first, QueueInv(rank, first), AllocateBlock
  PROVE  \E rank2, first2 : QueueInv(rank2, first2)'
<1> DEFINE n == Len(blocks)
           size == IF largestBlockSize >= MAX_BLOCK_SIZE THEN largestBlockSize
                                                         ELSE largestBlockSize * 2
<1>1. /\ tailBlock' = tailBlock /\ frontBlock' = frontBlock /\ sent' = sent
      /\ consumer' = consumer /\ delivered' = delivered /\ nextBlock' = nextBlock
      /\ largestBlockSize' = size /\ tailBlockNext' = n + 1
      /\ producer = "full" /\ producer' = "link"
  BY DEF AllocateBlock, ProducerStep
<1>2. size \in Nat /\ size >= 2 /\ sent + 1 \in Nat /\ sent \in Nat
  BY QueueAssumption DEF QueueInv, TypeInv
<1>3. /\ n \in Nat /\ Linked = n
      /\ frontBlock \in 1 .. n /\ tailBlock \in 1 .. n
      /\ \A c \in 1 .. n : blocks[c].next \in 1 .. n
      /\ blocks[tailBlock].next \in Nat
  BY <1>1, RingFacts DEF Linked
<1>4. PICK k : /\ k = [make_block(size) EXCEPT !.data[0] = sent + 1, !.tail = 1, !.localTail = 1,
                                               !.next = blocks[tailBlock].next]
               /\ k \in Block /\ BlockOK(k) /\ Count(k) = 1
               /\ k.next = blocks[tailBlock].next
               /\ Holds(k, sent + 1, FALSE, Nothing)
  <2> HIDE DEF size
  <2> QED BY <1>2, <1>3, NewBlock, ZenonT(40)
<1>5. blocks' = Append(blocks, k)
  BY <1>4 DEF AllocateBlock
<1>6. /\ blocks' \in Seq(Block) /\ Len(blocks') = n + 1 /\ blocks'[n + 1] = k
      /\ \A c \in 1 .. n : blocks'[c] = blocks[c]
  BY <1>4, <1>5, AddedElement DEF QueueInv, TypeInv
<1>7. Linked' = n /\ FirstOut' = FirstOut
  BY <1>1, <1>3, <1>6 DEF FirstOut, Linked
<1>8. RingInv(rank) /\ ElementsInv(rank, first)
  BY DEF QueueInv
<1>9. PICK rank2 : rank2 = [c \in 1 .. n + 1 |-> IF c = n + 1 THEN 0 ELSE rank[c]]
  BY Zenon
<1>10. PICK first2 : first2 = [c \in 1 .. n + 1 |-> IF c = n + 1 THEN sent + 1 ELSE first[c]]
  BY Zenon
<1>11. /\ rank2 \in [1 .. n + 1 -> Nat] /\ \A c \in 1 .. n : rank2[c] = rank[c]
       /\ first2 \in [1 .. n + 1 -> Nat] /\ \A c \in 1 .. n : first2[c] = first[c]
       /\ first2[n + 1] = sent + 1
  <2>1. \A c \in 1 .. n : rank[c] \in Nat /\ first[c] \in Nat
    BY <1>8 DEF RingInv, ElementsInv
  <2>2. \A c \in 1 .. n : c \in 1 .. n + 1 /\ c # n + 1
    BY <1>3
  <2>3. n + 1 \in 1 .. n + 1
    BY <1>3
  <2>4. \A c \in 1 .. n + 1 : c \in 1 .. n \/ c = n + 1
    <3> HIDE DEF n
    <3> QED BY <1>3
  <2>5. (\A c \in 1 .. n : rank2[c] = rank[c]) /\ rank2[n + 1] = 0
    BY <1>9, <2>2, <2>3
  <2>6. (\A c \in 1 .. n : first2[c] = first[c]) /\ first2[n + 1] = sent + 1
    BY <1>10, <2>2, <2>3
  <2>7. rank2 \in [1 .. n + 1 -> Nat]
    BY <1>9, <2>1, <2>4
  <2>8. first2 \in [1 .. n + 1 -> Nat]
    BY <1>2, <1>10, <2>1, <2>4
  <2> QED BY <2>5, <2>6, <2>7, <2>8
<1>12. RingInv(rank2)'
  <2>1. \A c \in 1 .. n :
          /\ rank2[c] < n
          /\ blocks'[c].next \in 1 .. n
          /\ rank2[c] + 1 < n => rank2[blocks'[c].next] = rank2[c] + 1
          /\ rank2[c] + 1 = n => blocks'[c].next = frontBlock
    BY <1>3, <1>6, <1>8, <1>11 DEF RingInv
  <2>2. \A c, d \in 1 .. n : rank2[c] = rank2[d] => c = d
    BY <1>3, <1>8, <1>11 DEF RingInv
  <2>3. rank2[frontBlock] = 0
    BY <1>3, <1>8, <1>11 DEF RingInv
  <2> QED BY <1>1, <1>3, <1>6, <1>7, <1>11, <2>1, <2>2, <2>3 DEF RingInv
<1>13. BlocksOK'
  BY <1>3, <1>4, <1>6 DEF QueueInv, BlocksOK
<1>14. ElementsInv(rank2, first2)'
  <2>1. ASSUME NEW c \in 1 .. n + 1
        PROVE  Holds(blocks'[c], first2[c], Bare(c)', Written(c)')
    <3>1. CASE c \in 1 .. n
      <4>1. Bare(c)' = Bare(c) /\ Written(c)' = Written(c)
        BY <1>1 DEF Bare, Written
      <4> QED BY <1>6, <1>8, <1>11, <3>1, <4>1 DEF ElementsInv
    <3>2. CASE c = n + 1
      <4>1. Bare(c)' = FALSE /\ Written(c)' = Nothing
        BY <1>1, <1>3, <3>2 DEF Bare, Written
      <4> QED BY <1>4, <1>6, <1>11, <3>2, <4>1, Zenon
    <3> QED BY <1>3, <3>1, <3>2, SMTT(30)
  <2>2. ASSUME NEW c \in 1 .. n
        PROVE  /\ rank2[c] < rank2[tailBlock] =>
                     first2[blocks'[c].next] = first2[c] + Count(blocks'[c])
               /\ 0 < rank2[c] /\ rank2[c] <= rank2[tailBlock] => Count(blocks'[c]) > 0
               /\ rank2[c] > rank2[tailBlock] => Count(blocks'[c]) = 0
    <3>1. ~Entered(c)
      BY <1>1 DEF Entered
    <3>2. /\ rank2[c] = rank[c] /\ rank2[tailBlock] = rank[tailBlock]
          /\ blocks'[c] = blocks[c] /\ first2[c] = first[c]
          /\ first2[blocks[c].next] = first[blocks[c].next]
      BY <1>3, <1>6, <1>11
    <3>3. /\ rank[c] < rank[tailBlock] => first[blocks[c].next] = first[c] + Count(blocks[c])
          /\ 0 < rank[c] /\ rank[c] <= rank[tailBlock] => Count(blocks[c]) > 0
          /\ rank[c] > rank[tailBlock] => Count(blocks[c]) = 0
      BY <1>3, <1>8, <3>1, Zenon DEF ElementsInv
    <3> QED BY <3>2, <3>3, Zenon
  <2>3. first2[tailBlock] + Count(blocks'[tailBlock]) = sent + 1 /\ first2[frontBlock] = FirstOut
    BY <1>3, <1>6, <1>8, <1>11 DEF ElementsInv
  <2> QED BY <1>1, <1>6, <1>7, <1>11, <2>1, <2>2, <2>3, Zenon DEF ElementsInv
<1>15. ConsumerInv'
  BY <1>1, <1>3, <1>6 DEF QueueInv, ConsumerInv
<1>16. ProducerInv(rank2, first2)'
  BY <1>1, <1>3, <1>4, <1>6, <1>11 DEF ProducerInv
<1>17. TypeInv'
  BY <1>1, <1>2, <1>3, <1>6 DEF QueueInv, TypeInv, Enqueuing
<1> QED BY <1>12, <1>13, <1>14, <1>15, <1>16, <1>17 DEF QueueInv

\* A block is put into the ring after block b.
LEMMA RankInserted ==
  ASSUME NEW n \in Nat, NEW rank, \A c \in 1 .. n : rank[c] \in Nat, NEW b \in 1 .. n,
         NEW rank2, rank2 = [c \in 1 .. n + 1 |->
                               IF c = n + 1 THEN rank[b] + 1
                               ELSE IF rank[c] > rank[b] THEN rank[c] + 1 ELSE rank[c]]
  PROVE  /\ rank2 \in [1 .. n + 1 -> Nat]
         /\ rank2[n + 1] = rank[b] + 1 /\ rank2[b] = rank[b]
         /\ \A c \in 1 .. n : rank[c] > rank[b] => rank2[c] = rank[c] + 1
         /\ \A c \in 1 .. n : rank[c] <= rank[b] => rank2[c] = rank[c]
<1>1. \A c \in 1 .. n : c \in 1 .. n + 1 /\ c # n + 1
  OBVIOUS
<1>2. n + 1 \in 1 .. n + 1
  OBVIOUS
<1>3. \A c \in 1 .. n + 1 : c \in 1 .. n \/ c = n + 1
  OBVIOUS
<1>4. rank2[n + 1] = rank[b] + 1
  BY <1>2
<1>5. \A c \in 1 .. n : rank2[c] = IF rank[c] > rank[b] THEN rank[c] + 1 ELSE rank[c]
  BY <1>1
<1>6. rank2 \in [1 .. n + 1 -> Nat]
  BY <1>3
<1>7. \A c \in 1 .. n : rank[c] <= rank[b] => rank2[c] = rank[c]
  BY <1>5
<1>8. \A c \in 1 .. n : rank[c] > rank[b] => rank2[c] = rank[c] + 1
  BY <1>5
<1> QED BY <1>4, <1>6, <1>7, <1>8

\* Linking the new block after the tail block shifts the ranks behind it.
LEMMA LinkBlockKeeps ==
  ASSUME NEW rank, NEW first, QueueInv(rank, first), LinkBlock
  PROVE  \E rank2 : QueueInv(rank2, first)'
<1> DEFINE b == tailBlock
           k == blocks[b]
           n == Linked
           k2 == [k EXCEPT !.next = n + 1]
<1>1. /\ tailBlock' = tailBlock /\ frontBlock' = frontBlock /\ sent' = sent
      /\ consumer' = consumer /\ delivered' = delivered /\ nextBlock' = nextBlock
      /\ largestBlockSize' = largestBlockSize /\ tailBlockNext' = tailBlockNext
      /\ producer = "link" /\ producer' = "publish_block"
  BY DEF LinkBlock, ProducerStep
<1>2. /\ n \in Nat /\ Len(blocks) = n + 1 /\ b \in 1 .. n /\ frontBlock \in 1 .. n
      /\ b \in 1 .. Len(blocks) /\ blocks \in Seq(Block) /\ k \in Block /\ BlockOK(k)
      /\ rank[frontBlock] = 0
  <2>1. Len(blocks) \in Nat /\ n = Len(blocks) - 1
    BY <1>1, RingFacts DEF Linked
  <2> QED BY <2>1, RingFacts, BlockTypes DEF QueueInv, TypeInv
<1>3. /\ tailBlockNext = n + 1 /\ blocks[n + 1].next = k.next
      /\ first[n + 1] = sent + 1 /\ Count(blocks[n + 1]) = 1
  BY <1>1, <1>2 DEF QueueInv, ProducerInv
<1>4. /\ k2 \in Block /\ k2.size = k.size /\ k2.front = k.front /\ k2.tail = k.tail
      /\ k2.data = k.data /\ k2.localFront = k.localFront /\ k2.localTail = k.localTail
      /\ k2.next = n + 1
  <2>1. n + 1 \in Nat
    BY <1>2
  <2> HIDE DEF n
  <2> QED BY <1>2, <2>1, Zenon DEF Block
<1>5. BlockOK(k2) /\ Count(k2) = Count(k)
      /\ \A f, bare, written : Holds(k, f, bare, written) => Holds(k2, f, bare, written)
  BY <1>2, <1>4, CopyRead, Zenon
<1>6. blocks' = [blocks EXCEPT ![b] = k2]
  BY <1>3 DEF LinkBlock
<1> HIDE DEF k2
<1>7. /\ blocks' \in Seq(Block) /\ Len(blocks') = Len(blocks) /\ blocks'[b] = k2
      /\ \A c \in 1 .. Len(blocks) : c # b => blocks'[c] = blocks[c]
  BY <1>2, <1>4, <1>6, OneBlock
<1>8. Linked' = n + 1 /\ FirstOut' = FirstOut
  BY <1>1, <1>2, <1>7 DEF FirstOut, Linked
<1>9. RingInv(rank) /\ ElementsInv(rank, first)
  BY DEF QueueInv
<1> HIDE DEF n
<1>10. /\ \A c \in 1 .. n : rank[c] \in Nat /\ rank[c] < n /\ blocks[c].next \in 1 .. n
       /\ \A c \in 1 .. n : rank[c] + 1 < n => rank[blocks[c].next] = rank[c] + 1
       /\ \A c \in 1 .. n : rank[c] + 1 = n => blocks[c].next = frontBlock
       /\ \A c, d \in 1 .. n : rank[c] = rank[d] => c = d
  BY <1>9, RingFacts DEF RingInv, n
<1>11. PICK rank2 : rank2 = [c \in 1 .. n + 1 |->
                               IF c = n + 1 THEN rank[b] + 1
                               ELSE IF rank[c] > rank[b] THEN rank[c] + 1 ELSE rank[c]]
  BY Zenon
<1>12. /\ rank2 \in [1 .. n + 1 -> Nat]
       /\ rank2[n + 1] = rank[b] + 1 /\ rank2[b] = rank[b]
       /\ \A c \in 1 .. n : rank[c] > rank[b] => rank2[c] = rank[c] + 1
       /\ \A c \in 1 .. n : rank[c] <= rank[b] => rank2[c] = rank[c]
       /\ \A c \in 1 .. n : rank[c] > rank[b] \/ rank[c] <= rank[b]
  BY <1>2, <1>10, <1>11, RankInserted, SMTT(30)
<1>13. RingInv(rank2)'
  <2>1. ASSUME NEW c \in 1 .. n + 1
        PROVE  /\ rank2[c] < n + 1
               /\ blocks'[c].next \in 1 .. n + 1
               /\ rank2[c] + 1 < n + 1 => rank2[blocks'[c].next] = rank2[c] + 1
               /\ rank2[c] + 1 = n + 1 => blocks'[c].next = frontBlock
    <3>1. CASE c = b
      <4>1. blocks'[c].next = n + 1
        BY <1>4, <1>7, <3>1
      <4>2. rank[b] < n /\ rank[b] \in Nat /\ n \in Nat
        BY <1>2, <1>10, Zenon
      <4>3. rank2[c] = rank[b] /\ rank2[n + 1] = rank[b] + 1
        BY <1>12, <3>1
      <4>4. rank[b] < n + 1 /\ n + 1 \in 1 .. n + 1 /\ rank[b] + 1 # n + 1
        BY <4>2
      <4> QED BY <4>1, <4>3, <4>4
    <3>2. CASE c = n + 1
      <4>1. blocks'[c].next = k.next
        BY <1>2, <1>3, <1>7, <3>2
      <4>2. rank[b] \in Nat /\ rank[b] < n /\ k.next \in 1 .. n /\ rank2[c] = rank[b] + 1
        BY <1>2, <1>10, <1>12, <3>2
      <4>3. rank[b] + 1 < n => rank[k.next] = rank[b] + 1
        BY <1>2, <1>10
      <4>4. rank[b] + 1 < n => rank2[k.next] = rank[b] + 1 + 1
        BY <1>12, <4>2, <4>3, SMTT(30)
      <4>5. rank[b] + 1 = n => k.next = frontBlock
        BY <1>2, <1>10
      <4> QED BY <1>2, <4>1, <4>2, <4>4, <4>5
    <3>3. CASE c \in 1 .. n /\ c # b
      <4>1. blocks'[c] = blocks[c] /\ rank[c] # rank[b] /\ rank[c] \in Nat /\ rank[b] \in Nat
            /\ rank[c] < n /\ rank[b] < n /\ blocks[c].next \in 1 .. n
        BY <1>2, <1>7, <1>10, <3>3, Zenon
      <4>2. CASE rank[c] < rank[b]
        <5>1. rank2[c] = rank[c] /\ rank[c] + 1 < n /\ rank[c] + 1 <= rank[b]
          <6>1. rank[c] <= rank[b] /\ rank[c] + 1 < n /\ rank[c] + 1 <= rank[b]
            BY <1>2, <4>1, <4>2, SMTT(30)
          <6> QED BY <1>12, <3>3, <6>1
        <5>2. rank[blocks[c].next] = rank[c] + 1
          BY <1>10, <3>3, <5>1
        <5>3. rank2[blocks[c].next] = rank[c] + 1
          BY <1>12, <4>1, <5>1, <5>2
        <5> QED BY <1>2, <4>1, <5>1, <5>3
      <4>3. CASE rank[c] > rank[b]
        <5>1. rank2[c] = rank[c] + 1
          BY <1>12, <3>3, <4>3
        <5>2. rank[c] + 1 < n => rank2[blocks[c].next] = rank[c] + 1 + 1
          <6>1. rank[c] + 1 < n => rank[blocks[c].next] = rank[c] + 1
            BY <1>10, <3>3
          <6>2. rank[c] + 1 < n => rank[blocks[c].next] > rank[b]
            BY <4>1, <4>3, <6>1
          <6> QED BY <1>12, <4>1, <6>1, <6>2, Zenon
        <5>3. rank[c] + 1 = n => blocks[c].next = frontBlock
          BY <1>10, <3>3
        <5>4. rank2[c] < n + 1
              /\ (rank2[c] + 1 < n + 1 => rank[c] + 1 < n) /\ (rank2[c] + 1 = n + 1 => rank[c] + 1 = n)
          BY <1>2, <4>1, <5>1
        <5>5. blocks[c].next \in 1 .. n + 1
          BY <1>2, <4>1
        <5> QED BY <4>1, <5>1, <5>2, <5>3, <5>4, <5>5
      <4> QED BY <4>1, <4>2, <4>3
    <3>4. c = n + 1 \/ c \in 1 .. n
      BY <1>2
    <3> QED BY <3>1, <3>2, <3>3, <3>4, Zenon
  <2>2. ASSUME NEW c \in 1 .. n + 1, NEW d \in 1 .. n + 1, rank2[c] = rank2[d]
        PROVE  c = d
    <3>1. ASSUME NEW e \in 1 .. n PROVE rank2[e] # rank[b] + 1
      <4>1. rank[e] \in Nat /\ rank[b] \in Nat
        BY <1>2, <1>10
      <4> QED BY <1>12, <4>1
    <3>2. CASE c = n + 1 \/ d = n + 1
      BY <1>2, <1>12, <2>2, <3>1, <3>2, SMTT(30)
    <3>3. CASE c \in 1 .. n /\ d \in 1 .. n
      <4>1. rank[c] = rank[d]
        <5>1. rank[c] \in Nat /\ rank[d] \in Nat /\ rank[b] \in Nat
          BY <1>2, <1>10, <3>3
        <5>2. (rank[c] > rank[b] => rank2[c] = rank[c] + 1) /\ (rank[d] > rank[b] => rank2[d] = rank[d] + 1)
              /\ (rank[c] <= rank[b] => rank2[c] = rank[c]) /\ (rank[d] <= rank[b] => rank2[d] = rank[d])
          BY <1>12, <3>3
        <5> QED BY <2>2, <5>1, <5>2
      <4> QED BY <1>10, <3>3, <4>1
    <3> QED BY <1>2, <3>2, <3>3
  <2>3. rank2[frontBlock] = 0 /\ frontBlock \in 1 .. n + 1 /\ b \in 1 .. n + 1
    BY <1>2, <1>10, <1>12, SMTT(30)
  <2> QED BY <1>1, <1>2, <1>7, <1>8, <1>12, <2>1, <2>2, <2>3, Zenon DEF RingInv
<1>14. BlocksOK'
  BY <1>5, <1>7 DEF QueueInv, BlocksOK
<1>15. ElementsInv(rank2, first)'
  <2>1. \A c \in 1 .. Len(blocks) :
          /\ Bare(c)' = Bare(c) /\ Written(c)' = Written(c)
          /\ ~Entered(c) /\ (Entered(c)' <=> c = n + 1)
    BY <1>1, <1>3 DEF Entered, Bare, Written
  <2>2. \A c \in 1 .. Len(blocks) : Holds(blocks'[c], first[c], Bare(c)', Written(c)')
    BY <1>5, <1>7, <1>9, <2>1, Zenon DEF ElementsInv
  <2>3. \A c \in 1 .. Len(blocks) : Count(blocks'[c]) = Count(blocks[c])
    BY <1>5, <1>7
  <2>4. \A c \in 1 .. n : (rank2[c] > rank2[b] <=> rank[c] > rank[b])
                          /\ (rank2[c] <= rank2[b] => rank2[c] = rank[c] /\ rank[c] <= rank[b])
                          /\ (rank2[c] < rank2[b] => rank[c] < rank[b])
    <3> SUFFICES ASSUME NEW c \in 1 .. n
                 PROVE  (rank2[c] > rank2[b] <=> rank[c] > rank[b])
                        /\ (rank2[c] <= rank2[b] => rank2[c] = rank[c] /\ rank[c] <= rank[b])
                        /\ (rank2[c] < rank2[b] => rank[c] < rank[b])
      OBVIOUS
    <3>1. rank[c] \in Nat /\ rank[b] \in Nat /\ rank2[b] = rank[b]
          /\ (rank[c] > rank[b] => rank2[c] = rank[c] + 1)
          /\ (rank[c] <= rank[b] => rank2[c] = rank[c])
      BY <1>2, <1>10, <1>12, Zenon
    <3> QED BY <3>1
  <2>5. rank2[n + 1] > rank2[b] /\ rank2[b] \in Nat
    BY <1>2, <1>10, <1>12, SMTT(30)
  <2>6. ASSUME NEW c \in 1 .. n
        PROVE  /\ rank2[c] < rank2[b] => first[blocks'[c].next] = first[c] + Count(blocks'[c])
               /\ 0 < rank2[c] /\ rank2[c] <= rank2[b] => Count(blocks'[c]) > 0
               /\ rank2[c] > rank2[b] => Count(blocks'[c]) = 0
    <3>1. c \in 1 .. Len(blocks) /\ ~Entered(c) /\ Count(blocks'[c]) = Count(blocks[c])
      <4>1. c \in 1 .. Len(blocks)
        BY <1>2
      <4> QED BY <2>1, <2>3, <4>1, Zenon
    <3>2. rank2[c] < rank2[b] => blocks'[c] = blocks[c]
      <4>1. rank2[c] < rank2[b] => c # b
        BY <2>5
      <4> QED BY <1>7, <3>1, <4>1, Zenon
    <3> QED BY <1>9, <2>4, <3>1, <3>2, Zenon DEF ElementsInv, n
  <2>7. ASSUME NEW c \in 1 .. Linked'
        PROVE  /\ rank2[c] < rank2[tailBlock'] =>
                     first[blocks'[c].next] = first[c] + Count(blocks'[c])
               /\ 0 < rank2[c] /\ rank2[c] <= rank2[tailBlock'] => Count(blocks'[c]) > 0
               /\ rank2[c] > rank2[tailBlock'] /\ ~Entered(c)' => Count(blocks'[c]) = 0
    <3>1. CASE c \in 1 .. n
      BY <1>1, <2>6, <3>1, Zenon
    <3>2. CASE c = n + 1
      <4>1. rank2[c] \in Nat
        BY <1>2, <1>12, <3>2
      <4>2. Entered(c)'
        BY <1>2, <2>1, <3>2
      <4> QED BY <1>1, <2>5, <3>2, <4>1, <4>2
    <3> QED BY <1>2, <1>8, <3>1, <3>2
  <2>8. first[b] + Count(blocks'[b]) = sent + 1
    BY <1>2, <1>9, <2>3 DEF ElementsInv
  <2> QED BY <1>1, <1>7, <1>8, <1>9, <2>2, <2>7, <2>8 DEF ElementsInv
<1>16. ConsumerInv'
  BY <1>1, <1>4, <1>5, <1>7, ConsumerKept, Zenon
<1>17. ProducerInv(rank2, first)'
  <2>1. blocks'[n + 1] = blocks[n + 1] /\ blocks'[b].next = n + 1 /\ rank2[b] = rank[b]
    <3>1. n + 1 \in 1 .. Len(blocks) /\ n + 1 # b
      BY <1>2
    <3> QED BY <1>4, <1>7, <1>12, <3>1, Zenon
  <2> QED BY <1>1, <1>3, <1>12, <2>1, Zenon DEF ProducerInv
<1>18. TypeInv'
  BY <1>1, <1>7 DEF QueueInv, TypeInv, Enqueuing
<1> QED BY <1>13, <1>14, <1>15, <1>16, <1>17, <1>18 DEF QueueInv

(***************************************************************************)
(* Recursive functions.                                                    *)
(***************************************************************************)
LOCAL INSTANCE WellFoundedInduction

\* Induction up to n, for a set T.
LEMMA UpTo ==
  ASSUME NEW n \in Nat, NEW T, 0 \in T, \A k \in 1 .. n : k - 1 \in T => k \in T
  PROVE  \A k \in 0 .. n : k \in T
<1> DEFINE U == {k \in Nat : k <= n /\ k \notin T}
<1> SUFFICES ASSUME U # {} PROVE FALSE
  OBVIOUS
<1>1. PICK k \in U : \A m \in U : ~(<<m, k>> \in OpToRel(<, Nat))
  BY NatLessThanWellFounded, WFMin, Zenon
<1>2. \A m \in U : ~(m < k)
  BY <1>1, Zenon DEF OpToRel
<1>3. k \in Nat /\ k <= n /\ k # 0 /\ k \notin T
  OBVIOUS
<1>4. k - 1 \in Nat /\ k - 1 <= n /\ k - 1 < k
  BY <1>3
<1>5. k - 1 \in T
  BY <1>2, <1>4
<1> QED BY <1>3, <1>5

\* A function from 0 .. n is given by its value at 0 and its step.
Follows(f, n, S, e, step) ==
    /\ f \in [0 .. n -> S]
    /\ f[0] = e
    /\ \A k \in 1 .. n : f[k] = step[<<k, f[k - 1]>>]

\* A function defined by a first value and a step exists up to every bound.
LEMMA RecursionExists ==
  ASSUME NEW n \in Nat, NEW S, NEW e \in S, NEW step \in [Nat \X S -> S]
  PROVE  \E f : Follows(f, n, S, e, step)
<1> DEFINE Is(m, f) == f[0] = e /\ \A k \in 1 .. m : f[k] = step[<<k, f[k - 1]>>]
           T == {m \in 0 .. n : \E f \in [0 .. m -> S] : Is(m, f)}
<1>1. 0 \in T
  <2> DEFINE f == [k \in 0 .. 0 |-> e]
  <2>1. f \in [0 .. 0 -> S] /\ f[0] = e
    OBVIOUS
  <2>2. Is(0, f)
    BY <2>1
  <2>3. 0 \in 0 .. n
    OBVIOUS
  <2> HIDE DEF f, Is
  <2> QED BY <2>1, <2>2, <2>3
<1>2. ASSUME NEW m \in 1 .. n, m - 1 \in T PROVE m \in T
  <2>1. PICK f \in [0 .. m - 1 -> S] : Is(m - 1, f)
    BY <1>2
  <2> DEFINE g == [k \in 0 .. m |-> IF k = m THEN step[<<m, f[m - 1]>>] ELSE f[k]]
  <2>2. f[m - 1] \in S /\ m \in Nat
    OBVIOUS
  <2>3. <<m, f[m - 1]>> \in Nat \X S
    BY <2>2
  <2>4. step[<<m, f[m - 1]>>] \in S
    BY <2>3
  <2>5. g \in [0 .. m -> S]
    BY <2>4
  <2>6. g[m] = step[<<m, f[m - 1]>>] /\ \A k \in 0 .. m - 1 : g[k] = f[k]
    OBVIOUS
  <2> HIDE DEF g
  <2>7. Is(m, g)
    <3>1. g[0] = e
      BY <2>1, <2>6
    <3>2. ASSUME NEW k \in 1 .. m PROVE g[k] = step[<<k, g[k - 1]>>]
      <4>1. g[k - 1] = f[k - 1]
        BY <2>6
      <4>2. CASE k = m
        BY <2>6, <4>1, <4>2
      <4>3. CASE k # m
        <5>1. k \in 1 .. m - 1 /\ k \in 0 .. m - 1
          BY <4>3
        <5>2. f[k] = step[<<k, f[k - 1]>>]
          BY <2>1, <5>1
        <5> QED BY <2>6, <4>1, <5>1, <5>2
      <4> QED BY <4>2, <4>3
    <3> QED BY <3>1, <3>2
  <2> QED BY <2>5, <2>7
<1>3. n \in 0 .. n
  OBVIOUS
<1> HIDE DEF T
<1>4. n \in T
  BY <1>1, <1>2, <1>3, UpTo
<1> QED BY <1>4 DEF T, Follows

\* A power of two that is large enough for two slots.
LEMMA PowerOfTwo ==
  ASSUME NEW x \in Nat, x >= 2
  PROVE  ceilToPow2(x) \in Nat /\ ceilToPow2(x) >= 2
<1> DEFINE F(f) == [k \in 0 .. x |->
                      IF k = 0 THEN 1
                      ELSE IF f[k - 1] < x THEN 2 * f[k - 1] ELSE f[k - 1]]
           power == CHOOSE f : f = F(f)
           step == [p \in Nat \X Nat |-> IF p[2] < x THEN 2 * p[2] ELSE p[2]]
<1>1. ceilToPow2(x) = power[x]
  BY DEF ceilToPow2
<1>2. step \in [Nat \X Nat -> Nat] /\ \A k, v \in Nat : step[<<k, v>>] = IF v < x THEN 2 * v ELSE v
  OBVIOUS
<1> HIDE DEF step
<1>3. PICK f : Follows(f, x, Nat, 1, step)
  BY <1>2, RecursionExists, Zenon
<1>4. f = F(f)
  <2>1. ASSUME NEW k \in 1 .. x PROVE f[k] = IF f[k - 1] < x THEN 2 * f[k - 1] ELSE f[k - 1]
    <3>1. k \in Nat /\ f[k - 1] \in Nat /\ f[k] = step[<<k, f[k - 1]>>]
      BY <1>3 DEF Follows
    <3> QED BY <1>2, <3>1
  <2>2. \A k \in 0 .. x : f[k] = F(f)[k]
    BY <1>3, <2>1 DEF Follows
  <2> QED BY <1>3, <2>2 DEF Follows
<1>5. power = F(power)
  BY <1>4, Zenon
<1> HIDE DEF power
<1>6. power[0] = 1 /\ \A k \in 1 .. x : power[k] = IF power[k - 1] < x THEN 2 * power[k - 1] ELSE power[k - 1]
  BY <1>5
<1> DEFINE T == {k \in 0 .. x : power[k] \in Nat /\ power[k] >= 1 /\ (k > 0 => power[k] >= 2)}
<1>7. 0 \in T
  BY <1>6
<1>8. ASSUME NEW k \in 1 .. x, k - 1 \in T PROVE k \in T
  <2> DEFINE v == power[k - 1]
             w == power[k]
  <2>1. v \in Nat /\ v >= 1 /\ (k - 1 > 0 => v >= 2) /\ k \in 0 .. x
    BY <1>8
  <2>2. w = IF v < x THEN 2 * v ELSE v
    BY <1>6
  <2> HIDE DEF v, w
  <2>3. w \in Nat /\ w >= 2
    BY <2>1, <2>2
  <2> QED BY <2>1, <2>3 DEF w
<1>9. x \in 0 .. x
  OBVIOUS
<1> HIDE DEF T
<1>10. x \in T
  BY <1>7, <1>8, <1>9, UpTo
<1> QED BY <1>1, <1>10 DEF T
=============================================================================
