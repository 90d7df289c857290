--------------------------- MODULE BlockingQueue ----------------------------
(***************************************************************************)
(* BlockingReaderWriterQueue (readerwriterqueue/readerwriterqueue.h): a    *)
(* queue that is enqueued to before its semaphore is signalled and         *)
(* dequeued from after the semaphore was acquired.  The inner queue is a   *)
(* sequence here; ReaderWriterQueue has its blocks.  The elements are      *)
(* numbered in the order of the calls of enqueue.                          *)
(***************************************************************************)
EXTENDS LightweightSemaphore, Sequences

CONSTANT MaxElements     \* bound on the calls of enqueue

VARIABLES
    queue,
    sent,        \* number of elements enqueued
    delivered    \* history: what try_dequeue and wait_dequeue_timed returned

vars == <<semaVars, queue, sent, delivered>>

Init ==
    /\ SemaInit
    /\ queue = <<>>
    /\ sent = 0
    /\ delivered = <<>>

Enqueue ==
    /\ producer = "idle"
    /\ sent < MaxElements
    /\ sent' = sent + 1
    /\ queue' = Append(queue, sent + 1)
    /\ producer' = "signal"
    /\ UNCHANGED <<m_count, m_sema, consumer, timeout, delivered>>

\* inner.try_dequeue; the code asserts that it succeeds
Dequeue ==
    /\ consumer = "dequeue"
    /\ queue # <<>>
    /\ delivered' = Append(delivered, Head(queue))
    /\ queue' = Tail(queue)
    /\ consumer' = "idle"
    /\ UNCHANGED <<m_count, m_sema, producer, timeout, sent>>

Next ==
    \/ Enqueue
    \/ Dequeue
    \/ (ProducerSignals \/ ConsumerWaits \/ \E t \in Timeouts : TryWait(t))
       /\ UNCHANGED <<queue, sent, delivered>>

Spec == Init /\ [][Next]_vars

(***************************************************************************)
(* Properties.                                                             *)
(***************************************************************************)
\* A consumer that got past the semaphore finds an element, so the assert
\* on the result of inner.try_dequeue holds: a timeout that races with a
\* signal never lets one signal count twice.
DequeueSucceeds ==
    consumer = "dequeue" => queue # <<>>

\* At a signal the count is at least -1 (the assert in signal()): the one
\* consumer is waiting at most once, also while it undoes a timed out wait.
AtMostOneWaiter ==
    producer = "signal" => m_count >= -1

\* No wakeup is left over and none is missing: the POSIX semaphore and the
\* post under way are due exactly to a consumer that was counted as waiting
\* when it was signalled.
WakeupsMatch ==
    m_sema + (IF producer = "post" THEN 1 ELSE 0)
      = IF \/ consumer \in {"blocked", "restore", "try_wait"} /\ m_count >= 0
           \/ consumer = "retry"
        THEN 1 ELSE 0

=============================================================================
