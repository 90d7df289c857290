------------------------ MODULE LightweightSemaphore ------------------------
(***************************************************************************)
(* spsc_sema::LightweightSemaphore (readerwriterqueue/atomicops.h) as one  *)
(* producer and one consumer of a blocking queue use it.  A step is one    *)
(* atomic access: m_count by fetch_add, m_sema by sem_post and sem_wait.   *)
(* What a thread does next is in producer and consumer.                    *)
(***************************************************************************)
EXTENDS Integers

VARIABLES
    m_count,
    m_sema,      \* value of the POSIX semaphore
    producer,
    consumer,
    timeout      \* argument of the wait the consumer is in

semaVars == <<m_count, m_sema, producer, consumer, timeout>>

\* tryWait() alone, and wait() with a timeout of zero, more, and less than zero
Timeouts == {"none", "zero", "positive", "negative"}

SemaInit ==
    /\ m_count = 0
    /\ m_sema = 0
    /\ producer = "idle"
    /\ consumer = "idle"
    /\ timeout = "none"

(***************************************************************************)
(* The consumer.  TryWait reads m_count; a tryWait() that returns false    *)
(* changes nothing.                                                        *)
(***************************************************************************)
TryWait_Zero(t) ==
    /\ consumer = "idle"
    /\ \/ m_count >= 0 /\ consumer' = "acquire"
       \/ m_count < 0 /\ t # "none" /\ consumer' = "enter"
    /\ timeout' = t
    /\ UNCHANGED <<m_count, m_sema, producer>>

TryWait(t) ==
    /\ consumer = "idle"
    /\ \/ m_count > 0 /\ consumer' = "acquire"
       \/ m_count <= 0 /\ t # "none" /\ consumer' = "enter"
    /\ timeout' = t
    /\ UNCHANGED <<m_count, m_sema, producer>>

Acquire ==
    /\ consumer = "acquire"
    /\ m_count' = m_count - 1
    /\ consumer' = "dequeue"
    /\ UNCHANGED <<m_sema, producer, timeout>>

\* first lines of waitWithPartialSpinning
Enter ==
    /\ consumer = "enter"
    /\ m_count' = m_count - 1
    /\ consumer' = IF m_count > 0 THEN "dequeue"
                   ELSE IF timeout = "zero" THEN "restore" ELSE "blocked"
    /\ UNCHANGED <<m_sema, producer, timeout>>

Woken ==
    /\ consumer = "blocked"
    /\ m_sema > 0
    /\ m_sema' = m_sema - 1
    /\ consumer' = "dequeue"
    /\ UNCHANGED <<m_count, producer, timeout>>

\* a post may arrive at any time before the count is restored
TimedOut ==
    /\ consumer = "blocked"
    /\ timeout = "positive"
    /\ consumer' = "restore"
    /\ UNCHANGED <<m_count, m_sema, producer, timeout>>

Restore_Once ==
    /\ consumer = "restore"
    /\ m_count' = m_count + 1
    /\ consumer' = "idle"
    /\ UNCHANGED <<m_sema, producer, timeout>>

\* the loop after a timeout; wait() returns false if nobody has signalled
Restore ==
    /\ consumer = "restore"
    /\ m_count' = m_count + 1
    /\ consumer' = IF m_count < 0 THEN "idle" ELSE "retry"
    /\ UNCHANGED <<m_sema, producer, timeout>>

Retry_OffByOne ==
    /\ consumer = "retry"
    /\ m_count' = m_count - 1
    /\ consumer' = IF m_count > 1 THEN "try_wait" ELSE "restore"
    /\ UNCHANGED <<m_sema, producer, timeout>>

Retry ==
    /\ consumer = "retry"
    /\ m_count' = m_count - 1
    /\ consumer' = IF m_count > 0 THEN "try_wait" ELSE "restore"
    /\ UNCHANGED <<m_sema, producer, timeout>>

SemTryWait ==
    /\ consumer = "try_wait"
    /\ \/ m_sema > 0 /\ m_sema' = m_sema - 1 /\ consumer' = "dequeue"
       \/ m_sema = 0 /\ m_sema' = m_sema /\ consumer' = "restore"
    /\ UNCHANGED <<m_count, producer, timeout>>

ConsumerWaits ==
    \/ Acquire \/ Enter \/ Woken \/ TimedOut
    \/ Restore \/ Retry \/ SemTryWait

(***************************************************************************)
(* The producer: signal().                                                 *)
(***************************************************************************)
Signal ==
    /\ producer = "signal"
    /\ m_count' = m_count + 1
    /\ producer' = IF m_count < 0 THEN "post" ELSE "idle"
    /\ UNCHANGED <<m_sema, consumer, timeout>>

Post ==
    /\ producer = "post"
    /\ m_sema' = m_sema + 1
    /\ producer' = "idle"
    /\ UNCHANGED <<m_count, consumer, timeout>>

ProducerSignals == Signal \/ Post
=============================================================================
