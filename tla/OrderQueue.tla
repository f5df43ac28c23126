---------------------------- MODULE OrderQueue ----------------------------
(***************************************************************************)
(* The producer/consumer of src/order-queue/main.cpp.  The producer       *)
(* pushes MESSAGES_COUNT orders, one per lock of the mutex; the consumer  *)
(* busy-polls: it takes the mutex, and either finds msg_queue empty and   *)
(* lets the lock go (continue ends the unique_lock's scope) or pops the    *)
(* front order.  No thread waits on cv, so notify_one has no effect.      *)
(* Orders are abstracted to their seqno; timestamps and logging are left  *)
(* out.                                                                   *)
(***************************************************************************)
EXTENDS Naturals, Sequences

CONSTANTS
  Messages,  \* MESSAGES_COUNT
  None       \* the mutex is free

VARIABLES
  queue,     \* msg_queue: the seqnos in it, front first
  holder,    \* who holds mutex: "producer", "consumer" or None
  ppc,       \* the producer's place: "lock", "push" or "done"
  sent,      \* the producer's loop counter i
  cpc,       \* the consumer's place: "lock", "take" or "done"
  count,     \* count_recieved
  received   \* history: the seqnos the consumer has logged, in order

vars == <<queue, holder, ppc, sent, cpc, count, received>>

Init ==
  /\ queue = <<>>
  /\ holder = None
  /\ ppc = IF Messages > 0 THEN "lock" ELSE "done"
  /\ sent = 0
  /\ cpc = IF Messages > 0 THEN "lock" ELSE "done"
  /\ count = 0
  /\ received = <<>>

\* std::unique_lock<std::mutex> lock(mutex) in the producer's block
ProducerLock ==
  /\ ppc = "lock" /\ holder = None
  /\ holder' = "producer"
  /\ ppc' = "push"
  /\ UNCHANGED <<queue, sent, cpc, count, received>>

\* fault variant: the for loop runs while i <= MESSAGES_COUNT
ProducerPushOffByOne ==
  /\ ppc = "push"
  /\ queue' = Append(queue, sent)
  /\ holder' = None
  /\ sent' = sent + 1
  /\ ppc' = IF sent + 1 <= Messages THEN "lock" ELSE "done"
  /\ UNCHANGED <<cpc, count, received>>

\* msg_queue.push_back(order); cv.notify_one(); the block ends and the
\* lock is released; the for loop goes on with i + 1
ProducerPush ==
  /\ ppc = "push"
  /\ queue' = Append(queue, sent)
  /\ holder' = None
  /\ sent' = sent + 1
  /\ ppc' = IF sent + 1 < Messages THEN "lock" ELSE "done"
  /\ UNCHANGED <<cpc, count, received>>

\* while (count_recieved < MESSAGES_COUNT) { std::unique_lock lock(mutex);
ConsumerLock ==
  /\ cpc = "lock" /\ holder = None
  /\ holder' = "consumer"
  /\ cpc' = "take"
  /\ UNCHANGED <<queue, ppc, sent, count, received>>

\* fault variant: the order is logged from the back of the queue
ConsumerTakeBack ==
  /\ cpc = "take"
  /\ holder' = None
  /\ IF queue = <<>>
     THEN UNCHANGED <<queue, count, received>> /\ cpc' = "lock"
     ELSE /\ queue' = Tail(queue)
          /\ count' = count + 1
          /\ received' = Append(received, queue[Len(queue)])
          /\ cpc' = IF count + 1 < Messages THEN "lock" ELSE "done"
  /\ UNCHANGED <<ppc, sent>>

\* fault variant: count_recieved is not incremented
ConsumerTakeNoCount ==
  /\ cpc = "take"
  /\ holder' = None
  /\ IF queue = <<>>
     THEN UNCHANGED <<queue, received>> /\ cpc' = "lock"
     ELSE /\ queue' = Tail(queue)
          /\ received' = Append(received, Head(queue))
          /\ cpc' = "lock"
  /\ UNCHANGED <<ppc, sent, count>>

\* if (msg_queue.empty()) continue; otherwise front(), pop_front(),
\* count_recieved++ and the log of order.seqno; the lock goes with the
\* iteration's scope
ConsumerTake ==
  /\ cpc = "take"
  /\ holder' = None
  /\ IF queue = <<>>
     THEN UNCHANGED <<queue, count, received>> /\ cpc' = "lock"
     ELSE /\ queue' = Tail(queue)
          /\ count' = count + 1
          /\ received' = Append(received, Head(queue))
          /\ cpc' = IF count + 1 < Messages THEN "lock" ELSE "done"
  /\ UNCHANGED <<ppc, sent>>

Next == ProducerLock \/ ProducerPush \/ ConsumerLock \/ ConsumerTake

\* Both are OS threads the scheduler keeps running: a step a thread can
\* take and keeps being able to take is eventually taken (weak fairness).
\* std::mutex promises no more: the consumer's polling loop takes and
\* releases the mutex over and over, so the producer's ProducerLock is
\* enabled only intermittently and may never be taken.
Spec ==
  /\ Init /\ [][Next]_vars
  /\ WF_vars(ProducerPush) /\ WF_vars(ConsumerTake)
  /\ WF_vars(ProducerLock) /\ WF_vars(ConsumerLock)

-----------------------------------------------------------------------------
TypeOK ==
  /\ queue \in Seq(0..Messages - 1)
  /\ holder \in {"producer", "consumer", None}
  /\ ppc \in {"lock", "push", "done"} /\ cpc \in {"lock", "take", "done"}
  /\ sent \in 0..Messages /\ count \in 0..Messages
  /\ received \in Seq(0..Messages - 1)

(* Orders reach the consumer exactly once and in the order the producer *)
(* sent them: the consumer has logged seqnos 0 .. count-1, the queue     *)
(* holds the next ones, and nothing sent is lost or duplicated.          *)
FifoDelivery ==
  /\ received = [k \in 1..count |-> k - 1]
  /\ queue = [k \in 1..Len(queue) |-> count + k - 1]
  /\ sent = count + Len(queue)

(* Once the producer's loop has pushed its last order, the consumer's    *)
(* while (count_recieved < MESSAGES_COUNT) loop takes every order left   *)
(* in msg_queue and exits, so consumer.join() in main returns: the       *)
(* counter the loop tests reaches MESSAGES_COUNT exactly.                *)
DrainsAfterProducer == (ppc = "done") ~> (cpc = "done" /\ queue = <<>>)

(* Both threads finish.  This needs the producer to win the mutex        *)
(* against the polling consumer, which weak fairness does not promise:   *)
(* MC_queue_weak.cfg shows the consumer starving the producer.           *)
Termination == <>(ppc = "done" /\ cpc = "done")
=============================================================================
