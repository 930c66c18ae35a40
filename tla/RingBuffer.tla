----------------------------- MODULE RingBuffer -----------------------------
(***************************************************************************)
(* The lock-free ring buffer of src/core/ring_buffer.c.  Every load and    *)
(* store of a shared word is a step of its own, so calls of several        *)
(* threads interleave the way they do on the machine; comparisons of       *)
(* locals are part of the load that completes them.                        *)
(*                                                                         *)
(* `accepted' and `delivered' are history variables: the items of the last *)
(* enqueue and dequeue that succeeded.  `seen' records for a thread inside *)
(* ring_buffer_is_empty which of TRUE (empty) and FALSE (not empty) would  *)
(* have been a correct answer at some time since the call began.           *)
(***************************************************************************)
EXTENDS Naturals, FiniteSets, Sequences

CONSTANTS
    Producers,  \* threads that call ring_buffer_enqueue
    Consumers,  \* threads that call ring_buffer_dequeue
    Observers,  \* threads that call ring_buffer_is_empty
    Item,       \* the pointers that are enqueued
    NoItem,     \* NULL
    Capacity,   \* rb->capacity, after rounding up to a power of two
    MaxOps      \* bound: number of enqueue calls in a behaviour

ASSUME CapacityAssumption == Capacity \in Nat \ {0}
ASSUME MaxOpsAssumption == MaxOps \in Nat
ASSUME ItemAssumption == NoItem \notin Item
ASSUME ThreadsAssumption ==
    /\ Producers \cap Consumers = {}
    /\ Producers \cap Observers = {}
    /\ Consumers \cap Observers = {}

VARIABLES
    data,           \* rb->data
    head, tail,     \* rb->head, rb->tail
    enqueue_count, dequeue_count, overflow_count, peak_usage,
    pc,             \* where each thread is
    lhead, ltail,   \* the locals head and tail of each thread's call
    litem,          \* the local item of each thread's call
    calls,          \* number of enqueue calls made
    accepted, delivered, seen

shared == <<data, head, tail>>
stats == <<enqueue_count, dequeue_count, overflow_count, peak_usage>>
locals == <<pc, lhead, ltail, litem>>
history == <<calls, accepted, delivered, seen>>
vars == <<shared, stats, locals, history>>

Threads == Producers \cup Consumers \cup Observers
Index == 0 .. Capacity - 1

\* Fault: the index is not masked.
SuccUnmasked(i) == i + 1

\* (i + 1) & mask, with mask = capacity - 1 and capacity a power of two.
Succ(i) == (i + 1) % Capacity

\* The number of items between two positions, as enqueue and
\* ring_buffer_size compute it.
SizeOf(h, t) == IF h >= t THEN h - t ELSE Capacity - t + h

\* The position i places after position t.
Place(t, i) == IF t + i < Capacity THEN t + i ELSE t + i - Capacity

\* The items in the buffer, oldest first.
Contents == [i \in 1 .. SizeOf(head, tail) |-> data[Place(tail, i - 1)]]

-----------------------------------------------------------------------------
Init ==
    /\ data = [i \in Index |-> NoItem]
    /\ head = 0 /\ tail = 0
    /\ enqueue_count = 0 /\ dequeue_count = 0
    /\ overflow_count = 0 /\ peak_usage = 0
    /\ pc = [t \in Threads |-> "idle"]
    /\ lhead = [t \in Threads |-> 0]
    /\ ltail = [t \in Threads |-> 0]
    /\ litem = [t \in Threads |-> NoItem]
    /\ calls = 0
    /\ accepted = NoItem /\ delivered = NoItem
    /\ seen = [o \in Observers |-> {}]

Goto(t, label) == pc' = [pc EXCEPT ![t] = label]

\* The call returns and its locals are gone.
Return(t) ==
    /\ Goto(t, "idle")
    /\ lhead' = [lhead EXCEPT ![t] = 0]
    /\ ltail' = [ltail EXCEPT ![t] = 0]
    /\ litem' = [litem EXCEPT ![t] = NoItem]

\* What the observers inside a call have seen when head or tail moves.
Watch ==
    seen' = [o \in Observers |->
                IF pc[o] = "obs_tail" THEN seen[o] \cup {head' = tail'} ELSE seen[o]]

-----------------------------------------------------------------------------
\* ring_buffer_enqueue, one step per access to shared memory.

EnqueueLoadHead(p, x) ==
    /\ pc[p] = "idle"
    /\ calls < MaxOps
    /\ calls' = calls + 1
    /\ lhead' = [lhead EXCEPT ![p] = head]
    /\ litem' = [litem EXCEPT ![p] = x]
    /\ Goto(p, "enq_tail")
    /\ UNCHANGED <<shared, stats, ltail, accepted, delivered, seen>>

EnqueueLoadTail(p) ==
    /\ pc[p] = "enq_tail"
    /\ ltail' = [ltail EXCEPT ![p] = tail]
    /\ Goto(p, IF Succ(lhead[p]) = tail THEN "enq_full" ELSE "enq_store")
    /\ UNCHANGED <<shared, stats, lhead, litem, history>>

\* Fault: a refused item is not counted.
EnqueueFullUncounted(p) ==
    /\ pc[p] = "enq_full"
    /\ Return(p)
    /\ UNCHANGED <<shared, stats, history>>

EnqueueFull(p) ==
    /\ pc[p] = "enq_full"
    /\ overflow_count' = overflow_count + 1
    /\ Return(p)
    /\ UNCHANGED <<shared, enqueue_count, dequeue_count, peak_usage, history>>

\* Fault: the item goes into the slot after the head.
EnqueueStoreNext(p) ==
    /\ pc[p] = "enq_store"
    /\ data' = [data EXCEPT ![Succ(lhead[p])] = litem[p]]
    /\ Goto(p, "enq_publish")
    /\ UNCHANGED <<head, tail, stats, lhead, ltail, litem, history>>

EnqueueStore(p) ==
    /\ pc[p] = "enq_store"
    /\ data' = [data EXCEPT ![lhead[p]] = litem[p]]
    /\ Goto(p, "enq_publish")
    /\ UNCHANGED <<head, tail, stats, lhead, ltail, litem, history>>

EnqueuePublish(p) ==
    /\ pc[p] = "enq_publish"
    /\ head' = Succ(lhead[p])
    /\ accepted' = litem[p]
    /\ Goto(p, "enq_count")
    /\ UNCHANGED <<data, tail, stats, lhead, ltail, litem, calls, delivered>>
    /\ Watch

EnqueueCount(p) ==
    /\ pc[p] = "enq_count"
    /\ enqueue_count' = enqueue_count + 1
    /\ Goto(p, "enq_peak")
    /\ UNCHANGED <<shared, dequeue_count, overflow_count, peak_usage,
                   lhead, ltail, litem, history>>

\* Fault: the size is taken before the item was added.
EnqueuePeakBefore(p) ==
    LET size == SizeOf(lhead[p], ltail[p]) IN
    /\ pc[p] = "enq_peak"
    /\ peak_usage' = IF size > peak_usage THEN size ELSE peak_usage
    /\ Return(p)
    /\ UNCHANGED <<shared, enqueue_count, dequeue_count, overflow_count, history>>

\* The compare-and-swap loop leaves the larger of the two values.
EnqueuePeak(p) ==
    LET size == SizeOf(lhead[p], ltail[p]) + 1 IN
    /\ pc[p] = "enq_peak"
    /\ peak_usage' = IF size > peak_usage THEN size ELSE peak_usage
    /\ Return(p)
    /\ UNCHANGED <<shared, enqueue_count, dequeue_count, overflow_count, history>>

EnqueueStep(p) ==
    \/ EnqueueLoadTail(p) \/ EnqueueFull(p) \/ EnqueueStore(p)
    \/ EnqueuePublish(p) \/ EnqueueCount(p) \/ EnqueuePeak(p)

-----------------------------------------------------------------------------
\* ring_buffer_dequeue.

DequeueLoadHead(c) ==
    /\ pc[c] = "idle"
    /\ lhead' = [lhead EXCEPT ![c] = head]
    /\ Goto(c, "deq_tail")
    /\ UNCHANGED <<shared, stats, ltail, litem, history>>

DequeueEmpty(c) ==
    /\ pc[c] = "deq_tail"
    /\ lhead[c] = tail
    /\ Return(c)
    /\ UNCHANGED <<shared, stats, history>>

DequeueLoadTail(c) ==
    /\ pc[c] = "deq_tail"
    /\ lhead[c] # tail
    /\ ltail' = [ltail EXCEPT ![c] = tail]
    /\ Goto(c, "deq_read")
    /\ UNCHANGED <<shared, stats, lhead, litem, history>>

DequeueRead(c) ==
    /\ pc[c] = "deq_read"
    /\ litem' = [litem EXCEPT ![c] = data[ltail[c]]]
    /\ Goto(c, "deq_publish")
    /\ UNCHANGED <<shared, stats, lhead, ltail, history>>

DequeuePublish(c) ==
    /\ pc[c] = "deq_publish"
    /\ tail' = Succ(ltail[c])
    /\ delivered' = litem[c]
    /\ Goto(c, "deq_count")
    /\ UNCHANGED <<data, head, stats, lhead, ltail, litem, calls, accepted>>
    /\ Watch

DequeueCount(c) ==
    /\ pc[c] = "deq_count"
    /\ dequeue_count' = dequeue_count + 1
    /\ Return(c)
    /\ UNCHANGED <<shared, enqueue_count, overflow_count, peak_usage, history>>

DequeueStep(c) ==
    \/ DequeueEmpty(c) \/ DequeueLoadTail(c) \/ DequeueRead(c)
    \/ DequeuePublish(c) \/ DequeueCount(c)

-----------------------------------------------------------------------------
\* ring_buffer_is_empty; ring_buffer_size and ring_buffer_is_full load the
\* same two words in the same order.

\* Fault: the head of an earlier call is used again.
ObserveCachedHead(o) ==
    /\ pc[o] = "idle"
    /\ seen' = [seen EXCEPT ![o] = {head = tail}]
    /\ Goto(o, "obs_tail")
    /\ UNCHANGED <<shared, stats, lhead, ltail, litem, calls, accepted, delivered>>

ObserveLoadHead(o) ==
    /\ pc[o] = "idle"
    /\ lhead' = [lhead EXCEPT ![o] = head]
    /\ seen' = [seen EXCEPT ![o] = {head = tail}]
    /\ Goto(o, "obs_tail")
    /\ UNCHANGED <<shared, stats, ltail, litem, calls, accepted, delivered>>

ObserveLoadTail(o) ==
    /\ pc[o] = "obs_tail"
    /\ ltail' = [ltail EXCEPT ![o] = tail]
    /\ Goto(o, "obs_done")
    /\ UNCHANGED <<shared, stats, lhead, litem, history>>

\* The call returns lhead[o] = ltail[o].
ObserveReturn(o) ==
    /\ pc[o] = "obs_done"
    /\ seen' = [seen EXCEPT ![o] = {}]
    /\ Return(o)
    /\ UNCHANGED <<shared, stats, calls, accepted, delivered>>

-----------------------------------------------------------------------------
Next ==
    \/ \E p \in Producers :
          EnqueueStep(p) \/ \E x \in Item : EnqueueLoadHead(p, x)
    \/ \E c \in Consumers : DequeueLoadHead(c) \/ DequeueStep(c)
    \/ \E o \in Observers :
          ObserveLoadHead(o) \/ ObserveLoadTail(o) \/ ObserveReturn(o)

Spec == Init /\ [][Next]_vars

-----------------------------------------------------------------------------
\* Properties.

Labels == {"idle", "enq_tail", "enq_full", "enq_store", "enq_publish",
           "enq_count", "enq_peak", "deq_tail", "deq_read", "deq_publish",
           "deq_count", "obs_tail", "obs_done"}

\* Every variable has its type; in particular head and tail stay inside the
\* array that ring_buffer_create allocated.
TypeOK ==
    /\ data \in [Index -> Item \cup {NoItem}]
    /\ head \in Index /\ tail \in Index
    /\ enqueue_count \in Nat /\ dequeue_count \in Nat
    /\ overflow_count \in Nat /\ peak_usage \in Nat
    /\ pc \in [Threads -> Labels]
    /\ lhead \in [Threads -> Index]
    /\ ltail \in [Threads -> Index]
    /\ litem \in [Threads -> Item \cup {NoItem}]
    /\ calls \in Nat
    /\ accepted \in Item \cup {NoItem}
    /\ delivered \in Item \cup {NoItem}
    /\ seen \in [Observers -> SUBSET BOOLEAN]

\* The abstract queue the buffer implements; one slot of the array is kept
\* free to tell full from empty.
Queue == INSTANCE BoundedQueue WITH Limit <- Capacity - 1, queue <- Contents

\* With one producer and one consumer the buffer is a bounded FIFO queue:
\* ring_buffer_dequeue returns what ring_buffer_enqueue took, once each, in
\* order, although neither takes a lock.
ImplementsQueue == Queue!Spec

At(S, label) == Cardinality({t \in S : pc[t] = label})

\* ring_buffer_stats adds up: enqueued - dequeued is the number of items in
\* the buffer, give or take the calls that have moved head or tail and not
\* yet counted, and every call that returned was counted exactly once.
CountersBalance ==
    /\ enqueue_count + At(Producers, "enq_count") =
         dequeue_count + At(Consumers, "deq_count") + SizeOf(head, tail)
    /\ (\A p \in Producers : pc[p] = "idle") =>
         calls = enqueue_count + overflow_count

\* peak_usage is computed from a tail that may have moved since, but between
\* calls it is never below the number of items in the buffer and never above
\* what the buffer can hold.
PeakCoversUsage ==
    /\ (\A p \in Producers : pc[p] = "idle") => SizeOf(head, tail) <= peak_usage
    /\ peak_usage < Capacity

\* ring_buffer_is_empty answers false only if the buffer held an item at some
\* time during the call.
NonEmptyAnswerSound ==
    \A o \in Observers :
        pc[o] = "obs_done" /\ lhead[o] # ltail[o] => FALSE \in seen[o]

\* The indices stay inside the array, the statistics agree with what is queued
\* and the recorded peak covers it, in every interleaving of ring_buffer_enqueue
\* and ring_buffer_dequeue.
CountersSound == TypeOK /\ CountersBalance /\ PeakCoversUsage
=============================================================================
