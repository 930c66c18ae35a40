-------------------------- MODULE RingBuffer_proofs --------------------------
(***************************************************************************)
(* The ring buffer for every capacity, set of items and number of calls.   *)
(* Type correctness holds for any number of threads.  The other results    *)
(* are about one producer and one consumer, the use include/ring_buffer.h  *)
(* allows, beside any number of observers.                                 *)
(***************************************************************************)
EXTENDS RingBuffer, TLAPS

\* Time limits of the provers, in seconds.
USE SMTT(30), ZenonT(30)

-----------------------------------------------------------------------------
\* Positions in the array and the distance between them.

\* The mask keeps an index inside the array.
LEMMA SuccIndex ==
    ASSUME NEW i \in Index
    PROVE  /\ Succ(i) \in Index
           /\ Succ(i) = IF i + 1 = Capacity THEN 0 ELSE i + 1
  BY CapacityAssumption DEF Index, Succ

\* The distance between two positions, and when it is zero.
LEMMA SizeRange ==
    ASSUME NEW h \in Index, NEW t \in Index
    PROVE  /\ SizeOf(h, t) \in 0 .. Capacity - 1
           /\ SizeOf(h, t) = 0 <=> h = t
           /\ SizeOf(h, t) + 1 < Capacity <=> Succ(h) # t
  <1>1. Succ(h) = IF h + 1 = Capacity THEN 0 ELSE h + 1
    BY SuccIndex
  <1> QED
    BY <1>1, CapacityAssumption DEF Index, SizeOf

\* Moving the head adds one item, moving the tail removes one.
LEMMA SizeEnqueue ==
    ASSUME NEW h \in Index, NEW t \in Index, Succ(h) # t
    PROVE  SizeOf(Succ(h), t) = SizeOf(h, t) + 1
  <1>1. Succ(h) = IF h + 1 = Capacity THEN 0 ELSE h + 1
    BY SuccIndex
  <1> QED
    BY <1>1, CapacityAssumption DEF Index, SizeOf

\* The same for the tail.
LEMMA SizeDequeue ==
    ASSUME NEW h \in Index, NEW t \in Index, h # t
    PROVE  SizeOf(h, Succ(t)) = SizeOf(h, t) - 1
  <1>1. Succ(t) = IF t + 1 = Capacity THEN 0 ELSE t + 1
    BY SuccIndex
  <1> QED
    BY <1>1, CapacityAssumption DEF Index, SizeOf

\* The places of the items: between tail and head, never the head itself.
LEMMA PlaceIndex ==
    ASSUME NEW h \in Index, NEW t \in Index, NEW i \in 0 .. SizeOf(h, t) - 1
    PROVE  /\ Place(t, i) \in Index
           /\ Place(t, i) # h
  <1>1. SizeOf(h, t) \in 0 .. Capacity - 1
    BY SizeRange
  <1> QED
    BY <1>1, CapacityAssumption DEF Index, SizeOf, Place

\* The first place is the tail and the place after the last one is the head.
LEMMA PlaceEnds ==
    ASSUME NEW h \in Index, NEW t \in Index
    PROVE  Place(t, 0) = t /\ Place(t, SizeOf(h, t)) = h
  BY CapacityAssumption DEF Index, SizeOf, Place

\* Moving the tail moves every place by one.
LEMMA PlaceShift ==
    ASSUME NEW h \in Index, NEW t \in Index, h # t, NEW i \in 0 .. SizeOf(h, t) - 2
    PROVE  Place(Succ(t), i) = Place(t, i + 1)
  <1>1. Succ(t) = IF t + 1 = Capacity THEN 0 ELSE t + 1
    BY SuccIndex
  <1>2. SizeOf(h, t) \in 0 .. Capacity - 1
    BY SizeRange
  <1> QED
    BY <1>1, <1>2, CapacityAssumption DEF Index, Place

-----------------------------------------------------------------------------
\* Type correctness, for any number of threads of each kind.

\* An empty buffer has its type.
LEMMA InitType == Init => TypeOK
  BY CapacityAssumption DEF Init, TypeOK, Index, Labels

\* Every step of every thread keeps it.
LEMMA NextType == TypeOK /\ [Next]_vars => TypeOK'
  <1> SUFFICES ASSUME TypeOK, [Next]_vars PROVE TypeOK'
    OBVIOUS
  <1> USE DEF TypeOK, shared, stats, history, Goto, Return, Labels, Threads
  <1>0. 0 \in Index
    BY CapacityAssumption DEF Index
  <1>1. ASSUME NEW p \in Producers, NEW x \in Item, EnqueueLoadHead(p, x) PROVE TypeOK'
    BY <1>1 DEF EnqueueLoadHead
  <1>2. ASSUME NEW p \in Producers, EnqueueLoadTail(p) PROVE TypeOK'
    BY <1>2 DEF EnqueueLoadTail
  <1>3. ASSUME NEW p \in Producers, EnqueueFull(p) PROVE TypeOK'
    BY <1>0, <1>3 DEF EnqueueFull
  <1>4. ASSUME NEW p \in Producers, EnqueueStore(p) PROVE TypeOK'
    BY <1>4 DEF EnqueueStore
  <1>5. ASSUME NEW p \in Producers, EnqueuePublish(p) PROVE TypeOK'
    <2>1. head' \in Index
      BY <1>5, SuccIndex DEF EnqueuePublish
    <2> QED
      BY <1>5, <2>1, Zenon DEF EnqueuePublish, Watch
  <1>6. ASSUME NEW p \in Producers, EnqueueCount(p) PROVE TypeOK'
    BY <1>6 DEF EnqueueCount
  <1>7. ASSUME NEW p \in Producers, EnqueuePeak(p) PROVE TypeOK'
    <2>1. SizeOf(lhead[p], ltail[p]) + 1 \in Nat
      BY SizeRange
    <2> QED
      BY <1>0, <1>7, <2>1 DEF EnqueuePeak
  <1>8. ASSUME NEW c \in Consumers, DequeueLoadHead(c) PROVE TypeOK'
    BY <1>8 DEF DequeueLoadHead
  <1>9. ASSUME NEW c \in Consumers, DequeueLoadTail(c) PROVE TypeOK'
    BY <1>9 DEF DequeueLoadTail
  <1>10. ASSUME NEW c \in Consumers, DequeueRead(c) PROVE TypeOK'
    BY <1>10 DEF DequeueRead
  <1>11. ASSUME NEW c \in Consumers, DequeuePublish(c) PROVE TypeOK'
    <2>1. tail' \in Index
      BY <1>11, SuccIndex DEF DequeuePublish
    <2> QED
      BY <1>11, <2>1, Zenon DEF DequeuePublish, Watch
  <1>12. ASSUME NEW c \in Consumers, DequeueCount(c) PROVE TypeOK'
    BY <1>0, <1>12 DEF DequeueCount
  <1>13. ASSUME NEW o \in Observers,
                ObserveLoadHead(o) \/ ObserveLoadTail(o) \/ ObserveReturn(o)
         PROVE  TypeOK'
    <2>1. CASE ObserveLoadHead(o)
      <3>1. (head = tail) \in BOOLEAN
        OBVIOUS
      <3>2. seen' \in [Observers -> SUBSET BOOLEAN]
        BY <2>1, <3>1, Zenon DEF ObserveLoadHead
      <3> QED
        BY <2>1, <3>2 DEF ObserveLoadHead
    <2>2. CASE ObserveLoadTail(o)
      BY <2>2 DEF ObserveLoadTail
    <2>3. CASE ObserveReturn(o)
      BY <1>0, <2>3 DEF ObserveReturn
    <2> QED
      BY <1>13, <2>1, <2>2, <2>3
  <1>14. CASE UNCHANGED vars
    BY <1>14 DEF vars, locals
  <1>15. ASSUME NEW c \in Consumers, DequeueEmpty(c) PROVE TypeOK'
    BY <1>0, <1>15 DEF DequeueEmpty
  <1> QED
    BY <1>1, <1>2, <1>3, <1>4, <1>5, <1>6, <1>7, <1>8, <1>9, <1>10, <1>11,
       <1>12, <1>13, <1>14, <1>15, Zenon DEF Next, EnqueueStep, DequeueStep

\* head, tail and every copy of them stay inside the array, whatever threads
\* call the ring buffer and however they interleave.
THEOREM TypeCorrect == Spec => []TypeOK
  BY InitType, NextType, PTL DEF Spec

-----------------------------------------------------------------------------
\* ring_buffer_is_empty, for any number of threads of each kind.

\* What an observer has seen between its two loads.  As long as it has seen the
\* buffer empty only, head has not moved since the observer loaded it and tail
\* is still equal to it.
Watched(o) ==
    /\ pc[o] = "obs_tail" /\ (head # tail \/ lhead[o] # head) => FALSE \in seen[o]
    /\ pc[o] = "obs_done" /\ lhead[o] # ltail[o] => FALSE \in seen[o]

\* The inductive invariant of the observers.
AllWatched == \A o \in Observers : Watched(o)

\* A publication by any producer or consumer is seen by the observers that are
\* between their loads, and moves head and tail apart or leaves both equal to
\* the head the observer has loaded.
LEMMA PublishWatched ==
    ASSUME NEW t \in Producers \cup Consumers, NEW o \in Observers,
           TypeOK, Watched(o), Watch,
           head' = head \/ tail' = tail,
           \E label \in {"enq_count", "deq_count"} : Goto(t, label),
           UNCHANGED <<lhead, ltail>>
    PROVE  Watched(o)'
  <1>1. pc'[o] = pc[o]
    BY ThreadsAssumption DEF TypeOK, Threads, Goto
  <1>2. CASE pc[o] = "obs_tail"
    <2>1. seen'[o] = seen[o] \cup {head' = tail'}
      BY <1>2, Zenon DEF Watch
    <2>2. seen[o] \subseteq seen'[o]
      BY <2>1
    <2>3. head' # tail' => FALSE \in seen'[o]
      <3> SUFFICES ASSUME head' # tail' PROVE FALSE \in seen'[o]
        BY Zenon
      <3>1. (head' = tail') = FALSE
        BY Zenon
      <3> QED
        BY <2>1, <3>1, Zenon
    <2>4. FALSE \notin seen'[o] => head' = tail' /\ lhead[o] = head'
      BY <1>2, <2>2, <2>3, Zenon DEF Watched
    <2> QED
      BY <1>1, <1>2, <2>4, Zenon DEF Watched
  <1>3. CASE pc[o] # "obs_tail"
    <2>1. seen'[o] = seen[o]
      BY <1>3, Zenon DEF Watch
    <2> QED
      BY <1>1, <1>3, <2>1, Zenon DEF Watched
  <1> QED
    BY <1>2, <1>3

\* Any other step of a producer or a consumer changes nothing an observer has
\* loaded or seen.
LEMMA OtherWatched ==
    ASSUME NEW t \in Producers \cup Consumers, NEW o \in Observers,
           TypeOK, Watched(o),
           \E label \in Labels : Goto(t, label),
           lhead' = lhead \/ \E i \in Index : lhead' = [lhead EXCEPT ![t] = i],
           ltail' = ltail \/ \E i \in Index : ltail' = [ltail EXCEPT ![t] = i],
           UNCHANGED <<head, tail, seen>>
    PROVE  Watched(o)'
  <1>1. t # o
    BY ThreadsAssumption
  <1>2. pc'[o] = pc[o] /\ lhead'[o] = lhead[o] /\ ltail'[o] = ltail[o]
    BY <1>1 DEF TypeOK, Threads, Goto
  <1> QED
    BY <1>2, Zenon DEF Watched

\* The steps of ring_buffer_is_empty itself.
LEMMA ObserveWatched ==
    ASSUME NEW q \in Observers, NEW o \in Observers, TypeOK, Watched(o),
           ObserveLoadHead(q) \/ ObserveLoadTail(q) \/ ObserveReturn(q)
    PROVE  Watched(o)'
  <1> USE DEF shared, Goto, Return, history
  <1>1. CASE q # o
    <2>1. /\ pc'[o] = pc[o] /\ lhead'[o] = lhead[o] /\ ltail'[o] = ltail[o]
          /\ UNCHANGED <<head, tail>>
      BY <1>1 DEF TypeOK, Threads, ObserveLoadHead, ObserveLoadTail, ObserveReturn
    <2>2. seen'[o] = seen[o]
      BY <1>1, Zenon DEF TypeOK, ObserveLoadHead, ObserveLoadTail, ObserveReturn
    <2> QED
      BY <2>1, <2>2, Zenon DEF Watched
  <1>2. CASE q = o /\ ObserveLoadHead(o)
    <2>1. pc'[o] = "obs_tail" /\ lhead'[o] = head /\ UNCHANGED <<head, tail>>
      BY <1>2 DEF TypeOK, Threads, ObserveLoadHead
    <2>2. seen'[o] = {head = tail}
      BY <1>2, Zenon DEF TypeOK, ObserveLoadHead
    <2>3. head # tail => FALSE \in seen'[o]
      <3> SUFFICES ASSUME head # tail PROVE FALSE \in seen'[o]
        BY Zenon
      <3>1. (head = tail) = FALSE
        BY Zenon
      <3> QED
        BY <2>2, <3>1, Zenon
    <2> QED
      BY <2>1, <2>3, Zenon DEF Watched
  <1>3. CASE q = o /\ ObserveLoadTail(o)
    <2>1. /\ pc[o] = "obs_tail" /\ pc'[o] = "obs_done"
          /\ lhead'[o] = lhead[o] /\ ltail'[o] = tail /\ seen' = seen
      BY <1>3 DEF TypeOK, Threads, ObserveLoadTail
    <2> QED
      BY <2>1, Zenon DEF Watched
  <1>4. CASE q = o /\ ObserveReturn(o)
    <2>1. pc'[o] = "idle"
      BY <1>4 DEF TypeOK, Threads, ObserveReturn
    <2> QED
      BY <2>1 DEF Watched
  <1> QED
    BY <1>1, <1>2, <1>3, <1>4

\* Every step of every thread keeps the invariant of the observers.
LEMMA NextWatched == TypeOK /\ AllWatched /\ [Next]_vars => AllWatched'
  <1> SUFFICES ASSUME TypeOK, AllWatched, [Next]_vars, NEW o \in Observers
               PROVE  Watched(o)'
    BY DEF AllWatched
  <1>0. Watched(o) /\ 0 \in Index /\ head \in Index /\ tail \in Index
    BY CapacityAssumption DEF AllWatched, Index, TypeOK
  <1> USE DEF shared, history, Goto, Return, Labels
  <1>1. ASSUME NEW p \in Producers,
               EnqueueStep(p) \/ \E x \in Item : EnqueueLoadHead(p, x)
        PROVE  Watched(o)'
    <2>1. CASE EnqueuePublish(p)
      <3>1. Goto(p, "enq_count") /\ Watch /\ tail' = tail /\ UNCHANGED <<lhead, ltail>>
        BY <2>1 DEF EnqueuePublish
      <3> HIDE DEF Goto
      <3> QED
        BY <1>0, <3>1, PublishWatched
    <2>2. CASE ~EnqueuePublish(p)
      <3>1. /\ \E label \in Labels : Goto(p, label)
            /\ lhead' = lhead \/ \E i \in Index : lhead' = [lhead EXCEPT ![p] = i]
            /\ ltail' = ltail \/ \E i \in Index : ltail' = [ltail EXCEPT ![p] = i]
            /\ UNCHANGED <<head, tail, seen>>
        BY <1>0, <1>1, <2>2 DEF EnqueueStep, EnqueueLoadHead, EnqueueLoadTail, EnqueueFull,
                                EnqueueStore, EnqueueCount, EnqueuePeak
      <3> HIDE DEF Goto, Labels
      <3> QED
        BY <1>0, <3>1, OtherWatched
    <2> QED
      BY <2>1, <2>2
  <1>2. ASSUME NEW c \in Consumers, DequeueLoadHead(c) \/ DequeueStep(c)
        PROVE  Watched(o)'
    <2>1. CASE DequeuePublish(c)
      <3>1. Goto(c, "deq_count") /\ Watch /\ head' = head /\ UNCHANGED <<lhead, ltail>>
        BY <2>1 DEF DequeuePublish
      <3> HIDE DEF Goto
      <3> QED
        BY <1>0, <3>1, PublishWatched
    <2>2. CASE ~DequeuePublish(c)
      <3>1. /\ \E label \in Labels : Goto(c, label)
            /\ lhead' = lhead \/ \E i \in Index : lhead' = [lhead EXCEPT ![c] = i]
            /\ ltail' = ltail \/ \E i \in Index : ltail' = [ltail EXCEPT ![c] = i]
            /\ UNCHANGED <<head, tail, seen>>
        BY <1>0, <1>2, <2>2 DEF DequeueStep, DequeueLoadHead, DequeueEmpty, DequeueLoadTail,
                                DequeueRead, DequeueCount
      <3> HIDE DEF Goto, Labels
      <3> QED
        BY <1>0, <3>1, OtherWatched
    <2> QED
      BY <2>1, <2>2
  <1>3. ASSUME NEW q \in Observers,
               ObserveLoadHead(q) \/ ObserveLoadTail(q) \/ ObserveReturn(q)
        PROVE  Watched(o)'
    BY <1>0, <1>3, ObserveWatched
  <1>4. CASE UNCHANGED vars
    BY <1>0, <1>4, Zenon DEF vars, locals, Watched
  <1> QED
    BY <1>1, <1>2, <1>3, <1>4 DEF Next

\* When ring_buffer_is_empty answers false, the buffer held an item at some time
\* during the call, although the two loads are not one step and any number of
\* producers and consumers move the positions between them.
THEOREM NonEmptyAnswerTrue == Spec => []NonEmptyAnswerSound
  <1>1. Init => AllWatched
    BY DEF Init, AllWatched, Watched, Threads
  <1>2. AllWatched => NonEmptyAnswerSound
    BY Zenon DEF AllWatched, Watched, NonEmptyAnswerSound
  <1> QED
    BY <1>1, <1>2, NextWatched, TypeCorrect, PTL DEF Spec

-----------------------------------------------------------------------------
\* One producer and one consumer.

EnqueueLabels == {"idle", "enq_tail", "enq_full", "enq_store", "enq_publish",
                  "enq_count", "enq_peak"}
DequeueLabels == {"idle", "deq_tail", "deq_read", "deq_publish", "deq_count"}

\* What each side knows between its loads and its store of the position it
\* owns, although the other side's position moves: the producer's slot is the
\* head and it is free, the consumer's slot is the tail and it is occupied.
Protocol(p, c) ==
    /\ TypeOK
    /\ pc[p] \in EnqueueLabels /\ pc[c] \in DequeueLabels
    /\ pc[p] \in {"enq_tail", "enq_full", "enq_store", "enq_publish"} =>
         lhead[p] = head /\ litem[p] \in Item
    /\ pc[p] \in {"enq_store", "enq_publish"} => Succ(head) # tail
    /\ pc[p] = "enq_publish" => data[head] = litem[p]
    /\ pc[c] = "deq_tail" /\ lhead[c] # tail => head # tail
    /\ pc[c] \in {"deq_read", "deq_publish"} => ltail[c] = tail /\ head # tail
    /\ pc[c] = "deq_publish" => litem[c] = data[tail]

Flag(b) == IF b THEN 1 ELSE 0

\* The counters, with the calls that have moved a position and not counted.
Counted(p, c) ==
    /\ enqueue_count + Flag(pc[p] = "enq_count")
         = dequeue_count + Flag(pc[c] = "deq_count") + SizeOf(head, tail)
    /\ calls = enqueue_count + overflow_count
         + Flag(pc[p] \in {"enq_tail", "enq_full", "enq_store", "enq_publish", "enq_count"})

\* The size the producer will compute covers the present one, because the
\* tail it has loaded can only have advanced.
Peaked(p) ==
    /\ peak_usage < Capacity
    /\ pc[p] \in {"enq_store", "enq_publish", "enq_count", "enq_peak"} =>
         SizeOf(lhead[p], ltail[p]) + 1 < Capacity
    /\ pc[p] \notin {"enq_count", "enq_peak"} => SizeOf(head, tail) <= peak_usage
    /\ pc[p] \in {"enq_store", "enq_publish"} =>
         SizeOf(head, tail) <= SizeOf(lhead[p], ltail[p])
    /\ pc[p] \in {"enq_count", "enq_peak"} =>
         SizeOf(head, tail) <= SizeOf(lhead[p], ltail[p]) + 1

\* A buffer nobody uses yet satisfies the invariant of the two threads.
LEMMA InitProtocol ==
    ASSUME NEW P \in Producers, NEW C \in Consumers, Init
    PROVE  Protocol(P, C) /\ Counted(P, C) /\ Peaked(P)
  <1>1. TypeOK
    BY InitType
  <1>2. SizeOf(head, tail) = 0
    BY <1>1, SizeRange DEF Init, TypeOK
  <1>3. pc[P] = "idle" /\ pc[C] = "idle"
    BY DEF Init, Threads
  <1> QED
    BY <1>1, <1>2, <1>3, CapacityAssumption
       DEF Init, Protocol, Counted, Peaked, Flag, EnqueueLabels, DequeueLabels

\* A step of one producer, of one consumer or of an observer.
StepOf(p, c) ==
    \/ \E x \in Item : EnqueueLoadHead(p, x)
    \/ EnqueueLoadTail(p) \/ EnqueueFull(p) \/ EnqueueStore(p)
    \/ EnqueuePublish(p) \/ EnqueueCount(p) \/ EnqueuePeak(p)
    \/ DequeueLoadHead(c) \/ DequeueEmpty(c) \/ DequeueLoadTail(c)
    \/ DequeueRead(c) \/ DequeuePublish(c) \/ DequeueCount(c)
    \/ \E o \in Observers :
          ObserveLoadHead(o) \/ ObserveLoadTail(o) \/ ObserveReturn(o)
    \/ UNCHANGED vars

\* With one thread on each side every step is such a step.
LEMMA StepCases ==
    ASSUME NEW P, NEW C, Producers = {P}, Consumers = {C}, [Next]_vars
    PROVE  StepOf(P, C)
  BY Zenon DEF Next, EnqueueStep, DequeueStep, StepOf

\* Every step of enqueue, of dequeue and of an observer keeps it.
LEMMA NextProtocol ==
    ASSUME NEW P \in Producers, NEW C \in Consumers, Protocol(P, C), StepOf(P, C)
    PROVE  /\ Protocol(P, C)'
           /\ Counted(P, C) => Counted(P, C)'
           /\ Peaked(P) => Peaked(P)'
  <1>0. /\ P # C /\ P \in Threads /\ C \in Threads
        /\ \A o \in Observers : o # P /\ o # C
    BY ThreadsAssumption DEF Threads
  <1>1. TypeOK /\ TypeOK'
    <2>1. [Next]_vars
      BY Zenon DEF StepOf, Next, EnqueueStep, DequeueStep
    <2> QED
      BY <2>1, NextType, Zenon DEF Protocol
  <1>2. /\ SizeOf(head, tail) \in 0 .. Capacity - 1
        /\ SizeOf(head, tail) = 0 <=> head = tail
        /\ SizeOf(head, tail) + 1 < Capacity <=> Succ(head) # tail
        /\ Succ(head) # tail => SizeOf(Succ(head), tail) = SizeOf(head, tail) + 1
        /\ head # tail => SizeOf(head, Succ(tail)) = SizeOf(head, tail) - 1
    BY <1>1, SizeRange, SizeEnqueue, SizeDequeue DEF TypeOK
  <1>3. /\ head \in Index /\ tail \in Index /\ Capacity \in Nat
        /\ enqueue_count \in Nat /\ dequeue_count \in Nat /\ overflow_count \in Nat
        /\ peak_usage \in Nat /\ calls \in Nat
        /\ SizeOf(lhead[P], ltail[P]) \in Nat
    BY <1>0, <1>1, SizeRange, CapacityAssumption DEF TypeOK
  <1> USE DEF shared, stats, history, Goto, Return
  <1>4. CASE \E x \in Item : EnqueueLoadHead(P, x)
    <2> PICK x \in Item : EnqueueLoadHead(P, x)
      BY <1>4
    <2>1. /\ pc[P] = "idle" /\ pc'[P] = "enq_tail" /\ pc'[C] = pc[C]
          /\ UNCHANGED <<data, head, tail, enqueue_count, dequeue_count, overflow_count, peak_usage, ltail>>
          /\ lhead'[P] = head /\ lhead'[C] = lhead[C]
          /\ litem'[P] = x /\ litem'[C] = litem[C]
          /\ calls' = calls + 1
      BY <1>0, <1>1 DEF EnqueueLoadHead, TypeOK
    <2>2. Protocol(P, C)'
      BY <1>1, <2>1 DEF Protocol, EnqueueLabels, DequeueLabels
    <2>3. Counted(P, C) => Counted(P, C)'
      BY <1>2, <1>3, <2>1 DEF Counted, Flag
    <2>4. Peaked(P) => Peaked(P)'
      BY <1>2, <1>3, <2>1 DEF Peaked
    <2> QED
      BY <2>2, <2>3, <2>4
  <1>5. CASE EnqueueLoadTail(P)
    <2>0. lhead[P] = head
      BY <1>5 DEF EnqueueLoadTail, Protocol
    <2>1. /\ pc[P] = "enq_tail" /\ pc'[P] = (IF Succ(lhead[P]) = tail THEN "enq_full" ELSE "enq_store") /\ pc'[C] = pc[C]
          /\ UNCHANGED <<data, head, tail, enqueue_count, dequeue_count, overflow_count, peak_usage, calls, lhead, litem>>
          /\ ltail'[P] = tail /\ ltail'[C] = ltail[C]
      BY <1>0, <1>1, <1>5 DEF EnqueueLoadTail, TypeOK
    <2>2. Protocol(P, C)'
      BY <1>1, <2>1 DEF Protocol, EnqueueLabels, DequeueLabels
    <2>3. Counted(P, C) => Counted(P, C)'
      BY <1>2, <1>3, <2>1 DEF Counted, Flag
    <2>4. Peaked(P) => Peaked(P)'
      BY <1>2, <1>3, <2>0, <2>1 DEF Peaked
    <2> QED
      BY <2>2, <2>3, <2>4
  <1>6. CASE EnqueueFull(P)
    <2>1. /\ pc[P] = "enq_full" /\ pc'[P] = "idle" /\ pc'[C] = pc[C]
          /\ UNCHANGED <<data, head, tail, enqueue_count, dequeue_count, peak_usage, calls>>
          /\ lhead'[P] = 0 /\ lhead'[C] = lhead[C]
          /\ ltail'[P] = 0 /\ ltail'[C] = ltail[C]
          /\ litem'[P] = NoItem /\ litem'[C] = litem[C]
          /\ overflow_count' = overflow_count + 1
      BY <1>0, <1>1, <1>6 DEF EnqueueFull, TypeOK
    <2>2. Protocol(P, C)'
      BY <1>1, <2>1 DEF Protocol, EnqueueLabels, DequeueLabels
    <2>3. Counted(P, C) => Counted(P, C)'
      BY <1>2, <1>3, <2>1 DEF Counted, Flag
    <2>4. Peaked(P) => Peaked(P)'
      BY <1>2, <1>3, <2>1 DEF Peaked
    <2> QED
      BY <2>2, <2>3, <2>4
  <1>7. CASE EnqueueStore(P)
    <2>1. /\ pc[P] = "enq_store" /\ pc'[P] = "enq_publish" /\ pc'[C] = pc[C]
          /\ UNCHANGED <<head, tail, enqueue_count, dequeue_count, overflow_count, peak_usage, calls, lhead, ltail, litem>>
          /\ lhead[P] = head => data'[head] = litem[P]
          /\ lhead[P] = head /\ head # tail => data'[tail] = data[tail]
      BY <1>0, <1>1, <1>7 DEF EnqueueStore, TypeOK
    <2>2. Protocol(P, C)'
      BY <1>1, <2>1 DEF Protocol, EnqueueLabels, DequeueLabels
    <2>3. Counted(P, C) => Counted(P, C)'
      BY <1>2, <1>3, <2>1 DEF Counted, Flag
    <2>4. Peaked(P) => Peaked(P)'
      BY <1>2, <1>3, <2>1 DEF Peaked
    <2> QED
      BY <2>2, <2>3, <2>4
  <1>8. CASE EnqueuePublish(P)
    <2>0. lhead[P] = head /\ Succ(head) # tail
      BY <1>8 DEF EnqueuePublish, Protocol
    <2>1. /\ pc[P] = "enq_publish" /\ pc'[P] = "enq_count" /\ pc'[C] = pc[C]
          /\ UNCHANGED <<data, tail, enqueue_count, dequeue_count, overflow_count, peak_usage, calls, lhead, ltail, litem>>
          /\ head' = Succ(lhead[P])
      BY <1>0, <1>1, <1>8 DEF EnqueuePublish, TypeOK
    <2>2. Protocol(P, C)'
      BY <1>1, <2>1 DEF Protocol, EnqueueLabels, DequeueLabels
    <2>3. Counted(P, C) => Counted(P, C)'
      BY <1>2, <1>3, <2>0, <2>1 DEF Counted, Flag
    <2>4. Peaked(P) => Peaked(P)'
      BY <1>2, <1>3, <2>0, <2>1 DEF Peaked
    <2> QED
      BY <2>2, <2>3, <2>4
  <1>9. CASE EnqueueCount(P)
    <2>1. /\ pc[P] = "enq_count" /\ pc'[P] = "enq_peak" /\ pc'[C] = pc[C]
          /\ UNCHANGED <<data, head, tail, dequeue_count, overflow_count, peak_usage, calls, lhead, ltail, litem>>
          /\ enqueue_count' = enqueue_count + 1
      BY <1>0, <1>1, <1>9 DEF EnqueueCount, TypeOK
    <2>2. Protocol(P, C)'
      BY <1>1, <2>1 DEF Protocol, EnqueueLabels, DequeueLabels
    <2>3. Counted(P, C) => Counted(P, C)'
      BY <1>2, <1>3, <2>1 DEF Counted, Flag
    <2>4. Peaked(P) => Peaked(P)'
      BY <1>2, <1>3, <2>1 DEF Peaked
    <2> QED
      BY <2>2, <2>3, <2>4
  <1>10. CASE EnqueuePeak(P)
    <2>1. /\ pc[P] = "enq_peak" /\ pc'[P] = "idle" /\ pc'[C] = pc[C]
          /\ UNCHANGED <<data, head, tail, enqueue_count, dequeue_count, overflow_count, calls>>
          /\ lhead'[P] = 0 /\ lhead'[C] = lhead[C]
          /\ ltail'[P] = 0 /\ ltail'[C] = ltail[C]
          /\ litem'[P] = NoItem /\ litem'[C] = litem[C]
          /\ peak_usage' = LET size == SizeOf(lhead[P], ltail[P]) + 1
                           IN  IF size > peak_usage THEN size ELSE peak_usage
      BY <1>0, <1>1, <1>10 DEF EnqueuePeak, TypeOK
    <2>2. Protocol(P, C)'
      BY <1>1, <2>1 DEF Protocol, EnqueueLabels, DequeueLabels
    <2>3. Counted(P, C) => Counted(P, C)'
      BY <1>2, <1>3, <2>1 DEF Counted, Flag
    <2>4. Peaked(P) => Peaked(P)'
      BY <1>2, <1>3, <2>1 DEF Peaked
    <2> QED
      BY <2>2, <2>3, <2>4
  <1>11. CASE DequeueLoadHead(C)
    <2>1. /\ pc[C] = "idle" /\ pc'[C] = "deq_tail" /\ pc'[P] = pc[P]
          /\ UNCHANGED <<data, head, tail, enqueue_count, dequeue_count, overflow_count, peak_usage, calls, ltail, litem>>
          /\ lhead'[C] = head /\ lhead'[P] = lhead[P]
      BY <1>0, <1>1, <1>11 DEF DequeueLoadHead, TypeOK
    <2>2. Protocol(P, C)'
      BY <1>1, <2>1 DEF Protocol, EnqueueLabels, DequeueLabels
    <2>3. Counted(P, C) => Counted(P, C)'
      BY <1>2, <1>3, <2>1 DEF Counted, Flag
    <2>4. Peaked(P) => Peaked(P)'
      BY <1>2, <1>3, <2>1 DEF Peaked
    <2> QED
      BY <2>2, <2>3, <2>4
  <1>12. CASE DequeueLoadTail(C)
    <2>1. /\ pc[C] = "deq_tail" /\ lhead[C] # tail /\ pc'[C] = "deq_read" /\ pc'[P] = pc[P]
          /\ UNCHANGED <<data, head, tail, enqueue_count, dequeue_count, overflow_count, peak_usage, calls, lhead, litem>>
          /\ ltail'[C] = tail /\ ltail'[P] = ltail[P]
      BY <1>0, <1>1, <1>12 DEF DequeueLoadTail, TypeOK
    <2>2. Protocol(P, C)'
      BY <1>1, <2>1 DEF Protocol, EnqueueLabels, DequeueLabels
    <2>3. Counted(P, C) => Counted(P, C)'
      BY <1>2, <1>3, <2>1 DEF Counted, Flag
    <2>4. Peaked(P) => Peaked(P)'
      BY <1>2, <1>3, <2>1 DEF Peaked
    <2> QED
      BY <2>2, <2>3, <2>4
  <1>13. CASE DequeueRead(C)
    <2>1. /\ pc[C] = "deq_read" /\ pc'[C] = "deq_publish" /\ pc'[P] = pc[P]
          /\ UNCHANGED <<data, head, tail, enqueue_count, dequeue_count, overflow_count, peak_usage, calls, lhead, ltail>>
          /\ litem'[C] = data[ltail[C]] /\ litem'[P] = litem[P]
      BY <1>0, <1>1, <1>13 DEF DequeueRead, TypeOK
    <2>2. Protocol(P, C)'
      BY <1>1, <2>1, Zenon DEF Protocol, EnqueueLabels, DequeueLabels
    <2>3. Counted(P, C) => Counted(P, C)'
      BY <1>2, <1>3, <2>1 DEF Counted, Flag
    <2>4. Peaked(P) => Peaked(P)'
      BY <1>2, <1>3, <2>1 DEF Peaked
    <2> QED
      BY <2>2, <2>3, <2>4
  <1>14. CASE DequeuePublish(C)
    <2>1. head # tail /\ tail' = Succ(tail) /\ pc[C] = "deq_publish"
      BY <1>14 DEF DequeuePublish, Protocol
    <2>2. Succ(head) # tail' /\ SizeOf(head, tail') = SizeOf(head, tail) - 1
      BY <1>2, <1>3, <2>1, SuccIndex DEF Index
    <2>3. /\ pc'[P] = pc[P] /\ pc'[C] = "deq_count"
          /\ UNCHANGED <<head, data, lhead, ltail, litem, stats, calls>>
      BY <1>0, <1>1, <1>14 DEF DequeuePublish, TypeOK
    <2>4. Protocol(P, C)'
      BY <1>1, <2>2, <2>3 DEF Protocol, EnqueueLabels, DequeueLabels
    <2>5. Counted(P, C) => Counted(P, C)'
      BY <1>2, <1>3, <2>1, <2>2, <2>3 DEF Counted, Flag
    <2>6. Peaked(P) => Peaked(P)'
      BY <1>2, <1>3, <2>2, <2>3 DEF Peaked
    <2> QED
      BY <2>4, <2>5, <2>6
  <1>15. CASE DequeueCount(C)
    <2>1. /\ pc[C] = "deq_count" /\ pc'[C] = "idle" /\ pc'[P] = pc[P]
          /\ UNCHANGED <<data, head, tail, enqueue_count, overflow_count, peak_usage, calls>>
          /\ lhead'[C] = 0 /\ lhead'[P] = lhead[P]
          /\ ltail'[C] = 0 /\ ltail'[P] = ltail[P]
          /\ litem'[C] = NoItem /\ litem'[P] = litem[P]
          /\ dequeue_count' = dequeue_count + 1
      BY <1>0, <1>1, <1>15 DEF DequeueCount, TypeOK
    <2>2. Protocol(P, C)'
      BY <1>1, <2>1 DEF Protocol, EnqueueLabels, DequeueLabels
    <2>3. Counted(P, C) => Counted(P, C)'
      BY <1>2, <1>3, <2>1 DEF Counted, Flag
    <2>4. Peaked(P) => Peaked(P)'
      BY <1>2, <1>3, <2>1 DEF Peaked
    <2> QED
      BY <2>2, <2>3, <2>4
  <1>16. CASE \E o \in Observers :
                 ObserveLoadHead(o) \/ ObserveLoadTail(o) \/ ObserveReturn(o)
    <2>1. /\ pc'[P] = pc[P] /\ pc'[C] = pc[C]
          /\ lhead'[P] = lhead[P] /\ lhead'[C] = lhead[C]
          /\ ltail'[P] = ltail[P] /\ ltail'[C] = ltail[C]
          /\ litem'[P] = litem[P] /\ litem'[C] = litem[C]
          /\ UNCHANGED <<shared, stats, calls>>
      BY <1>0, <1>1, <1>16 DEF ObserveLoadHead, ObserveLoadTail, ObserveReturn, TypeOK
    <2>2. Protocol(P, C)'
      BY <1>1, <2>1 DEF Protocol
    <2>3. Counted(P, C) => Counted(P, C)'
      BY <2>1, Zenon DEF Counted
    <2>4. Peaked(P) => Peaked(P)'
      BY <2>1, Zenon DEF Peaked
    <2> QED
      BY <2>2, <2>3, <2>4
  <1>17. CASE UNCHANGED vars
    <2>1. UNCHANGED <<data, head, tail, enqueue_count, dequeue_count, overflow_count,
                      peak_usage, pc, lhead, ltail, litem, calls>>
      BY <1>17 DEF vars, locals
    <2>2. Protocol(P, C)'
      BY <1>1, <2>1 DEF Protocol
    <2>3. Counted(P, C) => Counted(P, C)'
      BY <2>1 DEF Counted
    <2>4. Peaked(P) => Peaked(P)'
      BY <2>1 DEF Peaked
    <2> QED
      BY <2>2, <2>3, <2>4
  <1>18. CASE DequeueEmpty(C)
    <2>1. /\ pc[C] = "deq_tail" /\ pc'[C] = "idle" /\ pc'[P] = pc[P]
          /\ UNCHANGED <<data, head, tail, enqueue_count, dequeue_count, overflow_count, peak_usage, calls>>
          /\ lhead'[C] = 0 /\ lhead'[P] = lhead[P]
          /\ ltail'[C] = 0 /\ ltail'[P] = ltail[P]
          /\ litem'[C] = NoItem /\ litem'[P] = litem[P]
      BY <1>0, <1>1, <1>18 DEF DequeueEmpty, TypeOK
    <2>2. Protocol(P, C)'
      BY <1>1, <2>1 DEF Protocol, EnqueueLabels, DequeueLabels
    <2>3. Counted(P, C) => Counted(P, C)'
      BY <1>2, <1>3, <2>1 DEF Counted, Flag
    <2>4. Peaked(P) => Peaked(P)'
      BY <1>2, <1>3, <2>1 DEF Peaked
    <2> QED
      BY <2>2, <2>3, <2>4
  <1> QED
    BY Zenon, <1>4, <1>5, <1>6, <1>7, <1>8, <1>9, <1>10, <1>11, <1>12, <1>13,
       <1>14, <1>15, <1>16, <1>17, <1>18 DEF StepOf

\* The inductive invariant of one producer and one consumer.
SPSC(p, c) == Protocol(p, c) /\ Counted(p, c) /\ Peaked(p)

\* The producer owns the head and the consumer the tail: what each has loaded
\* of its own position is current, what it knows of the other position is only
\* out of date on the safe side, and the counters follow.
THEOREM SPSCInvariant ==
    ASSUME NEW CONSTANT P, NEW CONSTANT C, Producers = {P}, Consumers = {C}
    PROVE  Spec => []SPSC(P, C)
  <1>1. Init => SPSC(P, C)
    BY InitProtocol DEF SPSC
  <1>2. SPSC(P, C) /\ [Next]_vars => SPSC(P, C)'
    BY StepCases, NextProtocol DEF SPSC
  <1> QED
    BY <1>1, <1>2, PTL DEF Spec

\* The cardinalities of the smallest sets, from the recursion that defines
\* them.
LEMMA CardinalitySmall ==
    ASSUME NEW x
    PROVE  Cardinality({}) = 0 /\ Cardinality({x}) = 1
  <1> DEFINE Body(S, f) == [T \in SUBSET S |-> IF T = {} THEN 0 ELSE 1 + f[T \ {CHOOSE y : y \in T}]]
  <1>1. \A S : Cardinality(S) = (CHOOSE f : f = Body(S, f))[S]
    BY DEF Cardinality
  <1>2. ASSUME NEW f, f = Body({}, f) PROVE f[{}] = 0
    BY <1>2
  <1>3. \E f : f = Body({}, f)
    <2>1. [T \in SUBSET {} |-> 0] = Body({}, [T \in SUBSET {} |-> 0])
      OBVIOUS
    <2> QED
      BY <2>1
  <1>4. (CHOOSE y : y \in {x}) = x
    OBVIOUS
  <1>5. ASSUME NEW f, f = Body({x}, f) PROVE f[{x}] = 1
    <2>1. f[{}] = 0
      BY <1>5
    <2>2. {x} \ {CHOOSE y : y \in {x}} = {}
      BY <1>4
    <2>3. f[{x}] = 1 + f[{x} \ {CHOOSE y : y \in {x}}]
      BY <1>5
    <2> QED
      BY <2>1, <2>2, <2>3
  <1>6. \E f : f = Body({x}, f)
    <2> DEFINE g == [T \in SUBSET {x} |-> IF T = {} THEN 0 ELSE 1]
    <2>1. ASSUME NEW T \in SUBSET {x}, T # {} PROVE g[T \ {CHOOSE y : y \in T}] = 0
      <3>1. T = {x}
        BY <2>1
      <3> QED
        BY <1>4, <3>1
    <2>2. g = Body({x}, g)
      BY <2>1
    <2> QED
      BY <2>2, Zenon
  <1> HIDE DEF Body
  <1>7. ASSUME NEW S, \E f : f = Body(S, f)
        PROVE  (CHOOSE f : f = Body(S, f)) = Body(S, CHOOSE f : f = Body(S, f))
    BY <1>7
  <1> QED
    BY <1>1, <1>2, <1>3, <1>5, <1>6, <1>7, Zenon

\* The threads at a label, when there is only one thread.
LEMMA AtOne ==
    ASSUME NEW t, NEW label
    PROVE  At({t}, label) = Flag(pc[t] = label)
  <1>1. CASE pc[t] = label
    <2>1. {u \in {t} : pc[u] = label} = {t}
      BY <1>1
    <2> QED
      BY <1>1, <2>1, CardinalitySmall, Zenon DEF At, Flag
  <1>2. CASE pc[t] # label
    <2>1. {u \in {t} : pc[u] = label} = {}
      BY <1>2
    <2> QED
      BY <1>2, <2>1, CardinalitySmall, Zenon DEF At, Flag
  <1> QED
    BY <1>1, <1>2

\* ring_buffer_stats adds up for one producer and one consumer.
THEOREM CountersBalanced ==
    ASSUME NEW CONSTANT P, NEW CONSTANT C, Producers = {P}, Consumers = {C}
    PROVE  Spec => []CountersBalance
  <1>1. SPSC(P, C) => CountersBalance
    <2> SUFFICES ASSUME SPSC(P, C) PROVE CountersBalance
      OBVIOUS
    <2>1. /\ At(Producers, "enq_count") = Flag(pc[P] = "enq_count")
          /\ At(Consumers, "deq_count") = Flag(pc[C] = "deq_count")
      BY AtOne
    <2>2. /\ enqueue_count + Flag(pc[P] = "enq_count")
               = dequeue_count + Flag(pc[C] = "deq_count") + SizeOf(head, tail)
          /\ pc[P] = "idle" => calls = enqueue_count + overflow_count
      BY DEF SPSC, Protocol, TypeOK, Counted, Flag
    <2> QED
      BY <2>1, <2>2 DEF CountersBalance
  <1> QED
    BY <1>1, SPSCInvariant, PTL

\* peak_usage of ring_buffer_stats covers what the buffer holds between calls
\* of the producer, and is a number of items the buffer can hold.
THEOREM PeakCovers ==
    ASSUME NEW CONSTANT P, NEW CONSTANT C, Producers = {P}, Consumers = {C}
    PROVE  Spec => []PeakCoversUsage
  <1>1. SPSC(P, C) => PeakCoversUsage
    BY DEF SPSC, Peaked, PeakCoversUsage
  <1> QED
    BY <1>1, SPSCInvariant, PTL

-----------------------------------------------------------------------------
\* The refinement: Contents changes when a position is published, and only then.

\* Publishing the head appends the item that was stored.
LEMMA ContentsEnqueue ==
    ASSUME NEW P, NEW C, P \in Producers, Protocol(P, C), EnqueuePublish(P)
    PROVE  Queue!Enqueue(litem[P])
  <1>1. /\ head \in Index /\ tail \in Index /\ TypeOK
        /\ lhead[P] = head /\ Succ(head) # tail /\ data[head] = litem[P]
    BY DEF Protocol, TypeOK, EnqueuePublish
  <1>2. /\ head' = Succ(head) /\ tail' = tail /\ data' = data
        /\ accepted' = litem[P] /\ delivered' = delivered
    BY <1>1 DEF EnqueuePublish
  <1>3. /\ SizeOf(head, tail) \in Nat /\ SizeOf(head, tail) < Capacity - 1
        /\ SizeOf(head', tail') = SizeOf(head, tail) + 1
    BY <1>1, <1>2, SizeRange, SizeEnqueue, CapacityAssumption
  <1>4. Place(tail, SizeOf(head, tail)) = head
    BY <1>1, PlaceEnds
  <1> DEFINE n == SizeOf(head, tail)
  <1>5. Contents = [i \in 1 .. n |-> data[Place(tail, i - 1)]]
    BY DEF Contents
  <1>6. Contents' = [i \in 1 .. n + 1 |-> data[Place(tail, i - 1)]]
    BY <1>2, <1>3 DEF Contents, Place
  <1>7. n \in Nat /\ n < Capacity - 1 /\ data[Place(tail, n)] = litem[P]
    BY <1>1, <1>3, <1>4
  <1> HIDE DEF n
  <1>8. \A i \in 1 .. n : Place(tail, i - 1) \in Index
    BY <1>1, <1>7, PlaceIndex DEF n
  <1>9. Contents \in Seq(Item \cup {NoItem}) /\ Len(Contents) = n
    BY <1>1, <1>5, <1>7, <1>8 DEF TypeOK
  <1>10. Contents' = Append(Contents, litem[P])
    BY <1>5, <1>6, <1>7, <1>9
  <1> QED
    BY <1>2, <1>7, <1>9, <1>10 DEF Queue!Enqueue

\* Sequences with the same length and elements are equal.
LEMMA SameSequence ==
    ASSUME NEW S, NEW q \in Seq(S), NEW r \in Seq(S), NEW n, Len(q) = n, Len(r) = n,
           \A i \in 1 .. n : q[i] = r[i]
    PROVE  q = r
  OBVIOUS

\* Publishing the tail removes the item that was read.
LEMMA ContentsDequeue ==
    ASSUME NEW P, NEW C, C \in Consumers, Protocol(P, C), DequeuePublish(C)
    PROVE  Queue!Dequeue
  <1>1. /\ head \in Index /\ tail \in Index /\ TypeOK
        /\ ltail[C] = tail /\ head # tail /\ litem[C] = data[tail]
    BY DEF Protocol, TypeOK, DequeuePublish
  <1>2. /\ tail' = Succ(tail) /\ head' = head /\ data' = data
        /\ delivered' = litem[C] /\ accepted' = accepted
    BY <1>1, Zenon DEF DequeuePublish
  <1> DEFINE n == SizeOf(head, tail)
  <1>3. n \in Nat /\ n > 0 /\ SizeOf(head', tail') = n - 1
    BY <1>1, <1>2, SizeRange, SizeDequeue
  <1>4. Contents = [i \in 1 .. n |-> data[Place(tail, i - 1)]]
    BY DEF Contents
  <1>5. Contents' = [i \in 1 .. n - 1 |-> data[Place(Succ(tail), i - 1)]]
    BY <1>2, <1>3 DEF Contents, Place
  <1>6. \A i \in 1 .. n - 1 : Place(Succ(tail), i - 1) = Place(tail, i)
    <2> TAKE i \in 1 .. n - 1
    <2>1. i - 1 \in 0 .. SizeOf(head, tail) - 2
      BY <1>3
    <2>2. Place(Succ(tail), i - 1) = Place(tail, (i - 1) + 1)
      BY <1>1, <2>1, PlaceShift
    <2> QED
      BY <1>3, <2>2
  <1>7. Place(tail, 0) = tail
    BY <1>1, PlaceEnds
  <1>8. \A i \in 1 .. n : Place(tail, i - 1) \in Index
    BY <1>1, <1>3, PlaceIndex
  <1> HIDE DEF n
  <1>9. Contents \in Seq(Item \cup {NoItem}) /\ Len(Contents) = n /\ Contents # <<>>
    <2>1. Contents \in Seq(Item \cup {NoItem}) /\ Len(Contents) = n
      BY <1>1, <1>3, <1>4, <1>8 DEF TypeOK
    <2> QED
      BY <1>3, <2>1
  <1>10. Head(Contents) = litem[C]
    BY <1>1, <1>3, <1>4, <1>7, <1>9
  <1>11. Contents' = Tail(Contents)
    <2>1. /\ Tail(Contents) \in Seq(Item \cup {NoItem}) /\ Len(Tail(Contents)) = n - 1
          /\ \A i \in 1 .. n - 1 : Tail(Contents)[i] = Contents[i + 1]
      BY <1>3, <1>9
    <2>2. \A i \in 1 .. n - 1 : Contents[i + 1] = data[Place(tail, i)]
      BY <1>3, <1>4
    <2>3. \A i \in 1 .. n - 1 : /\ data[Place(Succ(tail), i - 1)] \in Item \cup {NoItem}
                                /\ Tail(Contents)[i] = data[Place(Succ(tail), i - 1)]
      BY <1>3, <1>6, <2>1, <2>2
    <2>4. /\ Contents' \in Seq(Item \cup {NoItem}) /\ Len(Contents') = n - 1
          /\ \A i \in 1 .. n - 1 : Contents'[i] = data[Place(Succ(tail), i - 1)]
      BY <1>3, <1>5, <2>3
    <2>5. \A i \in 1 .. n - 1 : Contents'[i] = Tail(Contents)[i]
      BY <2>3, <2>4, Zenon
    <2> QED
      BY <2>1, <2>4, <2>5, SameSequence, Zenon
  <1> QED
    BY <1>2, <1>9, <1>10, <1>11 DEF Queue!Dequeue

\* The store of an item goes to the free slot at the head.
LEMMA ContentsStore ==
    ASSUME NEW P, NEW C, P \in Producers, Protocol(P, C), EnqueueStore(P)
    PROVE  UNCHANGED Queue!vars
  <1>1. /\ head \in Index /\ tail \in Index /\ TypeOK /\ lhead[P] = head
    BY DEF Protocol, TypeOK, EnqueueStore
  <1>2. /\ head' = head /\ tail' = tail /\ data' = [data EXCEPT ![head] = litem[P]]
        /\ accepted' = accepted /\ delivered' = delivered
    BY <1>1 DEF EnqueueStore, history
  <1>3. SizeOf(head, tail) \in Nat
    BY <1>1, SizeRange
  <1>4. \A i \in 1 .. SizeOf(head, tail) :
            /\ i - 1 \in 0 .. SizeOf(head, tail) - 1
            /\ Place(tail, i - 1) \in Index /\ Place(tail, i - 1) # head
    BY <1>1, <1>3, PlaceIndex
  <1>5. \A i \in 1 .. SizeOf(head, tail) : data'[Place(tail, i - 1)] = data[Place(tail, i - 1)]
    BY <1>1, <1>2, <1>4 DEF TypeOK
  <1>6. Contents' = Contents
    BY <1>2, <1>5 DEF Contents, Place, SizeOf
  <1> QED
    BY <1>2, <1>6 DEF Queue!vars

\* With one producer and one consumer, ring_buffer_enqueue and
\* ring_buffer_dequeue implement a bounded first-in first-out queue.
THEOREM QueueImplemented ==
    ASSUME NEW CONSTANT P, NEW CONSTANT C, Producers = {P}, Consumers = {C}
    PROVE  Spec => ImplementsQueue
  <1>1. Init => Queue!Init
    <2> SUFFICES ASSUME Init PROVE Queue!Init
      OBVIOUS
    <2>1. SizeOf(head, tail) = 0
      BY CapacityAssumption DEF Init, SizeOf
    <2>2. Contents = <<>>
      BY <2>1 DEF Contents
    <2> QED
      BY <2>2 DEF Init, Queue!Init
  <1>2. SPSC(P, C) /\ [Next]_vars => [Queue!Next]_(Queue!vars)
    <2> SUFFICES ASSUME SPSC(P, C), [Next]_vars PROVE Queue!Next \/ UNCHANGED Queue!vars
      OBVIOUS
    <2>1. CASE EnqueuePublish(P)
      <3>1. litem[P] \in Item
        BY <2>1 DEF SPSC, Protocol, EnqueuePublish
      <3> QED
        BY <2>1, <3>1, ContentsEnqueue DEF SPSC, Queue!Next
    <2>2. CASE DequeuePublish(C)
      BY <2>2, ContentsDequeue DEF SPSC, Queue!Next
    <2>3. CASE EnqueueStore(P)
      BY <2>3, ContentsStore DEF SPSC
    <2>4. CASE UNCHANGED <<data, head, tail, accepted, delivered>>
      BY <2>4 DEF Queue!vars, Contents, Place, SizeOf
    <2>5. ASSUME \/ \E x \in Item : EnqueueLoadHead(P, x)
                 \/ EnqueueLoadTail(P) \/ EnqueueFull(P)
                 \/ EnqueueCount(P) \/ EnqueuePeak(P)
                 \/ DequeueLoadHead(C) \/ DequeueEmpty(C) \/ DequeueLoadTail(C)
                 \/ DequeueRead(C) \/ DequeueCount(C)
                 \/ \E o \in Observers :
                       ObserveLoadHead(o) \/ ObserveLoadTail(o) \/ ObserveReturn(o)
                 \/ UNCHANGED vars
          PROVE  UNCHANGED <<data, head, tail, accepted, delivered>>
      BY <2>5, Zenon DEF EnqueueLoadHead, EnqueueLoadTail, EnqueueFull, EnqueueCount, EnqueuePeak,
                  DequeueLoadHead, DequeueEmpty, DequeueLoadTail, DequeueRead, DequeueCount,
                  ObserveLoadHead, ObserveLoadTail, ObserveReturn,
                  vars, shared, history
    <2> QED
      BY StepCases, <2>1, <2>2, <2>3, <2>4, <2>5, Zenon DEF StepOf
  <1> QED
    BY <1>1, <1>2, SPSCInvariant, PTL DEF Spec, ImplementsQueue, Queue!Spec

\* With one producer and one consumer the three invariants a user of the ring
\* buffer relies on hold together (ring_buffer_enqueue, ring_buffer_dequeue and
\* ring_buffer_stats), for every capacity and every number of observers.
THEOREM CountersSoundHolds ==
    ASSUME NEW CONSTANT P, NEW CONSTANT C, Producers = {P}, Consumers = {C}
    PROVE  Spec => []CountersSound
  BY TypeCorrect, CountersBalanced, PeakCovers, PTL DEF CountersSound
=============================================================================
