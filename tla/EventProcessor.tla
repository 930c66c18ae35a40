--------------------------- MODULE EventProcessor ---------------------------
(***************************************************************************)
(* The event engine of src/core/event_processor.c, composed of the ring    *)
(* buffer (module RingBuffer, step by step), its pool of event objects,    *)
(* the dispatcher thread, the workers of the thread pool, the threads that *)
(* submit events or wait for them, and the owner that destroys it.         *)
(*                                                                         *)
(* All work items are the same call, process_event_work(ep), so the pool's *)
(* queue is the number `pending' of them.  How pool threads go to sleep    *)
(* and are woken is the subject of ThreadPool; here a worker without work  *)
(* is simply blocked, and only event_processor_destroy(ep, true) is taken. *)
(* Whether the rate limiter (module RateLimiter) lets an event pass, and   *)
(* whether an allocation succeeds, is left open.                           *)
(*                                                                         *)
(* `processed' (the sequence numbers given to the handlers, in order),     *)
(* `admitted' (those whose enqueue succeeded) and `promised' (those        *)
(* submitted when a thread called event_processor_wait) are history        *)
(* variables; `live' is the set of event objects that are allocated and    *)
(* `payloads' the set of objects whose data copy is allocated.             *)
(***************************************************************************)
EXTENDS Integers, Sequences, FiniteSets, SequencesExt, FiniteSetsExt

CONSTANTS
    Submitters,     \* threads that call event_processor_submit
    Workers,        \* thread_pool_size worker threads
    Waiter,         \* a thread that calls event_processor_wait
    Dispatcher,     \* the dispatcher thread
    Owner,          \* the thread that calls event_processor_destroy
    Capacity,       \* ring buffer slots, after rounding
    WorkQueueSize,  \* config.work_queue_size; 0 is unlimited
    PoolSize,       \* config.object_pool_size; 0 stands for no object pool
    MaxEvents,      \* bound: submit calls in a behaviour
    MaxHandlers,    \* bound: register calls in a behaviour
    MaxWaits,       \* bound: event_processor_wait calls in a behaviour
    WithData,       \* whether events carry data: a subset of BOOLEAN
    RateLimit,      \* is there a rate limiter?
    MallocFails     \* may allocations fail?

Object == 1 .. PoolSize + MaxEvents
Nothing == 0

ASSUME ProcessorAssumption ==
    /\ WorkQueueSize \in Nat /\ PoolSize \in Nat /\ MaxEvents \in Nat
    /\ MaxHandlers \in Nat /\ MaxWaits \in Nat
    /\ WithData \subseteq BOOLEAN /\ RateLimit \in BOOLEAN /\ MallocFails \in BOOLEAN
    /\ {Waiter, Dispatcher, Owner} \cap (Submitters \cup Workers) = {}

VARIABLES
    \* the ring buffer
    data, head, tail, enqueue_count, dequeue_count, overflow_count, peak_usage,
    pc, lhead, ltail, litem, calls, accepted, delivered, seen,
    \* the pool of event objects: event_pool->objects and ->tail
    objects, pool_tail,
    live, payloads,
    content,            \* the sequence number an object carries, -1 if cleared
    \* the processor
    running, sequence_counter,
    submitted_count, processed_count, dropped_count, rate_limited_count,
    handlers, next_handler_id,
    handlers_mutex,     \* the worker that holds it, or Nothing
    \* the thread pool
    pending, active_threads, shutdown,
    \* the threads
    at,                 \* where each thread is
    event,              \* the event object a submitter or worker works on
    calling,            \* the handlers a worker still has to call
    \* history and bounds
    submits, waits, processed, admitted, promised

ring == <<data, head, tail, enqueue_count, dequeue_count, overflow_count,
          peak_usage, pc, lhead, ltail, litem, calls, accepted, delivered, seen>>
pool == <<objects, pool_tail, live, payloads, content>>
counts == <<submitted_count, processed_count, dropped_count, rate_limited_count>>
hooks == <<handlers, next_handler_id, handlers_mutex>>
workq == <<pending, active_threads, shutdown>>
history == <<submits, waits, processed, admitted, promised>>
vars == <<ring, pool, running, sequence_counter, counts, hooks, workq, at,
          event, calling, history>>

RB == INSTANCE RingBuffer WITH
        Producers <- Submitters, Consumers <- Workers \cup {Owner},
        Observers <- {Dispatcher, Waiter}, Item <- Object, NoItem <- Nothing,
        MaxOps <- MaxEvents

AllThreads == Submitters \cup Workers \cup {Waiter, Dispatcher, Owner}

\* event_processor_create.
Init ==
    /\ RB!Init
    /\ objects = [i \in 0 .. PoolSize - 1 |-> i + 1]
    /\ pool_tail = PoolSize
    /\ live = 1 .. PoolSize
    /\ payloads = {}
    /\ content = [o \in Object |-> -1]
    /\ running = TRUE
    /\ sequence_counter = 0
    /\ submitted_count = 0 /\ processed_count = 0
    /\ dropped_count = 0 /\ rate_limited_count = 0
    /\ handlers = <<>> /\ next_handler_id = 1 /\ handlers_mutex = Nothing
    /\ pending = 0 /\ active_threads = 0 /\ shutdown = FALSE
    /\ at = [t \in AllThreads |-> IF t = Dispatcher \/ t \in Workers THEN "loop" ELSE "idle"]
    /\ event = [t \in Submitters \cup Workers |-> Nothing]
    /\ calling = [w \in Workers |-> <<>>]
    /\ submits = 0 /\ waits = 0
    /\ processed = <<>>
    /\ admitted = {} /\ promised = {}

Goto(t, label) == at' = [at EXCEPT ![t] = label]

\* Fault: off by one at the pool's capacity.
PoolFreeOverfull(o) ==
    /\ content' = [content EXCEPT ![o] = -1]
    /\ payloads' = payloads \ {o}
    /\ IF pool_tail <= PoolSize
         THEN /\ objects' = [i \in DOMAIN objects |-> IF i = pool_tail THEN o ELSE objects[i]]
              /\ pool_tail' = pool_tail + 1
              /\ UNCHANGED live
         ELSE /\ live' = live \ {o}
              /\ UNCHANGED <<objects, pool_tail>>

\* event_pool_free: clear the object, then put it back or free it.  Without
\* a pool the object is freed as it is.
PoolFree(o) ==
    /\ content' = [content EXCEPT ![o] = -1]
    /\ payloads' = IF PoolSize = 0 THEN payloads ELSE payloads \ {o}
    /\ IF pool_tail < PoolSize
         THEN /\ objects' = [objects EXCEPT ![pool_tail] = o]
              /\ pool_tail' = pool_tail + 1
              /\ UNCHANGED live
         ELSE /\ live' = live \ {o}
              /\ UNCHANGED <<objects, pool_tail>>

-----------------------------------------------------------------------------
\* event_processor_submit.

SubmitCall(s) ==
    /\ at[s] = "idle"
    /\ submits < MaxEvents
    /\ at[Owner] = "idle"
    /\ submits' = submits + 1

SubmitRateLimited(s) ==
    /\ SubmitCall(s)
    /\ RateLimit
    /\ rate_limited_count' = rate_limited_count + 1
    /\ UNCHANGED <<ring, pool, running, sequence_counter, submitted_count,
                   processed_count, dropped_count, hooks, workq, at, event,
                   calling, waits, processed, admitted, promised>>

\* event_pool_alloc found the pool empty and calloc failed.
SubmitNoMemory(s) ==
    /\ SubmitCall(s)
    /\ MallocFails /\ pool_tail = 0
    /\ dropped_count' = dropped_count + 1
    /\ UNCHANGED <<ring, pool, running, sequence_counter, submitted_count,
                   processed_count, rate_limited_count, hooks, workq, at, event,
                   calling, waits, processed, admitted, promised>>

\* event_pool_alloc: the topmost object of the pool, or a new one.
SubmitAlloc(s) ==
    LET o == IF pool_tail > 0 THEN objects[pool_tail - 1] ELSE Min(Object \ live) IN
    /\ SubmitCall(s)
    /\ pool_tail' = IF pool_tail > 0 THEN pool_tail - 1 ELSE 0
    /\ live' = live \cup {o}
    /\ event' = [event EXCEPT ![s] = o]
    /\ Goto(s, "copy")
    /\ UNCHANGED <<ring, objects, payloads, content, running, sequence_counter,
                   counts, hooks, workq, calling, waits, processed, admitted,
                   promised>>

\* Fault: the event is not given back when its data cannot be copied.
SubmitDataFailsLeak(s) ==
    /\ at[s] = "copy"
    /\ MallocFails /\ TRUE \in WithData
    /\ dropped_count' = dropped_count + 1
    /\ event' = [event EXCEPT ![s] = Nothing]
    /\ Goto(s, "idle")
    /\ UNCHANGED <<ring, pool, running, sequence_counter, submitted_count,
                   processed_count, rate_limited_count, hooks, workq, calling,
                   history>>

\* The copy of event->data cannot be allocated.
SubmitDataFails(s) ==
    /\ at[s] = "copy"
    /\ MallocFails /\ TRUE \in WithData
    /\ PoolFree(event[s])
    /\ dropped_count' = dropped_count + 1
    /\ event' = [event EXCEPT ![s] = Nothing]
    /\ Goto(s, "idle")
    /\ UNCHANGED <<ring, running, sequence_counter, submitted_count,
                   processed_count, rate_limited_count, hooks, workq, calling,
                   history>>

\* Fault: the sequence counter is not advanced.
SubmitCopySameSequence(s) ==
    /\ at[s] = "copy"
    /\ payloads' = payloads \cup {event[s]}
    /\ content' = [content EXCEPT ![event[s]] = sequence_counter]
    /\ Goto(s, "enqueue")
    /\ UNCHANGED <<ring, objects, pool_tail, live, running, sequence_counter,
                   counts, hooks, workq, event, calling, history>>

\* Copy the event, and its data if it has any, and take a sequence number.  (No
\* caller passes data of size 0, whose pointer would be copied as it is.)
SubmitCopy(s) ==
    /\ at[s] = "copy"
    /\ \E data_present \in WithData :
          payloads' = IF data_present THEN payloads \cup {event[s]} ELSE payloads
    /\ content' = [content EXCEPT ![event[s]] = sequence_counter]
    /\ sequence_counter' = sequence_counter + 1
    /\ Goto(s, "enqueue")
    /\ UNCHANGED <<ring, objects, pool_tail, live, running, counts, hooks,
                   workq, event, calling, history>>

SubmitEnqueue(s) ==
    /\ at[s] = "enqueue"
    /\ RB!EnqueueLoadHead(s, event[s])
    /\ Goto(s, "enqueuing")
    /\ UNCHANGED <<pool, running, sequence_counter, counts, hooks, workq, event,
                   calling, history>>

SubmitEnqueueStep(s) ==
    /\ at[s] = "enqueuing"
    /\ RB!EnqueueStep(s)
    /\ Goto(s, CASE pc[s] = "enq_full" -> "refused"
                 [] pc[s] = "enq_peak" -> "accepted"
                 [] OTHER -> "enqueuing")
    /\ admitted' = IF pc[s] = "enq_publish" THEN admitted \cup {content[event[s]]}
                                            ELSE admitted
    /\ UNCHANGED <<pool, running, sequence_counter, counts, hooks, workq, event,
                   calling, submits, waits, processed, promised>>

\* Fault: a refused event is not given back to the pool.
SubmitRefusedLeak(s) ==
    /\ at[s] = "refused"
    /\ dropped_count' = dropped_count + 1
    /\ event' = [event EXCEPT ![s] = Nothing]
    /\ Goto(s, "idle")
    /\ UNCHANGED <<ring, pool, running, sequence_counter, submitted_count,
                   processed_count, rate_limited_count, hooks, workq, calling,
                   history>>

\* Fault: a refused event is not counted.
SubmitRefusedUncounted(s) ==
    /\ at[s] = "refused"
    /\ PoolFree(event[s])
    /\ event' = [event EXCEPT ![s] = Nothing]
    /\ Goto(s, "idle")
    /\ UNCHANGED <<ring, running, sequence_counter, counts, hooks, workq,
                   calling, history>>

\* The ring buffer is full: its sequence number is lost with the event.
SubmitRefused(s) ==
    /\ at[s] = "refused"
    /\ PoolFree(event[s])
    /\ dropped_count' = dropped_count + 1
    /\ event' = [event EXCEPT ![s] = Nothing]
    /\ Goto(s, "idle")
    /\ UNCHANGED <<ring, running, sequence_counter, submitted_count,
                   processed_count, rate_limited_count, hooks, workq, calling,
                   history>>

SubmitDone(s) ==
    /\ at[s] = "accepted"
    /\ submitted_count' = submitted_count + 1
    /\ event' = [event EXCEPT ![s] = Nothing]
    /\ Goto(s, "idle")
    /\ UNCHANGED <<ring, pool, running, sequence_counter, processed_count,
                   dropped_count, rate_limited_count, hooks, workq, calling,
                   history>>

SubmitStart(s) == SubmitRateLimited(s) \/ SubmitNoMemory(s) \/ SubmitAlloc(s)
SubmitStep(s) ==
    \/ SubmitDataFails(s) \/ SubmitCopy(s) \/ SubmitEnqueue(s)
    \/ SubmitEnqueueStep(s) \/ SubmitRefused(s) \/ SubmitDone(s)

-----------------------------------------------------------------------------
\* dispatcher_thread_func: while running, submit one work item each time the
\* ring buffer is seen to hold something.

DispatchTest ==
    /\ at[Dispatcher] = "loop"
    /\ IF running
         THEN RB!ObserveLoadHead(Dispatcher) /\ Goto(Dispatcher, "polling")
         ELSE UNCHANGED ring /\ Goto(Dispatcher, "exited")
    /\ UNCHANGED <<pool, running, sequence_counter, counts, hooks, workq, event,
                   calling, history>>

DispatchPoll ==
    /\ at[Dispatcher] = "polling"
    /\ RB!ObserveLoadTail(Dispatcher)
    /\ Goto(Dispatcher, "polled")
    /\ UNCHANGED <<pool, running, sequence_counter, counts, hooks, workq, event,
                   calling, history>>

\* Fault: the dispatcher gives up when the thread pool refuses work.
DispatchSubmitGivesUp ==
    LET full == WorkQueueSize > 0 /\ pending >= WorkQueueSize
        more == lhead[Dispatcher] # ltail[Dispatcher] IN
    /\ at[Dispatcher] = "polled"
    /\ RB!ObserveReturn(Dispatcher)
    /\ pending' = IF more /\ ~full THEN pending + 1 ELSE pending
    /\ Goto(Dispatcher, IF more /\ full THEN "exited" ELSE "loop")
    /\ UNCHANGED <<pool, running, sequence_counter, counts, hooks,
                   active_threads, shutdown, event, calling, history>>

\* thread_pool_submit, refused when the pool's queue is full or the work item
\* cannot be allocated.  The dispatcher is the only one to submit work, so the
\* test and the append are one step.
DispatchSubmit ==
    LET more == lhead[Dispatcher] # ltail[Dispatcher]
        room == WorkQueueSize = 0 \/ pending < WorkQueueSize IN
    /\ at[Dispatcher] = "polled"
    /\ RB!ObserveReturn(Dispatcher)
    /\ \/ more /\ room /\ pending' = pending + 1
       \/ (~(more /\ room) \/ MallocFails) /\ pending' = pending
    /\ Goto(Dispatcher, "loop")
    /\ UNCHANGED <<pool, running, sequence_counter, counts, hooks,
                   active_threads, shutdown, event, calling, history>>

Dispatch == DispatchTest \/ DispatchPoll \/ DispatchSubmit

-----------------------------------------------------------------------------
\* A worker of the thread pool, running process_event_work.

WorkerTake(w) ==
    /\ at[w] = "loop"
    /\ pending > 0
    /\ pending' = pending - 1
    /\ Goto(w, "claimed")
    /\ UNCHANGED <<ring, pool, running, sequence_counter, counts, hooks,
                   active_threads, shutdown, event, calling, history>>

WorkerExit(w) ==
    /\ at[w] = "loop"
    /\ shutdown /\ pending = 0
    /\ Goto(w, "exited")
    /\ UNCHANGED <<ring, pool, running, sequence_counter, counts, hooks, workq,
                   event, calling, history>>

WorkerActivate(w) ==
    /\ at[w] = "claimed"
    /\ active_threads' = active_threads + 1
    /\ Goto(w, "dequeue")
    /\ UNCHANGED <<ring, pool, running, sequence_counter, counts, hooks,
                   pending, shutdown, event, calling, history>>

\* ring_buffer_dequeue; an empty buffer ends the work item.
WorkerDequeue(w) ==
    /\ \/ at[w] = "dequeue" /\ RB!DequeueLoadHead(w) /\ Goto(w, "dequeuing")
       \/ /\ at[w] = "dequeuing"
          /\ RB!DequeueStep(w)
          /\ Goto(w, CASE pc[w] = "deq_count" -> "lock"
                       [] pc'[w] = "idle" /\ pc[w] = "deq_tail" -> "finish"
                       [] OTHER -> "dequeuing")
    /\ event' = [event EXCEPT ![w] = IF pc[w] = "deq_count" THEN litem[w] ELSE @]
    /\ UNCHANGED <<pool, running, sequence_counter, counts, hooks, workq,
                   calling, history>>

\* The handlers are called one after the other under handlers_mutex.
WorkerLock(w) ==
    /\ at[w] = "lock"
    /\ handlers_mutex = Nothing
    /\ handlers_mutex' = w
    /\ calling' = [calling EXCEPT ![w] = handlers]
    /\ processed' = Append(processed, content[event[w]])
    /\ Goto(w, "call")
    /\ UNCHANGED <<ring, pool, running, sequence_counter, counts, handlers,
                   next_handler_id, workq, event, submits, waits, admitted,
                   promised>>

WorkerCall(w) ==
    /\ at[w] = "call"
    /\ calling[w] # <<>>
    /\ calling' = [calling EXCEPT ![w] = Tail(@)]
    /\ UNCHANGED <<ring, pool, running, sequence_counter, counts, hooks, workq,
                   at, event, history>>

WorkerUnlock(w) ==
    /\ at[w] = "call"
    /\ calling[w] = <<>>
    /\ handlers_mutex' = Nothing
    /\ Goto(w, "count")
    /\ UNCHANGED <<ring, pool, running, sequence_counter, counts, handlers,
                   next_handler_id, workq, event, calling, history>>

WorkerCount(w) ==
    /\ at[w] = "count"
    /\ processed_count' = processed_count + 1
    /\ Goto(w, "release")
    /\ UNCHANGED <<ring, pool, running, sequence_counter, submitted_count,
                   dropped_count, rate_limited_count, hooks, workq, event,
                   calling, history>>

WorkerRelease(w) ==
    /\ at[w] = "release"
    /\ PoolFree(event[w])
    /\ event' = [event EXCEPT ![w] = Nothing]
    /\ Goto(w, "finish")
    /\ UNCHANGED <<ring, running, sequence_counter, counts, hooks, workq,
                   calling, history>>

\* Fault: active_threads is not decremented.
WorkerFinishActive(w) ==
    /\ at[w] = "finish"
    /\ Goto(w, "loop")
    /\ UNCHANGED <<ring, pool, running, sequence_counter, counts, hooks, workq,
                   event, calling, history>>

WorkerFinish(w) ==
    /\ at[w] = "finish"
    /\ active_threads' = active_threads - 1
    /\ Goto(w, "loop")
    /\ UNCHANGED <<ring, pool, running, sequence_counter, counts, hooks,
                   pending, shutdown, event, calling, history>>

Worker(w) ==
    \/ WorkerTake(w) \/ WorkerExit(w) \/ WorkerActivate(w) \/ WorkerDequeue(w)
    \/ WorkerLock(w) \/ WorkerCall(w) \/ WorkerUnlock(w) \/ WorkerCount(w)
    \/ WorkerRelease(w) \/ WorkerFinish(w)

-----------------------------------------------------------------------------
\* event_processor_register_handler and _unregister_handler.

RegisterHandler ==
    /\ at[Owner] = "idle"
    /\ handlers_mutex = Nothing
    /\ next_handler_id <= MaxHandlers
    /\ handlers' = <<next_handler_id>> \o handlers
    /\ next_handler_id' = next_handler_id + 1
    /\ UNCHANGED <<ring, pool, running, sequence_counter, counts,
                   handlers_mutex, workq, at, event, calling, history>>

\* Fault: the list is changed without handlers_mutex.
UnregisterHandlerUnlocked(id) ==
    /\ at[Owner] = "idle"
    /\ handlers' = SelectSeq(handlers, LAMBDA h : h # id)
    /\ UNCHANGED <<ring, pool, running, sequence_counter, counts,
                   next_handler_id, handlers_mutex, workq, at, event, calling,
                   history>>

UnregisterHandler(id) ==
    /\ at[Owner] = "idle"
    /\ handlers_mutex = Nothing
    /\ handlers' = SelectSeq(handlers, LAMBDA h : h # id)
    /\ UNCHANGED <<ring, pool, running, sequence_counter, counts,
                   next_handler_id, handlers_mutex, workq, at, event, calling,
                   history>>

-----------------------------------------------------------------------------
\* event_processor_wait: poll until the ring buffer is empty, then wait for
\* the thread pool to have neither queued work nor active threads.

WaitCall ==
    /\ at[Waiter] = "idle"
    /\ waits < MaxWaits
    /\ at[Owner] = "idle"
    /\ waits' = waits + 1
    /\ promised' = admitted
    /\ RB!ObserveLoadHead(Waiter)
    /\ Goto(Waiter, "polling")
    /\ UNCHANGED <<pool, running, sequence_counter, counts, hooks, workq, event,
                   calling, submits, processed, admitted>>

WaitPoll ==
    /\ \/ at[Waiter] = "polling" /\ RB!ObserveLoadTail(Waiter) /\ Goto(Waiter, "polled")
       \/ at[Waiter] = "again" /\ RB!ObserveLoadHead(Waiter) /\ Goto(Waiter, "polling")
       \/ /\ at[Waiter] = "polled"
          /\ RB!ObserveReturn(Waiter)
          /\ Goto(Waiter, IF lhead[Waiter] = ltail[Waiter] THEN "pool_wait" ELSE "again")
    /\ UNCHANGED <<pool, running, sequence_counter, counts, hooks, workq, event,
                   calling, history>>

\* Fault: only the queue of the thread pool is tested.
WaitPoolQueue ==
    /\ at[Waiter] = "pool_wait"
    /\ pending = 0
    /\ Goto(Waiter, "returning")
    /\ UNCHANGED <<ring, pool, running, sequence_counter, counts, hooks, workq,
                   event, calling, history>>

WaitPool ==
    /\ at[Waiter] = "pool_wait"
    /\ pending = 0 /\ active_threads = 0
    /\ Goto(Waiter, "returning")
    /\ UNCHANGED <<ring, pool, running, sequence_counter, counts, hooks, workq,
                   event, calling, history>>

WaitReturn ==
    /\ at[Waiter] = "returning"
    /\ promised' = {}
    /\ Goto(Waiter, "idle")
    /\ UNCHANGED <<ring, pool, running, sequence_counter, counts, hooks, workq,
                   event, calling, submits, waits, processed, admitted>>

Wait == WaitPoll \/ WaitPool \/ WaitReturn

-----------------------------------------------------------------------------
\* event_processor_destroy(ep, true), called when no other call is running.

DestroyCall ==
    /\ at[Owner] = "idle"
    /\ \A t \in Submitters \cup {Waiter} : at[t] = "idle"
    /\ running' = FALSE
    /\ Goto(Owner, "join")
    /\ UNCHANGED <<ring, pool, sequence_counter, counts, hooks, workq, event,
                   calling, history>>

\* The dispatcher is joined and thread_pool_wait returns; then
\* thread_pool_destroy(pool, true) sets shutdown.
DestroyPool ==
    /\ at[Owner] = "join"
    /\ at[Dispatcher] = "exited"
    /\ pending = 0 /\ active_threads = 0
    /\ shutdown' = TRUE
    /\ Goto(Owner, "drain")
    /\ UNCHANGED <<ring, pool, running, sequence_counter, counts, hooks,
                   pending, active_threads, event, calling, history>>

\* With the workers joined, take what is left in the ring buffer; each event
\* goes back to the pool, unprocessed.
DestroyDrain ==
    /\ \/ /\ at[Owner] = "drain"
          /\ \A w \in Workers : at[w] = "exited"
          /\ head # tail
          /\ RB!DequeueLoadHead(Owner)
          /\ UNCHANGED pool
       \/ /\ at[Owner] = "drain"
          /\ RB!DequeueStep(Owner)
          /\ IF pc[Owner] = "deq_count" THEN PoolFree(litem[Owner]) ELSE UNCHANGED pool
    /\ UNCHANGED <<running, sequence_counter, counts, hooks, workq, at, event,
                   calling, history>>

\* event_pool_destroy frees every slot of the pool, and the handlers go.
DestroyFree ==
    /\ at[Owner] = "drain"
    /\ \A w \in Workers : at[w] = "exited"
    /\ pc[Owner] = "idle" /\ head = tail
    /\ live' = live \ {objects[i] : i \in 0 .. PoolSize - 1}
    /\ handlers' = <<>>
    /\ Goto(Owner, "freed")
    /\ UNCHANGED <<ring, objects, pool_tail, payloads, content, running,
                   sequence_counter, counts, next_handler_id, handlers_mutex,
                   workq, event, calling, history>>

DestroyStep == DestroyPool \/ DestroyDrain \/ DestroyFree

Freed == at[Owner] = "freed" /\ UNCHANGED vars

Next ==
    \/ \E s \in Submitters : SubmitStart(s) \/ SubmitStep(s)
    \/ Dispatch
    \/ \E w \in Workers : Worker(w)
    \/ RegisterHandler
    \/ \E id \in 1 .. MaxHandlers : UnregisterHandler(id)
    \/ WaitCall \/ Wait
    \/ DestroyCall \/ DestroyStep
    \/ Freed

Spec == Init /\ [][Next]_vars

\* The dispatcher and the workers run; a submit, wait or destroy call that
\* has begun goes on.  Nobody has to make a call.
Fairness ==
    /\ WF_vars(Dispatch)
    /\ \A w \in Workers : WF_vars(Worker(w))
    /\ \A s \in Submitters : WF_vars(SubmitStep(s))
    /\ WF_vars(Wait)
    /\ WF_vars(DestroyStep)

FairSpec == Spec /\ Fairness

-----------------------------------------------------------------------------
\* Properties.

SubmitStates == {"idle", "copy", "enqueue", "enqueuing", "refused", "accepted"}
WorkerStates == {"loop", "claimed", "dequeue", "dequeuing", "lock", "call",
                 "count", "release", "finish", "exited"}

\* Every variable has its type.
TypeOK ==
    /\ RB!TypeOK
    /\ objects \in [0 .. PoolSize - 1 -> Object]
    /\ pool_tail \in 0 .. PoolSize
    /\ live \subseteq Object /\ payloads \subseteq Object
    /\ content \in [Object -> -1 .. MaxEvents - 1]
    /\ running \in BOOLEAN /\ shutdown \in BOOLEAN
    /\ sequence_counter \in 0 .. MaxEvents
    /\ \A n \in {submitted_count, processed_count, dropped_count,
                 rate_limited_count, pending, active_threads} : n \in Nat
    /\ \A s \in Submitters : at[s] \in SubmitStates
    /\ \A w \in Workers : at[w] \in WorkerStates
    /\ event \in [Submitters \cup Workers -> Object \cup {Nothing}]
    /\ handlers_mutex \in Workers \cup {Nothing}
    /\ admitted \subseteq 0 .. MaxEvents - 1 /\ promised \subseteq admitted

InPool == {objects[i] : i \in 0 .. pool_tail - 1}
InRing == ToSet(RB!Contents)
\* A worker or the owner has taken the object out of the ring.
Taken == {litem[c] : c \in {d \in Workers \cup {Owner} : pc[d] = "deq_count"}}
            \cup ({event[w] : w \in Workers} \ {Nothing})
\* A submitter has not yet put the object into the ring.
Filling == {event[s] : s \in {t \in Submitters :
                 \/ at[t] \in {"copy", "enqueue", "refused"}
                 \/ at[t] = "enqueuing" /\ pc[t] \notin {"enq_count", "enq_peak"}}}

\* Every event object has exactly one owner: the pool, the ring buffer, a
\* submitter that fills it or a thread that has taken it, although the pool
\* mixes its own objects with heap objects and never clears a slot it hands
\* out.  Nothing that is allocated is unreachable, and after
\* event_processor_destroy, which frees all slots of the pool, nothing is left.
OneOwner ==
    /\ at[Owner] = "freed" => live = {} /\ payloads = {}
    /\ at[Owner] # "freed" => live = InPool \cup InRing \cup Taken \cup Filling
    /\ InPool \cap (InRing \cup Taken \cup Filling) = {}
    /\ InRing \cap (Taken \cup Filling) = {}
    /\ Taken \cap Filling = {}
    /\ Cardinality(InPool) = pool_tail
    /\ Cardinality(InRing) = RB!SizeOf(head, tail)

\* With one thread that submits and one worker, each event is given to the
\* handlers at most once, and in the order of the sequence numbers that
\* event_processor_submit assigned, also when several wait in the ring buffer.
HandledInOrder ==
    /\ \A i \in 1 .. Len(processed) : processed[i] \in admitted
    /\ \A i, j \in 1 .. Len(processed) : i < j => processed[i] < processed[j]

\* Each event is given to the handlers at most once.
HandledOnce == \A i, j \in 1 .. Len(processed) : i # j => processed[i] # processed[j]

\* event_processor_stats accounts for every submit call: when none is running
\* each was counted as submitted, dropped or rate limited, and the events
\* submitted are those processed, taken by a worker or waiting.
SubmitsAccounted ==
    (\A s \in Submitters : at[s] = "idle") =>
        /\ submits = submitted_count + dropped_count + rate_limited_count
        /\ at[Owner] = "idle" =>
             submitted_count = processed_count + RB!SizeOf(head, tail)
               + Cardinality({w \in Workers :
                    \/ pc[w] = "deq_count"
                    \/ at[w] \in {"lock", "call", "count"}})

\* A handler is never called after event_processor_unregister_handler has
\* returned: a worker walks the list of handlers with handlers_mutex held.
CalledWhileRegistered ==
    \A w \in Workers : \A i \in 1 .. Len(calling[w]) : calling[w][i] \in ToSet(handlers)

\* include/event_processor.h: "event_processor_wait() - Wait for all pending
\* events to complete".  When the call returns, the events submitted before
\* it have been handled and counted.
WaitMeansProcessed ==
    at[Waiter] = "returning" =>
        /\ promised \subseteq ToSet(processed)
        /\ processed_count >= Cardinality(promised)

\* include/event_processor.h on event_processor_destroy: "@wait: If true, wait
\* for pending events to complete".  Once the call is over, every event that was
\* enqueued has been handled.
DestroyMeansProcessed == at[Owner] = "freed" => admitted \subseteq ToSet(processed)

\* An event that was enqueued is eventually handled, as long as the processor
\* is not destroyed: the dispatcher submits enough work items.
AdmittedEventsHandled ==
    \A n \in 0 .. MaxEvents - 1 :
        n \in admitted ~> (n \in ToSet(processed) \/ ~running)

\* event_processor_wait returns, if submitters leave it the chance to see the
\* ring buffer empty; event_processor_destroy(ep, true) returns, the dispatcher
\* notices that it is to stop and the workers finish the work items it left.
CallsReturn ==
    /\ at[Waiter] = "polling" ~> at[Waiter] = "idle"
    /\ at[Owner] = "join" ~> at[Owner] = "freed"
=============================================================================
