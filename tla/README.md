# A TLA+ verification of nlmon

nlmon watches the kernel's netlink sockets and turns what it sees into events.
The events go through an event engine (a lock-free ring buffer, a dispatcher, a
thread pool, registered handlers), past filters, rate limiters, hooks and alert
rules, into storage, exporters and a web interface. The program is C with POSIX
threads; what is hard to test in it is concurrency. This directory holds TLA+
models of its parts, the TLC configurations that check them on small instances,
and TLAPS proofs of the main properties for every instance.

## 1. The parts of the system

| part | source | state | operations | what is hard |
|---|---|---|---|---|
| ring buffer | `core/ring_buffer.c` | `head`, `tail`, slots, counters | enqueue, dequeue, is_empty, size | no lock; every load and store interleaves |
| thread pool | `core/thread_pool.c` | a list per priority, `shutdown`, `immediate_shutdown`, `active_threads` | create, submit, wait, destroy, the worker loop | lost wakeups, tests outside the mutex, two ways to stop |
| event processor | `core/event_processor.c` | ring, event pool, handlers, dispatcher | submit, dispatch, process, wait, register, destroy | ownership of an event across four threads; shutdown order |
| object pools | `core/object_pool.c`, `event_pool.c`, `filter_pool.c` | free list, statistics | alloc, free, reset_stats, destroy | statistics updated after the mutex; heap fallback |
| rate limiter | `core/rate_limiter.c` | token bucket | allow, set_rate, set_burst, reset | clock set back, changes of rate between refills |
| rate limiter map | `core/rate_limiter.c` | hash table of limiters | set, allow, destroy | collisions; a limiter replaced while in use |
| event hooks | `core/event_hooks.c` | hook slots, `active_executions`, `exec_cond` | register, execute, wait, destroy | a detached thread per execution; one condition variable for two conditions |
| alert manager | `core/alert_manager.c` | rules, circular history, statistics | evaluate, suppress, acknowledge, resolve | three mutexes; the clock is read outside them |
| storage | `storage/*.c` | circular buffer, batch of a database, audit chain | add, query, flush, retention, verify | batches lost in a crash, the cleanup thread, hash chain across files |
| export | `export/*.c` | open files, queue of the forwarder | write, rotate, reconnect | a crash between two renames, reconnects |
| filters | `core/filter_*.c` | expression tree, bytecode, table of filters | parse, compile, evaluate | bytecode against tree; jumps |
| correlation, time windows, patterns, security detector | `core/correlation_engine.c`, `time_window.c`, ... | windows, tables with limits | add, expire, detect | expiry at a boundary, tables at their limit |
| netlink | `core/nlmon_nl*.c`, `nlmon_netlink*.c` | sockets, limits, message pool | enable, disable, recover | retries, resource limits |
| WMI reader and bridge | `core/wmi_*.c` | followed file, reader thread | start, pause, stop | rotation of the followed file |
| plugins | `plugins/*.c` | plugin states | load, start, stop, route | dependency order, partial failure |
| configuration | `config/*.c` | current and pending configuration | reload, rollback | one step of several failing |
| web | `web/*.c` | clients, sessions | connect, send, log in, expire | queues at their limit, expiry |
| resources, signals | `core/resource_tracker.c`, `signal_handler.c`, ... | lists of resources, flags | register, release | order of cleanup |
| command line, main program, QCA tool | `cli/*.c`, `nlmon.c`, `qca-ctl.c` | screens, options | - | user interface |

The first eight are modelled; `PROJECT.json` lists all with their files, and the
hazards with the line each one bites at.

How they interact: the netlink and WMI sources call `event_processor_submit`. That
asks the rate limiter, takes an object from the pool, copies the event into it and
enqueues it. The dispatcher polls the ring and gives the thread pool one work item
per poll; a worker dequeues one event, calls the handlers under `handlers_mutex`, and
returns the object. Handlers lead to hooks, alerts, storage and exporters.

## 2. The modules

| module | models | composed with |
|---|---|---|
| `BoundedQueue` | abstract specification: a FIFO queue with a limit | |
| `RingBuffer` | `ring_buffer.c`, one step per atomic access | implements `BoundedQueue` |
| `RingBuffer_proofs` | theorems about it | |
| `ThreadPool` | `thread_pool.c`, one step per critical section or atomic access | |
| `EventProcessor` | `event_processor.c` with its pool, the dispatcher, workers, a waiter and the owner | `RingBuffer`, step by step, by `INSTANCE` |
| `ObjectPool` | `object_pool.c` as `event_pool.c` and `filter_pool.c` use it | |
| `RateLimiter` | the token bucket | |
| `RateLimiter_proofs` | theorems about it | |
| `RateLimiterMap` | the table of limiters of the same file | |
| `EventHooks` | `event_hooks.c` | |
| `AlertManager` | `alert_manager.c` | |
| `MCResources` | one behaviour each of `RateLimiter`, `RateLimiterMap`, `ObjectPool` and `AlertManager` on small instances | |
| other `MC...` | the instances for TLC: symmetry sets and constants | |

Conventions. Variables have the names of the C fields. A thread has a label saying
where it is (`pc`, `at`, `worker`, ...); a call begins at the idle label and its locals
are reset when it returns. A section between lock and unlock of a mutex is one step
when everything it touches is protected by that mutex; an atomic touched outside is a
step of its own, and a mutex that is held across such steps is a variable. A condition
variable is the set of threads that sleep on it; a signal removes one, a broadcast all,
and spurious wakeups are an action. Names that begin with `Max` and are commented
`bound:` limit a behaviour and have no counterpart in the code. Definitions headed
`Fault:` are wrong variants of the definition below them, each the way a plausible bug
would change the code; `PROJECT.json` pairs each with the property that it breaks.

**RingBuffer.** `EnqueueLoadHead ... EnqueuePeak` are the lines of
`ring_buffer_enqueue`, `DequeueLoadHead ... DequeueCount` those of
`ring_buffer_dequeue`, and the `Observe` actions are `ring_buffer_is_empty` called by a
third thread, as the dispatcher and `event_processor_wait` do. The atomics are
sequentially consistent in the model; the code uses acquire and release on `head` and
`tail`, under which no thread sees an index move before the slot it publishes, and each
index has one writer; the relaxed order of the counters is not modelled. `Contents`,
the items between tail and head, is the refinement mapping.

**ThreadPool.** The owner creates the workers (a failing `pthread_create` takes the
error path), and later destroys the pool in either mode. A submit is three steps: the
clamp of the priority and the test of `shutdown`, the test of the limit in one critical
section, the append and signal in another. A worker takes, activates, runs,
deactivates, counts and notifies in separate steps, as the code does: `active_threads`
and the counters are atomics outside the mutex. The owner calls destroy when no other
call is running, since destroy frees the pool.

**EventProcessor.** The thread pool appears as the number of queued work items (all
are the same call); how its threads sleep is the subject of `ThreadPool`. Its ring is
the `RingBuffer` of the other module with all its steps. Each event is an object in the
pool, the ring, a submitter or a worker; `live` and `payloads` are the allocated objects
and data copies; an event may come with data or without. The processor has its object
pool (`enable_object_pool`), which nothing in the repository enables: without it
`event_pool_free` (`event_processor.c:153-155`) frees the event and not its data, and
`OneOwner` would fail. Only `event_processor_destroy(ep, true)` is modelled, and a
processor whose creation succeeded.

**ObjectPool.** The free list under the mutex is one step; each atomic update of a
statistic outside it is another, and so is each of the four stores of
`object_pool_reset_stats`. The compare-and-swap loop on `peak_usage` is one step, which
leaves the larger value. `Use` and `FreeBuffers` are what the typed pools do with the object.

**RateLimiter.** Tokens are integers in units of `1/One` token and time is in units in
which a rate of 1 earns one unit, so that the arithmetic of the C doubles is exact; the
rounding of doubles is not modelled. The clock may be set back, as that of
`gettimeofday` may. A window of the history variables begins at a mark, and
`mark_yield` adds up what each tick in it yields at the rate then in force.

**RateLimiterMap.** The hash function is any function, chosen in the initial state. A
lookup and the use of the limiter found are two steps, since the mutex is released
between them. A set may fail to allocate; a failing replacement keeps the old limiter.

**EventHooks.** `hook_manager_execute` holds `hooks_mutex` throughout, also while it
waits for the concurrency limit. An asynchronous execution is a record `runs[r]` that
points to a slot. A script ends: `execute_script` kills it at its timeout. Registering a
hook clears the slot under `hooks_mutex` while an execution of the slot's last hook may be
updating the statistics under `stats_mutex`; the outcome is then either. `admitted` and
`inherited` are history variables: executions started for the hook in the slot, and
executions of its predecessors still running when it came.

**AlertManager.** A rule has its own limits, chosen from `RuleConfigs` when it is added.
The load and the store of `active_count` are two steps, because `reset_stats` clears it
under another mutex; suppressing the rule is a third. `lost` is a history variable that
counts the alerts overwritten in each state. Whether a condition holds and an action succeeds is a choice.

## 3. The runs

Run one with `tlc -config <run>.cfg <module>`; `PROJECT.json` has the module of each.

| run | instance and why it is enough | what it shows |
|---|---|---|
| `RingBuffer` | one producer, one consumer, one poller; 4 slots (3 usable), 4 enqueue calls: the ring fills, refuses and empties and its indices wrap; that a slot is rewritten any number of times is the theorem's | it implements `BoundedQueue` (FIFO, nothing lost, duplicated or reordered); the counters agree with the contents up to the calls in flight; `peak_usage` covers the contents between calls; "not empty" is only answered if an item was there |
| `ThreadPool` | 2 workers, 2 submitters, 1 waiter, 3 items, a limit of 1, a low and an out-of-range priority, both kinds of destroy, creation that may fail | `WorkConserved`: an accepted item is in one list or one worker and runs at most once, and the counters agree; `NoLostWakeup`; `QueueOvershootBounded`: the limit is exceeded by at most one item for each further submitter; a graceful destroy discards nothing and returns; `WaitMissesOnlyTaken`: when `thread_pool_wait` decides to return, only items that a worker has taken and not yet counted itself active for are still to run; accepted work runs; `thread_pool_wait` returns |
| `ThreadPool_discard` (violation) | 1 worker, `destroy(pool, false)` | see finding 1 |
| `ThreadPool_wait` (violation) | 1 worker, 1 item, 1 waiter | see finding 4 |
| `EventProcessor` | 1 submitter, 1 worker, 2 events with or without data, a ring with 3 usable slots (so that both wait in it), a pool of 1 object (so that the heap is used), a work queue of 1, a handler that comes and goes, failing allocations, a rate limiter that may refuse | each event object has one owner at every step; nothing is left allocated after destroy; events reach the handlers once, in sequence order; no handler runs after `unregister` returned; `event_processor_wait` returns only when what was submitted before it was handled |
| `EventProcessor_live` | the same with 1 usable slot (so that the ring refuses), without handlers and failures | one owner; every submit is counted exactly once; an admitted event is handled unless the processor is destroyed; wait and destroy return |
| `EventProcessor_two_workers` (violation) | 2 workers, 1 event | see finding 2 |
| `EventProcessor_destroy` (violation) | 1 worker, 1 event, a destroy that waits | see finding 5 |
| `EventHooks` | 1 executor, 1 waiter, the owner, 2 slots, a limit of 2, 3 asynchronous runs, one unregister and one change | the limit holds and `active_executions` is exact; wait and destroy return only after the executions in flight ended; `StatsAttributed`: the statistics of a slot are the executions of its hook and at most those its predecessors left running; destroy returns; execute returns as long as no thread has called `hook_manager_wait` |
| `EventHooks_lost_wakeup` (violation) | 1 executor, 1 waiter, a limit of 1 | see finding 3 |
| `Resources`: rate limiter | tokens of 2 units, rates 1 and 3, bursts 1 and 2, requests for 1 or 2, clock steps both ways | `AdmissionBound` over every window; `EarnedTokenIsGranted` |
| `Resources`: map | 2 threads, 3 types in 2 buckets under every hash function, 3 sets, 2 calls | the live limiters are those of the table; a lookup finds the last one set for its type |
| `Resources`: object pool | 3 threads, 2 pooled objects, 1 heap object, 3 allocations, a reset | an object has one holder and is clean when handed out; no buffer is lost; destroy frees everything; `allocated` is exact when nobody is inside; `peak_usage` covers what is held |
| `Resources`: alert manager | `alerts`: 2 evaluators, one slot that is filled twice with any of three kinds of rule, a history of 2 that wraps once, 3 events in 3 ticks, an operator. `limits`: 1 evaluator, a limit of 2 alerts per window, 5 events in 4 ticks, so that every trigger time is overwritten and consulted again | the history holds the latest alerts; the counts exceed it by exactly the alerts overwritten in that state; rate limit and suppression hold while evaluations keep the order of their clocks |
| `RateLimiterMap_global` (violation) | 1 thread, types 0 and 1 | see finding 6 |

The bounds are small because each property concerns at most two calls that overlap,
or one structure at its limit, and every limit (full ring, full queue, empty pool,
concurrency limit, wrapped history) is reached within them. `NoLostWakeup` also covers
the time in which the pool is created or being stopped. `EventProcessor` has one
submitter and one worker because the ring is built for one of each; finding 2 says
what happens otherwise. Symmetry is used for interchangeable threads in runs that
check invariants only.

Fairness. Each `FairSpec` assumes weak fairness of every step a started call or thread
can take: the operating system runs a thread that can run. Nobody has to make a call.
No fairness is assumed of spurious wakeups, of which signalled thread is chosen, or of
failures. In `EventProcessor`, `CallsReturn` relies on submits stopping, which the bound
on events gives. In `EventHooks` a script ends, because `execute_script` kills it.

### Findings

1. `thread_pool_destroy(pool, false)` does not return when a worker is idle. The wait
   loop (`thread_pool.c:68`) tests `shutdown`, and this mode sets only
   `immediate_shutdown`; the woken worker sleeps again and the join waits for it.
2. With more than one worker, the event processor handles an event twice:
   `process_event_work` (`event_processor.c:199`) dequeues from the single-consumer
   ring in every worker.
3. A call of `hook_manager_execute` that waits for the limit can wait for ever when
   another thread is in `hook_manager_wait`: both sleep on `exec_cond`, and the end of
   an execution signals one of them (`event_hooks.c:287`).

4. `thread_pool_wait` can return before an accepted item has run: the worker takes the
   item under the mutex and counts itself active after it (`thread_pool.c:98-102`), and
   `thread_pool.h:58` says "Wait for all pending work to complete".
   `WaitMissesOnlyTaken` is what does hold. `event_processor_wait` is not affected with
   one worker: the worker is active before it takes the event from the ring, and the
   ring is polled first.
5. `event_processor_destroy(ep, true)` stops the dispatcher first (`event_processor.c:349`),
   so events still in the ring are freed unhandled, where `event_processor.h:101` says
   "wait for pending events to complete". `AdmittedEventsHandled` excepts them.
6. A limit set for event type 0 is the limit of type 0, not the one
   `event_processor.h:135` calls "0 for global": `rate_limiter_map_allow` falls back to
   the default of the map. `FindsLatest` makes no claim for a type without a limit of its
   own once type 0 has one.

Behaviours met while modelling that the passing properties state around, with no run
of their own:

- `rate_limiter_map_allow` uses the limiter it found after releasing the mutex, and
  `rate_limiter_map_set` may destroy it in between.
- An asynchronous hook execution reaches its hook through the slot, so it counts for,
  and runs the script of, a hook registered in the slot since; `StatsAttributed` says
  how far the statistics can be off.
- `active_count` of the alert manager is not decremented when the history overwrites an
  active alert; `CountsFollowHistory` says that nothing else makes it differ.
- A clock set back costs the rate limiter the time not yet credited and the time until
  the clock passes `last_update` again; `EarnedTokenIsGranted` is about the time that
  `refill_tokens` accounts for.
- When `pthread_create` fails for a later worker, `thread_pool_create` stops the earlier
  ones as in finding 1 and hangs in the same way.
- `alert_manager_evaluate` reads the clock before it takes the mutex. An evaluation
  that is overtaken may pass the rate limit or a suppression that a later event has
  cleared; `RateLimitHolds` and `SuppressionHolds` exclude that order.
- `ring_buffer_is_empty` may answer "empty" for a ring that held an item throughout;
  its callers poll again.
- `peak_usage` of the object pool can exceed what was ever held at once, since free
  makes the object available before it counts. An exhausted pool allocates from the
  heap; `tests/unit/test_object_pool.c`, which expects NULL, is written against an
  interface that `object_pool.h` no longer has.

## 4. The proofs

`tlapm RingBuffer_proofs.tla` (some five minutes) and `tlapm RateLimiter_proofs.tla`.

**Ring buffer**, from `Capacity` positive, `NoItem` not an item, and disjoint sets of
threads:

- `TypeCorrect`: `Spec => []TypeOK` for any number of producers, consumers and
  observers. `TypeOK` is inductive.
- `NonEmptyAnswerTrue`: `Spec => []NonEmptyAnswerSound`, also for any numbers. The invariant
  `AllWatched` says what an observer between its two loads may have seen.
- `SPSCInvariant`, for one producer and one consumer: the inductive invariant `SPSC`
  says that the head a producer loaded is the current one, since only it writes it;
  that the tail it loaded may be out of date only in the safe direction, so that a
  ring seen with room still has room; the same for the consumer with the roles
  exchanged; that the item at the head was stored before it is published (`Protocol`);
  and how the counters and `peak_usage` lag behind at each label (`Counted`, `Peaked`).
  The properties alone are not inductive: they say nothing of the locals.
- `CountersBalanced` and `PeakCovers` follow from it.
- `QueueImplemented`: `Spec => Queue!Spec` with `Contents` as the abstract queue. The two
  publishing stores map to the abstract enqueue and dequeue (`ContentsEnqueue`,
  `ContentsDequeue`), the store into the free slot does not touch `Contents`
  (`ContentsStore`), and everything else stutters.

**Token bucket**, from positive rates, bursts and `One`:

- `CreditInvariant`: the inductive invariant `Credit` adds to `TypeOK` that the events
  let through since the mark, together with the tokens left and the time still to be
  credited, are covered by the largest burst and by what the time since the mark yields
  at the rates in force; and that the bucket holds at least what the slowest rate earned
  since the last grant, up to one token. `AdmissionBound` alone is not inductive: it does
  not say what the bucket may still hold.
- `TypeCorrect`, `AdmissionBounded` and `EarnedTokensGranted` follow, for every set of
  rates and bursts and all clock steps.

Only model-checked: all liveness (the prover has no fairness), and the invariants of
the other modules, whose proofs are planned.

## 5. The plan

Order of work, with what each step adds:

1. *Storage*: the circular event buffer against a sequence of the latest events; the
   layer with its batched database, flush and retention, with a crash losing the
   batch; SQLite as an external table. The audit log: hash chain, rotation, restart
   and verify. Log rotation: the chain of renames with a crash in between.
2. *Filters*: compilation to bytecode against evaluation of the tree, over bounded
   expressions (recursive functions, checked by TLC).
3. *Correlation and time windows*, *security detector*: expiry and tables at a limit.
4. *Plugins*, *configuration and hot reload*: dependency order; validation and rollback
   when one step of several fails.
5. *Web*: websocket client queues, sessions with expiry and lockout. *Syslog
   forwarder*: queue and reconnect.
6. *Netlink*: enabling and re-creating sockets, resource limits, message pool, error
   recovery; *WMI reader*.
7. *Proofs*: `ThreadPool` (`TypeOK`, `ActiveExact`, `QueueOvershootBounded`,
   `NoLostWakeup` with the strengthening that a signalled worker is in its loop),
   `ObjectPool` (`OneHolder`), `EventHooks` (`ConcurrencyBounded`), `AlertManager`
   (`HistoryKeepsLatest`).

Abstract specifications worth stating: a sequence of the latest n elements (event
buffer, alert history), a multiset of pending work (thread pool), a table that a
reload replaces as a whole (configuration).

## 6. What is not modelled, and why

- Netlink message parsing, exporters' formats, QCA messages: the layout of data, no
  protocol. The command line and the main program: user interface and option parsing.
- Rounding of doubles in the rate limiter; memory orders weaker than sequential
  consistency on statistics.
- `fork`, `exec` and the output of scripts: a script is a step that ends.
- `destroy(wait = false)` of the event processor and the hook manager: the first ends
  in the join of finding 1, the second frees what its detached threads still use and
  promises nothing.
- Calls of an object that is being destroyed, which its interface excludes.
- The parts named in section 5 as still to come.
