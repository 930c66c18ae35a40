----------------------------- MODULE ThreadPool -----------------------------
(***************************************************************************)
(* The worker thread pool of src/core/thread_pool.c: workers that take     *)
(* work from one queue per priority, threads that submit work, threads     *)
(* inside thread_pool_wait, and the owner, which creates and destroys the  *)
(* pool.                                                                   *)
(*                                                                         *)
(* A section that holds queue_mutex from lock to unlock is one step, since *)
(* everything it shares with the others but the atomics is only touched    *)
(* under that mutex; every access to an atomic outside the mutex is a step *)
(* of its own.  pthread_cond_wait puts a thread in a wait set: it leaves   *)
(* it by a signal, a broadcast or spuriously, and then tests its loop      *)
(* condition again under the mutex.                                        *)
(*                                                                         *)
(* `ran' and `discarded' are history variables: how often each work item   *)
(* was executed, and which ones thread_pool_destroy freed unexecuted.      *)
(* `promised' is, for a thread inside thread_pool_wait, the work that had  *)
(* been accepted when it called.                                           *)
(***************************************************************************)
EXTENDS Naturals, FiniteSets, Sequences, FiniteSetsExt

CONSTANTS
    Workers,        \* the threads thread_pool_create starts
    Submitters,     \* threads that call thread_pool_submit
    Waiters,        \* threads that call thread_pool_wait
    MaxQueueSize,   \* max_queue_size; 0 is unlimited
    MaxWork,        \* bound: number of submit calls in a behaviour
    MaxWaits,       \* bound: number of thread_pool_wait calls in a behaviour
    Priorities,     \* the priorities submitters pass, some out of range
    DestroyModes,   \* the values of `wait' the owner may pass to destroy
    CreateMayFail   \* may pthread_create fail?

PRIORITY_NORMAL == 1
PRIORITY_MAX == 3
Levels == 0 .. PRIORITY_MAX - 1
Work == 1 .. MaxWork

ASSUME PoolAssumption ==
    /\ MaxQueueSize \in Nat /\ MaxWork \in Nat /\ MaxWaits \in Nat
    /\ Priorities \subseteq Nat
    /\ IsFiniteSet(Workers)
    /\ DestroyModes \subseteq BOOLEAN
    /\ CreateMayFail \in BOOLEAN

VARIABLES
    queue,              \* queue_head/queue_tail: a list per priority
    queue_size,
    shutdown, immediate_shutdown,
    active_threads,
    submitted_count, completed_count, rejected_count,
    worker,             \* where each worker thread is
    work,               \* the work item a worker took (0: none)
    submitter,          \* where each submitter is, and its work item
    waiter,             \* where each thread_pool_wait caller is
    owner,              \* where the owner is
    calls, waits,       \* submit and wait calls made so far
    ran, discarded, promised

queues == <<queue, queue_size>>
flags == <<shutdown, immediate_shutdown>>
stats == <<submitted_count, completed_count, rejected_count>>
threads == <<worker, work>>
history == <<calls, waits, ran, discarded, promised>>
vars == <<queues, flags, active_threads, stats, threads, submitter, waiter,
          owner, history>>

\* A thread that is not inside thread_pool_submit.
Outside == [at |-> "idle", item |-> 0, level |-> 0]

Init ==
    /\ queue = [l \in Levels |-> <<>>]
    /\ queue_size = 0
    /\ shutdown = FALSE /\ immediate_shutdown = FALSE
    /\ active_threads = 0
    /\ submitted_count = 0 /\ completed_count = 0 /\ rejected_count = 0
    /\ worker = [w \in Workers |-> "unborn"]
    /\ work = [w \in Workers |-> 0]
    /\ submitter = [s \in Submitters |-> Outside]
    /\ waiter = [t \in Waiters |-> "idle"]
    /\ owner = "creating"
    /\ calls = 0 /\ waits = 0
    /\ ran = [i \in Work |-> 0]
    /\ discarded = {}
    /\ promised = [t \in Waiters |-> {}]

Queued == UNION {{queue[l][i] : i \in 1 .. Len(queue[l])} : l \in Levels}
Held == {work[w] : w \in Workers} \ {0}
Accepted == Queued \cup Held \cup {i \in Work : ran[i] > 0} \cup discarded

\* pthread_cond_broadcast(&work_available) and (&work_done): everyone in the
\* wait set goes back to the top of its loop.
WakeWorkers(ws) == [w \in Workers |-> IF ws[w] = "waiting" THEN "loop" ELSE ws[w]]
WakeWaiters == [t \in Waiters |-> IF waiter[t] = "waiting" THEN "loop" ELSE waiter[t]]

-----------------------------------------------------------------------------
\* thread_pool_create and thread_pool_destroy, run by the owner.

CreateWorker ==
    /\ owner = "creating"
    /\ \E w \in Workers :
          /\ worker[w] = "unborn"
          /\ worker' = [worker EXCEPT ![w] = "loop"]
          /\ owner' = IF \A v \in Workers \ {w} : worker[v] # "unborn"
                        THEN "open" ELSE "creating"
    /\ UNCHANGED <<queues, flags, active_threads, stats, work, submitter,
                   waiter, history>>

\* pthread_create failed: ask the workers already running to stop, wake them
\* up without the mutex, and join them.
CreateFails ==
    /\ owner = "creating"
    /\ CreateMayFail
    /\ immediate_shutdown' = TRUE
    /\ owner' = "create_wake"
    /\ worker' = [w \in Workers |-> IF worker[w] = "unborn" THEN "exited" ELSE worker[w]]
    /\ UNCHANGED <<queues, shutdown, active_threads, stats, work, submitter,
                   waiter, history>>

CreateWake ==
    /\ owner = "create_wake"
    /\ worker' = WakeWorkers(worker)
    /\ owner' = "joining"
    /\ UNCHANGED <<queues, flags, active_threads, stats, work, submitter,
                   waiter, history>>

Quiet == /\ \A s \in Submitters : submitter[s].at = "idle"
         /\ \A t \in Waiters : waiter[t] = "idle"

\* The owner destroys the pool when no other call of it is running: a submit
\* or a wait in progress would use freed memory.
DestroySignal(wait) ==
    /\ owner = "open"
    /\ Quiet
    /\ shutdown' = (shutdown \/ wait)
    /\ immediate_shutdown' = (immediate_shutdown \/ ~wait)
    /\ owner' = "destroy_wake"
    /\ UNCHANGED <<queues, active_threads, stats, threads, submitter, waiter,
                   history>>

DestroyWake ==
    /\ owner = "destroy_wake"
    /\ worker' = WakeWorkers(worker)
    /\ owner' = "joining"
    /\ UNCHANGED <<queues, flags, active_threads, stats, work, submitter,
                   waiter, history>>

\* All workers joined: free what is left in the queues, and the pool.
DestroyFree ==
    /\ owner = "joining"
    /\ \A w \in Workers : worker[w] = "exited"
    /\ discarded' = Queued
    /\ queue' = [l \in Levels |-> <<>>]
    /\ queue_size' = 0
    /\ owner' = "freed"
    /\ UNCHANGED <<flags, active_threads, stats, threads, submitter, waiter,
                   calls, waits, ran, promised>>

Owner == CreateWorker \/ CreateFails \/ CreateWake
         \/ (\E wait \in DestroyModes : DestroySignal(wait))
         \/ DestroyWake \/ DestroyFree

-----------------------------------------------------------------------------
\* thread_pool_submit.

\* Fault: the priority is not clamped.
SubmitCallUnclamped(s, priority) ==
    /\ submitter[s].at = "idle"
    /\ owner = "open"
    /\ calls < MaxWork
    /\ calls' = calls + 1
    /\ submitter' = [submitter EXCEPT ![s] =
         IF shutdown THEN Outside
         ELSE [at |-> "check", item |-> calls + 1, level |-> priority]]
    /\ UNCHANGED <<queues, flags, active_threads, stats, threads, waiter,
                   owner, waits, ran, discarded, promised>>

\* Clamp the priority, then the test of `shutdown' before the mutex is taken.
SubmitCall(s, priority) ==
    /\ submitter[s].at = "idle"
    /\ owner = "open"
    /\ calls < MaxWork
    /\ calls' = calls + 1
    /\ submitter' = [submitter EXCEPT ![s] =
         IF shutdown THEN Outside
         ELSE [at    |-> "check", item |-> calls + 1,
               level |-> IF priority >= PRIORITY_MAX THEN PRIORITY_NORMAL ELSE priority]]
    /\ UNCHANGED <<queues, flags, active_threads, stats, threads, waiter,
                   owner, waits, ran, discarded, promised>>

\* Fault: off by one at the limit.
SubmitCheckLoose(s) ==
    /\ submitter[s].at = "check"
    /\ submitter' = [submitter EXCEPT ![s].at =
         IF MaxQueueSize > 0 /\ queue_size > MaxQueueSize THEN "reject" ELSE "append"]
    /\ UNCHANGED <<queues, flags, active_threads, stats, threads, waiter,
                   owner, history>>

\* The limit is tested in a critical section of its own.
SubmitCheck(s) ==
    /\ submitter[s].at = "check"
    /\ submitter' = [submitter EXCEPT ![s].at =
         IF MaxQueueSize > 0 /\ queue_size >= MaxQueueSize THEN "reject" ELSE "append"]
    /\ UNCHANGED <<queues, flags, active_threads, stats, threads, waiter,
                   owner, history>>

\* The queue was full, or malloc fails.
SubmitReject(s) ==
    /\ submitter[s].at \in {"reject", "append"}
    /\ rejected_count' = rejected_count + 1
    /\ submitter' = [submitter EXCEPT ![s] = Outside]
    /\ UNCHANGED <<queues, flags, active_threads, submitted_count,
                   completed_count, threads, waiter, owner, history>>

\* pthread_cond_signal wakes one waiting worker, if there is one.
SignalWorker ==
    IF \E w \in Workers : worker[w] = "waiting"
      THEN \E w \in Workers : /\ worker[w] = "waiting"
                              /\ worker' = [worker EXCEPT ![w] = "loop"]
      ELSE UNCHANGED worker

\* Fault: no worker is signalled.
SubmitAppendSilent(s) ==
    LET l == submitter[s].level IN
    /\ submitter[s].at = "append"
    /\ queue' = [queue EXCEPT ![l] = Append(@, submitter[s].item)]
    /\ queue_size' = queue_size + 1
    /\ submitted_count' = submitted_count + 1
    /\ submitter' = [submitter EXCEPT ![s] = Outside]
    /\ UNCHANGED <<flags, active_threads, completed_count, rejected_count,
                   threads, waiter, owner, history>>

SubmitAppend(s) ==
    LET l == submitter[s].level IN
    /\ submitter[s].at = "append"
    /\ queue' = [queue EXCEPT ![l] = Append(@, submitter[s].item)]
    /\ queue_size' = queue_size + 1
    /\ submitted_count' = submitted_count + 1
    /\ SignalWorker
    /\ submitter' = [submitter EXCEPT ![s] = Outside]
    /\ UNCHANGED <<flags, active_threads, completed_count, rejected_count,
                   work, waiter, owner, history>>

Submitter(s) == SubmitCheck(s) \/ SubmitReject(s) \/ SubmitAppend(s)

-----------------------------------------------------------------------------
\* worker_thread.

Idle == queue_size = 0 /\ ~shutdown

WorkerWait(w) ==
    /\ worker[w] = "loop"
    /\ Idle
    /\ worker' = [worker EXCEPT ![w] = "waiting"]
    /\ UNCHANGED <<queues, flags, active_threads, stats, work, submitter,
                   waiter, owner, history>>

WorkerExit(w) ==
    /\ worker[w] = "loop"
    /\ ~Idle
    /\ immediate_shutdown \/ (shutdown /\ queue_size = 0)
    /\ worker' = [worker EXCEPT ![w] = "exited"]
    /\ UNCHANGED <<queues, flags, active_threads, stats, work, submitter,
                   waiter, owner, history>>

\* Fault: the item taken is not unlinked.
WorkerTakeLinked(w) ==
    LET ready == {l \in Levels : queue[l] # <<>>} IN
    /\ worker[w] = "loop"
    /\ ~Idle
    /\ ~immediate_shutdown /\ ~(shutdown /\ queue_size = 0)
    /\ ready # {}
    /\ work' = [work EXCEPT ![w] = Head(queue[Max(ready)])]
    /\ queue_size' = queue_size - 1
    /\ worker' = [worker EXCEPT ![w] = "claimed"]
    /\ UNCHANGED <<queue, flags, active_threads, stats, submitter, waiter, owner, history>>

\* Take the first item of the highest priority that has one.
WorkerTake(w) ==
    LET ready == {l \in Levels : queue[l] # <<>>}
        top == Max(ready) IN
    /\ worker[w] = "loop"
    /\ ~Idle
    /\ ~immediate_shutdown /\ ~(shutdown /\ queue_size = 0)
    /\ ready # {}
    /\ work' = [work EXCEPT ![w] = Head(queue[top])]
    /\ queue' = [queue EXCEPT ![top] = Tail(@)]
    /\ queue_size' = queue_size - 1
    /\ worker' = [worker EXCEPT ![w] = "claimed"]
    /\ UNCHANGED <<flags, active_threads, stats, submitter, waiter, owner, history>>

WorkerActivate(w) ==
    /\ worker[w] = "claimed"
    /\ active_threads' = active_threads + 1
    /\ worker' = [worker EXCEPT ![w] = "running"]
    /\ UNCHANGED <<queues, flags, stats, work, submitter, waiter, owner, history>>

WorkerRun(w) ==
    /\ worker[w] = "running"
    /\ ran' = [ran EXCEPT ![work[w]] = @ + 1]
    /\ work' = [work EXCEPT ![w] = 0]
    /\ worker' = [worker EXCEPT ![w] = "ran"]
    /\ UNCHANGED <<queues, flags, active_threads, stats, submitter, waiter,
                   owner, calls, waits, discarded, promised>>

WorkerDeactivate(w) ==
    /\ worker[w] = "ran"
    /\ active_threads' = active_threads - 1
    /\ worker' = [worker EXCEPT ![w] = "count"]
    /\ UNCHANGED <<queues, flags, stats, work, submitter, waiter, owner, history>>

WorkerCount(w) ==
    /\ worker[w] = "count"
    /\ completed_count' = completed_count + 1
    /\ worker' = [worker EXCEPT ![w] = "notify"]
    /\ UNCHANGED <<queues, flags, active_threads, submitted_count,
                   rejected_count, work, submitter, waiter, owner, history>>

\* Fault: work_done is not broadcast.
WorkerNotifyNobody(w) ==
    /\ worker[w] = "notify"
    /\ worker' = [worker EXCEPT ![w] = "loop"]
    /\ UNCHANGED <<queues, flags, active_threads, stats, work, submitter,
                   waiter, owner, history>>

WorkerNotify(w) ==
    /\ worker[w] = "notify"
    /\ waiter' = WakeWaiters
    /\ worker' = [worker EXCEPT ![w] = "loop"]
    /\ UNCHANGED <<queues, flags, active_threads, stats, work, submitter,
                   owner, history>>

Worker(w) ==
    \/ WorkerWait(w) \/ WorkerExit(w) \/ WorkerTake(w) \/ WorkerActivate(w)
    \/ WorkerRun(w) \/ WorkerDeactivate(w) \/ WorkerCount(w) \/ WorkerNotify(w)

\* pthread_cond_wait may return without a signal.
SpuriousWorker(w) ==
    /\ worker[w] = "waiting"
    /\ worker' = [worker EXCEPT ![w] = "loop"]
    /\ UNCHANGED <<queues, flags, active_threads, stats, work, submitter,
                   waiter, owner, history>>

-----------------------------------------------------------------------------
\* thread_pool_wait.

WaitCall(t) ==
    /\ waiter[t] = "idle"
    /\ owner = "open"
    /\ waits < MaxWaits
    /\ waits' = waits + 1
    /\ promised' = [promised EXCEPT ![t] = Accepted]
    /\ waiter' = [waiter EXCEPT ![t] = "loop"]
    /\ UNCHANGED <<queues, flags, active_threads, stats, threads, submitter,
                   owner, calls, ran, discarded>>

\* Fault: the queue is not tested.
WaitTestActive(t) ==
    /\ waiter[t] = "loop"
    /\ waiter' = [waiter EXCEPT ![t] =
         IF active_threads > 0 THEN "waiting" ELSE "returning"]
    /\ UNCHANGED <<queues, flags, active_threads, stats, threads, submitter,
                   owner, history>>

\* Fault: the workers that run something are not tested.
WaitTestQueue(t) ==
    /\ waiter[t] = "loop"
    /\ waiter' = [waiter EXCEPT ![t] = IF queue_size > 0 THEN "waiting" ELSE "returning"]
    /\ UNCHANGED <<queues, flags, active_threads, stats, threads, submitter,
                   owner, history>>

WaitTest(t) ==
    /\ waiter[t] = "loop"
    /\ waiter' = [waiter EXCEPT ![t] =
         IF queue_size > 0 \/ active_threads > 0 THEN "waiting" ELSE "returning"]
    /\ UNCHANGED <<queues, flags, active_threads, stats, threads, submitter,
                   owner, history>>

WaitReturn(t) ==
    /\ waiter[t] = "returning"
    /\ waiter' = [waiter EXCEPT ![t] = "idle"]
    /\ promised' = [promised EXCEPT ![t] = {}]
    /\ UNCHANGED <<queues, flags, active_threads, stats, threads, submitter,
                   owner, calls, waits, ran, discarded>>

SpuriousWaiter(t) ==
    /\ waiter[t] = "waiting"
    /\ waiter' = [waiter EXCEPT ![t] = "loop"]
    /\ UNCHANGED <<queues, flags, active_threads, stats, threads, submitter,
                   owner, history>>

Waiter(t) == WaitTest(t) \/ WaitReturn(t)

-----------------------------------------------------------------------------
\* The pool is gone.
Freed == owner = "freed" /\ UNCHANGED vars

Next ==
    \/ Owner
    \/ \E s \in Submitters :
          Submitter(s) \/ \E priority \in Priorities : SubmitCall(s, priority)
    \/ \E w \in Workers : Worker(w) \/ SpuriousWorker(w)
    \/ \E t \in Waiters : WaitCall(t) \/ Waiter(t) \/ SpuriousWaiter(t)
    \/ Freed

Spec == Init /\ [][Next]_vars

\* Threads that can run do run: no work function loops for ever, and once
\* destroy or submit has been called it goes on.  Nobody has to call them,
\* malloc need not fail and no wakeup has to be spurious.
Fairness ==
    /\ WF_vars(CreateWorker)
    /\ WF_vars(CreateWake \/ DestroyWake \/ DestroyFree)
    /\ \A w \in Workers : WF_vars(Worker(w))
    /\ \A s \in Submitters : WF_vars(Submitter(s))
    /\ \A t \in Waiters : WF_vars(Waiter(t))

FairSpec == Spec /\ Fairness

-----------------------------------------------------------------------------
\* Properties.

WorkerStates == {"unborn", "loop", "waiting", "claimed", "running", "ran",
                 "count", "notify", "exited"}

\* Every variable has its type.
TypeOK ==
    /\ queue \in [Levels -> Seq(Work)]
    /\ queue_size \in Nat
    /\ shutdown \in BOOLEAN /\ immediate_shutdown \in BOOLEAN
    /\ active_threads \in Nat
    /\ submitted_count \in Nat /\ completed_count \in Nat /\ rejected_count \in Nat
    /\ worker \in [Workers -> WorkerStates]
    /\ work \in [Workers -> Work \cup {0}]
    /\ submitter \in [Submitters -> [at : {"idle", "check", "reject", "append"},
                                     item : Work \cup {0}, level : Levels]]
    /\ waiter \in [Waiters -> {"idle", "loop", "waiting", "returning"}]
    /\ owner \in {"creating", "create_wake", "open", "destroy_wake", "joining", "freed"}
    /\ calls \in Nat /\ waits \in Nat
    /\ ran \in [Work -> Nat]
    /\ discarded \in SUBSET Work
    /\ promised \in [Waiters -> SUBSET Work]

Executed == {i \in Work : ran[i] > 0}

\* active_threads, which is updated outside the mutex, is the number of
\* workers inside a work function.
ActiveExact ==
    active_threads = Cardinality({w \in Workers : worker[w] \in {"running", "ran"}})

\* No work item is lost, duplicated or executed twice on its way through the
\* linked lists and the workers; the statistics of thread_pool_stats count
\* exactly the items accepted, and thread_pool_destroy(pool, true) frees none
\* of them unexecuted.
WorkConserved ==
    /\ ActiveExact
    /\ shutdown => discarded = {}
    /\ \A i \in Work : ran[i] <= 1
    /\ queue_size = Len(queue[0]) + Len(queue[1]) + Len(queue[2])
    /\ queue_size = Cardinality(Queued)
    /\ Cardinality(Held) = Cardinality({w \in Workers : worker[w] \in {"claimed", "running"}})
    /\ Queued \cap (Held \cup Executed) = {} /\ Held \cap Executed = {}
    /\ submitted_count = Cardinality(Accepted)
    /\ completed_count + Cardinality({w \in Workers : worker[w] \in {"ran", "count"}})
         = Cardinality(Executed)

\* No wakeup is lost: while work is queued, the workers are not all asleep on
\* work_available, although submit signals only one of them.
NoLostWakeup ==
    Workers # {} /\ queue_size > 0
      => \E w \in Workers : worker[w] # "waiting"

\* The limit is tested and the item appended in two critical sections, so
\* each further submitter can push the queue one item over the limit, and no
\* more than one.
QueueOvershootBounded ==
    MaxQueueSize > 0 =>
        queue_size + Cardinality({s \in Submitters : submitter[s].at = "append"})
          <= MaxQueueSize - 1 + Cardinality(Submitters)

\* Work that thread_pool_submit accepted is eventually executed, unless the
\* pool is destroyed without waiting for it.
AcceptedWorkRuns ==
    \A i \in Work : i \in Accepted ~> ran[i] > 0 \/ immediate_shutdown

\* thread_pool_destroy returns in either mode; include/thread_pool.h: "If wait
\* is false, pending work items are discarded."
DestroyTerminates == owner = "destroy_wake" ~> owner = "freed"

\* thread_pool_wait returns, a waiter misses no broadcast of work_done; and
\* thread_pool_destroy(pool, true) returns, every worker leaves its loop.
CallsReturn ==
    /\ \A t \in Waiters : waiter[t] = "loop" ~> waiter[t] = "idle"
    /\ owner = "destroy_wake" /\ shutdown ~> owner = "freed"

\* thread_pool_wait gives up waiting only when everything accepted before the
\* call has run, but for the items that workers have taken from the queue
\* without yet counting themselves active, which they do after they released
\* the mutex.  An item whose work function has begun is always waited for.
WaitMissesOnlyTaken ==
    [][ \A t \in Waiters :
          waiter[t] = "loop" /\ waiter'[t] = "returning" =>
              promised[t] \subseteq
                  Executed \cup {work[w] : w \in {v \in Workers : worker[v] = "claimed"}} ]_vars

\* include/thread_pool.h: "thread_pool_wait() - Wait for all pending work to
\* complete".  When the call returns, what was accepted before it has run.
WaitCompletesWork ==
    \A t \in Waiters : waiter[t] = "returning" => promised[t] \subseteq Executed
=============================================================================
