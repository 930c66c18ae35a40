----------------------------- MODULE ObjectPool -----------------------------
(***************************************************************************)
(* The object pool of src/core/object_pool.c as its two users, event_pool.c *)
(* and filter_pool.c, call it: both free the buffers an object owns before *)
(* they return the object.  The free list is a stack under the mutex; the  *)
(* statistics are atomics updated after the mutex is released, each update *)
(* a step of its own.                                                      *)
(*                                                                         *)
(* `live' is the set of objects that are allocated, `buffers' the set of   *)
(* objects whose attached buffer is allocated, and `dirty' those           *)
(* with contents.                                                          *)
(***************************************************************************)
EXTENDS Integers, FiniteSets, FiniteSetsExt

CONSTANTS
    Threads,        \* callers of the pool
    Capacity,       \* pool->capacity
    MaxHeap,        \* bound: objects calloc can still provide
    MaxAllocs,      \* bound: alloc calls in a behaviour
    MaxResets       \* bound: reset_stats calls in a behaviour

Object == 1 .. Capacity + MaxHeap
Null == 0

VARIABLES
    objects, free_count,            \* the free list
    allocated, peak_usage, total_allocs, total_frees, pool_hits, pool_misses,
    live, buffers, dirty,           \* memory
    at, mine,                       \* each thread and the object it holds
    count,                          \* the local `allocated' of a thread's alloc
    destroyed, calls, resets

list == <<objects, free_count>>
stats == <<allocated, peak_usage, total_allocs, total_frees, pool_hits, pool_misses>>
memory == <<live, buffers, dirty>>
history == <<destroyed, calls, resets>>
vars == <<list, stats, memory, at, mine, count, history>>

\* object_pool_create: all objects are allocated at once.
Init ==
    /\ objects = [i \in 0 .. Capacity - 1 |-> i + 1]
    /\ free_count = Capacity
    /\ allocated = 0 /\ peak_usage = 0
    /\ total_allocs = 0 /\ total_frees = 0 /\ pool_hits = 0 /\ pool_misses = 0
    /\ live = 1 .. Capacity /\ buffers = {} /\ dirty = {}
    /\ at = [t \in Threads |-> "idle"]
    /\ mine = [t \in Threads |-> Null]
    /\ count = [t \in Threads |-> 0]
    /\ destroyed = FALSE /\ calls = 0 /\ resets = 0

Holding == {t \in Threads : mine[t] # Null}

-----------------------------------------------------------------------------
\* object_pool_alloc.

\* Fault: the slot keeps its pointer.
AllocHitKeepsSlot(t) ==
    /\ at[t] = "idle" /\ ~destroyed
    /\ calls < MaxAllocs /\ calls' = calls + 1
    /\ free_count > 0
    /\ mine' = [mine EXCEPT ![t] = objects[free_count - 1]]
    /\ free_count' = free_count - 1
    /\ pool_hits' = pool_hits + 1
    /\ at' = [at EXCEPT ![t] = "alloc_count"]
    /\ UNCHANGED <<objects, allocated, peak_usage, total_allocs, total_frees,
                   pool_misses, memory, count, destroyed, resets>>

AllocHit(t) ==
    /\ at[t] = "idle" /\ ~destroyed
    /\ calls < MaxAllocs /\ calls' = calls + 1
    /\ free_count > 0
    /\ mine' = [mine EXCEPT ![t] = objects[free_count - 1]]
    /\ objects' = [objects EXCEPT ![free_count - 1] = Null]
    /\ free_count' = free_count - 1
    /\ pool_hits' = pool_hits + 1
    /\ at' = [at EXCEPT ![t] = "alloc_count"]
    /\ UNCHANGED <<allocated, peak_usage, total_allocs, total_frees,
                   pool_misses, memory, count, destroyed, resets>>

\* The pool is empty; calloc may fail, and the miss is counted all the same.
AllocMiss(t) ==
    /\ at[t] = "idle" /\ ~destroyed
    /\ calls < MaxAllocs /\ calls' = calls + 1
    /\ free_count = 0
    /\ pool_misses' = pool_misses + 1
    /\ \/ /\ Object \ live # {}
          /\ mine' = [mine EXCEPT ![t] = Min(Object \ live)]
          /\ live' = live \cup {Min(Object \ live)}
          /\ at' = [at EXCEPT ![t] = "alloc_count"]
       \/ UNCHANGED <<mine, live, at>>
    /\ UNCHANGED <<list, allocated, peak_usage, total_allocs, total_frees,
                   pool_hits, buffers, dirty, count, destroyed, resets>>

AllocCount(t) ==
    /\ at[t] = "alloc_count"
    /\ allocated' = allocated + 1
    /\ count' = [count EXCEPT ![t] = allocated + 1]
    /\ at' = [at EXCEPT ![t] = "alloc_total"]
    /\ UNCHANGED <<list, peak_usage, total_allocs, total_frees, pool_hits,
                   pool_misses, memory, mine, history>>

AllocTotal(t) ==
    /\ at[t] = "alloc_total"
    /\ total_allocs' = total_allocs + 1
    /\ at' = [at EXCEPT ![t] = "alloc_peak"]
    /\ UNCHANGED <<list, allocated, peak_usage, total_frees, pool_hits, pool_misses,
                   memory, mine, count, history>>

\* Fault: the peak is stored without looking at what it is by then.
AllocPeakPlainStore(t) ==
    /\ at[t] = "alloc_peak"
    /\ peak_usage' = count[t]
    /\ dirty' = dirty \ {mine[t]}
    /\ at' = [at EXCEPT ![t] = "holding"]
    /\ UNCHANGED <<list, allocated, total_allocs, total_frees, pool_hits,
                   pool_misses, live, buffers, mine, count, history>>

\* The compare-and-swap loop leaves the larger value; then the object is zeroed.
AllocPeak(t) ==
    /\ at[t] = "alloc_peak"
    /\ peak_usage' = Max({peak_usage, count[t]})
    /\ dirty' = dirty \ {mine[t]}
    /\ at' = [at EXCEPT ![t] = "holding"]
    /\ UNCHANGED <<list, allocated, total_allocs, total_frees, pool_hits,
                   pool_misses, live, buffers, mine, count, history>>

\* The caller fills the object, and attaches a buffer to it.
Use(t) ==
    /\ at[t] = "holding"
    /\ mine[t] \notin dirty
    /\ dirty' = dirty \cup {mine[t]}
    /\ buffers' = buffers \cup {mine[t]}
    /\ UNCHANGED <<list, stats, live, at, mine, count, history>>

-----------------------------------------------------------------------------
\* event_pool_free and filter_pool_free, then object_pool_free.

\* Fault: the attached buffer is not freed.
FreeBuffersLate(t) ==
    /\ at[t] = "holding"
    /\ dirty' = dirty \ {mine[t]}
    /\ at' = [at EXCEPT ![t] = "free_push"]
    /\ UNCHANGED <<list, stats, live, buffers, mine, count, history>>

FreeBuffers(t) ==
    /\ at[t] = "holding"
    /\ buffers' = buffers \ {mine[t]}
    /\ dirty' = dirty \ {mine[t]}
    /\ at' = [at EXCEPT ![t] = "free_push"]
    /\ UNCHANGED <<list, stats, live, mine, count, history>>

\* Fault: the capacity is not tested.
FreePushOverfull(t) ==
    /\ at[t] = "free_push"
    /\ objects' = [i \in DOMAIN objects |-> IF i = free_count THEN mine[t] ELSE objects[i]]
    /\ free_count' = free_count + 1
    /\ mine' = [mine EXCEPT ![t] = Null]
    /\ at' = [at EXCEPT ![t] = "free_count"]
    /\ UNCHANGED <<stats, memory, count, history>>

FreePush(t) ==
    /\ at[t] = "free_push"
    /\ IF free_count < Capacity
         THEN /\ objects' = [objects EXCEPT ![free_count] = mine[t]]
              /\ free_count' = free_count + 1
              /\ UNCHANGED live
         ELSE /\ live' = live \ {mine[t]}
              /\ UNCHANGED list
    /\ mine' = [mine EXCEPT ![t] = Null]
    /\ at' = [at EXCEPT ![t] = "free_count"]
    /\ UNCHANGED <<stats, buffers, dirty, count, history>>

FreeCount(t) ==
    /\ at[t] = "free_count"
    /\ allocated' = allocated - 1
    /\ at' = [at EXCEPT ![t] = "free_total"]
    /\ UNCHANGED <<list, peak_usage, total_allocs, total_frees, pool_hits,
                   pool_misses, memory, mine, count, history>>

FreeTotal(t) ==
    /\ at[t] = "free_total"
    /\ total_frees' = total_frees + 1
    /\ at' = [at EXCEPT ![t] = "idle"]
    /\ UNCHANGED <<list, allocated, peak_usage, total_allocs, pool_hits, pool_misses,
                   memory, mine, count, history>>

-----------------------------------------------------------------------------
\* object_pool_reset_stats keeps allocated and peak_usage and clears the other
\* four counters one after the other; `resets' counts these stores.
ResetStats ==
    /\ ~destroyed
    /\ resets < 4 * MaxResets /\ resets' = resets + 1
    /\ LET Cleared(i, n) == IF resets % 4 = i THEN 0 ELSE n IN
         /\ total_allocs' = Cleared(0, total_allocs)
         /\ total_frees' = Cleared(1, total_frees)
         /\ pool_hits' = Cleared(2, pool_hits)
         /\ pool_misses' = Cleared(3, pool_misses)
    /\ UNCHANGED <<list, allocated, peak_usage, memory, at, mine, count,
                   destroyed, calls>>

\* object_pool_destroy, with all objects returned as object_pool.h demands.
Destroy ==
    /\ ~destroyed /\ resets % 4 = 0
    /\ \A t \in Threads : at[t] = "idle"
    /\ live' = live \ {objects[i] : i \in 0 .. Capacity - 1}
    /\ destroyed' = TRUE
    /\ UNCHANGED <<list, stats, buffers, dirty, at, mine, count, calls, resets>>

Destroyed == destroyed /\ UNCHANGED vars

Next ==
    \/ \E t \in Threads :
          \/ AllocHit(t) \/ AllocMiss(t) \/ AllocCount(t) \/ AllocTotal(t) \/ AllocPeak(t)
          \/ Use(t) \/ FreeBuffers(t) \/ FreePush(t) \/ FreeCount(t) \/ FreeTotal(t)
    \/ ResetStats \/ Destroy \/ Destroyed

Spec == Init /\ [][Next]_vars

-----------------------------------------------------------------------------
\* Properties.

States == {"idle", "alloc_count", "alloc_total", "alloc_peak", "holding",
           "free_push", "free_count", "free_total"}

\* Every variable has its type; in particular `allocated' never wraps below 0.
TypeOK ==
    /\ objects \in [0 .. Capacity - 1 -> Object \cup {Null}]
    /\ free_count \in 0 .. Capacity
    /\ \A n \in {allocated, peak_usage, total_allocs, total_frees,
                 pool_hits, pool_misses} : n \in Nat
    /\ live \subseteq Object /\ buffers \subseteq Object /\ dirty \subseteq Object
    /\ at \in [Threads -> States]
    /\ mine \in [Threads -> Object \cup {Null}]

Free == {objects[i] : i \in 0 .. free_count - 1}

\* An object is either in the free list, once, or held by one thread, also
\* when heap objects were returned to the list in place of the pool's own; the
\* slots above free_count are empty, so that object_pool_destroy frees no
\* object twice and none that is in use, and leaves nothing allocated.
OneHolder ==
    /\ destroyed => live = {} /\ buffers = {}
    /\ ~destroyed =>
        /\ Cardinality(Free) = free_count
        /\ \A i \in free_count .. Capacity - 1 : objects[i] = Null
        /\ \A t, u \in Holding : t # u => mine[t] # mine[u]
        /\ Free \cap {mine[t] : t \in Holding} = {}
        /\ live = Free \cup {mine[t] : t \in Holding}

\* include/object_pool.h: "Object is zeroed before returning to pool".  No caller sees
\* what another left in the object, and no attached buffer is lost when the
\* object is zeroed.
CleanHandover ==
    /\ Free \cap dirty = {}
    /\ \A o \in buffers : \E t \in Threads : at[t] = "holding" /\ mine[t] = o

\* `allocated', updated outside the mutex, is right whenever no call is running,
\* and the totals agree with it until they are reset.  peak_usage is never below
\* the number of objects callers have in hand, whatever the order in which their
\* calls update it.
UsageSettles ==
    /\ (\A t \in Threads : at[t] \in {"idle", "holding"}) =>
        /\ allocated = Cardinality(Holding)
        /\ resets = 0 => total_allocs = total_frees + allocated
    /\ peak_usage >= Cardinality({t \in Threads : at[t] = "holding"})
=============================================================================
