\* One event, and two workers that dequeue.
SPECIFICATION Spec
CONSTANTS
    Submitters = {s1}
    Workers = {w1, w2}
    Waiter = waiter
    Dispatcher = dispatcher
    Owner = owner
    Capacity = 2
    WorkQueueSize = 2
    PoolSize = 1
    MaxEvents = 1
    MaxHandlers = 0
    MaxWaits = 0
    WithData = {TRUE}
    RateLimit = FALSE
    MallocFails = FALSE
INVARIANT HandledOnce
