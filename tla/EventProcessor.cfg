\* One submitter, one worker, and a handler that comes and goes.
SPECIFICATION Spec
CONSTANTS
    Submitters = {s1}
    Workers = {w1}
    Waiter = waiter
    Dispatcher = dispatcher
    Owner = owner
    Capacity = 4
    WorkQueueSize = 1
    PoolSize = 1
    MaxEvents = 2
    MaxHandlers = 1
    MaxWaits = 1
    WithData = {TRUE}
    RateLimit = TRUE
    MallocFails = TRUE
INVARIANTS TypeOK OneOwner HandledInOrder CalledWhileRegistered WaitMeansProcessed
