\* Room for one event, so that the ring refuses; no handlers, and allocations
\* that succeed.
SPECIFICATION FairSpec
CONSTANTS
    Submitters = {s1}
    Workers = {w1}
    Waiter = waiter
    Dispatcher = dispatcher
    Owner = owner
    Capacity = 2
    WorkQueueSize = 1
    PoolSize = 1
    MaxEvents = 2
    MaxHandlers = 0
    MaxWaits = 1
    WithData = {FALSE}
    RateLimit = FALSE
    MallocFails = FALSE
INVARIANTS OneOwner SubmitsAccounted
PROPERTIES AdmittedEventsHandled CallsReturn
