\* One worker, one work item and one thread that waits for it.
SPECIFICATION Spec
CONSTANTS
    Workers = {w1}
    Submitters = {s1}
    Waiters = {t1}
    MaxQueueSize = 0
    MaxWork = 1
    MaxWaits = 1
    Priorities = {1}
    DestroyModes = {TRUE}
    CreateMayFail = FALSE
INVARIANT WaitCompletesWork
