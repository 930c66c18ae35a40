\* An idle worker, and a destroy that does not wait.
SPECIFICATION FairSpec
CONSTANTS
    Workers = {w1}
    Submitters = {s1}
    Waiters = {}
    MaxQueueSize = 0
    MaxWork = 1
    MaxWaits = 0
    Priorities = {1}
    DestroyModes = {FALSE}
    CreateMayFail = FALSE
PROPERTY DestroyTerminates
