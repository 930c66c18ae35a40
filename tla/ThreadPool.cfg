\* Two workers, two submitters that pass the lowest priority and one out of
\* range, and one waiter; a queue limit of one.
SPECIFICATION FairSpec
CONSTANTS
    Workers = {w1, w2}
    Submitters = {s1, s2}
    Waiters = {t1}
    MaxQueueSize = 1
    MaxWork = 3
    MaxWaits = 1
    Priorities = {0, 3}
    DestroyModes = {TRUE, FALSE}
    CreateMayFail = TRUE
INVARIANTS TypeOK WorkConserved NoLostWakeup QueueOvershootBounded
PROPERTIES AcceptedWorkRuns CallsReturn WaitMissesOnlyTaken
