\* An executor and a waiter on one condition variable.
SPECIFICATION FairSpec
CONSTANTS
    Executors = {e1}
    Waiters = {w1}
    Owner = owner
    MaxHooks = 1
    MaxConcurrent = 1
    MaxIds = 1
    MaxRuns = 2
    MaxCalls = 3
    MaxUnregisters = 0
    MaxChanges = 0
PROPERTY ExecuteReturns
