\* Hooks of both kinds, registered and removed while others run; a limit of two.
SPECIFICATION FairSpec
CONSTANTS
    Executors = {e1}
    Waiters = {w1}
    Owner = owner
    MaxHooks = 2
    MaxConcurrent = 2
    MaxIds = 2
    MaxRuns = 3
    MaxCalls = 3
    MaxUnregisters = 1
    MaxChanges = 1
INVARIANTS TypeOK ConcurrencyBounded WaitMeansEnded StatsAttributed
PROPERTY CallsReturn
