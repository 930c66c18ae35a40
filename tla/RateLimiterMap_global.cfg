\* Two types, of which only 0 need be set.
SPECIFICATION Spec
CONSTANTS
    Threads = {h1}
    Types = {0, 1}
    Buckets = 1
    MaxSets = 1
    MaxCalls = 1
PROPERTY GlobalLimitApplies
