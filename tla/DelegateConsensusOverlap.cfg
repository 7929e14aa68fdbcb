SPECIFICATION Spec
CONSTANTS
    Delegates = {p, d1, d2}
    Primary = p
    VoteWeight <- HeavyBackups
    StakeWeight <- HeavyBackups
    Crashable = {p}
    Doubters = {}
    Stores = {p}
    MaxBatches = 2
    MaxRestarts = 1
INVARIANT Agreement
CHECK_DEADLOCK FALSE
