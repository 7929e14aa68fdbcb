SPECIFICATION Spec
CONSTANTS
    Delegates = {p, d1, d2}
    Primary = p
    VoteWeight <- SteadyBackup
    StakeWeight <- SteadyBackup
    Crashable = {p, d1}
    Doubters = {d1}
    Stores = {p, d1}
    MaxBatches = 2
    MaxRestarts = 1
CONSTRAINT OneStore
INVARIANTS Agreement VotesOnce NoHaltOnPostPrepare BackupFollowsChain StoredChain
PROPERTY CounterAdvances
CHECK_DEADLOCK FALSE
