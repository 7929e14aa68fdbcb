SPECIFICATION Spec
CONSTANTS
    FirstEpoch = 3
    LastEpoch = 6
INVARIANTS
    NeverHalts
    ManagersMatch
    ArchiverFollows
CHECK_DEADLOCK FALSE
