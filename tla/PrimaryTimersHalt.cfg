SPECIFICATION Spec
CONSTANTS
    t1 = t1
    t2 = t2
    t3 = t3
    Threads <- Pool
    Settings <- Races
    MaxRounds = 3
    MaxPosted = 3
INVARIANT NoHalt
CHECK_DEADLOCK FALSE
