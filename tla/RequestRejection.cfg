SPECIFICATION SubsetsSpec
CONSTANTS
    d1 = d1
    d2 = d2
    d3 = d3
    Delegates = {p, d1, d2, d3}
    Primary = p
    VoteWeight <- UnitWeight
    StakeWeight <- UnitWeight
    Requests = {r1, r2}
    Submissions <- AnySubset
    Settings <- Disagreements
    Copies = 1
    MaxStamp = 3
    N = 4
INVARIANTS BatchAtFront AccountedFor DecidedOnce GivenUpRejected 
CHECK_DEADLOCK FALSE
