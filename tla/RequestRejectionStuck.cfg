SPECIFICATION FairSpec
CONSTANTS
    d1 = d1
    d2 = d2
    d3 = d3
    Delegates = {p, d1, d2, d3}
    Primary = p
    VoteWeight <- UnitWeight
    StakeWeight <- UnitWeight
    Requests = {r1, r2}
    Submissions <- AnySubset
    Settings <- SplitTimeouts
    Copies = 1
    MaxStamp = 2
PROPERTY SessionsEnd
CHECK_DEADLOCK FALSE
