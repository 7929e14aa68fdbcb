SPECIFICATION Spec
CONSTANTS
    d1 = d1
    d2 = d2
    d3 = d3
    a1 = a1
    a2 = a2
    b1 = b1
    Delegates <- MCDelegates
    Sent <- MCSent
    Requests <- MCRequests
    NoRequest = NoRequest
    Keys <- MCKeys
    Account <- MCAccount
    Reserves <- MCReserves
    Previous <- MCPrevious
    Quorums <- MCQuorums
    Restarting = {d3}
    Period = 2
    FirstEpoch = 1
    Epochs <- MCEpochs
    MaxRounds = 2
INVARIANTS
    Serialized
    NoFork
CHECK_DEADLOCK FALSE
