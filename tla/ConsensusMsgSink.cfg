CONSTANTS
    ConsensusTypes = {Request, MicroBlock}
    MaxPushes = 5
    NoMessage = NoMessage
SPECIFICATION FairSpec
INVARIANTS OneTaskOutstanding DispatchedByOwnType
PROPERTIES IsSerialQueue EventuallyDrained
CHECK_DEADLOCK FALSE
