SPECIFICATION Spec
CONSTANTS
    t1 = t1
    t2 = t2
    Blocks <- MCBlocks
    Kind <- MCKind
    Epoch <- MCEpoch
    Chain <- MCChain
    Sequence <- MCSequence
    Previous <- MCPrevious
    Content <- MCContent
    Needs <- MCNeeds
    LastMicro <- MCLastMicro
    ArrivesAfter <- MCArrivesAfter
    Chains = {"A", "B"}
    Threads = {t1, t2}
    Settings <- TwoThreads
    MaxRecent = 2
    None = None
INVARIANTS
    NoLostWakeup
CHECK_DEADLOCK FALSE
