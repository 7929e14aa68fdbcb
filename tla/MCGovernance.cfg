SPECIFICATION Spec
CONSTANTS
    NoInfo = NoInfo
    NoFallback = NoFallback
    NoRep = NoRep
    NoStake = NoStake
    NoCandidate = NoCandidate
    NoToken = NoToken
    NoEntry = NoEntry
    NoStatus = NoStatus
    TokenId = 7
    MaxControllers = 2
    ThawingPeriod = 2
    NumDelegates = 4
    TermLength = 2
    StartElections = 4
    Accounts <- MCAccounts
    Scenarios <- MCScenarios
    Fee = 1
    MinRepStake = 3
    MinDelegateStake = 5
    LevyPercentage = 50
    NewLogos = 5
    Unit = 216
INVARIANTS
    FundsConserved
    PowerWindow
    
    LiabilitiesMatch
    
    
    
    ClaimsEarned
    TokensConserved
    StatusKept
CHECK_DEADLOCK FALSE
