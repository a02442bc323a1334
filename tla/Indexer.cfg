SPECIFICATION FairSpec
CONSTANTS
    alice = alice
    bob = bob
    avatar = avatar
    NoLabel = NoLabel
    SlnLength <- MCLength
    Depth <- MCDepth
    DefaultPageSize = 1
    MaxPageSize = 2
    AnyBidder = AnyBidder
    AnyStatus = AnyStatus
    NoSize = NoSize
    Setups <- MCSetups
    EnvPackages = NoEnv
    Metrics <- MCMetrics
    Requests <- MCRequests
    MaxLives = 2
    NoEnv = NoEnv
    NoFile = NoFile
    NoRequest = NoRequest
    NoBalance = NoBalance
INVARIANTS
    TypeOK
    RowsConverge
    MetricsExact
    PageAnswers
PROPERTIES
    ImplementsIngestion
    CatchesUp
    FailureStops
CHECK_DEADLOCK FALSE
