SPECIFICATION GaugesSpec
CONSTANTS
    sln = sln
    sub = sub
    alice = alice
    avatar = avatar
    Slns = {sln}
    Subs = {sub}
    Parent <- MCParent
    Labels = {sub}
    LabelsOf <- MCLabelsOf
    Addrs = {alice}
    UserKeys = {avatar}
    Year = 1
    Grace = 1
    MinSubDuration = 1
    MaxYears = 1
    AdminYears = {0}
    AdminPowers = {"register", "remove"}
    MaxTime = 4
    MaxNfts = 2
    NoRecord = NoRecord
    NoNft = NoNft
    NoAddr = NoAddr
    NoName = NoName
    NoLabel = NoLabel
    Depth <- MCDepth
    SlnLength <- MCSlnLength
    Tracked <- MCTracked
    MaxGauge = 2
INVARIANTS
    RecordsCounted
    DefaultNamesCounted
    NeverUndercounts
CHECK_DEADLOCK FALSE
