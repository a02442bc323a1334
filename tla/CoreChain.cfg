SPECIFICATION Spec
CONSTANTS
    sln = sln
    sub = sub
    deep = deep
    alice = alice
    bob = bob
    avatar = avatar
    Slns = {sln}
    Subs = {sub, deep}
    Parent <- MCParent
    Labels = {sln, sub, deep}
    LabelsOf <- MCLabelsOf
    Addrs = {}
    UserKeys = {}
    Year = 2
    Grace = 1
    MinSubDuration = 1
    MaxYears = 1
    AdminYears = {}
    AdminPowers = {}
    MaxTime = 6
    MaxNfts = 4
    NoRecord = NoRecord
    NoNft = NoNft
    NoAddr = NoAddr
    NoName = NoName
INVARIANTS
    LiveChain
    ChainInv
CHECK_DEADLOCK FALSE
