SPECIFICATION Spec
CONSTANTS
    sln = sln
    sub = sub
    deep = deep
    alice = alice
    bob = bob
    avatar = avatar
    Slns = {sln}
    Subs = {sub}
    Parent <- MCParent
    Labels = {sln, sub}
    LabelsOf <- MCLabelsOf
    Addrs = {alice}
    UserKeys = {}
    Year = 1
    Grace = 1
    MinSubDuration = 1
    MaxYears = 1
    AdminYears = {}
    AdminPowers = {"deny", "authorize"}
    MaxTime = 3
    MaxNfts = 2
    NoRecord = NoRecord
    NoNft = NoNft
    NoAddr = NoAddr
    NoName = NoName
PROPERTIES
    DenyListRespected
    KillSwitch
CHECK_DEADLOCK FALSE
