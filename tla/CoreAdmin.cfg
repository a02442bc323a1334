SPECIFICATION Spec
CONSTANTS
    sln = sln
    sub = sub
    deep = deep
    alice = alice
    bob = bob
    avatar = avatar
    Slns = {sln}
    Subs = {sub}
    Parent <- MCParent
    Labels = {sln, sub, deep}
    LabelsOf <- MCLabelsOf
    Addrs = {alice}
    UserKeys = {}
    Year = 2
    Grace = 1
    MinSubDuration = 1
    MaxYears = 1
    AdminYears = {0, 3}
    AdminPowers = {"register", "remove"}
    MaxTime = 4
    MaxNfts = 3
    NoRecord = NoRecord
    NoNft = NoNft
    NoAddr = NoAddr
    NoName = NoName
INVARIANTS
    NeverOutlivesParent
    OwnershipInv
PROPERTIES
    ImplementsTenancy
    OrphanCannotExtend
CHECK_DEADLOCK FALSE
