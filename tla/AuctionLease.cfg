SPECIFICATION Spec
CONSTANTS
    foo = foo
    bar = bar
    ann = ann
    ben = ben
    Names = {foo}
    Bidders = {ann, ben}
    Funds = 4
    MinPrice = 1
    MinOverbid = 1
    BiddingPeriod = 3
    QuietPeriod = 2
    Year = 5
    Grace = 1
    Limits = {1, 2}
    LastStart = 9
    MaxNfts = 2
    NoAuction = NoAuction
    NoLease = NoLease
    NoOwner = NoOwner
    House = House
INVARIANTS
    EndsBeforeExpiry
    LeaseHeld
PROPERTIES
    QuietProtected
CHECK_DEADLOCK FALSE
