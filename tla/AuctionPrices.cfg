SPECIFICATION Spec
CONSTANTS
    foo = foo
    bar = bar
    ann = ann
    ben = ben
    Names = {foo}
    Bidders = {ann, ben}
    Funds = 2
    MinPrice = 1
    MinOverbid = 1
    BiddingPeriod = 1
    QuietPeriod = 2
    Year = 3
    Grace = 1
    Limits = {1, 2}
    LastStart = 1
    MaxNfts = 2
    NoAuction = NoAuction
    NoLease = NoLease
    NoOwner = NoOwner
    House = House
PROPERTIES
    FinalPriceReported
CHECK_DEADLOCK FALSE
