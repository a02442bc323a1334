SPECIFICATION FairSpec
CONSTANTS
    foo = foo
    bar = bar
    ann = ann
    ben = ben
    Names = {foo, bar}
    Bidders = {ann, ben}
    Funds = 3
    MinPrice = 1
    MinOverbid = 1
    BiddingPeriod = 1
    QuietPeriod = 2
    Year = 3
    Grace = 1
    Limits = {1, 2}
    LastStart = 2
    MaxNfts = 2
    NoAuction = NoAuction
    NoLease = NoLease
    NoOwner = NoOwner
    House = House
INVARIANTS
    TypeOK
    BiddersWhole
    MoneyConserved
PROPERTIES
    AwardedToLastBidder
    AuctionsClose
CHECK_DEADLOCK FALSE
