SPECIFICATION PaySpec
CONSTANTS
    long = long
    alice = alice
    bob = bob
    code1 = code1
    code2 = code2
    partner = partner
    Slns = {long}
    Subs = {}
    Parent <- MCParent
    Labels = {}
    LabelsOf <- MCLabelsOf
    Addrs = {}
    UserKeys = {}
    Year = 1
    Grace = 1
    MinSubDuration = 1
    MaxYears = 2
    AdminYears = {}
    AdminPowers = {"authorize"}
    MaxTime = 3
    MaxNfts = 1
    NoRecord = NoRecord
    NoNft = NoNft
    NoAddr = NoAddr
    NoName = NoName
    Users = {alice, bob}
    Length <- MCLength
    Pricing <- MCPricing
    RenewalPricing <- MCRenewalPricing
    Codes = {code1, code2}
    Offers <- MCOffers
    PartnerApps = {partner}
    MaxApplied = 2
    NoCoupon = NoCoupon
    NoRule = NoRule
    NoTx = NoTx
INVARIANTS
    PayTypeOK
    ClaimsKept
    ExclusiveAlone
    EveryYearPaid
PROPERTIES
    HouseFrozen
    ImplementsCore
CHECK_DEADLOCK FALSE
