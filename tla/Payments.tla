------------------------------- MODULE Payments -------------------------------
(***************************************************************************)
(* Paying for a name: the payment intent from init_registration or         *)
(* init_renewal through apply_coupon and handle_base_payment to register   *)
(* or renew, with the coupon house and the balance of the protocol, over   *)
(* the registry of IotaNames.                                              *)
(*                                                                         *)
(* One transaction carries one intent here, in tx, and its commands are    *)
(* steps; the objects it uses are shared, so no other transaction comes    *)
(* in between.  Intent and receipt are hot potatoes: a transaction ends by *)
(* redeeming the receipt, or it aborts and everything it did is undone.    *)
(* IotaNames takes the same transaction in one step (Register, Renew), and *)
(* this module shows that it may.                                          *)
(***************************************************************************)
EXTENDS IotaNames

CONSTANTS
    Users,            \* senders of payment transactions
    Length,           \* Length[n]: the length of a second-level label
    Pricing,          \* PricingConfig: price ranges
    RenewalPricing,   \* RenewalConfig
    Codes,            \* coupon codes (their hashes)
    Offers,           \* Offers[c]: the coupons that may be saved under c
    PartnerApps,      \* apps the coupon house may authorise
    MaxApplied,       \* bound on the uses of a code in one intent
    NoCoupon, NoRule, NoTx

CouponsVersion == 1       \* coupons_version!()
Versions == {1, 2}        \* those the administrator sets

PriceRange == [from : Nat, to : Nat, price : Nat]
Range == [from : Nat, to : Nat]

InRange(r, x) == r.from <= x /\ x <= r.to

\* A coupon and its CouponRules; NoRule where the option is none.
CouponFields == [kind : {"percentage", "fixed"}, amount : Nat,
                 length : Range \cup {NoRule}, claims : Nat \cup {NoRule},
                 user : Users \cup {NoRule}, expiration : Nat \cup {NoRule},
                 years : Range \cup {NoRule}, stack : BOOLEAN]

\* new_percentage refuses anything above 100.
Coupon == {o \in CouponFields : o.kind = "percentage" => o.amount \in 1..100}

\* The RequestData of a PaymentIntent, or of the Receipt once it is paid; what
\* has been applied to it; and what an abort restores.
Intent == [user : Users, kind : {"registration", "renewal"}, name : Slns,
           years : 1..MaxYears, amount : Nat, metadata : {"absent", "false", "true"},
           applied : [Codes -> Nat], discount : Nat, paid : BOOLEAN,
           before : [coupons : [Codes -> Coupon \cup {NoCoupon}], balance : Nat]]

\* pricing_config::new and new_range: ranges do not overlap.
WellFormed(pricing) ==
    /\ pricing \subseteq PriceRange
    /\ \A r, s \in pricing : r # s => r.to < s.from \/ s.to < r.from

ASSUME PricingAssumption ==
    /\ Length \in [Slns -> Nat]
    /\ WellFormed(Pricing)
    /\ WellFormed(RenewalPricing)

\* new_coupon_rules refuses a coupon without claims.
ASSUME OffersAssumption ==
    /\ Offers \in [Codes -> SUBSET Coupon]
    /\ \A c \in Codes : \A o \in Offers[c] : o.claims # 0

ASSUME PaymentsBoundsAssumption == MaxApplied \in Nat

ASSUME PaymentsNullsAssumption ==
    /\ NoCoupon \notin CouponFields
    /\ NoRule \notin Nat \cup Range \cup Users
    /\ NoTx \notin Intent

VARIABLES
    tx,               \* the transaction under way
    coupons,          \* Coupons.coupons
    version,          \* CouponHouse.version
    couponApps,       \* the apps authorised at the coupon house
    couponsAuth,      \* is CouponsAuth authorised at IotaNames?
    balance,          \* the protocol's balance in the base currency
    withdrawn,        \* what the administrator took out of it, so far
    offer,            \* each code's coupon as saved, unless removed since
    used,             \* how often that coupon was applied, if its claims are limited
    due               \* list price of every term granted, less the discounts

coreVars == vars
houseVars == <<coupons, version, couponApps, couponsAuth>>
moneyVars == <<balance, withdrawn, due>>
claimVars == <<offer, used>>
payVars == <<coreVars, tx, houseVars, moneyVars, claimVars>>

PayInit ==
    /\ Init
    /\ tx = NoTx
    /\ coupons = [c \in Codes |-> NoCoupon]
    /\ version = CouponsVersion
    /\ couponApps = {}
    /\ couponsAuth = TRUE
    /\ balance = 0
    /\ withdrawn = 0
    /\ offer = [c \in Codes |-> NoCoupon]
    /\ used = [c \in Codes |-> 0]
    /\ due = 0

Idle == tx = NoTx

-----------------------------------------------------------------------------
(* Prices.                                                                 *)

HasPrice(pricing, n) == \E r \in pricing : InRange(r, Length[n])
PriceOf(pricing, n) == (CHOOSE r \in pricing : InRange(r, Length[n])).price

\* The first year of a registration has a price of its own.
ListPrice(kind, n, years) ==
    IF kind = "renewal" THEN PriceOf(RenewalPricing, n) * years
    ELSE IF years = 1 THEN PriceOf(Pricing, n)
    ELSE PriceOf(Pricing, n) + PriceOf(RenewalPricing, n) * (years - 1)

-----------------------------------------------------------------------------
(* The intent and the coupons applied to it.                               *)

\* metadata: the value of "used_not_stacking_coupon", if it is there.
Open(user, kind, n, years) ==
    tx' = [user |-> user, kind |-> kind, name |-> n, years |-> years,
           amount |-> ListPrice(kind, n, years), metadata |-> "absent",
           applied |-> [c \in Codes |-> 0], discount |-> 0, paid |-> FALSE,
           before |-> [coupons |-> coupons, balance |-> balance]]

\* init_registration and init_registration_with_years.
InitRegistration(user, n, years) ==
    /\ Idle
    /\ ~DenyListed(n)
    /\ HasPrice(Pricing, n)
    /\ years > 1 => years <= MaxYears /\ HasPrice(RenewalPricing, n)
    /\ Open(user, "registration", n, years)
    /\ UNCHANGED <<coreVars, houseVars, moneyVars, claimVars>>

\* Any NFT of the name will do, a superseded one included.
InitRenewal(user, i, years) ==
    /\ Idle
    /\ Exists(i)
    /\ nfts[i].name \in Slns
    /\ years <= MaxYears
    /\ HasPrice(RenewalPricing, nfts[i].name)
    /\ Open(user, "renewal", nfts[i].name, years)
    /\ UNCHANGED <<coreVars, houseVars, moneyVars, claimVars>>

\* coupon_house_mut: every change of the house goes through it.
HouseOpen_AnyVersion == couponsAuth
HouseOpen == couponsAuth /\ version = CouponsVersion

CanStack_IgnoresCoupon(coupon) == tx.metadata = "false"
\* Only asked when another coupon came first.
CanStack(coupon) == tx.metadata = "false" /\ coupon.stack

Discount_Uncapped(coupon, price) ==
    IF coupon.kind = "percentage" THEN (price * coupon.amount) \div 100 ELSE coupon.amount
Discount(coupon, price) ==
    IF coupon.kind = "percentage" THEN (price * coupon.amount) \div 100
    ELSE IF coupon.amount < price THEN coupon.amount ELSE price

\* The five rules of apply_coupon.
RulesAllow(coupon) ==
    /\ coupon.claims # 0
    /\ coupon.length # NoRule => InRange(coupon.length, Length[tx.name])
    /\ coupon.user \in {NoRule, tx.user}
    /\ coupon.expiration # NoRule => now <= coupon.expiration
    /\ coupon.years # NoRule => InRange(coupon.years, tx.years)

\* decrease_available_claims and the removal of a coupon that has none left.
Claim_NeverRemoved(coupon) ==
    IF coupon.claims = NoRule THEN coupon ELSE [coupon EXCEPT !.claims = @ - 1]
Claim(coupon) ==
    IF coupon.claims = NoRule THEN coupon
    ELSE IF coupon.claims = 1 THEN NoCoupon
    ELSE [coupon EXCEPT !.claims = @ - 1]

ApplyCoupon(c) ==
    /\ ~Idle
    /\ ~tx.paid
    /\ tx.applied[c] < MaxApplied
    /\ HouseOpen
    /\ coupons[c] # NoCoupon
    /\ LET coupon == coupons[c]
           discount == Discount(coupon, tx.amount)
       IN  /\ tx.metadata # "absent" => CanStack(coupon)
           /\ RulesAllow(coupon)
           /\ coupons' = [coupons EXCEPT ![c] = Claim(coupon)]
           /\ tx' = [tx EXCEPT
                !.metadata = IF coupon.stack THEN "false" ELSE "true",
                !.applied[c] = @ + 1,
                !.discount = @ + discount,
                !.amount = @ - discount]
    /\ UNCHANGED <<coreVars, version, couponApps, couponsAuth,
                   moneyVars, claimVars>>

-----------------------------------------------------------------------------
(* Paying, redeeming the receipt, and aborting.                            *)

HandleBasePayment_Ungated ==
    /\ ~Idle
    /\ ~tx.paid
    /\ balance' = balance + tx.amount
    /\ tx' = [tx EXCEPT !.paid = TRUE]
    /\ UNCHANGED <<coreVars, houseVars, withdrawn, due, claimVars>>

\* The coin is worth exactly the amount; auth_add_balance is the gate.
HandleBasePayment ==
    /\ ~Idle
    /\ ~tx.paid
    /\ "PaymentsAuth" \in apps
    /\ balance' = balance + tx.amount
    /\ tx' = [tx EXCEPT !.paid = TRUE]
    /\ UNCHANGED <<coreVars, houseVars, withdrawn, due, claimVars>>

\* What the transaction has bought, read off the registry: the record of the
\* name went from start to its new expiration.
Granted(start) ==
    LET years == (registry'[tx.name].exp - start) \div Year
    IN  ListPrice(tx.kind, tx.name, years)

Commit(start) ==
    /\ tx' = NoTx
    /\ due' = due + Granted(start) - tx.discount
    /\ used' = [c \in Codes |->
            IF offer[c] # NoCoupon /\ offer[c].claims # NoRule
            THEN used[c] + tx.applied[c] ELSE used[c]]
    /\ UNCHANGED <<houseVars, balance, withdrawn, offer>>

HoldsReceipt(kind) ==
    /\ ~Idle
    /\ tx.paid
    /\ tx.kind = kind

\* payment::register, which checks the deny list again and no app.
RedeemRegistration ==
    /\ HoldsReceipt("registration")
    /\ ~DenyListed(tx.name)
    /\ AddRecord(tx.name, TRUE, now + tx.years * Year, NoId, {})
    /\ Commit(now)
    /\ UNCHANGED <<now, adminVars>>

RedeemRenewal_LastYearFree(i) ==
    /\ HoldsReceipt("renewal")
    /\ Exists(i)
    /\ nfts[i].name = tx.name
    /\ HasRecord(tx.name)
    /\ LET r == registry[tx.name]
           exp == r.exp + (tx.years + 1) * Year
       IN  /\ ~ExpiredPastGrace(r)
           /\ WithinMaxTerm(exp)
           /\ SetExpiration(i, exp)
           /\ Commit(r.exp)
    /\ UNCHANGED <<now, reverse, minted, adminVars>>

\* payment::renew, with an NFT that need not be the one of init_renewal.
RedeemRenewal(i) ==
    /\ HoldsReceipt("renewal")
    /\ Exists(i)
    /\ nfts[i].name = tx.name
    /\ HasRecord(tx.name)
    /\ LET r == registry[tx.name]
           exp == r.exp + tx.years * Year
       IN  /\ ~ExpiredPastGrace(r)
           /\ WithinMaxTerm(exp)
           /\ SetExpiration(i, exp)
           /\ Commit(r.exp)
    /\ UNCHANGED <<now, reverse, minted, adminVars>>

\* Any assertion may fail, or the sender leave a hot potato behind.
Abort ==
    /\ ~Idle
    /\ tx' = NoTx
    /\ coupons' = tx.before.coupons
    /\ balance' = tx.before.balance
    /\ UNCHANGED <<coreVars, version, couponApps, couponsAuth,
                   withdrawn, due, claimVars>>

-----------------------------------------------------------------------------
(* The coupon house and the administrator.                                 *)

\* save_coupon, for the administrator or an authorised app.
SaveCoupon(c, o) ==
    /\ coupons[c] = NoCoupon
    /\ coupons' = [coupons EXCEPT ![c] = o]
    /\ offer' = [offer EXCEPT ![c] = o]
    /\ used' = [used EXCEPT ![c] = 0]
    /\ UNCHANGED <<coreVars, tx, version, couponApps, couponsAuth, moneyVars>>

AdminAddCoupon(c, o) == Idle /\ HouseOpen /\ SaveCoupon(c, o)

\* auth_coupons_mut; the app can add coupons and not remove them.
PartnerAddCoupon(app, c, o) ==
    Idle /\ HouseOpen /\ app \in couponApps /\ SaveCoupon(c, o)

AdminRemoveCoupon(c) ==
    /\ Idle
    /\ HouseOpen
    /\ coupons[c] # NoCoupon
    /\ coupons' = [coupons EXCEPT ![c] = NoCoupon]
    /\ offer' = [offer EXCEPT ![c] = NoCoupon]
    /\ used' = [used EXCEPT ![c] = 0]
    /\ UNCHANGED <<coreVars, tx, version, couponApps, couponsAuth, moneyVars>>

\* authorize and deauthorize of the coupon house.
SetPartner(app) ==
    /\ Idle
    /\ HouseOpen
    /\ couponApps' = IF app \in couponApps THEN couponApps \ {app} ELSE couponApps \cup {app}
    /\ UNCHANGED <<coreVars, tx, coupons, version, couponsAuth,
                   moneyVars, claimVars>>

\* set_version reaches the house through coupon_house_mut as well.
SetVersion(v) ==
    /\ Idle
    /\ HouseOpen
    /\ version' = v
    /\ UNCHANGED <<coreVars, tx, coupons, couponApps, couponsAuth,
                   moneyVars, claimVars>>

\* iota_names::authorize and deauthorize of CouponsAuth.
SetCouponsAuth ==
    /\ Idle
    /\ couponsAuth' = ~couponsAuth
    /\ UNCHANGED <<coreVars, tx, coupons, version, couponApps,
                   moneyVars, claimVars>>

Withdraw ==
    /\ Idle
    /\ balance > 0
    /\ withdrawn' = withdrawn + balance
    /\ balance' = 0
    /\ UNCHANGED <<coreVars, tx, houseVars, due, claimVars>>

\* What else in the registry changes what a payment transaction reads.
RegistryStep ==
    /\ Idle
    /\ \/ Tick
       \/ \E i \in NftIds : BurnExpired(i)
       \/ Authorize("PaymentsAuth")
       \/ Deauthorize("PaymentsAuth")
    /\ UNCHANGED <<tx, houseVars, moneyVars, claimVars>>

-----------------------------------------------------------------------------
IntentNext ==
    \/ \E u \in Users, n \in Slns, years \in 1..MaxYears : InitRegistration(u, n, years)
    \/ \E u \in Users, i \in NftIds, years \in 1..MaxYears : InitRenewal(u, i, years)
    \/ \E c \in Codes : ApplyCoupon(c)
    \/ HandleBasePayment
    \/ RedeemRegistration
    \/ \E i \in NftIds : RedeemRenewal(i)
    \/ Abort

HouseNext ==
    \/ \E c \in Codes : \E o \in Offers[c] : AdminAddCoupon(c, o)
    \/ \E app \in PartnerApps, c \in Codes : \E o \in Offers[c] : PartnerAddCoupon(app, c, o)
    \/ \E c \in Codes : AdminRemoveCoupon(c)
    \/ \E app \in PartnerApps : SetPartner(app)
    \/ \E v \in Versions : SetVersion(v)
    \/ SetCouponsAuth
    \/ Withdraw

PayNext == IntentNext \/ HouseNext \/ RegistryStep

PaySpec == PayInit /\ [][PayNext]_payVars

-----------------------------------------------------------------------------
(* Properties.                                                             *)

\* Amounts stay natural numbers, whatever coupons are stacked in whatever
\* order: the subtractions of coupon_house.move never underflow.
PayTypeOK ==
    /\ tx \in Intent \cup {NoTx}
    /\ coupons \in [Codes -> Coupon \cup {NoCoupon}]
    /\ version \in Versions
    /\ couponApps \subseteq PartnerApps
    /\ couponsAuth \in BOOLEAN
    /\ balance \in Nat
    /\ withdrawn \in Nat
    /\ offer \in [Codes -> Coupon \cup {NoCoupon}]
    /\ used \in [Codes -> Nat]
    /\ due \in Int

UsedInTx(c) == IF Idle THEN 0 ELSE tx.applied[c]

\* A coupon is applied at most as often as the claims it was saved with, over
\* all transactions, users and aborts; as long as it is in the table, the rest
\* of its claims is there, and it leaves with the last one.
ClaimsKept ==
    \A c \in Codes :
        (offer[c] # NoCoupon /\ offer[c].claims # NoRule) =>
            /\ used[c] + UsedInTx(c) <= offer[c].claims
            /\ coupons[c] # NoCoupon =>
                 /\ coupons[c].claims > 0
                 /\ used[c] + UsedInTx(c) + coupons[c].claims = offer[c].claims

\* A coupon that does not stack is the only one of its intent.
ExclusiveAlone ==
    ~Idle =>
        \A c \in Codes :
            (tx.applied[c] > 0 /\ ~offer[c].stack) =>
                /\ tx.applied[c] = 1
                /\ \A d \in Codes \ {c} : tx.applied[d] = 0

\* Every year of term granted, by registration or renewal, was paid at its
\* list price less the discounts of the coupons applied: the balance and what
\* was withdrawn from it are exactly that, but for a payment not redeemed yet.
EveryYearPaid ==
    balance + withdrawn = due + (IF ~Idle /\ tx.paid THEN tx.amount ELSE 0)

\* With another version set, or CouponsAuth deauthorised at IotaNames, no
\* transaction claims, adds or removes a coupon; and no version can be set
\* back (coupon_house.move:215 goes through the check it would have to pass).
HouseStep ==
    ~(couponsAuth /\ version = CouponsVersion) => UNCHANGED <<coupons, version, couponApps>>
HouseFrozen == [][HouseStep]_payVars

\* Seen from the registry, a payment transaction is one step of IotaNames: the
\* steps before the receipt is redeemed change nothing there, and redeeming
\* does what Register or Renew does, the authorisation of the payments app
\* included, although neither register nor renew checks it.
ImplementsCore == Spec
=============================================================================
