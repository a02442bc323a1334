---------------------------- MODULE PaymentsProofs ----------------------------
(***************************************************************************)
(* Theorems about Payments, for every value of its constants: a payment    *)
(* transaction is one step of IotaNames, every year of term is paid for,   *)
(* and no subtraction of a discount underflows.                            *)
(***************************************************************************)
EXTENDS Payments, IotaNamesProofs

-----------------------------------------------------------------------------
(* Arithmetic of prices and discounts.                                     *)

\* A name of a length some range covers has a price.
LEMMA PriceTyped ==
    ASSUME NEW pricing, WellFormed(pricing), NEW n, HasPrice(pricing, n)
    PROVE  PriceOf(pricing, n) \in Nat
<1>1. PICK s \in pricing : InRange(s, Length[n])
  BY DEF HasPrice
<1>2. (CHOOSE r \in pricing : InRange(r, Length[n])) \in pricing
  BY <1>1
<1> QED
  BY <1>2 DEF PriceOf, WellFormed, PriceRange

\* The price lists that ListPrice consults have a price for the name.
Priced(kind, n, years) ==
    IF kind = "renewal" THEN HasPrice(RenewalPricing, n)
    ELSE HasPrice(Pricing, n) /\ (years > 1 => HasPrice(RenewalPricing, n))

\* init_registration_with_years and init_renewal quote a natural number.
LEMMA ListPriceTyped ==
    ASSUME NEW kind \in {"registration", "renewal"}, NEW n, NEW years \in Nat \ {0},
           Priced(kind, n, years)
    PROVE  ListPrice(kind, n, years) \in Nat
<1>1. CASE kind = "renewal"
  <2>1. PriceOf(RenewalPricing, n) \in Nat
    BY <1>1, PriceTyped, PricingAssumption DEF Priced
  <2> QED
    BY <1>1, <2>1 DEF ListPrice
<1>2. CASE kind = "registration"
  <2>1. PriceOf(Pricing, n) \in Nat
    BY <1>2, PriceTyped, PricingAssumption DEF Priced
  <2>2. CASE years = 1
    BY <1>2, <2>1, <2>2 DEF ListPrice
  <2>3. CASE years > 1
    <3>1. PriceOf(RenewalPricing, n) \in Nat
      BY <1>2, <2>3, PriceTyped, PricingAssumption DEF Priced
    <3>2. years - 1 \in Nat
      BY <2>3
    <3>3. ListPrice(kind, n, years) = PriceOf(Pricing, n) + PriceOf(RenewalPricing, n) * (years - 1)
      BY <1>2, <2>3 DEF ListPrice
    <3> QED
      BY <2>1, <3>1, <3>2, <3>3
  <2> QED
    BY <2>2, <2>3
<1> QED
  BY <1>1, <1>2

\* apply_percentage_discount and apply_fixed_discount never take more than
\* there is.
LEMMA DiscountBounded ==
    ASSUME NEW coupon \in Coupon, NEW price \in Nat
    PROVE  Discount(coupon, price) \in Nat /\ Discount(coupon, price) <= price
<1>1. coupon.amount \in Nat
  BY DEF Coupon, CouponFields
<1>2. CASE coupon.kind = "percentage"
  <2> DEFINE a == coupon.amount
             d == (price * a) \div 100
  <2>1. a \in 1..100
    BY <1>2 DEF Coupon
  <2>2. price * a \in Nat /\ price * a <= price * 100
    BY <2>1
  <2>3. d \in Nat /\ d <= price
    BY <2>2
  <2> QED
    BY <1>2, <2>3 DEF Discount
<1>3. CASE coupon.kind # "percentage"
  BY <1>1, <1>3 DEF Discount
<1> QED
  BY <1>2, <1>3

\* The years read off the registry are the years written to it.
LEMMA YearsGranted ==
    ASSUME NEW start \in Nat, NEW years \in Nat, NEW exp, exp = start + years * Year
    PROVE  (exp - start) \div Year = years
<1>1. Year \in Nat /\ Year > 0
  BY TimeAssumption
<1>2. years * Year \in Nat /\ exp - start = years * Year
  BY <1>1
<1>3. (years * Year) \div Year = years
  BY <1>1
<1> QED
  BY <1>2, <1>3

-----------------------------------------------------------------------------
(* The inductive invariant.                                                *)

\* What has been quoted is what is left to pay and the discounts so far, and
\* an abort would give back exactly the payment.
Quoted ==
    ~Idle =>
        /\ Priced(tx.kind, tx.name, tx.years)
        /\ tx.amount + tx.discount = ListPrice(tx.kind, tx.name, tx.years)
        /\ balance = tx.before.balance + (IF tx.paid THEN tx.amount ELSE 0)

\* A receipt exists only while the payments app is authorised.
PaidGate == (~Idle /\ tx.paid) => "PaymentsAuth" \in apps

PayInv == TypeOK /\ PayTypeOK /\ Quoted /\ PaidGate

\* An open transaction carries an intent.
LEMMA IntentTyped ==
    ASSUME PayTypeOK, ~Idle
    PROVE  tx \in Intent
BY DEF PayTypeOK, Idle

-----------------------------------------------------------------------------
(* A payment transaction is one step of IotaNames.                         *)

\* Redeeming a receipt does what Register does.
LEMMA RedeemIsRegister ==
    ASSUME PayInv, RedeemRegistration
    PROVE  Next
<1>1. ~Idle /\ tx.paid /\ tx \in Intent
  BY IntentTyped DEF RedeemRegistration, HoldsReceipt, PayInv
<1>2. tx.name \in Slns /\ tx.years \in 1..MaxYears
  BY <1>1 DEF Intent
<1>3. "PaymentsAuth" \in apps
  BY <1>1 DEF PayInv, PaidGate
<1>4. Register(tx.name, tx.years)
  BY <1>3 DEF RedeemRegistration, Register
<1> QED
  BY <1>2, <1>4 DEF Next, PaymentNext

\* Or what Renew does.
LEMMA RedeemIsRenew ==
    ASSUME PayInv, NEW i \in NftIds, RedeemRenewal(i)
    PROVE  Next
<1>1. ~Idle /\ tx.paid /\ tx \in Intent
  BY IntentTyped DEF RedeemRenewal, HoldsReceipt, PayInv
<1>2. tx.name \in Slns /\ tx.years \in 1..MaxYears
  BY <1>1 DEF Intent
<1>3. "PaymentsAuth" \in apps
  BY <1>1 DEF PayInv, PaidGate
<1>4. Renew(i, tx.years)
  BY <1>2, <1>3 DEF RedeemRenewal, Renew
<1> QED
  BY <1>2, <1>4 DEF Next, PaymentNext

\* Every step of Payments is a step of IotaNames or leaves the registry alone.
LEMMA StepIsCore == PayInv /\ [PayNext]_payVars => [Next]_vars
<1> SUFFICES ASSUME PayInv, [PayNext]_payVars PROVE [Next]_vars
  OBVIOUS
<1>1. CASE IntentNext
  <2>1. ASSUME NEW u \in Users, NEW n \in Slns, NEW years \in 1..MaxYears,
               InitRegistration(u, n, years)
        PROVE  UNCHANGED vars
    BY <2>1 DEF InitRegistration, coreVars
  <2>2. ASSUME NEW u \in Users, NEW i \in NftIds, NEW years \in 1..MaxYears,
               InitRenewal(u, i, years)
        PROVE  UNCHANGED vars
    BY <2>2 DEF InitRenewal, coreVars
  <2>3. ASSUME NEW c \in Codes, ApplyCoupon(c) PROVE UNCHANGED vars
    BY <2>3 DEF ApplyCoupon, coreVars
  <2>4. ASSUME HandleBasePayment PROVE UNCHANGED vars
    BY <2>4 DEF HandleBasePayment, coreVars
  <2>5. ASSUME Abort PROVE UNCHANGED vars
    BY <2>5 DEF Abort, coreVars
  <2> QED
    BY <1>1, <2>1, <2>2, <2>3, <2>4, <2>5, RedeemIsRegister, RedeemIsRenew DEF IntentNext
<1>2. CASE HouseNext
  <2>1. UNCHANGED vars
    BY <1>2 DEF HouseNext, AdminAddCoupon, PartnerAddCoupon, SaveCoupon, AdminRemoveCoupon,
                SetPartner, SetVersion, SetCouponsAuth, Withdraw, coreVars
  <2> QED
    BY <2>1
<1>3. CASE RegistryStep
  <2>1. "PaymentsAuth" \in Apps
    BY DEF Apps
  <2> QED
    BY <1>3, <2>1 DEF RegistryStep, Next, ControllerNext, AdminNext
<1>4. CASE UNCHANGED payVars
  BY <1>4 DEF payVars, coreVars
<1> QED
  BY <1>1, <1>2, <1>3, <1>4 DEF PayNext

-----------------------------------------------------------------------------
(* The invariant, initially and step by step.                              *)

\* The invariant without the registry's part, and with the accounts.
AccountInv == PayTypeOK /\ Quoted /\ PaidGate /\ EveryYearPaid

LEMMA InitPay == PayInit => PayInv /\ AccountInv
<1> SUFFICES ASSUME PayInit PROVE PayInv /\ AccountInv
  OBVIOUS
<1>1. TypeOK
  BY InitTyped DEF PayInit
<1>2. PayTypeOK
  BY DEF PayInit, PayTypeOK, Versions, CouponsVersion
<1>3. Quoted /\ PaidGate /\ EveryYearPaid
  BY DEF PayInit, Quoted, PaidGate, EveryYearPaid, Idle
<1> QED
  BY <1>1, <1>2, <1>3 DEF PayInv, AccountInv

\* A quote that init_registration or init_renewal puts into an intent.
LEMMA OpenKeeps ==
    ASSUME PayInv, AccountInv, Idle,
           NEW user \in Users, NEW kind \in {"registration", "renewal"},
           NEW n \in Slns, NEW years \in 1..MaxYears, Priced(kind, n, years),
           Open(user, kind, n, years),
           UNCHANGED <<coreVars, houseVars, moneyVars, claimVars>>
    PROVE  AccountInv'
<1> DEFINE price == ListPrice(kind, n, years)
<1> USE DEF houseVars, moneyVars, claimVars
<1>1. price \in Nat
  BY ListPriceTyped, TimeAssumption
<1>2. /\ tx'.kind = kind /\ tx'.name = n /\ tx'.years = years
      /\ tx'.amount = price /\ tx'.discount = 0 /\ tx'.paid = FALSE
      /\ tx'.before.balance = balance
  BY DEF Open
<1>3. tx' \in Intent
  BY <1>1 DEF Open, Intent, PayInv, PayTypeOK
<1>4. PayTypeOK'
  BY <1>3 DEF PayInv, PayTypeOK
<1>5. Quoted'
  BY <1>1, <1>2 DEF Quoted, PayInv, PayTypeOK, Priced, HasPrice, ListPrice, PriceOf, InRange
<1>6. PaidGate' /\ EveryYearPaid'
  BY <1>2 DEF PaidGate, EveryYearPaid, AccountInv, Idle
<1> QED
  BY <1>4, <1>5, <1>6 DEF AccountInv

\* apply_coupon moves part of the amount into the discounts.
LEMMA ApplyKeeps ==
    ASSUME PayInv, AccountInv, NEW c \in Codes, ApplyCoupon(c)
    PROVE  AccountInv' /\ ~Idle'
<1> DEFINE d == Discount(coupons[c], tx.amount)
<1> USE DEF houseVars, moneyVars, claimVars
<1>1. tx \in Intent /\ ~Idle /\ ~tx.paid
  BY IntentTyped DEF ApplyCoupon, PayInv
<1>2. coupons[c] \in Coupon
  BY DEF ApplyCoupon, PayInv, PayTypeOK
<1>3. tx.amount \in Nat /\ tx.discount \in Nat
  BY <1>1 DEF Intent
<1>4. d \in Nat /\ d <= tx.amount
  BY <1>2, <1>3, DiscountBounded
<1> DEFINE t1 == [tx EXCEPT !.metadata = IF coupons[c].stack THEN "false" ELSE "true"]
           t2 == [t1 EXCEPT !.applied = [tx.applied EXCEPT ![c] = tx.applied[c] + 1]]
           t3 == [t2 EXCEPT !.discount = tx.discount + d]
           t4 == [t3 EXCEPT !.amount = tx.amount - d]
<1>5. t1 \in Intent /\ t1.discount = tx.discount /\ t1.amount = tx.amount
  BY <1>1 DEF Intent
<1>6. t2 \in Intent /\ t2.discount = tx.discount /\ t2.amount = tx.amount
  <2>1. [tx.applied EXCEPT ![c] = tx.applied[c] + 1] \in [Codes -> Nat]
    BY <1>1 DEF Intent
  <2> HIDE DEF t1
  <2> QED
    BY <1>5, <2>1 DEF Intent
<1>7. tx' = t4
  BY <1>1 DEF ApplyCoupon, Intent
<1> HIDE DEF t2
<1>8. t4 \in Intent
  <2>1. t3 \in Intent
    BY <1>3, <1>4, <1>6 DEF Intent
  <2>2. tx.amount - d \in Nat
    BY <1>3, <1>4
  <2> HIDE DEF t3, d
  <2> QED
    BY <2>1, <2>2 DEF Intent
<1>9. Claim(coupons[c]) \in Coupon \cup {NoCoupon}
  <2>1. coupons[c].claims \in (Nat \ {0}) \cup {NoRule} /\ coupons[c] \in CouponFields
    BY <1>2 DEF ApplyCoupon, RulesAllow, Coupon, CouponFields
  <2>2. CASE coupons[c].claims \in {NoRule, 1}
    BY <1>2, <2>2 DEF Claim
  <2>3. CASE coupons[c].claims \notin {NoRule, 1}
    <3>1. coupons[c].claims - 1 \in Nat
      BY <2>1, <2>3
    <3>2. [coupons[c] EXCEPT !.claims = coupons[c].claims - 1] \in Coupon
      BY <1>2, <3>1 DEF Coupon, CouponFields
    <3> QED
      BY <2>3, <3>2 DEF Claim
  <2> QED
    BY <2>2, <2>3
<1>10. PayTypeOK'
  <2>1. coupons' \in [Codes -> Coupon \cup {NoCoupon}]
    BY <1>9 DEF ApplyCoupon, PayInv, PayTypeOK
  <2> QED
    BY <1>7, <1>8, <2>1 DEF ApplyCoupon, PayInv, PayTypeOK
<1>11. /\ tx'.amount = tx.amount - d /\ tx'.discount = tx.discount + d
       /\ tx'.kind = tx.kind /\ tx'.name = tx.name /\ tx'.years = tx.years
       /\ tx'.paid = tx.paid /\ tx'.before = tx.before
  <2>1. /\ t2.kind = tx.kind /\ t2.name = tx.name /\ t2.years = tx.years
        /\ t2.paid = tx.paid /\ t2.before = tx.before
    BY <1>1 DEF t2, Intent
  <2> QED
    BY <1>6, <1>7, <2>1 DEF Intent
<1>12. Quoted'
  BY <1>1, <1>3, <1>4, <1>11 DEF ApplyCoupon, AccountInv, Quoted, Idle, Priced, HasPrice, ListPrice, PriceOf, InRange
<1>13. PaidGate' /\ EveryYearPaid'
  BY <1>1, <1>11 DEF ApplyCoupon, PaidGate, EveryYearPaid, AccountInv, Idle
<1>14. ~Idle'
  BY <1>7, <1>8, PaymentsNullsAssumption DEF Idle
<1> QED
  BY <1>10, <1>12, <1>13, <1>14 DEF AccountInv

\* handle_base_payment adds the amount to the balance.
LEMMA PaymentKeeps ==
    ASSUME PayInv, AccountInv, HandleBasePayment
    PROVE  AccountInv' /\ ~Idle'
<1> USE DEF houseVars, moneyVars, claimVars
<1>1. tx \in Intent /\ ~Idle /\ ~tx.paid
  BY IntentTyped DEF HandleBasePayment, PayInv
<1>2. tx' = [tx EXCEPT !.paid = TRUE] /\ balance' = balance + tx.amount
  BY DEF HandleBasePayment
<1>3. /\ tx'.amount = tx.amount /\ tx'.discount = tx.discount
      /\ tx'.kind = tx.kind /\ tx'.name = tx.name /\ tx'.years = tx.years
      /\ tx'.paid /\ tx'.before = tx.before
  BY <1>1, <1>2 DEF Intent
<1>4. tx' \in Intent
  BY <1>1, <1>2 DEF Intent
<1>5. tx.amount \in Nat /\ balance \in Nat /\ tx.before.balance \in Nat
  BY <1>1 DEF Intent, PayInv, PayTypeOK
<1>6. PayTypeOK'
  BY <1>2, <1>4, <1>5 DEF HandleBasePayment, PayInv, PayTypeOK
<1>7. Quoted'
  BY <1>1, <1>2, <1>3, <1>5 DEF AccountInv, Quoted, Idle, Priced, HasPrice, ListPrice, PriceOf, InRange
<1>8. PaidGate'
  <2>1. apps' = apps /\ "PaymentsAuth" \in apps
    BY DEF HandleBasePayment, coreVars, vars
  <2> QED
    BY <2>1 DEF PaidGate
<1>9. EveryYearPaid'
  <2>1. balance + withdrawn = due
    BY <1>1 DEF AccountInv, EveryYearPaid, PayInv, PayTypeOK
  <2>2. withdrawn' = withdrawn /\ due' = due
    BY DEF HandleBasePayment
  <2>3. ~Idle'
    BY <1>4, PaymentsNullsAssumption DEF Idle
  <2> QED
    BY <1>2, <1>3, <1>5, <2>1, <2>2, <2>3 DEF EveryYearPaid, PayInv, PayTypeOK
<1>10. ~Idle'
  BY <1>4, PaymentsNullsAssumption DEF Idle
<1> QED
  BY <1>6, <1>7, <1>8, <1>9, <1>10 DEF AccountInv

\* Committing a transaction that was granted the years of its receipt.
LEMMA CommitKeeps ==
    ASSUME PayInv, AccountInv, ~Idle, tx.paid, NEW start \in Nat, Commit(start),
           registry'[tx.name].exp = start + tx.years * Year
    PROVE  AccountInv'
<1> DEFINE price == ListPrice(tx.kind, tx.name, tx.years)
<1> USE DEF houseVars, moneyVars, claimVars
<1>1. tx \in Intent
  BY IntentTyped DEF PayInv
<1>2. tx.years \in Nat /\ tx.amount \in Nat /\ tx.discount \in Nat
  BY <1>1, TimeAssumption DEF Intent
<1>3. Granted(start) = price
  <2>1. (registry'[tx.name].exp - start) \div Year = tx.years
    BY <1>2, YearsGranted
  <2> QED
    BY <2>1 DEF Granted
<1>4. price = tx.amount + tx.discount
  BY DEF AccountInv, Quoted
<1>5. due' = due + price - tx.discount /\ UNCHANGED <<balance, withdrawn>>
  BY <1>3 DEF Commit
<1>6. /\ balance \in Nat /\ withdrawn \in Nat /\ due \in Int
      /\ balance + withdrawn = due + tx.amount
  BY DEF PayInv, PayTypeOK, AccountInv, EveryYearPaid
<1>7. due' = due + tx.amount
  BY <1>2, <1>4, <1>5, <1>6
<1>8. tx' = NoTx
  BY DEF Commit
<1>9. used' \in [Codes -> Nat]
  BY <1>1 DEF Commit, PayInv, PayTypeOK, Intent
<1>10. PayTypeOK'
  BY <1>2, <1>5, <1>6, <1>7, <1>8, <1>9 DEF Commit, PayInv, PayTypeOK
<1>11. Quoted' /\ PaidGate'
  BY <1>8 DEF Quoted, PaidGate, Idle
<1>12. EveryYearPaid'
  BY <1>2, <1>5, <1>6, <1>7, <1>8 DEF EveryYearPaid, Idle
<1> QED
  BY <1>10, <1>11, <1>12 DEF AccountInv

LEMMA RegistrationKeeps ==
    ASSUME PayInv, AccountInv, RedeemRegistration
    PROVE  AccountInv'
<1>1. ~Idle /\ tx.paid /\ tx \in Intent
  BY IntentTyped DEF RedeemRegistration, HoldsReceipt, PayInv
<1>2. tx.name \in Names /\ registry \in [Names -> NameRecord \cup {NoRecord}]
  BY <1>1 DEF Intent, PayInv, TypeOK, Names
<1>3. registry'[tx.name].exp = now + tx.years * Year
  BY <1>2 DEF RedeemRegistration, AddRecord
<1> QED
  BY <1>1, <1>3, CommitKeeps DEF RedeemRegistration, PayInv, TypeOK

LEMMA RenewalKeeps ==
    ASSUME PayInv, AccountInv, NEW i \in NftIds, RedeemRenewal(i)
    PROVE  AccountInv'
<1> DEFINE r == registry[tx.name]
<1>1. ~Idle /\ tx.paid /\ tx \in Intent
  BY IntentTyped DEF RedeemRenewal, HoldsReceipt, PayInv
<1>2. tx.name \in Names /\ r \in NameRecord
  <2>1. tx.name \in Names /\ HasRecord(tx.name)
    BY <1>1 DEF Intent, RedeemRenewal, Names
  <2> QED
    BY <2>1, RecordTyped DEF PayInv
<1>3. r.exp \in Nat
  BY <1>2 DEF NameRecord
<1>4. SetExpiration(i, r.exp + tx.years * Year) /\ nfts[i].name = tx.name /\ Commit(r.exp)
  BY DEF RedeemRenewal
<1>5. registry' = [registry EXCEPT ![tx.name] = [r EXCEPT !.exp = r.exp + tx.years * Year]]
  BY <1>4 DEF SetExpiration
<1>6. registry'[tx.name] = [r EXCEPT !.exp = r.exp + tx.years * Year]
  BY <1>2, <1>5 DEF PayInv, TypeOK
<1>7. registry'[tx.name].exp = r.exp + tx.years * Year
  BY <1>2, <1>6 DEF NameRecord
<1> QED
  BY <1>1, <1>3, <1>4, <1>7, CommitKeeps

LEMMA AbortKeeps ==
    ASSUME PayInv, AccountInv, Abort
    PROVE  AccountInv'
<1> USE DEF houseVars, moneyVars, claimVars
<1>1. ~Idle /\ tx \in Intent
  BY IntentTyped DEF Abort, PayInv
<1>2. /\ tx' = NoTx /\ coupons' = tx.before.coupons /\ balance' = tx.before.balance
      /\ withdrawn' = withdrawn /\ due' = due
  BY DEF Abort
<1>3. tx.before \in [coupons : [Codes -> Coupon \cup {NoCoupon}], balance : Nat]
  BY <1>1 DEF Intent
<1>4. PayTypeOK'
  BY <1>2, <1>3 DEF Abort, PayInv, PayTypeOK
<1>5. Quoted' /\ PaidGate'
  BY <1>2 DEF Quoted, PaidGate, Idle
<1>6. tx.before.balance + withdrawn = due
  <2>1. tx.amount \in Nat /\ tx.before.balance \in Nat
    BY <1>1, <1>3 DEF Intent
  <2>2. balance = tx.before.balance + (IF tx.paid THEN tx.amount ELSE 0)
    BY <1>1 DEF AccountInv, Quoted
  <2>3. balance + withdrawn = due + (IF tx.paid THEN tx.amount ELSE 0)
    BY <1>1 DEF AccountInv, EveryYearPaid
  <2> QED
    BY <2>1, <2>2, <2>3 DEF PayInv, PayTypeOK
<1>7. EveryYearPaid'
  BY <1>2, <1>3, <1>6 DEF EveryYearPaid, Idle, PayInv, PayTypeOK
<1> QED
  BY <1>4, <1>5, <1>7 DEF AccountInv

\* What the house and the registry do between transactions leaves the
\* accounts alone, but for withdrawals.
LEMMA HouseKeeps ==
    ASSUME PayInv, AccountInv, HouseNext
    PROVE  AccountInv'
<1> USE DEF houseVars, moneyVars, claimVars
<1>1. Idle /\ tx' = tx
  BY DEF HouseNext, AdminAddCoupon, PartnerAddCoupon, SaveCoupon, AdminRemoveCoupon,
         SetPartner, SetVersion, SetCouponsAuth, Withdraw
<1>2. Quoted' /\ PaidGate'
  BY <1>1 DEF Quoted, PaidGate, Idle
<1>3. ASSUME NEW c \in Codes, NEW o \in Offers[c], SaveCoupon(c, o)
      PROVE  PayTypeOK' /\ EveryYearPaid'
  <2>1. o \in Coupon
    BY OffersAssumption
  <2>2. PayTypeOK'
    BY <1>1, <1>3, <2>1 DEF SaveCoupon, PayInv, PayTypeOK
  <2> QED
    BY <1>1, <1>3, <2>2 DEF SaveCoupon, AccountInv, EveryYearPaid, Idle
<1>4. ASSUME NEW c \in Codes, AdminRemoveCoupon(c) PROVE PayTypeOK' /\ EveryYearPaid'
  BY <1>1, <1>4 DEF AdminRemoveCoupon, PayInv, PayTypeOK, AccountInv, EveryYearPaid, Idle
<1>5. ASSUME NEW app \in PartnerApps, SetPartner(app) PROVE PayTypeOK' /\ EveryYearPaid'
  BY <1>1, <1>5 DEF SetPartner, PayInv, PayTypeOK, AccountInv, EveryYearPaid, Idle
<1>6. ASSUME NEW v \in Versions, SetVersion(v) PROVE PayTypeOK' /\ EveryYearPaid'
  BY <1>1, <1>6 DEF SetVersion, PayInv, PayTypeOK, AccountInv, EveryYearPaid, Idle
<1>7. ASSUME SetCouponsAuth PROVE PayTypeOK' /\ EveryYearPaid'
  BY <1>1, <1>7 DEF SetCouponsAuth, PayInv, PayTypeOK, AccountInv, EveryYearPaid, Idle
<1>8. ASSUME Withdraw PROVE PayTypeOK' /\ EveryYearPaid'
  <2>1. balance \in Nat /\ withdrawn \in Nat /\ due \in Int
    BY DEF PayInv, PayTypeOK
  <2>2. balance' = 0 /\ withdrawn' = withdrawn + balance /\ due' = due
    BY <1>8 DEF Withdraw
  <2>3. PayTypeOK'
    BY <1>1, <1>8, <2>1, <2>2 DEF Withdraw, PayInv, PayTypeOK
  <2>4. balance + withdrawn = due
    BY <1>1, <2>1 DEF AccountInv, EveryYearPaid
  <2> QED
    BY <1>1, <2>1, <2>2, <2>3, <2>4 DEF EveryYearPaid, Idle
<1> QED
  BY <1>2, <1>3, <1>4, <1>5, <1>6, <1>7, <1>8
  DEF HouseNext, AdminAddCoupon, PartnerAddCoupon, AccountInv

\* The invariant is inductive, one lemma per command.
LEMMA NextPay == PayInv /\ AccountInv /\ [PayNext]_payVars => PayInv' /\ AccountInv'
<1> SUFFICES ASSUME PayInv, AccountInv, [PayNext]_payVars PROVE PayInv' /\ AccountInv'
  OBVIOUS
<1>1. TypeOK'
  BY StepIsCore, NextTyped DEF PayInv
<1>2. AccountInv'
  <2>1. ASSUME NEW u \in Users, NEW n \in Slns, NEW years \in 1..MaxYears,
               InitRegistration(u, n, years)
        PROVE  AccountInv'
    BY <2>1, OpenKeeps DEF InitRegistration, Priced
  <2>2. ASSUME NEW u \in Users, NEW i \in NftIds, NEW years \in 1..MaxYears,
               InitRenewal(u, i, years)
        PROVE  AccountInv'
    BY <2>2, OpenKeeps DEF InitRenewal, Priced
  <2>3. CASE RegistryStep
    BY <2>3 DEF RegistryStep, AccountInv, PayTypeOK, Quoted, PaidGate, EveryYearPaid, Idle,
       houseVars, moneyVars, claimVars
  <2>4. CASE UNCHANGED payVars
    BY <2>4 DEF payVars, coreVars, vars, houseVars, moneyVars, claimVars, AccountInv,
       PayTypeOK, Quoted, PaidGate, EveryYearPaid, Idle, Priced, HasPrice, ListPrice, PriceOf, InRange
  <2> QED
    BY <2>1, <2>2, <2>3, <2>4, ApplyKeeps, PaymentKeeps, RegistrationKeeps, RenewalKeeps,
       AbortKeeps, HouseKeeps
    DEF PayNext, IntentNext
<1> QED
  BY <1>1, <1>2 DEF PayInv, AccountInv

-----------------------------------------------------------------------------
(* Theorems.                                                               *)

LEMMA PayInvariant == PaySpec => [](PayInv /\ AccountInv)
BY InitPay, NextPay, PTL DEF PaySpec

\* Amounts to pay, discounts and balances are natural numbers in every
\* reachable state, for all prices and coupons: no discount underflows.
THEOREM PayTypeCorrect == PaySpec => []PayTypeOK
<1>1. PayInv => PayTypeOK
  BY DEF PayInv
<1> QED
  BY <1>1, PayInvariant, PTL

\* Every year of term granted was paid for at its list price less the
\* discounts, for all prices, coupons and orders of transactions.
THEOREM EveryYearPaidCorrect == PaySpec => []EveryYearPaid
<1>1. AccountInv => EveryYearPaid
  BY DEF AccountInv
<1> QED
  BY <1>1, PayInvariant, PTL

\* Payments implements IotaNames: what IotaNames takes as one step, the
\* payment transaction as a whole, is all that the registry sees of it.
THEOREM PaymentsImplementCore == PaySpec => ImplementsCore
<1>1. PayInit => Init
  BY DEF PayInit
<1> QED
  BY <1>1, PayInvariant, StepIsCore, PTL DEF PaySpec, ImplementsCore, Spec

\* So what is proved of the registry holds under Payments: while the
\* administrator removes no records, no name changes hands before it expires.
THEOREM PaymentsKeepTenure ==
    "remove" \notin AdminPowers => (PaySpec => TenureProtected)
BY PaymentsImplementCore, TenureCorrect DEF ImplementsCore
=============================================================================
