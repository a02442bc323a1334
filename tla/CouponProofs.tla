----------------------------- MODULE CouponProofs -----------------------------
(***************************************************************************)
(* Theorems about the coupons of Payments, for all offers, prices, users    *)
(* and bounds: claims are never exceeded, an exclusive coupon stays alone,  *)
(* and a house that is switched off is frozen.                              *)
(***************************************************************************)
EXTENDS PaymentsProofs

-----------------------------------------------------------------------------
(* The inductive invariant.                                                *)

Limited(c) == offer[c] # NoCoupon /\ offer[c].claims # NoRule

\* A table of coupons goes back to the offers, and what is left of a limited
\* one is what the uses leave of its claims.
Backed(table, uses) ==
    \A c \in Codes :
        /\ table[c] # NoCoupon =>
             /\ offer[c] # NoCoupon
             /\ table[c].stack = offer[c].stack
             /\ table[c].claims = NoRule <=> offer[c].claims = NoRule
        /\ Limited(c) =>
             /\ uses[c] <= offer[c].claims
             /\ table[c] # NoCoupon =>
                  /\ table[c].claims > 0
                  /\ uses[c] + table[c].claims = offer[c].claims

Uses == [c \in Codes |-> used[c] + UsedInTx(c)]

\* The coupons in the table, and those an abort would bring back.
TableInv ==
    /\ Backed(coupons, Uses)
    /\ ~Idle => Backed(tx.before.coupons, used)

\* What the metadata of an intent says about the coupons applied to it.
MarkInv ==
    ~Idle =>
        /\ tx.metadata = "absent" => \A c \in Codes : tx.applied[c] = 0
        /\ tx.metadata = "false" =>
             \A c \in Codes : tx.applied[c] > 0 => offer[c].stack

\* With the house off, an abort has nothing to bring back.
FrozenInv == (~Idle /\ ~HouseOpen) => coupons = tx.before.coupons

CouponInv == TableInv /\ MarkInv /\ ExclusiveAlone /\ FrozenInv

LEMMA CouponInvGives == PayInv /\ CouponInv => ClaimsKept
<1> SUFFICES ASSUME PayInv, CouponInv, NEW c \in Codes, Limited(c)
             PROVE  /\ used[c] + UsedInTx(c) <= offer[c].claims
                    /\ coupons[c] # NoCoupon =>
                         /\ coupons[c].claims > 0
                         /\ used[c] + UsedInTx(c) + coupons[c].claims = offer[c].claims
  BY DEF ClaimsKept, Limited
<1>1. Backed(coupons, Uses)
  BY DEF CouponInv, TableInv
<1>2. Uses[c] = used[c] + UsedInTx(c)
  BY DEF Uses
<1> HIDE DEF Uses
<1> QED
  BY <1>1, <1>2 DEF Backed

LEMMA InitCoupons == PayInit => CouponInv
BY DEF PayInit, CouponInv, TableInv, MarkInv, ExclusiveAlone, FrozenInv, Backed, Limited,
       Uses, UsedInTx, Idle

-----------------------------------------------------------------------------
(* The invariant step by step.                                             *)

\* An intent starts with no coupon, and with the table an abort goes back to.
LEMMA OpenCoupons ==
    ASSUME PayInv, CouponInv, Idle,
           NEW user, NEW kind, NEW n, NEW years, Open(user, kind, n, years),
           UNCHANGED <<houseVars, moneyVars, claimVars>>
    PROVE  CouponInv'
<1> USE DEF houseVars, moneyVars, claimVars
<1>1. /\ tx'.metadata = "absent" /\ tx'.applied = [c \in Codes |-> 0]
      /\ tx'.before.coupons = coupons
      /\ UNCHANGED <<coupons, offer, used>>
  BY DEF Open
<1>2. used \in [Codes -> Nat]
  BY DEF PayInv, PayTypeOK
<1>3. \A c \in Codes : UsedInTx(c) = 0 /\ UsedInTx(c)' = 0
  BY <1>1 DEF UsedInTx
<1>4. Backed(coupons, Uses)
  BY DEF CouponInv, TableInv
<1>5. \A c \in Codes : Uses[c] = used[c] /\ Uses'[c] = used[c] /\ used'[c] = used[c]
  BY <1>1, <1>2, <1>3 DEF Uses
<1> HIDE DEF Uses
<1>6. Backed(coupons, Uses)'
  BY <1>1, <1>4, <1>5 DEF Backed, Limited
<1>7. Backed(tx.before.coupons, used)'
  BY <1>1, <1>4, <1>5 DEF Backed, Limited
<1>8. MarkInv' /\ ExclusiveAlone' /\ FrozenInv'
  BY <1>1 DEF MarkInv, ExclusiveAlone, FrozenInv
<1> QED
  BY <1>6, <1>7, <1>8 DEF CouponInv, TableInv

\* What apply_coupon does to the intent.
LEMMA ApplyShape ==
    ASSUME PayInv, NEW c \in Codes, ApplyCoupon(c)
    PROVE  /\ ~Idle /\ tx \in Intent /\ HouseOpen /\ HouseOpen'
           /\ coupons[c] \in Coupon /\ coupons[c] # NoCoupon /\ coupons[c].claims # 0
           /\ tx.metadata # "absent" => tx.metadata = "false" /\ coupons[c].stack
           /\ coupons' = [coupons EXCEPT ![c] = Claim(coupons[c])]
           /\ tx'.metadata = IF coupons[c].stack THEN "false" ELSE "true"
           /\ tx'.applied = [tx.applied EXCEPT ![c] = tx.applied[c] + 1]
           /\ tx'.before = tx.before
           /\ UNCHANGED <<offer, used>>
<1>1. ~Idle /\ tx \in Intent
  BY IntentTyped DEF ApplyCoupon, PayInv
<1>2. coupons[c] \in Coupon
  BY DEF ApplyCoupon, PayInv, PayTypeOK
<1>3. /\ tx'.metadata = IF coupons[c].stack THEN "false" ELSE "true"
      /\ tx'.applied = [tx.applied EXCEPT ![c] = tx.applied[c] + 1]
      /\ tx'.before = tx.before
  <2> DEFINE d == Discount(coupons[c], tx.amount)
             m == IF coupons[c].stack THEN "false" ELSE "true"
  <2>1. tx' = [tx EXCEPT !.metadata = m, !.applied[c] = @ + 1,
                         !.discount = @ + d, !.amount = @ - d]
    BY DEF ApplyCoupon
  <2> HIDE DEF d, m
  <2>2. tx'.metadata = m /\ tx'.before = tx.before
        /\ tx'.applied = [tx.applied EXCEPT ![c] = tx.applied[c] + 1]
    BY <1>1, <2>1 DEF Intent
  <2> QED
    BY <2>2 DEF m
<1> QED
  BY <1>1, <1>2, <1>3
  DEF ApplyCoupon, RulesAllow, CanStack, HouseOpen, claimVars

\* One claim less in the table is one use more.
LEMMA ApplyCoupons ==
    ASSUME PayInv, AccountInv, CouponInv, NEW c \in Codes, ApplyCoupon(c)
    PROVE  CouponInv'
<1>1. /\ ~Idle /\ tx \in Intent /\ HouseOpen'
      /\ coupons[c] \in Coupon /\ coupons[c] # NoCoupon /\ coupons[c].claims # 0
      /\ tx.metadata # "absent" => tx.metadata = "false" /\ coupons[c].stack
      /\ coupons' = [coupons EXCEPT ![c] = Claim(coupons[c])]
      /\ tx'.metadata = IF coupons[c].stack THEN "false" ELSE "true"
      /\ tx'.applied = [tx.applied EXCEPT ![c] = tx.applied[c] + 1]
      /\ tx'.before = tx.before
      /\ UNCHANGED <<offer, used>>
  BY ApplyShape
<1>2. /\ used \in [Codes -> Nat] /\ tx.applied \in [Codes -> Nat]
      /\ coupons \in [Codes -> Coupon \cup {NoCoupon}]
  BY <1>1 DEF PayInv, PayTypeOK, Intent
<1>3. ~Idle'
  BY ApplyKeeps
<1> DEFINE k == coupons[c]
<1>4. /\ Backed(coupons, Uses) /\ Backed(tx.before.coupons, used)
  BY <1>1 DEF CouponInv, TableInv
<1>5. /\ \A e \in Codes : Uses[e] \in Nat
      /\ Uses'[c] = Uses[c] + 1
      /\ \A e \in Codes \ {c} : Uses'[e] = Uses[e]
  BY <1>1, <1>2, <1>3 DEF Uses, UsedInTx
<1>6. k.claims \in Nat \cup {NoRule}
  BY <1>1 DEF Coupon, CouponFields
<1>7. /\ k.claims = NoRule => Claim(k) = k
      /\ k.claims = 1 => Claim(k) = NoCoupon
      /\ (k.claims # NoRule /\ k.claims # 1) =>
           /\ Claim(k).claims = k.claims - 1 /\ Claim(k).stack = k.stack
           /\ k.claims - 1 > 0
  <2>1. /\ k.claims = NoRule => Claim(k) = k
        /\ k.claims = 1 => Claim(k) = NoCoupon
    BY PaymentsNullsAssumption DEF Claim
  <2>2. (k.claims # NoRule /\ k.claims # 1) => k.claims - 1 > 0
    BY <1>1, <1>6
  <2>3. (k.claims # NoRule /\ k.claims # 1) =>
           /\ Claim(k).claims = k.claims - 1 /\ Claim(k).stack = k.stack
    BY <1>1 DEF Claim, Coupon, CouponFields
  <2> QED
    BY <2>1, <2>2, <2>3
<1>8. coupons'[c] = Claim(k) /\ \A e \in Codes \ {c} : coupons'[e] = coupons[e]
  BY <1>1, <1>2
<1>9. /\ offer[c] # NoCoupon
      /\ k.stack = offer[c].stack
      /\ k.claims = NoRule <=> offer[c].claims = NoRule
      /\ Limited(c) =>
           /\ Uses[c] <= offer[c].claims
           /\ k.claims > 0
           /\ Uses[c] + k.claims = offer[c].claims
  BY <1>1, <1>4 DEF Backed
<1>10. offer[c] \in Coupon /\ (Limited(c) => offer[c].claims \in Nat)
  BY <1>9 DEF PayInv, PayTypeOK, Limited, Coupon, CouponFields
<1> HIDE DEF Uses, k
<1>11. Backed(coupons, Uses)'
  <2> SUFFICES ASSUME NEW e \in Codes
      PROVE  /\ coupons'[e] # NoCoupon =>
                  /\ offer[e] # NoCoupon
                  /\ coupons'[e].stack = offer[e].stack
                  /\ coupons'[e].claims = NoRule <=> offer[e].claims = NoRule
             /\ Limited(e) =>
                  /\ Uses'[e] <= offer[e].claims
                  /\ coupons'[e] # NoCoupon =>
                       /\ coupons'[e].claims > 0
                       /\ Uses'[e] + coupons'[e].claims = offer[e].claims
    BY <1>1 DEF Backed, Limited
  <2>1. CASE e # c
    BY <2>1, <1>4, <1>5, <1>8 DEF Backed
  <2>2. CASE e = c
    <3>1. CASE k.claims = NoRule
      BY <2>2, <3>1, <1>7, <1>8, <1>9 DEF Limited
    <3>2. CASE k.claims = 1
      <4>1. coupons'[c] = NoCoupon
        BY <3>2, <1>7, <1>8
      <4>2. Limited(c) => Uses[c] + 1 = offer[c].claims
        BY <3>2, <1>9
      <4> QED
        BY <2>2, <4>1, <4>2, <1>5, <1>10
    <3>3. CASE k.claims # NoRule /\ k.claims # 1
      <4>1. k.claims \in Nat /\ k.claims - 1 > 0
        BY <3>3, <1>6, <1>7
      <4>2. /\ coupons'[c].claims = k.claims - 1
            /\ coupons'[c].stack = offer[c].stack
            /\ offer[c].claims # NoRule /\ Limited(c)
        BY <3>3, <1>7, <1>8, <1>9 DEF Limited
      <4>3. coupons'[c].claims # NoRule
        BY <4>1, <4>2, PaymentsNullsAssumption
      <4>4. Uses[c] \in Nat /\ Uses[c] + k.claims = offer[c].claims /\ Uses'[c] = Uses[c] + 1
        BY <4>2, <1>5, <1>9
      <4>5. /\ Uses'[c] <= offer[c].claims
            /\ Uses'[c] + coupons'[c].claims = offer[c].claims
        BY <4>1, <4>2, <4>4
      <4> QED
        BY <2>2, <4>1, <4>2, <4>3, <4>5, <1>9
    <3> QED
      BY <3>1, <3>2, <3>3
  <2> QED
    BY <2>1, <2>2
<1>12. Backed(tx.before.coupons, used)'
  BY <1>1, <1>4 DEF Backed, Limited
<1>13. /\ tx'.applied[c] = tx.applied[c] + 1
       /\ \A e \in Codes \ {c} : tx'.applied[e] = tx.applied[e]
  BY <1>1, <1>2
<1>14. MarkInv' /\ ExclusiveAlone'
  <2>1. CASE tx.metadata = "absent"
    <3>1. tx'.applied[c] = 1 /\ \A e \in Codes \ {c} : tx'.applied[e] = 0
      BY <2>1, <1>1, <1>2, <1>13 DEF CouponInv, MarkInv
    <3>2. tx'.metadata = "false" => offer'[c].stack
      BY <1>1, <1>9 DEF k
    <3>3. tx'.metadata # "absent"
      BY <1>1
    <3>4. MarkInv'
      BY <3>1, <3>2, <3>3 DEF MarkInv
    <3>5. ExclusiveAlone'
      BY <3>1 DEF ExclusiveAlone
    <3> QED
      BY <3>4, <3>5
  <2>2. CASE tx.metadata # "absent"
    <3>1. tx.metadata = "false" /\ k.stack
      BY <2>2, <1>1 DEF k
    <3>2. \A e \in Codes : tx'.applied[e] > 0 => offer'[e].stack
      BY <3>1, <1>1, <1>9, <1>13 DEF CouponInv, MarkInv
    <3>3. tx'.metadata = "false"
      BY <3>1, <1>1 DEF k
    <3> QED
      BY <3>2, <3>3 DEF MarkInv, ExclusiveAlone
  <2> QED
    BY <2>1, <2>2
<1>15. FrozenInv'
  BY <1>1 DEF FrozenInv
<1> QED
  BY <1>11, <1>12, <1>14, <1>15 DEF CouponInv, TableInv

\* Paying changes no coupon.
LEMMA PaymentCoupons ==
    ASSUME PayInv, AccountInv, CouponInv, HandleBasePayment
    PROVE  CouponInv'
<1>1. tx \in Intent /\ ~Idle /\ ~Idle' /\ tx' = [tx EXCEPT !.paid = TRUE]
  BY IntentTyped, PaymentKeeps DEF HandleBasePayment, PayInv
<1>2. /\ tx'.metadata = tx.metadata /\ tx'.applied = tx.applied /\ tx'.before = tx.before
      /\ UNCHANGED <<houseVars, offer, used>>
  BY <1>1 DEF HandleBasePayment, claimVars, Intent
<1> QED
  BY <1>1, <1>2 DEF CouponInv, TableInv, MarkInv, ExclusiveAlone, FrozenInv, HouseOpen,
     Backed, Limited, Uses, UsedInTx, houseVars

\* A transaction commits its uses.
LEMMA CommitCoupons ==
    ASSUME PayInv, CouponInv, ~Idle, NEW start, Commit(start)
    PROVE  CouponInv'
<1>1. tx \in Intent /\ tx' = NoTx /\ UNCHANGED <<coupons, offer>>
  BY IntentTyped DEF Commit, PayInv, houseVars
<1>2. used \in [Codes -> Nat] /\ tx.applied \in [Codes -> Nat]
  BY <1>1 DEF PayInv, PayTypeOK, Intent
<1>3. \A c \in Codes : Limited(c) => used'[c] = used[c] + tx.applied[c]
  BY DEF Commit, Limited
<1>4. \A c \in Codes : Limited(c) => Uses'[c] = Uses[c]
  <2>1. \A c \in Codes : Uses[c] = used[c] + tx.applied[c]
    BY DEF Uses, UsedInTx
  <2>2. \A c \in Codes : Uses'[c] = used'[c] + 0
    BY <1>1 DEF Uses, UsedInTx, Idle
  <2> QED
    BY <1>2, <1>3, <2>1, <2>2
<1>5. Backed(coupons, Uses)
  BY DEF CouponInv, TableInv
<1> HIDE DEF Uses
<1>6. Backed(coupons, Uses)'
  BY <1>1, <1>4, <1>5 DEF Backed, Limited
<1> QED
  BY <1>1, <1>6 DEF CouponInv, TableInv, MarkInv, ExclusiveAlone, FrozenInv, Idle

\* An abort brings back the table and forgets the uses.
LEMMA AbortCoupons ==
    ASSUME PayInv, CouponInv, Abort
    PROVE  CouponInv'
<1>1. /\ ~Idle /\ tx' = NoTx /\ coupons' = tx.before.coupons
      /\ UNCHANGED <<offer, used>>
  BY DEF Abort, claimVars
<1>2. used \in [Codes -> Nat]
  BY DEF PayInv, PayTypeOK
<1>3. \A c \in Codes : Uses'[c] = used[c]
  BY <1>1, <1>2 DEF Uses, UsedInTx, Idle
<1>4. Backed(tx.before.coupons, used)
  BY <1>1 DEF CouponInv, TableInv
<1> HIDE DEF Uses
<1>5. Backed(coupons, Uses)'
  BY <1>1, <1>3, <1>4 DEF Backed, Limited
<1> QED
  BY <1>1, <1>5 DEF CouponInv, TableInv, MarkInv, ExclusiveAlone, FrozenInv, Idle

\* A coupon is saved with all its claims, and unused.
LEMMA SaveCoupons ==
    ASSUME PayInv, CouponInv, Idle, NEW c \in Codes, NEW o \in Offers[c], SaveCoupon(c, o)
    PROVE  CouponInv'
<1>1. /\ tx' = tx /\ coupons' = [coupons EXCEPT ![c] = o]
      /\ offer' = [offer EXCEPT ![c] = o] /\ used' = [used EXCEPT ![c] = 0]
  BY DEF SaveCoupon
<1>2. /\ o \in Coupon /\ o.claims # 0 /\ o.claims \in Nat \cup {NoRule} /\ o # NoCoupon
  BY OffersAssumption, PaymentsNullsAssumption DEF Coupon, CouponFields
<1>3. /\ used \in [Codes -> Nat] /\ coupons \in [Codes -> Coupon \cup {NoCoupon}]
      /\ offer \in [Codes -> Coupon \cup {NoCoupon}]
  BY DEF PayInv, PayTypeOK
<1>4. \A e \in Codes : Uses[e] = used[e] /\ Uses'[e] = used'[e]
  BY <1>1, <1>3 DEF Uses, UsedInTx, Idle
<1>5. /\ coupons'[c] = o /\ offer'[c] = o /\ used'[c] = 0
      /\ \A e \in Codes \ {c} :
           coupons'[e] = coupons[e] /\ offer'[e] = offer[e] /\ used'[e] = used[e]
  BY <1>1, <1>3
<1>6. Backed(coupons, Uses)
  BY DEF CouponInv, TableInv
<1> HIDE DEF Uses
<1>7. Backed(coupons, Uses)'
  <2>1. o.claims # NoRule => o.claims \in Nat /\ o.claims > 0 /\ 0 <= o.claims
    BY <1>2
  <2>2. Uses'[c] = 0 /\ (o.claims # NoRule => Uses'[c] + o.claims = o.claims)
    BY <1>4, <1>5, <2>1
  <2> QED
    BY <1>2, <1>4, <1>5, <1>6, <2>1, <2>2 DEF Backed, Limited
<1> QED
  BY <1>1, <1>7 DEF CouponInv, TableInv, MarkInv, ExclusiveAlone, FrozenInv, Idle

LEMMA RemoveCoupons ==
    ASSUME PayInv, CouponInv, NEW c \in Codes, AdminRemoveCoupon(c)
    PROVE  CouponInv'
<1>1. /\ Idle /\ tx' = tx /\ coupons' = [coupons EXCEPT ![c] = NoCoupon]
      /\ offer' = [offer EXCEPT ![c] = NoCoupon] /\ used' = [used EXCEPT ![c] = 0]
  BY DEF AdminRemoveCoupon
<1>2. /\ used \in [Codes -> Nat] /\ coupons \in [Codes -> Coupon \cup {NoCoupon}]
      /\ offer \in [Codes -> Coupon \cup {NoCoupon}]
  BY DEF PayInv, PayTypeOK
<1>3. \A e \in Codes : Uses[e] = used[e] /\ Uses'[e] = used'[e]
  BY <1>1, <1>2 DEF Uses, UsedInTx, Idle
<1>4. /\ coupons'[c] = NoCoupon /\ offer'[c] = NoCoupon
      /\ \A e \in Codes \ {c} :
           coupons'[e] = coupons[e] /\ offer'[e] = offer[e] /\ used'[e] = used[e]
  BY <1>1, <1>2
<1>5. Backed(coupons, Uses)
  BY DEF CouponInv, TableInv
<1> HIDE DEF Uses
<1>6. Backed(coupons, Uses)'
  BY <1>3, <1>4, <1>5 DEF Backed, Limited
<1> QED
  BY <1>1, <1>6 DEF CouponInv, TableInv, MarkInv, ExclusiveAlone, FrozenInv, Idle

\* The rest leaves coupons, offers and uses alone, and comes while no
\* transaction is open.
LEMMA QuietCoupons ==
    ASSUME PayInv, CouponInv, UNCHANGED <<tx, coupons, offer, used>>,
           Idle \/ UNCHANGED <<version, couponsAuth>>
    PROVE  CouponInv'
BY DEF CouponInv, TableInv, MarkInv, ExclusiveAlone, FrozenInv, Backed, Limited, Uses,
       UsedInTx, Idle, HouseOpen

LEMMA NextCoupons ==
    PayInv /\ AccountInv /\ CouponInv /\ [PayNext]_payVars => CouponInv'
<1> SUFFICES ASSUME PayInv, AccountInv, CouponInv, [PayNext]_payVars PROVE CouponInv'
  OBVIOUS
<1>1. ASSUME NEW u \in Users, NEW n \in Slns, NEW years \in 1..MaxYears,
             InitRegistration(u, n, years)
      PROVE  CouponInv'
  BY <1>1, OpenCoupons DEF InitRegistration
<1>2. ASSUME NEW u \in Users, NEW i \in NftIds, NEW years \in 1..MaxYears,
             InitRenewal(u, i, years)
      PROVE  CouponInv'
  BY <1>2, OpenCoupons DEF InitRenewal
<1>3. ASSUME RedeemRegistration PROVE CouponInv'
  BY <1>3, CommitCoupons DEF RedeemRegistration, HoldsReceipt
<1>4. ASSUME NEW i \in NftIds, RedeemRenewal(i) PROVE CouponInv'
  BY <1>4, CommitCoupons DEF RedeemRenewal, HoldsReceipt
<1>5. CASE HouseNext
  <2>1. ASSUME NEW c \in Codes, NEW o \in Offers[c], Idle, SaveCoupon(c, o)
        PROVE  CouponInv'
    BY <2>1, SaveCoupons
  <2>2. ASSUME NEW app \in PartnerApps, SetPartner(app) PROVE CouponInv'
    BY <2>2, QuietCoupons DEF SetPartner, claimVars
  <2>3. ASSUME NEW v \in Versions, SetVersion(v) PROVE CouponInv'
    BY <2>3, QuietCoupons DEF SetVersion, claimVars
  <2>4. ASSUME SetCouponsAuth \/ Withdraw PROVE CouponInv'
    BY <2>4, QuietCoupons DEF SetCouponsAuth, Withdraw, claimVars, houseVars
  <2> QED
    BY <1>5, <2>1, <2>2, <2>3, <2>4, RemoveCoupons
    DEF HouseNext, AdminAddCoupon, PartnerAddCoupon
<1>6. CASE RegistryStep
  BY <1>6, QuietCoupons DEF RegistryStep, claimVars, houseVars
<1>7. CASE UNCHANGED payVars
  BY <1>7, QuietCoupons DEF payVars, claimVars, houseVars
<1> QED
  BY <1>1, <1>2, <1>3, <1>4, <1>5, <1>6, <1>7, ApplyCoupons, PaymentCoupons, AbortCoupons
  DEF PayNext, IntentNext

LEMMA CouponInvariant == PaySpec => []CouponInv
<1>1. PaySpec => [](PayInv /\ AccountInv)
  BY PayInvariant
<1> QED
  BY <1>1, InitCoupons, NextCoupons, PTL DEF PaySpec

-----------------------------------------------------------------------------
(* Theorems.                                                               *)

\* A coupon is applied at most as often as the claims it was saved with, over
\* all users, transactions and aborts (decrease_available_claims).
THEOREM ClaimsKeptCorrect == PaySpec => []ClaimsKept
BY CouponInvariant, PayInvariant, CouponInvGives, PTL

\* A coupon that does not stack is the only one of its intent, however many
\* are tried in whatever order (the used_not_stacking_coupon entry).
THEOREM ExclusiveCorrect == PaySpec => []ExclusiveAlone
<1>1. CouponInv => ExclusiveAlone
  BY DEF CouponInv
<1> QED
  BY <1>1, CouponInvariant, PTL

\* While the coupon house has another version, or is not authorised, nothing
\* changes its coupons, apps or version: an abort has nothing to bring back.
THEOREM HouseFrozenCorrect == PaySpec => HouseFrozen
<1>1. ASSUME PayInv, CouponInv, [PayNext]_payVars PROVE HouseStep \/ UNCHANGED payVars
  <2> SUFFICES ASSUME ~HouseOpen, PayNext PROVE UNCHANGED <<coupons, version, couponApps>>
    BY <1>1 DEF HouseStep, HouseOpen
  <2>1. ASSUME IntentNext PROVE UNCHANGED <<coupons, version, couponApps>>
    <3>1. Abort => UNCHANGED <<coupons, version, couponApps>>
      BY <1>1 DEF Abort, CouponInv, FrozenInv
    <3> QED
      BY <2>1, <3>1
      DEF IntentNext, InitRegistration, InitRenewal, ApplyCoupon, HandleBasePayment,
          RedeemRegistration, RedeemRenewal, Commit, houseVars
  <2>2. ASSUME HouseNext PROVE UNCHANGED <<coupons, version, couponApps>>
    BY <2>2 DEF HouseNext, AdminAddCoupon, PartnerAddCoupon, AdminRemoveCoupon, SetPartner,
       SetVersion, SetCouponsAuth, Withdraw, houseVars
  <2>3. ASSUME RegistryStep PROVE UNCHANGED <<coupons, version, couponApps>>
    BY <2>3 DEF RegistryStep, houseVars
  <2> QED
    BY <2>1, <2>2, <2>3 DEF PayNext
<1> QED
  BY <1>1, CouponInvariant, PayInvariant, PTL DEF PaySpec, HouseFrozen
=============================================================================
