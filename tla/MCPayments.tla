----------------------------- MODULE MCPayments -----------------------------
(***************************************************************************)
(* A small instance of Payments: a name of five letters, two users, two    *)
(* codes and three kinds of coupons.                                       *)
(***************************************************************************)
EXTENDS Payments

CONSTANTS long, alice, bob, code1, code2, partner

MCParent == [n \in Subs |-> n]
MCLabelsOf == [n \in Names |-> {}]
MCLength == [n \in Slns |-> 5]

MCPricing == {[from |-> 3, to |-> 3, price |-> 5], [from |-> 4, to |-> 10, price |-> 3]}
MCRenewalPricing == {[from |-> 3, to |-> 10, price |-> 2]}

\* Half price, twice, for anybody.
Half == [kind |-> "percentage", amount |-> 50, length |-> NoRule, claims |-> 2,
         user |-> NoRule, expiration |-> NoRule, years |-> NoRule, stack |-> TRUE]

\* A fixed amount off, for one year and until time 2.
Off == [kind |-> "fixed", amount |-> 3, length |-> NoRule, claims |-> NoRule,
        user |-> NoRule, expiration |-> 2, years |-> [from |-> 1, to |-> 1], stack |-> TRUE]

\* A gift to alice, for longer names, not with other coupons.
Gift == [kind |-> "fixed", amount |-> 2, length |-> [from |-> 4, to |-> 10], claims |-> 1,
         user |-> alice, expiration |-> NoRule, years |-> NoRule, stack |-> FALSE]

MCOffers == [c \in Codes |-> IF c = code1 THEN {Half} ELSE {Off, Gift}]
=============================================================================
