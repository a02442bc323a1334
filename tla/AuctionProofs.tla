---------------------------- MODULE AuctionProofs ----------------------------
(***************************************************************************)
(* Theorems about Auction, for all names, bidders, prices, periods and      *)
(* bounds: what its clock and the registry's lease promise.                 *)
(***************************************************************************)
EXTENDS Auction, FoldLemmas

\* What the leases and ends are proved from.
LeaseInv ==
    /\ now \in Nat
    /\ minted \in 0..MaxNfts
    /\ lease \in [Names -> Lease \cup {NoLease}]
    /\ auctions \in [Names -> AuctionRecord \cup {NoAuction}]
    /\ EndsBeforeExpiry
    /\ LeaseHeld

\* Closing auctions only takes them away.
LEMMA CloseTakesAway ==
    ASSUME NEW ns, Close(ns)
    PROVE  /\ auctions' = [n \in Names |-> IF n \in ns THEN NoAuction ELSE auctions[n]]
           /\ UNCHANGED <<now, lease, minted>>
BY DEF Close

LEMMA AddRecordLease ==
    ASSUME LeaseInv, NEW n \in Names, NEW who, AddRecord(n, who)
    PROVE  /\ minted' = minted + 1 /\ minted + 1 \in NftIds /\ minted' \in 0..MaxNfts
           /\ lease' \in [Names -> Lease \cup {NoLease}]
           /\ lease'[n] = [nft |-> minted + 1, exp |-> now + Year]
           /\ \A m \in Names : m # n => lease'[m] = lease[m]
           /\ lease[n] # NoLease => lease[n].exp + Grace < now
<1>1. minted' = minted + 1 /\ minted + 1 \in NftIds /\ minted' \in 0..MaxNfts
  BY AuctionAssumption DEF AddRecord, LeaseInv, NftIds
<1>2. [nft |-> minted + 1, exp |-> now + Year] \in Lease
  BY <1>1, AuctionAssumption DEF Lease, LeaseInv
<1> QED
  BY <1>1, <1>2 DEF AddRecord, LeaseInv

LEMMA InitLease == Init => LeaseInv
BY AuctionAssumption DEF Init, LeaseInv, EndsBeforeExpiry, LeaseHeld, Active

\* The end after a bid is before the expiration, and not before the old end.
LEMMA EndAfterBidSound ==
    ASSUME NEW a, a.end \in Nat, a.exp \in Nat, now \in Nat, a.end < a.exp
    PROVE  /\ EndAfterBid(a) \in Nat /\ EndAfterBid(a) < a.exp
           /\ EndAfterBid(a) >= a.end
           /\ EndAfterBid(a) >= now + QuietPeriod \/ now + QuietPeriod >= a.exp
BY AuctionAssumption DEF EndAfterBid

LEMMA AuctionTyped ==
    ASSUME LeaseInv, NEW n \in Names, Active(n)
    PROVE  /\ auctions[n] \in AuctionRecord
           /\ auctions[n].end \in Nat /\ auctions[n].exp \in Nat /\ auctions[n].bid \in Nat
           /\ auctions[n].end < auctions[n].exp
BY DEF LeaseInv, Active, AuctionRecord, EndsBeforeExpiry

\* What a bid does to the auction.
LEMMA PlaceBidShape ==
    ASSUME LeaseInv, NEW b \in Bidders, NEW n \in Names, NEW bid \in Amounts,
           PlaceBid(b, n, bid)
    PROVE  /\ Active(n)
           /\ auctions'[n] \in AuctionRecord
           /\ auctions'[n].end = EndAfterBid(auctions[n])
           /\ auctions'[n].bidder = b /\ auctions'[n].bid = bid
           /\ auctions'[n].nft = auctions[n].nft /\ auctions'[n].exp = auctions[n].exp
           /\ \A m \in Names : m # n => auctions'[m] = auctions[m]
           /\ auctions' \in [Names -> AuctionRecord \cup {NoAuction}]
           /\ UNCHANGED <<now, lease, minted>>
<1>1. Active(n) /\ UNCHANGED <<now, lease, minted>>
  BY DEF PlaceBid, registryVars
<1>2. /\ auctions'[n] = [auctions[n] EXCEPT !.end = EndAfterBid(auctions[n]),
                                            !.bidder = b, !.bid = bid]
      /\ \A m \in Names : m # n => auctions'[m] = auctions[m]
      /\ DOMAIN auctions' = Names /\ auctions' = [m \in Names |-> auctions'[m]]
  BY DEF PlaceBid, LeaseInv
<1>3. auctions[n] \in AuctionRecord /\ EndAfterBid(auctions[n]) \in Nat
  BY <1>1, AuctionTyped, EndAfterBidSound DEF LeaseInv
<1>4. bid \in Nat
  BY DEF Amounts
<1>5. auctions'[n] \in AuctionRecord
  BY <1>2, <1>3, <1>4 DEF AuctionRecord
<1> QED
  BY <1>1, <1>2, <1>3, <1>5 DEF AuctionRecord, LeaseInv

\* What a bid leaves of the auction's times.
LEMMA PlaceBidEnds ==
    ASSUME LeaseInv, NEW b \in Bidders, NEW n \in Names, NEW bid \in Amounts,
           PlaceBid(b, n, bid)
    PROVE  /\ auctions'[n].end < auctions'[n].exp
           /\ auctions'[n].end >= auctions[n].end
           /\ \/ auctions'[n].end >= now + QuietPeriod
              \/ now + QuietPeriod >= auctions[n].exp
<1>1. Active(n) /\ now \in Nat
  BY PlaceBidShape DEF LeaseInv
<1>2. auctions[n].end \in Nat /\ auctions[n].exp \in Nat /\ auctions[n].end < auctions[n].exp
  BY <1>1, AuctionTyped
<1>3. /\ EndAfterBid(auctions[n]) < auctions[n].exp
      /\ EndAfterBid(auctions[n]) >= auctions[n].end
      /\ \/ EndAfterBid(auctions[n]) >= now + QuietPeriod
         \/ now + QuietPeriod >= auctions[n].exp
  BY <1>1, <1>2, EndAfterBidSound
<1>4. /\ auctions'[n].end = EndAfterBid(auctions[n])
      /\ auctions'[n].exp = auctions[n].exp
  BY PlaceBidShape
<1> QED
  BY <1>3, <1>4

LEMMA NextLease == LeaseInv /\ [Next]_vars => LeaseInv'
<1> SUFFICES ASSUME LeaseInv, [Next]_vars PROVE LeaseInv'
  OBVIOUS
<1> USE DEF registryVars, tableVars
<1>1. ASSUME NEW b \in Bidders, NEW n \in Names, NEW bid \in Amounts, StartAuction(b, n, bid)
      PROVE  LeaseInv'
  <2>1. AddRecord(n, House) /\ now' = now
    BY <1>1 DEF StartAuction
  <2> DEFINE a == [end |-> now + BiddingPeriod, bidder |-> b, bid |-> bid,
                   nft |-> minted + 1, exp |-> now + Year]
  <2>2. a \in AuctionRecord
    BY <2>1, AddRecordLease, AuctionAssumption DEF AuctionRecord, Amounts, LeaseInv
  <2>3. /\ auctions'[n] = a /\ \A m \in Names : m # n => auctions'[m] = auctions[m]
        /\ auctions' \in [Names -> AuctionRecord \cup {NoAuction}]
    BY <1>1, <2>2 DEF StartAuction, LeaseInv
  <2>4. EndsBeforeExpiry'
    BY <2>3, AuctionAssumption DEF EndsBeforeExpiry, Active, LeaseInv
  <2>5. LeaseHeld'
    <3>1. /\ lease'[n] = [nft |-> minted + 1, exp |-> now + Year]
          /\ \A m \in Names : m # n => lease'[m] = lease[m]
          /\ lease'[n] \in Lease
      <4>1. /\ lease'[n] = [nft |-> minted + 1, exp |-> now + Year]
            /\ \A m \in Names : m # n => lease'[m] = lease[m]
            /\ minted + 1 \in NftIds
        BY <2>1, AddRecordLease
      <4> QED
        BY <4>1, AuctionAssumption DEF Lease, LeaseInv
    <3>2. lease'[n] # NoLease
      BY <3>1, AuctionNulls
    <3>3. /\ lease'[n].nft = auctions'[n].nft
          /\ lease'[n].exp = auctions'[n].exp
      BY <3>1, <2>3
    <3>4. \A m \in Names : m # n => lease'[m] = lease[m] /\ auctions'[m] = auctions[m]
      BY <3>1, <2>3
    <3>5. now' = now
      BY <2>1
    <3>6. LeaseHeld
      BY DEF LeaseInv
    <3> QED
      BY <3>2, <3>3, <3>4, <3>5, <3>6 DEF LeaseHeld, Active
  <2> QED
    BY <2>1, <2>3, <2>4, <2>5, AddRecordLease DEF LeaseInv
<1>2. ASSUME NEW b \in Bidders, NEW n \in Names, NEW bid \in Amounts, PlaceBid(b, n, bid)
      PROVE  LeaseInv'
  <2>1. auctions'[n].end < auctions'[n].exp
    BY <1>2, PlaceBidEnds
  <2>2. EndsBeforeExpiry'
    BY <1>2, <2>1, PlaceBidShape DEF EndsBeforeExpiry, Active, LeaseInv
  <2>3. LeaseHeld'
    <3>1. /\ Active(n) /\ UNCHANGED <<now, lease>>
          /\ auctions'[n].nft = auctions[n].nft
          /\ auctions'[n].exp = auctions[n].exp
          /\ \A m \in Names : m # n => auctions'[m] = auctions[m]
      BY <1>2, PlaceBidShape
    <3>2. LeaseHeld
      BY DEF LeaseInv
    <3> QED
      BY <3>1, <3>2 DEF LeaseHeld, Active
  <2> QED
    BY <1>2, <2>2, <2>3, PlaceBidShape DEF LeaseInv
<1>3. ASSUME NEW ns, Close(ns) PROVE LeaseInv'
  <2>1. /\ auctions' = [n \in Names |-> IF n \in ns THEN NoAuction ELSE auctions[n]]
        /\ UNCHANGED <<now, lease, minted>>
    BY <1>3, CloseTakesAway
  <2> QED
    BY <2>1 DEF LeaseInv, EndsBeforeExpiry, LeaseHeld, Active
<1>4. ASSUME NEW n \in Names, CollectFund(n) PROVE LeaseInv'
  <2>1. Active(n) /\ UNCHANGED <<now, lease, minted>>
    BY <1>4 DEF CollectFund
  <2>2. /\ auctions'[n] = [auctions[n] EXCEPT !.bid = 0]
        /\ \A m \in Names : m # n => auctions'[m] = auctions[m]
        /\ auctions' = [m \in Names |-> auctions'[m]]
    BY <1>4 DEF CollectFund, LeaseInv
  <2>3. auctions[n] \in AuctionRecord
    BY <2>1, AuctionTyped
  <2>4. /\ auctions'[n] \in AuctionRecord /\ auctions'[n].end = auctions[n].end
        /\ auctions'[n].exp = auctions[n].exp /\ auctions'[n].nft = auctions[n].nft
    BY <2>2, <2>3 DEF AuctionRecord
  <2>5. auctions' \in [Names -> AuctionRecord \cup {NoAuction}]
    BY <2>2, <2>4 DEF LeaseInv
  <2>6. EndsBeforeExpiry' /\ LeaseHeld'
    BY <2>1, <2>2, <2>4 DEF EndsBeforeExpiry, LeaseHeld, Active, LeaseInv
  <2> QED
    BY <2>1, <2>5, <2>6 DEF LeaseInv
<1>5. ASSUME NEW n \in Names, DirectRegister(n) PROVE LeaseInv'
  <2>1. AddRecord(n, NoOwner) /\ UNCHANGED <<now, auctions>>
    BY <1>5 DEF DirectRegister
  <2>2. Active(n) => now > auctions[n].exp + Grace
    BY <2>1, AddRecordLease, AuctionTyped, AuctionAssumption DEF LeaseInv, LeaseHeld
  <2>3. LeaseHeld'
    BY <2>1, <2>2, AddRecordLease, AuctionTyped, AuctionAssumption DEF LeaseHeld, Active, LeaseInv
  <2> QED
    BY <2>1, <2>3, AddRecordLease DEF LeaseInv, EndsBeforeExpiry, Active
<1>6. CASE AdminWithdraw \/ SetAuthorization
  BY <1>6 DEF AdminWithdraw, SetAuthorization, LeaseInv, EndsBeforeExpiry, LeaseHeld, Active
<1>7. CASE Tick
  <2>1. now \in Nat /\ now' = now + 1 /\ UNCHANGED <<lease, minted, auctions>>
    BY <1>7 DEF Tick, LeaseInv
  <2>2. \A n \in Names : Active(n)' => Active(n) /\ auctions[n].exp \in Nat
    BY <2>1, AuctionTyped DEF Active
  <2>3. LeaseHeld'
    BY <2>1, <2>2, AuctionAssumption DEF LeaseHeld, LeaseInv
  <2> QED
    BY <2>1, <2>3 DEF LeaseInv, EndsBeforeExpiry, Active
<1>8. CASE UNCHANGED vars
  BY <1>8 DEF vars, LeaseInv, EndsBeforeExpiry, LeaseHeld, Active
<1> QED
  BY <1>1, <1>2, <1>3, <1>4, <1>5, <1>6, <1>7, <1>8
  DEF Next, Claim, AdminFinalize, AdminTryFinalize

LEMMA LeaseInvCorrect == Spec => []LeaseInv
BY InitLease, NextLease, PTL DEF Spec

\* However often a bid extends it, an auction ends before its NFT expires.
THEOREM EndsBeforeExpiryCorrect == Spec => []EndsBeforeExpiry
<1>1. LeaseInv => EndsBeforeExpiry
  BY DEF LeaseInv
<1> QED
  BY <1>1, LeaseInvCorrect, PTL

\* No other buyer gets a name under auction before the grace period of the
\* house's NFT is over.
THEOREM LeaseHeldCorrect == Spec => []LeaseHeld
<1>1. LeaseInv => LeaseHeld
  BY DEF LeaseInv
<1> QED
  BY <1>1, LeaseInvCorrect, PTL

\* No new leading bid moves the end forward, and each leaves the quiet period
\* to answer it, up to the NFT's expiration.
THEOREM QuietCorrect == Spec => QuietProtected
<1>1. ASSUME LeaseInv, [Next]_vars PROVE QuietStep \/ UNCHANGED vars
  <2>1. ASSUME NEW b \in Bidders, NEW n \in Names, NEW bid \in Amounts,
               StartAuction(b, n, bid)
        PROVE  QuietStep
    <3>1. ~Active(n) /\ \A m \in Names : m # n => auctions'[m] = auctions[m]
      BY <1>1, <2>1 DEF StartAuction, LeaseInv
    <3>2. \A m \in Names : Active(m) => ~(auctions'[m].bid > auctions[m].bid)
      BY <1>1, <3>1, AuctionTyped
    <3> QED
      BY <3>2 DEF QuietStep
  <2>2. ASSUME NEW b \in Bidders, NEW n \in Names, NEW bid \in Amounts, PlaceBid(b, n, bid)
        PROVE  QuietStep
    <3>1. /\ auctions'[n].end >= auctions[n].end
          /\ \/ auctions'[n].end >= now + QuietPeriod
             \/ now + QuietPeriod >= auctions[n].exp
      BY <1>1, <2>2, PlaceBidEnds
    <3>2. \A m \in Names \ {n} : Active(m) => ~(auctions'[m].bid > auctions[m].bid)
      <4>1. \A m \in Names : m # n => auctions'[m] = auctions[m]
        BY <1>1, <2>2, PlaceBidShape
      <4>2. \A m \in Names : Active(m) => auctions[m].bid \in Nat
        BY <1>1, AuctionTyped
      <4> QED
        BY <4>1, <4>2
    <3> QED
      BY <3>1, <3>2 DEF QuietStep
  <2>3. ASSUME NEW ns, Close(ns) PROVE QuietStep
    <3>1. auctions' = [n \in Names |-> IF n \in ns THEN NoAuction ELSE auctions[n]]
      BY <2>3, CloseTakesAway
    <3>2. \A m \in Names : Active(m) /\ Active(m)' => ~(auctions'[m].bid > auctions[m].bid)
      BY <1>1, <3>1, AuctionTyped DEF Active
    <3> QED
      BY <3>2 DEF QuietStep
  <2>4. ASSUME NEW n \in Names, CollectFund(n) PROVE QuietStep
    <3>1. Active(n) /\ auctions' = [auctions EXCEPT ![n].bid = 0]
      BY <2>4 DEF CollectFund
    <3>2. /\ auctions'[n].bid = 0
          /\ \A m \in Names : m # n => auctions'[m] = auctions[m]
      BY <1>1, <3>1, AuctionTyped DEF LeaseInv, AuctionRecord
    <3>3. \A m \in Names : Active(m) => ~(auctions'[m].bid > auctions[m].bid)
      BY <1>1, <3>2, AuctionTyped
    <3> QED
      BY <3>3 DEF QuietStep
  <2>5. ASSUME auctions' = auctions PROVE QuietStep
    <3>1. \A m \in Names : Active(m) => ~(auctions'[m].bid > auctions[m].bid)
      BY <1>1, <2>5, AuctionTyped
    <3> QED
      BY <3>1 DEF QuietStep
  <2> QED
    BY <1>1, <2>1, <2>2, <2>3, <2>4, <2>5
    DEF Next, Claim, AdminFinalize, AdminTryFinalize, DirectRegister, AdminWithdraw,
        SetAuthorization, Tick, tableVars
<1> QED
  BY <1>1, LeaseInvCorrect, PTL DEF Spec, QuietProtected

-----------------------------------------------------------------------------
(* The house and the other buyers keep to what the registry promises.      *)

HolderOf == [n \in Names |-> IF lease[n] = NoLease THEN 0 ELSE lease[n].nft]
ExpiryOf == [n \in Names |-> IF lease[n] = NoLease THEN 0 ELSE lease[n].exp]

Leases == INSTANCE Lease WITH holder <- HolderOf, expires <- ExpiryOf

\* add_record, whoever calls it, grants the name.
LEMMA AddRecordGrants ==
    ASSUME LeaseInv, NEW n \in Names, NEW who, AddRecord(n, who), now' = now
    PROVE  Leases!Grant(n)
<1>1. /\ minted' = minted + 1 /\ minted + 1 \in NftIds
      /\ lease'[n] = [nft |-> minted + 1, exp |-> now + Year]
      /\ \A m \in Names : m # n => lease'[m] = lease[m]
      /\ lease[n] # NoLease => lease[n].exp + Grace < now
  BY AddRecordLease
<1>2. lease'[n] # NoLease
  <2>1. lease'[n] \in Lease
    BY <1>1, AuctionAssumption DEF Lease, LeaseInv
  <2> QED
    BY <2>1, AuctionNulls
<1>3. HolderOf[n] = 0 \/ ExpiryOf[n] + Grace < now
  BY <1>1 DEF HolderOf, ExpiryOf
<1>4. HolderOf'[n] = minted' /\ ExpiryOf'[n] >= now
  <2>1. now + Year >= now
    BY AuctionAssumption DEF LeaseInv
  <2>2. HolderOf'[n] = lease'[n].nft /\ ExpiryOf'[n] = lease'[n].exp
    BY <1>2 DEF HolderOf, ExpiryOf
  <2> QED
    BY <1>1, <2>1, <2>2
<1>5. \A m \in Names \ {n} : HolderOf'[m] = HolderOf[m] /\ ExpiryOf'[m] = ExpiryOf[m]
  BY <1>1 DEF HolderOf, ExpiryOf
<1> QED
  BY <1>1, <1>3, <1>4, <1>5 DEF Leases!Grant, Leases!Free, Leases!Others

\* Under the auction house too every name is leased (module Lease, which
\* IotaNames implements): this module's cut of the registry does nothing that
\* add_record would not let it do.
THEOREM AuctionKeepsLeases == Spec => Leases!Spec
<1>1. Init => Leases!Init
  BY DEF Init, Leases!Init, HolderOf
<1>2. ASSUME LeaseInv, [Next]_vars
      PROVE  [Leases!Next]_<<now, minted, <<HolderOf, ExpiryOf>>>>
  <2> USE DEF registryVars
  <2>1. ASSUME UNCHANGED <<now, lease, minted>>
        PROVE  UNCHANGED <<now, minted, <<HolderOf, ExpiryOf>>>>
    BY <2>1 DEF HolderOf, ExpiryOf
  <2>2. ASSUME NEW b \in Bidders, NEW n \in Names, NEW bid \in Amounts,
               StartAuction(b, n, bid)
        PROVE  Leases!Next
    <3>1. AddRecord(n, House) /\ now' = now
      BY <2>2 DEF StartAuction
    <3>2. Leases!Grant(n)
      BY <1>2, <3>1, AddRecordGrants
    <3> QED
      BY <3>2 DEF Leases!Next
  <2>3. ASSUME NEW n \in Names, DirectRegister(n) PROVE Leases!Next
    <3>1. AddRecord(n, NoOwner) /\ now' = now
      BY <2>3 DEF DirectRegister
    <3>2. Leases!Grant(n)
      BY <1>2, <3>1, AddRecordGrants
    <3> QED
      BY <3>2 DEF Leases!Next
  <2>4. ASSUME Tick PROVE Leases!Next
    <3>1. now' = now + 1 /\ UNCHANGED <<minted, lease>>
      BY <2>4 DEF Tick
    <3>2. UNCHANGED <<HolderOf, ExpiryOf>>
      BY <3>1 DEF HolderOf, ExpiryOf
    <3> QED
      BY <3>1, <3>2 DEF Leases!Next, Leases!Tick, Leases!terms
  <2>5. ASSUME \/ \E b \in Bidders, n \in Names, bid \in Amounts : PlaceBid(b, n, bid)
               \/ \E ns : Close(ns)
               \/ \E n \in Names : CollectFund(n)
               \/ AdminWithdraw \/ SetAuthorization \/ UNCHANGED vars
        PROVE  UNCHANGED <<now, lease, minted>>
    BY <2>5 DEF PlaceBid, Close, CollectFund, AdminWithdraw, SetAuthorization, vars
  <2>6. ASSUME \/ \E b \in Bidders, n \in Names : Claim(b, n)
               \/ \E n \in Names : AdminFinalize(n)
               \/ \E limit \in Limits : AdminTryFinalize(limit)
        PROVE  \E ns : Close(ns)
    BY <2>6 DEF Claim, AdminFinalize, AdminTryFinalize
  <2> QED
    BY <1>2, <2>1, <2>2, <2>3, <2>4, <2>5, <2>6 DEF Next
<1> QED
  BY <1>1, <1>2, LeaseInvCorrect, PTL DEF Spec, Leases!Spec, Leases!terms

-----------------------------------------------------------------------------
(* The table, and the money in it.                                          *)

\* What is left keeps its order, so it is a sequence, and without repetition
\* if the sequence was.
LEMMA WithoutIs ==
    ASSUME NEW T, NEW s \in Seq(T), IsInjective(s), NEW S
    PROVE  /\ Without(s, S) \in Seq(T) /\ IsInjective(Without(s, S))
           /\ ToSet(Without(s, S)) = ToSet(s) \ S
<1> DEFINE n == Len(s)
           step(kept, x) == IF x \in S THEN kept ELSE Append(kept, x)
           body(g, D) == [U \in SUBSET D |->
                            IF U = {} THEN <<>> ELSE step(g[U \ {Max(U)}], s[Max(U)])]
           iter == CHOOSE g : g = body(g, DOMAIN s)
<1>1. Without(s, S) = iter[DOMAIN s]
  BY Zenon DEF Without, FoldLeft, MapThenFoldSet
<1>2. DOMAIN s = 1..n /\ n \in Nat /\ \A i \in 1..n : s[i] \in T
  OBVIOUS
<1> HIDE DEF step, iter, n
<1>3. \E g : g = body(g, 1..n)
  <2> DEFINE G == {m \in 0..n : \E g : g = body(g, 1..m)}
  <2>1. 0 \in G
    <3>1. [U \in SUBSET (1..0) |-> <<>>] = body([U \in SUBSET (1..0) |-> <<>>], 1..0)
      OBVIOUS
    <3> QED
      BY <1>2, <3>1
  <2>2. ASSUME NEW k \in 0..(n - 1), k \in G PROVE k + 1 \in G
    <3>1. PICK g : g = body(g, 1..k)
      BY <2>2
    <3> DEFINE h == [U \in SUBSET (1..(k + 1)) |->
                        IF k + 1 \in U THEN step(g[U \ {k + 1}], s[k + 1]) ELSE g[U]]
    <3>2. ASSUME NEW U \in SUBSET (1..(k + 1))
          PROVE  h[U] = IF U = {} THEN <<>> ELSE step(h[U \ {Max(U)}], s[Max(U)])
      <4>1. CASE k + 1 \in U
        <5>1. Max(U) = k + 1 /\ U # {}
          BY <1>2, <4>1, MaxIs
        <5>2. U \ {k + 1} \in SUBSET (1..(k + 1)) /\ k + 1 \notin U \ {k + 1}
          OBVIOUS
        <5> QED
          BY <4>1, <5>1, <5>2
      <4>2. CASE k + 1 \notin U
        <5>1. U \in SUBSET (1..k)
          BY <1>2, <4>2
        <5>2. g[U] = IF U = {} THEN <<>> ELSE step(g[U \ {Max(U)}], s[Max(U)])
          BY <3>1, <5>1
        <5>3. U \ {Max(U)} \in SUBSET (1..(k + 1)) /\ k + 1 \notin U \ {Max(U)}
          BY <4>2
        <5> QED
          BY <4>2, <5>2, <5>3
      <4> QED
        BY <4>1, <4>2
    <3>3. h = body(h, 1..(k + 1))
      <4>1. h = [U \in SUBSET (1..(k + 1)) |-> h[U]]
        OBVIOUS
      <4> HIDE DEF h
      <4> QED
        BY <3>2, <4>1
    <3>4. k + 1 \in 0..n
      BY <1>2
    <3> HIDE DEF h
    <3> QED
      BY <3>3, <3>4
  <2> HIDE DEF G
  <2>3. n \in G
    BY <1>2, <2>1, <2>2, UpTo
  <2> QED
    BY <2>3 DEF G
<1>4. iter = body(iter, 1..n)
  BY <1>2, <1>3 DEF iter
<1> DEFINE G == {m \in 0..n : /\ iter[1..m] \in Seq(T) /\ IsInjective(iter[1..m])
                              /\ ToSet(iter[1..m]) = {s[i] : i \in 1..m} \ S}
<1>5. 0 \in G
  <2>1. iter[1..0] = <<>>
    <3>1. 1..0 = {} /\ 1..0 \in SUBSET (1..n)
      BY <1>2
    <3> QED
      BY <1>4, <3>1
  <2>2. <<>> \in Seq(T) /\ IsInjective(<<>>) /\ ToSet(<<>>) = {}
    BY DEF IsInjective, ToSet
  <2>3. {s[i] : i \in 1..0} = {}
    OBVIOUS
  <2>4. ToSet(iter[1..0]) = {s[i] : i \in 1..0} \ S
    BY <2>1, <2>2, <2>3, Zenon
  <2>5. iter[1..0] \in Seq(T) /\ IsInjective(iter[1..0])
    BY <2>1, <2>2, Zenon
  <2>6. 0 \in 0..n
    BY <1>2
  <2> QED
    BY <2>4, <2>5, <2>6, Zenon
<1>6. ASSUME NEW k \in 0..(n - 1), k \in G PROVE k + 1 \in G
  <2>1. iter[1..(k + 1)] = step(iter[1..k], s[k + 1])
    <3>1. Max(1..(k + 1)) = k + 1
      BY <1>2, MaxIs
    <3>2. 1..(k + 1) \in SUBSET (1..n) /\ 1..(k + 1) # {} /\ (1..(k + 1)) \ {k + 1} = 1..k
      BY <1>2
    <3> QED
      BY <1>4, <3>1, <3>2
  <2> DEFINE w == iter[1..k]
             x == s[k + 1]
  <2>2. /\ w \in Seq(T) /\ IsInjective(w) /\ ToSet(w) = {s[i] : i \in 1..k} \ S
        /\ x \in T /\ k + 1 \in 1..n /\ k \in Nat
    BY <1>2, <1>6
  <2>3. {s[i] : i \in 1..(k + 1)} = {s[i] : i \in 1..k} \cup {x}
    BY <2>2
  <2>4. x \notin {s[i] : i \in 1..k}
    BY <1>2, <2>2 DEF IsInjective
  <2>5. CASE x \in S
    BY <1>2, <2>1, <2>2, <2>3, <2>5 DEF step
  <2>6. CASE x \notin S
    <3>1. step(w, x) = Append(w, x)
      BY <2>6 DEF step
    <3> HIDE DEF w, x
    <3>2. x \notin ToSet(w)
      BY <2>2, <2>4
    <3>3. /\ Append(w, x) \in Seq(T) /\ IsInjective(Append(w, x))
          /\ ToSet(Append(w, x)) = ToSet(w) \cup {x}
      BY <2>2, <3>2, AppendKeeps
    <3>4. iter[1..(k + 1)] = Append(w, x)
      BY <2>1, <3>1 DEF w, x
    <3>5. ToSet(w) \cup {x} = {s[i] : i \in 1..(k + 1)} \ S
      BY <2>2, <2>3, <2>6
    <3>6. k + 1 \in 0..n
      BY <1>2
    <3>7. ToSet(Append(w, x)) = {s[i] : i \in 1..(k + 1)} \ S
      BY <3>3, <3>5
    <3> QED
      BY <3>3, <3>4, <3>6, <3>7
  <2> QED
    BY <2>5, <2>6
<1> HIDE DEF G
<1>7. n \in G
  BY <1>2, <1>5, <1>6, UpTo
<1> QED
  BY <1>1, <1>2, <1>7 DEF G, ToSet

\* No two auctions hold the same NFT.
NftsApart ==
    \A n \in Names :
        Active(n) =>
            /\ auctions[n].nft <= minted
            /\ \A m \in Names : Active(m) /\ auctions[m].nft = auctions[n].nft => m = n

\* Until an auction is over it holds the coin last bid for it; then the coin
\* may be collected.
CoinHeld ==
    \A n \in Names : Active(n) /\ ~Ended(n) => auctions[n].bid = lastBid[n]

\* What the table's order and the money are proved from.
HouseInv == LeaseInv /\ TypeOK /\ NftsApart /\ CoinHeld

\* The auctions that are closed are over, and only they are gone.
LEMMA ClosesEnded ==
    ASSUME HouseInv,
           \/ \E b \in Bidders, n \in Names : Claim(b, n)
           \/ \E n \in Names : AdminFinalize(n)
           \/ \E limit \in Limits : AdminTryFinalize(limit)
    PROVE  \E ns \in SUBSET Names : Close(ns) /\ \A n \in ns : Active(n) /\ Ended(n)
<1>1. ASSUME NEW limit, AdminTryFinalize(limit)
      PROVE  \E ns \in SUBSET Names : Close(ns) /\ \A n \in ns : Active(n) /\ Ended(n)
  <2> DEFINE ns == {n \in Visited(limit) : Ended(n)}
  <2>1. Visited(limit) \subseteq {n \in Names : Active(n)}
    <3>1. DOMAIN queue = 1..Len(queue)
      BY DEF HouseInv, TypeOK
    <3>2. Visited(limit) \subseteq ToSet(queue)
      BY <3>1 DEF Visited, ToSet
    <3> QED
      BY <3>2 DEF HouseInv, TypeOK
  <2>2. ns \in SUBSET Names /\ Close(ns) /\ \A n \in ns : Active(n) /\ Ended(n)
    BY <1>1, <2>1 DEF AdminTryFinalize
  <2> QED
    BY <2>2
<1>2. ASSUME NEW n \in Names, Active(n), Ended(n), Close({n})
      PROVE  \E ns \in SUBSET Names : Close(ns) /\ \A k \in ns : Active(k) /\ Ended(k)
  BY <1>2
<1> QED
  BY <1>1, <1>2 DEF Claim, AdminFinalize

\* A step is one of five, or leaves auctions and money alone.
LEMMA Steps ==
    ASSUME HouseInv, [Next]_vars
    PROVE  \/ \E b \in Bidders, n \in Names, bid \in Amounts : StartAuction(b, n, bid)
           \/ \E b \in Bidders, n \in Names, bid \in Amounts : PlaceBid(b, n, bid)
           \/ \E ns \in SUBSET Names : Close(ns) /\ \A n \in ns : Active(n) /\ Ended(n)
           \/ \E n \in Names : CollectFund(n)
           \/ \E n \in Names : DirectRegister(n)
           \/ AdminWithdraw \/ SetAuthorization \/ Tick \/ UNCHANGED vars
BY ClosesEnded DEF Next

LEMMA InitHouse == Init => HouseInv
<1> SUFFICES ASSUME Init PROVE HouseInv
  OBVIOUS
<1>1. IsInjective(<<>>) /\ ToSet(<<>>) = {} /\ <<>> \in Seq(Names)
  BY DEF IsInjective, ToSet
<1>2. {n \in Names : Active(n)} = {}
  BY DEF Init, Active
<1>3. 1 \in 1..MaxTime
  BY AuctionAssumption DEF MaxTime
<1>4. TypeOK
  BY <1>1, <1>2, <1>3, AuctionAssumption DEF Init, TypeOK
<1>5. NftsApart /\ CoinHeld
  BY <1>2 DEF NftsApart, CoinHeld
<1> QED
  BY <1>4, <1>5, InitLease DEF HouseInv

\* A bid on a name puts it in front, whether it was queued or not.
LEMMA FrontIs ==
    ASSUME HouseInv, NEW n \in Names
    PROVE  /\ ToFront(n) \in Seq(Names) /\ IsInjective(ToFront(n))
           /\ ToSet(ToFront(n)) = ToSet(queue) \cup {n}
<1> DEFINE w == Without(queue, {n})
<1>1. w \in Seq(Names) /\ IsInjective(w) /\ ToSet(w) = ToSet(queue) \ {n}
  BY WithoutIs DEF HouseInv, TypeOK
<1> HIDE DEF w
<1>2. /\ <<n>> \o w \in Seq(Names) /\ IsInjective(<<n>> \o w)
      /\ ToSet(<<n>> \o w) = ToSet(w) \cup {n}
  BY <1>1, PrependKeeps
<1> QED
  BY <1>1, <1>2 DEF w, ToFront

\* The table before and after, once the names of active auctions are known.
LEMMA QueueStays ==
    ASSUME HouseInv, queue' = queue, \A n \in Names : Active(n)' <=> Active(n)
    PROVE  /\ queue' \in Seq(Names) /\ IsInjective(queue')
           /\ ToSet(queue') = {n \in Names : Active(n)'}
BY DEF HouseInv, TypeOK

LEMMA StartHouse ==
    ASSUME HouseInv, LeaseInv', NEW b \in Bidders, NEW n \in Names, NEW bid \in Amounts,
           StartAuction(b, n, bid)
    PROVE  HouseInv'
<1>1. LeaseInv /\ TypeOK /\ NftsApart /\ CoinHeld /\ bid \in Nat
  BY DEF HouseInv, Amounts
<1>2. ~Active(n) /\ now' = now /\ AddRecord(n, House) /\ bid <= wallet[b]
  BY DEF StartAuction
<1>3. minted' = minted + 1 /\ minted + 1 \in NftIds /\ minted' \in 0..MaxNfts /\ minted \in Nat
  BY <1>1, <1>2, AddRecordLease, AuctionAssumption DEF LeaseInv
<1> DEFINE a == [end |-> now + BiddingPeriod, bidder |-> b, bid |-> bid,
                 nft |-> minted + 1, exp |-> now + Year]
<1>4. /\ auctions'[n] = a /\ \A m \in Names : m # n => auctions'[m] = auctions[m]
      /\ a \in AuctionRecord /\ a.nft = minted + 1 /\ a.bid = bid
  BY <1>1, <1>3, AuctionAssumption DEF StartAuction, LeaseInv, AuctionRecord, TypeOK
<1> HIDE DEF a
<1>5. Active(n)' /\ \A m \in Names : m # n => (Active(m)' <=> Active(m))
  BY <1>4, AuctionNulls DEF Active
<1>6. /\ queue' \in Seq(Names) /\ IsInjective(queue')
      /\ ToSet(queue') = {m \in Names : Active(m)'}
  <2>1. /\ queue \in Seq(Names) /\ IsInjective(queue) /\ queue' = <<n>> \o queue
        /\ ToSet(queue) = {m \in Names : Active(m)}
    BY <1>1 DEF TypeOK, StartAuction
  <2>2. /\ queue' \in Seq(Names) /\ IsInjective(queue') /\ ToSet(queue') = ToSet(queue) \cup {n}
    BY <1>2, <2>1, PrependKeeps
  <2> QED
    BY <1>5, <2>1, <2>2
<1>7. /\ wallet' \in [Bidders -> Nat] /\ lastBid' \in [Names -> Nat]
      /\ owner' \in [NftIds -> Bidders \cup {House, NoOwner}]
  BY <1>1, <1>2, <1>3 DEF StartAuction, AddRecord, TypeOK
<1>8. UNCHANGED <<balance, withdrawn, authorized, finalPrice, charged>>
  BY DEF StartAuction
<1>9. TypeOK'
  BY <1>1, <1>2, <1>6, <1>7, <1>8 DEF TypeOK, LeaseInv
<1>10. NftsApart'
  BY <1>1, <1>3, <1>4, <1>5, AuctionTyped DEF NftsApart, AuctionRecord, NftIds
<1>11. CoinHeld'
  <2>1. lastBid'[n] = bid /\ \A m \in Names : m # n => lastBid'[m] = lastBid[m]
    BY <1>1 DEF StartAuction, TypeOK
  <2> QED
    BY <1>1, <1>2, <1>4, <1>5, <2>1 DEF CoinHeld, Ended
<1> QED
  BY <1>9, <1>10, <1>11 DEF HouseInv

\* Who bids pays, and who is outbid is paid back.
LEMMA PayIs ==
    ASSUME wallet \in [Bidders -> Nat], NEW b \in Bidders, NEW bid \in Nat, bid <= wallet[b],
           NEW a, a.bidder \in Bidders, a.bid \in Nat
    PROVE  /\ Pay(b, bid, a) \in [Bidders -> Nat]
           /\ \A x \in Bidders :
                Pay(b, bid, a)[x] = wallet[x] - (IF x = b THEN bid ELSE 0)
                                      + (IF x = a.bidder THEN a.bid ELSE 0)
<1> DEFINE paid == [wallet EXCEPT ![b] = @ - bid]
<1>1. paid \in [Bidders -> Nat] /\ \A x \in Bidders : paid[x] = wallet[x] - (IF x = b THEN bid ELSE 0)
  OBVIOUS
<1>2. Pay(b, bid, a) = [paid EXCEPT ![a.bidder] = @ + a.bid]
  BY DEF Pay
<1> HIDE DEF paid
<1> QED
  BY <1>1, <1>2

LEMMA BidHouse ==
    ASSUME HouseInv, LeaseInv', NEW b \in Bidders, NEW n \in Names, NEW bid \in Amounts,
           PlaceBid(b, n, bid)
    PROVE  HouseInv'
<1>1. LeaseInv /\ TypeOK /\ NftsApart /\ CoinHeld /\ bid \in Nat
  BY DEF HouseInv, Amounts
<1>2. /\ Active(n) /\ auctions'[n] \in AuctionRecord
      /\ auctions'[n].nft = auctions[n].nft /\ auctions[n] \in AuctionRecord
      /\ \A m \in Names : m # n => auctions'[m] = auctions[m]
      /\ UNCHANGED <<now, lease, minted>>
  BY <1>1, PlaceBidShape, AuctionTyped
<1>3. auctions'[n].bid = bid
  BY <1>1, PlaceBidShape
<1>4. \A m \in Names : Active(m)' <=> Active(m)
  BY <1>2, AuctionNulls DEF Active
<1>5. /\ queue' \in Seq(Names) /\ IsInjective(queue')
      /\ ToSet(queue') = {m \in Names : Active(m)'}
  <2>1. queue' = ToFront(n) /\ ToSet(queue) = {m \in Names : Active(m)}
    BY <1>1 DEF TypeOK, PlaceBid
  <2> QED
    BY <1>2, <1>4, <2>1, FrontIs
<1>6. wallet' \in [Bidders -> Nat] /\ lastBid' \in [Names -> Nat]
  <2>1. bid <= wallet[b] /\ auctions[n].bid \in Nat /\ auctions[n].bidder \in Bidders
    BY <1>2 DEF PlaceBid, AuctionRecord
  <2>2. wallet' \in [Bidders -> Nat]
    BY <1>1, <2>1, PayIs DEF PlaceBid, TypeOK
  <2> QED
    BY <1>1, <2>2 DEF PlaceBid, TypeOK
<1>7. UNCHANGED <<owner, balance, withdrawn, authorized, finalPrice, charged>>
  BY DEF PlaceBid, registryVars
<1>8. TypeOK'
  BY <1>1, <1>2, <1>5, <1>6, <1>7 DEF TypeOK, LeaseInv
<1>9. NftsApart'
  BY <1>1, <1>2, <1>4 DEF NftsApart
<1>10. CoinHeld'
  <2>1. lastBid'[n] = bid /\ \A m \in Names : m # n => lastBid'[m] = lastBid[m]
    BY <1>1 DEF PlaceBid, TypeOK
  <2> QED
    BY <1>1, <1>2, <1>3, <1>4, <2>1 DEF CoinHeld, Ended
<1> QED
  BY <1>8, <1>9, <1>10 DEF HouseInv

LEMMA CloseHouse ==
    ASSUME HouseInv, LeaseInv', NEW ns \in SUBSET Names, Close(ns),
           \A n \in ns : Active(n)
    PROVE  HouseInv'
<1>1. LeaseInv /\ TypeOK /\ NftsApart /\ CoinHeld /\ IsFiniteSet(ns)
  BY FS_Subset, AuctionAssumption DEF HouseInv
<1>2. \A n \in Names : auctions'[n] = IF n \in ns THEN NoAuction ELSE auctions[n]
  BY DEF Close
<1>3. \A n \in Names : Active(n)' <=> Active(n) /\ n \notin ns
  BY <1>2 DEF Active
<1>4. /\ queue' \in Seq(Names) /\ IsInjective(queue')
      /\ ToSet(queue') = {n \in Names : Active(n)'}
  <2>1. /\ queue' \in Seq(Names) /\ IsInjective(queue') /\ ToSet(queue') = ToSet(queue) \ ns
    BY <1>1, WithoutIs DEF Close, TypeOK
  <2> QED
    BY <1>1, <1>3, <2>1 DEF TypeOK
<1>5. \A n \in ns : /\ auctions[n].bid \in Nat /\ auctions[n].bidder \in Bidders
                    /\ Bids[n] = auctions[n].bid
  BY <1>1, AuctionTyped DEF Bids, AuctionRecord
<1>6. balance' \in Nat
  <2>1. SumFunctionOnSet(Bids, ns) \in Nat
    BY <1>1, <1>5, SumNat
  <2> QED
    BY <1>1, <2>1 DEF Close, TypeOK
<1>7. charged' \in [Bidders -> Nat]
  <2>1. ASSUME NEW b \in Bidders PROVE SumFunctionOnSet(Leading(b), ns) \in Nat
    <3>1. \A n \in ns : Leading(b)[n] \in Nat
      BY <1>1 DEF Leading, TypeOK
    <3> QED
      BY <1>1, <3>1, SumNat
  <2> QED
    BY <1>1, <2>1 DEF Close, TypeOK
<1>8. owner' \in [NftIds -> Bidders \cup {House, NoOwner}]
  <2>1. ASSUME NEW i \in NftIds, \E n \in ns : auctions[n].nft = i
        PROVE  auctions[CHOOSE n \in ns : auctions[n].nft = i].bidder \in Bidders
    BY <1>5, <2>1
  <2> QED
    BY <1>1, <2>1 DEF Close, TypeOK
<1>9. finalPrice' \in [Names -> Nat]
  BY <1>1, <1>5 DEF Close, TypeOK
<1>10. UNCHANGED <<now, lease, minted, withdrawn, wallet, authorized, lastBid>>
  BY DEF Close
<1>11. TypeOK'
  BY <1>1, <1>4, <1>6, <1>7, <1>8, <1>9, <1>10 DEF TypeOK, LeaseInv
<1>12. NftsApart' /\ CoinHeld'
  BY <1>1, <1>2, <1>3, <1>10 DEF NftsApart, CoinHeld, Ended
<1> QED
  BY <1>11, <1>12 DEF HouseInv

LEMMA CollectHouse ==
    ASSUME HouseInv, LeaseInv', NEW n \in Names, CollectFund(n)
    PROVE  /\ HouseInv' /\ Active(n)
           /\ \A m \in Names : Active(m)' <=> Active(m)
           /\ auctions'[n].bidder = auctions[n].bidder /\ auctions'[n].bid = 0
           /\ \A m \in Names : m # n => auctions'[m] = auctions[m]
<1>1. LeaseInv /\ TypeOK /\ NftsApart /\ CoinHeld
  BY DEF HouseInv
<1>2. Active(n) /\ Ended(n) /\ auctions[n] \in AuctionRecord /\ auctions[n].bid \in Nat
  BY <1>1, AuctionTyped DEF CollectFund
<1>3. /\ auctions'[n] = [auctions[n] EXCEPT !.bid = 0]
      /\ \A m \in Names : m # n => auctions'[m] = auctions[m]
  BY <1>1 DEF CollectFund, TypeOK
<1>4. /\ auctions'[n] \in AuctionRecord /\ auctions'[n].end = auctions[n].end
      /\ auctions'[n].nft = auctions[n].nft /\ auctions'[n].bidder = auctions[n].bidder
      /\ auctions'[n].bid = 0
  BY <1>2, <1>3 DEF AuctionRecord
<1>5. \A m \in Names : Active(m)' <=> Active(m)
  BY <1>2, <1>3, <1>4, AuctionNulls DEF Active
<1>6. /\ balance' \in Nat
      /\ UNCHANGED <<now, lease, minted, owner, queue, withdrawn, wallet, authorized,
                     lastBid, finalPrice, charged>>
  BY <1>1, <1>2 DEF CollectFund, TypeOK, registryVars, eventVars
<1>7. TypeOK'
  BY <1>1, <1>5, <1>6, QueueStays DEF TypeOK, LeaseInv
<1>8. NftsApart'
  <2>1. \A m \in Names : auctions'[m].nft = auctions[m].nft
    BY <1>3, <1>4
  <2>2. minted' = minted
    BY <1>6
  <2> QED
    BY <1>1, <1>5, <2>1, <2>2 DEF NftsApart
<1>9. CoinHeld'
  BY <1>1, <1>2, <1>3, <1>4, <1>5, <1>6 DEF CoinHeld, Ended
<1> QED
  BY <1>2, <1>3, <1>4, <1>5, <1>7, <1>8, <1>9 DEF HouseInv

\* A step that leaves the table alone: registrations, the administrator's, time.
LEMMA OtherHouse ==
    ASSUME HouseInv, LeaseInv', auctions' = auctions, queue' = queue,
           UNCHANGED <<wallet, eventVars>>, balance' \in Nat, withdrawn' \in Nat,
           authorized' \in BOOLEAN, now' \in {now, now + 1}, now' \in 1..MaxTime,
           owner' \in [NftIds -> Bidders \cup {House, NoOwner}], minted' >= minted
    PROVE  HouseInv'
<1>1. LeaseInv /\ TypeOK /\ NftsApart /\ CoinHeld
  BY DEF HouseInv
<1>2. \A n \in Names : Active(n)' <=> Active(n)
  BY DEF Active
<1>3. TypeOK'
  BY <1>1, <1>2, QueueStays DEF TypeOK, LeaseInv, eventVars
<1>4. NftsApart'
  <2>1. \A n \in Names : Active(n) => auctions[n].nft \in Nat
    BY <1>1, AuctionTyped DEF AuctionRecord, NftIds
  <2> QED
    BY <1>1, <1>2, <2>1, AuctionAssumption DEF NftsApart, LeaseInv
<1>5. CoinHeld'
  <2>1. \A n \in Names : Active(n) /\ Ended(n) => Ended(n)'
    BY <1>1, AuctionTyped DEF Ended, LeaseInv
  <2> QED
    BY <1>1, <1>2, <2>1 DEF CoinHeld, eventVars
<1> QED
  BY <1>3, <1>4, <1>5 DEF HouseInv

LEMMA NextHouse == HouseInv /\ [Next]_vars => HouseInv'
<1> SUFFICES ASSUME HouseInv, [Next]_vars PROVE HouseInv'
  OBVIOUS
<1>1. LeaseInv'
  BY NextLease DEF HouseInv
<1>2. TypeOK /\ LeaseInv
  BY DEF HouseInv
<1>3. ASSUME NEW n \in Names, DirectRegister(n) PROVE HouseInv'
  <2>1. AddRecord(n, NoOwner) /\ UNCHANGED <<now, tableVars, moneyVars, authorized, eventVars>>
    BY <1>3 DEF DirectRegister
  <2>2. owner' \in [NftIds -> Bidders \cup {House, NoOwner}]
    BY <1>2, <2>1 DEF AddRecord, TypeOK
  <2>3. minted' >= minted
    BY <1>2, <2>1 DEF AddRecord, TypeOK
  <2> QED
    BY <1>1, <1>2, <2>1, <2>2, <2>3, OtherHouse DEF tableVars, moneyVars, TypeOK
<1>4. ASSUME AdminWithdraw PROVE HouseInv'
  BY <1>1, <1>2, <1>4, OtherHouse
  DEF AdminWithdraw, registryVars, tableVars, TypeOK
<1>5. ASSUME SetAuthorization PROVE HouseInv'
  BY <1>1, <1>2, <1>5, OtherHouse
  DEF SetAuthorization, registryVars, tableVars, moneyVars, TypeOK
<1>6. ASSUME Tick PROVE HouseInv'
  <2>1. now' \in 1..MaxTime
    BY <1>2, <1>6, AuctionAssumption DEF Tick, TypeOK, MaxTime
  <2> QED
    BY <1>1, <1>2, <1>6, <2>1, OtherHouse
    DEF Tick, registryVars, tableVars, moneyVars, TypeOK
<1>7. ASSUME UNCHANGED vars PROVE HouseInv'
  BY <1>1, <1>2, <1>7, OtherHouse DEF vars, TypeOK, eventVars
<1> QED
  BY <1>1, <1>3, <1>4, <1>5, <1>6, <1>7, Steps, StartHouse, BidHouse, CloseHouse, CollectHouse

LEMMA HouseInvCorrect == Spec => []HouseInv
BY InitHouse, NextHouse, PTL DEF Spec

\* Every variable keeps its type, and the table orders the open auctions.
THEOREM AuctionTypeCorrect == Spec => []TypeOK
<1>1. HouseInv => TypeOK
  BY DEF HouseInv
<1> QED
  BY <1>1, HouseInvCorrect, PTL

\* A name is sold only when its auction is over, and to who bid last.
THEOREM AwardCorrect == Spec => AwardedToLastBidder
<1>1. ASSUME HouseInv, [Next]_vars PROVE AwardStep \/ UNCHANGED vars
  <2>1. LeaseInv /\ TypeOK /\ NftsApart
    BY <1>1 DEF HouseInv
  <2>2. ASSUME \A n \in Names : Active(n) => Active(n)' PROVE AwardStep
    BY <2>2 DEF AwardStep
  <2>3. ASSUME NEW ns \in SUBSET Names, Close(ns), \A n \in ns : Active(n) /\ Ended(n)
        PROVE  AwardStep
    <3>1. ASSUME NEW n \in Names, Active(n), ~Active(n)'
          PROVE  Ended(n) /\ owner'[auctions[n].nft] = auctions[n].bidder
      <4>1. n \in ns
        BY <2>3, <3>1 DEF Close, Active
      <4>2. auctions[n].nft \in NftIds
        BY <2>1, <3>1, AuctionTyped DEF AuctionRecord
      <4>3. \A k \in ns : auctions[k].nft = auctions[n].nft => k = n
        BY <2>1, <2>3, <3>1 DEF NftsApart
      <4>4. (CHOOSE k \in ns : auctions[k].nft = auctions[n].nft) = n
        BY <4>1, <4>3
      <4> QED
        BY <2>3, <4>1, <4>2, <4>4 DEF Close
    <3> QED
      BY <3>1 DEF AwardStep
  <2>4. ASSUME NEW b \in Bidders, NEW n \in Names, NEW bid \in Amounts, StartAuction(b, n, bid)
        PROVE  \A m \in Names : Active(m) => Active(m)'
    BY <2>1, <2>4 DEF StartAuction, Active, TypeOK
  <2>5. ASSUME NEW b \in Bidders, NEW n \in Names, NEW bid \in Amounts, PlaceBid(b, n, bid)
        PROVE  \A m \in Names : Active(m) => Active(m)'
    BY <2>1, <2>5, PlaceBidShape, AuctionNulls DEF Active
  <2>6. ASSUME NEW n \in Names, CollectFund(n)
        PROVE  \A m \in Names : Active(m) => Active(m)'
    BY <1>1, <2>1, <2>6, NextLease, CollectHouse
  <2>7. ASSUME auctions' = auctions PROVE \A m \in Names : Active(m) => Active(m)'
    BY <2>7 DEF Active
  <2> QED
    BY <1>1, <2>2, <2>3, <2>4, <2>5, <2>6, <2>7, Steps
    DEF DirectRegister, AdminWithdraw, SetAuthorization, Tick, tableVars, vars
<1> QED
  BY <1>1, HouseInvCorrect, PTL DEF Spec, AwardedToLastBidder

-----------------------------------------------------------------------------
(* The money: each step changes one term of the sums or clears the terms    *)
(* of the auctions it closes, and changes what the sums are added to by as  *)
(* much.                                                                   *)

LEMMA BidsTyped == HouseInv => \A n \in Names : Bids[n] \in Nat
BY AuctionTyped DEF HouseInv, Bids

LEMMA LeadingTyped ==
    HouseInv => \A b \in Bidders, n \in Names : Leading(b)[n] \in Nat
BY DEF HouseInv, TypeOK, Leading

\* Steps that change no bid.
LEMMA SumsStay ==
    ASSUME HouseInv, auctions' = auctions, lastBid' = lastBid
    PROVE  Bids' = Bids /\ \A b \in Bidders : Leading(b)' = Leading(b)
BY DEF Bids, Leading, Active

\* What the open auctions hold changes by the bids of one.
LEMMA BidsChange ==
    ASSUME HouseInv, HouseInv', NEW n \in Names,
           \A m \in Names : m # n => auctions'[m] = auctions[m]
    PROVE  SumFunctionOnSet(Bids, Names)'
             = SumFunctionOnSet(Bids, Names) - Bids[n] + Bids'[n]
<1> DEFINE f == Bids
           g == Bids'
<1>1. (\A m \in Names : f[m] \in Int /\ g[m] \in Int)
      /\ \A m \in Names \ {n} : g[m] = f[m]
  <2>1. \A m \in Names : f[m] \in Nat
    BY BidsTyped
  <2>2. \A m \in Names : g[m] \in Nat
    <3>1. \A m \in Names : auctions'[m] # NoAuction => auctions'[m].bid \in Nat
      BY DEF HouseInv, TypeOK, AuctionRecord
    <3> QED
      BY <3>1 DEF Bids, Active
  <2>3. \A m \in Names \ {n} : g[m] = f[m]
    BY DEF Bids, Active
  <2> QED
    BY <2>1, <2>2, <2>3
<1> HIDE DEF f, g
<1>2. SumFunctionOnSet(g, Names) = SumFunctionOnSet(f, Names) - f[n] + g[n]
  BY <1>1, SumChange, AuctionAssumption
<1> QED
  BY <1>2 DEF f, g

LEMMA LeadingChange ==
    ASSUME HouseInv, HouseInv', NEW b \in Bidders, NEW n \in Names,
           \A m \in Names : m # n => auctions'[m] = auctions[m] /\ lastBid'[m] = lastBid[m]
    PROVE  SumFunctionOnSet(Leading(b), Names)'
             = SumFunctionOnSet(Leading(b), Names) - Leading(b)[n] + Leading(b)'[n]
<1> DEFINE f == Leading(b)
           g == Leading(b)'
<1>1. (\A m \in Names : f[m] \in Int /\ g[m] \in Int)
      /\ \A m \in Names \ {n} : g[m] = f[m]
  <2>1. \A m \in Names : f[m] \in Nat
    BY LeadingTyped
  <2>2. \A m \in Names : g[m] \in Nat
    BY DEF HouseInv, TypeOK, Leading
  <2>3. \A m \in Names \ {n} : g[m] = f[m]
    BY DEF Leading, Active
  <2> QED
    BY <2>1, <2>2, <2>3
<1> HIDE DEF f, g
<1>2. SumFunctionOnSet(g, Names) = SumFunctionOnSet(f, Names) - f[n] + g[n]
  BY <1>1, SumChange, AuctionAssumption
<1> QED
  BY <1>2 DEF f, g

\* What a bidder has, has been charged and leads with is what the bidder came
\* with: every bid that was topped has been paid back.
LEMMA NextWhole == HouseInv /\ HouseInv' /\ BiddersWhole /\ [Next]_vars => BiddersWhole'
<1> SUFFICES ASSUME HouseInv, HouseInv', BiddersWhole, [Next]_vars, NEW b \in Bidders
             PROVE  wallet'[b] + charged'[b] + SumFunctionOnSet(Leading(b), Names)' = Funds
  BY DEF BiddersWhole
<1> DEFINE lead == SumFunctionOnSet(Leading(b), Names)
<1>1. wallet[b] + charged[b] + lead = Funds
  BY DEF BiddersWhole
<1>2. lead \in Int /\ wallet[b] \in Nat /\ charged[b] \in Nat /\ Funds \in Nat
  <2>1. \A n \in Names : Leading(b)[n] \in Int
    BY LeadingTyped
  <2>2. lead \in Int
    <3> DEFINE f == Leading(b)
    <3> HIDE DEF f
    <3>1. SumFunctionOnSet(f, Names) \in Int
      BY <2>1, SumType, AuctionAssumption DEF f
    <3> QED
      BY <3>1 DEF f
  <2> QED
    BY <2>2, AuctionAssumption DEF HouseInv, TypeOK
<1>3. LeaseInv /\ TypeOK /\ CoinHeld
  BY DEF HouseInv
<1>4. ASSUME NEW c \in Bidders, NEW n \in Names, NEW bid \in Amounts, StartAuction(c, n, bid)
      PROVE  wallet'[b] + charged'[b] + lead' = Funds
  <2>1. /\ ~Active(n) /\ auctions'[n].bidder = c /\ auctions'[n] # NoAuction
        /\ lastBid'[n] = bid /\ bid \in Nat /\ charged' = charged
        /\ \A m \in Names : m # n => auctions'[m] = auctions[m] /\ lastBid'[m] = lastBid[m]
    <3>1. /\ ~Active(n) /\ lastBid'[n] = bid /\ bid \in Nat /\ charged' = charged
          /\ \A m \in Names : m # n => auctions'[m] = auctions[m] /\ lastBid'[m] = lastBid[m]
          /\ auctions'[n].bidder = c
      BY <1>3, <1>4 DEF StartAuction, TypeOK, Amounts
    <3>2. auctions'[n] # NoAuction
      <4>1. n \in ToSet(queue')
        <5>1. queue \in Seq(Names) /\ queue' = <<n>> \o queue
          BY <1>3, <1>4 DEF StartAuction, TypeOK
        <5> QED
          BY <5>1 DEF ToSet
      <4> QED
        BY <4>1 DEF HouseInv, TypeOK, Active
    <3> QED
      BY <3>1, <3>2
  <2>2. Leading(b)[n] = 0 /\ Leading(b)'[n] = IF b = c THEN bid ELSE 0
    BY <2>1 DEF Leading, Active
  <2>3. wallet'[b] = wallet[b] - IF b = c THEN bid ELSE 0
    BY <1>2, <1>3, <1>4 DEF StartAuction, TypeOK
  <2>4. lead' = lead - Leading(b)[n] + Leading(b)'[n]
    BY <2>1, LeadingChange
  <2> HIDE DEF lead
  <2> QED
    BY <1>1, <1>2, <2>1, <2>2, <2>3, <2>4
<1>5. ASSUME NEW c \in Bidders, NEW n \in Names, NEW bid \in Amounts, PlaceBid(c, n, bid)
      PROVE  wallet'[b] + charged'[b] + lead' = Funds
  <2>1. /\ Active(n) /\ auctions[n].bid = lastBid[n] /\ lastBid[n] \in Nat
        /\ auctions[n].bidder \in Bidders
    BY <1>3, <1>5, AuctionTyped DEF PlaceBid, CoinHeld, TypeOK, AuctionRecord
  <2>2. /\ auctions'[n].bidder = c /\ auctions'[n] # NoAuction
        /\ lastBid'[n] = bid /\ bid \in Nat /\ charged' = charged
        /\ \A m \in Names : m # n => auctions'[m] = auctions[m] /\ lastBid'[m] = lastBid[m]
    <3>1. auctions'[n].bidder = c /\ auctions'[n] # NoAuction
          /\ \A m \in Names : m # n => auctions'[m] = auctions[m]
      BY <1>3, <1>5, PlaceBidShape, AuctionNulls
    <3> QED
      BY <1>3, <1>5, <3>1 DEF PlaceBid, TypeOK, Amounts
  <2>3. /\ Leading(b)[n] = IF b = auctions[n].bidder THEN auctions[n].bid ELSE 0
        /\ Leading(b)'[n] = IF b = c THEN bid ELSE 0
    BY <2>1, <2>2 DEF Leading, Active
  <2>4. wallet'[b] = wallet[b] - (IF b = c THEN bid ELSE 0)
                       + (IF b = auctions[n].bidder THEN auctions[n].bid ELSE 0)
    <3>1. wallet' = Pay(c, bid, auctions[n]) /\ bid <= wallet[c]
      BY <1>5 DEF PlaceBid
    <3> DEFINE a == auctions[n]
    <3>2. /\ wallet \in [Bidders -> Nat] /\ a.bidder \in Bidders /\ a.bid \in Nat
          /\ bid \in Nat
      BY <1>3, <2>1, <2>2 DEF TypeOK
    <3> HIDE DEF a
    <3>3. Pay(c, bid, a)[b] = wallet[b] - (IF b = c THEN bid ELSE 0)
                                + (IF b = a.bidder THEN a.bid ELSE 0)
      BY <3>1, <3>2, PayIs
    <3> QED
      BY <3>1, <3>3 DEF a
  <2>5. lead' = lead - Leading(b)[n] + Leading(b)'[n]
    BY <2>2, LeadingChange
  <2> HIDE DEF lead
  <2> QED
    BY <1>1, <1>2, <2>1, <2>2, <2>3, <2>4, <2>5
<1>6. ASSUME NEW ns \in SUBSET Names, Close(ns)
      PROVE  wallet'[b] + charged'[b] + lead' = Funds
  <2> DEFINE f == Leading(b)
             g == Leading(b)'
  <2>1. \A n \in Names : f[n] \in Int /\ g[n] = IF n \in ns THEN 0 ELSE f[n]
    <3>1. \A n \in Names : f[n] \in Int
      BY LeadingTyped
    <3>2. \A n \in Names : g[n] = IF n \in ns THEN 0 ELSE f[n]
      BY <1>6 DEF Close, Leading, Active
    <3> QED
      BY <3>1, <3>2
  <2>2. charged'[b] = charged[b] + SumFunctionOnSet(f, ns) /\ wallet' = wallet
    BY <1>6 DEF Close
  <2> HIDE DEF f, g
  <2>3. SumFunctionOnSet(g, Names) = SumFunctionOnSet(f, Names) - SumFunctionOnSet(f, ns)
    BY <2>1, SumClear, AuctionAssumption
  <2>4. SumFunctionOnSet(f, ns) \in Int
    BY <2>1, SumType, FS_Subset, AuctionAssumption
  <2>5. lead' = SumFunctionOnSet(g, Names) /\ lead = SumFunctionOnSet(f, Names)
    BY DEF f, g
  <2> HIDE DEF lead
  <2> QED
    BY <1>1, <1>2, <2>2, <2>3, <2>4, <2>5
<1>7. ASSUME NEW n \in Names, CollectFund(n)
      PROVE  wallet'[b] + charged'[b] + lead' = Funds
  <2>1. UNCHANGED <<wallet, charged, lastBid>>
    BY <1>7 DEF CollectFund, eventVars
  <2>2. \A m \in Names : (Active(m)' <=> Active(m)) /\ auctions'[m].bidder = auctions[m].bidder
    BY <1>7, <1>3, NextLease, CollectHouse DEF HouseInv
  <2>3. Leading(b)' = Leading(b)
    BY <2>1, <2>2 DEF Leading
  <2> QED
    BY <1>1, <2>1, <2>3
<1>8. ASSUME UNCHANGED <<auctions, lastBid, wallet, charged>>
      PROVE  wallet'[b] + charged'[b] + lead' = Funds
  BY <1>1, <1>8, SumsStay
<1> QED
  BY <1>4, <1>5, <1>6, <1>7, <1>8, Steps
  DEF DirectRegister, AdminWithdraw, SetAuthorization, Tick, tableVars, moneyVars,
      eventVars, vars

\* Every bidder is out of pocket by exactly the bids that won or lead.
THEOREM WholeCorrect == Spec => []BiddersWhole
<1>1. Init => BiddersWhole
  <2> SUFFICES ASSUME Init, NEW b \in Bidders
               PROVE  wallet[b] + charged[b] + SumFunctionOnSet(Leading(b), Names) = Funds
    BY DEF BiddersWhole
  <2>1. \A n \in Names : Leading(b)[n] = 0
    BY DEF Init, Leading, Active
  <2>2. SumFunctionOnSet(Leading(b), Names) = 0 * Cardinality(Names)
    BY <2>1, SumConstant, AuctionAssumption
  <2>3. SumFunctionOnSet(Leading(b), Names) = 0
    BY <2>2, FS_CardinalityType, AuctionAssumption
  <2> QED
    BY <2>3, AuctionAssumption DEF Init
<1> QED
  BY <1>1, HouseInvCorrect, NextWhole, PTL DEF Spec

\* What the bidders have, the balance, the coins of open auctions and what was
\* withdrawn add up to the same at every step.
LEMMA NextConserved ==
    HouseInv /\ HouseInv' /\ MoneyConserved /\ [Next]_vars => MoneyConserved'
<1> SUFFICES ASSUME HouseInv, HouseInv', MoneyConserved, [Next]_vars
             PROVE  MoneyConserved'
  OBVIOUS
<1> DEFINE coins == SumFunctionOnSet(Bids, Names)
           cash == SumFunctionOnSet(wallet, Bidders)
           all == Funds * Cardinality(Bidders)
<1>1. cash + balance + withdrawn + coins = all
  BY DEF MoneyConserved
<1>2. LeaseInv /\ TypeOK /\ CoinHeld
  BY DEF HouseInv
<1>3. /\ coins \in Int /\ cash \in Int /\ balance \in Nat /\ withdrawn \in Nat
      /\ \A n \in Names : Bids[n] \in Nat
      /\ wallet \in [Bidders -> Nat] /\ wallet' \in [Bidders -> Nat]
  <2>1. \A n \in Names : Bids[n] \in Nat
    BY BidsTyped
  <2>2. coins \in Int
    BY <2>1, SumType, AuctionAssumption
  <2>3. wallet \in [Bidders -> Nat] /\ wallet' \in [Bidders -> Nat]
    BY DEF HouseInv, TypeOK
  <2>4. cash \in Int
    BY <2>3, SumType, AuctionAssumption
  <2> QED
    BY <1>2, <2>1, <2>2, <2>3, <2>4 DEF TypeOK
<1> SUFFICES cash' + balance' + withdrawn' + coins' = all
  BY DEF MoneyConserved
<1>4. ASSUME NEW n \in Names, \A m \in Names : m # n => auctions'[m] = auctions[m]
      PROVE  coins' = coins - Bids[n] + Bids'[n]
  BY <1>4, BidsChange
<1> HIDE DEF coins, all
<1>5. ASSUME NEW c \in Bidders, \A x \in Bidders \ {c} : wallet'[x] = wallet[x]
      PROVE  cash' = cash - wallet[c] + wallet'[c]
  <2>1. (\A x \in Bidders : wallet[x] \in Int) /\ wallet'[c] \in Int
    BY <1>3
  <2> QED
    BY <1>5, <2>1, SumChange, AuctionAssumption
<1> HIDE DEF cash
<1>6. ASSUME NEW c \in Bidders, NEW n \in Names, NEW bid \in Amounts, StartAuction(c, n, bid)
      PROVE  cash' + balance' + withdrawn' + coins' = all
  <2>1. /\ Bids[n] = 0 /\ Bids'[n] = bid /\ bid \in Nat
        /\ UNCHANGED <<balance, withdrawn>>
        /\ \A m \in Names : m # n => auctions'[m] = auctions[m]
    <3>1. /\ ~Active(n) /\ bid \in Nat /\ auctions'[n].bid = bid
          /\ UNCHANGED <<balance, withdrawn>>
          /\ \A m \in Names : m # n => auctions'[m] = auctions[m]
      BY <1>2, <1>6 DEF StartAuction, TypeOK, Amounts
    <3>2. auctions'[n] # NoAuction
      <4>1. n \in ToSet(queue')
        <5>1. queue \in Seq(Names) /\ queue' = <<n>> \o queue
          BY <1>2, <1>6 DEF StartAuction, TypeOK
        <5> QED
          BY <5>1 DEF ToSet
      <4> QED
        BY <4>1 DEF HouseInv, TypeOK, Active
    <3> QED
      BY <3>1, <3>2 DEF Bids, Active
  <2>2. /\ wallet'[c] = wallet[c] - bid
        /\ \A x \in Bidders \ {c} : wallet'[x] = wallet[x]
    BY <1>3, <1>6 DEF StartAuction
  <2>3. cash' = cash - wallet[c] + wallet'[c] /\ coins' = coins - Bids[n] + Bids'[n]
    BY <1>4, <1>5, <2>1, <2>2
  <2>4. wallet[c] \in Nat
    BY <1>3
  <2> QED
    BY <1>1, <1>3, <2>1, <2>2, <2>3, <2>4
<1>7. ASSUME NEW c \in Bidders, NEW n \in Names, NEW bid \in Amounts, PlaceBid(c, n, bid)
      PROVE  cash' + balance' + withdrawn' + coins' = all
  <2> DEFINE a == auctions[n]
             paid == [wallet EXCEPT ![c] = @ - bid]
             rest == SumFunctionOnSet(paid, Bidders)
  <2>1. /\ a.bidder \in Bidders /\ a.bid \in Nat /\ bid \in Nat /\ bid <= wallet[c]
        /\ Bids[n] = a.bid /\ Bids'[n] = bid
        /\ UNCHANGED <<balance, withdrawn>>
        /\ \A m \in Names : m # n => auctions'[m] = auctions[m]
    <3>1. Active(n) /\ a \in AuctionRecord
      BY <1>2, <1>7, AuctionTyped DEF PlaceBid
    <3>2. auctions'[n] # NoAuction /\ auctions'[n].bid = bid
          /\ \A m \in Names : m # n => auctions'[m] = auctions[m]
      BY <1>2, <1>7, PlaceBidShape, AuctionNulls
    <3> QED
      BY <1>7, <3>1, <3>2 DEF Bids, Active, AuctionRecord, PlaceBid, Amounts
  <2>2. wallet' = [paid EXCEPT ![a.bidder] = @ + a.bid]
    BY <1>7 DEF PlaceBid, Pay
  <2> HIDE DEF a
  <2>3. /\ paid \in [Bidders -> Int] /\ paid[c] = wallet[c] - bid
        /\ \A x \in Bidders \ {c} : paid[x] = wallet[x]
    BY <1>3, <2>1
  <2> HIDE DEF paid
  <2>4. /\ wallet'[a.bidder] = paid[a.bidder] + a.bid
        /\ \A x \in Bidders \ {a.bidder} : wallet'[x] = paid[x]
    BY <2>1, <2>2, <2>3
  <2>5. rest = cash - wallet[c] + paid[c]
    <3>1. (\A x \in Bidders : wallet[x] \in Int) /\ paid[c] \in Int
      BY <1>3, <2>3
    <3> QED
      BY <2>3, <3>1, SumChange, AuctionAssumption DEF cash
  <2>6. cash' = rest - paid[a.bidder] + wallet'[a.bidder]
    <3>1. (\A x \in Bidders : paid[x] \in Int) /\ wallet'[a.bidder] \in Int
      BY <1>3, <2>1, <2>3
    <3> QED
      BY <2>1, <2>4, <3>1, SumChange, AuctionAssumption DEF cash
  <2>7. coins' = coins - a.bid + bid
    BY <1>4, <2>1
  <2>8. rest \in Int /\ wallet[c] \in Nat /\ paid[a.bidder] \in Int
    <3>1. wallet[c] \in Nat /\ paid[c] \in Int /\ paid[a.bidder] \in Int
      BY <1>3, <2>1, <2>3
    <3> HIDE DEF rest
    <3> QED
      BY <1>3, <2>5, <3>1
  <2> HIDE DEF rest
  <2> QED
    BY <1>1, <1>3, <2>1, <2>3, <2>4, <2>5, <2>6, <2>7, <2>8
<1>8. ASSUME NEW ns \in SUBSET Names, Close(ns)
      PROVE  cash' + balance' + withdrawn' + coins' = all
  <2> DEFINE f == Bids
             g == Bids'
  <2>1. \A n \in Names : f[n] \in Int /\ g[n] = IF n \in ns THEN 0 ELSE f[n]
    <3>1. \A n \in Names : g[n] = IF n \in ns THEN 0 ELSE f[n]
      BY <1>8 DEF Close, Bids, Active
    <3> QED
      BY <1>3, <3>1
  <2>2. balance' = balance + SumFunctionOnSet(f, ns) /\ UNCHANGED <<wallet, withdrawn>>
    BY <1>8 DEF Close
  <2>3. cash' = cash
    BY <2>2 DEF cash
  <2>4. coins' = SumFunctionOnSet(g, Names) /\ coins = SumFunctionOnSet(f, Names)
    BY DEF coins
  <2> HIDE DEF f, g
  <2>5. SumFunctionOnSet(g, Names) = SumFunctionOnSet(f, Names) - SumFunctionOnSet(f, ns)
    BY <2>1, SumClear, AuctionAssumption
  <2>6. SumFunctionOnSet(f, ns) \in Int
    BY <2>1, SumType, FS_Subset, AuctionAssumption
  <2> QED
    BY <1>1, <1>3, <2>2, <2>3, <2>4, <2>5, <2>6
<1>9. ASSUME NEW n \in Names, CollectFund(n)
      PROVE  cash' + balance' + withdrawn' + coins' = all
  <2>1. /\ Active(n) /\ Active(n)' /\ auctions'[n].bid = 0
        /\ \A m \in Names : m # n => auctions'[m] = auctions[m]
    BY <1>2, <1>9, NextLease, CollectHouse DEF HouseInv
  <2>2. Bids[n] = auctions[n].bid /\ Bids'[n] = 0
    BY <2>1 DEF Bids
  <2>3. balance' = balance + auctions[n].bid /\ UNCHANGED <<wallet, withdrawn>>
    BY <1>9 DEF CollectFund
  <2>4. cash' = cash /\ coins' = coins - Bids[n] + Bids'[n]
    BY <1>4, <2>1, <2>3 DEF cash
  <2>5. Bids[n] \in Nat
    BY <1>3
  <2> QED
    BY <1>1, <1>3, <2>2, <2>3, <2>4, <2>5
<1>10. ASSUME UNCHANGED <<auctions, lastBid, wallet>>
       PROVE  coins' = coins /\ cash' = cash
  BY <1>10, SumsStay DEF coins, cash
<1>11. ASSUME AdminWithdraw PROVE cash' + balance' + withdrawn' + coins' = all
  <2>1. /\ coins' = coins /\ cash' = cash
        /\ balance' = 0 /\ withdrawn' = withdrawn + balance
    BY <1>10, <1>11 DEF AdminWithdraw, tableVars, eventVars
  <2> QED
    BY <1>1, <1>3, <2>1
<1>12. ASSUME UNCHANGED <<auctions, lastBid, wallet, balance, withdrawn>>
       PROVE  cash' + balance' + withdrawn' + coins' = all
  BY <1>1, <1>10, <1>12
<1> QED
  BY <1>6, <1>7, <1>8, <1>9, <1>11, <1>12, Steps
  DEF DirectRegister, SetAuthorization, Tick, tableVars, moneyVars, eventVars, vars

\* No coin is made or lost in the auction house.
THEOREM ConservedCorrect == Spec => []MoneyConserved
<1>1. Init => MoneyConserved
  <2> SUFFICES ASSUME Init PROVE MoneyConserved
    OBVIOUS
  <2>1. SumFunctionOnSet(Bids, Names) = 0 * Cardinality(Names)
    <3>1. \A n \in Names : Bids[n] = 0
      BY DEF Init, Bids, Active
    <3> QED
      BY <3>1, SumConstant, AuctionAssumption
  <2>2. SumFunctionOnSet(wallet, Bidders) = Funds * Cardinality(Bidders)
    <3>1. \A b \in Bidders : wallet[b] = Funds
      BY DEF Init
    <3> QED
      BY <3>1, SumConstant, AuctionAssumption
  <2>3. Funds * Cardinality(Bidders) \in Int /\ 0 * Cardinality(Names) = 0
    <3>1. Cardinality(Bidders) \in Nat /\ Cardinality(Names) \in Nat /\ Funds \in Nat
      BY FS_CardinalityType, AuctionAssumption
    <3> QED
      BY <3>1
  <2> QED
    BY <2>1, <2>2, <2>3 DEF Init, MoneyConserved
<1> QED
  BY <1>1, HouseInvCorrect, NextConserved, PTL DEF Spec
=============================================================================
