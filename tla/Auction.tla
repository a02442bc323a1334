------------------------------- MODULE Auction -------------------------------
(***************************************************************************)
(* The auction house (packages/auction): second-level names are auctioned   *)
(* on demand by whoever places the first bid.  The auctions are kept in a   *)
(* linked table, most recent bid first; an outbid bidder is paid back in    *)
(* the same transaction; ended auctions are closed by their winner or by    *)
(* the administrator, who also works through the table from its back.       *)
(*                                                                         *)
(* Of the registry (module IotaNames) the auction house uses add_record     *)
(* alone, modelled here by the lease of each name; other buyers use it too. *)
(* Operators named X_Fault are X with a plausible bug, as in IotaNames.     *)
(***************************************************************************)
EXTENDS Integers, Sequences, FiniteSets, SequencesExt

CONSTANTS
    Names,          \* names that pass validation::assert_is_valid_for_sale
    Bidders,
    Funds,          \* what each bidder starts with
    MinPrice,       \* calculate_base_price of the names
    MinOverbid,     \* AUCTION_MIN_OVERBID_VALUE_IOTA
    BiddingPeriod,  \* AUCTION_BIDDING_PERIOD_MS
    QuietPeriod,    \* AUCTION_MIN_QUIET_PERIOD_MS
    Year,           \* DEFAULT_DURATION years, the term of an auctioned name
    Grace,
    Limits,         \* the operation limits the administrator passes
    LastStart,      \* bound on the time of the last registration
    MaxNfts,        \* bound on the NFTs ever minted
    NoAuction, NoLease, NoOwner, House

MaxTime == LastStart + Year    \* by then every auction has ended
NftIds == 1..MaxNfts
Amounts == 0..(Funds * Cardinality(Bidders))

ASSUME AuctionAssumption ==
    /\ IsFiniteSet(Names) /\ IsFiniteSet(Bidders)
    /\ {Funds, MinPrice, MinOverbid, QuietPeriod, Grace, LastStart, MaxNfts} \subseteq Nat
    /\ MinOverbid > 0 /\ LastStart > 0
    /\ BiddingPeriod \in Nat /\ Year \in Nat /\ BiddingPeriod < Year
    /\ Limits \subseteq Nat

Lease == [nft : NftIds, exp : Nat]
AuctionRecord == [end : Nat, bidder : Bidders, bid : Nat, nft : NftIds, exp : Nat]

ASSUME AuctionNulls == NoLease \notin Lease /\ NoAuction \notin AuctionRecord

VARIABLES
    now,
    lease,       \* the registry's record of each name: NFT and expiration
    owner,       \* who has each NFT
    minted,
    auctions,    \* AuctionHouse.auctions
    queue,       \* its order in the linked table, front first
    balance,     \* AuctionHouse.balance
    withdrawn,   \* what the administrator took out
    wallet,      \* the coins of each bidder
    authorized,  \* AuctionAuth is an authorised app
    lastBid,     \* amount of the last Started or Bid event of each name
    finalPrice,  \* winning_bid of the last Finalized event of each name
    charged      \* what each bidder's closed auctions were won for

vars == <<now, lease, owner, minted, auctions, queue, balance, withdrawn, wallet,
          authorized, lastBid, finalPrice, charged>>
registryVars == <<lease, owner, minted>>
tableVars == <<auctions, queue>>
moneyVars == <<balance, withdrawn, wallet>>
eventVars == <<lastBid, finalPrice, charged>>

Init ==
    /\ now = 1
    /\ lease = [n \in Names |-> NoLease]
    /\ owner = [i \in NftIds |-> NoOwner]
    /\ minted = 0
    /\ auctions = [n \in Names |-> NoAuction]
    /\ queue = <<>>
    /\ balance = 0
    /\ withdrawn = 0
    /\ wallet = [b \in Bidders |-> Funds]
    /\ authorized = TRUE
    /\ lastBid = [n \in Names |-> 0]
    /\ finalPrice = [n \in Names |-> 0]
    /\ charged = [b \in Bidders |-> 0]

Active(n) == auctions[n] # NoAuction
Ended(n) == now > auctions[n].end

\* The coin each auction holds.
Bids == [n \in Names |-> IF Active(n) THEN auctions[n].bid ELSE 0]

AddRecord_NoGrace(n, who) ==
    /\ now <= LastStart /\ minted < MaxNfts
    /\ lease[n] # NoLease => lease[n].exp < now
    /\ minted' = minted + 1
    /\ lease' = [lease EXCEPT ![n] = [nft |-> minted + 1, exp |-> now + Year]]
    /\ owner' = [owner EXCEPT ![minted + 1] = who]

\* registry::add_record on a second-level name, for its default duration.
AddRecord(n, who) ==
    /\ now <= LastStart /\ minted < MaxNfts
    /\ lease[n] # NoLease => lease[n].exp + Grace < now
    /\ minted' = minted + 1
    /\ lease' = [lease EXCEPT ![n] = [nft |-> minted + 1, exp |-> now + Year]]
    /\ owner' = [owner EXCEPT ![minted + 1] = who]

Without(seq, S) ==
    FoldLeft(LAMBDA kept, x : IF x \in S THEN kept ELSE Append(kept, x), <<>>, seq)

ToFront_Kept(n) == <<n>> \o queue

\* place_bid takes the auction out of the table and puts it in front.
ToFront(n) == <<n>> \o Without(queue, {n})

StartAuction(b, n, bid) ==
    /\ authorized
    /\ ~Active(n)
    /\ bid >= MinPrice /\ bid <= wallet[b]
    /\ AddRecord(n, House)
    /\ auctions' = [auctions EXCEPT ![n] =
            [end |-> now + BiddingPeriod, bidder |-> b, bid |-> bid,
             nft |-> minted + 1, exp |-> now + Year]]
    /\ queue' = <<n>> \o queue
    /\ wallet' = [wallet EXCEPT ![b] = @ - bid]
    /\ lastBid' = [lastBid EXCEPT ![n] = bid]
    /\ UNCHANGED <<now, balance, withdrawn, authorized, finalPrice, charged>>

\* A bid with less than the quiet period left extends the auction, but never
\* up to the expiration of the NFT.
EndAfterBid_NoCap(a) ==
    IF a.end - now < QuietPeriod THEN now + QuietPeriod ELSE a.end

EndAfterBid_Reset(a) ==
    IF now + QuietPeriod < a.exp THEN now + QuietPeriod ELSE a.end

EndAfterBid(a) ==
    IF a.end - now < QuietPeriod /\ now + QuietPeriod < a.exp
    THEN now + QuietPeriod ELSE a.end

\* The new bid is paid before the previous one is paid back, so a bidder who
\* tops the own bid needs the coins of both.
Pay_NoRefund(b, bid, a) == [wallet EXCEPT ![b] = @ - bid]
Pay(b, bid, a) == [[wallet EXCEPT ![b] = @ - bid] EXCEPT ![a.bidder] = @ + a.bid]

PlaceBid(b, n, bid) ==
    /\ Active(n) /\ ~Ended(n)
    /\ bid >= auctions[n].bid + MinOverbid /\ bid <= wallet[b]
    /\ wallet' = Pay(b, bid, auctions[n])
    /\ auctions' = [auctions EXCEPT ![n] =
            [@ EXCEPT !.end = EndAfterBid(auctions[n]), !.bidder = b, !.bid = bid]]
    /\ queue' = ToFront(n)
    /\ lastBid' = [lastBid EXCEPT ![n] = bid]
    /\ UNCHANGED <<now, registryVars, balance, withdrawn, authorized, finalPrice, charged>>

\* What bidder b last bid for the auctions b leads.
Leading(b) ==
    [n \in Names |-> IF Active(n) /\ auctions[n].bidder = b THEN lastBid[n] ELSE 0]

\* Close the auctions of ns: bids to the house, NFTs to the winners.
Close(ns) ==
    /\ auctions' = [n \in Names |-> IF n \in ns THEN NoAuction ELSE auctions[n]]
    /\ queue' = Without(queue, ns)
    /\ balance' = balance + SumFunctionOnSet(Bids, ns)
    /\ owner' = [i \in NftIds |->
            IF \E n \in ns : auctions[n].nft = i
            THEN auctions[CHOOSE n \in ns : auctions[n].nft = i].bidder
            ELSE owner[i]]
    /\ finalPrice' = [n \in Names |-> IF n \in ns THEN auctions[n].bid ELSE finalPrice[n]]
    /\ charged' = [b \in Bidders |-> charged[b] + SumFunctionOnSet(Leading(b), ns)]
    /\ UNCHANGED <<now, lease, minted, withdrawn, wallet, authorized, lastBid>>

Claim(b, n) ==
    /\ Active(n) /\ Ended(n)
    /\ auctions[n].bidder = b
    /\ Close({n})

AdminFinalize_Early(n) == Active(n) /\ Close({n})
AdminFinalize(n) == Active(n) /\ Ended(n) /\ Close({n})

\* The auctions admin_try_finalize_auctions gets to, from the back.
Visited_OffByOne(limit) ==
    {queue[k] : k \in {j \in 1..Len(queue) : j > Len(queue) - (limit - 1)}}

Visited(limit) == {queue[k] : k \in {j \in 1..Len(queue) : j > Len(queue) - limit}}

\* The limit counts the auctions looked at, ended or not.
AdminTryFinalize(limit) ==
    /\ {n \in Visited(limit) : Ended(n)} # {}
    /\ Close({n \in Visited(limit) : Ended(n)})

CollectFund_KeepsBid(n) ==
    /\ Active(n) /\ Ended(n)
    /\ balance' = balance + auctions[n].bid
    /\ UNCHANGED <<now, registryVars, tableVars, withdrawn, wallet, authorized, eventVars>>

\* Anybody may move the money of an ended auction into the house's balance;
\* the auction stays, with an empty coin for a bid.
CollectFund(n) ==
    /\ Active(n) /\ Ended(n)
    /\ balance' = balance + auctions[n].bid
    /\ auctions' = [auctions EXCEPT ![n].bid = 0]
    /\ UNCHANGED <<now, registryVars, queue, withdrawn, wallet, authorized, eventVars>>

AdminWithdraw ==
    /\ balance > 0
    /\ withdrawn' = withdrawn + balance
    /\ balance' = 0
    /\ UNCHANGED <<now, registryVars, tableVars, wallet, authorized, eventVars>>

\* Another buyer registers the name through payment::register, which does not
\* look at the auctions.
DirectRegister(n) ==
    /\ AddRecord(n, NoOwner)
    /\ UNCHANGED <<now, tableVars, moneyVars, authorized, eventVars>>

\* AdminCap authorises or deauthorises AuctionAuth.
SetAuthorization ==
    /\ authorized' = ~authorized
    /\ UNCHANGED <<now, registryVars, tableVars, moneyVars, eventVars>>

Tick ==
    /\ now < MaxTime
    /\ now' = now + 1
    /\ UNCHANGED <<registryVars, tableVars, moneyVars, authorized, eventVars>>

Next ==
    \/ \E b \in Bidders, n \in Names, bid \in Amounts :
          StartAuction(b, n, bid) \/ PlaceBid(b, n, bid)
    \/ \E b \in Bidders, n \in Names : Claim(b, n)
    \/ \E n \in Names : AdminFinalize(n) \/ CollectFund(n) \/ DirectRegister(n)
    \/ \E limit \in Limits : AdminTryFinalize(limit)
    \/ AdminWithdraw
    \/ SetAuthorization
    \/ Tick

\* Time passes, and the administrator keeps calling
\* admin_try_finalize_auctions, with the smallest limit at least.
Fairness ==
    /\ WF_vars(Tick)
    /\ WF_vars(AdminTryFinalize(1))

Spec == Init /\ [][Next]_vars
FairSpec == Spec /\ Fairness

-----------------------------------------------------------------------------
\* Every variable keeps its type, and the linked table orders the auctions
\* there are, each once.
TypeOK ==
    /\ now \in 1..MaxTime
    /\ lease \in [Names -> Lease \cup {NoLease}]
    /\ owner \in [NftIds -> Bidders \cup {House, NoOwner}]
    /\ minted \in 0..MaxNfts
    /\ auctions \in [Names -> AuctionRecord \cup {NoAuction}]
    /\ queue \in Seq(Names)
    /\ IsInjective(queue) /\ ToSet(queue) = {n \in Names : Active(n)}
    /\ balance \in Nat /\ withdrawn \in Nat
    /\ wallet \in [Bidders -> Nat]
    /\ authorized \in BOOLEAN
    /\ lastBid \in [Names -> Nat] /\ finalPrice \in [Names -> Nat]
    /\ charged \in [Bidders -> Nat]

\* A bidder is out of pocket by exactly the winning bids of the auctions won
\* and the leading bids of those still open: every bid that was topped has
\* been paid back, whoever topped it and whether or not funds were collected.
BiddersWhole ==
    \A b \in Bidders :
        wallet[b] + charged[b] + SumFunctionOnSet(Leading(b), Names) = Funds

\* No coin is made or lost: what the bidders do not have, the house has, in
\* its balance, in the coins of open auctions or withdrawn.
MoneyConserved ==
    SumFunctionOnSet(wallet, Bidders) + balance + withdrawn
      + SumFunctionOnSet(Bids, Names) = Funds * Cardinality(Bidders)

\* However often it is extended, an auction is over before its NFT expires,
\* so a winner can still use or renew the name.
EndsBeforeExpiry == \A n \in Names : Active(n) => auctions[n].end < auctions[n].exp

\* A name under auction stays the house's: until the grace period of the NFT
\* is over nobody else can register it, authorised app or not.
LeaseHeld ==
    \A n \in Names :
        (Active(n) /\ now <= auctions[n].exp + Grace) =>
            /\ lease[n] # NoLease
            /\ lease[n].nft = auctions[n].nft
            /\ lease[n].exp = auctions[n].exp

\* A new leading bid never moves the end forward, and leaves the others the
\* quiet period to answer unless that would reach the NFT's expiration.
QuietStep ==
    \A n \in Names :
        (Active(n) /\ Active(n)' /\ auctions'[n].bid > auctions[n].bid) =>
            /\ auctions'[n].end >= auctions[n].end
            /\ \/ auctions'[n].end >= now + QuietPeriod
               \/ now + QuietPeriod >= auctions[n].exp
QuietProtected == [][QuietStep]_vars

\* An auction closes only after its end, and its NFT goes to the last bidder.
AwardStep ==
    \A n \in Names :
        (Active(n) /\ ~Active(n)') =>
            /\ Ended(n)
            /\ owner'[auctions[n].nft] = auctions[n].bidder
AwardedToLastBidder == [][AwardStep]_vars

\* Every auction is closed in the end, even if no winner claims and the
\* administrator looks at a single auction per call: the back of the table
\* cannot be held open for ever by bids, which move an auction to the front.
AuctionsClose == \A n \in Names : Active(n) ~> ~Active(n)

\* The price an auction is reported to have closed at (AuctionFinalizedEvent,
\* which the indexer's metric of "the final prices paid for names" adds up) is
\* the winning bid.
FinalPriceReported ==
    [][\A n \in Names : (Active(n) /\ ~Active(n)') => finalPrice'[n] = lastBid[n]]_vars
=============================================================================
