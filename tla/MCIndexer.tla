------------------------------ MODULE MCIndexer ------------------------------
(***************************************************************************)
(* Small instances of Indexer: short histories of one or two auctions, as   *)
(* the auction house leaves them.                                          *)
(***************************************************************************)
EXTENDS Indexer

CONSTANTS alice, bob, avatar

Event(kind) == [kind |-> kind, package |-> "auction"]
Started(n, end, bid, bidder) ==
    Event("AuctionStarted") @@ [name |-> n, start |-> 0, end |-> end, bid |-> bid,
                                bidder |-> bidder]
Bid(n, bid, bidder) == Event("AuctionBid") @@ [name |-> n, bid |-> bid, bidder |-> bidder]
Extended(n, end) == Event("AuctionExtended") @@ [name |-> n, end |-> end]
Finalized(n, end, bid) ==
    Event("AuctionFinalized") @@ [name |-> n, start |-> 0, end |-> end, bid |-> bid]
DataSet(package) ==
    [kind |-> "UserDataSet", package |-> package, key |-> avatar, new |-> TRUE]
DataReplaced == [DataSet("iota_names") EXCEPT !.new = FALSE]

Quiet(events) == [balance |-> NoBalance, house |-> NoBalance, events |-> events]
Paid(house, events) == [Quiet(events) EXCEPT !.house = house]

\* An auction that a late bid extends.
Contested ==
    <<Paid(1, <<Started(1, 2, 1, alice)>>), Quiet(<<Bid(1, 2, bob), Extended(1, 3)>>),
      Quiet(<<Finalized(1, 3, 2)>>)>>

\* Its first steps for two workers, and a checkpoint with nothing for them.
Raced ==
    <<Quiet(<<Started(1, 2, 1, alice)>>), Quiet(<<Bid(1, 2, bob), Extended(1, 3)>>),
      Quiet(<<DataSet("foreign")>>)>>

\* A name whose record lapsed is auctioned again, for the same bid.
Again ==
    <<Paid(1, <<Started(2, 2, 1, alice)>>),
      Quiet(<<Finalized(2, 2, 1), DataSet("iota_names"), DataSet("foreign")>>),
      Paid(2, <<Started(2, 5, 1, alice), DataReplaced, [kind |-> "OfferPlaced", package |-> "auction"]>>)>>

\* Two names that end together; the requests ask for these, and so compete with
\* the worker for one connection or, with two, see what it writes meanwhile.
Browsed ==
    <<Quiet(<<Started(3, 2, 1, alice)>>), Quiet(<<Started(4, 2, 1, bob)>>),
      Quiet(<<Finalized(3, 2, 1)>>)>>

MCSetups ==
    {[chain |-> c, workers |-> 1, pool |-> 1] : c \in {Contested, Again, Browsed}}
        \cup {[chain |-> Browsed, workers |-> 1, pool |-> 2],
              [chain |-> Raced, workers |-> 2, pool |-> 1]}

MCLength == <<4, 5, 3, 3>>
MCDepth == <<2, 2, 2, 2>>

MCMetrics ==
    {<<"auction_house_balance", NoLabel>>, <<"auctions_started", NoLabel>>,
     <<"user_data_distribution", avatar>>, <<"auction_bid_count_distribution", 2>>}

\* All by their end, the second page; those claimed, by bid; bob's that ended.
Ask(bidder, status, sortBy, page) ==
    [bidder |-> bidder, search |-> 3..4, status |-> status, sort |-> "asc",
     sortBy |-> sortBy, page |-> page, size |-> NoSize, now |-> 2]
MCRequests ==
    {Ask(AnyBidder, AnyStatus, "ending", 1), Ask(AnyBidder, "claimed", "bid", 0),
     Ask(bob, "finished", "name", 0)}
=============================================================================
