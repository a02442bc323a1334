------------------------------ MODULE IndexerDb ------------------------------
(***************************************************************************)
(* The SQLite database of the indexer: the rows the transaction of an       *)
(* auction event writes, and the rows a page of the auction API lists.      *)
(*                                                                         *)
(* A name is its place in the alphabet, 1, 2, ...; a row of a table that    *)
(* refers to a names or bidders row by its id refers to the name or the     *)
(* bidder itself here, since both are unique and never deleted.             *)
(***************************************************************************)
EXTENDS Integers, FiniteSets, SequencesExt

CONSTANTS
    DefaultPageSize, MaxPageSize,    \* of the API
    AnyBidder, AnyStatus, NoSize     \* parameters a request leaves out

\* names: its rows in the order of their ids.  auctions: the row of each name
\* that has one, with expiration_timestamp as end.
EmptyDb == [names |-> <<>>, bidders |-> {}, bids |-> {}, auctions |-> <<>>]

HasRow(db, n) == n \in DOMAIN db.auctions

-----------------------------------------------------------------------------
(* What the transaction of an event writes.                                *)

GetOrCreateBidder(db, bidder) == [db EXCEPT !.bidders = @ \cup {bidder}]

GetOrCreateName(db, n) ==
    IF Contains(db.names, n) THEN db ELSE [db EXCEPT !.names = Append(@, n)]

\* on_conflict_do_nothing: the same bid of the same bidder is one row.
AddBidsEntry(db, bidder, n, bid) ==
    [db EXCEPT !.bids = @ \cup {[bidder |-> bidder, name |-> n, bid |-> bid]}]

AuctionsEntry(db, n, end, claimed) ==
    [m \in DOMAIN db.auctions \cup {n} |->
        IF m = n THEN [end |-> end, claimed |-> claimed] ELSE db.auctions[m]]

\* The row is replaced instead of updated, and the claim with it.
UpsertAuctionsEntry_Replaces(db, n, end) ==
    [db EXCEPT !.auctions = AuctionsEntry(db, n, end, FALSE)]

\* On conflict nothing is done, as for bids.
UpsertAuctionsEntry_KeepsEnd(db, n, end) ==
    IF HasRow(db, n) THEN db ELSE [db EXCEPT !.auctions = AuctionsEntry(db, n, end, FALSE)]

\* On conflict the end is replaced and claimed stays, be it another auction.
UpsertAuctionsEntry(db, n, end) ==
    [db EXCEPT !.auctions =
        AuctionsEntry(db, n, end, HasRow(db, n) /\ db.auctions[n].claimed)]

\* Updates no row when there is none, and that is no error.
ClaimAuctionsEntry(db, n) ==
    IF HasRow(db, n) THEN [db EXCEPT !.auctions[n].claimed = TRUE] ELSE db

BidCount(db, n) == Cardinality({b \in db.bids : b.name = n})

\* The kinds of events that are written to the database.
AuctionKinds == {"AuctionStarted", "AuctionBid", "AuctionExtended", "AuctionFinalized"}

\* One transaction: all of it or nothing.
StoreEvent(db, e) ==
    CASE e.kind = "AuctionStarted" ->
            AddBidsEntry(
                UpsertAuctionsEntry(GetOrCreateName(GetOrCreateBidder(db, e.bidder), e.name),
                                    e.name, e.end),
                e.bidder, e.name, e.bid)
      [] e.kind = "AuctionBid" ->
            AddBidsEntry(GetOrCreateName(GetOrCreateBidder(db, e.bidder), e.name),
                         e.bidder, e.name, e.bid)
      [] e.kind = "AuctionExtended" ->
            UpsertAuctionsEntry(GetOrCreateName(db, e.name), e.name, e.end)
      [] e.kind = "AuctionFinalized" ->
            ClaimAuctionsEntry(GetOrCreateName(db, e.name), e.name)

-----------------------------------------------------------------------------
(* Listing auctions.  A query is [bidder, search, status, sort, sortBy,     *)
(* page, size, now]: search is the set of names the text it looks for is    *)
(* part of, and a bidder's auctions can be sorted by name only.             *)

PageSize(q) ==
    LET asked == IF q.size = NoSize THEN DefaultPageSize ELSE q.size
    IN  IF asked < MaxPageSize THEN asked ELSE MaxPageSize

HasStatus(row, status, now) ==
    CASE status = "active" -> row.end > now
      [] status = "finished" -> row.end <= now
      [] status = "claimed" -> row.claimed
      [] OTHER -> TRUE

\* The rows of the join of names, bids and auctions that pass the filters.
Joined(db, q) ==
    {b \in db.bids :
        /\ HasRow(db, b.name)
        /\ q.bidder \in {AnyBidder, b.bidder}
        /\ b.name \in q.search
        /\ HasStatus(db.auctions[b.name], q.status, q.now)}

Listed(db, q) == {b.name : b \in Joined(db, q)}

\* count(distinct names.id); a bidder who is not in the table has none.
Total(db, q) == Cardinality(Listed(db, q))

MaxBid(db, n) == CHOOSE x \in {b.bid : b \in {c \in db.bids : c.name = n}} :
                    \A b \in db.bids : b.name = n => b.bid <= x
NameId(db, n) == CHOOSE i \in DOMAIN db.names : db.names[i] = n

\* a comes before b under ORDER BY; where neither does, any order may come.
BeforeAsc(db, q, a, b) ==
    CASE q.sortBy = "name" -> a < b
      [] q.sortBy = "bid" ->
            \/ MaxBid(db, a) < MaxBid(db, b)
            \/ MaxBid(db, a) = MaxBid(db, b) /\ NameId(db, a) < NameId(db, b)
      [] q.sortBy = "ending" -> db.auctions[a].end < db.auctions[b].end

\* Auctions that have ended go last when the earliest end comes first.
Before(db, q, a, b) ==
    LET ended(n) == db.auctions[n].end <= q.now
    IN  IF q.sort = "desc" THEN BeforeAsc(db, q, b, a)
        ELSE IF q.sortBy = "ending" /\ ended(a) # ended(b) THEN ended(b)
        ELSE BeforeAsc(db, q, a, b)

Orders(db, q) ==
    {s \in SetToSeqs(Listed(db, q)) :
        \A i, j \in DOMAIN s : i < j => ~Before(db, q, s[j], s[i])}

PageOf(listing, q) ==
    LET last == (q.page + 1) * PageSize(q)
    IN  SubSeq(listing, q.page * PageSize(q) + 1,
               IF last < Len(listing) THEN last ELSE Len(listing))
=============================================================================
