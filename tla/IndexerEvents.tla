---------------------------- MODULE IndexerEvents ----------------------------
(***************************************************************************)
(* What the indexer makes of an event of the chain: which events are its    *)
(* own, which Prometheus metrics one moves and by how much, and which of    *)
(* the metrics a restarted process gets back from Prometheus.              *)
(*                                                                         *)
(* A metric is named by a pair <<metric, label>>; NoLabel stands in the    *)
(* metrics that have no label.  A name, a bidder or a user data key is an  *)
(* opaque value; times, bids and discounts are numbers.                    *)
(***************************************************************************)
EXTENDS Integers, Sequences

CONSTANTS
    SlnLength,     \* SlnLength[n]: the length of n's second-level label
    Depth,         \* Depth[n]: Name::num_labels
    NoLabel

\* The events that have a handler, with the fields of each that are read.
EventFields == [
    AuctionStarted     |-> {"name", "start", "end", "bid", "bidder"},
    AuctionBid         |-> {"name", "bid", "bidder"},
    AuctionExtended    |-> {"name", "end"},
    AuctionFinalized   |-> {"name", "start", "end", "bid"},
    CouponApplied      |-> {"coupon", "discount"},
    NameRecordAdded    |-> {"name"},
    NameRecordRemoved  |-> {"name"},
    TargetAddressSet   |-> {"target"},
    ReverseLookupSet   |-> {},
    ReverseLookupUnset |-> {},
    UserDataSet        |-> {"key", "new"},
    UserDataUnset      |-> {"key"},
    Transaction        |-> {"years", "renewal"},
    NodeSubnameCreated |-> {},
    NodeSubnameBurned  |-> {},
    LeafSubnameCreated |-> {},
    LeafSubnameRemoved |-> {}]

WellFormedEvent(e) ==
    /\ {"kind", "package"} \subseteq DOMAIN e
    /\ \A f \in {"start", "end", "bid", "discount"} \cap DOMAIN e : e[f] \in Nat
    /\ e.kind \in DOMAIN EventFields => EventFields[e.kind] \subseteq DOMAIN e

\* The packages whose events are read on a known network: the same six roles
\* on each of them.
NetworkPackages ==
    {"auction", "coupons", "subnames", "subname_proxy", "iota_names", "payments"}

\* An event of another package is not looked at, one of an unknown kind is
\* only logged: neither fails the checkpoint.
Parses(e, packages) == e.package \in packages /\ e.kind \in DOMAIN EventFields

-----------------------------------------------------------------------------
(* Counting an event.                                                      *)

AddAt(metric, label, n) == [m \in {<<metric, label>>} |-> n]
Add(metric, n) == AddAt(metric, NoLabel, n)
AddEach(ns) == [m \in {<<metric, NoLabel>> : metric \in DOMAIN ns} |-> ns[m[1]]]
NoChange == <<>>

RecordCounts(e, counter, n) ==
    [m \in {<<counter, NoLabel>>, <<"length_distribution", SlnLength[e.name]>>,
            <<"depth_distribution", Depth[e.name]>>} |->
        IF m[1] = counter THEN 1 ELSE n]

\* The metrics an event changes before anything is written to the database.
Counts(e) ==
    CASE e.kind = "AuctionStarted" -> Add("auctions_started", 1)
      [] e.kind = "AuctionFinalized" ->
            AddEach([auctions_finalized |-> 1, auction_final_prices |-> e.bid,
                     auction_durations |-> e.end - e.start])
      [] e.kind = "CouponApplied" ->
            Add(IF e.coupon = "percentage" THEN "percentage_discounts" ELSE "fixed_discounts",
                e.discount)
      [] e.kind = "NameRecordAdded" -> RecordCounts(e, "records_added", 1)
      [] e.kind = "NameRecordRemoved" -> RecordCounts(e, "records_removed", -1)
      [] e.kind = "TargetAddressSet" -> Add("target_addresses", IF e.target THEN 1 ELSE -1)
      [] e.kind = "ReverseLookupSet" -> Add("default_names", 1)
      [] e.kind = "ReverseLookupUnset" -> Add("default_names", -1)
      [] e.kind = "UserDataSet" ->
            IF e.new THEN AddAt("user_data_distribution", e.key, 1) ELSE NoChange
      [] e.kind = "UserDataUnset" -> AddAt("user_data_distribution", e.key, -1)
      [] e.kind = "Transaction" ->
            IF e.renewal THEN AddAt("renewal_years_distribution", e.years, 1)
            ELSE Add("purchases", 1)
      [] e.kind = "NodeSubnameCreated" -> Add("node_subnames", 1)
      [] e.kind = "NodeSubnameBurned" -> Add("node_subnames", -1)
      [] e.kind = "LeafSubnameCreated" -> Add("leaf_subnames", 1)
      [] e.kind = "LeafSubnameRemoved" -> Add("leaf_subnames", -1)
      [] OTHER -> NoChange

\* What the transaction of an AuctionFinalized adds once it has committed: one
\* auction under the number of bids it found for the name.
TallyOf(bids) == AddAt("auction_bid_count_distribution", bids, 1)

\* inc, dec, add: each is atomic on its own metric.
Apply(metrics, change) ==
    [m \in DOMAIN metrics |->
        IF m \in DOMAIN change THEN metrics[m] + change[m] ELSE metrics[m]]

SetGauge(metrics, metric, value) ==
    [m \in DOMAIN metrics |-> IF m = <<metric, NoLabel>> THEN value ELSE metrics[m]]

-----------------------------------------------------------------------------
(* Restoring the metrics at a start.                                       *)

\* The label each vector is registered with.
LabelName == [
    length_distribution            |-> "length",
    renewal_years_distribution     |-> "years",
    depth_distribution             |-> "depth",
    user_data_distribution         |-> "key",
    auction_bid_count_distribution |-> "bid_count"]

\* The metrics that are asked for, in order; the two histograms are not.
SimpleRestored ==
    <<"records_added", "records_removed", "balance", "node_subnames", "leaf_subnames",
      "auctions_started", "auctions_finalized", "target_addresses", "default_names",
      "auction_house_balance", "percentage_discounts", "fixed_discounts", "purchases">>

\* The vectors, each with the label its series are looked up by.
VectorsRestored ==
    <<<<"length_distribution", "length">>, <<"depth_distribution", "depth">>,
      <<"user_data_distribution", "depth">>, <<"renewal_years_distribution", "years">>,
      <<"auction_bid_count_distribution", "bid_count">>>>

Queries == Len(SimpleRestored) + Len(VectorsRestored)

\* query_metric_value takes the first series.
RestoresSimple(metric, n) ==
    \E i \in 1..Len(SimpleRestored) : i <= n /\ SimpleRestored[i] = metric

\* query_vector_metric_values skips a series that lacks the label.
RestoresVector(metric, n) ==
    \E i \in 1..Len(VectorsRestored) :
        /\ Len(SimpleRestored) + i <= n
        /\ VectorsRestored[i][1] = metric
        /\ VectorsRestored[i][2] = LabelName[metric]

Restores(metric, n) == RestoresSimple(metric, n) \/ RestoresVector(metric, n)

\* A new process counts from zero.  Without the histograms, which start over.
Restored_Nothing(scraped, n) == [m \in DOMAIN scraped |-> 0]

\* The metrics of a process whose first n queries were answered: what the
\* answers of Prometheus put on top of the zeros a process starts with.  A
\* metric with no series in the answer stays at zero, and that is no error.
Restored(scraped, n) ==
    [m \in DOMAIN scraped |-> IF Restores(m[1], n) THEN scraped[m] ELSE 0]
=============================================================================
