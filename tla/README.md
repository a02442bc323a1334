# IOTA-Names in TLA+

A verification project for the IOTA-Names contracts (`packages/`, Move) and their indexer
(`indexer/`, Rust). Every definition is translated from the source; `PROJECT.json`
maps each one to its lines and lists the runs, their mutants, the findings, the hazards and
the theorems.

## 1. The system

All on-chain state hangs from one shared object, `IotaNames`; a transaction is atomic and an
aborted one changes nothing. What makes the contracts hard is not concurrency inside a
transaction but the order of transactions: anybody may send any of them at any time, names
expire without anybody noticing, and several objects that are changed by different callers
(record, NFT, default name, parent) have to agree afterwards.

| Component | State | Operations | Talks to |
|---|---|---|---|
| Registry (`registry`, `name_record`, `name_registration`, `subname_registration`) | `registry`: name to record (NFT id, expiration, target, metadata); `reverse_registry`: address to default name; the NFTs | add, override when expired, burn, leaf records, target, default name, expiration, metadata, forced removal | called by every app that is authorised |
| Payment (`sales/payment`) | none between transactions: an intent and a receipt are hot potatoes | intent, finalise, register, renew | registry (package access), deny list, configuration |
| Subnames | the parent's NFT id in the subname's NFT; flags in the record's metadata | node and leaf subnames, extension, setup, burn | registry, deny list |
| Controller | none | target, default name, user data, burn | registry |
| Administration (`admin`, `iota_names`) | authorised apps, balances, configuration | register, remove by force, authorise, withdraw | everything |
| Deny list and validation | blocked and reserved labels | list, unlist, check | used by payment, subnames, auction, admin |
| Auction house | auctions in a linked table, the bids' coins, the collected balance | start, bid, claim, finalise one or many, collect, withdraw | registry (`add_record`), pricing |
| Coupons, payments app, pricing | coupons and their claims; prices | discount an intent, pay it | payment |
| Temporary subname proxy | none | unwrap a subname's NFT and call subnames or controller with it | subnames, controller |
| Indexer: reading and counting (`events`, `metrics`, `worker`) | the metrics of the process | parse an event, count it; restore the metrics | reads the chain; Prometheus scrapes it and is asked at a start |
| Indexer: process and tasks (`main`, `worker`) | the tasks, the cancellation token, the progress file | start, read checkpoints with one or more workers, fail, shut down | the executor of `iota_data_ingestion_core` |
| Indexer: database (`db`) | SQLite tables of names, bidders, bids and auctions; the connection pool | one transaction per auction event | written by the workers, read by the API |
| Indexer API (`api`) | none | list auctions, page by page | database |
| Name syntax, scripts | none | parse a name; build transactions | |

The hard behaviours, each a row of `hazards` in `PROJECT.json`:

* a record is taken over through one function with three different rules (a leaf whose parent
  is gone, a name past its grace period, an expired subname);
* records, NFTs and default names are cached views of one another: superseded NFTs can still
  be burnt, renewed or extended by their holders;
* a subname depends on a parent that can expire, be replaced or be removed by force;
* extension and renewal add up and reach back into the past (no clock in `extend_expiration`,
  a grace period in `renew`);
* an auction races its own end, and its bid, its NFT and its table entry leave by three doors;
* the indexer counts outside its database transaction, may process a checkpoint twice or out of
  order, keeps its progress, its metrics and its tables in three places that a kill can leave
  apart, and answers a request with two queries between which the tables change;
* the dashboards know the registry by counting events: a way of losing a record or a default
  name that emits none makes them wrong for good.

## 2. Modules

| Module | Models |
|---|---|
| `IotaNames` | registry, payment registration and renewal, subnames, controller, administration, deny list |
| `MCIotaNames` | small instances of it: one second-level name, a subname and a subname of that |
| `IotaNamesProofs` | theorems about `IotaNames` and their proofs |
| `Auction` | the auction house over the part of the registry it uses |
| `MCAuction` | small instances: up to two names, two bidders |
| `Payments` | a payment transaction command by command, coupons, prices and the balance, over `IotaNames`, which it extends and implements |
| `PaymentsProofs` | theorems about `Payments` and their proofs |
| `MCPayments` | a small instance: one name, two users, two codes, three kinds of coupons |
| `CouponProofs` | theorems about the coupons of `Payments` |
| `Lease` | abstract: what a buyer of a second-level name is promised; implemented by `IotaNames` |
| `Tenancy` | abstract: what every holder in the tree of names is promised, subnames and leaves included; implemented by `IotaNames` |
| `TermsProofs` | theorems about terms, gates, subnames, leases and tenancies of `IotaNames` |
| `AuctionProofs` | theorems about `Auction` |
| `IndexerEvents` | which events the indexer follows, what each counts, what a restart restores |
| `IndexerDb` | the rows an auction event writes, and the rows a page of the API lists |
| `Ingestion` | abstract: every checkpoint stored at least once, progress never ahead; implemented by `Indexer` |
| `Indexer` | the process: tasks, workers, progress, crashes and restarts, scraping, the API; over the two above |
| `MCIndexer` | four short histories of auctions, with one worker or two |
| `IndexerProofs` | theorems about `Indexer` |
| `Gauges` | `IotaNames` composed with the counting of its events |
| `MCGauges` | a second-level name and its subname, and every gauge they move |
| `GaugesProofs` | theorems about `Gauges` |
| `FoldLemmas` | lemmas on sums over sets, folds over sequences and the order of a linked table, for `AuctionProofs` and `IndexerProofs` |

How they compose: `Payments` and `Gauges` extend `IotaNames`; `Gauges` also extends
`IndexerEvents`; `Indexer` extends `IndexerEvents` and `IndexerDb`. `Payments` implements
`IotaNames`, `IotaNames` implements `Lease` and `Tenancy`, `Indexer` implements `Ingestion`, and `Auction`,
which sees the registry only as a table of leases, implements `Lease` as well: the cut is
justified from both sides.

### IotaNames

An action is a whole transaction; its guard is the conjunction of the assertions that would
abort it. `registry` and `reverse` are the two tables; `nfts` maps the id of every
`NameRegistration` that exists to its fields, so a burnt NFT is `NoNft` and ids are never
reused; `apps`, `blocked` and `reserved` are the authorisation and deny tables; `now` is the
`Clock`, in coarse ticks. `Available`, `RemoveRecords`, `AddRecord`, `SetExpiration`,
`SetData` and `InvalidateReverse` are the functions the registry offers; the actions of
payment, subnames, controller and administrator call them.

Abstractions, and why they are sound for the properties:

* *Possession.* Whoever holds an NFT may call with it; who that is does not matter to the
  registry, so an action takes any NFT that exists. `SubnameRegistration` wraps the NFT of a
  subname and adds only that its holder cannot reach the `NameRegistration` mutably; here an
  NFT whose name is in `Subs` is the wrapped one.
* *Names* are model values with a parent and a set of labels, and only those that pass the
  syntax and configuration checks are in `Slns` and `Subs`. Changing that configuration while
  names exist is not modelled.
* *Metadata* keeps keys and not values. `set_object_reverse_lookup` acts on an address like
  any other.
* *Batches* (`register_names`, the vectors of the deny list) are runs of the single operation:
  the model passes through the states in between, which only adds behaviours. Forced removal
  takes a set, since a set of removals has no order.
* *Payment* is one transaction: intent, `finalize_payment` (the authorisation gate, through
  `auth_add_balance`) and `register` or `renew`. `Payments` takes it apart.
* *AdminPowers* selects which of the administrator's operations an instance exercises.
  Properties that the administrator's forced removal would break by design (tenure, chain)
  are checked and proved without it and say so.

`Lease` knows a name's holder and its term, and nothing of records, leaves or administrators:
a name is granted to a new NFT when it is free (never held, given up, or past its grace period),
renewed while it is not, and given up only after its term. `HolderOf` and `ExpiryOf` are the
mapping. A takeover is one step, the removal of the old record and the new one together.

`Tenancy` says the same of the whole tree and adds the parents: a subname is let by the NFT that
holds its parent, while that term is running and within it, and extended only while that very NFT
still holds the parent; a leaf is lent, without a term, and free again once its parent expires or
changes hands; the administrator's removals are evictions, where `AdminPowers` has them. Like
`extend_expiration`, it lets an expired subname be extended, by an expired parent too. `TenancyOf`
is the mapping: a record that is not a leaf is let by the parent in its NFT, a leaf is lent by the
NFT whose id it carries. The run has one level of subnames; `TenancyCorrect` is for any number.

### Auction

`auctions` and `queue` are the linked table: its entries and its order, front first. The
registry is reduced to the lease of each name (`lease`), which only `add_record` changes, by
the auction house or by another buyer (`DirectRegister`, registration by payment). Removal by
the administrator would break `LeaseHeld` by design and is left out. `wallet`, `withdrawn`,
`lastBid`, `finalPrice` and `charged` do not exist on chain: they are the coins outside the
house and the amounts carried by the events, which the properties refer to. Names under
auction are the ones that pass `assert_is_valid_for_sale`.

### Payments

`tx` is the transaction under way: the intent with the coupons applied to it, then, once `paid`,
the receipt. `before` is what an abort restores; time and every other operation wait until it is
over, since a transaction is atomic and works on shared objects. The registry changes only when
the receipt is redeemed, which is what lets `IotaNames` take the transaction as one step.
`coupons`, `version` and `couponApps` are the coupon house; `couponsAuth` is its authorisation at
`IotaNames`; `balance` is the protocol's. `offer`, `used`, `withdrawn` and `due` do not exist on
chain: they are the coupons as saved, the `CouponAppliedEvent`s per code, what left the balance,
and the list price of the terms granted less the discounts of those events. The years granted
are read off the registry (`Granted`), not off the receipt.

* A transaction with several intents is a run of transactions with one: intents share only the
  coupon table and the balance, on which their commands commute, and the registry, which each
  touches once.
* Codes are their hashes; a name has the length of its label. Amounts are unbounded: prices and
  coins of the chain are far below 2^64, and the percentage is computed in 128 bits.
* The user pays with a coin of the amount, as the code demands; wallets are left out.
* Configuration objects (prices, years, payment version) do not change.

### Gauges

Each disjunct of `IotaNames!Next` with the events its transaction emits, in the order of the
code's branches, and each event counted as `Counts` of `IndexerEvents` says. The events of one
transaction are all different and each moves a gauge by one, so a set of them is enough. Events
that move no gauge of the registry are left out. `MaxGauge` bounds the gauges that drift.

### Indexer

A checkpoint is what the worker reads of it: the events of its successful transactions, in order,
and the balances of the two objects the gauges show. `progress`, `db` and `scraped` survive a
crash; everything else belongs to the process. `worker[w]` is where a worker is in its
checkpoint: setting balances, counting an event, writing its rows, tallying the bids, at the end.
Each is a step of its own, although no `await` lies between them, because other workers, the API,
a scrape and a kill come in between.

* The executor of `iota_data_ingestion_core` is external: it hands out checkpoints in order, each
  to an idle worker, and saves the longest gapless prefix of those that are done. So is
  Prometheus: it scrapes now and then, forgets a target that has been down, and answers with the
  last it scraped.
* The process comes up with the answers to its first `n` queries: all of them, or fewer where one
  failed and `--reset-metrics` let it go on.
* Names are their positions in the alphabet, so that the API can sort them; a search text is the
  set of names it is part of. Times are ticks. A histogram is the sum of what it observed.
* The API holds its connection for the whole of a request and there is one request at a time, of
  two queries. What a setup says of the pool (`pool`, `--pool-size`) decides what comes in between:
  with one connection a worker that has rows to store waits, with two it writes between the
  queries. A row is joined by value, since names and bidders are unique and never deleted.
* An auction's tables are written by one transaction per event, which is one step; SQLite
  serialises the writers. `Fail` stands for what can go wrong before the commit.

## 3. Runs

`tlc -config <cfg> <module>`. None checks for deadlock: the contracts are passive and the
clock of an instance is bounded, so an instance stops when time and NFTs are used up; the
indexer's process is started `MaxLives` times and then stays down.

| Run | Question | Bounds |
|---|---|---|
| `core_tenure` (`CoreTenure.cfg`) | Can a name, a leaf or a default name be taken, cut or left dangling by any order of user operations? Does the registry keep the promise of `Lease`? | a name and its subname, two addresses, 3 NFTs, 6 ticks, year 2, grace 1 |
| `core_chain` (`CoreChain.cfg`) | Can a subname outlive or survive its ancestors? | a chain of 3 names, 4 NFTs, 6 ticks |
| `core_admin` (`CoreAdmin.cfg`) | What stays true under forced removal and registration by the administrator, for 0 and 3 years? Does the registry keep the promise of `Tenancy`, leaves and evictions included? | 2 names, 3 NFTs, 4 ticks |
| `core_gates` (`CoreGates.cfg`) | Do the deny list and the authorisation table stop everything they should? | all subsets of 5 apps and of both lists over 2 labels, 2 NFTs, 3 ticks |
| `auction_money` (`AuctionMoney.cfg`) | Does every coin end where it should, does every NFT reach its winner, and is every auction closed? | 2 names, 2 bidders with 3 coins each |
| `auction_lease` (`AuctionLease.cfg`) | Do extensions respect the NFT's term, and is the name safe while auctioned? | 1 name, 2 bidders, 2 registrations, past the grace period of the first |
| `payments` (`Payments.cfg`) | Are coupons, amounts and terms consistent over whole payment transactions, and is each one step of `IotaNames`? | 1 name, 1 NFT, 3 ticks, 2 years, 2 users, 2 codes; a coupon with 2 claims that stacks, one without limit, one that does not stack |
| `gauges` (`Gauges.cfg`) | Do the gauges agree with the registry after takeovers, burns, forced removals and changes of default names? | a name and its subname, 1 address, 2 NFTs, 4 ticks, gauges up to 2 |
| `indexer` (`Indexer.cfg`) | What is left of the chain in tables, metrics and answers after crashes, restarts and reordering? Does the process catch up, and does it stop when a worker fails? | 2 starts, histories of 3 checkpoints: a contested auction, a name auctioned again, two names browsed by 3 requests with 1 connection and with 2 (1 worker each), an extension raced by 2 workers |
| `leaf_lookup`, `orphan_creates`, `auction_prices` | Findings, see section 6 | |

Why the bounds are enough. Every rule compares an expiration with the clock, with the grace
period or with one other expiration, so what matters is the order of at most a few instants: a
year of two ticks and a grace period of one tell apart valid, at the boundary, in grace and past
it; six ticks let a name be registered, expire, pass its grace period and be registered again
with a full term. Two addresses compete for one default name. A chain of three gives a subname
that is both parent and child. An NFT more than the names (three, four in the chain) gives
superseded NFTs next to their successors. Auctions: two names for the order of the table and
for batches, two bidders to outbid each other or oneself; the quiet period is longer than the
bidding period in one run and shorter in the other. Payments: two claims for a coupon used twice
in one intent or in two, an odd price for the rounding of a percentage, a fixed discount above
the price, rules of each kind on one of the coupons; three ticks reach the grace period. Gauges:
one name and its subname, because a gauge is a sum over records; two NFTs give a takeover and the
burn of the superseded NFT. Indexer: two starts are a crash at any step and what the next process
makes of it; a third repeats the second. One connection makes the API and a worker compete, a second
lets the worker write between the two queries of a request, and since a transaction is one step no third is ever in use;
pages of one row make the second page matter. The metrics followed are one of each kind: a
balance, a count that a restart restores, one it does not, and a tally of bids.

Every property has a mutant in `PROJECT.json`: an operator `X_Fault` in the module is `X` with
a plausible bug (a rule of `Available` dropped, the ids not compared, the refund forgotten, the
cap on the extension missing), and with it in place of `X` TLC finds the property violated.

Fairness. `FairSpec` of `Auction`, used by `auction_money`: time passes, and the administrator
goes on calling `admin_try_finalize_auctions`, with a limit of one at least: the comment on that
function gives exactly this use ("forward progress ... even in the presence of thousands of
auctions"). Nothing is assumed of bidders and winners. `AuctionsClose` then says that the walk from
the back cannot starve an auction. `FairSpec` of `Indexer`: what is scheduled goes on. The reader
reads, each worker takes its next step or fails (`get_connection` gives up after its timeout, so a
worker is not blocked for ever by the API), and tasks heed the token. Nobody has to start or stop
the process, to scrape it or to complete a request, and a run that is killed or keeps failing
promises nothing: `CatchesUp` speaks of a process that is left running. No other liveness is
claimed: no operation of the contracts happens unless somebody calls it.

## 4. Properties

* *Tenure*: `TenureProtected`, `GraceProtected`, `LeafProtected`. Until it expires, a name
  stays with its NFT and its term is not cut; a second-level name in its grace period can be
  given up but not taken; a leaf gives way only when its parent no longer stands behind it.
  `ImplementsLease`: all of it for second-level names, and that a new holder is always a new NFT.
* *Agreement*: `RecordBacked`, `ReverseConsistent`, `OwnershipInv` (with `LeafHasTarget` among its
  parts).
* *Chain*: `LiveChain`, `ChainInv`, `NeverOutlivesParent`, `OrphanCannotExtend`; `ImplementsTenancy`:
  every change of a name, at any level, is one its parent's holder and term allow.
* *Gates*: `DenyListRespected`, `KillSwitch`; *cap*: `TermBounded`.
* *Auction*: `BiddersWhole`, `MoneyConserved`, `AwardedToLastBidder`, `EndsBeforeExpiry`,
  `LeaseHeld`, `QuietProtected`, `AuctionsClose`.
* *Payments*: `ClaimsKept`, `ExclusiveAlone`, `EveryYearPaid`, `HouseFrozen`, `ImplementsCore`.
* *Gauges*: `RecordsCounted` and `DefaultNamesCounted` (exact, through every way of losing a record
  or a default name), `NeverUndercounts` (subnames and user data, which only drift up).
* *Indexer*: `ImplementsIngestion` (no checkpoint is lost, whatever fails), `RowsConverge` (replays
  and workers leave the bids of the chain; with one worker the row of an auction has the last end
  the chain says, is claimed if the last auction of its name was finalised, and not before one
  was), `MetricsExact` (with one worker, and across restarts that lost nothing), `PageAnswers` (a
  page and the total that goes with it, whatever is written between the two queries), `CatchesUp`,
  `FailureStops`.

What three of them leave open. `ReverseConsistent` is checked with two addresses and without the
administrator; that it survives forced removal is a theorem only (`ReverseCorrect`).
`RowsConverge` does not say that the row of a name auctioned again is unclaimed while its second
auction runs: it is not (section 6). `MetricsExact` says that a restart at which process, progress
file and Prometheus agreed keeps every restored metric exact; where they did not agree, where some
queries failed, and for the metrics that are never restored, the code promises nothing, and neither
does the property.

## 5. Proofs

`tlapm IotaNamesProofs.tla` proves, for every set of names, every parent function, every
length of a year, of the grace period and of the minimum duration, and every bound:

* `TypeCorrect`, `ReverseCorrect`, `OwnershipCorrect` and, from it, `LeafTargetCorrect` and
  `RecordBackedCorrect`: whatever the administrator does;
* `TenureCorrect`, `ChainCorrect` and `LiveChainCorrect`: assuming that the administrator
  removes no records (`"remove" \notin AdminPowers`).

The argument. `RecordBacked` is not inductive: a takeover of a name gives its record a new NFT
and must not disturb the records of others, which needs that ids are fresh (`IdsUsed`), and an
extension by an NFT must not move a leaf that carries the same id, which needs that a leaf's id
is never that of an NFT for the leaf's own name (`LeafOfParent`). The conjunction,
`OwnershipInv`, is inductive together with `TypeOK`. `LiveChain` follows from `ChainInv`, which
says what becomes of a subname whose parent was lost: it had expired by then, because its term
was within the parent's and a parent is lost only after its own expiration (`TenureCorrect`).
Each helper that writes has a lemma of its own; each induction has a step per action.

`tlapm PaymentsProofs.tla` proves, for all price lists, coupons, users and bounds,
`PayTypeCorrect`, `EveryYearPaidCorrect`, `PaymentsImplementCore` and, from the last and
`TenureCorrect`, `PaymentsKeepTenure`: whatever is proved of the registry holds when it is driven
by payment transactions. The invariant adds to the properties that the amount and the discounts
of an intent make up its list price, that an abort gives back exactly the payment (`Quoted`), and
that a receipt exists only while the payments app is authorised (`PaidGate`), which neither
`register` nor `renew` checks and `Register` and `Renew` of `IotaNames` demand. The arithmetic
(a percentage of at most 100 never exceeds the price; years times the length of a year, divided
by it) is in lemmas.

`tlapm TermsProofs.tla`, over the same invariants:

* `KillSwitchCorrect`, `GraceCorrect`, `LeafCorrect`, `OrphanCorrect` and `NeverOutlivesCorrect`,
  whatever the administrator does;
* `DenyListCorrect` and `TermCorrect`, assuming that the administrator registers no names
  (`"register" \notin AdminPowers`), since registration by force is bound neither by the lists nor
  by the cap;
* `LeaseCorrect`, the refinement of `Lease`, assuming that the administrator removes no records;
* `TenancyCorrect`, the refinement of `Tenancy`, whatever the administrator does.

The strengthenings. `NeverOutlivesParent` compares a subname with its parent's record where that
still belongs to the NFT that created the subname. It needs `CreatorInv`: that NFT has an old id
and, while it exists, is for the parent, so that no takeover and no leaf in the parent's place can
bring its id back. In the refinement a takeover is one `Grant`: `HolderOf` changes to an id above
all ids so far, since `minted` counts the NFTs. `TenancyCorrect` needs no more than `TypeOK` and
`OwnershipInv`: `LetSeen` and `ReleaseSeen` read a record as a tenancy (a let name is a record that
is not a leaf, a running one an unexpired record), then each operation is one action of `Tenancy`. An
extension under a leaf in the parent's place, whose id could be any, is excluded by the leaf's
expiration of 0.

`tlapm CouponProofs.tla` proves `ClaimsKeptCorrect`, `ExclusiveCorrect` and `HouseFrozenCorrect`.
The invariant `CouponInv`: the table of coupons, and the one an abort brings back, both hold only
saved offers with the claims that are left of them (`TableInv`); an intent without the mark in its
metadata has no coupon, and one marked as stacking has only coupons that stack (`MarkInv`), from
which `ExclusiveAlone` follows; with the house closed an abort brings back the table there is
(`FrozenInv`).

`tlapm AuctionProofs.tla` proves `EndsBeforeExpiryCorrect`, `LeaseHeldCorrect`, `QuietCorrect` and
`AuctionKeepsLeases`, that the leases of the auction house are those of `Lease`. In `LeaseInv` the
two invariants support each other: a bid extends an auction only to the end of its NFT's term, and
nobody else gets the name, because that term is the lease and is not over while the auction runs.
It also proves `AuctionTypeCorrect` (the linked table holds every auction exactly once),
`AwardCorrect`, and that money is neither lost nor made, for any finite number of names and
bidders: `WholeCorrect` and `ConservedCorrect`. Both are sums, so each step says by how much it
moves the terms of one name or one bidder, and the lemmas of `FoldLemmas` carry that over to the
sum; the queue without the names of a batch is a fold, and stays a sequence without repetitions
(`WithoutIs`).

`tlapm GaugesProofs.tla` proves `RecordsCountedCorrect`, `DefaultNamesCorrect` and
`NeverUndercountsCorrect` for all finite sets of names and addresses; `GaugesWatchRegistry` carries
the invariants of `IotaNames` over. Per action, the records and the default names before and after
differ by exactly the names and addresses of its events (`Told`); counting is then the
cardinality of a set that loses one part and gains another (`Exchange`). Subnames need that each
node subname has an NFT of its own (`NodeNfts`), which is what the gauge really counts.

`tlapm IndexerProofs.tla` proves `IngestionImplemented` and `NoCheckpointLost` for every history,
number of workers, pool and number of restarts: a worker has stored every event before the one it
is at (`WorkerInv`), so only checkpoints that are stored get into `done` (`ReadingInv`), and the
progress moves over those alone. On top of that:

* `IndexerTypeCorrect`. Its inductive form is `TypeInv`: `TypeOK`, `ReadingInv`, and finitely many
  bids.
* `PagesCorrect`. What a request was promised by its first query is still there at the second:
  `RequestInv` says that the listing can only have grown where rows are only added, since no step
  takes a row or a claim away (`KeepsClaims`, `ListedKept`); that a page is a piece of one order of
  the listing is in `PageIs`.
* `RowsCorrect`. For any number of workers, the bids are a subset of those of the chain
  (`BidsInv`), and all of them once no checkpoint is missing (`NoCheckpointLost`). For the rows of
  the auctions with one worker, the invariant is told from the set of events that have been dealt
  with, `Past`: each row has the end of the last start or extension in `Past`, or, while a crash has
  taken `Past` back behind what is stored, of some event after it (`RowsInv`). Replaying is
  therefore harmless, and when all is dealt with the end is the last one's. A finalisation in
  `Past` has left its claim, which nothing takes away, and no row is claimed without one.
* `MetricsCorrect`. With one worker, and while no restart lost anything, each metric that is
  followed has its value at `Past` (`MetricsInv`), up to the event the worker is at: counted
  before it is stored (`Counted`), stored before it is tallied (`Tallied`), and the balances of a
  checkpoint set before its events (`Balanced`). A crash keeps this where the process had settled:
  then `Past` stays what it was, and what Prometheus has is what the process had.

`OneSteps` is the heart of the last two: with one worker a step either leaves `Past` alone, takes it
back (a crash), or adds the one event the worker is at.

The proofs assume the named assumptions of the modules, which TLC evaluates in every run:
`NamesAssumption`, `TimeAssumption`, `BoundsAssumption`, `NullsAssumption` of `IotaNames`;
`PricingAssumption`, `OffersAssumption`, `PaymentsNullsAssumption` of `Payments`;
`AuctionAssumption`, `AuctionNulls` of `Auction`; `GaugesAssumption`; `IndexerAssumption`.

Those of the indexer say of a chain that auctions are started before they are finalised
(`AuctionsStart`, as `remove` on the linked table demands), that events and requests have the fields
the code deserialises, and that `NoFile` is no checkpoint; those of the auction house that names and
bidders are finite in number.

Model-checked only. Liveness (`AuctionsClose`, `CatchesUp`, `FailureStops`) and anything with
ENABLED are out of the prover's reach. Every invariant and every action property that a run checks
is also a theorem. Sums, cardinalities and folds are no recursive operators here: they are
`SumFunctionOnSet`, `Cardinality` and `FoldLeft`, whose definitions the prover opens down to a
CHOOSE of a recursive function; `FoldLemmas` derives from it, by the least counterexample in place
of an induction theorem, what one more element or one more fold step does.

## 6. Findings

* *A leaf does not resolve* (`leaf_lookup`). `lookup_address` and `resolve_address` compare a
  leaf's own expiration, always 0, with the clock and find it expired; the comment on
  `add_leaf_record` says leaves "only work as a resolving mechanism" and "do not expire".
* *An orphaned subname goes on creating subnames* (`orphan_creates`). After the administrator
  removed the parent's record, `new` and `new_leaf` still accept the subname's NFT; the comment
  in `extend_expiration` says such subnames "lose all abilities to renew / create subnames".
* *A final price of zero* (`auction_prices`). Anybody may call
  `collect_winning_auction_fund` on an ended auction; it is then finalised with
  `winning_bid: 0`, the field that the indexer records as the final price.

Seen while modelling, without a run: `unset_user_data` lets a holder drop the flags a parent set
(`set_data`'s comment asks packages to prevent that; it takes abilities from nobody but the
holder); `packages/subnames/README.md:30` says a leaf can be removed "regardless of the parent
expiration" while `remove_leaf` needs an unexpired parent; the message of `EBidTooLow` speaks
of 1 IOTA where the constant is 10; `coupon.move:14` says a fixed discount is above zero, which
`new_fixed` does not check; `coupon_house.move:202` says an authorised app can add and remove
coupons, while `remove_coupon` is package-private; a coupon that stacks may be applied to one
intent as often as its claims allow; and once `set_version` has set another version, the package
cannot set it back (`HouseFrozen`). `split_by_dot` of `name.move` drops one trailing dot, so
"name.iota." parses as "name.iota".

In the indexer: the exit code is lost where a worker fails (it cancels the token, and the reader's
`select` at `main.rs:158` returns `Ok`), where a task panics (not an error to `join_next`) and where
the API stops serving, so that `restart: on-failure` in `docker/docker-compose.yml:14` restarts
nothing (`code` in `Indexer`). `metrics.rs:283` asks for the label `depth` of a metric registered
with `key` (`metrics.rs:121`), so user data counts are never restored, and neither are the
histograms; an empty answer of Prometheus restores zeros without an error; and what was restored
before a query failed is kept with `--reset-metrics`, whose log line speaks of new metrics. With
several workers (the image starts ten) an older end can replace a newer one, a claim that comes
before its auction is lost and a balance can be the older of two, so `RowsConverge` and
`MetricsExact` speak of one worker there. A name auctioned again keeps `claimed`
(`queries.rs:80`) and is listed as claimed while its new auction runs, its bids are counted with those of the first auction, and identical bids are one
row. A crash may count events twice or, where the progress was saved after the last scrape, not at
all (`worker.rs:137`), which is why `MetricsExact` asks for restarts that lost nothing (`clean`).
`target_addresses` counts every change of a target and no removal of a record with one; the gauges
of subnames and user data drift up when a takeover, a forced removal or a burn by the controller
makes something disappear. The API counts and lists in two statements without a transaction, sorts
by end without a tie-break, and holds the connection that a worker may be waiting for.

## 7. Not modelled, and the plan

Not modelled: the syntax of names (string conversion: `IotaNames` takes names as values with a
parent and labels), the TypeScript scripts (they build transactions), the parsing of API
parameters, its health check and CORS, database migrations, changes of the configuration objects
while names exist, generated and vendored code. The temporary proxy unwraps a subname and calls
operations of `IotaNames`, which already take any NFT, and adds nothing to them.

Next, in this order:

1. Name syntax as operators, against reference definitions.
2. Changes of configuration (years, prices, label lengths) while names and intents exist.
