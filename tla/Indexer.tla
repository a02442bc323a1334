------------------------------- MODULE Indexer -------------------------------
(***************************************************************************)
(* The process of the indexer: it restores its metrics from Prometheus,     *)
(* reads the checkpoints of the chain from the progress it saved, with one  *)
(* or more workers in parallel, counts their events and writes those of the *)
(* auctions to the database, and answers the auction API from it; it shuts  *)
(* down when a task ends, a worker fails or it is told to, it can be killed *)
(* at any step, and it is started again.                                   *)
(*                                                                         *)
(* The events of a checkpoint are processed without an await, so only a    *)
(* kill cuts a checkpoint short; between the steps of one worker come those *)
(* of the others, of the API and of the scraping.                          *)
(*                                                                         *)
(* An operator named X_Fault is X with a plausible bug; no action uses it.  *)
(***************************************************************************)
EXTENDS IndexerEvents, IndexerDb

CONSTANTS
    Setups,          \* [chain, workers, pool]: the checkpoints, --num-workers, --pool-size
    EnvPackages,     \* EVENT_PACKAGE_IDS, or NoEnv where the environment is not set
    Metrics,         \* the <<metric, label>> pairs followed
    Requests,        \* what is asked of the API
    MaxLives,        \* bound on the starts of the process
    NoEnv, NoFile, NoRequest, NoBalance

Packages == IF EnvPackages = NoEnv THEN NetworkPackages ELSE EnvPackages

Tasks == {"prometheus", "api", "reader"}

\* A checkpoint: the events of its successful transactions, in order, and the
\* balances of the two objects the gauges show, where it changes them.
WellFormedHistory(h) ==
    /\ Len(h) \in Nat /\ DOMAIN h = 1..Len(h)
    /\ \A c \in DOMAIN h :
        /\ {"balance", "house", "events"} \subseteq DOMAIN h[c]
        /\ {h[c].balance, h[c].house} \subseteq Nat \cup {NoBalance}
        /\ Len(h[c].events) \in Nat /\ DOMAIN h[c].events = 1..Len(h[c].events)
        /\ \A i \in DOMAIN h[c].events : WellFormedEvent(h[c].events[i])

\* An auction is started before it is finalized, by the same package.
AuctionsStart(h) ==
    \A c \in DOMAIN h : \A i \in DOMAIN h[c].events :
        h[c].events[i].kind = "AuctionFinalized" =>
            \E d \in DOMAIN h : \E j \in DOMAIN h[d].events :
                /\ d < c \/ (d = c /\ j < i)
                /\ h[d].events[j].kind = "AuctionStarted"
                /\ h[d].events[j].name = h[c].events[i].name
                /\ h[d].events[j].package = h[c].events[i].package

\* A page is asked for by a number, and a status by its name.
WellFormedRequest(q) ==
    /\ {"bidder", "search", "status", "sort", "sortBy", "page", "size", "now"} \subseteq DOMAIN q
    /\ q.page \in Nat /\ q.size \in Nat \cup {NoSize}

ASSUME IndexerAssumption ==
    /\ \A s \in Setups :
          /\ WellFormedHistory(s.chain) /\ AuctionsStart(s.chain)
          /\ s.workers \in Nat \ {0} /\ s.pool \in Nat \ {0}
    /\ \A m \in Metrics :
          /\ m = <<m[1], m[2]>>
          /\ m[1] \in {"balance", "auction_house_balance"} => m[2] = NoLabel
    /\ \A q \in Requests : WellFormedRequest(q)
    /\ DefaultPageSize \in Nat /\ MaxPageSize \in Nat
    /\ AnyStatus \notin {"active", "finished", "claimed"}
    /\ MaxLives \in Nat
    /\ NoFile \notin Nat

VARIABLES
    chain,       \* the checkpoints: fixed, and all the indexer knows of the chain
    workers,     \* --num-workers
    pool,        \* --pool-size: connections to the database
    progress,    \* ./data/progress_store; survives the process, as do db and scraped
    db,          \* ./data/AUCTIONS_DB
    scraped,     \* what Prometheus answers for each metric
    phase,       \* of the process: down, running, draining
    code,        \* what the first task to end leaves as exit code
    token,       \* the cancellation token
    live,        \* tasks of the JoinSet that have not ended
    next,        \* the next checkpoint to hand to a worker, 0 before there is one
    worker,      \* what each worker is doing
    done,        \* checkpoints processed and not yet in progress
    metrics,     \* the metrics of the process
    request,     \* the API request being answered
    lives,       \* how often the process was started
    clean        \* history: no metric was lost or counted twice by a restart

persistent == <<progress, db, scraped>>
process == <<phase, code, token, live, lives, clean>>
reading == <<next, worker, done>>
vars == <<chain, workers, pool, persistent, process, reading, metrics, request>>

Checkpoints == DOMAIN chain
Events(c) == chain[c].events
Workers == 1..workers

Idle == [stage |-> "idle"]
Failed == [stage |-> "failed"]
InCheckpoint(w) == worker[w].stage \notin {"idle", "failed"}
AllIdle == \A w \in Workers : worker[w] = Idle

NoCounts == [m \in Metrics |-> 0]

Init ==
    /\ \E s \in Setups : chain = s.chain /\ workers = s.workers /\ pool = s.pool
    /\ progress = NoFile
    /\ db = EmptyDb
    /\ scraped = NoCounts
    /\ phase = "down"
    /\ code = "none"
    /\ token = FALSE
    /\ live = {}
    /\ next = 0
    /\ worker = [w \in Workers |-> Idle]
    /\ done = {}
    /\ metrics = NoCounts
    /\ request = NoRequest
    /\ lives = 0
    /\ clean = TRUE

-----------------------------------------------------------------------------
(* Starting and stopping.                                                  *)

\* The process comes up with what its first n queries to Prometheus restored:
\* all of them, or fewer where one failed and --reset-metrics let it go on.
Start(n) ==
    /\ phase = "down"
    /\ lives < MaxLives
    /\ Packages # {}
    /\ phase' = "running"
    /\ code' = "none"
    /\ live' = Tasks
    /\ metrics' = Restored(scraped, n)
    /\ lives' = lives + 1
    /\ clean' = (clean /\ n = Queries)
    /\ UNCHANGED <<chain, workers, pool, persistent, token, reading, request>>

\* Without --reset-metrics, or where the pool, a migration or the connection to
\* the node fails or there are no packages to follow, nothing is started.
StartFails ==
    /\ phase = "down"
    /\ lives < MaxLives
    /\ code' = "err"
    /\ lives' = lives + 1
    /\ UNCHANGED <<chain, workers, pool, persistent, phase, token, live, clean, reading, metrics,
                   request>>

\* The exit code is that of the first task to end.
EndTask(t, result) ==
    /\ t \in live
    /\ live' = live \ {t}
    /\ code' = IF code = "none" THEN result ELSE code
    /\ UNCHANGED <<chain, workers, pool, persistent, phase, token, lives, clean, reading, metrics,
                   request>>

\* The token ends the three tasks, and none of them with an error.
TaskEnds(t) == token /\ EndTask(t, "ok")

\* A task ends by itself: with an error, by a panic, which is not an error to
\* join_next, or because the API stopped serving, which start_api_server hides.
\* If it is not the first, that makes no difference to the others.
TaskFails(t) ==
    /\ phase = "running"
    /\ live = Tasks
    /\ \E result \in {"err", "ok"} : EndTask(t, result)

\* join_next: a task has ended, and the others are told to.
Join ==
    /\ phase = "running"
    /\ live # Tasks
    /\ phase' = "draining"
    /\ token' = TRUE
    /\ UNCHANGED <<chain, workers, pool, persistent, code, live, lives, clean, reading, metrics,
                   request>>

Interrupt ==
    /\ phase = "running"
    /\ phase' = "draining"
    /\ token' = TRUE
    /\ code' = "ok"
    /\ UNCHANGED <<chain, workers, pool, persistent, live, lives, clean, reading, metrics, request>>

SecondInterrupt ==
    /\ phase = "draining"
    /\ live # {}
    /\ live' = {}
    /\ UNCHANGED <<chain, workers, pool, persistent, phase, code, token, lives, clean, reading,
                   metrics, request>>

\* Nothing was counted that is not in progress and in Prometheus as well.
Settled ==
    /\ AllIdle
    /\ done = {}
    /\ next # 0 => next = progress + 1
    /\ scraped = metrics

Down ==
    /\ phase' = "down"
    /\ token' = FALSE
    /\ live' = {}
    /\ next' = 0
    /\ worker' = [w \in Workers |-> Idle]
    /\ done' = {}
    /\ metrics' = NoCounts
    /\ request' = NoRequest
    /\ clean' = (clean /\ Settled)
    /\ UNCHANGED <<chain, workers, pool, persistent, lives>>

\* The runtime waits for the checkpoints that are being processed.
Exit ==
    /\ phase = "draining"
    /\ live = {}
    /\ \A w \in Workers : ~InCheckpoint(w)
    /\ Down
    /\ UNCHANGED code

Kill ==
    /\ phase # "down"
    /\ code' = "err"
    /\ Down

-----------------------------------------------------------------------------
(* Prometheus, from outside.                                               *)

Scrape ==
    /\ phase # "down"
    /\ "prometheus" \in live
    /\ scraped' = metrics
    /\ UNCHANGED <<chain, workers, pool, progress, db, process, reading, metrics, request>>

\* An instant query finds no series of a target that has been down for a while.
Stale ==
    /\ phase = "down"
    /\ scraped' = NoCounts
    /\ clean' = (clean /\ scraped = NoCounts)
    /\ UNCHANGED <<chain, workers, pool, progress, db, phase, code, token, live, lives, reading,
                   metrics, request>>

-----------------------------------------------------------------------------
(* Reading checkpoints.  The executor of iota_data_ingestion_core hands them *)
(* out in order, each to an idle worker, and moves the saved progress over  *)
(* those that are done.                                                     *)

\* The first start writes the progress file: the checkpoint that deployed the
\* package, which has nothing for the indexer, counts as done.
OpenProgress ==
    /\ phase = "running"
    /\ "reader" \in live
    /\ next = 0
    /\ progress' = IF progress = NoFile THEN 0 ELSE progress
    /\ next' = progress' + 1
    /\ UNCHANGED <<chain, workers, pool, db, scraped, process, worker, done, metrics, request>>

At(w, stage) == worker[w].stage = stage
Current(w) == Events(worker[w].cp)[worker[w].pos]

\* Of the events of auctions, bids and extensions move no metric.
WritesOnly(e) == e.kind \in AuctionKinds /\ Counts(e) = NoChange

Turn_PastIt(c, pos) ==
    LET own == {i \in DOMAIN Events(c) : i > pos /\ Parses(Events(c)[i], Packages)}
        first == CHOOSE i \in own : \A j \in own : i <= j
    IN  IF own = {} THEN [stage |-> "end", cp |-> c, pos |-> pos]
        ELSE [stage |-> IF WritesOnly(Events(c)[first]) THEN "store" ELSE "count",
              cp |-> c, pos |-> first + 1]

\* Where the worker is with its checkpoint: at the next event of the indexer's
\* own, about to count it or, where it counts nothing, to store it; or at the end.
Turn(c, pos) ==
    LET own == {i \in DOMAIN Events(c) : i > pos /\ Parses(Events(c)[i], Packages)}
        first == CHOOSE i \in own : \A j \in own : i <= j
    IN  IF own = {} THEN [stage |-> "end", cp |-> c, pos |-> pos]
        ELSE [stage |-> IF WritesOnly(Events(c)[first]) THEN "store" ELSE "count",
              cp |-> c, pos |-> first]

TurnTo(w, turn) == worker' = [worker EXCEPT ![w] = turn]

HasBalance(c) == {chain[c].balance, chain[c].house} # {NoBalance}

\* Which of the idle workers takes it makes no difference.
Assign(w) ==
    /\ "reader" \in live
    /\ ~token
    /\ next \in Checkpoints
    /\ worker[w] = Idle
    /\ \A v \in Workers : v < w => worker[v] # Idle
    /\ TurnTo(w, IF HasBalance(next) THEN [stage |-> "balances", cp |-> next, pos |-> 0]
                 ELSE Turn(next, 0))
    /\ next' = next + 1
    /\ UNCHANGED <<chain, workers, pool, persistent, process, done, metrics, request>>

\* The gauges take the balances of the checkpoint's output objects.
SetBalances(w) ==
    /\ At(w, "balances")
    /\ LET cp == chain[worker[w].cp]
           named == IF cp.balance = NoBalance THEN metrics
                    ELSE SetGauge(metrics, "balance", cp.balance)
       IN  metrics' = IF cp.house = NoBalance THEN named
                      ELSE SetGauge(named, "auction_house_balance", cp.house)
    /\ TurnTo(w, Turn(worker[w].cp, 0))
    /\ UNCHANGED <<chain, workers, pool, persistent, process, next, done, request>>

CountEvent(w) ==
    /\ At(w, "count")
    /\ metrics' = Apply(metrics, Counts(Current(w)))
    /\ TurnTo(w, IF Current(w).kind \in AuctionKinds THEN [worker[w] EXCEPT !.stage = "store"]
                 ELSE Turn(worker[w].cp, worker[w].pos))
    /\ UNCHANGED <<chain, workers, pool, persistent, process, next, done, request>>

HeldByApi == request # NoRequest

\* get_connection: the API keeps one for the whole of a request.
FreeConnection == (IF HeldByApi THEN 1 ELSE 0) < pool

StoreRows(w) ==
    /\ At(w, "store")
    /\ FreeConnection
    /\ LET e == Current(w)
       IN  /\ db' = StoreEvent(db, e)
           /\ TurnTo(w, IF e.kind = "AuctionFinalized"
                        THEN [stage |-> "tally", cp |-> worker[w].cp, pos |-> worker[w].pos,
                              bids |-> BidCount(db', e.name)]
                        ELSE Turn(worker[w].cp, worker[w].pos))
    /\ UNCHANGED <<chain, workers, pool, progress, scraped, process, next, done, metrics, request>>

TallyBids(w) ==
    /\ At(w, "tally")
    /\ metrics' = Apply(metrics, TallyOf(worker[w].bids))
    /\ TurnTo(w, Turn(worker[w].cp, worker[w].pos))
    /\ UNCHANGED <<chain, workers, pool, persistent, process, next, done, request>>

Finish(w) ==
    /\ At(w, "end")
    /\ done' = done \cup {worker[w].cp}
    /\ TurnTo(w, Idle)
    /\ UNCHANGED <<chain, workers, pool, persistent, process, next, metrics, request>>

Fail_NoCancel(w) ==
    /\ At(w, "balances") \/ At(w, "store")
    /\ TurnTo(w, Failed)
    /\ UNCHANGED <<chain, workers, pool, persistent, process, next, done, metrics, request>>

\* An object does not decode, no connection comes free in time, a statement
\* fails: the worker cancels the token, and the checkpoint is not tried again.
Fail(w) ==
    /\ At(w, "balances") \/ At(w, "store")
    /\ TurnTo(w, Failed)
    /\ token' = TRUE
    /\ UNCHANGED <<chain, workers, pool, persistent, phase, code, live, lives, clean, next, done,
                   metrics, request>>

Process(w) == SetBalances(w) \/ CountEvent(w) \/ StoreRows(w) \/ TallyBids(w) \/ Finish(w)

SaveProgress_Gaps ==
    /\ "reader" \in live
    /\ next > 0
    /\ \E c \in done : c > progress /\ progress' = c /\ done' = done \ {c}
    /\ UNCHANGED <<chain, workers, pool, db, scraped, process, next, worker, metrics, request>>

SaveProgress_ForgetsRest ==
    /\ "reader" \in live
    /\ next > 0
    /\ progress + 1 \in done
    /\ progress' = progress + 1
    /\ done' = {}
    /\ UNCHANGED <<chain, workers, pool, db, scraped, process, next, worker, metrics, request>>

SaveProgress ==
    /\ "reader" \in live
    /\ next > 0
    /\ progress + 1 \in done
    /\ progress' = progress + 1
    /\ done' = done \ {progress + 1}
    /\ UNCHANGED <<chain, workers, pool, db, scraped, process, next, worker, metrics, request>>

-----------------------------------------------------------------------------
(* The auction API: one request, answered by two queries that are not in     *)
(* one transaction.                                                         *)

\* With no auction to list, the second query is left out.
CountAuctions(q) ==
    /\ "api" \in live
    /\ request = NoRequest
    /\ Total(db, q) > 0
    /\ request' = [query |-> q, total |-> Total(db, q)]
    /\ UNCHANGED <<chain, workers, pool, persistent, process, reading, metrics>>

\* Answers with one of these pages.
Pages(q) == {PageOf(listing, q) : listing \in Orders(db, q)}

ListAuctions ==
    /\ request # NoRequest
    /\ request' = NoRequest
    /\ UNCHANGED <<chain, workers, pool, persistent, process, reading, metrics>>

-----------------------------------------------------------------------------

Lifecycle ==
    \/ \E n \in 0..Queries : Start(n)
    \/ StartFails
    \/ \E t \in Tasks : TaskEnds(t) \/ TaskFails(t)
    \/ Join
    \/ Interrupt
    \/ SecondInterrupt
    \/ Exit
    \/ Kill

Read ==
    \/ OpenProgress
    \/ SaveProgress
    \/ \E w \in Workers : Assign(w) \/ Process(w) \/ Fail(w)

Answer == (\E q \in Requests : CountAuctions(q)) \/ ListAuctions

Next == Lifecycle \/ Scrape \/ Stale \/ Read \/ Answer

\* What is scheduled goes on: the reader reads, a worker takes its next step or
\* fails (get_connection gives up after connection_timeout_secs), and tasks
\* heed the token.  Nobody has to start the process, to stop it or to complete
\* a request.
Fairness ==
    /\ WF_vars(OpenProgress \/ SaveProgress \/ \E w \in Workers : Assign(w))
    /\ \A w \in UNION {1..s.workers : s \in Setups} :
          WF_vars(w \in Workers /\ (Process(w) \/ Fail(w)))
    /\ WF_vars((\E t \in Tasks : TaskEnds(t)) \/ Join \/ Exit)

Spec == Init /\ [][Next]_vars

FairSpec == Spec /\ Fairness

-----------------------------------------------------------------------------
(* Properties.                                                             *)

Turns ==
    [stage : {"idle", "failed"}]
        \cup [stage : {"balances", "count", "store", "end"}, cp : Checkpoints, pos : Nat]
        \cup [stage : {"tally"}, cp : Checkpoints, pos : Nat, bids : Nat]

\* Every variable keeps its type, and a worker is at an event its checkpoint has.
TypeOK ==
    /\ progress \in {NoFile} \cup {0} \cup Checkpoints
    /\ scraped \in [Metrics -> Int]
    /\ metrics \in [Metrics -> Int]
    /\ phase \in {"down", "running", "draining"}
    /\ code \in {"none", "ok", "err"}
    /\ token \in BOOLEAN
    /\ live \subseteq Tasks
    /\ next \in 0..(Len(chain) + 1)
    /\ worker \in [Workers -> Turns]
    /\ \A w \in Workers :
          worker[w].stage \in {"count", "store", "tally"} =>
              worker[w].pos \in DOMAIN Events(worker[w].cp)
    /\ done \subseteq Checkpoints
    /\ lives \in 0..MaxLives
    /\ clean \in BOOLEAN

\* What the chain holds for the indexer in its first n checkpoints.
EventAt(p) == Events(p[1])[p[2]]
EventsTo(n) ==
    {p \in UNION {{c} \X DOMAIN Events(c) : c \in 1..n} : Parses(EventAt(p), Packages)}
Precedes(p, q) == p[1] < q[1] \/ (p[1] = q[1] /\ p[2] < q[2])
OfKind(ps, kinds) == {p \in ps : EventAt(p).kind \in kinds}
OfName(ps, n) == {p \in ps : EventAt(p).name = n}
BidsAt(ps) ==
    {[bidder |-> EventAt(p).bidder, name |-> EventAt(p).name, bid |-> EventAt(p).bid] :
        p \in OfKind(ps, {"AuctionStarted", "AuctionBid"})}
EndsFor(n) ==
    OfName(OfKind(EventsTo(Len(chain)), {"AuctionStarted", "AuctionExtended"}), n)
StartsOf(n) == OfName(OfKind(EventsTo(Len(chain)), {"AuctionStarted"}), n)
FinalizedOf(n) == OfName(OfKind(EventsTo(Len(chain)), {"AuctionFinalized"}), n)
LatestOf(ps) == CHOOSE p \in ps : \A q \in ps : p = q \/ Precedes(q, p)

\* The last auction of the name is over, and not only one before it.
LastFinalized(n) == \E p \in FinalizedOf(n) : Precedes(LatestOf(StartsOf(n)), p)

\* Nothing of an event is missing from the database but, maybe, its order.
Stored(e) ==
    /\ e.kind \in AuctionKinds => Contains(db.names, e.name)
    /\ e.kind \in {"AuctionStarted", "AuctionExtended"} => HasRow(db, e.name)
    /\ e.kind \in {"AuctionStarted", "AuctionBid"} =>
          [bidder |-> e.bidder, name |-> e.name, bid |-> e.bid] \in db.bids

StoredCheckpoints ==
    {c \in Checkpoints :
        \A i \in DOMAIN Events(c) : Parses(Events(c)[i], Packages) => Stored(Events(c)[i])}

Ingest == INSTANCE Ingestion WITH
    stored <- StoredCheckpoints,
    progress <- IF progress = NoFile THEN 0 ELSE progress

\* Whatever the number of workers, the order they finish in and the step the
\* process is killed at: the progress that is saved (worker.rs, and the
\* executor) never passes a checkpoint some event of which is not stored, and
\* what was stored stays.
ImplementsIngestion == Ingest!Spec

CaughtUp == progress = Len(chain) /\ AllIdle

\* Replays and several workers change nothing in the bids: every bid of the
\* chain is a row once, and no other row is there.  With one worker the row of an
\* auction has the end the chain says last, it is claimed if the last auction of
\* its name was finalized, and not before one was (queries.rs,
\* upsert_auctions_entry, claim_auctions_entry).  Left open are a name that is
\* auctioned again, whose row keeps the flag of the auction before, and several
\* workers, where an earlier end can overwrite an extension and a claim be lost.
RowsConverge ==
    CaughtUp =>
        /\ db.bids = BidsAt(EventsTo(Len(chain)))
        /\ workers = 1 =>
              \A n \in DOMAIN db.auctions :
                  /\ db.auctions[n].end = EventAt(LatestOf(EndsFor(n))).end
                  /\ LastFinalized(n) => db.auctions[n].claimed
                  /\ db.auctions[n].claimed => FinalizedOf(n) # {}

\* The value of a metric after n checkpoints: the balances are the last there
\* were, an auction is tallied under the number of distinct bids on its name
\* until then, everything else is a sum.
BidsBefore(p) ==
    Cardinality({b \in BidsAt({q \in EventsTo(p[1]) : Precedes(q, p)}) :
                    b.name = EventAt(p).name})

LastBalance(m, n) ==
    LET of(c) == IF m[1] = "balance" THEN chain[c].balance ELSE chain[c].house
        set == {c \in 1..n : of(c) # NoBalance}
    IN  IF set = {} THEN 0 ELSE of(CHOOSE c \in set : \A d \in set : d <= c)

\* By how much each event of the chain moves a metric when it is counted.
Moves(m) ==
    [p \in EventsTo(Len(chain)) |->
        IF m \in DOMAIN Counts(EventAt(p)) THEN Counts(EventAt(p))[m] ELSE 0]

Expected(m, n) ==
    CASE m[1] \in {"balance", "auction_house_balance"} -> LastBalance(m, n)
      [] m[1] = "auction_bid_count_distribution" ->
            Cardinality({p \in OfKind(EventsTo(n), {"AuctionFinalized"}) : BidsBefore(p) = m[2]})
      [] OTHER -> SumFunctionOnSet(Moves(m), EventsTo(n))

\* One worker keeps the metrics exact, and so does a restart, if the old
\* process had saved and published all it counted and Prometheus still has it:
\* the counting, the progress file and the restored values are three records
\* of one thing that nothing keeps in step (worker.rs:137, metrics.rs:170).
MetricsExact ==
    (phase = "running" /\ next > 0 /\ workers = 1 /\ clean /\ AllIdle) =>
        \A m \in Metrics :
            (lives = 1 \/ Restores(m[1], Queries)) => metrics[m] = Expected(m, next - 1)

\* Whatever the workers write between the two queries of a request (routes.rs),
\* the page that goes with the total is part of the auctions there are, without
\* repetitions, no longer than asked for; and where rows can only be added (no
\* status, or claimed) it is as long as the total promises: also when what is
\* written is an auction that a crash makes the worker store a second time.
PageAnswers ==
    request # NoRequest =>
        LET q == request.query
            rest == request.total - q.page * PageSize(q)
        IN  \A page \in Pages(q) :
                /\ Len(page) <= PageSize(q)
                /\ IsInjective(page)
                /\ \A i \in DOMAIN page :
                      \E b \in BidsAt(EventsTo(Len(chain))) :
                          b.name = page[i] /\ q.bidder \in {AnyBidder, b.bidder}
                /\ q.status \in {AnyStatus, "claimed"} =>
                      Len(page) = PageSize(q) \/ Len(page) >= rest

\* A process that is left running, and no worker of which fails, catches up
\* with the chain: no checkpoint is skipped over, and no worker waits for ever.
CatchesUp ==
    <>[](phase = "running" /\ ~token) => <>(progress = Len(chain))

\* When a worker fails, the process ends: the token it cancels reaches every
\* task, and main waits for none that does not heed it.
FailureStops ==
    (\E w \in Workers : worker[w] = Failed) ~> (phase = "down")
=============================================================================
