---------------------------- MODULE IndexerProofs ----------------------------
(***************************************************************************)
(* Theorems about Indexer, for every chain, number of workers and number of *)
(* restarts: it implements Ingestion, which never loses a checkpoint; its    *)
(* pages are pages of the auctions there are; the tables end as the chain    *)
(* says; and with one worker the metrics are those of the events dealt with. *)
(*                                                                         *)
(* With one worker everything is told from Past, the events of the chain     *)
(* that it has dealt with: the bids and rows of the database are those of    *)
(* Past (RowsInv, MetricsInv), each metric is its value at Past but for what *)
(* is counted before it is stored or stored before it is tallied            *)
(* (Counted, Tallied), and OneSteps says how a step moves Past.              *)
(***************************************************************************)
EXTENDS Indexer, FoldLemmas

-----------------------------------------------------------------------------
(* The abstract specification.                                             *)

\* Whatever implements Ingestion has stored all the progress covers.
THEOREM IngestionLosesNothing == Ingest!Spec => []Ingest!NothingLost
<1> DEFINE Inv == /\ Ingest!NothingLost
                  /\ (IF progress = NoFile THEN 0 ELSE progress) \in Nat
<1>1. Ingest!Init => Inv
  BY DEF Ingest!Init, Ingest!NothingLost
<1>2. Inv /\ [Ingest!Store \/ Ingest!Advance]_<<StoredCheckpoints,
                  IF progress = NoFile THEN 0 ELSE progress>> => Inv'
  BY DEF Ingest!Store, Ingest!Advance, Ingest!NothingLost
<1>3. Inv => Ingest!NothingLost
  OBVIOUS
<1> HIDE DEF Inv
<1> QED
  BY <1>1, <1>2, <1>3, PTL DEF Ingest!Spec

-----------------------------------------------------------------------------
(* What a worker goes through.                                             *)

\* The events of a checkpoint that are the indexer's own.
Own(c) == {i \in DOMAIN Events(c) : Parses(Events(c)[i], Packages)}

AtEvents == [stage : {"balances", "count", "store", "end"}, cp : Checkpoints, pos : Nat]

\* A worker turns to the first event it has not dealt with: with those up to
\* pos in G, so are those before the one it turns to.
LEMMA TurnSound ==
    ASSUME WellFormedHistory(chain), NEW c \in Checkpoints, NEW pos \in Nat,
           NEW G, \A i \in Own(c) : i <= pos => i \in G,
           NEW t, t = Turn(c, pos)
    PROVE  /\ t \in AtEvents /\ t.cp = c
           /\ t.stage \in {"count", "store", "end"}
           /\ t.stage = "end" => Own(c) \subseteq G
           /\ t.stage # "end" => /\ t.pos \in Own(c)
                                 /\ \A i \in Own(c) : i < t.pos => i \in G
           /\ t.stage = "store" => Events(c)[t.pos].kind \in AuctionKinds
<1> DEFINE own == {i \in DOMAIN Events(c) : i > pos /\ Parses(Events(c)[i], Packages)}
           first == CHOOSE i \in own : \A j \in own : i <= j
<1>1. DOMAIN Events(c) \subseteq Nat \ {0}
  BY DEF WellFormedHistory, Checkpoints, Events
<1>2. CASE own = {}
  <2>1. t = [stage |-> "end", cp |-> c, pos |-> pos]
    BY <1>2 DEF Turn
  <2>2. \A i \in Own(c) : i <= pos
    BY <1>1, <1>2 DEF Own
  <2> QED
    BY <2>1, <2>2 DEF AtEvents
<1>3. CASE own # {}
  <2>1. own \in SUBSET Nat
    BY <1>1
  <2> HIDE DEF own
  <2>2. first \in own /\ \A j \in own : first <= j
    BY <1>3, <2>1, Smallest
  <2> USE DEF own
  <2>3. \E s \in {"count", "store"} :
            /\ t = [stage |-> s, cp |-> c, pos |-> first]
            /\ s = "store" => Events(c)[first].kind \in AuctionKinds
    BY <1>3 DEF Turn, WritesOnly
  <2> HIDE DEF first
  <2>4. first \in Own(c) /\ first \in Nat
    BY <1>1, <2>2 DEF Own
  <2>5. \A i \in Own(c) : i < first => i <= pos
    BY <1>1, <2>2, <2>4 DEF Own
  <2> HIDE DEF own
  <2> QED
    BY <2>3, <2>4, <2>5 DEF AtEvents
<1> QED
  BY <1>2, <1>3

-----------------------------------------------------------------------------
(* The rows of an event.                                                   *)

\* Stored, of any state of the database.
StoredIn(d, e) ==
    /\ e.kind \in AuctionKinds => Contains(d.names, e.name)
    /\ e.kind \in {"AuctionStarted", "AuctionExtended"} => HasRow(d, e.name)
    /\ e.kind \in {"AuctionStarted", "AuctionBid"} =>
          [bidder |-> e.bidder, name |-> e.name, bid |-> e.bid] \in d.bids

DbShape(d, N) ==
    /\ DOMAIN d = {"names", "bidders", "bids", "auctions"}
    /\ d.names \in Seq(N)

\* Nothing of a transaction takes a row away.
Grows(d, d2) ==
    /\ \A n : Contains(d.names, n) => Contains(d2.names, n)
    /\ \A n : HasRow(d, n) => HasRow(d2, n)
    /\ d.bids \subseteq d2.bids

LEMMA NameCreated ==
    ASSUME NEW N, NEW d, DbShape(d, N), NEW n \in N, NEW d2, d2 = GetOrCreateName(d, n)
    PROVE  DbShape(d2, N) /\ Grows(d, d2) /\ Contains(d2.names, n)
<1>1. CASE Contains(d.names, n)
  BY <1>1 DEF GetOrCreateName, Grows
<1>2. CASE ~Contains(d.names, n)
  <2>1. /\ d2.names = Append(d.names, n) /\ d2.bids = d.bids /\ d2.auctions = d.auctions
        /\ DOMAIN d2 = DOMAIN d
    BY <1>2 DEF GetOrCreateName, DbShape
  <2>2. /\ d2.names \in Seq(N) /\ Len(d2.names) = Len(d.names) + 1
        /\ \A i \in 1..Len(d.names) : d2.names[i] = d.names[i]
        /\ d2.names[Len(d.names) + 1] = n /\ Len(d.names) \in Nat
    BY <2>1, AppendProperties, LenProperties DEF DbShape
  <2> QED
    BY <2>1, <2>2 DEF DbShape, Grows, Contains, HasRow
<1> QED
  BY <1>1, <1>2

LEMMA BidderCreated ==
    ASSUME NEW N, NEW d, DbShape(d, N), NEW b, NEW d2, d2 = GetOrCreateBidder(d, b)
    PROVE  DbShape(d2, N) /\ Grows(d, d2)
BY DEF DbShape, GetOrCreateBidder, Grows, HasRow

LEMMA BidAdded ==
    ASSUME NEW N, NEW d, DbShape(d, N), NEW b, NEW n, NEW bid,
           NEW d2, d2 = AddBidsEntry(d, b, n, bid)
    PROVE  DbShape(d2, N) /\ Grows(d, d2) /\ [bidder |-> b, name |-> n, bid |-> bid] \in d2.bids
BY DEF DbShape, AddBidsEntry, Grows, HasRow

LEMMA AuctionUpserted ==
    ASSUME NEW N, NEW d, DbShape(d, N), NEW n, NEW end,
           NEW d2, d2 = UpsertAuctionsEntry(d, n, end)
    PROVE  DbShape(d2, N) /\ Grows(d, d2) /\ HasRow(d2, n)
BY DEF DbShape, UpsertAuctionsEntry, AuctionsEntry, Grows, HasRow

LEMMA AuctionClaimed ==
    ASSUME NEW N, NEW d, DbShape(d, N), NEW n, NEW d2, d2 = ClaimAuctionsEntry(d, n)
    PROVE  DbShape(d2, N) /\ Grows(d, d2)
BY DEF DbShape, ClaimAuctionsEntry, Grows, HasRow

LEMMA GrowsTwice ==
    ASSUME NEW a, NEW b, NEW c, Grows(a, b), Grows(b, c)
    PROVE  Grows(a, c)
BY DEF Grows

\* The transaction of an event stores it, and takes nothing away.
LEMMA StoreSound ==
    ASSUME NEW N, NEW d, DbShape(d, N), NEW e, e.kind \in AuctionKinds, e.name \in N,
           NEW d2, d2 = StoreEvent(d, e)
    PROVE  DbShape(d2, N) /\ Grows(d, d2) /\ StoredIn(d2, e)
<1>1. CASE e.kind = "AuctionStarted"
  <2> DEFINE a == GetOrCreateBidder(d, e.bidder)
             b == GetOrCreateName(a, e.name)
             c == UpsertAuctionsEntry(b, e.name, e.end)
  <2>1. d2 = AddBidsEntry(c, e.bidder, e.name, e.bid)
    BY <1>1 DEF StoreEvent
  <2>2. DbShape(a, N) /\ Grows(d, a)
    BY BidderCreated
  <2> HIDE DEF a
  <2>3. DbShape(b, N) /\ Grows(a, b) /\ Contains(b.names, e.name)
    BY <2>2, NameCreated
  <2> HIDE DEF b
  <2>4. DbShape(c, N) /\ Grows(b, c) /\ HasRow(c, e.name)
    BY <2>3, AuctionUpserted
  <2> HIDE DEF c
  <2>5. /\ DbShape(d2, N) /\ Grows(c, d2)
        /\ [bidder |-> e.bidder, name |-> e.name, bid |-> e.bid] \in d2.bids
    BY <2>1, <2>4, BidAdded
  <2>6. Grows(b, d2) /\ Grows(d, d2)
    BY <2>2, <2>3, <2>4, <2>5, GrowsTwice
  <2> QED
    BY <2>3, <2>4, <2>5, <2>6 DEF StoredIn, Grows
<1>2. CASE e.kind = "AuctionBid"
  <2> DEFINE a == GetOrCreateBidder(d, e.bidder)
             b == GetOrCreateName(a, e.name)
  <2>1. d2 = AddBidsEntry(b, e.bidder, e.name, e.bid)
    BY <1>2 DEF StoreEvent
  <2>2. DbShape(a, N) /\ Grows(d, a)
    BY BidderCreated
  <2> HIDE DEF a
  <2>3. DbShape(b, N) /\ Grows(a, b) /\ Contains(b.names, e.name)
    BY <2>2, NameCreated
  <2> HIDE DEF b
  <2>4. /\ DbShape(d2, N) /\ Grows(b, d2)
        /\ [bidder |-> e.bidder, name |-> e.name, bid |-> e.bid] \in d2.bids
    BY <2>1, <2>3, BidAdded
  <2>5. Grows(d, d2)
    BY <2>2, <2>3, <2>4, GrowsTwice
  <2> QED
    BY <1>2, <2>3, <2>4, <2>5 DEF StoredIn, Grows
<1>3. CASE e.kind = "AuctionExtended"
  <2> DEFINE b == GetOrCreateName(d, e.name)
  <2>1. d2 = UpsertAuctionsEntry(b, e.name, e.end)
    BY <1>3 DEF StoreEvent
  <2>2. DbShape(b, N) /\ Grows(d, b) /\ Contains(b.names, e.name)
    BY NameCreated
  <2> HIDE DEF b
  <2>3. DbShape(d2, N) /\ Grows(b, d2) /\ HasRow(d2, e.name)
    BY <2>1, <2>2, AuctionUpserted
  <2>4. Grows(d, d2)
    BY <2>2, <2>3, GrowsTwice
  <2> QED
    BY <1>3, <2>2, <2>3, <2>4 DEF StoredIn, Grows
<1>4. CASE e.kind = "AuctionFinalized"
  <2> DEFINE b == GetOrCreateName(d, e.name)
  <2>1. d2 = ClaimAuctionsEntry(b, e.name)
    BY <1>4 DEF StoreEvent
  <2>2. DbShape(b, N) /\ Grows(d, b) /\ Contains(b.names, e.name)
    BY NameCreated
  <2> HIDE DEF b
  <2>3. DbShape(d2, N) /\ Grows(b, d2)
    BY <2>1, <2>2, AuctionClaimed
  <2>4. Grows(d, d2)
    BY <2>2, <2>3, GrowsTwice
  <2> QED
    BY <1>4, <2>2, <2>3, <2>4 DEF StoredIn, Grows
<1> QED
  BY <1>1, <1>2, <1>3, <1>4 DEF AuctionKinds

-----------------------------------------------------------------------------
(* The invariant.                                                          *)

Mentioned == UNION {{Events(c)[i].name : i \in DOMAIN Events(c)} : c \in Checkpoints}

\* An event that is not written needs nothing to be stored.
AllStored(c) == \A i \in Own(c) : Stored(Events(c)[i])
StoredBefore(c, pos) == \A i \in Own(c) : i < pos => Stored(Events(c)[i])

\* How far a worker has come.
WorkerInv(w) ==
    /\ worker[w].stage \in {"idle", "failed", "balances", "count", "store", "tally", "end"}
    /\ worker[w].stage \in {"balances", "count", "store", "end"} => worker[w] \in AtEvents
    /\ worker[w].stage \in {"count", "store", "tally"} =>
          /\ worker[w].cp \in Checkpoints
          /\ worker[w].pos \in Own(worker[w].cp)
          /\ StoredBefore(worker[w].cp, worker[w].pos)
    /\ worker[w].stage = "store" => Current(w).kind \in AuctionKinds
    /\ worker[w].stage = "tally" => Stored(Current(w))
    /\ worker[w].stage = "end" => AllStored(worker[w].cp)

ReadingInv ==
    /\ WellFormedHistory(chain)
    /\ DbShape(db, Mentioned)
    /\ progress \in Nat \cup {NoFile}
    /\ next \in Nat
    /\ next > 0 => progress \in Nat
    /\ done \subseteq Checkpoints
    /\ \A c \in done : AllStored(c)
    /\ DOMAIN worker = Workers
    /\ \A w \in Workers : WorkerInv(w)

LEMMA ReadingInit == Init => ReadingInv
<1> SUFFICES ASSUME Init PROVE ReadingInv
  OBVIOUS
<1>1. WellFormedHistory(chain)
  BY IndexerAssumption DEF Init
<1>2. DbShape(db, Mentioned)
  BY DEF Init, DbShape, EmptyDb
<1>3. DOMAIN worker = Workers /\ \A w \in Workers : worker[w] = Idle
  BY DEF Init
<1>4. \A w \in Workers : WorkerInv(w)
  BY <1>3 DEF WorkerInv, Idle
<1> QED
  BY <1>1, <1>2, <1>3, <1>4 DEF Init, ReadingInv

\* With the same chain, and nothing taken from the database, what is stored
\* stays stored.
LEMMA StoredKept ==
    ASSUME Grows(db, db'), NEW e, Stored(e)
    PROVE  Stored(e)'
BY DEF Grows, Stored, HasRow

LEMMA StoredEventKept ==
    ASSUME UNCHANGED chain, Grows(db, db'), NEW c, NEW i, Stored(Events(c)[i])
    PROVE  Stored(Events(c)[i])'
BY DEF Grows, Stored, HasRow, Events

LEMMA OwnKept ==
    ASSUME UNCHANGED <<chain, workers>>
    PROVE  /\ Checkpoints' = Checkpoints /\ Mentioned' = Mentioned /\ Workers' = Workers
           /\ AtEvents' = AtEvents /\ WellFormedHistory(chain)' = WellFormedHistory(chain)
           /\ \A c : Own(c)' = Own(c) /\ Events(c)' = Events(c)
BY DEF Checkpoints, Mentioned, Workers, AtEvents, Own, Events, WellFormedHistory

\* The same of how far a worker is that takes no step.
LEMMA WorkerKept ==
    ASSUME UNCHANGED <<chain, workers>>, Grows(db, db'), NEW w, WorkerInv(w),
           worker'[w] = worker[w]
    PROVE  WorkerInv(w)'
<1>1. \A e : Stored(e) => Stored(e)'
  BY StoredKept
<1>2. /\ Checkpoints' = Checkpoints /\ AtEvents' = AtEvents
      /\ \A c : Own(c)' = Own(c) /\ Events(c)' = Events(c)
  BY OwnKept
<1> QED
  BY <1>1, <1>2 DEF WorkerInv, StoredBefore, AllStored, Current

\* What has to be shown of a step of one worker.
LEMMA OneWorker ==
    ASSUME ReadingInv, UNCHANGED <<chain, workers, progress>>, NEW w \in Workers, NEW turn,
           TurnTo(w, turn), WorkerInv(w)',
           next' \in Nat, next' > 0 => progress \in Nat,
           DbShape(db', Mentioned), Grows(db, db'),
           done' \subseteq Checkpoints, \A c \in done' : AllStored(c)'
    PROVE  ReadingInv'
<1>1. /\ Checkpoints' = Checkpoints /\ Mentioned' = Mentioned /\ Workers' = Workers
      /\ WellFormedHistory(chain)'
  BY OwnKept DEF ReadingInv
<1>2. DOMAIN worker' = Workers /\ \A v \in Workers : v # w => worker'[v] = worker[v]
  BY DEF TurnTo, ReadingInv
<1>3. \A v \in Workers : WorkerInv(v)'
  BY <1>2, WorkerKept DEF ReadingInv
<1> QED
  BY <1>1, <1>2, <1>3 DEF ReadingInv, DbShape

LEMMA NothingWritten ==
    ASSUME db' = db
    PROVE  Grows(db, db')
BY DEF Grows

LEMMA AllStoredKept ==
    ASSUME UNCHANGED <<chain, workers>>, Grows(db, db'), NEW c, AllStored(c)
    PROVE  AllStored(c)'
BY StoredKept, OwnKept DEF AllStored

\* A worker that has dealt with the events up to pos may turn to the next.
LEMMA TurnTaken ==
    ASSUME ReadingInv, UNCHANGED <<chain, workers>>, NEW w \in Workers,
           NEW c \in Checkpoints, NEW pos \in Nat,
           \A i \in Own(c) : i <= pos => Stored(Events(c)[i])',
           TurnTo(w, Turn(c, pos))
    PROVE  WorkerInv(w)'
<1> PICK t : t = Turn(c, pos)
  OBVIOUS
<1> DEFINE G == {i \in Own(c) : Stored(Events(c)[i])'}
<1>1. worker'[w] = t
  BY DEF TurnTo, ReadingInv
<1>2. \A i \in Own(c) : i <= pos => i \in G
  OBVIOUS
<1> HIDE DEF G
<1>3. /\ t \in AtEvents /\ t.cp = c
      /\ t.stage \in {"count", "store", "end"}
      /\ t.stage = "end" => Own(c) \subseteq G
      /\ t.stage # "end" => /\ t.pos \in Own(c)
                            /\ \A i \in Own(c) : i < t.pos => i \in G
      /\ t.stage = "store" => Events(c)[t.pos].kind \in AuctionKinds
  BY <1>2, TurnSound DEF ReadingInv
<1>4. /\ Checkpoints' = Checkpoints /\ AtEvents' = AtEvents
      /\ Own(c)' = Own(c) /\ Events(c)' = Events(c)
  BY OwnKept
<1>5. t.stage = "end" => AllStored(c)'
  BY <1>3, <1>4 DEF AllStored, G
<1>6. t.stage # "end" => StoredBefore(c, t.pos)'
  BY <1>1, <1>3, <1>4 DEF StoredBefore, G
<1>7. CASE t.stage = "end"
  BY <1>1, <1>3, <1>4, <1>5, <1>7 DEF WorkerInv
<1>8. CASE t.stage # "end"
  BY <1>1, <1>3, <1>4, <1>6, <1>8 DEF WorkerInv, AtEvents, Current
<1> QED
  BY <1>7, <1>8

-----------------------------------------------------------------------------
(* Every step keeps it.                                                    *)

LEMMA DonesKept ==
    ASSUME ReadingInv, UNCHANGED <<chain, workers, done>>, Grows(db, db')
    PROVE  done' \subseteq Checkpoints /\ \A c \in done' : AllStored(c)'
BY AllStoredKept DEF ReadingInv

\* Where no worker, nothing stored and no progress changes.
LEMMA OthersReadingInv ==
    ASSUME ReadingInv, UNCHANGED <<chain, workers, progress, db, next, worker, done>>
    PROVE  ReadingInv'
<1>1. Grows(db, db')
  BY NothingWritten
<1>2. /\ Checkpoints' = Checkpoints /\ Mentioned' = Mentioned /\ Workers' = Workers
      /\ WellFormedHistory(chain)'
  BY OwnKept DEF ReadingInv
<1>3. \A w \in Workers : WorkerInv(w)'
  BY <1>1, WorkerKept DEF ReadingInv
<1>4. done' \subseteq Checkpoints /\ \A c \in done' : AllStored(c)'
  BY <1>1, DonesKept
<1> QED
  BY <1>2, <1>3, <1>4 DEF ReadingInv

LEMMA DownReadingInv ==
    ASSUME ReadingInv, Down
    PROVE  ReadingInv'
<1>1. UNCHANGED <<chain, workers, progress, db>>
  BY DEF Down, persistent
<1>2. /\ Checkpoints' = Checkpoints /\ Mentioned' = Mentioned /\ Workers' = Workers
      /\ WellFormedHistory(chain)'
  BY <1>1, OwnKept DEF ReadingInv
<1>3. DOMAIN worker' = Workers /\ \A w \in Workers : worker'[w] = Idle
  BY DEF Down
<1>4. \A w \in Workers : WorkerInv(w)'
  BY <1>3 DEF WorkerInv, Idle
<1> QED
  BY <1>1, <1>2, <1>3, <1>4 DEF ReadingInv, Down

LEMMA OpenReadingInv ==
    ASSUME ReadingInv, OpenProgress
    PROVE  ReadingInv' /\ progress' = (IF progress = NoFile THEN 0 ELSE progress)
<1>1. UNCHANGED <<chain, workers, db, worker, done>>
  BY DEF OpenProgress
<1>2. Grows(db, db')
  BY <1>1, NothingWritten
<1>3. /\ Checkpoints' = Checkpoints /\ Mentioned' = Mentioned /\ Workers' = Workers
      /\ WellFormedHistory(chain)'
  BY <1>1, OwnKept DEF ReadingInv
<1>4. \A w \in Workers : WorkerInv(w)'
  BY <1>1, <1>2, WorkerKept DEF ReadingInv
<1>5. done' \subseteq Checkpoints /\ \A c \in done' : AllStored(c)'
  BY <1>1, <1>2, DonesKept
<1>6. progress' \in Nat /\ next' = progress' + 1
  BY DEF OpenProgress, ReadingInv
<1> QED
  BY <1>1, <1>3, <1>4, <1>5, <1>6 DEF ReadingInv, OpenProgress

LEMMA SaveReadingInv ==
    ASSUME ReadingInv, SaveProgress
    PROVE  /\ ReadingInv' /\ progress \in Nat /\ progress' = progress + 1
           /\ progress + 1 \in Checkpoints /\ AllStored(progress + 1)
<1>1. UNCHANGED <<chain, workers, db, worker, next>>
  BY DEF SaveProgress
<1>2. Grows(db, db')
  BY <1>1, NothingWritten
<1>3. /\ Checkpoints' = Checkpoints /\ Mentioned' = Mentioned /\ Workers' = Workers
      /\ WellFormedHistory(chain)'
  BY <1>1, OwnKept DEF ReadingInv
<1>4. \A w \in Workers : WorkerInv(w)'
  BY <1>1, <1>2, WorkerKept DEF ReadingInv
<1>5. progress \in Nat /\ progress' = progress + 1 /\ progress + 1 \in done
  BY DEF SaveProgress, ReadingInv
<1>6. \A c \in done : AllStored(c)'
  BY <1>1, <1>2, AllStoredKept DEF ReadingInv
<1>7. done' \subseteq Checkpoints /\ \A c \in done' : AllStored(c)'
  BY <1>6 DEF SaveProgress, ReadingInv
<1> QED
  BY <1>1, <1>3, <1>4, <1>5, <1>7 DEF ReadingInv

LEMMA AssignReadingInv ==
    ASSUME ReadingInv, NEW w \in Workers, Assign(w)
    PROVE  ReadingInv'
<1>1. UNCHANGED <<chain, workers, progress, db, done>> /\ next \in Checkpoints
  BY DEF Assign, persistent
<1>2. Grows(db, db')
  BY <1>1, NothingWritten
<1>3. PICK turn : TurnTo(w, turn) /\ turn = IF HasBalance(next)
                                      THEN [stage |-> "balances", cp |-> next, pos |-> 0]
                                      ELSE Turn(next, 0)
  BY DEF Assign
<1>4. PICK c \in Checkpoints : c = next
  BY <1>1
<1>5. ASSUME HasBalance(next) PROVE WorkerInv(w)'
  <2>1. worker'[w] = [stage |-> "balances", cp |-> c, pos |-> 0]
    BY <1>3, <1>4, <1>5 DEF TurnTo, ReadingInv
  <2>2. AtEvents' = AtEvents
    BY <1>1, OwnKept
  <2>3. worker'[w] \in AtEvents
    BY <2>1 DEF AtEvents
  <2> QED
    BY <2>1, <2>2, <2>3 DEF WorkerInv
<1>6. ASSUME ~HasBalance(next) PROVE WorkerInv(w)'
  <2>1. \A i \in Own(c) : i <= 0 => Stored(Events(c)[i])'
    BY DEF Own, ReadingInv, WellFormedHistory, Checkpoints, Events
  <2>2. TurnTo(w, Turn(c, 0))
    BY <1>3, <1>4, <1>6
  <2> QED
    BY <1>1, <2>1, <2>2, TurnTaken
<1>7. WorkerInv(w)'
  BY <1>5, <1>6
<1>8. next' \in Nat /\ (next' > 0 => progress \in Nat)
  BY <1>1 DEF Assign, ReadingInv, Checkpoints, WellFormedHistory
<1>9. DbShape(db', Mentioned)
  BY <1>1 DEF ReadingInv
<1>10. done' \subseteq Checkpoints /\ \A d \in done' : AllStored(d)'
  BY <1>1, <1>2, DonesKept
<1> QED
  BY <1>1, <1>2, <1>3, <1>7, <1>8, <1>9, <1>10, OneWorker

\* A step of a worker that leaves the database alone.
LEMMA QuietStep ==
    ASSUME ReadingInv, UNCHANGED <<chain, workers, progress, db, next>>,
           NEW w \in Workers, NEW turn, TurnTo(w, turn), WorkerInv(w)',
           done' \subseteq Checkpoints, \A c \in done' : AllStored(c)'
    PROVE  ReadingInv'
<1>1. Grows(db, db')
  BY NothingWritten
<1>2. /\ next' \in Nat
      /\ next' > 0 => progress \in Nat
      /\ DbShape(db', Mentioned)
  BY DEF ReadingInv
<1> QED
  BY <1>1, <1>2, OneWorker

LEMMA BalancesReadingInv ==
    ASSUME ReadingInv, NEW w \in Workers, SetBalances(w)
    PROVE  ReadingInv'
<1>1. UNCHANGED <<chain, workers, progress, db, next, done>> /\ At(w, "balances")
  BY DEF SetBalances, persistent
<1>2. worker[w] \in AtEvents
  BY <1>1 DEF ReadingInv, WorkerInv, At
<1>3. PICK c \in Checkpoints : c = worker[w].cp
  BY <1>2 DEF AtEvents
<1>4. TurnTo(w, Turn(c, 0))
  BY <1>3 DEF SetBalances
<1>5. \A i \in Own(c) : i <= 0 => Stored(Events(c)[i])'
  BY DEF Own, ReadingInv, WellFormedHistory, Checkpoints, Events
<1>6. WorkerInv(w)'
  BY <1>1, <1>4, <1>5, TurnTaken
<1>7. done' \subseteq Checkpoints /\ \A d \in done' : AllStored(d)'
  BY <1>1, NothingWritten, DonesKept
<1> QED
  BY <1>1, <1>4, <1>6, <1>7, QuietStep

LEMMA CountReadingInv ==
    ASSUME ReadingInv, NEW w \in Workers, CountEvent(w)
    PROVE  ReadingInv'
<1>1. UNCHANGED <<chain, workers, progress, db, next, done>> /\ At(w, "count")
  BY DEF CountEvent, persistent
<1>2. worker[w] \in AtEvents /\ worker[w].stage = "count"
  BY <1>1 DEF ReadingInv, WorkerInv, At
<1>3. PICK c \in Checkpoints, pos \in Nat : c = worker[w].cp /\ pos = worker[w].pos
  BY <1>2 DEF AtEvents
<1>4. pos \in Own(c) /\ \A i \in Own(c) : i < pos => Stored(Events(c)[i])
  BY <1>2, <1>3 DEF ReadingInv, WorkerInv, StoredBefore
<1>5. Grows(db, db')
  BY <1>1, NothingWritten
<1>6. \A i \in Own(c) : i < pos => Stored(Events(c)[i])'
  BY <1>1, <1>4, <1>5, StoredEventKept
<1>7. /\ Checkpoints' = Checkpoints /\ AtEvents' = AtEvents
      /\ Own(c)' = Own(c) /\ Events(c)' = Events(c)
  BY <1>1, OwnKept
<1>8. Current(w) = Events(c)[pos]
  BY <1>3 DEF Current
<1>9. PICK turn : TurnTo(w, turn) /\ turn = IF Current(w).kind \in AuctionKinds
                                      THEN [worker[w] EXCEPT !.stage = "store"]
                                      ELSE Turn(worker[w].cp, worker[w].pos)
  BY DEF CountEvent
<1>10. ASSUME Current(w).kind \in AuctionKinds PROVE WorkerInv(w)'
  <2>1. turn = [stage |-> "store", cp |-> c, pos |-> pos]
    BY <1>2, <1>3, <1>9, <1>10 DEF AtEvents
  <2>2. worker'[w] = [stage |-> "store", cp |-> c, pos |-> pos]
    BY <1>9, <2>1 DEF TurnTo, ReadingInv
  <2>3. worker'[w] \in AtEvents
    BY <2>2 DEF AtEvents
  <2>4. StoredBefore(c, pos)'
    BY <1>6, <1>7 DEF StoredBefore
  <2>5. Current(w)'.kind \in AuctionKinds
    BY <1>7, <1>8, <1>10, <2>2 DEF Current
  <2> QED
    BY <1>4, <1>7, <2>2, <2>3, <2>4, <2>5 DEF WorkerInv
<1>11. ASSUME Current(w).kind \notin AuctionKinds PROVE WorkerInv(w)'
  <2>1. Stored(Events(c)[pos])'
    BY <1>7, <1>8, <1>11 DEF Stored, AuctionKinds
  <2>2. pos \in Nat /\ \A i \in Own(c) : i \in Nat
    BY DEF Own, ReadingInv, WellFormedHistory, Checkpoints, Events
  <2>3. \A i \in Own(c) : i <= pos => Stored(Events(c)[i])'
    BY <1>6, <2>1, <2>2
  <2>4. TurnTo(w, Turn(c, pos))
    BY <1>3, <1>9, <1>11
  <2> QED
    BY <1>1, <2>3, <2>4, TurnTaken
<1>12. WorkerInv(w)'
  BY <1>10, <1>11
<1>13. done' \subseteq Checkpoints /\ \A d \in done' : AllStored(d)'
  BY <1>1, <1>5, DonesKept
<1> QED
  BY <1>1, <1>9, <1>12, <1>13, QuietStep

LEMMA StoreReadingInv ==
    ASSUME ReadingInv, NEW w \in Workers, StoreRows(w)
    PROVE  ReadingInv' /\ Grows(db, db')
<1>1. UNCHANGED <<chain, workers, progress, next, done>> /\ At(w, "store")
  BY DEF StoreRows
<1>2. worker[w] \in AtEvents /\ worker[w].stage = "store"
  BY <1>1 DEF ReadingInv, WorkerInv, At
<1>3. PICK c \in Checkpoints, pos \in Nat : c = worker[w].cp /\ pos = worker[w].pos
  BY <1>2 DEF AtEvents
<1>4. pos \in Own(c) /\ \A i \in Own(c) : i < pos => Stored(Events(c)[i])
  BY <1>2, <1>3 DEF ReadingInv, WorkerInv, StoredBefore
<1>5. PICK e : e = Events(c)[pos]
  OBVIOUS
<1>6. Current(w) = e /\ e.kind \in AuctionKinds
  BY <1>2, <1>3, <1>5 DEF Current, ReadingInv, WorkerInv
<1>7. e.name \in Mentioned
  BY <1>4, <1>5 DEF Mentioned, Own
<1>8. db' = StoreEvent(db, e)
  BY <1>6 DEF StoreRows
<1>9. DbShape(db', Mentioned) /\ Grows(db, db') /\ StoredIn(db', e)
  BY <1>6, <1>7, <1>8, StoreSound DEF ReadingInv
<1>10. Stored(e)'
  BY <1>9 DEF StoredIn, Stored
<1>11. \A i \in Own(c) : i < pos => Stored(Events(c)[i])'
  BY <1>1, <1>4, <1>9, StoredEventKept
<1>12. /\ Checkpoints' = Checkpoints
       /\ Own(c)' = Own(c) /\ Events(c)' = Events(c)
  BY <1>1, OwnKept
<1>13. PICK turn : TurnTo(w, turn) /\ turn = IF e.kind = "AuctionFinalized"
                        THEN [stage |-> "tally", cp |-> worker[w].cp, pos |-> worker[w].pos,
                              bids |-> BidCount(db', e.name)]
                        ELSE Turn(worker[w].cp, worker[w].pos)
  BY <1>6 DEF StoreRows
<1>14. ASSUME e.kind = "AuctionFinalized" PROVE WorkerInv(w)'
  <2>1. /\ worker'[w].stage = "tally" /\ worker'[w].cp = c /\ worker'[w].pos = pos
    BY <1>3, <1>13, <1>14 DEF TurnTo, ReadingInv
  <2>2. StoredBefore(c, pos)'
    BY <1>11, <1>12 DEF StoredBefore
  <2>3. Current(w)' = e
    BY <1>5, <1>12, <2>1 DEF Current
  <2> QED
    BY <1>4, <1>10, <1>12, <2>1, <2>2, <2>3 DEF WorkerInv
<1>15. ASSUME e.kind # "AuctionFinalized" PROVE WorkerInv(w)'
  <2>1. \A i \in Own(c) : i \in Nat
    BY DEF Own, ReadingInv, WellFormedHistory, Checkpoints, Events
  <2>2. \A i \in Own(c) : i <= pos => Stored(Events(c)[i])'
    BY <1>5, <1>10, <1>11, <1>12, <2>1
  <2>3. TurnTo(w, Turn(c, pos))
    BY <1>3, <1>13, <1>15
  <2> QED
    BY <1>1, <2>2, <2>3, TurnTaken
<1>16. WorkerInv(w)'
  BY <1>14, <1>15
<1>17. done' \subseteq Checkpoints /\ \A d \in done' : AllStored(d)'
  BY <1>1, <1>9, DonesKept
<1>18. /\ next' \in Nat
       /\ next' > 0 => progress \in Nat
  BY <1>1 DEF ReadingInv
<1> QED
  BY <1>1, <1>9, <1>13, <1>16, <1>17, <1>18, OneWorker

LEMMA TallyReadingInv ==
    ASSUME ReadingInv, NEW w \in Workers, TallyBids(w)
    PROVE  ReadingInv'
<1>1. UNCHANGED <<chain, workers, progress, db, next, done>> /\ At(w, "tally")
  BY DEF TallyBids, persistent
<1>2. /\ worker[w].cp \in Checkpoints /\ worker[w].pos \in Own(worker[w].cp)
      /\ StoredBefore(worker[w].cp, worker[w].pos)
      /\ Stored(Current(w))
  BY <1>1 DEF ReadingInv, WorkerInv, At
<1> PICK c \in Checkpoints : c = worker[w].cp
  BY <1>2
<1>3. PICK pos \in Own(c) : c = worker[w].cp /\ pos = worker[w].pos
  BY <1>2
<1>4. \A i \in Own(c) : i \in Nat
  BY DEF Own, ReadingInv, WellFormedHistory, Checkpoints, Events
<1>5. \A i \in Own(c) : i <= pos => Stored(Events(c)[i])
  BY <1>2, <1>3, <1>4 DEF StoredBefore, Current
<1>6. Grows(db, db')
  BY <1>1, NothingWritten
<1>7. \A i \in Own(c) : i <= pos => Stored(Events(c)[i])'
  BY <1>1, <1>5, <1>6, StoredEventKept
<1>8. TurnTo(w, Turn(c, pos))
  BY <1>3 DEF TallyBids
<1>9. WorkerInv(w)'
  BY <1>1, <1>4, <1>7, <1>8, TurnTaken
<1>10. done' \subseteq Checkpoints /\ \A d \in done' : AllStored(d)'
  BY <1>1, <1>6, DonesKept
<1> QED
  BY <1>1, <1>8, <1>9, <1>10, QuietStep

LEMMA FinishReadingInv ==
    ASSUME ReadingInv, NEW w \in Workers, Finish(w)
    PROVE  ReadingInv'
<1>1. UNCHANGED <<chain, workers, progress, db, next>> /\ At(w, "end")
  BY DEF Finish, persistent
<1>2. PICK c \in Checkpoints : c = worker[w].cp /\ AllStored(c)
  BY <1>1 DEF ReadingInv, WorkerInv, At, AtEvents
<1>3. TurnTo(w, Idle) /\ done' = done \cup {c}
  BY <1>2 DEF Finish
<1>4. worker'[w] = Idle
  BY <1>3 DEF TurnTo, ReadingInv
<1>5. WorkerInv(w)'
  BY <1>4 DEF WorkerInv, Idle
<1>6. Grows(db, db')
  BY <1>1, NothingWritten
<1>7. \A d \in done \cup {c} : AllStored(d)'
  BY <1>1, <1>2, <1>6, AllStoredKept DEF ReadingInv
<1>8. done' \subseteq Checkpoints /\ \A d \in done' : AllStored(d)'
  BY <1>3, <1>7 DEF ReadingInv
<1> QED
  BY <1>1, <1>3, <1>5, <1>8, QuietStep

LEMMA FailReadingInv ==
    ASSUME ReadingInv, NEW w \in Workers, Fail(w)
    PROVE  ReadingInv'
<1>1. UNCHANGED <<chain, workers, progress, db, next, done>> /\ TurnTo(w, Failed)
  BY DEF Fail, persistent
<1>2. worker'[w] = Failed
  BY <1>1 DEF TurnTo, ReadingInv
<1>3. WorkerInv(w)'
  BY <1>2 DEF WorkerInv, Failed
<1>4. done' \subseteq Checkpoints /\ \A d \in done' : AllStored(d)'
  BY <1>1, NothingWritten, DonesKept
<1> QED
  BY <1>1, <1>3, <1>4, QuietStep

-----------------------------------------------------------------------------
(* Every step is one of Ingestion.                                         *)

SavedProgress == IF progress = NoFile THEN 0 ELSE progress

Ingests == (Ingest!Store \/ Ingest!Advance) \/ UNCHANGED <<StoredCheckpoints, SavedProgress>>

LEMMA StoredCheckpointsAll == \A c \in Checkpoints : c \in StoredCheckpoints <=> AllStored(c)
BY DEF StoredCheckpoints, AllStored, Own

LEMMA NothingStored ==
    ASSUME UNCHANGED <<chain, workers, progress, db>>
    PROVE  Ingests
BY DEF Ingests, StoredCheckpoints, SavedProgress, Checkpoints, Events, Stored, HasRow

LEMMA NextIngests ==
    ASSUME ReadingInv, [Next]_vars
    PROVE  ReadingInv' /\ Ingests
<1> USE DEF persistent, process, reading
<1>1. ASSUME UNCHANGED <<chain, workers, progress, db, next, worker, done>>
      PROVE  ReadingInv' /\ Ingests
  BY <1>1, OthersReadingInv, NothingStored
<1>2. ASSUME Down PROVE ReadingInv' /\ Ingests
  BY <1>2, DownReadingInv, NothingStored DEF Down
<1>3. CASE Lifecycle
  <2>1. CASE \E n \in 0..Queries : Start(n)
    BY <1>1, <2>1 DEF Start
  <2>2. CASE StartFails
    BY <1>1, <2>2 DEF StartFails
  <2>3. CASE \E t \in Tasks : TaskEnds(t) \/ TaskFails(t)
    BY <1>1, <2>3 DEF TaskEnds, TaskFails, EndTask
  <2>4. CASE Join \/ Interrupt \/ SecondInterrupt
    BY <1>1, <2>4 DEF Join, Interrupt, SecondInterrupt
  <2>5. CASE Exit \/ Kill
    BY <1>2, <2>5 DEF Exit, Kill
  <2> QED
    BY <1>3, <2>1, <2>2, <2>3, <2>4, <2>5 DEF Lifecycle
<1>4. CASE Scrape \/ Stale
  BY <1>1, <1>4 DEF Scrape, Stale
<1>5. CASE OpenProgress
  <2>1. ReadingInv' /\ progress' = SavedProgress
    BY <1>5, OpenReadingInv DEF SavedProgress
  <2>2. SavedProgress' = SavedProgress
    BY <2>1, IndexerAssumption DEF SavedProgress, ReadingInv
  <2>3. UNCHANGED StoredCheckpoints
    BY <1>5 DEF OpenProgress, StoredCheckpoints, Checkpoints, Events, Stored, HasRow
  <2> QED
    BY <2>1, <2>2, <2>3 DEF Ingests
<1>6. CASE SaveProgress
  <2>1. /\ ReadingInv' /\ progress \in Nat /\ progress' = progress + 1
        /\ progress + 1 \in StoredCheckpoints
    BY <1>6, SaveReadingInv, StoredCheckpointsAll
  <2>2. SavedProgress = progress /\ SavedProgress' = progress + 1
    BY <2>1, IndexerAssumption DEF SavedProgress
  <2>3. UNCHANGED StoredCheckpoints
    BY <1>6 DEF SaveProgress, StoredCheckpoints, Checkpoints, Events, Stored, HasRow
  <2>4. Ingest!Advance
    BY <2>1, <2>2, <2>3 DEF Ingest!Advance, SavedProgress
  <2> QED
    BY <2>1, <2>4 DEF Ingests
<1>7. ASSUME NEW w \in Workers, StoreRows(w) PROVE ReadingInv' /\ Ingests
  <2>1. ReadingInv' /\ Grows(db, db') /\ UNCHANGED <<chain, workers, progress>>
    BY <1>7, StoreReadingInv DEF StoreRows
  <2>2. UNCHANGED SavedProgress
    BY <2>1 DEF SavedProgress
  <2>3. \A c \in Checkpoints : AllStored(c) => AllStored(c)'
    BY <2>1, AllStoredKept
  <2>4. StoredCheckpoints \subseteq StoredCheckpoints'
    BY <2>1, <2>3, OwnKept DEF StoredCheckpoints, AllStored, Own
  <2>5. StoredCheckpoints' \subseteq Nat
    BY <2>1 DEF StoredCheckpoints, ReadingInv, WellFormedHistory, Checkpoints
  <2>6. Ingest!Store
    BY <2>2, <2>4, <2>5 DEF Ingest!Store, SavedProgress
  <2> QED
    BY <2>1, <2>6 DEF Ingests
<1>8. ASSUME NEW w \in Workers,
             Assign(w) \/ SetBalances(w) \/ CountEvent(w) \/ TallyBids(w) \/ Finish(w) \/ Fail(w)
      PROVE  ReadingInv' /\ Ingests
  <2>1. ReadingInv'
    BY <1>8, AssignReadingInv, BalancesReadingInv, CountReadingInv, TallyReadingInv,
       FinishReadingInv, FailReadingInv
  <2>2. UNCHANGED <<chain, workers, progress, db>>
    BY <1>8 DEF Assign, SetBalances, CountEvent, TallyBids, Finish, Fail
  <2> QED
    BY <2>1, <2>2, NothingStored
<1>9. CASE Answer
  BY <1>1, <1>9 DEF Answer, CountAuctions, ListAuctions
<1>10. CASE UNCHANGED vars
  BY <1>1, <1>10 DEF vars
<1> QED
  BY <1>3, <1>4, <1>5, <1>6, <1>7, <1>8, <1>9, <1>10 DEF Next, Read, Process

LEMMA InitIngests == Init => Ingest!Init
BY IndexerAssumption DEF Init, Ingest!Init, StoredCheckpoints, Checkpoints, WellFormedHistory

\* For every chain, number of workers and connections, order of finishing and
\* number of crashes, Indexer implements Ingestion: the saved progress never
\* passes a checkpoint that is not stored, and what is stored stays.
THEOREM IngestionImplemented == Spec => ImplementsIngestion
<1>1. [Ingests]_<<StoredCheckpoints, SavedProgress>>
         <=> [Ingest!Store \/ Ingest!Advance]_<<StoredCheckpoints, SavedProgress>>
  BY DEF Ingests
<1> QED
  BY <1>1, ReadingInit, NextIngests, InitIngests, PTL
  DEF Spec, ImplementsIngestion, Ingest!Spec, SavedProgress, Ingests

\* So a crash at any step, and a restart from the progress that was saved,
\* loses no checkpoint.
THEOREM NoCheckpointLost == Spec => []Ingest!NothingLost
BY IngestionImplemented, IngestionLosesNothing, PTL DEF ImplementsIngestion

-----------------------------------------------------------------------------
(* Types.                                                                  *)

\* What an event moves a metric by is a number.
LEMMA CountsTyped ==
    ASSUME NEW e, WellFormedEvent(e), e.kind \in DOMAIN EventFields
    PROVE  \A m \in DOMAIN Counts(e) : Counts(e)[m] \in Int
<1>1. ASSUME NEW a, NEW l, NEW n \in Int, NEW m \in DOMAIN AddAt(a, l, n)
      PROVE  AddAt(a, l, n)[m] \in Int
  BY <1>1 DEF AddAt
<1>2. \A a, l : \A n \in Int : \A m \in DOMAIN AddAt(a, l, n) : AddAt(a, l, n)[m] \in Int
  BY <1>1
<1>3. \A a : \A n \in Int : \A m \in DOMAIN Add(a, n) : Add(a, n)[m] \in Int
  BY <1>2 DEF Add
<1>4. \A m \in DOMAIN NoChange : NoChange[m] \in Int
  BY DEF NoChange
<1>5. \A c : \A n \in Int : \A m \in DOMAIN RecordCounts(e, c, n) : RecordCounts(e, c, n)[m] \in Int
  BY DEF RecordCounts
<1>6. CASE e.kind = "AuctionFinalized"
  <2>1. e.bid \in Int /\ e.end - e.start \in Int
    <3>1. {"bid", "end", "start"} \subseteq DOMAIN e
      BY <1>6 DEF WellFormedEvent, EventFields
    <3>2. e.bid \in Nat /\ e.end \in Nat /\ e.start \in Nat
      BY <3>1 DEF WellFormedEvent
    <3> QED
      BY <3>2
  <2> DEFINE ns == [auctions_finalized |-> 1, auction_final_prices |-> e.bid,
                    auction_durations |-> e.end - e.start]
  <2>2. Counts(e) = AddEach(ns)
    BY <1>6 DEF Counts
  <2>3. \A metric \in DOMAIN ns : ns[metric] \in Int
    BY <2>1
  <2> HIDE DEF ns
  <2> QED
    BY <2>2, <2>3 DEF AddEach
<1>7. CASE e.kind = "CouponApplied"
  <2>1. e.discount \in Int
    <3>1. "discount" \in DOMAIN e
      BY <1>7 DEF WellFormedEvent, EventFields
    <3> QED
      BY <3>1 DEF WellFormedEvent
  <2> QED
    BY <1>3, <1>7, <2>1 DEF Counts
<1>8. CASE e.kind \notin {"AuctionFinalized", "CouponApplied"}
  <2>1. CASE e.kind = "NameRecordAdded"
    BY <1>5, <2>1 DEF Counts
  <2>2. CASE e.kind = "NameRecordRemoved"
    BY <1>5, <2>2 DEF Counts
  <2>3. CASE e.kind \in {"AuctionStarted", "TargetAddressSet", "ReverseLookupSet", "ReverseLookupUnset"}
    BY <1>3, <2>3 DEF Counts
  <2>4. CASE e.kind \in {"UserDataSet", "UserDataUnset"}
    BY <1>2, <1>4, <2>4 DEF Counts
  <2>5. CASE e.kind = "Transaction"
    BY <1>2, <1>3, <2>5 DEF Counts
  <2>6. CASE e.kind \in {"NodeSubnameCreated", "NodeSubnameBurned", "LeafSubnameCreated",
                         "LeafSubnameRemoved"}
    BY <1>3, <2>6 DEF Counts
  <2>7. CASE e.kind \in {"AuctionBid", "AuctionExtended"}
    BY <1>4, <2>7 DEF Counts
  <2> QED
    BY <1>8, <2>1, <2>2, <2>3, <2>4, <2>5, <2>6, <2>7 DEF EventFields
<1> QED
  BY <1>6, <1>7, <1>8

TypeInv == ReadingInv /\ TypeOK /\ IsFiniteSet(db.bids)

LEMMA ChainFixed == [Next]_vars => UNCHANGED <<chain, workers>>
BY DEF Next, Lifecycle, Read, Answer, Process, Start, StartFails, TaskEnds, TaskFails, EndTask,
       Join, Interrupt, SecondInterrupt, Exit, Kill, Down, Scrape, Stale, OpenProgress,
       SaveProgress, Assign, SetBalances, CountEvent, StoreRows, TallyBids, Finish, Fail,
       CountAuctions, ListAuctions, vars

LEMMA AppliedTyped ==
    ASSUME metrics \in [Metrics -> Int], NEW change, \A m \in DOMAIN change : change[m] \in Int
    PROVE  Apply(metrics, change) \in [Metrics -> Int]
BY DEF Apply

LEMMA GaugeTyped ==
    ASSUME NEW ms \in [Metrics -> Int], NEW metric, NEW value \in Int
    PROVE  SetGauge(ms, metric, value) \in [Metrics -> Int]
BY DEF SetGauge

\* The event a worker is at is one of the chain's.
LEMMA CurrentIs ==
    ASSUME ReadingInv, NEW w \in Workers, worker[w].stage \in {"count", "store", "tally"}
    PROVE  /\ worker[w].cp \in Checkpoints /\ worker[w].pos \in Own(worker[w].cp)
           /\ worker[w].pos \in Nat \ {0}
           /\ WellFormedEvent(Current(w)) /\ Parses(Current(w), Packages)
BY DEF ReadingInv, WorkerInv, Own, WellFormedHistory, Checkpoints, Events, Current

\* Where TurnSound applies, the worker's new state has its type.
LEMMA TurnTyped ==
    ASSUME ReadingInv, NEW c \in Checkpoints, NEW pos \in Nat
    PROVE  Turn(c, pos) \in Turns
<1>1. Turn(c, pos) \in AtEvents
  <2>1. \A i \in Own(c) : i <= pos => i \in Own(c)
    OBVIOUS
  <2> QED
    BY <2>1, TurnSound DEF ReadingInv
<1> QED
  BY <1>1 DEF AtEvents, Turns

LEMMA WorkerTyped ==
    ASSUME TypeInv, NEW w \in Workers, NEW turn \in Turns, TurnTo(w, turn),
           UNCHANGED <<chain, workers>>
    PROVE  worker' \in [Workers' -> Turns']
<1>1. Workers' = Workers /\ Turns' = Turns
  BY DEF Workers, Turns, Checkpoints
<1> QED
  BY <1>1 DEF TypeInv, TypeOK, TurnTo

\* Some of what TypeOK asks follows from ReadingInv.
LEMMA TypeRest ==
    ASSUME ReadingInv',
           progress' \in {NoFile} \cup {0} \cup Checkpoints',
           scraped' \in [Metrics -> Int], metrics' \in [Metrics -> Int],
           phase' \in {"down", "running", "draining"}, code' \in {"none", "ok", "err"},
           token' \in BOOLEAN, live' \subseteq Tasks, next' \in 0..(Len(chain') + 1),
           worker' \in [Workers' -> Turns'], lives' \in 0..MaxLives, clean' \in BOOLEAN
    PROVE  TypeOK'
<1>1. ASSUME NEW w \in Workers', worker'[w].stage \in {"count", "store", "tally"}
      PROVE  worker'[w].pos \in DOMAIN Events(worker[w].cp)'
  BY <1>1 DEF ReadingInv, WorkerInv, Own
<1>2. done' \subseteq Checkpoints'
  BY DEF ReadingInv
<1> QED
  BY <1>1, <1>2 DEF TypeOK

LEMMA InitTyped == Init => TypeInv
<1> SUFFICES ASSUME Init PROVE TypeInv
  OBVIOUS
<1>1. ReadingInv
  BY ReadingInit
<1>2. NoCounts \in [Metrics -> Int]
  BY DEF NoCounts
<1>3. worker \in [Workers -> Turns]
  BY DEF Init, Idle, Turns
<1>4. Len(chain) \in Nat
  BY <1>1 DEF ReadingInv, WellFormedHistory
<1>5. TypeOK
  <2>1. \A w \in Workers : worker[w].stage \notin {"count", "store", "tally"}
    BY DEF Init, Idle
  <2>2. /\ scraped \in [Metrics -> Int] /\ metrics \in [Metrics -> Int]
        /\ progress = NoFile /\ phase = "down" /\ code = "none" /\ token = FALSE
        /\ live = {} /\ next = 0 /\ done = {} /\ lives = 0 /\ clean = TRUE
    BY <1>2 DEF Init
  <2>3. 0 \in 0..(Len(chain) + 1) /\ 0 \in 0..MaxLives
    BY <1>4, IndexerAssumption
  <2> QED
    BY <1>3, <2>1, <2>2, <2>3 DEF TypeOK
<1>6. IsFiniteSet(db.bids)
  BY FS_EmptySet DEF Init, EmptyDb
<1> QED
  BY <1>1, <1>5, <1>6 DEF TypeInv

\* What the transaction of an event does to the tables of bids and auctions.
BidsWritten(d, e, d2) ==
    d2.bids = d.bids \cup
        (IF e.kind \in {"AuctionStarted", "AuctionBid"}
         THEN {[bidder |-> e.bidder, name |-> e.name, bid |-> e.bid]} ELSE {})

AuctionsWritten(d, e, d2) ==
    /\ e.kind \in {"AuctionStarted", "AuctionExtended"} =>
           d2.auctions = AuctionsEntry(d, e.name, e.end,
                             HasRow(d, e.name) /\ d.auctions[e.name].claimed)
    /\ e.kind = "AuctionBid" => d2.auctions = d.auctions
    /\ e.kind = "AuctionFinalized" =>
           d2.auctions = IF HasRow(d, e.name)
                         THEN [d.auctions EXCEPT ![e.name].claimed = TRUE]
                         ELSE d.auctions

LEMMA EventRows ==
    ASSUME NEW N, NEW d, DbShape(d, N), NEW e, e.kind \in AuctionKinds, e.name \in N,
           NEW d2, d2 = StoreEvent(d, e)
    PROVE  BidsWritten(d, e, d2) /\ AuctionsWritten(d, e, d2)
<1>1. ASSUME NEW a, DbShape(a, N), NEW b
      PROVE  /\ GetOrCreateBidder(a, b).bids = a.bids
             /\ GetOrCreateBidder(a, b).auctions = a.auctions
             /\ DbShape(GetOrCreateBidder(a, b), N)
  BY <1>1 DEF DbShape, GetOrCreateBidder
<1>2. ASSUME NEW a, DbShape(a, N)
      PROVE  /\ GetOrCreateName(a, e.name).bids = a.bids
             /\ GetOrCreateName(a, e.name).auctions = a.auctions
             /\ DbShape(GetOrCreateName(a, e.name), N)
  <2>1. DbShape(GetOrCreateName(a, e.name), N)
    BY <1>2, NameCreated
  <2> QED
    BY <1>2, <2>1 DEF DbShape, GetOrCreateName
<1>3. ASSUME NEW a, DbShape(a, N), a.auctions = d.auctions
      PROVE  /\ UpsertAuctionsEntry(a, e.name, e.end).bids = a.bids
             /\ UpsertAuctionsEntry(a, e.name, e.end).auctions
                  = AuctionsEntry(d, e.name, e.end,
                        HasRow(d, e.name) /\ d.auctions[e.name].claimed)
             /\ DbShape(UpsertAuctionsEntry(a, e.name, e.end), N)
  BY <1>3 DEF DbShape, UpsertAuctionsEntry, AuctionsEntry, HasRow
<1>4. ASSUME NEW a, DbShape(a, N)
      PROVE  /\ AddBidsEntry(a, e.bidder, e.name, e.bid).auctions = a.auctions
             /\ AddBidsEntry(a, e.bidder, e.name, e.bid).bids
                  = a.bids \cup {[bidder |-> e.bidder, name |-> e.name, bid |-> e.bid]}
  BY <1>4 DEF DbShape, AddBidsEntry
<1>5. ASSUME NEW a, DbShape(a, N), a.auctions = d.auctions
      PROVE  /\ ClaimAuctionsEntry(a, e.name).bids = a.bids
             /\ ClaimAuctionsEntry(a, e.name).auctions
                  = IF HasRow(d, e.name) THEN [d.auctions EXCEPT ![e.name].claimed = TRUE]
                    ELSE d.auctions
  BY <1>5 DEF DbShape, ClaimAuctionsEntry, HasRow
<1>6. CASE e.kind = "AuctionStarted"
  <2> DEFINE a == GetOrCreateBidder(d, e.bidder)
             b == GetOrCreateName(a, e.name)
             c == UpsertAuctionsEntry(b, e.name, e.end)
  <2>1. d2 = AddBidsEntry(c, e.bidder, e.name, e.bid)
    BY <1>6 DEF StoreEvent
  <2>2. DbShape(a, N) /\ a.bids = d.bids /\ a.auctions = d.auctions
    BY <1>1
  <2> HIDE DEF a
  <2>3. DbShape(b, N) /\ b.bids = d.bids /\ b.auctions = d.auctions
    BY <1>2, <2>2
  <2> HIDE DEF b
  <2>4. /\ DbShape(c, N) /\ c.bids = d.bids
        /\ c.auctions = AuctionsEntry(d, e.name, e.end,
                            HasRow(d, e.name) /\ d.auctions[e.name].claimed)
    BY <1>3, <2>3
  <2> HIDE DEF c
  <2> QED
    BY <1>4, <1>6, <2>1, <2>4 DEF BidsWritten, AuctionsWritten
<1>7. CASE e.kind = "AuctionBid"
  <2> DEFINE a == GetOrCreateBidder(d, e.bidder)
             b == GetOrCreateName(a, e.name)
  <2>1. d2 = AddBidsEntry(b, e.bidder, e.name, e.bid)
    BY <1>7 DEF StoreEvent
  <2>2. DbShape(a, N) /\ a.bids = d.bids /\ a.auctions = d.auctions
    BY <1>1
  <2> HIDE DEF a
  <2>3. DbShape(b, N) /\ b.bids = d.bids /\ b.auctions = d.auctions
    BY <1>2, <2>2
  <2> HIDE DEF b
  <2> QED
    BY <1>4, <1>7, <2>1, <2>3 DEF BidsWritten, AuctionsWritten
<1>8. CASE e.kind \in {"AuctionExtended", "AuctionFinalized"}
  <2> DEFINE b == GetOrCreateName(d, e.name)
  <2>1. DbShape(b, N) /\ b.bids = d.bids /\ b.auctions = d.auctions
    BY <1>2
  <2>2. /\ e.kind = "AuctionExtended" => d2 = UpsertAuctionsEntry(b, e.name, e.end)
        /\ e.kind = "AuctionFinalized" => d2 = ClaimAuctionsEntry(b, e.name)
    BY DEF StoreEvent
  <2> HIDE DEF b
  <2>3. CASE e.kind = "AuctionExtended"
    BY <1>3, <2>1, <2>2, <2>3 DEF BidsWritten, AuctionsWritten
  <2>4. CASE e.kind = "AuctionFinalized"
    BY <1>5, <2>1, <2>2, <2>4 DEF BidsWritten, AuctionsWritten
  <2> QED
    BY <1>8, <2>3, <2>4
<1> QED
  BY <1>6, <1>7, <1>8 DEF AuctionKinds

-----------------------------------------------------------------------------
(* Every step keeps the types.                                             *)

\* A worker's step that writes no rows, restores nothing and saves nothing.
LEMMA WorkersTypes ==
    ASSUME TypeInv, ReadingInv', NEW w \in Workers, NEW turn \in Turns, TurnTo(w, turn),
           UNCHANGED <<chain, workers, progress, scraped, phase, code, live, lives, clean>>,
           token' \in BOOLEAN, next' \in 0..(Len(chain) + 1), metrics' \in [Metrics -> Int],
           IsFiniteSet(db'.bids)
    PROVE  TypeInv'
<1>1. worker' \in [Workers' -> Turns']
  BY WorkerTyped
<1>2. Checkpoints' = Checkpoints
  BY DEF Checkpoints
<1>3. /\ progress' \in {NoFile} \cup {0} \cup Checkpoints'
      /\ scraped' \in [Metrics -> Int]
      /\ phase' \in {"down", "running", "draining"}
      /\ code' \in {"none", "ok", "err"}
      /\ live' \subseteq Tasks
      /\ next' \in 0..(Len(chain') + 1)
      /\ lives' \in 0..MaxLives
      /\ clean' \in BOOLEAN
  BY <1>2 DEF TypeInv, TypeOK
<1>4. TypeOK'
  BY <1>1, <1>3, TypeRest
<1> QED
  BY <1>4 DEF TypeInv

LEMMA AssignTypes ==
    ASSUME TypeInv, ReadingInv', NEW w \in Workers, Assign(w)
    PROVE  TypeInv'
<1>1. next \in Checkpoints /\ ReadingInv
  BY DEF Assign, TypeInv
<1>2. PICK c \in Checkpoints : c = next
  BY <1>1
<1>3. PICK turn : TurnTo(w, turn) /\ turn = IF HasBalance(c)
                                      THEN [stage |-> "balances", cp |-> c, pos |-> 0]
                                      ELSE Turn(c, 0)
  BY <1>2 DEF Assign
<1>4. turn \in Turns
  <2>1. [stage |-> "balances", cp |-> c, pos |-> 0] \in Turns
    BY DEF Turns
  <2>2. Turn(c, 0) \in Turns
    BY <1>1, TurnTyped
  <2> QED
    BY <1>3, <2>1, <2>2
<1>5. next' \in 0..(Len(chain) + 1)
  <2>1. Len(chain) \in Nat /\ next \in 1..Len(chain)
    BY <1>1 DEF ReadingInv, WellFormedHistory, Checkpoints
  <2>2. next' = next + 1
    BY DEF Assign
  <2> QED
    BY <2>1, <2>2
<1>6. /\ UNCHANGED <<chain, workers, progress, scraped, phase, code, token, live, lives, clean>>
      /\ UNCHANGED <<db, metrics>>
  BY DEF Assign, persistent, process
<1>7. token' \in BOOLEAN /\ metrics' \in [Metrics -> Int] /\ IsFiniteSet(db'.bids)
  BY <1>6 DEF TypeInv, TypeOK
<1> QED
  BY <1>3, <1>4, <1>5, <1>6, <1>7, WorkersTypes

LEMMA BalancesTypes ==
    ASSUME TypeInv, ReadingInv', NEW w \in Workers, SetBalances(w)
    PROVE  TypeInv'
<1>1. worker[w] \in AtEvents /\ ReadingInv /\ metrics \in [Metrics -> Int]
  BY DEF SetBalances, TypeInv, TypeOK, ReadingInv, WorkerInv, At
<1>2. PICK c \in Checkpoints : c = worker[w].cp
  BY <1>1 DEF AtEvents
<1>3. /\ chain[c].balance # NoBalance => chain[c].balance \in Int
      /\ chain[c].house # NoBalance => chain[c].house \in Int
  BY <1>1 DEF ReadingInv, WellFormedHistory, Checkpoints
<1>4. metrics' \in [Metrics -> Int]
  <2> DEFINE named == IF chain[c].balance = NoBalance THEN metrics
                      ELSE SetGauge(metrics, "balance", chain[c].balance)
  <2>1. named \in [Metrics -> Int]
    BY <1>1, <1>3, GaugeTyped
  <2>2. metrics' = IF chain[c].house = NoBalance THEN named
                   ELSE SetGauge(named, "auction_house_balance", chain[c].house)
    BY <1>2 DEF SetBalances
  <2> HIDE DEF named
  <2> QED
    BY <1>3, <2>1, <2>2, GaugeTyped
<1>5. TurnTo(w, Turn(c, 0)) /\ Turn(c, 0) \in Turns
  BY <1>1, <1>2, TurnTyped DEF SetBalances
<1>6. /\ UNCHANGED <<chain, workers, progress, scraped, phase, code, token, live, lives, clean>>
      /\ UNCHANGED <<db, next>>
  BY DEF SetBalances, persistent, process
<1>7. token' \in BOOLEAN /\ next' \in 0..(Len(chain) + 1) /\ IsFiniteSet(db'.bids)
  BY <1>6 DEF TypeInv, TypeOK
<1> QED
  BY <1>4, <1>5, <1>6, <1>7, WorkersTypes

LEMMA CountTypes ==
    ASSUME TypeInv, ReadingInv', NEW w \in Workers, CountEvent(w)
    PROVE  TypeInv'
<1>1. worker[w].stage = "count" /\ ReadingInv /\ metrics \in [Metrics -> Int]
  BY DEF CountEvent, TypeInv, TypeOK, At
<1>2. PICK c \in Checkpoints, pos \in Nat :
          /\ worker[w] = [stage |-> "count", cp |-> c, pos |-> pos]
          /\ WellFormedEvent(Current(w)) /\ Parses(Current(w), Packages)
  BY <1>1, CurrentIs DEF ReadingInv, WorkerInv, AtEvents
<1>3. metrics' \in [Metrics -> Int]
  BY <1>1, <1>2, CountsTyped, AppliedTyped DEF CountEvent, Parses
<1>4. PICK turn : TurnTo(w, turn) /\ turn = IF Current(w).kind \in AuctionKinds
                                      THEN [worker[w] EXCEPT !.stage = "store"]
                                      ELSE Turn(c, pos)
  BY <1>2 DEF CountEvent
<1>5. turn \in Turns
  <2>1. [worker[w] EXCEPT !.stage = "store"] = [stage |-> "store", cp |-> c, pos |-> pos]
    BY <1>2
  <2>2. [stage |-> "store", cp |-> c, pos |-> pos] \in Turns
    BY DEF Turns
  <2>3. Turn(c, pos) \in Turns
    BY <1>1, TurnTyped
  <2> QED
    BY <1>4, <2>1, <2>2, <2>3
<1>6. /\ UNCHANGED <<chain, workers, progress, scraped, phase, code, token, live, lives, clean>>
      /\ UNCHANGED <<db, next>>
  BY DEF CountEvent, persistent, process
<1>7. token' \in BOOLEAN /\ next' \in 0..(Len(chain) + 1) /\ IsFiniteSet(db'.bids)
  BY <1>6 DEF TypeInv, TypeOK
<1> QED
  BY <1>3, <1>4, <1>5, <1>6, <1>7, WorkersTypes

LEMMA StoreTypes ==
    ASSUME TypeInv, ReadingInv', NEW w \in Workers, StoreRows(w)
    PROVE  TypeInv'
<1>1. worker[w].stage = "store" /\ ReadingInv
  BY DEF StoreRows, TypeInv, At
<1>2. PICK c \in Checkpoints, pos \in Nat :
          /\ worker[w] = [stage |-> "store", cp |-> c, pos |-> pos]
          /\ pos \in Own(c) /\ Current(w) = Events(c)[pos]
  BY <1>1, CurrentIs DEF ReadingInv, WorkerInv, AtEvents, Current
<1>3. PICK e : e = Current(w)
  OBVIOUS
<1>4. e.kind \in AuctionKinds /\ e.name \in Mentioned
  BY <1>1, <1>2, <1>3 DEF ReadingInv, WorkerInv, Mentioned, Own
<1>5. db' = StoreEvent(db, e)
  BY <1>3 DEF StoreRows
<1>6. IsFiniteSet(db'.bids)
  <2> DEFINE new == IF e.kind \in {"AuctionStarted", "AuctionBid"}
                    THEN {[bidder |-> e.bidder, name |-> e.name, bid |-> e.bid]} ELSE {}
  <2>1. db'.bids = db.bids \cup new
    <3>1. DbShape(db, Mentioned)
      BY <1>1 DEF ReadingInv
    <3> QED
      BY <1>4, <1>5, <3>1, EventRows DEF BidsWritten
  <2>2. IsFiniteSet(new)
    BY FS_EmptySet, FS_Singleton
  <2> HIDE DEF new
  <2> QED
    BY <2>1, <2>2, FS_Union DEF TypeInv
<1>7. BidCount(db', e.name) \in Nat
  <2>1. IsFiniteSet({b \in db'.bids : b.name = e.name})
    BY <1>6, FS_Subset
  <2> QED
    BY <2>1, FS_CardinalityType DEF BidCount
<1>8. PICK turn : TurnTo(w, turn) /\ turn = IF e.kind = "AuctionFinalized"
                        THEN [stage |-> "tally", cp |-> c, pos |-> pos,
                              bids |-> BidCount(db', e.name)]
                        ELSE Turn(c, pos)
  BY <1>2, <1>3 DEF StoreRows
<1>9. turn \in Turns
  <2>1. [stage |-> "tally", cp |-> c, pos |-> pos, bids |-> BidCount(db', e.name)] \in Turns
    BY <1>7 DEF Turns
  <2>2. Turn(c, pos) \in Turns
    BY <1>1, TurnTyped
  <2> QED
    BY <1>8, <2>1, <2>2
<1>10. /\ UNCHANGED <<chain, workers, progress, scraped, phase, code, token, live, lives, clean>>
       /\ UNCHANGED <<metrics, next>>
  BY DEF StoreRows, process
<1>11. token' \in BOOLEAN /\ next' \in 0..(Len(chain) + 1) /\ metrics' \in [Metrics -> Int]
  BY <1>10 DEF TypeInv, TypeOK
<1> QED
  BY <1>6, <1>8, <1>9, <1>10, <1>11, WorkersTypes

LEMMA TallyTypes ==
    ASSUME TypeInv, ReadingInv', NEW w \in Workers, TallyBids(w)
    PROVE  TypeInv'
<1>1. worker[w].stage = "tally" /\ ReadingInv /\ metrics \in [Metrics -> Int]
  BY DEF TallyBids, TypeInv, TypeOK, At
<1>2. worker[w].cp \in Checkpoints /\ worker[w].pos \in Nat
  BY <1>1, CurrentIs
<1>3. metrics' \in [Metrics -> Int]
  <2>1. PICK t : t = TallyOf(worker[w].bids)
    OBVIOUS
  <2>2. \A m \in DOMAIN t : t[m] \in Int
    BY <2>1 DEF TallyOf, AddAt
  <2> QED
    BY <1>1, <2>1, <2>2, AppliedTyped DEF TallyBids
<1>4. TurnTo(w, Turn(worker[w].cp, worker[w].pos)) /\ Turn(worker[w].cp, worker[w].pos) \in Turns
  BY <1>1, <1>2, TurnTyped DEF TallyBids
<1>5. /\ UNCHANGED <<chain, workers, progress, scraped, phase, code, token, live, lives, clean>>
      /\ UNCHANGED <<db, next>>
  BY DEF TallyBids, persistent, process
<1>6. token' \in BOOLEAN /\ next' \in 0..(Len(chain) + 1) /\ IsFiniteSet(db'.bids)
  BY <1>5 DEF TypeInv, TypeOK
<1> QED
  BY <1>3, <1>4, <1>5, <1>6, WorkersTypes

LEMMA FinishFailTypes ==
    ASSUME TypeInv, ReadingInv', NEW w \in Workers, Finish(w) \/ Fail(w)
    PROVE  TypeInv'
<1>1. PICK turn \in {Idle, Failed} : TurnTo(w, turn)
  BY DEF Finish, Fail
<1>2. turn \in Turns
  BY DEF Turns, Idle, Failed
<1>3. /\ UNCHANGED <<chain, workers, progress, scraped, phase, code, live, lives, clean>>
      /\ UNCHANGED <<db, next, metrics>>
  BY DEF Finish, Fail, persistent, process
<1>4. /\ next' \in 0..(Len(chain) + 1) /\ metrics' \in [Metrics -> Int]
      /\ IsFiniteSet(db'.bids) /\ token' \in BOOLEAN
  BY <1>3 DEF TypeInv, TypeOK, Finish, Fail, process
<1> QED
  BY <1>1, <1>2, <1>3, <1>4, WorkersTypes

\* Steps of the process around the workers.
LEMMA OthersTypes ==
    ASSUME TypeInv, ReadingInv', UNCHANGED <<chain, workers, db>>,
           worker' = worker \/ worker' = [w \in Workers |-> Idle],
           progress' \in {NoFile} \cup {0} \cup Checkpoints,
           scraped' \in [Metrics -> Int], metrics' \in [Metrics -> Int],
           phase' \in {"down", "running", "draining"}, code' \in {"none", "ok", "err"},
           token' \in BOOLEAN, live' \subseteq Tasks, next' \in 0..(Len(chain) + 1),
           lives' \in 0..MaxLives, clean' \in BOOLEAN
    PROVE  TypeInv'
<1>1. Workers' = Workers /\ Turns' = Turns /\ Checkpoints' = Checkpoints
  BY DEF Workers, Turns, Checkpoints
<1>2. [w \in Workers |-> Idle] \in [Workers -> Turns]
  BY DEF Idle, Turns
<1>3. worker' \in [Workers' -> Turns']
  BY <1>1, <1>2 DEF TypeInv, TypeOK
<1>4. next' \in 0..(Len(chain') + 1) /\ progress' \in {NoFile} \cup {0} \cup Checkpoints'
  BY <1>1
<1>5. TypeOK'
  BY <1>3, <1>4, TypeRest
<1> QED
  BY <1>5 DEF TypeInv

LEMMA LifecycleTypes ==
    ASSUME TypeInv, ReadingInv', Lifecycle
    PROVE  TypeInv'
<1> USE DEF persistent, process, reading
<1>1. /\ progress \in {NoFile} \cup {0} \cup Checkpoints
      /\ scraped \in [Metrics -> Int] /\ metrics \in [Metrics -> Int]
      /\ phase \in {"down", "running", "draining"} /\ code \in {"none", "ok", "err"}
      /\ token \in BOOLEAN /\ live \subseteq Tasks /\ next \in 0..(Len(chain) + 1)
      /\ lives \in 0..MaxLives /\ clean \in BOOLEAN
  BY DEF TypeInv, TypeOK
<1>2. 0 \in 0..(Len(chain) + 1) /\ (lives < MaxLives => lives + 1 \in 0..MaxLives)
  BY <1>1, IndexerAssumption DEF TypeInv, ReadingInv, WellFormedHistory
<1>3. NoCounts \in [Metrics -> Int]
  BY DEF NoCounts
<1>4. ASSUME Down, code' \in {"none", "ok", "err"} PROVE TypeInv'
  <2>1. /\ UNCHANGED <<chain, workers, progress, db, scraped, lives>>
        /\ phase' = "down" /\ token' = FALSE /\ live' = {} /\ next' = 0
        /\ worker' = [w \in Workers |-> Idle] /\ metrics' = NoCounts
        /\ clean' \in BOOLEAN
    BY <1>1, <1>4 DEF Down
  <2> QED
    BY <1>1, <1>2, <1>3, <1>4, <2>1, OthersTypes
<1>5. CASE \E n \in 0..Queries : Start(n)
  <2>1. PICK n \in 0..Queries : Start(n)
    BY <1>5
  <2>2. Restored(scraped, n) \in [Metrics -> Int]
    BY <1>1 DEF Restored
  <2>3. /\ UNCHANGED <<chain, workers, progress, db, scraped, token, next, worker>>
        /\ phase' = "running" /\ code' = "none" /\ live' = Tasks
        /\ metrics' \in [Metrics -> Int] /\ lives' \in 0..MaxLives /\ clean' \in BOOLEAN
    BY <1>1, <1>2, <2>1, <2>2 DEF Start
  <2> QED
    BY <1>1, <2>3, OthersTypes
<1>6. CASE StartFails
  <2>1. /\ UNCHANGED <<chain, workers, progress, db, scraped, phase, token, live, clean,
                       next, worker, metrics>>
        /\ code' = "err" /\ lives' \in 0..MaxLives
    BY <1>2, <1>6 DEF StartFails
  <2> QED
    BY <1>1, <2>1, OthersTypes
<1>7. CASE \E t \in Tasks : TaskEnds(t) \/ TaskFails(t)
  <2>1. /\ UNCHANGED <<chain, workers, progress, db, scraped, phase, token, lives, clean,
                       next, worker, metrics>>
        /\ code' \in {"none", "ok", "err"} /\ live' \subseteq Tasks
    BY <1>1, <1>7 DEF TaskEnds, TaskFails, EndTask
  <2> QED
    BY <1>1, <2>1, OthersTypes
<1>8. CASE Join \/ Interrupt \/ SecondInterrupt
  <2>1. /\ UNCHANGED <<chain, workers, progress, db, scraped, lives, clean,
                       next, worker, metrics>>
        /\ phase' \in {"down", "running", "draining"} /\ token' \in BOOLEAN
        /\ code' \in {"none", "ok", "err"} /\ live' \subseteq Tasks
    BY <1>1, <1>8 DEF Join, Interrupt, SecondInterrupt
  <2> QED
    BY <1>1, <2>1, OthersTypes
<1>9. CASE Exit \/ Kill
  BY <1>1, <1>4, <1>9 DEF Exit, Kill
<1> QED
  BY <1>5, <1>6, <1>7, <1>8, <1>9 DEF Lifecycle

LEMMA RestTypes ==
    ASSUME TypeInv, ReadingInv',
           Scrape \/ Stale \/ OpenProgress \/ SaveProgress \/ Answer \/ UNCHANGED vars
    PROVE  TypeInv'
<1> USE DEF persistent, process, reading
<1>1. /\ progress \in {NoFile} \cup {0} \cup Checkpoints
      /\ scraped \in [Metrics -> Int] /\ metrics \in [Metrics -> Int]
      /\ phase \in {"down", "running", "draining"} /\ code \in {"none", "ok", "err"}
      /\ token \in BOOLEAN /\ live \subseteq Tasks /\ next \in 0..(Len(chain) + 1)
      /\ lives \in 0..MaxLives /\ clean \in BOOLEAN
  BY DEF TypeInv, TypeOK
<1>2. CASE Scrape \/ Stale
  <2>1. NoCounts \in [Metrics -> Int]
    BY DEF NoCounts
  <2>2. /\ UNCHANGED <<chain, workers, progress, db, phase, code, token, live, lives,
                       next, worker, metrics>>
        /\ scraped' \in [Metrics -> Int] /\ clean' \in BOOLEAN
    BY <1>1, <1>2, <2>1 DEF Scrape, Stale
  <2> QED
    BY <1>1, <2>2, OthersTypes
<1>3. CASE OpenProgress
  <2>1. /\ UNCHANGED <<chain, workers, db, scraped, phase, code, token, live, lives, clean,
                       worker, metrics>>
        /\ progress' = IF progress = NoFile THEN 0 ELSE progress
        /\ next' = progress' + 1
    BY <1>3 DEF OpenProgress
  <2>2. Len(chain) \in Nat /\ Checkpoints = 1..Len(chain)
    BY DEF TypeInv, ReadingInv, WellFormedHistory, Checkpoints
  <2>3. progress' \in {0} \cup Checkpoints
    BY <1>1, <2>1
  <2>4. next' \in 0..(Len(chain) + 1)
    BY <2>1, <2>2, <2>3
  <2> QED
    BY <1>1, <2>1, <2>3, <2>4, OthersTypes
<1>4. CASE SaveProgress
  <2>1. /\ UNCHANGED <<chain, workers, db, scraped, phase, code, token, live, lives, clean,
                       next, worker, metrics>>
        /\ progress' \in Checkpoints
    BY <1>4 DEF SaveProgress, TypeInv, ReadingInv
  <2> QED
    BY <1>1, <2>1, OthersTypes
<1>5. CASE Answer \/ UNCHANGED vars
  <2>1. UNCHANGED <<chain, workers, progress, db, scraped, phase, code, token, live, lives, clean,
                    next, worker, metrics>>
    BY <1>5 DEF Answer, CountAuctions, ListAuctions, vars
  <2> QED
    BY <1>1, <2>1, OthersTypes
<1> QED
  BY <1>2, <1>3, <1>4, <1>5

LEMMA NextTypes ==
    ASSUME TypeInv, [Next]_vars
    PROVE  TypeInv'
<1>1. ReadingInv'
  BY NextIngests DEF TypeInv
<1> QED
  BY <1>1, LifecycleTypes, RestTypes, AssignTypes, BalancesTypes, CountTypes, StoreTypes,
     TallyTypes, FinishFailTypes DEF Next, Read, Process

LEMMA TypeInvKept == Spec => []TypeInv
<1>1. TypeInv /\ [Next]_vars => TypeInv'
  BY NextTypes
<1> QED
  BY <1>1, InitTyped, PTL DEF Spec

\* Whatever the chain, the number of workers and the crashes, every variable
\* keeps its type, and a worker is at an event its checkpoint has.
THEOREM IndexerTypeCorrect == Spec => []TypeOK
<1>1. TypeInv => TypeOK
  BY DEF TypeInv
<1> QED
  BY <1>1, TypeInvKept, PTL

-----------------------------------------------------------------------------
(* The bids of the database are bids of the chain, and what a request has   *)
(* counted is there when its page is read.                                  *)

ChainEvents == EventsTo(Len(chain))

\* The event a worker is at is one of those the chain has for the indexer.
LEMMA CurrentEvent ==
    ASSUME ReadingInv, NEW w \in Workers, worker[w].stage \in {"count", "store", "tally"},
           NEW p, p = <<worker[w].cp, worker[w].pos>>
    PROVE  p \in ChainEvents /\ EventAt(p) = Current(w)
<1>1. /\ worker[w].cp \in 1..Len(chain)
      /\ worker[w].pos \in DOMAIN Events(worker[w].cp)
      /\ Parses(Current(w), Packages)
  BY CurrentIs DEF Own, ReadingInv, WellFormedHistory, Checkpoints
<1>2. EventAt(p) = Current(w)
  BY DEF EventAt, Current
<1> QED
  BY <1>1, <1>2 DEF ChainEvents, EventsTo

BidsInv == db.bids \subseteq BidsAt(ChainEvents)

ChainBids == BidsAt(ChainEvents)

LEMMA ChainBidsFixed ==
    ASSUME UNCHANGED chain
    PROVE  UNCHANGED ChainBids
BY DEF ChainBids, BidsAt, OfKind, ChainEvents, EventsTo, EventAt, Events

\* Only the transaction of an event writes to the database.
LEMMA DbSteps ==
    ASSUME [Next]_vars
    PROVE  UNCHANGED db \/ \E w \in Workers : StoreRows(w)
BY DEF Next, Lifecycle, Read, Answer, Process, Start, StartFails, TaskEnds, TaskFails, EndTask,
       Join, Interrupt, SecondInterrupt, Exit, Kill, Down, Scrape, Stale, OpenProgress,
       SaveProgress, Assign, SetBalances, CountEvent, TallyBids, Finish, Fail,
       CountAuctions, ListAuctions, vars, persistent

\* The event that a worker stores, and the rows of it.
LEMMA StoreIs ==
    ASSUME ReadingInv, NEW w \in Workers, StoreRows(w)
    PROVE  \E p \in ChainEvents :
              /\ p = <<worker[w].cp, worker[w].pos>>
              /\ EventAt(p).kind \in AuctionKinds
              /\ db' = StoreEvent(db, EventAt(p))
              /\ BidsWritten(db, EventAt(p), db')
              /\ AuctionsWritten(db, EventAt(p), db')
<1>1. worker[w].stage = "store"
  BY DEF StoreRows, At
<1>2. PICK p \in ChainEvents : p = <<worker[w].cp, worker[w].pos>> /\ EventAt(p) = Current(w)
  BY <1>1, CurrentEvent
<1>3. /\ Current(w).kind \in AuctionKinds /\ Current(w).name \in Mentioned
      /\ DbShape(db, Mentioned)
  BY <1>1, CurrentIs DEF ReadingInv, WorkerInv, Mentioned, Own, Current
<1>4. db' = StoreEvent(db, Current(w))
  BY DEF StoreRows
<1>5. BidsWritten(db, Current(w), db') /\ AuctionsWritten(db, Current(w), db')
  BY <1>3, <1>4, EventRows
<1> QED
  BY <1>2, <1>3, <1>4, <1>5

LEMMA NextBids ==
    ASSUME ReadingInv, BidsInv, [Next]_vars
    PROVE  BidsInv'
<1>1. UNCHANGED ChainBids
  BY ChainFixed, ChainBidsFixed
<1>2. CASE UNCHANGED db
  BY <1>1, <1>2 DEF BidsInv, ChainBids
<1>3. ASSUME NEW w \in Workers, StoreRows(w) PROVE BidsInv'
  <2>1. PICK p \in ChainEvents : BidsWritten(db, EventAt(p), db')
    BY <1>3, StoreIs
  <2>2. EventAt(p).kind \in {"AuctionStarted", "AuctionBid"} =>
          [bidder |-> EventAt(p).bidder, name |-> EventAt(p).name, bid |-> EventAt(p).bid]
              \in ChainBids
    BY DEF ChainBids, BidsAt, OfKind
  <2>3. db'.bids \subseteq ChainBids
    BY <2>1, <2>2 DEF BidsWritten, BidsInv, ChainBids
  <2> QED
    BY <1>1, <2>3 DEF BidsInv, ChainBids
<1> QED
  BY <1>2, <1>3, DbSteps

\* The rows of the table of auctions.
TableTyped(d) == \A n \in DOMAIN d.auctions : d.auctions[n] \in [end : Nat, claimed : BOOLEAN]

\* What becomes of the rows where the end of n's is set, and its claim is left.
EndSet(d, n, end, d2) ==
    /\ DOMAIN d2.auctions = DOMAIN d.auctions \cup {n}
    /\ \A m \in DOMAIN d.auctions : m # n => d2.auctions[m] = d.auctions[m]
    /\ d2.auctions[n].end = end
    /\ d2.auctions[n].claimed \in BOOLEAN
    /\ d2.auctions[n].claimed <=> n \in DOMAIN d.auctions /\ d.auctions[n].claimed

\* And where n's, if there is one, is claimed.
ClaimSet(d, n, d2) ==
    /\ DOMAIN d2.auctions = DOMAIN d.auctions
    /\ \A m \in DOMAIN d.auctions :
          /\ m # n => d2.auctions[m] = d.auctions[m]
          /\ d2.auctions[m].end = d.auctions[m].end
    /\ n \in DOMAIN d.auctions => d2.auctions[n].claimed

LEMMA RowUpserted ==
    ASSUME NEW d, TableTyped(d), NEW d2, NEW e,
           e.kind \in {"AuctionStarted", "AuctionExtended"}, AuctionsWritten(d, e, d2)
    PROVE  EndSet(d, e.name, e.end, d2) /\ (e.end \in Nat => TableTyped(d2))
<1> PICK claimed \in BOOLEAN :
        claimed <=> e.name \in DOMAIN d.auctions /\ d.auctions[e.name].claimed
  OBVIOUS
<1>1. (HasRow(d, e.name) /\ d.auctions[e.name].claimed) = claimed
  BY Zenon DEF HasRow, TableTyped
<1>2. d2.auctions = AuctionsEntry(d, e.name, e.end, claimed)
  BY <1>1 DEF AuctionsWritten
<1>3. /\ DOMAIN d2.auctions = DOMAIN d.auctions \cup {e.name}
      /\ \A n \in DOMAIN d.auctions : n # e.name => d2.auctions[n] = d.auctions[n]
      /\ d2.auctions[e.name] = [end |-> e.end, claimed |-> claimed]
  BY <1>2 DEF AuctionsEntry
<1>4. ASSUME e.end \in Nat PROVE TableTyped(d2)
  BY <1>3, <1>4 DEF TableTyped
<1> QED
  BY <1>3, <1>4 DEF EndSet

LEMMA RowClaimed ==
    ASSUME NEW d, TableTyped(d), NEW d2, NEW e, e.kind = "AuctionFinalized",
           AuctionsWritten(d, e, d2)
    PROVE  ClaimSet(d, e.name, d2) /\ TableTyped(d2)
<1>1. CASE HasRow(d, e.name)
  <2>1. d2.auctions = [d.auctions EXCEPT ![e.name].claimed = TRUE]
    BY <1>1 DEF AuctionsWritten
  <2>2. d.auctions[e.name] \in [end : Nat, claimed : BOOLEAN]
    BY <1>1 DEF HasRow, TableTyped
  <2>3. /\ DOMAIN d2.auctions = DOMAIN d.auctions
        /\ \A n \in DOMAIN d.auctions : n # e.name => d2.auctions[n] = d.auctions[n]
        /\ d2.auctions[e.name] = [d.auctions[e.name] EXCEPT !.claimed = TRUE]
    BY <1>1, <2>1 DEF HasRow
  <2>4. /\ d2.auctions[e.name].end = d.auctions[e.name].end
        /\ d2.auctions[e.name].claimed = TRUE
        /\ d2.auctions[e.name] \in [end : Nat, claimed : BOOLEAN]
    BY <2>2, <2>3
  <2>5. TableTyped(d2)
    BY <2>3, <2>4 DEF TableTyped
  <2> QED
    BY <2>3, <2>4, <2>5 DEF ClaimSet
<1>2. CASE ~HasRow(d, e.name)
  <2>1. d2.auctions = d.auctions
    BY <1>2 DEF AuctionsWritten
  <2> QED
    BY <1>2, <2>1 DEF HasRow, TableTyped, ClaimSet
<1> QED
  BY <1>1, <1>2

LEMMA NextTable ==
    ASSUME ReadingInv, TableTyped(db), [Next]_vars
    PROVE  TableTyped(db')
<1>1. CASE UNCHANGED db
  BY <1>1
<1>2. ASSUME NEW w \in Workers, StoreRows(w) PROVE TableTyped(db')
  <2>1. PICK p \in ChainEvents :
            /\ EventAt(p).kind \in AuctionKinds /\ AuctionsWritten(db, EventAt(p), db')
    BY <1>2, StoreIs
  <2>2. PICK e : e = EventAt(p)
    OBVIOUS
  <2>3. WellFormedEvent(e)
    BY <2>2 DEF ChainEvents, EventsTo, EventAt, Events, ReadingInv, WellFormedHistory
  <2>4. e.kind \in {"AuctionStarted", "AuctionExtended"} => e.end \in Nat
    <3>1. e.kind \in {"AuctionStarted", "AuctionExtended"} => "end" \in DOMAIN e
      BY <2>3 DEF WellFormedEvent, EventFields
    <3> QED
      BY <2>3, <3>1 DEF WellFormedEvent
  <2>5. e.kind = "AuctionBid" => db'.auctions = db.auctions
    BY <2>1, <2>2 DEF AuctionsWritten
  <2>6. CASE e.kind \in {"AuctionStarted", "AuctionExtended"}
    BY <2>1, <2>2, <2>4, <2>6, RowUpserted
  <2>7. CASE e.kind = "AuctionBid"
    BY <2>5, <2>7 DEF TableTyped
  <2>8. CASE e.kind = "AuctionFinalized"
    BY <2>1, <2>2, <2>8, RowClaimed
  <2> QED
    BY <2>1, <2>2, <2>6, <2>7, <2>8 DEF AuctionKinds
<1> QED
  BY <1>1, <1>2, DbSteps

\* A request that lists auctions whose rows can only be added.
OnlyAdds(q) == q.status \in {AnyStatus, "claimed"}

RequestInv ==
    request # NoRequest =>
        \E q \in Requests, total \in Nat :
            /\ request = [query |-> q, total |-> total]
            /\ OnlyAdds(q) => total <= Total(db, q)

\* A row that is claimed stays claimed.
KeepsClaims(d, d2) ==
    \A n : HasRow(d, n) => HasRow(d2, n) /\ (d.auctions[n].claimed => d2.auctions[n].claimed)

LEMMA ClaimsKept ==
    ASSUME NEW d, TableTyped(d), NEW d2, NEW e, e.kind \in AuctionKinds,
           AuctionsWritten(d, e, d2)
    PROVE  KeepsClaims(d, d2)
<1>1. CASE e.kind \in {"AuctionStarted", "AuctionExtended"}
  BY <1>1, RowUpserted DEF EndSet, KeepsClaims, HasRow
<1>2. CASE e.kind = "AuctionBid"
  BY <1>2 DEF AuctionsWritten, KeepsClaims, HasRow
<1>3. CASE e.kind = "AuctionFinalized"
  <2>1. ClaimSet(d, e.name, d2)
    BY <1>3, RowClaimed
  <2>2. ASSUME NEW n \in DOMAIN d.auctions, d.auctions[n].claimed PROVE d2.auctions[n].claimed
    BY <2>1, <2>2 DEF ClaimSet
  <2>3. DOMAIN d2.auctions = DOMAIN d.auctions
    BY <2>1 DEF ClaimSet
  <2> QED
    BY <2>2, <2>3 DEF KeepsClaims, HasRow
<1> QED
  BY <1>1, <1>2, <1>3 DEF AuctionKinds

LEMMA ListedKept ==
    ASSUME NEW d, NEW d2, d.bids \subseteq d2.bids, KeepsClaims(d, d2),
           NEW q, OnlyAdds(q)
    PROVE  Listed(d, q) \subseteq Listed(d2, q)
<1>1. ASSUME NEW b \in Joined(d, q) PROVE b \in Joined(d2, q)
  <2>1. /\ b \in d2.bids /\ HasRow(d, b.name) /\ HasRow(d2, b.name)
        /\ q.bidder \in {AnyBidder, b.bidder} /\ b.name \in q.search
        /\ HasStatus(d.auctions[b.name], q.status, q.now)
    BY <1>1 DEF Joined, KeepsClaims
  <2>2. HasStatus(d2.auctions[b.name], q.status, q.now)
    BY <2>1, IndexerAssumption DEF HasStatus, OnlyAdds, KeepsClaims
  <2> QED
    BY <2>1, <2>2 DEF Joined
<1> QED
  BY <1>1 DEF Listed

LEMMA ListedFinite ==
    ASSUME NEW d, IsFiniteSet(d.bids), NEW q
    PROVE  IsFiniteSet(Listed(d, q)) /\ Total(d, q) \in Nat
<1> DEFINE J == Joined(d, q)
<1>1. IsFiniteSet(J)
  BY FS_Subset DEF Joined
<1> DEFINE name == [b \in J |-> b.name]
<1>2. Listed(d, q) = {name[b] : b \in J}
  BY DEF Listed
<1>3. name \in Surjection(J, {name[b] : b \in J})
  BY DEF Surjection
<1> HIDE DEF J, name
<1>4. IsFiniteSet({name[b] : b \in J})
  BY <1>1, <1>3, FS_Surjection
<1> QED
  BY <1>2, <1>4, FS_CardinalityType DEF Total

LEMMA NextRequest ==
    ASSUME TypeInv, TableTyped(db), RequestInv, [Next]_vars
    PROVE  RequestInv'
<1>1. CASE UNCHANGED <<db, request>>
  BY <1>1 DEF RequestInv
<1>2. CASE request' = NoRequest
  BY <1>2 DEF RequestInv
<1>3. ASSUME NEW w \in Workers, StoreRows(w) PROVE RequestInv'
  <2>1. PICK p \in ChainEvents :
            /\ EventAt(p).kind \in AuctionKinds
            /\ BidsWritten(db, EventAt(p), db') /\ AuctionsWritten(db, EventAt(p), db')
    BY <1>3, StoreIs DEF TypeInv
  <2>2. db.bids \subseteq db'.bids /\ KeepsClaims(db, db')
    BY <2>1, ClaimsKept DEF BidsWritten
  <2>3. IsFiniteSet(db'.bids)
    BY NextTypes DEF TypeInv
  <2>4. ASSUME NEW q, OnlyAdds(q) PROVE Total(db, q) <= Total(db', q)
    <3>1. Listed(db, q) \subseteq Listed(db', q)
      BY <2>2, <2>4, ListedKept
    <3>2. IsFiniteSet(Listed(db', q))
      BY <2>3, ListedFinite
    <3> QED
      BY <3>1, <3>2, FS_Subset DEF Total
  <2>5. request' = request
    BY <1>3 DEF StoreRows
  <2>6. \A q : Total(db, q) \in Nat /\ Total(db', q) \in Nat
    BY <2>3, ListedFinite DEF TypeInv
  <2>7. ASSUME request # NoRequest
        PROVE  \E q \in Requests, total \in Nat :
                  /\ request = [query |-> q, total |-> total]
                  /\ OnlyAdds(q) => total <= Total(db', q)
    <3>1. PICK q \in Requests, total \in Nat :
              /\ request = [query |-> q, total |-> total]
              /\ OnlyAdds(q) => total <= Total(db, q)
      BY <2>7 DEF RequestInv
    <3>2. OnlyAdds(q) => total <= Total(db', q)
      BY <2>4, <2>6, <3>1
    <3> QED
      BY <3>1, <3>2
  <2> QED
    BY <2>5, <2>7 DEF RequestInv
<1>4. ASSUME NEW q \in Requests, CountAuctions(q) PROVE RequestInv'
  <2>1. request' = [query |-> q, total |-> Total(db, q)] /\ db' = db
    BY <1>4 DEF CountAuctions, persistent
  <2>2. Total(db, q) \in Nat
    BY ListedFinite DEF TypeInv
  <2> QED
    BY <2>1, <2>2 DEF RequestInv
<1> QED
  BY <1>1, <1>2, <1>3, <1>4
  DEF Next, Lifecycle, Read, Answer, Process, Start, StartFails, TaskEnds, TaskFails, EndTask,
      Join, Interrupt, SecondInterrupt, Exit, Kill, Down, Scrape, Stale, OpenProgress,
      SaveProgress, Assign, SetBalances, CountEvent, TallyBids, Finish, Fail,
      ListAuctions, vars, persistent

-----------------------------------------------------------------------------
(* What a page holds.                                                      *)

\* The part of a listing a query asks for.
LEMMA PageIs ==
    ASSUME NEW S, IsFiniteSet(S), NEW listing \in SetToSeqs(S), NEW q \in Requests,
           NEW page, page = PageOf(listing, q)
    PROVE  /\ PageSize(q) \in Nat /\ q.page * PageSize(q) \in Nat
           /\ Len(page) \in Nat /\ Len(page) <= PageSize(q)
           /\ IsInjective(page)
           /\ \A i \in DOMAIN page : page[i] \in S
           /\ Len(page) = PageSize(q) \/ Len(page) >= Cardinality(S) - q.page * PageSize(q)
<1>1. PICK n \in Nat : n = Cardinality(S)
  BY FS_CardinalityType
<1>2. listing \in [1..n -> S] /\ \A i, j \in 1..n : i # j => listing[i] # listing[j]
  BY <1>1 DEF SetToSeqs
<1>3. PICK size \in Nat : size = PageSize(q)
  BY IndexerAssumption DEF PageSize, WellFormedRequest
<1>4. q.page \in Nat
  BY IndexerAssumption DEF WellFormedRequest
<1>5. PICK a \in Nat : a = q.page * size
  BY <1>4
<1>6. (q.page + 1) * size = a + size
  BY <1>4, <1>5
<1>7. PICK b \in Nat : b = (IF a + size < n THEN a + size ELSE n)
  OBVIOUS
<1>8. page = SubSeq(listing, a + 1, b)
  <2>1. Len(listing) = n
    BY <1>2
  <2> QED
    BY <1>3, <1>5, <1>6, <1>7, <2>1 DEF PageOf
<1>9. /\ b <= n /\ b <= a + size /\ (b = a + size \/ b = n)
  BY <1>7
<1>10. PICK len \in Nat : len = (IF a < b THEN b - a ELSE 0)
  <2>1. (IF a < b THEN b - a ELSE 0) \in Nat
    OBVIOUS
  <2> QED
    BY <2>1
<1>11. /\ Len(page) = len /\ DOMAIN page = 1..len
       /\ \A i \in 1..len : page[i] = listing[a + i]
  BY <1>2, <1>8, <1>9, <1>10
<1>12. \A i \in 1..len : a + i \in 1..n
  BY <1>9, <1>10
<1>13. IsInjective(page)
  <2> SUFFICES ASSUME NEW i \in 1..len, NEW j \in 1..len, page[i] = page[j] PROVE i = j
    BY <1>11 DEF IsInjective
  <2>1. a + i = a + j
    BY <1>2, <1>11, <1>12
  <2> QED
    BY <2>1
<1>14. \A i \in DOMAIN page : page[i] \in S
  BY <1>2, <1>11, <1>12
<1>15. len <= size /\ (len = size \/ len >= n - a)
  BY <1>9, <1>10
<1> QED
  BY <1>1, <1>3, <1>5, <1>11, <1>13, <1>14, <1>15

LEMMA PageInvImplies ==
    ASSUME TypeInv, BidsInv, RequestInv
    PROVE  PageAnswers
<1> SUFFICES ASSUME request # NoRequest, NEW page \in Pages(request.query)
             PROVE  LET q == request.query
                        rest == request.total - q.page * PageSize(q)
                    IN  /\ Len(page) <= PageSize(q)
                        /\ IsInjective(page)
                        /\ \A i \in DOMAIN page :
                              \E b \in BidsAt(EventsTo(Len(chain))) :
                                  b.name = page[i] /\ q.bidder \in {AnyBidder, b.bidder}
                        /\ q.status \in {AnyStatus, "claimed"} =>
                              Len(page) = PageSize(q) \/ Len(page) >= rest
  BY DEF PageAnswers
<1>1. PICK q \in Requests, total \in Nat :
          /\ request = [query |-> q, total |-> total]
          /\ OnlyAdds(q) => total <= Total(db, q)
  BY DEF RequestInv
<1>2. request.query = q /\ request.total = total
  BY <1>1
<1>3. PICK listing \in Orders(db, q) : page = PageOf(listing, q)
  BY <1>2 DEF Pages
<1>4. IsFiniteSet(Listed(db, q)) /\ Total(db, q) \in Nat
  BY ListedFinite DEF TypeInv
<1>5. listing \in SetToSeqs(Listed(db, q))
  BY DEF Orders
<1>6. /\ PageSize(q) \in Nat /\ q.page * PageSize(q) \in Nat
      /\ Len(page) \in Nat /\ Len(page) <= PageSize(q)
      /\ IsInjective(page)
      /\ \A i \in DOMAIN page : page[i] \in Listed(db, q)
      /\ Len(page) = PageSize(q) \/ Len(page) >= Total(db, q) - q.page * PageSize(q)
  BY <1>3, <1>4, <1>5, PageIs DEF Total
<1>7. \A i \in DOMAIN page :
          \E b \in BidsAt(EventsTo(Len(chain))) :
              b.name = page[i] /\ q.bidder \in {AnyBidder, b.bidder}
  BY <1>6 DEF Listed, Joined, BidsInv, ChainEvents
<1>8. OnlyAdds(q) => Len(page) = PageSize(q) \/ Len(page) >= total - q.page * PageSize(q)
  <2>1. PICK a \in Nat, len \in Nat, t \in Nat :
            a = q.page * PageSize(q) /\ len = Len(page) /\ t = Total(db, q)
    BY <1>4, <1>6
  <2>2. OnlyAdds(q) => total <= t
    BY <1>1, <2>1
  <2>3. len = PageSize(q) \/ len >= t - a
    BY <1>6, <2>1
  <2>4. OnlyAdds(q) => len = PageSize(q) \/ len >= total - a
    BY <2>2, <2>3
  <2> QED
    BY <2>1, <2>4
<1> QED
  BY <1>2, <1>6, <1>7, <1>8 DEF OnlyAdds

\* Whatever the workers write between the two queries of a request, the page
\* is part of the auctions there are, without repetitions, no longer than asked
\* for, and, where rows can only be added, as long as the total promises.
THEOREM PagesCorrect == Spec => []PageAnswers
<1> DEFINE Inv == TypeInv /\ BidsInv /\ TableTyped(db) /\ RequestInv
<1>1. Init => Inv
  <2>1. Init => BidsInv /\ TableTyped(db)
    BY DEF Init, BidsInv, TableTyped, EmptyDb
  <2>2. Init => RequestInv
    BY DEF Init, RequestInv
  <2> QED
    BY <2>1, <2>2, InitTyped
<1>2. Inv /\ [Next]_vars => Inv'
  <2> SUFFICES ASSUME Inv, [Next]_vars PROVE Inv'
    OBVIOUS
  <2>1. TypeInv'
    BY NextTypes
  <2>2. BidsInv' /\ TableTyped(db)'
    BY NextBids, NextTable DEF TypeInv
  <2>3. RequestInv'
    BY NextRequest
  <2> QED
    BY <2>1, <2>2, <2>3
<1>3. Inv => PageAnswers
  BY PageInvImplies
<1> HIDE DEF Inv
<1> QED
  BY <1>1, <1>2, <1>3, PTL DEF Spec

-----------------------------------------------------------------------------
(* One worker: how far it is with the chain.                               *)

\* The events of the chain, by checkpoint and place.
LEMMA ChainEventIs ==
    ASSUME WellFormedHistory(chain)
    PROVE  /\ \A p \in ChainEvents :
                 p = <<p[1], p[2]>> /\ p[1] \in Checkpoints /\ p[2] \in Own(p[1])
           /\ \A c \in Checkpoints : \A i \in Own(c) : <<c, i>> \in ChainEvents
           /\ \A n \in 0..Len(chain) : EventsTo(n) = {p \in ChainEvents : p[1] <= n}
           /\ \A c \in Checkpoints : c \in Nat \ {0} /\ Own(c) \subseteq Nat \ {0}
<1>1. Len(chain) \in Nat /\ Checkpoints = 1..Len(chain)
  BY DEF WellFormedHistory, Checkpoints
<1>2. ASSUME NEW n \in 0..Len(chain), NEW p
      PROVE  p \in EventsTo(n) <=> /\ p = <<p[1], p[2]>> /\ p[1] \in 1..n
                                   /\ p[2] \in Own(p[1])
  BY DEF EventsTo, EventAt, Own
<1>3. ASSUME NEW p
      PROVE  p \in ChainEvents <=> /\ p = <<p[1], p[2]>> /\ p[1] \in Checkpoints
                                   /\ p[2] \in Own(p[1])
  BY <1>1, <1>2 DEF ChainEvents
<1>4. ASSUME NEW n \in 0..Len(chain) PROVE EventsTo(n) = {p \in ChainEvents : p[1] <= n}
  BY <1>1, <1>2, <1>3
<1>5. \A c \in Checkpoints : \A i \in Own(c) : <<c, i>> \in ChainEvents
  BY <1>3
<1>6. \A c \in Checkpoints : c \in Nat \ {0} /\ Own(c) \subseteq Nat \ {0}
  BY <1>1 DEF WellFormedHistory, Own, Events, Checkpoints
<1> QED
  BY <1>3, <1>4, <1>5, <1>6

\* The events of its checkpoint a worker in state t has dealt with.
Dealt(t) ==
    {i \in Own(t.cp) : \/ t.stage = "end"
                       \/ t.stage \in {"count", "store"} /\ i < t.pos
                       \/ t.stage = "tally" /\ i <= t.pos}

\* The last checkpoint all of which is dealt with, and the events there were.
CompleteAt(n, t, saved) == IF n = 0 THEN saved ELSE IF t.stage = "idle" THEN n - 1 ELSE n - 2
PastAt(k, t) == {p \in ChainEvents : p[1] <= k \/ (p[1] = t.cp /\ p[2] \in Dealt(t))}

Complete == CompleteAt(next, worker[1], SavedProgress)
Past == PastAt(Complete, worker[1])

LEMMA TurnDeals ==
    ASSUME WellFormedHistory(chain), NEW c \in Checkpoints, NEW pos \in Nat,
           NEW t, t = Turn(c, pos)
    PROVE  t.cp = c /\ Dealt(t) = {i \in Own(c) : i <= pos}
<1> DEFINE own == {i \in DOMAIN Events(c) : i > pos /\ Parses(Events(c)[i], Packages)}
           first == CHOOSE i \in own : \A j \in own : i <= j
<1>1. Own(c) \subseteq Nat /\ \A i : i \in own <=> i \in Own(c) /\ i > pos
  BY ChainEventIs DEF Own
<1>2. CASE own = {}
  <2>1. t = [stage |-> "end", cp |-> c, pos |-> pos]
    BY <1>2 DEF Turn
  <2>2. \A i \in Own(c) : i <= pos
    BY <1>1, <1>2
  <2> QED
    BY <2>1, <2>2 DEF Dealt
<1>3. CASE own # {}
  <2>1. own \in SUBSET Nat
    BY <1>1
  <2> HIDE DEF own
  <2>2. first \in own /\ \A j \in own : first <= j
    BY <1>3, <2>1, Smallest
  <2> USE DEF own
  <2>3. \E s \in {"count", "store"} : t = [stage |-> s, cp |-> c, pos |-> first]
    BY <1>3 DEF Turn, WritesOnly
  <2> HIDE DEF first, own
  <2>4. \A i \in Own(c) : i < first <=> i <= pos
    BY <1>1, <2>1, <2>2
  <2>5. t.cp = c /\ t.pos = first /\ t.stage \in {"count", "store"}
    BY <2>3
  <2> QED
    BY <2>4, <2>5 DEF Dealt
<1> QED
  BY <1>2, <1>3

LEMMA PastKept ==
    ASSUME NEW k, NEW t, NEW t2, t2.cp = t.cp, Dealt(t2) = Dealt(t)
    PROVE  PastAt(k, t2) = PastAt(k, t)
BY DEF PastAt

LEMMA PastNone ==
    ASSUME NEW k, NEW t, NEW t2, Dealt(t) = {}, Dealt(t2) = {}
    PROVE  PastAt(k, t2) = PastAt(k, t)
BY DEF PastAt

LEMMA PastGrows ==
    ASSUME WellFormedHistory(chain), NEW k, NEW t, NEW t2, NEW c \in Checkpoints, NEW i \in Own(c),
           t.cp = c, t2.cp = c, Dealt(t2) = Dealt(t) \cup {i}
    PROVE  PastAt(k, t2) = PastAt(k, t) \cup {<<c, i>>}
<1>1. <<c, i>> \in ChainEvents /\ \A p \in ChainEvents : p = <<p[1], p[2]>>
  BY ChainEventIs
<1>2. ASSUME NEW p \in PastAt(k, t2) PROVE p \in PastAt(k, t) \cup {<<c, i>>}
  BY <1>1, <1>2 DEF PastAt
<1>3. PastAt(k, t) \cup {<<c, i>>} \subseteq PastAt(k, t2)
  BY <1>1 DEF PastAt
<1> QED
  BY <1>2, <1>3

\* A worker that is done with the checkpoint after k.
LEMMA PastFinished ==
    ASSUME WellFormedHistory(chain), NEW k \in Nat, NEW t, NEW t2,
           t.cp = k + 1, Dealt(t) = Own(k + 1), Dealt(t2) = {}
    PROVE  PastAt(k + 1, t2) = PastAt(k, t)
<1>1. \A p \in ChainEvents : p[1] \in Nat /\ p[2] \in Own(p[1])
  BY ChainEventIs
<1>2. ASSUME NEW p \in ChainEvents
      PROVE  p[1] <= k + 1 <=> p[1] <= k \/ (p[1] = k + 1 /\ p[2] \in Own(k + 1))
  BY <1>1
<1> QED
  BY <1>2 DEF PastAt

\* A worker that gives its checkpoint up.
LEMMA PastDropped ==
    ASSUME WellFormedHistory(chain), NEW k \in Int, NEW j \in Int, j <= k, NEW t, NEW t2,
           Dealt(t2) = {}
    PROVE  PastAt(j, t2) \subseteq PastAt(k, t)
<1>1. \A p \in ChainEvents : p[1] \in Nat
  BY ChainEventIs
<1>2. ASSUME NEW p \in PastAt(j, t2) PROVE p \in PastAt(k, t)
  <2>1. p \in ChainEvents /\ p[1] <= j /\ p[1] \in Nat
    BY <1>1, <1>2 DEF PastAt
  <2> QED
    BY <2>1 DEF PastAt
<1> QED
  BY <1>2

LEMMA NothingDealt ==
    ASSUME NEW t, t.stage \in {"idle", "failed", "balances"}
    PROVE  Dealt(t) = {}
BY DEF Dealt

LEMMA PastOfSame ==
    ASSUME UNCHANGED <<chain, workers>>
    PROVE  /\ \A t : Dealt(t)' = Dealt(t)
           /\ \A k, t : PastAt(k, t)' = PastAt(k, t)
           /\ ChainEvents' = ChainEvents
<1>1. \A c : Own(c)' = Own(c)
  BY OwnKept
<1>2. ChainEvents' = ChainEvents
  BY DEF ChainEvents, EventsTo, EventAt, Events
<1>3. \A t : Dealt(t)' = Dealt(t)
  BY <1>1 DEF Dealt
<1> QED
  BY <1>2, <1>3 DEF PastAt

LEMMA PastNext ==
    ASSUME UNCHANGED <<chain, workers>>
    PROVE  /\ Complete' = CompleteAt(next', worker'[1], SavedProgress')
           /\ Past' = PastAt(Complete', worker'[1])
<1>1. \A k, t : PastAt(k, t)' = PastAt(k, t)
  BY PastOfSame
<1>2. Past' = PastAt(Complete', worker'[1])
  BY <1>1 DEF Past, PastAt, Dealt
<1> QED
  BY <1>2 DEF Complete, CompleteAt

\* A single worker is in the last checkpoint handed out, all before it are dealt
\* with, and those of them that are not saved are done.
OneInv ==
    /\ next = 0 => At(1, "idle") /\ done = {}
    /\ ~At(1, "idle") => next > 1
    /\ InCheckpoint(1) => worker[1].cp = next - 1
    /\ SavedProgress <= Complete
    /\ done \subseteq (SavedProgress + 1)..Complete

LEMMA OneFacts ==
    ASSUME TypeInv, OneInv, workers = 1
    PROVE  /\ SavedProgress \in Nat /\ Complete \in Nat /\ Complete <= Len(chain)
           /\ Workers = {1} /\ DOMAIN worker = {1} /\ next \in Nat /\ Len(chain) \in Nat
           /\ WellFormedHistory(chain) /\ Checkpoints = 1..Len(chain)
           /\ ~At(1, "idle") => Complete = next - 2
           /\ At(1, "idle") => worker[1] = Idle
<1>1. /\ Len(chain) \in Nat /\ WellFormedHistory(chain) /\ Checkpoints = 1..Len(chain)
      /\ next \in 0..(Len(chain) + 1)
      /\ progress \in {NoFile} \cup {0} \cup Checkpoints
  BY DEF TypeInv, TypeOK, ReadingInv, WellFormedHistory, Checkpoints
<1>2. Workers = {1} /\ DOMAIN worker = {1}
  BY DEF Workers, TypeInv, TypeOK
<1>3. SavedProgress \in 0..Len(chain)
  BY <1>1 DEF SavedProgress
<1>4. Complete \in 0..Len(chain)
  BY <1>1, <1>3 DEF Complete, CompleteAt, OneInv, At
<1>5. ~At(1, "idle") => Complete = next - 2
  BY DEF Complete, CompleteAt, At, OneInv
<1>6. worker[1] \in Turns
  BY <1>2 DEF TypeInv, TypeOK
<1>7. At(1, "idle") => worker[1] = Idle
  BY <1>6 DEF Turns, At, Idle
<1> QED
  BY <1>1, <1>2, <1>3, <1>4, <1>5, <1>7

\* Where the reading does not go on.
LEMMA OneQuiet ==
    ASSUME TypeInv, OneInv, workers = 1, UNCHANGED <<chain, workers, next, worker, done, progress>>
    PROVE  OneInv' /\ Past' = Past /\ Complete' = Complete /\ SavedProgress' = SavedProgress
<1>1. SavedProgress' = SavedProgress
  BY DEF SavedProgress
<1>2. Complete' = Complete
  BY <1>1 DEF Complete, CompleteAt
<1>3. Past' = Past
  BY <1>2, PastNext DEF Past
<1> QED
  BY <1>1, <1>2, <1>3 DEF OneInv, At, InCheckpoint

LEMMA OneDown ==
    ASSUME TypeInv, OneInv, workers = 1, Down
    PROVE  /\ OneInv' /\ Past' \subseteq Past
           /\ SavedProgress' = SavedProgress /\ Complete' = SavedProgress
           /\ Settled => worker[1] = Idle /\ Complete' = Complete /\ Past' = Past
<1>1. /\ next' = 0 /\ worker' = [w \in Workers |-> Idle] /\ done' = {}
      /\ UNCHANGED <<chain, workers, progress, db>>
  BY DEF Down, persistent
<1>2. worker'[1] = Idle /\ Idle.stage = "idle"
  BY <1>1, OneFacts DEF Idle
<1>3. SavedProgress' = SavedProgress
  BY <1>1 DEF SavedProgress
<1>4. Complete' = SavedProgress /\ Past' = PastAt(SavedProgress, worker'[1])
  BY <1>1, <1>2, <1>3, PastNext DEF CompleteAt
<1>5. Dealt(worker'[1]) = {}
  BY <1>2, NothingDealt
<1>6. Past' \subseteq Past
  BY <1>4, <1>5, OneFacts, PastDropped DEF OneInv, Past
<1>7. ASSUME Settled PROVE worker[1] = Idle /\ Complete' = Complete /\ Past' = Past
  <2>1. worker[1] = Idle
    BY <1>7, OneFacts DEF Settled, AllIdle
  <2>2. Complete = SavedProgress
    <3>1. CASE next = 0
      BY <3>1 DEF Complete, CompleteAt
    <3>2. CASE next # 0
      <4>1. next = progress + 1 /\ progress \in Nat /\ next \in Nat
        BY <1>7, <3>2 DEF Settled, TypeInv, ReadingInv
      <4>2. Complete = next - 1 /\ SavedProgress = progress
        BY <1>2, <2>1, <3>2, <4>1, IndexerAssumption DEF Complete, CompleteAt, SavedProgress
      <4> QED
        BY <4>1, <4>2
    <3> QED
      BY <3>1, <3>2
  <2>3. Past' = Past
    BY <1>2, <1>4, <2>1, <2>2 DEF Past
  <2> QED
    BY <1>4, <2>1, <2>2, <2>3
<1>8. OneInv'
  BY <1>1, <1>2, <1>3, <1>4, OneFacts DEF OneInv, At, InCheckpoint
<1> QED
  BY <1>3, <1>4, <1>6, <1>7, <1>8

LEMMA OneOpen ==
    ASSUME TypeInv, OneInv, workers = 1, OpenProgress
    PROVE  OneInv' /\ Past' = Past /\ Complete' = Complete /\ SavedProgress' = SavedProgress
<1>1. /\ UNCHANGED <<chain, workers, worker, done>> /\ next = 0 /\ next' = progress' + 1
      /\ progress' = SavedProgress
  BY DEF OpenProgress, SavedProgress
<1>2. SavedProgress' = SavedProgress
  BY <1>1, OneFacts, IndexerAssumption DEF SavedProgress
<1>3. At(1, "idle") /\ Complete = SavedProgress /\ SavedProgress \in Nat
  BY <1>1, OneFacts DEF OneInv, Complete, CompleteAt
<1>4. Complete' = Complete
  BY <1>1, <1>2, <1>3, PastNext DEF CompleteAt, At
<1>5. Past' = Past
  BY <1>1, <1>4, PastNext DEF Past
<1>6. OneInv'
  BY <1>1, <1>2, <1>3, <1>4, <1>5 DEF OneInv, At, InCheckpoint
<1> QED
  BY <1>2, <1>4, <1>5, <1>6

LEMMA OneSave ==
    ASSUME TypeInv, OneInv, workers = 1, SaveProgress
    PROVE  OneInv' /\ Past' = Past /\ Complete' = Complete
<1>1. /\ UNCHANGED <<chain, workers, worker, next>> /\ next > 0 /\ progress + 1 \in done
      /\ progress' = progress + 1 /\ done' = done \ {progress + 1}
  BY DEF SaveProgress
<1>2. progress \in Nat /\ SavedProgress = progress /\ SavedProgress' = progress + 1
  BY <1>1, IndexerAssumption DEF TypeInv, ReadingInv, SavedProgress
<1>3. Complete' = Complete
  BY <1>1, OneFacts, PastNext DEF Complete, CompleteAt
<1>4. Past' = Past
  BY <1>1, <1>3, PastNext DEF Past
<1>5. progress + 1 <= Complete /\ done' \subseteq ((progress + 1) + 1)..Complete
  BY <1>1, <1>2, OneFacts DEF OneInv
<1>6. OneInv'
  BY <1>1, <1>2, <1>3, <1>5 DEF OneInv, At, InCheckpoint
<1> QED
  BY <1>3, <1>4, <1>6

LEMMA OneAssign ==
    ASSUME TypeInv, OneInv, workers = 1, Assign(1)
    PROVE  /\ OneInv' /\ Past' = Past /\ Complete' = Complete /\ SavedProgress' = SavedProgress
           /\ At(1, "idle") /\ next' = next + 1 /\ Complete = next - 1 /\ next \in Checkpoints
<1>1. /\ UNCHANGED <<chain, workers, progress, done>> /\ next' = next + 1
      /\ worker[1] = Idle /\ next \in Checkpoints
  BY DEF Assign, persistent
<1>2. PICK c \in Checkpoints : c = next /\ c \in Nat \ {0}
  BY <1>1, OneFacts
<1>3. PICK t : TurnTo(1, t) /\ t = IF HasBalance(c)
                                   THEN [stage |-> "balances", cp |-> c, pos |-> 0]
                                   ELSE Turn(c, 0)
  BY <1>2 DEF Assign
<1>4. WellFormedHistory(chain) /\ \A i \in Own(c) : i \in Nat \ {0}
  BY OneFacts, ChainEventIs
<1>5. t.cp = c /\ Dealt(t) = {} /\ t.stage \notin {"idle", "failed"}
  <2>1. CASE HasBalance(c)
    BY <1>3, <2>1 DEF Dealt
  <2>2. CASE ~HasBalance(c)
    <3>1. t = Turn(c, 0)
      BY <1>3, <2>2
    <3>2. t.cp = c /\ Dealt(t) = {i \in Own(c) : i <= 0}
      BY <1>4, <3>1, TurnDeals
    <3>3. t.stage \in {"count", "store", "end"}
      BY <3>1 DEF Turn
    <3> QED
      BY <1>4, <3>2, <3>3
  <2> QED
    BY <2>1, <2>2
<1>6. worker'[1] = t
  BY <1>3, OneFacts DEF TurnTo
<1>7. SavedProgress' = SavedProgress
  BY <1>1 DEF SavedProgress
<1>8. At(1, "idle") /\ Complete = next - 1
  BY <1>1, <1>2 DEF At, Idle, Complete, CompleteAt
<1>9. Complete' = Complete
  BY <1>1, <1>2, <1>5, <1>6, <1>7, <1>8, PastNext DEF CompleteAt
<1>10. Past' = Past
  <2>1. Dealt(worker[1]) = {}
    BY <1>8, NothingDealt DEF At
  <2>2. PastAt(Complete, t) = PastAt(Complete, worker[1])
    BY <1>5, <2>1, PastNone
  <2> QED
    BY <1>1, <1>6, <1>9, <2>2, PastNext DEF Past
<1>11. OneInv'
  BY <1>1, <1>2, <1>5, <1>6, <1>7, <1>9 DEF OneInv, At, InCheckpoint
<1> QED
  BY <1>1, <1>7, <1>8, <1>9, <1>10, <1>11

\* The worker goes on with its checkpoint.
LEMMA OneGoesOn ==
    ASSUME TypeInv, OneInv, workers = 1, UNCHANGED <<chain, workers, progress, next, done>>,
           InCheckpoint(1), NEW t, TurnTo(1, t), t.cp = worker[1].cp,
           t.stage \notin {"idle", "failed"}
    PROVE  /\ OneInv' /\ Complete' = Complete /\ SavedProgress' = SavedProgress
           /\ Past' = PastAt(Complete, t) /\ worker'[1] = t
<1>1. worker'[1] = t
  BY OneFacts DEF TurnTo
<1>2. SavedProgress' = SavedProgress
  BY DEF SavedProgress
<1>3. ~At(1, "idle")
  BY DEF At, InCheckpoint
<1>4. Complete' = Complete
  BY <1>1, <1>2, <1>3, PastNext DEF Complete, CompleteAt, At
<1>5. Past' = PastAt(Complete, t)
  BY <1>1, <1>4, PastNext
<1>6. OneInv'
  BY <1>1, <1>2, <1>3, <1>4 DEF OneInv, At, InCheckpoint
<1> QED
  BY <1>1, <1>2, <1>4, <1>5, <1>6

LEMMA OneFinish ==
    ASSUME TypeInv, OneInv, workers = 1, Finish(1)
    PROVE  /\ OneInv' /\ Past' = Past /\ SavedProgress' = SavedProgress
           /\ worker'[1] = Idle /\ worker[1].stage = "end"
           /\ Complete' = Complete + 1 /\ worker[1].cp = Complete + 1
<1>1. /\ UNCHANGED <<chain, workers, progress, next>> /\ worker[1].stage = "end"
      /\ TurnTo(1, Idle) /\ done' = done \cup {worker[1].cp}
  BY DEF Finish, At, persistent
<1>2. worker'[1] = Idle /\ Idle.stage = "idle"
  BY <1>1, OneFacts DEF TurnTo, Idle
<1>3. /\ next > 1 /\ next \in Nat /\ worker[1].cp = next - 1 /\ Complete = next - 2
      /\ Complete \in Nat /\ SavedProgress \in Nat
  BY <1>1, OneFacts DEF OneInv, At, InCheckpoint
<1>4. SavedProgress' = SavedProgress
  BY <1>1 DEF SavedProgress
<1>5. Complete' = Complete + 1
  BY <1>1, <1>2, <1>3, PastNext DEF CompleteAt
<1>6. Past' = Past
  <2>1. Dealt(Idle) = {} /\ Dealt(worker[1]) = Own(Complete + 1) /\ worker[1].cp = Complete + 1
    BY <1>1, <1>2, <1>3, NothingDealt DEF Dealt
  <2>2. PastAt(Complete + 1, Idle) = PastAt(Complete, worker[1])
    BY <1>3, <2>1, OneFacts, PastFinished
  <2> QED
    BY <1>1, <1>2, <1>5, <2>2, PastNext DEF Past
<1>7. OneInv'
  <2>1. done' \subseteq (SavedProgress + 1)..(Complete + 1)
    BY <1>1, <1>3 DEF OneInv
  <2> QED
    BY <1>1, <1>2, <1>3, <1>4, <1>5, <2>1 DEF OneInv, At, InCheckpoint
<1> QED
  BY <1>1, <1>2, <1>3, <1>4, <1>5, <1>6, <1>7

LEMMA OneFail ==
    ASSUME TypeInv, OneInv, workers = 1, Fail(1)
    PROVE  OneInv' /\ Past' \subseteq Past /\ worker'[1] = Failed
<1>1. /\ UNCHANGED <<chain, workers, progress, next, done>>
      /\ worker[1].stage \in {"balances", "store"} /\ TurnTo(1, Failed)
  BY DEF Fail, At, persistent
<1>2. worker'[1] = Failed /\ Failed.stage = "failed"
  BY <1>1, OneFacts DEF TurnTo, Failed
<1>3. SavedProgress' = SavedProgress
  BY <1>1 DEF SavedProgress
<1>4. next > 1 /\ Complete' = Complete
  BY <1>1, <1>2, <1>3, PastNext DEF OneInv, At, Complete, CompleteAt
<1>5. Past' = PastAt(Complete, Failed) /\ Dealt(Failed) = {}
  BY <1>1, <1>2, <1>4, PastNext, NothingDealt
<1>6. Past' \subseteq Past
  BY <1>5, OneFacts, PastDropped DEF Past
<1>7. OneInv'
  BY <1>1, <1>2, <1>3, <1>4 DEF OneInv, At, InCheckpoint
<1> QED
  BY <1>2, <1>6, <1>7

\* The event the single worker is at, and those of the chain before it.
Here == <<worker[1].cp, worker[1].pos>>
EventsBefore(p) == {q \in ChainEvents : Precedes(q, p)}

LEMMA HereIs ==
    ASSUME TypeInv, OneInv, workers = 1, worker[1].stage \in {"count", "store", "tally"}
    PROVE  /\ Here \in ChainEvents /\ EventAt(Here) = Current(1)
           /\ worker[1].cp = Complete + 1 /\ worker[1].cp \in Checkpoints
           /\ worker[1].pos \in Own(worker[1].cp) /\ worker[1].pos \in Nat
           /\ Here \notin EventsBefore(Here)
           /\ worker[1].stage \in {"count", "store"} => Past = EventsBefore(Here)
           /\ worker[1].stage = "tally" => Past = EventsBefore(Here) \cup {Here}
<1>1. 1 \in Workers /\ ReadingInv
  BY OneFacts DEF TypeInv
<1>2. /\ worker[1].cp \in Checkpoints /\ worker[1].pos \in Own(worker[1].cp)
      /\ worker[1].pos \in Nat
      /\ Here \in ChainEvents /\ EventAt(Here) = Current(1)
  BY <1>1, CurrentIs, CurrentEvent DEF Here
<1>3. PICK c \in Nat, i \in Nat : c = worker[1].cp /\ i = worker[1].pos /\ Here = <<c, i>>
  BY <1>2, OneFacts DEF Here
<1>4. c = Complete + 1
  BY <1>3, OneFacts DEF OneInv, At, InCheckpoint
<1>5. Complete \in Nat
  BY OneFacts
<1>6. \A p \in ChainEvents : /\ p = <<p[1], p[2]>> /\ p[1] \in Nat /\ p[2] \in Nat
                             /\ p[2] \in Own(p[1])
  BY OneFacts, ChainEventIs
<1>7. Here \notin EventsBefore(Here)
  BY <1>3 DEF EventsBefore, Precedes
<1>8. ASSUME NEW p \in ChainEvents
      PROVE  /\ Precedes(p, Here) <=> p[1] <= Complete \/ (p[1] = c /\ p[2] < i)
             /\ p = Here <=> p[1] = c /\ p[2] = i
  BY <1>3, <1>4, <1>5, <1>6 DEF Precedes
<1>9. CASE worker[1].stage \in {"count", "store"}
  <2>1. Dealt(worker[1]) = {j \in Own(c) : j < i}
    BY <1>3, <1>9 DEF Dealt
  <2>2. ASSUME NEW p \in ChainEvents PROVE p \in Past <=> Precedes(p, Here)
    BY <1>3, <1>6, <1>8, <2>1 DEF Past, PastAt
  <2>3. Past = EventsBefore(Here)
    BY <2>2 DEF Past, PastAt, EventsBefore
  <2> QED
    BY <1>2, <1>3, <1>4, <1>7, <1>9, <2>3
<1>10. CASE worker[1].stage = "tally"
  <2>1. Dealt(worker[1]) = {j \in Own(c) : j <= i}
    BY <1>3, <1>10 DEF Dealt
  <2>2. ASSUME NEW p \in ChainEvents PROVE p \in Past <=> Precedes(p, Here) \/ p = Here
    <3>1. p[2] <= i <=> p[2] < i \/ p[2] = i
      BY <1>6
    <3>2. p \in Past <=> p[1] <= Complete \/ (p[1] = c /\ p[2] <= i)
      BY <1>3, <1>6, <2>1 DEF Past, PastAt
    <3> QED
      BY <1>8, <3>1, <3>2
  <2>3. Past = EventsBefore(Here) \cup {Here}
    BY <1>2, <2>2 DEF Past, PastAt, EventsBefore
  <2> QED
    BY <1>2, <1>3, <1>4, <1>7, <1>10, <2>3
<1> QED
  BY <1>9, <1>10

\* The worker turns to the event after pos, all up to pos being dealt with.
LEMMA OneTurns ==
    ASSUME TypeInv, OneInv, workers = 1, UNCHANGED <<chain, workers, progress, next, done>>,
           InCheckpoint(1), NEW c \in Checkpoints, c = worker[1].cp, NEW pos \in Nat,
           TurnTo(1, Turn(c, pos))
    PROVE  /\ OneInv' /\ Complete' = Complete /\ SavedProgress' = SavedProgress
           /\ worker'[1] = Turn(c, pos) /\ worker'[1].cp = c
           /\ worker'[1].stage \in {"count", "store", "end"}
           /\ Past' = PastAt(Complete, Turn(c, pos))
           /\ Dealt(Turn(c, pos)) = {i \in Own(c) : i <= pos}
<1>1. PICK t : t = Turn(c, pos)
  OBVIOUS
<1>2. t.cp = c /\ Dealt(t) = {i \in Own(c) : i <= pos}
  BY <1>1, OneFacts, TurnDeals
<1>3. t.stage \in {"count", "store", "end"}
  BY <1>1 DEF Turn
<1>4. /\ OneInv' /\ Complete' = Complete /\ SavedProgress' = SavedProgress
      /\ Past' = PastAt(Complete, t) /\ worker'[1] = t
  BY <1>1, <1>2, <1>3, OneGoesOn
<1> QED
  BY <1>1, <1>2, <1>3, <1>4

\* It turns to the event after the one it is at, which it has dealt with.
LEMMA OnePasses ==
    ASSUME TypeInv, OneInv, workers = 1, UNCHANGED <<chain, workers, progress, next, done>>,
           worker[1].stage \in {"count", "store"},
           TurnTo(1, Turn(worker[1].cp, worker[1].pos))
    PROVE  /\ OneInv' /\ Complete' = Complete /\ SavedProgress' = SavedProgress
           /\ worker'[1].stage \in {"count", "store", "end"}
           /\ worker'[1].cp = worker[1].cp
           /\ Past' = Past \cup {Here} /\ Here \notin Past
<1>1. PICK c \in Checkpoints, i \in Nat :
          c = worker[1].cp /\ i = worker[1].pos /\ i \in Own(c) /\ Here = <<c, i>>
  BY HereIs DEF Here
<1>2. TurnTo(1, Turn(c, i)) /\ InCheckpoint(1)
  BY <1>1 DEF InCheckpoint
<1>3. PICK t : t = Turn(c, i)
  OBVIOUS
<1>4. /\ OneInv' /\ Complete' = Complete /\ SavedProgress' = SavedProgress
      /\ worker'[1] = t /\ t.cp = c /\ t.stage \in {"count", "store", "end"}
      /\ Past' = PastAt(Complete, t)
      /\ Dealt(t) = {j \in Own(c) : j <= i}
  BY <1>1, <1>2, <1>3, OneTurns
<1>5. Dealt(worker[1]) = {j \in Own(c) : j < i}
  BY <1>1 DEF Dealt
<1>6. \A j \in Own(c) : j \in Nat
  BY OneFacts, ChainEventIs
<1>7. Dealt(t) = Dealt(worker[1]) \cup {i}
  <2>1. \A j \in Own(c) : j <= i <=> j < i \/ j = i
    BY <1>6
  <2> QED
    BY <1>1, <1>4, <1>5, <2>1
<1>8. Past' = Past \cup {Here}
  BY <1>1, <1>4, <1>7, OneFacts, PastGrows DEF Past
<1> QED
  BY <1>1, <1>4, <1>8, HereIs

LEMMA OneBalances ==
    ASSUME TypeInv, OneInv, workers = 1, SetBalances(1)
    PROVE  /\ OneInv' /\ Past' = Past /\ Complete' = Complete /\ SavedProgress' = SavedProgress
           /\ worker'[1].stage \in {"count", "store", "end"}
           /\ worker'[1].cp = worker[1].cp
           /\ worker[1].cp = Complete + 1 /\ worker[1].cp \in Checkpoints
<1>1. /\ UNCHANGED <<chain, workers, progress, next, done>> /\ worker[1].stage = "balances"
      /\ InCheckpoint(1)
  BY DEF SetBalances, At, InCheckpoint, persistent
<1>2. 1 \in Workers /\ worker[1] \in AtEvents
  BY <1>1, OneFacts DEF TypeInv, ReadingInv, WorkerInv
<1>3. PICK c \in Checkpoints : c = worker[1].cp
  BY <1>2 DEF AtEvents
<1>4. TurnTo(1, Turn(c, 0))
  BY <1>3 DEF SetBalances
<1>5. PICK t : t = Turn(c, 0)
  OBVIOUS
<1>6. /\ OneInv' /\ Complete' = Complete /\ SavedProgress' = SavedProgress
      /\ worker'[1] = t /\ t.cp = c /\ t.stage \in {"count", "store", "end"}
      /\ Past' = PastAt(Complete, t)
      /\ Dealt(t) = {i \in Own(c) : i <= 0}
  BY <1>1, <1>3, <1>4, <1>5, OneTurns
<1>7. \A i \in Own(c) : i \in Nat \ {0}
  BY OneFacts, ChainEventIs
<1>8. Dealt(t) = {} /\ Dealt(worker[1]) = {}
  BY <1>1, <1>6, <1>7, NothingDealt
<1>9. Past' = Past
  BY <1>6, <1>8, PastNone DEF Past
<1>10. c = Complete + 1
  BY <1>1, <1>3, OneFacts DEF OneInv, At
<1> QED
  BY <1>3, <1>6, <1>9, <1>10

LEMMA OneCount ==
    ASSUME TypeInv, OneInv, workers = 1, CountEvent(1)
    PROVE  /\ OneInv' /\ Complete' = Complete /\ SavedProgress' = SavedProgress
           /\ worker'[1].stage \in {"count", "store", "end"}
           /\ worker'[1].cp = worker[1].cp
           /\ worker[1].stage = "count" /\ Here \notin Past
           /\ Current(1).kind \in AuctionKinds =>
                  worker'[1].stage = "store" /\ Here' = Here /\ Past' = Past
           /\ Current(1).kind \notin AuctionKinds => Past' = Past \cup {Here}
<1>1. UNCHANGED <<chain, workers, progress, next, done>> /\ worker[1].stage = "count"
  BY DEF CountEvent, At, persistent
<1>2. Here \notin Past
  BY <1>1, HereIs
<1>3. CASE Current(1).kind \in AuctionKinds
  <2>1. PICK t : t = [worker[1] EXCEPT !.stage = "store"] /\ TurnTo(1, t)
    BY <1>3 DEF CountEvent
  <2>2. worker[1] \in AtEvents
    BY <1>1, OneFacts DEF TypeInv, ReadingInv, WorkerInv
  <2>3. t.stage = "store" /\ t.cp = worker[1].cp /\ t.pos = worker[1].pos
    BY <2>1, <2>2 DEF AtEvents
  <2>4. /\ OneInv' /\ Complete' = Complete /\ SavedProgress' = SavedProgress
        /\ Past' = PastAt(Complete, t) /\ worker'[1] = t
    BY <1>1, <2>1, <2>3, OneGoesOn DEF InCheckpoint
  <2>5. Dealt(t) = Dealt(worker[1])
    BY <1>1, <2>3 DEF Dealt
  <2>6. Past' = Past
    BY <2>3, <2>4, <2>5, PastKept DEF Past
  <2> QED
    BY <1>1, <1>2, <1>3, <2>3, <2>4, <2>6 DEF Here
<1>4. CASE Current(1).kind \notin AuctionKinds
  <2>1. TurnTo(1, Turn(worker[1].cp, worker[1].pos))
    BY <1>4 DEF CountEvent
  <2> QED
    BY <1>1, <1>2, <1>4, <2>1, OnePasses
<1> QED
  BY <1>3, <1>4

LEMMA OneStore ==
    ASSUME TypeInv, OneInv, workers = 1, StoreRows(1)
    PROVE  /\ OneInv' /\ Complete' = Complete /\ SavedProgress' = SavedProgress
           /\ worker'[1].stage \in {"count", "store", "tally", "end"}
           /\ worker'[1].cp = worker[1].cp
           /\ worker[1].stage = "store" /\ Here \notin Past /\ Past' = Past \cup {Here}
           /\ Current(1).kind = "AuctionFinalized" =>
                  /\ worker'[1].stage = "tally" /\ Here' = Here
                  /\ worker'[1].bids = BidCount(db', Current(1).name)
           /\ Current(1).kind # "AuctionFinalized" => worker'[1].stage # "tally"
<1>1. UNCHANGED <<chain, workers, progress, next, done>> /\ worker[1].stage = "store"
  BY DEF StoreRows, At
<1>2. Here \notin Past
  BY <1>1, HereIs
<1>3. CASE Current(1).kind = "AuctionFinalized"
  <2>1. PICK c \in Checkpoints, i \in Nat :
            c = worker[1].cp /\ i = worker[1].pos /\ i \in Own(c) /\ Here = <<c, i>>
    BY <1>1, HereIs DEF Here
  <2>2. PICK t : /\ t = [stage |-> "tally", cp |-> c, pos |-> i,
                         bids |-> BidCount(db', Current(1).name)]
                 /\ TurnTo(1, t)
    BY <1>3, <2>1 DEF StoreRows
  <2>3. /\ t.stage = "tally" /\ t.cp = c /\ t.pos = i
        /\ t.bids = BidCount(db', Current(1).name)
    BY <2>2
  <2>4. /\ OneInv' /\ Complete' = Complete /\ SavedProgress' = SavedProgress
        /\ Past' = PastAt(Complete, t) /\ worker'[1] = t
    BY <1>1, <2>1, <2>2, <2>3, OneGoesOn DEF InCheckpoint
  <2>5. \A j \in Own(c) : j \in Nat
    BY OneFacts, ChainEventIs
  <2>6. Dealt(t) = {j \in Own(c) : j <= i} /\ Dealt(worker[1]) = {j \in Own(c) : j < i}
    BY <1>1, <2>1, <2>3 DEF Dealt
  <2>7. Dealt(t) = Dealt(worker[1]) \cup {i}
    <3>1. \A j \in Own(c) : j <= i <=> j < i \/ j = i
      BY <2>5
    <3> QED
      BY <2>1, <2>6, <3>1
  <2>8. Past' = Past \cup {Here}
    BY <2>1, <2>3, <2>4, <2>7, OneFacts, PastGrows DEF Past
  <2> QED
    BY <1>1, <1>2, <1>3, <2>1, <2>3, <2>4, <2>8 DEF Here
<1>4. CASE Current(1).kind # "AuctionFinalized"
  <2>1. TurnTo(1, Turn(worker[1].cp, worker[1].pos))
    BY <1>4 DEF StoreRows
  <2>2. /\ OneInv' /\ Complete' = Complete /\ SavedProgress' = SavedProgress
        /\ worker'[1].stage \in {"count", "store", "end"}
        /\ worker'[1].cp = worker[1].cp
        /\ Past' = Past \cup {Here}
    BY <1>1, <2>1, OnePasses
  <2> QED
    BY <1>1, <1>2, <1>4, <2>2
<1> QED
  BY <1>3, <1>4

LEMMA OneTally ==
    ASSUME TypeInv, OneInv, workers = 1, TallyBids(1)
    PROVE  /\ OneInv' /\ Past' = Past /\ Complete' = Complete /\ SavedProgress' = SavedProgress
           /\ worker'[1].stage \in {"count", "store", "end"}
           /\ worker'[1].cp = worker[1].cp /\ worker[1].stage = "tally"
<1>1. UNCHANGED <<chain, workers, progress, next, done>> /\ worker[1].stage = "tally"
  BY DEF TallyBids, At, persistent
<1>2. PICK c \in Checkpoints, i \in Nat : c = worker[1].cp /\ i = worker[1].pos /\ i \in Own(c)
  BY <1>1, HereIs
<1>3. TurnTo(1, Turn(c, i)) /\ InCheckpoint(1)
  BY <1>1, <1>2 DEF TallyBids, InCheckpoint
<1>4. PICK t : t = Turn(c, i)
  OBVIOUS
<1>5. /\ OneInv' /\ Complete' = Complete /\ SavedProgress' = SavedProgress
      /\ worker'[1] = t /\ t.cp = c /\ t.stage \in {"count", "store", "end"}
      /\ Past' = PastAt(Complete, t)
      /\ Dealt(t) = {j \in Own(c) : j <= i}
  BY <1>1, <1>2, <1>3, <1>4, OneTurns
<1>6. Dealt(worker[1]) = {j \in Own(c) : j <= i}
  BY <1>1, <1>2 DEF Dealt
<1>7. Past' = Past
  BY <1>2, <1>5, <1>6, PastKept DEF Past
<1> QED
  BY <1>1, <1>2, <1>5, <1>7

\* What a step does to the reading of a single worker: a quiet one, the counting
\* of an event that is not stored, or the storing of one.
LEMMA OneSteps ==
    ASSUME TypeInv, OneInv, workers = 1, [Next]_vars
    PROVE  /\ OneInv'
           /\ \/ UNCHANGED db /\ Past' \subseteq Past
              \/ /\ UNCHANGED db /\ Past' = Past \cup {Here}
                 /\ Here \in ChainEvents /\ EventAt(Here).kind \notin AuctionKinds
              \/ StoreRows(1) /\ Past' = Past \cup {Here} /\ worker[1].stage = "store"
<1> USE DEF persistent, process, reading
<1>1. ASSUME UNCHANGED <<chain, workers, progress, db, next, worker, done>>
      PROVE  OneInv' /\ UNCHANGED db /\ Past' \subseteq Past
  BY <1>1, OneQuiet
<1>2. ASSUME Down PROVE OneInv' /\ UNCHANGED db /\ Past' \subseteq Past
  BY <1>2, OneDown DEF Down
<1>3. CASE Lifecycle
  <2>1. CASE \E n \in 0..Queries : Start(n)
    BY <1>1, <2>1 DEF Start
  <2>2. CASE StartFails
    BY <1>1, <2>2 DEF StartFails
  <2>3. CASE \E t \in Tasks : TaskEnds(t) \/ TaskFails(t)
    BY <1>1, <2>3 DEF TaskEnds, TaskFails, EndTask
  <2>4. CASE Join \/ Interrupt \/ SecondInterrupt
    BY <1>1, <2>4 DEF Join, Interrupt, SecondInterrupt
  <2>5. CASE Exit \/ Kill
    BY <1>2, <2>5 DEF Exit, Kill
  <2> QED
    BY <1>3, <2>1, <2>2, <2>3, <2>4, <2>5 DEF Lifecycle
<1>4. CASE Scrape \/ Stale
  BY <1>1, <1>4 DEF Scrape, Stale
<1>5. CASE OpenProgress
  BY <1>5, OneOpen DEF OpenProgress
<1>6. CASE SaveProgress
  BY <1>6, OneSave DEF SaveProgress
<1>7. ASSUME NEW w \in Workers, Assign(w) \/ SetBalances(w) \/ TallyBids(w) \/ Finish(w) \/ Fail(w)
      PROVE  OneInv' /\ UNCHANGED db /\ Past' \subseteq Past
  <2>1. w = 1
    BY OneFacts
  <2>2. UNCHANGED db
    BY <1>7 DEF Assign, SetBalances, TallyBids, Finish, Fail
  <2> QED
    BY <1>7, <2>1, <2>2, OneAssign, OneBalances, OneTally, OneFinish, OneFail
<1>8. ASSUME NEW w \in Workers, CountEvent(w)
      PROVE  /\ OneInv' /\ UNCHANGED db
             /\ \/ Past' \subseteq Past
                \/ /\ Past' = Past \cup {Here}
                   /\ Here \in ChainEvents /\ EventAt(Here).kind \notin AuctionKinds
  <2>1. w = 1
    BY OneFacts
  <2>2. UNCHANGED db
    BY <1>8 DEF CountEvent
  <2>3. Here \in ChainEvents /\ EventAt(Here) = Current(1)
    BY <1>8, <2>1, OneCount, HereIs
  <2> QED
    BY <1>8, <2>1, <2>2, <2>3, OneCount
<1>9. ASSUME NEW w \in Workers, StoreRows(w)
      PROVE  OneInv' /\ StoreRows(1) /\ Past' = Past \cup {Here} /\ worker[1].stage = "store"
  BY <1>9, OneFacts, OneStore
<1>10. CASE Answer
  BY <1>1, <1>10 DEF Answer, CountAuctions, ListAuctions
<1>11. CASE UNCHANGED vars
  BY <1>1, <1>11 DEF vars
<1> QED
  BY <1>3, <1>4, <1>5, <1>6, <1>7, <1>8, <1>9, <1>10, <1>11 DEF Next, Read, Process

-----------------------------------------------------------------------------
(* One worker: the rows of the auctions.                                   *)

IsStart(p) == EventAt(p).kind = "AuctionStarted"
IsEnd(p) == EventAt(p).kind = "AuctionFinalized"
Named(p, n) == EventAt(p).name = n

\* The row of an auction has the end that the event q says.
EndFrom(d, n, q, past) ==
    /\ d.auctions[n].end = EventAt(q).end
    /\ \A r \in EndsFor(n) : r \in past => r = q \/ Precedes(r, q)

\* A row has an end its name has in the chain, that no event dealt with since
\* has moved; an auction that ended has a row, and no other is claimed.
RowsAre(d, past) ==
    /\ \A n \in DOMAIN d.auctions : \E q \in EndsFor(n) : EndFrom(d, n, q, past)
    /\ \A p \in past : IsStart(p) \/ IsEnd(p) => EventAt(p).name \in DOMAIN d.auctions
    /\ \A p \in past : IsEnd(p) => d.auctions[EventAt(p).name].claimed
    /\ \A n \in DOMAIN d.auctions :
          d.auctions[n].claimed => \E p \in ChainEvents : IsEnd(p) /\ Named(p, n)

RowsInv == AuctionsStart(chain) /\ RowsAre(db, Past)

LEMMA EndsAre ==
    \A n, p : p \in EndsFor(n) <=> /\ p \in ChainEvents /\ Named(p, n)
                                   /\ EventAt(p).kind \in {"AuctionStarted", "AuctionExtended"}
BY DEF EndsFor, OfName, OfKind, ChainEvents, Named

LEMMA EndsFixed ==
    ASSUME UNCHANGED chain
    PROVE  /\ \A d, past : RowsAre(d, past)' = RowsAre(d, past)
           /\ AuctionsStart(chain)' = AuctionsStart(chain)
BY DEF RowsAre, EndFrom, EndsFor, OfName, OfKind, ChainEvents, EventsTo, EventAt, Events,
       IsStart, IsEnd, Named, Precedes, AuctionsStart

LEMMA RowsFewer ==
    ASSUME NEW d, NEW past, RowsAre(d, past), NEW past2 \in SUBSET past
    PROVE  RowsAre(d, past2)
BY DEF RowsAre, EndFrom

\* An event that is not of an auction, or a bid.
LEMMA RowsSame ==
    ASSUME NEW d, NEW d2, d2.auctions = d.auctions, NEW past, RowsAre(d, past),
           NEW p, EventAt(p).kind \notin {"AuctionStarted", "AuctionExtended", "AuctionFinalized"}
    PROVE  RowsAre(d2, past \cup {p})
<1>1. ASSUME NEW n \in DOMAIN d.auctions PROVE \E q \in EndsFor(n) : EndFrom(d2, n, q, past \cup {p})
  <2>1. p \notin EndsFor(n)
    BY EndsAre
  <2> QED
    BY <2>1 DEF RowsAre, EndFrom
<1>2. ~IsStart(p) /\ ~IsEnd(p)
  BY DEF IsStart, IsEnd
<1> QED
  BY <1>1, <1>2 DEF RowsAre

\* An event that sets an end comes after all before it.
LEMMA RowsWithEnd ==
    ASSUME NEW d, NEW d2, NEW p \in ChainEvents, RowsAre(d, EventsBefore(p)),
           EventAt(p).kind \in {"AuctionStarted", "AuctionExtended"},
           EndSet(d, EventAt(p).name, EventAt(p).end, d2)
    PROVE  RowsAre(d2, EventsBefore(p) \cup {p})
<1> PICK name : name = EventAt(p).name
  OBVIOUS
<1> PICK past : past = EventsBefore(p)
  OBVIOUS
<1>1. /\ DOMAIN d2.auctions = DOMAIN d.auctions \cup {name}
      /\ \A m \in DOMAIN d.auctions : m # name => d2.auctions[m] = d.auctions[m]
      /\ d2.auctions[name].end = EventAt(p).end
      /\ d2.auctions[name].claimed <=> name \in DOMAIN d.auctions /\ d.auctions[name].claimed
  BY DEF EndSet
<1>2. p \in EndsFor(name) /\ ~IsEnd(p)
  BY EndsAre DEF Named, IsEnd
<1>3. ASSUME NEW n \in DOMAIN d2.auctions PROVE \E q \in EndsFor(n) : EndFrom(d2, n, q, past \cup {p})
  <2>1. CASE n = name
    <3>1. \A r \in past \cup {p} : r = p \/ Precedes(r, p)
      BY DEF EventsBefore
    <3> QED
      BY <1>1, <1>2, <2>1, <3>1 DEF EndFrom
  <2>2. CASE n # name
    <3>1. n \in DOMAIN d.auctions /\ d2.auctions[n] = d.auctions[n]
      BY <1>1, <2>2
    <3>2. PICK q \in EndsFor(n) : EndFrom(d, n, q, past)
      BY <3>1 DEF RowsAre
    <3>3. p \notin EndsFor(n)
      BY <2>2, EndsAre DEF Named
    <3> QED
      BY <3>1, <3>2, <3>3 DEF EndFrom
  <2> QED
    BY <2>1, <2>2
<1>4. ASSUME NEW r \in past \cup {p}, IsStart(r) \/ IsEnd(r)
      PROVE  EventAt(r).name \in DOMAIN d2.auctions
  BY <1>1, <1>4 DEF RowsAre
<1>5. ASSUME NEW r \in past \cup {p}, IsEnd(r) PROVE d2.auctions[EventAt(r).name].claimed
  <2>1. r \in past
    BY <1>2, <1>5
  <2>2. EventAt(r).name \in DOMAIN d.auctions /\ d.auctions[EventAt(r).name].claimed
    BY <1>5, <2>1 DEF RowsAre
  <2> QED
    BY <1>1, <2>2
<1>6. ASSUME NEW n \in DOMAIN d2.auctions, d2.auctions[n].claimed
      PROVE  \E r \in ChainEvents : IsEnd(r) /\ Named(r, n)
  <2>1. n \in DOMAIN d.auctions /\ d.auctions[n].claimed
    BY <1>1, <1>6
  <2> QED
    BY <2>1 DEF RowsAre
<1> QED
  BY <1>3, <1>4, <1>5, <1>6 DEF RowsAre

\* The end of an auction comes after its start.
LEMMA StartsBefore ==
    ASSUME WellFormedHistory(chain), AuctionsStart(chain), NEW p \in ChainEvents, IsEnd(p)
    PROVE  \E s \in EventsBefore(p) : IsStart(s) /\ Named(s, EventAt(p).name)
<1>1. p = <<p[1], p[2]>> /\ p[1] \in Checkpoints /\ p[2] \in Own(p[1])
  BY ChainEventIs
<1>2. /\ p[1] \in DOMAIN chain /\ p[2] \in DOMAIN chain[p[1]].events
      /\ chain[p[1]].events[p[2]] = EventAt(p)
      /\ Parses(EventAt(p), Packages)
  BY <1>1 DEF Checkpoints, Own, Events, EventAt
<1>3. \E c \in DOMAIN chain : \E i \in DOMAIN chain[c].events :
          /\ c < p[1] \/ (c = p[1] /\ i < p[2])
          /\ chain[c].events[i].kind = "AuctionStarted"
          /\ chain[c].events[i].name = EventAt(p).name
          /\ chain[c].events[i].package = EventAt(p).package
  BY <1>2 DEF AuctionsStart, IsEnd
<1>4. PICK c \in DOMAIN chain : \E i \in DOMAIN chain[c].events :
          /\ c < p[1] \/ (c = p[1] /\ i < p[2])
          /\ chain[c].events[i].kind = "AuctionStarted"
          /\ chain[c].events[i].name = EventAt(p).name
          /\ chain[c].events[i].package = EventAt(p).package
  BY <1>3
<1>5. PICK i \in DOMAIN chain[c].events :
          /\ c < p[1] \/ (c = p[1] /\ i < p[2])
          /\ chain[c].events[i].kind = "AuctionStarted"
          /\ chain[c].events[i].name = EventAt(p).name
          /\ chain[c].events[i].package = EventAt(p).package
  BY <1>4
<1>6. PICK s : s = <<c, i>>
  OBVIOUS
<1>7. EventAt(s) = chain[c].events[i]
  BY <1>6 DEF EventAt, Events
<1>8. c \in Checkpoints /\ i \in Own(c)
  BY <1>2, <1>5 DEF Parses, EventFields, Own, Events, Checkpoints
<1>9. s \in ChainEvents /\ Precedes(s, p)
  BY <1>5, <1>6, <1>8, ChainEventIs DEF Precedes
<1> QED
  BY <1>5, <1>7, <1>9 DEF EventsBefore, IsStart, Named

LEMMA RowsWithClaim ==
    ASSUME WellFormedHistory(chain), AuctionsStart(chain),
           NEW d, NEW d2, NEW p \in ChainEvents, RowsAre(d, EventsBefore(p)),
           IsEnd(p), ClaimSet(d, EventAt(p).name, d2)
    PROVE  RowsAre(d2, EventsBefore(p) \cup {p})
<1> PICK name : name = EventAt(p).name
  OBVIOUS
<1> PICK past : past = EventsBefore(p)
  OBVIOUS
<1>1. /\ DOMAIN d2.auctions = DOMAIN d.auctions
      /\ \A m \in DOMAIN d.auctions : m # name => d2.auctions[m] = d.auctions[m]
      /\ \A m \in DOMAIN d.auctions : d2.auctions[m].end = d.auctions[m].end
      /\ name \in DOMAIN d.auctions => d2.auctions[name].claimed
  BY DEF ClaimSet
<1>2. name \in DOMAIN d.auctions
  BY StartsBefore DEF RowsAre, Named
<1>3. ASSUME NEW n \in DOMAIN d.auctions PROVE \E q \in EndsFor(n) : EndFrom(d2, n, q, past \cup {p})
  <2>1. PICK q \in EndsFor(n) : EndFrom(d, n, q, past)
    BY DEF RowsAre
  <2>2. p \notin EndsFor(n)
    BY EndsAre DEF IsEnd
  <2> QED
    BY <1>1, <2>1, <2>2 DEF EndFrom
<1>4. ASSUME NEW r \in past \cup {p}, IsStart(r) \/ IsEnd(r)
      PROVE  EventAt(r).name \in DOMAIN d2.auctions
  BY <1>1, <1>2, <1>4 DEF RowsAre
<1>5. ASSUME NEW r \in past \cup {p}, IsEnd(r) PROVE d2.auctions[EventAt(r).name].claimed
  <2>1. CASE EventAt(r).name = name
    BY <1>1, <1>2, <2>1
  <2>2. CASE EventAt(r).name # name
    <3>1. r \in past
      BY <2>2
    <3>2. EventAt(r).name \in DOMAIN d.auctions /\ d.auctions[EventAt(r).name].claimed
      BY <1>5, <3>1 DEF RowsAre
    <3> QED
      BY <1>1, <2>2, <3>2
  <2> QED
    BY <2>1, <2>2
<1>6. ASSUME NEW n \in DOMAIN d2.auctions, d2.auctions[n].claimed
      PROVE  \E r \in ChainEvents : IsEnd(r) /\ Named(r, n)
  <2>1. CASE n = name
    BY <2>1 DEF Named
  <2>2. CASE n # name
    <3>1. n \in DOMAIN d.auctions /\ d.auctions[n].claimed
      BY <1>1, <1>6, <2>2
    <3> QED
      BY <3>1 DEF RowsAre
  <2> QED
    BY <2>1, <2>2
<1> QED
  BY <1>1, <1>3, <1>4, <1>5, <1>6 DEF RowsAre

LEMMA NextRows ==
    ASSUME TypeInv, TableTyped(db), OneInv, workers = 1, RowsInv, [Next]_vars
    PROVE  RowsInv'
<1>1. UNCHANGED chain
  BY ChainFixed
<1>2. RowsAre(db', Past') => RowsInv'
  BY <1>1, EndsFixed DEF RowsInv
<1>3. CASE UNCHANGED db /\ Past' \subseteq Past
  BY <1>2, <1>3, RowsFewer DEF RowsInv
<1>4. CASE /\ UNCHANGED db /\ Past' = Past \cup {Here}
           /\ EventAt(Here).kind \notin AuctionKinds
  <2>1. EventAt(Here).kind \notin {"AuctionStarted", "AuctionExtended", "AuctionFinalized"}
    BY <1>4 DEF AuctionKinds
  <2>2. db'.auctions = db.auctions /\ RowsAre(db, Past)
    BY <1>4 DEF RowsInv
  <2> QED
    BY <1>2, <1>4, <2>1, <2>2, RowsSame
<1>5. CASE StoreRows(1) /\ Past' = Past \cup {Here} /\ worker[1].stage = "store"
  <2>1. Here \in ChainEvents /\ Past = EventsBefore(Here)
    BY <1>5, HereIs
  <2>2. PICK p \in ChainEvents :
            /\ p = Here
            /\ EventAt(p).kind \in AuctionKinds
            /\ AuctionsWritten(db, EventAt(p), db')
    BY <1>5, OneFacts, StoreIs DEF Here, TypeInv
  <2>3. RowsAre(db, EventsBefore(p)) /\ AuctionsStart(chain) /\ WellFormedHistory(chain)
    BY <2>1, <2>2, OneFacts DEF RowsInv
  <2>4. CASE EventAt(p).kind \in {"AuctionStarted", "AuctionExtended"}
    <3>1. EndSet(db, EventAt(p).name, EventAt(p).end, db')
      BY <2>2, <2>4, RowUpserted
    <3> QED
      BY <1>2, <1>5, <2>1, <2>2, <2>3, <2>4, <3>1, RowsWithEnd
  <2>5. CASE EventAt(p).kind = "AuctionBid"
    <3>1. db'.auctions = db.auctions
      BY <2>2, <2>5 DEF AuctionsWritten
    <3>2. RowsAre(db', Past \cup {p})
      BY <2>5, <3>1, RowsSame DEF RowsInv
    <3> QED
      BY <1>2, <1>5, <2>2, <3>2
  <2>6. CASE EventAt(p).kind = "AuctionFinalized"
    <3>1. ClaimSet(db, EventAt(p).name, db')
      BY <2>2, <2>6, RowClaimed
    <3> QED
      BY <1>2, <1>5, <2>1, <2>2, <2>3, <2>6, <3>1, RowsWithClaim DEF IsEnd
  <2> QED
    BY <2>2, <2>4, <2>5, <2>6 DEF AuctionKinds
<1> QED
  BY <1>3, <1>4, <1>5, OneSteps

-----------------------------------------------------------------------------
(* What the database has when the indexer has caught up.                   *)

LEMMA LatestIs ==
    ASSUME WellFormedHistory(chain), NEW ps \in SUBSET ChainEvents, NEW q \in ps,
           \A r \in ps : r = q \/ Precedes(r, q)
    PROVE  LatestOf(ps) = q
<1>1. \A p \in ChainEvents : p = <<p[1], p[2]>> /\ p[1] \in Nat /\ p[2] \in Nat
  BY ChainEventIs
<1>2. \A r \in ps, s \in ps : ~(Precedes(r, s) /\ Precedes(s, r))
  BY <1>1 DEF Precedes
<1>3. PICK l : l = LatestOf(ps)
  OBVIOUS
<1>4. l \in ps /\ \A r \in ps : l = r \/ Precedes(r, l)
  BY <1>3 DEF LatestOf
<1> QED
  BY <1>2, <1>3, <1>4

LEMMA BidsComplete ==
    ASSUME ReadingInv, Ingest!NothingLost, BidsInv, CaughtUp
    PROVE  db.bids = ChainBids
<1>1. /\ progress = Len(chain) /\ Len(chain) \in Nat /\ Checkpoints = 1..Len(chain)
      /\ WellFormedHistory(chain)
  BY DEF CaughtUp, ReadingInv, WellFormedHistory, Checkpoints
<1>2. SavedProgress = Len(chain)
  BY <1>1, IndexerAssumption DEF SavedProgress
<1>3. \A c \in Checkpoints : AllStored(c)
  BY <1>1, <1>2, StoredCheckpointsAll DEF Ingest!NothingLost, SavedProgress
<1>4. ASSUME NEW p \in ChainEvents, EventAt(p).kind \in {"AuctionStarted", "AuctionBid"}
      PROVE  [bidder |-> EventAt(p).bidder, name |-> EventAt(p).name, bid |-> EventAt(p).bid]
                \in db.bids
  <2>1. p[1] \in Checkpoints /\ p[2] \in Own(p[1])
    BY <1>1, ChainEventIs
  <2>2. Stored(EventAt(p))
    BY <1>3, <2>1 DEF AllStored, EventAt
  <2> QED
    BY <1>4, <2>2 DEF Stored
<1>5. ChainBids \subseteq db.bids
  BY <1>4 DEF ChainBids, BidsAt, OfKind
<1> QED
  BY <1>5 DEF BidsInv, ChainBids

LEMMA RowsComplete ==
    ASSUME TypeInv, TableTyped(db), OneInv, RowsInv, workers = 1, CaughtUp
    PROVE  \A n \in DOMAIN db.auctions :
              /\ db.auctions[n].end = EventAt(LatestOf(EndsFor(n))).end
              /\ LastFinalized(n) => db.auctions[n].claimed
              /\ db.auctions[n].claimed => FinalizedOf(n) # {}
<1>1. WellFormedHistory(chain) /\ Len(chain) \in Nat /\ Checkpoints = 1..Len(chain)
  BY OneFacts
<1>2. Past = ChainEvents
  <2>1. SavedProgress = Len(chain)
    BY <1>1, IndexerAssumption DEF CaughtUp, SavedProgress
  <2>2. Complete = Len(chain)
    BY <2>1, OneFacts DEF OneInv
  <2>3. \A p \in ChainEvents : p[1] <= Len(chain)
    BY <1>1, ChainEventIs
  <2> QED
    BY <2>2, <2>3 DEF Past, PastAt
<1> TAKE n \in DOMAIN db.auctions
<1>3. db.auctions[n].end = EventAt(LatestOf(EndsFor(n))).end
  <2>1. PICK q \in EndsFor(n) : EndFrom(db, n, q, ChainEvents)
    BY <1>2 DEF RowsInv, RowsAre
  <2>2. EndsFor(n) \in SUBSET ChainEvents
    BY EndsAre
  <2>3. LatestOf(EndsFor(n)) = q
    BY <1>1, <2>1, <2>2, LatestIs DEF EndFrom
  <2> QED
    BY <2>1, <2>3 DEF EndFrom
<1>4. FinalizedOf(n) = {p \in ChainEvents : IsEnd(p) /\ Named(p, n)}
  BY DEF FinalizedOf, OfName, OfKind, ChainEvents, IsEnd, Named
<1>5. ASSUME db.auctions[n].claimed PROVE FinalizedOf(n) # {}
  BY <1>4, <1>5 DEF RowsInv, RowsAre
<1>6. ASSUME LastFinalized(n) PROVE db.auctions[n].claimed
  <2>1. PICK p \in ChainEvents : IsEnd(p) /\ EventAt(p).name = n
    BY <1>4, <1>6 DEF LastFinalized, Named
  <2> QED
    BY <1>2, <2>1 DEF RowsInv, RowsAre
<1> QED
  BY <1>3, <1>5, <1>6

LEMMA InitOne ==
    ASSUME Init, workers = 1
    PROVE  OneInv /\ RowsInv /\ Past = {}
<1>1. /\ SavedProgress = 0 /\ next = 0 /\ done = {} /\ worker[1] = Idle
      /\ WellFormedHistory(chain) /\ AuctionsStart(chain)
  BY IndexerAssumption DEF Init, SavedProgress, Workers
<1>2. At(1, "idle") /\ ~InCheckpoint(1) /\ Complete = 0 /\ Dealt(worker[1]) = {}
  BY <1>1, NothingDealt DEF At, InCheckpoint, Idle, Complete, CompleteAt
<1>3. OneInv
  BY <1>1, <1>2 DEF OneInv
<1>4. \A p \in ChainEvents : p[1] \in Nat \ {0}
  BY <1>1, ChainEventIs
<1>5. Past = {}
  BY <1>2, <1>4 DEF Past, PastAt
<1>6. DOMAIN db.auctions = {}
  BY DEF Init, EmptyDb
<1>7. RowsAre(db, {})
  BY <1>6 DEF RowsAre
<1> QED
  BY <1>1, <1>3, <1>5, <1>7 DEF RowsInv

RowsPart == workers = 1 => OneInv /\ RowsInv

\* Replays and several workers change nothing in the bids, and with one worker
\* the row of an auction has the last end the chain says, is claimed if the last
\* auction of its name was finalized, and not before one was.
THEOREM RowsCorrect == Spec => []RowsConverge
<1> DEFINE Inv == TypeInv /\ BidsInv /\ TableTyped(db) /\ RowsPart
<1>1. Init => Inv
  <2>1. Init => BidsInv /\ TableTyped(db)
    BY DEF Init, BidsInv, TableTyped, EmptyDb
  <2> QED
    BY <2>1, InitTyped, InitOne DEF RowsPart
<1>2. Inv /\ [Next]_vars => Inv'
  <2> SUFFICES ASSUME Inv, [Next]_vars PROVE Inv'
    OBVIOUS
  <2>1. TypeInv'
    BY NextTypes
  <2>2. BidsInv' /\ TableTyped(db)'
    BY NextBids, NextTable DEF TypeInv
  <2>3. RowsPart'
    BY ChainFixed, OneSteps, NextRows DEF RowsPart
  <2> QED
    BY <2>1, <2>2, <2>3
<1>3. Inv /\ Ingest!NothingLost => RowsConverge
  <2> SUFFICES ASSUME Inv, Ingest!NothingLost, CaughtUp PROVE RowsConverge
    BY DEF RowsConverge
  <2>1. db.bids = BidsAt(EventsTo(Len(chain)))
    BY BidsComplete DEF TypeInv, ChainBids, ChainEvents
  <2>2. ASSUME workers = 1, NEW n \in DOMAIN db.auctions
        PROVE  /\ db.auctions[n].end = EventAt(LatestOf(EndsFor(n))).end
               /\ LastFinalized(n) => db.auctions[n].claimed
               /\ db.auctions[n].claimed => FinalizedOf(n) # {}
    BY <2>2, RowsComplete DEF RowsPart
  <2> QED
    BY <2>1, <2>2 DEF RowsConverge
<1> HIDE DEF Inv
<1> QED
  BY <1>1, <1>2, <1>3, NoCheckpointLost, PTL DEF Spec

-----------------------------------------------------------------------------
(* What the events of the chain make of a metric.                          *)

LEMMA ChainEventsFinite ==
    ASSUME WellFormedHistory(chain)
    PROVE  IsFiniteSet(ChainEvents)
<1>1. Len(chain) \in Nat /\ Checkpoints = 1..Len(chain)
  BY DEF WellFormedHistory, Checkpoints
<1>2. /\ \A p \in ChainEvents : p = <<p[1], p[2]>> /\ p[1] \in Checkpoints /\ p[2] \in Own(p[1])
      /\ \A c \in Checkpoints : Own(c) \subseteq 1..Len(Events(c)) /\ Len(Events(c)) \in Nat
  BY ChainEventIs DEF WellFormedHistory, Checkpoints, Own, Events
<1> DEFINE To(k) == {p \in ChainEvents : p[1] <= k}
           G == {k \in 0..Len(chain) : IsFiniteSet(To(k))}
<1>3. 0 \in G
  <2>1. To(0) = {}
    BY <1>1, <1>2
  <2> QED
    BY <1>1, <2>1, FS_EmptySet
<1>4. ASSUME NEW k \in 0..(Len(chain) - 1), k \in G PROVE k + 1 \in G
  <2>1. PICK c \in Checkpoints : c = k + 1
    BY <1>1
  <2>2. PICK n \in Nat : Own(c) \subseteq 1..n
    BY <1>2
  <2> DEFINE f == [i \in 1..n |-> <<c, i>>]
             T == {f[i] : i \in 1..n}
  <2>3. IsFiniteSet(T)
    <3>1. f \in Surjection(1..n, T)
      BY DEF Surjection
    <3>2. IsFiniteSet(1..n)
      BY FS_Interval
    <3> HIDE DEF f, T
    <3> QED
      BY <3>1, <3>2, FS_Surjection
  <2>4. To(k + 1) \subseteq To(k) \cup T
    <3>1. ASSUME NEW p \in To(k + 1), p \notin To(k) PROVE p \in T
      <4>1. p[1] = c /\ p[2] \in 1..n /\ p = <<p[1], p[2]>>
        BY <1>1, <1>2, <2>1, <2>2, <3>1
      <4>2. p = f[p[2]]
        BY <4>1
      <4> QED
        BY <4>1, <4>2
    <3> QED
      BY <3>1
  <2>5. IsFiniteSet(To(k))
    BY <1>4
  <2> HIDE DEF T, To
  <2>6. IsFiniteSet(To(k + 1))
    BY <2>3, <2>4, <2>5, FS_Union, FS_Subset
  <2> QED
    BY <1>1, <2>6 DEF G
<1>5. To(Len(chain)) = ChainEvents
  BY <1>1, <1>2
<1> HIDE DEF To
<1>6. Len(chain) \in G
  <2> HIDE DEF G
  <2> QED
    BY <1>1, <1>3, <1>4, UpTo
<1> QED
  BY <1>5, <1>6 DEF G

Gauged == {"balance", "auction_house_balance"}
Tally == "auction_bid_count_distribution"

\* No event moves a gauge of a balance, or the tally of the bids.
LEMMA CountsApart ==
    ASSUME NEW e, e.kind \in DOMAIN EventFields, NEW m \in DOMAIN Counts(e)
    PROVE  m[1] \notin Gauged \cup {Tally}
<1> DEFINE Apart(f) == \A k \in DOMAIN f : k[1] \notin Gauged \cup {Tally}
<1>1. ASSUME NEW a, a \notin Gauged \cup {Tally}, NEW l, NEW n PROVE Apart(AddAt(a, l, n))
  BY <1>1 DEF AddAt
<1>2. \A a, n : a \notin Gauged \cup {Tally} => Apart(Add(a, n))
  BY <1>1 DEF Add
<1>3. Apart(NoChange)
  BY DEF NoChange
<1>4. \A c, n : c \notin Gauged \cup {Tally} => Apart(RecordCounts(e, c, n))
  BY DEF RecordCounts, Gauged, Tally
<1>5. \A ns : (DOMAIN ns) \cap (Gauged \cup {Tally}) = {} => Apart(AddEach(ns))
  BY DEF AddEach
<1> HIDE DEF Apart
<1>6. Apart(Counts(e))
  <2>1. CASE e.kind = "AuctionFinalized"
    <3> DEFINE ns == [auctions_finalized |-> 1, auction_final_prices |-> e.bid,
                      auction_durations |-> e.end - e.start]
    <3>1. (DOMAIN ns) \cap (Gauged \cup {Tally}) = {}
      BY DEF Gauged, Tally
    <3>2. Counts(e) = AddEach(ns)
      BY <2>1 DEF Counts
    <3> HIDE DEF ns
    <3> QED
      BY <1>5, <3>1, <3>2
  <2>2. CASE e.kind = "CouponApplied"
    <3>1. PICK a \in {"percentage_discounts", "fixed_discounts"} : Counts(e) = Add(a, e.discount)
      BY <2>2 DEF Counts
    <3> QED
      BY <1>2, <3>1 DEF Gauged, Tally
  <2>3. CASE e.kind = "NameRecordAdded"
    <3>1. Counts(e) = RecordCounts(e, "records_added", 1)
      BY <2>3 DEF Counts
    <3> QED
      BY <1>4, <3>1 DEF Gauged, Tally
  <2>4. CASE e.kind = "NameRecordRemoved"
    <3>1. Counts(e) = RecordCounts(e, "records_removed", -1)
      BY <2>4 DEF Counts
    <3> QED
      BY <1>4, <3>1 DEF Gauged, Tally
  <2>5. CASE e.kind \in {"AuctionStarted", "TargetAddressSet", "ReverseLookupSet",
                         "ReverseLookupUnset"}
    <3>1. \E a \in {"auctions_started", "target_addresses", "default_names"}, n \in {1, -1} :
              Counts(e) = Add(a, n)
      BY <2>5 DEF Counts
    <3> QED
      BY <1>2, <3>1 DEF Gauged, Tally
  <2>6. CASE e.kind \in {"UserDataSet", "UserDataUnset"}
    <3>1. \/ Counts(e) = NoChange
          \/ \E n \in {1, -1} : Counts(e) = AddAt("user_data_distribution", e.key, n)
      BY <2>6 DEF Counts
    <3> QED
      BY <1>1, <1>3, <3>1 DEF Gauged, Tally
  <2>7. CASE e.kind = "Transaction"
    <3>1. \/ Counts(e) = Add("purchases", 1)
          \/ Counts(e) = AddAt("renewal_years_distribution", e.years, 1)
      BY <2>7 DEF Counts
    <3> QED
      BY <1>1, <1>2, <3>1 DEF Gauged, Tally
  <2>8. CASE e.kind \in {"NodeSubnameCreated", "NodeSubnameBurned", "LeafSubnameCreated",
                         "LeafSubnameRemoved"}
    <3>1. \E a \in {"node_subnames", "leaf_subnames"}, n \in {1, -1} : Counts(e) = Add(a, n)
      BY <2>8 DEF Counts
    <3> QED
      BY <1>2, <3>1 DEF Gauged, Tally
  <2>9. CASE e.kind \in {"AuctionBid", "AuctionExtended"}
    BY <1>3, <2>9 DEF Counts
  <2> QED
    BY <2>1, <2>2, <2>3, <2>4, <2>5, <2>6, <2>7, <2>8, <2>9 DEF EventFields
<1> QED
  BY <1>6 DEF Apart

BalanceOf(m, c) == IF m[1] = "balance" THEN chain[c].balance ELSE chain[c].house

LEMMA LastBalanceStep ==
    ASSUME NEW m, NEW k \in Nat
    PROVE  /\ BalanceOf(m, k + 1) # NoBalance => LastBalance(m, k + 1) = BalanceOf(m, k + 1)
           /\ BalanceOf(m, k + 1) = NoBalance => LastBalance(m, k + 1) = LastBalance(m, k)
           /\ LastBalance(m, 0) = 0
<1> DEFINE set(n) == {c \in 1..n : BalanceOf(m, c) # NoBalance}
           last(n) == CHOOSE c \in set(n) : \A d \in set(n) : d <= c
<1>1. ASSUME NEW n \in Nat
      PROVE  LastBalance(m, n) = IF set(n) = {} THEN 0 ELSE BalanceOf(m, last(n))
  BY Zenon DEF LastBalance, BalanceOf
<1>2. ASSUME BalanceOf(m, k + 1) # NoBalance PROVE LastBalance(m, k + 1) = BalanceOf(m, k + 1)
  <2>1. k + 1 \in set(k + 1) /\ \A d \in set(k + 1) : d \in Nat /\ d <= k + 1
    BY <1>2
  <2>2. last(k + 1) \in set(k + 1) /\ \A d \in set(k + 1) : d <= last(k + 1)
    <3> HIDE DEF set
    <3> QED
      BY <2>1
  <2> HIDE DEF set, last
  <2>3. last(k + 1) = k + 1
    BY <2>1, <2>2
  <2> QED
    BY <1>1, <2>1, <2>3
<1>3. ASSUME BalanceOf(m, k + 1) = NoBalance PROVE LastBalance(m, k + 1) = LastBalance(m, k)
  <2>1. \A c \in 1..(k + 1) : c \in 1..k \/ c = k + 1
    OBVIOUS
  <2>2. set(k + 1) = set(k)
    BY <1>3, <2>1
  <2>3. last(k + 1) = last(k)
    BY <2>2
  <2> HIDE DEF set, last
  <2> QED
    BY <1>1, <2>2, <2>3
<1>4. LastBalance(m, 0) = 0
  <2>1. set(0) = {}
    OBVIOUS
  <2> HIDE DEF set, last
  <2> QED
    BY <1>1, <2>1
<1> QED
  BY <1>2, <1>3, <1>4

\* The value of a metric where the balances are those after k checkpoints, and
\* the events in counted and the auctions in tallied are all that were added.
TalliedAs(m, tallied) == {p \in tallied : IsEnd(p) /\ BidsBefore(p) = m[2]}
ValueAt(m, k, counted, tallied) ==
    CASE m[1] \in Gauged -> LastBalance(m, k)
      [] m[1] = Tally -> Cardinality(TalliedAs(m, tallied))
      [] OTHER -> SumFunctionOnSet(Moves(m), counted)

Exact(followed, ms, k, counted, tallied) ==
    \A m \in followed : ms[m] = ValueAt(m, k, counted, tallied)

\* The cases of it apart.
LEMMA ExactIs ==
    ASSUME NEW F, NEW ms, NEW k, NEW C, NEW T
    PROVE  Exact(F, ms, k, C, T) <=>
              /\ \A m \in F : m[1] \in Gauged => ms[m] = LastBalance(m, k)
              /\ \A m \in F : m[1] = Tally => ms[m] = Cardinality(TalliedAs(m, T))
              /\ \A m \in F : m[1] \notin Gauged \cup {Tally} =>
                                  ms[m] = SumFunctionOnSet(Moves(m), C)
<1>1. Tally \notin Gauged
  BY DEF Tally, Gauged
<1> QED
  BY <1>1 DEF Exact, ValueAt

LEMMA ZeroValue ==
    ASSUME NEW m
    PROVE  ValueAt(m, 0, {}, {}) = 0
<1>1. LastBalance(m, 0) = 0
  BY LastBalanceStep
<1>2. TalliedAs(m, {}) = {}
  BY DEF TalliedAs
<1>3. SumFunctionOnSet(Moves(m), {}) = 0
  BY SumEmpty
<1> QED
  BY <1>1, <1>2, <1>3, FS_EmptySet DEF ValueAt

LEMMA MovesTyped ==
    ASSUME WellFormedHistory(chain), NEW m, NEW p \in ChainEvents
    PROVE  /\ Moves(m)[p] \in Int
           /\ m \in DOMAIN Counts(EventAt(p)) => Moves(m)[p] = Counts(EventAt(p))[m]
           /\ m \notin DOMAIN Counts(EventAt(p)) => Moves(m)[p] = 0
<1>1. Moves(m)[p] = IF m \in DOMAIN Counts(EventAt(p)) THEN Counts(EventAt(p))[m] ELSE 0
  BY DEF Moves, ChainEvents
<1>2. WellFormedEvent(EventAt(p)) /\ EventAt(p).kind \in DOMAIN EventFields
  BY DEF ChainEvents, EventsTo, EventAt, Events, WellFormedHistory, Parses
<1>3. \A n \in DOMAIN Counts(EventAt(p)) : Counts(EventAt(p))[n] \in Int
  BY <1>2, CountsTyped
<1> QED
  BY <1>1, <1>3

\* Counting an event adds what it moves.
LEMMA ExactCounts ==
    ASSUME WellFormedHistory(chain), NEW F \in SUBSET Metrics, NEW ms, DOMAIN ms = Metrics,
           NEW k, NEW C \in SUBSET ChainEvents, NEW T, Exact(F, ms, k, C, T),
           NEW p \in ChainEvents, p \notin C
    PROVE  Exact(F, Apply(ms, Counts(EventAt(p))), k, C \cup {p}, T)
<1> PICK change : change = Counts(EventAt(p))
  OBVIOUS
<1>1. EventAt(p).kind \in DOMAIN EventFields
  BY DEF ChainEvents, EventsTo, Parses
<1>2. PICK ms2 : ms2 = Apply(ms, change)
  OBVIOUS
<1>3. \A m \in F : /\ m \in DOMAIN change => ms2[m] = ms[m] + change[m]
                   /\ m \notin DOMAIN change => ms2[m] = ms[m]
  BY <1>2 DEF Apply
<1>4. \A m \in F : m[1] \in Gauged \cup {Tally} => ms2[m] = ms[m]
  BY <1>1, <1>3, CountsApart
<1>5. ASSUME NEW m \in F, m[1] \notin Gauged \cup {Tally}
      PROVE  ms2[m] = SumFunctionOnSet(Moves(m), C \cup {p})
  <2>1. ms[m] = SumFunctionOnSet(Moves(m), C)
    BY <1>5, ExactIs
  <2>2. IsFiniteSet(C)
    BY ChainEventsFinite, FS_Subset
  <2>3. \A q \in C \cup {p} : Moves(m)[q] \in Int
    BY MovesTyped
  <2>4. SumFunctionOnSet(Moves(m), C \cup {p}) = SumFunctionOnSet(Moves(m), C) + Moves(m)[p]
    BY <2>2, <2>3, SumAdd
  <2>5. SumFunctionOnSet(Moves(m), C) \in Int
    BY <2>2, <2>3, SumType
  <2>6. /\ m \in DOMAIN change => Moves(m)[p] = change[m]
        /\ m \notin DOMAIN change => Moves(m)[p] = 0
    BY MovesTyped
  <2> QED
    BY <1>3, <2>1, <2>4, <2>5, <2>6
<1>6. Exact(F, ms2, k, C \cup {p}, T)
  BY <1>4, <1>5, ExactIs
<1> QED
  BY <1>2, <1>6

\* And nothing where it moves none.
LEMMA ExactNoChange ==
    ASSUME WellFormedHistory(chain), NEW F, NEW ms,
           NEW k, NEW C \in SUBSET ChainEvents, NEW T, Exact(F, ms, k, C, T),
           NEW p \in ChainEvents, p \notin C, Counts(EventAt(p)) = NoChange
    PROVE  Exact(F, ms, k, C \cup {p}, T)
<1>1. ASSUME NEW m PROVE SumFunctionOnSet(Moves(m), C \cup {p}) = SumFunctionOnSet(Moves(m), C)
  <2>1. IsFiniteSet(C)
    BY ChainEventsFinite, FS_Subset
  <2>2. \A q \in C \cup {p} : Moves(m)[q] \in Int
    BY MovesTyped
  <2>3. SumFunctionOnSet(Moves(m), C \cup {p}) = SumFunctionOnSet(Moves(m), C) + Moves(m)[p]
    BY <2>1, <2>2, SumAdd
  <2>4. SumFunctionOnSet(Moves(m), C) \in Int
    BY <2>1, <2>2, SumType
  <2>5. Moves(m)[p] = 0
    BY MovesTyped DEF NoChange
  <2> QED
    BY <2>3, <2>4, <2>5
<1> QED
  BY <1>1, ExactIs

\* The end of an auction is tallied under the bids before it.
LEMMA ExactTally ==
    ASSUME WellFormedHistory(chain), NEW F \in SUBSET Metrics, NEW ms, DOMAIN ms = Metrics,
           NEW k, NEW C, NEW T \in SUBSET ChainEvents, Exact(F, ms, k, C, T),
           NEW p \in ChainEvents, p \notin T, IsEnd(p)
    PROVE  Exact(F, Apply(ms, TallyOf(BidsBefore(p))), k, C, T \cup {p})
<1> PICK change : change = TallyOf(BidsBefore(p))
  OBVIOUS
<1>1. /\ DOMAIN change = {<<Tally, BidsBefore(p)>>}
      /\ change[<<Tally, BidsBefore(p)>>] = 1
  BY DEF TallyOf, AddAt, Tally
<1>2. PICK ms2 : ms2 = Apply(ms, change)
  OBVIOUS
<1>3. \A m \in F : /\ m \in DOMAIN change => ms2[m] = ms[m] + change[m]
                   /\ m \notin DOMAIN change => ms2[m] = ms[m]
  BY <1>2 DEF Apply
<1>4. \A m \in F : m[1] # Tally => ms2[m] = ms[m]
  BY <1>1, <1>3
<1>5. ASSUME NEW m \in F, m[1] = Tally PROVE ms2[m] = Cardinality(TalliedAs(m, T \cup {p}))
  <2>1. ms[m] = Cardinality(TalliedAs(m, T))
    BY <1>5, ExactIs
  <2>2. m = <<m[1], m[2]>>
    BY IndexerAssumption
  <2>3. IsFiniteSet(TalliedAs(m, T)) /\ p \notin TalliedAs(m, T)
    BY ChainEventsFinite, FS_Subset DEF TalliedAs
  <2>4. CASE BidsBefore(p) = m[2]
    <3>1. TalliedAs(m, T \cup {p}) = TalliedAs(m, T) \cup {p}
      BY <2>4 DEF TalliedAs
    <3>2. Cardinality(TalliedAs(m, T) \cup {p}) = Cardinality(TalliedAs(m, T)) + 1
      BY <2>3, FS_AddElement
    <3>3. ms2[m] = ms[m] + 1
      BY <1>1, <1>3, <1>5, <2>2, <2>4
    <3> QED
      BY <2>1, <3>1, <3>2, <3>3
  <2>5. CASE BidsBefore(p) # m[2]
    <3>1. TalliedAs(m, T \cup {p}) = TalliedAs(m, T)
      BY <2>5 DEF TalliedAs
    <3>2. m \notin DOMAIN change
      BY <1>1, <2>5
    <3> QED
      BY <1>3, <2>1, <3>1, <3>2
  <2> QED
    BY <2>4, <2>5
<1>6. Exact(F, ms2, k, C, T \cup {p})
  BY <1>4, <1>5, ExactIs DEF Gauged, Tally
<1> QED
  BY <1>2, <1>6

\* Other events are not.
LEMMA ExactNoTally ==
    ASSUME NEW F, NEW ms, NEW k, NEW C, NEW T, Exact(F, ms, k, C, T), NEW p, ~IsEnd(p)
    PROVE  Exact(F, ms, k, C, T \cup {p})
<1>1. \A m : TalliedAs(m, T \cup {p}) = TalliedAs(m, T)
  BY DEF TalliedAs
<1> QED
  BY <1>1, ExactIs

\* The balances of the next checkpoint, which may name none.
LEMMA ExactBalances ==
    ASSUME NEW F \in SUBSET Metrics, NEW ms, DOMAIN ms = Metrics,
           NEW k \in Nat, NEW C, NEW T, Exact(F, ms, k, C, T),
           NEW named, named = IF chain[k + 1].balance = NoBalance THEN ms
                              ELSE SetGauge(ms, "balance", chain[k + 1].balance),
           NEW ms2, ms2 = IF chain[k + 1].house = NoBalance THEN named
                          ELSE SetGauge(named, "auction_house_balance", chain[k + 1].house)
    PROVE  Exact(F, ms2, k + 1, C, T)
<1>1. ASSUME NEW m \in F, m[1] \in Gauged PROVE ms2[m] = LastBalance(m, k + 1)
  <2>1. m = <<m[1], NoLabel>> /\ ms[m] = LastBalance(m, k)
    BY <1>1, ExactIs, IndexerAssumption DEF Gauged
  <2>2. DOMAIN named = Metrics
    BY DEF SetGauge
  <2>3. CASE m[1] = "balance"
    <3>1. m # <<"auction_house_balance", NoLabel>>
      BY <2>3
    <3>2. ms2[m] = named[m]
      BY <2>2, <3>1 DEF SetGauge
    <3>3. named[m] = IF chain[k + 1].balance = NoBalance THEN ms[m] ELSE chain[k + 1].balance
      BY <2>1, <2>3 DEF SetGauge
    <3> QED
      BY <2>1, <2>3, <3>2, <3>3, LastBalanceStep DEF BalanceOf
  <2>4. CASE m[1] = "auction_house_balance"
    <3>1. m # <<"balance", NoLabel>>
      BY <2>4
    <3>2. named[m] = ms[m]
      BY <3>1 DEF SetGauge
    <3>3. ms2[m] = IF chain[k + 1].house = NoBalance THEN ms[m] ELSE chain[k + 1].house
      BY <2>1, <2>2, <2>4, <3>2 DEF SetGauge
    <3> QED
      BY <2>1, <2>4, <3>3, LastBalanceStep DEF BalanceOf
  <2> QED
    BY <1>1, <2>3, <2>4 DEF Gauged
<1>2. ASSUME NEW m \in F, m[1] \notin Gauged PROVE ms2[m] = ms[m]
  BY <1>2 DEF SetGauge, Gauged
<1> QED
  BY <1>1, <1>2, ExactIs DEF Gauged, Tally

LEMMA ExactNoBalance ==
    ASSUME NEW F, NEW ms, NEW k \in Nat, NEW C, NEW T, Exact(F, ms, k, C, T), ~HasBalance(k + 1)
    PROVE  Exact(F, ms, k + 1, C, T)
<1>1. \A m : BalanceOf(m, k + 1) = NoBalance
  BY DEF HasBalance, BalanceOf
<1> QED
  BY <1>1, LastBalanceStep, ExactIs

-----------------------------------------------------------------------------
(* One worker: the metrics.                                                *)

\* Up to which checkpoint the gauges show balances, which events have been
\* counted, and which ends of auctions tallied.
Balanced == IF worker[1].stage \in {"idle", "failed", "balances"} THEN Complete ELSE Complete + 1
Counted == IF At(1, "store") /\ Counts(Current(1)) # NoChange THEN Past \cup {Here} ELSE Past
Tallied == IF At(1, "tally") THEN Past \ {Here} ELSE Past

\* The metrics that are right: in the first life all of them, then those that
\* were restored; and where they are while there is no process.
Followed == {m \in Metrics : (phase # "down" /\ lives = 1) \/ Restores(m[1], Queries)}
Shown == IF phase = "down" THEN scraped ELSE metrics

MetricsInv ==
    ~At(1, "failed") =>
        /\ db.bids = BidsAt(Past)
        /\ At(1, "tally") => IsEnd(Here) /\ worker[1].bids = BidsBefore(Here)
        /\ Exact(Followed, Shown, Balanced, Counted, Tallied)

LEMMA BidsSame ==
    ASSUME UNCHANGED chain
    PROVE  /\ \A p : EventAt(p)' = EventAt(p)
           /\ \A ps : BidsAt(ps)' = BidsAt(ps)
           /\ \A p : BidsBefore(p)' = BidsBefore(p)
<1>1. \A p : EventAt(p)' = EventAt(p)
  BY DEF EventAt, Events
<1>2. \A ps : BidsAt(ps)' = BidsAt(ps)
  BY <1>1 DEF BidsAt, OfKind
<1>3. \A n : EventsTo(n)' = EventsTo(n)
  BY DEF EventsTo, EventAt, Events
<1>4. \A p : BidsBefore(p)' = BidsBefore(p)
  BY <1>1, <1>2, <1>3 DEF BidsBefore, Precedes
<1> QED
  BY <1>1, <1>2, <1>4

LEMMA ExactSame ==
    ASSUME UNCHANGED chain
    PROVE  \A F, ms, k, C, T : Exact(F, ms, k, C, T)' <=> Exact(F, ms, k, C, T)
<1>1. \A m, k : LastBalance(m, k)' = LastBalance(m, k)
  BY DEF LastBalance
<1>2. \A m, T : TalliedAs(m, T)' = TalliedAs(m, T)
  BY BidsSame DEF TalliedAs, IsEnd
<1>3. \A m : Moves(m)' = Moves(m)
  BY DEF Moves, EventsTo, EventAt, Events
<1>4. \A m, k, C, T : ValueAt(m, k, C, T)' = ValueAt(m, k, C, T)
  BY <1>1, <1>2, <1>3 DEF ValueAt
<1> QED
  BY <1>4 DEF Exact

LEMMA MetricsNext ==
    ASSUME UNCHANGED <<chain, workers>>,
           worker'[1].stage # "failed" =>
              /\ db'.bids = BidsAt(Past')
              /\ worker'[1].stage = "tally" => IsEnd(Here') /\ worker'[1].bids = BidsBefore(Here')
              /\ Exact(Followed', Shown', Balanced', Counted', Tallied')
    PROVE  MetricsInv'
BY BidsSame, ExactSame DEF MetricsInv, At, IsEnd

\* The first start finds nothing, and what is read is read by a process.
LifeInv ==
    /\ phase = "down" => live = {} /\ next = 0
    /\ phase # "down" => lives > 0
    /\ lives = 0 => progress = NoFile /\ scraped = NoCounts

LEMMA NextLife ==
    ASSUME LifeInv, lives \in Nat, [Next]_vars
    PROVE  LifeInv'
<1> USE DEF persistent, process, reading
<1>1. NoCounts' = NoCounts
  BY DEF NoCounts
<1>2. CASE Lifecycle
  <2>1. CASE \E n \in 0..Queries : Start(n)
    BY <2>1 DEF Start, LifeInv
  <2>2. CASE StartFails
    BY <2>2 DEF StartFails, LifeInv
  <2>3. CASE \E t \in Tasks : TaskEnds(t) \/ TaskFails(t)
    BY <1>1, <2>3 DEF TaskEnds, TaskFails, EndTask, LifeInv
  <2>4. CASE Join \/ Interrupt \/ SecondInterrupt
    BY <1>1, <2>4 DEF Join, Interrupt, SecondInterrupt, LifeInv
  <2>5. CASE Exit \/ Kill
    BY <1>1, <2>5 DEF Exit, Kill, Down, LifeInv
  <2> QED
    BY <1>2, <2>1, <2>2, <2>3, <2>4, <2>5 DEF Lifecycle
<1>3. CASE Scrape \/ Stale
  BY <1>1, <1>3 DEF Scrape, Stale, LifeInv
<1>4. CASE OpenProgress \/ SaveProgress
  BY <1>4 DEF OpenProgress, SaveProgress, LifeInv
<1>5. ASSUME NEW w \in Workers, Assign(w)
      PROVE  LifeInv'
  BY <1>1, <1>5 DEF Assign, LifeInv
<1>6. ASSUME NEW w \in Workers, Process(w) \/ Fail(w)
      PROVE  LifeInv'
  BY <1>1, <1>6 DEF Process, SetBalances, CountEvent, StoreRows, TallyBids, Finish, Fail, LifeInv
<1>7. CASE Answer
  BY <1>1, <1>7 DEF Answer, CountAuctions, ListAuctions, LifeInv
<1>8. CASE UNCHANGED vars
  BY <1>1, <1>8 DEF vars, LifeInv
<1> QED
  BY <1>2, <1>3, <1>4, <1>5, <1>6, <1>7, <1>8 DEF Next, Read

\* An event a worker is turned to that it does not count moves nothing.
LEMMA TurnCounts ==
    ASSUME WellFormedHistory(chain), NEW c \in Checkpoints, NEW pos \in Nat,
           NEW t, t = Turn(c, pos), t.stage = "store"
    PROVE  Counts(Events(c)[t.pos]) = NoChange
<1> DEFINE own == {i \in DOMAIN Events(c) : i > pos /\ Parses(Events(c)[i], Packages)}
           first == CHOOSE i \in own : \A j \in own : i <= j
<1>1. t = IF own = {} THEN [stage |-> "end", cp |-> c, pos |-> pos]
          ELSE [stage |-> IF WritesOnly(Events(c)[first]) THEN "store" ELSE "count",
                cp |-> c, pos |-> first]
  BY Zenon DEF Turn
<1> HIDE DEF own, first
<1>2. t.pos = first /\ WritesOnly(Events(c)[first])
  BY <1>1
<1> QED
  BY <1>2 DEF WritesOnly

\* A worker that has been turned has counted and tallied all it has dealt with.
LEMMA TurnedTo ==
    ASSUME TypeInv, OneInv, workers = 1, UNCHANGED <<chain, workers>>,
           NEW c \in Checkpoints, NEW pos \in Nat, TurnTo(1, Turn(c, pos))
    PROVE  /\ worker'[1].stage \in {"count", "store", "end"}
           /\ Balanced' = Complete' + 1 /\ Counted' = Past' /\ Tallied' = Past'
<1>1. PICK t : t = Turn(c, pos) /\ worker'[1] = t
  BY OneFacts DEF TurnTo
<1>2. t.cp = c /\ t.stage \in {"count", "store", "end"}
  BY <1>1 DEF Turn
<1>3. t.stage = "store" => Counts(Events(c)[t.pos]) = NoChange
  BY <1>1, OneFacts, TurnCounts
<1>4. At(1, "store")' => Counts(Current(1))' = NoChange
  BY <1>1, <1>2, <1>3 DEF At, Current, Events
<1> QED
  BY <1>1, <1>2, <1>4 DEF Balanced, Counted, Tallied, At

\* A worker that is reading is one of a process.
LEMMA Running ==
    ASSUME LifeInv, phase # "down", UNCHANGED <<phase, lives>>
    PROVE  Shown = metrics /\ Shown' = metrics' /\ Followed' = Followed
BY DEF Shown, Followed

LEMMA Reads ==
    ASSUME TypeInv, LifeInv, OneInv, workers = 1
    PROVE  /\ "reader" \in live => phase # "down"
           /\ worker[1].stage # "idle" => phase # "down"
BY DEF LifeInv, OneInv, At

LEMMA MetricsQuiet ==
    ASSUME MetricsInv, UNCHANGED <<chain, workers, worker, db>>,
           Past' = Past, Complete' = Complete,
           Followed' \subseteq Followed, \A m \in Followed' : Shown'[m] = Shown[m]
    PROVE  MetricsInv'
<1>1. At(1, "store")' = At(1, "store") /\ Counts(Current(1))' = Counts(Current(1)) /\ Here' = Here
  BY DEF At, Current, Events, Here
<1>2. Balanced' = Balanced /\ Counted' = Counted /\ Tallied' = Tallied
  BY <1>1 DEF Balanced, Counted, Tallied, At
<1>3. CASE worker[1].stage # "failed"
  <2>1. /\ db.bids = BidsAt(Past)
        /\ worker[1].stage = "tally" => IsEnd(Here) /\ worker[1].bids = BidsBefore(Here)
        /\ Exact(Followed, Shown, Balanced, Counted, Tallied)
    BY <1>3 DEF MetricsInv, At
  <2>2. Exact(Followed', Shown', Balanced, Counted, Tallied)
    BY <2>1 DEF Exact
  <2> QED
    BY <1>1, <1>2, <2>1, <2>2, MetricsNext
<1>4. CASE worker[1].stage = "failed"
  BY <1>4, MetricsNext
<1> QED
  BY <1>3, <1>4

\* The steps that leave the worker where it is.
LEMMA MetricsStart ==
    ASSUME TypeInv, LifeInv, OneInv, workers = 1, MetricsInv, Start(Queries)
    PROVE  MetricsInv'
<1>1. /\ UNCHANGED <<chain, workers, progress, db, scraped, next, worker, done>>
      /\ phase = "down" /\ phase' = "running" /\ metrics' = Restored(scraped, Queries)
      /\ lives' = lives + 1 /\ lives \in Nat
  BY DEF Start, persistent, reading, TypeInv, TypeOK
<1>2. Past' = Past /\ Complete' = Complete
  BY <1>1, OneQuiet
<1>3. next = 0 /\ At(1, "idle") /\ worker[1] = Idle
  BY <1>1, OneFacts DEF LifeInv, OneInv
<1>4. Balanced = Complete /\ Counted = Past /\ Tallied = Past
  BY <1>3 DEF Balanced, Counted, Tallied, At
<1>5. Shown = scraped /\ Shown' = metrics'
  BY <1>1 DEF Shown
<1>6. \A m \in Metrics : Restores(m[1], Queries) => metrics'[m] = scraped[m] /\ m \in Followed
  BY <1>1 DEF Restored, Followed, TypeInv, TypeOK
<1>7. \A m \in Metrics : ~Restores(m[1], Queries) => metrics'[m] = 0
  BY <1>1 DEF Restored, TypeInv, TypeOK
<1>8. db.bids = BidsAt(Past) /\ Exact(Followed, scraped, Complete, Past, Past)
  BY <1>3, <1>4, <1>5 DEF MetricsInv, At
<1>9. Exact(Followed', metrics', Complete, Past, Past)
  <2> SUFFICES ASSUME NEW m \in Followed'
               PROVE  metrics'[m] = ValueAt(m, Complete, Past, Past)
    BY DEF Exact
  <2>1. m \in Metrics /\ (lives' = 1 \/ Restores(m[1], Queries))
    BY <1>1 DEF Followed
  <2>2. CASE Restores(m[1], Queries)
    BY <1>6, <1>8, <2>1, <2>2 DEF Exact
  <2>3. CASE ~Restores(m[1], Queries)
    <3>1. lives = 0
      BY <1>1, <2>1, <2>3
    <3>2. Complete = 0
      BY <1>3, <3>1 DEF LifeInv, Complete, CompleteAt, SavedProgress
    <3>3. Past = {}
      <4>1. Dealt(worker[1]) = {}
        BY <1>3, NothingDealt DEF At
      <4>2. \A p \in ChainEvents : p[1] \in Nat \ {0}
        BY OneFacts, ChainEventIs
      <4> QED
        BY <3>2, <4>1, <4>2 DEF Past, PastAt
    <3> QED
      BY <1>7, <2>1, <2>3, <3>2, <3>3, ZeroValue
  <2> QED
    BY <2>2, <2>3
<1>10. Balanced' = Complete /\ Counted' = Past /\ Tallied' = Past
  BY <1>1, <1>2, <1>3 DEF Balanced, Counted, Tallied, At
<1> QED
  BY <1>1, <1>2, <1>3, <1>5, <1>8, <1>9, <1>10, MetricsNext DEF At

LEMMA MetricsDown ==
    ASSUME TypeInv, OneInv, workers = 1, MetricsInv, phase # "down", Down, Settled
    PROVE  MetricsInv'
<1>1. /\ UNCHANGED <<chain, workers, db, scraped>> /\ phase' = "down"
      /\ worker[1] = Idle /\ worker'[1] = Idle /\ Past' = Past /\ Complete' = Complete
      /\ scraped = metrics
  BY OneDown, OneFacts DEF Down, persistent, Settled, Workers
<1>2. Idle.stage = "idle"
  BY DEF Idle
<1>3. /\ Balanced = Complete /\ Counted = Past /\ Tallied = Past
      /\ Balanced' = Complete /\ Counted' = Past /\ Tallied' = Past
  BY <1>1, <1>2 DEF Balanced, Counted, Tallied, At
<1>4. Shown' = Shown /\ Followed' \subseteq Followed
  BY <1>1 DEF Shown, Followed
<1>5. db.bids = BidsAt(Past) /\ Exact(Followed, Shown, Complete, Past, Past)
  BY <1>1, <1>2, <1>3 DEF MetricsInv, At
<1>6. Exact(Followed', Shown', Complete, Past, Past)
  BY <1>4, <1>5 DEF Exact
<1> QED
  BY <1>1, <1>2, <1>3, <1>5, <1>6, MetricsNext

LEMMA MetricsOthers ==
    ASSUME TypeInv, LifeInv, OneInv, workers = 1, MetricsInv,
           UNCHANGED <<chain, workers, progress, db, next, worker, done>>,
           Followed' \subseteq Followed, \A m \in Followed' : Shown'[m] = Shown[m]
    PROVE  MetricsInv'
BY OneQuiet, MetricsQuiet

LEMMA MetricsLifecycle ==
    ASSUME TypeInv, LifeInv, OneInv, workers = 1, MetricsInv, clean',
           Lifecycle \/ Scrape \/ Stale \/ Answer \/ UNCHANGED vars
    PROVE  MetricsInv'
<1> USE DEF persistent, process, reading
<1>1. CASE \E n \in 0..Queries : Start(n)
  BY <1>1, MetricsStart DEF Start
<1>2. CASE StartFails
  <2>1. UNCHANGED <<chain, workers, progress, db, scraped, next, worker, done, phase>>
    BY <1>2 DEF StartFails
  <2>2. phase = "down"
    BY <1>2 DEF StartFails
  <2> QED
    BY <2>1, <2>2, MetricsOthers DEF Shown, Followed
<1>3. ASSUME UNCHANGED <<chain, workers, progress, db, scraped, next, worker, done, lives, metrics>>,
             phase = "down" <=> phase' = "down"
      PROVE  MetricsInv'
  BY <1>3, MetricsOthers DEF Shown, Followed
<1>4. CASE \E t \in Tasks : TaskEnds(t) \/ TaskFails(t)
  BY <1>3, <1>4 DEF TaskEnds, TaskFails, EndTask
<1>5. CASE Join \/ Interrupt \/ SecondInterrupt
  BY <1>3, <1>5 DEF Join, Interrupt, SecondInterrupt
<1>6. CASE Exit \/ Kill
  <2>1. Down /\ phase # "down"
    BY <1>6 DEF Exit, Kill
  <2>2. Settled
    BY <2>1 DEF Down
  <2> QED
    BY <2>1, <2>2, MetricsDown
<1>7. CASE Scrape
  <2>1. /\ UNCHANGED <<chain, workers, progress, db, next, worker, done, phase, lives, metrics>>
        /\ phase # "down"
    BY <1>7 DEF Scrape
  <2> QED
    BY <2>1, MetricsOthers DEF Shown, Followed
<1>8. CASE Stale
  BY <1>3, <1>8 DEF Stale
<1>9. CASE Answer
  BY <1>3, <1>9 DEF Answer, CountAuctions, ListAuctions
<1>10. CASE UNCHANGED vars
  BY <1>3, <1>10 DEF vars
<1> QED
  BY <1>1, <1>2, <1>4, <1>5, <1>6, <1>7, <1>8, <1>9, <1>10 DEF Lifecycle

\* The reader opens the progress, saves it, and hands the next checkpoint out.
LEMMA MetricsProgress ==
    ASSUME TypeInv, LifeInv, OneInv, workers = 1, MetricsInv, OpenProgress \/ SaveProgress
    PROVE  MetricsInv'
<1>1. /\ UNCHANGED <<chain, workers, worker, db, scraped, phase, lives, metrics>>
      /\ Past' = Past /\ Complete' = Complete
  BY OneOpen, OneSave DEF OpenProgress, SaveProgress, process
<1> QED
  BY <1>1, MetricsQuiet DEF Shown, Followed

LEMMA MetricsAssign ==
    ASSUME TypeInv, LifeInv, OneInv, workers = 1, MetricsInv, Assign(1)
    PROVE  MetricsInv'
<1>1. /\ UNCHANGED <<chain, workers, db, phase, lives, metrics>> /\ "reader" \in live
      /\ worker[1] = Idle /\ next \in Checkpoints
  BY DEF Assign, persistent, process
<1>2. Past' = Past /\ Complete' = Complete /\ At(1, "idle") /\ next = Complete + 1
  BY OneAssign, OneFacts
<1>3. Shown' = Shown /\ Followed' = Followed
  BY <1>1, Running, Reads
<1>4. Balanced = Complete /\ Counted = Past /\ Tallied = Past
  BY <1>2 DEF Balanced, Counted, Tallied, At
<1>5. db.bids = BidsAt(Past) /\ Exact(Followed, Shown, Complete, Past, Past)
  BY <1>2, <1>4 DEF MetricsInv, At
<1>6. CASE HasBalance(next)
  <2>1. PICK t : t = [stage |-> "balances", cp |-> next, pos |-> 0] /\ TurnTo(1, t)
    BY <1>6 DEF Assign
  <2>2. worker'[1].stage = "balances"
    BY <2>1, OneFacts DEF TurnTo
  <2>3. Balanced' = Complete /\ Counted' = Past /\ Tallied' = Past
    BY <1>2, <2>2 DEF Balanced, Counted, Tallied, At
  <2> QED
    BY <1>1, <1>2, <1>3, <1>5, <2>2, <2>3, MetricsNext
<1>7. CASE ~HasBalance(next)
  <2>1. PICK c \in Checkpoints : c = next /\ TurnTo(1, Turn(c, 0))
    BY <1>1, <1>7 DEF Assign
  <2>2. /\ worker'[1].stage \in {"count", "store", "end"}
        /\ Balanced' = Complete + 1 /\ Counted' = Past /\ Tallied' = Past
    BY <1>1, <1>2, <2>1, TurnedTo
  <2>3. Exact(Followed, Shown, Complete + 1, Past, Past)
    BY <1>2, <1>5, <1>7, OneFacts, ExactNoBalance
  <2> QED
    BY <1>1, <1>2, <1>3, <1>5, <2>2, <2>3, MetricsNext
<1> QED
  BY <1>6, <1>7

\* The steps of the worker.
LEMMA MetricsBalances ==
    ASSUME TypeInv, LifeInv, OneInv, workers = 1, MetricsInv, SetBalances(1)
    PROVE  MetricsInv'
<1>1. /\ UNCHANGED <<chain, workers, db, phase, lives>> /\ worker[1].stage = "balances"
  BY DEF SetBalances, At, persistent, process
<1>2. /\ Past' = Past /\ Complete' = Complete /\ worker[1].cp = Complete + 1
      /\ Complete + 1 \in Checkpoints
  BY OneBalances
<1>3. Shown = metrics /\ Shown' = metrics' /\ Followed' = Followed
  BY <1>1, Running, Reads
<1>4. /\ db.bids = BidsAt(Past) /\ Exact(Followed, metrics, Complete, Past, Past)
  BY <1>1, <1>3 DEF MetricsInv, At, Balanced, Counted, Tallied
<1>5. TurnTo(1, Turn(Complete + 1, 0))
  BY <1>2 DEF SetBalances
<1>6. /\ worker'[1].stage \in {"count", "store", "end"}
      /\ Balanced' = Complete + 1 /\ Counted' = Past /\ Tallied' = Past
  BY <1>1, <1>2, <1>5, TurnedTo
<1>7. Exact(Followed, metrics', Complete + 1, Past, Past)
  <2>1. PICK k \in Nat : k = Complete
    BY OneFacts
  <2>2. PICK named : named = IF chain[k + 1].balance = NoBalance THEN metrics
                             ELSE SetGauge(metrics, "balance", chain[k + 1].balance)
    OBVIOUS
  <2>3. metrics' = IF chain[k + 1].house = NoBalance THEN named
                   ELSE SetGauge(named, "auction_house_balance", chain[k + 1].house)
    BY <1>2, <2>1, <2>2 DEF SetBalances
  <2>4. DOMAIN metrics = Metrics /\ Followed \in SUBSET Metrics
    BY DEF TypeInv, TypeOK, Followed
  <2>5. Exact(Followed, metrics, k, Past, Past)
    BY <1>4, <2>1
  <2>6. Exact(Followed, metrics', k + 1, Past, Past)
    BY <2>2, <2>3, <2>4, <2>5, ExactBalances
  <2> QED
    BY <2>1, <2>6
<1> QED
  BY <1>1, <1>2, <1>3, <1>4, <1>6, <1>7, MetricsNext

\* An event that is no bid changes nothing in the bids.
LEMMA BidsOf ==
    ASSUME NEW ps, NEW p
    PROVE  BidsAt(ps \cup {p}) = BidsAt(ps) \cup
              (IF EventAt(p).kind \in {"AuctionStarted", "AuctionBid"}
               THEN {[bidder |-> EventAt(p).bidder, name |-> EventAt(p).name,
                      bid |-> EventAt(p).bid]} ELSE {})
BY DEF BidsAt, OfKind

LEMMA MetricsCount ==
    ASSUME TypeInv, LifeInv, OneInv, workers = 1, MetricsInv, CountEvent(1)
    PROVE  MetricsInv'
<1>1. /\ UNCHANGED <<chain, workers, db, phase, lives>> /\ worker[1].stage = "count"
      /\ metrics' = Apply(metrics, Counts(Current(1)))
  BY DEF CountEvent, At, persistent, process
<1>2. /\ Complete' = Complete /\ Here \notin Past
      /\ Current(1).kind \in AuctionKinds =>
            worker'[1].stage = "store" /\ Here' = Here /\ Past' = Past
      /\ Current(1).kind \notin AuctionKinds => Past' = Past \cup {Here}
  BY OneCount
<1>3. Here \in ChainEvents /\ EventAt(Here) = Current(1) /\ Past \in SUBSET ChainEvents
  BY <1>1, HereIs DEF Past, PastAt
<1>4. Shown = metrics /\ Shown' = metrics' /\ Followed' = Followed
  BY <1>1, Running, Reads
<1>5. /\ DOMAIN metrics = Metrics /\ Followed \in SUBSET Metrics
      /\ metrics \in [Metrics -> Int] /\ WellFormedHistory(chain)
  BY OneFacts DEF TypeInv, TypeOK, Followed
<1>6. db.bids = BidsAt(Past) /\ Exact(Followed, metrics, Complete + 1, Past, Past)
  BY <1>1, <1>4 DEF MetricsInv, At, Balanced, Counted, Tallied
<1>7. Exact(Followed, metrics', Complete + 1, Past \cup {Here}, Past)
  BY <1>1, <1>2, <1>3, <1>5, <1>6, ExactCounts
<1>8. CASE Current(1).kind \in AuctionKinds
  <2>1. Balanced' = Complete + 1 /\ Tallied' = Past
    BY <1>2, <1>8 DEF Balanced, Tallied, At
  <2>2. Counts(Current(1))' = Counts(Current(1))
    BY <1>1, <1>2, <1>8 DEF Current, Events, Here
  <2>3. Exact(Followed, metrics', Complete + 1, Counted', Past)
    <3>1. CASE Counts(Current(1)) # NoChange
      <4>1. Counted' = Past \cup {Here}
        BY <1>2, <1>8, <2>2, <3>1 DEF Counted, At
      <4> QED
        BY <1>7, <4>1
    <3>2. CASE Counts(Current(1)) = NoChange
      <4>1. Counted' = Past
        BY <1>2, <1>8, <2>2, <3>2 DEF Counted
      <4>2. metrics' = metrics
        BY <1>1, <1>5, <3>2 DEF Apply, NoChange
      <4> QED
        BY <1>6, <4>1, <4>2
    <3> QED
      BY <3>1, <3>2
  <2> QED
    BY <1>1, <1>2, <1>4, <1>6, <1>8, <2>1, <2>3, MetricsNext
<1>9. CASE Current(1).kind \notin AuctionKinds
  <2>1. PICK c \in Checkpoints, i \in Nat : TurnTo(1, Turn(c, i))
    BY <1>1, <1>9, HereIs DEF CountEvent
  <2>2. /\ worker'[1].stage \in {"count", "store", "end"} /\ Past' = Past \cup {Here}
        /\ Balanced' = Complete + 1 /\ Counted' = Past' /\ Tallied' = Past'
    BY <1>1, <1>2, <1>9, <2>1, TurnedTo
  <2>3. ~IsEnd(Here) /\ EventAt(Here).kind \notin {"AuctionStarted", "AuctionBid"}
    BY <1>3, <1>9 DEF IsEnd, AuctionKinds
  <2>4. Exact(Followed, metrics', Complete + 1, Past', Past')
    BY <1>7, <2>2, <2>3, ExactNoTally
  <2>5. db.bids = BidsAt(Past')
    BY <1>6, <2>2, <2>3, BidsOf
  <2> QED
    BY <1>1, <1>4, <2>2, <2>4, <2>5, MetricsNext
<1> QED
  BY <1>8, <1>9

LEMMA BidsBeforeIs ==
    ASSUME WellFormedHistory(chain), NEW p \in ChainEvents
    PROVE  BidsBefore(p) = Cardinality({b \in BidsAt(EventsBefore(p)) : b.name = EventAt(p).name})
<1>1. PICK c \in 1..Len(chain) : c = p[1]
  BY ChainEventIs DEF WellFormedHistory, Checkpoints
<1>2. EventsTo(c) = {q \in ChainEvents : q[1] <= c}
  BY ChainEventIs DEF WellFormedHistory
<1>3. \A q \in ChainEvents : q[1] \in Nat
  BY ChainEventIs
<1>4. \A q \in ChainEvents : Precedes(q, p) => q[1] <= c
  BY <1>1, <1>3 DEF Precedes, WellFormedHistory
<1>5. {q \in EventsTo(p[1]) : Precedes(q, p)} = EventsBefore(p)
  BY <1>1, <1>2, <1>4 DEF EventsBefore
<1> QED
  BY <1>5 DEF BidsBefore

LEMMA MetricsStore ==
    ASSUME TypeInv, LifeInv, OneInv, workers = 1, MetricsInv, StoreRows(1)
    PROVE  MetricsInv'
<1>1. /\ UNCHANGED <<chain, workers, phase, lives, metrics>> /\ worker[1].stage = "store"
  BY DEF StoreRows, At, process
<1>2. /\ Complete' = Complete /\ Here \notin Past /\ Past' = Past \cup {Here}
      /\ Current(1).kind = "AuctionFinalized" =>
            /\ worker'[1].stage = "tally" /\ Here' = Here
            /\ worker'[1].bids = BidCount(db', Current(1).name)
  BY OneStore
<1>3. /\ Here \in ChainEvents /\ EventAt(Here) = Current(1) /\ Past = EventsBefore(Here)
      /\ Past \in SUBSET ChainEvents
  BY <1>1, HereIs DEF EventsBefore
<1>4. Shown = metrics /\ Shown' = metrics /\ Followed' = Followed
  BY <1>1, Running, Reads
<1>5. WellFormedHistory(chain)
  BY OneFacts
<1>6. db.bids = BidsAt(Past) /\ Exact(Followed, metrics, Complete + 1, Counted, Past)
  BY <1>1, <1>4 DEF MetricsInv, At, Balanced, Tallied
<1>7. Exact(Followed, metrics, Complete + 1, Past \cup {Here}, Past)
  <2>1. CASE Counts(Current(1)) # NoChange
    BY <1>1, <1>6, <2>1 DEF Counted, At
  <2>2. CASE Counts(Current(1)) = NoChange
    <3>1. Counted = Past
      BY <2>2 DEF Counted
    <3> QED
      BY <1>2, <1>3, <1>5, <1>6, <2>2, <3>1, ExactNoChange
  <2> QED
    BY <2>1, <2>2
<1>8. db'.bids = BidsAt(Past')
  <2>1. BidsWritten(db, EventAt(Here), db')
    BY OneFacts, StoreIs DEF TypeInv, Here
  <2> QED
    BY <1>2, <1>6, <2>1, BidsOf DEF BidsWritten
<1>9. CASE Current(1).kind = "AuctionFinalized"
  <2>1. Balanced' = Complete + 1 /\ Counted' = Past' /\ Tallied' = Past
    BY <1>2, <1>9 DEF Balanced, Counted, Tallied, At
  <2>2. IsEnd(Here) /\ BidsAt(Past') = BidsAt(Past)
    BY <1>2, <1>3, <1>9, BidsOf DEF IsEnd
  <2>3. worker'[1].bids = BidsBefore(Here)
    BY <1>2, <1>3, <1>5, <1>8, <1>9, <2>2, BidsBeforeIs DEF BidCount
  <2> QED
    BY <1>1, <1>2, <1>4, <1>7, <1>8, <1>9, <2>1, <2>2, <2>3, MetricsNext
<1>10. CASE Current(1).kind # "AuctionFinalized"
  <2>1. PICK c \in Checkpoints, i \in Nat : TurnTo(1, Turn(c, i))
    BY <1>1, <1>10, HereIs DEF StoreRows
  <2>2. /\ worker'[1].stage \in {"count", "store", "end"}
        /\ Balanced' = Complete + 1 /\ Counted' = Past' /\ Tallied' = Past'
    BY <1>1, <1>2, <2>1, TurnedTo
  <2>3. Exact(Followed, metrics, Complete + 1, Past', Past')
    BY <1>2, <1>3, <1>7, <1>10, ExactNoTally DEF IsEnd
  <2> QED
    BY <1>1, <1>4, <1>8, <2>2, <2>3, MetricsNext
<1> QED
  BY <1>9, <1>10

LEMMA MetricsTally ==
    ASSUME TypeInv, LifeInv, OneInv, workers = 1, MetricsInv, TallyBids(1)
    PROVE  MetricsInv'
<1>1. /\ UNCHANGED <<chain, workers, db, phase, lives>> /\ worker[1].stage = "tally"
      /\ metrics' = Apply(metrics, TallyOf(worker[1].bids))
  BY DEF TallyBids, At, persistent, process
<1>2. Complete' = Complete /\ Past' = Past
  BY OneTally
<1>3. /\ Here \in ChainEvents /\ Here \in Past /\ Past \in SUBSET ChainEvents
  BY <1>1, HereIs DEF EventsBefore
<1>4. Shown = metrics /\ Shown' = metrics' /\ Followed' = Followed
  BY <1>1, Running, Reads
<1>5. /\ DOMAIN metrics = Metrics /\ Followed \in SUBSET Metrics /\ WellFormedHistory(chain)
  BY OneFacts DEF TypeInv, TypeOK, Followed
<1>6. /\ db.bids = BidsAt(Past) /\ IsEnd(Here) /\ worker[1].bids = BidsBefore(Here)
      /\ Exact(Followed, metrics, Complete + 1, Past, Past \ {Here})
  BY <1>1, <1>4 DEF MetricsInv, At, Balanced, Counted, Tallied
<1>7. PICK rest \in SUBSET ChainEvents : rest = Past \ {Here}
  BY <1>3
<1>8. Exact(Followed, metrics', Complete + 1, Past, rest \cup {Here})
  BY <1>1, <1>3, <1>5, <1>6, <1>7, ExactTally
<1>9. rest \cup {Here} = Past
  BY <1>3, <1>7
<1>10. PICK c \in Checkpoints, i \in Nat : TurnTo(1, Turn(c, i))
  BY <1>1, HereIs DEF TallyBids
<1>11. /\ worker'[1].stage \in {"count", "store", "end"}
       /\ Balanced' = Complete + 1 /\ Counted' = Past /\ Tallied' = Past
  BY <1>1, <1>2, <1>10, TurnedTo
<1> QED
  BY <1>1, <1>2, <1>4, <1>6, <1>8, <1>9, <1>11, MetricsNext

LEMMA MetricsFinish ==
    ASSUME TypeInv, LifeInv, OneInv, workers = 1, MetricsInv, Finish(1)
    PROVE  MetricsInv'
<1>1. UNCHANGED <<chain, workers, db, phase, lives, metrics>>
  BY DEF Finish, persistent, process
<1>2. /\ Complete' = Complete + 1 /\ Past' = Past
      /\ worker[1].stage = "end" /\ worker'[1].stage = "idle"
  BY OneFinish DEF Idle
<1>3. Shown' = Shown /\ Followed' = Followed
  BY <1>1, <1>2, Running, Reads
<1>4. /\ Balanced = Complete + 1 /\ Counted = Past /\ Tallied = Past
      /\ Balanced' = Complete + 1 /\ Counted' = Past /\ Tallied' = Past
  BY <1>2 DEF Balanced, Counted, Tallied, At
<1>5. db.bids = BidsAt(Past) /\ Exact(Followed, Shown, Complete + 1, Past, Past)
  BY <1>2, <1>4 DEF MetricsInv, At
<1> QED
  BY <1>1, <1>2, <1>3, <1>4, <1>5, MetricsNext

LEMMA NextMetrics ==
    ASSUME TypeInv, LifeInv, OneInv, workers = 1, MetricsInv, clean', [Next]_vars
    PROVE  MetricsInv'
<1>1. CASE Lifecycle \/ Scrape \/ Stale \/ Answer \/ UNCHANGED vars
  BY <1>1, MetricsLifecycle
<1>2. CASE OpenProgress \/ SaveProgress
  BY <1>2, MetricsProgress
<1>3. ASSUME NEW w \in Workers, Assign(w) \/ Process(w) \/ Fail(w)
      PROVE  MetricsInv'
  <2>1. w = 1
    BY OneFacts
  <2>2. CASE Fail(1)
    <3>1. UNCHANGED <<chain, workers>> /\ worker'[1].stage = "failed"
      BY <2>2, OneFacts DEF Fail, TurnTo, Failed
    <3> QED
      BY <3>1, MetricsNext
  <2> QED
    BY <1>3, <2>1, <2>2, MetricsAssign, MetricsBalances, MetricsCount, MetricsStore,
       MetricsTally, MetricsFinish DEF Process
<1> QED
  BY <1>1, <1>2, <1>3 DEF Next, Read

\* Once a checkpoint is dealt with, the values are those of the whole of it.
LEMMA MetricsAre ==
    ASSUME TypeInv, OneInv, workers = 1, MetricsInv, phase = "running", next > 0, AllIdle,
           NEW m \in Metrics, lives = 1 \/ Restores(m[1], Queries)
    PROVE  metrics[m] = Expected(m, next - 1)
<1>1. worker[1] = Idle /\ Idle.stage = "idle"
  BY OneFacts DEF AllIdle, Idle
<1>2. Complete = next - 1 /\ Complete \in 0..Len(chain)
  BY <1>1, OneFacts DEF Complete, CompleteAt
<1>3. Dealt(worker[1]) = {}
  BY <1>1, NothingDealt
<1>4. Past = EventsTo(Complete)
  BY <1>2, <1>3, OneFacts, ChainEventIs DEF Past, PastAt
<1>5. Balanced = Complete /\ Counted = Past /\ Tallied = Past
  BY <1>1 DEF Balanced, Counted, Tallied, At
<1>6. m \in Followed /\ Shown = metrics
  BY DEF Followed, Shown
<1>7. metrics[m] = ValueAt(m, Complete, Past, Past)
  BY <1>1, <1>5, <1>6 DEF MetricsInv, At, Exact
<1>8. TalliedAs(m, Past) =
          {p \in OfKind(EventsTo(Complete), {"AuctionFinalized"}) : BidsBefore(p) = m[2]}
  BY <1>4 DEF TalliedAs, OfKind, IsEnd
<1>9. ValueAt(m, Complete, Past, Past) = Expected(m, Complete)
  BY <1>4, <1>8 DEF ValueAt, Expected, Gauged, Tally
<1> QED
  BY <1>2, <1>7, <1>9

LEMMA InitMetrics ==
    ASSUME Init, workers = 1
    PROVE  MetricsInv
<1>1. /\ next = 0 /\ progress = NoFile /\ phase = "down" /\ worker[1] = Idle
      /\ scraped = NoCounts /\ db.bids = {} /\ Past = {}
  <2>1. Past = {}
    BY InitOne
  <2>2. /\ next = 0 /\ progress = NoFile /\ phase = "down" /\ scraped = NoCounts
        /\ db = EmptyDb /\ worker = [w \in Workers |-> Idle]
    BY DEF Init
  <2>3. 1 \in Workers /\ db.bids = {}
    BY <2>2 DEF Workers, EmptyDb
  <2> QED
    BY <2>1, <2>2, <2>3
<1>2. Complete = 0 /\ Idle.stage = "idle"
  BY <1>1 DEF Complete, CompleteAt, SavedProgress, Idle
<1>3. Balanced = 0 /\ Counted = {} /\ Tallied = {}
  BY <1>1, <1>2 DEF Balanced, Counted, Tallied, At
<1>4. Exact(Followed, Shown, 0, {}, {})
  BY <1>1, ZeroValue DEF Exact, Shown, NoCounts, Followed
<1>5. BidsAt({}) = {}
  BY DEF BidsAt, OfKind
<1> QED
  BY <1>1, <1>2, <1>3, <1>4, <1>5 DEF MetricsInv, At

LEMMA CleanBefore ==
    ASSUME [Next]_vars, clean'
    PROVE  clean
BY DEF Next, Lifecycle, Read, Answer, Process, Start, StartFails, TaskEnds, TaskFails, EndTask,
       Join, Interrupt, SecondInterrupt, Exit, Kill, Down, Scrape, Stale, OpenProgress,
       SaveProgress, Assign, SetBalances, CountEvent, StoreRows, TallyBids, Finish, Fail,
       CountAuctions, ListAuctions, vars, process

MetricsPart == /\ workers = 1 => OneInv
               /\ workers = 1 /\ clean => MetricsInv

\* One worker keeps the metrics exact, and a restart does if the old process had
\* saved and published all it counted, and Prometheus still has it.
THEOREM MetricsCorrect == Spec => []MetricsExact
<1> DEFINE Inv == TypeInv /\ LifeInv /\ MetricsPart
<1>1. Init => Inv
  <2> SUFFICES ASSUME Init PROVE Inv
    OBVIOUS
  <2>1. LifeInv
    BY DEF Init, LifeInv
  <2> QED
    BY <2>1, InitTyped, InitOne, InitMetrics DEF MetricsPart
<1>2. Inv /\ [Next]_vars => Inv'
  <2> SUFFICES ASSUME Inv, [Next]_vars PROVE Inv'
    OBVIOUS
  <2>1. TypeInv' /\ LifeInv'
    BY NextTypes, NextLife DEF TypeInv, TypeOK
  <2>2. ASSUME workers' = 1 PROVE workers = 1 /\ OneInv /\ OneInv'
    BY <2>2, ChainFixed, OneSteps DEF MetricsPart
  <2>3. ASSUME workers' = 1, clean' PROVE MetricsInv'
    BY <2>2, <2>3, CleanBefore, NextMetrics DEF MetricsPart
  <2> QED
    BY <2>1, <2>2, <2>3 DEF MetricsPart
<1>3. Inv => MetricsExact
  BY MetricsAre DEF MetricsExact, MetricsPart
<1> HIDE DEF Inv
<1> QED
  BY <1>1, <1>2, <1>3, PTL DEF Spec
=============================================================================
