------------------------------- MODULE Gauges -------------------------------
(***************************************************************************)
(* The registry and the gauges the indexer derives from its events: each    *)
(* action of IotaNames with the events its transaction emits, counted as    *)
(* IndexerEvents counts them.  The dashboards know the registry by these    *)
(* gauges alone.  (What restarts and replays do to them is in Indexer.)     *)
(*                                                                         *)
(* The events of one transaction are all different, and each moves a gauge  *)
(* by one; a set of them is enough.                                        *)
(***************************************************************************)
EXTENDS IotaNames, IndexerEvents

CONSTANTS
    Tracked,     \* the gauges followed, as <<metric, label>>
    MaxGauge     \* bound on the gauges that drift

ASSUME GaugesAssumption ==
    /\ IsFiniteSet(Names)
    /\ IsFiniteSet(Addrs)
    /\ Depth \in [Names -> Nat]
    /\ SlnLength \in [Names -> Nat]
    /\ \A m \in Tracked : m = <<m[1], m[2]>>
    /\ MaxGauge \in Nat

VARIABLE gauges     \* the value of each gauge

gaugesVars == <<vars, gauges>>

GaugesInit == Init /\ gauges = [m \in Tracked |-> 0]

-----------------------------------------------------------------------------
(* The events of the registry.                                             *)

Added(n) == {[kind |-> "NameRecordAdded", name |-> n]}

RecordsRemoved_AddedOnly(ns) == {}

\* Only a name that has a record loses it.
RecordsRemoved(ns) == {[kind |-> "NameRecordRemoved", name |-> n] : n \in {m \in ns : HasRecord(m)}}

ReverseUnset_Retargeted(ns, target) ==
    {[kind |-> "ReverseLookupUnset", address |-> a] :
        a \in {b \in Addrs : target # NoAddr /\
                             \E n \in ns : PointsTo(n, b) /\ target # b /\ reverse[b] = n}}

\* handle_invalidate_reverse_record unsets the default name of the old target.
ReverseUnset(ns, target) ==
    {[kind |-> "ReverseLookupUnset", address |-> a] :
        a \in {b \in Addrs : \E n \in ns : PointsTo(n, b) /\ target # b /\ reverse[b] = n}}

\* Taking the record away from names, and what that invalidates.
Removal(ns) == RecordsRemoved(ns) \cup ReverseUnset(ns, NoAddr)

\* A record that may be taken over is removed first.
Adding(n) == Removal({n}) \cup Added(n)

Simple(kind) == {[kind |-> kind]}

\* A default name that is replaced is not set once more.
ReverseSet(a) == IF reverse[a] = NoName THEN Simple("ReverseLookupSet") ELSE {}

UserDataSetEvents(n, key) ==
    {[kind |-> "UserDataSet", key |-> key, new |-> key \notin registry[n].data]}

UserDataUnsetEvents_Blind(n, key) == {[kind |-> "UserDataUnset", key |-> key]}
UserDataUnsetEvents(n, key) ==
    IF key \in registry[n].data THEN {[kind |-> "UserDataUnset", key |-> key]} ELSE {}

\* Only subnames::burn reports that a node subname is gone, not the two burns
\* of the controller.
BurnEvents(i, burned) ==
    (IF HasRecord(nfts[i].name) /\ IdMatches(i) THEN Removal({nfts[i].name}) ELSE {})
        \cup (IF burned THEN Simple("NodeSubnameBurned") ELSE {})

-----------------------------------------------------------------------------
(* Counting them.                                                          *)

Moves(e, m, by) == m \in DOMAIN Counts(e) /\ Counts(e)[m] = by

Emits(events) ==
    gauges' = [m \in Tracked |->
        gauges[m] + Cardinality({e \in events : Moves(e, m, 1)})
                  - Cardinality({e \in events : Moves(e, m, -1)})]

PaymentGauges ==
    \/ \E n \in Slns, years \in 1..MaxYears : Register(n, years) /\ Emits(Adding(n))
    \/ \E i \in NftIds, years \in 1..MaxYears : Renew(i, years) /\ Emits({})

SubnamesGauges ==
    \/ \E i \in NftIds, n \in Subs :
          RemoveLeaf(i, n) /\ Emits(Removal({n}) \cup Simple("LeafSubnameRemoved"))
    \/ \E i \in NftIds, n \in Subs, target \in Addrs :
          NewLeaf(i, n, target) /\ Emits(Adding(n) \cup Simple("LeafSubnameCreated"))
    \/ \E i \in NftIds, n \in Subs, flags \in SUBSET Flags : EditSetup(i, n, flags) /\ Emits({})
    \/ \E i \in NftIds, n \in Subs, flags \in SUBSET Flags, exp \in 0..MaxExp :
          NewSubname(i, n, exp, flags) /\ Emits(Adding(n) \cup Simple("NodeSubnameCreated"))
    \/ \E i \in NftIds, exp \in 0..MaxExp : ExtendExpiration(i, exp) /\ Emits({})

ControllerGauges ==
    \/ \E i \in NftIds, target \in Addrs \cup {NoAddr} :
          /\ SetTargetAddress(i, target)
          /\ Emits(ReverseUnset({nfts[i].name}, target)
                      \cup {[kind |-> "TargetAddressSet", target |-> target # NoAddr]})
    \/ \E a \in Addrs, n \in Names : SetReverseLookup(a, n) /\ Emits(ReverseSet(a))
    \/ \E a \in Addrs :
          UnsetReverseLookup(a) /\ Emits({[kind |-> "ReverseLookupUnset", address |-> a]})
    \/ \E i \in NftIds, key \in UserKeys :
          SetUserData(i, key) /\ Emits(UserDataSetEvents(nfts[i].name, key))
    \/ \E i \in NftIds, key \in UserKeys \cup Flags :
          UnsetUserData(i, key) /\ Emits(UserDataUnsetEvents(nfts[i].name, key))

BurnGauges ==
    \E i \in NftIds :
        /\ BurnExpired(i)
        /\ \/ "ControllerAuth" \in apps /\ Emits(BurnEvents(i, FALSE))
           \/ "SubnamesAuth" \in apps /\ nfts[i].name \in Subs /\ Emits(BurnEvents(i, TRUE))

AdminGauges ==
    \/ \E n \in Slns, years \in AdminYears : AdminRegister(n, years) /\ Emits(Adding(n))
    \/ \E ns \in SUBSET Names \ {{}} : AdminRemoveRecords(ns) /\ Emits(Removal(ns))
    \/ \E app \in Apps : (Authorize(app) \/ Deauthorize(app)) /\ Emits({})
    \/ \E label \in Labels : ChangeDenyList(label) /\ Emits({})

GaugesNext ==
    /\ PaymentGauges \/ SubnamesGauges \/ ControllerGauges \/ BurnGauges \/ AdminGauges
          \/ (Tick /\ Emits({}))
    /\ \A m \in Tracked : gauges'[m] <= MaxGauge

GaugesSpec == GaugesInit /\ [][GaugesNext]_gaugesVars

-----------------------------------------------------------------------------
(* Properties.                                                             *)

AtDepth(d) == {n \in Names : HasRecord(n) /\ Depth[n] = d}
OfLength(l) == {n \in Names : HasRecord(n) /\ SlnLength[n] = l}
DefaultNames == {a \in Addrs : reverse[a] # NoName}
NodeSubnames == {n \in Subs : HasRecord(n) /\ ~IsLeaf(registry[n])}
LeafSubnames == {n \in Names : HasRecord(n) /\ IsLeaf(registry[n])}
WithKey(key) == {n \in Names : HasRecord(n) /\ key \in registry[n].data}

\* The distributions of depths and of lengths are those of the registry, through
\* takeovers, burns of superseded NFTs and forced removals: what takes a record
\* away always says so, and only then (registry.move; worker.rs, NameRecordAdded
\* and NameRecordRemoved).
RecordsCounted ==
    \A m \in Tracked :
        /\ m[1] = "depth_distribution" => gauges[m] = Cardinality(AtDepth(m[2]))
        /\ m[1] = "length_distribution" => gauges[m] = Cardinality(OfLength(m[2]))

\* default_names is the number of addresses that have one: setting another name
\* for an address is not counted, and every way of losing one is, the hidden
\* ones of a retargeted, burned or taken over name too.
DefaultNamesCounted ==
    <<"default_names", NoLabel>> \in Tracked =>
        gauges[<<"default_names", NoLabel>>] = Cardinality(DefaultNames)

\* The gauges of subnames and of user data never show less than there is: they
\* drift up only, where a takeover, a forced removal or a burn by the controller
\* makes something disappear without an event of its own.
NeverUndercounts ==
    /\ <<"node_subnames", NoLabel>> \in Tracked =>
          gauges[<<"node_subnames", NoLabel>>] >= Cardinality(NodeSubnames)
    /\ <<"leaf_subnames", NoLabel>> \in Tracked =>
          gauges[<<"leaf_subnames", NoLabel>>] >= Cardinality(LeafSubnames)
    /\ \A key \in UserKeys : <<"user_data_distribution", key>> \in Tracked =>
          gauges[<<"user_data_distribution", key>>] >= Cardinality(WithKey(key))
=============================================================================
