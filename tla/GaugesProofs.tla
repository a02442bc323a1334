---------------------------- MODULE GaugesProofs ----------------------------
(***************************************************************************)
(* Theorems about Gauges, for every value of its constants: the gauges of   *)
(* the indexer against the registry.                                       *)
(***************************************************************************)
EXTENDS Gauges, TermsProofs, FiniteSetTheorems

USE DEF Names, Flags, AllowCreation, AllowExtension, NoId, LeafExpiration

-----------------------------------------------------------------------------
(* Gauges only watches the registry.                                       *)

\* Every step that is counted is a step of the registry.
LEMMA StepIsRegistrys == [GaugesNext]_gaugesVars => [Next]_vars
<1> SUFFICES ASSUME [GaugesNext]_gaugesVars PROVE [Next]_vars
  OBVIOUS
<1>1. CASE UNCHANGED gaugesVars
  BY <1>1 DEF gaugesVars
<1>2. CASE PaymentGauges
  BY <1>2 DEF PaymentGauges, Next, PaymentNext
<1>3. CASE SubnamesGauges
  BY <1>3 DEF SubnamesGauges, Next, SubnamesNext
<1>4. CASE ControllerGauges
  BY <1>4 DEF ControllerGauges, Next, ControllerNext
<1>5. CASE BurnGauges
  BY <1>5 DEF BurnGauges, Next, ControllerNext
<1>6. CASE AdminGauges
  BY <1>6 DEF AdminGauges, Next, AdminNext
<1>7. CASE Tick
  BY <1>7 DEF Next
<1> QED
  BY <1>1, <1>2, <1>3, <1>4, <1>5, <1>6, <1>7 DEF GaugesNext

\* The events and their counting restrict the registry in nothing it promises:
\* what is proved of IotaNames holds of every behaviour that is counted.
THEOREM GaugesWatchRegistry == GaugesSpec => Spec
<1>1. GaugesInit => Init
  BY DEF GaugesInit
<1> QED
  BY <1>1, StepIsRegistrys, PTL DEF GaugesSpec, Spec

-----------------------------------------------------------------------------
(* Sets and their cardinalities.                                           *)

LEMMA Exchange ==
    ASSUME NEW S, IsFiniteSet(S), NEW R, R \subseteq S, NEW A, IsFiniteSet(A),
           A \cap (S \ R) = {}
    PROVE  /\ Cardinality((S \ R) \cup A) = Cardinality(S) + Cardinality(A) - Cardinality(R)
           /\ Cardinality(S) \in Nat /\ Cardinality(A) \in Nat /\ Cardinality(R) \in Nat
<1>1. IsFiniteSet(R) /\ IsFiniteSet(S \ R)
  BY FS_Subset
<1>2. Cardinality(S \ R) = Cardinality(S) - Cardinality(R)
  <2>1. S \cap R = R
    OBVIOUS
  <2> QED
    BY <2>1, <1>1, FS_Difference
<1>3. Cardinality((S \ R) \cap A) = 0
  <2>1. (S \ R) \cap A = {}
    OBVIOUS
  <2> QED
    BY <2>1, FS_EmptySet
<1>4. Cardinality((S \ R) \cup A) = Cardinality(S \ R) + Cardinality(A) - Cardinality((S \ R) \cap A)
  BY <1>1, FS_Union
<1>5. Cardinality(S) \in Nat /\ Cardinality(A) \in Nat /\ Cardinality(R) \in Nat
  BY <1>1, FS_CardinalityType
<1> QED
  BY <1>2, <1>3, <1>4, <1>5

\* An event for each of some addresses or names: as many events as those.
AddressEvents(kind, S) == {[kind |-> kind, address |-> a] : a \in S}
NameEvents(kind, S) == {[kind |-> kind, name |-> n] : n \in S}

LEMMA AddressEventsCount ==
    ASSUME NEW kind, NEW S, IsFiniteSet(S)
    PROVE  Cardinality(AddressEvents(kind, S)) = Cardinality(S)
<1> DEFINE f == [a \in S |-> [kind |-> kind, address |-> a]]
<1>1. f \in Bijection(S, AddressEvents(kind, S))
  BY DEF AddressEvents, Bijection, Injection, IsInjective, Surjection
<1>2. ExistsBijection(S, AddressEvents(kind, S))
  BY <1>1 DEF ExistsBijection
<1> QED
  BY <1>2, FS_Bijection

LEMMA NameEventsCount ==
    ASSUME NEW kind, NEW S, IsFiniteSet(S)
    PROVE  Cardinality(NameEvents(kind, S)) = Cardinality(S)
<1> DEFINE f == [n \in S |-> [kind |-> kind, name |-> n]]
<1>1. f \in Bijection(S, NameEvents(kind, S))
  BY DEF NameEvents, Bijection, Injection, IsInjective, Surjection
<1>2. ExistsBijection(S, NameEvents(kind, S))
  BY <1>1 DEF ExistsBijection
<1> QED
  BY <1>2, FS_Bijection

-----------------------------------------------------------------------------
(* What moves which gauge.                                                 *)

\* The kinds of events that say nothing of records and default names.
OtherKinds == {"TargetAddressSet", "UserDataSet", "UserDataUnset", "NodeSubnameCreated",
               "NodeSubnameBurned", "LeafSubnameCreated", "LeafSubnameRemoved"}
MovingKinds == {"NameRecordAdded", "NameRecordRemoved", "ReverseLookupSet",
                "ReverseLookupUnset"}

LEMMA MovesDefaultNames ==
    ASSUME NEW e, e.kind \in OtherKinds \cup MovingKinds
    PROVE  LET m == <<"default_names", NoLabel>>
           IN  /\ Moves(e, m, 1) <=> e.kind = "ReverseLookupSet"
               /\ Moves(e, m, -1) <=> e.kind = "ReverseLookupUnset"
<1> USE DEF Moves, Counts, RecordCounts, Add, AddAt, NoChange
<1>1. CASE e.kind = "ReverseLookupSet"
  BY <1>1
<1>2. CASE e.kind = "ReverseLookupUnset"
  BY <1>2
<1>3. CASE e.kind = "NameRecordAdded"
  BY <1>3
<1>4. CASE e.kind = "NameRecordRemoved"
  BY <1>4
<1>5. CASE e.kind = "TargetAddressSet"
  BY <1>5
<1>6. CASE e.kind = "UserDataSet"
  BY <1>6
<1>7. CASE e.kind = "UserDataUnset"
  BY <1>7
<1>8. CASE e.kind \in {"NodeSubnameCreated", "NodeSubnameBurned", "LeafSubnameCreated",
                       "LeafSubnameRemoved"}
  BY <1>8
<1> QED
  BY <1>1, <1>2, <1>3, <1>4, <1>5, <1>6, <1>7, <1>8 DEF OtherKinds, MovingKinds

LEMMA MovesRecords ==
    ASSUME NEW e, e.kind \in OtherKinds \cup MovingKinds, NEW x
    PROVE  /\ Moves(e, <<"depth_distribution", x>>, 1) <=>
                  e.kind = "NameRecordAdded" /\ Depth[e.name] = x
           /\ Moves(e, <<"depth_distribution", x>>, -1) <=>
                  e.kind = "NameRecordRemoved" /\ Depth[e.name] = x
           /\ Moves(e, <<"length_distribution", x>>, 1) <=>
                  e.kind = "NameRecordAdded" /\ SlnLength[e.name] = x
           /\ Moves(e, <<"length_distribution", x>>, -1) <=>
                  e.kind = "NameRecordRemoved" /\ SlnLength[e.name] = x
<1> USE DEF Moves, Counts, RecordCounts, Add, AddAt, NoChange
<1>1. CASE e.kind = "ReverseLookupSet"
  BY <1>1
<1>2. CASE e.kind = "ReverseLookupUnset"
  BY <1>2
<1>3. CASE e.kind = "NameRecordAdded"
  BY <1>3
<1>4. CASE e.kind = "NameRecordRemoved"
  BY <1>4
<1>5. CASE e.kind = "TargetAddressSet"
  BY <1>5
<1>6. CASE e.kind = "UserDataSet"
  BY <1>6
<1>7. CASE e.kind = "UserDataUnset"
  BY <1>7
<1>8. CASE e.kind \in {"NodeSubnameCreated", "NodeSubnameBurned", "LeafSubnameCreated",
                       "LeafSubnameRemoved"}
  BY <1>8
<1> QED
  BY <1>1, <1>2, <1>3, <1>4, <1>5, <1>6, <1>7, <1>8 DEF OtherKinds, MovingKinds

-----------------------------------------------------------------------------
(* What the events of a step say.                                          *)

Recorded == {n \in Names : HasRecord(n)}

\* The events of a transaction, by what they are about.
Parts(rem, new, lost, rest) ==
    NameEvents("NameRecordRemoved", rem) \cup NameEvents("NameRecordAdded", new)
        \cup AddressEvents("ReverseLookupUnset", lost) \cup rest

RestKinds == OtherKinds \cup {"ReverseLookupSet"}

SetsOf(events) == {e \in events : e.kind = "ReverseLookupSet"}

LEMMA PartsByKind ==
    ASSUME NEW rem, NEW new, NEW lost, NEW rest, \A e \in rest : e.kind \in RestKinds,
           NEW events, events = Parts(rem, new, lost, rest)
    PROVE  /\ \A e \in events : e.kind \in OtherKinds \cup MovingKinds
           /\ {e \in events : e.kind = "NameRecordRemoved"} = NameEvents("NameRecordRemoved", rem)
           /\ {e \in events : e.kind = "NameRecordAdded"} = NameEvents("NameRecordAdded", new)
           /\ {e \in events : e.kind = "ReverseLookupUnset"}
                  = AddressEvents("ReverseLookupUnset", lost)
           /\ SetsOf(events) = SetsOf(rest)
<1> USE DEF Parts, NameEvents, AddressEvents, RestKinds, OtherKinds, MovingKinds, SetsOf
<1>1. \A e \in events : e.kind \in OtherKinds \cup MovingKinds
  OBVIOUS
<1>2. {e \in events : e.kind = "NameRecordRemoved"} = NameEvents("NameRecordRemoved", rem)
  OBVIOUS
<1>3. {e \in events : e.kind = "NameRecordAdded"} = NameEvents("NameRecordAdded", new)
  OBVIOUS
<1>4. {e \in events : e.kind = "ReverseLookupUnset"} = AddressEvents("ReverseLookupUnset", lost)
  OBVIOUS
<1>5. SetsOf(events) = SetsOf(rest)
  OBVIOUS
<1> QED
  BY <1>1, <1>2, <1>3, <1>4, <1>5

\* The events tell the records that come and go, and the default names.
Told(events) ==
    \E rem \in SUBSET Recorded, new \in SUBSET Names,
       lost \in SUBSET DefaultNames, set \in SUBSET Addrs : \E rest :
        /\ events = Parts(rem, new, lost, rest)
        /\ \A e \in rest : e.kind \in RestKinds
        /\ Recorded' = (Recorded \ rem) \cup new
        /\ new \cap (Recorded \ rem) = {}
        /\ DefaultNames' = (DefaultNames \ lost) \cup set
        /\ set \cap (DefaultNames \ lost) = {}
        /\ Cardinality(SetsOf(rest)) = Cardinality(set)

LEMMA DefaultNamesStep ==
    ASSUME NEW events, Told(events), Emits(events), DefaultNamesCounted
    PROVE  DefaultNamesCounted'
<1> DEFINE m == <<"default_names", NoLabel>>
<1> SUFFICES ASSUME m \in Tracked PROVE gauges'[m] = Cardinality(DefaultNames')
  BY DEF DefaultNamesCounted
<1>0. PICK rem \in SUBSET Recorded, new \in SUBSET Names,
           lost \in SUBSET DefaultNames, set \in SUBSET Addrs : \E rest :
        /\ events = Parts(rem, new, lost, rest)
        /\ \A e \in rest : e.kind \in RestKinds
        /\ DefaultNames' = (DefaultNames \ lost) \cup set
        /\ set \cap (DefaultNames \ lost) = {}
        /\ Cardinality(SetsOf(rest)) = Cardinality(set)
  BY DEF Told
<1> PICK rest :
        /\ events = Parts(rem, new, lost, rest)
        /\ \A e \in rest : e.kind \in RestKinds
        /\ DefaultNames' = (DefaultNames \ lost) \cup set
        /\ set \cap (DefaultNames \ lost) = {}
        /\ Cardinality(SetsOf(rest)) = Cardinality(set)
  BY <1>0
<1>1. \A e \in events : e.kind \in OtherKinds \cup MovingKinds
  BY PartsByKind
<1>2. {e \in events : Moves(e, m, 1)} = SetsOf(rest)
  <2>1. {e \in events : Moves(e, m, 1)} = SetsOf(events)
    BY <1>1, MovesDefaultNames DEF SetsOf
  <2> QED
    BY <2>1, PartsByKind
<1>3. {e \in events : Moves(e, m, -1)} = AddressEvents("ReverseLookupUnset", lost)
  <2>1. {e \in events : Moves(e, m, -1)} = {e \in events : e.kind = "ReverseLookupUnset"}
    BY <1>1, MovesDefaultNames
  <2> QED
    BY <2>1, PartsByKind
<1>4. IsFiniteSet(DefaultNames) /\ IsFiniteSet(set) /\ IsFiniteSet(lost)
  <2>1. IsFiniteSet(DefaultNames) /\ IsFiniteSet(set)
    BY FS_Subset, GaugesAssumption DEF DefaultNames
  <2> QED
    BY <2>1, FS_Subset
<1>5. Cardinality(AddressEvents("ReverseLookupUnset", lost)) = Cardinality(lost)
  BY <1>4, AddressEventsCount
<1>6. gauges'[m] = gauges[m] + Cardinality(set) - Cardinality(lost)
  BY <1>2, <1>3, <1>5 DEF Emits
<1>7. gauges[m] = Cardinality(DefaultNames)
  BY DEF DefaultNamesCounted
<1>8. /\ Cardinality((DefaultNames \ lost) \cup set)
            = Cardinality(DefaultNames) + Cardinality(set) - Cardinality(lost)
  BY <1>4, Exchange
<1> QED
  BY <1>6, <1>7, <1>8

\* The gauge m follows the records of some names.
FollowsRecords(m, Chosen) ==
    \A e : (/\ e.kind \in OtherKinds \cup MovingKinds
            /\ e.kind \in {"NameRecordAdded", "NameRecordRemoved"} => e.name \in Names) =>
        /\ Moves(e, m, 1) <=> e.kind = "NameRecordAdded" /\ e.name \in Chosen
        /\ Moves(e, m, -1) <=> e.kind = "NameRecordRemoved" /\ e.name \in Chosen

\* The records with one property of their names, counted by the gauge m.
LEMMA RecordGaugeStep ==
    ASSUME NEW events, Told(events), Emits(events), NEW m \in Tracked,
           NEW Chosen \in SUBSET Names, FollowsRecords(m, Chosen),
           gauges[m] = Cardinality(Recorded \cap Chosen)
    PROVE  gauges'[m] = Cardinality(Recorded' \cap Chosen)
<1>0. PICK rem \in SUBSET Recorded, new \in SUBSET Names,
           lost \in SUBSET DefaultNames, set \in SUBSET Addrs : \E rest :
        /\ events = Parts(rem, new, lost, rest)
        /\ \A e \in rest : e.kind \in RestKinds
        /\ Recorded' = (Recorded \ rem) \cup new
        /\ new \cap (Recorded \ rem) = {}
  BY DEF Told
<1>a. PICK rest :
        /\ events = Parts(rem, new, lost, rest)
        /\ \A e \in rest : e.kind \in RestKinds
        /\ Recorded' = (Recorded \ rem) \cup new
        /\ new \cap (Recorded \ rem) = {}
  BY <1>0
<1> DEFINE S == Recorded \cap Chosen
           R == rem \cap Chosen
           A == new \cap Chosen
<1>1. \A e \in events :
         /\ e.kind \in OtherKinds \cup MovingKinds
         /\ e.kind \in {"NameRecordAdded", "NameRecordRemoved"} => e.name \in Names
  <2>1. /\ {e \in events : e.kind = "NameRecordAdded"} = NameEvents("NameRecordAdded", new)
        /\ {e \in events : e.kind = "NameRecordRemoved"} = NameEvents("NameRecordRemoved", rem)
        /\ \A e \in events : e.kind \in OtherKinds \cup MovingKinds
    BY <1>a, PartsByKind
  <2>2. \A e \in NameEvents("NameRecordAdded", new) \cup NameEvents("NameRecordRemoved", rem) :
           e.name \in Names
    BY DEF NameEvents, Recorded
  <2> QED
    BY <2>1, <2>2
<1>2. {e \in events : Moves(e, m, 1)} = NameEvents("NameRecordAdded", A)
  <2>1. {e \in events : Moves(e, m, 1)}
            = {e \in {f \in events : f.kind = "NameRecordAdded"} : e.name \in Chosen}
    BY <1>1 DEF FollowsRecords
  <2>2. {f \in events : f.kind = "NameRecordAdded"} = NameEvents("NameRecordAdded", new)
    BY <1>a, PartsByKind
  <2> QED
    BY <2>1, <2>2 DEF NameEvents
<1>3. {e \in events : Moves(e, m, -1)} = NameEvents("NameRecordRemoved", R)
  <2>1. {e \in events : Moves(e, m, -1)}
            = {e \in {f \in events : f.kind = "NameRecordRemoved"} : e.name \in Chosen}
    BY <1>1 DEF FollowsRecords
  <2>2. {f \in events : f.kind = "NameRecordRemoved"} = NameEvents("NameRecordRemoved", rem)
    BY <1>a, PartsByKind
  <2> QED
    BY <2>1, <2>2 DEF NameEvents
<1>4. IsFiniteSet(S) /\ IsFiniteSet(R) /\ IsFiniteSet(A)
  <2>1. S \in SUBSET Names /\ R \in SUBSET Names /\ A \in SUBSET Names
    BY DEF Recorded
  <2> QED
    BY <2>1, FS_Subset, GaugesAssumption
<1>5. gauges'[m] = gauges[m] + Cardinality(A) - Cardinality(R)
  <2>1. gauges'[m] = gauges[m] + Cardinality({e \in events : Moves(e, m, 1)})
                               - Cardinality({e \in events : Moves(e, m, -1)})
    BY DEF Emits
  <2>2. /\ Cardinality(NameEvents("NameRecordAdded", A)) = Cardinality(A)
        /\ Cardinality(NameEvents("NameRecordRemoved", R)) = Cardinality(R)
    BY <1>4, NameEventsCount
  <2> QED
    BY <1>2, <1>3, <2>1, <2>2
<1>6. Recorded' \cap Chosen = (S \ R) \cup A
  BY <1>a
<1>7. R \subseteq S /\ A \cap (S \ R) = {}
  BY <1>a
<1>8. gauges[m] = Cardinality(S)
  OBVIOUS
<1> HIDE DEF S, R, A
<1>9. Cardinality((S \ R) \cup A) = Cardinality(S) + Cardinality(A) - Cardinality(R)
  BY <1>4, <1>7, Exchange
<1>10. gauges[m] + Cardinality(A) - Cardinality(R)
          = Cardinality(S) + Cardinality(A) - Cardinality(R)
  BY <1>8, Zenon
<1> QED
  BY <1>5, <1>6, <1>9, <1>10, Zenon

LEMMA RecordsStep ==
    ASSUME NEW events, Told(events), Emits(events), RecordsCounted
    PROVE  RecordsCounted'
<1> SUFFICES ASSUME NEW m \in Tracked
             PROVE  /\ m[1] = "depth_distribution" => gauges'[m] = Cardinality(AtDepth(m[2])')
                    /\ m[1] = "length_distribution" => gauges'[m] = Cardinality(OfLength(m[2])')
  BY DEF RecordsCounted
<1>0. m = <<m[1], m[2]>>
  BY GaugesAssumption
<1>1. CASE m[1] = "depth_distribution"
  <2> DEFINE Chosen == {n \in Names : Depth[n] = m[2]}
  <2>1. AtDepth(m[2]) = Recorded \cap Chosen /\ AtDepth(m[2])' = Recorded' \cap Chosen
    BY DEF AtDepth, Recorded
  <2>2. gauges[m] = Cardinality(Recorded \cap Chosen)
    BY <1>1, <2>1 DEF RecordsCounted
  <2>3. FollowsRecords(m, Chosen)
    <3>1. ASSUME NEW e, e.kind \in OtherKinds \cup MovingKinds,
                 e.kind \in {"NameRecordAdded", "NameRecordRemoved"} => e.name \in Names
          PROVE  /\ Moves(e, m, 1) <=> e.kind = "NameRecordAdded" /\ e.name \in Chosen
                 /\ Moves(e, m, -1) <=> e.kind = "NameRecordRemoved" /\ e.name \in Chosen
      <4>1. m = <<"depth_distribution", m[2]>>
        BY <1>0, <1>1
      <4>2. /\ Moves(e, m, 1) <=> e.kind = "NameRecordAdded" /\ Depth[e.name] = m[2]
            /\ Moves(e, m, -1) <=> e.kind = "NameRecordRemoved" /\ Depth[e.name] = m[2]
        <5> DEFINE x == m[2]
        <5>1. m = <<"depth_distribution", x>>
          BY <4>1
        <5> HIDE DEF x
        <5>2. /\ Moves(e, m, 1) <=> e.kind = "NameRecordAdded" /\ Depth[e.name] = x
              /\ Moves(e, m, -1) <=> e.kind = "NameRecordRemoved" /\ Depth[e.name] = x
          BY <3>1, <5>1, MovesRecords
        <5> QED
          BY <5>2 DEF x
      <4> QED
        BY <3>1, <4>2
    <3> HIDE DEF Chosen
    <3> QED
      BY <3>1 DEF FollowsRecords
  <2> HIDE DEF Chosen
  <2>4. gauges'[m] = Cardinality(Recorded' \cap Chosen)
    BY <2>2, <2>3, RecordGaugeStep DEF Chosen
  <2> QED
    BY <1>1, <2>1, <2>4
<1>2. CASE m[1] = "length_distribution"
  <2> DEFINE Chosen == {n \in Names : SlnLength[n] = m[2]}
  <2>1. OfLength(m[2]) = Recorded \cap Chosen /\ OfLength(m[2])' = Recorded' \cap Chosen
    BY DEF OfLength, Recorded
  <2>2. gauges[m] = Cardinality(Recorded \cap Chosen)
    BY <1>2, <2>1 DEF RecordsCounted
  <2>3. FollowsRecords(m, Chosen)
    <3>1. ASSUME NEW e, e.kind \in OtherKinds \cup MovingKinds,
                 e.kind \in {"NameRecordAdded", "NameRecordRemoved"} => e.name \in Names
          PROVE  /\ Moves(e, m, 1) <=> e.kind = "NameRecordAdded" /\ e.name \in Chosen
                 /\ Moves(e, m, -1) <=> e.kind = "NameRecordRemoved" /\ e.name \in Chosen
      <4>1. m = <<"length_distribution", m[2]>>
        BY <1>0, <1>2
      <4>2. /\ Moves(e, m, 1) <=> e.kind = "NameRecordAdded" /\ SlnLength[e.name] = m[2]
            /\ Moves(e, m, -1) <=> e.kind = "NameRecordRemoved" /\ SlnLength[e.name] = m[2]
        <5> DEFINE x == m[2]
        <5>1. m = <<"length_distribution", x>>
          BY <4>1
        <5> HIDE DEF x
        <5>2. /\ Moves(e, m, 1) <=> e.kind = "NameRecordAdded" /\ SlnLength[e.name] = x
              /\ Moves(e, m, -1) <=> e.kind = "NameRecordRemoved" /\ SlnLength[e.name] = x
          BY <3>1, <5>1, MovesRecords
        <5> QED
          BY <5>2 DEF x
      <4> QED
        BY <3>1, <4>2
    <3> HIDE DEF Chosen
    <3> QED
      BY <3>1 DEF FollowsRecords
  <2> HIDE DEF Chosen
  <2>4. gauges'[m] = Cardinality(Recorded' \cap Chosen)
    BY <2>2, <2>3, RecordGaugeStep DEF Chosen
  <2> QED
    BY <1>2, <2>1, <2>4
<1> QED
  BY <1>1, <1>2

-----------------------------------------------------------------------------
(* Every step tells.                                                       *)

\* The addresses whose default name goes when names point elsewhere.
Lost(ns, target) ==
    {a \in Addrs : \E n \in ns : PointsTo(n, a) /\ target # a /\ reverse[a] = n}

SameRecords == \A n \in Names : HasRecord(n)' = HasRecord(n)

LEMMA LostNames ==
    ASSUME NEW ns \in SUBSET Names, NEW target
    PROVE  /\ Lost(ns, target) \in SUBSET DefaultNames
           /\ ReverseUnset(ns, target) = AddressEvents("ReverseLookupUnset", Lost(ns, target))
           /\ reverse' = InvalidateReverse(ns, target) =>
                  DefaultNames' = DefaultNames \ Lost(ns, target)
<1>1. NoName \notin ns
  BY NullsAssumption
<1>2. Lost(ns, target) \in SUBSET DefaultNames
  BY <1>1 DEF Lost, DefaultNames
<1>3. ReverseUnset(ns, target) = AddressEvents("ReverseLookupUnset", Lost(ns, target))
  BY DEF ReverseUnset, AddressEvents, Lost
<1>4. ASSUME reverse' = InvalidateReverse(ns, target)
      PROVE  DefaultNames' = DefaultNames \ Lost(ns, target)
  BY <1>4 DEF DefaultNames, InvalidateReverse, Lost
<1> QED
  BY <1>2, <1>3, <1>4

\* The steps that set no default name.
LEMMA ToldWithoutSets ==
    ASSUME NEW events, NEW rem \in SUBSET Recorded, NEW new \in SUBSET Names,
           NEW lost \in SUBSET DefaultNames, NEW rest,
           events = Parts(rem, new, lost, rest),
           \A e \in rest : e.kind \in OtherKinds,
           Recorded' = (Recorded \ rem) \cup new, new \cap (Recorded \ rem) = {},
           DefaultNames' = DefaultNames \ lost
    PROVE  Told(events)
<1>1. SetsOf(rest) = {}
  BY DEF SetsOf, OtherKinds
<1>2. Cardinality(SetsOf(rest)) = Cardinality({})
  BY <1>1
<1>3. DefaultNames' = (DefaultNames \ lost) \cup {} /\ {} \cap (DefaultNames \ lost) = {}
  OBVIOUS
<1>4. {} \in SUBSET Addrs /\ \A e \in rest : e.kind \in RestKinds
  BY DEF RestKinds
<1> QED
  BY <1>2, <1>3, <1>4 DEF Told

LEMMA AddingTold ==
    ASSUME NEW n \in Names, HasRecord(n)',
           \A m \in Names : m # n => registry'[m] = registry[m],
           reverse' = InvalidateReverse({n}, NoAddr),
           NEW rest, \A e \in rest : e.kind \in OtherKinds
    PROVE  Told(Adding(n) \cup rest)
<1> DEFINE rem == {m \in {n} : HasRecord(m)}
<1>1. Removal({n}) = NameEvents("NameRecordRemoved", rem)
                        \cup AddressEvents("ReverseLookupUnset", Lost({n}, NoAddr))
  BY LostNames DEF Removal, RecordsRemoved, NameEvents
<1>2. Added(n) = NameEvents("NameRecordAdded", {n})
  BY DEF Added, NameEvents
<1>3. Adding(n) \cup rest = Parts(rem, {n}, Lost({n}, NoAddr), rest)
  BY <1>1, <1>2 DEF Adding, Parts
<1>4. Recorded' = (Recorded \ rem) \cup {n}
  BY DEF Recorded, HasRecord
<1>5. rem \in SUBSET Recorded /\ {n} \in SUBSET Names /\ {n} \cap (Recorded \ rem) = {}
  BY DEF Recorded
<1>6. /\ Lost({n}, NoAddr) \in SUBSET DefaultNames
      /\ DefaultNames' = DefaultNames \ Lost({n}, NoAddr)
  BY <1>5, LostNames
<1> QED
  BY <1>3, <1>4, <1>5, <1>6, ToldWithoutSets

LEMMA RemovalTold ==
    ASSUME NEW ns \in SUBSET Names, RemoveRecords(ns),
           NEW rest, \A e \in rest : e.kind \in OtherKinds
    PROVE  Told(Removal(ns) \cup rest)
<1> DEFINE rem == {m \in ns : HasRecord(m)}
<1>1. Removal(ns) \cup rest = Parts(rem, {}, Lost(ns, NoAddr), rest)
  BY LostNames DEF Removal, RecordsRemoved, NameEvents, Parts
<1>2. Recorded' = (Recorded \ rem) \cup {}
  BY DEF Recorded, HasRecord, RemoveRecords
<1>3. rem \in SUBSET Recorded /\ {} \in SUBSET Names /\ {} \cap (Recorded \ rem) = {}
  BY DEF Recorded
<1>4. /\ Lost(ns, NoAddr) \in SUBSET DefaultNames
      /\ DefaultNames' = DefaultNames \ Lost(ns, NoAddr)
  BY LostNames DEF RemoveRecords
<1> QED
  BY <1>1, <1>2, <1>3, <1>4, ToldWithoutSets

LEMMA RetargetTold ==
    ASSUME NEW ns \in SUBSET Names, NEW target, SameRecords,
           reverse' = InvalidateReverse(ns, target),
           NEW rest, \A e \in rest : e.kind \in OtherKinds
    PROVE  Told(ReverseUnset(ns, target) \cup rest)
<1>1. ReverseUnset(ns, target) \cup rest = Parts({}, {}, Lost(ns, target), rest)
  BY LostNames DEF NameEvents, Parts
<1>2. Recorded' = (Recorded \ {}) \cup {}
  BY DEF Recorded, SameRecords
<1>3. /\ Lost(ns, target) \in SUBSET DefaultNames
      /\ DefaultNames' = DefaultNames \ Lost(ns, target)
  BY LostNames
<1>4. {} \in SUBSET Recorded /\ {} \in SUBSET Names /\ {} \cap (Recorded \ {}) = {}
  OBVIOUS
<1> QED
  BY <1>1, <1>2, <1>3, <1>4, ToldWithoutSets

LEMMA QuietTold ==
    ASSUME SameRecords, reverse' = reverse, NEW rest, \A e \in rest : e.kind \in OtherKinds
    PROVE  Told(rest)
<1>1. rest = Parts({}, {}, {}, rest)
  BY DEF NameEvents, AddressEvents, Parts
<1>2. Recorded' = (Recorded \ {}) \cup {}
  BY DEF Recorded, SameRecords
<1>3. {} \in SUBSET DefaultNames /\ DefaultNames' = DefaultNames \ {}
  BY DEF DefaultNames
<1> QED
  BY <1>1, <1>2, <1>3, ToldWithoutSets

LEMMA SetReverseTold ==
    ASSUME TypeOK, NEW a \in Addrs, NEW n \in Names, SetReverseLookup(a, n)
    PROVE  Told(ReverseSet(a))
<1>1. SameRecords /\ Recorded' = (Recorded \ {}) \cup {}
  BY DEF SetReverseLookup, SameRecords, HasRecord, Recorded
<1>2. ReverseSet(a) = Parts({}, {}, {}, ReverseSet(a))
  BY DEF NameEvents, AddressEvents, Parts
<1>3. CASE reverse[a] = NoName
  <2>1. ReverseSet(a) = {[kind |-> "ReverseLookupSet"]}
    BY <1>3 DEF ReverseSet, Simple
  <2>2. SetsOf(ReverseSet(a)) = {[kind |-> "ReverseLookupSet"]}
    BY <2>1 DEF SetsOf
  <2>3. Cardinality(SetsOf(ReverseSet(a))) = Cardinality({a})
    BY <2>2, FS_Singleton
  <2>4. DefaultNames' = (DefaultNames \ {}) \cup {a} /\ {a} \cap (DefaultNames \ {}) = {}
    BY <1>3, NullsAssumption DEF DefaultNames, SetReverseLookup, TypeOK
  <2>5. \A e \in ReverseSet(a) : e.kind \in RestKinds
    BY <2>1 DEF RestKinds
  <2>6. {a} \in SUBSET Addrs /\ {} \in SUBSET Recorded /\ {} \in SUBSET DefaultNames
        /\ {} \cap (Recorded \ {}) = {} /\ {} \in SUBSET Names
    OBVIOUS
  <2> QED
    BY <1>1, <1>2, <2>3, <2>4, <2>5, <2>6 DEF Told
<1>4. CASE reverse[a] # NoName
  <2>1. ReverseSet(a) = {}
    BY <1>4 DEF ReverseSet
  <2>2. DefaultNames' = DefaultNames \ {} /\ {} \in SUBSET DefaultNames
    BY <1>4, NullsAssumption DEF DefaultNames, SetReverseLookup, TypeOK
  <2> QED
    BY <1>1, <1>2, <2>1, <2>2, ToldWithoutSets
<1> QED
  BY <1>3, <1>4

LEMMA UnsetReverseTold ==
    ASSUME TypeOK, NEW a \in Addrs, UnsetReverseLookup(a)
    PROVE  Told({[kind |-> "ReverseLookupUnset", address |-> a]})
<1>1. Recorded' = (Recorded \ {}) \cup {}
  BY DEF UnsetReverseLookup, HasRecord, Recorded
<1>2. {[kind |-> "ReverseLookupUnset", address |-> a]} = Parts({}, {}, {a}, {})
  BY DEF NameEvents, AddressEvents, Parts
<1>3. DefaultNames' = DefaultNames \ {a} /\ {a} \in SUBSET DefaultNames
  BY DEF DefaultNames, UnsetReverseLookup, TypeOK
<1> QED
  BY <1>1, <1>2, <1>3, ToldWithoutSets

\* The names that have a record after one is added, or given another term.
LEMMA AddRecordRecorded ==
    ASSUME TypeOK, NEW n \in Names, NEW grace, NEW exp \in Nat,
           NEW parent, NEW data \in SUBSET (UserKeys \cup Flags),
           AddRecord(n, grace, exp, parent, data)
    PROVE  /\ HasRecord(n)'
           /\ \A m \in Names : m # n => registry'[m] = registry[m]
           /\ reverse' = InvalidateReverse({n}, NoAddr)
<1>1. minted + 1 \in NftIds
  BY AddRecordShape
<1>2. [nft |-> minted + 1, exp |-> exp, target |-> NoAddr, data |-> data] \in NameRecord
  BY <1>1 DEF NameRecord
<1>3. HasRecord(n)'
  BY <1>2, NullsAssumption DEF AddRecord, TypeOK, HasRecord
<1> QED
  BY <1>3, AddRecordShape DEF AddRecord

LEMMA SetExpirationRecords ==
    ASSUME TypeOK, OwnershipInv, NEW i \in NftIds, NEW exp \in Nat, Exists(i),
           HasRecord(nfts[i].name), SetExpiration(i, exp)
    PROVE  SameRecords
<1>1. \A n \in Names : HasRecord(n) => HasRecord(n)'
  BY SetExpirationKeepsTargets
<1>2. \A n \in Names : n # nfts[i].name => registry'[n] = registry[n]
  BY SetExpirationShape
<1> QED
  BY <1>1, <1>2 DEF SameRecords, HasRecord

LEMMA OthersSimple ==
    /\ \A e \in {} : e.kind \in OtherKinds
    /\ \A kind \in OtherKinds : \A e \in Simple(kind) : e.kind \in OtherKinds
    /\ \A n, key : \A e \in UserDataSetEvents(n, key) : e.kind \in OtherKinds
    /\ \A n, key : \A e \in UserDataUnsetEvents(n, key) : e.kind \in OtherKinds
BY DEF Simple, OtherKinds, UserDataSetEvents, UserDataUnsetEvents

\* The burns of expired NFTs: the record goes only if it was the NFT's.
LEMMA BurnTold ==
    ASSUME TypeOK, NEW i \in NftIds, BurnExpired(i), NEW burned \in BOOLEAN
    PROVE  Told(BurnEvents(i, burned))
<1> DEFINE rest == IF burned THEN Simple("NodeSubnameBurned") ELSE {}
<1>1. \A e \in rest : e.kind \in OtherKinds
  BY DEF Simple, OtherKinds
<1> PICK n \in Names : n = nfts[i].name
  BY NftTyped DEF BurnExpired, Nft
<1>2. CASE HasRecord(n) /\ IdMatches(i)
  <2>1. RemoveRecords({n}) /\ BurnEvents(i, burned) = Removal({n}) \cup rest
    BY <1>2 DEF BurnExpired, BurnEvents
  <2> HIDE DEF rest
  <2> QED
    BY <1>1, <2>1, RemovalTold
<1>3. CASE ~(HasRecord(n) /\ IdMatches(i))
  <2>1. /\ UNCHANGED <<registry, reverse>> /\ BurnEvents(i, burned) = rest
    BY <1>3 DEF BurnExpired, BurnEvents
  <2>2. SameRecords
    BY <2>1 DEF SameRecords, HasRecord
  <2> HIDE DEF rest
  <2> QED
    BY <1>1, <2>1, <2>2, QuietTold
<1> QED
  BY <1>2, <1>3

LEMMA EveryStepTells ==
    ASSUME TypeOK, OwnershipInv, GaugesNext
    PROVE  \E events : Told(events) /\ Emits(events)
<1> DEFINE Tells == \E events : Told(events) /\ Emits(events)
<1>1. ASSUME NEW n \in Names, NEW grace, NEW exp \in Nat,
             NEW parent, NEW data \in SUBSET (UserKeys \cup Flags),
             AddRecord(n, grace, exp, parent, data),
             NEW rest, \A e \in rest : e.kind \in OtherKinds
      PROVE  Told(Adding(n) \cup rest)
  BY <1>1, AddRecordRecorded, AddingTold
<1>2. ASSUME TermsSame, reverse' = reverse, NEW rest, \A e \in rest : e.kind \in OtherKinds
      PROVE  Told(rest)
  BY <1>2, QuietTold DEF TermsSame, SameRecords
<1>3. ASSUME PaymentGauges PROVE Tells
  <2>1. ASSUME NEW n \in Slns, NEW years \in 1..MaxYears, Register(n, years), Emits(Adding(n))
        PROVE  Tells
    <3>1. years * Year \in Nat
      BY TimeAssumption
    <3>2. now + years * Year \in Nat
      BY <3>1 DEF TypeOK
    <3>3. Told(Adding(n) \cup {})
      BY <1>1, <2>1, <3>2, OthersSimple DEF Register
    <3>4. Adding(n) \cup {} = Adding(n)
      OBVIOUS
    <3> QED
      BY <2>1, <3>3, <3>4
  <2>2. ASSUME NEW i \in NftIds, NEW years \in 1..MaxYears, Renew(i, years), Emits({})
        PROVE  Tells
    <3>1. SameRecords
      BY <2>2, RenewTerm, SetExpirationRecords
    <3>2. Told({})
      BY <2>2, <3>1, QuietTold, OthersSimple DEF Renew
    <3> QED
      BY <2>2, <3>2
  <2> QED
    BY <1>3, <2>1, <2>2 DEF PaymentGauges
<1>4. ASSUME SubnamesGauges PROVE Tells
  <2>1. ASSUME NEW i \in NftIds, NEW n \in Subs, RemoveLeaf(i, n),
               Emits(Removal({n}) \cup Simple("LeafSubnameRemoved"))
        PROVE  Tells
    <3>1. RemoveRecords({n}) /\ {n} \in SUBSET Names
      BY <2>1 DEF RemoveLeaf
    <3>2. \A e \in Simple("LeafSubnameRemoved") : e.kind \in OtherKinds
      BY DEF Simple, OtherKinds
    <3>3. Told(Removal({n}) \cup Simple("LeafSubnameRemoved"))
      BY <3>1, <3>2, RemovalTold
    <3> QED
      BY <2>1, <3>3
  <2>2. ASSUME NEW i \in NftIds, NEW n \in Subs, NEW target \in Addrs, NewLeaf(i, n, target),
               Emits(Adding(n) \cup Simple("LeafSubnameCreated"))
        PROVE  Tells
    <3>1. [nft |-> registry[Parent[n]].nft, exp |-> LeafExpiration,
           target |-> target, data |-> {}] \in NameRecord
      BY <2>2, AuthorizedNode DEF NewLeaf, CanManage, NameRecord
    <3>2. /\ HasRecord(n)' /\ reverse' = InvalidateReverse({n}, NoAddr)
          /\ \A m \in Names : m # n => registry'[m] = registry[m]
      BY <2>2, <3>1, NullsAssumption DEF NewLeaf, TypeOK, HasRecord
    <3>3. \A e \in Simple("LeafSubnameCreated") : e.kind \in OtherKinds
      BY DEF Simple, OtherKinds
    <3>4. Told(Adding(n) \cup Simple("LeafSubnameCreated"))
      BY <3>2, <3>3, AddingTold
    <3> QED
      BY <2>2, <3>4
  <2>3. ASSUME NEW i \in NftIds, NEW n \in Subs, NEW flags \in SUBSET Flags,
               EditSetup(i, n, flags), Emits({})
        PROVE  Tells
    <3>1. TermsSame /\ reverse' = reverse
      BY <2>3, EditsKeepTerms DEF EditSetup
    <3> QED
      BY <1>2, <2>3, <3>1, OthersSimple
  <2>4. ASSUME NEW i \in NftIds, NEW n \in Subs, NEW flags \in SUBSET Flags,
               NEW exp \in 0..MaxExp, NewSubname(i, n, exp, flags),
               Emits(Adding(n) \cup Simple("NodeSubnameCreated"))
        PROVE  Tells
    <3>1. exp \in Nat
      BY <2>4
    <3>2. AddRecord(n, FALSE, exp, i, flags)
      BY <2>4 DEF NewSubname
    <3>3. \A e \in Simple("NodeSubnameCreated") : e.kind \in OtherKinds
      BY DEF Simple, OtherKinds
    <3>4. n \in Names /\ flags \in SUBSET (UserKeys \cup Flags)
      OBVIOUS
    <3>5. Told(Adding(n) \cup Simple("NodeSubnameCreated"))
      BY <1>1, <3>1, <3>2, <3>3, <3>4
    <3> QED
      BY <2>4, <3>5
  <2>5. ASSUME NEW i \in NftIds, NEW exp \in 0..MaxExp, ExtendExpiration(i, exp), Emits({})
        PROVE  Tells
    <3>1. SameRecords
      BY <2>5, ExtendTerm, SetExpirationRecords
    <3>2. Told({})
      BY <2>5, <3>1, QuietTold, OthersSimple DEF ExtendExpiration
    <3> QED
      BY <2>5, <3>2
  <2> QED
    BY <1>4, <2>1, <2>2, <2>3, <2>4, <2>5 DEF SubnamesGauges
<1>5. ASSUME ControllerGauges PROVE Tells
  <2>1. ASSUME NEW i \in NftIds, NEW target \in Addrs \cup {NoAddr}, SetTargetAddress(i, target),
               Emits(ReverseUnset({nfts[i].name}, target)
                        \cup {[kind |-> "TargetAddressSet", target |-> target # NoAddr]})
        PROVE  Tells
    <3> DEFINE rest == {[kind |-> "TargetAddressSet", target |-> target # NoAddr]}
    <3>1. SameRecords
      BY <2>1, EditsKeepTerms DEF TermsSame, SameRecords
    <3>2. {nfts[i].name} \in SUBSET Names
      BY <2>1, AuthorizedNode DEF SetTargetAddress
    <3>3. \A e \in rest : e.kind \in OtherKinds
      BY DEF OtherKinds
    <3>4. reverse' = InvalidateReverse({nfts[i].name}, target)
      BY <2>1 DEF SetTargetAddress
    <3> HIDE DEF rest
    <3>5. Told(ReverseUnset({nfts[i].name}, target) \cup rest)
      BY <3>1, <3>2, <3>3, <3>4, RetargetTold
    <3> QED
      BY <2>1, <3>5 DEF rest
  <2>2. ASSUME NEW a \in Addrs, NEW n \in Names, SetReverseLookup(a, n), Emits(ReverseSet(a))
        PROVE  Tells
    BY <2>2, SetReverseTold
  <2>3. ASSUME NEW a \in Addrs, UnsetReverseLookup(a),
               Emits({[kind |-> "ReverseLookupUnset", address |-> a]})
        PROVE  Tells
    BY <2>3, UnsetReverseTold
  <2>4. ASSUME NEW i \in NftIds, NEW key \in UserKeys, SetUserData(i, key),
               Emits(UserDataSetEvents(nfts[i].name, key))
        PROVE  Tells
    <3>1. TermsSame /\ reverse' = reverse
      BY <2>4, EditsKeepTerms DEF SetUserData
    <3> QED
      BY <1>2, <2>4, <3>1, OthersSimple
  <2>5. ASSUME NEW i \in NftIds, NEW key \in UserKeys \cup Flags, UnsetUserData(i, key),
               Emits(UserDataUnsetEvents(nfts[i].name, key))
        PROVE  Tells
    <3>1. TermsSame /\ reverse' = reverse
      BY <2>5, EditsKeepTerms DEF UnsetUserData
    <3> QED
      BY <1>2, <2>5, <3>1, OthersSimple
  <2> QED
    BY <1>5, <2>1, <2>2, <2>3, <2>4, <2>5 DEF ControllerGauges
<1>6. ASSUME BurnGauges PROVE Tells
  <2>1. PICK i \in NftIds, burned \in BOOLEAN : BurnExpired(i) /\ Emits(BurnEvents(i, burned))
    BY <1>6 DEF BurnGauges
  <2> QED
    BY <2>1, BurnTold
<1>7. ASSUME AdminGauges PROVE Tells
  <2>1. ASSUME NEW n \in Slns, NEW years \in AdminYears, AdminRegister(n, years), Emits(Adding(n))
        PROVE  Tells
    <3>1. years * Year \in Nat
      BY TimeAssumption
    <3>2. now + years * Year \in Nat
      BY <3>1 DEF TypeOK
    <3>3. Told(Adding(n) \cup {})
      BY <1>1, <2>1, <3>2, OthersSimple DEF AdminRegister
    <3>4. Adding(n) \cup {} = Adding(n)
      OBVIOUS
    <3> QED
      BY <2>1, <3>3, <3>4
  <2>2. ASSUME NEW ns \in SUBSET Names \ {{}}, AdminRemoveRecords(ns), Emits(Removal(ns))
        PROVE  Tells
    <3>1. Told(Removal(ns) \cup {})
      BY <2>2, RemovalTold, OthersSimple DEF AdminRemoveRecords
    <3>2. Removal(ns) \cup {} = Removal(ns)
      OBVIOUS
    <3> QED
      BY <2>2, <3>1, <3>2
  <2>3. ASSUME \/ \E app \in Apps : Authorize(app) \/ Deauthorize(app)
               \/ \E label \in Labels : ChangeDenyList(label),
               Emits({})
        PROVE  Tells
    <3>1. TermsSame /\ reverse' = reverse
      BY <2>3, EditsKeepTerms DEF Authorize, Deauthorize, ChangeDenyList, nameVars
    <3> QED
      BY <1>2, <2>3, <3>1, OthersSimple
  <2> QED
    BY <1>7, <2>1, <2>2, <2>3 DEF AdminGauges
<1>8. ASSUME Tick, Emits({}) PROVE Tells
  <2>1. TermsSame /\ reverse' = reverse
    BY <1>8, EditsKeepTerms DEF Tick, nameVars
  <2> QED
    BY <1>2, <1>8, <2>1, OthersSimple
<1> QED
  BY <1>3, <1>4, <1>5, <1>6, <1>7, <1>8 DEF GaugesNext

-----------------------------------------------------------------------------
(* The gauges of records and of default names are exact.                   *)

\* The registry's invariants, in every behaviour that is counted.
LEMMA WatchedRegistry == GaugesSpec => [](TypeOK /\ OwnershipInv)
BY GaugesWatchRegistry, TypeCorrect, OwnershipCorrect, PTL

\* However records are lost, their distributions by depth and by length are
\* those of the registry.
THEOREM RecordsCountedCorrect == GaugesSpec => []RecordsCounted
<1>1. GaugesInit => RecordsCounted
  BY FS_EmptySet DEF GaugesInit, Init, RecordsCounted, AtDepth, OfLength, HasRecord
<1>2. ASSUME TypeOK, OwnershipInv, RecordsCounted, [GaugesNext]_gaugesVars
      PROVE  RecordsCounted'
  <2>1. CASE GaugesNext
    BY <1>2, <2>1, EveryStepTells, RecordsStep
  <2>2. CASE UNCHANGED gaugesVars
    BY <1>2, <2>2 DEF gaugesVars, vars, RecordsCounted, AtDepth, OfLength, HasRecord
  <2> QED
    BY <1>2, <2>1, <2>2
<1> QED
  BY <1>1, <1>2, WatchedRegistry, PTL DEF GaugesSpec

\* However a default name is lost, default_names is the number there are.
THEOREM DefaultNamesCorrect == GaugesSpec => []DefaultNamesCounted
<1>1. GaugesInit => DefaultNamesCounted
  BY FS_EmptySet DEF GaugesInit, Init, DefaultNamesCounted, DefaultNames
<1>2. ASSUME TypeOK, OwnershipInv, DefaultNamesCounted, [GaugesNext]_gaugesVars
      PROVE  DefaultNamesCounted'
  <2>1. CASE GaugesNext
    BY <1>2, <2>1, EveryStepTells, DefaultNamesStep
  <2>2. CASE UNCHANGED gaugesVars
    BY <1>2, <2>2 DEF gaugesVars, vars, DefaultNamesCounted, DefaultNames
  <2> QED
    BY <1>2, <2>1, <2>2
<1> QED
  BY <1>1, <1>2, WatchedRegistry, PTL DEF GaugesSpec

-----------------------------------------------------------------------------
(* The gauges of subnames and of user data are never too low.              *)

SubnameKinds == {"NodeSubnameCreated", "NodeSubnameBurned", "LeafSubnameCreated",
                 "LeafSubnameRemoved"}
DataKinds == {"UserDataSet", "UserDataUnset"}

LeafGauge == <<"leaf_subnames", NoLabel>>
NodeGauge == <<"node_subnames", NoLabel>>
DataGauge(key) == <<"user_data_distribution", key>>

LEMMA MovesSubnames ==
    ASSUME NEW e, e.kind \in OtherKinds \cup MovingKinds
    PROVE  /\ Moves(e, LeafGauge, 1) <=> e.kind = "LeafSubnameCreated"
           /\ Moves(e, LeafGauge, -1) <=> e.kind = "LeafSubnameRemoved"
           /\ Moves(e, NodeGauge, 1) <=> e.kind = "NodeSubnameCreated"
           /\ Moves(e, NodeGauge, -1) <=> e.kind = "NodeSubnameBurned"
<1> USE DEF Moves, Counts, RecordCounts, Add, AddAt, NoChange, LeafGauge, NodeGauge
<1>1. CASE e.kind \in {"ReverseLookupSet", "ReverseLookupUnset"}
  BY <1>1
<1>2. CASE e.kind = "NameRecordAdded"
  BY <1>2
<1>3. CASE e.kind = "NameRecordRemoved"
  BY <1>3
<1>4. CASE e.kind = "TargetAddressSet"
  BY <1>4
<1>5. CASE e.kind = "UserDataSet"
  BY <1>5
<1>6. CASE e.kind = "UserDataUnset"
  BY <1>6
<1>7. CASE e.kind = "NodeSubnameCreated"
  BY <1>7
<1>8. CASE e.kind = "NodeSubnameBurned"
  BY <1>8
<1>9. CASE e.kind = "LeafSubnameCreated"
  BY <1>9
<1>10. CASE e.kind = "LeafSubnameRemoved"
  BY <1>10
<1> QED
  BY <1>1, <1>2, <1>3, <1>4, <1>5, <1>6, <1>7, <1>8, <1>9, <1>10 DEF OtherKinds, MovingKinds

LEMMA MovesData ==
    ASSUME NEW e, e.kind \in OtherKinds \cup MovingKinds, NEW key
    PROVE  /\ Moves(e, DataGauge(key), 1) <=> e.kind = "UserDataSet" /\ e.new /\ e.key = key
           /\ Moves(e, DataGauge(key), -1) <=> e.kind = "UserDataUnset" /\ e.key = key
<1> USE DEF Moves, Counts, RecordCounts, Add, AddAt, NoChange, DataGauge
<1>1. CASE e.kind \in {"ReverseLookupSet", "ReverseLookupUnset"}
  BY <1>1
<1>2. CASE e.kind = "NameRecordAdded"
  BY <1>2
<1>3. CASE e.kind = "NameRecordRemoved"
  BY <1>3
<1>4. CASE e.kind = "TargetAddressSet"
  BY <1>4
<1>5. CASE e.kind = "UserDataSet"
  BY <1>5
<1>6. CASE e.kind = "UserDataUnset"
  BY <1>6
<1>7. CASE e.kind \in SubnameKinds
  BY <1>7 DEF SubnameKinds
<1> QED
  BY <1>1, <1>2, <1>3, <1>4, <1>5, <1>6, <1>7 DEF OtherKinds, MovingKinds, SubnameKinds

\* The events of a transaction but for those told of above.
Own(events) == {e \in events : e.kind \in SubnameKinds \cup DataKinds}
Known(events) == \A e \in events : e.kind \in OtherKinds \cup MovingKinds

\* The actions that say nothing of subnames and user data.
Silent ==
    \/ \E n \in Slns, years \in 1..MaxYears : Register(n, years)
    \/ \E i \in NftIds, years \in 1..MaxYears : Renew(i, years)
    \/ \E i \in NftIds, n \in Subs, flags \in SUBSET Flags : EditSetup(i, n, flags)
    \/ \E i \in NftIds, exp \in 0..MaxExp : ExtendExpiration(i, exp)
    \/ \E i \in NftIds, target \in Addrs \cup {NoAddr} : SetTargetAddress(i, target)
    \/ \E n \in Slns, years \in AdminYears : AdminRegister(n, years)
    \/ \E ns \in SUBSET Names \ {{}} : AdminRemoveRecords(ns)
    \/ UNCHANGED <<registry, nfts>>

\* What a step says of subnames and user data.
StepSays(events) ==
    \/ Own(events) = {} /\ Silent
    \/ /\ Own(events) = {[kind |-> "LeafSubnameRemoved"]}
       /\ \E i \in NftIds, n \in Subs : RemoveLeaf(i, n)
    \/ /\ Own(events) = {[kind |-> "LeafSubnameCreated"]}
       /\ \E i \in NftIds, n \in Subs, target \in Addrs : NewLeaf(i, n, target)
    \/ /\ Own(events) = {[kind |-> "NodeSubnameCreated"]}
       /\ \E i \in NftIds, n \in Subs, flags \in SUBSET Flags, exp \in 0..MaxExp :
             NewSubname(i, n, exp, flags)
    \/ \E i \in NftIds :
          /\ BurnExpired(i)
          /\ \/ Own(events) = {}
             \/ nfts[i].name \in Subs /\ Own(events) = {[kind |-> "NodeSubnameBurned"]}
    \/ \E i \in NftIds, key \in UserKeys :
          /\ SetUserData(i, key)
          /\ Own(events) = UserDataSetEvents(nfts[i].name, key)
    \/ \E i \in NftIds, key \in UserKeys \cup Flags :
          /\ UnsetUserData(i, key)
          /\ Own(events) = UserDataUnsetEvents(nfts[i].name, key)

LEMMA OwnEvents ==
    /\ \A ns, rest : Own(Removal(ns) \cup rest) = Own(rest)
    /\ \A n, rest : Own(Adding(n) \cup rest) = Own(rest)
    /\ \A ns, target, rest : Own(ReverseUnset(ns, target) \cup rest) = Own(rest)
    /\ \A kind \in SubnameKinds : Own(Simple(kind)) = {[kind |-> kind]}
    /\ Own({}) = {}
<1> USE DEF Own, SubnameKinds, DataKinds
<1>1. \A ns : \A e \in Removal(ns) : e.kind \in {"NameRecordRemoved", "ReverseLookupUnset"}
  BY DEF Removal, RecordsRemoved, ReverseUnset
<1>2. \A n : \A e \in Adding(n) : e.kind \in MovingKinds
  BY <1>1 DEF Adding, Added, MovingKinds
<1>3. \A ns, target : \A e \in ReverseUnset(ns, target) : e.kind = "ReverseLookupUnset"
  BY DEF ReverseUnset
<1>4. \A ns, rest : Own(Removal(ns) \cup rest) = Own(rest)
  BY <1>1
<1>5. \A n, rest : Own(Adding(n) \cup rest) = Own(rest)
  BY <1>2 DEF MovingKinds
<1>6. \A ns, target, rest : Own(ReverseUnset(ns, target) \cup rest) = Own(rest)
  BY <1>3
<1>7. \A kind \in SubnameKinds : Own(Simple(kind)) = {[kind |-> kind]}
  BY DEF Simple
<1> QED
  BY <1>4, <1>5, <1>6, <1>7

LEMMA KnownEvents ==
    /\ \A ns, rest : Known(rest) => Known(Removal(ns) \cup rest)
    /\ \A n, rest : Known(rest) => Known(Adding(n) \cup rest)
    /\ \A ns, target, rest : Known(rest) => Known(ReverseUnset(ns, target) \cup rest)
    /\ \A kind \in SubnameKinds : Known(Simple(kind))
    /\ \A a : Known(ReverseSet(a))
    /\ \A n, key : Known(UserDataSetEvents(n, key)) /\ Known(UserDataUnsetEvents(n, key))
    /\ Known({})
<1> USE DEF Known, OtherKinds, MovingKinds
<1>1. \A ns : Known(Removal(ns))
  BY DEF Removal, RecordsRemoved, ReverseUnset
<1>2. \A n : Known(Adding(n))
  BY <1>1 DEF Adding, Added
<1>3. \A ns, target : Known(ReverseUnset(ns, target))
  BY DEF ReverseUnset
<1>4. \A kind \in SubnameKinds : Known(Simple(kind))
  BY DEF Simple, SubnameKinds
<1>5. \A a : Known(ReverseSet(a))
  BY DEF ReverseSet, Simple
<1>6. \A n, key : Known(UserDataSetEvents(n, key)) /\ Known(UserDataUnsetEvents(n, key))
  BY DEF UserDataSetEvents, UserDataUnsetEvents
<1> QED
  BY <1>1, <1>2, <1>3, <1>4, <1>5, <1>6

LEMMA EveryStepSays ==
    ASSUME TypeOK, OwnershipInv, GaugesNext
    PROVE  \E events : Known(events) /\ Emits(events) /\ StepSays(events)
<1> DEFINE Says == \E events : Known(events) /\ Emits(events) /\ StepSays(events)
<1>1. ASSUME NEW n, Silent, Emits(Adding(n)) PROVE Says
  <2>1. Adding(n) = Adding(n) \cup {}
    OBVIOUS
  <2>2. Known(Adding(n)) /\ Own(Adding(n)) = {}
    BY <2>1, OwnEvents, KnownEvents
  <2> QED
    BY <1>1, <2>2 DEF StepSays
<1>2. ASSUME Silent, Emits({}) PROVE Says
  BY <1>2, OwnEvents, KnownEvents DEF StepSays
<1>3. ASSUME PaymentGauges PROVE Says
  BY <1>1, <1>2, <1>3 DEF PaymentGauges, Silent
<1>4. ASSUME SubnamesGauges PROVE Says
  <2>1. ASSUME NEW i \in NftIds, NEW n \in Subs, RemoveLeaf(i, n),
               Emits(Removal({n}) \cup Simple("LeafSubnameRemoved"))
        PROVE  Says
    <3>1. Known(Removal({n}) \cup Simple("LeafSubnameRemoved"))
      BY KnownEvents DEF SubnameKinds
    <3>2. Own(Removal({n}) \cup Simple("LeafSubnameRemoved")) = {[kind |-> "LeafSubnameRemoved"]}
      BY OwnEvents DEF SubnameKinds
    <3> QED
      BY <2>1, <3>1, <3>2 DEF StepSays
  <2>2. ASSUME NEW i \in NftIds, NEW n \in Subs, NEW target \in Addrs, NewLeaf(i, n, target),
               Emits(Adding(n) \cup Simple("LeafSubnameCreated"))
        PROVE  Says
    <3>1. Known(Adding(n) \cup Simple("LeafSubnameCreated"))
      BY KnownEvents DEF SubnameKinds
    <3>2. Own(Adding(n) \cup Simple("LeafSubnameCreated")) = {[kind |-> "LeafSubnameCreated"]}
      BY OwnEvents DEF SubnameKinds
    <3> QED
      BY <2>2, <3>1, <3>2 DEF StepSays
  <2>3. ASSUME NEW i \in NftIds, NEW n \in Subs, NEW flags \in SUBSET Flags,
               EditSetup(i, n, flags), Emits({})
        PROVE  Says
    BY <1>2, <2>3 DEF Silent
  <2>4. ASSUME NEW i \in NftIds, NEW n \in Subs, NEW flags \in SUBSET Flags,
               NEW exp \in 0..MaxExp, NewSubname(i, n, exp, flags),
               Emits(Adding(n) \cup Simple("NodeSubnameCreated"))
        PROVE  Says
    <3>1. Known(Adding(n) \cup Simple("NodeSubnameCreated"))
      BY KnownEvents DEF SubnameKinds
    <3>2. Own(Adding(n) \cup Simple("NodeSubnameCreated")) = {[kind |-> "NodeSubnameCreated"]}
      BY OwnEvents DEF SubnameKinds
    <3> QED
      BY <2>4, <3>1, <3>2 DEF StepSays
  <2>5. ASSUME NEW i \in NftIds, NEW exp \in 0..MaxExp, ExtendExpiration(i, exp), Emits({})
        PROVE  Says
    BY <1>2, <2>5 DEF Silent
  <2> QED
    BY <1>4, <2>1, <2>2, <2>3, <2>4, <2>5 DEF SubnamesGauges
<1>5. ASSUME ControllerGauges PROVE Says
  <2>1. ASSUME NEW i \in NftIds, NEW target \in Addrs \cup {NoAddr}, SetTargetAddress(i, target),
               Emits(ReverseUnset({nfts[i].name}, target)
                        \cup {[kind |-> "TargetAddressSet", target |-> target # NoAddr]})
        PROVE  Says
    <3> DEFINE rest == {[kind |-> "TargetAddressSet", target |-> target # NoAddr]}
    <3>1. Known(rest)
      BY DEF Known, OtherKinds
    <3>2. Own(rest) = {}
      BY DEF Own, SubnameKinds, DataKinds
    <3>3. Silent
      BY <2>1 DEF Silent
    <3> HIDE DEF rest
    <3>4. /\ Known(ReverseUnset({nfts[i].name}, target) \cup rest)
          /\ Own(ReverseUnset({nfts[i].name}, target) \cup rest) = {}
      BY <3>1, <3>2, OwnEvents, KnownEvents
    <3> QED
      BY <2>1, <3>3, <3>4 DEF StepSays, rest
  <2>2. ASSUME NEW a \in Addrs, NEW n \in Names, SetReverseLookup(a, n), Emits(ReverseSet(a))
        PROVE  Says
    <3>1. Own(ReverseSet(a)) = {}
      BY DEF Own, SubnameKinds, DataKinds, ReverseSet, Simple
    <3>2. Silent
      BY <2>2 DEF Silent, SetReverseLookup
    <3> QED
      BY <2>2, <3>1, <3>2, KnownEvents DEF StepSays
  <2>3. ASSUME NEW a \in Addrs, UnsetReverseLookup(a),
               Emits({[kind |-> "ReverseLookupUnset", address |-> a]})
        PROVE  Says
    <3> DEFINE rest == {[kind |-> "ReverseLookupUnset", address |-> a]}
    <3>1. Known(rest)
      BY DEF Known, MovingKinds
    <3>2. Own(rest) = {}
      BY DEF Own, SubnameKinds, DataKinds
    <3>3. Silent
      BY <2>3 DEF Silent, UnsetReverseLookup
    <3> QED
      BY <2>3, <3>1, <3>2, <3>3 DEF StepSays
  <2>4. ASSUME NEW i \in NftIds, NEW key \in UserKeys, SetUserData(i, key),
               Emits(UserDataSetEvents(nfts[i].name, key))
        PROVE  Says
    <3>1. Own(UserDataSetEvents(nfts[i].name, key)) = UserDataSetEvents(nfts[i].name, key)
      BY DEF Own, DataKinds, UserDataSetEvents
    <3> QED
      BY <2>4, <3>1, KnownEvents DEF StepSays
  <2>5. ASSUME NEW i \in NftIds, NEW key \in UserKeys \cup Flags, UnsetUserData(i, key),
               Emits(UserDataUnsetEvents(nfts[i].name, key))
        PROVE  Says
    <3>1. Own(UserDataUnsetEvents(nfts[i].name, key)) = UserDataUnsetEvents(nfts[i].name, key)
      BY DEF Own, DataKinds, UserDataUnsetEvents
    <3> QED
      BY <2>5, <3>1, KnownEvents DEF StepSays
  <2> QED
    BY <1>5, <2>1, <2>2, <2>3, <2>4, <2>5 DEF ControllerGauges
<1>6. ASSUME BurnGauges PROVE Says
  <2>1. PICK i \in NftIds :
            /\ BurnExpired(i)
            /\ \/ Emits(BurnEvents(i, FALSE))
               \/ nfts[i].name \in Subs /\ Emits(BurnEvents(i, TRUE))
    BY <1>6 DEF BurnGauges
  <2> DEFINE gone == IF HasRecord(nfts[i].name) /\ IdMatches(i)
                     THEN Removal({nfts[i].name}) ELSE {}
  <2>2. /\ BurnEvents(i, FALSE) = gone \cup {}
        /\ BurnEvents(i, TRUE) = gone \cup Simple("NodeSubnameBurned")
    BY DEF BurnEvents
  <2>3. \A rest : Known(rest) => Known(gone \cup rest)
    BY KnownEvents
  <2>4. \A rest : Own(gone \cup rest) = Own(rest)
    BY OwnEvents
  <2> HIDE DEF gone
  <2> DEFINE burnt == Simple("NodeSubnameBurned")
  <2>5. /\ Known({}) /\ Own({}) = {}
        /\ Known(burnt) /\ Own(burnt) = {[kind |-> "NodeSubnameBurned"]}
    BY OwnEvents, KnownEvents DEF SubnameKinds
  <2> HIDE DEF burnt
  <2>6. /\ Known(gone \cup {}) /\ Own(gone \cup {}) = {}
        /\ Known(gone \cup burnt)
        /\ Own(gone \cup burnt) = {[kind |-> "NodeSubnameBurned"]}
    <3>1. Known(gone \cup {}) /\ Known(gone \cup burnt)
      BY <2>3, <2>5
    <3>2. Own(gone \cup {}) = Own({}) /\ Own(gone \cup burnt) = Own(burnt)
      BY <2>4
    <3> QED
      BY <2>5, <3>1, <3>2
  <2>7. /\ Known(BurnEvents(i, FALSE)) /\ Own(BurnEvents(i, FALSE)) = {}
        /\ Known(BurnEvents(i, TRUE))
        /\ Own(BurnEvents(i, TRUE)) = {[kind |-> "NodeSubnameBurned"]}
    BY <2>2, <2>6 DEF burnt
  <2>8. CASE Emits(BurnEvents(i, FALSE))
    <3>1. StepSays(BurnEvents(i, FALSE))
      BY <2>1, <2>7, Zenon DEF StepSays
    <3> QED
      BY <2>7, <2>8, <3>1, Zenon
  <2>9. CASE nfts[i].name \in Subs /\ Emits(BurnEvents(i, TRUE))
    <3>1. StepSays(BurnEvents(i, TRUE))
      BY <2>1, <2>7, <2>9, Zenon DEF StepSays
    <3> QED
      BY <2>7, <2>9, <3>1, Zenon
  <2> QED
    BY <2>1, <2>8, <2>9
<1>7. ASSUME AdminGauges PROVE Says
  <2>1. ASSUME NEW n \in Slns, NEW years \in AdminYears, AdminRegister(n, years), Emits(Adding(n))
        PROVE  Says
    BY <1>1, <2>1 DEF Silent
  <2>2. ASSUME NEW ns \in SUBSET Names \ {{}}, AdminRemoveRecords(ns), Emits(Removal(ns))
        PROVE  Says
    <3>1. Removal(ns) = Removal(ns) \cup {}
      OBVIOUS
    <3>2. Known(Removal(ns)) /\ Own(Removal(ns)) = {} /\ Silent
      BY <2>2, <3>1, OwnEvents, KnownEvents DEF Silent
    <3> QED
      BY <2>2, <3>2 DEF StepSays
  <2>3. ASSUME \/ \E app \in Apps : Authorize(app) \/ Deauthorize(app)
               \/ \E label \in Labels : ChangeDenyList(label),
               Emits({})
        PROVE  Says
    BY <1>2, <2>3 DEF Silent, Authorize, Deauthorize, ChangeDenyList, nameVars
  <2> QED
    BY <1>7, <2>1, <2>2, <2>3 DEF AdminGauges
<1>8. ASSUME Tick, Emits({}) PROVE Says
  BY <1>2, <1>8 DEF Silent, Tick, nameVars
<1> QED
  BY <1>3, <1>4, <1>5, <1>6, <1>7, <1>8 DEF GaugesNext

\* How many events move a gauge is read off the events of its own.
OfKind(events, kind) == {e \in Own(events) : e.kind = kind}
DataSetsOf(events, key) == {e \in Own(events) : e.kind = "UserDataSet" /\ e.new /\ e.key = key}
DataUnsetsOf(events, key) == {e \in Own(events) : e.kind = "UserDataUnset" /\ e.key = key}

LEMMA SubnameGauges ==
    ASSUME NEW events, Known(events), Emits(events)
    PROVE  /\ LeafGauge \in Tracked =>
                  gauges'[LeafGauge] = gauges[LeafGauge]
                      + Cardinality(OfKind(events, "LeafSubnameCreated"))
                      - Cardinality(OfKind(events, "LeafSubnameRemoved"))
           /\ NodeGauge \in Tracked =>
                  gauges'[NodeGauge] = gauges[NodeGauge]
                      + Cardinality(OfKind(events, "NodeSubnameCreated"))
                      - Cardinality(OfKind(events, "NodeSubnameBurned"))
           /\ \A key : DataGauge(key) \in Tracked =>
                  gauges'[DataGauge(key)] = gauges[DataGauge(key)]
                      + Cardinality(DataSetsOf(events, key)) - Cardinality(DataUnsetsOf(events, key))
<1>1. \A e \in events : e.kind \in OtherKinds \cup MovingKinds
  BY DEF Known
<1>2. /\ {e \in events : Moves(e, LeafGauge, 1)} = OfKind(events, "LeafSubnameCreated")
      /\ {e \in events : Moves(e, LeafGauge, -1)} = OfKind(events, "LeafSubnameRemoved")
  BY <1>1, MovesSubnames DEF Own, OfKind, SubnameKinds
<1>3. /\ {e \in events : Moves(e, NodeGauge, 1)} = OfKind(events, "NodeSubnameCreated")
      /\ {e \in events : Moves(e, NodeGauge, -1)} = OfKind(events, "NodeSubnameBurned")
  BY <1>1, MovesSubnames DEF Own, OfKind, SubnameKinds
<1>4. ASSUME NEW key
      PROVE  /\ {e \in events : Moves(e, DataGauge(key), 1)} = DataSetsOf(events, key)
             /\ {e \in events : Moves(e, DataGauge(key), -1)} = DataUnsetsOf(events, key)
  BY <1>1, MovesData DEF Own, DataSetsOf, DataUnsetsOf, DataKinds
<1>5. ASSUME NEW m \in Tracked
      PROVE  gauges'[m] = gauges[m] + Cardinality({e \in events : Moves(e, m, 1)})
                                    - Cardinality({e \in events : Moves(e, m, -1)})
  BY DEF Emits
<1> QED
  BY <1>2, <1>3, <1>4, <1>5
-----------------------------------------------------------------------------
(* What the actions do to leaves, subname NFTs and user data.               *)

\* Every node subname has an NFT of its own.
NodeNfts == {i \in NftIds : Exists(i) /\ nfts[i].name \in Subs}

NoneAppears ==
    /\ \A n \in Names : HasRecord(n)' /\ registry'[n].exp = 0 => HasRecord(n) /\ registry[n].exp = 0
    /\ \A i \in NftIds : Exists(i)' /\ nfts'[i].name \in Subs => Exists(i) /\ nfts[i].name \in Subs
    /\ \A n \in Names : HasRecord(n)' =>
          \/ registry'[n].data \cap UserKeys = {}
          \/ HasRecord(n) /\ registry'[n].data \cap UserKeys \subseteq registry[n].data

LEMMA NoneAppearsSets ==
    ASSUME NoneAppears, NEW key \in UserKeys
    PROVE  /\ LeafSubnames' \subseteq LeafSubnames
           /\ NodeNfts' \subseteq NodeNfts
           /\ WithKey(key)' \subseteq WithKey(key)
BY DEF NoneAppears, LeafSubnames, NodeNfts, WithKey, IsLeaf, HasRecord, Exists

\* A record added with a term leaves nothing but its own NFT.
LEMMA FreshRecord ==
    ASSUME TypeOK, NEW n \in Names, NEW grace, NEW exp \in Nat \ {0}, NEW parent, NEW data,
           AddRecord(n, grace, exp, parent, data), data \cap UserKeys = {}
    PROVE  /\ \A m \in Names : HasRecord(m)' /\ registry'[m].exp = 0
                  => HasRecord(m) /\ registry[m].exp = 0
           /\ \A m \in Names : HasRecord(m)' =>
                 \/ registry'[m].data \cap UserKeys = {}
                 \/ HasRecord(m) /\ registry'[m].data \cap UserKeys \subseteq registry[m].data
           /\ minted + 1 \in NftIds /\ nfts'[minted + 1].name = n
           /\ \A i \in NftIds : i # minted + 1 => nfts'[i] = nfts[i]
<1>1. /\ registry'[n].exp = exp
      /\ \A m \in Names : m # n => registry'[m] = registry[m]
      /\ minted + 1 \in NftIds /\ nfts'[minted + 1].name = n
      /\ \A i \in NftIds : i # minted + 1 => nfts'[i] = nfts[i]
  BY AddRecordShape
<1>2. registry'[n].data = data
  BY DEF AddRecord, TypeOK
<1> QED
  BY <1>1, <1>2 DEF HasRecord

LEMMA SecondLevelAdded ==
    ASSUME TypeOK, NEW n \in Slns, NEW grace, NEW exp \in Nat \ {0}, NEW parent,
           AddRecord(n, grace, exp, parent, {})
    PROVE  NoneAppears
<1>1. {} \cap UserKeys = {}
  OBVIOUS
<1>2. /\ \A m \in Names : HasRecord(m)' /\ registry'[m].exp = 0
             => HasRecord(m) /\ registry[m].exp = 0
      /\ \A m \in Names : HasRecord(m)' =>
            \/ registry'[m].data \cap UserKeys = {}
            \/ HasRecord(m) /\ registry'[m].data \cap UserKeys \subseteq registry[m].data
      /\ nfts'[minted + 1].name = n
      /\ \A i \in NftIds : i # minted + 1 => nfts'[i] = nfts[i]
  BY <1>1, FreshRecord
<1>3. n \notin Subs
  BY NamesAssumption
<1>4. \A i \in NftIds : Exists(i)' /\ nfts'[i].name \in Subs => Exists(i) /\ nfts[i].name \in Subs
  BY <1>2, <1>3 DEF Exists
<1> QED
  BY <1>2, <1>4 DEF NoneAppears

LEMMA LongerTerm ==
    ASSUME TypeOK, OwnershipInv, NEW i \in NftIds, NEW exp \in Nat \ {0}, Exists(i),
           HasRecord(nfts[i].name), SetExpiration(i, exp)
    PROVE  NoneAppears
<1> PICK n \in Names : n = nfts[i].name
  BY NftTyped DEF Nft
<1>1. registry[n] \in NameRecord /\ nfts[i] \in Nft
  BY RecordTyped, NftTyped
<1>2. /\ registry'[n] = [registry[n] EXCEPT !.exp = exp]
      /\ \A m \in Names : m # n => registry'[m] = registry[m]
      /\ nfts'[i] = [nfts[i] EXCEPT !.exp = exp]
      /\ \A j \in NftIds : j # i => nfts'[j] = nfts[j]
  BY DEF SetExpiration, TypeOK
<1>3. /\ registry'[n].exp = exp /\ registry'[n].data = registry[n].data
      /\ nfts'[i].name = nfts[i].name
  BY <1>1, <1>2 DEF NameRecord, Nft
<1> QED
  BY <1>2, <1>3 DEF NoneAppears, HasRecord, Exists

LEMMA DataReplaced ==
    ASSUME TypeOK, OwnershipInv, NEW n \in Names, HasRecord(n), nfts' = nfts,
           NEW data \in SUBSET (UserKeys \cup Flags), SetData(n, data)
    PROVE  /\ registry'[n].data = data /\ registry'[n].exp = registry[n].exp
           /\ \A m \in Names : m # n => registry'[m] = registry[m]
           /\ HasRecord(n)'
<1>1. registry[n] \in NameRecord
  BY RecordTyped
<1>2. /\ registry'[n] = [registry[n] EXCEPT !.data = data]
      /\ \A m \in Names : m # n => registry'[m] = registry[m]
  BY DEF SetData, TypeOK
<1>3. registry'[n] \in NameRecord
  BY <1>1, <1>2 DEF NameRecord
<1> QED
  BY <1>1, <1>2, <1>3, NullsAssumption DEF NameRecord, HasRecord

LEMMA RecordsOnlyGo ==
    ASSUME \A m \in Names : HasRecord(m)' => HasRecord(m) /\ registry'[m] = registry[m],
           \A i \in NftIds : Exists(i)' => nfts'[i] = nfts[i]
    PROVE  NoneAppears
BY DEF NoneAppears, HasRecord, Exists

\* The actions without an event of their own make nothing appear.
LEMMA SilentAdds ==
    ASSUME TypeOK, OwnershipInv, Silent
    PROVE  NoneAppears
<1>1. ASSUME NEW n \in Slns, NEW years \in 1..MaxYears, Register(n, years) PROVE NoneAppears
  <2>1. years * Year \in Nat
    BY TimeAssumption
  <2>2. now + years * Year \in Nat \ {0}
    BY <2>1 DEF TypeOK
  <2> QED
    BY <1>1, <2>2, SecondLevelAdded DEF Register
<1>2. ASSUME NEW i \in NftIds, NEW years \in 1..MaxYears, Renew(i, years) PROVE NoneAppears
  <2>1. PICK exp \in Nat : /\ SetExpiration(i, exp) /\ Exists(i) /\ HasRecord(nfts[i].name)
                           /\ exp >= registry[nfts[i].name].exp
    BY <1>2, RenewTerm
  <2>2. /\ registry[nfts[i].name].exp \in Nat
        /\ ~IsLeaf(registry[nfts[i].name])
    BY <2>1, SetExpirationShape
  <2>3. exp \in Nat \ {0}
    BY <2>1, <2>2 DEF IsLeaf
  <2> QED
    BY <2>1, <2>3, LongerTerm
<1>3. ASSUME NEW i \in NftIds, NEW n \in Subs, NEW flags \in SUBSET Flags, EditSetup(i, n, flags)
      PROVE  NoneAppears
  <2> DEFINE data == (registry[n].data \ Flags) \cup flags
  <2>1. HasRecord(n) /\ n \in Names /\ SetData(n, data) /\ nfts' = nfts
    BY <1>3 DEF EditSetup
  <2>2. registry[n].data \in SUBSET (UserKeys \cup Flags)
    BY <2>1, RecordTyped DEF NameRecord
  <2>3. data \in SUBSET (UserKeys \cup Flags)
    BY <2>2
  <2>4. data \cap UserKeys \subseteq registry[n].data
    BY NamesAssumption
  <2> HIDE DEF data
  <2>5. /\ registry'[n].data = data /\ registry'[n].exp = registry[n].exp
        /\ \A m \in Names : m # n => registry'[m] = registry[m]
    BY <2>1, <2>3, DataReplaced
  <2> QED
    BY <2>1, <2>4, <2>5 DEF NoneAppears, HasRecord, Exists
<1>4. ASSUME NEW i \in NftIds, NEW exp \in 0..MaxExp, ExtendExpiration(i, exp) PROVE NoneAppears
  <2>1. /\ exp \in Nat /\ SetExpiration(i, exp) /\ Exists(i) /\ HasRecord(nfts[i].name)
        /\ exp >= registry[nfts[i].name].exp
    BY <1>4, ExtendTerm
  <2>2. /\ registry[nfts[i].name].exp \in Nat
        /\ ~IsLeaf(registry[nfts[i].name])
    BY <2>1, SetExpirationShape
  <2>3. exp \in Nat \ {0}
    BY <2>1, <2>2 DEF IsLeaf
  <2> QED
    BY <2>1, <2>3, LongerTerm
<1>5. ASSUME NEW i \in NftIds, NEW target \in Addrs \cup {NoAddr}, SetTargetAddress(i, target)
      PROVE  NoneAppears
  <2> PICK n \in Names : n = nfts[i].name
    BY <1>5, AuthorizedNode DEF SetTargetAddress
  <2>1. HasRecord(n) /\ registry[n] \in NameRecord
    BY <1>5, AuthorizedNode DEF SetTargetAddress
  <2>2. /\ registry'[n] = [registry[n] EXCEPT !.target = target]
        /\ \A m \in Names : m # n => registry'[m] = registry[m]
    BY <1>5, <2>1 DEF SetTargetAddress, TypeOK
  <2>3. registry'[n].data = registry[n].data /\ registry'[n].exp = registry[n].exp
    BY <2>1, <2>2 DEF NameRecord
  <2>4. nfts' = nfts
    BY <1>5 DEF SetTargetAddress
  <2> QED
    BY <2>1, <2>2, <2>3, <2>4 DEF NoneAppears, HasRecord, Exists
<1>6. ASSUME NEW n \in Slns, NEW years \in AdminYears, AdminRegister(n, years) PROVE NoneAppears
  <2>1. years * Year \in Nat
    BY TimeAssumption
  <2>2. now + years * Year \in Nat \ {0}
    BY <2>1 DEF TypeOK
  <2> QED
    BY <1>6, <2>2, SecondLevelAdded DEF AdminRegister
<1>7. ASSUME NEW ns \in SUBSET Names \ {{}}, AdminRemoveRecords(ns) PROVE NoneAppears
  BY <1>7, RemovalsKeepRest, RecordsOnlyGo DEF AdminRemoveRecords
<1>8. ASSUME UNCHANGED <<registry, nfts>> PROVE NoneAppears
  BY <1>8 DEF NoneAppears, HasRecord, Exists
<1> QED
  BY <1>1, <1>2, <1>3, <1>4, <1>5, <1>6, <1>7, <1>8 DEF Silent

\* A gauge that is moved up whenever its set may grow, and down only when an
\* element leaves, keeps up with it.
LEMMA KeepsUp ==
    ASSUME NEW S, IsFiniteSet(S), NEW T, NEW g \in Int, NEW h, NEW Plus, NEW Minus,
           g >= Cardinality(S), h = g + Cardinality(Plus) - Cardinality(Minus),
           \/ T \subseteq S /\ Plus = {} /\ Minus = {}
           \/ \E x, e : T \subseteq S \cup {x} /\ Plus = {e} /\ Minus = {}
           \/ \E x \in S : \E e : T \subseteq S \ {x} /\ Plus = {} /\ Minus = {e}
    PROVE  h \in Int /\ h >= Cardinality(T)
<1>1. Cardinality({}) = 0 /\ \A e : Cardinality({e}) = 1
  BY FS_EmptySet, FS_Singleton
<1>2. CASE T \subseteq S /\ Plus = {} /\ Minus = {}
  <2>1. IsFiniteSet(T) /\ Cardinality(T) <= Cardinality(S)
    BY <1>2, FS_Subset
  <2>2. Cardinality(T) \in Nat /\ Cardinality(S) \in Nat
    BY <2>1, FS_CardinalityType
  <2> QED
    BY <1>1, <1>2, <2>1, <2>2
<1>3. ASSUME NEW x, NEW e, T \subseteq S \cup {x}, Plus = {e}, Minus = {}
      PROVE  h \in Int /\ h >= Cardinality(T)
  <2>1. /\ IsFiniteSet(S \cup {x})
        /\ Cardinality(S \cup {x}) = IF x \in S THEN Cardinality(S) ELSE Cardinality(S) + 1
    BY FS_AddElement
  <2>2. IsFiniteSet(T) /\ Cardinality(T) <= Cardinality(S \cup {x})
    BY <1>3, <2>1, FS_Subset
  <2>3. Cardinality(T) \in Nat /\ Cardinality(S) \in Nat
    BY <2>2, FS_CardinalityType
  <2>4. Cardinality(Plus) = 1 /\ Cardinality(Minus) = 0
    BY <1>1, <1>3, Zenon
  <2>5. Cardinality(T) <= Cardinality(S) + 1
    BY <2>1, <2>2, <2>3
  <2> QED
    BY <2>3, <2>4, <2>5
<1>4. ASSUME NEW x \in S, NEW e, T \subseteq S \ {x}, Plus = {}, Minus = {e}
      PROVE  h \in Int /\ h >= Cardinality(T)
  <2>1. IsFiniteSet(S \ {x}) /\ Cardinality(S \ {x}) = Cardinality(S) - 1
    BY FS_RemoveElement
  <2>2. IsFiniteSet(T) /\ Cardinality(T) <= Cardinality(S \ {x})
    BY <1>4, <2>1, FS_Subset
  <2>3. Cardinality(T) \in Nat /\ Cardinality(S) \in Nat
    BY <2>2, FS_CardinalityType
  <2>4. Cardinality(Plus) = 0 /\ Cardinality(Minus) = 1
    BY <1>1, <1>4, Zenon
  <2>5. Cardinality(T) <= Cardinality(S) - 1
    BY <2>1, <2>2, <2>3
  <2> QED
    BY <2>3, <2>4, <2>5
<1> QED
  BY <1>2, <1>3, <1>4

\* How a step changes a set, and the events about it.
Follows(S, T, Plus, Minus) ==
    \/ T \subseteq S /\ Plus = {} /\ Minus = {}
    \/ \E x, e : T \subseteq S \cup {x} /\ Plus = {e} /\ Minus = {}
    \/ \E x \in S : \E e : T \subseteq S \ {x} /\ Plus = {} /\ Minus = {e}

Followed(events) ==
    /\ Follows(LeafSubnames, LeafSubnames', OfKind(events, "LeafSubnameCreated"),
               OfKind(events, "LeafSubnameRemoved"))
    /\ Follows(NodeNfts, NodeNfts', OfKind(events, "NodeSubnameCreated"),
               OfKind(events, "NodeSubnameBurned"))
    /\ \A key \in UserKeys :
          Follows(WithKey(key), WithKey(key)', DataSetsOf(events, key), DataUnsetsOf(events, key))

LEMMA NothingTold ==
    ASSUME NEW events, Own(events) = {}, NoneAppears
    PROVE  Followed(events)
<1>1. \A key \in UserKeys : /\ LeafSubnames' \subseteq LeafSubnames
                            /\ WithKey(key)' \subseteq WithKey(key)
  BY NoneAppearsSets
<1>2. LeafSubnames' \subseteq LeafSubnames /\ NodeNfts' \subseteq NodeNfts
  BY DEF NoneAppears, LeafSubnames, NodeNfts, IsLeaf, HasRecord, Exists
<1> QED
  BY <1>1, <1>2 DEF Followed, Follows, OfKind, DataSetsOf, DataUnsetsOf

LEMMA LeafRemovedFollowed ==
    ASSUME TypeOK, NEW events, NEW i \in NftIds, NEW n \in Subs, RemoveLeaf(i, n),
           Own(events) = {[kind |-> "LeafSubnameRemoved"]}
    PROVE  Followed(events)
<1>1. /\ registry'[n] = NoRecord /\ \A m \in Names : m # n => registry'[m] = registry[m]
      /\ nfts' = nfts /\ HasRecord(n) /\ IsLeaf(registry[n])
  BY DEF RemoveLeaf, RemoveRecords
<1>2. n \in LeafSubnames /\ LeafSubnames' \subseteq LeafSubnames \ {n}
  BY <1>1 DEF LeafSubnames, HasRecord, IsLeaf
<1>3. NodeNfts' \subseteq NodeNfts
  BY <1>1 DEF NodeNfts, Exists
<1>4. \A key \in UserKeys : WithKey(key)' \subseteq WithKey(key)
  BY <1>1 DEF WithKey, HasRecord
<1>5. /\ OfKind(events, "LeafSubnameRemoved") = {[kind |-> "LeafSubnameRemoved"]}
      /\ OfKind(events, "LeafSubnameCreated") = {}
      /\ OfKind(events, "NodeSubnameCreated") = {} /\ OfKind(events, "NodeSubnameBurned") = {}
      /\ \A key : DataSetsOf(events, key) = {} /\ DataUnsetsOf(events, key) = {}
  BY DEF OfKind, DataSetsOf, DataUnsetsOf
<1> QED
  BY <1>2, <1>3, <1>4, <1>5 DEF Followed, Follows

LEMMA LeafCreatedFollowed ==
    ASSUME TypeOK, OwnershipInv, NEW events,
           NEW i \in NftIds, NEW n \in Subs, NEW target \in Addrs, NewLeaf(i, n, target),
           Own(events) = {[kind |-> "LeafSubnameCreated"]}
    PROVE  Followed(events)
<1>1. /\ \A m \in Names : m # n => registry'[m] = registry[m]
      /\ nfts' = nfts /\ registry'[n].data = {}
  BY NewLeafShape DEF NewLeaf, TypeOK
<1>2. LeafSubnames' \subseteq LeafSubnames \cup {n}
  BY <1>1 DEF LeafSubnames, HasRecord, IsLeaf
<1>3. NodeNfts' \subseteq NodeNfts
  BY <1>1 DEF NodeNfts, Exists
<1>4. \A key \in UserKeys : WithKey(key)' \subseteq WithKey(key)
  BY <1>1 DEF WithKey, HasRecord
<1>5. /\ OfKind(events, "LeafSubnameCreated") = {[kind |-> "LeafSubnameCreated"]}
      /\ OfKind(events, "LeafSubnameRemoved") = {}
      /\ OfKind(events, "NodeSubnameCreated") = {} /\ OfKind(events, "NodeSubnameBurned") = {}
      /\ \A key : DataSetsOf(events, key) = {} /\ DataUnsetsOf(events, key) = {}
  BY DEF OfKind, DataSetsOf, DataUnsetsOf
<1> QED
  BY <1>2, <1>3, <1>4, <1>5 DEF Followed, Follows

LEMMA NodeCreatedFollowed ==
    ASSUME TypeOK, NEW events, NEW i \in NftIds, NEW n \in Subs, NEW flags \in SUBSET Flags,
           NEW exp \in 0..MaxExp, NewSubname(i, n, exp, flags),
           Own(events) = {[kind |-> "NodeSubnameCreated"]}
    PROVE  Followed(events)
<1>1. AddRecord(n, FALSE, exp, i, flags) /\ exp >= now + MinSubDuration
  BY DEF NewSubname
<1>2. exp \in Nat \ {0}
  BY <1>1, TimeAssumption DEF TypeOK
<1>3. flags \cap UserKeys = {}
  BY NamesAssumption
<1>4. /\ \A m \in Names : HasRecord(m)' /\ registry'[m].exp = 0
             => HasRecord(m) /\ registry[m].exp = 0
      /\ \A m \in Names : HasRecord(m)' =>
            \/ registry'[m].data \cap UserKeys = {}
            \/ HasRecord(m) /\ registry'[m].data \cap UserKeys \subseteq registry[m].data
      /\ \A j \in NftIds : j # minted + 1 => nfts'[j] = nfts[j]
  BY <1>1, <1>2, <1>3, FreshRecord
<1>5. LeafSubnames' \subseteq LeafSubnames
  BY <1>4 DEF LeafSubnames, IsLeaf, HasRecord
<1>6. NodeNfts' \subseteq NodeNfts \cup {minted + 1}
  BY <1>4 DEF NodeNfts, Exists
<1>7. \A key \in UserKeys : WithKey(key)' \subseteq WithKey(key)
  BY <1>4 DEF WithKey, HasRecord
<1>8. /\ OfKind(events, "NodeSubnameCreated") = {[kind |-> "NodeSubnameCreated"]}
      /\ OfKind(events, "NodeSubnameBurned") = {}
      /\ OfKind(events, "LeafSubnameCreated") = {} /\ OfKind(events, "LeafSubnameRemoved") = {}
      /\ \A key : DataSetsOf(events, key) = {} /\ DataUnsetsOf(events, key) = {}
  BY DEF OfKind, DataSetsOf, DataUnsetsOf
<1> QED
  BY <1>5, <1>6, <1>7, <1>8 DEF Followed, Follows

LEMMA BurnFollowed ==
    ASSUME TypeOK, OwnershipInv, NEW events, NEW i \in NftIds, BurnExpired(i),
           \/ Own(events) = {}
           \/ nfts[i].name \in Subs /\ Own(events) = {[kind |-> "NodeSubnameBurned"]}
    PROVE  Followed(events)
<1>1. \A m \in Names : HasRecord(m)' => HasRecord(m) /\ registry'[m] = registry[m]
  BY RemovalsKeepRest
<1>2. /\ nfts'[i] = NoNft /\ \A j \in NftIds : j # i => nfts'[j] = nfts[j]
      /\ Exists(i)
  BY DEF BurnExpired, TypeOK
<1>3. \A j \in NftIds : Exists(j)' => nfts'[j] = nfts[j]
  BY <1>2 DEF Exists
<1>4. NoneAppears
  BY <1>1, <1>3, RecordsOnlyGo
<1>5. CASE Own(events) = {}
  BY <1>4, <1>5, NothingTold
<1>6. CASE nfts[i].name \in Subs /\ Own(events) = {[kind |-> "NodeSubnameBurned"]}
  <2>1. i \in NodeNfts /\ NodeNfts' \subseteq NodeNfts \ {i}
    BY <1>2, <1>6 DEF NodeNfts, Exists
  <2>2. LeafSubnames' \subseteq LeafSubnames
    BY <1>1 DEF LeafSubnames, IsLeaf, HasRecord
  <2>3. \A key \in UserKeys : WithKey(key)' \subseteq WithKey(key)
    BY <1>1 DEF WithKey, HasRecord
  <2>4. /\ OfKind(events, "NodeSubnameBurned") = {[kind |-> "NodeSubnameBurned"]}
        /\ OfKind(events, "NodeSubnameCreated") = {}
        /\ OfKind(events, "LeafSubnameCreated") = {}
        /\ OfKind(events, "LeafSubnameRemoved") = {}
        /\ \A key : DataSetsOf(events, key) = {} /\ DataUnsetsOf(events, key) = {}
    BY <1>6 DEF OfKind, DataSetsOf, DataUnsetsOf
  <2> QED
    BY <2>1, <2>2, <2>3, <2>4 DEF Followed, Follows
<1> QED
  BY <1>5, <1>6

LEMMA DataSetFollowed ==
    ASSUME TypeOK, OwnershipInv, NEW events, NEW i \in NftIds, NEW set \in UserKeys,
           SetUserData(i, set), Own(events) = UserDataSetEvents(nfts[i].name, set)
    PROVE  Followed(events)
<1> PICK n \in Names : n = nfts[i].name
  BY AuthorizedNode DEF SetUserData
<1> DEFINE e == [kind |-> "UserDataSet", key |-> set, new |-> set \notin registry[n].data]
<1>1. HasRecord(n) /\ registry[n] \in NameRecord /\ nfts' = nfts
  BY AuthorizedNode DEF SetUserData
<1>2. registry[n].data \cup {set} \in SUBSET (UserKeys \cup Flags)
  BY <1>1 DEF NameRecord
<1>3. /\ registry'[n].data = registry[n].data \cup {set} /\ registry'[n].exp = registry[n].exp
      /\ \A m \in Names : m # n => registry'[m] = registry[m]
  BY <1>1, <1>2, DataReplaced DEF SetUserData
<1>4. Own(events) = {e}
  BY DEF UserDataSetEvents
<1>9. e.kind = "UserDataSet" /\ e.key = set
  OBVIOUS
<1>10. e.new <=> set \notin registry[n].data
  BY Zenon
<1>5. LeafSubnames' \subseteq LeafSubnames
  BY <1>1, <1>3 DEF LeafSubnames, HasRecord, IsLeaf
<1>6. NodeNfts' \subseteq NodeNfts
  BY <1>1 DEF NodeNfts, Exists
<1>7. /\ OfKind(events, "LeafSubnameCreated") = {} /\ OfKind(events, "LeafSubnameRemoved") = {}
      /\ OfKind(events, "NodeSubnameCreated") = {} /\ OfKind(events, "NodeSubnameBurned") = {}
      /\ \A key : DataUnsetsOf(events, key) = {}
  BY <1>4 DEF OfKind, DataUnsetsOf
<1>8. ASSUME NEW key \in UserKeys
      PROVE  Follows(WithKey(key), WithKey(key)', DataSetsOf(events, key), DataUnsetsOf(events, key))
  <2>1. CASE key # set \/ set \in registry[n].data
    <3>1. WithKey(key)' \subseteq WithKey(key)
      BY <1>1, <1>3, <2>1 DEF WithKey, HasRecord
    <3> HIDE DEF e
    <3>2. DataSetsOf(events, key) = {}
      BY <1>4, <1>9, <1>10, <2>1, Zenon DEF DataSetsOf
    <3> QED
      BY <1>7, <3>1, <3>2 DEF Follows
  <2>2. CASE key = set /\ set \notin registry[n].data
    <3>1. WithKey(key)' \subseteq WithKey(key) \cup {n}
      BY <1>1, <1>3 DEF WithKey, HasRecord
    <3> HIDE DEF e
    <3>2. DataSetsOf(events, key) = {e}
      BY <1>4, <1>9, <1>10, <2>2, Zenon DEF DataSetsOf
    <3> QED
      BY <1>7, <3>1, <3>2 DEF Follows
  <2> QED
    BY <2>1, <2>2
<1> HIDE DEF e
<1> QED
  BY <1>5, <1>6, <1>7, <1>8 DEF Followed, Follows

LEMMA DataUnsetFollowed ==
    ASSUME TypeOK, OwnershipInv, NEW events, NEW i \in NftIds, NEW unset \in UserKeys \cup Flags,
           UnsetUserData(i, unset), Own(events) = UserDataUnsetEvents(nfts[i].name, unset)
    PROVE  Followed(events)
<1> PICK n \in Names : n = nfts[i].name
  BY AuthorizedNode DEF UnsetUserData
<1> DEFINE e == [kind |-> "UserDataUnset", key |-> unset]
<1>1. HasRecord(n) /\ registry[n] \in NameRecord /\ nfts' = nfts
  BY AuthorizedNode DEF UnsetUserData
<1>2. registry[n].data \ {unset} \in SUBSET (UserKeys \cup Flags)
  BY <1>1 DEF NameRecord
<1>3. /\ registry'[n].data = registry[n].data \ {unset} /\ registry'[n].exp = registry[n].exp
      /\ \A m \in Names : m # n => registry'[m] = registry[m]
  BY <1>1, <1>2, DataReplaced DEF UnsetUserData
<1>4. Own(events) = IF unset \in registry[n].data THEN {e} ELSE {}
  BY DEF UserDataUnsetEvents
<1>5. LeafSubnames' \subseteq LeafSubnames
  BY <1>1, <1>3 DEF LeafSubnames, HasRecord, IsLeaf
<1>6. NodeNfts' \subseteq NodeNfts
  BY <1>1 DEF NodeNfts, Exists
<1>7. /\ OfKind(events, "LeafSubnameCreated") = {} /\ OfKind(events, "LeafSubnameRemoved") = {}
      /\ OfKind(events, "NodeSubnameCreated") = {} /\ OfKind(events, "NodeSubnameBurned") = {}
      /\ \A key : DataSetsOf(events, key) = {}
  BY <1>4 DEF OfKind, DataSetsOf
<1>8. ASSUME NEW key \in UserKeys
      PROVE  Follows(WithKey(key), WithKey(key)', DataSetsOf(events, key), DataUnsetsOf(events, key))
  <2>1. CASE key # unset \/ unset \notin registry[n].data
    <3>1. WithKey(key)' \subseteq WithKey(key)
      BY <1>1, <1>3 DEF WithKey, HasRecord
    <3>2. DataUnsetsOf(events, key) = {}
      BY <1>4, <2>1 DEF DataUnsetsOf
    <3> QED
      BY <1>7, <3>1, <3>2 DEF Follows
  <2>2. CASE key = unset /\ unset \in registry[n].data
    <3>1. n \in WithKey(key) /\ WithKey(key)' \subseteq WithKey(key) \ {n}
      BY <1>1, <1>3, <2>2 DEF WithKey, HasRecord
    <3>2. DataUnsetsOf(events, key) = {e}
      BY <1>4, <2>2 DEF DataUnsetsOf
    <3> HIDE DEF e
    <3> QED
      BY <1>7, <3>1, <3>2 DEF Follows
  <2> QED
    BY <2>1, <2>2
<1> HIDE DEF e
<1> QED
  BY <1>5, <1>6, <1>7, <1>8 DEF Followed, Follows

LEMMA EveryStepFollowed ==
    ASSUME TypeOK, OwnershipInv, NEW events, StepSays(events)
    PROVE  Followed(events)
<1>1. CASE Own(events) = {} /\ Silent
  BY <1>1, SilentAdds, NothingTold
<1>2. CASE /\ Own(events) = {[kind |-> "LeafSubnameRemoved"]}
           /\ \E i \in NftIds, n \in Subs : RemoveLeaf(i, n)
  BY <1>2, LeafRemovedFollowed
<1>3. CASE /\ Own(events) = {[kind |-> "LeafSubnameCreated"]}
           /\ \E i \in NftIds, n \in Subs, target \in Addrs : NewLeaf(i, n, target)
  BY <1>3, LeafCreatedFollowed
<1>4. CASE /\ Own(events) = {[kind |-> "NodeSubnameCreated"]}
           /\ \E i \in NftIds, n \in Subs, flags \in SUBSET Flags, exp \in 0..MaxExp :
                 NewSubname(i, n, exp, flags)
  BY <1>4, NodeCreatedFollowed
<1>5. ASSUME NEW i \in NftIds, BurnExpired(i),
             \/ Own(events) = {}
             \/ nfts[i].name \in Subs /\ Own(events) = {[kind |-> "NodeSubnameBurned"]}
      PROVE  Followed(events)
  BY <1>5, BurnFollowed
<1>6. ASSUME NEW i \in NftIds, NEW key \in UserKeys, SetUserData(i, key),
             Own(events) = UserDataSetEvents(nfts[i].name, key)
      PROVE  Followed(events)
  BY <1>6, DataSetFollowed
<1>7. ASSUME NEW i \in NftIds, NEW key \in UserKeys \cup Flags, UnsetUserData(i, key),
             Own(events) = UserDataUnsetEvents(nfts[i].name, key)
      PROVE  Followed(events)
  BY <1>7, DataUnsetFollowed
<1> QED
  BY <1>1, <1>2, <1>3, <1>4, <1>5, <1>6, <1>7 DEF StepSays

-----------------------------------------------------------------------------
(* NeverUndercounts.                                                       *)

Enough(m, S) == m \in Tracked => gauges[m] \in Int /\ gauges[m] >= Cardinality(S)

EnoughCounted ==
    /\ Enough(LeafGauge, LeafSubnames)
    /\ Enough(NodeGauge, NodeNfts)
    /\ \A key \in UserKeys : Enough(DataGauge(key), WithKey(key))

LEMMA SetsFinite ==
    /\ IsFiniteSet(LeafSubnames) /\ IsFiniteSet(NodeNfts)
    /\ \A key : IsFiniteSet(WithKey(key))
<1>1. LeafSubnames \in SUBSET Names /\ NodeNfts \in SUBSET NftIds
  BY DEF LeafSubnames, NodeNfts
<1>2. \A key : WithKey(key) \in SUBSET Names
  BY DEF WithKey
<1>3. IsFiniteSet(Names)
  BY GaugesAssumption
<1>4. IsFiniteSet(NftIds)
  BY BoundsAssumption, FS_Interval DEF NftIds
<1> QED
  BY <1>1, <1>2, <1>3, <1>4, FS_Subset

LEMMA EnoughInit == GaugesInit => EnoughCounted
<1> SUFFICES ASSUME GaugesInit PROVE EnoughCounted
  OBVIOUS
<1>1. LeafSubnames = {} /\ NodeNfts = {} /\ \A key : WithKey(key) = {}
  BY DEF GaugesInit, Init, LeafSubnames, NodeNfts, WithKey, HasRecord, Exists
<1>2. \A m \in Tracked : gauges[m] = 0
  BY DEF GaugesInit
<1> QED
  BY <1>1, <1>2, FS_EmptySet DEF EnoughCounted, Enough

LEMMA EnoughStep ==
    ASSUME TypeOK, OwnershipInv, EnoughCounted, GaugesNext
    PROVE  EnoughCounted'
<1> PICK events : Known(events) /\ Emits(events) /\ StepSays(events)
  BY EveryStepSays
<1>1. Followed(events)
  BY EveryStepFollowed
<1>2. ASSUME LeafGauge \in Tracked
      PROVE  gauges'[LeafGauge] \in Int /\ gauges'[LeafGauge] >= Cardinality(LeafSubnames')
  <2>1. gauges'[LeafGauge] = gauges[LeafGauge]
            + Cardinality(OfKind(events, "LeafSubnameCreated"))
            - Cardinality(OfKind(events, "LeafSubnameRemoved"))
    BY <1>2, SubnameGauges
  <2>2. Follows(LeafSubnames, LeafSubnames', OfKind(events, "LeafSubnameCreated"),
                OfKind(events, "LeafSubnameRemoved"))
    BY <1>1 DEF Followed
  <2>3. gauges[LeafGauge] \in Int /\ gauges[LeafGauge] >= Cardinality(LeafSubnames)
    BY <1>2 DEF EnoughCounted, Enough
  <2> QED
    BY <2>1, <2>2, <2>3, SetsFinite, KeepsUp DEF Follows
<1>3. ASSUME NodeGauge \in Tracked
      PROVE  gauges'[NodeGauge] \in Int /\ gauges'[NodeGauge] >= Cardinality(NodeNfts')
  <2>1. gauges'[NodeGauge] = gauges[NodeGauge]
            + Cardinality(OfKind(events, "NodeSubnameCreated"))
            - Cardinality(OfKind(events, "NodeSubnameBurned"))
    BY <1>3, SubnameGauges
  <2>2. Follows(NodeNfts, NodeNfts', OfKind(events, "NodeSubnameCreated"),
                OfKind(events, "NodeSubnameBurned"))
    BY <1>1 DEF Followed
  <2>3. gauges[NodeGauge] \in Int /\ gauges[NodeGauge] >= Cardinality(NodeNfts)
    BY <1>3 DEF EnoughCounted, Enough
  <2> QED
    BY <2>1, <2>2, <2>3, SetsFinite, KeepsUp DEF Follows
<1>4. ASSUME NEW key \in UserKeys, DataGauge(key) \in Tracked
      PROVE  /\ gauges'[DataGauge(key)] \in Int
             /\ gauges'[DataGauge(key)] >= Cardinality(WithKey(key)')
  <2>1. gauges'[DataGauge(key)] = gauges[DataGauge(key)]
            + Cardinality(DataSetsOf(events, key)) - Cardinality(DataUnsetsOf(events, key))
    BY <1>4, SubnameGauges
  <2>2. Follows(WithKey(key), WithKey(key)', DataSetsOf(events, key), DataUnsetsOf(events, key))
    BY <1>1 DEF Followed
  <2>3. gauges[DataGauge(key)] \in Int /\ gauges[DataGauge(key)] >= Cardinality(WithKey(key))
    BY <1>4 DEF EnoughCounted, Enough
  <2> QED
    BY <2>1, <2>2, <2>3, SetsFinite, KeepsUp DEF Follows
<1> QED
  BY <1>2, <1>3, <1>4 DEF EnoughCounted, Enough, LeafGauge, NodeGauge, DataGauge

\* A node subname that has a record has its NFT, and no two have the same.
LEMMA NodesHaveNfts ==
    ASSUME TypeOK, OwnershipInv
    PROVE  /\ Cardinality(NodeSubnames) <= Cardinality(NodeNfts)
           /\ Cardinality(NodeSubnames) \in Nat /\ Cardinality(NodeNfts) \in Nat
<1> DEFINE f == [n \in NodeSubnames |-> registry[n].nft]
<1>1. \A n \in NodeSubnames : /\ registry[n].nft \in NodeNfts
                              /\ nfts[registry[n].nft].name = n
  BY RecordTyped DEF NodeSubnames, NodeNfts, OwnershipInv, RecordBacked, NameRecord
<1>2. f \in Injection(NodeSubnames, NodeNfts)
  BY <1>1 DEF Injection, IsInjective
<1>3. IsFiniteSet(NodeNfts)
  BY SetsFinite
<1>4. IsFiniteSet(NodeSubnames) /\ Cardinality(NodeSubnames) <= Cardinality(NodeNfts)
  BY <1>2, <1>3, FS_Injection
<1> QED
  BY <1>3, <1>4, FS_CardinalityType

\* The gauges of subnames and of user data never show less than there is,
\* whatever is taken over, removed by force, burnt or set twice.
THEOREM NeverUndercountsCorrect == GaugesSpec => []NeverUndercounts
<1>1. ASSUME TypeOK, OwnershipInv, EnoughCounted, [GaugesNext]_gaugesVars
      PROVE  EnoughCounted'
  <2>1. CASE UNCHANGED gaugesVars
    BY <1>1, <2>1 DEF gaugesVars, vars, EnoughCounted, Enough, LeafSubnames, NodeNfts, WithKey,
                      HasRecord, IsLeaf, Exists
  <2> QED
    BY <1>1, <2>1, EnoughStep
<1>2. ASSUME TypeOK, OwnershipInv, EnoughCounted
      PROVE  NeverUndercounts
  <2>1. LeafGauge \in Tracked => gauges[LeafGauge] >= Cardinality(LeafSubnames)
    BY <1>2 DEF EnoughCounted, Enough
  <2>2. NodeGauge \in Tracked => gauges[NodeGauge] >= Cardinality(NodeSubnames)
    BY <1>2, NodesHaveNfts DEF EnoughCounted, Enough
  <2>3. \A key \in UserKeys : DataGauge(key) \in Tracked =>
            gauges[DataGauge(key)] >= Cardinality(WithKey(key))
    BY <1>2 DEF EnoughCounted, Enough
  <2> QED
    BY <2>1, <2>2, <2>3 DEF NeverUndercounts, LeafGauge, NodeGauge, DataGauge
<1> QED
  BY <1>1, <1>2, EnoughInit, WatchedRegistry, PTL DEF GaugesSpec

=============================================================================
