--------------------------- MODULE IotaNamesProofs ---------------------------
(***************************************************************************)
(* Theorems about IotaNames, for every value of its constants.             *)
(***************************************************************************)
EXTENDS IotaNames, TLAPS

USE DEF Names, Flags, AllowCreation, AllowExtension, NoId, LeafExpiration

-----------------------------------------------------------------------------
(* Types of the registry's writes.                                         *)

\* The part of the type invariant the registry's writes can disturb.
NamesTyped ==
    /\ registry \in [Names -> NameRecord \cup {NoRecord}]
    /\ reverse \in [Addrs -> Names \cup {NoName}]
    /\ nfts \in [NftIds -> Nft \cup {NoNft}]
    /\ minted \in 0..MaxNfts

\* A record that exists is a NameRecord, an NFT that exists an Nft.
LEMMA RecordTyped ==
    ASSUME TypeOK, NEW n \in Names, HasRecord(n)
    PROVE  registry[n] \in NameRecord
BY DEF TypeOK, HasRecord

LEMMA NftTyped ==
    ASSUME TypeOK, NEW i \in NftIds, Exists(i)
    PROVE  nfts[i] \in Nft
BY DEF TypeOK, Exists

LEMMA InvalidateTyped ==
    ASSUME TypeOK, NEW ns, NEW target
    PROVE  InvalidateReverse(ns, target) \in [Addrs -> Names \cup {NoName}]
BY DEF TypeOK, InvalidateReverse

LEMMA AddRecordTyped ==
    ASSUME TypeOK, NEW n \in Names, NEW grace, NEW exp \in Nat,
           NEW parent \in NftIds \cup {NoId}, NEW data \in SUBSET (UserKeys \cup Flags),
           AddRecord(n, grace, exp, parent, data)
    PROVE  NamesTyped'
<1>1. minted + 1 \in NftIds /\ minted' = minted + 1
  BY BoundsAssumption DEF TypeOK, AddRecord, NftIds
<1>2. [name |-> n, exp |-> exp, parent |-> parent] \in Nft
  BY DEF Nft
<1>3. [nft |-> minted + 1, exp |-> exp, target |-> NoAddr, data |-> data] \in NameRecord
  BY <1>1 DEF NameRecord
<1>4. registry' \in [Names -> NameRecord \cup {NoRecord}]
  BY <1>3 DEF TypeOK, AddRecord
<1>5. nfts' \in [NftIds -> Nft \cup {NoNft}]
  BY <1>1, <1>2 DEF TypeOK, AddRecord
<1>6. reverse' \in [Addrs -> Names \cup {NoName}]
  BY InvalidateTyped DEF AddRecord
<1> QED
  BY <1>1, <1>4, <1>5, <1>6, BoundsAssumption DEF NamesTyped, NftIds

LEMMA RemoveRecordsTyped ==
    ASSUME TypeOK, NEW ns, RemoveRecords(ns)
    PROVE  /\ registry' \in [Names -> NameRecord \cup {NoRecord}]
           /\ reverse' \in [Addrs -> Names \cup {NoName}]
<1>1. registry' \in [Names -> NameRecord \cup {NoRecord}]
  BY DEF TypeOK, RemoveRecords
<1>2. reverse' \in [Addrs -> Names \cup {NoName}]
  BY InvalidateTyped DEF RemoveRecords
<1> QED
  BY <1>1, <1>2

LEMMA SetExpirationTyped ==
    ASSUME TypeOK, NEW i \in NftIds, NEW exp \in Nat, Exists(i),
           HasRecord(nfts[i].name), SetExpiration(i, exp)
    PROVE  /\ registry' \in [Names -> NameRecord \cup {NoRecord}]
           /\ nfts' \in [NftIds -> Nft \cup {NoNft}]
<1> DEFINE n == nfts[i].name
<1>1. nfts[i] \in Nft /\ n \in Names
  BY NftTyped DEF Nft
<1>2. registry[n] \in NameRecord
  BY <1>1, RecordTyped
<1>3. [registry[n] EXCEPT !.exp = exp] \in NameRecord
  BY <1>2 DEF NameRecord
<1>4. [nfts[i] EXCEPT !.exp = exp] \in Nft
  BY <1>1 DEF Nft
<1>5. registry' \in [Names -> NameRecord \cup {NoRecord}]
  BY <1>3 DEF TypeOK, SetExpiration
<1>6. nfts' \in [NftIds -> Nft \cup {NoNft}]
  BY <1>4 DEF TypeOK, SetExpiration
<1> QED
  BY <1>5, <1>6

LEMMA SetDataTyped ==
    ASSUME TypeOK, NEW n \in Names, HasRecord(n),
           NEW data \in SUBSET (UserKeys \cup Flags), SetData(n, data)
    PROVE  registry' \in [Names -> NameRecord \cup {NoRecord}]
<1>1. [registry[n] EXCEPT !.data = data] \in NameRecord
  BY RecordTyped DEF NameRecord
<1> QED
  BY <1>1 DEF TypeOK, SetData

-----------------------------------------------------------------------------
(* Type correctness.                                                       *)

LEMMA InitTyped == Init => TypeOK
BY BoundsAssumption DEF Init, TypeOK, NftIds

\* Every action keeps the types, one step per action of Next.
LEMMA NextTyped == TypeOK /\ [Next]_vars => TypeOK'
<1> SUFFICES ASSUME TypeOK, [Next]_vars PROVE TypeOK'
  OBVIOUS
<1> USE DEF nameVars, adminVars
<1>1. ASSUME NEW n \in Slns, NEW years \in 1..MaxYears, Register(n, years)
      PROVE  TypeOK'
  <2>1. now + years * Year \in Nat
    BY <1>1, TimeAssumption DEF TypeOK
  <2>2. NamesTyped'
    BY <1>1, <2>1, AddRecordTyped DEF Register
  <2> QED
    BY <1>1, <2>2 DEF Register, TypeOK, NamesTyped
<1>2. ASSUME NEW i \in NftIds, NEW years \in 1..MaxYears, Renew(i, years)
      PROVE  TypeOK'
  <2> DEFINE exp == registry[nfts[i].name].exp + years * Year
  <2>1. registry[nfts[i].name] \in NameRecord
    BY <1>2, NftTyped, RecordTyped DEF Renew, Nft
  <2>2. exp \in Nat
    BY <2>1, TimeAssumption DEF NameRecord
  <2>3. SetExpiration(i, exp) /\ Exists(i) /\ HasRecord(nfts[i].name)
    BY <1>2 DEF Renew
  <2> QED
    BY <1>2, <2>2, <2>3, SetExpirationTyped DEF Renew, TypeOK
<1>3. ASSUME NEW i \in NftIds, NEW n \in Subs, RemoveLeaf(i, n)
      PROVE  TypeOK'
  BY <1>3, RemoveRecordsTyped DEF RemoveLeaf, TypeOK
<1>4. ASSUME NEW i \in NftIds, NEW n \in Subs, NEW target \in Addrs, NewLeaf(i, n, target)
      PROVE  TypeOK'
  <2>1. HasRecord(Parent[n]) /\ Parent[n] \in Names
    BY <1>4, NamesAssumption DEF NewLeaf, CanManage, Authorized
  <2>2. registry[Parent[n]] \in NameRecord
    BY <2>1, RecordTyped
  <2>3. [nft |-> registry[Parent[n]].nft, exp |-> LeafExpiration,
         target |-> target, data |-> {}] \in NameRecord
    BY <2>2 DEF NameRecord
  <2>4. registry' \in [Names -> NameRecord \cup {NoRecord}]
    BY <1>4, <2>3 DEF NewLeaf, TypeOK
  <2>5. reverse' \in [Addrs -> Names \cup {NoName}]
    BY <1>4, InvalidateTyped DEF NewLeaf
  <2> QED
    BY <1>4, <2>4, <2>5 DEF NewLeaf, TypeOK
<1>5. ASSUME NEW i \in NftIds, NEW n \in Subs, NEW flags \in SUBSET Flags,
             EditSetup(i, n, flags)
      PROVE  TypeOK'
  <2>1. registry[n] \in NameRecord
    BY <1>5, RecordTyped DEF EditSetup
  <2>2. (registry[n].data \ Flags) \cup flags \in SUBSET (UserKeys \cup Flags)
    BY <2>1 DEF NameRecord
  <2> QED
    BY <1>5, <2>2, SetDataTyped DEF EditSetup, TypeOK
<1>6. ASSUME NEW i \in NftIds, NEW n \in Subs, NEW flags \in SUBSET Flags,
             NEW exp \in 0..MaxExp, NewSubname(i, n, exp, flags)
      PROVE  TypeOK'
  <2>1. exp \in Nat
    BY <1>6
  <2>2. NamesTyped'
    BY <1>6, <2>1, AddRecordTyped DEF NewSubname
  <2> QED
    BY <1>6, <2>2 DEF NewSubname, TypeOK, NamesTyped
<1>7. ASSUME NEW i \in NftIds, NEW exp \in 0..MaxExp, ExtendExpiration(i, exp)
      PROVE  TypeOK'
  <2>1. exp \in Nat
    BY <1>7
  <2> QED
    BY <1>7, <2>1, SetExpirationTyped DEF ExtendExpiration, TypeOK
<1>8. ASSUME NEW i \in NftIds, NEW target \in Addrs \cup {NoAddr},
             SetTargetAddress(i, target)
      PROVE  TypeOK'
  <2> DEFINE n == nfts[i].name
  <2>1. n \in Names /\ registry[n] \in NameRecord
    BY <1>8, NftTyped, RecordTyped DEF SetTargetAddress, Authorized, Nft
  <2>2. [registry[n] EXCEPT !.target = target] \in NameRecord
    BY <2>1 DEF NameRecord
  <2>3. registry' \in [Names -> NameRecord \cup {NoRecord}]
    BY <1>8, <2>2 DEF SetTargetAddress, TypeOK
  <2>4. reverse' \in [Addrs -> Names \cup {NoName}]
    BY <1>8, InvalidateTyped DEF SetTargetAddress
  <2> QED
    BY <1>8, <2>3, <2>4 DEF SetTargetAddress, TypeOK
<1>9. ASSUME NEW a \in Addrs, NEW n \in Names, SetReverseLookup(a, n)
      PROVE  TypeOK'
  BY <1>9 DEF SetReverseLookup, TypeOK
<1>10. ASSUME NEW a \in Addrs, UnsetReverseLookup(a)
       PROVE  TypeOK'
  BY <1>10 DEF UnsetReverseLookup, TypeOK
<1>11. ASSUME NEW i \in NftIds, NEW key \in UserKeys, SetUserData(i, key)
       PROVE  TypeOK'
  <2> DEFINE n == nfts[i].name
  <2>1. n \in Names /\ HasRecord(n) /\ registry[n] \in NameRecord
    BY <1>11, NftTyped, RecordTyped DEF SetUserData, Authorized, Nft
  <2>2. registry[n].data \cup {key} \in SUBSET (UserKeys \cup Flags)
    BY <2>1 DEF NameRecord
  <2> QED
    BY <1>11, <2>1, <2>2, SetDataTyped DEF SetUserData, TypeOK
<1>12. ASSUME NEW i \in NftIds, NEW key \in UserKeys \cup Flags, UnsetUserData(i, key)
       PROVE  TypeOK'
  <2> DEFINE n == nfts[i].name
  <2>1. n \in Names /\ HasRecord(n) /\ registry[n] \in NameRecord
    BY <1>12, NftTyped, RecordTyped DEF UnsetUserData, Authorized, Nft
  <2>2. registry[n].data \ {key} \in SUBSET (UserKeys \cup Flags)
    BY <2>1 DEF NameRecord
  <2> QED
    BY <1>12, <2>1, <2>2, SetDataTyped DEF UnsetUserData, TypeOK
<1>13. ASSUME NEW i \in NftIds, BurnExpired(i)
       PROVE  TypeOK'
  <2>1. /\ registry' \in [Names -> NameRecord \cup {NoRecord}]
        /\ reverse' \in [Addrs -> Names \cup {NoName}]
    BY <1>13, RemoveRecordsTyped DEF BurnExpired, TypeOK
  <2> QED
    BY <1>13, <2>1 DEF BurnExpired, TypeOK
<1>14. ASSUME NEW n \in Slns, NEW years \in AdminYears, AdminRegister(n, years)
       PROVE  TypeOK'
  <2>1. now + years * Year \in Nat
    BY <1>14, TimeAssumption DEF TypeOK
  <2>2. NamesTyped'
    BY <1>14, <2>1, AddRecordTyped DEF AdminRegister
  <2> QED
    BY <1>14, <2>2 DEF AdminRegister, TypeOK, NamesTyped
<1>15. ASSUME NEW ns \in SUBSET Names, AdminRemoveRecords(ns)
       PROVE  TypeOK'
  BY <1>15, RemoveRecordsTyped DEF AdminRemoveRecords, TypeOK
<1>16. ASSUME NEW app \in Apps, Authorize(app) \/ Deauthorize(app)
       PROVE  TypeOK'
  BY <1>16 DEF Authorize, Deauthorize, TypeOK
<1>17. ASSUME NEW label \in Labels, ChangeDenyList(label)
       PROVE  TypeOK'
  BY <1>17 DEF ChangeDenyList, TypeOK
<1>18. CASE Tick
  BY <1>18 DEF Tick, TypeOK
<1>19. CASE UNCHANGED vars
  BY <1>19 DEF vars, TypeOK
<1> QED
  BY <1>1, <1>2, <1>3, <1>4, <1>5, <1>6, <1>7, <1>8, <1>9, <1>10, <1>11, <1>12, <1>13,
     <1>14, <1>15, <1>16, <1>17, <1>18, <1>19
  DEF Next, PaymentNext, SubnamesNext, ControllerNext, AdminNext

\* Every variable keeps its type in every reachable state.
THEOREM TypeCorrect == Spec => []TypeOK
BY InitTyped, NextTyped, PTL DEF Spec

-----------------------------------------------------------------------------
(* Reverse records.                                                        *)

\* What handle_invalidate_reverse_record leaves in place: the default name of
\* an address survives only if its name is not one of ns, or still points there.
LEMMA InvalidateSound ==
    ASSUME ReverseConsistent, NEW ns, NEW target, NEW a \in Addrs,
           InvalidateReverse(ns, target)[a] # NoName
    PROVE  /\ InvalidateReverse(ns, target)[a] = reverse[a]
           /\ PointsTo(reverse[a], a)
           /\ reverse[a] \in ns => target = a
BY DEF InvalidateReverse, ReverseConsistent

\* A name written by internal_add_record starts without reverse records.
LEMMA AddRecordReverse ==
    ASSUME TypeOK, ReverseConsistent, NEW n \in Names, NEW grace, NEW exp, NEW parent,
           NEW data, AddRecord(n, grace, exp, parent, data)
    PROVE  ReverseConsistent'
<1> SUFFICES ASSUME NEW a \in Addrs, reverse'[a] # NoName
             PROVE  PointsTo(reverse[a], a)'
  BY DEF ReverseConsistent
<1>1. reverse'[a] = reverse[a] /\ PointsTo(reverse[a], a) /\ reverse[a] # n
  BY InvalidateSound, NullsAssumption DEF AddRecord
<1>2. registry'[reverse[a]] = registry[reverse[a]]
  BY <1>1 DEF AddRecord, TypeOK
<1> QED
  BY <1>1, <1>2 DEF PointsTo, HasRecord

LEMMA RemoveRecordsReverse ==
    ASSUME TypeOK, ReverseConsistent, NEW ns, RemoveRecords(ns)
    PROVE  ReverseConsistent'
<1> SUFFICES ASSUME NEW a \in Addrs, reverse'[a] # NoName
             PROVE  PointsTo(reverse[a], a)'
  BY DEF ReverseConsistent
<1>1. reverse'[a] = reverse[a] /\ PointsTo(reverse[a], a) /\ reverse[a] \notin ns
  BY InvalidateSound, NullsAssumption DEF RemoveRecords
<1>2. reverse[a] \in Names
  BY <1>1 DEF TypeOK
<1>3. registry'[reverse[a]] = registry[reverse[a]]
  BY <1>1, <1>2 DEF RemoveRecords
<1> QED
  BY <1>1, <1>3 DEF PointsTo, HasRecord

\* Writes that keep every record and its target keep the reverse records right.
LEMMA TargetsKept ==
    ASSUME ReverseConsistent, reverse' = reverse, TypeOK,
           \A n \in Names : HasRecord(n) =>
               HasRecord(n)' /\ registry'[n].target = registry[n].target
    PROVE  ReverseConsistent'
<1> SUFFICES ASSUME NEW a \in Addrs, reverse'[a] # NoName
             PROVE  PointsTo(reverse[a], a)'
  BY DEF ReverseConsistent
<1>1. reverse'[a] = reverse[a] /\ PointsTo(reverse[a], a) /\ reverse[a] \in Names
  BY DEF ReverseConsistent, TypeOK
<1> QED
  BY <1>1 DEF PointsTo

LEMMA SetExpirationKeepsTargets ==
    ASSUME TypeOK, NEW i \in NftIds, NEW exp \in Nat, Exists(i),
           HasRecord(nfts[i].name), SetExpiration(i, exp)
    PROVE  \A n \in Names : HasRecord(n) =>
               HasRecord(n)' /\ registry'[n].target = registry[n].target
<1> SUFFICES ASSUME NEW n \in Names, HasRecord(n)
             PROVE  HasRecord(n)' /\ registry'[n].target = registry[n].target
  OBVIOUS
<1>1. registry[n] \in NameRecord
  BY RecordTyped
<1>2. [registry[n] EXCEPT !.exp = exp] \in NameRecord
  BY <1>1 DEF NameRecord
<1>3. CASE n = nfts[i].name
  <2>1. registry'[n] = [registry[n] EXCEPT !.exp = exp]
    BY <1>3 DEF SetExpiration, TypeOK
  <2> QED
    BY <1>1, <1>2, <2>1, NullsAssumption DEF HasRecord, NameRecord
<1>4. CASE n # nfts[i].name
  BY <1>4 DEF SetExpiration, TypeOK, HasRecord
<1> QED
  BY <1>3, <1>4

LEMMA SetDataKeepsTargets ==
    ASSUME TypeOK, NEW m \in Names, HasRecord(m),
           NEW data \in SUBSET (UserKeys \cup Flags), SetData(m, data)
    PROVE  \A n \in Names : HasRecord(n) =>
               HasRecord(n)' /\ registry'[n].target = registry[n].target
<1> SUFFICES ASSUME NEW n \in Names, HasRecord(n)
             PROVE  HasRecord(n)' /\ registry'[n].target = registry[n].target
  OBVIOUS
<1>1. registry[n] \in NameRecord
  BY RecordTyped
<1>2. [registry[n] EXCEPT !.data = data] \in NameRecord
  BY <1>1 DEF NameRecord
<1>3. CASE n = m
  <2>1. registry'[n] = [registry[n] EXCEPT !.data = data]
    BY <1>3 DEF SetData, TypeOK
  <2> QED
    BY <1>1, <1>2, <2>1, NullsAssumption DEF HasRecord, NameRecord
<1>4. CASE n # m
  BY <1>4 DEF SetData, TypeOK, HasRecord
<1> QED
  BY <1>3, <1>4

LEMMA NextReverse == TypeOK /\ ReverseConsistent /\ [Next]_vars => ReverseConsistent'
<1> SUFFICES ASSUME TypeOK, ReverseConsistent, [Next]_vars PROVE ReverseConsistent'
  OBVIOUS
<1> USE DEF nameVars, adminVars
<1>1. ASSUME NEW n \in Slns, NEW years \in 1..MaxYears, Register(n, years)
      PROVE  ReverseConsistent'
  BY <1>1, AddRecordReverse DEF Register
<1>2. ASSUME NEW i \in NftIds, NEW years \in 1..MaxYears, Renew(i, years)
      PROVE  ReverseConsistent'
  <2> DEFINE exp == registry[nfts[i].name].exp + years * Year
  <2>1. registry[nfts[i].name] \in NameRecord
    BY <1>2, NftTyped, RecordTyped DEF Renew, Nft
  <2>2. exp \in Nat
    BY <2>1, TimeAssumption DEF NameRecord
  <2>3. SetExpiration(i, exp) /\ Exists(i) /\ HasRecord(nfts[i].name) /\ reverse' = reverse
    BY <1>2 DEF Renew
  <2> QED
    BY <2>2, <2>3, SetExpirationKeepsTargets, TargetsKept
<1>3. ASSUME NEW i \in NftIds, NEW n \in Subs, RemoveLeaf(i, n)
      PROVE  ReverseConsistent'
  BY <1>3, RemoveRecordsReverse DEF RemoveLeaf
<1>4. ASSUME NEW i \in NftIds, NEW n \in Subs, NEW target \in Addrs, NewLeaf(i, n, target)
      PROVE  ReverseConsistent'
  <2> SUFFICES ASSUME NEW a \in Addrs, reverse'[a] # NoName
               PROVE  PointsTo(reverse[a], a)'
    BY DEF ReverseConsistent
  <2>1. reverse'[a] = reverse[a] /\ PointsTo(reverse[a], a) /\ reverse[a] # n
    BY <1>4, InvalidateSound, NullsAssumption DEF NewLeaf
  <2>2. registry'[reverse[a]] = registry[reverse[a]]
    BY <1>4, <2>1 DEF NewLeaf, TypeOK
  <2> QED
    BY <2>1, <2>2 DEF PointsTo, HasRecord
<1>5. ASSUME NEW i \in NftIds, NEW n \in Subs, NEW flags \in SUBSET Flags,
             EditSetup(i, n, flags)
      PROVE  ReverseConsistent'
  <2>1. (registry[n].data \ Flags) \cup flags \in SUBSET (UserKeys \cup Flags)
    BY <1>5, RecordTyped DEF EditSetup, NameRecord
  <2> QED
    BY <1>5, <2>1, SetDataKeepsTargets, TargetsKept DEF EditSetup
<1>6. ASSUME NEW i \in NftIds, NEW n \in Subs, NEW flags \in SUBSET Flags,
             NEW exp \in 0..MaxExp, NewSubname(i, n, exp, flags)
      PROVE  ReverseConsistent'
  BY <1>6, AddRecordReverse DEF NewSubname
<1>7. ASSUME NEW i \in NftIds, NEW exp \in 0..MaxExp, ExtendExpiration(i, exp)
      PROVE  ReverseConsistent'
  <2>1. exp \in Nat
    BY <1>7
  <2> QED
    BY <1>7, <2>1, SetExpirationKeepsTargets, TargetsKept DEF ExtendExpiration
<1>8. ASSUME NEW i \in NftIds, NEW target \in Addrs \cup {NoAddr},
             SetTargetAddress(i, target)
      PROVE  ReverseConsistent'
  <2> DEFINE n == nfts[i].name
  <2> SUFFICES ASSUME NEW a \in Addrs, reverse'[a] # NoName
               PROVE  PointsTo(reverse[a], a)'
    BY DEF ReverseConsistent
  <2>1. /\ reverse'[a] = reverse[a] /\ PointsTo(reverse[a], a)
        /\ reverse[a] = n => target = a
    BY <1>8, InvalidateSound DEF SetTargetAddress
  <2>2. n \in Names /\ registry[n] \in NameRecord
    BY <1>8, NftTyped, RecordTyped DEF SetTargetAddress, Authorized, Nft
  <2>3. [registry[n] EXCEPT !.target = target] \in NameRecord
    BY <2>2 DEF NameRecord
  <2>4. CASE reverse[a] = n
    <3>1. registry'[n] = [registry[n] EXCEPT !.target = a]
      BY <1>8, <2>1, <2>2, <2>4 DEF SetTargetAddress, TypeOK
    <3> QED
      BY <2>1, <2>2, <2>3, <2>4, <3>1, NullsAssumption DEF PointsTo, HasRecord, NameRecord
  <2>5. CASE reverse[a] # n
    <3>1. registry'[reverse[a]] = registry[reverse[a]]
      BY <1>8, <2>1, <2>5 DEF SetTargetAddress, TypeOK
    <3> QED
      BY <2>1, <3>1 DEF PointsTo, HasRecord
  <2> QED
    BY <2>4, <2>5
<1>9. ASSUME NEW a \in Addrs, NEW n \in Names, SetReverseLookup(a, n)
      PROVE  ReverseConsistent'
  BY <1>9 DEF SetReverseLookup, TypeOK, ReverseConsistent, PointsTo, HasRecord
<1>10. ASSUME NEW a \in Addrs, UnsetReverseLookup(a)
       PROVE  ReverseConsistent'
  BY <1>10 DEF UnsetReverseLookup, TypeOK, ReverseConsistent, PointsTo, HasRecord
<1>11. ASSUME NEW i \in NftIds, NEW key \in UserKeys, SetUserData(i, key)
       PROVE  ReverseConsistent'
  <2> DEFINE n == nfts[i].name
  <2>1. n \in Names /\ HasRecord(n) /\ registry[n] \in NameRecord
    BY <1>11, NftTyped, RecordTyped DEF SetUserData, Authorized, Nft
  <2>2. registry[n].data \cup {key} \in SUBSET (UserKeys \cup Flags)
    BY <2>1 DEF NameRecord
  <2> QED
    BY <1>11, <2>1, <2>2, SetDataKeepsTargets, TargetsKept DEF SetUserData
<1>12. ASSUME NEW i \in NftIds, NEW key \in UserKeys \cup Flags, UnsetUserData(i, key)
       PROVE  ReverseConsistent'
  <2> DEFINE n == nfts[i].name
  <2>1. n \in Names /\ HasRecord(n) /\ registry[n] \in NameRecord
    BY <1>12, NftTyped, RecordTyped DEF UnsetUserData, Authorized, Nft
  <2>2. registry[n].data \ {key} \in SUBSET (UserKeys \cup Flags)
    BY <2>1 DEF NameRecord
  <2> QED
    BY <1>12, <2>1, <2>2, SetDataKeepsTargets, TargetsKept DEF UnsetUserData
<1>13. ASSUME NEW i \in NftIds, BurnExpired(i)
       PROVE  ReverseConsistent'
  <2>1. CASE RemoveRecords({nfts[i].name})
    BY <2>1, RemoveRecordsReverse
  <2>2. CASE UNCHANGED <<registry, reverse>>
    BY <2>2 DEF ReverseConsistent, PointsTo, HasRecord
  <2> QED
    BY <1>13, <2>1, <2>2 DEF BurnExpired
<1>14. ASSUME NEW n \in Slns, NEW years \in AdminYears, AdminRegister(n, years)
       PROVE  ReverseConsistent'
  BY <1>14, AddRecordReverse DEF AdminRegister
<1>15. ASSUME NEW ns \in SUBSET Names, AdminRemoveRecords(ns)
       PROVE  ReverseConsistent'
  BY <1>15, RemoveRecordsReverse DEF AdminRemoveRecords
<1>16. ASSUME UNCHANGED <<registry, reverse>>
       PROVE  ReverseConsistent'
  BY <1>16 DEF ReverseConsistent, PointsTo, HasRecord
<1>17. ASSUME NEW app \in Apps, Authorize(app) \/ Deauthorize(app)
       PROVE  ReverseConsistent'
  BY <1>16, <1>17 DEF Authorize, Deauthorize
<1>18. ASSUME NEW label \in Labels, ChangeDenyList(label)
       PROVE  ReverseConsistent'
  BY <1>16, <1>18 DEF ChangeDenyList
<1>19. CASE Tick
  BY <1>16, <1>19 DEF Tick
<1>20. CASE UNCHANGED vars
  BY <1>16, <1>20 DEF vars
<1> QED
  BY <1>1, <1>2, <1>3, <1>4, <1>5, <1>6, <1>7, <1>8, <1>9, <1>10, <1>11, <1>12, <1>13,
     <1>14, <1>15, <1>17, <1>18, <1>19, <1>20
  DEF Next, PaymentNext, SubnamesNext, ControllerNext, AdminNext

\* The default name of an address always exists and points back to it.
THEOREM ReverseCorrect == Spec => []ReverseConsistent
<1>1. Init => ReverseConsistent
  BY DEF Init, ReverseConsistent
<1>2. TypeOK /\ ReverseConsistent /\ [Next]_vars => ReverseConsistent'
  BY NextReverse
<1> QED
  BY <1>1, <1>2, TypeCorrect, PTL DEF Spec

-----------------------------------------------------------------------------
(* Which NFT stands behind a record.                                       *)

\* A minted id is new, so the records and NFTs there were keep their meaning.
LEMMA AddRecordOwnership ==
    ASSUME TypeOK, OwnershipInv, NEW n \in Names, NEW grace, NEW exp \in Nat, exp # 0,
           NEW parent \in NftIds \cup {NoId}, NEW data \in SUBSET (UserKeys \cup Flags),
           AddRecord(n, grace, exp, parent, data)
    PROVE  OwnershipInv'
<1> DEFINE k == minted + 1
           r == [nft |-> k, exp |-> exp, target |-> NoAddr, data |-> data]
           t == [name |-> n, exp |-> exp, parent |-> parent]
<1>1. /\ k \in NftIds /\ minted \in Nat /\ minted' = k /\ ~Exists(k)
      /\ r \in NameRecord /\ t \in Nft
      /\ r.nft = k /\ r.exp = exp /\ t.name = n /\ t.exp = exp
  BY BoundsAssumption DEF TypeOK, AddRecord, NftIds, OwnershipInv, IdsUsed, NameRecord, Nft
<1>2. /\ registry'[n] = r
      /\ \A m \in Names : m # n => registry'[m] = registry[m]
      /\ nfts'[k] = t
      /\ \A i \in NftIds : i # k => nfts'[i] = nfts[i]
  BY <1>1 DEF TypeOK, AddRecord
<1> HIDE DEF k, r, t
<1>3. /\ HasRecord(n)' /\ registry'[n].nft = k /\ registry'[n].exp = exp
      /\ ~IsLeaf(registry[n])'
      /\ nfts'[k] # NoNft /\ nfts'[k].name = n /\ nfts'[k].exp = exp
  <2>1. registry'[n].nft = k /\ registry'[n].exp = exp
    BY <1>1, <1>2
  <2>2. nfts'[k].name = n /\ nfts'[k].exp = exp
    BY <1>1, <1>2
  <2>3. HasRecord(n)' /\ nfts'[k] # NoNft
    BY <1>1, <1>2, NullsAssumption DEF HasRecord
  <2> QED
    BY <2>1, <2>2, <2>3 DEF IsLeaf
<1>4. ASSUME NEW m \in Names, m # n, HasRecord(m)'
      PROVE  /\ HasRecord(m) /\ registry'[m] = registry[m]
             /\ registry[m].nft \in NftIds /\ registry[m].nft <= minted
             /\ nfts'[registry[m].nft] = nfts[registry[m].nft]
  <2>1. HasRecord(m) /\ registry'[m] = registry[m]
    BY <1>2, <1>4 DEF HasRecord
  <2>2. registry[m].nft \in NftIds /\ registry[m].nft <= minted
    BY <2>1, RecordTyped DEF NameRecord, OwnershipInv, IdsUsed
  <2>3. registry[m].nft # k
    BY <1>1, <2>2 DEF k, NftIds
  <2> QED
    BY <1>2, <2>1, <2>2, <2>3
<1>5. IdsUsed'
  <2>1. ASSUME NEW i \in NftIds, Exists(i)' PROVE i <= k
    BY <1>1, <1>2, <2>1 DEF k, OwnershipInv, IdsUsed, Exists, NftIds
  <2>2. ASSUME NEW m \in Names, HasRecord(m)' PROVE registry'[m].nft <= k
    BY <1>1, <1>3, <1>4, <2>2 DEF k, NftIds
  <2> QED
    BY <1>1, <2>1, <2>2 DEF IdsUsed
<1>6. LeafOfParent'
  BY <1>2, <1>3, <1>4 DEF OwnershipInv, LeafOfParent, IsLeaf, Exists
<1>7. RecordBacked'
  <2> SUFFICES ASSUME NEW m \in Names, HasRecord(m)', ~IsLeaf(registry[m])'
               PROVE  /\ Exists(registry[m].nft)'
                      /\ nfts'[registry'[m].nft].name = m
                      /\ nfts'[registry'[m].nft].exp = registry'[m].exp
    BY DEF RecordBacked
  <2>1. CASE m = n
    BY <1>3, <2>1 DEF Exists
  <2>2. CASE m # n
    BY <1>4, <2>2 DEF OwnershipInv, RecordBacked, IsLeaf, Exists
  <2> QED
    BY <2>1, <2>2
<1>8. LeafHasTarget'
  BY <1>2, <1>3, <1>4 DEF OwnershipInv, LeafHasTarget, IsLeaf
<1> QED
  BY <1>5, <1>6, <1>7, <1>8 DEF OwnershipInv

LEMMA RemoveRecordsOwnership ==
    ASSUME TypeOK, OwnershipInv, NEW ns, RemoveRecords(ns), nfts' = nfts, minted' = minted
    PROVE  OwnershipInv'
<1>1. ASSUME NEW m \in Names, HasRecord(m)'
      PROVE  HasRecord(m) /\ registry'[m] = registry[m]
  BY <1>1 DEF RemoveRecords, HasRecord
<1> QED
  BY <1>1 DEF OwnershipInv, IdsUsed, LeafOfParent, RecordBacked, LeafHasTarget, IsLeaf, Exists

\* Writes that keep the holder and the expiration of every record, and leave
\* no leaf without a target.
LEMMA HoldersKept ==
    ASSUME TypeOK, OwnershipInv, nfts' = nfts, minted' = minted,
           \A n \in Names : HasRecord(n)' =>
               /\ HasRecord(n)
               /\ registry'[n].nft = registry[n].nft
               /\ registry'[n].exp = registry[n].exp
               /\ IsLeaf(registry[n]) => registry'[n].target = registry[n].target
    PROVE  OwnershipInv'
BY DEF OwnershipInv, IdsUsed, LeafOfParent, RecordBacked, LeafHasTarget, IsLeaf, Exists

\* The record of an NFT's own name that carries the NFT's id is not a leaf.
LEMMA MatchedIsNode ==
    ASSUME TypeOK, OwnershipInv, NEW i \in NftIds, Exists(i),
           HasRecord(nfts[i].name), IdMatches(i)
    PROVE  ~IsLeaf(registry[nfts[i].name]) /\ nfts[i].exp = registry[nfts[i].name].exp
<1>1. nfts[i].name \in Names
  BY NftTyped DEF Nft
<1> QED
  BY <1>1, NamesAssumption
  DEF OwnershipInv, LeafOfParent, RecordBacked, IdMatches

LEMMA SetExpirationOwnership ==
    ASSUME TypeOK, OwnershipInv, NEW i \in NftIds, NEW exp \in Nat, exp # 0, Exists(i),
           HasRecord(nfts[i].name), SetExpiration(i, exp), minted' = minted
    PROVE  OwnershipInv'
<1> DEFINE n == nfts[i].name
<1>1. /\ n \in Names /\ nfts[i] \in Nft /\ registry[n] \in NameRecord
      /\ registry[n].nft = i /\ ~IsLeaf(registry[n])
  BY NftTyped, RecordTyped, MatchedIsNode DEF Nft, SetExpiration, IdMatches
<1>2. /\ registry'[n] = [registry[n] EXCEPT !.exp = exp]
      /\ \A m \in Names : m # n => registry'[m] = registry[m]
      /\ nfts'[i] = [nfts[i] EXCEPT !.exp = exp]
      /\ \A j \in NftIds : j # i => nfts'[j] = nfts[j]
  BY <1>1 DEF SetExpiration, TypeOK
<1>3. /\ registry'[n] \in NameRecord /\ registry'[n].nft = i
      /\ registry'[n].exp = exp
      /\ nfts'[i] \in Nft /\ nfts'[i].name = n /\ nfts'[i].exp = exp
  BY <1>1, <1>2 DEF NameRecord, Nft
<1>4. HasRecord(n)' /\ Exists(i)' /\ ~IsLeaf(registry[n])'
  BY <1>3, NullsAssumption DEF HasRecord, Exists, IsLeaf
<1>5. IdsUsed'
  BY <1>1, <1>2, <1>3 DEF OwnershipInv, IdsUsed, HasRecord, Exists
<1>6. LeafOfParent'
  <2> SUFFICES ASSUME NEW m \in Names, HasRecord(m)', IsLeaf(registry[m])'
               PROVE  /\ m \in Subs
                      /\ Exists(registry[m].nft)' =>
                             nfts'[registry'[m].nft].name = Parent[m]
    BY DEF LeafOfParent
  <2>1. m # n /\ registry'[m] = registry[m] /\ HasRecord(m) /\ IsLeaf(registry[m])
    BY <1>2, <1>4 DEF HasRecord, IsLeaf
  <2>2. registry[m].nft \in NftIds
    BY <2>1, RecordTyped DEF NameRecord
  <2>3. m \in Subs /\ (Exists(registry[m].nft) => nfts[registry[m].nft].name = Parent[m])
    BY <2>1 DEF OwnershipInv, LeafOfParent
  <2> QED
    BY <1>2, <1>3, <2>1, <2>2, <2>3 DEF Exists
<1>7. RecordBacked'
  <2> SUFFICES ASSUME NEW m \in Names, HasRecord(m)', ~IsLeaf(registry[m])'
               PROVE  /\ Exists(registry[m].nft)'
                      /\ nfts'[registry'[m].nft].name = m
                      /\ nfts'[registry'[m].nft].exp = registry'[m].exp
    BY DEF RecordBacked
  <2>1. CASE m = n
    BY <1>3, <1>4, <2>1
  <2>2. CASE m # n
    <3>1. registry'[m] = registry[m] /\ HasRecord(m) /\ ~IsLeaf(registry[m])
      BY <1>2, <2>2 DEF HasRecord, IsLeaf
    <3>2. /\ Exists(registry[m].nft)
          /\ nfts[registry[m].nft].name = m
          /\ nfts[registry[m].nft].exp = registry[m].exp
      BY <3>1 DEF OwnershipInv, RecordBacked
    <3>3. registry[m].nft \in NftIds /\ registry[m].nft # i
      BY <2>2, <3>1, <3>2, RecordTyped DEF NameRecord
    <3> QED
      BY <1>2, <3>1, <3>2, <3>3 DEF Exists
  <2> QED
    BY <2>1, <2>2
<1>8. LeafHasTarget'
  BY <1>2, <1>4 DEF OwnershipInv, LeafHasTarget, HasRecord, IsLeaf
<1> QED
  BY <1>5, <1>6, <1>7, <1>8 DEF OwnershipInv

LEMMA SetDataOwnership ==
    ASSUME TypeOK, OwnershipInv, NEW m \in Names, HasRecord(m), nfts' = nfts, minted' = minted,
           NEW data \in SUBSET (UserKeys \cup Flags), SetData(m, data)
    PROVE  OwnershipInv'
<1>1. registry[m] \in NameRecord
  BY RecordTyped
<1>2. registry'[m] = [registry[m] EXCEPT !.data = data]
  BY DEF SetData, TypeOK
<1>3. \A n \in Names : n # m => registry'[n] = registry[n]
  BY DEF SetData, TypeOK
<1>4. /\ registry'[m].nft = registry[m].nft
      /\ registry'[m].exp = registry[m].exp
      /\ registry'[m].target = registry[m].target
  BY <1>1, <1>2 DEF NameRecord
<1> QED
  BY <1>3, <1>4, HoldersKept DEF HasRecord

\* An authorised NFT is for a node whose record carries its expiration.
LEMMA AuthorizedNode ==
    ASSUME TypeOK, OwnershipInv, NEW i \in NftIds, Authorized(i)
    PROVE  /\ nfts[i].name \in Names /\ HasRecord(nfts[i].name)
           /\ registry[nfts[i].name] \in NameRecord
           /\ ~IsLeaf(registry[nfts[i].name])
           /\ registry[nfts[i].name].nft = i
           /\ nfts[i].exp = registry[nfts[i].name].exp
           /\ registry[nfts[i].name].exp >= now
BY NftTyped, RecordTyped, MatchedIsNode
DEF Authorized, IdMatches, Expired, TypeOK, Nft, NameRecord

LEMMA InitOwnership == Init => OwnershipInv
BY DEF Init, OwnershipInv, IdsUsed, LeafOfParent, RecordBacked, LeafHasTarget,
       HasRecord, Exists

LEMMA NextOwnership == TypeOK /\ OwnershipInv /\ [Next]_vars => OwnershipInv'
<1> SUFFICES ASSUME TypeOK, OwnershipInv, [Next]_vars PROVE OwnershipInv'
  OBVIOUS
<1> USE DEF nameVars, adminVars
<1>0. ASSUME UNCHANGED <<registry, nfts, minted>>
      PROVE  OwnershipInv'
  BY <1>0, HoldersKept DEF HasRecord
<1>1. ASSUME NEW n \in Slns, NEW years \in 1..MaxYears, Register(n, years)
      PROVE  OwnershipInv'
  <2>1. now + years * Year \in Nat /\ now + years * Year # 0
    BY <1>1, TimeAssumption DEF TypeOK
  <2> QED
    BY <1>1, <2>1, AddRecordOwnership DEF Register
<1>2. ASSUME NEW i \in NftIds, NEW years \in 1..MaxYears, Renew(i, years)
      PROVE  OwnershipInv'
  <2> DEFINE exp == registry[nfts[i].name].exp + years * Year
  <2>1. registry[nfts[i].name] \in NameRecord
    BY <1>2, NftTyped, RecordTyped DEF Renew, Nft
  <2>2. years * Year \in Nat /\ years * Year > 0
    BY TimeAssumption
  <2>3. exp \in Nat /\ exp # 0
    BY <2>1, <2>2 DEF NameRecord
  <2>4. /\ SetExpiration(i, exp) /\ Exists(i) /\ HasRecord(nfts[i].name)
        /\ minted' = minted
    BY <1>2 DEF Renew
  <2> QED
    BY <2>3, <2>4, SetExpirationOwnership
<1>3. ASSUME NEW i \in NftIds, NEW n \in Subs, RemoveLeaf(i, n)
      PROVE  OwnershipInv'
  BY <1>3, RemoveRecordsOwnership DEF RemoveLeaf
<1>4. ASSUME NEW i \in NftIds, NEW n \in Subs, NEW target \in Addrs, NewLeaf(i, n, target)
      PROVE  OwnershipInv'
  <2> DEFINE r == [nft |-> registry[Parent[n]].nft, exp |-> LeafExpiration,
                   target |-> target, data |-> {}]
  <2>1. Authorized(i) /\ Parent[n] = nfts[i].name
    BY <1>4 DEF NewLeaf, CanManage
  <2>2. r.nft = i /\ r.exp = 0 /\ r.target = target /\ Exists(i) /\ r \in NameRecord
    BY <2>1, AuthorizedNode DEF Authorized, NameRecord
  <2>3. /\ registry'[n] = r /\ nfts' = nfts /\ minted' = minted
        /\ \A m \in Names : m # n => registry'[m] = registry[m]
    BY <1>4 DEF NewLeaf, TypeOK
  <2> HIDE DEF r
  <2>4. ASSUME NEW m \in Names, m # n, HasRecord(m)'
        PROVE  HasRecord(m) /\ registry'[m] = registry[m]
    BY <2>3, <2>4 DEF HasRecord
  <2>5. IdsUsed'
    BY <2>2, <2>3, <2>4 DEF OwnershipInv, IdsUsed, Exists
  <2>6. LeafOfParent'
    BY <2>1, <2>2, <2>3, <2>4 DEF OwnershipInv, LeafOfParent, IsLeaf, Exists
  <2>7. RecordBacked'
    BY <2>2, <2>3, <2>4 DEF OwnershipInv, RecordBacked, IsLeaf, Exists
  <2>8. LeafHasTarget'
    BY <2>2, <2>3, <2>4, NullsAssumption DEF OwnershipInv, LeafHasTarget, IsLeaf
  <2> QED
    BY <2>5, <2>6, <2>7, <2>8 DEF OwnershipInv
<1>5. ASSUME NEW i \in NftIds, NEW n \in Subs, NEW flags \in SUBSET Flags,
             EditSetup(i, n, flags)
      PROVE  OwnershipInv'
  <2>1. (registry[n].data \ Flags) \cup flags \in SUBSET (UserKeys \cup Flags)
    BY <1>5, RecordTyped DEF EditSetup, NameRecord
  <2> QED
    BY <1>5, <2>1, SetDataOwnership DEF EditSetup
<1>6. ASSUME NEW i \in NftIds, NEW n \in Subs, NEW flags \in SUBSET Flags,
             NEW exp \in 0..MaxExp, NewSubname(i, n, exp, flags)
      PROVE  OwnershipInv'
  <2>1. exp \in Nat /\ exp # 0
    BY <1>6, TimeAssumption DEF NewSubname, TypeOK
  <2> QED
    BY <1>6, <2>1, AddRecordOwnership DEF NewSubname
<1>7. ASSUME NEW i \in NftIds, NEW exp \in 0..MaxExp, ExtendExpiration(i, exp)
      PROVE  OwnershipInv'
  <2>1. nfts[i].exp \in Nat
    BY <1>7, NftTyped DEF ExtendExpiration, Nft
  <2>2. exp \in Nat /\ exp # 0
    BY <1>7, <2>1 DEF ExtendExpiration
  <2> QED
    BY <1>7, <2>2, SetExpirationOwnership DEF ExtendExpiration
<1>8. ASSUME NEW i \in NftIds, NEW target \in Addrs \cup {NoAddr},
             SetTargetAddress(i, target)
      PROVE  OwnershipInv'
  <2> DEFINE n == nfts[i].name
  <2>1. /\ n \in Names /\ HasRecord(n) /\ registry[n] \in NameRecord
        /\ ~IsLeaf(registry[n])
    BY <1>8, AuthorizedNode DEF SetTargetAddress
  <2>2. /\ registry'[n] = [registry[n] EXCEPT !.target = target]
        /\ \A m \in Names : m # n => registry'[m] = registry[m]
    BY <1>8, <2>1 DEF SetTargetAddress, TypeOK
  <2>3. registry'[n].nft = registry[n].nft /\ registry'[n].exp = registry[n].exp
    BY <2>1, <2>2 DEF NameRecord
  <2> HIDE DEF n
  <2> QED
    BY <1>8, <2>1, <2>2, <2>3, HoldersKept DEF SetTargetAddress, HasRecord
<1>9. ASSUME NEW a \in Addrs, NEW n \in Names, SetReverseLookup(a, n)
      PROVE  OwnershipInv'
  BY <1>0, <1>9 DEF SetReverseLookup
<1>10. ASSUME NEW a \in Addrs, UnsetReverseLookup(a)
       PROVE  OwnershipInv'
  BY <1>0, <1>10 DEF UnsetReverseLookup
<1>11. ASSUME NEW i \in NftIds, NEW key \in UserKeys, SetUserData(i, key)
       PROVE  OwnershipInv'
  <2>1. registry[nfts[i].name].data \cup {key} \in SUBSET (UserKeys \cup Flags)
    BY <1>11, AuthorizedNode DEF SetUserData, NameRecord
  <2> QED
    BY <1>11, <2>1, AuthorizedNode, SetDataOwnership DEF SetUserData
<1>12. ASSUME NEW i \in NftIds, NEW key \in UserKeys \cup Flags, UnsetUserData(i, key)
       PROVE  OwnershipInv'
  <2>1. registry[nfts[i].name].data \ {key} \in SUBSET (UserKeys \cup Flags)
    BY <1>12, AuthorizedNode DEF UnsetUserData, NameRecord
  <2> QED
    BY <1>12, <2>1, AuthorizedNode, SetDataOwnership DEF UnsetUserData
<1>13. ASSUME NEW i \in NftIds, BurnExpired(i)
       PROVE  OwnershipInv'
  <2> DEFINE n == nfts[i].name
  <2>1. /\ \A j \in NftIds : nfts'[j] = IF j = i THEN NoNft ELSE nfts[j]
        /\ minted' = minted
    BY <1>13 DEF BurnExpired, TypeOK
  <2>2. ASSUME NEW m \in Names, HasRecord(m)'
        PROVE  HasRecord(m) /\ registry'[m] = registry[m] /\ registry[m].nft \in NftIds
    <3>1. HasRecord(m) /\ registry'[m] = registry[m]
      BY <1>13, <2>2 DEF BurnExpired, RemoveRecords, HasRecord
    <3> QED
      BY <3>1, RecordTyped DEF NameRecord
  <2>3. ASSUME NEW m \in Names, HasRecord(m)', ~IsLeaf(registry[m])
        PROVE  registry[m].nft # i
    <3> SUFFICES ASSUME registry[m].nft = i PROVE FALSE
      OBVIOUS
    <3>1. n = m /\ HasRecord(m)
      BY <2>2, <2>3 DEF OwnershipInv, RecordBacked
    <3>2. RemoveRecords({m})
      BY <1>13, <3>1 DEF BurnExpired, IdMatches
    <3> QED
      BY <2>3, <3>2 DEF RemoveRecords, HasRecord
  <2>4. IdsUsed'
    BY <2>1, <2>2 DEF OwnershipInv, IdsUsed, Exists
  <2>5. LeafOfParent'
    BY <2>1, <2>2 DEF OwnershipInv, LeafOfParent, IsLeaf, Exists
  <2>6. RecordBacked'
    BY <2>1, <2>2, <2>3 DEF OwnershipInv, RecordBacked, IsLeaf, Exists
  <2>7. LeafHasTarget'
    BY <2>2 DEF OwnershipInv, LeafHasTarget, IsLeaf
  <2> QED
    BY <2>4, <2>5, <2>6, <2>7 DEF OwnershipInv
<1>14. ASSUME NEW n \in Slns, NEW years \in AdminYears, AdminRegister(n, years)
       PROVE  OwnershipInv'
  <2>1. years * Year \in Nat
    BY TimeAssumption
  <2>2. now + years * Year \in Nat /\ now + years * Year # 0
    BY <2>1 DEF TypeOK
  <2> QED
    BY <1>14, <2>2, AddRecordOwnership DEF AdminRegister
<1>15. ASSUME NEW ns \in SUBSET Names, AdminRemoveRecords(ns)
       PROVE  OwnershipInv'
  BY <1>15, RemoveRecordsOwnership DEF AdminRemoveRecords
<1>16. ASSUME NEW app \in Apps, Authorize(app) \/ Deauthorize(app)
       PROVE  OwnershipInv'
  BY <1>0, <1>16 DEF Authorize, Deauthorize
<1>17. ASSUME NEW label \in Labels, ChangeDenyList(label)
       PROVE  OwnershipInv'
  BY <1>0, <1>17 DEF ChangeDenyList
<1>18. CASE Tick
  BY <1>0, <1>18 DEF Tick
<1>19. CASE UNCHANGED vars
  BY <1>0, <1>19 DEF vars
<1> QED
  BY <1>1, <1>2, <1>3, <1>4, <1>5, <1>6, <1>7, <1>8, <1>9, <1>10, <1>11, <1>12, <1>13,
     <1>14, <1>15, <1>16, <1>17, <1>18, <1>19
  DEF Next, PaymentNext, SubnamesNext, ControllerNext, AdminNext

\* Ids are fresh, leaves are their parent's and have a target, and every other
\* record is backed by an NFT in step with it, whatever the administrator does.
THEOREM OwnershipCorrect == Spec => []OwnershipInv
BY InitOwnership, NextOwnership, TypeCorrect, PTL DEF Spec

\* No leaf ever loses its target.
THEOREM LeafTargetCorrect == Spec => []LeafHasTarget
<1>1. OwnershipInv => LeafHasTarget
  BY DEF OwnershipInv
<1> QED
  BY <1>1, OwnershipCorrect, PTL

\* A node's record and its NFT stay in step.
THEOREM RecordBackedCorrect == Spec => []RecordBacked
<1>1. OwnershipInv => RecordBacked
  BY DEF OwnershipInv
<1> QED
  BY <1>1, OwnershipCorrect, PTL

-----------------------------------------------------------------------------
(* Tenure: what no step can take from the holder of an unexpired name.      *)

\* The writes that change neither who holds a name nor until when.
TermsSame ==
    /\ nfts' = nfts
    /\ \A n \in Names : HasRecord(n)' = HasRecord(n)
    /\ \A n \in Names : HasRecord(n) =>
            registry'[n].nft = registry[n].nft /\ registry'[n].exp = registry[n].exp

LEMMA SetDataTerms ==
    ASSUME TypeOK, NEW m \in Names, HasRecord(m), nfts' = nfts,
           NEW data \in SUBSET (UserKeys \cup Flags), SetData(m, data)
    PROVE  TermsSame
<1>1. /\ registry'[m] = [registry[m] EXCEPT !.data = data]
      /\ \A n \in Names : n # m => registry'[n] = registry[n]
  BY DEF SetData, TypeOK
<1>2. registry[m] \in NameRecord /\ registry'[m] \in NameRecord
  BY <1>1, RecordTyped DEF NameRecord
<1>3. /\ registry'[m].nft = registry[m].nft /\ registry'[m].exp = registry[m].exp
      /\ HasRecord(m)'
  BY <1>1, <1>2, NullsAssumption DEF NameRecord, HasRecord
<1> QED
  BY <1>1, <1>3 DEF TermsSame, HasRecord

\* The actions that change neither who holds a name nor until when.
LEMMA EditsKeepTerms ==
    ASSUME TypeOK, OwnershipInv,
           \/ \E i \in NftIds, n \in Subs, flags \in SUBSET Flags : EditSetup(i, n, flags)
           \/ \E i \in NftIds, target \in Addrs \cup {NoAddr} : SetTargetAddress(i, target)
           \/ \E a \in Addrs, n \in Names : SetReverseLookup(a, n)
           \/ \E a \in Addrs : UnsetReverseLookup(a)
           \/ \E i \in NftIds, key \in UserKeys : SetUserData(i, key)
           \/ \E i \in NftIds, key \in UserKeys \cup Flags : UnsetUserData(i, key)
           \/ \E app \in Apps : Authorize(app) \/ Deauthorize(app)
           \/ \E label \in Labels : ChangeDenyList(label)
           \/ Tick
           \/ UNCHANGED vars
    PROVE  TermsSame
<1> USE DEF nameVars
<1>0. ASSUME UNCHANGED <<registry, nfts>> PROVE TermsSame
  BY <1>0 DEF TermsSame, HasRecord
<1>1. ASSUME NEW i \in NftIds, NEW n \in Subs, NEW flags \in SUBSET Flags,
             EditSetup(i, n, flags)
      PROVE  TermsSame
  <2>1. (registry[n].data \ Flags) \cup flags \in SUBSET (UserKeys \cup Flags)
    BY <1>1, RecordTyped DEF EditSetup, NameRecord
  <2> QED
    BY <1>1, <2>1, SetDataTerms DEF EditSetup
<1>2. ASSUME NEW i \in NftIds, NEW target \in Addrs \cup {NoAddr},
             SetTargetAddress(i, target)
      PROVE  TermsSame
  <2> PICK n \in Names : n = nfts[i].name
    BY <1>2, AuthorizedNode DEF SetTargetAddress
  <2>1. HasRecord(n) /\ registry[n] \in NameRecord
    BY <1>2, AuthorizedNode DEF SetTargetAddress
  <2>2. /\ registry'[n] = [registry[n] EXCEPT !.target = target]
        /\ \A m \in Names : m # n => registry'[m] = registry[m]
    BY <1>2, <2>1 DEF SetTargetAddress, TypeOK
  <2>3. registry'[n] \in NameRecord
    BY <2>1, <2>2 DEF NameRecord
  <2>4. /\ registry'[n].nft = registry[n].nft /\ registry'[n].exp = registry[n].exp
        /\ HasRecord(n)'
    BY <2>1, <2>2, <2>3, NullsAssumption DEF NameRecord, HasRecord
  <2> QED
    BY <1>2, <2>1, <2>2, <2>4 DEF SetTargetAddress, TermsSame, HasRecord
<1>3. ASSUME NEW i \in NftIds, NEW key \in UserKeys, SetUserData(i, key)
      PROVE  TermsSame
  <2>1. registry[nfts[i].name].data \cup {key} \in SUBSET (UserKeys \cup Flags)
    BY <1>3, AuthorizedNode DEF SetUserData, NameRecord
  <2> QED
    BY <1>3, <2>1, AuthorizedNode, SetDataTerms DEF SetUserData
<1>4. ASSUME NEW i \in NftIds, NEW key \in UserKeys \cup Flags, UnsetUserData(i, key)
      PROVE  TermsSame
  <2>1. registry[nfts[i].name].data \ {key} \in SUBSET (UserKeys \cup Flags)
    BY <1>4, AuthorizedNode DEF UnsetUserData, NameRecord
  <2> QED
    BY <1>4, <2>1, AuthorizedNode, SetDataTerms DEF UnsetUserData
<1> QED
  BY <1>0, <1>1, <1>2, <1>3, <1>4
  DEF SetReverseLookup, UnsetReverseLookup, Authorize, Deauthorize, ChangeDenyList, Tick, vars

LEMMA TermsSameTenure ==
    ASSUME TermsSame, TypeOK PROVE TenureStep
<1> SUFFICES ASSUME NEW n \in Names, HasUnexpiredRecord(n)
             PROVE  /\ HasRecord(n)' /\ registry'[n].nft = registry[n].nft
                    /\ registry'[n].exp >= registry[n].exp
  BY DEF TenureStep
<1>1. HasRecord(n) /\ registry[n].exp \in Nat
  BY RecordTyped DEF HasUnexpiredRecord, NameRecord
<1> QED
  BY <1>1 DEF TermsSame

\* An unexpired record is not a leaf.
LEMMA UnexpiredNode ==
    ASSUME TypeOK, NEW n \in Names, HasUnexpiredRecord(n)
    PROVE  /\ HasRecord(n) /\ ~IsLeaf(registry[n])
           /\ registry[n].exp \in Nat /\ registry[n].exp >= now
BY RecordTyped DEF HasUnexpiredRecord, Expired, IsLeaf, NameRecord, TypeOK

\* Writing over a name that remove_existing_record_if_exists_and_expired lets go.
LEMMA OverwriteTenure ==
    ASSUME TypeOK, NEW n \in Names, NEW grace, Available(n, grace),
           \A m \in Names : m # n => registry'[m] = registry[m]
    PROVE  TenureStep
<1> SUFFICES ASSUME NEW m \in Names, HasUnexpiredRecord(m)
             PROVE  /\ HasRecord(m)' /\ registry'[m].nft = registry[m].nft
                    /\ registry'[m].exp >= registry[m].exp
  BY DEF TenureStep
<1>1. HasRecord(m) /\ ~IsLeaf(registry[m]) /\ registry[m].exp \in Nat /\ registry[m].exp >= now
  BY UnexpiredNode
<1>2. m # n
  BY <1>1, TimeAssumption DEF Available, ExpiredPastGrace, Expired, TypeOK
<1> QED
  BY <1>1, <1>2 DEF HasRecord

LEMMA AddRecordTenure ==
    ASSUME TypeOK, NEW n \in Names, NEW grace, NEW exp, NEW parent, NEW data,
           AddRecord(n, grace, exp, parent, data)
    PROVE  TenureStep
<1>1. \A m \in Names : m # n => registry'[m] = registry[m]
  BY DEF AddRecord, TypeOK
<1> QED
  BY <1>1, OverwriteTenure DEF AddRecord

LEMMA SetExpirationTenure ==
    ASSUME TypeOK, NEW i \in NftIds, NEW exp \in Nat, Exists(i), HasRecord(nfts[i].name),
           SetExpiration(i, exp), exp >= registry[nfts[i].name].exp
    PROVE  TenureStep
<1> PICK n \in Names : n = nfts[i].name
  BY NftTyped DEF Nft
<1>1. registry[n] \in NameRecord
  BY RecordTyped
<1>2. /\ registry'[n] = [registry[n] EXCEPT !.exp = exp]
      /\ \A m \in Names : m # n => registry'[m] = registry[m]
  BY <1>1 DEF SetExpiration, TypeOK
<1>3. registry'[n] \in NameRecord
  BY <1>1, <1>2 DEF NameRecord
<1>4. HasRecord(n)' /\ registry'[n].nft = registry[n].nft /\ registry'[n].exp = exp
  BY <1>1, <1>2, <1>3, NullsAssumption DEF NameRecord, HasRecord
<1>5. exp >= registry[n].exp
  OBVIOUS
<1> SUFFICES ASSUME NEW m \in Names, HasUnexpiredRecord(m)
             PROVE  /\ HasRecord(m)' /\ registry'[m].nft = registry[m].nft
                    /\ registry'[m].exp >= registry[m].exp
  BY DEF TenureStep
<1>6. HasRecord(m) /\ registry[m].exp \in Nat
  BY UnexpiredNode
<1>7. CASE m = n
  BY <1>4, <1>5, <1>7
<1>8. CASE m # n
  BY <1>2, <1>6, <1>8 DEF HasRecord
<1> QED
  BY <1>7, <1>8

\* A burn removes at most the record of the burnt NFT, which has expired, and
\* spares the NFT of every record that stays.
LEMMA BurnSpares ==
    ASSUME TypeOK, OwnershipInv, NEW i \in NftIds, BurnExpired(i),
           NEW m \in Names, HasRecord(m), ~IsLeaf(registry[m])
    PROVE  IF registry[m].nft = i
           THEN registry'[m] = NoRecord /\ Expired(registry[m])
           ELSE registry'[m] = registry[m] /\ nfts'[registry[m].nft] = nfts[registry[m].nft]
<1> DEFINE n == nfts[i].name
<1>1. registry[m].nft \in NftIds
  BY RecordTyped DEF NameRecord
<1>2. /\ nfts[registry[m].nft].name = m
      /\ nfts[registry[m].nft].exp = registry[m].exp
  BY DEF OwnershipInv, RecordBacked
<1>3. CASE registry[m].nft = i
  <2>1. RemoveRecords({m}) /\ Expired(registry[m])
    BY <1>2, <1>3 DEF BurnExpired, IdMatches, Expired
  <2> QED
    BY <1>3, <2>1 DEF RemoveRecords
<1>4. CASE registry[m].nft # i
  <2>1. registry'[m] = registry[m]
    BY <1>4 DEF BurnExpired, RemoveRecords, IdMatches
  <2> QED
    BY <1>1, <1>4, <2>1 DEF BurnExpired, TypeOK
<1> QED
  BY <1>3, <1>4

LEMMA NextTenure ==
    ASSUME "remove" \notin AdminPowers, TypeOK, OwnershipInv, [Next]_vars
    PROVE  TenureStep
<1>1. ASSUME NEW n \in Slns, NEW years \in 1..MaxYears, Register(n, years)
      PROVE  TenureStep
  BY <1>1, AddRecordTenure DEF Register
<1>2. ASSUME NEW i \in NftIds, NEW years \in 1..MaxYears, Renew(i, years)
      PROVE  TenureStep
  <2> DEFINE exp == registry[nfts[i].name].exp + years * Year
  <2>1. registry[nfts[i].name] \in NameRecord
    BY <1>2, NftTyped, RecordTyped DEF Renew, Nft
  <2>2. years * Year \in Nat
    BY TimeAssumption
  <2>3. exp \in Nat /\ exp >= registry[nfts[i].name].exp
    BY <2>1, <2>2 DEF NameRecord
  <2>4. SetExpiration(i, exp) /\ Exists(i) /\ HasRecord(nfts[i].name)
    BY <1>2 DEF Renew
  <2> QED
    BY <2>3, <2>4, SetExpirationTenure
<1>3. ASSUME NEW i \in NftIds, NEW n \in Subs, RemoveLeaf(i, n)
      PROVE  TenureStep
  <2>1. \A m \in Names : m # n => registry'[m] = registry[m]
    BY <1>3 DEF RemoveLeaf, RemoveRecords
  <2> SUFFICES ASSUME NEW m \in Names, HasUnexpiredRecord(m)
               PROVE  /\ HasRecord(m)' /\ registry'[m].nft = registry[m].nft
                      /\ registry'[m].exp >= registry[m].exp
    BY DEF TenureStep
  <2>2. HasRecord(m) /\ registry[m].exp \in Nat /\ m # n
    BY <1>3, UnexpiredNode DEF RemoveLeaf
  <2> QED
    BY <2>1, <2>2 DEF HasRecord
<1>4. ASSUME NEW i \in NftIds, NEW n \in Subs, NEW target \in Addrs, NewLeaf(i, n, target)
      PROVE  TenureStep
  <2>1. \A m \in Names : m # n => registry'[m] = registry[m]
    BY <1>4 DEF NewLeaf, TypeOK
  <2> QED
    BY <1>4, <2>1, OverwriteTenure DEF NewLeaf
<1>5. ASSUME NEW i \in NftIds, NEW n \in Subs, NEW flags \in SUBSET Flags,
             NEW exp \in 0..MaxExp, NewSubname(i, n, exp, flags)
      PROVE  TenureStep
  BY <1>5, AddRecordTenure DEF NewSubname
<1>6. ASSUME NEW i \in NftIds, NEW exp \in 0..MaxExp, ExtendExpiration(i, exp)
      PROVE  TenureStep
  <2>1. SetExpiration(i, exp) /\ Exists(i) /\ HasRecord(nfts[i].name) /\ exp > nfts[i].exp
    BY <1>6 DEF ExtendExpiration
  <2>2. nfts[i].exp = registry[nfts[i].name].exp
    BY <2>1, MatchedIsNode DEF SetExpiration
  <2>3. exp \in Nat /\ nfts[i].exp \in Nat
    BY <2>1, NftTyped DEF Nft
  <2> QED
    BY <2>1, <2>2, <2>3, SetExpirationTenure
<1>7. ASSUME NEW i \in NftIds, BurnExpired(i)
      PROVE  TenureStep
  <2> SUFFICES ASSUME NEW m \in Names, HasUnexpiredRecord(m)
               PROVE  /\ HasRecord(m)' /\ registry'[m].nft = registry[m].nft
                      /\ registry'[m].exp >= registry[m].exp
    BY DEF TenureStep
  <2>1. /\ HasRecord(m) /\ ~IsLeaf(registry[m]) /\ ~Expired(registry[m])
        /\ registry[m].exp \in Nat
    BY UnexpiredNode DEF HasUnexpiredRecord
  <2>2. registry'[m] = registry[m]
    BY <1>7, <2>1, BurnSpares
  <2> QED
    BY <2>1, <2>2 DEF HasRecord
<1>8. ASSUME NEW n \in Slns, NEW years \in AdminYears, AdminRegister(n, years)
      PROVE  TenureStep
  BY <1>8, AddRecordTenure DEF AdminRegister
<1>9. ASSUME NEW ns \in SUBSET Names, AdminRemoveRecords(ns)
      PROVE  TenureStep
  BY <1>9 DEF AdminRemoveRecords
<1> QED
  BY <1>1, <1>2, <1>3, <1>4, <1>5, <1>6, <1>7, <1>8, <1>9, EditsKeepTerms, TermsSameTenure
  DEF Next, PaymentNext, SubnamesNext, ControllerNext, AdminNext

\* Without the administrator's removals, an unexpired name stays with its NFT
\* and its term is never cut.
THEOREM TenureCorrect ==
    ASSUME "remove" \notin AdminPowers
    PROVE  Spec => TenureProtected
<1>1. TypeOK /\ OwnershipInv /\ [Next]_vars => [TenureStep]_vars
  BY NextTenure
<1> QED
  BY <1>1, TypeCorrect, OwnershipCorrect, PTL DEF Spec, TenureProtected

-----------------------------------------------------------------------------
(* The chain from a subname up to its second-level name.                   *)

\* The record and the parent id of a subname are the ones it had.
ChildKept(m) ==
    /\ HasRecord(m) /\ ~IsLeaf(registry[m])
    /\ registry'[m].exp = registry[m].exp
    /\ nfts'[registry'[m].nft].parent = nfts[registry[m].nft].parent

ChainedToParent(m) ==
    /\ HasRecord(Parent[m])
    /\ registry[Parent[m]].nft = nfts[registry[m].nft].parent
    /\ registry[m].exp <= registry[Parent[m]].exp

\* A subname whose own record is kept stays chained: while it has not expired
\* neither has its parent, and no step takes an unexpired name.
LEMMA ChildStaysChained ==
    ASSUME TypeOK, TypeOK', ChainInv, TenureStep, now' >= now,
           NEW m \in Subs, ChildKept(m)
    PROVE  ChainedToParent(m)' \/ Expired(registry[m])'
<1>1. registry[m].exp \in Nat /\ Parent[m] \in Names /\ now \in Nat /\ now' \in Nat
  BY RecordTyped, NamesAssumption DEF ChildKept, NameRecord, TypeOK
<1>2. CASE Expired(registry[m])
  BY <1>1, <1>2 DEF ChildKept, Expired
<1>3. CASE ~Expired(registry[m])
  <2>1. ChainedToParent(m)
    BY <1>3 DEF ChainInv, ChildKept, ChainedToParent
  <2>2. registry[Parent[m]].exp \in Nat
    BY <1>1, <2>1, RecordTyped DEF ChainedToParent, NameRecord
  <2>3. HasUnexpiredRecord(Parent[m])
    BY <1>1, <1>3, <2>1, <2>2 DEF ChainedToParent, HasUnexpiredRecord, Expired
  <2>4. /\ HasRecord(Parent[m])'
        /\ registry'[Parent[m]].nft = registry[Parent[m]].nft
        /\ registry'[Parent[m]].exp >= registry[Parent[m]].exp
    BY <1>1, <2>3 DEF TenureStep
  <2>5. registry'[Parent[m]].exp \in Nat
    <3>1. registry'[Parent[m]] \in NameRecord
      BY <1>1, <2>4 DEF TypeOK, HasRecord
    <3> QED
      BY <3>1 DEF NameRecord
  <2> QED
    BY <1>1, <2>1, <2>2, <2>4, <2>5 DEF ChainedToParent, ChildKept
<1> QED
  BY <1>2, <1>3

LEMMA TermsSameChild ==
    ASSUME TermsSame, NEW m \in Names, HasRecord(m)', ~IsLeaf(registry[m])'
    PROVE  ChildKept(m)
BY DEF TermsSame, ChildKept, IsLeaf

\* Minting does not touch the other subnames.
LEMMA AddRecordChild ==
    ASSUME TypeOK, OwnershipInv, NEW n \in Names, NEW grace, NEW exp, NEW parent, NEW data,
           AddRecord(n, grace, exp, parent, data),
           NEW m \in Names, m # n, HasRecord(m)', ~IsLeaf(registry[m])'
    PROVE  ChildKept(m)
<1>1. registry'[m] = registry[m]
  BY DEF AddRecord, TypeOK
<1>2. HasRecord(m) /\ ~IsLeaf(registry[m])
  BY <1>1 DEF HasRecord, IsLeaf
<1>3. registry[m].nft \in NftIds /\ registry[m].nft <= minted
  BY <1>2, RecordTyped DEF NameRecord, OwnershipInv, IdsUsed
<1>4. nfts'[registry[m].nft] = nfts[registry[m].nft]
  BY <1>3 DEF AddRecord, TypeOK, NftIds
<1> QED
  BY <1>1, <1>2, <1>4 DEF ChildKept

LEMMA SetExpirationChild ==
    ASSUME TypeOK, OwnershipInv, NEW i \in NftIds, NEW exp \in Nat, Exists(i),
           HasRecord(nfts[i].name), SetExpiration(i, exp),
           NEW m \in Names, m # nfts[i].name, HasRecord(m)', ~IsLeaf(registry[m])'
    PROVE  ChildKept(m)
<1>1. registry'[m] = registry[m]
  BY DEF SetExpiration, TypeOK
<1>2. HasRecord(m) /\ ~IsLeaf(registry[m])
  BY <1>1 DEF HasRecord, IsLeaf
<1>3. registry[m].nft \in NftIds /\ registry[m].nft # i
  BY <1>2, RecordTyped DEF NameRecord, OwnershipInv, RecordBacked
<1>4. nfts'[registry[m].nft] = nfts[registry[m].nft]
  BY <1>3 DEF SetExpiration, TypeOK
<1> QED
  BY <1>1, <1>2, <1>4 DEF ChildKept

\* The Clock object never goes back.
LEMMA ClockMonotone ==
    ASSUME TypeOK, [Next]_vars PROVE now' >= now
<1>1. now \in Nat
  BY DEF TypeOK
<1>2. ASSUME PaymentNext PROVE now' = now
  BY <1>2 DEF PaymentNext, Register, Renew
<1>3. ASSUME SubnamesNext PROVE now' = now
  BY <1>3 DEF SubnamesNext, NewSubname, NewLeaf, RemoveLeaf, ExtendExpiration, EditSetup
<1>4. ASSUME ControllerNext PROVE now' = now
  BY <1>4 DEF ControllerNext, SetTargetAddress, SetReverseLookup, UnsetReverseLookup,
              SetUserData, UnsetUserData, BurnExpired
<1>5. ASSUME AdminNext PROVE now' = now
  BY <1>5 DEF AdminNext, AdminRegister, AdminRemoveRecords, Authorize, Deauthorize,
              ChangeDenyList
<1>6. ASSUME Tick PROVE now' = now + 1
  BY <1>6 DEF Tick
<1>7. ASSUME UNCHANGED vars PROVE now' = now
  BY <1>7 DEF vars
<1> QED
  BY <1>1, <1>2, <1>3, <1>4, <1>5, <1>6, <1>7 DEF Next

LEMMA NextChain ==
    ASSUME "remove" \notin AdminPowers, TypeOK, TypeOK', OwnershipInv, ChainInv, [Next]_vars
    PROVE  ChainInv'
<1> USE DEF nameVars, adminVars
<1>1. TenureStep
  BY NextTenure
<1>2. now' >= now
  BY ClockMonotone
<1> SUFFICES ASSUME NEW m \in Subs, HasRecord(m)', ~IsLeaf(registry[m])'
             PROVE  ChildKept(m) \/ ChainedToParent(m)'
  BY <1>1, <1>2, ChildStaysChained DEF ChainInv, ChainedToParent
<1>3. ASSUME NEW n \in Slns, NEW years \in 1..MaxYears, Register(n, years)
      PROVE  ChildKept(m)
  BY <1>3, AddRecordChild, NamesAssumption DEF Register
<1>4. ASSUME NEW i \in NftIds, NEW years \in 1..MaxYears, Renew(i, years)
      PROVE  ChildKept(m)
  <2> DEFINE exp == registry[nfts[i].name].exp + years * Year
  <2>1. registry[nfts[i].name] \in NameRecord
    BY <1>4, NftTyped, RecordTyped DEF Renew, Nft
  <2>2. years * Year \in Nat
    BY TimeAssumption
  <2>3. exp \in Nat
    BY <2>1, <2>2 DEF NameRecord
  <2>4. /\ SetExpiration(i, exp) /\ Exists(i) /\ HasRecord(nfts[i].name)
        /\ m # nfts[i].name
    BY <1>4, NamesAssumption DEF Renew
  <2> QED
    BY <2>3, <2>4, SetExpirationChild
<1>5. ASSUME NEW i \in NftIds, NEW n \in Subs, RemoveLeaf(i, n)
      PROVE  ChildKept(m)
  <2>1. HasRecord(m) /\ registry'[m] = registry[m] /\ nfts' = nfts
    BY <1>5 DEF RemoveLeaf, RemoveRecords, HasRecord
  <2> QED
    BY <2>1 DEF ChildKept, IsLeaf
<1>6. ASSUME NEW i \in NftIds, NEW n \in Subs, NEW target \in Addrs, NewLeaf(i, n, target)
      PROVE  ChildKept(m)
  <2>1. CASE m = n
    <3>1. registry'[m].exp = LeafExpiration
      BY <1>6, <2>1 DEF NewLeaf, TypeOK
    <3> QED
      BY <3>1 DEF IsLeaf
  <2>2. CASE m # n
    <3>1. HasRecord(m) /\ registry'[m] = registry[m] /\ nfts' = nfts
      BY <1>6, <2>2 DEF NewLeaf, TypeOK, HasRecord
    <3> QED
      BY <3>1 DEF ChildKept, IsLeaf
  <2> QED
    BY <2>1, <2>2
<1>7. ASSUME NEW i \in NftIds, NEW n \in Subs, NEW flags \in SUBSET Flags,
             NEW exp \in 0..MaxExp, NewSubname(i, n, exp, flags)
      PROVE  ChildKept(m) \/ ChainedToParent(m)'
  <2>1. CASE m # n
    BY <1>7, <2>1, AddRecordChild DEF NewSubname
  <2>2. CASE m = n
    <3>1. /\ Authorized(i) /\ Parent[m] = nfts[i].name /\ exp <= nfts[i].exp
          /\ AddRecord(m, FALSE, exp, i, flags)
      BY <1>7, <2>2 DEF NewSubname, CanManage, WithinParentTerm
    <3>2. /\ HasRecord(Parent[m]) /\ registry[Parent[m]].nft = i
          /\ nfts[i].exp = registry[Parent[m]].exp
          /\ Parent[m] # m /\ Parent[m] \in Names
      BY <3>1, AuthorizedNode, NamesAssumption
    <3>3. registry'[Parent[m]] = registry[Parent[m]]
      BY <3>1, <3>2 DEF AddRecord, TypeOK
    <3>4. minted + 1 \in NftIds
      BY <3>1, BoundsAssumption DEF AddRecord, TypeOK, NftIds
    <3>5. registry'[m].nft = minted + 1 /\ registry'[m].exp = exp
      BY <3>1 DEF AddRecord, TypeOK
    <3>6. nfts'[minted + 1].parent = i
      BY <3>1, <3>4 DEF AddRecord, TypeOK
    <3> QED
      BY <3>1, <3>2, <3>3, <3>5, <3>6 DEF ChainedToParent, HasRecord
  <2> QED
    BY <2>1, <2>2
<1>8. ASSUME NEW i \in NftIds, NEW exp \in 0..MaxExp, ExtendExpiration(i, exp)
      PROVE  ChildKept(m) \/ ChainedToParent(m)'
  <2>1. /\ SetExpiration(i, exp) /\ Exists(i) /\ HasRecord(nfts[i].name) /\ exp \in Nat
    BY <1>8 DEF ExtendExpiration
  <2>2. CASE m # nfts[i].name
    BY <2>1, <2>2, SetExpirationChild
  <2>3. CASE m = nfts[i].name
    <3>1. /\ HasRecord(Parent[m]) /\ nfts[i].parent = registry[Parent[m]].nft
          /\ exp <= registry[Parent[m]].exp /\ registry[m].nft = i
          /\ Parent[m] # m /\ Parent[m] \in Names
      BY <1>8, <2>3, NamesAssumption
      DEF ExtendExpiration, SameParent, WithinParentTerm, SetExpiration, IdMatches
    <3>2. registry[m] \in NameRecord /\ nfts[i] \in Nft
      BY <2>1, <2>3, RecordTyped, NftTyped
    <3>3. registry'[Parent[m]] = registry[Parent[m]]
      BY <2>1, <2>3, <3>1 DEF SetExpiration, TypeOK
    <3>4. registry'[m] = [registry[m] EXCEPT !.exp = exp]
      BY <2>1, <2>3 DEF SetExpiration, TypeOK
    <3>5. nfts'[i] = [nfts[i] EXCEPT !.exp = exp]
      BY <2>1 DEF SetExpiration, TypeOK
    <3>6. /\ registry'[m].nft = i /\ registry'[m].exp = exp
          /\ nfts'[i].parent = nfts[i].parent
      BY <3>1, <3>2, <3>4, <3>5 DEF NameRecord, Nft
    <3> QED
      BY <3>1, <3>3, <3>6 DEF ChainedToParent, HasRecord
  <2> QED
    BY <2>2, <2>3
<1>9. ASSUME NEW i \in NftIds, BurnExpired(i)
      PROVE  ChildKept(m)
  <2>1. HasRecord(m) /\ registry'[m] = registry[m]
    BY <1>9 DEF BurnExpired, RemoveRecords, HasRecord
  <2>2. ~IsLeaf(registry[m]) /\ registry'[m] # NoRecord
    BY <2>1 DEF IsLeaf, HasRecord
  <2> QED
    BY <1>9, <2>1, <2>2, BurnSpares DEF ChildKept
<1>10. ASSUME NEW n \in Slns, NEW years \in AdminYears, AdminRegister(n, years)
       PROVE  ChildKept(m)
  BY <1>10, AddRecordChild, NamesAssumption DEF AdminRegister
<1>11. ASSUME NEW ns \in SUBSET Names, AdminRemoveRecords(ns)
       PROVE  ChildKept(m)
  BY <1>11 DEF AdminRemoveRecords
<1>12. ASSUME TermsSame PROVE ChildKept(m)
  BY <1>12, TermsSameChild
<1> QED
  BY <1>3, <1>4, <1>5, <1>6, <1>7, <1>8, <1>9, <1>10, <1>11, <1>12, EditsKeepTerms
  DEF Next, PaymentNext, SubnamesNext, ControllerNext, AdminNext

\* Without the administrator's removals, every subname is within the term of
\* the NFT that created it, or has expired.
THEOREM ChainCorrect ==
    ASSUME "remove" \notin AdminPowers
    PROVE  Spec => []ChainInv
<1>1. Init => ChainInv
  BY DEF Init, ChainInv, HasRecord
<1>2. TypeOK /\ TypeOK' /\ OwnershipInv /\ ChainInv /\ [Next]_vars => ChainInv'
  BY NextChain
<1> QED
  BY <1>1, <1>2, TypeCorrect, OwnershipCorrect, PTL DEF Spec

\* Without the administrator's removals, no subname is alive below a parent
\* that has expired or changed hands.
THEOREM LiveChainCorrect ==
    ASSUME "remove" \notin AdminPowers
    PROVE  Spec => []LiveChain
<1>1. TypeOK /\ ChainInv => LiveChain
  <2> SUFFICES ASSUME TypeOK, ChainInv, NEW n \in Subs, HasUnexpiredRecord(n)
               PROVE  /\ HasUnexpiredRecord(Parent[n])
                      /\ registry[Parent[n]].nft = nfts[registry[n].nft].parent
    BY DEF LiveChain
  <2>1. /\ HasRecord(n) /\ ~IsLeaf(registry[n]) /\ ~Expired(registry[n])
        /\ registry[n].exp \in Nat /\ registry[n].exp >= now
    BY UnexpiredNode DEF HasUnexpiredRecord
  <2>2. /\ HasRecord(Parent[n])
        /\ registry[Parent[n]].nft = nfts[registry[n].nft].parent
        /\ registry[n].exp <= registry[Parent[n]].exp
    BY <2>1 DEF ChainInv
  <2>3. registry[Parent[n]].exp \in Nat
    BY <2>2, RecordTyped, NamesAssumption DEF NameRecord
  <2> QED
    BY <2>1, <2>2, <2>3 DEF HasUnexpiredRecord, Expired, TypeOK
<1> QED
  BY <1>1, TypeCorrect, ChainCorrect, PTL
=============================================================================
