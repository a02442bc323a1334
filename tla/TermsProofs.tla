------------------------------ MODULE TermsProofs ------------------------------
(***************************************************************************)
(* More theorems about IotaNames, for every value of its constants: what    *)
(* one step may never do to a name, how long a term can get, and that        *)
(* IotaNames implements Lease and Tenancy.                                 *)
(***************************************************************************)
EXTENDS IotaNamesProofs

USE DEF Names, Flags, AllowCreation, AllowExtension, NoId, LeafExpiration

-----------------------------------------------------------------------------
(* The shapes of the registry's writes.                                    *)

\* The steps that take records away leave every other record as it is.
LEMMA RemovalsKeepRest ==
    ASSUME \/ \E i \in NftIds, n \in Subs : RemoveLeaf(i, n)
           \/ \E i \in NftIds : BurnExpired(i)
           \/ \E ns \in SUBSET Names \ {{}} : AdminRemoveRecords(ns),
           NEW m \in Names, HasRecord(m)'
    PROVE  HasRecord(m) /\ registry'[m] = registry[m]
BY DEF RemoveLeaf, BurnExpired, AdminRemoveRecords, RemoveRecords, HasRecord

LEMMA AddRecordShape ==
    ASSUME TypeOK, NEW n \in Names, NEW grace, NEW exp, NEW parent, NEW data,
           AddRecord(n, grace, exp, parent, data)
    PROVE  /\ registry'[n].nft = minted + 1 /\ registry'[n].exp = exp
           /\ \A m \in Names : m # n => registry'[m] = registry[m]
           /\ minted + 1 \in NftIds /\ minted' = minted + 1
           /\ nfts'[minted + 1].parent = parent /\ nfts'[minted + 1].name = n
           /\ \A i \in NftIds : i # minted + 1 => nfts'[i] = nfts[i]
<1>1. minted + 1 \in NftIds
  BY BoundsAssumption DEF AddRecord, TypeOK, NftIds
<1> QED
  BY <1>1 DEF AddRecord, TypeOK

LEMMA SetExpirationShape ==
    ASSUME TypeOK, OwnershipInv, NEW i \in NftIds, NEW exp \in Nat, Exists(i),
           HasRecord(nfts[i].name), SetExpiration(i, exp)
    PROVE  LET n == nfts[i].name
           IN  /\ n \in Names /\ ~IsLeaf(registry[n])
               /\ registry[n].nft = i /\ registry'[n].nft = i
               /\ registry[n].exp = nfts[i].exp /\ registry[n].exp \in Nat
               /\ registry'[n].exp = exp
               /\ \A m \in Names : m # n => registry'[m] = registry[m]
               /\ nfts'[i].parent = nfts[i].parent /\ nfts'[i].name = n
               /\ \A j \in NftIds : j # i => nfts'[j] = nfts[j]
<1> PICK n \in Names : n = nfts[i].name
  BY NftTyped DEF Nft
<1>1. registry[n] \in NameRecord /\ nfts[i] \in Nft
  BY RecordTyped, NftTyped
<1>2. ~IsLeaf(registry[n]) /\ registry[n].exp = nfts[i].exp
  BY MatchedIsNode DEF SetExpiration
<1>3. /\ registry'[n] = [registry[n] EXCEPT !.exp = exp]
      /\ \A m \in Names : m # n => registry'[m] = registry[m]
  BY DEF SetExpiration, TypeOK
<1>4. /\ nfts'[i] = [nfts[i] EXCEPT !.exp = exp]
      /\ \A j \in NftIds : j # i => nfts'[j] = nfts[j]
  BY DEF SetExpiration, TypeOK
<1>5. registry[n].nft = i
  BY DEF SetExpiration, IdMatches
<1> QED
  BY <1>1, <1>2, <1>3, <1>4, <1>5 DEF NameRecord, Nft

LEMMA NewLeafShape ==
    ASSUME TypeOK, OwnershipInv, NEW i \in NftIds, NEW n \in Subs, NEW target \in Addrs,
           NewLeaf(i, n, target)
    PROVE  /\ Exists(i) /\ nfts[i].name = Parent[n] /\ Parent[n] \in Names /\ Parent[n] # n
           /\ registry'[n].nft = i /\ registry'[n].exp = LeafExpiration
           /\ \A m \in Names : m # n => registry'[m] = registry[m]
           /\ nfts' = nfts /\ minted' = minted /\ now' = now
<1>1. Authorized(i) /\ Parent[n] = nfts[i].name
  BY DEF NewLeaf, CanManage
<1>2. registry[Parent[n]].nft = i /\ Exists(i)
  BY <1>1, AuthorizedNode DEF Authorized
<1>3. Parent[n] \in Names /\ Parent[n] # n
  BY NamesAssumption
<1> QED
  BY <1>1, <1>2, <1>3 DEF NewLeaf, TypeOK

\* The terms that renewals and extensions of a term set.
LEMMA RenewTerm ==
    ASSUME TypeOK, OwnershipInv, NEW i \in NftIds, NEW years \in 1..MaxYears, Renew(i, years)
    PROVE  \E exp \in Nat :
               /\ SetExpiration(i, exp) /\ Exists(i) /\ HasRecord(nfts[i].name)
               /\ nfts[i].name \in Slns
               /\ exp >= registry[nfts[i].name].exp
               /\ exp <= now + (MaxYears + 1) * Year
               /\ now' = now /\ minted' = minted
<1> DEFINE exp == registry[nfts[i].name].exp + years * Year
<1>1. registry[nfts[i].name] \in NameRecord
  BY NftTyped, RecordTyped DEF Renew, Nft
<1>2. years * Year \in Nat
  BY TimeAssumption
<1>3. exp \in Nat /\ exp >= registry[nfts[i].name].exp
  BY <1>1, <1>2 DEF NameRecord
<1> QED
  BY <1>3 DEF Renew, WithinMaxTerm

LEMMA ExtendTerm ==
    ASSUME TypeOK, OwnershipInv, NEW i \in NftIds, NEW exp \in 0..MaxExp,
           ExtendExpiration(i, exp)
    PROVE  LET n == nfts[i].name
           IN  /\ exp \in Nat /\ SetExpiration(i, exp) /\ Exists(i) /\ HasRecord(n)
               /\ n \in Subs /\ exp >= registry[n].exp
               /\ Parent[n] \in Names /\ HasRecord(Parent[n])
               /\ nfts[i].parent = registry[Parent[n]].nft
               /\ exp <= registry[Parent[n]].exp
               /\ now' = now /\ minted' = minted
<1> PICK n \in Subs : n = nfts[i].name
  BY DEF ExtendExpiration
<1>1. /\ exp \in Nat /\ SetExpiration(i, exp) /\ Exists(i) /\ HasRecord(n) /\ exp > nfts[i].exp
  BY DEF ExtendExpiration
<1>2. nfts[i].exp = registry[n].exp /\ nfts[i].exp \in Nat
  BY <1>1, MatchedIsNode, NftTyped DEF SetExpiration, Nft
<1> QED
  BY <1>1, <1>2, NamesAssumption DEF ExtendExpiration, SameParent, WithinParentTerm

-----------------------------------------------------------------------------
(* The kill switch.                                                        *)

LEMMA NextKillSwitch == [Next]_vars => KillSwitchStep
<1> SUFFICES ASSUME [Next]_vars, apps = {} PROVE UNCHANGED <<registry, reverse, nfts>>
  BY DEF KillSwitchStep
<1>1. ~PaymentNext
  BY DEF PaymentNext, Register, Renew
<1>2. ~SubnamesNext
  BY DEF SubnamesNext, RemoveLeaf, NewLeaf, EditSetup, NewSubname, ExtendExpiration
<1>3. ~ControllerNext
  BY DEF ControllerNext, SetTargetAddress, SetReverseLookup, UnsetReverseLookup, SetUserData,
         UnsetUserData, BurnExpired
<1>4. ASSUME AdminNext PROVE UNCHANGED nameVars
  BY <1>4 DEF AdminNext, AdminRegister, AdminRemoveRecords, Authorize, Deauthorize,
              ChangeDenyList
<1> QED
  BY <1>1, <1>2, <1>3, <1>4 DEF Next, Tick, vars, nameVars

\* With no app authorised, nothing a name or an address resolves to changes.
THEOREM KillSwitchCorrect == Spec => KillSwitch
BY NextKillSwitch, PTL DEF Spec, KillSwitch

-----------------------------------------------------------------------------
(* Who may take over a name.                                               *)

LEMMA NextGrace == TypeOK /\ OwnershipInv /\ [Next]_vars => GraceStep
<1> SUFFICES ASSUME TypeOK, OwnershipInv, [Next]_vars,
                    NEW m \in Slns, HasRecord(m), ~ExpiredPastGrace(registry[m]), HasRecord(m)'
             PROVE  registry'[m].nft = registry[m].nft
  BY DEF GraceStep
<1>0. m \in Names /\ (\A n \in Subs : m # n) /\ ~IsLeaf(registry[m])
  BY NamesAssumption DEF OwnershipInv, LeafHasTarget
<1>1. ASSUME NEW n \in Slns, NEW exp, NEW parent, NEW data, AddRecord(n, TRUE, exp, parent, data)
      PROVE  registry'[m].nft = registry[m].nft
  BY <1>0, <1>1, AddRecordShape DEF AddRecord, Available
<1>2. ASSUME NEW i \in NftIds, NEW exp \in Nat, Exists(i), HasRecord(nfts[i].name),
             SetExpiration(i, exp)
      PROVE  registry'[m].nft = registry[m].nft
  BY <1>2, SetExpirationShape
<1>3. ASSUME NEW i \in NftIds, NEW years \in 1..MaxYears, Renew(i, years)
      PROVE  registry'[m].nft = registry[m].nft
  BY <1>2, <1>3, RenewTerm
<1>4. ASSUME NEW i \in NftIds, NEW n \in Subs, NEW target \in Addrs, NewLeaf(i, n, target)
      PROVE  registry'[m].nft = registry[m].nft
  <2>1. \A q \in Names : q # n => registry'[q] = registry[q]
    BY <1>4 DEF NewLeaf, TypeOK
  <2> QED
    BY <1>0, <2>1
<1>5. ASSUME NEW i \in NftIds, NEW n \in Subs, NEW flags \in SUBSET Flags,
             NEW exp \in 0..MaxExp, NewSubname(i, n, exp, flags)
      PROVE  registry'[m].nft = registry[m].nft
  <2>1. n \in Names /\ AddRecord(n, FALSE, exp, i, flags)
    BY <1>5 DEF NewSubname
  <2>2. \A q \in Names : q # n => registry'[q] = registry[q]
    BY <2>1, AddRecordShape
  <2> QED
    BY <1>0, <2>2
<1>6. ASSUME NEW i \in NftIds, NEW exp \in 0..MaxExp, ExtendExpiration(i, exp)
      PROVE  registry'[m].nft = registry[m].nft
  BY <1>2, <1>6, ExtendTerm
<1>7. ASSUME TermsSame PROVE registry'[m].nft = registry[m].nft
  BY <1>7 DEF TermsSame
<1>8. ASSUME \/ \E i \in NftIds, n \in Subs : RemoveLeaf(i, n)
             \/ \E i \in NftIds : BurnExpired(i)
             \/ \E ns \in SUBSET Names \ {{}} : AdminRemoveRecords(ns)
      PROVE  registry'[m].nft = registry[m].nft
  BY <1>0, <1>8, RemovalsKeepRest
<1>9. ASSUME PaymentNext PROVE registry'[m].nft = registry[m].nft
  BY <1>1, <1>3, <1>9 DEF PaymentNext, Register
<1>10. ASSUME \E n \in Slns, years \in AdminYears : AdminRegister(n, years)
       PROVE  registry'[m].nft = registry[m].nft
  BY <1>1, <1>10 DEF AdminRegister
<1> QED
  BY <1>4, <1>5, <1>6, <1>7, <1>8, <1>9, <1>10, EditsKeepTerms
  DEF Next, SubnamesNext, ControllerNext, AdminNext

\* Within the grace period, a second-level name goes to no other NFT, whatever
\* the administrator does.
THEOREM GraceCorrect == Spec => GraceProtected
BY NextGrace, TypeCorrect, OwnershipCorrect, PTL DEF Spec, GraceProtected
-----------------------------------------------------------------------------
(* Leaves.                                                                 *)

LEMMA NextLeaf == TypeOK /\ OwnershipInv /\ [Next]_vars => LeafStep
<1> SUFFICES ASSUME TypeOK, OwnershipInv, [Next]_vars,
                    NEW m \in Subs, HasRecord(m), IsLeaf(registry[m]), HasRecord(m)',
                    ~LeafReleased(m)
             PROVE  /\ registry'[m].exp = LeafExpiration
                    /\ registry'[m].target = registry[m].target
  BY DEF LeafStep
<1> DEFINE Kept == registry'[m].exp = 0 /\ registry'[m].target = registry[m].target
<1>0. m \in Names /\ registry[m].exp = 0 /\ registry[m] \in NameRecord
  BY RecordTyped DEF IsLeaf
<1>1. ASSUME registry'[m] = registry[m] PROVE Kept
  BY <1>0, <1>1
<1>2. ASSUME NEW n \in Names, NEW grace, NEW exp, NEW parent, NEW data,
             AddRecord(n, grace, exp, parent, data)
      PROVE  Kept
  <2>1. m # n
    BY <1>2 DEF AddRecord, Available
  <2>2. registry'[m] = registry[m]
    BY <1>0, <1>2, <2>1 DEF AddRecord, TypeOK
  <2> QED
    BY <1>1, <2>2
<1>3. ASSUME NEW i \in NftIds, NEW exp \in Nat, Exists(i), HasRecord(nfts[i].name),
             SetExpiration(i, exp)
      PROVE  Kept
  <2>1. m # nfts[i].name
    BY <1>3, MatchedIsNode DEF SetExpiration
  <2>2. registry'[m] = registry[m]
    BY <1>0, <1>3, <2>1 DEF SetExpiration, TypeOK
  <2> QED
    BY <1>1, <2>2
<1>4. ASSUME NEW n \in Names, NEW data, SetData(n, data)
      PROVE  Kept
  <2>1. CASE m = n
    <3>1. registry'[m] = [registry[m] EXCEPT !.data = data]
      BY <1>0, <1>4, <2>1 DEF SetData, TypeOK
    <3> QED
      BY <1>0, <3>1 DEF NameRecord
  <2>2. CASE m # n
    BY <1>0, <1>1, <1>4, <2>2 DEF SetData, TypeOK
  <2> QED
    BY <2>1, <2>2
<1> HIDE DEF Kept
<1>5. ASSUME PaymentNext PROVE Kept
  <2>1. ASSUME NEW n \in Slns, NEW years \in 1..MaxYears, Register(n, years) PROVE Kept
    BY <1>2, <2>1 DEF Register
  <2>2. ASSUME NEW i \in NftIds, NEW years \in 1..MaxYears, Renew(i, years) PROVE Kept
    BY <1>3, <2>2, RenewTerm
  <2> QED
    BY <1>5, <2>1, <2>2 DEF PaymentNext
<1>6. ASSUME NEW i \in NftIds, NEW n \in Subs, NEW target \in Addrs, NewLeaf(i, n, target)
      PROVE  Kept
  <2>1. m # n
    BY <1>6 DEF NewLeaf, Available
  <2>2. registry'[m] = registry[m]
    BY <1>0, <1>6, <2>1 DEF NewLeaf, TypeOK
  <2> QED
    BY <1>1, <2>2
<1>7. ASSUME SubnamesNext PROVE Kept
  <2>1. ASSUME NEW i \in NftIds, NEW n \in Subs, NEW flags \in SUBSET Flags,
               NEW exp \in 0..MaxExp, NewSubname(i, n, exp, flags)
        PROVE  Kept
    BY <1>2, <2>1 DEF NewSubname
  <2>2. ASSUME NEW i \in NftIds, NEW exp \in 0..MaxExp, ExtendExpiration(i, exp) PROVE Kept
    BY <1>3, <2>2, ExtendTerm
  <2>3. ASSUME NEW i \in NftIds, NEW n \in Subs, NEW flags \in SUBSET Flags,
               EditSetup(i, n, flags)
        PROVE  Kept
    BY <1>4, <2>3 DEF EditSetup
  <2>4. ASSUME NEW i \in NftIds, NEW n \in Subs, RemoveLeaf(i, n) PROVE Kept
    BY <1>0, <1>1, <2>4, RemovalsKeepRest
  <2> QED
    BY <1>6, <1>7, <2>1, <2>2, <2>3, <2>4 DEF SubnamesNext
<1>8. ASSUME NEW i \in NftIds, NEW target \in Addrs \cup {NoAddr}, SetTargetAddress(i, target)
      PROVE  Kept
  <2>1. m # nfts[i].name
    BY <1>8, AuthorizedNode DEF SetTargetAddress
  <2>2. registry'[m] = registry[m]
    BY <1>0, <1>8, <2>1 DEF SetTargetAddress, TypeOK
  <2> QED
    BY <1>1, <2>2
<1>9. ASSUME ControllerNext PROVE Kept
  <2>1. ASSUME NEW i \in NftIds, BurnExpired(i) PROVE Kept
    BY <1>0, <1>1, <2>1, RemovalsKeepRest
  <2>2. ASSUME NEW i \in NftIds, NEW key \in UserKeys, SetUserData(i, key) PROVE Kept
    BY <1>4, <2>2, AuthorizedNode DEF SetUserData
  <2>3. ASSUME NEW i \in NftIds, NEW key \in UserKeys \cup Flags, UnsetUserData(i, key)
        PROVE  Kept
    BY <1>4, <2>3, AuthorizedNode DEF UnsetUserData
  <2>4. ASSUME registry' = registry PROVE Kept
    BY <1>1, <2>4
  <2> QED
    BY <1>8, <1>9, <2>1, <2>2, <2>3, <2>4
    DEF ControllerNext, SetReverseLookup, UnsetReverseLookup
<1>10. ASSUME AdminNext PROVE Kept
  <2>1. ASSUME NEW n \in Slns, NEW years \in AdminYears, AdminRegister(n, years) PROVE Kept
    BY <1>2, <2>1 DEF AdminRegister
  <2>2. ASSUME NEW ns \in SUBSET Names \ {{}}, AdminRemoveRecords(ns) PROVE Kept
    BY <1>0, <1>1, <2>2, RemovalsKeepRest
  <2>3. ASSUME registry' = registry PROVE Kept
    BY <1>1, <2>3
  <2> QED
    BY <1>10, <2>1, <2>2, <2>3
    DEF AdminNext, Authorize, Deauthorize, ChangeDenyList, nameVars
<1>11. ASSUME registry' = registry PROVE Kept
  BY <1>1, <1>11
<1> QED
  BY <1>5, <1>7, <1>9, <1>10, <1>11 DEF Next, Tick, vars, nameVars, Kept

\* A leaf below a valid parent is never taken over or pointed elsewhere.
THEOREM LeafCorrect == Spec => LeafProtected
BY NextLeaf, TypeCorrect, OwnershipCorrect, PTL DEF Spec, LeafProtected

-----------------------------------------------------------------------------
(* The deny list.                                                          *)

LEMMA NextDenyList ==
    ASSUME "register" \notin AdminPowers, TypeOK, OwnershipInv, [Next]_vars
    PROVE  DenyListStep
<1> SUFFICES ASSUME NEW m \in Names, HasRecord(m)',
                    HasRecord(m) => registry'[m].nft # registry[m].nft
             PROVE  ~DenyListed(m)
  BY DEF DenyListStep, DenyListed
<1>1. ASSUME NEW n \in Names, NEW grace, NEW exp, NEW parent, NEW data,
             AddRecord(n, grace, exp, parent, data), ~DenyListed(n)
      PROVE  ~DenyListed(m)
  <2>1. CASE m = n
    BY <1>1, <2>1
  <2>2. CASE m # n
    BY <1>1, <2>2 DEF AddRecord, TypeOK, HasRecord
  <2> QED
    BY <2>1, <2>2
<1>2. ASSUME NEW i \in NftIds, NEW exp \in Nat, Exists(i), HasRecord(nfts[i].name),
             SetExpiration(i, exp)
      PROVE  FALSE
  <2>1. CASE m = nfts[i].name
    BY <1>2, <2>1, SetExpirationShape
  <2>2. CASE m # nfts[i].name
    BY <1>2, <2>2 DEF SetExpiration, TypeOK, HasRecord
  <2> QED
    BY <2>1, <2>2
<1>3. ASSUME NEW i \in NftIds, NEW n \in Subs, NEW target \in Addrs, NewLeaf(i, n, target)
      PROVE  ~DenyListed(m)
  <2>1. CASE m = n
    BY <1>3, <2>1 DEF NewLeaf
  <2>2. CASE m # n
    BY <1>3, <2>2 DEF NewLeaf, TypeOK, HasRecord
  <2> QED
    BY <2>1, <2>2
<1>4. ASSUME TermsSame PROVE FALSE
  BY <1>4 DEF TermsSame
<1>5. ASSUME PaymentNext PROVE ~DenyListed(m)
  <2>1. ASSUME NEW n \in Slns, NEW years \in 1..MaxYears, Register(n, years)
        PROVE  ~DenyListed(m)
    BY <1>1, <2>1 DEF Register
  <2>2. ASSUME NEW i \in NftIds, NEW years \in 1..MaxYears, Renew(i, years) PROVE FALSE
    BY <1>2, <2>2, RenewTerm
  <2> QED
    BY <1>5, <2>1, <2>2 DEF PaymentNext
<1>6. ASSUME NEW i \in NftIds, NEW n \in Subs, NEW flags \in SUBSET Flags,
             NEW exp \in 0..MaxExp, NewSubname(i, n, exp, flags)
      PROVE  ~DenyListed(m)
  BY <1>1, <1>6 DEF NewSubname
<1>7. ASSUME NEW i \in NftIds, NEW exp \in 0..MaxExp, ExtendExpiration(i, exp) PROVE FALSE
  BY <1>2, <1>7, ExtendTerm
<1>8. ASSUME \/ \E i \in NftIds, n \in Subs : RemoveLeaf(i, n)
             \/ \E i \in NftIds : BurnExpired(i)
             \/ \E ns \in SUBSET Names \ {{}} : AdminRemoveRecords(ns)
      PROVE  FALSE
  BY <1>8, RemovalsKeepRest
<1>9. ~\E n \in Slns, years \in AdminYears : AdminRegister(n, years)
  BY DEF AdminRegister
<1> QED
  BY <1>3, <1>4, <1>5, <1>6, <1>7, <1>8, <1>9, EditsKeepTerms
  DEF Next, SubnamesNext, ControllerNext, AdminNext

\* No name with a blocked or reserved label is given a record, unless the
\* administrator registers names.
THEOREM DenyListCorrect ==
    ASSUME "register" \notin AdminPowers
    PROVE  Spec => DenyListRespected
<1>1. TypeOK /\ OwnershipInv /\ [Next]_vars => [DenyListStep]_vars
  BY NextDenyList
<1> QED
  BY <1>1, TypeCorrect, OwnershipCorrect, PTL DEF Spec, DenyListRespected
-----------------------------------------------------------------------------
(* Orphans.                                                                *)

LEMMA NextOrphan == TypeOK /\ OwnershipInv /\ [Next]_vars => OrphanStep
<1> SUFFICES ASSUME TypeOK, OwnershipInv, [Next]_vars,
                    NEW m \in Subs, HasRecord(m), ~IsLeaf(registry[m]),
                    registry[Parent[m]].nft # nfts[registry[m].nft].parent,
                    HasRecord(m)', registry'[m].nft = registry[m].nft
             PROVE  registry'[m].exp = registry[m].exp
  BY DEF OrphanStep
<1> DEFINE Kept == registry'[m].exp = registry[m].exp
<1>0. /\ m \in Names /\ m \notin Slns
      /\ registry[m].nft \in NftIds /\ registry[m].nft <= minted
      /\ nfts[registry[m].nft].name = m
  BY NamesAssumption, RecordTyped
  DEF NameRecord, OwnershipInv, IdsUsed, RecordBacked
<1>1. ASSUME NEW n \in Names, NEW grace, NEW exp, NEW parent, NEW data,
             AddRecord(n, grace, exp, parent, data)
      PROVE  Kept
  <2>1. minted \in Nat /\ registry'[n].nft = minted + 1
    BY <1>1, AddRecordShape DEF TypeOK
  <2>2. m # n
    BY <1>0, <2>1 DEF NftIds
  <2> QED
    BY <1>0, <1>1, <2>2 DEF AddRecord, TypeOK
<1>2. ASSUME NEW i \in NftIds, NEW years \in 1..MaxYears, Renew(i, years) PROVE Kept
  <2>1. nfts[i].name # m /\ \E exp \in Nat : SetExpiration(i, exp)
    BY <1>0, <1>2, RenewTerm
  <2> QED
    BY <1>0, <2>1 DEF SetExpiration, TypeOK
<1>3. ASSUME NEW i \in NftIds, NEW exp \in 0..MaxExp, ExtendExpiration(i, exp) PROVE Kept
  <2>1. /\ SetExpiration(i, exp) /\ nfts[i].name \in Subs
        /\ nfts[i].parent = registry[Parent[nfts[i].name]].nft
    BY <1>3, ExtendTerm
  <2>2. nfts[i].name # m
    BY <2>1 DEF SetExpiration, IdMatches
  <2> QED
    BY <1>0, <2>1, <2>2 DEF SetExpiration, TypeOK
<1>4. ASSUME NEW i \in NftIds, NEW n \in Subs, NEW target \in Addrs, NewLeaf(i, n, target)
      PROVE  Kept
  <2>1. /\ registry'[n].nft = i /\ nfts[i].name = Parent[n] /\ Parent[n] # n
    BY <1>4, NewLeafShape
  <2>2. m # n
    BY <1>0, <2>1
  <2> QED
    BY <1>0, <1>4, <2>2 DEF NewLeaf, TypeOK
<1>5. ASSUME TermsSame PROVE Kept
  BY <1>0, <1>5 DEF TermsSame
<1>6. ASSUME \/ \E i \in NftIds, n \in Subs : RemoveLeaf(i, n)
             \/ \E i \in NftIds : BurnExpired(i)
             \/ \E ns \in SUBSET Names \ {{}} : AdminRemoveRecords(ns)
      PROVE  Kept
  BY <1>0, <1>6, RemovalsKeepRest
<1>7. ASSUME PaymentNext PROVE Kept
  BY <1>1, <1>2, <1>7 DEF PaymentNext, Register
<1>8. ASSUME NEW i \in NftIds, NEW n \in Subs, NEW flags \in SUBSET Flags,
             NEW exp \in 0..MaxExp, NewSubname(i, n, exp, flags)
      PROVE  Kept
  BY <1>1, <1>8 DEF NewSubname
<1>9. ASSUME \E n \in Slns, years \in AdminYears : AdminRegister(n, years) PROVE Kept
  BY <1>1, <1>9 DEF AdminRegister
<1> QED
  BY <1>3, <1>4, <1>5, <1>6, <1>7, <1>8, <1>9, EditsKeepTerms
  DEF Next, SubnamesNext, ControllerNext, AdminNext

\* A subname whose parent's name is held by another NFT keeps its term as it is.
THEOREM OrphanCorrect == Spec => OrphanCannotExtend
BY NextOrphan, TypeCorrect, OwnershipCorrect, PTL DEF Spec, OrphanCannotExtend

-----------------------------------------------------------------------------
(* The longest term.                                                       *)

LEMMA Product ==
    ASSUME NEW x \in Nat, NEW y \in Nat, x <= y, NEW z \in Nat
    PROVE  x * z <= y * z /\ x * z \in Nat /\ y * z \in Nat
OBVIOUS

LEMMA NextTermBounded ==
    ASSUME "register" \notin AdminPowers, TypeOK, TypeOK', OwnershipInv, TermBounded, [Next]_vars
    PROVE  TermBounded'
<1> SUFFICES ASSUME NEW m \in Names, HasRecord(m)'
             PROVE  registry'[m].exp <= now' + (MaxYears + 1) * Year
  BY DEF TermBounded
<1> DEFINE longest == (MaxYears + 1) * Year
<1>0. /\ now \in Nat /\ now' \in Nat /\ now' >= now /\ longest \in Nat
      /\ registry'[m].exp \in Nat
  <2>1. longest \in Nat
    BY TimeAssumption
  <2>2. registry'[m] \in NameRecord
    BY DEF TypeOK, HasRecord
  <2> QED
    BY <2>1, <2>2, ClockMonotone DEF TypeOK, NameRecord
<1>1. \A n \in Names : HasRecord(n) => registry[n].exp <= now + longest /\ registry[n].exp \in Nat
  BY RecordTyped DEF TermBounded, NameRecord
<1> HIDE DEF longest
<1>2. ASSUME HasRecord(m), registry'[m].exp = registry[m].exp
      PROVE  registry'[m].exp <= now' + longest
  BY <1>0, <1>1, <1>2
<1>3. ASSUME NEW n \in Names, NEW grace, NEW exp \in Nat, NEW parent, NEW data,
             AddRecord(n, grace, exp, parent, data), exp <= now + longest
      PROVE  registry'[m].exp <= now' + longest
  <2>1. CASE m = n
    BY <1>0, <1>3, <2>1, AddRecordShape
  <2>2. CASE m # n
    BY <1>2, <1>3, <2>2 DEF AddRecord, TypeOK, HasRecord
  <2> QED
    BY <2>1, <2>2
<1>4. ASSUME NEW i \in NftIds, NEW exp \in Nat, Exists(i), HasRecord(nfts[i].name),
             SetExpiration(i, exp), exp <= now + longest
      PROVE  registry'[m].exp <= now' + longest
  <2>1. CASE m = nfts[i].name
    BY <1>0, <1>4, <2>1, SetExpirationShape
  <2>2. CASE m # nfts[i].name
    BY <1>2, <1>4, <2>2 DEF SetExpiration, TypeOK, HasRecord
  <2> QED
    BY <2>1, <2>2
<1>5. ASSUME NEW n \in Slns, NEW years \in 1..MaxYears, Register(n, years)
      PROVE  registry'[m].exp <= now' + longest
  <2>1. years * Year <= longest /\ years * Year \in Nat
    BY Product, TimeAssumption DEF longest
  <2>2. now + years * Year \in Nat /\ now + years * Year <= now + longest
    BY <1>0, <2>1
  <2> QED
    BY <1>3, <1>5, <2>2 DEF Register
<1>6. ASSUME NEW i \in NftIds, NEW years \in 1..MaxYears, Renew(i, years)
      PROVE  registry'[m].exp <= now' + longest
  BY <1>4, <1>6, RenewTerm DEF longest
<1>7. ASSUME NEW i \in NftIds, NEW exp \in 0..MaxExp, ExtendExpiration(i, exp)
      PROVE  registry'[m].exp <= now' + longest
  <2>1. /\ exp \in Nat /\ SetExpiration(i, exp) /\ Exists(i) /\ HasRecord(nfts[i].name)
        /\ Parent[nfts[i].name] \in Names /\ HasRecord(Parent[nfts[i].name])
        /\ exp <= registry[Parent[nfts[i].name]].exp
    BY <1>7, ExtendTerm
  <2>2. exp <= now + longest
    BY <1>0, <1>1, <2>1
  <2> QED
    BY <1>4, <2>1, <2>2
<1>8. ASSUME NEW i \in NftIds, NEW n \in Subs, NEW flags \in SUBSET Flags,
             NEW exp \in 0..MaxExp, NewSubname(i, n, exp, flags)
      PROVE  registry'[m].exp <= now' + longest
  <2>0. exp \in Nat
    BY <1>8
  <2>1. /\ Authorized(i) /\ exp <= nfts[i].exp
        /\ AddRecord(n, FALSE, exp, i, flags)
    BY <1>8 DEF NewSubname, CanManage, WithinParentTerm
  <2>2. /\ nfts[i].name \in Names /\ HasRecord(nfts[i].name)
        /\ nfts[i].exp = registry[nfts[i].name].exp
    BY <2>1, AuthorizedNode
  <2>3. exp <= now + longest
    BY <1>0, <1>1, <2>0, <2>1, <2>2
  <2> QED
    BY <1>3, <2>0, <2>1, <2>3
<1>9. ASSUME NEW i \in NftIds, NEW n \in Subs, NEW target \in Addrs, NewLeaf(i, n, target)
      PROVE  registry'[m].exp <= now' + longest
  <2>1. CASE m = n
    BY <1>0, <1>9, <2>1, NewLeafShape
  <2>2. CASE m # n
    BY <1>2, <1>9, <2>2 DEF NewLeaf, TypeOK, HasRecord
  <2> QED
    BY <2>1, <2>2
<1>10. ASSUME TermsSame PROVE registry'[m].exp <= now' + longest
  BY <1>2, <1>10 DEF TermsSame
<1>11. ASSUME \/ \E i \in NftIds, n \in Subs : RemoveLeaf(i, n)
              \/ \E i \in NftIds : BurnExpired(i)
              \/ \E ns \in SUBSET Names \ {{}} : AdminRemoveRecords(ns)
       PROVE  registry'[m].exp <= now' + longest
  BY <1>2, <1>11, RemovalsKeepRest
<1>12. ~\E n \in Slns, years \in AdminYears : AdminRegister(n, years)
  BY DEF AdminRegister
<1>13. registry'[m].exp <= now' + longest
  BY <1>5, <1>6, <1>7, <1>8, <1>9, <1>10, <1>11, <1>12, EditsKeepTerms
  DEF Next, PaymentNext, SubnamesNext, ControllerNext, AdminNext
<1> QED
  BY <1>13 DEF longest

\* No term ever reaches further ahead than max_years + 1 years, unless the
\* administrator registers names.
THEOREM TermCorrect ==
    ASSUME "register" \notin AdminPowers
    PROVE  Spec => []TermBounded
<1>1. Init => TermBounded
  BY DEF Init, TermBounded, HasRecord
<1>2. TypeOK /\ TypeOK' /\ OwnershipInv /\ TermBounded /\ [Next]_vars => TermBounded'
  BY NextTermBounded
<1> QED
  BY <1>1, <1>2, TypeCorrect, OwnershipCorrect, PTL DEF Spec
-----------------------------------------------------------------------------
(* A subname and the parent that created it.                               *)

\* The parent id of a subname's NFT is an old one, and its NFT, while it
\* exists, is for the parent: no leaf in the parent's place can carry it.
CreatorInv ==
    \A n \in Subs :
        (HasRecord(n) /\ ~IsLeaf(registry[n])) =>
            LET p == nfts[registry[n].nft].parent
            IN  p \in NftIds /\ p <= minted /\ (Exists(p) => nfts[p].name = Parent[n])

ParentInv == CreatorInv /\ NeverOutlivesParent

\* The record of q held by p was held by p before, for no longer.
HeldBefore(q, p) ==
    (HasRecord(q)' /\ registry'[q].nft = p) =>
        /\ HasRecord(q) /\ registry[q].nft = p
        /\ registry[q].exp <= registry'[q].exp

\* The NFT p is the one it was, if it still exists.
NftKept(p) == Exists(p)' => Exists(p) /\ nfts'[p].name = nfts[p].name

\* What a step has to leave alone for a subname it does not write.
LEMMA ParentKept ==
    ASSUME TypeOK, TypeOK', OwnershipInv, ParentInv, NEW m \in Subs, ChildKept(m),
           minted' >= minted,
           \A p \in NftIds : p <= minted /\ (Exists(p) => nfts[p].name = Parent[m]) =>
               HeldBefore(Parent[m], p) /\ NftKept(p)
    PROVE  LET p == nfts'[registry'[m].nft].parent
           IN  /\ p \in NftIds /\ p <= minted'
               /\ nfts'[p] # NoNft => nfts'[p].name = Parent[m]
               /\ (HasRecord(Parent[m])' /\ registry'[Parent[m]].nft = p) =>
                      registry'[m].exp <= registry'[Parent[m]].exp
<1>1. /\ nfts[registry[m].nft].parent \in NftIds
      /\ nfts[registry[m].nft].parent <= minted
      /\ Exists(nfts[registry[m].nft].parent) =>
             nfts[nfts[registry[m].nft].parent].name = Parent[m]
  BY DEF ParentInv, CreatorInv, ChildKept
<1> PICK p \in NftIds : p = nfts[registry[m].nft].parent
  BY <1>1
<1>2. nfts'[registry'[m].nft].parent = p /\ registry'[m].exp = registry[m].exp
  BY DEF ChildKept
<1>3. HeldBefore(Parent[m], p) /\ NftKept(p)
  BY <1>1
<1>4. (HasRecord(Parent[m]) /\ registry[Parent[m]].nft = p) =>
         registry[m].exp <= registry[Parent[m]].exp
  BY DEF ParentInv, NeverOutlivesParent, ChildKept
<1>5. minted \in Nat /\ minted' \in Nat /\ registry[m].exp \in Nat
  BY RecordTyped DEF TypeOK, ChildKept, NameRecord
<1>6. Parent[m] \in Names
  BY NamesAssumption
<1>7. /\ HasRecord(Parent[m])' => registry'[Parent[m]].exp \in Nat
      /\ HasRecord(Parent[m]) => registry[Parent[m]].exp \in Nat
  BY <1>6 DEF TypeOK, HasRecord, NameRecord
<1>8. p <= minted'
  BY <1>1, <1>5 DEF NftIds
<1>9. nfts'[p] # NoNft => nfts'[p].name = Parent[m]
  BY <1>1, <1>3 DEF NftKept, Exists
<1>10. (HasRecord(Parent[m])' /\ registry'[Parent[m]].nft = p) =>
          registry'[m].exp <= registry'[Parent[m]].exp
  BY <1>2, <1>3, <1>4, <1>5, <1>7 DEF HeldBefore
<1> QED
  BY <1>2, <1>8, <1>9, <1>10

\* What keeps the invariant for a subname, step by step.
LEMMA AddRecordHeld ==
    ASSUME TypeOK, OwnershipInv, NEW n \in Names, NEW grace, NEW exp, NEW parent, NEW data,
           AddRecord(n, grace, exp, parent, data),
           NEW q \in Names, NEW p \in NftIds, p <= minted
    PROVE  HeldBefore(q, p) /\ NftKept(p)
<1>1. /\ registry'[n].nft = minted + 1
      /\ \A m \in Names : m # n => registry'[m] = registry[m]
      /\ \A i \in NftIds : i # minted + 1 => nfts'[i] = nfts[i]
  BY AddRecordShape
<1>2. p # minted + 1 /\ minted \in Nat
  BY DEF TypeOK, NftIds
<1>3. NftKept(p)
  BY <1>1, <1>2 DEF NftKept, Exists
<1>4. CASE q = n
  BY <1>1, <1>2, <1>3, <1>4 DEF HeldBefore
<1>5. CASE q # n
  BY <1>1, <1>3, <1>5, RecordTyped DEF HeldBefore, HasRecord, NameRecord
<1> QED
  BY <1>4, <1>5

LEMMA SetExpirationHeld ==
    ASSUME TypeOK, OwnershipInv, NEW i \in NftIds, NEW exp \in Nat, Exists(i),
           HasRecord(nfts[i].name), SetExpiration(i, exp), exp >= registry[nfts[i].name].exp,
           NEW q \in Names, NEW p \in NftIds
    PROVE  HeldBefore(q, p) /\ NftKept(p)
<1> PICK n \in Names : n = nfts[i].name
  BY NftTyped DEF Nft
<1>1. /\ registry'[n].nft = i /\ registry[n].nft = i /\ registry'[n].exp = exp
      /\ registry[n].exp \in Nat /\ HasRecord(n)
      /\ \A m \in Names : m # n => registry'[m] = registry[m]
      /\ nfts'[i].name = n
      /\ \A j \in NftIds : j # i => nfts'[j] = nfts[j]
  BY SetExpirationShape
<1>2. NftKept(p)
  BY <1>1 DEF NftKept, Exists
<1>3. CASE q = n
  BY <1>1, <1>2, <1>3 DEF HeldBefore
<1>4. CASE q # n
  BY <1>1, <1>2, <1>4, RecordTyped DEF HeldBefore, HasRecord, NameRecord
<1> QED
  BY <1>3, <1>4

LEMMA TermsSameHeld ==
    ASSUME TypeOK, TermsSame, NEW q \in Names, NEW p \in NftIds
    PROVE  HeldBefore(q, p) /\ NftKept(p)
<1>1. HasRecord(q) => registry[q].exp \in Nat
  BY RecordTyped DEF NameRecord
<1> QED
  BY <1>1 DEF TermsSame, HeldBefore, NftKept, Exists

LEMMA RemovalHeld ==
    ASSUME TypeOK, OwnershipInv,
           \/ \E i \in NftIds, n \in Subs : RemoveLeaf(i, n)
           \/ \E i \in NftIds : BurnExpired(i)
           \/ \E ns \in SUBSET Names \ {{}} : AdminRemoveRecords(ns),
           NEW q \in Names, NEW p \in NftIds
    PROVE  HeldBefore(q, p) /\ NftKept(p)
<1>1. HasRecord(q)' => HasRecord(q) /\ registry'[q] = registry[q] /\ registry[q].exp \in Nat
  BY RemovalsKeepRest, RecordTyped DEF NameRecord
<1>2. NftKept(p)
  BY DEF NftKept, Exists, RemoveLeaf, BurnExpired, AdminRemoveRecords, TypeOK
<1> QED
  BY <1>1, <1>2 DEF HeldBefore

LEMMA RemovalChild ==
    ASSUME TypeOK, OwnershipInv,
           \/ \E i \in NftIds, n \in Subs : RemoveLeaf(i, n)
           \/ \E i \in NftIds : BurnExpired(i)
           \/ \E ns \in SUBSET Names \ {{}} : AdminRemoveRecords(ns),
           NEW m \in Names, HasRecord(m)', ~IsLeaf(registry[m])'
    PROVE  ChildKept(m)
<1>1. HasRecord(m) /\ registry'[m] = registry[m] /\ ~IsLeaf(registry[m])
  BY RemovalsKeepRest DEF IsLeaf
<1>2. ASSUME NEW i \in NftIds, BurnExpired(i)
      PROVE  nfts'[registry[m].nft] = nfts[registry[m].nft]
  BY <1>1, <1>2, BurnSpares DEF HasRecord
<1>3. nfts'[registry[m].nft] = nfts[registry[m].nft]
  BY <1>2 DEF RemoveLeaf, AdminRemoveRecords
<1> QED
  BY <1>1, <1>3 DEF ChildKept

LEMMA NextParent ==
    ASSUME TypeOK, TypeOK', OwnershipInv, ParentInv, [Next]_vars
    PROVE  ParentInv'
<1> SUFFICES ASSUME NEW m \in Subs, HasRecord(m)', ~IsLeaf(registry[m])'
             PROVE  LET p == nfts'[registry'[m].nft].parent
                    IN  /\ p \in NftIds /\ p <= minted'
                        /\ nfts'[p] # NoNft => nfts'[p].name = Parent[m]
                        /\ (HasRecord(Parent[m])' /\ registry'[Parent[m]].nft = p) =>
                               registry'[m].exp <= registry'[Parent[m]].exp
  BY DEF ParentInv, CreatorInv, NeverOutlivesParent, Exists
<1> DEFINE p == nfts'[registry'[m].nft].parent
           Chained == /\ p \in NftIds /\ p <= minted'
                      /\ nfts'[p] # NoNft => nfts'[p].name = Parent[m]
                      /\ (HasRecord(Parent[m])' /\ registry'[Parent[m]].nft = p) =>
                             registry'[m].exp <= registry'[Parent[m]].exp
<1>0. m \in Names /\ m \notin Slns /\ Parent[m] \in Names /\ Parent[m] # m /\ minted \in Nat
  BY NamesAssumption DEF TypeOK
<1>1. ASSUME ChildKept(m), minted' = minted \/ minted' = minted + 1,
             \A i \in NftIds : i <= minted /\ (Exists(i) => nfts[i].name = Parent[m]) =>
                 HeldBefore(Parent[m], i) /\ NftKept(i)
      PROVE  Chained
  BY <1>0, <1>1, ParentKept
<1> HIDE DEF Chained
<1>2. ASSUME NEW n \in Names, NEW grace, NEW exp, NEW parent, NEW data,
             AddRecord(n, grace, exp, parent, data), m # n
      PROVE  Chained
  <2>1. ChildKept(m) /\ minted' = minted + 1
    BY <1>0, <1>2, AddRecordChild DEF AddRecord
  <2>2. \A i \in NftIds : i <= minted => HeldBefore(Parent[m], i) /\ NftKept(i)
    BY <1>0, <1>2, AddRecordHeld
  <2> QED
    BY <1>1, <2>1, <2>2
<1>3. ASSUME NEW i \in NftIds, NEW exp \in Nat, Exists(i), HasRecord(nfts[i].name),
             SetExpiration(i, exp), exp >= registry[nfts[i].name].exp, m # nfts[i].name,
             minted' = minted
      PROVE  Chained
  <2>1. ChildKept(m)
    BY <1>0, <1>3, SetExpirationChild
  <2>2. \A j \in NftIds : HeldBefore(Parent[m], j) /\ NftKept(j)
    BY <1>0, <1>3, SetExpirationHeld
  <2> QED
    BY <1>1, <1>3, <2>1, <2>2
<1>4. ASSUME TermsSame, minted' = minted PROVE Chained
  <2>1. ChildKept(m)
    BY <1>0, <1>4, TermsSameChild
  <2>2. \A j \in NftIds : HeldBefore(Parent[m], j) /\ NftKept(j)
    BY <1>0, <1>4, TermsSameHeld
  <2> QED
    BY <1>1, <1>4, <2>1, <2>2
<1>5. ASSUME \/ \E i \in NftIds, n \in Subs : RemoveLeaf(i, n)
             \/ \E i \in NftIds : BurnExpired(i)
             \/ \E ns \in SUBSET Names \ {{}} : AdminRemoveRecords(ns)
      PROVE  Chained
  <2>1. ChildKept(m)
    BY <1>0, <1>5, RemovalChild
  <2>2. \A j \in NftIds : HeldBefore(Parent[m], j) /\ NftKept(j)
    BY <1>0, <1>5, RemovalHeld
  <2>3. minted' = minted
    BY <1>5 DEF RemoveLeaf, BurnExpired, AdminRemoveRecords
  <2> QED
    BY <1>1, <2>1, <2>2, <2>3
<1>6. ASSUME NEW i \in NftIds, NEW n \in Subs, NEW target \in Addrs, NewLeaf(i, n, target)
      PROVE  Chained
  <2>1. /\ Exists(i) /\ nfts[i].name = Parent[n] /\ Parent[n] # n
        /\ registry'[n].nft = i /\ registry'[n].exp = 0
        /\ nfts' = nfts /\ minted' = minted
    BY <1>6, NewLeafShape
  <2>2. \A q \in Names : q # n => registry'[q] = registry[q]
    BY <1>6 DEF NewLeaf, TypeOK
  <2>3. m # n
    BY <2>1 DEF IsLeaf
  <2>4. ChildKept(m)
    BY <1>0, <2>1, <2>2, <2>3 DEF ChildKept, HasRecord, IsLeaf
  <2>5. ASSUME NEW j \in NftIds, Exists(j) => nfts[j].name = Parent[m]
        PROVE  HeldBefore(Parent[m], j)
    <3>1. CASE Parent[m] = n
      <4>1. j # i
        BY <2>1, <2>5, <3>1
      <4> QED
        BY <2>1, <3>1, <4>1 DEF HeldBefore
    <3>2. CASE Parent[m] # n
      BY <1>0, <2>2, <3>2, RecordTyped DEF HeldBefore, HasRecord, NameRecord
    <3> QED
      BY <3>1, <3>2
  <2>6. \A j \in NftIds : NftKept(j)
    BY <2>1 DEF NftKept, Exists
  <2> QED
    BY <1>1, <2>1, <2>4, <2>5, <2>6
<1>7. ASSUME NEW i \in NftIds, NEW n \in Subs, NEW flags \in SUBSET Flags,
             NEW exp \in 0..MaxExp, NewSubname(i, n, exp, flags)
      PROVE  Chained
  <2>0. exp \in Nat
    BY <1>7
  <2>1. /\ Authorized(i) /\ Parent[n] = nfts[i].name /\ exp <= nfts[i].exp
        /\ AddRecord(n, FALSE, exp, i, flags)
    BY <1>7 DEF NewSubname, CanManage, WithinParentTerm
  <2>2. CASE m # n
    BY <1>2, <2>1, <2>2
  <2>3. CASE m = n
    <3>1. /\ registry'[m].nft = minted + 1 /\ registry'[m].exp = exp
          /\ registry'[Parent[m]] = registry[Parent[m]] /\ minted' = minted + 1
          /\ nfts'[minted + 1].parent = i
          /\ i # minted + 1 => nfts'[i] = nfts[i]
      BY <1>0, <2>1, <2>3, AddRecordShape
    <3>2. /\ Exists(i) /\ registry[Parent[m]].nft = i /\ HasRecord(Parent[m])
          /\ nfts[i].exp = registry[Parent[m]].exp /\ i <= minted
      BY <2>1, <2>3, AuthorizedNode DEF Authorized, OwnershipInv, IdsUsed
    <3>3. i <= minted' /\ nfts'[i] = nfts[i]
      BY <1>0, <3>1, <3>2 DEF NftIds
    <3> QED
      BY <2>1, <2>3, <3>1, <3>2, <3>3 DEF Chained
  <2> QED
    BY <2>2, <2>3
<1>8. ASSUME NEW i \in NftIds, NEW exp \in 0..MaxExp, ExtendExpiration(i, exp)
      PROVE  Chained
  <2>1. /\ exp \in Nat /\ SetExpiration(i, exp) /\ Exists(i) /\ HasRecord(nfts[i].name)
        /\ exp >= registry[nfts[i].name].exp /\ minted' = minted
        /\ HasRecord(Parent[nfts[i].name])
        /\ nfts[i].parent = registry[Parent[nfts[i].name]].nft
        /\ exp <= registry[Parent[nfts[i].name]].exp
    BY <1>8, ExtendTerm
  <2>2. CASE m # nfts[i].name
    BY <1>3, <2>1, <2>2
  <2>3. CASE m = nfts[i].name
    <3>1. /\ registry'[m].nft = i /\ registry[m].nft = i /\ registry'[m].exp = exp
          /\ ~IsLeaf(registry[m])
          /\ registry'[Parent[m]] = registry[Parent[m]]
          /\ nfts'[i].parent = nfts[i].parent /\ nfts'[i].name = nfts[i].name
          /\ \A j \in NftIds : j # i => nfts'[j] = nfts[j]
      BY <1>0, <2>1, <2>3, SetExpirationShape
    <3>2. /\ nfts[i].parent \in NftIds /\ nfts[i].parent <= minted
          /\ Exists(nfts[i].parent) => nfts[nfts[i].parent].name = Parent[m]
      BY <2>1, <2>3, <3>1 DEF ParentInv, CreatorInv
    <3>3. nfts[i].parent # i
      BY <1>0, <2>1, <2>3, <3>2
    <3> QED
      BY <2>1, <2>3, <3>1, <3>2, <3>3 DEF Chained, Exists
  <2> QED
    BY <2>2, <2>3
<1>9. ASSUME PaymentNext PROVE Chained
  <2>1. ASSUME NEW n \in Slns, NEW years \in 1..MaxYears, Register(n, years) PROVE Chained
    BY <1>0, <1>2, <2>1 DEF Register
  <2>2. ASSUME NEW i \in NftIds, NEW years \in 1..MaxYears, Renew(i, years) PROVE Chained
    BY <1>0, <1>3, <2>2, RenewTerm
  <2> QED
    BY <1>9, <2>1, <2>2 DEF PaymentNext
<1>10. ASSUME \E n \in Slns, years \in AdminYears : AdminRegister(n, years) PROVE Chained
  BY <1>0, <1>2, <1>10 DEF AdminRegister
<1>11. ASSUME TermsSame, Next \/ UNCHANGED vars,
              ~PaymentNext, ~\E i \in NftIds, n \in Subs, flags \in SUBSET Flags, exp \in 0..MaxExp :
                   NewSubname(i, n, exp, flags),
              ~\E n \in Slns, years \in AdminYears : AdminRegister(n, years)
       PROVE  minted' = minted
  BY <1>11 DEF Next, SubnamesNext, ControllerNext, AdminNext, RemoveLeaf, NewLeaf, EditSetup,
     ExtendExpiration, SetTargetAddress, SetReverseLookup, UnsetReverseLookup, SetUserData,
     UnsetUserData, BurnExpired, AdminRemoveRecords, Authorize, Deauthorize, ChangeDenyList,
     Tick, vars, nameVars
<1>12. Chained
  BY <1>4, <1>5, <1>6, <1>7, <1>8, <1>9, <1>10, <1>11, EditsKeepTerms
  DEF Next, SubnamesNext, ControllerNext, AdminNext
<1> QED
  BY <1>12 DEF Chained

\* A subname is never granted beyond the parent that created it, as long as
\* that parent holds its name, whatever the administrator removes or registers.
THEOREM ParentCorrect == Spec => []ParentInv
<1>1. Init => ParentInv
  BY DEF Init, ParentInv, CreatorInv, NeverOutlivesParent, HasRecord
<1>2. TypeOK /\ TypeOK' /\ OwnershipInv /\ ParentInv /\ [Next]_vars => ParentInv'
  BY NextParent
<1> QED
  BY <1>1, <1>2, TypeCorrect, OwnershipCorrect, PTL DEF Spec

THEOREM NeverOutlivesCorrect == Spec => []NeverOutlivesParent
<1>1. ParentInv => NeverOutlivesParent
  BY DEF ParentInv
<1> QED
  BY <1>1, ParentCorrect, PTL

-----------------------------------------------------------------------------
(* A second-level name is leased: IotaNames implements Lease.              *)

LeaseVars == <<now, minted, <<HolderOf, ExpiryOf>>>>
LeaseSame == UNCHANGED <<minted, HolderOf, ExpiryOf>>

\* What a buyer sees of a name.
LEMMA LeaseSeen ==
    ASSUME TypeOK, NEW n \in Slns
    PROVE  /\ HasRecord(n) => /\ HolderOf[n] = registry[n].nft /\ HolderOf[n] \in Nat \ {0}
                              /\ ExpiryOf[n] = registry[n].exp /\ ExpiryOf[n] \in Nat
           /\ ~HasRecord(n) => HolderOf[n] = 0
           /\ HasRecord(n)' => /\ HolderOf'[n] = registry'[n].nft
                               /\ ExpiryOf'[n] = registry'[n].exp
           /\ ~HasRecord(n)' => HolderOf'[n] = 0
           /\ registry'[n] = registry[n] => /\ HolderOf'[n] = HolderOf[n]
                                            /\ ExpiryOf'[n] = ExpiryOf[n]
<1>1. HasRecord(n) => registry[n].nft \in Nat \ {0} /\ registry[n].exp \in Nat
  BY RecordTyped DEF NameRecord, NftIds
<1> QED
  BY <1>1 DEF HolderOf, ExpiryOf, HasRecord

\* A write to a subname is nothing to second-level names.
LEMMA SubnameWrite ==
    ASSUME TypeOK, NEW n \in Subs, \A m \in Names : m # n => registry'[m] = registry[m]
    PROVE  UNCHANGED <<HolderOf, ExpiryOf>>
<1>1. \A m \in Slns : registry'[m] = registry[m]
  BY NamesAssumption
<1> QED
  BY <1>1 DEF HolderOf, ExpiryOf, HasRecord

LEMMA TermsSameLease ==
    ASSUME TermsSame PROVE UNCHANGED <<HolderOf, ExpiryOf>>
BY DEF TermsSame, HolderOf, ExpiryOf

\* Registering a name grants it.
LEMMA GrantsLease ==
    ASSUME TypeOK, OwnershipInv, NEW n \in Slns, NEW exp \in Nat, exp >= now,
           AddRecord(n, TRUE, exp, NoId, {}), now' = now, TypeOK'
    PROVE  Leases!Grant(n)
<1>1. /\ registry'[n].nft = minted + 1 /\ registry'[n].exp = exp /\ minted' = minted + 1
      /\ \A m \in Names : m # n => registry'[m] = registry[m]
  BY AddRecordShape
<1>2. HasRecord(n)'
  <2>1. registry'[n] = [nft |-> minted + 1, exp |-> exp, target |-> NoAddr, data |-> {}]
    BY DEF AddRecord, TypeOK
  <2>2. minted + 1 \in NftIds
    BY AddRecordShape
  <2>3. registry'[n] \in NameRecord
    BY <2>1, <2>2 DEF NameRecord
  <2> QED
    BY <2>3, NullsAssumption DEF HasRecord
<1>3. ~IsLeaf(registry[n]) \/ ~HasRecord(n)
  BY NamesAssumption DEF OwnershipInv, LeafHasTarget
<1>4. HasRecord(n) => registry[n].exp + Grace < now
  BY <1>3 DEF AddRecord, Available, ExpiredPastGrace
<1>5. HolderOf[n] = 0 \/ ExpiryOf[n] + Grace < now
  BY <1>4, LeaseSeen
<1>6. HolderOf'[n] = minted' /\ ExpiryOf'[n] >= now
  BY <1>1, <1>2, LeaseSeen
<1>7. \A m \in Slns \ {n} : HolderOf'[m] = HolderOf[m] /\ ExpiryOf'[m] = ExpiryOf[m]
  BY <1>1, LeaseSeen
<1> QED
  BY <1>1, <1>5, <1>6, <1>7 DEF Leases!Grant, Leases!Free, Leases!Others

\* Renewing a name renews its lease.
LEMMA RenewsLease ==
    ASSUME TypeOK, OwnershipInv, NEW i \in NftIds, NEW years \in 1..MaxYears,
           Renew(i, years), TypeOK'
    PROVE  \E n \in Slns : Leases!Renew(n)
<1> PICK n \in Slns : n = nfts[i].name
  BY DEF Renew
<1> DEFINE exp == registry[n].exp + years * Year
<1>1. /\ HasRecord(n) /\ Exists(i) /\ ~ExpiredPastGrace(registry[n])
      /\ SetExpiration(i, exp) /\ now' = now /\ minted' = minted
  BY DEF Renew
<1>2. registry[n] \in NameRecord /\ registry[n].exp \in Nat /\ now \in Nat /\ Grace \in Nat
  BY <1>1, RecordTyped, TimeAssumption DEF NameRecord, TypeOK
<1>3. years * Year \in Nat /\ years * Year > 0
  <2>1. years \in Nat /\ years > 0 /\ Year \in Nat /\ Year > 0
    BY TimeAssumption
  <2> QED
    BY <2>1
<1>4. exp \in Nat /\ exp > registry[n].exp
  BY <1>2, <1>3
<1> HIDE DEF exp
<1>5. /\ registry'[n].nft = registry[n].nft /\ registry'[n].exp = exp
      /\ \A m \in Names : m # n => registry'[m] = registry[m]
  BY <1>1, <1>4, SetExpirationShape
<1>6. HasRecord(n)'
  <2>1. registry'[n] = [registry[n] EXCEPT !.exp = exp]
    BY <1>1 DEF SetExpiration, TypeOK
  <2>2. registry'[n] \in NameRecord
    BY <1>2, <1>4, <2>1 DEF NameRecord
  <2> QED
    BY <2>2, NullsAssumption DEF HasRecord
<1>7. ~(registry[n].exp + Grace < now)
  BY <1>1 DEF ExpiredPastGrace
<1>8. HolderOf[n] # 0 /\ ~(ExpiryOf[n] + Grace < now)
  BY <1>1, <1>7, LeaseSeen
<1>9. HolderOf'[n] = HolderOf[n] /\ ExpiryOf'[n] > ExpiryOf[n]
  BY <1>1, <1>4, <1>5, <1>6, LeaseSeen
<1>10. \A m \in Slns \ {n} : HolderOf'[m] = HolderOf[m] /\ ExpiryOf'[m] = ExpiryOf[m]
  BY <1>5, LeaseSeen
<1>11. Leases!Renew(n)
  BY <1>1, <1>8, <1>9, <1>10 DEF Leases!Renew, Leases!Free, Leases!Others
<1> QED
  BY <1>11

\* Burning an expired NFT gives its name up, if the name is still its own.
LEMMA BurnsLease ==
    ASSUME TypeOK, OwnershipInv, NEW i \in NftIds, BurnExpired(i)
    PROVE  LeaseSame \/ \E n \in Slns : Leases!GiveUp(n)
<1> PICK n \in Names : n = nfts[i].name
  BY NftTyped DEF BurnExpired, Nft
<1>1. Exists(i) /\ nfts[i].exp < now /\ now' = now /\ minted' = minted
  BY DEF BurnExpired, Expired
<1>2. CASE HasRecord(n) /\ IdMatches(i)
  <2>1. /\ registry'[n] = NoRecord
        /\ \A m \in Names : m # n => registry'[m] = registry[m]
    BY <1>2 DEF BurnExpired, RemoveRecords
  <2>2. CASE n \in Subs
    BY <1>1, <2>1, <2>2, SubnameWrite DEF LeaseSame
  <2>3. CASE n \in Slns
    <3>1. registry[n].exp < now
      BY <1>1, <1>2, MatchedIsNode
    <3>2. HolderOf[n] # 0 /\ ExpiryOf[n] < now
      BY <1>2, <2>3, <3>1, LeaseSeen
    <3>3. HolderOf'[n] = 0
      BY <2>1, <2>3, LeaseSeen DEF HasRecord
    <3>4. \A m \in Slns \ {n} : HolderOf'[m] = HolderOf[m] /\ ExpiryOf'[m] = ExpiryOf[m]
      BY <2>1, LeaseSeen
    <3>5. Leases!GiveUp(n)
      BY <1>1, <3>2, <3>3, <3>4 DEF Leases!GiveUp, Leases!Others
    <3> QED
      BY <2>3, <3>5
  <2> QED
    BY <2>2, <2>3
<1>3. CASE ~(HasRecord(n) /\ IdMatches(i))
  <2>1. registry' = registry
    BY <1>3 DEF BurnExpired
  <2> QED
    BY <1>1, <2>1 DEF LeaseSame, HolderOf, ExpiryOf, HasRecord
<1> QED
  BY <1>2, <1>3

\* Every step is one of the lease's, or a stutter.
LEMMA NextLease ==
    ASSUME TypeOK, OwnershipInv, TypeOK', [Next]_vars, "remove" \notin AdminPowers
    PROVE  Leases!Next \/ UNCHANGED LeaseVars
<1>1. ASSUME LeaseSame, now' = now PROVE Leases!Next \/ UNCHANGED LeaseVars
  BY <1>1 DEF LeaseSame, LeaseVars
<1>2. ASSUME NEW n \in Slns, Leases!Grant(n) \/ Leases!Renew(n) \/ Leases!GiveUp(n)
      PROVE  Leases!Next
  BY <1>2 DEF Leases!Next
<1>3. ASSUME NEW n \in Slns, NEW years \in Nat, AddRecord(n, TRUE, now + years * Year, NoId, {}),
             now' = now
      PROVE  Leases!Next
  <2>1. now \in Nat /\ years * Year \in Nat
    BY TimeAssumption DEF TypeOK
  <2>2. now + years * Year \in Nat /\ now + years * Year >= now
    BY <2>1
  <2>3. Leases!Grant(n)
    BY <1>3, <2>2, GrantsLease
  <2> QED
    BY <2>3, <1>2
<1>4. CASE PaymentNext
  <2>1. ASSUME NEW n \in Slns, NEW years \in 1..MaxYears, Register(n, years) PROVE Leases!Next
    <3>1. years \in Nat
      BY TimeAssumption
    <3>2. AddRecord(n, TRUE, now + years * Year, NoId, {}) /\ now' = now
      BY <2>1 DEF Register
    <3> QED
      BY <3>1, <3>2, <1>3
  <2>2. ASSUME NEW i \in NftIds, NEW years \in 1..MaxYears, Renew(i, years) PROVE Leases!Next
    BY <2>2, <1>2, RenewsLease
  <2> QED
    BY <1>4, <2>1, <2>2 DEF PaymentNext
<1>5. CASE \E n \in Slns, years \in AdminYears : AdminRegister(n, years)
  BY <1>5, <1>3, TimeAssumption DEF AdminRegister
<1>6. CASE \E i \in NftIds, n \in Subs : RemoveLeaf(i, n)
  <2> PICK i \in NftIds, n \in Subs : RemoveLeaf(i, n)
    BY <1>6
  <2>1. /\ \A m \in Names : m # n => registry'[m] = registry[m]
        /\ now' = now /\ minted' = minted
    BY DEF RemoveLeaf, RemoveRecords
  <2>2. LeaseSame
    BY <2>1, SubnameWrite DEF LeaseSame
  <2> QED
    BY <1>1, <2>1, <2>2
<1>7. CASE \E i \in NftIds, n \in Subs, target \in Addrs : NewLeaf(i, n, target)
  <2> PICK i \in NftIds, n \in Subs, target \in Addrs : NewLeaf(i, n, target)
    BY <1>7
  <2>1. /\ \A m \in Names : m # n => registry'[m] = registry[m]
        /\ now' = now /\ minted' = minted
    BY NewLeafShape
  <2>2. LeaseSame
    BY <2>1, SubnameWrite DEF LeaseSame
  <2> QED
    BY <1>1, <2>1, <2>2
<1>8. CASE \E i \in NftIds, n \in Subs, flags \in SUBSET Flags, exp \in 0..MaxExp :
             NewSubname(i, n, exp, flags)
  <2> PICK i \in NftIds, n \in Subs, flags \in SUBSET Flags, exp \in 0..MaxExp :
             NewSubname(i, n, exp, flags)
    BY <1>8
  <2>1. AddRecord(n, FALSE, exp, i, flags) /\ now' = now /\ n \in Names
    BY DEF NewSubname
  <2>2. /\ \A m \in Names : m # n => registry'[m] = registry[m]
        /\ minted' = minted + 1
    BY <2>1, AddRecordShape
  <2>3. UNCHANGED <<HolderOf, ExpiryOf>>
    BY <2>2, SubnameWrite
  <2>4. Leases!MintOther
    BY <2>1, <2>2, <2>3 DEF Leases!MintOther, Leases!terms
  <2> QED
    BY <2>4 DEF Leases!Next
<1>9. CASE \E i \in NftIds, exp \in 0..MaxExp : ExtendExpiration(i, exp)
  <2> PICK i \in NftIds, exp \in 0..MaxExp : ExtendExpiration(i, exp)
    BY <1>9
  <2> PICK n \in Subs : n = nfts[i].name
    BY DEF ExtendExpiration
  <2>1. /\ exp \in Nat /\ SetExpiration(i, exp) /\ Exists(i) /\ HasRecord(n)
        /\ now' = now /\ minted' = minted
    BY ExtendTerm
  <2>2. \A m \in Names : m # n => registry'[m] = registry[m]
    BY <2>1, SetExpirationShape
  <2>3. LeaseSame
    BY <2>1, <2>2, SubnameWrite DEF LeaseSame
  <2> QED
    BY <1>1, <2>1, <2>3
<1>10. CASE \E i \in NftIds : BurnExpired(i)
  <2> PICK i \in NftIds : BurnExpired(i)
    BY <1>10
  <2>1. now' = now
    BY DEF BurnExpired
  <2> QED
    BY <1>1, <1>2, <2>1, BurnsLease
<1>11. CASE Tick
  <2>1. now' = now + 1 /\ registry' = registry /\ minted' = minted
    BY <1>11 DEF Tick, nameVars
  <2>2. UNCHANGED <<HolderOf, ExpiryOf>>
    BY <2>1 DEF HolderOf, ExpiryOf, HasRecord
  <2>3. Leases!Tick
    BY <2>1, <2>2 DEF Leases!Tick, Leases!terms
  <2> QED
    BY <2>3 DEF Leases!Next
<1>12. ASSUME \/ \E i \in NftIds, n \in Subs, flags \in SUBSET Flags : EditSetup(i, n, flags)
              \/ \E i \in NftIds, target \in Addrs \cup {NoAddr} : SetTargetAddress(i, target)
              \/ \E a \in Addrs, n \in Names : SetReverseLookup(a, n)
              \/ \E a \in Addrs : UnsetReverseLookup(a)
              \/ \E i \in NftIds, key \in UserKeys : SetUserData(i, key)
              \/ \E i \in NftIds, key \in UserKeys \cup Flags : UnsetUserData(i, key)
              \/ \E app \in Apps : Authorize(app) \/ Deauthorize(app)
              \/ \E label \in Labels : ChangeDenyList(label)
              \/ UNCHANGED vars
       PROVE  Leases!Next \/ UNCHANGED LeaseVars
  <2>1. UNCHANGED <<now, minted>>
    BY <1>12 DEF EditSetup, SetTargetAddress, SetReverseLookup, UnsetReverseLookup, SetUserData,
       UnsetUserData, Authorize, Deauthorize, ChangeDenyList, nameVars, vars
  <2>2. TermsSame
    BY <1>12, EditsKeepTerms
  <2>3. LeaseSame
    BY <2>1, <2>2, TermsSameLease DEF LeaseSame
  <2> QED
    BY <1>1, <2>1, <2>3
<1>13. ~\E ns \in SUBSET Names \ {{}} : AdminRemoveRecords(ns)
  BY DEF AdminRemoveRecords
<1> QED
  BY <1>4, <1>5, <1>6, <1>7, <1>8, <1>9, <1>10, <1>11, <1>12, <1>13
  DEF Next, SubnamesNext, ControllerNext, AdminNext

\* As long as the administrator removes no records, every second-level name is
\* leased: all that the core, subname and administration packages do to the
\* registry is a step of Lease.
THEOREM LeaseCorrect == "remove" \notin AdminPowers => (Spec => ImplementsLease)
<1> SUFFICES ASSUME "remove" \notin AdminPowers PROVE Spec => ImplementsLease
  OBVIOUS
<1>1. Init => Leases!Init
  BY DEF Init, Leases!Init, HolderOf, HasRecord
<1>2. TypeOK /\ OwnershipInv /\ TypeOK' /\ [Next]_vars => [Leases!Next]_LeaseVars
  BY NextLease
<1> QED
  BY <1>1, <1>2, TypeCorrect, OwnershipCorrect, PTL
  DEF Spec, ImplementsLease, Leases!Spec, Leases!terms, LeaseVars

-----------------------------------------------------------------------------
(* The whole tree of names is let: IotaNames implements Tenancy.           *)

TenancyVars == <<now, minted, TenancyOf>>

NodeTenancy(n) ==
    [holder |-> registry[n].nft, expires |-> registry[n].exp,
     landlord |-> nfts[registry[n].nft].parent]

LeafTenancy(n) ==
    [holder |-> NoId, expires |-> registry[n].exp, landlord |-> registry[n].nft]

\* A record as its holder sees it.
LEMMA TenancySeen ==
    ASSUME NEW n \in Names
    PROVE  /\ ~HasRecord(n) => TenancyOf[n] = Tenancies!Vacant
           /\ (HasRecord(n) /\ IsLeaf(registry[n])) => TenancyOf[n] = LeafTenancy(n)
           /\ (HasRecord(n) /\ ~IsLeaf(registry[n])) => TenancyOf[n] = NodeTenancy(n)
BY DEF TenancyOf, HasRecord, NodeTenancy, LeafTenancy, Tenancies!Vacant

LEMMA TenancyFields ==
    ASSUME NEW n \in Names
    PROVE  /\ ~HasRecord(n) => TenancyOf[n].holder = 0 /\ TenancyOf[n].landlord = 0
           /\ (HasRecord(n) /\ IsLeaf(registry[n])) =>
                  TenancyOf[n].holder = 0 /\ TenancyOf[n].landlord = registry[n].nft
           /\ (HasRecord(n) /\ ~IsLeaf(registry[n])) =>
                  /\ TenancyOf[n].holder = registry[n].nft
                  /\ TenancyOf[n].expires = registry[n].exp
                  /\ TenancyOf[n].landlord = nfts[registry[n].nft].parent
<1>1. ASSUME ~HasRecord(n) PROVE TenancyOf[n].holder = 0 /\ TenancyOf[n].landlord = 0
  BY <1>1 DEF TenancyOf, HasRecord
<1>2. ASSUME HasRecord(n), IsLeaf(registry[n])
      PROVE  TenancyOf[n].holder = 0 /\ TenancyOf[n].landlord = registry[n].nft
  BY <1>2 DEF TenancyOf, HasRecord
<1>3. ASSUME HasRecord(n), ~IsLeaf(registry[n])
      PROVE  /\ TenancyOf[n].holder = registry[n].nft
             /\ TenancyOf[n].expires = registry[n].exp
             /\ TenancyOf[n].landlord = nfts[registry[n].nft].parent
  BY <1>3 DEF TenancyOf, HasRecord
<1> QED
  BY <1>1, <1>2, <1>3

LEMMA TenancySeenNext ==
    ASSUME NEW n \in Names
    PROVE  /\ ~HasRecord(n)' => TenancyOf'[n] = Tenancies!Vacant
           /\ (HasRecord(n)' /\ IsLeaf(registry[n])') => TenancyOf'[n] = LeafTenancy(n)'
           /\ (HasRecord(n)' /\ ~IsLeaf(registry[n])') => TenancyOf'[n] = NodeTenancy(n)'
BY DEF TenancyOf, HasRecord, IsLeaf, NodeTenancy, LeafTenancy, Tenancies!Vacant

\* Nodes are let, leaves lent, and a running tenancy is an unexpired record.
LEMMA LetSeen ==
    ASSUME TypeOK, NEW n \in Names
    PROVE  /\ Tenancies!IsLet(n) <=> HasRecord(n) /\ ~IsLeaf(registry[n])
           /\ Tenancies!IsLeaf(n) <=> HasRecord(n) /\ IsLeaf(registry[n])
           /\ Tenancies!Running(n) <=> HasUnexpiredRecord(n)
<1>1. HasRecord(n) => /\ registry[n].nft \in Nat /\ registry[n].nft # 0
                      /\ registry[n].exp \in Nat
  BY RecordTyped DEF NameRecord, NftIds
<1>2. /\ Tenancies!IsLet(n) <=> HasRecord(n) /\ ~IsLeaf(registry[n])
      /\ Tenancies!IsLeaf(n) <=> HasRecord(n) /\ IsLeaf(registry[n])
  BY <1>1, TenancyFields DEF Tenancies!IsLet, Tenancies!IsLeaf
<1>3. now \in Nat /\ now > 0
  BY DEF TypeOK
<1>4. Tenancies!Running(n) <=> HasUnexpiredRecord(n)
  BY <1>1, <1>2, <1>3, TenancyFields
  DEF Tenancies!Running, HasUnexpiredRecord, Expired, IsLeaf
<1> QED
  BY <1>2, <1>4

\* The holder of a leaf's parent lent it, in both senses.
LEMMA ReleaseSeen ==
    ASSUME TypeOK, OwnershipInv, NEW n \in Subs, HasRecord(n), IsLeaf(registry[n])
    PROVE  LeafReleased(n) <=> ~(Tenancies!Running(Parent[n]) /\ Tenancies!LandlordStays(n))
<1> PICK p \in Names : p = Parent[n]
  BY NamesAssumption
<1>1. n \in Names /\ TenancyOf[n].landlord = registry[n].nft
  BY TenancyFields
<1>2. HasUnexpiredRecord(p) => TenancyOf[p].holder = registry[p].nft
  BY UnexpiredNode, TenancyFields
<1> QED
  BY <1>1, <1>2, LetSeen
  DEF LeafReleased, HasUnexpiredRecord, HasRecord, Tenancies!LandlordStays

\* What remove_existing_record_if_exists_and_expired lets go is free.
LEMMA FreeSeen ==
    ASSUME TypeOK, OwnershipInv, NEW n \in Names, NEW grace, Available(n, grace),
           n \in Slns => grace = TRUE
    PROVE  Tenancies!Free(n)
<1>1. now \in Nat /\ Grace \in Nat /\ (HasRecord(n) => registry[n].exp \in Nat)
  BY TimeAssumption, RecordTyped DEF TypeOK, NameRecord
<1>2. CASE ~HasRecord(n)
  BY <1>2, LetSeen DEF Tenancies!Free
<1>3. CASE HasRecord(n) /\ IsLeaf(registry[n])
  <2>1. n \in Subs
    BY <1>3 DEF OwnershipInv, LeafHasTarget
  <2>2. LeafReleased(n)
    BY <1>3 DEF Available
  <2> QED
    BY <1>3, <2>1, <2>2, LetSeen, ReleaseSeen DEF Tenancies!Free
<1>4. CASE HasRecord(n) /\ ~IsLeaf(registry[n])
  <2>1. TenancyOf[n].expires = registry[n].exp
    BY <1>4, TenancyFields
  <2>2. IF grace THEN registry[n].exp + Grace < now ELSE registry[n].exp < now
    BY <1>4 DEF Available, ExpiredPastGrace, Expired
  <2>3. TenancyOf[n].expires + Tenancies!GraceOf(n) < now
    BY <1>1, <1>4, <2>1, <2>2 DEF Tenancies!GraceOf
  <2> QED
    BY <1>4, <2>3, LetSeen DEF Tenancies!Free
<1> QED
  BY <1>2, <1>3, <1>4

\* A record that is not written, with the NFT behind it, is the same tenancy.
LEMMA TenancyKept ==
    ASSUME NEW m \in Names, registry'[m] = registry[m],
           (HasRecord(m)' /\ ~IsLeaf(registry[m])') => ChildKept(m)
    PROVE  TenancyOf'[m] = TenancyOf[m]
<1>1. CASE ~HasRecord(m)
  BY <1>1, TenancySeen, TenancySeenNext DEF HasRecord
<1>2. CASE HasRecord(m) /\ IsLeaf(registry[m])
  BY <1>2, TenancySeen, TenancySeenNext DEF HasRecord, IsLeaf, LeafTenancy
<1>3. CASE HasRecord(m) /\ ~IsLeaf(registry[m])
  <2>1. NodeTenancy(m)' = NodeTenancy(m)
    BY <1>3 DEF ChildKept, NodeTenancy, HasRecord, IsLeaf
  <2> QED
    BY <1>3, <2>1, TenancySeen, TenancySeenNext DEF HasRecord, IsLeaf
<1> QED
  BY <1>1, <1>2, <1>3

\* The writes that keep holders and terms keep the tenancies.
LEMMA TermsSameTenancy ==
    ASSUME TermsSame PROVE TenancyOf' = TenancyOf
BY DEF TermsSame, TenancyOf, HasRecord, IsLeaf

\* Minting lets the name, to the new NFT.
LEMMA MintLets ==
    ASSUME TypeOK, OwnershipInv, NEW n \in Names, NEW grace, n \in Slns => grace = TRUE,
           NEW exp \in Nat, exp > 0, NEW parent, NEW data \in SUBSET Flags,
           AddRecord(n, grace, exp, parent, data), now' = now
    PROVE  /\ Tenancies!Let(n, exp, parent)
           /\ TenancyOf'[n].expires = exp
<1>1. /\ registry'[n].nft = minted + 1 /\ registry'[n].exp = exp
      /\ \A m \in Names : m # n => registry'[m] = registry[m]
      /\ minted + 1 \in NftIds /\ minted' = minted + 1
      /\ nfts'[minted + 1].parent = parent
  BY AddRecordShape
<1>2. HasRecord(n)' /\ ~IsLeaf(registry[n])'
  <2>1. registry'[n] = [nft |-> minted + 1, exp |-> exp, target |-> NoAddr, data |-> data]
    BY DEF AddRecord, TypeOK
  <2>2. registry'[n] \in NameRecord
    BY <1>1, <2>1 DEF NameRecord
  <2> QED
    BY <1>1, <2>2, NullsAssumption DEF HasRecord, IsLeaf
<1>3. TenancyOf'[n] = [holder |-> minted', expires |-> exp, landlord |-> parent]
  BY <1>1, <1>2, TenancySeenNext DEF NodeTenancy
<1>4. ASSUME NEW m \in Names, m # n PROVE TenancyOf'[m] = TenancyOf[m]
  BY <1>1, <1>4, AddRecordChild, TenancyKept
<1>5. Tenancies!Free(n)
  BY FreeSeen DEF AddRecord
<1> QED
  BY <1>1, <1>3, <1>4, <1>5 DEF Tenancies!Let, Tenancies!Others, Tenancies!Names

\* Moving an NFT and its record to a later expiration prolongs the tenancy.
LEMMA SetExpirationProlongs ==
    ASSUME TypeOK, OwnershipInv, NEW i \in NftIds, NEW exp \in Nat, Exists(i),
           HasRecord(nfts[i].name), SetExpiration(i, exp), exp > nfts[i].exp,
           now' = now, minted' = minted
    PROVE  /\ Tenancies!Prolong(nfts[i].name)
           /\ TenancyOf[nfts[i].name] = NodeTenancy(nfts[i].name)
           /\ TenancyOf'[nfts[i].name].expires = exp
<1> PICK n \in Names : n = nfts[i].name
  BY NftTyped DEF Nft
<1>1. /\ ~IsLeaf(registry[n]) /\ registry[n].nft = i /\ registry'[n].nft = i
      /\ registry[n].exp = nfts[i].exp /\ registry[n].exp \in Nat
      /\ registry'[n].exp = exp
      /\ \A m \in Names : m # n => registry'[m] = registry[m]
      /\ nfts'[i].parent = nfts[i].parent
  BY SetExpirationShape
<1>2. HasRecord(n)' /\ ~IsLeaf(registry[n])'
  <2>1. registry'[n] = [registry[n] EXCEPT !.exp = exp] /\ registry[n] \in NameRecord
    BY RecordTyped DEF SetExpiration, TypeOK
  <2>2. registry'[n] \in NameRecord
    BY <2>1 DEF NameRecord
  <2> QED
    BY <1>1, <2>2, NullsAssumption DEF HasRecord, IsLeaf
<1>3. TenancyOf[n] = NodeTenancy(n) /\ TenancyOf'[n] = NodeTenancy(n)'
  BY <1>1, <1>2, TenancySeen, TenancySeenNext
<1>4. /\ TenancyOf'[n].expires = exp
      /\ exp > TenancyOf[n].expires
      /\ TenancyOf'[n] = [TenancyOf[n] EXCEPT !.expires = exp]
  BY <1>1, <1>3 DEF NodeTenancy
<1>5. ASSUME NEW m \in Names, m # n PROVE TenancyOf'[m] = TenancyOf[m]
  BY <1>1, <1>5, SetExpirationChild, TenancyKept
<1>6. Tenancies!IsLet(n)
  BY <1>1, LetSeen
<1> QED
  BY <1>3, <1>4, <1>5, <1>6 DEF Tenancies!Prolong, Tenancies!Others, Tenancies!Names

\* The NFT that is authorised for a parent holds it, and its term is running.
LEMMA ParentRuns ==
    ASSUME TypeOK, OwnershipInv, NEW i \in NftIds, NEW n \in Subs, CanManage(i, n)
    PROVE  /\ Parent[n] \in Names /\ Tenancies!Running(Parent[n])
           /\ TenancyOf[Parent[n]].holder = i
           /\ TenancyOf[Parent[n]].expires = nfts[i].exp
<1> PICK p \in Names : p = Parent[n]
  BY NamesAssumption
<1>1. /\ HasRecord(p) /\ ~IsLeaf(registry[p]) /\ registry[p].nft = i
      /\ nfts[i].exp = registry[p].exp /\ HasUnexpiredRecord(p)
  BY AuthorizedNode DEF CanManage, Authorized, HasUnexpiredRecord
<1> QED
  BY <1>1, LetSeen, TenancyFields

\* A renewal prolongs a tenancy whose grace period is not over.
LEMMA RenewsTenancy ==
    ASSUME TypeOK, OwnershipInv, NEW i \in NftIds, NEW years \in 1..MaxYears, Renew(i, years)
    PROVE  \E n \in Slns : Tenancies!RenewName(n)
<1> PICK n \in Slns : n = nfts[i].name
  BY DEF Renew
<1> DEFINE exp == registry[n].exp + years * Year
<1>1. /\ HasRecord(n) /\ Exists(i) /\ ~ExpiredPastGrace(registry[n])
      /\ SetExpiration(i, exp) /\ now' = now /\ minted' = minted
  BY DEF Renew
<1>2. /\ ~IsLeaf(registry[n]) /\ nfts[i].exp = registry[n].exp
      /\ registry[n].exp \in Nat /\ now \in Nat /\ Grace \in Nat
  BY <1>1, MatchedIsNode, RecordTyped, TimeAssumption
  DEF SetExpiration, NameRecord, TypeOK
<1>3. years * Year \in Nat /\ years * Year > 0
  <2>1. years \in Nat /\ years > 0 /\ Year \in Nat /\ Year > 0
    BY TimeAssumption
  <2> QED
    BY <2>1
<1>4. exp \in Nat /\ exp > nfts[i].exp
  BY <1>2, <1>3
<1> HIDE DEF exp
<1>5. Tenancies!Prolong(n)
  BY <1>1, <1>4, SetExpirationProlongs
<1>6. ~(TenancyOf[n].expires + Tenancies!GraceOf(n) < now)
  BY <1>1, <1>2, TenancyFields DEF ExpiredPastGrace, Tenancies!GraceOf
<1>7. ~Tenancies!Free(n)
  BY <1>1, <1>2, <1>6, LetSeen DEF Tenancies!Free
<1> QED
  BY <1>5, <1>7 DEF Tenancies!RenewName

\* A subname is let by the NFT that is authorised for its parent.
LEMMA NewSubnameLets ==
    ASSUME TypeOK, OwnershipInv, NEW i \in NftIds, NEW n \in Subs, NEW flags \in SUBSET Flags,
           NEW exp \in 0..MaxExp, NewSubname(i, n, exp, flags)
    PROVE  Tenancies!LetSubname(n)
<1>1. /\ CanManage(i, n) /\ exp >= now + MinSubDuration /\ exp <= nfts[i].exp
      /\ AddRecord(n, FALSE, exp, i, flags) /\ now' = now
  BY DEF NewSubname, WithinParentTerm
<1>2. /\ exp \in Nat /\ now \in Nat /\ now > 0 /\ MinSubDuration \in Nat
      /\ nfts[i].exp \in Nat
  BY <1>1, TimeAssumption, NftTyped DEF TypeOK, CanManage, Authorized, Nft
<1>3. n \notin Slns /\ exp > 0
  BY <1>1, <1>2, NamesAssumption
<1>4. Tenancies!Let(n, exp, i)
  BY <1>1, <1>2, <1>3, MintLets
<1>5. /\ Tenancies!Running(Parent[n]) /\ TenancyOf[Parent[n]].holder = i
      /\ TenancyOf[Parent[n]].expires = nfts[i].exp
  BY <1>1, ParentRuns
<1>6. exp \in now + MinSubDuration .. TenancyOf[Parent[n]].expires
  BY <1>1, <1>2, <1>5
<1> QED
  BY <1>4, <1>5, <1>6 DEF Tenancies!LetSubname

\* An extension has the parent's holder and term to respect.
LEMMA ExtensionProlongs ==
    ASSUME TypeOK, OwnershipInv, NEW i \in NftIds, NEW exp \in 0..MaxExp,
           ExtendExpiration(i, exp)
    PROVE  \E n \in Subs : Tenancies!ExtendSubname(n)
<1> PICK n \in Subs : n = nfts[i].name
  BY DEF ExtendExpiration
<1> PICK p \in Names : p = Parent[n]
  BY NamesAssumption
<1>1. /\ exp \in Nat /\ SetExpiration(i, exp) /\ Exists(i) /\ HasRecord(n) /\ HasRecord(p)
      /\ nfts[i].parent = registry[p].nft /\ exp <= registry[p].exp
      /\ now' = now /\ minted' = minted
  BY ExtendTerm
<1>2. exp > nfts[i].exp /\ nfts[i].exp \in Nat
  BY <1>1, NftTyped DEF ExtendExpiration, Nft
<1>3. ~IsLeaf(registry[p])
  BY <1>1, <1>2 DEF IsLeaf
<1>4. /\ Tenancies!Prolong(n) /\ TenancyOf'[n].expires = exp
  BY <1>1, <1>2, SetExpirationProlongs
<1>5. TenancyOf[n].landlord = nfts[i].parent
  BY <1>1, MatchedIsNode, TenancyFields DEF SetExpiration, IdMatches
<1>6. TenancyOf[p].holder = registry[p].nft /\ TenancyOf[p].expires = registry[p].exp
  BY <1>1, <1>3, TenancyFields
<1> QED
  BY <1>1, <1>4, <1>5, <1>6 DEF Tenancies!ExtendSubname, Tenancies!LandlordStays

\* A leaf is lent by the NFT that is authorised for its parent.
LEMMA NewLeafLends ==
    ASSUME TypeOK, OwnershipInv, NEW i \in NftIds, NEW n \in Subs, NEW target \in Addrs,
           NewLeaf(i, n, target)
    PROVE  Tenancies!Lend(n)
<1>1. /\ registry'[n].nft = i /\ registry'[n].exp = 0
      /\ \A m \in Names : m # n => registry'[m] = registry[m]
      /\ nfts' = nfts /\ minted' = minted /\ now' = now
  BY NewLeafShape
<1>2. Available(n, FALSE) /\ CanManage(i, n)
  BY DEF NewLeaf
<1>3. Tenancies!Running(Parent[n]) /\ TenancyOf[Parent[n]].holder = i
  BY <1>2, ParentRuns
<1>4. HasRecord(n)' /\ IsLeaf(registry[n])'
  <2>1. registry'[n] = [nft |-> registry[Parent[n]].nft, exp |-> 0, target |-> target, data |-> {}]
    BY DEF NewLeaf, TypeOK
  <2>2. registry[Parent[n]].nft = i
    BY <1>1, <2>1
  <2>3. registry'[n] \in NameRecord
    BY <2>1, <2>2 DEF NameRecord
  <2> QED
    BY <1>1, <2>3, NullsAssumption DEF HasRecord, IsLeaf
<1>5. TenancyOf'[n] = [Tenancies!Vacant EXCEPT !.landlord = i]
  BY <1>1, <1>4, TenancySeenNext DEF LeafTenancy, Tenancies!Vacant
<1>6. ASSUME NEW m \in Names, m # n PROVE TenancyOf'[m] = TenancyOf[m]
  BY <1>1, <1>6, TenancyKept DEF ChildKept, HasRecord, IsLeaf
<1>7. Tenancies!Free(n)
  BY <1>2, NamesAssumption, FreeSeen
<1> QED
  BY <1>1, <1>3, <1>5, <1>6, <1>7 DEF Tenancies!Lend, Tenancies!Others, Tenancies!Names

\* And taken back by the one that is then.
LEMMA RemoveLeafTakesBack ==
    ASSUME TypeOK, OwnershipInv, NEW i \in NftIds, NEW n \in Subs, RemoveLeaf(i, n)
    PROVE  Tenancies!TakeBack(n)
<1>1. /\ HasRecord(n) /\ IsLeaf(registry[n]) /\ CanManage(i, n)
      /\ registry'[n] = NoRecord
      /\ \A m \in Names : m # n => registry'[m] = registry[m]
      /\ nfts' = nfts /\ minted' = minted /\ now' = now
  BY DEF RemoveLeaf, RemoveRecords
<1>2. Tenancies!Running(Parent[n])
  BY <1>1, ParentRuns
<1>3. TenancyOf'[n] = Tenancies!Vacant
  BY <1>1, TenancySeenNext DEF HasRecord
<1>4. ASSUME NEW m \in Names, m # n PROVE TenancyOf'[m] = TenancyOf[m]
  BY <1>1, <1>4, TenancyKept DEF ChildKept, HasRecord, IsLeaf
<1> QED
  BY <1>1, <1>2, <1>3, <1>4, LetSeen
  DEF Tenancies!TakeBack, Tenancies!Others, Tenancies!Names

\* Burning an NFT gives up the name it holds, and is nothing to other names.
LEMMA BurnGivesUp ==
    ASSUME TypeOK, OwnershipInv, NEW i \in NftIds, BurnExpired(i)
    PROVE  \/ \E n \in Names : Tenancies!GiveUp(n)
           \/ UNCHANGED TenancyVars
<1> PICK n \in Names : n = nfts[i].name
  BY NftTyped DEF BurnExpired, Nft
<1>1. Exists(i) /\ nfts[i].exp < now /\ now' = now /\ minted' = minted
  BY DEF BurnExpired, Expired
<1>2. ASSUME NEW m \in Names, registry'[m] = registry[m] PROVE TenancyOf'[m] = TenancyOf[m]
  <2>1. (HasRecord(m)' /\ ~IsLeaf(registry[m])') => ChildKept(m)
    BY RemovalChild
  <2> QED
    BY <1>2, <2>1, TenancyKept
<1>3. CASE HasRecord(n) /\ IdMatches(i)
  <2>1. /\ registry'[n] = NoRecord
        /\ \A m \in Names : m # n => registry'[m] = registry[m]
    BY <1>3 DEF BurnExpired, RemoveRecords
  <2>2. ~IsLeaf(registry[n]) /\ registry[n].exp < now
    BY <1>1, <1>3, MatchedIsNode
  <2>3. Tenancies!IsLet(n) /\ TenancyOf[n].expires < now
    BY <1>3, <2>2, LetSeen, TenancyFields
  <2>4. TenancyOf'[n] = Tenancies!Vacant
    BY <2>1, TenancySeenNext DEF HasRecord
  <2>5. Tenancies!GiveUp(n)
    BY <1>1, <1>2, <2>1, <2>3, <2>4 DEF Tenancies!GiveUp, Tenancies!Others, Tenancies!Names
  <2> QED
    BY <2>5
<1>4. CASE ~(HasRecord(n) /\ IdMatches(i))
  <2>1. registry' = registry
    BY <1>4 DEF BurnExpired
  <2>2. \A m \in Names : TenancyOf'[m] = TenancyOf[m]
    BY <1>2, <2>1
  <2>3. TenancyOf' = TenancyOf
    BY <2>2 DEF TenancyOf
  <2> QED
    BY <1>1, <2>3 DEF TenancyVars
<1> QED
  BY <1>3, <1>4

\* The administrator's removals are evictions.
LEMMA AdminRemovalEvicts ==
    ASSUME TypeOK, NEW ns \in SUBSET Names, AdminRemoveRecords(ns)
    PROVE  Tenancies!Evict
<1>1. /\ "remove" \in AdminPowers /\ now' = now /\ minted' = minted /\ nfts' = nfts
      /\ \A m \in Names : registry'[m] = (IF m \in ns THEN NoRecord ELSE registry[m])
  BY DEF AdminRemoveRecords, RemoveRecords
<1>2. ASSUME NEW m \in Names PROVE TenancyOf'[m] \in {TenancyOf[m], Tenancies!Vacant}
  <2>1. CASE m \in ns
    BY <1>1, <2>1, TenancySeenNext DEF HasRecord
  <2>2. CASE m \notin ns
    BY <1>1, <2>2, TenancyKept DEF ChildKept, HasRecord, IsLeaf
  <2> QED
    BY <2>1, <2>2
<1> QED
  BY <1>1, <1>2 DEF Tenancies!Evict, Tenancies!Names

\* Every step is one of the tenancies', or a stutter.
LEMMA NextTenancy ==
    ASSUME TypeOK, OwnershipInv, [Next]_vars
    PROVE  Tenancies!Next \/ UNCHANGED TenancyVars
<1>1. ASSUME NEW n \in Slns, Tenancies!LetName(n) \/ Tenancies!RenewName(n)
      PROVE  Tenancies!Next
  BY <1>1 DEF Tenancies!Next
<1>2. ASSUME NEW n \in Subs,
             \/ Tenancies!LetSubname(n) \/ Tenancies!ExtendSubname(n)
             \/ Tenancies!Lend(n) \/ Tenancies!TakeBack(n)
      PROVE  Tenancies!Next
  BY <1>2 DEF Tenancies!Next
<1>3. ASSUME NEW n \in Slns, NEW years \in Nat, AddRecord(n, TRUE, now + years * Year, NoId, {}),
             now' = now
      PROVE  Tenancies!Next
  <2> DEFINE exp == now + years * Year
  <2>1. now \in Nat /\ now > 0 /\ years * Year \in Nat
    BY TimeAssumption DEF TypeOK
  <2>2. exp \in Nat /\ exp > 0 /\ exp >= now
    BY <2>1
  <2> HIDE DEF exp
  <2>3. AddRecord(n, TRUE, exp, NoId, {})
    BY <1>3 DEF exp
  <2>4. Tenancies!Let(n, exp, NoId) /\ TenancyOf'[n].expires = exp
    BY <1>3, <2>2, <2>3, MintLets
  <2>5. Tenancies!LetName(n)
    BY <2>2, <2>4 DEF Tenancies!LetName
  <2> QED
    BY <2>5, <1>1
<1>4. CASE PaymentNext
  <2>1. ASSUME NEW n \in Slns, NEW years \in 1..MaxYears, Register(n, years)
        PROVE  Tenancies!Next
    <3>1. years \in Nat
      BY TimeAssumption
    <3> QED
      BY <2>1, <3>1, <1>3 DEF Register
  <2>2. ASSUME NEW i \in NftIds, NEW years \in 1..MaxYears, Renew(i, years)
        PROVE  Tenancies!Next
    BY <2>2, <1>1, RenewsTenancy
  <2> QED
    BY <1>4, <2>1, <2>2 DEF PaymentNext
<1>5. CASE \E n \in Slns, years \in AdminYears : AdminRegister(n, years)
  BY <1>5, <1>3, TimeAssumption DEF AdminRegister
<1>6. CASE \E i \in NftIds, n \in Subs : RemoveLeaf(i, n)
  BY <1>6, <1>2, RemoveLeafTakesBack
<1>7. CASE \E i \in NftIds, n \in Subs, target \in Addrs : NewLeaf(i, n, target)
  BY <1>7, <1>2, NewLeafLends
<1>8. CASE \E i \in NftIds, n \in Subs, flags \in SUBSET Flags, exp \in 0..MaxExp :
             NewSubname(i, n, exp, flags)
  BY <1>8, <1>2, NewSubnameLets
<1>9. CASE \E i \in NftIds, exp \in 0..MaxExp : ExtendExpiration(i, exp)
  BY <1>9, <1>2, ExtensionProlongs
<1>10. CASE \E i \in NftIds : BurnExpired(i)
  BY <1>10, BurnGivesUp DEF Tenancies!Next, Tenancies!Names
<1>11. CASE \E ns \in SUBSET Names \ {{}} : AdminRemoveRecords(ns)
  BY <1>11, AdminRemovalEvicts DEF Tenancies!Next
<1>12. CASE Tick
  <2>1. now' = now + 1 /\ minted' = minted
    BY <1>12 DEF Tick, nameVars
  <2>2. TenancyOf' = TenancyOf
    BY <1>12, EditsKeepTerms, TermsSameTenancy
  <2> QED
    BY <2>1, <2>2 DEF Tenancies!Next, Tenancies!Tick
<1>13. ASSUME \/ \E i \in NftIds, n \in Subs, flags \in SUBSET Flags : EditSetup(i, n, flags)
              \/ \E i \in NftIds, target \in Addrs \cup {NoAddr} : SetTargetAddress(i, target)
              \/ \E a \in Addrs, n \in Names : SetReverseLookup(a, n)
              \/ \E a \in Addrs : UnsetReverseLookup(a)
              \/ \E i \in NftIds, key \in UserKeys : SetUserData(i, key)
              \/ \E i \in NftIds, key \in UserKeys \cup Flags : UnsetUserData(i, key)
              \/ \E app \in Apps : Authorize(app) \/ Deauthorize(app)
              \/ \E label \in Labels : ChangeDenyList(label)
              \/ UNCHANGED vars
       PROVE  UNCHANGED TenancyVars
  <2>1. UNCHANGED <<now, minted>>
    BY <1>13 DEF EditSetup, SetTargetAddress, SetReverseLookup, UnsetReverseLookup, SetUserData,
       UnsetUserData, Authorize, Deauthorize, ChangeDenyList, nameVars, vars
  <2>2. TenancyOf' = TenancyOf
    BY <1>13, EditsKeepTerms, TermsSameTenancy
  <2> QED
    BY <2>1, <2>2 DEF TenancyVars
<1> QED
  BY <1>4, <1>5, <1>6, <1>7, <1>8, <1>9, <1>10, <1>11, <1>12, <1>13
  DEF Next, SubnamesNext, ControllerNext, AdminNext

\* All that the core, subname and administration packages do to the registry
\* is a step of Tenancy, and an eviction only where the administrator has the
\* power to remove records.
THEOREM TenancyCorrect == Spec => ImplementsTenancy
<1>1. Init => Tenancies!Init
  BY DEF Init, Tenancies!Init, TenancyOf, Tenancies!Names, Tenancies!Vacant
<1>2. TypeOK /\ OwnershipInv /\ [Next]_vars => [Tenancies!Next]_TenancyVars
  BY NextTenancy
<1> QED
  BY <1>1, <1>2, TypeCorrect, OwnershipCorrect, PTL
  DEF Spec, ImplementsTenancy, Tenancies!Spec, TenancyVars
=============================================================================
