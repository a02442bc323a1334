------------------------------ MODULE IotaNames ------------------------------
(***************************************************************************)
(* The name registry of IOTA-Names and every entry point of the core and   *)
(* subnames packages that changes it: registration and renewal by payment, *)
(* node and leaf subnames, the controller (target address, reverse lookup, *)
(* user data, burning), the administrator's operations, the deny list and  *)
(* the authorisation table.  A Move transaction is atomic, and an aborted  *)
(* one changes nothing: each action is one whole transaction, enabled when *)
(* no assertion of the code aborts.                                        *)
(*                                                                         *)
(* An operator named X_Fault is X with a plausible bug.  No action uses    *)
(* one; they serve to show that the properties below can fail.             *)
(***************************************************************************)
EXTENDS Integers, FiniteSets

CONSTANTS
    Slns,            \* second-level names, "name.iota"
    Subs,            \* subnames that pass config::assert_is_valid_subname
    Parent,          \* Parent[n]: the name a subname hangs from
    LabelsOf,        \* LabelsOf[n]: the labels of n but for the top-level one
    Labels,          \* every label
    Addrs,           \* addresses a name can point to
    UserKeys,        \* CoreConfig.valid_user_data_keys
    Year,            \* YEAR_MS, in ticks
    Grace,           \* GRACE_PERIOD_MS
    MinSubDuration,  \* SubnameConfig.minimum_duration
    MaxYears,        \* CoreConfig.max_years
    AdminYears,      \* the durations the administrator registers for
    AdminPowers,     \* the administrator's operations this instance exercises
    MaxTime,         \* bound on the clock
    MaxNfts,         \* bound on the NFTs ever minted
    NoRecord, NoNft, NoAddr, NoName

Names == Slns \cup Subs

\* The authorisation witnesses of the packages (the AuthKey of each app).
Apps == {"PaymentsAuth", "ControllerAuth", "SubnamesAuth", "AdminAuth", "DenyListAuth"}

AllowCreation == "S_AC"        \* the parent lets the subname create children
AllowExtension == "S_ATE"      \* the parent lets the subname extend its term
Flags == {AllowCreation, AllowExtension}
LeafExpiration == 0            \* marks a record as a leaf
NoId == 0                      \* the parent of an NFT that is not a subname's
NftIds == 1..MaxNfts

\* What a name resolves to.  data keeps the metadata keys, not their values.
NameRecord == [nft : NftIds, exp : Nat, target : Addrs \cup {NoAddr},
               data : SUBSET (UserKeys \cup Flags)]

\* The capability over a name; parent is the ParentKey field of a subname's.
Nft == [name : Names, exp : Nat, parent : NftIds \cup {NoId}]

ASSUME NamesAssumption ==
    /\ Slns \cap Subs = {}
    /\ Parent \in [Subs -> Names]
    /\ \A n \in Subs : Parent[n] # n
    /\ LabelsOf \in [Names -> SUBSET Labels]
    /\ UserKeys \cap Flags = {}

ASSUME TimeAssumption ==
    /\ Year \in Nat \ {0}
    /\ Grace \in Nat
    /\ MinSubDuration \in Nat
    /\ MaxYears \in Nat \ {0}
    /\ AdminYears \subseteq Nat

ASSUME BoundsAssumption ==
    /\ MaxTime \in Nat
    /\ MaxNfts \in Nat
    /\ AdminPowers \subseteq {"register", "remove", "authorize", "deny"}

ASSUME NullsAssumption ==
    /\ NoRecord \notin NameRecord
    /\ NoNft \notin Nft
    /\ NoAddr \notin Addrs
    /\ NoName \notin Names

VARIABLES
    now,        \* the Clock object, in ticks
    registry,   \* Registry.registry: the record of each name
    reverse,    \* Registry.reverse_registry: the default name of each address
    nfts,       \* every NameRegistration object that exists, by its id
    minted,     \* how many ids have been given out; ids are never reused
    apps,       \* the authorised apps
    blocked,    \* DenyList.blocked
    reserved    \* DenyList.reserved

vars == <<now, registry, reverse, nfts, minted, apps, blocked, reserved>>
nameVars == <<registry, reverse, nfts, minted>>
adminVars == <<apps, blocked, reserved>>

Init ==
    /\ now = 1
    /\ registry = [n \in Names |-> NoRecord]
    /\ reverse = [a \in Addrs |-> NoName]
    /\ nfts = [i \in NftIds |-> NoNft]
    /\ minted = 0
    /\ apps = Apps
    /\ blocked = {}
    /\ reserved = {}

-----------------------------------------------------------------------------
(* Reading records and NFTs.                                               *)

HasRecord(n) == registry[n] # NoRecord
Exists(i) == nfts[i] # NoNft
Expired(x) == x.exp < now
ExpiredPastGrace(x) == x.exp + Grace < now
IsLeaf(r) == r.exp = LeafExpiration

IdMatches_Skipped(i) == TRUE
IdMatches(i) == registry[nfts[i].name].nft = i

Authorized_TrustsNft(i) ==
    /\ Exists(i)
    /\ HasRecord(nfts[i].name)
    /\ ~Expired(nfts[i])

\* assert_nft_is_authorized: the NFT is the one its name's record points to,
\* and neither has expired.  The grace period does not count.
Authorized(i) ==
    /\ Exists(i)
    /\ HasRecord(nfts[i].name)
    /\ IdMatches(i)
    /\ ~Expired(registry[nfts[i].name])
    /\ ~Expired(nfts[i])

PointsTo(n, a) == HasRecord(n) /\ registry[n].target = a

HasUnexpiredRecord(n) == HasRecord(n) /\ ~Expired(registry[n])

LookupAddress(n) == IF HasUnexpiredRecord(n) THEN registry[n].target ELSE NoAddr

DenyListed_BlockedOnly(n) == LabelsOf[n] \cap blocked # {}
DenyListed(n) == LabelsOf[n] \cap (blocked \cup reserved) # {}

-----------------------------------------------------------------------------
(* The writes the registry offers to the apps.                             *)

\* A leaf can be taken over once its parent is gone, replaced or expired.
LeafReleased(n) ==
    LET p == registry[Parent[n]]
    IN  p = NoRecord \/ p.nft # registry[n].nft \/ Expired(p)

Available_AnyNode(n, withGrace) ==
    HasRecord(n) => /\ IsLeaf(registry[n]) => LeafReleased(n)
                    /\ withGrace => ExpiredPastGrace(registry[n])

Available_NoGrace(n, withGrace) ==
    HasRecord(n) =>
        IF IsLeaf(registry[n]) THEN LeafReleased(n) ELSE Expired(registry[n])

Available_LeafFree(n, withGrace) ==
    HasRecord(n) =>
        IF withGrace THEN ExpiredPastGrace(registry[n]) ELSE Expired(registry[n])

\* remove_existing_record_if_exists_and_expired does not abort.
Available(n, withGrace) ==
    HasRecord(n) =>
        LET r == registry[n]
        IN  IF IsLeaf(r) THEN LeafReleased(n)
            ELSE IF withGrace THEN ExpiredPastGrace(r)
            ELSE Expired(r)

InvalidateReverse_RemovalOnly(ns, target) ==
    [a \in Addrs |->
        IF \E n \in ns : PointsTo(n, a) /\ target = NoAddr /\ reverse[a] = n
        THEN NoName ELSE reverse[a]]

\* handle_invalidate_reverse_record, for names that stop pointing where their
\* records point and start pointing to target instead.
InvalidateReverse(ns, target) ==
    [a \in Addrs |->
        IF \E n \in ns : PointsTo(n, a) /\ target # a /\ reverse[a] = n
        THEN NoName ELSE reverse[a]]

RemoveRecords_Blanked(ns) ==
    /\ registry' = [n \in Names |->
            IF n \in ns /\ HasRecord(n)
            THEN [nft |-> NoId, exp |-> 0, target |-> NoAddr, data |-> {}] ELSE registry[n]]
    /\ reverse' = InvalidateReverse(ns, NoAddr)

RemoveRecords(ns) ==
    /\ registry' = [n \in Names |-> IF n \in ns THEN NoRecord ELSE registry[n]]
    /\ reverse' = InvalidateReverse(ns, NoAddr)

\* internal_add_record: mint an NFT and point the name's record to it.
AddRecord(n, withGrace, exp, parent, data) ==
    /\ minted < MaxNfts
    /\ Available(n, withGrace)
    /\ minted' = minted + 1
    /\ nfts' = [nfts EXCEPT ![minted + 1] = [name |-> n, exp |-> exp, parent |-> parent]]
    /\ registry' = [registry EXCEPT ![n] =
            [nft |-> minted + 1, exp |-> exp, target |-> NoAddr, data |-> data]]
    /\ reverse' = InvalidateReverse({n}, NoAddr)

\* set_expiration_timestamp_ms: the NFT and its record move together.
SetExpiration(i, exp) ==
    /\ IdMatches(i)
    /\ registry' = [registry EXCEPT ![nfts[i].name].exp = exp]
    /\ nfts' = [nfts EXCEPT ![i].exp = exp]

SetData(n, data) == registry' = [registry EXCEPT ![n].data = data]

-----------------------------------------------------------------------------
(* Registration and renewal: the payment transaction as a whole, from the   *)
(* intent through finalize_payment to register or renew.                    *)

Register_Ungated(n, years) ==
    /\ ~DenyListed(n)
    /\ AddRecord(n, TRUE, now + years * Year, NoId, {})
    /\ UNCHANGED <<now, adminVars>>

Register(n, years) ==
    /\ "PaymentsAuth" \in apps
    /\ ~DenyListed(n)
    /\ AddRecord(n, TRUE, now + years * Year, NoId, {})
    /\ UNCHANGED <<now, adminVars>>

WithinMaxTerm_Unchecked(exp) == TRUE
WithinMaxTerm(exp) == exp <= now + (MaxYears + 1) * Year

Renew_AfterGrace(i, years) ==
    /\ "PaymentsAuth" \in apps
    /\ Exists(i)
    /\ nfts[i].name \in Slns
    /\ HasRecord(nfts[i].name)
    /\ LET r == registry[nfts[i].name]
           exp == r.exp + years * Year
       IN  /\ WithinMaxTerm(exp)
           /\ SetExpiration(i, exp)
    /\ UNCHANGED <<now, reverse, minted, adminVars>>

Renew(i, years) ==
    /\ "PaymentsAuth" \in apps
    /\ Exists(i)
    /\ nfts[i].name \in Slns
    /\ HasRecord(nfts[i].name)
    /\ LET r == registry[nfts[i].name]
           exp == r.exp + years * Year
       IN  /\ ~ExpiredPastGrace(r)
           /\ WithinMaxTerm(exp)
           /\ SetExpiration(i, exp)
    /\ UNCHANGED <<now, reverse, minted, adminVars>>

-----------------------------------------------------------------------------
(* Subnames.                                                               *)

MayCreateSubnames(n) == n \in Slns \/ AllowCreation \in registry[n].data

\* internal_validate_nft_can_manage_subname
CanManage(i, n) == Authorized(i) /\ Parent[n] = nfts[i].name

WithinParentTerm_Unchecked(exp, parentExp) == TRUE
WithinParentTerm(exp, parentExp) == exp <= parentExp

NewSubname(i, n, exp, flags) ==
    /\ "SubnamesAuth" \in apps
    /\ ~DenyListed(n)
    /\ CanManage(i, n)
    /\ MayCreateSubnames(nfts[i].name)
    /\ exp >= now + MinSubDuration
    /\ WithinParentTerm(exp, nfts[i].exp)
    /\ AddRecord(n, FALSE, exp, i, flags)
    /\ UNCHANGED <<now, adminVars>>

\* The record of a leaf carries the id of its parent's NFT.
NewLeaf(i, n, target) ==
    /\ "SubnamesAuth" \in apps
    /\ ~DenyListed(n)
    /\ CanManage(i, n)
    /\ MayCreateSubnames(nfts[i].name)
    /\ Available(n, FALSE)
    /\ registry' = [registry EXCEPT ![n] =
            [nft |-> registry[Parent[n]].nft, exp |-> LeafExpiration,
             target |-> target, data |-> {}]]
    /\ reverse' = InvalidateReverse({n}, NoAddr)
    /\ UNCHANGED <<now, nfts, minted, adminVars>>

RemoveLeaf(i, n) ==
    /\ "SubnamesAuth" \in apps
    /\ CanManage(i, n)
    /\ HasRecord(n)
    /\ IsLeaf(registry[n])
    /\ RemoveRecords({n})
    /\ UNCHANGED <<now, nfts, minted, adminVars>>

SameParent_Unchecked(i) == TRUE
SameParent(i) == nfts[i].parent = registry[Parent[nfts[i].name]].nft

\* extend_expiration reads no clock: an expired subname can be extended too.
ExtendExpiration(i, exp) ==
    /\ "SubnamesAuth" \in apps
    /\ Exists(i)
    /\ nfts[i].name \in Subs
    /\ LET n == nfts[i].name
       IN  /\ HasRecord(n)
           /\ AllowExtension \in registry[n].data
           /\ HasRecord(Parent[n])
           /\ SameParent(i)
           /\ exp > nfts[i].exp
           /\ WithinParentTerm(exp, registry[Parent[n]].exp)
    /\ SetExpiration(i, exp)
    /\ UNCHANGED <<now, reverse, minted, adminVars>>

EditSetup(i, n, flags) ==
    /\ "SubnamesAuth" \in apps
    /\ CanManage(i, n)
    /\ HasRecord(n)
    /\ SetData(n, (registry[n].data \ Flags) \cup flags)
    /\ UNCHANGED <<now, reverse, nfts, minted, adminVars>>

-----------------------------------------------------------------------------
(* The controller: what the holder of an NFT may do with the name.         *)

SetTargetAddress(i, target) ==
    /\ "ControllerAuth" \in apps
    /\ Authorized(i)
    /\ registry' = [registry EXCEPT ![nfts[i].name].target = target]
    /\ reverse' = InvalidateReverse({nfts[i].name}, target)
    /\ UNCHANGED <<now, nfts, minted, adminVars>>

\* Called by the address itself, whoever holds the NFT of the name.
SetReverseLookup(a, n) ==
    /\ "ControllerAuth" \in apps
    /\ PointsTo(n, a)
    /\ reverse' = [reverse EXCEPT ![a] = n]
    /\ UNCHANGED <<now, registry, nfts, minted, adminVars>>

UnsetReverseLookup(a) ==
    /\ "ControllerAuth" \in apps
    /\ reverse[a] # NoName
    /\ reverse' = [reverse EXCEPT ![a] = NoName]
    /\ UNCHANGED <<now, registry, nfts, minted, adminVars>>

SetUserData(i, key) ==
    /\ "ControllerAuth" \in apps
    /\ key \in UserKeys
    /\ Authorized(i)
    /\ SetData(nfts[i].name, registry[nfts[i].name].data \cup {key})
    /\ UNCHANGED <<now, reverse, nfts, minted, adminVars>>

\* Any key can be removed: unset_user_data does not look at the valid keys.
UnsetUserData(i, key) ==
    /\ "ControllerAuth" \in apps
    /\ Authorized(i)
    /\ SetData(nfts[i].name, registry[nfts[i].name].data \ {key})
    /\ UNCHANGED <<now, reverse, nfts, minted, adminVars>>

\* controller::burn_expired, controller::burn_expired_subname and
\* subnames::burn.  The grace period does not count; the record goes only if
\* it is still the one of this NFT.
BurnExpired(i) ==
    /\ Exists(i)
    /\ \/ "ControllerAuth" \in apps
       \/ "SubnamesAuth" \in apps /\ nfts[i].name \in Subs
    /\ Expired(nfts[i])
    /\ IF HasRecord(nfts[i].name) /\ IdMatches(i)
       THEN RemoveRecords({nfts[i].name})
       ELSE UNCHANGED <<registry, reverse>>
    /\ nfts' = [nfts EXCEPT ![i] = NoNft]
    /\ UNCHANGED <<now, minted, adminVars>>

-----------------------------------------------------------------------------
(* The administrator.                                                      *)

\* The labels of the name leave the reserved list; the blocked list is not read.
AdminRegister(n, years) ==
    /\ "register" \in AdminPowers
    /\ {"AdminAuth", "DenyListAuth"} \subseteq apps
    /\ reserved' = reserved \ LabelsOf[n]
    /\ AddRecord(n, TRUE, now + years * Year, NoId, {})
    /\ UNCHANGED <<now, apps, blocked>>

\* Bypasses every expiration and authorisation check; the NFTs stay.
AdminRemoveRecords(ns) ==
    /\ "remove" \in AdminPowers
    /\ "AdminAuth" \in apps
    /\ RemoveRecords(ns)
    /\ UNCHANGED <<now, nfts, minted, adminVars>>

Authorize(app) ==
    /\ "authorize" \in AdminPowers
    /\ app \notin apps
    /\ apps' = apps \cup {app}
    /\ UNCHANGED <<now, nameVars, blocked, reserved>>

Deauthorize(app) ==
    /\ "authorize" \in AdminPowers
    /\ app \in apps
    /\ apps' = apps \ {app}
    /\ UNCHANGED <<now, nameVars, blocked, reserved>>

\* Adding a label that is listed, or removing one that is not, aborts.
ChangeDenyList(label) ==
    /\ "deny" \in AdminPowers
    /\ "DenyListAuth" \in apps
    /\ \/ label \notin blocked /\ blocked' = blocked \cup {label} /\ UNCHANGED reserved
       \/ label \in blocked /\ blocked' = blocked \ {label} /\ UNCHANGED reserved
       \/ label \notin reserved /\ reserved' = reserved \cup {label} /\ UNCHANGED blocked
       \/ label \in reserved /\ reserved' = reserved \ {label} /\ UNCHANGED blocked
    /\ UNCHANGED <<now, nameVars, apps>>

Tick ==
    /\ now < MaxTime
    /\ now' = now + 1
    /\ UNCHANGED <<nameVars, adminVars>>

-----------------------------------------------------------------------------
\* Bound on the expirations a caller may ask for.
MaxExp == MaxTime + (MaxYears + 1) * Year

PaymentNext ==
    \/ \E n \in Slns, years \in 1..MaxYears : Register(n, years)
    \/ \E i \in NftIds, years \in 1..MaxYears : Renew(i, years)

SubnamesNext ==
    \/ \E i \in NftIds, n \in Subs : RemoveLeaf(i, n)
    \/ \E i \in NftIds, n \in Subs, target \in Addrs : NewLeaf(i, n, target)
    \/ \E i \in NftIds, n \in Subs, flags \in SUBSET Flags : EditSetup(i, n, flags)
    \/ \E i \in NftIds, n \in Subs, flags \in SUBSET Flags, exp \in 0..MaxExp :
          NewSubname(i, n, exp, flags)
    \/ \E i \in NftIds, exp \in 0..MaxExp : ExtendExpiration(i, exp)

ControllerNext ==
    \/ \E i \in NftIds, target \in Addrs \cup {NoAddr} : SetTargetAddress(i, target)
    \/ \E a \in Addrs, n \in Names : SetReverseLookup(a, n)
    \/ \E a \in Addrs : UnsetReverseLookup(a)
    \/ \E i \in NftIds, key \in UserKeys : SetUserData(i, key)
    \/ \E i \in NftIds, key \in UserKeys \cup Flags : UnsetUserData(i, key)
    \/ \E i \in NftIds : BurnExpired(i)

AdminNext ==
    \/ \E n \in Slns, years \in AdminYears : AdminRegister(n, years)
    \/ \E ns \in SUBSET Names \ {{}} : AdminRemoveRecords(ns)
    \/ \E app \in Apps : Authorize(app) \/ Deauthorize(app)
    \/ \E label \in Labels : ChangeDenyList(label)

Next == PaymentNext \/ SubnamesNext \/ ControllerNext \/ AdminNext \/ Tick

Spec == Init /\ [][Next]_vars

-----------------------------------------------------------------------------
(* Type correctness.                                                       *)

\* Every variable keeps its type: a record or NFT is never half written.
TypeOK ==
    /\ now \in Nat \ {0}
    /\ registry \in [Names -> NameRecord \cup {NoRecord}]
    /\ reverse \in [Addrs -> Names \cup {NoName}]
    /\ nfts \in [NftIds -> Nft \cup {NoNft}]
    /\ minted \in 0..MaxNfts
    /\ apps \subseteq Apps
    /\ blocked \subseteq Labels
    /\ reserved \subseteq Labels

(* Safety.                                                                 *)

\* The default name of an address is a registered name that points back to it.
\* Whatever removes, replaces or retargets a record (expiry takeovers, burns,
\* leaf removals, the administrator) has to clear the entry, or an address
\* would show a name that another owner now holds, and
\* reverse_lookup_unexpired would abort on a record that is gone.
ReverseConsistent ==
    \A a \in Addrs :
        reverse[a] # NoName => PointsTo(reverse[a], a)

\* A record that is not a leaf is backed by an NFT that exists, is for that
\* name and carries the record's expiration: burns, takeovers, renewals and
\* extensions of superseded NFTs never leave the two out of step.
RecordBacked ==
    \A n \in Names :
        (HasRecord(n) /\ ~IsLeaf(registry[n])) =>
            LET i == registry[n].nft
            IN  /\ Exists(i)
                /\ nfts[i].name = n
                /\ nfts[i].exp = registry[n].exp

\* While a subname has not expired, its parent has not either and is still
\* held by the NFT that created the subname; up the chain, so is every
\* ancestor.  (Not when the administrator removes records.)
LiveChain ==
    \A n \in Subs :
        HasUnexpiredRecord(n) =>
            /\ HasUnexpiredRecord(Parent[n])
            /\ registry[Parent[n]].nft = nfts[registry[n].nft].parent

\* A subname never has a longer term than the parent that created it, as long
\* as that parent holds its name; this one survives the administrator.
NeverOutlivesParent ==
    \A n \in Subs :
        (HasRecord(n) /\ ~IsLeaf(registry[n]) /\ HasRecord(Parent[n])) =>
            (registry[Parent[n]].nft = nfts[registry[n].nft].parent =>
                registry[n].exp <= registry[Parent[n]].exp)

\* A leaf always has a target and is always a subname (registry.move,
\* add_leaf_record): no NFT, not even its parent's, whose id it carries, can
\* clear the target.
LeafHasTarget ==
    \A n \in Names :
        (HasRecord(n) /\ IsLeaf(registry[n])) =>
            n \in Subs /\ registry[n].target # NoAddr

\* Nobody holds a name for more than max_years + 1 years ahead, whatever
\* mix of registrations, renewals (in the grace period too) and subname
\* extensions led there.  (Not when the administrator registers names.)
TermBounded ==
    \A n \in Names :
        HasRecord(n) => registry[n].exp <= now + (MaxYears + 1) * Year

-----------------------------------------------------------------------------
(* What makes the safety invariants inductive.                             *)

\* Ids are handed out in order and never again: no record or NFT carries an
\* id that is still to come.
IdsUsed ==
    /\ \A i \in NftIds : Exists(i) => i <= minted
    /\ \A n \in Names : HasRecord(n) => registry[n].nft <= minted

\* The id a leaf carries is never that of an NFT for the leaf's own name, so
\* no NFT is authorised for a leaf; if its NFT still exists, it is for the
\* leaf's parent.
LeafOfParent ==
    \A n \in Names :
        (HasRecord(n) /\ IsLeaf(registry[n])) =>
            /\ n \in Subs
            /\ Exists(registry[n].nft) => nfts[registry[n].nft].name = Parent[n]

\* Holds whatever the administrator does.
OwnershipInv == IdsUsed /\ LeafOfParent /\ RecordBacked /\ LeafHasTarget

\* A subname is within the term of the NFT that created it and that still
\* holds the parent's name, or else it has expired: the parent's record can
\* only have been given up, replaced or burnt after its own expiration.
ChainInv ==
    \A n \in Subs :
        (HasRecord(n) /\ ~IsLeaf(registry[n])) =>
            \/ /\ HasRecord(Parent[n])
               /\ registry[Parent[n]].nft = nfts[registry[n].nft].parent
               /\ registry[n].exp <= registry[Parent[n]].exp
            \/ Expired(registry[n])

-----------------------------------------------------------------------------
(* What a step may never do.                                               *)

\* A name that has not expired stays with its NFT, and its term is not cut.
\* (Not when the administrator removes records.)
TenureStep ==
    \A n \in Names :
        HasUnexpiredRecord(n) =>
            /\ HasRecord(n)'
            /\ registry'[n].nft = registry[n].nft
            /\ registry'[n].exp >= registry[n].exp
TenureProtected == [][TenureStep]_vars

\* Until the grace period of a second-level name is over, it can be given up
\* (its holder burns the expired NFT) but not taken over by another NFT.
GraceStep ==
    \A n \in Slns :
        (HasRecord(n) /\ ~ExpiredPastGrace(registry[n]) /\ HasRecord(n)') =>
            registry'[n].nft = registry[n].nft
GraceProtected == [][GraceStep]_vars

\* A leaf goes to a node only when its parent is gone, replaced or expired:
\* a valid parent has to remove it first.
LeafStep ==
    \A n \in Subs :
        (HasRecord(n) /\ IsLeaf(registry[n]) /\ HasRecord(n)' /\ ~LeafReleased(n)) =>
            registry'[n].exp = LeafExpiration /\ registry'[n].target = registry[n].target
LeafProtected == [][LeafStep]_vars

\* No user creates a record for a name with a blocked or reserved label at any
\* level, below a parent registered before the label was listed included.
\* (Not when the administrator registers names.)
DenyListStep ==
    \A n \in Names :
        (HasRecord(n)' /\ (HasRecord(n) => registry'[n].nft # registry[n].nft)) =>
            LabelsOf[n] \cap (blocked \cup reserved) = {}
DenyListRespected == [][DenyListStep]_vars

\* With every app deauthorised no transaction changes what any name or
\* address resolves to: payment::register and payment::renew are not gated
\* themselves and rest on the gate of finalize_payment.
KillSwitchStep == apps = {} => UNCHANGED <<registry, reverse, nfts>>
KillSwitch == [][KillSwitchStep]_vars

\* A subname whose parent's name was removed by the administrator and is now
\* held by another NFT cannot extend its term (subnames.move, EParentChanged);
\* the subname's NFT and record both stay as they are until they expire.
OrphanStep ==
    \A n \in Subs :
        ( /\ HasRecord(n) /\ ~IsLeaf(registry[n])
          /\ HasRecord(Parent[n])
          /\ registry[Parent[n]].nft # nfts[registry[n].nft].parent
          /\ HasRecord(n)'
          /\ registry'[n].nft = registry[n].nft )
        => registry'[n].exp = registry[n].exp
OrphanCannotExtend == [][OrphanStep]_vars

-----------------------------------------------------------------------------
(* What the holders of names rely on.                                      *)

HolderOf == [n \in Slns |-> IF HasRecord(n) THEN registry[n].nft ELSE NoId]
ExpiryOf == [n \in Slns |-> IF HasRecord(n) THEN registry[n].exp ELSE 0]

Leases == INSTANCE Lease WITH Names <- Slns, holder <- HolderOf, expires <- ExpiryOf

\* Through all the operations on records, NFTs, subnames and default names, a
\* second-level name is leased: granted to new NFTs only when free, renewed
\* until its grace period is over and not after, given up only once expired.
\* (Not when the administrator removes records.)
ImplementsLease == Leases!Spec

\* A record as a tenancy: a leaf is lent, and its id is its parent's.
TenancyOf ==
    [n \in Names |->
        LET r == registry[n]
        IN  IF r = NoRecord THEN [holder |-> NoId, expires |-> 0, landlord |-> NoId]
            ELSE IF IsLeaf(r) THEN [holder |-> NoId, expires |-> r.exp, landlord |-> r.nft]
            ELSE [holder |-> r.nft, expires |-> r.exp, landlord |-> nfts[r.nft].parent]]

Tenancies == INSTANCE Tenancy WITH
    tenancy <- TenancyOf, MinTerm <- MinSubDuration, Evictions <- "remove" \in AdminPowers

\* The same promise for the whole tree, to the holders of subnames as well: a
\* subname is let by a parent whose term is running and within that term, it
\* is extended only under the very NFT that let it, a leaf is the parent's to
\* lend and to take back, and apart from the administrator's removals no term
\* ends early, whatever is burnt, removed or registered above the name.
ImplementsTenancy == Tenancies!Spec

-----------------------------------------------------------------------------
(* What comments of the code say, and the code does not do.                *)

\* registry.move, add_leaf_record: leaves are "a resolving mechanism", "do not
\* expire", and their expiration is the parent's: while the parent is valid,
\* the leaf's name resolves to its target.
LeafResolves ==
    \A n \in Subs :
        (HasRecord(n) /\ IsLeaf(registry[n]) /\ ~LeafReleased(n)) =>
            LookupAddress(n) = registry[n].target

\* subnames.move, extend_expiration: when the parent's owner changed,
\* "subnames lose all abilities to renew / create subnames".
OrphanCreatesNothing ==
    [][\A i \in NftIds :
        (~Exists(i) /\ Exists(i)' /\ nfts'[i].parent # NoId) =>
            LET creator == nfts[nfts'[i].parent]
            IN  creator.name \in Subs =>
                    /\ HasRecord(Parent[creator.name])
                    /\ registry[Parent[creator.name]].nft = creator.parent]_vars
=============================================================================
