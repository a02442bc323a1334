------------------------------- MODULE Tenancy -------------------------------
(***************************************************************************)
(* What the registry promises about the whole tree of names: Lease, and     *)
(* below the second level a tenancy for each subname.  A name is let to a    *)
(* new NFT, or lent as a leaf by the NFT that holds its parent, when it is  *)
(* free; a subname is let within the term of its parent and extended only    *)
(* while the NFT that let it still holds the parent; and a name is given up  *)
(* only after it has expired.  One name changes at a time, except for the    *)
(* administrator's evictions.                                              *)
(***************************************************************************)
EXTENDS Integers

CONSTANTS
    Slns, Subs, Parent, Grace,
    MinTerm,      \* the shortest term of a subname
    Evictions     \* whether the administrator may evict

Names == Slns \cup Subs

VARIABLES
    now,
    minted,    \* the ids given out so far
    tenancy    \* of each name: the NFT that holds it and until when, and the
               \* NFT of the parent that let or lent it; 0 for none

Vacant == [holder |-> 0, expires |-> 0, landlord |-> 0]

IsLet(n) == tenancy[n].holder # 0
IsLeaf(n) == ~IsLet(n) /\ tenancy[n].landlord # 0
GraceOf(n) == IF n \in Slns THEN Grace ELSE 0
Running(n) == IsLet(n) /\ tenancy[n].expires >= now

\* The NFT that let or lent n holds the parent of n.
LandlordStays(n) == tenancy[Parent[n]].holder = tenancy[n].landlord

Free(n) ==
    /\ IsLet(n) => tenancy[n].expires + GraceOf(n) < now
    /\ IsLeaf(n) => ~(Running(Parent[n]) /\ LandlordStays(n))

Init ==
    /\ minted = 0
    /\ tenancy = [n \in Names |-> Vacant]

Others(n) == \A m \in Names \ {n} : tenancy'[m] = tenancy[m]

\* Always to an NFT that has never held a name.
Let(n, exp, landlord) ==
    /\ Free(n)
    /\ minted' = minted + 1
    /\ tenancy'[n] = [holder |-> minted', expires |-> exp, landlord |-> landlord]
    /\ Others(n)
    /\ UNCHANGED now

LetName(n) == tenancy'[n].expires >= now /\ Let(n, tenancy'[n].expires, 0)

LetSubname(n) ==
    /\ Running(Parent[n])
    /\ \E exp \in now + MinTerm .. tenancy[Parent[n]].expires :
          Let(n, exp, tenancy[Parent[n]].holder)

Prolong(n) ==
    /\ IsLet(n)
    /\ tenancy'[n].expires > tenancy[n].expires
    /\ tenancy'[n] = [tenancy[n] EXCEPT !.expires = tenancy'[n].expires]
    /\ Others(n)
    /\ UNCHANGED <<now, minted>>

RenewName(n) == ~Free(n) /\ Prolong(n)

\* Also when both have expired.
ExtendSubname(n) ==
    /\ LandlordStays(n)
    /\ Prolong(n)
    /\ tenancy'[n].expires <= tenancy[Parent[n]].expires

Lend(n) ==
    /\ Free(n)
    /\ Running(Parent[n])
    /\ tenancy'[n] = [Vacant EXCEPT !.landlord = tenancy[Parent[n]].holder]
    /\ Others(n)
    /\ UNCHANGED <<now, minted>>

\* Whoever holds the parent takes a leaf back, lent by itself or by another.
TakeBack(n) ==
    /\ IsLeaf(n)
    /\ Running(Parent[n])
    /\ tenancy'[n] = Vacant
    /\ Others(n)
    /\ UNCHANGED <<now, minted>>

GiveUp(n) ==
    /\ IsLet(n) /\ tenancy[n].expires < now
    /\ tenancy'[n] = Vacant
    /\ Others(n)
    /\ UNCHANGED <<now, minted>>

Evict ==
    /\ Evictions
    /\ \A n \in Names : tenancy'[n] \in {tenancy[n], Vacant}
    /\ UNCHANGED <<now, minted>>

Tick == now' = now + 1 /\ UNCHANGED <<minted, tenancy>>

Next ==
    \/ Evict
    \/ Tick
    \/ \E n \in Slns : LetName(n) \/ RenewName(n)
    \/ \E n \in Subs : LetSubname(n) \/ ExtendSubname(n) \/ Lend(n) \/ TakeBack(n)
    \/ \E n \in Names : GiveUp(n)

Spec == Init /\ [][Next]_<<now, minted, tenancy>>
=============================================================================
