-------------------------------- MODULE Lease --------------------------------
(***************************************************************************)
(* What the registry promises about second-level names to whoever wants to  *)
(* buy one or has bought it: a name is granted to a new NFT when it is      *)
(* free, its term grows until the grace period is over, and it is given up  *)
(* only after it has expired.  One name changes at a time.                  *)
(***************************************************************************)
EXTENDS Integers

CONSTANTS Names, Grace

VARIABLES
    now,
    minted,    \* the ids given out so far
    holder,    \* the NFT each name belongs to, 0 for none
    expires

terms == <<holder, expires>>

Free(n) == holder[n] = 0 \/ expires[n] + Grace < now

Init ==
    /\ minted = 0
    /\ holder = [n \in Names |-> 0]

Others(n) ==
    \A m \in Names \ {n} : holder'[m] = holder[m] /\ expires'[m] = expires[m]

\* To an NFT that has never held a name.
Grant(n) ==
    /\ Free(n)
    /\ minted' = minted + 1
    /\ holder'[n] = minted'
    /\ expires'[n] >= now
    /\ Others(n)
    /\ UNCHANGED now

Renew(n) ==
    /\ ~Free(n)
    /\ holder'[n] = holder[n]
    /\ expires'[n] > expires[n]
    /\ Others(n)
    /\ UNCHANGED <<now, minted>>

GiveUp(n) ==
    /\ holder[n] # 0 /\ expires[n] < now
    /\ holder'[n] = 0
    /\ Others(n)
    /\ UNCHANGED <<now, minted>>

\* The NFT of a subname.
MintOther == minted' = minted + 1 /\ UNCHANGED <<now, terms>>

Tick == now' = now + 1 /\ UNCHANGED <<minted, terms>>

Next ==
    \/ \E n \in Names : Grant(n) \/ Renew(n) \/ GiveUp(n)
    \/ MintOther
    \/ Tick

Spec == Init /\ [][Next]_<<now, minted, terms>>
=============================================================================
