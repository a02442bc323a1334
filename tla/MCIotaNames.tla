----------------------------- MODULE MCIotaNames -----------------------------
(***************************************************************************)
(* Small instances of IotaNames: one second-level name, a subname of it     *)
(* and, where the chain matters, a subname of the subname.                 *)
(***************************************************************************)
EXTENDS IotaNames

CONSTANTS sln, sub, deep, alice, bob, avatar

\* sub.sln.iota, and deep.sub.sln.iota where the run has it.
MCParent == [n \in Subs |-> IF n = sub THEN sln ELSE sub]

\* The labels below the top level, each named for the name that adds it.
MCLabelsOf ==
    [n \in Names |-> {m \in Labels :
        m = n \/ m = sln \/ (m = sub /\ n = deep)}]
=============================================================================
