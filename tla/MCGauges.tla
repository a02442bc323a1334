------------------------------ MODULE MCGauges ------------------------------
(***************************************************************************)
(* A second-level name and a subname of it, and every gauge they move.      *)
(***************************************************************************)
EXTENDS Gauges

CONSTANTS sln, sub, alice, avatar

MCParent == [n \in Subs |-> sln]
MCLabelsOf == [n \in Names |-> {sln, n} \cap Labels]
MCDepth == [n \in Names |-> IF n \in Slns THEN 2 ELSE 3]
MCSlnLength == [n \in Names |-> 5]

MCTracked ==
    {<<"depth_distribution", 2>>, <<"depth_distribution", 3>>, <<"length_distribution", 5>>,
     <<"user_data_distribution", avatar>>}
        \cup ({"default_names", "node_subnames", "leaf_subnames"} \X {NoLabel})
=============================================================================
