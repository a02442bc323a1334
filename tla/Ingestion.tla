------------------------------ MODULE Ingestion ------------------------------
(***************************************************************************)
(* What the indexer promises: every checkpoint is stored at least once,     *)
(* and the progress that survives a restart never passes one that is not.  *)
(* Checkpoints, numbered 1, 2, ..., may be stored ahead of the progress,    *)
(* again, and in any order.                                                *)
(***************************************************************************)
EXTENDS Naturals

VARIABLES stored, progress

\* A checkpoint that leaves nothing to store counts as stored from the start.
Init ==
    /\ stored \subseteq Nat
    /\ progress = 0

Store ==
    /\ stored' \subseteq Nat
    /\ stored \subseteq stored'
    /\ UNCHANGED progress

Advance ==
    /\ progress + 1 \in stored
    /\ progress' = progress + 1
    /\ UNCHANGED stored

Spec == Init /\ [][Store \/ Advance]_<<stored, progress>>

NothingLost == 1..progress \subseteq stored
=============================================================================
