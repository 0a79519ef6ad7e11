-------------------------- MODULE MCLifecycleTick --------------------------
(***************************************************************************)
(* Instance of LifecycleTick for TLC.  Two trends are enough for a batch   *)
(* to be applied to one trend and lost to the other.  Two batches are      *)
(* enough for a trend to be proposed by one and retired by the other, and, *)
(* for a trend that starts with an old proposal, to be retired by one with *)
(* a batch to spare.                                                       *)
(***************************************************************************)
EXTENDS LifecycleTick
=============================================================================
