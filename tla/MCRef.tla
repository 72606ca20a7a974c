------------------------------- MODULE MCRef -------------------------------
(* Instances of Ref for TLC. *)
EXTENDS Ref, TLC

CONSTANTS t1, t2, f1, f2

\* Two processes of one task.
OwnerTasks == t1 :> f1 @@ t2 :> f2

\* One task asks twice, the other once.
ThreeOps == t1 :> 2 @@ t2 :> 1
=============================================================================
