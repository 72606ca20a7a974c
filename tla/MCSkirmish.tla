----------------------------- MODULE MCSkirmish -----------------------------
(* Instances of Skirmish for TLC. *)
EXTENDS Skirmish, TLC

CONSTANTS t1, t2, t3, f1, f2

\* Two threads of one process and a process of one thread.
OwnerThreads == (t1 :> f1) @@ (t2 :> f1) @@ (t3 :> f2)

\* One task may wait with depth 2, the others lock and notify.
DeepOps == (t1 :> 3) @@ (t2 :> 2) @@ (t3 :> 1)
=============================================================================
