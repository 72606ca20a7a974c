----------------------------- MODULE MCProperty -----------------------------
(* Instances of Property for TLC. *)
EXTENDS Property, TLC

CONSTANTS t1, t2, t3, f1, f2

\* The master has one task, another process has two.
OwnerThreads == t1 :> f1 @@ t2 :> f2 @@ t3 :> f2
=============================================================================
