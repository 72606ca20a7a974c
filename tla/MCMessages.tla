----------------------------- MODULE MCMessages -----------------------------
(* Instances of Messages for TLC. *)
EXTENDS Messages, TLC

CONSTANTS d1, t1, t2, f1, f2, c1

\* The master has a dispatcher and a thread, the other process one thread for
\* both.
OwnerTasks == d1 :> f1 @@ t1 :> f1 @@ t2 :> f2

SenderOps == d1 :> 0 @@ t1 :> 1 @@ t2 :> 3
=============================================================================
