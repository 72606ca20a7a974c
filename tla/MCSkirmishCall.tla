--------------------------- MODULE MCSkirmishCall ---------------------------
(* Instances of SkirmishCall for TLC. *)
EXTENDS SkirmishCall

CONSTANTS t1, t2, t3, f1, f2, f3

\* t1 is a client, t2 dispatches for f2, t3 for f3 or only locks.
Owners == t1 :> f1 @@ t2 :> f2 @@ t3 :> f3

\* Call 1 goes to f2, call 2 to f3, also from inside a call to f2.
Callees    == 1 :> f2 @@ 2 :> f3
AllCallers == 1 :> {t1} @@ 2 :> {t1, t2}

\* Acquiring calls of each task.
TwoOps == [t \in Tasks |-> 2]

\* A single call from t1 to f2.
OneCallee == 1 :> f2
OneCaller == 1 :> {t1}
=============================================================================
