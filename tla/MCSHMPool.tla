----------------------------- MODULE MCSHMPool -----------------------------
(* Instances of SHMPool for TLC. *)
EXTENDS SHMPool, TLC

CONSTANTS f1, f2, f3

\* 512 MB; room for two small pools, or for a large one.
RealBase  == 536870912
SmallSize == 524288 + 2 * 65536 + 1

\* What fits into 64 KB with the page behind it, and a byte more.
EdgeSizes == {61440, 61441}

\* The largest size, in a larger space.
LargeSize == 524288 + 10 * 65536
WrapSizes == {61440, 131071}

FewOps == f1 :> 3 @@ f2 :> 2 @@ f3 :> 1
=============================================================================
