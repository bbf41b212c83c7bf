---------------------------- MODULE MCWriteQueue ----------------------------
EXTENDS WriteQueue, TLC

CONSTANTS f1, f2, f3, f4, f5

\* One frame fills the byte limit alone, one is too large for it.
MCBytes == f1 :> 1 @@ f2 :> 2 @@ f3 :> 3 @@ f4 :> 1 @@ f5 :> 4
=============================================================================
