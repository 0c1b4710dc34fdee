--------------------------- MODULE MCSocketWrapper ---------------------------
EXTENDS SocketWrapper, TLC

CONSTANTS small, large, other

\* One frame above the reuse limit, two below it.
MCSize == (small :> 1) @@ (large :> 3) @@ (other :> 2)
=============================================================================
