--------------------------- MODULE MCLockFreeQueue ---------------------------
(* LockFreeQueue for TLC: fewer addresses than nodes ever allocated, so    *)
(* that freed addresses come back while the consumer is inside consume().  *)
EXTENDS LockFreeQueue
==============================================================================
