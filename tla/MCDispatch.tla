------------------------------ MODULE MCDispatch ------------------------------
(* Dispatch for TLC: descriptors are fewer than connections, so that they  *)
(* are reused by connections of other workers.                             *)
EXTENDS Dispatch
==============================================================================
