----------------------------- MODULE MCSocketTable -----------------------------
(* SocketTable for TLC: descriptors for which the table has to grow twice. *)
EXTENDS SocketTable
=============================================================================
