---------------------------- MODULE MCTcpConnection ----------------------------
(* TcpConnection for TLC: bodies that are empty, shorter and longer than a   *)
(* header, and answers longer than the send buffer.                          *)
EXTENDS TcpConnection
==============================================================================
