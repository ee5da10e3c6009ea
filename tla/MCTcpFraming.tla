----------------------------- MODULE MCTcpFraming -----------------------------
(* TcpFraming for TLC: headers of two bytes, and bodies that are empty,    *)
(* shorter and longer than a header.                                       *)
EXTENDS TcpFraming
==============================================================================
