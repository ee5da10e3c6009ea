-------------------------------- MODULE MCGsdm --------------------------------
(* Gsdm for TLC: sockets so small that senders block.                      *)
EXTENDS Gsdm
=============================================================================
