---------------------------- MODULE MCProxyWorker ----------------------------
(* Model values are given in the configuration.                            *)
EXTENDS ProxyWorker

=============================================================================
