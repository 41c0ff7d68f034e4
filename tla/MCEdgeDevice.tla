--------------------------- MODULE MCEdgeDevice ---------------------------
(* One device and the server, over at most two connections at a time.      *)
EXTENDS EdgeDevice
=============================================================================
