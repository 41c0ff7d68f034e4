--------------------------- MODULE MCSensorUart ---------------------------
(* Two instances, and a secret of 5 bytes.                                 *)
EXTENDS SensorUart
=============================================================================
