------------------------- MODULE MCDeviceRegistry -------------------------
(* Two devices and two identities that may be submitted for either.        *)
EXTENDS DeviceRegistry, TLC

Symmetry == Permutations(Devices) \cup Permutations(Keys)
=============================================================================
