--------------------------- MODULE MCDeviceLogin ---------------------------
(* Two devices that may be given the same code one after the other.        *)
EXTENDS DeviceLogin

CONSTANTS c1, c2, d1, d2, u1, u2, p1, p2
=============================================================================
