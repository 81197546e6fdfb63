--------------------------- MODULE MCDeviceGrant ---------------------------
(* Two users and three requests in flight, of one device.                  *)
EXTENDS DeviceGrant

CONSTANTS r1, u1, u2, p1, p2, p3, openid, email
=============================================================================
