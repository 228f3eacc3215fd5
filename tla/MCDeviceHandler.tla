--------------------------- MODULE MCDeviceHandler ---------------------------
(* DeviceHandler for TLC; the configurations give the bounds. *)
EXTENDS DeviceHandler
=============================================================================
