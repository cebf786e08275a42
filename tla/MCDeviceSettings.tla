-------------------------- MODULE MCDeviceSettings --------------------------
(* Finite instance of DeviceSettings for TLC. *)
EXTENDS DeviceSettings
=============================================================================
