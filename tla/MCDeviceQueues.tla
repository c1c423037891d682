---------------------------- MODULE MCDeviceQueues ----------------------------
(***************************************************************************)
(* DeviceQueues for TLC.  The .cfg files choose the server and the bounds. *)
(***************************************************************************)
EXTENDS DeviceQueues
===============================================================================
