-------------------------- MODULE MCDeviceServer --------------------------
(* Instances of DeviceServer for TLC: the runs check liveness or need so few  *)
(* states that they name their connections and use no symmetry.               *)
EXTENDS DeviceServer
===========================================================================
