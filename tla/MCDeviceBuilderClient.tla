----------------------- MODULE MCDeviceBuilderClient -----------------------
(***************************************************************************)
(* Small instances of DeviceBuilderClient for TLC.                         *)
(***************************************************************************)
EXTENDS DeviceBuilderClient, TLC

Symmetric == Permutations(Callers) \cup Permutations(Conns)
=============================================================================
