------------------------- MODULE MCDeviceConnection -------------------------
(***************************************************************************)
(* Instances of DeviceConnection for TLC.                                  *)
(***************************************************************************)
EXTENDS DeviceConnection

CONSTANTS s1, s2, s3, s4

FourSockets == {s1, s2, s3, s4}

TwoSockets == {s1, s2}
=============================================================================
