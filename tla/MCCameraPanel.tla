--------------------------- MODULE MCCameraPanel ---------------------------
(* Instances of CameraPanel for TLC: what the cameras answer to open().     *)
EXTENDS CameraPanel

AlwaysOpens == [d \in Devices |-> {TRUE}]
MayFail     == [d \in Devices |-> BOOLEAN]
EitherWay   == BOOLEAN
============================================================================
