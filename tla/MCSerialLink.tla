---------------------------- MODULE MCSerialLink ----------------------------
(* Instances of SerialLink for TLC: the circle centres the detector may     *)
(* report, already scaled.                                                  *)
EXTENDS SerialLink

OneCentre == {<<9, 12>>}
NoCentre  == {}
=============================================================================
