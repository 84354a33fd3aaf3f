\* A frame of 14 bytes, two frames of configuration, one of trailer; the two
\* timers are fair.
SPECIFICATION FairSpec
CONSTANTS
  Base = 9
  ConfigLen = 14
  SendTicks = 30
  StopTicks = 39
  Fields16 = {4}
  Fields8 = {11}
  Values16 = {9, 100}
  Values8 = {3}
  Coords <- NoCentre
  Junk = {5}
  MaxClicks = 3
INVARIANTS TypeOK RequestHoldsWindow FrameNotTorn
PROPERTIES WindowReturns TransmissionEnds
