\* What the hints of the window say and the code does not do.
SPECIFICATION Spec
CONSTANTS
  Base = 9
  ConfigLen = 14
  SendTicks = 30
  StopTicks = 39
  Fields16 = {4}
  Fields8 = {11}
  Values16 = {9}
  Values8 = {3}
  Coords <- OneCentre
  Junk = {5}
  MaxClicks = 3
INVARIANT ConfigCarriesFields
