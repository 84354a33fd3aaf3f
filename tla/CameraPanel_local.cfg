\* Two local devices that always open.
SPECIFICATION Spec
CONSTANTS
  Modes = {0, 1}
  CamOpens <- AlwaysOpens
  IpOpens <- EitherWay
  Boxes = {1, 2, 3, 4, 5}
  MaxTabs = 6
INVARIANTS NeverReadsClosed
PROPERTIES TurnedOnRuns StopsOnlyOnRequest
