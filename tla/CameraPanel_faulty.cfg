\* One local device and an IP camera, each of which may fail to open.
SPECIFICATION Spec
CONSTANTS
  Modes = {0, 2}
  CamOpens <- MayFail
  IpOpens <- EitherWay
  Boxes = {1, 2, 3, 4}
  MaxTabs = 5
INVARIANTS TypeOK NoStrayTimer ListMirrorsBoxes ControlsReachable ButtonsNeedFeature SourceMatchesMode
PROPERTIES LeaseSpec
