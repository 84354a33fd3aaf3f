SPECIFICATION Spec
CONSTANTS
  Messages <- Reports
  MaxFrames = 3
  MaxClicks = 4
INVARIANTS TypeOK ShownWasSent RegularLinkShowsAll
\* frames and clicks are bounded
CHECK_DEADLOCK FALSE
