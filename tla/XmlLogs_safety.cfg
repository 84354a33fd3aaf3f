SPECIFICATION Spec
CONSTANTS
  Paths <- Names
  Writable = {"circle.xml", "motion.xml"}
  CirclePath = "circle.xml"
  MotionPath = "motion.xml"
  NoName = ""
  MaxTicks = 3
  MaxRuns = 2
  MaxClicks = 3
INVARIANTS TypeOK IntactLog EntriesInOrder BeginsWithHeader
\* every counter is bounded
CHECK_DEADLOCK FALSE
