SPECIFICATION Spec
CONSTANTS
  Cameras <- Sources
  SizeOf <- Sizes
  MaxCount = 2
  Threshold = 2
  Rates = {0, 1}
  NoPicture = NoPicture
  Width = 3
  MaxTicks = 7
  MaxCodes = 3
INVARIANTS TypeOK NeverIdle ComparesOneCamera ColoursEntriesItHas RateIsCurrent ShowsLastRates
PROPERTIES ShowsAWindow
\* the program may end
CHECK_DEADLOCK FALSE
