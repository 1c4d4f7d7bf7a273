\* A base interval of one second, a boost after two discharge readings for
\* two samples; the helper's deadline is twice its cadence's floor.
CONSTANTS
  None = None
  Selections <- MCSelections
  BaseIv = 2
  HelperEvery = 20
  HelperLimit = 40
  Samples = 3
  BoostAfter = 2
  BoostFor = 2
  ShortCap = 2
  WatchNeeded = 2
  Watts = {2, 6}
  Rates = {0, 3}
  Steps <- MCSteps
  WallSteps <- MCWallSteps
  MaxAdvance = 2
  MaxWallSteps = 1
  MaxQueue = 2
  MaxMessages = 3
SPECIFICATION MonitorSpec
INVARIANTS
  EpisodesPaired
  CadenceRestored
  FootersAgree
