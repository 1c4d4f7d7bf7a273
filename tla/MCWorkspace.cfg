\* Two commands, one after the other or at once, over three files, one of which
\* still gets lines, and one refused operation.
CONSTANTS
  None = None
  Corrupt = Corrupt
  Refused = Refused
  MinKnown = 2
  MinCorrelation = 3
  MinBucket = 12
  MinEffective = 2
  MaxRows = 3
  MinRuns = 1
  Paths = {"live", "old", "back"}
  w1 = w1
  w2 = w2
  Workers = {w1, w2}
  Script <- MCScript
  Calibrations = {1, 2}
  Requests <- MCRequests
  InitialSize <- MCInitialSize
  Interval = 8
  CheckpointEvery = 4
  MaxIndexes = 1
  MaxRunEntries = 2
  MaxCommands = 2
  MaxRefusals = 1
SPECIFICATION Spec
CHECK_DEADLOCK FALSE
CONSTRAINT OnePartAtOnce
INVARIANTS
  RegionAgrees
  RegionsAreReal
  SwapMirrors
  ExcludedHeldOut
PROPERTIES
  AnswersAreSnapshots
