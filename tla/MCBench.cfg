\* Two screens, four recorded sessions, experiments of one to three
\* repetitions; two commands.
CONSTANTS
  None = None
  auo = auo
  del = del
  MinKnown = 2
  MinCorrelation = 3
  MinBucket = 12
  MinWindow = 3
  MaxWindow = 6
  MinSettle = 1
  MaxSettle = 2
  MissedTicks = 2
  MinValidation = 4
  HoldOutEvery = 3
  Shape <- MCShape
  Numerals = {"4", "40", "41", "42", "43", "47"}
  OneChar = {"q"}
  Builtin <- MCBuiltin
  Panels = {auo, del}
  Machine = "pc"
  Host <- MCHost
  User <- MCUser
  Saved <- MCSaved
  Worlds <- MCWorlds
  Repetitions = {1, 2, 3}
  Settles = {0, 2}
  Sweeps <- MCSweeps
  Forms <- MCForms
  BlockLength = 5
  MaxCommands = 2
SYMMETRY Screens
SPECIFICATION BenchSpec
CHECK_DEADLOCK FALSE
INVARIANTS
  DriftCancels
  OwnPanelOnly
  SwapMirrored
  HoldOutIsHonest
  RedactedHides
