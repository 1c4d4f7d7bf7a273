\* Three commands in progress at a time, one refused file operation, the GUI
\* killed once.
CONSTANTS
  t1 = t1
  t2 = t2
  t3 = t3
  Threads = {t1, t2, t3}
  MaxCommands = 5
  MaxCrashes = 1
  MaxFailures = 1
SPECIFICATION Spec
SYMMETRY Symmetry
INVARIANTS
  RecordKept
