\* Two listings at a time of a recording that grows twice, possibly within
\* one second and beyond what is scanned; one refused file operation; the
\* GUI killed once.
CONSTANTS
  t1 = t1
  t2 = t2
  Threads = {t1, t2}
  MaxBytes = 3
  ScanMaxBytes = 2
  MaxClock = 1
  MaxLists = 2
  MaxCrashes = 1
  MaxFailures = 1
SPECIFICATION Spec
SYMMETRY Symmetry
INVARIANTS
  ReuseIsExact
  ListingCurrent
