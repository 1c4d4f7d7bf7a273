\* Two lines from fifteen, on the same or on successive instants; the third
\* millisecond is one that does not survive the conversion to seconds.
CONSTANTS
  None = None
  Slips = {3}
  StaticClasses = {"hid", "audio"}
  Candidates <- MCCandidates
  MaxLines = 2
  Gaps = {0, 3}
  Cadence = 3
SPECIFICATION Spec
CHECK_DEADLOCK FALSE
INVARIANTS
  RoundTrip
  MergeIsStableSort
