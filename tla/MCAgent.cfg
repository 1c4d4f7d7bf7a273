CONSTANTS
  PendingCap = 1
  IoFails = {"create", "header", "event", "sample", "footer"}
  MaxMarkers = 2
  MaxSamples = 2
SPECIFICATION Spec
INVARIANTS
  PauseFreezes
  MarkersConserved
  BeforeStopRecorded
PROPERTIES
  StopTerminates
