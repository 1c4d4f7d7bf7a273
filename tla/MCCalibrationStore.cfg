\* Two commands at a time, one refused file operation, the GUI killed once.
CONSTANTS
  t1 = t1
  t2 = t2
  Threads = {t1, t2}
  MaxRequests = 4
  MaxCrashes = 1
  MaxFailures = 1
SPECIFICATION Spec
SYMMETRY Symmetry
INVARIANTS
  SoloConfirmedKept
  AuditTrailUnbroken
