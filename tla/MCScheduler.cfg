\* Two workers, one of which may block for ever, and a channel that one
\* message fills.
CONSTANTS
  w1 = w1
  w2 = w2
  Workers = {w1, w2}
  MayBlock = {w1}
  Capacity = 1
SPECIFICATION Spec
INVARIANTS
  InFlightAccounted
  MarkCoversBacklog
  OnlyEndedAreJoined
PROPERTIES
  RespondersFinish
  ShutdownReturns
