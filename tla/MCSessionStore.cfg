\* The buffer bound: four-unit buffer, lines of one, two units and of the
\* whole buffer, a physical write that fails once.
CONSTANTS
  FlushEvery = 2
  BufCap = 4
  Sizes = {1, 2, 4}
  MaxLines = 4
  MaxErrors = 1
SPECIFICATION Spec
INVARIANTS
  LossBound
  FooterCountsLines
  InterruptedRecoverable
