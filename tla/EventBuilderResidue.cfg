\* Two runs of two FEMs, no loss: the first run may be stopped when only one
\* FEM has closed its event.
SPECIFICATION Spec
CONSTANTS
  N = 2
  Parts = 1
  Trailer = FALSE
  Hits <- MCHits
  MaxDrain = 2
  MaxRuns = 2
  MaxEvents = 1
  MaxInFlight = 1
  MaxLost = 0
INVARIANTS RunsSeparate
CHECK_DEADLOCK FALSE
