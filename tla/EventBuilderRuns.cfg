\* Two runs of two FEMs, all of whose events have signals: a single run with up to
\* three events, of which two frames or stop commands may be lost, or two runs with
\* one event and one loss (OneLongRun).
SPECIFICATION Spec
CONSTANTS
  N = 2
  Parts = 2
  Trailer = FALSE
  Hits <- AllHits
  MaxDrain = 2
  MaxRuns = 2
  MaxEvents = 3
  MaxInFlight = 1
  MaxLost = 2
CONSTRAINT OneLongRun
INVARIANTS ScanResumes QuietRunsPure DrainsQuietData ShiftedByLosses
CHECK_DEADLOCK FALSE
