\* One run of two FEMs with up to two events, whose end of event is followed
\* by an end of frame word; one frame, or one stop command, may be lost.
SPECIFICATION FairSpec
CONSTANTS
  N = 2
  Parts = 2
  Trailer = TRUE
  Hits <- MCHits
  MaxDrain = 2
  MaxRuns = 1
  MaxEvents = 2
  MaxInFlight = 1
  MaxLost = 1
INVARIANTS InStep EventsAligned
PROPERTIES EventuallyMerged ImplementsEventMerge BuilderStops
CHECK_DEADLOCK FALSE
