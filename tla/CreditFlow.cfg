\* Losses enough to stall a run, duplicates, and a second run that starts
\* over the frames the first one left behind.
SPECIFICATION FairSpec
CONSTANTS
  Window = 5
  Thr = 2
  SeqSize = 3
  MaxRuns = 2
  MaxLost = 6
  MaxDup = 2
INVARIANTS Conservation NoOverrun StallOnlyByLoss
PROPERTIES KeepsRequesting
CHECK_DEADLOCK FALSE
