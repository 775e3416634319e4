\* Up to three files with four events, and any four steps of a user.
SPECIFICATION FairSpec
CONSTANTS
  StepSize = 2
  Decodings <- MCDecodings
  Fired <- MCFired
  MaxFiles = 3
  MaxEvents = 4
  MaxOps = 4
  MaxInvalid = 1
INVARIANTS TypeOK ShownInOrder HistogramsMatch CountsMatch
PROPERTIES FollowsOrWaits
CHECK_DEADLOCK FALSE
