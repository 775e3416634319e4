\* One run, whose file is found before it has events, and a display in live mode.
SPECIFICATION FairSpec
CONSTANTS
  StepSize = 2
  Decodings <- OneDecoding
  Fired <- MCFired
  MaxFiles = 2
  MaxEvents = 4
  MaxOps = 3
  MaxInvalid = 0
PROPERTIES Follows
CHECK_DEADLOCK FALSE
