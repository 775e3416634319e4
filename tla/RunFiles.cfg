\* Three fopen, two runs of up to four events in all, one kill; the numbers 0 and
\* 1 are found on disk, the number 2 has too many digits.
SPECIFICATION Spec
CONSTANTS
  CheckEvery = 2
  SaveEvery = 3
  SaveAfter = 1
  LastRun = 1
  MaxOpens = 3
  MaxRuns = 2
  MaxEvents = 4
  MaxTime = 2
  MaxKills = 1
INVARIANTS TypeOK FilesPartition TimesBracket KillLosesLittle
PROPERTIES ImplementsDirectory
CHECK_DEADLOCK FALSE
