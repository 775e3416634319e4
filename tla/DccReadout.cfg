\* Two runs with up to two triggers, two requests of two packets each, the
\* loss of a command or reply, an error reply, a limit and an abort.
SPECIFICATION FairSpec
CONSTANTS
  Pre = 1
  Requests = 2
  Packets = 2
  MaxDrain = 2
  MaxRuns = 2
  MaxTriggers = 2
  MaxLost = 1
  MaxErrs = 1
INVARIANTS EventsWhole ReplyMatches OneMoreEvent QuietRunsPure DrainsData
PROPERTIES AbortHonoured
CHECK_DEADLOCK FALSE
