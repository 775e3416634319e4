\* A script of two runs or any four commands of a user, two sendto errors, and
\* SIGINT at any time.
SPECIFICATION FairSpec
CONSTANTS
  N = 3
  Setups <- ScriptOrUser
  MaxEvents = 5
  MaxCommands = 4
  MaxFails = 2
INVARIANTS NoPrematureEnd NoRequestAfterStop ScriptsClose
PROPERTIES RunsDoNotOverlap RunsEnd
CHECK_DEADLOCK FALSE
