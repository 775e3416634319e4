\* A user starts a run and SIGINT ends it: the program is closed with its threads
\* joinable.
SPECIFICATION Spec
CONSTANTS
  N = 2
  Setups <- User
  MaxEvents = 3
  MaxCommands = 1
  MaxFails = 0
INVARIANTS ClosesProperly
CHECK_DEADLOCK FALSE
