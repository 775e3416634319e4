\* Two FEMs, three commands, a lost and a duplicated datagram, a failure of sendto.
SPECIFICATION FairSpec
CONSTANTS
  N = 2
  MaxCmds = 3
  MaxLost = 1
  MaxDup = 1
  MaxFails = 1
INVARIANTS TypeOK Lockstep QuietAtPrompt
PROPERTIES SendCommandReturns
CHECK_DEADLOCK FALSE
