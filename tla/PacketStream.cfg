\* Two events of each electronics.
SPECIFICATION Spec
CONSTANTS
  Times <- MCTimes
  HitSeqs <- MCHitSeqs
  MaxEvents = 2
INVARIANTS TypeOK EventsExact
CHECK_DEADLOCK FALSE
