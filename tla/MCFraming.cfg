CONSTANTS
  Base = 3
  MaxPayload = 3
  Version = 1
  Versions = {1, 2}
  Scripts <- MCScripts
SPECIFICATION FairSpec
INVARIANTS FileFromItsStart LimitIsExact
PROPERTIES DeliversInOrder EveryReadEnds
CHECK_DEADLOCK FALSE
