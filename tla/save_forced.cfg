SPECIFICATION Spec
CONSTANTS
  MaxVersion = 3
  MaxFaults = 0
INVARIANT
  ForcedSaveHolds
CHECK_DEADLOCK FALSE
