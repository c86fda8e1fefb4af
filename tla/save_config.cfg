SPECIFICATION FairSpec
CONSTANTS
  MaxVersion = 4
  MaxFaults = 2
INVARIANTS
  NoLostMark
  CleanExitDurable
  KeysBeforeRecords
PROPERTIES
  MarksPersist
  ShutdownEnds
CHECK_DEADLOCK FALSE
