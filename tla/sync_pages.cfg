SPECIFICATION FairSpec
CONSTANTS
  Fields = {f1}
  Scalars = {s1, s2}
  Absent = Absent
  Root = Root
  Devices = {d1, d2}
  NumKeys = 3
  LiveKeys = {2}
  PersonaKeys = {1}
  NewKinds = {3}
  Persona <- FirstIsPersona
  Alien = Alien
  Big <- OneBig
  None = None
  Budgets <- TwoRecords
INVARIANT
  NothingSkipped
PROPERTY
  Converges
CHECK_DEADLOCK FALSE
