SPECIFICATION Spec
CONSTANTS
  Fields = {f1, f2}
  Scalars = {s1, s2}
  Absent = Absent
  Root = Root
  Devices = {d1, d2}
  NumKeys = 1
  LiveKeys = {1}
  PersonaKeys = {}
  NewKinds = {}
  Persona <- NoPersona
  Alien = Alien
  Big = {}
  None = None
  Budgets <- OneRecord
SYMMETRY Sym
INVARIANTS
  BaseHonest
  AtRestAgrees
PROPERTIES
  EditsKeptOrReported
  NewerBuildUntouched
CHECK_DEADLOCK FALSE
