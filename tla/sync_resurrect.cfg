SPECIFICATION Spec
CONSTANTS
  Fields = {f1}
  Scalars = {s1, s2}
  Absent = Absent
  Root = Root
  Devices = {d1, d2}
  NumKeys = 1
  LiveKeys = {}
  PersonaKeys = {}
  NewKinds = {}
  Persona <- NoPersona
  Alien = Alien
  Big = {}
  None = None
  Budgets <- DeferAndReap
SYMMETRY Sym
INVARIANT
  AtRestAgrees
CHECK_DEADLOCK FALSE
