SPECIFICATION Spec
CONSTANTS
  Personas = {p1, p2}
  None = None
  p1 = p1
  p2 = p2
  MaxJoins = 2
  MaxAsks = 2
  Budgets <- Rejoin
INVARIANT
  LiveResolvable
CHECK_DEADLOCK FALSE
