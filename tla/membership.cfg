SPECIFICATION FairSpec
CONSTANTS
  Personas = {p1, p2}
  None = None
  p1 = p1
  p2 = p2
  MaxJoins = 2
  MaxAsks = 2
  Budgets <- All
INVARIANTS
  AdmittedByCredential
  LiveResolvable
PROPERTIES
  AnswersFindTheirJoin
  KeepsLifecycle
  ApprovedJoinCompletes
CHECK_DEADLOCK FALSE
