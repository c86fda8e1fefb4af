SPECIFICATION Spec
CONSTANTS
  Machines = {"elections"}
  MinGap = 2
  PullEvery = 4
  BackoffStart = 3
  BackoffMax = 8
  Parked = 3
  PerTick = 1
  GapCap = 3
  MaxResends = 1
  MaxChanges = 2
  Procs = {p1, p2, p3}
  NoFile = NoFile
  Empty = Empty
  Personas = {a, b}
  Vtcs = {x, y}
  MaxSessions = 1
  Capacity = 1
  MaxMoves = 2
  MaxFlaps = 1
  MaxTimers = 2
  Ballots = {"agm", "fed"}
  Homes = {"club"}
  HeldBy <- ClubAndFederation
  Audience <- ClubMembers
  Questions <- OneQuestion
  MaxTurns = 4
  None = None
CHECK_DEADLOCK FALSE
INVARIANT
  CastToItsBox
