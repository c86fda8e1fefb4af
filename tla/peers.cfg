SPECIFICATION PeersSpec
CONSTANTS
  Machines = {"relationships", "vetting"}
  Parties = {a, b}
  None = None
  MaxTasks = 3
  MaxRelationships = 2
  Budgets <- Everything
  MaxRequests = 2
  MaxApplications = 2
  MaxOpened = 2
  MaxFailures = 1
  MaxPost = 2
  MaxOpenRequests = 1
  TicketUses = 2
  Faces = {f1, f2}
  Nothing = Nothing
SYMMETRY Sym
INVARIANTS
  HandshakeCloses
  ChannelsMatch
  VrcRequestsAnswered
  SidesAgree
  OneIdentity
PROPERTIES
  EstablishedSurvivesMessages
  StatementsTaken
CHECK_DEADLOCK FALSE
